---------------------------- MODULE MCKeyTyping ----------------------------
(***************************************************************************)
(* An instance of KeyTyping for TLC.                                       *)
(***************************************************************************)
EXTENDS KeyTyping

shiftTab == Chord({"Shift"}, "Tab")
shiftBacktab == Chord({"Shift"}, "Backtab")
metaKey == Chord({}, "Meta")     \* the key Meta as a settings dialog records it
metaOnly == Chord({"Meta"}, NoSym)  \* what processKey is given for it, and the
                                    \* other way clients record it

SequencesOf(chords, lengths) == UNION {[1 .. n -> chords] : n \in lengths}

\* Every sequence of up to three chords; every way to record two chords that
\* have two codes; and long sequences, which fill the buffer.
MCPool ==
    SequencesOf({metaKey, shiftTab}, 1 .. 3)
        \cup SequencesOf({shiftTab, shiftBacktab}, 1 .. 2)
        \cup SequencesOf({metaKey, metaOnly}, 1 .. 2)
        \cup {<<metaOnly, shiftTab, metaOnly>>,
              <<metaOnly, shiftBacktab>>,
              <<shiftBacktab, metaKey, shiftTab>>,
              <<metaKey, shiftTab, metaKey, shiftTab>>,
              <<metaKey, metaKey, metaKey, metaKey>>,
              <<metaKey, metaKey, metaKey, shiftTab>>,
              <<shiftTab, metaKey, metaKey, shiftBacktab>>}

MCTypeable == {shiftTab, shiftBacktab, metaOnly}
=============================================================================
