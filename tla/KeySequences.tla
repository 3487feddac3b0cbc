---------------------------- MODULE KeySequences ----------------------------
(***************************************************************************)
(* The pure part of the daemon: operations on key sequences               *)
(* (sequencehelpers_p.cpp), the comparisons GlobalShortcutContext makes    *)
(* with them, and the four-chord buffer GlobalShortcutsRegistry::processKey*)
(* matches against.                                                        *)
(*                                                                         *)
(* A QKeySequence holds at most four combined key codes.  A code is        *)
(* modelled as a chord: the set of its modifier bits and its key symbol.   *)
(* The symbol NoSym is key code 0: a chord of modifiers alone.             *)
(***************************************************************************)
EXTENDS Naturals, Sequences

Seqs == INSTANCE SequencesExt

MaxSequenceLength == 4

Modifiers == {"Shift", "Control", "Alt", "Meta"}

NoSym == "0"

Chord(mods, sym) == [mods |-> mods, sym |-> sym]

(***************************************************************************)
(* QKeySequence::matches (Qt): how much of seq has been typed once key     *)
(* has been typed.                                                         *)
(***************************************************************************)
Matches(key, seq) ==
    IF ~Seqs!IsPrefix(key, seq)      THEN "NoMatch"
    ELSE IF Len(key) = Len(seq)      THEN "Exact"
    ELSE                                  "Partial"

ReverseKey(key) == Seqs!Reverse(key)

\* The key without its first n chords; empty if it has fewer.
CropKey(key, n) == IF n < 1 THEN key ELSE SubSeq(key, n + 1, Len(key))

\* Broken: for the comparison from the end, only one key is reversed.
ContainsKeyHalfReversed(key, other) ==
    LET minLength == IF Len(key) < Len(other) THEN Len(key) ELSE Len(other)
    IN  /\ minLength > 0
        /\ \E i \in 0 .. Len(other) - minLength :
              LET cropped == CropKey(other, i)
              IN  \/ Matches(key, cropped) = "Partial"
                  \/ Matches(ReverseKey(key), cropped) = "Partial"

ContainsKey(key, other) ==
    LET minLength == IF Len(key) < Len(other) THEN Len(key) ELSE Len(other)
    IN  /\ minLength > 0
        /\ \E i \in 0 .. Len(other) - minLength :
              LET cropped == CropKey(other, i)
              IN  \/ Matches(key, cropped) = "Partial"
                  \/ Matches(ReverseKey(key), ReverseKey(cropped)) = "Partial"

\* Broken: a key that contains the other is not looked for.
MatchSequencesOneWay(key, keys) ==
    \E i \in DOMAIN keys :
        /\ keys[i] # <<>>
        /\ Matches(key, keys[i]) = "Exact" \/ ContainsKey(key, keys[i])

\* Whether a key collides with a key of the list; raw chords are compared.
MatchSequences(key, keys) ==
    \E i \in DOMAIN keys :
        /\ keys[i] # <<>>
        /\ \/ Matches(key, keys[i]) = "Exact"
           \/ ContainsKey(key, keys[i])
           \/ ContainsKey(keys[i], key)

(***************************************************************************)
(* Modifier keys.                                                          *)
(***************************************************************************)
KeyToModifier(sym) ==
    IF sym \in {"Meta", "Super_L", "Super_R"} THEN {"Meta"}
    ELSE Modifiers \cap {sym}

\* Modifiers alone: what keyEvent gives processKey, and how clients name it.
ModifierOnly(chord) == chord.sym \in Modifiers \cup {NoSym}

NormalizeKey(chord) ==
    IF chord.sym \in Modifiers
    THEN Chord(chord.mods \cup {chord.sym}, NoSym)
    ELSE chord

NormalizeSequence(key) ==
    [i \in DOMAIN key |->
        IF "Shift" \in key[i].mods /\ key[i].sym \in {"Backtab", "Tab"}
        THEN Chord(key[i].mods, "Tab")
        ELSE NormalizeKey(key[i])]

(***************************************************************************)
(* The lookups of GlobalShortcutContext.                                   *)
(***************************************************************************)

\* Does a lookup for key with this KGlobalAccel::MatchType stop at other?
Finds(type, key, other) ==
    LET k == NormalizeSequence(key)
        o == NormalizeSequence(other)
    IN  /\ key # <<>>
        /\ \/ type = "Equal"    /\ o = k
           \/ type = "Shadows"  /\ other # <<>> /\ ContainsKey(k, o)
           \/ type = "Shadowed" /\ other # <<>> /\ ContainsKey(o, k)

\* Broken: a key is not compared with the longer keys that contain it.
ClashesNotShadows(key, other) ==
    \E type \in {"Equal", "Shadowed"} : Finds(type, key, other)

\* GlobalShortcut::setKeys drops a key that another key clashes with.
Clashes(key, other) ==
    \E type \in {"Equal", "Shadowed", "Shadows"} : Finds(type, key, other)

(***************************************************************************)
(* The buffer of recently typed chords.                                    *)
(***************************************************************************)

\* Broken: a full buffer grows, or is emptied.
PushKeyGrows(buffer, chord) == Append(buffer, chord)

PushKeyEmpties(buffer, chord) ==
    Append(IF Len(buffer) = MaxSequenceLength THEN <<>> ELSE buffer, chord)

\* Append a chord, dropping the oldest one of a full buffer.
PushKey(buffer, chord) ==
    Append(IF Len(buffer) = MaxSequenceLength THEN Tail(buffer) ELSE buffer,
           chord)

\* The last n chords of the buffer, the n-th sequence processKey looks up.
LastChords(buffer, n) == SubSeq(buffer, Len(buffer) - n + 1, Len(buffer))
=============================================================================
