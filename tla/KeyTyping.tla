------------------------------ MODULE KeyTyping ------------------------------
(***************************************************************************)
(* Which key sequences may coexist, and what typing them does.  First some *)
(* keys are assigned, each through the conflict filter of setKeys; then a  *)
(* user types any chords, and processKey looks for a shortcut after each.  *)
(* Shortcuts, contexts and grabs are left to module Registry.              *)
(***************************************************************************)
EXTENDS KeySequences, FiniteSets

CONSTANTS
    Pool,      \* the key sequences clients ask for
    Typeable,  \* the chords the user types
    MaxTaken,  \* bound: keys assigned
    MaxTyped   \* bound: chords typed in a row that trigger nothing

KeyCodes == [mods : SUBSET Modifiers, sym : STRING]

ASSUME PoolAssumption ==
    \A key \in Pool : key \in Seq(KeyCodes) /\ Len(key) \in 1 .. MaxSequenceLength

ASSUME TypeableAssumption == Typeable \subseteq KeyCodes /\ MaxTyped \in Nat

VARIABLES
    taken,     \* the keys assigned to shortcuts
    buffer,    \* _active_sequence
    fired,     \* the key that the last chord completed, or <<>>
    typed      \* ghost: every chord typed since the last trigger

vars == <<taken, buffer, fired, typed>>

TypeOK ==
    /\ taken \subseteq Pool
    /\ buffer \in UNION {[1 .. n -> Typeable] : n \in 0 .. MaxSequenceLength}
    /\ fired \in taken \cup {<<>>}
    /\ Len(typed) \in 0 .. MaxTyped

Init ==
    /\ taken = {}
    /\ buffer = <<>>
    /\ fired = <<>>
    /\ typed = <<>>

Assign(key) ==
    /\ typed = <<>>
    /\ Cardinality(taken) < MaxTaken
    /\ \A other \in taken : ~Clashes(key, other)
    /\ taken' = taken \cup {key}
    /\ UNCHANGED <<buffer, fired, typed>>

\* The keys a lookup of the last n chords finds.
Hits(sequence, n) ==
    {k \in taken : Finds("Equal", LastChords(sequence, n), k)}

Type(chord) ==
    LET sequence == PushKey(buffer, chord)
        lengths  == {n \in 1 .. Len(sequence) : Hits(sequence, n) # {}}
    IN  /\ typed' = IF fired # <<>> THEN <<chord>> ELSE Append(typed, chord)
        /\ Len(typed') <= MaxTyped
        /\ \/ /\ lengths = {}
              /\ buffer' = sequence
              /\ fired' = <<>>
           \/ \E n \in lengths :
              /\ \A m \in lengths : n <= m
              /\ fired' \in Hits(sequence, n)
              /\ buffer' = <<>>
        /\ UNCHANGED taken

Next ==
    \/ \E key \in Pool : Assign(key)
    \/ \E chord \in Typeable : Type(chord)

Spec == Init /\ [][Next]_vars
-----------------------------------------------------------------------------
(***************************************************************************)
(* Reference definitions, by positions in a sequence.                      *)
(***************************************************************************)

\* key, as the user experiences it, stands in seq ending at position n.
EndsAt(key, seq, n) ==
    LET k == NormalizeSequence(key)
        s == NormalizeSequence(seq)
    IN  /\ Len(k) \in 1 .. n
        /\ \A i \in 1 .. Len(k) : k[i] = s[n - Len(k) + i]

\* Typing seq from an empty buffer triggers key on the way or at the end.
Triggers(key, seq) == \E n \in 1 .. Len(seq) : EndsAt(key, seq, n)

(***************************************************************************)
(* However long the user has typed, a chord triggers exactly the assigned  *)
(* key that the chords typed since the last trigger end with: the rotating *)
(* buffer of four chords forgets nothing that matters, finds nothing that  *)
(* was not typed, and never has to choose between two keys                 *)
(* (GlobalShortcutsRegistry::processKey).                                  *)
(***************************************************************************)
TriggersWhatWasTyped ==
    {k \in taken : EndsAt(k, typed, Len(typed))}
        = IF fired = <<>> THEN {} ELSE {fired}

(***************************************************************************)
(* No assigned key is dead: typing it from an empty buffer triggers no     *)
(* other key on the way, so it is itself triggered at its last chord.      *)
(* This is what the filter in GlobalShortcut::setKeys is for.              *)
(***************************************************************************)
NoDeadKey ==
    \A k, other \in taken : other # k => ~Triggers(other, k)

(***************************************************************************)
(* The filter of GlobalShortcut::setKeys refuses a key for a reason: one   *)
(* of the two keys would be triggered while typing the other.              *)
(***************************************************************************)
RefusalsAreJustified ==
    \A k \in Pool, other \in taken :
        Clashes(k, other) => Triggers(k, other) \/ Triggers(other, k)

\* The two keys name one chord by two codes: Shift+Tab and Shift+Backtab, or
\* a modifier as a key and as a modifier without key.
DifferentCodes(key, other) ==
    \E i \in DOMAIN key, j \in DOMAIN other :
        /\ key[i] # other[j]
        /\ NormalizeSequence(key)[i] = NormalizeSequence(other)[j]

(***************************************************************************)
(* globalShortcutAvailable compares raw chords (Utils::matchSequences),    *)
(* the filter of GlobalShortcut::setKeys normalised ones.  So the query    *)
(* errs on one side only: a key it reports taken is refused, and one that  *)
(* it reports free may still be refused, but only where the two keys name  *)
(* a chord by two codes.                                                   *)
(***************************************************************************)
QueryErrsOnlyOnCodes ==
    \A k \in Pool, other \in taken :
        /\ MatchSequences(k, <<other>>) => Clashes(k, other)
        /\ Clashes(k, other) => \/ MatchSequences(k, <<other>>)
                                \/ DifferentCodes(k, other)
=============================================================================
