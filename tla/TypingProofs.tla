---------------------------- MODULE TypingProofs ----------------------------
(***************************************************************************)
(* Proofs about module KeyTyping, for any pool of key sequences, any       *)
(* chords and any length of typing: the conflict filter of setKeys refuses *)
(* what it should, and the buffer of four chords finds what was typed.     *)
(***************************************************************************)
EXTENDS KeyTyping, SequenceTheorems, TLAPS

\* x stands in y, ending at position n.
Stands(x, y, n) ==
    /\ Len(x) \in 1 .. n
    /\ \A i \in 1 .. Len(x) : x[i] = y[n - Len(x) + i]

-----------------------------------------------------------------------------
(***************************************************************************)
(* One sequence in another.                                                *)
(***************************************************************************)

\* A key is a prefix of a sequence, or of what is left of it.
LEMMA PrefixForm ==
    ASSUME NEW S, NEW x \in Seq(S), NEW y \in Seq(S)
    PROVE  Matches(x, y) = "Partial"
             <=> Len(x) < Len(y) /\ \A i \in 1 .. Len(x) : x[i] = y[i]
<1>1. Len(x) \in Nat /\ Len(y) \in Nat
  OBVIOUS
<1>2. ASSUME Len(x) <= Len(y)
      PROVE  SubSeq(x, 1, Len(x)) = SubSeq(y, 1, Len(x))
               <=> \A i \in 1 .. Len(x) : x[i] = y[i]
  <2>1. /\ SubSeq(x, 1, Len(x)) \in Seq(S) /\ Len(SubSeq(x, 1, Len(x))) = Len(x)
        /\ \A i \in 1 .. Len(x) : SubSeq(x, 1, Len(x))[i] = x[i]
    BY <1>1
  <2>2. /\ SubSeq(y, 1, Len(x)) \in Seq(S) /\ Len(SubSeq(y, 1, Len(x))) = Len(x)
        /\ \A i \in 1 .. Len(x) : SubSeq(y, 1, Len(x))[i] = y[i]
    BY <1>1, <1>2
  <2>3. (\A i \in 1 .. Len(x) : x[i] = y[i])
          => SubSeq(x, 1, Len(x)) = SubSeq(y, 1, Len(x))
    BY <2>1, <2>2, SeqEqual
  <2> QED
    BY <2>1, <2>2, <2>3
<1>3. Matches(x, y) = "Partial"
        <=> /\ Len(x) <= Len(y) /\ Len(x) # Len(y)
            /\ SubSeq(x, 1, Len(x)) = SubSeq(y, 1, Len(x))
  BY DEF Matches, Seqs!IsPrefix
<1> QED
  BY <1>1, <1>2, <1>3

LEMMA ReverseForm ==
    ASSUME NEW S, NEW x \in Seq(S)
    PROVE  /\ ReverseKey(x) \in Seq(S)
           /\ Len(ReverseKey(x)) = Len(x)
           /\ \A i \in 1 .. Len(x) : ReverseKey(x)[i] = x[(Len(x) - i) + 1]
<1>1. Len(x) \in Nat
  OBVIOUS
<1>2. \A i \in 1 .. Len(x) : x[(Len(x) - i) + 1] \in S
  <2>1. \A i \in 1 .. Len(x) : (Len(x) - i) + 1 \in 1 .. Len(x)
    BY <1>1
  <2> QED
    BY <2>1
<1>3. ReverseKey(x) = [i \in 1 .. Len(x) |-> x[(Len(x) - i) + 1]]
  BY DEF ReverseKey, Seqs!Reverse
<1> QED
  BY <1>1, <1>2, <1>3

LEMMA CropForm ==
    ASSUME NEW S, NEW y \in Seq(S), NEW n \in 0 .. Len(y)
    PROVE  /\ CropKey(y, n) \in Seq(S)
           /\ Len(CropKey(y, n)) = Len(y) - n
           /\ \A i \in 1 .. Len(y) - n : CropKey(y, n)[i] = y[n + i]
<1>1. CASE n < 1
  <2>1. n = 0
    BY <1>1
  <2> QED
    BY <1>1, <2>1 DEF CropKey
<1>2. CASE ~(n < 1)
  BY <1>2 DEF CropKey
<1> QED
  BY <1>1, <1>2

\* A key contains another where the other stands in it.
LEMMA ContainsForm ==
    ASSUME NEW S, NEW x \in Seq(S), NEW y \in Seq(S), Len(x) >= 1, Len(y) >= 1
    PROVE  ContainsKey(x, y)
             <=> Len(x) < Len(y) /\ \E n \in 1 .. Len(y) : Stands(x, y, n)
<1> DEFINE least == IF Len(x) < Len(y) THEN Len(x) ELSE Len(y)
<1>1. Len(x) \in Nat /\ Len(y) \in Nat /\ least \in 1 .. Len(y) /\ least <= Len(x)
  OBVIOUS
<1>2. ContainsKey(x, y)
        <=> \E i \in 0 .. Len(y) - least :
              \/ Matches(x, CropKey(y, i)) = "Partial"
              \/ Matches(ReverseKey(x), ReverseKey(CropKey(y, i))) = "Partial"
  BY <1>1 DEF ContainsKey
<1>3. ASSUME NEW i \in 0 .. Len(y), Matches(x, CropKey(y, i)) = "Partial"
      PROVE  Len(x) < Len(y) /\ Stands(x, y, i + Len(x)) /\ i + Len(x) \in 1 .. Len(y)
  <2>1. /\ CropKey(y, i) \in Seq(S) /\ Len(CropKey(y, i)) = Len(y) - i
        /\ \A j \in 1 .. Len(y) - i : CropKey(y, i)[j] = y[i + j]
    BY CropForm
  <2>2. Len(x) < Len(y) - i /\ \A j \in 1 .. Len(x) : x[j] = CropKey(y, i)[j]
    BY <1>3, <2>1, PrefixForm
  <2>3. \A j \in 1 .. Len(x) : x[j] = y[i + j]
    BY <1>1, <2>1, <2>2
  <2> DEFINE n == i + Len(x)
  <2>4. \A j \in 1 .. Len(x) : n - Len(x) + j = i + j
    BY <1>1
  <2>5. n \in 1 .. Len(y) /\ Len(x) \in 1 .. n
    BY <1>1, <2>2
  <2> HIDE DEF n
  <2>6. \A j \in 1 .. Len(x) : x[j] = y[n - Len(x) + j]
    BY <2>3, <2>4
  <2>7. Stands(x, y, n)
    BY <2>5, <2>6 DEF Stands
  <2>8. Len(x) < Len(y)
    BY <1>1, <2>2
  <2> QED
    BY <2>5, <2>7, <2>8 DEF n
<1>4. ASSUME NEW i \in 0 .. Len(y),
             Matches(ReverseKey(x), ReverseKey(CropKey(y, i))) = "Partial"
      PROVE  Len(x) < Len(y) /\ Stands(x, y, Len(y))
  <2> DEFINE c == CropKey(y, i)
  <2>1. /\ c \in Seq(S) /\ Len(c) = Len(y) - i
        /\ \A j \in 1 .. Len(y) - i : c[j] = y[i + j]
    BY CropForm
  <2> HIDE DEF c
  <2>2. /\ ReverseKey(x) \in Seq(S) /\ Len(ReverseKey(x)) = Len(x)
        /\ \A j \in 1 .. Len(x) : ReverseKey(x)[j] = x[(Len(x) - j) + 1]
    BY ReverseForm
  <2>3. /\ ReverseKey(c) \in Seq(S) /\ Len(ReverseKey(c)) = Len(c)
        /\ \A j \in 1 .. Len(c) : ReverseKey(c)[j] = c[(Len(c) - j) + 1]
    BY <2>1, ReverseForm
  <2>4. Matches(ReverseKey(x), ReverseKey(c)) = "Partial"
    BY <1>4 DEF c
  <2>5. Len(x) < Len(c) /\ \A j \in 1 .. Len(x) : ReverseKey(x)[j] = ReverseKey(c)[j]
    BY <2>2, <2>3, <2>4, PrefixForm
  <2>6. ASSUME NEW j \in 1 .. Len(x)
        PROVE  x[j] = y[Len(y) - Len(x) + j]
    <3> DEFINE m == (Len(x) - j) + 1
    <3>1. m \in 1 .. Len(x) /\ (Len(x) - m) + 1 = j /\ m \in 1 .. Len(c)
      BY <1>1, <2>1, <2>5
    <3>2. x[j] = ReverseKey(c)[m]
      BY <2>2, <2>5, <3>1
    <3>3. ReverseKey(c)[m] = c[(Len(c) - m) + 1]
      BY <2>3, <3>1
    <3>4. /\ (Len(c) - m) + 1 \in 1 .. Len(y) - i
          /\ i + ((Len(c) - m) + 1) = Len(y) - Len(x) + j
      BY <1>1, <2>1, <3>1
    <3> QED
      BY <2>1, <3>2, <3>3, <3>4
  <2> QED
    BY <1>1, <2>1, <2>5, <2>6 DEF Stands
<1>5. ASSUME Len(x) < Len(y), NEW n \in 1 .. Len(y), Stands(x, y, n), n < Len(y)
      PROVE  ContainsKey(x, y)
  <2> DEFINE i == n - Len(x)
  <2>1. Len(x) \in 1 .. n /\ \A j \in 1 .. Len(x) : x[j] = y[i + j]
    BY <1>5 DEF Stands
  <2>2. i \in 0 .. Len(y) /\ i \in 0 .. Len(y) - least
    BY <1>1, <1>5, <2>1
  <2>3. /\ CropKey(y, i) \in Seq(S) /\ Len(CropKey(y, i)) = Len(y) - i
        /\ \A j \in 1 .. Len(y) - i : CropKey(y, i)[j] = y[i + j]
    BY <2>2, CropForm
  <2>4. Len(x) < Len(y) - i
    BY <1>1, <1>5
  <2>5. \A j \in 1 .. Len(x) : x[j] = CropKey(y, i)[j]
    BY <1>1, <2>1, <2>2, <2>3, <2>4
  <2>6. Matches(x, CropKey(y, i)) = "Partial"
    BY <2>3, <2>4, <2>5, PrefixForm
  <2> QED
    BY <1>2, <2>2, <2>6
<1>6. ASSUME Len(x) < Len(y), Stands(x, y, Len(y))
      PROVE  ContainsKey(x, y)
  <2>1. \A j \in 1 .. Len(x) : x[j] = y[Len(y) - Len(x) + j]
    BY <1>6 DEF Stands
  <2>2. CropKey(y, 0) = y
    BY DEF CropKey
  <2>3. /\ ReverseKey(x) \in Seq(S) /\ Len(ReverseKey(x)) = Len(x)
        /\ \A j \in 1 .. Len(x) : ReverseKey(x)[j] = x[(Len(x) - j) + 1]
    BY ReverseForm
  <2>4. /\ ReverseKey(y) \in Seq(S) /\ Len(ReverseKey(y)) = Len(y)
        /\ \A j \in 1 .. Len(y) : ReverseKey(y)[j] = y[(Len(y) - j) + 1]
    BY ReverseForm
  <2>5. ASSUME NEW j \in 1 .. Len(x)
        PROVE  ReverseKey(x)[j] = ReverseKey(y)[j]
    <3>1. /\ (Len(x) - j) + 1 \in 1 .. Len(x) /\ j \in 1 .. Len(y)
          /\ Len(y) - Len(x) + ((Len(x) - j) + 1) = (Len(y) - j) + 1
      BY <1>1, <1>6
    <3>2. x[(Len(x) - j) + 1] = y[(Len(y) - j) + 1]
      BY <2>1, <3>1
    <3> QED
      BY <2>3, <2>4, <3>1, <3>2
  <2>6. Matches(ReverseKey(x), ReverseKey(CropKey(y, 0))) = "Partial"
    BY <1>6, <2>2, <2>3, <2>4, <2>5, PrefixForm
  <2>7. 0 \in 0 .. Len(y) - least
    BY <1>1
  <2> QED
    BY <1>2, <2>6, <2>7
<1>7. ASSUME ContainsKey(x, y)
      PROVE  Len(x) < Len(y) /\ \E n \in 1 .. Len(y) : Stands(x, y, n)
  <2>1. PICK i \in 0 .. Len(y) - least :
              \/ Matches(x, CropKey(y, i)) = "Partial"
              \/ Matches(ReverseKey(x), ReverseKey(CropKey(y, i))) = "Partial"
    BY <1>2, <1>7
  <2>2. i \in 0 .. Len(y) /\ Len(y) \in 1 .. Len(y)
    BY <1>1
  <2> QED
    BY <1>3, <1>4, <2>1, <2>2
<1>8. \A n \in 1 .. Len(y) : n < Len(y) \/ n = Len(y)
  BY <1>1
<1> QED
  BY <1>5, <1>6, <1>7, <1>8

-----------------------------------------------------------------------------
(***************************************************************************)
(* Normalised sequences.                                                   *)
(***************************************************************************)

\* NormalizeSequence, for one chord.
NormalChord(chord) ==
    IF "Shift" \in chord.mods /\ chord.sym \in {"Backtab", "Tab"}
    THEN Chord(chord.mods, "Tab")
    ELSE NormalizeKey(chord)

NormalCodes == {NormalChord(chord) : chord \in KeyCodes}

LEMMA NormForm ==
    ASSUME NEW key \in Seq(KeyCodes)
    PROVE  /\ NormalizeSequence(key) \in Seq(NormalCodes)
           /\ Len(NormalizeSequence(key)) = Len(key)
           /\ \A i \in 1 .. Len(key) : NormalizeSequence(key)[i] = NormalChord(key[i])
<1>1. NormalizeSequence(key) = [i \in 1 .. Len(key) |-> NormalChord(key[i])]
  BY DEF NormalizeSequence, NormalChord
<1>2. \A i \in 1 .. Len(key) : NormalChord(key[i]) \in NormalCodes
  BY DEF NormalCodes
<1> QED
  BY <1>1, <1>2

\* Both ways to say where a key stands in a sequence.
LEMMA EndsForm ==
    ASSUME NEW key, NEW seq, NEW n
    PROVE  EndsAt(key, seq, n)
             <=> Stands(NormalizeSequence(key), NormalizeSequence(seq), n)
BY DEF EndsAt, Stands

-----------------------------------------------------------------------------
(***************************************************************************)
(* The conflict filter.                                                    *)
(***************************************************************************)

\* Two keys clash if they are equal or one stands in the other.
LEMMA ClashForm ==
    ASSUME NEW k \in Seq(KeyCodes), NEW o \in Seq(KeyCodes),
           Len(k) >= 1, Len(o) >= 1
    PROVE  Clashes(k, o)
             <=> \/ NormalizeSequence(k) = NormalizeSequence(o)
                 \/ Len(k) < Len(o) /\ Triggers(k, o)
                 \/ Len(o) < Len(k) /\ Triggers(o, k)
<1> DEFINE nk == NormalizeSequence(k)
           no == NormalizeSequence(o)
<1>1. /\ nk \in Seq(NormalCodes) /\ Len(nk) = Len(k)
      /\ no \in Seq(NormalCodes) /\ Len(no) = Len(o)
  BY NormForm
<1>2. Clashes(k, o) <=> nk = no \/ ContainsKey(nk, no) \/ ContainsKey(no, nk)
  <2>1. k # <<>> /\ o # <<>>
    OBVIOUS
  <2>2. Finds("Equal", k, o) <=> nk = no
    BY <2>1 DEF Finds
  <2>3. Finds("Shadows", k, o) <=> ContainsKey(nk, no)
    BY <2>1 DEF Finds
  <2>4. Finds("Shadowed", k, o) <=> ContainsKey(no, nk)
    BY <2>1 DEF Finds
  <2> HIDE DEF nk, no
  <2> QED
    BY <2>2, <2>3, <2>4 DEF Clashes
<1>3. Triggers(k, o) <=> \E n \in 1 .. Len(no) : Stands(nk, no, n)
  BY <1>1, EndsForm DEF Triggers
<1>4. Triggers(o, k) <=> \E n \in 1 .. Len(nk) : Stands(no, nk, n)
  BY <1>1, EndsForm DEF Triggers
<1> HIDE DEF nk, no
<1>5. ContainsKey(nk, no) <=> Len(nk) < Len(no) /\ \E n \in 1 .. Len(no) : Stands(nk, no, n)
  BY <1>1, ContainsForm
<1>6. ContainsKey(no, nk) <=> Len(no) < Len(nk) /\ \E n \in 1 .. Len(nk) : Stands(no, nk, n)
  BY <1>1, ContainsForm
<1>7. (nk = no) <=> NormalizeSequence(k) = NormalizeSequence(o)
  BY DEF nk, no
<1> QED
  BY <1>1, <1>2, <1>3, <1>4, <1>5, <1>6, <1>7

\* A key that stands in a sequence as long as it is equal to it.
LEMMA StandsWhole ==
    ASSUME NEW S, NEW x \in Seq(S), NEW y \in Seq(S), Len(x) = Len(y),
           NEW n \in 1 .. Len(y), Stands(x, y, n)
    PROVE  x = y
<1>1. n = Len(x) /\ \A i \in 1 .. Len(x) : n - Len(x) + i = i
  <2>1. PICK m \in Nat : m = Len(x)
    OBVIOUS
  <2>2. m <= n /\ n <= m
    BY <2>1 DEF Stands
  <2>3. n = m /\ \A i \in 1 .. m : n - m + i = i
    BY <2>2
  <2> QED
    BY <2>1, <2>3
<1>2. \A i \in 1 .. Len(x) : x[i] = y[i]
  BY <1>1 DEF Stands
<1> QED
  BY <1>2, SeqEqual

\* If typing a key triggers another, the two clash, whichever is asked for.
LEMMA TriggeredClashes ==
    ASSUME NEW k \in Seq(KeyCodes), NEW o \in Seq(KeyCodes),
           Len(k) >= 1, Len(o) >= 1, Triggers(o, k)
    PROVE  Clashes(k, o) /\ Clashes(o, k)
<1> DEFINE nk == NormalizeSequence(k)
           no == NormalizeSequence(o)
<1>1. /\ nk \in Seq(NormalCodes) /\ Len(nk) = Len(k)
      /\ no \in Seq(NormalCodes) /\ Len(no) = Len(o)
  BY NormForm
<1>2. PICK n \in 1 .. Len(nk) : Stands(no, nk, n)
  BY <1>1, EndsForm DEF Triggers
<1>3. CASE Len(o) < Len(k)
  BY <1>3, ClashForm
<1>4. CASE ~(Len(o) < Len(k))
  <2>1. Len(no) = Len(nk)
    BY <1>1, <1>2, <1>4 DEF Stands
  <2> HIDE DEF nk, no
  <2>2. no = nk
    BY <1>1, <1>2, <2>1, StandsWhole
  <2> QED
    BY <2>2, ClashForm DEF nk, no
<1> QED
  BY <1>3, <1>4

\* No two assigned keys clash: the filter compares with every key.
Apart == \A k, o \in taken : o # k => ~Clashes(k, o)

FilterInv == taken \subseteq Pool /\ Apart

LEMMA ClashIsMutual ==
    ASSUME NEW k \in Seq(KeyCodes), NEW o \in Seq(KeyCodes),
           Len(k) >= 1, Len(o) >= 1
    PROVE  Clashes(k, o) <=> Clashes(o, k)
<1> DEFINE same == NormalizeSequence(k) = NormalizeSequence(o)
           kInO == Len(k) < Len(o) /\ Triggers(k, o)
           oInK == Len(o) < Len(k) /\ Triggers(o, k)
<1>1. Clashes(k, o) <=> same \/ kInO \/ oInK
  BY ClashForm
<1>2. Clashes(o, k) <=> same \/ oInK \/ kInO
  BY ClashForm
<1> QED
  BY <1>1, <1>2

LEMMA PoolKeys ==
    ASSUME NEW key \in Pool
    PROVE  key \in Seq(KeyCodes) /\ Len(key) >= 1 /\ Len(key) <= 4 /\ key # <<>>
<1>1. key \in Seq(KeyCodes) /\ Len(key) \in 1 .. MaxSequenceLength
  BY PoolAssumption
<1>2. Len(key) \in 1 .. 4
  BY <1>1 DEF MaxSequenceLength
<1>3. Len(<<>>) = 0
  OBVIOUS
<1>4. key # <<>>
  BY <1>2, <1>3
<1>5. key \in Seq(KeyCodes)
  BY <1>1
<1>6. Len(key) >= 1 /\ Len(key) <= 4
  <2>1. PICK n \in 1 .. 4 : Len(key) = n
    BY <1>2
  <2>2. n >= 1 /\ n <= 4
    OBVIOUS
  <2> QED
    BY <2>1, <2>2
<1> HIDE PoolAssumption
<1> QED
  BY <1>4, <1>5, <1>6

LEMMA FilterInit ==
    ASSUME Init
    PROVE  FilterInv
BY DEF Init, Apart, FilterInv

LEMMA FilterNext ==
    ASSUME FilterInv, [Next]_vars
    PROVE  FilterInv'
<1> USE DEF FilterInv
<1>1. CASE taken' = taken
  BY <1>1 DEF Apart
<1>2. ASSUME NEW key \in Pool, Assign(key)
      PROVE  FilterInv'
  <2>1. taken' = taken \cup {key} /\ \A o \in taken : ~Clashes(key, o)
    BY <1>2 DEF Assign
  <2>2. \A o \in taken : ~Clashes(o, key)
    BY <2>1, PoolKeys, ClashIsMutual
  <2> QED
    BY <2>1, <2>2 DEF Apart
<1>3. ASSUME NEW chord \in Typeable, Type(chord)
      PROVE  taken' = taken
  BY <1>3 DEF Type
<1> QED
  BY <1>1, <1>2, <1>3 DEF Next, vars

LEMMA FilterInductive == Spec => []FilterInv
<1>1. Init => FilterInv
  BY FilterInit
<1>2. FilterInv /\ [Next]_vars => FilterInv'
  BY FilterNext
<1> QED
  BY <1>1, <1>2, PTL DEF Spec

(***************************************************************************)
(* The filter of setKeys keeps every assigned key alive: whatever keys are *)
(* asked for, in whatever order, typing an assigned key triggers no other  *)
(* one on the way (GlobalShortcut::setKeys).                               *)
(***************************************************************************)
THEOREM NoKeyIsDead == Spec => []NoDeadKey
<1>1. ASSUME FilterInv
      PROVE  NoDeadKey
  <2> USE <1>1 DEF FilterInv
  <2> SUFFICES ASSUME NEW k \in taken, NEW o \in taken, o # k, Triggers(o, k)
               PROVE  FALSE
    BY DEF NoDeadKey
  <2>1. Clashes(k, o)
    BY <1>1, PoolKeys, TriggeredClashes
  <2> QED
    BY <1>1, <2>1 DEF Apart
<1> QED
  BY <1>1, FilterInductive, PTL

(***************************************************************************)
(* The filter of setKeys refuses no key without need: of a key it refuses  *)
(* and the key it refuses it for, one would trigger while the other is     *)
(* being typed (GlobalShortcut::setKeys).                                  *)
(***************************************************************************)
THEOREM RefusalsHaveReasons == Spec => []RefusalsAreJustified
<1>1. ASSUME FilterInv
      PROVE  RefusalsAreJustified
  <2> USE <1>1 DEF FilterInv
  <2> SUFFICES ASSUME NEW k \in Pool, NEW o \in taken, Clashes(k, o)
               PROVE  Triggers(k, o) \/ Triggers(o, k)
    BY DEF RefusalsAreJustified
  <2>1. /\ k \in Seq(KeyCodes) /\ Len(k) >= 1
        /\ o \in Seq(KeyCodes) /\ Len(o) >= 1
    BY <1>1, PoolKeys
  <2>2. CASE NormalizeSequence(k) = NormalizeSequence(o)
    <3>1. Len(NormalizeSequence(k)) = Len(k) /\ Len(NormalizeSequence(o)) = Len(o)
      BY <2>1, NormForm
    <3>2. Len(k) = Len(o) /\ Len(o) \in 1 .. Len(o)
      BY <2>1, <2>2, <3>1
    <3>3. \A i \in 1 .. Len(o) : Len(o) - Len(o) + i = i
      BY <2>1
    <3>4. EndsAt(k, o, Len(o))
      BY <2>1, <2>2, <3>1, <3>2, <3>3 DEF EndsAt
    <3> QED
      BY <3>2, <3>4 DEF Triggers
  <2>3. \/ NormalizeSequence(k) = NormalizeSequence(o)
        \/ Len(k) < Len(o) /\ Triggers(k, o)
        \/ Len(o) < Len(k) /\ Triggers(o, k)
    BY <2>1, ClashForm
  <2> QED
    BY <2>2, <2>3
<1> QED
  BY <1>1, FilterInductive, PTL

-----------------------------------------------------------------------------
(***************************************************************************)
(* The buffer.                                                             *)
(***************************************************************************)

\* seq is what a buffer of four chords keeps of text.
Recent(seq, text) ==
    /\ Len(seq) <= 4 /\ Len(seq) <= Len(text)
    /\ Len(seq) >= Len(text) \/ Len(seq) >= 4
    /\ \A i \in 1 .. Len(seq) : seq[i] = text[Len(text) - Len(seq) + i]

LEMMA AppendForm ==
    ASSUME NEW S, NEW seq \in Seq(S), NEW elt \in S
    PROVE  /\ Append(seq, elt) \in Seq(S)
           /\ Len(Append(seq, elt)) = Len(seq) + 1
           /\ \A i \in 1 .. Len(seq) : Append(seq, elt)[i] = seq[i]
           /\ Append(seq, elt)[Len(seq) + 1] = elt
OBVIOUS

LEMMA PushKeepsRecent ==
    ASSUME NEW S, NEW seq \in Seq(S), NEW text \in Seq(S), NEW chord \in S,
           Recent(seq, text)
    PROVE  /\ PushKey(seq, chord) \in Seq(S)
           /\ Recent(PushKey(seq, chord), Append(text, chord))
<1> DEFINE longer == Append(text, chord)
           pushed == PushKey(seq, chord)
<1>1. /\ longer \in Seq(S) /\ Len(longer) = Len(text) + 1
      /\ longer[Len(text) + 1] = chord
      /\ \A i \in 1 .. Len(text) : longer[i] = text[i]
  OBVIOUS
<1>2. /\ Len(seq) \in Nat /\ Len(text) \in Nat
      /\ Len(seq) <= 4 /\ Len(seq) <= Len(text)
      /\ Len(seq) >= Len(text) \/ Len(seq) >= 4
  BY DEF Recent
<1>3. \A i \in 1 .. Len(seq) : seq[i] = text[Len(text) - Len(seq) + i]
  BY DEF Recent
<1> HIDE DEF longer
<1>4. CASE Len(seq) = 4
  <2>1. pushed = Append(Tail(seq), chord)
    BY <1>4 DEF PushKey, MaxSequenceLength
  <2>2. seq # <<>>
    BY <1>4
  <2>3. /\ Tail(seq) \in Seq(S) /\ Len(Tail(seq)) = 3
        /\ \A i \in 1 .. 3 : Tail(seq)[i] = seq[i + 1]
    <3>1. /\ Tail(seq) \in Seq(S) /\ Len(Tail(seq)) = Len(seq) - 1
          /\ \A i \in 1 .. Len(Tail(seq)) : Tail(seq)[i] = seq[i + 1]
      BY <2>2, HeadTailProperties
    <3>2. Len(Tail(seq)) = 3
      BY <1>4, <3>1
    <3> QED
      BY <3>1, <3>2
  <2> DEFINE rest == Tail(seq)
  <2> HIDE DEF rest
  <2>4. /\ Append(rest, chord) \in Seq(S) /\ Len(Append(rest, chord)) = 4
        /\ Append(rest, chord)[4] = chord
        /\ \A i \in 1 .. 3 : Append(rest, chord)[i] = rest[i]
    <3>1. rest \in Seq(S) /\ Len(rest) = 3
      BY <2>3 DEF rest
    <3>2. /\ Append(rest, chord) \in Seq(S)
          /\ Len(Append(rest, chord)) = Len(rest) + 1
          /\ \A i \in 1 .. Len(rest) : Append(rest, chord)[i] = rest[i]
          /\ Append(rest, chord)[Len(rest) + 1] = chord
      BY <3>1, AppendForm
    <3>3. Len(rest) + 1 = 4
      BY <3>1
    <3> QED
      BY <3>1, <3>2, <3>3
  <2>5. /\ pushed \in Seq(S) /\ Len(pushed) = 4 /\ pushed[4] = chord
        /\ \A i \in 1 .. 3 : pushed[i] = seq[i + 1]
    BY <2>1, <2>3, <2>4 DEF rest
  <2> HIDE DEF pushed
  <2>6. Len(text) >= 4
    BY <1>2, <1>4
  <2>7. ASSUME NEW i \in 1 .. 4
        PROVE  pushed[i] = longer[Len(longer) - 4 + i]
    <3>1. CASE i = 4
      <4>1. Len(longer) - 4 + i = Len(text) + 1
        BY <1>1, <1>2, <3>1
      <4> QED
        BY <1>1, <2>5, <3>1, <4>1
    <3>2. CASE i # 4
      <4>1. i \in 1 .. 3 /\ i + 1 \in 1 .. 4
        BY <3>2
      <4>2. pushed[i] = text[Len(text) - 4 + (i + 1)]
        BY <1>3, <1>4, <2>5, <4>1
      <4>3. /\ Len(text) - 4 + (i + 1) \in 1 .. Len(text)
            /\ Len(text) - 4 + (i + 1) = Len(longer) - 4 + i
        BY <1>1, <1>2, <2>6, <4>1
      <4> QED
        BY <1>1, <4>2, <4>3
    <3> QED
      BY <3>1, <3>2
  <2>8. Len(pushed) <= 4 /\ Len(pushed) <= Len(longer)
    BY <1>1, <1>2, <2>5, <2>6
  <2>9. Recent(pushed, longer)
    BY <2>5, <2>7, <2>8 DEF Recent
  <2> QED
    BY <2>5, <2>9 DEF pushed, longer
<1>5. CASE Len(seq) # 4
  <2>1. pushed = Append(seq, chord)
    BY <1>5 DEF PushKey, MaxSequenceLength
  <2>2. Len(seq) = Len(text) /\ Len(text) < 4
    <3>1. PICK m \in Nat, n \in Nat : m = Len(seq) /\ n = Len(text)
      BY <1>2
    <3>2. /\ m <= 4 /\ m <= n /\ m # 4
          /\ m >= n \/ m >= 4
      BY <1>2, <1>5, <3>1
    <3>3. m = n /\ n < 4
      BY <3>2
    <3> QED
      BY <3>1, <3>3
  <2>3. /\ pushed \in Seq(S) /\ Len(pushed) = Len(text) + 1
        /\ pushed[Len(text) + 1] = chord
        /\ \A i \in 1 .. Len(text) : pushed[i] = seq[i]
    BY <2>1, <2>2
  <2> HIDE DEF pushed
  <2>4. ASSUME NEW i \in 1 .. Len(text) + 1
        PROVE  pushed[i] = longer[Len(longer) - Len(pushed) + i]
    <3>1. Len(longer) - Len(pushed) + i = i
      BY <1>1, <1>2, <2>3
    <3>2. CASE i = Len(text) + 1
      BY <1>1, <2>3, <3>1, <3>2
    <3>3. CASE i # Len(text) + 1
      <4>1. i \in 1 .. Len(text) /\ Len(text) - Len(seq) + i = i
        BY <1>2, <2>2, <3>3
      <4> QED
        BY <1>1, <1>3, <2>2, <2>3, <3>1, <4>1
    <3> QED
      BY <3>2, <3>3
  <2>5. Len(pushed) <= 4 /\ Len(pushed) = Len(longer)
    BY <1>1, <1>2, <2>2, <2>3
  <2>6. Recent(pushed, longer)
    BY <2>3, <2>4, <2>5 DEF Recent
  <2> QED
    BY <2>3, <2>6 DEF pushed, longer
<1> QED
  BY <1>4, <1>5

\* A lookup of the last n chords finds the keys of n chords just typed.
LEMMA HitForm ==
    ASSUME NEW seq \in Seq(KeyCodes), NEW text \in Seq(KeyCodes),
           NEW key \in Seq(KeyCodes), NEW n \in 1 .. Len(seq), Recent(seq, text)
    PROVE  Finds("Equal", LastChords(seq, n), key)
             <=> Len(key) = n /\ EndsAt(key, text, Len(text))
<1> DEFINE part == LastChords(seq, n)
           from == Len(text) - n
<1>1. /\ Len(seq) \in Nat /\ Len(text) \in Nat /\ Len(seq) <= Len(text)
      /\ \A i \in 1 .. Len(seq) : seq[i] = text[Len(text) - Len(seq) + i]
  BY DEF Recent
<1>2. /\ part \in Seq(KeyCodes) /\ Len(part) = n
      /\ \A i \in 1 .. n : part[i] = seq[Len(seq) - n + i]
  <2> DEFINE m == Len(seq) - n + 1
  <2>1. m \in 1 .. Len(seq) + 1 /\ m <= Len(seq) /\ Len(seq) - m + 1 = n
    BY <1>1
  <2>2. part = SubSeq(seq, m, Len(seq))
    BY DEF LastChords
  <2>3. \A i \in 1 .. n : m + i - 1 = Len(seq) - n + i
    BY <1>1
  <2> HIDE DEF m, part
  <2>4. /\ SubSeq(seq, m, Len(seq)) \in Seq(KeyCodes)
        /\ Len(SubSeq(seq, m, Len(seq))) = Len(seq) - m + 1
        /\ \A i \in 1 .. Len(seq) - m + 1 : SubSeq(seq, m, Len(seq))[i] = seq[m + i - 1]
    BY <1>1, <2>1
  <2> QED
    BY <2>1, <2>2, <2>3, <2>4
<1> HIDE DEF part
<1>3. \A i \in 1 .. n : from + i \in 1 .. Len(text) /\ part[i] = text[from + i]
  <2> SUFFICES ASSUME NEW i \in 1 .. n
               PROVE  from + i \in 1 .. Len(text) /\ part[i] = text[from + i]
    OBVIOUS
  <2>1. /\ Len(seq) - n + i \in 1 .. Len(seq) /\ from + i \in 1 .. Len(text)
        /\ Len(text) - Len(seq) + (Len(seq) - n + i) = from + i
    BY <1>1
  <2> QED
    BY <1>1, <1>2, <2>1
<1> DEFINE nk == NormalizeSequence(key)
           np == NormalizeSequence(part)
           nt == NormalizeSequence(text)
<1>4. /\ nk \in Seq(NormalCodes) /\ Len(nk) = Len(key)
      /\ np \in Seq(NormalCodes) /\ Len(np) = n
      /\ \A i \in 1 .. n : np[i] = NormalChord(part[i])
      /\ \A i \in 1 .. Len(text) : nt[i] = NormalChord(text[i])
  BY <1>2, NormForm
<1>5. Finds("Equal", part, key) <=> nk = np
  <2>1. part # <<>>
    BY <1>2
  <2> QED
    BY <2>1 DEF Finds
<1>6. EndsAt(key, text, Len(text)) <=> Stands(nk, nt, Len(text))
  BY EndsForm
<1> HIDE DEF nk, np, nt
<1>7. \A i \in 1 .. n : np[i] = nt[from + i]
  BY <1>3, <1>4
<1>8. ASSUME Len(key) = n, Stands(nk, nt, Len(text))
      PROVE  nk = np
  <2>1. \A i \in 1 .. n : nk[i] = nt[from + i]
    BY <1>4, <1>8 DEF Stands
  <2>2. \A i \in 1 .. Len(nk) : nk[i] = np[i]
    BY <1>4, <1>7, <1>8, <2>1
  <2> QED
    BY <1>4, <1>8, <2>2, SeqEqual
<1>9. ASSUME nk = np
      PROVE  Len(key) = n /\ Stands(nk, nt, Len(text))
  <2>1. Len(nk) = n /\ n \in 1 .. Len(text)
    BY <1>1, <1>4, <1>9
  <2> QED
    BY <1>4, <1>7, <1>9, <2>1 DEF Stands
<1> QED
  BY <1>5, <1>6, <1>8, <1>9 DEF part

\* Of two keys just typed, the shorter one is triggered by typing the longer.
LEMMA BothTyped ==
    ASSUME NEW k \in Seq(KeyCodes), NEW o \in Seq(KeyCodes),
           NEW text \in Seq(KeyCodes), Len(o) <= Len(k),
           EndsAt(k, text, Len(text)), EndsAt(o, text, Len(text))
    PROVE  Triggers(o, k)
<1> DEFINE nk == NormalizeSequence(k)
           no == NormalizeSequence(o)
           nt == NormalizeSequence(text)
           last == Len(text)
<1>1. Len(nk) = Len(k) /\ Len(no) = Len(o) /\ Len(k) \in Nat /\ Len(o) \in Nat
  BY NormForm
<1>2. Stands(nk, nt, last) /\ Stands(no, nt, last)
  BY EndsForm
<1> HIDE DEF nk, no, nt
<1>3. last \in Nat /\ Len(k) \in 1 .. last /\ Len(o) \in 1 .. Len(k)
  BY <1>1, <1>2 DEF Stands
<1>4. ASSUME NEW i \in 1 .. Len(o)
      PROVE  no[i] = nk[Len(k) - Len(o) + i]
  <2> DEFINE j == Len(k) - Len(o) + i
  <2>1. j \in 1 .. Len(k) /\ last - Len(k) + j = last - Len(o) + i
    BY <1>3
  <2> HIDE DEF j
  <2>2. nk[j] = nt[last - Len(k) + j]
    BY <1>1, <1>2, <2>1 DEF Stands
  <2>3. no[i] = nt[last - Len(o) + i]
    BY <1>1, <1>2 DEF Stands
  <2>4. no[i] = nk[j]
    BY <2>1, <2>2, <2>3
  <2> QED
    BY <2>4 DEF j
<1>5. Stands(no, nk, Len(k))
  BY <1>1, <1>3, <1>4 DEF Stands
<1>6. EndsAt(o, k, Len(k)) /\ Len(k) \in 1 .. Len(k)
  BY <1>3, <1>5, EndsForm DEF nk, no
<1> QED
  BY <1>6 DEF Triggers

-----------------------------------------------------------------------------
(***************************************************************************)
(* Typing.                                                                 *)
(***************************************************************************)

\* What is known of the state: its types, without bounds of the model.
StateInv ==
    /\ buffer \in Seq(Typeable)
    /\ typed \in Seq(Typeable)
    /\ fired \in taken \cup {<<>>}
    /\ Len(typed) <= MaxTyped

\* The buffer is what it would keep of all chords typed since a trigger.
BufferInv ==
    IF fired = <<>> THEN Recent(buffer, typed) ELSE buffer = <<>> /\ typed # <<>>

TypingInv == FilterInv /\ StateInv /\ BufferInv /\ TriggersWhatWasTyped

LEMMA CodesAreTypeable ==
    ASSUME NEW seq \in Seq(Typeable)
    PROVE  seq \in Seq(KeyCodes)
BY TypeableAssumption

\* The chords that processKey looks up after this one.
LEMMA PushedBuffer ==
    ASSUME TypingInv, NEW chord \in Typeable,
           NEW text, text = IF fired # <<>> THEN <<chord>> ELSE Append(typed, chord)
    PROVE  /\ text \in Seq(Typeable) /\ text # <<>>
           /\ PushKey(buffer, chord) \in Seq(Typeable)
           /\ Recent(PushKey(buffer, chord), text)
<1> DEFINE base == IF fired # <<>> THEN <<>> ELSE typed
<1>1. buffer \in Seq(Typeable) /\ base \in Seq(Typeable)
  BY DEF TypingInv, StateInv
<1>2. Recent(buffer, base)
  <2>1. CASE fired # <<>>
    <3>1. buffer = <<>> /\ base = <<>>
      BY <2>1 DEF TypingInv, BufferInv
    <3>2. Recent(<<>>, <<>>)
      BY DEF Recent
    <3> QED
      BY <3>1, <3>2
  <2>2. CASE fired = <<>>
    BY <2>2 DEF TypingInv, BufferInv
  <2> QED
    BY <2>1, <2>2
<1>3. text = Append(base, chord)
  <2>1. Append(<<>>, chord) = <<chord>>
    OBVIOUS
  <2> QED
    BY <2>1
<1> HIDE DEF base
<1>4. Append(base, chord) \in Seq(Typeable) /\ Append(base, chord) # <<>>
  BY <1>1, AppendProperties
<1>5. /\ PushKey(buffer, chord) \in Seq(Typeable)
      /\ Recent(PushKey(buffer, chord), Append(base, chord))
  BY <1>1, <1>2, PushKeepsRecent
<1> QED
  BY <1>3, <1>4, <1>5

\* Two assigned keys that have both just been typed are the same key.
LEMMA OneKeyTyped ==
    ASSUME FilterInv, NEW text \in Seq(KeyCodes), NEW k \in taken, NEW o \in taken,
           EndsAt(k, text, Len(text)), EndsAt(o, text, Len(text))
    PROVE  k = o
<1>1. /\ k \in Seq(KeyCodes) /\ Len(k) >= 1
      /\ o \in Seq(KeyCodes) /\ Len(o) >= 1
  BY PoolKeys DEF FilterInv
<1>2. CASE Len(o) <= Len(k)
  BY <1>1, <1>2, BothTyped, TriggeredClashes DEF FilterInv, Apart
<1>3. CASE Len(k) <= Len(o)
  BY <1>1, <1>3, BothTyped, TriggeredClashes DEF FilterInv, Apart
<1>4. Len(o) <= Len(k) \/ Len(k) <= Len(o)
  BY <1>1
<1> QED
  BY <1>2, <1>3, <1>4

LEMMA TypingInit ==
    ASSUME Init
    PROVE  TypingInv
<1>1. FilterInv
  BY FilterInit
<1>2. StateInv
  BY TypeableAssumption DEF Init, StateInv
<1>3. BufferInv
  BY DEF Init, BufferInv, Recent
<1>4. TriggersWhatWasTyped
  BY DEF Init, TriggersWhatWasTyped
<1> QED
  BY <1>1, <1>2, <1>3, <1>4 DEF TypingInv

LEMMA AssignKeepsTyping ==
    ASSUME TypingInv, NEW key \in Pool, Assign(key)
    PROVE  TypingInv'
<1>1. FilterInv'
  BY FilterNext DEF TypingInv, Next
<1>2. /\ typed = <<>> /\ typed' = <<>> /\ buffer' = buffer /\ fired' = fired
      /\ taken' = taken \cup {key}
  BY DEF Assign
<1>3. StateInv'
  BY <1>2 DEF TypingInv, StateInv
<1>4. fired = <<>>
  BY <1>2 DEF TypingInv, BufferInv
<1>5. BufferInv'
  BY <1>2 DEF TypingInv, BufferInv
<1>6. TriggersWhatWasTyped'
  <2>1. Len(<<>>) = 0
    OBVIOUS
  <2>2. \A k \in taken' : ~EndsAt(k, typed', Len(typed'))
    <3> SUFFICES ASSUME NEW k \in Pool
                 PROVE  ~EndsAt(k, <<>>, 0)
      BY <1>1, <1>2, <2>1 DEF FilterInv
    <3>1. Len(NormalizeSequence(k)) \notin 1 .. 0
      OBVIOUS
    <3> QED
      BY <3>1 DEF EndsAt
  <2> QED
    BY <1>2, <1>4, <2>2 DEF TriggersWhatWasTyped
<1> QED
  BY <1>1, <1>3, <1>5, <1>6 DEF TypingInv

LEMMA TypeKeepsTyping ==
    ASSUME TypingInv, NEW chord \in Typeable, Type(chord)
    PROVE  TypingInv'
<1> DEFINE sequence == PushKey(buffer, chord)
           lengths  == {n \in 1 .. Len(sequence) : Hits(sequence, n) # {}}
<1>1. /\ FilterInv'
      /\ FilterInv /\ taken' = taken
  BY FilterNext DEF TypingInv, Next, Type
<1>2. typed' = IF fired # <<>> THEN <<chord>> ELSE Append(typed, chord)
  BY DEF Type
<1>3. /\ typed' \in Seq(Typeable) /\ typed' # <<>>
      /\ sequence \in Seq(Typeable) /\ Recent(sequence, typed')
  BY <1>2, PushedBuffer
<1>4. typed' \in Seq(KeyCodes) /\ sequence \in Seq(KeyCodes)
  BY <1>3, CodesAreTypeable
<1>5. \/ lengths = {} /\ buffer' = sequence /\ fired' = <<>>
      \/ \E n \in lengths : fired' \in Hits(sequence, n) /\ buffer' = <<>>
  BY DEF Type
<1>6. Len(typed') <= MaxTyped
  BY DEF Type
<1> HIDE DEF sequence
<1>7. \A n \in 1 .. Len(sequence) :
        Hits(sequence, n) = {k \in taken : Len(k) = n /\ EndsAt(k, typed', Len(typed'))}
  <2> SUFFICES ASSUME NEW n \in 1 .. Len(sequence), NEW k \in taken
               PROVE  Finds("Equal", LastChords(sequence, n), k)
                        <=> Len(k) = n /\ EndsAt(k, typed', Len(typed'))
    BY DEF Hits
  <2>1. k \in Seq(KeyCodes)
    BY <1>1, PoolKeys DEF FilterInv
  <2> QED
    BY <1>3, <1>4, <2>1, HitForm
\* A key just typed is short enough to be found.
<1>8. ASSUME NEW k \in taken, EndsAt(k, typed', Len(typed'))
      PROVE  Len(k) \in lengths
  <2>1. k \in Seq(KeyCodes) /\ Len(k) >= 1 /\ Len(k) <= 4
    BY <1>1, PoolKeys DEF FilterInv
  <2>2. Len(k) <= Len(typed')
    BY <1>8, <2>1, NormForm DEF EndsAt
  <2>3. Len(k) \in 1 .. Len(sequence)
    BY <1>3, <1>4, <2>1, <2>2 DEF Recent
  <2> QED
    BY <1>7, <1>8, <2>3
<1>9. CASE lengths = {} /\ buffer' = sequence /\ fired' = <<>>
  <2>1. StateInv'
    BY <1>3, <1>6, <1>9 DEF StateInv
  <2>2. BufferInv'
    BY <1>3, <1>9 DEF BufferInv
  <2>3. TriggersWhatWasTyped'
    BY <1>1, <1>8, <1>9 DEF TriggersWhatWasTyped
  <2> QED
    BY <1>1, <2>1, <2>2, <2>3 DEF TypingInv
<1>10. CASE \E n \in lengths : fired' \in Hits(sequence, n) /\ buffer' = <<>>
  <2>1. fired' \in taken /\ EndsAt(fired', typed', Len(typed')) /\ buffer' = <<>>
    BY <1>7, <1>10
  <2>2. fired' # <<>>
    BY <1>1, <2>1, PoolKeys DEF FilterInv
  <2>3. StateInv'
    BY <1>1, <1>3, <1>6, <2>1 DEF StateInv
  <2>4. BufferInv'
    BY <1>3, <2>1, <2>2 DEF BufferInv
  <2>5. \A k \in taken : EndsAt(k, typed', Len(typed')) => k = fired'
    BY <1>1, <1>4, <2>1, OneKeyTyped
  <2>6. TriggersWhatWasTyped'
    BY <1>1, <2>1, <2>2, <2>5 DEF TriggersWhatWasTyped
  <2> QED
    BY <1>1, <2>3, <2>4, <2>6 DEF TypingInv
<1> QED
  BY <1>5, <1>9, <1>10

LEMMA TypingInductive == Spec => []TypingInv
<1>1. Init => TypingInv
  BY TypingInit
<1>2. TypingInv /\ [Next]_vars => TypingInv'
  <2>1. ASSUME TypingInv, UNCHANGED vars
        PROVE  TypingInv'
    BY <2>1 DEF vars, TypingInv, FilterInv, Apart, StateInv, BufferInv,
                TriggersWhatWasTyped
  <2> QED
    BY <2>1, AssignKeepsTyping, TypeKeepsTyping DEF Next
<1> QED
  BY <1>1, <1>2, PTL DEF Spec

(***************************************************************************)
(* Only an assigned key fires, and the buffer holds at most the four       *)
(* chords of a QKeySequence, all of them typed                             *)
(* (GlobalShortcutsRegistry::processKey).                                  *)
(***************************************************************************)
THEOREM TypingTypesCorrect == Spec => []TypeOK
<1>1. ASSUME TypingInv
      PROVE  TypeOK
  <2>1. taken \subseteq Pool /\ fired \in taken \cup {<<>>}
    BY <1>1 DEF TypingInv, FilterInv, StateInv
  <2>2. buffer \in Seq(Typeable) /\ typed \in Seq(Typeable) /\ Len(typed) <= MaxTyped
    BY <1>1 DEF TypingInv, StateInv
  <2>3. Len(buffer) \in 0 .. 4
    <3>1. CASE fired = <<>>
      <4>1. Recent(buffer, typed)
        BY <1>1, <3>1 DEF TypingInv, BufferInv
      <4>2. Len(buffer) <= 4
        BY <4>1 DEF Recent
      <4>3. PICK m \in Nat : m = Len(buffer)
        BY <2>2
      <4>4. m \in 0 .. 4
        BY <4>2, <4>3
      <4> QED
        BY <4>3, <4>4
    <3>2. CASE fired # <<>>
      <4>1. buffer = <<>> /\ Len(<<>>) = 0
        BY <1>1, <3>2 DEF TypingInv, BufferInv
      <4> QED
        BY <4>1
    <3> QED
      BY <3>1, <3>2
  <2>4. buffer \in [1 .. Len(buffer) -> Typeable]
    BY <2>2
  <2>5. buffer \in UNION {[1 .. n -> Typeable] : n \in 0 .. MaxSequenceLength}
    BY <2>3, <2>4 DEF MaxSequenceLength
  <2>6. Len(typed) \in 0 .. MaxTyped
    BY <2>2, TypeableAssumption
  <2> QED
    BY <2>1, <2>5, <2>6 DEF TypeOK
<1> QED
  BY <1>1, TypingInductive, PTL

(***************************************************************************)
(* However long the user types, a chord triggers the one assigned key that *)
(* the chords since the last trigger end with, and nothing if there is     *)
(* none: four chords of memory, the loop over their ends and the filter    *)
(* that keeps the keys apart are enough                                    *)
(* (GlobalShortcutsRegistry::processKey).                                  *)
(***************************************************************************)
THEOREM TypedKeysTrigger == Spec => []TriggersWhatWasTyped
<1>1. TypingInv => TriggersWhatWasTyped
  BY DEF TypingInv
<1> QED
  BY <1>1, TypingInductive, PTL

-----------------------------------------------------------------------------
(***************************************************************************)
(* The query for free keys.                                                *)
(***************************************************************************)

\* Where a key stands as it was recorded it stands normalised, and the other
\* way round unless two codes name one chord.
LEMMA CodesStand ==
    ASSUME NEW k \in Pool, NEW o \in Pool, NEW n \in 1 .. Len(o)
    PROVE  /\ Stands(k, o, n) => Stands(NormalizeSequence(k), NormalizeSequence(o), n)
           /\ ~DifferentCodes(k, o) =>
                (Stands(NormalizeSequence(k), NormalizeSequence(o), n) => Stands(k, o, n))
<1> DEFINE nk == NormalizeSequence(k)
           no == NormalizeSequence(o)
<1>1. k \in Seq(KeyCodes) /\ o \in Seq(KeyCodes)
  BY PoolKeys
<1>2. /\ Len(nk) = Len(k) /\ \A i \in 1 .. Len(k) : nk[i] = NormalChord(k[i])
      /\ Len(no) = Len(o) /\ \A i \in 1 .. Len(o) : no[i] = NormalChord(o[i])
  BY <1>1, NormForm
<1>3. ASSUME ~DifferentCodes(k, o), NEW i \in 1 .. Len(k), NEW j \in 1 .. Len(o)
      PROVE  nk[i] = no[j] => k[i] = o[j]
  <2>1. i \in DOMAIN k /\ j \in DOMAIN o
    BY <1>1
  <2> QED
    BY <1>3, <2>1 DEF DifferentCodes
<1> HIDE DEF nk, no
<1>4. ASSUME Len(k) \in 1 .. n, NEW i \in 1 .. Len(k)
      PROVE  n - Len(k) + i \in 1 .. Len(o)
  BY <1>1, <1>4
<1>5. ASSUME Stands(k, o, n)
      PROVE  Stands(nk, no, n)
  <2>1. Len(k) \in 1 .. n /\ \A i \in 1 .. Len(k) : k[i] = o[n - Len(k) + i]
    BY <1>5 DEF Stands
  <2>2. \A i \in 1 .. Len(k) : nk[i] = no[n - Len(k) + i]
    BY <1>2, <1>4, <2>1
  <2> QED
    BY <1>2, <2>1, <2>2 DEF Stands
<1>6. ASSUME ~DifferentCodes(k, o), Stands(nk, no, n)
      PROVE  Stands(k, o, n)
  <2>1. Len(k) \in 1 .. n /\ \A i \in 1 .. Len(k) : nk[i] = no[n - Len(k) + i]
    BY <1>2, <1>6 DEF Stands
  <2>2. \A i \in 1 .. Len(k) : k[i] = o[n - Len(k) + i]
    BY <1>3, <1>4, <1>6, <2>1
  <2> QED
    BY <2>1, <2>2 DEF Stands
<1> QED
  BY <1>5, <1>6 DEF nk, no

LEMMA CodesContain ==
    ASSUME NEW k \in Pool, NEW o \in Pool
    PROVE  /\ ContainsKey(k, o) => ContainsKey(NormalizeSequence(k), NormalizeSequence(o))
           /\ ~DifferentCodes(k, o) =>
                (ContainsKey(NormalizeSequence(k), NormalizeSequence(o)) => ContainsKey(k, o))
<1> DEFINE nk == NormalizeSequence(k)
           no == NormalizeSequence(o)
<1>1. /\ k \in Seq(KeyCodes) /\ Len(k) >= 1
      /\ o \in Seq(KeyCodes) /\ Len(o) >= 1
  BY PoolKeys
<1>2. /\ nk \in Seq(NormalCodes) /\ Len(nk) = Len(k)
      /\ no \in Seq(NormalCodes) /\ Len(no) = Len(o)
  BY <1>1, NormForm
<1>3. \A n \in 1 .. Len(o) :
        /\ Stands(k, o, n) => Stands(nk, no, n)
        /\ ~DifferentCodes(k, o) => (Stands(nk, no, n) => Stands(k, o, n))
  BY CodesStand
<1> HIDE DEF nk, no
<1>4. ContainsKey(k, o) <=> Len(k) < Len(o) /\ \E n \in 1 .. Len(o) : Stands(k, o, n)
  BY <1>1, ContainsForm
<1>5. ContainsKey(nk, no) <=> Len(nk) < Len(no) /\ \E n \in 1 .. Len(no) : Stands(nk, no, n)
  BY <1>1, <1>2, ContainsForm
<1>6. ContainsKey(k, o) => ContainsKey(nk, no)
  BY <1>2, <1>3, <1>4, <1>5
<1>7. ~DifferentCodes(k, o) => (ContainsKey(nk, no) => ContainsKey(k, o))
  BY <1>2, <1>3, <1>4, <1>5
<1> QED
  BY <1>6, <1>7 DEF nk, no

LEMMA CodesEqual ==
    ASSUME NEW k \in Pool, NEW o \in Pool
    PROVE  /\ Matches(k, o) = "Exact" => NormalizeSequence(o) = NormalizeSequence(k)
           /\ ~DifferentCodes(k, o) =>
                (NormalizeSequence(o) = NormalizeSequence(k) => Matches(k, o) = "Exact")
<1> DEFINE nk == NormalizeSequence(k)
           no == NormalizeSequence(o)
<1>1. k \in Seq(KeyCodes) /\ o \in Seq(KeyCodes) /\ Len(k) >= 1 /\ Len(o) >= 1
  BY PoolKeys
<1>2. /\ nk \in Seq(NormalCodes) /\ Len(nk) = Len(k)
      /\ no \in Seq(NormalCodes) /\ Len(no) = Len(o)
  BY <1>1, NormForm
<1>3. ASSUME Matches(k, o) = "Exact"
      PROVE  k = o
  <2>1. Len(k) = Len(o) /\ SubSeq(k, 1, Len(k)) = SubSeq(o, 1, Len(k))
    BY <1>3 DEF Matches, Seqs!IsPrefix
  <2>2. SubSeq(k, 1, Len(k)) = k /\ SubSeq(o, 1, Len(o)) = o
    BY <1>1
  <2> QED
    BY <2>1, <2>2
<1>4. ASSUME k = o
      PROVE  Matches(k, o) = "Exact"
  BY <1>1, <1>4 DEF Matches, Seqs!IsPrefix
<1>5. \A n \in 1 .. Len(o) :
        ~DifferentCodes(k, o) => (Stands(nk, no, n) => Stands(k, o, n))
  BY CodesStand
<1> HIDE DEF nk, no
<1>6. ASSUME ~DifferentCodes(k, o), nk = no
      PROVE  k = o
  <2>1. Len(k) = Len(o) /\ Len(o) \in 1 .. Len(o)
    BY <1>1, <1>2, <1>6
  <2>2. \A i \in 1 .. Len(o) : Len(o) - Len(o) + i = i
    BY <1>1
  <2>3. Stands(nk, no, Len(o))
    BY <1>2, <1>6, <2>1, <2>2 DEF Stands
  <2> QED
    BY <1>1, <1>5, <1>6, <2>1, <2>3, StandsWhole
<1>7. k = o => nk = no
  BY DEF nk, no
<1> QED
  BY <1>3, <1>4, <1>6, <1>7 DEF nk, no

LEMMA CodesDifferBothWays ==
    ASSUME NEW k, NEW o
    PROVE  DifferentCodes(k, o) => DifferentCodes(o, k)
<1> SUFFICES ASSUME DifferentCodes(k, o) PROVE DifferentCodes(o, k)
  OBVIOUS
<1>1. PICK i \in DOMAIN k, j \in DOMAIN o :
        k[i] # o[j] /\ NormalizeSequence(k)[i] = NormalizeSequence(o)[j]
  BY DEF DifferentCodes
<1>2. o[j] # k[i] /\ NormalizeSequence(o)[j] = NormalizeSequence(k)[i]
  BY <1>1
<1> QED
  BY <1>2 DEF DifferentCodes

(***************************************************************************)
(* A key that globalShortcutAvailable reports taken is refused by setKeys, *)
(* and one that it reports free is accepted unless it names a chord of the *)
(* key it clashes with by another code, for any pool of keys: the prefix   *)
(* comparisons of raw keys, forwards and backwards at every offset, find   *)
(* what the same comparisons of normalised keys find                       *)
(* (Utils::matchSequences, GlobalShortcut::setKeys).                       *)
(***************************************************************************)
THEOREM AvailabilityErrsOnlyOnCodes == Spec => []QueryErrsOnlyOnCodes
<1>1. ASSUME FilterInv
      PROVE  QueryErrsOnlyOnCodes
  <2> SUFFICES ASSUME NEW k \in Pool, NEW o \in Pool
               PROVE  /\ MatchSequences(k, <<o>>) => Clashes(k, o)
                      /\ Clashes(k, o) => MatchSequences(k, <<o>>) \/ DifferentCodes(k, o)
    BY <1>1 DEF QueryErrsOnlyOnCodes, FilterInv
  <2> DEFINE nk == NormalizeSequence(k)
             no == NormalizeSequence(o)
  <2>1. k # <<>> /\ o # <<>>
    BY PoolKeys
  <2>2. MatchSequences(k, <<o>>)
          <=> Matches(k, o) = "Exact" \/ ContainsKey(k, o) \/ ContainsKey(o, k)
    BY <2>1 DEF MatchSequences
  <2>3. Clashes(k, o) <=> no = nk \/ ContainsKey(nk, no) \/ ContainsKey(no, nk)
    <3>1. Finds("Equal", k, o) <=> no = nk
      BY <2>1 DEF Finds
    <3>2. Finds("Shadows", k, o) <=> ContainsKey(nk, no)
      BY <2>1 DEF Finds
    <3>3. Finds("Shadowed", k, o) <=> ContainsKey(no, nk)
      BY <2>1 DEF Finds
    <3> HIDE DEF nk, no
    <3> QED
      BY <3>1, <3>2, <3>3 DEF Clashes
  <2>4. DifferentCodes(o, k) => DifferentCodes(k, o)
    BY CodesDifferBothWays
  <2>5. /\ ContainsKey(k, o) => ContainsKey(nk, no)
        /\ ~DifferentCodes(k, o) => (ContainsKey(nk, no) => ContainsKey(k, o))
    BY CodesContain
  <2>6. /\ ContainsKey(o, k) => ContainsKey(no, nk)
        /\ ~DifferentCodes(o, k) => (ContainsKey(no, nk) => ContainsKey(o, k))
    BY CodesContain
  <2>7. /\ Matches(k, o) = "Exact" => no = nk
        /\ ~DifferentCodes(k, o) => (no = nk => Matches(k, o) = "Exact")
    BY CodesEqual
  <2> HIDE DEF nk, no
  <2> QED
    BY <2>2, <2>3, <2>4, <2>5, <2>6, <2>7
<1> QED
  BY <1>1, FilterInductive, PTL
=============================================================================
