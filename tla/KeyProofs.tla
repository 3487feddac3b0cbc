----------------------------- MODULE KeyProofs -----------------------------
(***************************************************************************)
(* Proof that key events refine the keyboard of module Registry, for any   *)
(* keyboard, keys and buffer bound.  What the lookup finds for the chords  *)
(* typed is, up to normalisation, one of the keys of Registry, and it ends *)
(* with modifiers alone exactly if the chord typed last is such a chord.   *)
(***************************************************************************)
EXTENDS KeyEvents, TLAPS

Typed == [mods : SUBSET Modifiers, sym : Syms \cup {NoSym, "Meta", "Print"}]

\* What the daemon remembers of the keyboard is well typed.
MachineOK ==
    /\ sequence \in Seq(Typed)
    /\ mods \in SUBSET Modifiers

-----------------------------------------------------------------------------
(***************************************************************************)
(* The buffer and its endings.                                             *)
(***************************************************************************)

\* Pushing a chord.
LEMMA PushKeyType ==
    ASSUME NEW b \in Seq(Typed), NEW chord \in Typed
    PROVE  /\ PushKey(b, chord) \in Seq(Typed)
           /\ Len(PushKey(b, chord)) \in Nat \ {0}
           /\ PushKey(b, chord)[Len(PushKey(b, chord))] = chord
<1>1. CASE Len(b) = MaxSequenceLength
  <2>1. Tail(b) \in Seq(Typed)
    BY <1>1 DEF MaxSequenceLength
  <2> QED
    BY <1>1, <2>1 DEF PushKey
<1>2. CASE Len(b) # MaxSequenceLength
  BY <1>2 DEF PushKey
<1> QED
  BY <1>1, <1>2

\* An ending of the buffer ends with the chord pushed.
LEMMA LastChordsEnd ==
    ASSUME NEW p \in Seq(Typed), NEW n \in 1 .. Len(p)
    PROVE  /\ DOMAIN LastChords(p, n) = 1 .. n
           /\ LastChords(p, n)[n] = p[Len(p)]
<1>1. Len(p) \in Nat /\ Len(p) - n + 1 \in Nat /\ n \in Nat
  OBVIOUS
<1>2. Len(LastChords(p, n)) = n
  BY <1>1 DEF LastChords
<1>3. LastChords(p, n)[n] = p[(Len(p) - n + 1) + n - 1]
  BY <1>1 DEF LastChords
<1>4. LastChords(p, n) \in Seq(Typed)
  BY <1>1 DEF LastChords
<1> QED
  BY <1>1, <1>2, <1>3, <1>4

\* Normalising a chord tells modifiers alone from other chords.
LEMMA NormalizedEnd ==
    ASSUME NEW k, NEW l, NEW i \in DOMAIN k, NEW j \in DOMAIN l,
           NormalizeSequence(k)[i] = NormalizeSequence(l)[j]
    PROVE  ModifierOnly(k[i]) <=> ModifierOnly(l[j])
<1> DEFINE Norm(c) == IF "Shift" \in c.mods /\ c.sym \in {"Backtab", "Tab"}
                      THEN Chord(c.mods, "Tab")
                      ELSE NormalizeKey(c)
<1>1. ASSUME NEW c PROVE ModifierOnly(c) <=> Norm(c).sym = NoSym
  BY DEF ModifierOnly, NormalizeKey, Chord, Modifiers, NoSym
<1>2. NormalizeSequence(k)[i] = Norm(k[i])
  BY DEF NormalizeSequence
<1>3. NormalizeSequence(l)[j] = Norm(l[j])
  BY DEF NormalizeSequence
<1> HIDE DEF Norm
<1> QED
  BY <1>1, <1>2, <1>3

\* An interval from 1 tells where it ends.
LEMMA IntervalEnd ==
    ASSUME NEW m \in Nat, NEW n \in Nat, m >= 1, n >= 1, 1 .. m = 1 .. n
    PROVE  m = n
<1>1. m \in 1 .. n /\ n \in 1 .. m
  OBVIOUS
<1> QED
  BY <1>1

\* A key found for an ending of the buffer ends as the buffer does.
LEMMA FoundEnd ==
    ASSUME NEW p \in Seq(Typed), NEW n \in 1 .. Len(p), NEW key \in Keys,
           Finds("Equal", LastChords(p, n), key)
    PROVE  ModifierOnly(key[Len(key)]) <=> ModifierOnly(p[Len(p)])
<1> DEFINE ending == LastChords(p, n)
<1>1. NormalizeSequence(key) = NormalizeSequence(ending)
  BY DEF Finds
<1>2. DOMAIN ending = 1 .. n /\ ending[n] = p[Len(p)]
  BY LastChordsEnd
<1>3. DOMAIN key = 1 .. Len(key) /\ Len(key) \in Nat /\ Len(key) >= 1
  <2>1. DOMAIN key = 1 .. Len(key) /\ Len(key) \in 1 .. MaxSequenceLength
    BY KeysAssumption, Zenon
  <2> QED
    BY <2>1 DEF MaxSequenceLength
<1>4. DOMAIN key = DOMAIN ending
  <2>1. \A k : DOMAIN NormalizeSequence(k) = DOMAIN k
    BY DEF NormalizeSequence
  <2> QED
    BY <1>1, <2>1
<1> HIDE DEF ending
<1>5. n = Len(key)
  <2>1. 1 .. n = 1 .. Len(key)
    BY <1>2, <1>3, <1>4, Zenon
  <2>2. n \in Nat /\ n >= 1
    OBVIOUS
  <2> QED
    BY <1>3, <2>1, <2>2, IntervalEnd, Zenon
<1>6. n \in DOMAIN key /\ n \in DOMAIN ending
  BY <1>2, <1>3, <1>4, <1>5
<1>7. NormalizeSequence(key)[n] = NormalizeSequence(ending)[n]
  BY <1>1
<1> QED
  BY <1>2, <1>5, <1>6, <1>7, NormalizedEnd

-----------------------------------------------------------------------------
(***************************************************************************)
(* Processing a chord triggers nothing, or a key that ends like it.        *)
(***************************************************************************)
LEMMA ProcessedFires ==
    ASSUME MachineOK, NEW chord \in Typed, NEW kind,
           NEW outcome \in Processed(chord, kind)
    PROVE  /\ outcome.sequence \in Seq(Typed)
           /\ \/ outcome.hold = Held
              \/ \E key \in Keys : \E s \in Lookup(key) \cap registered :
                    /\ ModifierOnly(key[Len(key)]) <=> ModifierOnly(chord)
                    /\ outcome.hold \in Fired(Held, s, kind)
<1> DEFINE pushed  == PushKey(sequence, chord)
           lengths == {n \in 1 .. Len(pushed) : Found(pushed, n) # {}}
           hits    == UNION {Found(pushed, n) : n \in
                               {m \in lengths : \A l \in lengths : m <= l}}
<1>1. /\ pushed \in Seq(Typed)
      /\ pushed[Len(pushed)] = chord
  BY PushKeyType DEF MachineOK
<1>2. <<>> \in Seq(Typed)
  OBVIOUS
<1>3. \/ outcome = Outcome(pushed, Held)
      \/ \E s \in hits \cap registered : \E h \in Fired(Held, s, kind) :
            outcome = Outcome(<<>>, h)
  BY DEF Processed
<1>4. CASE outcome = Outcome(pushed, Held)
  BY <1>1, <1>4 DEF Outcome
<1>5. ASSUME NEW s \in hits \cap registered, NEW h \in Fired(Held, s, kind),
             outcome = Outcome(<<>>, h)
      PROVE  /\ outcome.sequence \in Seq(Typed)
             /\ \E key \in Keys : \E t \in Lookup(key) \cap registered :
                    /\ ModifierOnly(key[Len(key)]) <=> ModifierOnly(chord)
                    /\ outcome.hold \in Fired(Held, t, kind)
  <2>1. PICK n \in 1 .. Len(pushed) : s \in Found(pushed, n)
    BY <1>5
  <2>2. PICK key \in Keys : Finds("Equal", LastChords(pushed, n), key) /\ s \in Lookup(key)
    BY <2>1 DEF Found
  <2> HIDE DEF pushed
  <2>3. ModifierOnly(key[Len(key)]) <=> ModifierOnly(chord)
    BY <1>1, <2>2, FoundEnd
  <2>4. outcome.hold = h /\ outcome.sequence = <<>>
    BY <1>5 DEF Outcome
  <2> QED
    BY <1>2, <1>5, <2>2, <2>3, <2>4
<1> QED
  BY <1>3, <1>4, <1>5

\* A release that follows nothing else.
LEMMA ReleaseStep ==
    ASSUME UNCHANGED <<place, book, grabs, refused, writeout>>,
           NEW h \in Parted(Held), Hold(h)
    PROVE  Keyboard
<1>1. CASE last = None
  <2>1. h = [Held EXCEPT !.last = None]
    BY <1>1 DEF Parted, Partings, Held
  <2>2. h = Held
    BY <1>1, <2>1 DEF Held
  <2> QED
    BY <2>2 DEF Keyboard, KeyIgnored, Quiet
<1>2. CASE last # None
  BY <1>2 DEF Keyboard, KeyReleased
<1> QED
  BY <1>1, <1>2

\* A key event is a step of Registry's keyboard.
LEMMA KeyEventStep ==
    ASSUME MachineOK, NEW code, NEW kind \in {"Pressed", "Repeated", "Released"},
           CorrectKeyEvent(code) \in Typed,
           KeyEvent(code, kind)
    PROVE  Keyboard /\ MachineOK'
<1> DEFINE chord == CorrectKeyEvent(code)
<1>1. UNCHANGED <<place, book, grabs, refused, writeout>>
  BY DEF KeyEvent
<1>2. CASE InvalidKey(kind)
  <2>1. MachineOK'
    BY <1>2 DEF InvalidKey, MachineOK
  <2>2. CASE kind = "Released"
    BY <1>1, <1>2, <2>1, <2>2, ReleaseStep DEF InvalidKey
  <2>3. CASE kind # "Released"
    BY <1>1, <1>2, <2>1, <2>3 DEF InvalidKey, Keyboard, KeyIgnored, Quiet
  <2> QED
    BY <2>2, <2>3
<1>3. CASE ModifierPressed(chord)
  <2>1. chord.mods \cup KeyToModifier(chord.sym) \in SUBSET Modifiers
    BY DEF Typed, KeyToModifier, Modifiers
  <2> QED
    BY <1>1, <1>3, <2>1 DEF ModifierPressed, MachineOK, Keyboard, KeyIgnored
<1>4. CASE ModifierReleased(chord)
  <2>1. mods' \in SUBSET Modifiers
    BY <1>4 DEF ModifierReleased, Typed
  <2>2. PICK outcome \in IF state = "Pressing"
                         THEN Processed(Chord(mods, NoSym), "Pressed")
                         ELSE {Outcome(sequence, Held)} :
          /\ sequence' = outcome.sequence
          /\ \E h \in Parted(outcome.hold) : Hold(h)
    BY <1>4 DEF ModifierReleased
  <2>3. Chord(mods, NoSym) \in Typed /\ ModifierOnly(Chord(mods, NoSym))
    BY DEF MachineOK, Typed, Chord, ModifierOnly
  <2>4. /\ outcome.sequence \in Seq(Typed)
        /\ \/ outcome.hold = Held
           \/ \E key \in Keys : \E s \in Lookup(key) \cap registered :
                 /\ ModifierOnly(key[Len(key)])
                 /\ outcome.hold \in Fired(Held, s, "Pressed")
    <3>1. CASE state = "Pressing"
      BY <2>2, <2>3, <3>1, ProcessedFires
    <3>2. CASE state # "Pressing"
      BY <2>2, <3>2 DEF Outcome, MachineOK
    <3> QED
      BY <3>1, <3>2
  <2>5. CASE outcome.hold = Held
    BY <1>1, <2>1, <2>2, <2>4, <2>5, ReleaseStep DEF MachineOK
  <2>6. ASSUME NEW key \in Keys, NEW s \in Lookup(key) \cap registered,
               ModifierOnly(key[Len(key)]),
               outcome.hold \in Fired(Held, s, "Pressed")
        PROVE  Keyboard /\ MachineOK'
    <3>1. KeyTapped(key)
      BY <1>1, <2>2, <2>6, KeyboardAssumption DEF KeyTapped, Heard
    <3> QED
      BY <2>1, <2>2, <2>4, <3>1 DEF Keyboard, MachineOK
  <2> QED
    BY <2>4, <2>5, <2>6
<1>5. ASSUME kind # "Released", chord.sym \notin Modifiers \cup {NoSym},
             OtherPressed(chord, kind)
      PROVE  Keyboard /\ MachineOK'
  <2>1. mods' \in SUBSET Modifiers
    BY <1>5 DEF OtherPressed, Typed
  <2>2. PICK outcome \in Processed(chord, kind) :
          /\ sequence' = outcome.sequence
          /\ Hold(outcome.hold)
    BY <1>5 DEF OtherPressed
  <2>3. ~ModifierOnly(chord)
    BY <1>5 DEF ModifierOnly
  <2>4. /\ outcome.sequence \in Seq(Typed)
        /\ \/ outcome.hold = Held
           \/ \E key \in Keys : \E s \in Lookup(key) \cap registered :
                 /\ ~ModifierOnly(key[Len(key)])
                 /\ outcome.hold \in Fired(Held, s, kind)
    BY <2>2, <2>3, ProcessedFires
  <2>5. CASE outcome.hold = Held
    BY <1>1, <2>1, <2>2, <2>4, <2>5 DEF MachineOK, Keyboard, KeyIgnored, Quiet
  <2>6. ASSUME NEW key \in Keys, NEW s \in Lookup(key) \cap registered,
               ~ModifierOnly(key[Len(key)]),
               outcome.hold \in Fired(Held, s, kind)
        PROVE  Keyboard /\ MachineOK'
    <3>1. KeyPressed(key, kind)
      BY <1>1, <2>2, <2>6, KeyboardAssumption DEF KeyPressed, Heard
    <3> QED
      BY <1>5, <2>1, <2>2, <2>4, <3>1 DEF Keyboard, MachineOK
  <2> QED
    BY <2>4, <2>5, <2>6
<1>6. CASE OtherReleased
  BY <1>1, <1>6, ReleaseStep DEF OtherReleased, MachineOK
<1> QED
  BY <1>2, <1>3, <1>4, <1>5, <1>6 DEF KeyEvent

-----------------------------------------------------------------------------
\* The user presses real modifiers.
LEMMA EventType ==
    ASSUME NEW pressed, NEW sym \in Syms
    PROVE  CorrectKeyEvent(Chord(ModifiersOf(pressed), sym)) \in Typed
<1>1. ModifiersOf(pressed) \in SUBSET Modifiers
  BY DEF ModifiersOf, KeyToModifier, Modifiers
<1> QED
  BY <1>1 DEF CorrectKeyEvent, Typed, Chord, Modifiers

LEMMA KeyNextStep ==
    ASSUME MachineOK, [KeyNext]_keyVars
    PROVE  [Next]_vars /\ MachineOK'
<1>1. CASE Work /\ UNCHANGED machine
  BY <1>1 DEF Next, MachineOK, machine
<1>2. ASSUME NEW sym \in Syms, Press(sym) PROVE Keyboard /\ MachineOK'
  BY <1>2, EventType, KeyEventStep DEF Press
<1>3. ASSUME NEW sym \in Syms, Repeat(sym) PROVE Keyboard /\ MachineOK'
  BY <1>3, EventType, KeyEventStep DEF Repeat
<1>4. ASSUME NEW sym \in Syms, Release(sym) PROVE Keyboard /\ MachineOK'
  BY <1>4, EventType, KeyEventStep DEF Release
<1>5. CASE ClickOrScroll
  BY <1>5 DEF ClickOrScroll, Next, Keyboard, KeyIgnored, MachineOK
<1>6. CASE UNCHANGED keyVars
  BY <1>6 DEF keyVars, machine, MachineOK
<1> QED
  BY <1>1, <1>2, <1>3, <1>4, <1>5, <1>6 DEF KeyNext, Next, machine

(***************************************************************************)
(* Whatever is typed, clicked and released in whatever order, the registry *)
(* behaves as module Registry says, so all that is proved there holds of   *)
(* the daemon driven by key events (keyEvent and processKey).              *)
(***************************************************************************)
THEOREM KeyEventsImplementRegistry == KeySpec => ImplementsRegistry
<1>1. KeyInit => Init /\ MachineOK
  BY DEF KeyInit, MachineOK
<1>2. MachineOK /\ [KeyNext]_keyVars => [Next]_vars /\ MachineOK'
  BY KeyNextStep
<1> QED
  BY <1>1, <1>2, PTL DEF KeySpec, ImplementsRegistry, Spec
=============================================================================
