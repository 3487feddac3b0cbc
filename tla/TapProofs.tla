----------------------------- MODULE TapProofs -----------------------------
(***************************************************************************)
(* Proofs about the state machine of key events (module KeyEvents), for    *)
(* any keyboard, keys and shortcuts: what it knows of the modifiers, when  *)
(* the release of one triggers, and how long a shortcut is held.           *)
(***************************************************************************)
EXTENDS KeyProofs, HoldProofs

-----------------------------------------------------------------------------
(***************************************************************************)
(* The registry, driven by key events, keeps its invariant.                *)
(***************************************************************************)
LEMMA RegistryInductive == KeySpec => []IInv
BY KeyEventsImplementRegistry, Inductive, PTL DEF ImplementsRegistry

LEMMA MachineInductive == KeySpec => []MachineOK
<1>1. KeyInit => MachineOK
  BY DEF KeyInit, MachineOK
<1>2. MachineOK /\ [KeyNext]_keyVars => MachineOK'
  BY KeyNextStep
<1> QED
  BY <1>1, <1>2, PTL DEF KeySpec

-----------------------------------------------------------------------------
(***************************************************************************)
(* Modifiers.                                                              *)
(***************************************************************************)

\* Pressing a key adds its modifier.
LEMMA ModifiersAdd ==
    ASSUME NEW pressed, NEW sym
    PROVE  ModifiersOf(pressed \cup {sym}) = ModifiersOf(pressed) \cup KeyToModifier(sym)
BY DEF ModifiersOf

\* What correctKeyEvent makes of a modifier, and of another key.
LEMMA CorrectedModifier ==
    ASSUME NEW reported \in SUBSET Modifiers, NEW sym, IsModifier(sym)
    PROVE  /\ CorrectKeyEvent(Chord(reported, sym)).sym \in Modifiers
           /\ KeyToModifier(CorrectKeyEvent(Chord(reported, sym)).sym) = KeyToModifier(sym)
           /\ CorrectKeyEvent(Chord(reported, sym)).mods \cup KeyToModifier(sym)
                = reported \cup KeyToModifier(sym)
BY DEF CorrectKeyEvent, Chord, IsModifier, KeyToModifier, Modifiers

LEMMA CorrectedOther ==
    ASSUME NEW reported \in SUBSET Modifiers, NEW sym, ~IsModifier(sym)
    PROVE  /\ CorrectKeyEvent(Chord(reported, sym)).sym \notin Modifiers
           /\ CorrectKeyEvent(Chord(reported, sym)).sym \in {sym, "Print"}
           /\ CorrectKeyEvent(Chord(reported, sym)).mods \in SUBSET Modifiers
BY DEF CorrectKeyEvent, Chord, IsModifier, KeyToModifier, Modifiers

LEMMA ModifiersType ==
    ASSUME NEW pressed
    PROVE  ModifiersOf(pressed) \in SUBSET Modifiers
BY DEF ModifiersOf, KeyToModifier, Modifiers

-----------------------------------------------------------------------------
(***************************************************************************)
(* While a tap is pending, nothing but modifiers has happened since the    *)
(* last of them went down, and the daemon knows exactly those held.        *)
(***************************************************************************)
TapInv ==
    state = "Pressing" =>
        /\ undisturbed
        /\ mods = ModifiersOf(down)
        /\ mods # {}

LEMMA TapStep ==
    ASSUME TapInv, [KeyNext]_keyVars
    PROVE  TapInv'
<1>1. CASE UNCHANGED <<machine, down, undisturbed>>
  BY <1>1 DEF TapInv, machine, ModifiersOf
<1>2. CASE state' # "Pressing"
  BY <1>2 DEF TapInv
<1>3. ASSUME NEW sym \in Syms, Press(sym) PROVE TapInv'
  <2>1. PICK reported \in {ModifiersOf(down), ModifiersOf(down')} :
          KeyEvent(Chord(reported, sym), "Pressed")
    BY <1>3 DEF Press
  <2>2. reported \in SUBSET Modifiers
    BY <2>1, ModifiersType
  <2>3. CASE ~IsModifier(sym)
    <3>1. CorrectKeyEvent(Chord(reported, sym)).sym \notin Modifiers
      BY <2>2, <2>3, CorrectedOther
    <3> QED
      BY <1>2, <2>1, <3>1 DEF KeyEvent, InvalidKey, OtherPressed, OtherReleased
  <2>4. CASE IsModifier(sym)
    <3> DEFINE chord == CorrectKeyEvent(Chord(reported, sym))
    <3>1. /\ chord.sym \in Modifiers
          /\ KeyToModifier(chord.sym) = KeyToModifier(sym)
          /\ chord.mods \cup KeyToModifier(sym) = reported \cup KeyToModifier(sym)
      BY <2>2, <2>4, CorrectedModifier
    <3>2. ModifierPressed(chord)
      BY <2>1, <3>1 DEF KeyEvent, Modifiers, NoSym
    <3>3. mods' = reported \cup KeyToModifier(sym)
      BY <3>1, <3>2 DEF ModifierPressed
    <3>4. /\ ModifiersOf(down') = ModifiersOf(down) \cup KeyToModifier(sym)
          /\ undisturbed' = TRUE
      BY <1>3, <2>4, ModifiersAdd DEF Press
    <3>5. mods' = ModifiersOf(down') /\ mods' # {}
      BY <2>1, <2>4, <3>3, <3>4 DEF IsModifier
    <3>6. ModifiersOf(down)' = ModifiersOf(down')
      BY DEF ModifiersOf
    <3> QED
      BY <3>4, <3>5, <3>6 DEF TapInv
  <2> QED
    BY <2>3, <2>4
<1>4. ASSUME NEW sym \in Syms, Repeat(sym) PROVE TapInv'
  <2>1. CorrectKeyEvent(Chord(ModifiersOf(down), sym)).sym \notin Modifiers
    BY <1>4, ModifiersType, CorrectedOther DEF Repeat
  <2> QED
    BY <1>2, <1>4, <2>1 DEF Repeat, KeyEvent, InvalidKey, OtherPressed, OtherReleased
<1>5. ASSUME NEW sym \in Syms, Release(sym) PROVE TapInv'
  BY <1>2, <1>5 DEF Release, KeyEvent, InvalidKey, ModifierReleased, OtherReleased
<1>6. CASE ClickOrScroll
  BY <1>2, <1>6 DEF ClickOrScroll
<1>7. CASE UNCHANGED keyVars
  BY <1>1, <1>7 DEF keyVars, user
<1> QED
  BY <1>1, <1>3, <1>4, <1>5, <1>6, <1>7 DEF KeyNext

LEMMA TapInductive == KeySpec => []TapInv
<1>1. KeyInit => TapInv
  BY DEF KeyInit, TapInv
<1>2. TapInv /\ [KeyNext]_keyVars => TapInv'
  BY TapStep
<1> QED
  BY <1>1, <1>2, PTL DEF KeySpec

(***************************************************************************)
(* While a modifier-only shortcut is pending, the daemon knows exactly the *)
(* modifiers held, whether the event that pressed one named it or not.     *)
(***************************************************************************)
THEOREM PendingTapsAreHeld == KeySpec => []PendingTapIsHeld
<1>1. TapInv => PendingTapIsHeld
  BY DEF TapInv, PendingTapIsHeld
<1> QED
  BY <1>1, TapInductive, PTL

-----------------------------------------------------------------------------
(***************************************************************************)
(* A shortcut is held no longer than a key is down.                        *)
(***************************************************************************)

\* Nothing but the keyboard starts holding a shortcut.
LEMMA WorkHoldsNothing ==
    ASSUME IInv, Work, last = None
    PROVE  last' = None
<1>1. CASE Idle
  BY <1>1 DEF Idle
<1>2. CASE Regrabbing
  BY <1>2, RegrabsHold DEF Regrabbing
<1>3. ASSUME NEW id \in Ids, AddAction(id) PROVE last' = None
  <2>1. Home(id) \in Slots
    BY SlotsOfIds DEF IInv
  <2> QED
    BY <1>3, <2>1, LiveIsNotNone DEF AddAction, Hold, Held
<1> QED
  BY <1>1, <1>2, <1>3, WorkKinds

\* An outcome of processKey is a hold.
LEMMA ProcessedHolds ==
    ASSUME IInv, MachineOK, NEW chord \in Typed, NEW kind \in {"Pressed", "Repeated"},
           NEW outcome \in Processed(chord, kind)
    PROVE  outcome.hold \in Holds
<1>1. Held \in Holds
  BY HeldType DEF IInv
<1>2. \A key : Lookup(key) \subseteq Slots
  BY DEF IInv, TypeOK, Lookup, CurrentSlots
<1> QED
  BY <1>1, <1>2, ProcessedFires, FiredType

\* A release lets go of whatever is held, and of what it triggers.
LEMMA ReleasedLetsGo ==
    ASSUME IInv, MachineOK, NEW code, KeyEvent(code, "Released")
    PROVE  last' = None
<1>1. Held \in Holds
  BY HeldType DEF IInv
<1>2. ASSUME NEW h \in Holds, NEW p \in Parted(h), Hold(p)
      PROVE  last' = None
  BY <1>2, PartedHold DEF Hold
<1>3. CASE InvalidKey("Released") \/ OtherReleased
  BY <1>1, <1>2, <1>3 DEF InvalidKey, OtherReleased
<1>4. ASSUME NEW chord, ModifierReleased(chord)
      PROVE  last' = None
  <2>1. PICK outcome \in IF state = "Pressing"
                         THEN Processed(Chord(mods, NoSym), "Pressed")
                         ELSE {Outcome(sequence, Held)} :
          \E h \in Parted(outcome.hold) : Hold(h)
    BY <1>4 DEF ModifierReleased
  <2>2. Chord(mods, NoSym) \in Typed
    BY DEF MachineOK, Typed, Chord
  <2>3. outcome.hold \in Holds
    BY <1>1, <2>1, <2>2, ProcessedHolds DEF Outcome
  <2> QED
    BY <1>2, <2>1, <2>3
<1> QED
  BY <1>3, <1>4 DEF KeyEvent

LEMMA ReleaseLetsGo ==
    ASSUME IInv, MachineOK, NEW sym \in Syms, Release(sym)
    PROVE  last' = None
<1>1. PICK code : KeyEvent(code, "Released")
  BY DEF Release
<1> QED
  BY <1>1, ReleasedLetsGo

LEMMA DownStep ==
    ASSUME IInv, MachineOK, HeldWhileDown, [KeyNext]_keyVars
    PROVE  HeldWhileDown'
<1>1. CASE last' = None
  BY <1>1 DEF HeldWhileDown
<1>2. CASE UNCHANGED <<last, presser, down>>
  BY <1>2 DEF HeldWhileDown
<1>3. CASE Work /\ presser' = Presser(presser) /\ UNCHANGED down
  BY <1>1, <1>3, WorkHoldsNothing DEF Presser, HeldWhileDown
<1>4. ASSUME NEW sym \in Syms, Press(sym) PROVE HeldWhileDown'
  BY <1>4 DEF Press, Presser, HeldWhileDown
<1>5. ASSUME NEW sym \in Syms, Repeat(sym) PROVE HeldWhileDown'
  BY <1>5 DEF Repeat, Presser, HeldWhileDown
<1>6. ASSUME NEW sym \in Syms, Release(sym) PROVE HeldWhileDown'
  BY <1>1, <1>6, ReleaseLetsGo
<1>7. CASE ClickOrScroll
  BY <1>2, <1>7 DEF ClickOrScroll, Quiet, Hold, Held
<1>8. CASE UNCHANGED keyVars
  BY <1>2, <1>8 DEF keyVars, vars, hold, user
<1> QED
  BY <1>3, <1>4, <1>5, <1>6, <1>7, <1>8 DEF KeyNext

(***************************************************************************)
(* Whatever is typed, released, blocked, unregistered or given other keys  *)
(* in whatever order, a shortcut is held only while the key that triggered *)
(* it is down.                                                             *)
(***************************************************************************)
THEOREM HeldOnlyWhileDown == KeySpec => []HeldWhileDown
<1>1. KeyInit => HeldWhileDown
  BY DEF KeyInit, Init, HeldWhileDown
<1>2. IInv /\ MachineOK /\ HeldWhileDown /\ [KeyNext]_keyVars => HeldWhileDown'
  BY DownStep
<1> QED
  BY <1>1, <1>2, RegistryInductive, MachineInductive, PTL DEF KeySpec

-----------------------------------------------------------------------------
(***************************************************************************)
(* Taps are clean.                                                         *)
(***************************************************************************)
CleanTap ==
    \A i \in DOMAIN out' :
        out'[i].kind = "Pressed" /\ down' \ down = {} /\ down' # down =>
            /\ undisturbed
            /\ \E key \in KeySet(keys[out'[i].slot]) :
                  NormalizeSequence(key)[Len(key)] = Chord(ModifiersOf(down), NoSym)

\* What is found for the buffer after a chord of modifiers has a key that,
\* normalised, ends with that chord.
LEMMA FoundTap ==
    ASSUME IInv, NEW p \in Seq(Typed), NEW n \in 1 .. Len(p),
           NEW m \in SUBSET Modifiers, p[Len(p)] = Chord(m, NoSym),
           NEW s \in Found(p, n)
    PROVE  /\ s \in Slots
           /\ \E key \in KeySet(keys[s]) :
                 NormalizeSequence(key)[Len(key)] = Chord(m, NoSym)
<1> DEFINE ending == LastChords(p, n)
<1>1. PICK key \in Keys : Finds("Equal", ending, key) /\ s \in Lookup(key)
  BY DEF Found
<1>2. s \in Slots /\ s \in live
  BY <1>1 DEF IInv, TypeOK, Lookup, CurrentSlots
<1>3. PICK other \in KeySet(keys[s]) : <<key, other>> \in Matching
  BY <1>1 DEF Lookup
<1>4. other \in Keys
  <2>1. keys[s] \in KeyListType
    BY <1>2 DEF IInv, TypeOK, KeyListType
  <2> QED
    BY <2>1, KeySetType
<1>5. NormalizeSequence(other) = NormalizeSequence(ending)
  <2>1. NormalizeSequence(key) = NormalizeSequence(ending)
    BY <1>1 DEF Finds
  <2>2. NormalizeSequence(other) = NormalizeSequence(key)
    BY <1>3, <1>4 DEF Matching, Finds
  <2> QED
    BY <2>1, <2>2
<1>6. DOMAIN ending = 1 .. n /\ ending[n] = Chord(m, NoSym)
  BY LastChordsEnd
<1>7. DOMAIN other = 1 .. Len(other) /\ Len(other) \in Nat /\ Len(other) >= 1
  <2>1. DOMAIN other = 1 .. Len(other) /\ Len(other) \in 1 .. MaxSequenceLength
    BY <1>4, KeysAssumption, Zenon
  <2> QED
    BY <2>1 DEF MaxSequenceLength
<1> HIDE DEF ending
<1>8. n = Len(other)
  <2>1. \A k : DOMAIN NormalizeSequence(k) = DOMAIN k
    BY DEF NormalizeSequence
  <2>2. 1 .. n = 1 .. Len(other)
    BY <1>5, <1>6, <1>7, <2>1, Zenon
  <2>3. n \in Nat /\ n >= 1
    OBVIOUS
  <2> QED
    BY <1>7, <2>2, <2>3, IntervalEnd, Zenon
<1>9. NormalizeSequence(ending)[n] = Chord(m, NoSym)
  BY <1>6 DEF NormalizeSequence, NormalizeKey, Chord, NoSym, Modifiers
<1>10. NormalizeSequence(other)[Len(other)] = Chord(m, NoSym)
  BY <1>5, <1>8, <1>9
<1> QED
  BY <1>2, <1>3, <1>10

\* So whatever a chord of modifiers triggers has such a key.
LEMMA ProcessedTap ==
    ASSUME IInv, MachineOK, NEW m \in SUBSET Modifiers,
           NEW outcome \in Processed(Chord(m, NoSym), "Pressed")
    PROVE  \/ outcome.hold = Held
           \/ \E s \in Slots :
                 /\ outcome.hold \in Fired(Held, s, "Pressed")
                 /\ \E key \in KeySet(keys[s]) :
                       NormalizeSequence(key)[Len(key)] = Chord(m, NoSym)
<1> DEFINE chord   == Chord(m, NoSym)
           pushed  == PushKey(sequence, chord)
           lengths == {n \in 1 .. Len(pushed) : Found(pushed, n) # {}}
           hits    == UNION {Found(pushed, n) : n \in
                               {l \in lengths : \A k \in lengths : l <= k}}
<1>1. /\ pushed \in Seq(Typed)
      /\ pushed[Len(pushed)] = chord
  <2>1. chord \in Typed
    BY DEF Typed, Chord
  <2> QED
    BY <2>1, PushKeyType DEF MachineOK
<1>2. \/ outcome = Outcome(pushed, Held)
      \/ \E s \in hits \cap registered : \E h \in Fired(Held, s, "Pressed") :
            outcome = Outcome(<<>>, h)
  BY DEF Processed
<1>3. CASE outcome = Outcome(pushed, Held)
  BY <1>3 DEF Outcome
<1>4. ASSUME NEW s \in hits, NEW h \in Fired(Held, s, "Pressed"),
             outcome = Outcome(<<>>, h)
      PROVE  /\ s \in Slots
             /\ outcome.hold \in Fired(Held, s, "Pressed")
             /\ \E key \in KeySet(keys[s]) :
                   NormalizeSequence(key)[Len(key)] = Chord(m, NoSym)
  <2>1. PICK n \in 1 .. Len(pushed) : s \in Found(pushed, n)
    BY <1>4
  <2>2. outcome.hold = h
    BY <1>4 DEF Outcome
  <2> HIDE DEF pushed
  <2> QED
    BY <1>1, <1>4, <2>1, <2>2, FoundTap
<1> QED
  BY <1>2, <1>3, <1>4

\* Which signals a hold tells of as pressed.
PressesOnly(h, s) == \A i \in DOMAIN h.out : h.out[i].kind = "Pressed" => h.out[i].slot = s

LEMMA AppendPresses ==
    ASSUME NEW u \in Seq(Signals), NEW m \in Signals, NEW s,
           \A i \in DOMAIN u : u[i].kind = "Pressed" => u[i].slot = s,
           m.kind = "Pressed" => m.slot = s
    PROVE  \A i \in DOMAIN Append(u, m) :
              Append(u, m)[i].kind = "Pressed" => Append(u, m)[i].slot = s
OBVIOUS

LEMMA FiredPresses ==
    ASSUME IInv, NEW s \in Slots, NEW h \in Fired(Held, s, "Pressed")
    PROVE  PressesOnly(h, s)
<1>1. TypeOK
  BY DEF IInv
<1>2. PICK o \in SUBSET Slots, u \in Seq(Signals) :
        /\ Ended(s, o, u)
        /\ h.out = u \/ h.out = Append(u, Signal("Pressed", s))
  BY <1>1, FiredHold
<1>3. \A i \in DOMAIN u : u[i].kind # "Pressed"
  <2>1. Signal("Released", last.slot).kind # "Pressed"
    BY DEF Signal
  <2>2. DOMAIN <<>> = {}
    OBVIOUS
  <2> QED
    BY <1>2, <2>1, <2>2 DEF Ended
<1>4. Signal("Pressed", s) \in Signals /\ Signal("Pressed", s).slot = s
  BY DEF Signal, Signals
<1> QED
  BY <1>2, <1>3, <1>4, AppendPresses DEF PressesOnly

LEMMA PartedPresses ==
    ASSUME NEW h \in Holds, NEW p \in Parted(h), NEW s, PressesOnly(h, s)
    PROVE  PressesOnly(p, s)
<1>1. p.out = h.out \/ (h.last # None /\ p.out = Append(h.out, Signal("Released", h.last.slot)))
  BY PartedHold
<1>2. h.last # None => Signal("Released", h.last.slot) \in Signals
  BY DEF Holds, Objects, Signal, Signals
<1>3. Signal("Released", h.last.slot).kind # "Pressed"
  BY DEF Signal
<1>4. h.out \in Seq(Signals)
  BY DEF Holds
<1> QED
  BY <1>1, <1>2, <1>3, <1>4, AppendPresses DEF PressesOnly

\* A release triggers only while a tap is pending, and only a shortcut with a
\* key that ends with the modifiers that the daemon takes to be held.
LEMMA ReleasedTriggers ==
    ASSUME IInv, MachineOK, NEW code, KeyEvent(code, "Released"),
           NEW i \in DOMAIN out', out'[i].kind = "Pressed"
    PROVE  /\ CorrectKeyEvent(code).sym \in Modifiers
           /\ state = "Pressing"
           /\ \E key \in KeySet(keys[out'[i].slot]) :
                 NormalizeSequence(key)[Len(key)] = Chord(mods, NoSym)
<1>1. Held \in Holds /\ \A s : PressesOnly(Held, s)
  BY HeldType DEF IInv, Held, PressesOnly
<1>2. ASSUME NEW h \in Holds, NEW p \in Parted(h), Hold(p), NEW s, PressesOnly(h, s)
      PROVE  out'[i].slot = s
  BY <1>2, PartedPresses DEF Hold, PressesOnly
<1>3. ASSUME NEW p \in Parted(Held), Hold(p) PROVE FALSE
  <2>1. out'[i].slot = {} /\ out'[i].slot = {{}}
    BY <1>1, <1>2, <1>3
  <2> QED
    BY <2>1
<1>4. CorrectKeyEvent(code).sym \in Modifiers /\ ModifierReleased(CorrectKeyEvent(code))
  BY <1>3 DEF KeyEvent, InvalidKey, OtherReleased
<1>5. state = "Pressing"
  BY <1>3, <1>4 DEF ModifierReleased, Outcome
<1>6. PICK outcome \in Processed(Chord(mods, NoSym), "Pressed") :
        \E h \in Parted(outcome.hold) : Hold(h)
  BY <1>4, <1>5 DEF ModifierReleased
<1>7. PICK s \in Slots : /\ outcome.hold \in Fired(Held, s, "Pressed")
                         /\ \E key \in KeySet(keys[s]) :
                               NormalizeSequence(key)[Len(key)] = Chord(mods, NoSym)
  BY <1>3, <1>6, ProcessedTap DEF MachineOK
<1>8. out'[i].slot = s
  BY <1>1, <1>2, <1>6, <1>7, FiredType, FiredPresses
<1> QED
  BY <1>4, <1>5, <1>7, <1>8

LEMMA CleanStep ==
    ASSUME IInv, MachineOK, TapInv, KeyNext
    PROVE  CleanTap
<1>1. CASE down' \ down # {} \/ down' = down
  BY <1>1 DEF CleanTap
<1>2. ASSUME NEW sym \in Syms, Release(sym)
      PROVE  CleanTap
  BY <1>2, ReleasedTriggers DEF Release, TapInv, CleanTap
<1>3. ASSUME NEW sym \in Syms, Press(sym) \/ Repeat(sym)
      PROVE  down' \ down # {} \/ down' = down
  BY <1>3 DEF Press, Repeat
<1>4. ClickOrScroll => down' = down
  BY DEF ClickOrScroll
<1> QED
  BY <1>1, <1>2, <1>3, <1>4 DEF KeyNext

(***************************************************************************)
(* Releasing a modifier triggers only if nothing but modifiers has been    *)
(* pressed, clicked or scrolled since the last modifier went down, and     *)
(* only a shortcut with a key that ends with exactly the modifiers held,   *)
(* whatever is in the buffer (keyEvent, ModifierReleased).                 *)
(***************************************************************************)
THEOREM TapsTriggerCleanly == KeySpec => TapsAreClean
<1>1. IInv /\ MachineOK /\ TapInv /\ [KeyNext]_keyVars => [CleanTap]_keyVars
  BY CleanStep
<1>2. KeySpec => [][CleanTap]_keyVars
  BY <1>1, RegistryInductive, MachineInductive, TapInductive, PTL DEF KeySpec
<1> QED
  BY <1>2, PTL DEF TapsAreClean, CleanTap

-----------------------------------------------------------------------------
(***************************************************************************)
(* Types.  Modifiers never reach the buffer by their own names.            *)
(***************************************************************************)
Buffered == [mods : SUBSET Modifiers,
             sym  : {s \in Syms : ~IsModifier(s)} \cup {NoSym, "Print"}]

BufferOK == sequence \in Seq(Buffered) /\ Len(sequence) <= MaxSequenceLength

UserOK ==
    /\ state \in {"Normal", "Pressing", "Releasing"}
    /\ down \in SUBSET Syms
    /\ undisturbed \in BOOLEAN
    /\ presser \in Syms \cup {NoSym}

\* Pushing a chord does not lengthen a full buffer.
LEMMA PushKeyBounded ==
    ASSUME NEW S, NEW b \in Seq(S), Len(b) <= MaxSequenceLength, NEW chord \in S
    PROVE  /\ PushKey(b, chord) \in Seq(S)
           /\ Len(PushKey(b, chord)) <= MaxSequenceLength
<1>1. CASE Len(b) = MaxSequenceLength
  <2>1. Tail(b) \in Seq(S) /\ Len(Tail(b)) = 3
    BY <1>1 DEF MaxSequenceLength
  <2>2. PushKey(b, chord) = Append(Tail(b), chord)
    BY <1>1 DEF PushKey
  <2>3. Append(Tail(b), chord) \in Seq(S) /\ Len(Append(Tail(b), chord)) = 4
    BY <2>1
  <2> QED
    BY <2>2, <2>3 DEF MaxSequenceLength
<1>2. CASE Len(b) # MaxSequenceLength
  <2>1. PushKey(b, chord) = Append(b, chord)
    BY <1>2 DEF PushKey
  <2>2. /\ Append(b, chord) \in Seq(S) /\ Len(Append(b, chord)) = Len(b) + 1
        /\ Len(b) \in Nat
    OBVIOUS
  <2>3. Len(b) + 1 <= 4
    <3>1. Len(b) # 4 /\ Len(b) <= 4
      BY <1>2 DEF MaxSequenceLength
    <3>2. \A n \in Nat : n # 4 /\ n <= 4 => n + 1 <= 4
      OBVIOUS
    <3> QED
      BY <2>2, <3>1, <3>2, Zenon
  <2> QED
    BY <2>1, <2>2, <2>3 DEF MaxSequenceLength
<1> QED
  BY <1>1, <1>2

\* processKey leaves the buffer emptied, or with one more chord.
LEMMA ProcessedBuffer ==
    ASSUME BufferOK, NEW chord \in Buffered, NEW kind,
           NEW outcome \in Processed(chord, kind)
    PROVE  /\ outcome.sequence \in Seq(Buffered)
           /\ Len(outcome.sequence) <= MaxSequenceLength
<1>1. outcome.sequence \in {<<>>, PushKey(sequence, chord)}
  BY DEF Processed, Outcome
<1>2. <<>> \in Seq(Buffered) /\ Len(<<>>) <= MaxSequenceLength
  BY DEF MaxSequenceLength
<1>3. /\ PushKey(sequence, chord) \in Seq(Buffered)
      /\ Len(PushKey(sequence, chord)) <= MaxSequenceLength
  BY PushKeyBounded DEF BufferOK
<1> QED
  BY <1>1, <1>2, <1>3

\* A key event of the user's.
LEMMA EventBuffer ==
    ASSUME MachineOK, BufferOK, NEW sym \in Syms, NEW reported \in SUBSET Modifiers,
           NEW kind \in {"Pressed", "Repeated", "Released"},
           KeyEvent(Chord(reported, sym), kind)
    PROVE  BufferOK' /\ state' \in {"Normal", "Pressing", "Releasing"}
<1> DEFINE chord == CorrectKeyEvent(Chord(reported, sym))
<1>1. CASE InvalidKey(kind)
  BY <1>1 DEF InvalidKey, BufferOK, MaxSequenceLength
<1>2. CASE ModifierPressed(chord)
  BY <1>2 DEF ModifierPressed, BufferOK
<1>3. CASE ModifierReleased(chord)
  <2>1. Chord(mods, NoSym) \in Buffered
    BY DEF MachineOK, Buffered, Chord
  <2>2. PICK outcome \in IF state = "Pressing"
                         THEN Processed(Chord(mods, NoSym), "Pressed")
                         ELSE {Outcome(sequence, Held)} :
          sequence' = outcome.sequence
    BY <1>3 DEF ModifierReleased
  <2>3. BufferOK'
    BY <2>1, <2>2, ProcessedBuffer DEF Outcome, BufferOK
  <2> QED
    BY <1>3, <2>3 DEF ModifierReleased
<1>4. CASE chord.sym \notin Modifiers /\ OtherPressed(chord, kind)
  <2>1. ~IsModifier(sym)
    BY <1>4, CorrectedModifier
  <2>2. chord.sym \in {sym, "Print"} /\ chord.mods \in SUBSET Modifiers
    BY <2>1, CorrectedOther
  <2>3. chord \in Buffered
    <3>1. chord = Chord(chord.mods, chord.sym)
      BY DEF CorrectKeyEvent, Chord
    <3> QED
      BY <2>1, <2>2, <3>1 DEF Buffered, Chord
  <2>4. PICK outcome \in Processed(chord, kind) : sequence' = outcome.sequence
    BY <1>4 DEF OtherPressed
  <2>5. BufferOK'
    BY <2>3, <2>4, ProcessedBuffer DEF BufferOK
  <2> QED
    BY <1>4, <2>5 DEF OtherPressed
<1>5. CASE OtherReleased
  BY <1>5 DEF OtherReleased, BufferOK
<1> QED
  BY <1>1, <1>2, <1>3, <1>4, <1>5 DEF KeyEvent

LEMMA KeyTypeStep ==
    ASSUME MachineOK, BufferOK, UserOK, [KeyNext]_keyVars
    PROVE  BufferOK' /\ UserOK'
<1>1. \A pressed : ModifiersOf(pressed) \in SUBSET Modifiers
  BY ModifiersType
<1>2. CASE Work /\ presser' = Presser(presser) /\ UNCHANGED <<machine, down, undisturbed>>
  BY <1>2 DEF Presser, machine, BufferOK, UserOK
<1>3. ASSUME NEW sym \in Syms, Press(sym)
      PROVE  BufferOK' /\ UserOK'
  <2>1. PICK reported \in SUBSET Modifiers : KeyEvent(Chord(reported, sym), "Pressed")
    BY <1>1, <1>3 DEF Press
  <2>2. BufferOK' /\ state' \in {"Normal", "Pressing", "Releasing"}
    BY <2>1, EventBuffer
  <2>3. down' \in SUBSET Syms /\ undisturbed' \in BOOLEAN /\ presser' \in Syms \cup {NoSym}
    BY <1>3 DEF Press, Presser, UserOK, IsModifier
  <2> QED
    BY <2>2, <2>3 DEF UserOK
<1>4. ASSUME NEW sym \in Syms, Repeat(sym)
      PROVE  BufferOK' /\ UserOK'
  <2>1. KeyEvent(Chord(ModifiersOf(down), sym), "Repeated")
    BY <1>4 DEF Repeat
  <2>2. BufferOK' /\ state' \in {"Normal", "Pressing", "Releasing"}
    BY <1>1, <2>1, EventBuffer
  <2>3. down' \in SUBSET Syms /\ undisturbed' \in BOOLEAN /\ presser' \in Syms \cup {NoSym}
    BY <1>4 DEF Repeat, Presser, UserOK
  <2> QED
    BY <2>2, <2>3 DEF UserOK
<1>5. ASSUME NEW sym \in Syms, Release(sym)
      PROVE  BufferOK' /\ UserOK'
  <2>1. PICK reported \in SUBSET Modifiers : KeyEvent(Chord(reported, sym), "Released")
    BY <1>1, <1>5 DEF Release
  <2>2. BufferOK' /\ state' \in {"Normal", "Pressing", "Releasing"}
    BY <2>1, EventBuffer
  <2>3. down' \in SUBSET Syms /\ undisturbed' \in BOOLEAN /\ presser' \in Syms \cup {NoSym}
    BY <1>5 DEF Release, Presser, UserOK
  <2> QED
    BY <2>2, <2>3 DEF UserOK
<1>6. CASE ClickOrScroll
  BY <1>6 DEF ClickOrScroll, BufferOK, UserOK
<1>7. CASE UNCHANGED keyVars
  BY <1>7 DEF keyVars, machine, user, BufferOK, UserOK
<1> QED
  BY <1>2, <1>3, <1>4, <1>5, <1>6, <1>7 DEF KeyNext

(***************************************************************************)
(* The state of the key machine is always well typed: the buffer never     *)
(* holds more than four chords, and never a modifier by its own name, as   *)
(* no key would match it.                                                  *)
(***************************************************************************)
THEOREM KeyTypesCorrect == KeySpec => []KeyTypeOK
<1>1. KeyInit => BufferOK /\ UserOK
  <2>1. <<>> \in Seq(Buffered) /\ Len(<<>>) <= MaxSequenceLength
    BY DEF MaxSequenceLength
  <2>2. KeyInit => BufferOK
    BY <2>1 DEF KeyInit, BufferOK
  <2>3. KeyInit => UserOK
    BY DEF KeyInit, UserOK
  <2> QED
    BY <2>2, <2>3
<1>2. MachineOK /\ BufferOK /\ UserOK /\ [KeyNext]_keyVars => BufferOK' /\ UserOK'
  BY KeyTypeStep
<1>3. IInv /\ MachineOK /\ BufferOK /\ UserOK => KeyTypeOK
  BY DEF IInv, MachineOK, BufferOK, Buffered, UserOK, KeyTypeOK
<1> QED
  BY <1>1, <1>2, <1>3, RegistryInductive, MachineInductive, PTL DEF KeySpec

(***************************************************************************)
(* Whatever is typed on whatever keyboard, a Released signal ends a press  *)
(* (keyEvent, processKey), if no shortcut is left out by an allow-list.    *)
(***************************************************************************)
THEOREM TypedReleasesFollowPresses ==
    ASSUME EverythingAllowed
    PROVE  KeySpec => ReleasesEndPresses
<1>1. Spec => ReleasesEndPresses
  BY ReleasesFollowPresses
<1> QED
  BY <1>1, KeyEventsImplementRegistry, PTL DEF ImplementsRegistry
=============================================================================
