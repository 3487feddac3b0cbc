----------------------------- MODULE KeyEvents -----------------------------
(***************************************************************************)
(* Key events, as the compositor reports them: every press, repeat and     *)
(* release of a key, and every click and scroll.  This module refines the  *)
(* keyboard of module Registry: it adds the buffer of recently typed       *)
(* chords and the state machine for shortcuts made of modifiers alone      *)
(* (GlobalShortcutsRegistry::keyEvent and processKey), and the keyboard.   *)
(***************************************************************************)
EXTENDS Registry

CONSTANTS
    Syms,       \* the keys of the keyboard, by the symbol they produce
    MaxBuffer   \* bound: chords typed in a row that trigger nothing

ASSUME KeyboardAssumption == EveryChordHeard

VARIABLES
    sequence,     \* _active_sequence
    mods,         \* m_currentModifiers
    state,        \* m_state
    down,         \* the keys held down
    undisturbed,  \* ghost: nothing but modifiers since the last modifier
    presser       \* ghost: the key whose press made last what it is, if any

machine  == <<sequence, mods, state>>
user     == <<down, undisturbed, presser>>
keyVars  == <<vars, machine, user>>

-----------------------------------------------------------------------------
(***************************************************************************)
(* The handlers.  An outcome of processKey is what becomes of the buffer   *)
(* and of the shortcut held.                                               *)
(***************************************************************************)

\* Broken: codes are taken as they come.
CorrectKeyEventNot(chord) == chord

\* What the daemon takes a key code for.
CorrectKeyEvent(chord) ==
    IF chord.sym \in {"Super_L", "Super_R"}
    THEN Chord(chord.mods \cup {"Meta"}, "Meta")
    ELSE IF chord.sym = "SysReq" THEN Chord(chord.mods \cup {"Alt"}, "Print")
    ELSE chord

Outcome(s, h) == [sequence |-> s, hold |-> h]

\* The shortcuts a lookup of the last n chords may return.
Found(chords, n) ==
    UNION {Lookup(k) : k \in
             {key \in Keys : Finds("Equal", LastChords(chords, n), key)}}

\* The shortest ending of the buffer that is some shortcut's key decides.
Processed(chord, kind) ==
    LET pushed  == PushKey(sequence, chord)
        lengths == {n \in 1 .. Len(pushed) : Found(pushed, n) # {}}
        hits    == UNION {Found(pushed, n) : n \in
                            {m \in lengths : \A l \in lengths : m <= l}}
    IN  (IF hits # {} /\ hits \subseteq registered THEN {} ELSE {Outcome(pushed, Held)})
        \cup UNION {{Outcome(<<>>, h) : h \in Fired(Held, s, kind)} :
                       s \in hits \cap registered}

InvalidKey(kind) ==
    /\ state' = "Normal"
    /\ sequence' = IF kind = "Released" THEN sequence ELSE <<>>
    /\ \E h \in IF kind = "Released" THEN Parted(Held) ELSE {Held} : Hold(h)
    /\ UNCHANGED mods

\* Broken: the modifier pressed is expected among those reported.
ModifierPressedReported(chord) ==
    /\ state' = "Pressing"
    /\ mods' = chord.mods
    /\ Quiet
    /\ UNCHANGED sequence

ModifierPressed(chord) ==
    /\ state' = "Pressing"
    /\ mods' = chord.mods \cup KeyToModifier(chord.sym)
    /\ Quiet
    /\ UNCHANGED sequence

\* Broken: what triggers is not released.
ModifierReleasedHolds(chord) ==
    /\ mods' = chord.mods \ KeyToModifier(chord.sym)
    /\ state' = IF state # "Normal" /\ mods' # {} THEN "Releasing" ELSE "Normal"
    /\ \E outcome \in IF state = "Pressing"
                      THEN Processed(Chord(mods, NoSym), "Pressed")
                      ELSE {Outcome(sequence, Held)} :
          /\ sequence' = outcome.sequence
          /\ Hold(outcome.hold)

\* The first modifier released triggers; what triggers is released at once.
ModifierReleased(chord) ==
    /\ mods' = chord.mods \ KeyToModifier(chord.sym)
    /\ state' = IF state # "Normal" /\ mods' # {} THEN "Releasing" ELSE "Normal"
    /\ \E outcome \in IF state = "Pressing"
                      THEN Processed(Chord(mods, NoSym), "Pressed")
                      ELSE {Outcome(sequence, Held)} :
          /\ sequence' = outcome.sequence
          /\ \E h \in Parted(outcome.hold) : Hold(h)

\* Broken: another key leaves the tap pending.
OtherPressedPending(chord, kind) ==
    /\ mods' = chord.mods
    /\ \E outcome \in Processed(chord, kind) :
          /\ sequence' = outcome.sequence
          /\ Hold(outcome.hold)
    /\ UNCHANGED state

OtherPressed(chord, kind) ==
    /\ state' = "Normal"
    /\ mods' = chord.mods
    /\ \E outcome \in Processed(chord, kind) :
          /\ sequence' = outcome.sequence
          /\ Hold(outcome.hold)

\* Broken: releasing a key releases no shortcut.
OtherReleasedHolds ==
    /\ state' = "Normal"
    /\ Quiet
    /\ UNCHANGED <<mods, sequence>>

OtherReleased ==
    /\ state' = "Normal"
    /\ \E h \in Parted(Held) : Hold(h)
    /\ UNCHANGED <<mods, sequence>>

KeyEvent(code, kind) ==
    LET chord == CorrectKeyEvent(code)
    IN  /\ \/ /\ chord.sym = NoSym
              /\ InvalidKey(kind)
           \/ /\ chord.sym \in Modifiers
              /\ \/ kind # "Released" /\ ModifierPressed(chord)
                 \/ kind = "Released" /\ ModifierReleased(chord)
           \/ /\ chord.sym \notin Modifiers \cup {NoSym}
              /\ \/ kind # "Released" /\ OtherPressed(chord, kind)
                 \/ kind = "Released" /\ OtherReleased
        /\ UNCHANGED <<place, book, grabs, refused, writeout>>

-----------------------------------------------------------------------------
(***************************************************************************)
(* The user.  A modifier key's own event may name its modifier or not.     *)
(***************************************************************************)
ModifiersOf(pressed) == UNION {KeyToModifier(sym) : sym \in pressed}

IsModifier(sym) == KeyToModifier(sym) # {}

Presser(sym) == IF last' = None THEN NoSym
                ELSE IF last' = last THEN presser ELSE sym

Press(sym) ==
    /\ sym \notin down
    /\ down' = down \cup {sym}
    /\ undisturbed' = IsModifier(sym)
    /\ \E reported \in {ModifiersOf(down), ModifiersOf(down')} :
          KeyEvent(Chord(reported, sym), "Pressed")
    /\ Len(sequence') <= MaxBuffer
    /\ presser' = Presser(sym)

\* A key held down is repeated, a modifier is not.
Repeat(sym) ==
    /\ sym \in down
    /\ ~IsModifier(sym)
    /\ undisturbed' = FALSE
    /\ KeyEvent(Chord(ModifiersOf(down), sym), "Repeated")
    /\ Len(sequence') <= MaxBuffer
    /\ presser' = Presser(sym)
    /\ UNCHANGED down

Release(sym) ==
    /\ sym \in down
    /\ down' = down \ {sym}
    /\ \E reported \in {ModifiersOf(down), ModifiersOf(down')} :
          KeyEvent(Chord(reported, sym), "Released")
    /\ Len(sequence') <= MaxBuffer
    /\ presser' = Presser(presser)
    /\ UNCHANGED undisturbed

\* pointerPressed and axisTriggered.
ClickOrScroll ==
    /\ state' = "Normal"
    /\ undisturbed' = FALSE
    /\ Quiet
    /\ UNCHANGED <<place, book, grabs, refused, writeout, sequence, mods, down,
                   presser>>

KeyInit ==
    /\ Init
    /\ sequence = <<>>
    /\ mods = {}
    /\ state = "Normal"
    /\ down = {}
    /\ undisturbed = FALSE
    /\ presser = NoSym

KeyNext ==
    \/ /\ Work
       /\ presser' = Presser(presser)
       /\ UNCHANGED <<machine, down, undisturbed>>
    \/ \E sym \in Syms : Press(sym) \/ Repeat(sym) \/ Release(sym)
    \/ ClickOrScroll

KeySpec == KeyInit /\ [][KeyNext]_keyVars

\* Nobody holds all the keys that are down for ever.
ReleaseAny == \E sym \in Syms : ~IsModifier(sym) /\ Release(sym)

FairKeySpec == KeySpec /\ WF_keyVars(ReleaseAny)
-----------------------------------------------------------------------------
KeyTypeOK ==
    /\ TypeOK
    /\ sequence \in Seq([mods : SUBSET Modifiers,
                        sym  : {s \in Syms : ~IsModifier(s)} \cup {NoSym, "Print"}])
    /\ Len(sequence) <= MaxSequenceLength
    /\ mods \in SUBSET Modifiers
    /\ state \in {"Normal", "Pressing", "Releasing"}
    /\ down \in SUBSET Syms
    /\ undisturbed \in BOOLEAN
    /\ presser \in Syms \cup {NoSym}

(***************************************************************************)
(* Key events do to the registry what its module says: whatever is typed,  *)
(* clicked and released in whatever order, each event is a key that        *)
(* completes, taps, releases or does nothing.                              *)
(***************************************************************************)
ImplementsRegistry == Spec

(***************************************************************************)
(* Releasing a modifier triggers a shortcut only if nothing else has been  *)
(* typed, clicked or scrolled since the last modifier went down, and only  *)
(* one whose key ends with exactly the modifiers that were held (the state *)
(* machine of globalshortcutsregistry.h:170).                              *)
(***************************************************************************)
TapsAreClean ==
    [][\A i \in DOMAIN out' :
         out'[i].kind = "Pressed" /\ down' \ down = {} /\ down' # down =>
            /\ undisturbed
            /\ \E key \in KeySet(keys[out'[i].slot]) :
                  NormalizeSequence(key)[Len(key)]
                     = Chord(ModifiersOf(down), NoSym)]_keyVars

(***************************************************************************)
(* A shortcut is held no longer than the key that triggered it, whatever   *)
(* other keys are pressed, repeated and released meanwhile.                *)
(***************************************************************************)
HeldWhileDown == last # None => presser \in down

(***************************************************************************)
(* While a modifier-only shortcut is pending, the daemon knows exactly the *)
(* modifiers held, so that what it looks up is a real chord.               *)
(***************************************************************************)
PendingTapIsHeld ==
    state = "Pressing" => mods = ModifiersOf(down) /\ mods # {}

(***************************************************************************)
(* What was pressed is released in the end, whatever is typed, blocked,    *)
(* unregistered or given other keys meanwhile, if nobody holds every key   *)
(* that is down for ever.                                                  *)
(***************************************************************************)
PressesAreReleased == owed # {} ~> owed = {}
=============================================================================
