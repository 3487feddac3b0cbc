----------------------------- MODULE X11Events -----------------------------
(***************************************************************************)
(* Key events, as the X11 plug-in reports them.  Presses of grabbed chords *)
(* arrive on the daemon's main connection; every press, release and click  *)
(* arrives a second time on its XRecord connection, together with the      *)
(* requests of all clients to grab and ungrab the keyboard.  Each          *)
(* connection is in order, but they are read one after the other, as the   *)
(* event loop happens to find them readable (KGlobalAccelImpl).            *)
(*                                                                         *)
(* The handlers are those of module KeyEvents, whose keyboard this module  *)
(* replaces: EveryChordHeard says nothing here.  The shortcuts have their  *)
(* keys from the start.  A key held down is not repeated.                  *)
(***************************************************************************)
EXTENDS KeyEvents

CONSTANTS
    Assigned,  \* the keys of each shortcut
    MaxUnread  \* bound: items unread on the two connections

ASSUME AssignedAssumption == Assigned \in [Slots -> KeyLists]

VARIABLES
    main,             \* the main connection
    record,           \* the XRecord connection
    keyboardGrabbed,  \* m_keyboardGrabbed
    otherGrab,        \* another client has grabbed the keyboard
    contested,        \* ghost: a grab since all keys were up and it was settled
    missed            \* ghost: the release of the key that is held went unheard

x11     == <<keyboardGrabbed, otherGrab, contested, missed>>
x11Vars == <<keyVars, main, record, x11>>

\* The ghost tap says of a release what came before it: only modifiers, other
\* keys or clicks, or a client that may have kept the daemon from hearing which.
Item(kind, sym, reported, tap) ==
    [kind |-> kind, sym |-> sym, mods |-> reported, tap |-> tap]

Ask(kind) == Item(kind, NoSym, {}, "none")

Unread(kinds) == {i \in DOMAIN record : record[i].kind \in kinds}

\* The chords the plug-in grabs: none of modifiers alone.
Grabbable == {c \in Chords : c.sym # NoSym /\ KeyToModifier(c.sym) = {}}

\* What the plug-in does not grab counts as refused.
ASSUME X11Assumption == IsFiniteSet(Components) /\ Chords \ Grabbable \subseteq Refusable

X11Init ==
    LET claimed == {k \in UNION {KeySet(Assigned[s]) : s \in Slots} :
                       \A i \in DOMAIN k : k[i] \in Grabbable}
    IN
    /\ components \in {f \in [1 .. Cardinality(Components) -> Components] :
                          \A c \in Components : \E i \in DOMAIN f : f[i] = c}
    /\ contexts = [c \in Components |-> Contexts]
    /\ current = [c \in Components |-> Default]
    /\ live = Slots /\ present = Slots /\ registered = Slots /\ fresh = {}
    /\ keys = Assigned
    /\ activeKeys = [k \in claimed |-> Live(CHOOSE s \in Slots : k \in KeySet(Assigned[s]))]
    /\ keysCount = [c \in Chords |-> Cardinality(Uses(c, claimed))]
    /\ grabbed = {c \in Chords : Uses(c, claimed) # {}}
    /\ refused = Chords \ Grabbable
    /\ last = None /\ owed = {} /\ out = <<>>
    /\ writeout = FALSE
    /\ sequence = <<>> /\ mods = {} /\ state = "Normal"
    /\ down = {} /\ undisturbed = FALSE /\ presser = NoSym
    /\ main = <<>> /\ record = <<>>
    /\ keyboardGrabbed = FALSE /\ otherGrab = FALSE
    /\ contested = FALSE /\ missed = FALSE

-----------------------------------------------------------------------------
(***************************************************************************)
(* What happens at the X server.  A key event reports the modifiers held   *)
(* before it.  A press goes to the daemon if it has grabbed the chord and  *)
(* nobody has grabbed the keyboard.                                        *)
(***************************************************************************)
Unchanged == UNCHANGED <<place, book, grabs, refused, writeout>>

Happens(item) == Len(main) + Len(record) < MaxUnread /\ record' = Append(record, item)

X11Press(sym) ==
    LET chord == Chord(ModifiersOf(down), sym)
    IN  /\ sym \notin down
        /\ Happens(Item("Press", sym, chord.mods, "none"))
        /\ down' = down \cup {sym}
        /\ undisturbed' = IF sym = NoSym THEN undisturbed ELSE IsModifier(sym)
        /\ contested' = (contested /\ \/ down # {} \/ otherGrab \/ keyboardGrabbed
                                      \/ Unread({"Grab"}) # {})
        /\ main' = IF chord \in grabbed /\ ~otherGrab THEN Append(main, chord) ELSE main
        /\ Quiet /\ Unchanged
        /\ UNCHANGED <<machine, presser, keyboardGrabbed, otherGrab, missed>>

X11Release(sym) ==
    /\ sym \in down
    /\ Happens(Item("Release", sym, ModifiersOf(down),
                    IF contested THEN "contested"
                    ELSE IF undisturbed THEN "clean" ELSE "disturbed"))
    /\ down' = down \ {sym}
    /\ Quiet /\ Unchanged
    /\ UNCHANGED <<machine, undisturbed, presser, main, x11>>

X11Click ==
    /\ Happens(Item("Click", NoSym, {}, "none"))
    /\ undisturbed' = FALSE
    /\ Quiet /\ Unchanged
    /\ UNCHANGED <<machine, down, presser, main, x11>>

\* Another client asks for the keyboard, in vain perhaps, or gives it up.
ClientGrabs ==
    /\ Happens(Ask("Grab"))
    /\ otherGrab' \in {otherGrab, TRUE}
    /\ contested' = TRUE
    /\ Quiet /\ Unchanged
    /\ UNCHANGED <<machine, user, main, keyboardGrabbed, missed>>

ClientUngrabs ==
    /\ Happens(Ask("Ungrab"))
    /\ otherGrab' \in {otherGrab, FALSE}
    /\ Quiet /\ Unchanged
    /\ UNCHANGED <<machine, user, main, keyboardGrabbed, contested, missed>>

\* A client that dies asks for nothing any more.
ClientDies ==
    /\ otherGrab
    /\ otherGrab' = FALSE
    /\ Quiet /\ Unchanged
    /\ UNCHANGED <<machine, user, main, record, keyboardGrabbed, contested, missed>>

-----------------------------------------------------------------------------
(***************************************************************************)
(* What the plug-in does.  x11KeyPress ungrabs the keyboard, and that      *)
(* request is recorded as everybody's.                                     *)
(***************************************************************************)
Heeded(chord, rest) ==
    /\ KeyEvent(chord, "Pressed")
    /\ Len(sequence') <= MaxBuffer
    /\ presser' = Presser(chord.sym)
    /\ record' = Append(rest, Ask("Ungrab"))

\* nativeEventFilter.  If the key is up again and its release was read, no
\* other release is bound to come.
HandleMain ==
    /\ main # <<>>
    /\ LET sym == Head(main).sym
       IN  /\ Heeded(Head(main), record)
           /\ missed' = (/\ last' # None
                         /\ IF last' = last /\ presser # sym THEN missed
                            ELSE /\ sym \notin down
                                 /\ \A i \in Unread({"Release"}) : record[i].sym # sym)
    /\ main' = Tail(main)
    /\ Unchanged
    /\ UNCHANGED <<down, undisturbed, keyboardGrabbed, otherGrab, contested>>

Ignored(rest) ==
    /\ record' = rest
    /\ Quiet
    /\ UNCHANGED <<machine, presser>>

\* resetModifierOnlyState and pointerPressed.
Reset(rest) ==
    /\ state' = "Normal"
    /\ record' = rest
    /\ Quiet
    /\ UNCHANGED <<sequence, mods, presser>>

\* Broken: keys that are handled elsewhere change nothing here.
RecordedPressElsewhere(item, rest) ==
    \/ IsModifier(item.sym) /\ Heeded(Chord(item.mods, item.sym), rest)
    \/ ~IsModifier(item.sym) /\ Ignored(rest)

\* Other keys than modifiers are handled when they come on the main connection.
RecordedPress(item, rest) ==
    \/ item.sym = NoSym /\ Ignored(rest)
    \/ IsModifier(item.sym) /\ Heeded(Chord(item.mods, item.sym), rest)
    \/ item.sym # NoSym /\ ~IsModifier(item.sym) /\ Reset(rest)

\* Broken: other keys than modifiers are not handled here.
RecordedReleaseElsewhere(item, rest) ==
    \/ ~IsModifier(item.sym) /\ Ignored(rest)
    \/ /\ IsModifier(item.sym)
       /\ KeyEvent(Chord(item.mods, item.sym), "Released")
       /\ Len(sequence') <= MaxBuffer
       /\ presser' = Presser(presser)
       /\ record' = rest

RecordedRelease(item, rest) ==
    \/ item.sym = NoSym /\ Ignored(rest)
    \/ /\ item.sym # NoSym
       /\ KeyEvent(Chord(item.mods, item.sym), "Released")
       /\ Len(sequence') <= MaxBuffer
       /\ presser' = Presser(presser)
       /\ record' = rest

HandleRecord ==
    /\ record # <<>>
    /\ LET item == Head(record)
           rest == Tail(record)
           deaf == keyboardGrabbed /\ item.kind \in {"Press", "Release"}
       IN  /\ \/ deaf /\ Ignored(rest)
              \/ ~deaf /\ item.kind = "Press" /\ RecordedPress(item, rest)
              \/ ~deaf /\ item.kind = "Release" /\ RecordedRelease(item, rest)
              \/ item.kind = "Click" /\ Reset(rest)
              \/ item.kind \in {"Grab", "Ungrab"} /\ Ignored(rest)
           /\ keyboardGrabbed' = IF item.kind = "Grab" THEN TRUE
                                 ELSE IF item.kind = "Ungrab" THEN FALSE
                                 ELSE keyboardGrabbed
           /\ missed' = /\ last' # None
                        /\ missed \/ (deaf /\ item.sym = presser)
    /\ Unchanged
    /\ UNCHANGED <<down, undisturbed, main, otherGrab, contested>>

\* An application comes and goes, with presses of its chords under way.
X11Request(id) ==
    /\ SetInactive(id) \/ Autoload(id)
    /\ missed' = (missed /\ last' # None)
    /\ presser' = Presser(presser)
    /\ UNCHANGED <<machine, down, undisturbed, main, record, keyboardGrabbed,
                   otherGrab, contested>>

X11Next ==
    \/ \E sym \in Syms : X11Press(sym) \/ X11Release(sym)
    \/ X11Click
    \/ ClientGrabs \/ ClientUngrabs \/ ClientDies
    \/ HandleMain
    \/ HandleRecord
    \/ \E id \in Ids : X11Request(id)

X11Spec == X11Init /\ [][X11Next]_x11Vars
-----------------------------------------------------------------------------
(***************************************************************************)
(* Releasing a modifier triggers a shortcut only if nothing else was       *)
(* pressed or clicked at the X server since the last modifier went down,   *)
(* however late the daemon learns of it and whatever it reads first, and   *)
(* only one whose key ends with the modifiers held: no trigger on          *)
(* "Mod+Click, or Mod+Key; release Key; release Mod" (kglobalaccel_x11.cpp,*)
(* KGlobalAccelImpl).  This is not said while another client has, or wants,*)
(* the keyboard, nor of keys that have no code.                            *)
(***************************************************************************)
X11TapsAreClean ==
    [][\A i \in DOMAIN out' :
         (/\ out'[i].kind = "Pressed"
          /\ record # <<>> /\ record' = Tail(record)
          /\ Head(record).kind = "Release")
            => \/ Head(record).tap = "contested"
               \/ /\ Head(record).tap = "clean"
                  /\ \E key \in KeySet(keys[out'[i].slot]) :
                        NormalizeSequence(key)[Len(key)]
                           = Chord(Head(record).mods, NoSym)]_x11Vars

(***************************************************************************)
(* The release of a shortcut that is held is still to come, on the XRecord *)
(* connection or from the user, unless it was read before the press, or    *)
(* ignored because another client had asked for the keyboard.              *)
(***************************************************************************)
ReleaseIsToCome ==
    last # None =>
        \/ missed
        \/ presser \in down
        \/ \E i \in Unread({"Release"}) : record[i].sym = presser
=============================================================================
