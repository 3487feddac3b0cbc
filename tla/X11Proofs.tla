----------------------------- MODULE X11Proofs -----------------------------
(***************************************************************************)
(* Proofs about module X11Events, for any keyboard, keys and number of     *)
(* events unread: the release of what is held is still to come, and        *)
(* modifiers trigger after clean taps, in whatever order the two           *)
(* connections are read.                                                   *)
(***************************************************************************)
EXTENDS X11Events, TapProofs

-----------------------------------------------------------------------------
(***************************************************************************)
(* What is on the XRecord connection.                                      *)
(***************************************************************************)
Items == [kind : {"Press", "Release", "Click", "Grab", "Ungrab"},
          sym  : Syms \cup {NoSym},
          mods : SUBSET Modifiers,
          tap  : {"none", "clean", "disturbed", "contested"}]

\* Items that leave the state machine as it is, whoever has the keyboard.
Silent(item) ==
    \/ item.kind \in {"Grab", "Ungrab"}
    \/ item.kind \in {"Press", "Release"} /\ item.sym = NoSym

ModifierPress(item) == item.kind = "Press" /\ IsModifier(item.sym)

\* The modifiers held after such a press.
After(item) == item.mods \cup KeyToModifier(item.sym)

Certain(item) == item.kind = "Release" /\ item.tap # "contested"

\* A release that may trigger, with no other client in sight.
TapRelease(item) == Certain(item) /\ IsModifier(item.sym)

Clean(item, held) == item.tap = "clean" /\ item.mods = held

\* Between i and j, or after i, nothing matters to the state machine.
Skips(r, i, j) == \A k \in DOMAIN r : i < k /\ k < j => Silent(r[k])

Rests(r, i) == \A k \in DOMAIN r : i < k => Silent(r[k])

\* A press of a modifier and a release next to it make a clean tap.
PairsMatch(r) ==
    \A i, j \in DOMAIN r :
        i < j /\ ModifierPress(r[i]) /\ TapRelease(r[j]) /\ Skips(r, i, j)
            => Clean(r[j], After(r[i]))

\* So does a release that is next to be handled, if held are down.
NextMatches(r, held) ==
    \A j \in DOMAIN r : TapRelease(r[j]) /\ Skips(r, 0, j) => Clean(r[j], held)

\* If nothing follows the press of a modifier, it is the last that happened.
LastMatches(r, held, calm) ==
    \A i \in DOMAIN r :
        ModifierPress(r[i]) /\ Rests(r, i) => held = After(r[i]) /\ calm

\* No client asks for the keyboard before a release without contest.
NoGrabBefore(r) ==
    \A i, j \in DOMAIN r : i < j /\ Certain(r[j]) => r[i].kind # "Grab"

LEMMA AppendedItem ==
    ASSUME NEW r \in Seq(Items), NEW x \in Items
    PROVE  /\ Append(r, x) \in Seq(Items)
           /\ Len(r) \in Nat /\ DOMAIN r = 1 .. Len(r)
           /\ DOMAIN Append(r, x) = 1 .. (Len(r) + 1)
           /\ \A i \in DOMAIN r : Append(r, x)[i] = r[i]
           /\ Append(r, x)[Len(r) + 1] = x
OBVIOUS

LEMMA TailItem ==
    ASSUME NEW r \in Seq(Items), r # <<>>
    PROVE  /\ Tail(r) \in Seq(Items)
           /\ Len(r) \in Nat /\ Len(r) >= 1 /\ DOMAIN r = 1 .. Len(r)
           /\ DOMAIN Tail(r) = 1 .. (Len(r) - 1)
           /\ \A i \in DOMAIN Tail(r) : Tail(r)[i] = r[i + 1]
           /\ Head(r) = r[1] /\ Head(r) \in Items
OBVIOUS

\* A new item is the last; a silent one changes nothing.
LEMMA AppendMatches ==
    ASSUME NEW r \in Seq(Items), NEW x \in Items, NEW held, NEW calm
    PROVE  /\ \A i \in DOMAIN r : Rests(Append(r, x), i) => Rests(r, i) /\ Silent(x)
           /\ Rests(Append(r, x), 0) => Rests(r, 0) /\ Silent(x)
           /\ PairsMatch(r) /\ (TapRelease(x) => \A i \in DOMAIN r :
                 ModifierPress(r[i]) /\ Rests(r, i) => Clean(x, After(r[i])))
                 => PairsMatch(Append(r, x))
           /\ NextMatches(r, held) /\ (TapRelease(x) /\ Rests(r, 0) => Clean(x, held))
                 => NextMatches(Append(r, x), held)
           /\ NoGrabBefore(r) /\ (Certain(x) => \A i \in DOMAIN r : r[i].kind # "Grab")
                 => NoGrabBefore(Append(r, x))
<1> DEFINE a == Append(r, x)
           n == Len(r)
<1>1. /\ n \in Nat /\ DOMAIN r = 1 .. n /\ DOMAIN a = 1 .. (n + 1)
      /\ \A i \in 1 .. n : a[i] = r[i]
      /\ a[n + 1] = x
  BY AppendedItem
<1> HIDE DEF a, n
<1>2. \A i \in 0 .. n : Rests(a, i) => Rests(r, i) /\ Silent(x)
  BY <1>1 DEF Rests
<1>3. \A i \in 0 .. n : \A j \in 1 .. n : Skips(a, i, j) => Skips(r, i, j)
  BY <1>1 DEF Skips
<1>4. \A i \in 0 .. n : Skips(a, i, n + 1) => Rests(r, i)
  BY <1>1 DEF Skips, Rests
<1>5. ASSUME PairsMatch(r), TapRelease(x) => \A i \in DOMAIN r :
                 ModifierPress(r[i]) /\ Rests(r, i) => Clean(x, After(r[i]))
      PROVE  PairsMatch(a)
  <2> SUFFICES ASSUME NEW i \in 1 .. (n + 1), NEW j \in 1 .. (n + 1), i < j,
                      ModifierPress(a[i]), TapRelease(a[j]), Skips(a, i, j)
               PROVE  Clean(a[j], After(a[i]))
    BY <1>1 DEF PairsMatch
  <2>1. i \in 1 .. n /\ a[i] = r[i]
    BY <1>1
  <2>2. CASE j \in 1 .. n
    BY <1>1, <1>3, <1>5, <2>1, <2>2 DEF PairsMatch
  <2>3. CASE j = n + 1
    BY <1>1, <1>4, <1>5, <2>1, <2>3
  <2> QED
    BY <1>1, <2>2, <2>3
<1>6. ASSUME NextMatches(r, held), TapRelease(x) /\ Rests(r, 0) => Clean(x, held)
      PROVE  NextMatches(a, held)
  <2> SUFFICES ASSUME NEW j \in 1 .. (n + 1), TapRelease(a[j]), Skips(a, 0, j)
               PROVE  Clean(a[j], held)
    BY <1>1 DEF NextMatches
  <2>1. 0 \in 0 .. n
    BY <1>1
  <2>2. CASE j \in 1 .. n
    BY <1>1, <1>3, <1>6, <2>1, <2>2 DEF NextMatches
  <2>3. CASE j = n + 1
    BY <1>1, <1>4, <1>6, <2>1, <2>3
  <2> QED
    BY <1>1, <2>2, <2>3
<1>7. NoGrabBefore(r) /\ (Certain(x) => \A i \in DOMAIN r : r[i].kind # "Grab")
        => NoGrabBefore(a)
  BY <1>1 DEF NoGrabBefore
<1>8. 0 \in 0 .. n /\ \A i \in 1 .. n : i \in 0 .. n
  BY <1>1
<1> QED
  BY <1>1, <1>2, <1>5, <1>6, <1>7, <1>8 DEF a

\* The first item is read.
LEMMA TailMatches ==
    ASSUME NEW r \in Seq(Items), r # <<>>, NEW held
    PROVE  /\ \A i \in DOMAIN Tail(r) : Rests(Tail(r), i) => i + 1 \in DOMAIN r /\ Rests(r, i + 1)
           /\ Rests(Tail(r), 0) => Rests(r, 1)
           /\ Rests(Tail(r), 0) /\ Silent(Head(r)) => Rests(r, 0)
           /\ PairsMatch(r) => PairsMatch(Tail(r))
           /\ NextMatches(r, held) /\ Silent(Head(r)) => NextMatches(Tail(r), held)
           /\ PairsMatch(r) /\ ModifierPress(Head(r)) => NextMatches(Tail(r), After(Head(r)))
           /\ NoGrabBefore(r) => NoGrabBefore(Tail(r))
<1> DEFINE a == Tail(r)
           n == Len(r)
<1>1. /\ n \in Nat /\ n >= 1 /\ DOMAIN r = 1 .. n /\ DOMAIN a = 1 .. (n - 1)
      /\ \A i \in 1 .. (n - 1) : a[i] = r[i + 1]
      /\ Head(r) = r[1]
  BY TailItem
<1> HIDE DEF a, n
<1>2. \A k \in 1 .. n : k > 1 => k - 1 \in 1 .. (n - 1) /\ a[k - 1] = r[k]
  BY <1>1
<1>3. \A i \in 0 .. (n - 1) : Rests(a, i) => Rests(r, i + 1)
  <2> SUFFICES ASSUME NEW i \in 0 .. (n - 1), Rests(a, i), NEW k \in 1 .. n, i + 1 < k
               PROVE  Silent(r[k])
    BY <1>1 DEF Rests
  <2>1. k - 1 \in 1 .. (n - 1) /\ a[k - 1] = r[k] /\ i < k - 1
    BY <1>1, <1>2
  <2> QED
    BY <1>1, <2>1 DEF Rests
<1>4. \A i \in 0 .. (n - 1) : \A j \in 1 .. (n - 1) : Skips(a, i, j) => Skips(r, i + 1, j + 1)
  <2> SUFFICES ASSUME NEW i \in 0 .. (n - 1), NEW j \in 1 .. (n - 1), Skips(a, i, j),
                      NEW k \in 1 .. n, i + 1 < k, k < j + 1
               PROVE  Silent(r[k])
    BY <1>1 DEF Skips
  <2>1. k - 1 \in 1 .. (n - 1) /\ a[k - 1] = r[k] /\ i < k - 1 /\ k - 1 < j
    BY <1>1, <1>2
  <2> QED
    BY <1>1, <2>1 DEF Skips
<1>5. Rests(a, 0) /\ Silent(r[1]) => Rests(r, 0)
  <2> SUFFICES ASSUME Rests(a, 0), Silent(r[1]), NEW k \in 1 .. n PROVE Silent(r[k])
    BY <1>1 DEF Rests
  <2>1. CASE k > 1
    <3>1. k - 1 \in 1 .. (n - 1) /\ a[k - 1] = r[k] /\ 0 < k - 1
      BY <1>1, <1>2, <2>1
    <3> QED
      BY <1>1, <3>1 DEF Rests
  <2> QED
    BY <1>1, <2>1
<1>6. ASSUME NEW j \in 1 .. (n - 1), Skips(a, 0, j), Silent(r[1])
      PROVE  Skips(r, 0, j + 1)
  <2> SUFFICES ASSUME NEW k \in 1 .. n, k < j + 1 PROVE Silent(r[k])
    BY <1>1 DEF Skips
  <2>1. CASE k = 1
    BY <1>6, <2>1
  <2>2. CASE k > 1
    <3>1. k - 1 \in 1 .. (n - 1) /\ a[k - 1] = r[k] /\ 0 < k - 1 /\ k - 1 < j
      BY <1>1, <1>2, <2>2
    <3> QED
      BY <1>1, <1>6, <3>1 DEF Skips
  <2> QED
    BY <1>1, <2>1, <2>2
<1>7. \A j \in 1 .. (n - 1) : j + 1 \in 1 .. n /\ a[j] = r[j + 1] /\ 1 < j + 1
  BY <1>1
<1>8. 1 \in 1 .. n /\ 0 \in 0 .. (n - 1) /\ \A i \in 1 .. (n - 1) : i \in 0 .. (n - 1)
  BY <1>1
<1>9. PairsMatch(r) => PairsMatch(a)
  <2> SUFFICES ASSUME PairsMatch(r), NEW i \in 1 .. (n - 1), NEW j \in 1 .. (n - 1), i < j,
                      ModifierPress(a[i]), TapRelease(a[j]), Skips(a, i, j)
               PROVE  Clean(a[j], After(a[i]))
    BY <1>1 DEF PairsMatch
  <2>1. i + 1 < j + 1
    BY <1>1
  <2> QED
    BY <1>1, <1>4, <1>7, <1>8, <2>1 DEF PairsMatch
<1>10. NextMatches(r, held) /\ Silent(r[1]) => NextMatches(a, held)
  BY <1>1, <1>6, <1>7 DEF NextMatches
<1>11. PairsMatch(r) /\ ModifierPress(r[1]) => NextMatches(a, After(r[1]))
  <2> SUFFICES ASSUME PairsMatch(r), ModifierPress(r[1]),
                      NEW j \in 1 .. (n - 1), TapRelease(a[j]), Skips(a, 0, j)
               PROVE  Clean(a[j], After(r[1]))
    BY <1>1 DEF NextMatches
  <2>1. Skips(r, 1, j + 1)
    <3>1. Skips(r, 0 + 1, j + 1)
      BY <1>4, <1>8
    <3> QED
      BY <3>1
  <2> QED
    BY <1>1, <1>7, <1>8, <2>1 DEF PairsMatch
<1>12. NoGrabBefore(r) => NoGrabBefore(a)
  <2> SUFFICES ASSUME NoGrabBefore(r), NEW i \in 1 .. (n - 1), NEW j \in 1 .. (n - 1),
                      i < j, Certain(a[j])
               PROVE  a[i].kind # "Grab"
    BY <1>1 DEF NoGrabBefore
  <2>1. i + 1 < j + 1
    BY <1>1
  <2> QED
    BY <1>1, <1>7, <2>1 DEF NoGrabBefore
<1>13. \A i \in 1 .. (n - 1) : Rests(a, i) => i + 1 \in 1 .. n /\ Rests(r, i + 1)
  BY <1>3, <1>7, <1>8
<1>14. Rests(a, 0) => Rests(r, 1)
  <2>1. Rests(a, 0) => Rests(r, 0 + 1)
    BY <1>3, <1>8
  <2> QED
    BY <2>1
<1> QED
  BY <1>1, <1>5, <1>9, <1>10, <1>11, <1>12, <1>13, <1>14 DEF a

-----------------------------------------------------------------------------
(***************************************************************************)
(* The registry keeps its invariant under X.                               *)
(***************************************************************************)
Wanted == {c \in [mods : SUBSET Modifiers, sym : Syms] :
              c.sym # NoSym /\ KeyToModifier(c.sym) = {}}

\* What is unread is well typed, and only chords that end with an ordinary key
\* are grabbed.
WireOK ==
    /\ main \in Seq(Wanted)
    /\ record \in Seq(Items)
    /\ refused = Chords \ Grabbable
    /\ grabbed \subseteq Grabbable

\* How a code that the X server sends is taken.
LEMMA CodeTaken ==
    ASSUME NEW m \in SUBSET Modifiers, NEW sym \in Syms \cup {NoSym}
    PROVE  LET chord == CorrectKeyEvent(Chord(m, sym))
           IN  /\ chord \in Typed
               /\ chord.sym \in Modifiers <=> IsModifier(sym)
               /\ chord.sym = NoSym <=> sym = NoSym
               /\ IsModifier(sym) =>
                     chord.mods \cup KeyToModifier(chord.sym) = m \cup KeyToModifier(sym)
BY DEF CorrectKeyEvent, Chord, Typed, IsModifier, KeyToModifier, Modifiers, NoSym

LEMMA WantedCode ==
    ASSUME NEW c \in Wanted
    PROVE  /\ CorrectKeyEvent(c) \in Typed
           /\ CorrectKeyEvent(c).sym \notin Modifiers \cup {NoSym}
           /\ c.sym # NoSym
<1>1. c = Chord(c.mods, c.sym) /\ c.mods \in SUBSET Modifiers /\ c.sym \in Syms
  BY DEF Wanted, Chord
<1> QED
  BY <1>1, CodeTaken DEF Wanted, IsModifier

LEMMA DownAre ==
    ASSUME NEW S, NEW sym
    PROVE  /\ ModifiersOf(S) \in SUBSET Modifiers
           /\ ModifiersOf(S \cup {sym}) = ModifiersOf(S) \cup KeyToModifier(sym)
           /\ ~IsModifier(sym) => ModifiersOf(S \ {sym}) = ModifiersOf(S)
           /\ sym \in S /\ IsModifier(sym) => ModifiersOf(S) # {}
           /\ ~IsModifier(NoSym)
<1>1. ModifiersOf(S) \in SUBSET Modifiers
  BY DEF ModifiersOf, KeyToModifier, Modifiers
<1>2. ModifiersOf(S \cup {sym}) = ModifiersOf(S) \cup KeyToModifier(sym)
  BY DEF ModifiersOf
<1>3. ~IsModifier(sym) => ModifiersOf(S \ {sym}) = ModifiersOf(S)
  BY DEF ModifiersOf, IsModifier
<1>4. sym \in S /\ IsModifier(sym) => ModifiersOf(S) # {}
  BY DEF ModifiersOf, IsModifier
<1>5. ~IsModifier(NoSym)
  BY DEF IsModifier, KeyToModifier, Modifiers, NoSym
<1> QED
  BY <1>1, <1>2, <1>3, <1>4, <1>5

\* The main connection tells of presses of ordinary keys.
LEMMA MainPress ==
    ASSUME WireOK, HandleMain
    PROVE  /\ Head(main) \in Wanted /\ Tail(main) \in Seq(Wanted)
           /\ KeyEvent(Head(main), "Pressed")
           /\ state' = "Normal"
           /\ record' = Append(record, Ask("Ungrab"))
<1>1. Head(main) \in Wanted /\ Tail(main) \in Seq(Wanted)
  BY DEF WireOK, HandleMain
<1>2. KeyEvent(Head(main), "Pressed") /\ record' = Append(record, Ask("Ungrab"))
  BY DEF HandleMain, Heeded
<1>3. state' = "Normal"
  BY <1>1, <1>2, WantedCode DEF KeyEvent, OtherPressed
<1> QED
  BY <1>1, <1>2, <1>3

\* The XRecord connection, read without anybody's grab, tells of modifiers and
\* of all releases.
Deaf == keyboardGrabbed /\ Head(record).kind \in {"Press", "Release"}

Rest == Tail(record)

LEMMA RecordRead ==
    ASSUME WireOK, HandleRecord, NEW item, item = Head(record)
    PROVE  /\ record # <<>> /\ item \in Items /\ Rest \in Seq(Items)
           /\ \/ Ignored(Rest) /\ (Deaf \/ Silent(item))
              \/ /\ ~Deaf /\ ModifierPress(item)
                 /\ KeyEvent(Chord(item.mods, item.sym), "Pressed")
                 /\ presser' = Presser(item.sym)
                 /\ record' = Append(Rest, Ask("Ungrab"))
              \/ Reset(Rest)
              \/ /\ ~Deaf /\ item.kind = "Release" /\ item.sym # NoSym
                 /\ KeyEvent(Chord(item.mods, item.sym), "Released")
                 /\ presser' = Presser(presser)
                 /\ record' = Rest
<1>1. record # <<>> /\ item \in Items /\ Rest \in Seq(Items)
  BY TailItem DEF WireOK, HandleRecord, Rest
<1>2. \/ Deaf /\ Ignored(Rest)
      \/ ~Deaf /\ item.kind = "Press" /\ RecordedPress(item, Rest)
      \/ ~Deaf /\ item.kind = "Release" /\ RecordedRelease(item, Rest)
      \/ item.kind = "Click" /\ Reset(Rest)
      \/ item.kind \in {"Grab", "Ungrab"} /\ Ignored(Rest)
  BY DEF HandleRecord, Deaf, Rest
<1>3. CASE ~Deaf /\ item.kind = "Press" /\ RecordedPress(item, Rest)
  <2>1. CASE item.sym = NoSym /\ Ignored(Rest)
    BY <1>1, <1>3, <2>1 DEF Silent
  <2>2. CASE IsModifier(item.sym) /\ Heeded(Chord(item.mods, item.sym), Rest)
    <3>1. Chord(item.mods, item.sym).sym = item.sym
      BY DEF Chord
    <3> QED
      BY <1>1, <1>3, <2>2, <3>1 DEF Heeded, ModifierPress
  <2>3. CASE Reset(Rest)
    BY <1>1, <2>3
  <2> QED
    BY <1>3, <2>1, <2>2, <2>3 DEF RecordedPress
<1>4. CASE ~Deaf /\ item.kind = "Release" /\ RecordedRelease(item, Rest)
  BY <1>1, <1>4 DEF RecordedRelease, Silent
<1>5. CASE item.kind \in {"Grab", "Ungrab"} /\ Ignored(Rest)
  BY <1>1, <1>5 DEF Silent
<1> QED
  BY <1>1, <1>2, <1>3, <1>4, <1>5

\* Every step under X is a step of the registry or leaves it alone.
LEMMA X11IsRegistry ==
    ASSUME MachineOK, WireOK, [X11Next]_x11Vars
    PROVE  [Next]_vars /\ MachineOK'
<1>1. CASE Quiet /\ Unchanged /\ UNCHANGED machine
  BY <1>1 DEF Unchanged, MachineOK, machine, Next, Keyboard, KeyIgnored
<1>2. ASSUME NEW sym \in Syms, X11Press(sym) \/ X11Release(sym)
      PROVE  [Next]_vars /\ MachineOK'
  BY <1>1, <1>2 DEF X11Press, X11Release
<1>3. CASE X11Click \/ ClientGrabs \/ ClientUngrabs \/ ClientDies
  BY <1>1, <1>3 DEF X11Click, ClientGrabs, ClientUngrabs, ClientDies
<1>4. CASE HandleMain
  <2>1. Keyboard /\ MachineOK'
    BY <1>4, MainPress, WantedCode, KeyEventStep
  <2> QED
    BY <2>1 DEF Next
<1>5. CASE HandleRecord
  <2> DEFINE item == Head(record)
  <2>1. item \in Items
    BY <1>5, RecordRead
  <2>2. CorrectKeyEvent(Chord(item.mods, item.sym)) \in Typed
    <3>1. item.mods \in SUBSET Modifiers /\ item.sym \in Syms \cup {NoSym}
      BY <2>1 DEF Items
    <3> HIDE DEF item
    <3> QED
      BY <3>1, CodeTaken
  <2>3. Unchanged
    BY <1>5 DEF HandleRecord
  <2>4. CASE Ignored(Rest)
    BY <1>1, <2>3, <2>4 DEF Ignored
  <2>5. CASE Reset(Rest)
    BY <2>3, <2>5 DEF Reset, Unchanged, MachineOK, Next, Keyboard, KeyIgnored
  <2>6. ASSUME NEW kind \in {"Pressed", "Released"},
               KeyEvent(Chord(item.mods, item.sym), kind)
        PROVE  [Next]_vars /\ MachineOK'
    <3> HIDE DEF item
    <3>1. kind \in {"Pressed", "Repeated", "Released"}
      OBVIOUS
    <3>2. Keyboard /\ MachineOK'
      BY <2>2, <2>6, <3>1, KeyEventStep
    <3> QED
      BY <3>2 DEF Next
  <2> QED
    BY <1>5, <2>4, <2>5, <2>6, RecordRead
<1>6. ASSUME NEW id \in Ids, X11Request(id) PROVE [Next]_vars /\ MachineOK'
  <2>1. Request(id) /\ UNCHANGED machine
    BY <1>6 DEF X11Request, Request
  <2> QED
    BY <2>1 DEF Next, Work, MachineOK, machine
<1>7. CASE UNCHANGED x11Vars
  BY <1>7 DEF x11Vars, keyVars, machine, MachineOK
<1> QED
  BY <1>2, <1>3, <1>4, <1>5, <1>6, <1>7 DEF X11Next

\* What is unread stays well typed, and the plug-in grabs no modifiers.
LEMMA AskIsItem == \A kind \in {"Grab", "Ungrab"} : Ask(kind) \in Items /\ Silent(Ask(kind))
BY DEF Ask, Item, Items, Silent

LEMMA WireStep ==
    ASSUME WireOK, [X11Next]_x11Vars
    PROVE  WireOK'
<1> USE DEF WireOK
<1>1. CASE UNCHANGED <<grabs, refused>> /\ main' \in Seq(Wanted) /\ record' \in Seq(Items)
  BY <1>1 DEF grabs
<1>2. ASSUME NEW x \in Items, Happens(x) PROVE record' \in Seq(Items)
  BY <1>2 DEF Happens
<1>3. ASSUME NEW sym \in Syms, X11Press(sym) PROVE WireOK'
  <2> DEFINE chord == Chord(ModifiersOf(down), sym)
             x == Item("Press", sym, chord.mods, "none")
  <2>1. x \in Items
    BY DownAre DEF Item, Items, Chord
  <2>2. chord \in grabbed => chord \in Wanted
    BY DownAre DEF Wanted, Grabbable, Chord
  <2>3. main' \in Seq(Wanted)
    BY <1>3, <2>2 DEF X11Press
  <2> QED
    BY <1>1, <1>2, <1>3, <2>1, <2>3 DEF X11Press, Unchanged
<1>4. ASSUME NEW sym \in Syms, X11Release(sym) PROVE WireOK'
  <2> DEFINE x == Item("Release", sym, ModifiersOf(down),
                       IF contested THEN "contested"
                       ELSE IF undisturbed THEN "clean" ELSE "disturbed")
  <2>1. x \in Items
    BY DownAre DEF Item, Items
  <2> QED
    BY <1>1, <1>2, <1>4, <2>1 DEF X11Release, Unchanged
<1>5. CASE X11Click
  <2>1. Item("Click", NoSym, {}, "none") \in Items
    BY DEF Item, Items
  <2> QED
    BY <1>1, <1>2, <1>5, <2>1 DEF X11Click, Unchanged
<1>6. CASE ClientGrabs \/ ClientUngrabs \/ ClientDies
  BY <1>1, <1>2, <1>6, AskIsItem DEF ClientGrabs, ClientUngrabs, ClientDies, Unchanged
<1>7. CASE HandleMain
  BY <1>1, <1>7, MainPress, AskIsItem, AppendedItem DEF HandleMain, Unchanged
<1>8. CASE HandleRecord
  <2>1. Rest \in Seq(Items) /\ Append(Rest, Ask("Ungrab")) \in Seq(Items)
    BY <1>8, RecordRead, AskIsItem, AppendedItem
  <2>2. record' \in Seq(Items)
    BY <1>8, <2>1, RecordRead DEF Ignored, Reset
  <2> QED
    BY <1>1, <1>8, <2>2 DEF HandleRecord, Unchanged
<1>9. ASSUME NEW id \in Ids, X11Request(id) PROVE WireOK'
  <2>1. UNCHANGED <<main, record, refused>>
    BY <1>9 DEF X11Request, SetInactive, Autoload
  <2>2. PICK off, on : Regrab(off, on, keys)
    BY <1>9 DEF X11Request, SetInactive, Autoload
  <2>3. grabbed' \subseteq Grabbable
    <3> SUFFICES ASSUME NEW c \in grabbed', c \notin grabbed PROVE c \in Grabbable
      OBVIOUS
    <3> DEFINE kept == DOMAIN activeKeys \ Freed(off)
    <3>1. c \in Chords /\ Uses(c, Claimed(on, keys, kept)) # {}
      BY <2>2 DEF Regrab
    <3>2. PICK k \in Claimed(on, keys, kept), i \in 1 .. MaxSequenceLength :
             i \in 1 .. Len(k) /\ k[i] = c
      BY <3>1 DEF Uses
    <3>3. c \notin refused
      BY <3>2 DEF Claimed
    <3> QED
      BY <3>1, <3>3
  <2> QED
    BY <2>1, <2>3
<1>10. CASE UNCHANGED x11Vars
  BY <1>1, <1>10 DEF x11Vars, keyVars, vars, grabs
<1> QED
  BY <1>3, <1>4, <1>5, <1>6, <1>7, <1>8, <1>9, <1>10 DEF X11Next

-----------------------------------------------------------------------------
(***************************************************************************)
(* What the state machine will make of what is unread.  Whoever reads the  *)
(* two connections in whatever order, the XRecord connection by itself     *)
(* tells the state machine all it needs, unless another client interferes; *)
(* what comes on the main one can only end a tap.                          *)
(***************************************************************************)
QueueInv ==
    /\ PairsMatch(record)
    /\ NoGrabBefore(record)
    /\ LastMatches(record, ModifiersOf(down), undisturbed)
    /\ state = "Pressing" => NextMatches(record, mods)
    /\ state = "Pressing" /\ Rests(record, 0) /\ ~contested =>
          ModifiersOf(down) = {} \/ (ModifiersOf(down) = mods /\ undisturbed)
    /\ ~contested => ~keyboardGrabbed /\ \A i \in DOMAIN record : record[i].kind # "Grab"
    /\ (\E j \in DOMAIN record : Certain(record[j])) => ~keyboardGrabbed

\* Something happens at the X server.
LEMMA HappensQueue ==
    ASSUME WireOK, QueueInv, UNCHANGED keyboardGrabbed,
           state' = "Pressing" => state = "Pressing" /\ mods' = mods,
           NEW x \in Items, record' = Append(record, x),
           TapRelease(x) =>
              /\ \A i \in DOMAIN record :
                    ModifierPress(record[i]) /\ Rests(record, i) => Clean(x, After(record[i]))
              /\ state = "Pressing" /\ Rests(record, 0) => Clean(x, mods),
           Certain(x) => ~contested,
           \A i \in DOMAIN record : ModifierPress(record[i]) /\ Rests(record, i) /\ Silent(x)
              => ModifiersOf(down') = After(record[i]) /\ undisturbed',
           ModifierPress(x) => ModifiersOf(down') = After(x) /\ undisturbed',
           state = "Pressing" /\ Rests(record, 0) /\ Silent(x) /\ ~contested' =>
              ModifiersOf(down') = {} \/ (ModifiersOf(down') = mods /\ undisturbed'),
           ~contested' => /\ ~keyboardGrabbed /\ x.kind # "Grab"
                          /\ \A i \in DOMAIN record : record[i].kind # "Grab"
    PROVE  QueueInv'
<1>1. record \in Seq(Items)
  BY DEF WireOK
<1>2. /\ Len(record) \in Nat /\ DOMAIN record = 1 .. Len(record)
      /\ DOMAIN record' = 1 .. (Len(record) + 1)
      /\ \A i \in DOMAIN record : record'[i] = record[i]
      /\ record'[Len(record) + 1] = x
  BY <1>1, AppendedItem
<1>3. /\ \A i \in DOMAIN record : Rests(record', i) => Rests(record, i) /\ Silent(x)
      /\ Rests(record', 0) => Rests(record, 0) /\ Silent(x)
      /\ PairsMatch(record')
      /\ NoGrabBefore(record')
  BY <1>1, AppendMatches DEF QueueInv
<1>4. state = "Pressing" => NextMatches(record', mods)
  BY <1>1, AppendMatches DEF QueueInv
<1>5. LastMatches(record', ModifiersOf(down'), undisturbed')
  <2> SUFFICES ASSUME NEW i \in DOMAIN record', ModifierPress(record'[i]), Rests(record', i)
               PROVE  ModifiersOf(down') = After(record'[i]) /\ undisturbed'
    BY DEF LastMatches
  <2>1. CASE i \in DOMAIN record
    BY <1>2, <1>3, <2>1
  <2>2. CASE i = Len(record) + 1
    BY <1>2, <2>2
  <2> QED
    BY <1>2, <2>1, <2>2
<1>6. ~contested' => ~keyboardGrabbed' /\ \A i \in DOMAIN record' : record'[i].kind # "Grab"
  BY <1>2
<1>7. (\E j \in DOMAIN record' : Certain(record'[j])) => ~keyboardGrabbed'
  <2> SUFFICES ASSUME NEW j \in DOMAIN record', Certain(record'[j])
               PROVE  ~keyboardGrabbed'
    OBVIOUS
  <2>1. CASE j \in DOMAIN record
    BY <1>2, <2>1 DEF QueueInv
  <2>2. CASE j = Len(record) + 1
    BY <1>2, <2>2 DEF QueueInv
  <2> QED
    BY <1>2, <2>1, <2>2
<1>8. state' = "Pressing" /\ Rests(record', 0) /\ ~contested' =>
          ModifiersOf(down') = {} \/ (ModifiersOf(down') = mods' /\ undisturbed')
  BY <1>3
<1>9. state' = "Pressing" => NextMatches(record', mods')
  BY <1>4
<1> QED
  BY <1>3, <1>5, <1>6, <1>7, <1>8, <1>9 DEF QueueInv

LEMMA PressQueue ==
    ASSUME WireOK, QueueInv, NEW sym \in Syms, X11Press(sym)
    PROVE  QueueInv'
<1> DEFINE x == Item("Press", sym, ModifiersOf(down), "none")
<1>1. /\ x \in Items /\ x.kind = "Press" /\ x.sym = sym /\ x.mods = ModifiersOf(down)
      /\ ~Certain(x)
  BY DownAre DEF Item, Items, Certain
<1>2. /\ UNCHANGED <<machine, keyboardGrabbed>>
      /\ record' = Append(record, x)
      /\ down' = down \cup {sym}
      /\ undisturbed' = IF sym = NoSym THEN undisturbed ELSE IsModifier(sym)
      /\ contested' = (contested /\ \/ down # {} \/ otherGrab \/ keyboardGrabbed
                                    \/ Unread({"Grab"}) # {})
  BY DEF X11Press, Happens, Chord
<1> HIDE DEF x
<1>3. Silent(x) => sym = NoSym /\ undisturbed' = undisturbed
  BY <1>1, <1>2 DEF Silent
<1>4. ModifiersOf(down') = ModifiersOf(down) \cup KeyToModifier(sym)
  BY <1>2, DownAre
<1>5. sym = NoSym => ModifiersOf(down') = ModifiersOf(down)
  BY <1>4, DownAre DEF IsModifier
<1>6. ModifierPress(x) => ModifiersOf(down') = After(x) /\ undisturbed'
  <2>1. ModifierPress(x) => IsModifier(sym) /\ sym # NoSym
    BY <1>1, DownAre DEF ModifierPress
  <2> QED
    BY <1>1, <1>2, <1>4, <2>1 DEF After
<1>7. ~contested' /\ contested =>
         /\ down = {} /\ ~keyboardGrabbed
         /\ \A i \in DOMAIN record : record[i].kind # "Grab"
  BY <1>2 DEF Unread
<1>8. ~contested' => /\ ~keyboardGrabbed
                     /\ \A i \in DOMAIN record : record[i].kind # "Grab"
  BY <1>7 DEF QueueInv
<1>9. down = {} => ModifiersOf(down) = {}
  BY DEF ModifiersOf
<1>10. \A i \in DOMAIN record : ModifierPress(record[i]) /\ Rests(record, i) /\ Silent(x)
          => ModifiersOf(down') = After(record[i]) /\ undisturbed'
  BY <1>3, <1>5 DEF QueueInv, LastMatches
<1>11. state = "Pressing" /\ Rests(record, 0) /\ Silent(x) /\ ~contested' =>
              ModifiersOf(down') = {} \/ (ModifiersOf(down') = mods /\ undisturbed')
  BY <1>3, <1>5, <1>7, <1>9 DEF QueueInv
<1> QED
  BY <1>1, <1>2, <1>6, <1>8, <1>10, <1>11, HappensQueue DEF TapRelease, machine

LEMMA ReleaseQueue ==
    ASSUME WireOK, QueueInv, NEW sym \in Syms, X11Release(sym)
    PROVE  QueueInv'
<1> DEFINE t == IF contested THEN "contested" ELSE IF undisturbed THEN "clean" ELSE "disturbed"
           x == Item("Release", sym, ModifiersOf(down), t)
<1>1. /\ x \in Items /\ x.kind = "Release" /\ x.sym = sym /\ x.mods = ModifiersOf(down)
      /\ Certain(x) <=> ~contested
      /\ ~contested /\ undisturbed => x.tap = "clean"
      /\ ~ModifierPress(x)
  BY DownAre DEF Item, Items, Certain, ModifierPress
<1>2. /\ UNCHANGED <<machine, keyboardGrabbed, contested, undisturbed>>
      /\ record' = Append(record, x)
      /\ sym \in down /\ down' = down \ {sym}
  BY DEF X11Release, Happens, x11
<1> HIDE DEF x
<1>3. TapRelease(x) => ~contested /\ IsModifier(sym) /\ ModifiersOf(down) # {}
  BY <1>1, <1>2, DownAre DEF TapRelease
<1>4. TapRelease(x) =>
        /\ \A i \in DOMAIN record :
              ModifierPress(record[i]) /\ Rests(record, i) => Clean(x, After(record[i]))
        /\ state = "Pressing" /\ Rests(record, 0) => Clean(x, mods)
  BY <1>1, <1>3 DEF QueueInv, LastMatches, Clean
<1>5. Silent(x) => ModifiersOf(down') = ModifiersOf(down) /\ undisturbed' = undisturbed
  <2>1. Silent(x) => sym = NoSym
    BY <1>1 DEF Silent
  <2> QED
    BY <1>2, <2>1, DownAre
<1>6. \A i \in DOMAIN record : ModifierPress(record[i]) /\ Rests(record, i) /\ Silent(x)
          => ModifiersOf(down') = After(record[i]) /\ undisturbed'
  BY <1>5 DEF QueueInv, LastMatches
<1>7. state = "Pressing" /\ Rests(record, 0) /\ Silent(x) /\ ~contested' =>
              ModifiersOf(down') = {} \/ (ModifiersOf(down') = mods /\ undisturbed')
  BY <1>2, <1>5 DEF QueueInv
<1>8. ~contested' => /\ ~keyboardGrabbed /\ x.kind # "Grab"
                     /\ \A i \in DOMAIN record : record[i].kind # "Grab"
  BY <1>1, <1>2 DEF QueueInv
<1> QED
  BY <1>1, <1>2, <1>4, <1>6, <1>7, <1>8, HappensQueue DEF machine

LEMMA ClickQueue ==
    ASSUME WireOK, QueueInv, X11Click
    PROVE  QueueInv'
<1> DEFINE x == Item("Click", NoSym, {}, "none")
<1>1. x \in Items /\ ~Silent(x) /\ ~ModifierPress(x) /\ ~Certain(x) /\ x.kind # "Grab"
  BY DEF Item, Items, Silent, ModifierPress, Certain
<1>2. UNCHANGED <<machine, keyboardGrabbed, contested>> /\ record' = Append(record, x)
  BY DEF X11Click, Happens, x11
<1> HIDE DEF x
<1>3. ~contested' => /\ ~keyboardGrabbed
                     /\ \A i \in DOMAIN record : record[i].kind # "Grab"
  BY <1>2 DEF QueueInv
<1> QED
  BY <1>1, <1>2, <1>3, HappensQueue DEF TapRelease, machine

LEMMA AskQueue ==
    ASSUME WireOK, QueueInv, ClientGrabs \/ ClientUngrabs
    PROVE  QueueInv'
<1>1. PICK kind \in {"Grab", "Ungrab"} :
        /\ record' = Append(record, Ask(kind))
        /\ kind = "Grab" => contested' = TRUE
        /\ kind = "Ungrab" => contested' = contested
  BY DEF ClientGrabs, ClientUngrabs, Happens
<1>2. UNCHANGED <<machine, keyboardGrabbed, down, undisturbed>>
  BY DEF ClientGrabs, ClientUngrabs, user
<1>3. /\ Ask(kind) \in Items /\ Ask(kind).kind = kind
      /\ ~ModifierPress(Ask(kind)) /\ ~Certain(Ask(kind))
  BY AskIsItem DEF Ask, Item, ModifierPress, Certain
<1>4. \A i \in DOMAIN record : ModifierPress(record[i]) /\ Rests(record, i)
          => ModifiersOf(down') = After(record[i]) /\ undisturbed'
  BY <1>2 DEF QueueInv, LastMatches
<1>5. state = "Pressing" /\ Rests(record, 0) /\ ~contested' =>
              ModifiersOf(down') = {} \/ (ModifiersOf(down') = mods /\ undisturbed')
  BY <1>1, <1>2 DEF QueueInv
<1>6. ~contested' => /\ ~keyboardGrabbed /\ Ask(kind).kind # "Grab"
                     /\ \A i \in DOMAIN record : record[i].kind # "Grab"
  BY <1>1, <1>3 DEF QueueInv
<1> QED
  BY <1>1, <1>2, <1>3, <1>4, <1>5, <1>6, HappensQueue DEF TapRelease, machine

LEMMA MainQueue ==
    ASSUME WireOK, QueueInv, HandleMain
    PROVE  QueueInv'
<1> DEFINE x == Ask("Ungrab")
<1>1. state' = "Normal" /\ record' = Append(record, x)
  BY MainPress
<1>2. UNCHANGED <<down, undisturbed, keyboardGrabbed, contested>>
  BY DEF HandleMain
<1>3. x \in Items /\ x.kind = "Ungrab" /\ ~ModifierPress(x) /\ ~Certain(x)
  BY AskIsItem DEF Ask, Item, ModifierPress, Certain
<1> HIDE DEF x
<1>4. \A i \in DOMAIN record : ModifierPress(record[i]) /\ Rests(record, i)
          => ModifiersOf(down') = After(record[i]) /\ undisturbed'
  BY <1>2 DEF QueueInv, LastMatches
<1>5. state = "Pressing" /\ Rests(record, 0) /\ ~contested' =>
              ModifiersOf(down') = {} \/ (ModifiersOf(down') = mods /\ undisturbed')
  BY <1>2 DEF QueueInv
<1>6. ~contested' => /\ ~keyboardGrabbed
                     /\ \A i \in DOMAIN record : record[i].kind # "Grab"
  BY <1>2 DEF QueueInv
<1> QED
  BY <1>1, <1>2, <1>3, <1>4, <1>5, <1>6, HappensQueue DEF TapRelease

\* The first item is gone; an Ungrab may have come instead.
LEMMA RestQueue ==
    ASSUME WireOK, QueueInv, record # <<>>, UNCHANGED <<down, undisturbed, contested>>,
           \/ record' = Rest
           \/ record' = Append(Rest, Ask("Ungrab")),
           NEW held,
           state' = "Pressing" => mods' = held /\ NextMatches(Rest, held),
           state' = "Pressing" /\ Rests(Rest, 0) /\ ~contested =>
              ModifiersOf(down) = {} \/ (ModifiersOf(down) = held /\ undisturbed),
           keyboardGrabbed' => keyboardGrabbed \/ Head(record).kind = "Grab"
    PROVE  QueueInv'
<1> DEFINE n == Len(record)
           x == Ask("Ungrab")
<1>1. /\ Rest \in Seq(Items) /\ n \in Nat /\ n >= 1 /\ DOMAIN record = 1 .. n
      /\ DOMAIN Rest = 1 .. (n - 1)
      /\ \A i \in DOMAIN Rest : Rest[i] = record[i + 1] /\ i + 1 \in DOMAIN record
      /\ Head(record) = record[1] /\ 1 \in DOMAIN record
  BY TailItem DEF WireOK, Rest
<1>2. /\ \A i \in DOMAIN Rest : Rests(Rest, i) => Rests(record, i + 1)
      /\ PairsMatch(Rest) /\ NoGrabBefore(Rest)
  BY TailMatches DEF WireOK, QueueInv, Rest
<1>3. x \in Items /\ x.kind = "Ungrab" /\ ~ModifierPress(x) /\ ~Certain(x) /\ ~TapRelease(x)
  BY AskIsItem DEF Ask, Item, ModifierPress, Certain, TapRelease
<1>4. \A j \in DOMAIN Rest : Certain(Rest[j]) => ~keyboardGrabbed'
  <2> SUFFICES ASSUME NEW j \in DOMAIN Rest, Certain(Rest[j]) PROVE ~keyboardGrabbed'
    OBVIOUS
  <2>1. j + 1 \in DOMAIN record /\ Certain(record[j + 1]) /\ 1 < j + 1
    BY <1>1
  <2>2. record[1].kind # "Grab"
    BY <1>1, <2>1 DEF QueueInv, NoGrabBefore
  <2> QED
    BY <1>1, <2>1, <2>2 DEF QueueInv
<1>5. ~contested => ~keyboardGrabbed' /\ \A i \in DOMAIN Rest : Rest[i].kind # "Grab"
  BY <1>1 DEF QueueInv
<1>6. LastMatches(Rest, ModifiersOf(down), undisturbed)
  BY <1>1, <1>2 DEF QueueInv, LastMatches
<1> HIDE DEF x, n
<1>7. CASE record' = Rest
  BY <1>2, <1>4, <1>5, <1>6, <1>7 DEF QueueInv
<1>8. CASE record' = Append(Rest, x)
  <2> DEFINE a == Append(Rest, x)
  <2>1. /\ DOMAIN Rest = 1 .. (n - 1) /\ DOMAIN a = 1 .. n
        /\ \A i \in DOMAIN Rest : a[i] = Rest[i]
        /\ a[n] = x
    <3>1. PICK m \in Nat : m = Len(Rest)
      BY <1>1
    <3>2. DOMAIN Rest = 1 .. m /\ DOMAIN a = 1 .. (m + 1) /\ a[m + 1] = x
          /\ \A i \in DOMAIN Rest : a[i] = Rest[i]
      BY <1>1, <1>3, <3>1, AppendedItem
    <3>3. m = n - 1
      BY <1>1, <3>1 DEF Rest, n
    <3> QED
      BY <1>1, <3>2, <3>3
  <2>2. /\ \A i \in DOMAIN Rest : Rests(a, i) => Rests(Rest, i)
        /\ Rests(a, 0) => Rests(Rest, 0)
        /\ PairsMatch(a) /\ NoGrabBefore(a)
        /\ NextMatches(Rest, held) => NextMatches(a, held)
    BY <1>1, <1>2, <1>3, AppendMatches
  <2> HIDE DEF a
  <2>3. \A i \in DOMAIN a : i \in DOMAIN Rest \/ a[i] = x
    BY <1>1, <2>1
  <2>4. LastMatches(a, ModifiersOf(down), undisturbed)
    BY <1>3, <1>6, <2>1, <2>2, <2>3 DEF LastMatches
  <2>5. /\ \A j \in DOMAIN a : Certain(a[j]) => ~keyboardGrabbed'
        /\ ~contested => ~keyboardGrabbed' /\ \A i \in DOMAIN a : a[i].kind # "Grab"
    BY <1>3, <1>4, <1>5, <2>1, <2>3
  <2>6. record' = a
    BY <1>8 DEF a
  <2> QED
    BY <2>2, <2>4, <2>5, <2>6 DEF QueueInv
<1> QED
  BY <1>7, <1>8 DEF x

\* The plug-in reads the XRecord connection.
LEMMA RecordQueue ==
    ASSUME WireOK, QueueInv, HandleRecord
    PROVE  QueueInv'
<1> DEFINE item == Head(record)
<1>1. /\ record # <<>> /\ item \in Items /\ UNCHANGED <<down, undisturbed, contested>>
      /\ keyboardGrabbed' => keyboardGrabbed \/ item.kind = "Grab"
      /\ record \in Seq(Items)
  BY RecordRead DEF HandleRecord, WireOK
<1>2. /\ Rests(Rest, 0) /\ Silent(item) => Rests(record, 0)
      /\ Rests(Rest, 0) => Rests(record, 1)
      /\ NextMatches(record, mods) /\ Silent(item) => NextMatches(Rest, mods)
      /\ PairsMatch(record) /\ ModifierPress(item) => NextMatches(Rest, After(item))
  BY <1>1, TailMatches DEF Rest
<1>3. /\ Rest \in Seq(Items) /\ 1 \in DOMAIN record /\ item = record[1]
      /\ \A j \in DOMAIN Rest : Rest[j] = record[j + 1] /\ j + 1 \in DOMAIN record
  BY <1>1, TailItem DEF Rest
<1> HIDE DEF item
<1>4. CASE Ignored(Rest) /\ Silent(item)
  <2>1. record' = Rest /\ state' = state /\ mods' = mods
    BY <1>4 DEF Ignored, machine
  <2>2. state = "Pressing" => NextMatches(Rest, mods)
    BY <1>2, <1>4 DEF QueueInv
  <2>3. state = "Pressing" /\ Rests(Rest, 0) /\ ~contested =>
              ModifiersOf(down) = {} \/ (ModifiersOf(down) = mods /\ undisturbed)
    BY <1>2, <1>4 DEF QueueInv
  <2> QED
    BY <1>1, <2>1, <2>2, <2>3, RestQueue DEF item
<1>5. CASE Ignored(Rest) /\ keyboardGrabbed
  <2>1. record' = Rest /\ state' = state /\ mods' = mods
    BY <1>5 DEF Ignored, machine
  <2>2. contested
    BY <1>5 DEF QueueInv
  <2>3. NextMatches(Rest, mods)
    BY <1>3, <1>5 DEF QueueInv, NextMatches, TapRelease
  <2> QED
    BY <1>1, <2>1, <2>2, <2>3, RestQueue DEF item
<1>6. CASE Reset(Rest)
  <2>1. record' = Rest /\ state' # "Pressing"
    BY <1>6 DEF Reset
  <2> QED
    BY <1>1, <2>1, RestQueue DEF item
<1>7. ASSUME ModifierPress(item), KeyEvent(Chord(item.mods, item.sym), "Pressed"),
             record' = Append(Rest, Ask("Ungrab"))
      PROVE  QueueInv'
  <2> DEFINE chord == CorrectKeyEvent(Chord(item.mods, item.sym))
  <2>1. item.mods \in SUBSET Modifiers /\ item.sym \in Syms \cup {NoSym}
    BY <1>1 DEF Items
  <2>2. /\ chord.sym \in Modifiers
        /\ chord.mods \cup KeyToModifier(chord.sym) = After(item)
    BY <1>7, <2>1, CodeTaken DEF ModifierPress, After
  <2>3. chord.sym # NoSym
    BY <2>2 DEF Modifiers, NoSym
  <2>4. ModifierPressed(chord)
    BY <1>7, <2>2, <2>3 DEF KeyEvent
  <2>5. mods' = After(item)
    BY <2>2, <2>4 DEF ModifierPressed
  <2>6. NextMatches(Rest, After(item))
    BY <1>2, <1>7 DEF QueueInv
  <2>7. Rests(Rest, 0) => ModifiersOf(down) = After(item) /\ undisturbed
    BY <1>2, <1>3, <1>7 DEF QueueInv, LastMatches
  <2> QED
    BY <1>1, <1>7, <2>5, <2>6, <2>7, RestQueue DEF item
<1>8. ASSUME KeyEvent(Chord(item.mods, item.sym), "Released"), record' = Rest
      PROVE  QueueInv'
  <2>1. state' # "Pressing"
    BY <1>8 DEF KeyEvent, InvalidKey, ModifierReleased, OtherReleased
  <2> QED
    BY <1>1, <1>8, <2>1, RestQueue DEF item
<1> QED
  BY <1>4, <1>5, <1>6, <1>7, <1>8, RecordRead DEF item, Deaf

LEMMA QueueStep ==
    ASSUME WireOK, QueueInv, [X11Next]_x11Vars
    PROVE  QueueInv'
<1>1. CASE UNCHANGED <<record, machine, down, undisturbed, contested, keyboardGrabbed>>
  BY <1>1 DEF QueueInv, machine
<1>2. CASE ClientDies
  BY <1>1, <1>2 DEF ClientDies, user
<1>3. ASSUME NEW id \in Ids, X11Request(id) PROVE QueueInv'
  BY <1>1, <1>3 DEF X11Request
<1>4. CASE UNCHANGED x11Vars
  BY <1>1, <1>4 DEF x11Vars, keyVars, user, x11
<1> QED
  BY <1>2, <1>3, <1>4, PressQueue, ReleaseQueue, ClickQueue, AskQueue, MainQueue, RecordQueue
     DEF X11Next

-----------------------------------------------------------------------------
(***************************************************************************)
(* The release of what is held.                                            *)
(***************************************************************************)
HeldInv == ReleaseIsToCome /\ (last # None => presser # NoSym)

LEMMA HeldStep ==
    ASSUME IInv, MachineOK, WireOK, HeldInv, [X11Next]_x11Vars
    PROVE  HeldInv'
<1> USE DEF HeldInv, ReleaseIsToCome
<1>1. CASE last' = None
  BY <1>1
<1>2. record \in Seq(Items)
  BY DEF WireOK
\* What was unread still is.
<1>3. ASSUME NEW x \in Items, record' = Append(record, x)
      PROVE  \A i \in Unread({"Release"}) :
                i \in Unread({"Release"})' /\ record'[i] = record[i]
  BY <1>2, <1>3, AppendedItem DEF Unread
<1>4. ASSUME NEW x \in Items, record' = Append(record, x), UNCHANGED <<last, presser, missed>>,
             down' = down \/ down \subseteq down'
      PROVE  HeldInv'
  BY <1>3, <1>4
<1>5. ASSUME NEW sym \in Syms, X11Press(sym) PROVE HeldInv'
  <2> DEFINE x == Item("Press", sym, ModifiersOf(down), "none")
  <2>1. x \in Items /\ record' = Append(record, x)
    BY <1>5, DownAre DEF X11Press, Happens, Item, Items, Chord
  <2>2. UNCHANGED <<last, presser, missed>> /\ down \subseteq down'
    BY <1>5 DEF X11Press, Quiet, Hold, Held
  <2> QED
    BY <1>4, <2>1, <2>2
<1>6. ASSUME NEW sym \in Syms, X11Release(sym) PROVE HeldInv'
  <2> DEFINE t == IF contested THEN "contested" ELSE IF undisturbed THEN "clean" ELSE "disturbed"
             x == Item("Release", sym, ModifiersOf(down), t)
  <2>1. x \in Items /\ record' = Append(record, x) /\ x.kind = "Release" /\ x.sym = sym
    BY <1>6, DownAre DEF X11Release, Happens, Item, Items
  <2>2. UNCHANGED <<last, presser, missed>> /\ down' = down \ {sym}
    BY <1>6 DEF X11Release, Quiet, Hold, Held, x11
  <2> HIDE DEF x
  <2>3. Len(record) + 1 \in Unread({"Release"})' /\ record'[Len(record) + 1].sym = sym
    BY <1>2, <2>1, AppendedItem DEF Unread
  <2> QED
    BY <1>3, <2>1, <2>2, <2>3
<1>7. CASE X11Click
  <2>1. Item("Click", NoSym, {}, "none") \in Items
    BY DEF Item, Items
  <2> QED
    BY <1>4, <1>7, <2>1 DEF X11Click, Happens, Quiet, Hold, Held, x11
<1>8. CASE ClientGrabs \/ ClientUngrabs
  <2>1. UNCHANGED <<last, presser, missed, down>>
    BY <1>8 DEF ClientGrabs, ClientUngrabs, Quiet, Hold, Held, user
  <2>2. PICK kind \in {"Grab", "Ungrab"} : record' = Append(record, Ask(kind))
    BY <1>8 DEF ClientGrabs, ClientUngrabs, Happens
  <2> QED
    BY <1>4, <2>1, <2>2, AskIsItem
<1>9. CASE UNCHANGED <<last, presser, missed, down, record>>
  BY <1>9 DEF Unread
<1>10. CASE ClientDies \/ UNCHANGED x11Vars
  BY <1>9, <1>10 DEF ClientDies, x11Vars, keyVars, vars, hold, user, x11, Quiet, Hold, Held
<1>11. ASSUME HandleMain, last' # None PROVE HeldInv'
  <2> DEFINE sym == Head(main).sym
  <2>1. sym # NoSym
    BY <1>11, MainPress, WantedCode
  <2>2. /\ presser' = Presser(sym) /\ down' = down
        /\ missed' = (/\ last' # None
                      /\ IF last' = last /\ presser # sym THEN missed
                         ELSE /\ sym \notin down
                              /\ \A i \in Unread({"Release"}) : record[i].sym # sym)
    BY <1>11 DEF HandleMain, Heeded
  <2>3. \A i \in Unread({"Release"}) : i \in Unread({"Release"})' /\ record'[i] = record[i]
    BY <1>3, <1>11, MainPress, AskIsItem
  <2> HIDE DEF sym
  <2>4. CASE last' = last /\ presser # sym
    BY <1>11, <2>2, <2>3, <2>4 DEF Presser
  <2>5. CASE ~(last' = last /\ presser # sym)
    <3>1. presser' = sym
      BY <1>11, <2>2, <2>5 DEF Presser
    <3> QED
      BY <1>11, <2>1, <2>2, <2>3, <2>5, <3>1
  <2> QED
    BY <2>4, <2>5
<1>12. ASSUME HandleRecord, last' # None PROVE HeldInv'
  <2> DEFINE item == Head(record)
  <2>1. /\ record # <<>> /\ item \in Items /\ Rest \in Seq(Items) /\ down' = down
        /\ missed' = (last' # None /\ (missed \/ (Deaf /\ item.sym = presser)))
    BY <1>12, RecordRead DEF HandleRecord, Deaf
  \* Unless a release is read and heeded, what is held stays held.
  <2>2. /\ UNCHANGED <<last, presser>>
        /\ item.kind = "Release" => item.sym = NoSym \/ Deaf
        /\ record' = Rest \/ record' = Append(Rest, Ask("Ungrab"))
    <3>1. CASE Ignored(Rest) /\ (Deaf \/ Silent(item))
      BY <3>1 DEF Ignored, Quiet, Hold, Held, Silent
    <3>2. CASE Reset(Rest)
      <4>1. item.kind # "Release" \/ item.sym = NoSym \/ Deaf
        <5> SUFFICES ASSUME item.kind = "Release", ~Deaf, item.sym # NoSym PROVE FALSE
          OBVIOUS
        <5>1. KeyEvent(Chord(item.mods, item.sym), "Released")
          BY <1>12 DEF HandleRecord, RecordedRelease, Deaf
        <5> QED
          BY <1>12, <5>1, ReleasedLetsGo
      <4> QED
        BY <3>2, <4>1 DEF Reset, Quiet, Hold, Held
    <3>3. ASSUME ModifierPress(item), KeyEvent(Chord(item.mods, item.sym), "Pressed"),
                 presser' = Presser(item.sym),
                 record' = Append(Rest, Ask("Ungrab"))
          PROVE  UNCHANGED <<last, presser>> /\ item.kind # "Release"
      <4> DEFINE chord == CorrectKeyEvent(Chord(item.mods, item.sym))
      <4>1. item.mods \in SUBSET Modifiers /\ item.sym \in Syms \cup {NoSym}
        BY <2>1 DEF Items
      <4> HIDE DEF item
      <4>2. chord.sym \in Modifiers
        BY <3>3, <4>1, CodeTaken DEF ModifierPress
      <4>3. chord.sym # NoSym
        BY <4>2 DEF Modifiers, NoSym
      <4>4. last' = last
        BY <3>3, <4>2, <4>3 DEF KeyEvent, ModifierPressed, Quiet, Hold, Held
      <4>5. presser' = presser
        BY <1>12, <3>3, <4>4 DEF Presser
      <4> QED
        BY <3>3, <4>4, <4>5 DEF ModifierPress
    <3>4. ~ KeyEvent(Chord(item.mods, item.sym), "Released")
      BY <1>12, ReleasedLetsGo
    <3> QED
      BY <1>12, <3>1, <3>2, <3>3, <3>4, RecordRead
  <2>3. \A i \in Unread({"Release"}) :
           \/ record[i] = item /\ item.kind = "Release"
           \/ i - 1 \in Unread({"Release"})' /\ record'[i - 1] = record[i]
    <3> SUFFICES ASSUME NEW i \in DOMAIN record, record[i].kind = "Release", record[i] # item
                 PROVE  i - 1 \in DOMAIN record' /\ record'[i - 1] = record[i]
      BY DEF Unread
    <3>1. i - 1 \in DOMAIN Rest /\ Rest[i - 1] = record[i]
      <4>1. PICK n \in Nat : n = Len(record) /\ DOMAIN record = 1 .. n /\ n >= 1
                             /\ DOMAIN Rest = 1 .. (n - 1)
                             /\ \A k \in DOMAIN Rest : Rest[k] = record[k + 1]
                             /\ item = record[1]
        BY <1>2, <2>1, TailItem DEF Rest
      <4>2. i # 1
        BY <4>1
      <4> HIDE DEF item
      <4>3. i - 1 \in 1 .. (n - 1) /\ (i - 1) + 1 = i
        BY <4>1, <4>2
      <4> QED
        BY <4>1, <4>3
    <3>2. DOMAIN Rest \subseteq DOMAIN Append(Rest, Ask("Ungrab"))
          /\ \A k \in DOMAIN Rest : Append(Rest, Ask("Ungrab"))[k] = Rest[k]
      BY <2>1, AskIsItem, AppendedItem
    <3> QED
      BY <2>2, <3>1, <3>2
  <2>4. last # None
    BY <1>12, <2>2
  <2> HIDE DEF item
  <2>5. CASE missed \/ presser \in down
    BY <1>12, <2>1, <2>2, <2>4, <2>5
  <2>6. ASSUME NEW i \in Unread({"Release"}), record[i].sym = presser PROVE HeldInv'
    <3>1. CASE record[i] = item /\ item.kind = "Release"
      BY <1>12, <2>1, <2>2, <2>4, <2>6, <3>1
    <3>2. CASE i - 1 \in Unread({"Release"})' /\ record'[i - 1] = record[i]
      BY <1>12, <2>2, <2>4, <2>6, <3>2
    <3> QED
      BY <2>3, <2>6, <3>1, <3>2
  <2> QED
    BY <2>4, <2>5, <2>6
<1>13. ASSUME NEW id \in Ids, X11Request(id), last' # None PROVE HeldInv'
  <2>1. last' = last
    BY <1>13 DEF X11Request, SetInactive, Autoload, LetGo, Quiet, Hold, Held
  <2>2. presser' = presser /\ (missed => missed') /\ UNCHANGED <<down, record>>
    BY <1>13, <2>1 DEF X11Request, Presser
  <2> QED
    BY <2>1, <2>2 DEF Unread
<1> QED
  BY <1>1, <1>5, <1>6, <1>7, <1>8, <1>10, <1>11, <1>12, <1>13 DEF X11Next

-----------------------------------------------------------------------------
(***************************************************************************)
(* The first state: every key that the plug-in can grab is active.         *)
(***************************************************************************)
LEMMA InitIsSound ==
    ASSUME X11Init
    PROVE  IInv
<1> DEFINE claimed == {k \in UNION {KeySet(Assigned[s]) : s \in Slots} :
                          \A i \in DOMAIN k : k[i] \in Grabbable}
           owner(k) == CHOOSE s \in Slots : k \in KeySet(Assigned[s])
<1>1. Assigned \in [Slots -> KeyListType]
  BY AssignedAssumption, KeysAssumption DEF KeyListType
<1>2. claimed \in SUBSET Keys
  BY <1>1, KeySetType
<1>3. \A k \in claimed : owner(k) \in Slots /\ k \in KeySet(Assigned[owner(k)])
  OBVIOUS
<1>4. \A c \in Chords : /\ IsFiniteSet(Uses(c, claimed))
                        /\ Cardinality(Uses(c, claimed)) \in Nat
                        /\ Uses(c, claimed) # {} <=> Cardinality(Uses(c, claimed)) > 0
  <2> SUFFICES ASSUME NEW c \in Chords
               PROVE  /\ IsFiniteSet(Uses(c, claimed))
                      /\ Cardinality(Uses(c, claimed)) \in Nat
                      /\ Uses(c, claimed) # {} <=> Cardinality(Uses(c, claimed)) > 0
    OBVIOUS
  <2> HIDE DEF claimed
  <2>1. IsFiniteSet(Uses(c, claimed))
    BY <1>2, UsesFinite
  <2>2. PICK n \in Nat : n = Cardinality(Uses(c, claimed))
    BY <2>1, FS_CardinalityType
  <2>3. n = 0 <=> Uses(c, claimed) = {}
    BY <2>1, <2>2, FS_EmptySet
  <2> QED
    BY <2>1, <2>2, <2>3
<1>5. /\ activeKeys = [k \in claimed |-> Live(owner(k))]
      /\ keysCount = [c \in Chords |-> Cardinality(Uses(c, claimed))]
      /\ grabbed = {c \in Chords : Uses(c, claimed) # {}}
      /\ live = Slots /\ present = Slots /\ registered = Slots /\ keys = Assigned
  BY DEF X11Init
<1>6. components \in Seq(Components)
  <2>1. PICK n \in Nat : n = Cardinality(Components)
    BY X11Assumption, FS_CardinalityType
  <2>2. components \in [1 .. n -> Components]
    BY <2>1 DEF X11Init
  <2> QED
    BY <2>1, <2>2
<1>7. /\ contexts \in [Components -> SUBSET Contexts]
      /\ current \in [Components -> Contexts]
      /\ fresh \in SUBSET Slots
      /\ refused \in SUBSET Refusable
      /\ last \in Objects \cup {None} /\ owed \in SUBSET Slots
      /\ out \in Seq(Signals) /\ writeout \in BOOLEAN
  <2>1. /\ contexts = [c \in Components |-> Contexts]
        /\ current = [c \in Components |-> Default]
        /\ fresh = {} /\ owed = {} /\ out = <<>> /\ last = None
        /\ refused = Chords \ Grabbable /\ writeout = FALSE
    BY DEF X11Init
  <2>2. refused \in SUBSET Refusable
    BY <2>1, X11Assumption
  <2>3. contexts \in [Components -> SUBSET Contexts]
    BY <2>1
  <2>4. current \in [Components -> Contexts]
    BY <2>1, ContextsAssumption
  <2>5. out \in Seq(Signals)
    BY <2>1
  <2> QED
    BY <2>1, <2>2, <2>3, <2>4, <2>5
<1>8. \A s \in Slots : Live(s) \in Objects /\ Live(s).state = "live" /\ Live(s).slot = s
  BY DEF Live, Objects
<1> HIDE DEF claimed, owner
<1>9. TypeOK
  <2>1. DOMAIN activeKeys \in SUBSET Keys /\ activeKeys \in [DOMAIN activeKeys -> Objects]
    BY <1>2, <1>3, <1>5, <1>8
  <2>2. keysCount \in [Chords -> Nat] /\ grabbed \in SUBSET Chords
    BY <1>4, <1>5
  <2> QED
    BY <1>1, <1>5, <1>6, <1>7, <2>1, <2>2 DEF TypeOK, KeyListType
<1>10. GrabAccounting
  <2>1. DOMAIN activeKeys = claimed
    BY <1>5
  <2> QED
    BY <1>4, <1>5, <2>1 DEF GrabAccounting
<1>11. OwnersSound
  BY <1>3, <1>5, <1>8 DEF OwnersSound
<1> QED
  BY <1>9, <1>10, <1>11 DEF IInv

LEMMA InitIsOrderly ==
    ASSUME X11Init
    PROVE  MachineOK /\ WireOK /\ QueueInv /\ HeldInv
<1>1. /\ main = <<>> /\ record = <<>> /\ DOMAIN record = {}
      /\ state = "Normal" /\ sequence = <<>> /\ mods = {} /\ last = None
      /\ keyboardGrabbed = FALSE /\ refused = Chords \ Grabbable
  BY DEF X11Init
<1>2. MachineOK /\ HeldInv
  BY <1>1 DEF MachineOK, HeldInv, ReleaseIsToCome
<1>3. grabbed \subseteq Grabbable
  <2> SUFFICES ASSUME NEW c \in grabbed PROVE c \in Grabbable
    OBVIOUS
  <2> QED
    BY DEF X11Init, Uses
<1>4. WireOK
  BY <1>1, <1>3 DEF WireOK
<1>5. QueueInv
  <2>1. PairsMatch(record) /\ NoGrabBefore(record)
    BY <1>1 DEF PairsMatch, NoGrabBefore
  <2>2. LastMatches(record, ModifiersOf(down), undisturbed)
    BY <1>1 DEF LastMatches
  <2> QED
    BY <1>1, <2>1, <2>2 DEF QueueInv
<1> QED
  BY <1>2, <1>4, <1>5

X11Inv == IInv /\ MachineOK /\ WireOK /\ QueueInv /\ HeldInv

LEMMA X11Inductive == X11Spec => []X11Inv
<1>1. X11Init => X11Inv
  BY InitIsSound, InitIsOrderly DEF X11Inv
<1>2. X11Inv /\ [X11Next]_x11Vars => X11Inv'
  BY X11IsRegistry, WireStep, QueueStep, HeldStep, NextInv DEF X11Inv
<1> QED
  BY <1>1, <1>2, PTL DEF X11Spec

(***************************************************************************)
(* Whichever connection is read first and however late, the release of     *)
(* the shortcut held is unread or yet to be made, unless it was read       *)
(* before the press, or ignored because of another client's grab           *)
(* (x11KeyPress, x11KeyRelease).                                           *)
(***************************************************************************)
THEOREM ReleasesAreToCome == X11Spec => []ReleaseIsToCome
<1>1. X11Inv => ReleaseIsToCome
  BY DEF X11Inv, HeldInv
<1> QED
  BY <1>1, X11Inductive, PTL

-----------------------------------------------------------------------------
(***************************************************************************)
(* Taps.                                                                   *)
(***************************************************************************)
CleanRead ==
    \A i \in DOMAIN out' :
        (/\ out'[i].kind = "Pressed"
         /\ record # <<>> /\ record' = Tail(record)
         /\ Head(record).kind = "Release")
           => \/ Head(record).tap = "contested"
              \/ /\ Head(record).tap = "clean"
                 /\ \E key \in KeySet(keys[out'[i].slot]) :
                       NormalizeSequence(key)[Len(key)] = Chord(Head(record).mods, NoSym)

\* A connection that loses an item does not gain one.
LEMMA TailIsShorter ==
    ASSUME NEW r \in Seq(Items), r # <<>>
    PROVE  Tail(r) # r /\ \A x \in Items : Tail(r) # Append(r, x)
<1>1. PICK n \in Nat : n = Len(r) /\ n >= 1
  BY TailItem
<1>2. Len(Tail(r)) = n - 1 /\ \A x \in Items : Len(Append(r, x)) = n + 1
  BY <1>1
<1> QED
  BY <1>1, <1>2

LEMMA CleanReadStep ==
    ASSUME X11Inv, [X11Next]_x11Vars
    PROVE  [CleanRead]_x11Vars
<1>1. IInv /\ MachineOK /\ WireOK /\ QueueInv /\ record \in Seq(Items)
  BY DEF X11Inv, WireOK
<1>2. Quiet => CleanRead
  BY DEF Quiet, Hold, Held, CleanRead
<1>3. ASSUME NEW sym \in Syms, X11Press(sym) \/ X11Release(sym) PROVE CleanRead
  <2>1. Quiet
    BY <1>3 DEF X11Press, X11Release
  <2> QED
    BY <1>2, <2>1
<1>4. CASE X11Click \/ ClientGrabs \/ ClientUngrabs \/ ClientDies
  BY <1>2, <1>4 DEF X11Click, ClientGrabs, ClientUngrabs, ClientDies
<1>5. CASE HandleMain
  BY <1>1, <1>5, MainPress, AskIsItem, TailIsShorter DEF CleanRead
<1>6. ASSUME NEW id \in Ids, X11Request(id) PROVE CleanRead
  BY <1>1, <1>6, TailIsShorter DEF X11Request, CleanRead
<1>7. CASE HandleRecord
  <2> DEFINE item == Head(record)
             code == Chord(item.mods, item.sym)
  <2>1. item \in Items /\ record # <<>>
    BY <1>1, <1>7, RecordRead
  <2>2. CASE Ignored(Rest) \/ Reset(Rest)
    BY <1>2, <2>2 DEF Ignored, Reset
  <2>3. CASE ModifierPress(item)
    BY <2>3 DEF ModifierPress, CleanRead
  <2>4. CASE KeyEvent(code, "Released") /\ item.kind = "Release"
    <3> SUFFICES ASSUME NEW i \in DOMAIN out', out'[i].kind = "Pressed", item.tap # "contested"
                 PROVE  /\ item.tap = "clean"
                        /\ \E key \in KeySet(keys[out'[i].slot]) :
                              NormalizeSequence(key)[Len(key)] = Chord(item.mods, NoSym)
      BY DEF CleanRead
    <3>1. /\ CorrectKeyEvent(code).sym \in Modifiers
          /\ state = "Pressing"
          /\ \E key \in KeySet(keys[out'[i].slot]) :
                NormalizeSequence(key)[Len(key)] = Chord(mods, NoSym)
      BY <1>1, <2>4, ReleasedTriggers
    <3>2. IsModifier(item.sym)
      <4>1. item.mods \in SUBSET Modifiers /\ item.sym \in Syms \cup {NoSym}
        BY <2>1 DEF Items
      <4> HIDE DEF item
      <4> QED
        BY <3>1, <4>1, CodeTaken
    <3>3. Clean(record[1], mods)
      <4>1. 1 \in DOMAIN record /\ item = record[1]
        BY <1>1, <2>1, TailItem
      <4>2. TapRelease(record[1]) /\ Skips(record, 0, 1)
        <5>1. \A k \in DOMAIN record : ~(0 < k /\ k < 1)
          BY <1>1
        <5> QED
          BY <2>4, <3>2, <4>1, <5>1 DEF TapRelease, Certain, Skips
      <4> QED
        BY <1>1, <3>1, <4>1, <4>2 DEF QueueInv, NextMatches
    <3>4. item = record[1]
      BY <1>1, <2>1, TailItem
    <3> QED
      BY <3>1, <3>3, <3>4 DEF Clean
  <2> QED
    BY <1>1, <1>7, <2>2, <2>3, <2>4, RecordRead
<1> QED
  BY <1>3, <1>4, <1>5, <1>6, <1>7 DEF X11Next

(***************************************************************************)
(* Under X, too, releasing a modifier triggers only if nothing else was    *)
(* pressed or clicked since the last modifier went down, and only a        *)
(* shortcut with a key that ends with the modifiers held, although the     *)
(* daemon learns of both late and over two connections (KGlobalAccelImpl); *)
(* or else another client was about to grab the keyboard.                  *)
(***************************************************************************)
THEOREM X11TapsTriggerCleanly == X11Spec => X11TapsAreClean
<1>1. X11Inv /\ [X11Next]_x11Vars => [CleanRead]_x11Vars
  BY CleanReadStep
<1>2. X11Spec => [][CleanRead]_x11Vars
  BY <1>1, X11Inductive, PTL DEF X11Spec
<1> QED
  BY <1>2, PTL DEF X11TapsAreClean, CleanRead

-----------------------------------------------------------------------------
(***************************************************************************)
(* What the daemon owes its clients.                                       *)
(***************************************************************************)

\* The registry in the middle of two connections takes its own steps.
LEMMA X11TakesSteps == X11Spec => [][Next]_vars
<1>1. X11Inv /\ [X11Next]_x11Vars => [Next]_vars
  BY X11IsRegistry DEF X11Inv
<1> QED
  BY <1>1, X11Inductive, PTL DEF X11Spec

(***************************************************************************)
(* Under X, too, the chords grabbed are those of active keys, each counted *)
(* once for each place where it stands (registerKey, unregisterKey).       *)
(***************************************************************************)
THEOREM X11GrabsAreCounted == X11Spec => []GrabAccounting
<1>1. X11Inv => GrabAccounting
  BY DEF X11Inv, IInv
<1> QED
  BY <1>1, X11Inductive, PTL

(***************************************************************************)
(* Whichever connection is read first, whatever is lost while another      *)
(* client has the keyboard, and whatever applications do meanwhile, a      *)
(* Released signal ends a press (x11KeyPress, x11KeyRelease), if no        *)
(* shortcut is left out by an allow-list.                                  *)
(***************************************************************************)
THEOREM X11ReleasesFollowPresses ==
    ASSUME EverythingAllowed
    PROVE  X11Spec => ReleasesEndPresses
<1>1. X11Init => LastIsOwed
  BY DEF X11Init, LastIsOwed
<1>2. IInv /\ LastIsOwed /\ [Next]_vars => LastIsOwed'
  <2>1. ASSUME UNCHANGED vars, LastIsOwed PROVE LastIsOwed'
    BY <2>1 DEF vars, hold, LastIsOwed
  <2> QED
    BY <2>1, OwedReleaseStep
<1>3. IInv /\ LastIsOwed /\ [Next]_vars => [EndsPresses]_vars
  BY OwedReleaseStep
<1>4. X11Inv => IInv
  BY DEF X11Inv
<1>5. X11Spec => [][EndsPresses]_vars
  BY <1>1, <1>2, <1>3, <1>4, X11Inductive, X11TakesSteps, PTL DEF X11Spec
<1> QED
  BY <1>5, PTL DEF ReleasesEndPresses, EndsPresses
=============================================================================
