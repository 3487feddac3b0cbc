------------------------------ MODULE Registry ------------------------------
(***************************************************************************)
(* The daemon's registry of global shortcuts: components, their contexts   *)
(* and shortcuts, the table of keys each active shortcut has grabbed, and  *)
(* the shortcut currently held down.  One action per D-Bus request         *)
(* (KGlobalAccelD), per method of the per-component D-Bus object           *)
(* (Component), per timer and per call of the platform plug-in.            *)
(*                                                                         *)
(* The daemon is single threaded: a request runs to completion, so each    *)
(* action is one whole handler.  Module KeyEvents refines the key presses  *)
(* of this module into chords, modifiers and the four-chord buffer.        *)
(***************************************************************************)
EXTENDS KeySequences, FiniteSets

CONSTANTS
    Components,       \* unique names of components
    Contexts,         \* names of shortcut contexts
    Default,          \* the context every component has
    Names,            \* unique names of shortcuts within a component
    Plain,            \* an action id that names no context
    Ids,              \* the action ids clients use
    Keys,             \* the key sequences in play
    KeyLists,         \* the key lists clients send
    Refusable,        \* chords another X client may hold, or X cannot grab
    Allowed,          \* pairs <<component, name>> the allow-list permits
    BlockShortcut,    \* <<"kwin", "Block Global Shortcuts">>
    EveryChordHeard,  \* TRUE: kwin reports every key; FALSE: X, grabbed ones
    None              \* nullptr

ASSUME ContextsAssumption == Default \in Contexts /\ Plain \notin Contexts

ASSUME IdsAssumption ==
    Ids \subseteq [component : Components,
                   context   : Contexts \cup {Plain},
                   name      : Names]

ASSUME KeysAssumption ==
    /\ IsFiniteSet(Keys)
    /\ \A k \in Keys : DOMAIN k = 1 .. Len(k) /\ Len(k) \in 1 .. MaxSequenceLength
    /\ KeyLists \subseteq Seq(Keys \cup {<<>>})

VARIABLES
    components,  \* m_components, in order of creation
    contexts,    \* the contexts of each component, {} if there is none
    current,     \* the context each component is in
    live,        \* the slots that hold a GlobalShortcut
    keys,        \* _keys of the shortcut in a slot
    present,     \* the shortcuts whose application runs
    registered,  \* the shortcuts that are active: _isRegistered
    fresh,       \* the shortcuts never given keys
    activeKeys,  \* _active_keys: the object that has grabbed a key
    keysCount,   \* _keys_count: how often each chord is grabbed
    grabbed,     \* the chords the platform has grabbed for the daemon
    refused,     \* the chords the platform refuses to grab
    last,        \* m_lastShortcut
    owed,        \* ghost: pressed for its client and not released yet
    out,         \* the signals emitted by the last step
    writeout     \* the write-out timer runs

place == <<components, contexts, current>>
book  == <<live, keys, present, registered, fresh>>
grabs == <<activeKeys, keysCount, grabbed>>
hold  == <<last, owed, out>>
vars  == <<place, book, grabs, hold, refused, writeout>>

-----------------------------------------------------------------------------
(***************************************************************************)
(* Slots and objects.  A slot is where a GlobalShortcut lives; an object   *)
(* is what a GlobalShortcut pointer refers to: the live object of a slot,  *)
(* one that another object has replaced there without deleting it, or one  *)
(* that is (or whose component is) deleted.                                *)
(***************************************************************************)
Slots == [component : Components, context : Contexts, name : Names]

Objects == [slot : Slots, state : {"live", "leaked", "dangling"}]

ASSUME NoneAssumption == None \notin Objects

Live(s)     == [slot |-> s, state |-> "live"]
Leaked(s)   == [slot |-> s, state |-> "leaked"]
Dangling(s) == [slot |-> s, state |-> "dangling"]

Chords == UNION {{k[i] : i \in 1 .. Len(k)} : k \in Keys}

Signals == [kind : {"Pressed", "Repeated", "Released", "Changed"}, slot : Slots]

Signal(kind, s) == [kind |-> kind, slot |-> s]

KeySet(list) == {list[i] : i \in DOMAIN list} \ {<<>>}

InCurrent(s) == s.context = current[s.component]

CurrentSlots == {s \in live : InCurrent(s)}

SlotsOf(c) == {s \in live : s.component = c}

Siblings(s) == {t \in live : t.component = s.component /\ t.name = s.name}

Position(c) == CHOOSE i \in DOMAIN components : components[i] = c

\* The slot KGlobalAccelDPrivate::findAction looks into.
Target(id) ==
    [component |-> id.component,
     context   |-> IF id.context = Plain THEN current[id.component]
                                         ELSE id.context,
     name      |-> id.name]

\* The slot KGlobalAccelDPrivate::addAction fills.
Home(id) ==
    [component |-> id.component,
     context   |-> IF id.context = Plain THEN Default ELSE id.context,
     name      |-> id.name]

\* Pairs of keys, so that TLC compares sequences once.
Clashing == {p \in Keys \X Keys : Clashes(p[1], p[2])}
Matching == {p \in Keys \X Keys : Finds("Equal", p[1], p[2])}

-----------------------------------------------------------------------------
(***************************************************************************)
(* Grabbing.  Regrab runs setInactive for the shortcuts in off and then    *)
(* setActive for those in on, with the keys in newKeys.  Where two of the  *)
(* latter claim a key, the earlier component wins, and within a component  *)
(* the order is that of a hash table: any.  A key with a refused chord is  *)
(* not registered and what was grabbed for it is released again, so only   *)
(* the net effect of registerKey and unregisterKey shows.                  *)
(***************************************************************************)

\* Where chord occurs in the keys of R.
Uses(chord, R) ==
    {u \in R \X (1 .. MaxSequenceLength) :
        u[2] \in 1 .. Len(u[1]) /\ u[1][u[2]] = chord}

Freed(off) ==
    {k \in DOMAIN activeKeys :
        \E s \in off : activeKeys[k] = Live(s) /\ k \in KeySet(keys[s])}

Claimed(on, newKeys, kept) ==
    {k \in (UNION {KeySet(newKeys[s]) : s \in on}) \ kept :
        \A i \in 1 .. Len(k) : k[i] \notin refused}

\* Broken: unregisterKey leaves the key in _active_keys.
RegrabKeepsKeys(off, on, newKeys) ==
    LET freed   == Freed(off)
        kept    == DOMAIN activeKeys
        claimed == Claimed(on, newKeys, kept)
    IN  \E won \in [claimed -> on] :
        /\ \A k \in claimed : k \in KeySet(newKeys[won[k]])
        /\ activeKeys' = [k \in kept \cup claimed |->
                            IF k \in kept THEN activeKeys[k] ELSE Live(won[k])]
        /\ keysCount' = [c \in Chords |->
                            keysCount[c] - Cardinality(Uses(c, freed))
                                         + Cardinality(Uses(c, claimed))]
        /\ grabbed' = {c \in Chords : keysCount'[c] > 0}

\* Broken: a chord is counted down once for a key, however often it occurs.
RegrabOncePerKey(off, on, newKeys) ==
    LET freed   == Freed(off)
        kept    == DOMAIN activeKeys \ freed
        claimed == Claimed(on, newKeys, kept)
    IN  \E won \in [claimed -> on] :
        /\ \A k \in claimed : k \in KeySet(newKeys[won[k]])
        /\ activeKeys' = [k \in kept \cup claimed |->
                            IF k \in kept THEN activeKeys[k] ELSE Live(won[k])]
        /\ keysCount' = [c \in Chords |->
                            keysCount[c] - Cardinality({u[1] : u \in Uses(c, freed)})
                                         + Cardinality(Uses(c, claimed))]
        /\ grabbed' = {c \in Chords : keysCount'[c] > 0}

\* Broken: where a chord is refused, the chords before it stay grabbed.
RegrabNoRewind(off, on, newKeys) ==
    LET freed   == Freed(off)
        kept    == DOMAIN activeKeys \ freed
        claimed == Claimed(on, newKeys, kept)
        failed  == (UNION {KeySet(newKeys[s]) : s \in on}) \ (kept \cup claimed)
        begun(c) == {k \in failed : k[1] = c /\ c \notin refused}
    IN  \E won \in [claimed -> on] :
        /\ \A k \in claimed : k \in KeySet(newKeys[won[k]])
        /\ activeKeys' = [k \in kept \cup claimed |->
                            IF k \in kept THEN activeKeys[k] ELSE Live(won[k])]
        /\ keysCount' = [c \in Chords |->
                            keysCount[c] - Cardinality(Uses(c, freed))
                                         + Cardinality(Uses(c, claimed))
                                         + Cardinality(begun(c))]
        /\ grabbed' = {c \in Chords : keysCount'[c] > 0}

Regrab(off, on, newKeys) ==
    LET freed   == Freed(off)
        kept    == DOMAIN activeKeys \ freed
        claimed == Claimed(on, newKeys, kept)
    IN  \E won \in [claimed -> on] :
        /\ \A k \in claimed :
              /\ k \in KeySet(newKeys[won[k]])
              /\ \A s \in on : k \in KeySet(newKeys[s]) =>
                    Position(won[k].component) <= Position(s.component)
        /\ activeKeys' = [k \in kept \cup claimed |->
                            IF k \in kept THEN activeKeys[k] ELSE Live(won[k])]
        /\ keysCount' = [c \in Chords |->
                            keysCount[c] - Cardinality(Uses(c, freed))
                                         + Cardinality(Uses(c, claimed))]
        /\ grabbed' = {c \in Chords :
                         \/ /\ c \in grabbed
                            /\ keysCount[c] > Cardinality(Uses(c, freed))
                         \/ Uses(c, claimed) # {}}

-----------------------------------------------------------------------------
(***************************************************************************)
(* Holding.  Losing a key releases the shortcut that is held down; an      *)
(* object that goes away otherwise stays in m_lastShortcut.                *)
(***************************************************************************)
Tell(h, kind, s) ==
    [h EXCEPT !.out  = Append(@, Signal(kind, s)),
              !.owed = IF kind = "Released" THEN @ \ {s} ELSE @ \cup {s}]

Held == [last |-> last, owed |-> owed, out |-> <<>>]

Hold(h) == last' = h.last /\ owed' = h.owed /\ out' = h.out

\* Broken: nothing is released, or m_lastShortcut is not reset.
LetGoForgets(off, dead, gone, more) == Hold([Held EXCEPT !.out = more])

LetGoKeepsLast(off, dead, gone, more) ==
    LET h == IF \E k \in Freed(off) : activeKeys[k] = last
             THEN Tell(Held, "Released", last.slot)
             ELSE Held
    IN  Hold([h EXCEPT !.out = @ \o more])

LetGo(off, dead, gone, more) ==
    LET h == IF \E k \in Freed(off) : activeKeys[k] = last
             THEN [Tell(Held, "Released", last.slot) EXCEPT !.last = None]
             ELSE Held
        orphaned == h.last # None
            /\ (h.last \in {Live(s) : s \in dead} \/ h.last.slot.component \in gone)
    IN  Hold([h EXCEPT !.last = IF orphaned THEN Dangling(@.slot) ELSE @,
                       !.out  = @ \o more])

Quiet == Hold(Held)

\* What may become of a Released signal for the object in m_lastShortcut.
Partings(h) ==
    IF h.last = None THEN {h}
    ELSE {Tell(h, "Released", h.last.slot)}
            \cup IF h.last.state = "dangling" THEN {h} ELSE {}

-----------------------------------------------------------------------------
Init ==
    /\ components = <<>>
    /\ contexts = [c \in Components |-> {}]
    /\ current = [c \in Components |-> Default]
    /\ live = {}
    /\ keys = [s \in Slots |-> <<>>]
    /\ present = {}
    /\ registered = {}
    /\ fresh = {}
    /\ activeKeys = [k \in {} |-> None]
    /\ keysCount = [c \in Chords |-> 0]
    /\ grabbed = {}
    /\ refused \in SUBSET Refusable
    /\ last = None
    /\ owed = {}
    /\ out = <<>>
    /\ writeout = FALSE

(***************************************************************************)
(* Requests to KGlobalAccelD.                                              *)
(***************************************************************************)

\* doRegister of a known action: at most a friendly name changes.
Rename(id) ==
    /\ Target(id) \in live
    /\ writeout' \in {writeout, TRUE}
    /\ Quiet
    /\ UNCHANGED <<place, book, grabs, refused>>

\* doRegister of an unknown action.  The slot filled need not be the slot
\* searched; an object already in it is replaced, and never deleted.
AddAction(id) ==
    LET s == Home(id)
        c == s.component
    IN  /\ Target(id) \notin live
        /\ components' = IF contexts[c] = {} THEN Append(components, c)
                                            ELSE components
        /\ contexts' = [contexts EXCEPT ![c] = @ \cup {Default, s.context}]
        /\ live' = live \cup {s}
        /\ keys' = [keys EXCEPT ![s] = <<>>]
        /\ present' = present \ {s}
        /\ registered' = registered \ {s}
        /\ fresh' = fresh \cup {s}
        /\ activeKeys' = [k \in DOMAIN activeKeys |->
                             IF activeKeys[k] = Live(s) THEN Leaked(s)
                                                        ELSE activeKeys[k]]
        /\ Hold([Held EXCEPT !.last = IF @ = Live(s) THEN Leaked(s) ELSE @])
        /\ UNCHANGED <<current, keysCount, grabbed, refused, writeout>>

\* setShortcutKeys with IsDefault: default keys are kept for display only.
SetDefaultKeys(id) ==
    /\ Target(id) \in live
    /\ writeout' = TRUE
    /\ Quiet
    /\ UNCHANGED <<place, book, grabs, refused>>

\* setShortcutKeys of a configured action with autoloading.
Autoload(id) ==
    LET s == Target(id)
    IN  /\ s \in live \ fresh
        /\ s \notin present
        /\ Regrab({}, {s} \ registered, keys)
        /\ present' = present \cup {s}
        /\ registered' = registered \cup {s}
        /\ Quiet
        /\ UNCHANGED <<place, live, keys, fresh, refused, writeout>>

\* Broken: the keys of one shortcut are not compared with each other.
AcceptedNotOwn(s, list, accepted) ==
    \A i \in DOMAIN list :
        i \in accepted <=>
            /\ list[i] # <<>>
            /\ \A t \in CurrentSlots \ {s} : \A other \in KeySet(keys[t]) :
                  <<list[i], other>> \notin Clashing

\* The positions of list that GlobalShortcut::setKeys accepts for s.  Keys of
\* current contexts are looked up, those just accepted for s included.
Accepted(s, list, accepted) ==
    \A i \in DOMAIN list :
        i \in accepted <=>
            /\ list[i] # <<>>
            /\ \A t \in CurrentSlots \ {s} : \A other \in KeySet(keys[t]) :
                  <<list[i], other>> \notin Clashing
            /\ InCurrent(s) =>
                  \A j \in accepted : j < i => <<list[i], list[j]>> \notin Clashing

\* Broken: the old keys are not given up first.
SetKeysKeepsOld(s, list, setPresent, more) ==
    \E accepted \in SUBSET (DOMAIN list) :
        LET newKeys == [keys EXCEPT ![s] =
                          [i \in DOMAIN list |->
                              IF i \in accepted THEN list[i] ELSE <<>>]]
            on == IF setPresent THEN {s} ELSE {s} \cap registered \cap present
        IN  /\ Accepted(s, list, accepted)
            /\ Regrab({}, on, newKeys)
            /\ LetGo({}, {}, {}, more)
            /\ keys' = newKeys
            /\ present' = IF setPresent THEN present \cup {s} ELSE present
            /\ registered' = registered \cup on
            /\ fresh' = fresh \ {s}
            /\ writeout' = TRUE
            /\ UNCHANGED <<place, live, refused>>

\* setShortcutKeys that changes the keys of s.
SetKeys(s, list, setPresent, more) ==
    \E accepted \in SUBSET (DOMAIN list) :
        LET newKeys == [keys EXCEPT ![s] =
                          [i \in DOMAIN list |->
                              IF i \in accepted THEN list[i] ELSE <<>>]]
            off == {s} \cap registered
            on  == IF setPresent THEN {s} ELSE {s} \cap registered \cap present
        IN  /\ Accepted(s, list, accepted)
            /\ Regrab(off, on, newKeys)
            /\ LetGo(off, {}, {}, more)
            /\ keys' = newKeys
            /\ present' = IF setPresent THEN present \cup {s} ELSE present
            /\ registered' = (registered \ off) \cup on
            /\ fresh' = fresh \ {s}
            /\ writeout' = TRUE
            /\ UNCHANGED <<place, live, refused>>

SetShortcutKeys(id, list, setPresent, autoloading) ==
    LET s == Target(id)
    IN  /\ s \in live
        /\ autoloading => s \in fresh
        /\ SetKeys(s, list, setPresent, <<>>)

SetForeignShortcutKeys(id, list) ==
    LET s == Target(id)
    IN  /\ s \in live
        /\ SetKeys(s, list, FALSE, <<Signal("Changed", s)>>)

\* Broken: the application is gone but its shortcut stays active.
SetInactiveStaysActive(id) ==
    /\ Target(id) \in live
    /\ Quiet
    /\ present' = present \ {Target(id)}
    /\ UNCHANGED <<place, live, keys, registered, fresh, grabs, refused, writeout>>

SetInactive(id) ==
    LET s   == Target(id)
        off == {s} \cap registered
    IN  /\ s \in live
        /\ Regrab(off, {}, keys)
        /\ LetGo(off, {}, {}, <<>>)
        /\ present' = present \ {s}
        /\ registered' = registered \ {s}
        /\ UNCHANGED <<place, live, keys, fresh, refused, writeout>>

(***************************************************************************)
(* Removal.  Deleting a shortcut deactivates it; deleting a component      *)
(* deletes what it has in every context.                                   *)
(***************************************************************************)
Created == {components[i] : i \in DOMAIN components}

\* The components of which nothing is left in the default context.
Spent(remaining) ==
    {c \in Created :
        ~ \E s \in remaining : s.component = c /\ s.context = Default}

Erase(gone) ==
    /\ components' \in UNION {[1 .. n -> Components] : n \in 0 .. Len(components)}
    /\ {components'[i] : i \in DOMAIN components'} = Created \ gone
    /\ \A i, j \in DOMAIN components' :
          i < j => Position(components'[i]) < Position(components'[j])
    /\ contexts' = [c \in Components |-> IF c \in gone THEN {} ELSE contexts[c]]
    /\ current' = [c \in Components |-> IF c \in gone THEN Default ELSE current[c]]

\* Broken: the destructor of a shortcut does not deactivate it.
DeleteKeepsKeys(doomed, gone) ==
    LET dead == doomed \cup {s \in live : s.component \in gone}
    IN  /\ LetGo({}, dead, gone, <<>>)
        /\ live' = live \ dead
        /\ keys' = [s \in Slots |-> IF s \in dead THEN <<>> ELSE keys[s]]
        /\ present' = present \ dead
        /\ registered' = registered \ dead
        /\ fresh' = fresh \ dead
        /\ UNCHANGED <<grabs, refused>>

\* The shortcuts in idle are deactivated, as their application is not present.
Retire(idle, doomed, gone) ==
    LET dead == doomed \cup {s \in live : s.component \in gone}
        lost == idle \cup dead
        off  == lost \cap registered
    IN  /\ Regrab(off, {}, keys)
        /\ LetGo(off, dead, gone, <<>>)
        /\ live' = live \ dead
        /\ keys' = [s \in Slots |-> IF s \in dead THEN <<>> ELSE keys[s]]
        /\ present' = present \ lost
        /\ registered' = registered \ lost
        /\ fresh' = fresh \ dead
        /\ UNCHANGED refused

Delete(doomed, gone) == Retire({}, doomed, gone)

Unregister(id) ==
    /\ Target(id) \in live
    /\ Delete(Siblings(Target(id)), {})
    /\ writeout' = TRUE
    /\ UNCHANGED place

\* GlobalShortcutsRegistry::writeSettings, run by the write-out timer.
WriteSettings ==
    /\ writeout
    /\ Delete({}, Spent(live))
    /\ Erase(Spent(live))
    /\ writeout' = FALSE

\* Component::cleanUp, which writes the settings at once.
CleanUp(c) ==
    LET doomed == UNION {Siblings(s) : s \in
                            {t \in CurrentSlots \ present : t.component = c}}
        gone   == Spent(live \ doomed)
    IN  /\ doomed # {}
        /\ Delete(doomed, gone)
        /\ Erase(gone)
        /\ UNCHANGED writeout

(***************************************************************************)
(* Activation.                                                             *)
(***************************************************************************)

\* The shortcuts of the context left are deactivated, those of the context
\* entered are not activated.
ActivateContext(c, context) ==
    LET off == SlotsOf(c) \cap CurrentSlots \cap registered
    IN  /\ context \in contexts[c]
        /\ Regrab(off, {}, keys)
        /\ LetGo(off, {}, {}, <<>>)
        /\ current' = [current EXCEPT ![c] = context]
        /\ registered' = registered \ off
        /\ UNCHANGED <<components, contexts, live, keys, present, fresh,
                       refused, writeout>>

\* Asking for a context that does not exist only creates it.
CreateContext(c, context) ==
    /\ contexts[c] # {}
    /\ contexts' = [contexts EXCEPT ![c] = @ \cup {context}]
    /\ context \notin contexts[c]
    /\ Quiet
    /\ UNCHANGED <<components, current, book, grabs, refused, writeout>>

BlockGlobalShortcuts ==
    LET off == {s \in CurrentSlots \cap registered :
                  <<s.component, s.name>> # BlockShortcut}
    IN  /\ Regrab(off, {}, keys)
        /\ LetGo(off, {}, {}, <<>>)
        /\ registered' = registered \ off
        /\ UNCHANGED <<place, live, keys, present, fresh, refused, writeout>>

UnblockGlobalShortcuts ==
    LET on == (CurrentSlots \cap present) \ registered
    IN  /\ Regrab({}, on, keys)
        /\ Quiet
        /\ registered' = registered \cup on
        /\ UNCHANGED <<place, live, keys, present, fresh, refused, writeout>>

\* The X keyboard mapping changed: ungrabKeys, then grabKeys.
RemapKeys ==
    LET off == CurrentSlots \cap registered
        on  == CurrentSlots \cap present
    IN  /\ ~EveryChordHeard
        /\ Regrab(off, on, keys)
        /\ LetGo(off, {}, {}, <<>>)
        /\ registered' = (registered \ off) \cup on
        /\ UNCHANGED <<place, live, keys, present, fresh, refused, writeout>>

(***************************************************************************)
(* Keys.                                                                   *)
(***************************************************************************)

\* What getShortcutByKey may return for a key: a match in the first component
\* that has one in its current context.
Lookup(key) ==
    LET matches == {s \in CurrentSlots :
                      \E other \in KeySet(keys[s]) : <<key, other>> \in Matching}
    IN  {s \in matches : \A t \in matches :
            Position(s.component) <= Position(t.component)}

\* Broken: the shortcut held before is not released.
FiredOverHeld(h, s, kind) ==
    IF <<s.component, s.name>> \in Allowed
    THEN {[Tell(h, kind, s) EXCEPT !.last = Live(s)]}
    ELSE {h}

\* processKey, once the shortcut is found and active: the holds it may leave.
\* A shortcut not allowed ends the previous hold but does not forget it.
Fired(h, s, kind) ==
    LET parted == IF h.last \in {None, Live(s)} THEN {h} ELSE Partings(h)
    IN  IF <<s.component, s.name>> \in Allowed
        THEN {[Tell(p, kind, s) EXCEPT !.last = Live(s)] : p \in parted}
        ELSE parted

\* Broken: m_lastShortcut is not reset.
PartedKeepsLast(h) == Partings(h)

\* keyEvent for a release: the holds it may leave.
Parted(h) == {[p EXCEPT !.last = None] : p \in Partings(h)}

\* X reports modifiers, and the chords grabbed.
Heard(key) ==
    \/ EveryChordHeard
    \/ \A i \in 1 .. Len(key) : key[i] \in grabbed \/ ModifierOnly(key[i])

\* The user completes a key, or goes on holding it, which X does not tell.
KeyPressed(key, kind) ==
    /\ Heard(key)
    /\ ~ModifierOnly(key[Len(key)])
    /\ kind = "Repeated" => EveryChordHeard
    /\ \E s \in Lookup(key) \cap registered :
          \E h \in Fired(Held, s, kind) : Hold(h)
    /\ UNCHANGED <<place, book, grabs, refused, writeout>>

\* A key that ends with modifiers alone triggers when one of them is released:
\* the release follows the press at once.
KeyTapped(key) ==
    /\ Heard(key)
    /\ ModifierOnly(key[Len(key)])
    /\ \E s \in Lookup(key) \cap registered :
          \E fired \in Fired(Held, s, "Pressed") : \E h \in Parted(fired) : Hold(h)
    /\ UNCHANGED <<place, book, grabs, refused, writeout>>

KeyReleased ==
    /\ last # None
    /\ \E h \in Parted(Held) : Hold(h)
    /\ UNCHANGED <<place, book, grabs, refused, writeout>>

\* A key event that triggers nothing and has nothing to release.
KeyIgnored ==
    /\ Quiet
    /\ UNCHANGED <<place, book, grabs, refused, writeout>>

\* Component::invokeShortcut: a press that no key holds.
InvokeShortcut(s) ==
    /\ Hold([Held EXCEPT !.out = <<Signal("Pressed", s)>>])
    /\ UNCHANGED <<place, book, grabs, refused, writeout>>

(***************************************************************************)
(* The platform: another X client grabs a chord, or lets it go.            *)
(***************************************************************************)
OtherClientGrabs(chord) ==
    /\ chord \notin grabbed
    /\ refused' = refused \cup {chord}
    /\ Quiet
    /\ UNCHANGED <<place, book, grabs, writeout>>

OtherClientUngrabs(chord) ==
    /\ refused' = refused \ {chord}
    /\ Quiet
    /\ UNCHANGED <<place, book, grabs, writeout>>
-----------------------------------------------------------------------------
Request(id) ==
    \/ Rename(id)
    \/ AddAction(id)
    \/ SetDefaultKeys(id)
    \/ Autoload(id)
    \/ \E list \in KeyLists :
          \/ \E setPresent, autoloading \in BOOLEAN :
                SetShortcutKeys(id, list, setPresent, autoloading)
          \/ SetForeignShortcutKeys(id, list)
    \/ SetInactive(id)
    \/ Unregister(id)

Housekeeping ==
    \/ WriteSettings
    \/ \E c \in Components :
          \/ CleanUp(c)
          \/ \E context \in Contexts :
                ActivateContext(c, context) \/ CreateContext(c, context)
    \/ BlockGlobalShortcuts
    \/ UnblockGlobalShortcuts
    \/ RemapKeys

Platform ==
    \E chord \in Refusable : OtherClientGrabs(chord) \/ OtherClientUngrabs(chord)

\* Everything but the keyboard.
Work ==
    \/ \E id \in Ids : Request(id)
    \/ Housekeeping
    \/ \E s \in live : InvokeShortcut(s)
    \/ Platform

Keyboard ==
    \/ \E key \in Keys :
          \/ \E kind \in {"Pressed", "Repeated"} : KeyPressed(key, kind)
          \/ KeyTapped(key)
    \/ KeyReleased
    \/ KeyIgnored

Next == Keyboard \/ Work

Spec == Init /\ [][Next]_vars
-----------------------------------------------------------------------------
(***************************************************************************)
(* Type correctness of the registry's state.                               *)
(***************************************************************************)
TypeOK ==
    /\ components \in Seq(Components)
    /\ contexts \in [Components -> SUBSET Contexts]
    /\ current \in [Components -> Contexts]
    /\ live \in SUBSET Slots
    /\ keys \in [Slots -> Seq(Keys \cup {<<>>})]
    /\ present \in SUBSET Slots
    /\ registered \in SUBSET Slots
    /\ fresh \in SUBSET Slots
    /\ DOMAIN activeKeys \in SUBSET Keys
    /\ activeKeys \in [DOMAIN activeKeys -> Objects]
    /\ keysCount \in [Chords -> Nat]
    /\ grabbed \in SUBSET Chords
    /\ refused \in SUBSET Refusable
    /\ last \in Objects \cup {None}
    /\ owed \in SUBSET Slots
    /\ out \in Seq(Signals)
    /\ writeout \in BOOLEAN

(***************************************************************************)
(* The reference counts of registerKey and unregisterKey are right: a      *)
(* chord is counted once for each place where it stands in an active key,  *)
(* and the platform has grabbed exactly the chords that are counted.  So   *)
(* no chord is swallowed that no shortcut wants, and none is lost because  *)
(* another shortcut that used it went away.                                *)
(***************************************************************************)
GrabAccounting ==
    \A c \in Chords :
        /\ keysCount[c] = Cardinality(Uses(c, DOMAIN activeKeys))
        /\ c \in grabbed <=> keysCount[c] > 0

(***************************************************************************)
(* Every key in _active_keys belongs to a shortcut that exists, is active, *)
(* whose application is present and that still has the key, or to one that *)
(* AddAction replaced.  A deleted shortcut is never in the table, so       *)
(* unregisterKey never compares with a pointer to one.                     *)
(***************************************************************************)
OwnersSound ==
    /\ registered \subseteq present
    /\ present \subseteq live
    /\ \A k \in DOMAIN activeKeys :
          \/ activeKeys[k].state = "leaked"
          \/ /\ activeKeys[k].state = "live"
             /\ activeKeys[k].slot \in registered
             /\ k \in KeySet(keys[activeKeys[k].slot])

(***************************************************************************)
(* No two keys of shortcuts in current contexts clash, not even two of the *)
(* same shortcut: whatever the user types triggers at most one of them     *)
(* (the filter in GlobalShortcut::setKeys, over every way of getting keys).*)
(***************************************************************************)
NoClash ==
    \A s, t \in CurrentSlots :
        \A i \in DOMAIN keys[s], j \in DOMAIN keys[t] :
            <<keys[s][i], keys[t][j]>> \in Clashing => s = t /\ i = j

(***************************************************************************)
(* The active shortcuts hold all their keys, and nobody else holds any:    *)
(* setActive never loses a race for a key, and a shortcut that is not      *)
(* active blocks no key.                                                   *)
(***************************************************************************)
ActiveShortcutsOwnTheirKeys ==
    {<<k, activeKeys[k]>> : k \in DOMAIN activeKeys}
        = UNION {{<<k, Live(s)>> : k \in KeySet(keys[s])} : s \in registered}

(***************************************************************************)
(* m_lastShortcut is never a stale pointer, whatever is unregistered,      *)
(* blocked, remapped or given other keys while a shortcut is held down: it *)
(* is a live, active shortcut that owns a key.                             *)
(***************************************************************************)
HeldIsActive ==
    last # None =>
        /\ last \in {Live(s) : s \in registered}
        /\ \E k \in DOMAIN activeKeys : activeKeys[k] = last

(***************************************************************************)
(* Clients see presses and releases paired: the shortcut that was pressed  *)
(* by a key and not released since is the one in m_lastShortcut, so at     *)
(* most one is, and its release is still to come.                          *)
(***************************************************************************)
HeldIsOwed == owed = IF last = None THEN {} ELSE {last.slot}

(***************************************************************************)
(* A Released signal always ends a press: none is sent twice, or for a     *)
(* shortcut that no key has pressed.                                       *)
(***************************************************************************)
ReleasesEndPresses ==
    [][\A i \in DOMAIN out' :
         out'[i].kind = "Released" =>
            LET before == {j \in 1 .. i - 1 : out'[j].slot = out'[i].slot}
            IN  IF before = {} THEN out'[i].slot \in owed
                ELSE \E j \in before : /\ out'[j].kind # "Released"
                                       /\ \A k \in before : k <= j]_vars
=============================================================================
