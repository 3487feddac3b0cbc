----------------------------- MODULE HoldProofs -----------------------------
(***************************************************************************)
(* Proofs about keys and holding in module Registry, for any components,   *)
(* contexts, shortcuts and keys: which keys clash, who owns the keys, who  *)
(* is held down, and how presses and releases are paired.  Some hold only  *)
(* of the way the daemon is commonly used, which the theorems then name.   *)
(***************************************************************************)
EXTENDS RegistryProofs, SequenceTheorems

(***************************************************************************)
(* No context is entered that holds shortcuts already.                     *)
(***************************************************************************)
NoneEnters == CurrentSlots' \cap live \subseteq CurrentSlots

(***************************************************************************)
(* Every shortcut is in the current context of its component, and X        *)
(* refuses no chord.                                                       *)
(***************************************************************************)
Ordinary == live \subseteq CurrentSlots /\ refused = {}

(***************************************************************************)
(* There is no allow-list, or it leaves nothing out.                       *)
(***************************************************************************)
EverythingAllowed == \A s \in Slots : <<s.component, s.name>> \in Allowed

-----------------------------------------------------------------------------
(***************************************************************************)
(* Clashing keys.                                                          *)
(***************************************************************************)

\* No key in play is empty.
LEMMA EmptyIsNoKey == <<>> \notin Keys
<1>1. Len(<<>>) = 0 /\ 0 \notin 1 .. MaxSequenceLength
  BY DEF MaxSequenceLength
<1>2. \A k \in Keys : Len(k) \in 1 .. MaxSequenceLength
  BY KeysAssumption, Zenon
<1> QED
  BY <1>1, <1>2, Zenon

\* Of two keys that clash, it does not matter which is looked for.
LEMMA ClashingSymmetric ==
    ASSUME NEW k \in Keys, NEW o \in Keys, <<k, o>> \in Clashing
    PROVE  <<o, k>> \in Clashing
<1>1. Clashes(k, o)
  BY DEF Clashing
<1>2. k # <<>> /\ o # <<>>
  BY EmptyIsNoKey
<1>3. Clashes(o, k)
  BY <1>1, <1>2 DEF Clashes, Finds
<1> QED
  BY <1>3 DEF Clashing

\* A key clashes with itself.
LEMMA ClashingReflexive ==
    ASSUME NEW k \in Keys
    PROVE  <<k, k>> \in Clashing
<1>1. Clashes(k, k)
  BY EmptyIsNoKey DEF Clashes, Finds
<1> QED
  BY <1>1 DEF Clashing

\* Shortcuts whose keys stay, or go, do not come to clash.
LEMMA ClashStays ==
    ASSUME NoClash, NoneEnters,
           \A s \in live' : \/ s \in live /\ keys'[s] = keys[s]
                            \/ DOMAIN keys'[s] = {}
    PROVE  NoClash'
<1>1. ASSUME NEW s \in CurrentSlots', DOMAIN keys'[s] # {}
      PROVE  s \in CurrentSlots /\ keys'[s] = keys[s]
  <2>1. s \in live'
    BY DEF CurrentSlots
  <2> QED
    BY <1>1, <2>1 DEF NoneEnters
<1>2. ASSUME NEW s \in CurrentSlots', NEW t \in CurrentSlots',
             NEW i \in DOMAIN keys'[s], NEW j \in DOMAIN keys'[t],
             <<keys'[s][i], keys'[t][j]>> \in Clashing
      PROVE  s = t /\ i = j
  <2>1. /\ s \in CurrentSlots /\ keys'[s] = keys[s]
        /\ t \in CurrentSlots /\ keys'[t] = keys[t]
    BY <1>1
  <2> QED
    BY <1>2, <2>1 DEF NoClash
<1>3. Clashing' = Clashing
  BY DEF Clashing
<1> QED
  BY <1>2, <1>3 DEF NoClash

\* What setKeys accepts clashes with nothing.
LEMMA ClashSetKeys ==
    ASSUME IInv, NoClash, NEW s \in live, NEW list \in KeyListType,
           NEW setPresent \in BOOLEAN, NEW more,
           SetKeys(s, list, setPresent, more)
    PROVE  NoClash'
<1> DEFINE new(accepted) == [i \in DOMAIN list |->
                                IF i \in accepted THEN list[i] ELSE <<>>]
<1>1. PICK accepted \in SUBSET (DOMAIN list) :
        /\ Accepted(s, list, accepted)
        /\ keys' = [keys EXCEPT ![s] = new(accepted)]
        /\ UNCHANGED <<place, live>>
  BY DEF SetKeys
<1>2. CurrentSlots' = CurrentSlots
  BY <1>1 DEF CurrentSlots, InCurrent, place
<1>3. s \in Slots /\ keys \in [Slots -> KeyListType] /\ live \in SUBSET Slots
  BY DEF IInv, TypeOK, KeyListType
<1>4. keys'[s] = new(accepted) /\ \A t \in live \ {s} : keys'[t] = keys[t]
  BY <1>1, <1>3
<1>5. DOMAIN list \subseteq Int
  BY DEF KeyListType
<1>6. ASSUME NEW i \in DOMAIN keys'[s], keys'[s][i] \in Keys
      PROVE  i \in DOMAIN list /\ i \in accepted /\ keys'[s][i] = list[i]
  BY <1>4, <1>6, EmptyIsNoKey
<1>7. ASSUME NEW i \in DOMAIN keys'[s], NEW t \in CurrentSlots \ {s},
             NEW j \in DOMAIN keys[t],
             keys'[s][i] \in Keys, keys[t][j] \in Keys
      PROVE  <<keys'[s][i], keys[t][j]>> \notin Clashing
  <2>1. i \in accepted /\ i \in DOMAIN list /\ keys'[s][i] = list[i]
    BY <1>6, <1>7
  <2>2. keys[t][j] \in KeySet(keys[t])
    BY <1>7, EmptyIsNoKey DEF KeySet
  <2> QED
    BY <1>1, <2>1, <2>2 DEF Accepted
<1>8. ASSUME NEW i \in DOMAIN keys'[s], NEW j \in DOMAIN keys'[s], s \in CurrentSlots,
             keys'[s][i] \in Keys, keys'[s][j] \in Keys, j < i
      PROVE  <<keys'[s][i], keys'[s][j]>> \notin Clashing
  <2>1. /\ i \in accepted /\ i \in DOMAIN list /\ keys'[s][i] = list[i]
        /\ j \in accepted /\ j \in DOMAIN list /\ keys'[s][j] = list[j]
    BY <1>6, <1>8
  <2>2. InCurrent(s)
    BY <1>8 DEF CurrentSlots
  <2> QED
    BY <1>1, <1>8, <2>1, <2>2 DEF Accepted
<1>9. ASSUME NEW t \in CurrentSlots, NEW u \in CurrentSlots,
             NEW i \in DOMAIN keys'[t], NEW j \in DOMAIN keys'[u],
             <<keys'[t][i], keys'[u][j]>> \in Clashing
      PROVE  t = u /\ i = j
  <2>1. keys'[t][i] \in Keys /\ keys'[u][j] \in Keys
    BY <1>9 DEF Clashing
  <2>2. <<keys'[u][j], keys'[t][i]>> \in Clashing
    BY <1>9, <2>1, ClashingSymmetric
  <2>3. t \in live /\ u \in live
    BY DEF CurrentSlots
  <2>4. CASE t # s /\ u # s
    <3>1. keys'[t] = keys[t] /\ keys'[u] = keys[u]
      BY <1>4, <2>3, <2>4
    <3> QED
      BY <1>9, <3>1 DEF NoClash
  <2>5. CASE t = s /\ u # s
    <3>1. keys'[u] = keys[u]
      BY <1>4, <2>3, <2>5
    <3> QED
      BY <1>7, <1>9, <2>1, <2>5, <3>1
  <2>6. CASE t # s /\ u = s
    <3>1. keys'[t] = keys[t]
      BY <1>4, <2>3, <2>6
    <3> QED
      BY <1>7, <2>1, <2>2, <2>6, <3>1
  <2>7. CASE t = s /\ u = s
    <3>1. i \in Int /\ j \in Int
      BY <1>4, <1>5, <2>7
    <3>2. ~(i < j) /\ ~(j < i)
      BY <1>8, <1>9, <2>1, <2>2, <2>7
    <3> QED
      BY <2>7, <3>1, <3>2
  <2> QED
    BY <2>4, <2>5, <2>6, <2>7
<1>10. Clashing' = Clashing
  BY DEF Clashing
<1> QED
  BY <1>2, <1>9, <1>10 DEF NoClash

-----------------------------------------------------------------------------
(***************************************************************************)
(* Three kinds of steps besides those of the keyboard: steps that leave    *)
(* keys and grabs alone, AddAction, and steps that deactivate the          *)
(* shortcuts in off, with what they hold, and activate those in on.        *)
(***************************************************************************)
Idle ==
    /\ UNCHANGED <<keys, registered, grabs, last, owed>>
    /\ out' \in {<<>>} \cup {<<Signal("Pressed", s)>> : s \in Slots}

Notices == {<<>>} \cup {<<Signal("Changed", s)>> : s \in Slots}

Regrabs(off, on, newKeys) ==
    /\ Regrab(off, on, newKeys)
    /\ registered' = (registered \ off) \cup on
    /\ on \cap (registered \ off) = {}
    /\ \A s \in registered \ off : keys'[s] = keys[s]
    /\ \A s \in on : keys'[s] = newKeys[s]
    /\ \/ off = {} /\ Quiet
       \/ \E dead \in SUBSET Slots, gone \in SUBSET Components, more \in Notices :
             /\ LetGo(off, dead, gone, more)
             /\ \A s \in registered : s \in dead \/ s.component \in gone => s \in off

Regrabbing ==
    \E off \in SUBSET registered, on \in SUBSET Slots, newKeys \in [Slots -> KeyListType] :
        Regrabs(off, on, newKeys)

\* Removal is such a step.
LEMMA DeleteRegrabs ==
    ASSUME IInv, NEW doomed \in SUBSET live, NEW gone \in SUBSET Components,
           Delete(doomed, gone)
    PROVE  Regrabbing
<1> DEFINE dead == doomed \cup {s \in live : s.component \in gone}
           lost == {} \cup dead
           off  == lost \cap registered
<1>1. /\ Regrab(off, {}, keys)
      /\ LetGo(off, dead, gone, <<>>)
      /\ keys' = [s \in Slots |-> IF s \in dead THEN <<>> ELSE keys[s]]
      /\ registered' = registered \ lost
  BY DEF Delete, Retire
<1>2. /\ dead \in SUBSET Slots /\ off \in SUBSET registered /\ registered \subseteq Slots
      /\ registered \subseteq live
      /\ keys \in [Slots -> KeyListType]
  BY DEF IInv, TypeOK, KeyListType, OwnersSound
<1>3. \A s \in registered : s \in dead \/ s.component \in gone => s \in off
  BY <1>2
<1>4. \A s \in registered \ off : keys'[s] = keys[s]
  BY <1>1, <1>2
<1>5. registered' = (registered \ off) \cup {}
  BY <1>1, <1>2
<1>6. <<>> \in Notices /\ {} \in SUBSET Slots
  BY DEF Notices
<1> HIDE DEF dead, lost, off
<1>7. Regrabs(off, {}, keys)
  BY <1>1, <1>2, <1>3, <1>4, <1>5, <1>6 DEF Regrabs
<1> QED
  BY <1>2, <1>6, <1>7 DEF Regrabbing

\* Shortcuts that are merely deactivated.
LEMMA DeactivationRegrabs ==
    ASSUME IInv, NEW off \in SUBSET registered,
           Regrab(off, {}, keys), LetGo(off, {}, {}, <<>>),
           registered' = registered \ off, keys' = keys
    PROVE  Regrabbing
<1>1. keys \in [Slots -> KeyListType] /\ {} \in SUBSET Slots /\ {} \in SUBSET Components
  BY DEF IInv, TypeOK, KeyListType
<1>2. <<>> \in Notices
  BY DEF Notices
<1>3. Regrabs(off, {}, keys)
  BY <1>1, <1>2 DEF Regrabs
<1> QED
  BY <1>1, <1>3 DEF Regrabbing

\* Changing keys.
LEMMA SetKeysRegrabs ==
    ASSUME IInv, NEW s \in live, NEW list \in KeyListType,
           NEW setPresent \in BOOLEAN, NEW more \in Notices,
           SetKeys(s, list, setPresent, more)
    PROVE  Regrabbing
<1> DEFINE off == {s} \cap registered
           on  == IF setPresent THEN {s} ELSE {s} \cap registered \cap present
           new(accepted) ==
             [keys EXCEPT ![s] = [i \in DOMAIN list |->
                                     IF i \in accepted THEN list[i] ELSE <<>>]]
<1>1. PICK accepted \in SUBSET (DOMAIN list) :
        /\ Regrab(off, on, new(accepted))
        /\ LetGo(off, {}, {}, more)
        /\ keys' = new(accepted)
        /\ registered' = (registered \ off) \cup on
  BY DEF SetKeys
<1>2. s \in Slots /\ keys \in [Slots -> KeyListType] /\ registered \in SUBSET Slots
  BY DEF IInv, TypeOK, KeyListType
<1>3. new(accepted) \in [Slots -> KeyListType]
  BY <1>2, FilterType
<1>4. \A t \in registered \ off : keys'[t] = keys[t]
  BY <1>1, <1>2
<1>5. off \in SUBSET registered /\ on \in SUBSET Slots /\ on \cap (registered \ off) = {}
  BY <1>2
<1>6. {} \in SUBSET Slots /\ {} \in SUBSET Components
  OBVIOUS
<1> HIDE DEF off, on, new
<1>7. Regrabs(off, on, new(accepted))
  BY <1>1, <1>4, <1>5, <1>6 DEF Regrabs
<1> QED
  BY <1>3, <1>5, <1>7 DEF Regrabbing

\* Activating, after nothing or after deactivating others.
LEMMA ActivationRegrabs ==
    ASSUME IInv, NEW off \in SUBSET registered, NEW on \in SUBSET Slots,
           Regrab(off, on, keys),
           (off = {} /\ Quiet) \/ LetGo(off, {}, {}, <<>>),
           registered' = (registered \ off) \cup on,
           on \cap (registered \ off) = {},
           keys' = keys
    PROVE  Regrabbing
<1>1. keys \in [Slots -> KeyListType] /\ {} \in SUBSET Slots /\ {} \in SUBSET Components
  BY DEF IInv, TypeOK, KeyListType
<1>2. <<>> \in Notices
  BY DEF Notices
<1>3. Regrabs(off, on, keys)
  BY <1>1, <1>2 DEF Regrabs
<1> QED
  BY <1>1, <1>3 DEF Regrabbing

\* What a client asks for.
LEMMA RequestKinds ==
    ASSUME IInv, NEW id \in Ids, Request(id)
    PROVE  Idle \/ AddAction(id) \/ Regrabbing
<1> DEFINE s == Target(id)
<1>1. s \in Slots /\ registered \in SUBSET Slots
  BY SlotsOfIds DEF IInv, TypeOK
<1>2. CASE Rename(id) \/ SetDefaultKeys(id)
  BY <1>2 DEF Rename, SetDefaultKeys, Quiet, Hold, Held, Idle, book
<1>3. CASE Autoload(id)
  <2> DEFINE on == {s} \ registered
  <2>1. /\ Regrab({}, on, keys) /\ Quiet
        /\ registered' = registered \cup {s} /\ keys' = keys
    BY <1>3 DEF Autoload
  <2>2. /\ registered' = (registered \ {}) \cup on
        /\ on \cap (registered \ {}) = {}
        /\ on \in SUBSET Slots /\ {} \in SUBSET registered
    BY <1>1, <2>1
  <2> HIDE DEF on
  <2> QED
    BY <2>1, <2>2, ActivationRegrabs
<1>4. ASSUME NEW list \in KeyLists,
             \/ \E setPresent, autoloading \in BOOLEAN :
                  SetShortcutKeys(id, list, setPresent, autoloading)
             \/ SetForeignShortcutKeys(id, list)
      PROVE  Regrabbing
  <2>1. list \in KeyListType
    BY KeysAssumption DEF KeyListType
  <2>2. <<>> \in Notices /\ <<Signal("Changed", s)>> \in Notices
    BY <1>1 DEF Notices
  <2>3. PICK setPresent \in BOOLEAN, more \in Notices :
          s \in live /\ SetKeys(s, list, setPresent, more)
    BY <1>4, <2>2 DEF SetShortcutKeys, SetForeignShortcutKeys
  <2> HIDE DEF s
  <2> QED
    BY <2>1, <2>3, SetKeysRegrabs
<1>5. CASE SetInactive(id)
  <2> DEFINE off == {s} \cap registered
  <2>1. /\ Regrab(off, {}, keys) /\ LetGo(off, {}, {}, <<>>)
        /\ registered' = registered \ off /\ keys' = keys
        /\ off \in SUBSET registered
    BY <1>5 DEF SetInactive
  <2> HIDE DEF off
  <2> QED
    BY <2>1, DeactivationRegrabs
<1>6. CASE Unregister(id)
  <2>1. Siblings(s) \in SUBSET live /\ {} \in SUBSET Components
    BY DEF Siblings
  <2>2. Delete(Siblings(s), {})
    BY <1>6 DEF Unregister
  <2> QED
    BY <2>1, <2>2, DeleteRegrabs
<1> QED
  BY <1>2, <1>3, <1>4, <1>5, <1>6 DEF Request

\* What timers, components and the platform do.
LEMMA HousekeepingKinds ==
    ASSUME IInv, Housekeeping
    PROVE  Idle \/ Regrabbing
<1>1. registered \in SUBSET Slots /\ registered \subseteq present /\ present \in SUBSET Slots
  BY DEF IInv, TypeOK, OwnersSound
<1>2. \A remaining : Spent(remaining) \in SUBSET Components
  BY DEF Spent, Created, IInv, TypeOK
<1>3. CASE WriteSettings
  <2>1. {} \in SUBSET live /\ Delete({}, Spent(live))
    BY <1>3 DEF WriteSettings
  <2> QED
    BY <1>2, <2>1, DeleteRegrabs
<1>4. ASSUME NEW c \in Components, CleanUp(c)
      PROVE  Regrabbing
  <2> DEFINE doomed == UNION {Siblings(s) : s \in
                                {t \in CurrentSlots \ present : t.component = c}}
             gone   == Spent(live \ doomed)
  <2>1. doomed \in SUBSET live
    BY DEF Siblings
  <2>2. gone \in SUBSET Components
    BY <1>2
  <2>3. Delete(doomed, gone)
    BY <1>4 DEF CleanUp
  <2> HIDE DEF doomed, gone
  <2> QED
    BY <2>1, <2>2, <2>3, DeleteRegrabs
<1>5. ASSUME NEW c \in Components, NEW context \in Contexts, ActivateContext(c, context)
      PROVE  Regrabbing
  <2> DEFINE off == SlotsOf(c) \cap CurrentSlots \cap registered
  <2>1. /\ Regrab(off, {}, keys) /\ LetGo(off, {}, {}, <<>>)
        /\ registered' = registered \ off /\ keys' = keys
        /\ off \in SUBSET registered
    BY <1>5 DEF ActivateContext
  <2> HIDE DEF off
  <2> QED
    BY <2>1, DeactivationRegrabs
<1>6. ASSUME NEW c \in Components, NEW context \in Contexts, CreateContext(c, context)
      PROVE  Idle
  BY <1>6 DEF CreateContext, Quiet, Hold, Held, Idle, book
<1>7. CASE BlockGlobalShortcuts
  <2> DEFINE off == {s \in CurrentSlots \cap registered :
                       <<s.component, s.name>> # BlockShortcut}
  <2>1. /\ Regrab(off, {}, keys) /\ LetGo(off, {}, {}, <<>>)
        /\ registered' = registered \ off /\ keys' = keys
        /\ off \in SUBSET registered
    BY <1>7 DEF BlockGlobalShortcuts
  <2> HIDE DEF off
  <2> QED
    BY <2>1, DeactivationRegrabs
<1>8. CASE UnblockGlobalShortcuts
  <2> DEFINE on == (CurrentSlots \cap present) \ registered
  <2>1. /\ Regrab({}, on, keys) /\ Quiet
        /\ registered' = (registered \ {}) \cup on /\ keys' = keys
        /\ on \cap (registered \ {}) = {}
        /\ on \in SUBSET Slots /\ {} \in SUBSET registered
    BY <1>1, <1>8 DEF UnblockGlobalShortcuts
  <2> HIDE DEF on
  <2> QED
    BY <2>1, ActivationRegrabs
<1>9. CASE RemapKeys
  <2> DEFINE off == CurrentSlots \cap registered
             on  == CurrentSlots \cap present
  <2>1. /\ Regrab(off, on, keys) /\ LetGo(off, {}, {}, <<>>)
        /\ registered' = (registered \ off) \cup on /\ keys' = keys
        /\ on \cap (registered \ off) = {}
        /\ on \in SUBSET Slots /\ off \in SUBSET registered
    BY <1>1, <1>9 DEF RemapKeys
  <2> HIDE DEF off, on
  <2> QED
    BY <2>1, ActivationRegrabs
<1> QED
  BY <1>3, <1>4, <1>5, <1>6, <1>7, <1>8, <1>9 DEF Housekeeping

LEMMA WorkKinds ==
    ASSUME IInv, Work
    PROVE  Idle \/ Regrabbing \/ \E id \in Ids : AddAction(id)
<1>1. CASE \E id \in Ids : Request(id)
  BY <1>1, RequestKinds
<1>2. CASE Housekeeping
  BY <1>2, HousekeepingKinds
<1>3. ASSUME NEW s \in live, InvokeShortcut(s)
      PROVE  Idle
  <2>1. s \in Slots
    BY DEF IInv, TypeOK
  <2>2. last' = last /\ owed' = owed /\ out' = <<Signal("Pressed", s)>>
    BY <1>3 DEF InvokeShortcut, Hold, Held
  <2> QED
    BY <1>3, <2>1, <2>2 DEF InvokeShortcut, Idle, book
<1>4. CASE Platform
  BY <1>4 DEF Platform, OtherClientGrabs, OtherClientUngrabs, Quiet, Hold, Held, Idle, book
<1> QED
  BY <1>1, <1>2, <1>3, <1>4 DEF Work

-----------------------------------------------------------------------------
(***************************************************************************)
(* Keys never come to clash.                                               *)
(***************************************************************************)

\* Every step keeps the keys of a shortcut, takes them away, or sets them
\* past the filter.
LEMMA ClashStep ==
    ASSUME IInv, NoClash, NoneEnters, Next
    PROVE  NoClash'
<1> DEFINE Stay == \A s \in live' : \/ s \in live /\ keys'[s] = keys[s]
                                    \/ DOMAIN keys'[s] = {}
<1>1. CASE Stay
  BY <1>1, ClashStays
<1>2. live \in SUBSET Slots /\ keys \in [Slots -> KeyListType] /\ DOMAIN <<>> = {}
  BY DEF IInv, TypeOK, KeyListType
<1>3. ASSUME UNCHANGED <<live, keys>> PROVE Stay
  BY <1>3
<1>4. ASSUME NEW doomed, NEW gone, Delete(doomed, gone)
      PROVE  Stay
  <2> DEFINE dead == doomed \cup {s \in live : s.component \in gone}
  <2>1. /\ live' = live \ dead
        /\ keys' = [s \in Slots |-> IF s \in dead THEN <<>> ELSE keys[s]]
    BY <1>4 DEF Delete, Retire
  <2> HIDE DEF dead
  <2> QED
    BY <1>2, <2>1
<1>5. ASSUME NEW id \in Ids, Request(id)
      PROVE  NoClash'
  <2>1. CASE Rename(id) \/ SetDefaultKeys(id) \/ Autoload(id) \/ SetInactive(id)
    <3>1. UNCHANGED <<live, keys>>
      BY <2>1 DEF Rename, SetDefaultKeys, Autoload, SetInactive, book
    <3> QED
      BY <1>1, <1>3, <3>1
  <2>2. CASE AddAction(id)
    <3>1. Home(id) \in Slots
      BY SlotsOfIds DEF IInv
    <3>2. /\ live' = live \cup {Home(id)}
          /\ keys' = [keys EXCEPT ![Home(id)] = <<>>]
      BY <2>2 DEF AddAction
    <3> QED
      BY <1>1, <1>2, <3>1, <3>2
  <2>3. CASE \E list \in KeyLists :
               \/ \E setPresent, autoloading \in BOOLEAN :
                    SetShortcutKeys(id, list, setPresent, autoloading)
               \/ SetForeignShortcutKeys(id, list)
    <3>1. KeyLists \subseteq KeyListType
      BY KeysAssumption DEF KeyListType
    <3>2. PICK list \in KeyLists, setPresent \in BOOLEAN,
               more \in {<<>>, <<Signal("Changed", Target(id))>>} :
            Target(id) \in live /\ SetKeys(Target(id), list, setPresent, more)
      BY <2>3 DEF SetShortcutKeys, SetForeignShortcutKeys
    <3> QED
      BY <3>1, <3>2, ClashSetKeys
  <2>4. CASE Unregister(id)
    BY <1>1, <1>4, <2>4 DEF Unregister
  <2> QED
    BY <1>5, <2>1, <2>2, <2>3, <2>4 DEF Request
<1>6. CASE Housekeeping
  <2>1. CASE WriteSettings
    BY <1>1, <1>4, <2>1 DEF WriteSettings
  <2>2. ASSUME NEW c \in Components, CleanUp(c) PROVE NoClash'
    BY <1>1, <1>4, <2>2 DEF CleanUp
  <2>3. CASE \/ \E c \in Components, context \in Contexts :
                  ActivateContext(c, context) \/ CreateContext(c, context)
             \/ BlockGlobalShortcuts \/ UnblockGlobalShortcuts \/ RemapKeys
    <3>1. UNCHANGED <<live, keys>>
      BY <2>3 DEF ActivateContext, CreateContext, BlockGlobalShortcuts,
                  UnblockGlobalShortcuts, RemapKeys, book
    <3> QED
      BY <1>1, <1>3, <3>1
  <2> QED
    BY <1>6, <2>1, <2>2, <2>3 DEF Housekeeping
<1>7. CASE Keyboard \/ Platform \/ \E s \in live : InvokeShortcut(s)
  <2>1. UNCHANGED <<live, keys>>
    BY <1>7 DEF Keyboard, KeyPressed, KeyTapped, KeyReleased, KeyIgnored, Platform,
                OtherClientGrabs, OtherClientUngrabs, InvokeShortcut, book
  <2> QED
    BY <1>1, <1>3, <2>1
<1> QED
  BY <1>5, <1>6, <1>7 DEF Next, Work

(***************************************************************************)
(* As long as no context is entered that holds shortcuts, the filter of    *)
(* GlobalShortcut::setKeys keeps the keys of all shortcuts in current      *)
(* contexts apart, over every way in which keys are given, taken away,     *)
(* lost with their component or left behind in a context.                  *)
(***************************************************************************)
THEOREM KeysDoNotClash == Spec /\ [][NoneEnters]_vars => []NoClash
<1>1. Init => NoClash
  BY DEF Init, NoClash, CurrentSlots
<1>2. IInv /\ NoClash /\ [NoneEnters]_vars /\ [Next]_vars => NoClash'
  <2> SUFFICES ASSUME IInv, NoClash, [NoneEnters]_vars, [Next]_vars
               PROVE  NoClash'
    OBVIOUS
  <2>1. CASE NoneEnters /\ Next
    BY <2>1, ClashStep
  <2>2. CASE UNCHANGED vars
    <3>1. CurrentSlots' = CurrentSlots /\ keys' = keys /\ Clashing' = Clashing
      BY <2>2 DEF vars, place, book, CurrentSlots, InCurrent, Clashing
    <3> QED
      BY <3>1 DEF NoClash
  <2> QED
    BY <2>1, <2>2
<1> QED
  BY <1>1, <1>2, Inductive, PTL DEF Spec

-----------------------------------------------------------------------------
(***************************************************************************)
(* Active shortcuts own their keys.                                        *)
(***************************************************************************)
Owned(table) == {<<k, table[k]>> : k \in DOMAIN table}

Due(owners, list) == UNION {{<<k, Live(s)>> : k \in KeySet(list[s])} : s \in owners}

HaveOwners(table, owners, list) ==
    \A k \in DOMAIN table :
        \E s \in owners : table[k] = Live(s) /\ k \in KeySet(list[s])

HaveKeys(table, owners, list) ==
    \A s \in owners : \A k \in KeySet(list[s]) :
        k \in DOMAIN table /\ table[k] = Live(s)

KeysHaveOwners == HaveOwners(activeKeys, registered, keys)

OwnersHaveKeys == HaveKeys(activeKeys, registered, keys)

\* A table of keys is an assignment of keys to owners.
LEMMA TableForm ==
    ASSUME NEW table, NEW owners, NEW list
    PROVE  Owned(table) = Due(owners, list)
              <=> HaveOwners(table, owners, list) /\ HaveKeys(table, owners, list)
<1>1. \A s \in owners : \A k \in KeySet(list[s]) : <<k, Live(s)>> \in Due(owners, list)
  BY DEF Due
<1>2. \A x \in Due(owners, list) :
        \E s \in owners : \E k \in KeySet(list[s]) : x = <<k, Live(s)>>
  BY DEF Due
<1>3. \A k \in DOMAIN table : <<k, table[k]>> \in Owned(table)
  BY DEF Owned
<1>4. \A x \in Owned(table) : \E k \in DOMAIN table : x = <<k, table[k]>>
  BY DEF Owned
<1>5. ASSUME Owned(table) = Due(owners, list)
      PROVE  HaveOwners(table, owners, list)
  <2>1. ASSUME NEW k \in DOMAIN table
        PROVE  \E s \in owners : table[k] = Live(s) /\ k \in KeySet(list[s])
    <3>1. PICK s \in owners : \E l \in KeySet(list[s]) : <<k, table[k]>> = <<l, Live(s)>>
      BY <1>2, <1>3, <1>5, Zenon
    <3> QED
      BY <3>1
  <2> QED
    BY <2>1 DEF HaveOwners
<1>6. ASSUME Owned(table) = Due(owners, list)
      PROVE  HaveKeys(table, owners, list)
  <2>1. ASSUME NEW s \in owners, NEW k \in KeySet(list[s])
        PROVE  k \in DOMAIN table /\ table[k] = Live(s)
    <3>1. PICK l \in DOMAIN table : <<k, Live(s)>> = <<l, table[l]>>
      BY <1>1, <1>4, <1>6, Zenon
    <3> QED
      BY <3>1
  <2> QED
    BY <2>1 DEF HaveKeys
<1>7. ASSUME HaveOwners(table, owners, list), HaveKeys(table, owners, list)
      PROVE  Owned(table) = Due(owners, list)
  <2>1. \A k \in DOMAIN table : <<k, table[k]>> \in Due(owners, list)
    BY <1>1, <1>7, Zenon DEF HaveOwners
  <2>2. \A s \in owners : \A k \in KeySet(list[s]) : <<k, Live(s)>> \in Owned(table)
    BY <1>3, <1>7, Zenon DEF HaveKeys
  <2>3. Owned(table) \subseteq Due(owners, list)
    BY <1>4, <2>1, Zenon
  <2>4. Due(owners, list) \subseteq Owned(table)
    BY <1>2, <2>2, Zenon
  <2> QED
    BY <2>3, <2>4
<1> QED
  BY <1>5, <1>6, <1>7, Zenon

\* The property as two inclusions, before and after a step.
LEMMA OwnershipForm ==
    /\ ActiveShortcutsOwnTheirKeys <=> KeysHaveOwners /\ OwnersHaveKeys
    /\ ActiveShortcutsOwnTheirKeys' <=> KeysHaveOwners' /\ OwnersHaveKeys'
<1>1. /\ ActiveShortcutsOwnTheirKeys <=> Owned(activeKeys) = Due(registered, keys)
      /\ ActiveShortcutsOwnTheirKeys' <=> Owned(activeKeys') = Due(registered', keys')
  BY Zenon DEF ActiveShortcutsOwnTheirKeys, Owned, Due
<1>2. /\ KeysHaveOwners' <=> HaveOwners(activeKeys', registered', keys')
      /\ OwnersHaveKeys' <=> HaveKeys(activeKeys', registered', keys')
  BY Zenon DEF KeysHaveOwners, OwnersHaveKeys, HaveOwners, HaveKeys
<1> QED
  BY <1>1, <1>2, TableForm, Zenon DEF KeysHaveOwners, OwnersHaveKeys

\* The keys that stay in the table, and those that are entered into it.
KeptKeys(off) == DOMAIN activeKeys \ Freed(off)

Entered(off, on, newKeys) == Claimed(on, newKeys, KeptKeys(off))

\* What Regrab makes of the table of active keys.
LEMMA RegrabTable ==
    ASSUME NEW off \in SUBSET registered, NEW on \in SUBSET Slots,
           NEW newKeys \in [Slots -> KeyListType],
           Regrab(off, on, newKeys)
    PROVE  /\ DOMAIN activeKeys' = KeptKeys(off) \cup Entered(off, on, newKeys)
           /\ \A k \in KeptKeys(off) : activeKeys'[k] = activeKeys[k]
           /\ \A k \in Entered(off, on, newKeys) \ KeptKeys(off) : \E s \in on :
                 k \in KeySet(newKeys[s]) /\ activeKeys'[k] = Live(s)
<1> DEFINE kept == KeptKeys(off)
           claimed == Entered(off, on, newKeys)
<1>1. PICK won \in [claimed -> on] :
        /\ \A k \in claimed : k \in KeySet(newKeys[won[k]])
        /\ activeKeys' = [k \in kept \cup claimed |->
                            IF k \in kept THEN activeKeys[k] ELSE Live(won[k])]
  BY DEF Regrab, KeptKeys, Entered
<1> HIDE DEF kept, claimed
<1> QED
  BY <1>1 DEF kept, claimed

\* Where nothing clashes, a key belongs to one shortcut.
LEMMA OneOwner ==
    ASSUME IInv', NoClash', NEW s \in CurrentSlots', NEW t \in CurrentSlots',
           NEW k \in KeySet(keys'[s]) \cap KeySet(keys'[t])
    PROVE  s = t
<1>1. s \in Slots /\ t \in Slots /\ keys' \in [Slots -> KeyListType]
  BY DEF CurrentSlots, IInv, TypeOK, KeyListType
<1>2. k \in Keys
  BY <1>1, KeySetType
<1>3. PICK i \in DOMAIN keys'[s], j \in DOMAIN keys'[t] : keys'[s][i] = k /\ keys'[t][j] = k
  BY DEF KeySet
<1>4. <<keys'[s][i], keys'[t][j]>> \in Clashing'
  BY <1>2, <1>3, ClashingReflexive DEF Clashing
<1> QED
  BY <1>3, <1>4 DEF NoClash

LEMMA RegrabbingOwns ==
    ASSUME IInv, IInv', ActiveShortcutsOwnTheirKeys, NoClash', Ordinary, Ordinary',
           Regrabbing
    PROVE  ActiveShortcutsOwnTheirKeys'
<1>1. PICK off \in SUBSET registered, on \in SUBSET Slots, newKeys \in [Slots -> KeyListType] :
        Regrabs(off, on, newKeys)
  BY DEF Regrabbing
<1> DEFINE kept == KeptKeys(off)
           claimed == Entered(off, on, newKeys)
<1>2. /\ DOMAIN activeKeys' = kept \cup claimed
      /\ \A k \in kept : activeKeys'[k] = activeKeys[k]
      /\ \A k \in claimed \ kept : \E s \in on :
            k \in KeySet(newKeys[s]) /\ activeKeys'[k] = Live(s)
  <2>1. Regrab(off, on, newKeys)
    BY <1>1 DEF Regrabs
  <2> QED
    BY <2>1, RegrabTable
<1>3. /\ registered' = (registered \ off) \cup on
      /\ on \cap (registered \ off) = {}
      /\ \A s \in registered \ off : keys'[s] = keys[s]
      /\ \A s \in on : keys'[s] = newKeys[s]
  BY <1>1 DEF Regrabs
<1>4. KeysHaveOwners /\ OwnersHaveKeys
  BY OwnershipForm
<1>5. registered' \subseteq CurrentSlots'
  BY DEF IInv, OwnersSound, Ordinary
<1>6. ASSUME NEW k \in kept
      PROVE  \E s \in registered \ off : activeKeys[k] = Live(s) /\ k \in KeySet(keys[s])
  BY <1>4 DEF KeysHaveOwners, HaveOwners, KeptKeys, Freed
<1>7. ASSUME NEW s \in registered \ off, NEW k \in KeySet(keys[s])
      PROVE  k \in kept /\ activeKeys[k] = Live(s)
  <2>1. k \in DOMAIN activeKeys /\ activeKeys[k] = Live(s)
    BY <1>4 DEF OwnersHaveKeys, HaveKeys
  <2>2. \A t \in off : Live(t) # Live(s)
    BY DEF Live
  <2> QED
    BY <2>1, <2>2 DEF KeptKeys, Freed
<1>8. ASSUME NEW s \in on, NEW k \in KeySet(newKeys[s])
      PROVE  k \in claimed \ kept
  <2>1. k \notin kept
    <3>1. SUFFICES ASSUME k \in kept PROVE FALSE
      OBVIOUS
    <3>2. PICK t \in registered \ off : k \in KeySet(keys[t])
      BY <1>6, <3>1
    <3>3. s \in registered' /\ t \in registered' /\ keys'[t] = keys[t] /\ keys'[s] = newKeys[s]
      BY <1>3
    <3>4. s = t
      BY <1>5, <1>8, <3>2, <3>3, OneOwner
    <3> QED
      BY <1>3, <3>4
  <2> QED
    BY <2>1 DEF Entered, Claimed, Ordinary
<1> HIDE DEF kept, claimed
<1>9. KeysHaveOwners'
  <2>1. ASSUME NEW k \in DOMAIN activeKeys'
        PROVE  \E s \in registered' : activeKeys'[k] = Live(s) /\ k \in KeySet(keys'[s])
    <3>1. CASE k \in kept
      BY <1>2, <1>3, <1>6, <3>1
    <3>2. CASE k \in claimed \ kept
      BY <1>2, <1>3, <3>2
    <3> QED
      BY <1>2, <3>1, <3>2
  <2> QED
    BY <2>1 DEF KeysHaveOwners, HaveOwners
<1>10. OwnersHaveKeys'
  <2>1. ASSUME NEW s \in registered', NEW k \in KeySet(keys'[s])
        PROVE  k \in DOMAIN activeKeys' /\ activeKeys'[k] = Live(s)
    <3>1. CASE s \in registered \ off
      BY <1>2, <1>3, <1>7, <3>1
    <3>2. CASE s \in on
      <4>1. k \in claimed \ kept
        BY <1>3, <1>8, <3>2
      <4>2. PICK t \in on : k \in KeySet(newKeys[t]) /\ activeKeys'[k] = Live(t)
        BY <1>2, <4>1
      <4>3. t \in registered' /\ keys'[t] = newKeys[t]
        BY <1>3
      <4>4. s = t
        BY <1>5, <4>2, <4>3, OneOwner
      <4> QED
        BY <1>2, <4>1, <4>2, <4>4
    <3> QED
      BY <1>3, <3>1, <3>2
  <2> QED
    BY <2>1 DEF OwnersHaveKeys, HaveKeys
<1> QED
  BY <1>9, <1>10, OwnershipForm

\* Where every shortcut is in its current context, AddAction replaces nothing.
LEMMA AddActionIsNew ==
    ASSUME Ordinary, NEW id \in Ids, AddAction(id)
    PROVE  Home(id) \notin live
<1>1. SUFFICES ASSUME Home(id) \in live PROVE FALSE
  OBVIOUS
<1>2. InCurrent(Home(id))
  BY <1>1 DEF Ordinary, CurrentSlots
<1>3. Target(id) = Home(id)
  BY <1>2 DEF InCurrent, Target, Home
<1> QED
  BY <1>1, <1>3 DEF AddAction

\* So it changes neither who owns what nor who is held.
LEMMA AddActionOwns ==
    ASSUME IInv, Ordinary, NEW id \in Ids, AddAction(id)
    PROVE  /\ registered' = registered
           /\ \A s \in registered : keys'[s] = keys[s]
           /\ \A k \in DOMAIN activeKeys : activeKeys[k] \in {Live(s) : s \in registered}
                 => activeKeys'[k] = activeKeys[k]
           /\ DOMAIN activeKeys' = DOMAIN activeKeys
           /\ last \in {Live(s) : s \in registered} \cup {None} => last' = last
           /\ owed' = owed
           /\ out' = <<>>
<1> DEFINE s == Home(id)
<1>1. s \in Slots /\ s \notin registered
  BY AddActionIsNew, SlotsOfIds DEF IInv, OwnersSound
<1>2. Live(s) \notin {Live(t) : t \in registered} /\ Live(s) # None
  <2>1. Live(s) \in Objects
    BY <1>1 DEF Live, Objects
  <2> QED
    BY <1>1, <2>1, NoneAssumption DEF Live
<1>3. keys \in [Slots -> KeyListType] /\ registered \subseteq Slots
  BY DEF IInv, TypeOK, KeyListType
<1>4. /\ keys' = [keys EXCEPT ![s] = <<>>]
      /\ registered' = registered \ {s}
      /\ activeKeys' = [k \in DOMAIN activeKeys |->
                           IF activeKeys[k] = Live(s) THEN Leaked(s)
                                                      ELSE activeKeys[k]]
      /\ Hold([Held EXCEPT !.last = IF @ = Live(s) THEN Leaked(s) ELSE @])
  BY DEF AddAction
<1>5. /\ last' = IF last = Live(s) THEN Leaked(s) ELSE last
      /\ owed' = owed
      /\ out' = <<>>
  BY <1>4 DEF Hold, Held
<1> HIDE DEF s
<1> QED
  BY <1>1, <1>2, <1>3, <1>4, <1>5

\* Every step leaves the active shortcuts with their keys.
LEMMA OwnStep ==
    ASSUME IInv, IInv', NoClash, ActiveShortcutsOwnTheirKeys, Ordinary, Ordinary', Next
    PROVE  ActiveShortcutsOwnTheirKeys'
<1>1. KeysHaveOwners /\ OwnersHaveKeys
  BY OwnershipForm
<1>2. NoneEnters
  BY DEF Ordinary, NoneEnters, CurrentSlots
<1>3. NoClash'
  BY <1>2, ClashStep
<1>4. CASE UNCHANGED <<keys, registered, activeKeys>>
  BY <1>4 DEF ActiveShortcutsOwnTheirKeys
<1>5. CASE Work
  <2>1. CASE Idle
    BY <1>4, <2>1 DEF Idle, grabs
  <2>2. CASE Regrabbing
    BY <1>3, <2>2, RegrabbingOwns
  <2>3. ASSUME NEW id \in Ids, AddAction(id)
        PROVE  ActiveShortcutsOwnTheirKeys'
    <3>1. /\ registered' = registered
          /\ \A s \in registered : keys'[s] = keys[s]
          /\ \A k \in DOMAIN activeKeys : activeKeys[k] \in {Live(s) : s \in registered}
                => activeKeys'[k] = activeKeys[k]
          /\ DOMAIN activeKeys' = DOMAIN activeKeys
      BY <2>3, AddActionOwns
    <3>2. KeysHaveOwners'
      BY <1>1, <3>1 DEF KeysHaveOwners, HaveOwners
    <3>3. OwnersHaveKeys'
      BY <1>1, <3>1 DEF OwnersHaveKeys, HaveKeys
    <3> QED
      BY <3>2, <3>3, OwnershipForm
  <2> QED
    BY <1>5, <2>1, <2>2, <2>3, WorkKinds
<1>6. CASE Keyboard
  <2>1. UNCHANGED <<keys, registered, activeKeys>>
    BY <1>6 DEF Keyboard, KeyPressed, KeyTapped, KeyReleased, KeyIgnored, book, grabs
  <2> QED
    BY <1>4, <2>1
<1> QED
  BY <1>5, <1>6 DEF Next

\* What is ordinary stays free of clashes.
LEMMA OrdinaryEntersNothing == []Ordinary => [][NoneEnters]_vars
<1>1. Ordinary /\ Ordinary' => NoneEnters
  BY DEF Ordinary, NoneEnters, CurrentSlots
<1> QED
  BY <1>1, PTL

\* With one context per component and an X server that refuses nothing, every
\* state is ordinary.
LEMMA OneContextIsOrdinary ==
    ASSUME Contexts = {Default}, Refusable = {}
    PROVE  Spec => []Ordinary
<1>1. IInv => Ordinary
  BY DEF IInv, TypeOK, Ordinary, CurrentSlots, InCurrent, Slots
<1> QED
  BY <1>1, Inductive, PTL

\* The step once more, as it is needed below.
LEMMA OwnNext ==
    ASSUME IInv, IInv', NoClash, ActiveShortcutsOwnTheirKeys, Ordinary, Ordinary',
           [Next]_vars
    PROVE  ActiveShortcutsOwnTheirKeys'
<1>1. CASE Next
  BY <1>1, OwnStep
<1>2. CASE UNCHANGED vars
  BY <1>2 DEF vars, book, grabs, ActiveShortcutsOwnTheirKeys
<1> QED
  BY <1>1, <1>2

(***************************************************************************)
(* As long as every shortcut is in the current context of its component    *)
(* and X refuses nothing, setActive always gets the keys it asks for, and  *)
(* no key is left with a shortcut that is not active.                      *)
(***************************************************************************)
THEOREM ActiveShortcutsHaveTheirKeys ==
    Spec /\ []Ordinary => []ActiveShortcutsOwnTheirKeys
<1>1. Init => ActiveShortcutsOwnTheirKeys
  BY DEF Init, ActiveShortcutsOwnTheirKeys
<1>2. IInv /\ IInv' /\ NoClash /\ ActiveShortcutsOwnTheirKeys /\ Ordinary /\ Ordinary'
        /\ [Next]_vars => ActiveShortcutsOwnTheirKeys'
  BY OwnNext
<1> QED
  BY <1>1, <1>2, Inductive, KeysDoNotClash, OrdinaryEntersNothing, PTL DEF Spec

-----------------------------------------------------------------------------
(***************************************************************************)
(* The shortcut held down.                                                 *)
(***************************************************************************)

\* A null pointer is no object.
LEMMA LiveIsNotNone ==
    ASSUME NEW s \in Slots
    PROVE  Live(s) # None /\ Live(s).slot = s /\ Live(s).state = "live"
<1>1. Live(s) \in Objects
  BY DEF Live, Objects
<1> QED
  BY <1>1, NoneAssumption DEF Live

\* Losing keys ends the hold, leaves it as it is, or leaves it dangling.
LEMMA RegrabsHold ==
    ASSUME IInv, NEW off \in SUBSET registered, NEW on \in SUBSET Slots,
           NEW newKeys \in [Slots -> KeyListType],
           Regrabs(off, on, newKeys)
    PROVE  \/ /\ last # None /\ last' = None /\ owed' = owed \ {last.slot}
              /\ \E more \in Notices : out' = <<Signal("Released", last.slot)>> \o more
           \/ /\ \A k \in Freed(off) : activeKeys[k] # last
              /\ owed' = owed /\ out' \in Notices
              /\ \/ last' = last
                 \/ /\ last # None /\ last' = Dangling(last.slot)
                    /\ \A s \in registered : last = Live(s) => s \in off
<1>1. registered \subseteq Slots
  BY DEF IInv, TypeOK
<1>2. <<>> \in Notices
  BY DEF Notices
<1>3. CASE off = {} /\ Quiet
  BY <1>2, <1>3 DEF Quiet, Hold, Held, Freed
<1>4. ASSUME NEW dead \in SUBSET Slots, NEW gone \in SUBSET Components, NEW more \in Notices,
             LetGo(off, dead, gone, more),
             \A s \in registered : s \in dead \/ s.component \in gone => s \in off
      PROVE  \/ /\ last # None /\ last' = None /\ owed' = owed \ {last.slot}
                /\ \E m \in Notices : out' = <<Signal("Released", last.slot)>> \o m
             \/ /\ \A k \in Freed(off) : activeKeys[k] # last
                /\ owed' = owed /\ out' \in Notices
                /\ \/ last' = last
                   \/ /\ last # None /\ last' = Dangling(last.slot)
                      /\ \A s \in registered : last = Live(s) => s \in off
  <2>1. CASE \E k \in Freed(off) : activeKeys[k] = last
    <3>1. PICK s \in off : last = Live(s)
      BY <2>1 DEF Freed
    <3>2. last # None
      BY <1>1, <3>1, LiveIsNotNone
    <3>3. Append(<<>>, Signal("Released", last.slot)) = <<Signal("Released", last.slot)>>
      OBVIOUS
    <3>4. /\ last' = None /\ owed' = owed \ {last.slot}
          /\ out' = <<Signal("Released", last.slot)>> \o more
      BY <1>4, <2>1, <3>3 DEF LetGo, Hold, Held, Tell
    <3> QED
      BY <3>2, <3>4
  <2>2. CASE ~ \E k \in Freed(off) : activeKeys[k] = last
    <3> DEFINE orphaned ==
                 last # None
                 /\ (last \in {Live(s) : s \in dead} \/ last.slot.component \in gone)
    <3>1. /\ last' = IF orphaned THEN Dangling(last.slot) ELSE last
          /\ owed' = owed /\ out' = <<>> \o more
      BY <1>4, <2>2 DEF LetGo, Hold, Held
    <3>2. more \in Seq(Signals) /\ <<>> \o more = more
      <4>1. \A s \in Slots : Signal("Changed", s) \in Signals
        BY DEF Signal, Signals
      <4>2. more \in Seq(Signals)
        BY <4>1, ShortSequences DEF Notices
      <4> QED
        BY <4>2
    <3>3. ASSUME orphaned, NEW s \in registered, last = Live(s)
          PROVE  s \in off
      <4>1. s \in dead \/ s.component \in gone
        BY <3>3 DEF Live
      <4> QED
        BY <1>4, <4>1
    <3> HIDE DEF orphaned
    <3>4. orphaned => last # None
      BY DEF orphaned
    <3> QED
      BY <2>2, <3>1, <3>2, <3>3, <3>4
  <2> QED
    BY <2>1, <2>2
<1> QED
  BY <1>3, <1>4 DEF Regrabs

\* The fields of a hold after a signal.
LEMMA TellFields ==
    ASSUME NEW h \in Holds, NEW s, NEW kind
    PROVE  /\ Tell(h, kind, s).last = h.last
           /\ Tell(h, kind, s).owed = IF kind = "Released" THEN h.owed \ {s}
                                                           ELSE h.owed \cup {s}
           /\ Tell(h, kind, s).out = Append(h.out, Signal(kind, s))
<1> DEFINE x == Append(h.out, Signal(kind, s))
           y == IF kind = "Released" THEN h.owed \ {s} ELSE h.owed \cup {s}
           g == [h EXCEPT !.out = x, !.owed = y]
<1>1. Tell(h, kind, s) = g
  BY DEF Tell
<1> HIDE DEF x, y
<1>2. g.last = h.last /\ g.owed = y /\ g.out = x
  BY DEF Holds
<1> HIDE DEF g
<1>3. Tell(h, kind, s).last = h.last /\ Tell(h, kind, s).owed = y /\ Tell(h, kind, s).out = x
  BY <1>1, <1>2
<1> QED
  BY <1>3 DEF x, y

LEMMA TellPress ==
    ASSUME NEW h \in Holds, NEW s, NEW kind, kind # "Released"
    PROVE  /\ Tell(h, kind, s).owed = h.owed \cup {s}
           /\ Tell(h, kind, s).out = Append(h.out, Signal(kind, s))
<1>1. Tell(h, kind, s).owed = IF kind = "Released" THEN h.owed \ {s} ELSE h.owed \cup {s}
  BY TellFields
<1>2. Tell(h, kind, s).out = Append(h.out, Signal(kind, s))
  BY TellFields
<1> QED
  BY <1>1, <1>2

\* What is owed and told when the previous hold ends, if it does, as s is
\* triggered: a dangling pointer may be told of or not.
Ended(s, o, u) ==
    \/ /\ o = owed /\ u = <<>>
       /\ last \in {None, Live(s)} \/ last.state = "dangling"
    \/ /\ o = owed \ {last.slot} /\ u = <<Signal("Released", last.slot)>>
       /\ last \notin {None, Live(s)}

\* Releasing the previous shortcut.
LEMMA PartingHold ==
    ASSUME TypeOK, NEW s \in Slots, last \notin {None, Live(s)}, NEW p \in Partings(Held)
    PROVE  Ended(s, p.owed, p.out) /\ p.last = last /\ p \in Holds
<1>1. Held \in Holds
  BY HeldType
<1>2. p \in Holds
  BY <1>1, PartingsType
<1>3. Held.last = last /\ Held.owed = owed /\ Held.out = <<>>
  BY DEF Held
<1>4. Append(<<>>, Signal("Released", last.slot)) = <<Signal("Released", last.slot)>>
  OBVIOUS
<1>5. CASE p = Tell(Held, "Released", last.slot)
  <2>1. /\ Tell(Held, "Released", last.slot).last = Held.last
        /\ Tell(Held, "Released", last.slot).owed = Held.owed \ {last.slot}
        /\ Tell(Held, "Released", last.slot).out
             = Append(Held.out, Signal("Released", last.slot))
    BY <1>1, TellFields
  <2> QED
    BY <1>2, <1>3, <1>4, <1>5, <2>1 DEF Ended
<1>6. CASE p = Held /\ last.state = "dangling"
  BY <1>2, <1>3, <1>6 DEF Ended
<1> QED
  BY <1>3, <1>5, <1>6 DEF Partings

\* Triggering a shortcut that the allow-list permits, or does not.
LEMMA FiredHold ==
    ASSUME TypeOK, NEW s \in Slots, NEW kind \in {"Pressed", "Repeated"},
           NEW h \in Fired(Held, s, kind)
    PROVE  \E o \in SUBSET Slots, u \in Seq(Signals) :
             /\ Ended(s, o, u)
             /\ \/ /\ <<s.component, s.name>> \in Allowed
                   /\ h.last = Live(s) /\ h.owed = o \cup {s}
                   /\ h.out = Append(u, Signal(kind, s))
                \/ /\ <<s.component, s.name>> \notin Allowed
                   /\ h.last = last /\ h.owed = o /\ h.out = u
<1>1. Held \in Holds /\ Held.last = last /\ Held.owed = owed /\ Held.out = <<>>
  BY HeldType DEF Held
<1>2. PICK p \in Holds :
        /\ Ended(s, p.owed, p.out) /\ p.last = last
        /\ \/ /\ <<s.component, s.name>> \in Allowed
              /\ h = [Tell(p, kind, s) EXCEPT !.last = Live(s)]
           \/ <<s.component, s.name>> \notin Allowed /\ h = p
  <2>1. CASE last \in {None, Live(s)}
    <3>1. Ended(s, Held.owed, Held.out)
      BY <1>1, <2>1 DEF Ended
    <3> QED
      BY <1>1, <2>1, <3>1 DEF Fired
  <2>2. CASE last \notin {None, Live(s)}
    BY <1>1, <2>2, PartingHold DEF Fired
  <2> QED
    BY <2>1, <2>2
<1>3. p.owed \in SUBSET Slots /\ p.out \in Seq(Signals)
  BY DEF Holds
<1>4. CASE <<s.component, s.name>> \in Allowed
  <2>1. Tell(p, kind, s) \in Holds
    BY TellType
  <2>2. /\ h.last = Live(s)
        /\ h.owed = Tell(p, kind, s).owed
        /\ h.out = Tell(p, kind, s).out
    BY <1>2, <1>4, <2>1 DEF Holds
  <2>3. kind # "Released"
    OBVIOUS
  <2>4. /\ Tell(p, kind, s).owed = p.owed \cup {s}
        /\ Tell(p, kind, s).out = Append(p.out, Signal(kind, s))
    BY <2>3, TellPress
  <2> QED
    BY <1>2, <1>3, <1>4, <2>2, <2>4
<1>5. CASE <<s.component, s.name>> \notin Allowed
  BY <1>2, <1>3, <1>5
<1> QED
  BY <1>4, <1>5

\* Letting go of what is held.
LEMMA PartedHold ==
    ASSUME NEW h \in Holds, NEW p \in Parted(h)
    PROVE  /\ p.last = None
           /\ \/ /\ h.last = None \/ h.last.state = "dangling"
                 /\ p.owed = h.owed /\ p.out = h.out
              \/ /\ h.last # None
                 /\ p.owed = h.owed \ {h.last.slot}
                 /\ p.out = Append(h.out, Signal("Released", h.last.slot))
<1>1. PICK q \in Partings(h) : p = [q EXCEPT !.last = None]
  BY DEF Parted
<1>2. q \in Holds
  BY PartingsType
<1>3. p.last = None /\ p.owed = q.owed /\ p.out = q.out
  BY <1>1, <1>2 DEF Holds
<1>4. CASE q = h /\ (h.last = None \/ h.last.state = "dangling")
  BY <1>3, <1>4
<1>5. CASE h.last # None /\ q = Tell(h, "Released", h.last.slot)
  <2>1. /\ Tell(h, "Released", h.last.slot).owed = h.owed \ {h.last.slot}
        /\ Tell(h, "Released", h.last.slot).out
             = Append(h.out, Signal("Released", h.last.slot))
    BY TellFields
  <2> QED
    BY <1>3, <1>5, <2>1
<1> QED
  BY <1>4, <1>5 DEF Partings

\* What the keyboard does: press a shortcut found for a key, press and
\* release one, release the one that is held, or nothing.
LEMMA KeyboardKinds ==
    ASSUME TypeOK, Keyboard
    PROVE  \/ \E key \in Keys, s \in Slots, kind \in {"Pressed", "Repeated"} :
                 /\ s \in Lookup(key) \cap registered
                 /\ \E h \in Fired(Held, s, kind) :
                       \/ Hold(h)
                       \/ kind = "Pressed" /\ \E p \in Parted(h) : Hold(p)
           \/ last # None /\ \E p \in Parted(Held) : Hold(p)
           \/ Hold(Held)
<1>1. \A key : Lookup(key) \subseteq Slots
  BY DEF TypeOK, Lookup, CurrentSlots
<1> QED
  BY <1>1 DEF Keyboard, KeyPressed, KeyTapped, KeyReleased, KeyIgnored, Quiet

\* The keyboard changes the hold alone.
LEMMA KeyboardFrame ==
    ASSUME Keyboard
    PROVE  UNCHANGED <<live, keys, registered, activeKeys>>
BY DEF Keyboard, KeyPressed, KeyTapped, KeyReleased, KeyIgnored, book, grabs

-----------------------------------------------------------------------------
(***************************************************************************)
(* The shortcut held down is alive and active.                             *)
(***************************************************************************)

\* A shortcut that is found for a key has a key.
LEMMA FoundHasKey ==
    ASSUME ActiveShortcutsOwnTheirKeys, NEW key, NEW s \in Lookup(key) \cap registered
    PROVE  \E k \in DOMAIN activeKeys : activeKeys[k] = Live(s)
<1>1. \E k \in KeySet(keys[s]) : TRUE
  BY DEF Lookup
<1>2. OwnersHaveKeys
  BY OwnershipForm
<1> QED
  BY <1>1, <1>2 DEF OwnersHaveKeys, HaveKeys

LEMMA ActiveStep ==
    ASSUME IInv, ActiveShortcutsOwnTheirKeys, HeldIsActive, Ordinary, [Next]_vars
    PROVE  HeldIsActive'
<1>1. KeysHaveOwners /\ registered \subseteq Slots
  BY OwnershipForm DEF IInv, TypeOK
<1>2. CASE UNCHANGED <<registered, activeKeys, last>>
  BY <1>2 DEF HeldIsActive
<1>3. CASE last' = None
  BY <1>3 DEF HeldIsActive
<1>4. ASSUME UNCHANGED <<registered, activeKeys>>, NEW key,
             NEW s \in Lookup(key) \cap registered, last' = Live(s)
      PROVE  HeldIsActive'
  BY <1>4, FoundHasKey DEF HeldIsActive
<1>5. CASE Work
  <2>1. CASE Idle
    BY <1>2, <2>1 DEF Idle, grabs
  <2>2. ASSUME NEW off \in SUBSET registered, NEW on \in SUBSET Slots,
               NEW newKeys \in [Slots -> KeyListType],
               Regrabs(off, on, newKeys), last' # None
        PROVE  HeldIsActive'
    <3>1. /\ \A k \in Freed(off) : activeKeys[k] # last
          /\ \/ last' = last
             \/ /\ last # None /\ last' = Dangling(last.slot)
                /\ \A s \in registered : last = Live(s) => s \in off
      BY <2>2, RegrabsHold
    <3>2. last # None
      BY <2>2, <3>1
    <3>3. PICK k \in DOMAIN activeKeys : activeKeys[k] = last
      BY <3>2 DEF HeldIsActive
    <3>4. PICK s \in registered : last = Live(s) /\ k \in KeySet(keys[s])
      BY <1>1, <3>3 DEF KeysHaveOwners, HaveOwners
    <3>5. s \notin off
      BY <3>1, <3>3, <3>4 DEF Freed
    <3>6. last' = last
      BY <3>1, <3>4, <3>5
    <3>7. s \in registered'
      BY <2>2, <3>5 DEF Regrabs
    <3>8. Regrab(off, on, newKeys)
      BY <2>2 DEF Regrabs
    <3>9. k \in KeptKeys(off)
      BY <3>1, <3>3 DEF KeptKeys
    <3>10. k \in DOMAIN activeKeys' /\ activeKeys'[k] = activeKeys[k]
      BY <3>8, <3>9, RegrabTable
    <3> QED
      BY <3>3, <3>4, <3>6, <3>7, <3>10 DEF HeldIsActive
  <2>3. ASSUME NEW id \in Ids, AddAction(id), last' # None
        PROVE  HeldIsActive'
    <3>1. last \in {Live(s) : s \in registered} \cup {None}
      BY DEF HeldIsActive
    <3>2. /\ registered' = registered
          /\ \A k \in DOMAIN activeKeys : activeKeys[k] \in {Live(s) : s \in registered}
                => activeKeys'[k] = activeKeys[k]
          /\ DOMAIN activeKeys' = DOMAIN activeKeys
          /\ last' = last
      BY <2>3, <3>1, AddActionOwns
    <3> QED
      BY <2>3, <3>1, <3>2 DEF HeldIsActive
  <2>4. CASE Regrabbing
    BY <1>3, <2>2, <2>4 DEF Regrabbing
  <2> QED
    BY <1>3, <1>5, <2>1, <2>3, <2>4, WorkKinds
<1>6. CASE Keyboard
  <2>1. UNCHANGED <<registered, activeKeys>>
    BY <1>6, KeyboardFrame
  <2>2. TypeOK /\ Held \in Holds /\ Held.last = last
    BY HeldType DEF IInv, Held
  <2>3. ASSUME NEW h \in Holds, NEW p \in Parted(h), Hold(p)
        PROVE  HeldIsActive'
    BY <1>3, <2>3, PartedHold DEF Hold
  <2>4. ASSUME NEW key \in Keys, NEW s \in Slots, NEW kind \in {"Pressed", "Repeated"},
               s \in Lookup(key) \cap registered, NEW h \in Fired(Held, s, kind),
               Hold(h) \/ \E p \in Parted(h) : Hold(p)
        PROVE  HeldIsActive'
    <3>1. h \in Holds
      BY <2>2, FiredType
    <3>2. h.last \in {last, Live(s)}
      BY <2>2, FiredHold
    <3> QED
      BY <1>2, <1>4, <2>1, <2>3, <2>4, <3>1, <3>2 DEF Hold
  <2>5. CASE Hold(Held)
    BY <1>2, <2>1, <2>2, <2>5 DEF Hold
  <2> QED
    BY <1>6, <2>2, <2>3, <2>4, <2>5, KeyboardKinds
<1>7. CASE UNCHANGED vars
  BY <1>2, <1>7 DEF vars, book, grabs, hold
<1> QED
  BY <1>5, <1>6, <1>7 DEF Next

(***************************************************************************)
(* As long as every shortcut is in the current context of its component    *)
(* and X refuses nothing, m_lastShortcut is never stale: it is null, or a  *)
(* shortcut that lives, is active and owns a key.                          *)
(***************************************************************************)
THEOREM HeldShortcutsAreActive == Spec /\ []Ordinary => []HeldIsActive
<1>1. Init => HeldIsActive
  BY DEF Init, HeldIsActive
<1>2. IInv /\ ActiveShortcutsOwnTheirKeys /\ HeldIsActive /\ Ordinary /\ [Next]_vars
        => HeldIsActive'
  BY ActiveStep
<1> QED
  BY <1>1, <1>2, Inductive, ActiveShortcutsHaveTheirKeys, PTL DEF Spec

-----------------------------------------------------------------------------
(***************************************************************************)
(* Presses and releases are paired.                                        *)
(***************************************************************************)
LEMMA OwedStep ==
    ASSUME IInv, EverythingAllowed, HeldIsActive, HeldIsOwed, Ordinary, [Next]_vars
    PROVE  HeldIsOwed'
<1>1. last # None => \E s \in registered : last = Live(s)
  BY DEF HeldIsActive
<1>2. registered \subseteq Slots
  BY DEF IInv, TypeOK
<1>3. last # None => last.state = "live" /\ owed = {last.slot}
  BY <1>1, <1>2, LiveIsNotNone DEF HeldIsOwed
<1>4. last = None => owed = {}
  BY DEF HeldIsOwed
<1>5. CASE UNCHANGED <<last, owed>>
  BY <1>5 DEF HeldIsOwed
<1>6. CASE last' = None /\ owed' = {}
  BY <1>6 DEF HeldIsOwed
<1>7. CASE Work
  <2>1. CASE Idle
    BY <1>5, <2>1 DEF Idle
  <2>2. ASSUME NEW off \in SUBSET registered, NEW on \in SUBSET Slots,
               NEW newKeys \in [Slots -> KeyListType],
               Regrabs(off, on, newKeys)
        PROVE  HeldIsOwed'
    <3>1. CASE last # None /\ last' = None /\ owed' = owed \ {last.slot}
      BY <1>3, <1>6, <3>1
    <3>2. CASE owed' = owed /\ last' = last
      BY <1>5, <3>2
    <3>3. CASE owed' = owed /\ last # None /\ last' = Dangling(last.slot)
      <4>1. Dangling(last.slot) \in Objects /\ Dangling(last.slot).slot = last.slot
        BY <1>1, <1>2, <3>3 DEF Dangling, Live, Objects
      <4> QED
        BY <1>3, <3>3, <4>1, NoneAssumption DEF HeldIsOwed
    <3> QED
      BY <2>2, <3>1, <3>2, <3>3, RegrabsHold
  <2>3. ASSUME NEW id \in Ids, AddAction(id)
        PROVE  HeldIsOwed'
    <3>1. last \in {Live(s) : s \in registered} \cup {None}
      BY <1>1
    <3> QED
      BY <1>5, <2>3, <3>1, AddActionOwns
  <2> QED
    BY <1>7, <2>1, <2>2, <2>3, WorkKinds DEF Regrabbing
<1>8. CASE Keyboard
  <2>1. TypeOK /\ Held \in Holds /\ Held.last = last /\ Held.owed = owed
    BY HeldType DEF IInv, Held
  <2>2. ASSUME NEW key \in Keys, NEW s \in Slots, NEW kind \in {"Pressed", "Repeated"},
               NEW h \in Fired(Held, s, kind)
        PROVE  h.last = Live(s) /\ h.owed = {s}
    <3>1. <<s.component, s.name>> \in Allowed
      BY DEF EverythingAllowed
    <3>2. PICK o, u : /\ Ended(s, o, u)
                      /\ h.last = Live(s) /\ h.owed = o \cup {s}
      BY <2>1, <3>1, FiredHold
    <3>3. o \subseteq {s}
      BY <1>3, <1>4, <3>2, LiveIsNotNone DEF Ended
    <3> QED
      BY <3>2, <3>3
  <2>3. ASSUME NEW key \in Keys, NEW s \in Slots, NEW kind \in {"Pressed", "Repeated"},
               NEW h \in Fired(Held, s, kind),
               Hold(h) \/ \E p \in Parted(h) : Hold(p)
        PROVE  HeldIsOwed'
    <3>1. h.last = Live(s) /\ h.owed = {s} /\ h \in Holds
      BY <2>1, <2>2, FiredType
    <3>2. CASE Hold(h)
      BY <3>1, <3>2, LiveIsNotNone DEF Hold, HeldIsOwed
    <3>3. ASSUME NEW p \in Parted(h), Hold(p)
          PROVE  HeldIsOwed'
      <4>1. p.last = None /\ p.owed = {}
        BY <3>1, PartedHold, LiveIsNotNone
      <4> QED
        BY <1>6, <3>3, <4>1 DEF Hold
    <3> QED
      BY <2>3, <3>2, <3>3
  <2>4. ASSUME last # None, NEW p \in Parted(Held), Hold(p)
        PROVE  HeldIsOwed'
    <3>1. p.last = None /\ p.owed = {}
      BY <1>3, <2>1, <2>4, PartedHold
    <3> QED
      BY <1>6, <2>4, <3>1 DEF Hold
  <2>5. CASE Hold(Held)
    BY <1>5, <2>1, <2>5 DEF Hold
  <2> QED
    BY <1>8, <2>1, <2>3, <2>4, <2>5, KeyboardKinds
<1>9. CASE UNCHANGED vars
  BY <1>5, <1>9 DEF vars, hold
<1> QED
  BY <1>7, <1>8, <1>9 DEF Next

(***************************************************************************)
(* As long as every shortcut is in the current context of its component, X *)
(* refuses nothing and the allow-list leaves nothing out, the shortcut     *)
(* that a client saw pressed by a key and not released yet is the one in   *)
(* m_lastShortcut: every press is released, and at most one is pending.    *)
(***************************************************************************)
THEOREM HeldShortcutsAreOwed ==
    ASSUME EverythingAllowed
    PROVE  Spec /\ []Ordinary => []HeldIsOwed
<1>1. Init => HeldIsOwed
  BY DEF Init, HeldIsOwed
<1>2. IInv /\ HeldIsActive /\ HeldIsOwed /\ Ordinary /\ [Next]_vars => HeldIsOwed'
  BY OwedStep
<1> QED
  BY <1>1, <1>2, Inductive, HeldShortcutsAreActive, PTL DEF Spec

-----------------------------------------------------------------------------
(***************************************************************************)
(* Releases end presses.  What is in m_lastShortcut, stale or not, is      *)
(* still owed to its client.                                               *)
(***************************************************************************)
LastIsOwed == last # None => last.slot \in owed

\* The action of the property.
EndsPresses ==
    \A i \in DOMAIN out' :
        out'[i].kind = "Released" =>
            LET before == {j \in 1 .. i - 1 : out'[j].slot = out'[i].slot}
            IN  IF before = {} THEN out'[i].slot \in owed
                ELSE \E j \in before : /\ out'[j].kind # "Released"
                                       /\ \A k \in before : k <= j

\* Steps that tell of no release.
LEMMA NothingReleased ==
    ASSUME \A i \in DOMAIN out' : out'[i].kind # "Released"
    PROVE  EndsPresses
BY DEF EndsPresses

\* Steps that begin by telling of one release, of what is owed.
LEMMA ReleasedFirst ==
    ASSUME NEW s \in owed, NEW rest \in Seq(Signals),
           \A i \in DOMAIN rest : rest[i].kind # "Released",
           out' = <<Signal("Released", s)>> \o rest
    PROVE  EndsPresses
<1>1. /\ out'[1].slot = s /\ 1 .. 1 - 1 = {}
      /\ \A i \in DOMAIN out' \ {1} : out'[i].kind # "Released"
  <2>1. /\ Len(<<Signal("Released", s)>>) = 1
        /\ Len(rest) \in Nat /\ DOMAIN rest = 1 .. Len(rest)
    OBVIOUS
  <2>2. /\ DOMAIN out' = 1 .. 1 + Len(rest)
        /\ out'[1] = Signal("Released", s)
        /\ \A i \in 1 .. Len(rest) : out'[1 + i] = rest[i]
    BY <2>1
  <2>3. ASSUME NEW i \in DOMAIN out' \ {1}
        PROVE  out'[i].kind # "Released"
    <3>1. i - 1 \in 1 .. Len(rest) /\ 1 + (i - 1) = i
      BY <2>1, <2>2
    <3>2. out'[i] = rest[i - 1]
      BY <2>2, <3>1
    <3> QED
      BY <2>1, <3>1, <3>2
  <2> QED
    BY <2>2, <2>3 DEF Signal
<1>2. CASE 1 \in DOMAIN out'
  BY <1>1 DEF EndsPresses
<1>3. CASE 1 \notin DOMAIN out'
  BY <1>1, <1>3 DEF EndsPresses
<1> QED
  BY <1>2, <1>3

\* A key that triggers as a modifier is released: press and release of s,
\* after the release of what was held before, if anything.
LEMMA TappedEndsPresses ==
    ASSUME NEW s, NEW u,
           u = <<>> \/ \E t \in owed : u = <<Signal("Released", t)>>,
           out' = Append(Append(u, Signal("Pressed", s)), Signal("Released", s))
    PROVE  EndsPresses
<1>1. /\ Signal("Pressed", s).kind = "Pressed" /\ Signal("Pressed", s).slot = s
      /\ Signal("Released", s).kind = "Released" /\ Signal("Released", s).slot = s
  BY DEF Signal
<1>2. CASE u = <<>>
  <2>1. out' = <<Signal("Pressed", s), Signal("Released", s)>>
    <3>1. ASSUME NEW a, NEW b
          PROVE  Append(Append(<<>>, a), b) = <<a, b>>
      <4>1. <<>> \in Seq({a, b}) /\ Append(<<>>, a) \in Seq({a, b})
        OBVIOUS
      <4>2. Append(Append(<<>>, a), b) \in Seq({a, b}) /\ <<a, b>> \in Seq({a, b})
        BY <4>1
      <4>3. Len(Append(Append(<<>>, a), b)) = 2 /\ Len(<<a, b>>) = 2
        BY <4>1
      <4>4. \A i \in 1 .. 2 : Append(Append(<<>>, a), b)[i] = <<a, b>>[i]
        BY <4>1
      <4> QED
        BY <4>2, <4>3, <4>4, SeqEqual
    <3> QED
      BY <1>2, <3>1
  <2>2. DOMAIN out' = {1, 2} /\ out'[1] = Signal("Pressed", s)
          /\ out'[2] = Signal("Released", s)
    BY <2>1
  <2>3. ASSUME NEW i \in DOMAIN out', out'[i].kind = "Released",
               NEW before, before = {j \in 1 .. i - 1 : out'[j].slot = out'[i].slot}
        PROVE  1 \in before /\ out'[1].kind # "Released" /\ \A k \in before : k <= 1
    <3>1. i = 2
      BY <1>1, <2>2, <2>3
    <3> QED
      BY <1>1, <2>2, <2>3, <3>1
  <2> QED
    BY <2>3 DEF EndsPresses
<1>3. ASSUME NEW t \in owed, u = <<Signal("Released", t)>>
      PROVE  EndsPresses
  <2>1. Signal("Released", t).slot = t
    BY DEF Signal
  <2>2. out' = <<Signal("Released", t), Signal("Pressed", s), Signal("Released", s)>>
    <3>1. ASSUME NEW a, NEW b, NEW c
          PROVE  Append(Append(<<a>>, b), c) = <<a, b, c>>
      <4>1. <<a>> \in Seq({a, b, c}) /\ Append(<<a>>, b) \in Seq({a, b, c})
        OBVIOUS
      <4>2. /\ Append(Append(<<a>>, b), c) \in Seq({a, b, c})
            /\ <<a, b, c>> \in Seq({a, b, c})
        BY <4>1
      <4>3. Len(Append(Append(<<a>>, b), c)) = 3 /\ Len(<<a, b, c>>) = 3
        BY <4>1
      <4>4. \A i \in 1 .. 3 : Append(Append(<<a>>, b), c)[i] = <<a, b, c>>[i]
        BY <4>1
      <4> QED
        BY <4>2, <4>3, <4>4, SeqEqual
    <3> QED
      BY <1>3, <3>1
  <2>3. /\ DOMAIN out' = {1, 2, 3} /\ out'[1] = Signal("Released", t)
        /\ out'[2] = Signal("Pressed", s) /\ out'[3] = Signal("Released", s)
    <3> DEFINE a == Signal("Released", t)
               b == Signal("Pressed", s)
               c == Signal("Released", s)
    <3>1. out' = <<a, b, c>>
      BY <2>2
    <3> HIDE DEF a, b, c
    <3>2. DOMAIN out' = {1, 2, 3} /\ out'[1] = a /\ out'[2] = b /\ out'[3] = c
      BY ONLY <3>1
    <3> QED
      BY <3>2 DEF a, b, c
  <2>4. ASSUME NEW i \in DOMAIN out', out'[i].kind = "Released",
               NEW before, before = {j \in 1 .. i - 1 : out'[j].slot = out'[i].slot}
        PROVE  \/ before = {} /\ out'[i].slot \in owed
               \/ 2 \in before /\ out'[2].kind # "Released" /\ \A k \in before : k <= 2
    <3>1. CASE i = 1
      BY <2>1, <2>3, <2>4, <3>1
    <3>2. CASE i = 3
      BY <1>1, <2>3, <2>4, <3>2
    <3>3. i # 2
      BY <1>1, <2>3, <2>4
    <3> QED
      BY <2>3, <3>1, <3>2, <3>3
  <2> QED
    BY <2>4 DEF EndsPresses
<1> QED
  BY <1>2, <1>3

LEMMA OwedReleaseStep ==
    ASSUME IInv, EverythingAllowed, LastIsOwed, Next
    PROVE  LastIsOwed' /\ EndsPresses
<1>1. TypeOK /\ owed \subseteq Slots /\ registered \subseteq Slots
  BY DEF IInv, TypeOK
<1>2. \A s \in Slots : Signal("Released", s).slot = s
  BY DEF Signal
<1>3. ASSUME NEW s, NEW kind \in {"Pressed", "Repeated", "Changed"}
      PROVE  Signal(kind, s).kind # "Released"
  BY DEF Signal
<1>4. \A m \in Notices : m \in Seq(Signals) /\ \A i \in DOMAIN m : m[i].kind # "Released"
  <2>1. \A s \in Slots : Signal("Changed", s) \in Signals
    BY DEF Signal, Signals
  <2>2. \A s \in Slots : <<Signal("Changed", s)>> \in Seq(Signals)
    BY <2>1, ShortSequences
  <2>3. \A s \in Slots : \A i \in DOMAIN <<Signal("Changed", s)>> :
          <<Signal("Changed", s)>>[i].kind # "Released"
    BY <1>3
  <2>4. DOMAIN <<>> = {} /\ <<>> \in Seq(Signals)
    OBVIOUS
  <2> QED
    BY <2>2, <2>3, <2>4 DEF Notices
<1>5. CASE Work
  <2>1. CASE Idle
    <3>1. LastIsOwed'
      BY <2>1 DEF Idle, LastIsOwed
    <3>2. \A i \in DOMAIN out' : out'[i].kind # "Released"
      BY <1>3, <2>1 DEF Idle
    <3> QED
      BY <3>1, <3>2, NothingReleased
  <2>2. ASSUME NEW off \in SUBSET registered, NEW on \in SUBSET Slots,
               NEW newKeys \in [Slots -> KeyListType],
               Regrabs(off, on, newKeys)
        PROVE  LastIsOwed' /\ EndsPresses
    <3>1. ASSUME last # None, last' = None, NEW more \in Notices,
                 out' = <<Signal("Released", last.slot)>> \o more
          PROVE  LastIsOwed' /\ EndsPresses
      <4>1. last.slot \in owed
        BY <3>1 DEF LastIsOwed
      <4>2. EndsPresses
        BY <1>4, <3>1, <4>1, ReleasedFirst
      <4> QED
        BY <3>1, <4>2 DEF LastIsOwed
    <3>2. ASSUME owed' = owed, out' \in Notices,
                 last' = last \/ (last # None /\ last' = Dangling(last.slot))
          PROVE  LastIsOwed' /\ EndsPresses
      <4>1. LastIsOwed'
        BY <3>2 DEF LastIsOwed, Dangling
      <4>2. EndsPresses
        BY <1>4, <3>2, NothingReleased
      <4> QED
        BY <4>1, <4>2
    <3> QED
      BY <2>2, <3>1, <3>2, RegrabsHold
  <2>3. ASSUME NEW id \in Ids, AddAction(id)
        PROVE  LastIsOwed' /\ EndsPresses
    <3>1. /\ last' = IF last = Live(Home(id)) THEN Leaked(Home(id)) ELSE last
          /\ owed' = owed /\ out' = <<>>
      BY <2>3 DEF AddAction, Hold, Held
    <3>2. LastIsOwed'
      <4>1. Home(id) \in Slots
        BY <1>1, SlotsOfIds
      <4>2. Leaked(Home(id)).slot = Home(id)
        BY DEF Leaked
      <4> QED
        BY <3>1, <4>1, <4>2, LiveIsNotNone DEF LastIsOwed
    <3>3. EndsPresses
      BY <3>1, NothingReleased
    <3> QED
      BY <3>2, <3>3
  <2> QED
    BY <1>5, <2>1, <2>2, <2>3, WorkKinds DEF Regrabbing
<1>6. CASE Keyboard
  <2>1. Held \in Holds /\ Held.last = last /\ Held.owed = owed /\ Held.out = <<>>
    BY <1>1, HeldType DEF Held
  <2>2. \A s : last # None => last.slot \in owed
    BY DEF LastIsOwed
  <2>3. ASSUME NEW key \in Keys, NEW s \in Slots, NEW kind \in {"Pressed", "Repeated"},
               NEW h \in Fired(Held, s, kind),
               Hold(h) \/ (kind = "Pressed" /\ \E p \in Parted(h) : Hold(p))
        PROVE  LastIsOwed' /\ EndsPresses
    <3>1. <<s.component, s.name>> \in Allowed
      BY DEF EverythingAllowed
    <3>2. PICK o, u : /\ Ended(s, o, u)
                      /\ h.last = Live(s) /\ h.owed = o \cup {s}
                      /\ h.out = Append(u, Signal(kind, s))
      BY <1>1, <3>1, FiredHold
    <3>3. u = <<>> \/ \E t \in owed : u = <<Signal("Released", t)>>
      BY <2>2, <3>2 DEF Ended
    <3>4. CASE Hold(h)
      <4>1. LastIsOwed'
        BY <3>2, <3>4, LiveIsNotNone DEF Hold, LastIsOwed
      <4>2. CASE u = <<>>
        <5>1. out' = <<Signal(kind, s)>>
          BY <3>2, <3>4, <4>2 DEF Hold
        <5>2. \A i \in DOMAIN out' : out'[i].kind # "Released"
          BY <1>3, <5>1
        <5> QED
          BY <4>1, <5>2, NothingReleased
      <4>3. ASSUME NEW t \in owed, u = <<Signal("Released", t)>>
            PROVE  LastIsOwed' /\ EndsPresses
        <5>1. <<Signal(kind, s)>> \in Seq(Signals)
          BY ShortSequences DEF Signal, Signals
        <5>2. \A i \in DOMAIN <<Signal(kind, s)>> : <<Signal(kind, s)>>[i].kind # "Released"
          BY <1>3
        <5>3. out' = Append(u, Signal(kind, s))
          BY <3>2, <3>4 DEF Hold
        <5>4. out' = <<Signal("Released", t)>> \o <<Signal(kind, s)>>
          BY <4>3, <5>3
        <5>5. EndsPresses
          BY <5>1, <5>2, <5>4, ReleasedFirst
        <5> QED
          BY <4>1, <5>5
      <4> QED
        BY <3>3, <4>2, <4>3
    <3>5. ASSUME kind = "Pressed", NEW p \in Parted(h), Hold(p)
          PROVE  LastIsOwed' /\ EndsPresses
      <4>1. h \in Holds
        BY <2>1, FiredType
      <4>2. h.last # None /\ h.last.state = "live" /\ h.last.slot = s
        BY <3>2, LiveIsNotNone
      <4>3. p.last = None /\ p.out = Append(h.out, Signal("Released", s))
        BY <4>1, <4>2, PartedHold
      <4>4. last' = None
            /\ out' = Append(Append(u, Signal("Pressed", s)), Signal("Released", s))
        BY <3>2, <3>5, <4>3 DEF Hold
      <4>5. EndsPresses
        BY <3>3, <4>4, TappedEndsPresses
      <4> QED
        BY <4>4, <4>5 DEF LastIsOwed
    <3> QED
      BY <2>3, <3>4, <3>5
  <2>4. ASSUME last # None, NEW p \in Parted(Held), Hold(p)
        PROVE  LastIsOwed' /\ EndsPresses
    <3>1. /\ p.last = None
          /\ p.out = <<>> \/ p.out = Append(<<>>, Signal("Released", last.slot))
      BY <2>1, PartedHold
    <3>2. last' = None /\ out' = p.out
      BY <2>4, <3>1 DEF Hold
    <3>3. CASE p.out = <<>>
      BY <3>2, <3>3, NothingReleased DEF LastIsOwed
    <3>4. CASE p.out = Append(<<>>, Signal("Released", last.slot))
      <4>1. out' = <<Signal("Released", last.slot)>> \o <<>> /\ <<>> \in Seq(Signals)
        BY <3>2, <3>4
      <4>2. last.slot \in owed
        BY <2>4 DEF LastIsOwed
      <4>3. DOMAIN <<>> = {}
        OBVIOUS
      <4>4. EndsPresses
        BY <4>1, <4>2, <4>3, ReleasedFirst
      <4> QED
        BY <3>2, <4>4 DEF LastIsOwed
    <3> QED
      BY <3>1, <3>3, <3>4
  <2>5. CASE Hold(Held)
    <3>1. last' = last /\ owed' = owed /\ out' = <<>>
      BY <2>1, <2>5 DEF Hold
    <3> QED
      BY <3>1, NothingReleased DEF LastIsOwed
  <2> QED
    BY <1>1, <1>6, <2>3, <2>4, <2>5, KeyboardKinds
<1> QED
  BY <1>5, <1>6 DEF Next

(***************************************************************************)
(* Where the allow-list leaves nothing out, a Released signal always ends  *)
(* a press: none is sent twice or to a client that no key has pressed,     *)
(* whatever is removed, replaced, deactivated or refused, in whatever      *)
(* contexts, and whatever a stale m_lastShortcut is told.                  *)
(***************************************************************************)
THEOREM ReleasesFollowPresses ==
    ASSUME EverythingAllowed
    PROVE  Spec => ReleasesEndPresses
<1>1. Init => LastIsOwed
  BY DEF Init, LastIsOwed
<1>2. IInv /\ LastIsOwed /\ [Next]_vars => LastIsOwed'
  <2>1. ASSUME UNCHANGED vars, LastIsOwed PROVE LastIsOwed'
    BY <2>1 DEF vars, hold, LastIsOwed
  <2> QED
    BY <2>1, OwedReleaseStep
<1>3. IInv /\ LastIsOwed /\ [Next]_vars => [EndsPresses]_vars
  BY OwedReleaseStep
<1>4. Spec => [][EndsPresses]_vars
  BY <1>1, <1>2, <1>3, Inductive, PTL DEF Spec
<1> QED
  BY <1>4, PTL DEF ReleasesEndPresses, EndsPresses
=============================================================================
