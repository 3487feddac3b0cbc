--------------------------- MODULE SettingsProofs ---------------------------
(***************************************************************************)
(* Proofs about module Settings: what the registry promises it promises    *)
(* across crashes, shutdowns, migrations and starts, for any components,   *)
(* applications, desktop files, contents of the settings file and keys.    *)
(***************************************************************************)
EXTENDS Settings, HoldProofs

(***************************************************************************)
(* What is in the file, and what Plasma 5 left, are key lists of slots.    *)
(***************************************************************************)
FileOK ==
    \A c \in Components : file[c].contexts \subseteq Contexts /\ KeysOf(c, file[c].keys)

OldOK ==
    \A c \in Apps : KeysOf(c, [s \in DOMAIN old[c] |-> old[c][s].keys])

(***************************************************************************)
(* Before the settings are loaded, and after the daemon has stopped, there *)
(* are no components; the refresh timer runs only while the daemon is up.  *)
(***************************************************************************)
LifeOK ==
    /\ phase \in {"down", "migrating", "loading", "detecting", "up"}
    /\ phase \in {"down", "migrating"} => Created = {}
    /\ installed \subseteq Apps
    /\ kind \in [Apps -> DOMAIN Desktop]
    /\ refreshDue \in BOOLEAN
    /\ refreshDue => phase = "up"

(***************************************************************************)
(* Shortcuts and contexts belong to components that exist.                 *)
(***************************************************************************)
PlacesOK ==
    /\ \A s \in live : s.component \in Created
    /\ \A c \in Components : contexts[c] # {} => c \in Created

(***************************************************************************)
(* The components of applications are those that are installed, but for    *)
(* what refreshServices has yet to find out.                               *)
(***************************************************************************)
AppsOK == ~refreshDue => Created \cap Apps \subseteq installed

SInv == IInv /\ FileOK /\ OldOK /\ LifeOK /\ PlacesOK /\ AppsOK

-----------------------------------------------------------------------------
(***************************************************************************)
(* Components come and go.                                                 *)
(***************************************************************************)

\* A component that is created comes last.
LEMMA CreatedAppend ==
    ASSUME TypeOK, NEW c \in Components, components' = Append(components, c)
    PROVE  Created' = Created \cup {c}
<1>1. components \in Seq(Components)
  BY DEF TypeOK
<1>2. /\ DOMAIN components = 1 .. Len(components)
      /\ DOMAIN components' = 1 .. Len(components) + 1
      /\ \A i \in 1 .. Len(components) : components'[i] = components[i]
      /\ components'[Len(components) + 1] = c
  BY <1>1
<1>3. PICK m \in Nat : m = Len(components)
  BY <1>1
<1>4. 1 .. m + 1 = (1 .. m) \cup {m + 1}
  BY <1>3
<1>5. DOMAIN components' = DOMAIN components \cup {Len(components) + 1}
  BY <1>2, <1>3, <1>4, Zenon
<1> QED
  BY <1>2, <1>5 DEF Created

\* Steps after which there are the same components, contexts and shortcuts,
\* or fewer shortcuts.
LEMMA PlacesStay ==
    ASSUME PlacesOK, live' \subseteq live,
           components' = components, contexts' = contexts
    PROVE  PlacesOK' /\ Created' = Created
BY DEF PlacesOK, Created

LEMMA PlacesErase ==
    ASSUME IInv, PlacesOK, NEW idle, NEW doomed, NEW gone \in SUBSET Created,
           Retire(idle, doomed, gone), Erase(gone)
    PROVE  PlacesOK' /\ Created' = Created \ gone
<1> DEFINE dead == doomed \cup {s \in live : s.component \in gone}
<1>1. live' = live \ dead
  BY DEF Retire
<1>2. /\ Created' = Created \ gone
      /\ contexts' = [c \in Components |-> IF c \in gone THEN {} ELSE contexts[c]]
  BY DEF Erase, Created
<1>3. \A s \in live' : s.component \in Created'
  BY <1>1, <1>2 DEF PlacesOK
<1>4. \A c \in Components : contexts'[c] # {} => c \in Created'
  BY <1>2 DEF PlacesOK
<1> QED
  BY <1>2, <1>3, <1>4 DEF PlacesOK

LEMMA PlacesAddAction ==
    ASSUME IInv, PlacesOK, NEW id \in Ids, AddAction(id)
    PROVE  PlacesOK' /\ Created' = Created \cup {id.component}
<1> DEFINE s == Home(id)
           c == id.component
<1>1. /\ components' = IF contexts[c] = {} THEN Append(components, c) ELSE components
      /\ contexts' = [contexts EXCEPT ![c] = @ \cup {Default, s.context}]
      /\ live' = live \cup {s}
      /\ s.component = c
  BY DEF AddAction, Home
<1>2. c \in Components /\ contexts \in [Components -> SUBSET Contexts]
  BY IdsAssumption DEF IInv, TypeOK
<1>3. Created' = Created \cup {c}
  <2>1. CASE contexts[c] = {}
    BY <1>1, <1>2, <2>1, CreatedAppend DEF IInv
  <2>2. CASE contexts[c] # {}
    <3>1. components' = components
      BY <1>1, <2>2
    <3>2. c \in Created
      BY <1>2, <2>2 DEF PlacesOK
    <3> QED
      BY <3>1, <3>2 DEF Created
  <2> QED
    BY <2>1, <2>2
<1>4. \A t \in live' : t.component \in Created'
  BY <1>1, <1>3 DEF PlacesOK
<1>5. \A d \in Components : contexts'[d] # {} => d \in Created'
  BY <1>1, <1>2, <1>3 DEF PlacesOK
<1> QED
  BY <1>3, <1>4, <1>5 DEF PlacesOK

-----------------------------------------------------------------------------
(***************************************************************************)
(* Loading.                                                                *)
(***************************************************************************)

\* An assignment of key lists to slots of component c, which does not exist.
Wants(c, wanted) == c \in Components \ Created /\ KeysOf(c, wanted)

LEMMA WantsTypes ==
    ASSUME IInv, PlacesOK, NEW c, NEW wanted, Wants(c, wanted)
    PROVE  /\ DOMAIN wanted \in SUBSET Slots
           /\ \A s \in DOMAIN wanted : s.component = c /\ wanted[s] \in KeyListType
           /\ \A s \in live : s.component # c
           /\ DOMAIN wanted \cap live = {}
BY DEF Wants, KeysOf, KeyListType, PlacesOK

\* What is loaded for the slots of wanted.
LoadedKeys(wanted, accepted) ==
    [s \in DOMAIN wanted |->
        [i \in DOMAIN wanted[s] |-> IF <<s, i>> \in accepted THEN wanted[s][i] ELSE <<>>]]

LoadActive(c, wanted) == IF c \in Apps THEN DOMAIN wanted ELSE {}

LoadClaimed(c, wanted, accepted) ==
    Claimed(LoadActive(c, wanted), LoadedKeys(wanted, accepted), DOMAIN activeKeys)

LoadOwner(c, wanted, accepted, k) ==
    CHOOSE s \in LoadActive(c, wanted) : k \in KeySet(LoadedKeys(wanted, accepted)[s])

\* Load once more, by those names.
Loads(c, wanted, added, rank, accepted) ==
    LET claimed == LoadClaimed(c, wanted, accepted)
    IN  /\ PastFilter(wanted, rank, accepted)
        /\ components' = Append(components, c)
        /\ contexts' = [contexts EXCEPT ![c] = {Default} \cup {s.context : s \in added}
                          \cup IF c \in Apps THEN {} ELSE file[c].contexts]
        /\ live' = live \cup DOMAIN wanted \cup added
        /\ keys' = [s \in Slots |-> IF s \in added THEN <<>>
                                    ELSE IF s \in DOMAIN wanted
                                         THEN LoadedKeys(wanted, accepted)[s] ELSE keys[s]]
        /\ present' = present \cup (LoadActive(c, wanted) \ added)
        /\ registered' = registered \cup (LoadActive(c, wanted) \ added)
        /\ fresh' = fresh \cup added
        /\ activeKeys' = [k \in DOMAIN activeKeys \cup claimed |->
                            IF k \in DOMAIN activeKeys THEN activeKeys[k]
                            ELSE IF LoadOwner(c, wanted, accepted, k) \in added
                                 THEN Leaked(LoadOwner(c, wanted, accepted, k))
                                 ELSE Live(LoadOwner(c, wanted, accepted, k))]
        /\ keysCount' = [x \in Chords |-> keysCount[x] + Cardinality(Uses(x, claimed))]
        /\ grabbed' = grabbed \cup {x \in Chords : Uses(x, claimed) # {}}
        /\ Quiet
        /\ UNCHANGED <<current, refused, writeout>>

LEMMA LoadForm ==
    ASSUME NEW c, NEW wanted, NEW added, Load(c, wanted, added)
    PROVE  \E rank \in Orders, accepted \in SUBSET Places(wanted) :
              Loads(c, wanted, added, rank, accepted)
BY DEF Load, Loads, LoadedKeys, LoadActive, LoadClaimed, LoadOwner

LEMMA LoadedType ==
    ASSUME IInv, PlacesOK, NEW c, NEW wanted, Wants(c, wanted), NEW accepted
    PROVE  \A s \in DOMAIN wanted : LoadedKeys(wanted, accepted)[s] \in KeyListType
<1>1. ASSUME NEW s \in DOMAIN wanted
      PROVE  LoadedKeys(wanted, accepted)[s] \in KeyListType
  <2>1. wanted[s] \in KeyListType
    BY WantsTypes
  <2>2. LoadedKeys(wanted, accepted)[s]
          = [i \in DOMAIN wanted[s] |-> IF <<s, i>> \in accepted THEN wanted[s][i] ELSE <<>>]
    BY DEF LoadedKeys
  <2> DEFINE chosen == {i \in DOMAIN wanted[s] : <<s, i>> \in accepted}
  <2>3. LoadedKeys(wanted, accepted)[s]
          = [i \in DOMAIN wanted[s] |-> IF i \in chosen THEN wanted[s][i] ELSE <<>>]
    BY <2>2
  <2>4. [i \in DOMAIN wanted[s] |-> IF i \in chosen THEN wanted[s][i] ELSE <<>>]
          \in KeyListType
    BY <2>1, FilterType
  <2> QED
    BY <2>3, <2>4
<1> QED
  BY <1>1

\* Whoever takes a key while loading has it.
LEMMA LoadOwnerType ==
    ASSUME NEW c, NEW wanted, NEW accepted, NEW k \in LoadClaimed(c, wanted, accepted)
    PROVE  /\ LoadOwner(c, wanted, accepted, k) \in LoadActive(c, wanted)
           /\ k \in KeySet(LoadedKeys(wanted, accepted)[LoadOwner(c, wanted, accepted, k)])
<1>1. \E s \in LoadActive(c, wanted) : k \in KeySet(LoadedKeys(wanted, accepted)[s])
  BY DEF LoadClaimed, Claimed
<1> QED
  BY <1>1 DEF LoadOwner

LEMMA LoadTypes ==
    ASSUME IInv, FileOK, PlacesOK, NEW c, NEW wanted, Wants(c, wanted),
           NEW added \in SUBSET Slots, \A s \in added : s.component = c,
           NEW rank, NEW accepted, Loads(c, wanted, added, rank, accepted)
    PROVE  TypeOK'
<1> DEFINE active  == LoadActive(c, wanted)
           claimed == LoadClaimed(c, wanted, accepted)
<1>1. c \in Components /\ DOMAIN wanted \in SUBSET Slots
  BY WantsTypes DEF Wants
<1>2. active \in SUBSET Slots /\ active \subseteq DOMAIN wanted
  BY <1>1 DEF LoadActive
<1>3. components' \in Seq(Components)
  BY <1>1 DEF Loads, IInv, TypeOK
<1>4. contexts' \in [Components -> SUBSET Contexts]
  <2>1. \A s \in added : s.context \in Contexts
    BY DEF Slots
  <2>2. file[c].contexts \subseteq Contexts
    BY <1>1 DEF FileOK
  <2>3. {Default} \cup {s.context : s \in added}
          \cup (IF c \in Apps THEN {} ELSE file[c].contexts) \in SUBSET Contexts
    BY <2>1, <2>2, ContextsAssumption
  <2> QED
    BY <1>1, <2>3 DEF Loads, IInv, TypeOK
<1>5. /\ live' \in SUBSET Slots /\ present' \in SUBSET Slots
      /\ registered' \in SUBSET Slots /\ fresh' \in SUBSET Slots
  BY <1>1, <1>2 DEF Loads, IInv, TypeOK
<1>6. keys' \in [Slots -> KeyListType]
  <2>1. \A s \in DOMAIN wanted : LoadedKeys(wanted, accepted)[s] \in KeyListType
    BY LoadedType
  <2>2. <<>> \in KeyListType /\ keys \in [Slots -> KeyListType]
    BY DEF IInv, TypeOK, KeyListType
  <2>3. keys' = [s \in Slots |-> IF s \in added THEN <<>>
                                 ELSE IF s \in DOMAIN wanted
                                      THEN LoadedKeys(wanted, accepted)[s] ELSE keys[s]]
    BY DEF Loads
  <2> QED
    BY <2>1, <2>2, <2>3
<1>7. claimed \in SUBSET Keys
  <2>1. \A k \in claimed : \E s \in DOMAIN wanted : k \in KeySet(LoadedKeys(wanted, accepted)[s])
    BY <1>2 DEF LoadClaimed, Claimed
  <2> QED
    BY <2>1, LoadedType, KeySetType
<1>8. /\ DOMAIN activeKeys' \in SUBSET Keys
      /\ activeKeys' \in [DOMAIN activeKeys' -> Objects]
  <2> DEFINE o(k) == LoadOwner(c, wanted, accepted, k)
  <2>1. activeKeys' = [k \in DOMAIN activeKeys \cup claimed |->
                          IF k \in DOMAIN activeKeys THEN activeKeys[k]
                          ELSE IF o(k) \in added THEN Leaked(o(k)) ELSE Live(o(k))]
    BY DEF Loads
  <2>2. \A k \in claimed : o(k) \in Slots
    BY <1>2, LoadOwnerType
  <2>3. \A k \in claimed : Leaked(o(k)) \in Objects /\ Live(o(k)) \in Objects
    BY <2>2 DEF Leaked, Live, Objects
  <2>4. /\ DOMAIN activeKeys \in SUBSET Keys
        /\ \A k \in DOMAIN activeKeys : activeKeys[k] \in Objects
    BY DEF IInv, TypeOK
  <2> HIDE DEF o, claimed
  <2> QED
    BY <1>7, <2>1, <2>3, <2>4
<1>9. /\ last' \in Objects \cup {None}
      /\ owed' \in SUBSET Slots
      /\ out' \in Seq(Signals)
  BY HeldType, HoldType DEF Loads, IInv, Quiet
<1>10. keysCount' \in [Chords -> Nat] /\ grabbed' \in SUBSET Chords
  <2>1. \A x \in Chords : Cardinality(Uses(x, claimed)) \in Nat
    BY <1>7, UsesPositive
  <2>2. \A x \in Chords : keysCount[x] \in Nat
    BY DEF IInv, TypeOK
  <2>3. \A x \in Chords : keysCount[x] + Cardinality(Uses(x, claimed)) \in Nat
    BY <2>1, <2>2
  <2> QED
    BY <2>3 DEF Loads, IInv, TypeOK
<1>11. /\ current' \in [Components -> Contexts]
       /\ refused' \in SUBSET Refusable /\ writeout' \in BOOLEAN
  BY DEF Loads, IInv, TypeOK
<1> QED
  BY <1>3, <1>4, <1>5, <1>6, <1>8, <1>9, <1>10, <1>11 DEF TypeOK, KeyListType

LEMMA LoadAccounts ==
    ASSUME IInv, PlacesOK, NEW c, NEW wanted, Wants(c, wanted), NEW added,
           NEW rank, NEW accepted, Loads(c, wanted, added, rank, accepted)
    PROVE  GrabAccounting'
<1> DEFINE claimed == LoadClaimed(c, wanted, accepted)
<1>1. claimed \in SUBSET Keys /\ claimed \cap DOMAIN activeKeys = {}
  <2>1. \A k \in claimed : \E s \in DOMAIN wanted : k \in KeySet(LoadedKeys(wanted, accepted)[s])
    BY DEF LoadClaimed, Claimed, LoadActive
  <2>2. claimed \in SUBSET Keys
    BY <2>1, LoadedType, KeySetType
  <2> QED
    BY <2>2 DEF LoadClaimed, Claimed
<1>2. DOMAIN activeKeys \in SUBSET Keys
  BY DEF IInv, TypeOK
<1>3. /\ DOMAIN activeKeys' = DOMAIN activeKeys \cup claimed
      /\ keysCount' = [x \in Chords |-> keysCount[x] + Cardinality(Uses(x, claimed))]
      /\ grabbed' = grabbed \cup {x \in Chords : Uses(x, claimed) # {}}
  BY DEF Loads
<1>4. ASSUME NEW x \in Chords
      PROVE  /\ keysCount'[x] = Cardinality(Uses(x, DOMAIN activeKeys'))
             /\ x \in grabbed' <=> keysCount'[x] > 0
  <2> DEFINE p == Cardinality(Uses(x, DOMAIN activeKeys))
             q == Cardinality(Uses(x, claimed))
  <2>1. p \in Nat /\ q \in Nat /\ (q > 0 <=> Uses(x, claimed) # {})
    BY <1>1, <1>2, UsesPositive
  <2>2. keysCount[x] = p /\ (x \in grabbed <=> p > 0)
    BY DEF IInv, GrabAccounting
  <2>3. Cardinality(Uses(x, DOMAIN activeKeys \cup claimed)) = p + q
    BY <1>1, <1>2, UsesAdd
  <2>4. Cardinality(Uses(x, DOMAIN activeKeys')) = p + q
    BY <1>3, <2>3, Zenon
  <2>5. keysCount'[x] = p + q
    BY <1>3, <2>2
  <2>6. x \in grabbed' <=> x \in grabbed \/ Uses(x, claimed) # {}
    BY <1>3
  <2> HIDE DEF p, q
  <2> QED
    BY <2>1, <2>2, <2>4, <2>5, <2>6
<1> QED
  BY <1>4 DEF GrabAccounting

LEMMA LoadOwners ==
    ASSUME IInv, PlacesOK, NEW c, NEW wanted, Wants(c, wanted),
           NEW added \in SUBSET Slots, \A s \in added : s.component = c,
           NEW rank, NEW accepted, Loads(c, wanted, added, rank, accepted)
    PROVE  OwnersSound'
<1> DEFINE active  == LoadActive(c, wanted)
           claimed == LoadClaimed(c, wanted, accepted)
           o(k)    == LoadOwner(c, wanted, accepted, k)
<1>1. /\ DOMAIN wanted \in SUBSET Slots /\ DOMAIN wanted \cap live = {}
      /\ added \cap live = {}
  BY WantsTypes
<1>2. active \subseteq DOMAIN wanted
  BY DEF LoadActive
<1>3. /\ live' = live \cup DOMAIN wanted \cup added
      /\ present' = present \cup (active \ added)
      /\ registered' = registered \cup (active \ added)
      /\ keys' = [s \in Slots |-> IF s \in added THEN <<>>
                                  ELSE IF s \in DOMAIN wanted
                                       THEN LoadedKeys(wanted, accepted)[s] ELSE keys[s]]
      /\ activeKeys' = [k \in DOMAIN activeKeys \cup claimed |->
                          IF k \in DOMAIN activeKeys THEN activeKeys[k]
                          ELSE IF o(k) \in added THEN Leaked(o(k)) ELSE Live(o(k))]
  BY DEF Loads
<1>4. registered' \subseteq present' /\ present' \subseteq live'
  BY <1>2, <1>3 DEF IInv, OwnersSound
<1>5. ASSUME NEW k \in DOMAIN activeKeys
      PROVE  \/ activeKeys'[k].state = "leaked"
             \/ /\ activeKeys'[k].state = "live"
                /\ activeKeys'[k].slot \in registered'
                /\ k \in KeySet(keys'[activeKeys'[k].slot])
  <2>1. activeKeys'[k] = activeKeys[k]
    BY <1>3
  <2>2. CASE activeKeys[k].state = "leaked"
    BY <2>1, <2>2
  <2>3. CASE /\ activeKeys[k].state = "live"
             /\ activeKeys[k].slot \in registered
             /\ k \in KeySet(keys[activeKeys[k].slot])
    <3>1. activeKeys[k].slot \in live /\ activeKeys[k].slot \in Slots
      BY <2>3 DEF IInv, OwnersSound, TypeOK
    <3>2. keys'[activeKeys[k].slot] = keys[activeKeys[k].slot]
      BY <1>1, <1>3, <3>1
    <3> QED
      BY <1>3, <2>1, <2>3, <3>2
  <2> QED
    BY <2>2, <2>3 DEF IInv, OwnersSound
<1>6. ASSUME NEW k \in claimed, k \notin DOMAIN activeKeys
      PROVE  \/ activeKeys'[k].state = "leaked"
             \/ /\ activeKeys'[k].state = "live"
                /\ activeKeys'[k].slot \in registered'
                /\ k \in KeySet(keys'[activeKeys'[k].slot])
  <2>1. o(k) \in active /\ k \in KeySet(LoadedKeys(wanted, accepted)[o(k)])
    BY LoadOwnerType
  <2>2. activeKeys'[k] = IF o(k) \in added THEN Leaked(o(k)) ELSE Live(o(k))
    BY <1>3, <1>6
  <2> HIDE DEF o, active
  <2>3. CASE o(k) \in added
    BY <2>2, <2>3 DEF Leaked
  <2>4. CASE o(k) \notin added
    <3>1. o(k) \in registered' /\ keys'[o(k)] = LoadedKeys(wanted, accepted)[o(k)]
      BY <1>1, <1>2, <1>3, <2>1, <2>4
    <3>2. activeKeys'[k] = Live(o(k))
      BY <2>2, <2>4
    <3>3. activeKeys'[k].state = "live" /\ activeKeys'[k].slot = o(k)
      BY <3>2 DEF Live
    <3> QED
      BY <2>1, <3>1, <3>3
  <2> QED
    BY <2>3, <2>4
<1>7. DOMAIN activeKeys' = DOMAIN activeKeys \cup claimed
  BY <1>3
<1> HIDE DEF claimed, active
<1> QED
  BY <1>4, <1>5, <1>6, <1>7 DEF OwnersSound

LEMMA LoadPlaces ==
    ASSUME IInv, PlacesOK, NEW c, NEW wanted, Wants(c, wanted),
           NEW added, \A s \in added : s.component = c,
           NEW rank, NEW accepted, Loads(c, wanted, added, rank, accepted)
    PROVE  PlacesOK' /\ Created' = Created \cup {c}
<1>1. c \in Components /\ \A s \in DOMAIN wanted : s.component = c
  BY WantsTypes DEF Wants
<1>2. Created' = Created \cup {c}
  BY <1>1, CreatedAppend DEF Loads, IInv
<1>3. \A s \in live' : s.component \in Created'
  BY <1>1, <1>2 DEF Loads, PlacesOK
<1>4. \A d \in Components : contexts'[d] # {} => d \in Created'
  BY <1>1, <1>2 DEF Loads, PlacesOK, IInv, TypeOK
<1> QED
  BY <1>2, <1>3, <1>4 DEF PlacesOK

\* Loading a component that does not exist.
LEMMA LoadStep ==
    ASSUME IInv, FileOK, PlacesOK, NEW c, NEW wanted, Wants(c, wanted),
           NEW added \in SUBSET Slots, \A s \in added : s.component = c,
           Load(c, wanted, added)
    PROVE  IInv' /\ PlacesOK' /\ Created' = Created \cup {c}
<1>1. PICK rank \in Orders, accepted \in SUBSET Places(wanted) :
        Loads(c, wanted, added, rank, accepted)
  BY LoadForm
<1>2. TypeOK'
  BY <1>1, LoadTypes
<1>3. GrabAccounting'
  BY <1>1, LoadAccounts
<1>4. OwnersSound'
  BY <1>1, LoadOwners
<1> QED
  BY <1>1, <1>2, <1>3, <1>4, LoadPlaces DEF IInv

-----------------------------------------------------------------------------
(***************************************************************************)
(* What is read and written is well typed.                                 *)
(***************************************************************************)
LEMMA ServiceWants ==
    ASSUME IInv, FileOK, LifeOK, NEW c \in Apps \ Created
    PROVE  Wants(c, FromService(c)) /\ Wants(c, FromGroup(c))
<1>1. c \in Components /\ kind[c] \in DOMAIN Desktop
  BY AppsAssumption DEF LifeOK
<1>2. ASSUME NEW s \in ServiceSlots(c)
      PROVE  s \in Slots /\ s.component = c /\ FileKeys(s) \in KeyListType
  <2>1. /\ s.component = c /\ s.context = Default
        /\ s.name \in DOMAIN Desktop[kind[c]]
        /\ s = [component |-> s.component, context |-> s.context, name |-> s.name]
    BY DEF ServiceSlots
  <2>2. /\ s.name \in Names
        /\ Desktop[kind[c]][s.name] \in Seq(Keys \cup {<<>>})
    BY <1>1, <2>1, DesktopAssumption
  <2> QED
    BY <1>1, <2>1, <2>2, ContextsAssumption DEF Slots, FileKeys, KeyListType
<1>3. KeysOf(c, FromService(c))
  BY <1>2 DEF KeysOf, FromService, KeyListType
<1>4. KeysOf(c, file[c].keys)
  BY <1>1 DEF FileOK
<1>5. KeysOf(c, FromGroup(c))
  BY <1>2, <1>4 DEF KeysOf, FromGroup, KeyListType
<1> QED
  BY <1>1, <1>3, <1>5 DEF Wants

\* The two fields of a group.
LEMMA GroupType ==
    ASSUME IInv, NEW c \in Components, NEW remaining \in SUBSET Slots
    PROVE  /\ Group(c, remaining).contexts \subseteq Contexts
           /\ KeysOf(c, Group(c, remaining).keys)
<1> DEFINE saved == {s \in remaining \ fresh :
                       s.component = c /\ (c \in Apps => keys[s] # defaults[s])}
           x == IF c \in Apps THEN {s.context : s \in saved} ELSE contexts[c]
           y == [s \in saved |-> keys[s]]
<1>1. Group(c, remaining).contexts = x /\ Group(c, remaining).keys = y
  BY DEF Group
<1>2. \A s \in saved : s \in Slots /\ s.component = c /\ s.context \in Contexts
  BY DEF Slots
<1>3. contexts[c] \subseteq Contexts /\ keys \in [Slots -> Seq(Keys \cup {<<>>})]
  BY DEF IInv, TypeOK
<1>4. DOMAIN y = saved /\ \A s \in saved : y[s] = keys[s]
  OBVIOUS
<1>5. x \subseteq Contexts
  BY <1>2, <1>3
<1>6. \A s \in saved : keys[s] \in Seq(Keys \cup {<<>>})
  BY <1>2, <1>3
<1>7. y \in [saved -> Seq(Keys \cup {<<>>})]
  BY <1>6
<1> HIDE DEF saved, x, y
<1>8. KeysOf(c, y)
  BY <1>2, <1>4, <1>7 DEF KeysOf
<1> QED
  BY <1>1, <1>5, <1>8

LEMMA NoGroupType ==
    ASSUME NEW c
    PROVE  NoGroup.contexts = {} /\ DOMAIN NoGroup.keys = {} /\ KeysOf(c, NoGroup.keys)
BY DEF NoGroup, NoKeys, KeysOf

LEMMA WrittenType ==
    ASSUME IInv, FileOK, NEW remaining \in SUBSET Slots, file' = Written(remaining)
    PROVE  FileOK'
<1>1. ASSUME NEW c \in Components
      PROVE  file'[c].contexts \subseteq Contexts /\ KeysOf(c, file'[c].keys)
  <2>1. file'[c] = IF c \notin Created THEN file[c]
                   ELSE IF c \in Spent(remaining) THEN NoGroup ELSE Group(c, remaining)
    BY DEF Written
  <2>2. CASE file'[c] = file[c]
    BY <2>2 DEF FileOK
  <2>3. CASE file'[c] = NoGroup
    BY <2>3, NoGroupType
  <2>4. CASE file'[c] = Group(c, remaining)
    BY <2>4, GroupType
  <2> QED
    BY <2>1, <2>2, <2>3, <2>4
<1> QED
  BY <1>1 DEF FileOK

\* Where a shortcut came from has the keys it had there.
LEMMA SourceType ==
    ASSUME FileOK, NEW s \in Moved
    PROVE  /\ s \in Slots
           /\ Source(s)[From[s]] \in Seq(Keys \cup {<<>>})
<1>1. s \in DOMAIN From /\ From[s] \in DOMAIN Source(s)
  BY DEF Moved
<1>2. s \in Slots /\ From[s] \in Slots
  BY <1>1, FromAssumption
<1>3. From[s].component \in Components
  BY <1>2 DEF Slots
<1> QED
  BY <1>1, <1>2, <1>3 DEF FileOK, KeysOf, Source

LEMMA NewKeysType ==
    ASSUME FileOK, OldOK, NEW c \in Apps
    PROVE  KeysOf(c, NewKeys(c))
<1> DEFINE new == DOMAIN file[c].keys \cup Changed(c) \cup {t \in Brought : t.component = c}
           new2(s) == IF s \in Brought /\ (kind[c] = "hotkey" => s \notin Changed(c))
                      THEN Source(s)[From[s]]
                      ELSE IF s \in Changed(c) THEN old[c][s].keys ELSE file[c].keys[s]
<1>1. c \in Components
  BY AppsAssumption
<1>2. KeysOf(c, file[c].keys) /\ KeysOf(c, [s \in DOMAIN old[c] |-> old[c][s].keys])
  BY <1>1 DEF FileOK, OldOK
<1>3. \A s \in Changed(c) : /\ s \in Slots /\ s.component = c
                            /\ old[c][s].keys \in Seq(Keys \cup {<<>>})
  BY <1>2 DEF Changed, KeysOf
<1>4. \A s \in Brought : s \in Slots /\ Source(s)[From[s]] \in Seq(Keys \cup {<<>>})
  BY SourceType DEF Brought
<1>5. NewKeys(c) = [s \in new |-> new2(s)]
  BY DEF NewKeys
<1>6. ASSUME NEW s \in new
      PROVE  s \in Slots /\ s.component = c /\ new2(s) \in Seq(Keys \cup {<<>>})
  BY <1>2, <1>3, <1>4, <1>6 DEF KeysOf
<1> HIDE DEF new, new2
<1> QED
  BY <1>5, <1>6 DEF KeysOf

LEMMA LeftOfType ==
    ASSUME FileOK, NEW c \in Components
    PROVE  LeftOf(c).contexts \subseteq Contexts /\ KeysOf(c, LeftOf(c).keys)
<1> DEFINE gone == {From[s] : s \in {t \in Moved : From[t].component = c}}
           kept == [s \in DOMAIN file[c].keys \ gone |-> file[c].keys[s]]
<1>1. file[c].contexts \subseteq Contexts /\ KeysOf(c, file[c].keys)
  BY DEF FileOK
<1>2. KeysOf(c, kept)
  <2> HIDE DEF gone
  <2> QED
    BY <1>1 DEF KeysOf
<1>3. \/ LeftOf(c) = NoGroup
      \/ LeftOf(c) = [contexts |-> file[c].contexts, keys |-> kept]
  BY DEF LeftOf
<1> HIDE DEF kept
<1>4. CASE LeftOf(c) = [contexts |-> file[c].contexts, keys |-> kept]
  BY <1>1, <1>2, <1>4
<1>5. CASE LeftOf(c) = NoGroup
  BY <1>5, NoGroupType
<1> QED
  BY <1>3, <1>4, <1>5

LEMMA MigratedType ==
    ASSUME FileOK, OldOK, file' = Migrated
    PROVE  FileOK'
<1>1. ASSUME NEW c \in Components
      PROVE  file'[c].contexts \subseteq Contexts /\ KeysOf(c, file'[c].keys)
  <2>1. file'[c] = IF c \in Apps THEN AppGroup(NewKeys(c)) ELSE LeftOf(c)
    BY DEF Migrated
  <2>2. CASE c \in Apps
    <3>1. KeysOf(c, NewKeys(c))
      BY <2>2, NewKeysType
    <3>2. /\ file'[c].contexts = {s.context : s \in DOMAIN NewKeys(c)}
          /\ file'[c].keys = NewKeys(c)
      BY <2>1, <2>2 DEF AppGroup
    <3>3. \A s \in DOMAIN NewKeys(c) : s.context \in Contexts
      BY <3>1 DEF KeysOf, Slots
    <3> QED
      BY <3>1, <3>2, <3>3
  <2>3. CASE c \notin Apps
    BY <2>1, <2>3, LeftOfType
  <2> QED
    BY <2>2, <2>3
<1> QED
  BY <1>1 DEF FileOK

-----------------------------------------------------------------------------
(***************************************************************************)
(* Every step preserves the invariant.                                     *)
(***************************************************************************)

\* What the daemon does while it is up, and what the timer does, are steps of
\* the registry.
LEMMA ServeIsWork == Serve => Work
<1> SUFFICES ASSUME Serve PROVE Work
  OBVIOUS
<1>1. CASE \E id \in Ids : SetDefaults(id) \/ Register(id) \/ ChangeKeys(id) \/ Withdraw(id)
  <2>1. PICK id \in Ids : SetDefaults(id) \/ Register(id) \/ ChangeKeys(id) \/ Withdraw(id)
    BY <1>1
  <2>2. Request(id)
    BY <2>1 DEF SetDefaults, Register, ChangeKeys, Withdraw, Request
  <2> QED
    BY <2>2 DEF Work
<1>2. CASE \/ \E c \in Components, context \in Contexts :
                ActivateContext(c, context) \/ CreateContext(c, context)
           \/ BlockGlobalShortcuts
           \/ UnblockGlobalShortcuts
  BY <1>2 DEF Work, Housekeeping
<1> QED
  BY <1>1, <1>2 DEF Serve

LEMMA WriteOutIsWork == WriteOut => Work
BY DEF WriteOut, Work, Housekeeping

LEMMA ForgetIsWork ==
    ASSUME NEW c \in Components, Forget(c)
    PROVE  Work
BY DEF Forget, Work, Housekeeping

LEMMA WorkInv ==
    ASSUME IInv, Work
    PROVE  IInv'
BY NextInv DEF Next

\* A request creates no component of an application.
LEMMA ServePlaces ==
    ASSUME IInv, PlacesOK, Serve
    PROVE  PlacesOK' /\ Created \subseteq Created' /\ Created' \cap Apps = Created \cap Apps
<1>1. ASSUME NEW id \in Ids, Register(id) \/ ChangeKeys(id) \/ Withdraw(id)
      PROVE  PlacesOK' /\ Created \subseteq Created' /\ Created' \cap Apps = Created \cap Apps
  <2>1. CASE (id.component \in Apps => id.component \in Created) /\ AddAction(id)
    <3>1. PlacesOK' /\ Created' = Created \cup {id.component}
      BY <2>1, PlacesAddAction
    <3> QED
      BY <2>1, <3>1
  <2>2. CASE Unregister(id)
    <3>1. live' \subseteq live /\ components' = components /\ contexts' = contexts
      BY <2>2 DEF Unregister, Delete, Retire, place
    <3> QED
      BY <3>1, PlacesStay
  <2>3. CASE \/ Rename(id) \/ Autoload(id) \/ SetInactive(id)
             \/ \E list \in KeyLists :
                  \/ \E setPresent, autoloading \in BOOLEAN :
                        SetShortcutKeys(id, list, setPresent, autoloading)
                  \/ SetForeignShortcutKeys(id, list)
    <3>1. live' = live /\ components' = components /\ contexts' = contexts
      BY <2>3 DEF Rename, Autoload, SetInactive, SetShortcutKeys, SetForeignShortcutKeys,
                  SetKeys, place, book
    <3> QED
      BY <3>1, PlacesStay
  <2> QED
    BY <1>1, <2>1, <2>2, <2>3 DEF Register, ChangeKeys, Withdraw
<1>2. ASSUME NEW id \in Ids, SetDefaults(id)
      PROVE  PlacesOK' /\ Created' = Created
  <2>1. live' = live /\ components' = components /\ contexts' = contexts
    BY <1>2 DEF SetDefaults, SetDefaultKeys, place, book
  <2> QED
    BY <2>1, PlacesStay
<1>3. CASE \/ \E c \in Components, context \in Contexts : ActivateContext(c, context)
           \/ BlockGlobalShortcuts
           \/ UnblockGlobalShortcuts
  <2>1. live' = live /\ components' = components /\ contexts' = contexts
    BY <1>3 DEF ActivateContext, BlockGlobalShortcuts, UnblockGlobalShortcuts, place
  <2> QED
    BY <2>1, PlacesStay
<1>4. ASSUME NEW c \in Components, NEW context \in Contexts, CreateContext(c, context)
      PROVE  PlacesOK' /\ Created' = Created
  <2>1. /\ contexts[c] # {} /\ components' = components /\ live' = live
        /\ contexts' = [contexts EXCEPT ![c] = @ \cup {context}]
    BY <1>4 DEF CreateContext, book
  <2>2. Created' = Created
    BY <2>1 DEF Created
  <2>3. \A d \in Components : contexts'[d] # {} => contexts[d] # {}
    BY <2>1 DEF IInv, TypeOK
  <2> QED
    BY <2>1, <2>2, <2>3 DEF PlacesOK
<1> QED
  BY <1>1, <1>2, <1>3, <1>4 DEF Serve

LEMMA ServeStep ==
    ASSUME SInv, Serve
    PROVE  SInv'
<1>1. IInv'
  BY ServeIsWork, WorkInv DEF SInv
<1>2. PlacesOK' /\ Created' \cap Apps = Created \cap Apps
  BY ServePlaces DEF SInv
<1>3. /\ phase = "up" /\ phase' = phase /\ file' = file /\ refreshDue' = refreshDue
      /\ old' = old /\ installed' = installed /\ kind' = kind
  BY DEF Serve, world
<1> QED
  BY <1>1, <1>2, <1>3 DEF SInv, FileOK, OldOK, LifeOK, AppsOK

\* Steps that remove components.
LEMMA RemovalStep ==
    ASSUME SInv, phase = "up", phase' \in {"up", "detecting"},
           phase' = "up" \/ refreshDue' = FALSE,
           IInv', FileOK', NEW idle, NEW doomed, NEW gone \in SUBSET Created,
           Retire(idle, doomed, gone), Erase(gone),
           refreshDue' \in BOOLEAN, UNCHANGED world,
           refreshDue' = FALSE => refreshDue = FALSE \/ (Created \cap Apps) \ installed \subseteq gone
    PROVE  SInv'
<1>1. PlacesOK' /\ Created' = Created \ gone
  BY PlacesErase DEF SInv
<1>2. old' = old /\ installed' = installed /\ kind' = kind
  BY DEF world
<1>3. OldOK' /\ LifeOK'
  BY <1>2 DEF SInv, OldOK, LifeOK
<1>4. AppsOK'
  BY <1>1, <1>2 DEF SInv, AppsOK, LifeOK
<1> QED
  BY <1>1, <1>3, <1>4 DEF SInv

LEMMA SpentCreated ==
    ASSUME NEW remaining
    PROVE  Spent(remaining) \in SUBSET Created
BY DEF Spent

LEMMA WriteOutStep ==
    ASSUME SInv, WriteOut
    PROVE  SInv'
<1>1. IInv'
  BY WriteOutIsWork, WorkInv DEF SInv
<1>2. /\ phase = "up" /\ phase' = phase /\ refreshDue' = refreshDue /\ UNCHANGED world
      /\ Retire({}, {}, Spent(live)) /\ Erase(Spent(live))
      /\ file' = Written(live')
  BY DEF WriteOut, WriteSettings, Delete
<1>3. live' \in SUBSET Slots
  BY <1>1 DEF IInv, TypeOK
<1>4. FileOK'
  BY <1>2, <1>3, WrittenType DEF SInv
<1>5. refreshDue' \in BOOLEAN
  BY <1>2 DEF SInv, LifeOK
<1> QED
  BY <1>1, <1>2, <1>4, <1>5, SpentCreated, RemovalStep

\* What a clean-up deletes, and that it writes if it deletes anything.
CleansUp(idle, doomed, gone) ==
    /\ Retire(idle, doomed, gone)
    /\ Erase(gone)
    /\ \/ doomed = {} /\ gone = {} /\ file' = file
       \/ gone = Spent(live \ doomed) /\ file' = Written(live')

LEMMA ForgetForm ==
    ASSUME NEW c \in Components, Forget(c) \/ ForgetApplication(c)
    PROVE  \E idle \in SUBSET live, doomed \in SUBSET live, gone \in SUBSET Created :
              CleansUp(idle, doomed, gone)
<1>1. CASE Forget(c)
  <2> DEFINE doomed == UNION {Siblings(s) : s \in
                                {t \in CurrentSlots \ present : t.component = c}}
             gone   == Spent(live \ doomed)
  <2>1. doomed \in SUBSET live
    BY DEF Siblings
  <2>2. Retire({}, doomed, gone) /\ Erase(gone) /\ file' = Written(live')
    BY <1>1 DEF Forget, CleanUp, Delete
  <2> HIDE DEF doomed
  <2>3. CleansUp({}, doomed, gone) /\ gone \in SUBSET Created /\ {} \in SUBSET live
    BY <2>2, SpentCreated DEF CleansUp
  <2> QED
    BY <2>1, <2>3
<1>2. CASE ForgetApplication(c)
  <2> DEFINE disabled == {s \in SlotsOf(c) : s.context = Default}
             absent == {s \in SlotsOf(c) \cap CurrentSlots : s \in present => s \in disabled}
             doomed == UNION {Siblings(s) : s \in absent}
             gone   == IF absent = {} THEN {} ELSE Spent(live \ doomed)
  <2>1. doomed \in SUBSET live /\ disabled \in SUBSET live
    BY DEF Siblings, SlotsOf
  <2>2. /\ Retire(disabled, doomed, gone) /\ Erase(gone)
        /\ file' = IF absent = {} THEN file ELSE Written(live')
    BY <1>2 DEF ForgetApplication
  <2>3. absent = {} => doomed = {}
    OBVIOUS
  <2>4. gone \in SUBSET Created
    BY SpentCreated
  <2>5. CleansUp(disabled, doomed, gone)
    <3> HIDE DEF disabled, absent, doomed
    <3> QED
      BY <2>2, <2>3 DEF CleansUp
  <2> HIDE DEF disabled, doomed, gone
  <2> QED
    BY <2>1, <2>4, <2>5
<1> QED
  BY <1>1, <1>2

LEMMA ForgetStep ==
    ASSUME SInv, NEW c \in Components, Forget(c) \/ ForgetApplication(c)
    PROVE  SInv'
<1>1. /\ phase = "up" /\ phase' = phase /\ refreshDue' = refreshDue /\ UNCHANGED world
      /\ writeout' = writeout
  BY DEF Forget, ForgetApplication, CleanUp
<1>2. PICK idle \in SUBSET live, doomed \in SUBSET live, gone \in SUBSET Created :
        CleansUp(idle, doomed, gone)
  BY ForgetForm
<1>3. Retire(idle, doomed, gone) /\ Erase(gone)
  BY <1>2 DEF CleansUp
<1>4. IInv'
  <2>1. writeout' \in BOOLEAN /\ idle \in SUBSET Slots
    BY <1>1 DEF SInv, IInv, TypeOK
  <2>2. /\ components' \in Seq(Components)
        /\ contexts' \in [Components -> SUBSET Contexts]
        /\ current' \in [Components -> Contexts]
    BY <1>3, EraseType DEF SInv, IInv
  <2> QED
    BY <1>3, <2>1, <2>2, RetireStep DEF SInv
<1>5. FileOK'
  <2>1. live' \in SUBSET Slots
    BY <1>4 DEF IInv, TypeOK
  <2>2. file' \in {file, Written(live')}
    BY <1>2 DEF CleansUp
  <2> QED
    BY <2>1, <2>2, WrittenType DEF SInv, FileOK
<1>6. refreshDue' \in BOOLEAN
  BY <1>1 DEF SInv, LifeOK
<1> QED
  BY <1>1, <1>3, <1>4, <1>5, <1>6, RemovalStep

LEMMA RefreshStep ==
    ASSUME SInv, RefreshServices
    PROVE  SInv'
<1> DEFINE gone == (Created \cap Apps) \ installed
<1>1. /\ phase = "up" /\ phase' = "detecting" /\ refreshDue' = FALSE
      /\ Retire({}, {}, gone) /\ Erase(gone)
      /\ file' = file /\ writeout' = writeout /\ UNCHANGED world
  BY DEF RefreshServices, Delete
<1>2. IInv'
  <2>1. writeout' \in BOOLEAN /\ {} \in SUBSET live /\ {} \in SUBSET Slots
    BY <1>1 DEF SInv, IInv, TypeOK
  <2> HIDE DEF gone
  <2>2. /\ components' \in Seq(Components)
        /\ contexts' \in [Components -> SUBSET Contexts]
        /\ current' \in [Components -> Contexts]
    BY <1>1, EraseType DEF SInv, IInv
  <2> QED
    BY <1>1, <2>1, <2>2, RetireStep DEF SInv
<1>3. FileOK'
  BY <1>1 DEF SInv, FileOK
<1>4. gone \in SUBSET Created /\ (Created \cap Apps) \ installed \subseteq gone
  OBVIOUS
<1> HIDE DEF gone
<1> QED
  BY <1>1, <1>2, <1>3, <1>4, RemovalStep

\* Steps that load a component.
Loading(c, wanted, added) ==
    /\ phase \notin {"down", "migrating"}
    /\ Wants(c, wanted)
    /\ c \in Apps => c \in installed
    /\ added \in SUBSET Slots
    /\ \A s \in added : s.component = c
    /\ Load(c, wanted, added)
    /\ phase' = phase /\ refreshDue' = refreshDue

LEMMA LoadingStep ==
    ASSUME SInv, NEW c, NEW wanted, NEW added, Loading(c, wanted, added)
    PROVE  SInv'
<1>1. IInv' /\ PlacesOK' /\ Created' = Created \cup {c}
  BY LoadStep DEF SInv, Loading
<1>2. file' = file /\ UNCHANGED world
  BY DEF Loading, Load
<1>3. /\ old' = old /\ installed' = installed /\ kind' = kind
      /\ phase' = phase /\ refreshDue' = refreshDue
  BY <1>2 DEF world, Loading
<1>4. FileOK' /\ OldOK'
  BY <1>2, <1>3 DEF SInv, FileOK, OldOK
<1>5. LifeOK'
  BY <1>3 DEF SInv, LifeOK, Loading
<1>6. AppsOK'
  BY <1>1, <1>3 DEF SInv, AppsOK, Loading
<1> QED
  BY <1>1, <1>4, <1>5, <1>6 DEF SInv

\* What they load is what the file says, or else the desktop file, unless a
\* client asked for the component.
Restores(c, wanted, added) ==
    /\ c \in Apps => DOMAIN wanted = ServiceSlots(c)
    /\ c \notin Apps => DOMAIN wanted = DOMAIN file[c].keys /\ added = {}
    /\ added = {} =>
          /\ \A s \in DOMAIN wanted : wanted[s] = Recorded(s)
          /\ phase = "loading" \/ (phase = "detecting" /\ kind[c] = "application")
          /\ wished' = wished
    /\ added # {} => wished' = NoWishes

LEMMA RestoresService ==
    ASSUME NEW c \in Apps
    PROVE  /\ DOMAIN FromGroup(c) = ServiceSlots(c) /\ DOMAIN FromService(c) = ServiceSlots(c)
           /\ \A s \in ServiceSlots(c) : FromGroup(c)[s] = Recorded(s)
           /\ file[c] = NoGroup => \A s \in ServiceSlots(c) : FromService(c)[s] = Recorded(s)
<1>1. \A s \in ServiceSlots(c) : s.component = c
  BY DEF ServiceSlots
<1>2. \A s \in ServiceSlots(c) : FromGroup(c)[s] = Recorded(s)
  BY <1>1 DEF FromGroup, Recorded
<1>3. ASSUME file[c] = NoGroup, NEW s \in ServiceSlots(c)
      PROVE  FromService(c)[s] = Recorded(s)
  <2>1. s \notin DOMAIN file[s.component].keys
    BY <1>1, <1>3, NoGroupType
  <2> QED
    BY <2>1 DEF FromService, Recorded
<1> QED
  BY <1>2, <1>3 DEF FromGroup, FromService

\* Which steps those are.
LEMMA LoadingKinds ==
    ASSUME SInv,
           \/ \E c \in Components : LoadGroup(c) \/ LoadServiceGroup(c) \/ LoadServiceFile(c)
           \/ \E c \in Apps : DetectApp(c)
           \/ \E id \in Ids : AddApplication(id)
    PROVE  \E c \in Components : \E wanted, added :
              Loading(c, wanted, added) /\ Restores(c, wanted, added)
<1>1. ASSUME NEW c \in Components, LoadGroup(c)
      PROVE  Loading(c, file[c].keys, {}) /\ Restores(c, file[c].keys, {})
  <2>1. Loading(c, file[c].keys, {})
    BY <1>1 DEF LoadGroup, Loading, Wants, SInv, FileOK
  <2>2. \A s \in DOMAIN file[c].keys : file[c].keys[s] = Recorded(s)
    BY DEF SInv, FileOK, KeysOf, Recorded
  <2> QED
    BY <1>1, <2>1, <2>2 DEF LoadGroup, Restores
<1>2. ASSUME NEW c \in Missing
      PROVE  c \in Apps /\ c \in Components /\ Wants(c, FromService(c)) /\ Wants(c, FromGroup(c))
  BY <1>2, ServiceWants, AppsAssumption DEF Missing, SInv, LifeOK
<1>3. ASSUME NEW c \in Components, LoadServiceGroup(c)
      PROVE  Loading(c, FromGroup(c), {}) /\ Restores(c, FromGroup(c), {})
  <2>1. Loading(c, FromGroup(c), {})
    BY <1>2, <1>3 DEF LoadServiceGroup, Loading, Missing
  <2>2. c \in Apps /\ phase = "loading" /\ wished' = wished
    BY <1>2, <1>3 DEF LoadServiceGroup
  <2> QED
    BY <2>1, <2>2, RestoresService DEF Restores
<1>4. ASSUME NEW c \in Components, LoadServiceFile(c)
      PROVE  Loading(c, FromService(c), {}) /\ Restores(c, FromService(c), {})
  <2>1. Loading(c, FromService(c), {})
    BY <1>2, <1>4 DEF LoadServiceFile, Loading, Missing
  <2>2. c \in Apps /\ phase = "loading" /\ wished' = wished
    BY <1>2, <1>4 DEF LoadServiceFile
  <2>3. file[c] = NoGroup
    BY <1>4 DEF LoadServiceFile, Missing, Grouped
  <2> QED
    BY <2>1, <2>2, <2>3, RestoresService DEF Restores
<1>5. ASSUME NEW c \in Apps, DetectApp(c)
      PROVE  c \in Components
               /\ \E wanted : Loading(c, wanted, {}) /\ Restores(c, wanted, {})
  <2>1. /\ c \in Missing /\ phase = "detecting" /\ kind[c] = "application"
        /\ phase' = phase /\ refreshDue' = refreshDue /\ wished' = wished
    BY <1>5 DEF DetectApp, Detectable
  <2>2. CASE c \in Grouped
    <3>1. Load(c, FromGroup(c), {})
      BY <1>5, <2>2 DEF DetectApp
    <3>2. Loading(c, FromGroup(c), {})
      BY <1>2, <2>1, <3>1 DEF Loading, Missing
    <3>3. Restores(c, FromGroup(c), {})
      BY <2>1, RestoresService DEF Restores
    <3> QED
      BY <1>2, <2>1, <3>2, <3>3
  <2>3. CASE c \notin Grouped
    <3>1. Load(c, FromService(c), {})
      BY <1>5, <2>3 DEF DetectApp
    <3>2. Loading(c, FromService(c), {})
      BY <1>2, <2>1, <3>1 DEF Loading, Missing
    <3>3. file[c] = NoGroup
      BY <1>2, <2>1, <2>3 DEF Grouped
    <3>4. Restores(c, FromService(c), {})
      BY <2>1, <3>3, RestoresService DEF Restores
    <3> QED
      BY <1>2, <2>1, <3>2, <3>4
  <2> QED
    BY <2>2, <2>3
<1>6. ASSUME NEW id \in Ids, AddApplication(id)
      PROVE  /\ id.component \in Components
             /\ Loading(id.component, FromService(id.component), {Home(id)})
             /\ Restores(id.component, FromService(id.component), {Home(id)})
  <2>1. Home(id) \in Slots /\ Home(id).component = id.component
    BY SlotsOfIds DEF SInv, IInv, Home
  <2>2. id.component \in Missing /\ wished' = NoWishes
    BY <1>6 DEF AddApplication
  <2>3. Loading(id.component, FromService(id.component), {Home(id)})
    BY <1>2, <1>6, <2>1 DEF AddApplication, Loading, Missing
  <2>4. Restores(id.component, FromService(id.component), {Home(id)})
    BY <1>2, <2>2, RestoresService DEF Restores
  <2> QED
    BY <1>2, <2>2, <2>3, <2>4
<1> QED
  BY <1>1, <1>3, <1>4, <1>5, <1>6

\* Steps that leave the registry alone.
LEMMA SameRegistry ==
    ASSUME IInv, PlacesOK, UNCHANGED vars
    PROVE  IInv' /\ PlacesOK' /\ Created' = Created
<1>1. IInv'
  BY NextInv DEF Next
<1> QED
  BY <1>1 DEF vars, place, book, PlacesOK, Created

LEMMA OffLineStep ==
    ASSUME SInv,
           \/ Tick \/ Start \/ Loaded \/ Detected \/ Migrate
           \/ \E c \in Apps : HotkeyFile(c) \/ DesktopFileChanges(c)
    PROVE  SInv'
<1>1. UNCHANGED vars
  BY DEF Tick, Start, Loaded, Detected, Migrate, HotkeyFile, DesktopFileChanges
<1>2. IInv' /\ PlacesOK' /\ Created' = Created
  BY <1>1, SameRegistry DEF SInv
<1>3. CASE Tick \/ Start \/ Loaded \/ Detected
  <2>1. UNCHANGED disk
    BY <1>3 DEF Tick, Start, Loaded, Detected
  <2>2. UNCHANGED <<file, refreshDue, old, installed, kind>>
    BY <2>1 DEF disk, world
  <2>3. LifeOK'
    BY <1>2, <1>3, <2>2 DEF SInv, LifeOK, Tick, Start, Loaded, Detected
  <2> QED
    BY <1>2, <2>2, <2>3 DEF SInv, FileOK, OldOK, AppsOK
<1>4. CASE Migrate
  <2>1. /\ phase = "migrating" /\ phase' = "loading" /\ file' = Migrated
        /\ old' = [c \in Apps |-> NoKeys]
        /\ UNCHANGED <<installed, refreshDue, kind>>
    BY <1>4 DEF Migrate
  <2>2. FileOK'
    BY <2>1, MigratedType DEF SInv
  <2>3. OldOK'
    BY <2>1 DEF OldOK, NoKeys, KeysOf
  <2> QED
    BY <1>2, <2>1, <2>2, <2>3 DEF SInv, LifeOK, AppsOK
<1>5. ASSUME NEW c \in Apps, HotkeyFile(c)
      PROVE  SInv'
  <2>1. /\ installed' = installed \cup {c}
        /\ UNCHANGED <<phase, file, old, refreshDue, kind>>
    BY <1>5 DEF HotkeyFile
  <2> QED
    BY <1>2, <2>1 DEF SInv, FileOK, OldOK, LifeOK, AppsOK
<1>6. ASSUME NEW c \in Apps, DesktopFileChanges(c)
      PROVE  SInv'
  <2>1. /\ phase \in {"up", "down"}
        /\ installed' = IF c \in installed THEN installed \ {c} ELSE installed \cup {c}
        /\ refreshDue' = (phase = "up")
        /\ UNCHANGED <<phase, file, old, kind>>
    BY <1>6 DEF DesktopFileChanges
  <2> QED
    BY <1>2, <2>1 DEF SInv, FileOK, OldOK, LifeOK, AppsOK
<1> QED
  BY <1>3, <1>4, <1>5, <1>6

\* A process that starts knows nothing: the registry is as it was initially.
LEMMA StoppedRegistry ==
    ASSUME TypeOK, Stopped
    PROVE  IInv' /\ PlacesOK' /\ Created' = {}
<1>1. /\ components' = <<>>
      /\ contexts' = [c \in Components |-> {}]
      /\ current' = [c \in Components |-> Default]
      /\ live' = {} /\ present' = {} /\ registered' = {} /\ fresh' = {}
      /\ keys' = [s \in Slots |-> <<>>]
      /\ activeKeys' = [k \in {} |-> None]
      /\ keysCount' = [c \in Chords |-> 0]
      /\ grabbed' = {}
      /\ last' = None /\ owed' = {} /\ out' = <<>>
      /\ writeout' = FALSE
      /\ refused' = refused
  BY DEF Stopped
<1>2. DOMAIN activeKeys' = {}
  BY <1>1
<1>3. TypeOK'
  <2>1. components' \in Seq(Components) /\ out' \in Seq(Signals)
    BY <1>1
  <2>2. keys' \in [Slots -> Seq(Keys \cup {<<>>})]
    BY <1>1
  <2>3. /\ contexts' \in [Components -> SUBSET Contexts]
        /\ current' \in [Components -> Contexts]
        /\ keysCount' \in [Chords -> Nat]
    BY <1>1, ContextsAssumption
  <2>4. activeKeys' \in [DOMAIN activeKeys' -> Objects]
    BY <1>1
  <2>5. refused' \in SUBSET Refusable
    BY <1>1 DEF TypeOK
  <2> QED
    BY <1>1, <1>2, <2>1, <2>2, <2>3, <2>4, <2>5 DEF TypeOK
<1>4. GrabAccounting'
  <2>1. ASSUME NEW c \in Chords PROVE Cardinality(Uses(c, DOMAIN activeKeys')) = 0
    <3>1. Uses(c, DOMAIN activeKeys') = {}
      BY <1>2 DEF Uses
    <3> QED
      BY <3>1, FS_EmptySet
  <2> QED
    BY <1>1, <2>1 DEF GrabAccounting
<1>5. OwnersSound'
  BY <1>1, <1>2 DEF OwnersSound
<1>6. Created' = {}
  BY <1>1 DEF Created
<1>7. PlacesOK'
  BY <1>1 DEF PlacesOK
<1> QED
  BY <1>3, <1>4, <1>5, <1>6, <1>7 DEF IInv

LEMMA StopStep ==
    ASSUME SInv, Crash \/ ShutDown
    PROVE  SInv'
<1>1. Stopped
  BY DEF Crash, ShutDown
<1>2. IInv' /\ PlacesOK' /\ Created' = {}
  BY <1>1, StoppedRegistry DEF SInv, IInv
<1>3. phase' = "down" /\ refreshDue' = FALSE /\ UNCHANGED <<old, installed, kind>>
  BY <1>1 DEF Stopped, world
<1>4. FileOK'
  <2>1. live \in SUBSET Slots
    BY DEF SInv, IInv, TypeOK
  <2>2. CASE file' = file
    BY <2>2 DEF SInv, FileOK
  <2>3. CASE file' = Written(live)
    BY <2>1, <2>3, WrittenType DEF SInv
  <2> QED
    BY <2>2, <2>3 DEF Crash, ShutDown
<1> QED
  BY <1>2, <1>3, <1>4 DEF SInv, OldOK, LifeOK, AppsOK

LEMMA SettingsInitInv == SettingsInit => SInv
<1> SUFFICES ASSUME SettingsInit PROVE SInv
  OBVIOUS
<1>1. IInv
  BY InitInv DEF SettingsInit
<1>2. FileOK /\ OldOK
  BY UpgradesAssumption DEF SettingsInit, FileOK, OldOK
<1>3. Created = {} /\ PlacesOK
  BY DEF SettingsInit, Init, Created, PlacesOK
<1>4. LifeOK
  BY <1>3 DEF SettingsInit, LifeOK
<1>5. AppsOK
  BY <1>3 DEF AppsOK
<1> QED
  BY <1>1, <1>2, <1>3, <1>4, <1>5 DEF SInv

LEMMA SettingsNextInv == SInv /\ [SettingsNext]_settingsVars => SInv'
<1> SUFFICES ASSUME SInv, [SettingsNext]_settingsVars PROVE SInv'
  OBVIOUS
<1>1. CASE Serve
  BY <1>1, ServeStep
<1>2. CASE WriteOut
  BY <1>2, WriteOutStep
<1>3. CASE RefreshServices
  BY <1>3, RefreshStep
<1>4. CASE \E c \in Components : Forget(c) \/ ForgetApplication(c)
  BY <1>4, ForgetStep
<1>5. CASE \/ \E c \in Components : LoadGroup(c) \/ LoadServiceGroup(c) \/ LoadServiceFile(c)
           \/ \E c \in Apps : DetectApp(c)
           \/ \E id \in Ids : AddApplication(id)
  BY <1>5, LoadingKinds, LoadingStep
<1>6. CASE \/ Tick \/ Start \/ Loaded \/ Detected \/ Migrate
           \/ \E c \in Apps : HotkeyFile(c) \/ DesktopFileChanges(c)
  BY <1>6, OffLineStep
<1>7. CASE Crash \/ ShutDown
  BY <1>7, StopStep
<1>8. CASE UNCHANGED settingsVars
  <2>1. UNCHANGED vars /\ UNCHANGED <<phase, file, refreshDue, old, installed, kind>>
    BY <1>8 DEF settingsVars, disk, world
  <2>2. IInv' /\ PlacesOK' /\ Created' = Created
    BY <2>1, SameRegistry DEF SInv
  <2> QED
    BY <2>1, <2>2 DEF SInv, FileOK, OldOK, LifeOK, AppsOK
<1> QED
  BY <1>1, <1>2, <1>3, <1>4, <1>5, <1>6, <1>7, <1>8 DEF SettingsNext

LEMMA SettingsInductive == SettingsSpec => []SInv
BY SettingsInitInv, SettingsNextInv, PTL DEF SettingsSpec

-----------------------------------------------------------------------------
(***************************************************************************)
(* However often the daemon crashes, starts and loads what there is, the   *)
(* chords grabbed are those of the active keys: loading registers no key   *)
(* twice and forgets none, whatever the filter refuses.                    *)
(***************************************************************************)
THEOREM RestartsCountGrabs == SettingsSpec => []GrabAccounting
<1>1. SInv => GrabAccounting
  BY DEF SInv, IInv
<1> QED
  BY <1>1, SettingsInductive, PTL

(***************************************************************************)
(* No key is ever grabbed for a shortcut that does not exist, is not       *)
(* active or has other keys, be it loaded from the file, from a desktop    *)
(* file, or removed with its application.                                  *)
(***************************************************************************)
THEOREM RestartsKeepOwnersSound == SettingsSpec => []OwnersSound
<1>1. SInv => OwnersSound
  BY DEF SInv, IInv
<1> QED
  BY <1>1, SettingsInductive, PTL

(***************************************************************************)
(* Once the daemon has noticed that an application is gone, none of its    *)
(* keys is grabbed (refreshServices): every active key of a live object    *)
(* belongs to a component that exists, and components of applications are  *)
(* installed unless the refresh timer runs.                                *)
(***************************************************************************)
THEOREM RemovedAppsLeaveNoKeys == SettingsSpec => []RemovedAppsHoldNoKeys
<1>1. SInv => RemovedAppsHoldNoKeys
  <2> SUFFICES ASSUME SInv, phase = "up", ~refreshDue, NEW k \in DOMAIN activeKeys,
                      activeKeys[k].slot.component \in Apps, activeKeys[k].state = "live"
               PROVE  activeKeys[k].slot.component \in installed
    BY DEF RemovedAppsHoldNoKeys
  <2>1. activeKeys[k].slot \in live
    BY DEF SInv, IInv, OwnersSound
  <2>2. activeKeys[k].slot.component \in Created
    BY <2>1 DEF SInv, PlacesOK
  <2> QED
    BY <2>2 DEF SInv, AppsOK
<1> QED
  BY <1>1, SettingsInductive, PTL

-----------------------------------------------------------------------------
(***************************************************************************)
(* What is in memory and what is in the file.  The invariants say of every *)
(* state, not only of a daemon that is up, that the file is up to date     *)
(* while nothing waits to be written; and that each group with shortcuts   *)
(* of a component without desktop file has its component once the groups   *)
(* are loaded, so that a client which registers the component finds no old *)
(* entries in its group.                                                   *)
(***************************************************************************)
FileInv == ~writeout => UpToDate

AllLoaded ==
    phase \in {"detecting", "up"} =>
        \A c \in Components \ (Created \cup Apps) : DOMAIN file[c].keys = {}

UpInv == FileInv /\ AllLoaded

\* A daemon without components has nothing that could differ.
LEMMA NothingDiffers ==
    ASSUME live' = {}, Created' = {}
    PROVE  UpToDate'
BY DEF UpToDate

\* Steps that neither write nor load: components that are there have the
\* shortcuts they had, those that are new have no group.
LEMMA UpToDateStays ==
    ASSUME UpToDate, FileOK, file' = file, kind' = kind, Created' \subseteq Components,
           \A s \in live' \ fresh' :
              /\ s \in live \ fresh /\ keys'[s] = keys[s] /\ defaults'[s] = defaults[s]
              /\ \A t \in fresh : t.component = s.component => t \in fresh',
           \A c \in Created' :
              \/ c \in Created /\ \A s \in live : s.component = c => s \in live'
              \/ DOMAIN file[c].keys = {}
    PROVE  UpToDate'
<1>1. ASSUME NEW s \in live' \ fresh', Kept(s)'
      PROVE  /\ s \in DOMAIN file'[s.component].keys \/ s.component \in Apps
             /\ DOMAIN keys'[s] = DOMAIN Recorded(s)'
             /\ \A i \in DOMAIN keys'[s] : keys'[s][i] \in {Recorded(s)'[i], <<>>}
  <2>1. Recorded(s)' = Recorded(s) /\ FileKeys(s)' = FileKeys(s)
        /\ ServiceSlots(s.component)' = ServiceSlots(s.component)
    BY DEF Recorded, FileKeys, ServiceSlots
  <2>2. Kept(s)
    BY <1>1, <2>1 DEF Kept
  <2> QED
    BY <2>1, <2>2 DEF UpToDate
<1>2. ASSUME NEW c \in Created', NEW s \in DOMAIN file'[c].keys, OfFile(s)'
      PROVE  s \in live'
  <2>1. OfFile(s) /\ s \in DOMAIN file[c].keys
    BY <1>2 DEF OfFile, ServiceSlots
  <2>2. s.component = c
    BY <2>1 DEF FileOK, KeysOf
  <2>3. c \in Created /\ \A t \in live : t.component = c => t \in live'
    BY <2>1
  <2> QED
    BY <2>1, <2>2, <2>3 DEF UpToDate
<1> QED
  BY <1>1, <1>2 DEF UpToDate

\* What the file says after it was written.
LEMMA WritesUpToDate ==
    ASSUME SInv, AllLoaded, phase = "up", NEW idle, NEW doomed \in SUBSET live,
           Retire(idle, doomed, Spent(live \ doomed)), Erase(Spent(live \ doomed)),
           file' = Written(live'), defaults' = DefaultsKept({}), kind' = kind
    PROVE  UpToDate' /\ AllLoaded'
<1> DEFINE gone == Spent(live \ doomed)
           dead == doomed \cup {s \in live : s.component \in gone}
<1>1. /\ live' = live \ dead /\ fresh' = fresh \ dead
      /\ keys' = [s \in Slots |-> IF s \in dead THEN <<>> ELSE keys[s]]
  BY DEF Retire
<1>2. live \in SUBSET Slots
  BY DEF SInv, IInv, TypeOK
<1>3. /\ live' \in SUBSET live /\ live' \ fresh = live' \ fresh'
      /\ \A s \in live' : keys'[s] = keys[s] /\ defaults'[s] = defaults[s]
  BY <1>1, <1>2 DEF DefaultsKept
<1>4. gone \subseteq Created
  BY SpentCreated
<1>5. Created' = Created \ gone
  BY <1>4, PlacesErase DEF SInv
<1>6. PlacesOK'
  BY <1>4, PlacesErase DEF SInv
<1>7. ASSUME NEW c \in Created \ gone PROVE c \notin Spent(live')
  <2>1. PICK s \in live \ doomed : s.component = c /\ s.context = Default
    BY <1>7 DEF Spent
  <2>2. s \in live'
    BY <1>1, <1>7, <2>1
  <2> QED
    BY <2>1, <2>2 DEF Spent
<1>8. ASSUME NEW c \in gone PROVE c \in Spent(live')
  <2>1. \A s \in live' : s.component # c
    BY <1>1, <1>8
  <2> QED
    BY <1>4, <1>8, <2>1 DEF Spent
<1> DEFINE saved(c) == {s \in live' \ fresh : s.component = c /\ (c \in Apps => keys[s] # defaults[s])}
<1>9. ASSUME NEW c \in Created', c \in Components
      PROVE  file'[c].keys = [s \in saved(c) |-> keys[s]]
  <2>1. file'[c] = Group(c, live')
    BY <1>5, <1>7, <1>9 DEF Written
  <2> QED
    BY <2>1 DEF Group
<1>10. Created \subseteq Components
  BY DEF SInv, IInv, TypeOK, Created
<1>11. ASSUME NEW s \in live' \ fresh', Kept(s)'
       PROVE  /\ s \in DOMAIN file'[s.component].keys \/ s.component \in Apps
              /\ DOMAIN keys'[s] = DOMAIN Recorded(s)'
              /\ \A i \in DOMAIN keys'[s] : keys'[s][i] \in {Recorded(s)'[i], <<>>}
  <2> DEFINE c == s.component
  <2>1. c \in Created'
    BY <1>6 DEF PlacesOK
  <2>2. file'[c].keys = [t \in saved(c) |-> keys[t]]
    BY <1>5, <1>9, <1>10, <2>1
  <2>3. keys'[s] = keys[s] /\ defaults'[s] = defaults[s] /\ s \in live' \ fresh
    BY <1>3
  <2>4. CASE s \in saved(c)
    <3>1. s \in DOMAIN file'[c].keys /\ file'[c].keys[s] = keys'[s]
      BY <2>2, <2>3, <2>4
    <3>2. Recorded(s)' = keys'[s]
      BY <3>1 DEF Recorded
    <3> QED
      BY <3>1, <3>2
  <2>5. CASE s \notin saved(c)
    <3>1. c \in Apps /\ keys[s] = defaults[s]
      BY <2>3, <2>5
    <3>2. s \notin DOMAIN file'[c].keys
      BY <2>2, <2>5
    <3>3. Recorded(s)' = FileKeys(s)'
      BY <3>2 DEF Recorded
    <3>4. defaults'[s] = FileKeys(s)'
      BY <1>11, <3>1 DEF Kept
    <3>5. Recorded(s)' = keys'[s]
      BY <2>3, <3>1, <3>3, <3>4
    <3> QED
      BY <3>1, <3>5
  <2> QED
    BY <2>4, <2>5
<1>12. ASSUME NEW c \in Created' PROVE DOMAIN file'[c].keys \subseteq live'
  BY <1>5, <1>9, <1>10, <1>12
<1>13. UpToDate'
  BY <1>11, <1>12 DEF UpToDate
<1>14. ASSUME NEW c \in Components \ (Created' \cup Apps)
       PROVE  DOMAIN file'[c].keys = {}
  <2>1. CASE c \notin Created
    <3>1. file'[c] = file[c]
      BY <2>1 DEF Written
    <3> QED
      BY <1>14, <2>1, <3>1 DEF AllLoaded
  <2>2. CASE c \in gone
    <3>1. file'[c] = NoGroup
      BY <1>4, <1>8, <2>2 DEF Written
    <3> QED
      BY <3>1, NoGroupType
  <2> QED
    BY <1>5, <1>14, <2>1, <2>2
<1> QED
  BY <1>13, <1>14 DEF AllLoaded

LEMMA WriteOutUpToDate ==
    ASSUME SInv, AllLoaded, WriteOut
    PROVE  UpInv'
<1>1. /\ phase = "up" /\ file' = Written(live')
      /\ defaults' = DefaultsKept({}) /\ kind' = kind
  BY DEF WriteOut, world
<1>2. Retire({}, {}, Spent(live)) /\ Erase(Spent(live)) /\ live \ {} = live
  BY DEF WriteOut, WriteSettings, Delete
<1>3. {} \in SUBSET live
  OBVIOUS
<1> QED
  BY <1>1, <1>2, <1>3, WritesUpToDate DEF UpInv, FileInv

\* A clean-up writes, or deletes nothing and changes no keys.
LEMMA ForgetUpToDate ==
    ASSUME SInv, UpInv, NEW c \in Components, Forget(c) \/ ForgetApplication(c)
    PROVE  UpInv'
<1>1. /\ phase = "up" /\ phase' = phase /\ defaults' = DefaultsKept({}) /\ kind' = kind
      /\ writeout' = writeout
  BY DEF Forget, ForgetApplication, CleanUp, world
<1>2. PICK idle \in SUBSET live, doomed \in SUBSET live, gone \in SUBSET Created :
        CleansUp(idle, doomed, gone)
  BY ForgetForm
<1>3. Retire(idle, doomed, gone) /\ Erase(gone)
  BY <1>2 DEF CleansUp
<1>4. CASE gone = Spent(live \ doomed) /\ file' = Written(live')
  BY <1>1, <1>3, <1>4, WritesUpToDate DEF UpInv, FileInv
<1>5. CASE doomed = {} /\ gone = {} /\ file' = file
  <2> DEFINE dead == doomed \cup {s \in live : s.component \in gone}
  <2>1. dead = {}
    BY <1>5
  <2>2. /\ live' = live \ dead /\ fresh' = fresh \ dead
        /\ keys' = [s \in Slots |-> IF s \in dead THEN <<>> ELSE keys[s]]
    BY <1>3 DEF Retire
  <2>3. keys \in [Slots -> KeyListType] /\ live \in SUBSET Slots
    BY DEF SInv, IInv, TypeOK, KeyListType
  <2> HIDE DEF dead
  <2>4. /\ live' = live /\ fresh' = fresh
        /\ \A s \in Slots : keys'[s] = keys[s]
        /\ \A s \in live : defaults'[s] = defaults[s]
    BY <1>1, <2>1, <2>2, <2>3 DEF DefaultsKept
  <2>5. Created' = Created
    BY <1>3, <1>5, PlacesErase DEF SInv
  <2>6. Created \subseteq Components
    BY DEF SInv, IInv, TypeOK, Created
  <2>7. UpToDate => UpToDate'
    BY <1>1, <1>5, <2>3, <2>4, <2>5, <2>6, UpToDateStays DEF SInv
  <2>8. AllLoaded'
    BY <1>1, <1>5, <2>5 DEF UpInv, AllLoaded
  <2> QED
    BY <1>1, <2>7, <2>8 DEF UpInv, FileInv
<1> QED
  BY <1>2, <1>4, <1>5 DEF CleansUp

\* A request changes keys or defaults and has the timer run, or leaves alone
\* what the file is compared with.
LEMMA ServeUpToDate ==
    ASSUME SInv, UpInv, Serve
    PROVE  UpInv'
<1>1. /\ phase' = phase /\ phase = "up" /\ file' = file /\ kind' = kind
      /\ writeout \in BOOLEAN
  BY DEF Serve, world, SInv, IInv, TypeOK
<1>2. PlacesOK' /\ Created \subseteq Created' /\ Created' \cap Apps = Created \cap Apps
  BY ServePlaces DEF SInv
<1>3. AllLoaded'
  BY <1>1, <1>2 DEF UpInv, AllLoaded
<1>4. Created' \subseteq Components
  <2>1. IInv'
    BY ServeIsWork, WorkInv DEF SInv
  <2> QED
    BY <2>1 DEF IInv, TypeOK, Created
<1>5. \A c \in Created' \ Created : DOMAIN file[c].keys = {}
  BY <1>1, <1>2, <1>4 DEF UpInv, AllLoaded
<1>6. ASSUME live \subseteq live', writeout' = writeout \/ writeout' = TRUE,
             \A s \in live' \ fresh' :
                s \in live \ fresh /\ keys'[s] = keys[s] /\ defaults'[s] = defaults[s],
             fresh \subseteq fresh'
      PROVE  FileInv'
  <2> SUFFICES ASSUME ~writeout' PROVE UpToDate'
    BY DEF FileInv
  <2>1. UpToDate
    BY <1>6 DEF UpInv, FileInv
  <2> QED
    BY <1>1, <1>4, <1>5, <1>6, <2>1, UpToDateStays DEF SInv
<1>7. ASSUME NEW id \in Ids, Register(id) \/ ChangeKeys(id) \/ Withdraw(id)
      PROVE  FileInv'
  <2>1. live \in SUBSET Slots
    BY DEF SInv, IInv, TypeOK
  <2>2. CASE AddAction(id) /\ defaults' = DefaultsKept({Home(id)})
    <3>1. /\ live' = live \cup {Home(id)} /\ fresh' = fresh \cup {Home(id)}
          /\ keys' = [keys EXCEPT ![Home(id)] = <<>>]
          /\ writeout' = writeout
      BY <2>2 DEF AddAction
    <3>2. ASSUME NEW s \in live' \ fresh'
          PROVE  s \in live \ fresh /\ s # Home(id) /\ s \in Slots
      BY <2>1, <3>1
    <3>3. \A s \in live' \ fresh' :
             s \in live \ fresh /\ keys'[s] = keys[s] /\ defaults'[s] = defaults[s]
      BY <2>2, <3>1, <3>2 DEF SInv, IInv, TypeOK, DefaultsKept
    <3> QED
      BY <1>6, <3>1, <3>3
  <2>3. CASE (Rename(id) \/ Autoload(id) \/ SetInactive(id)) /\ defaults' = DefaultsKept({})
    <3>1. writeout' \in {writeout, TRUE} /\ live' = live /\ fresh' = fresh /\ keys' = keys
      BY <2>3 DEF Rename, Autoload, SetInactive, book
    <3>2. \A s \in live : defaults'[s] = defaults[s]
      BY <2>1, <2>3, <3>1 DEF DefaultsKept
    <3> QED
      BY <1>6, <3>1, <3>2
  <2>4. CASE \/ Unregister(id)
             \/ \E list \in KeyLists :
                  \/ \E setPresent, autoloading \in BOOLEAN :
                        SetShortcutKeys(id, list, setPresent, autoloading)
                  \/ SetForeignShortcutKeys(id, list)
    <3>1. writeout' = TRUE
      BY <2>4 DEF Unregister, SetShortcutKeys, SetForeignShortcutKeys, SetKeys
    <3> QED
      BY <3>1 DEF FileInv
  <2> QED
    BY <1>7, <2>2, <2>3, <2>4 DEF Register, ChangeKeys, Withdraw
<1>8. ASSUME NEW id \in Ids, SetDefaults(id)
      PROVE  FileInv'
  <2>1. writeout' = TRUE
    BY <1>8 DEF SetDefaults, SetDefaultKeys
  <2> QED
    BY <2>1 DEF FileInv
<1>9. ASSUME \/ \E c \in Components, context \in Contexts :
                   ActivateContext(c, context) \/ CreateContext(c, context)
             \/ BlockGlobalShortcuts
             \/ UnblockGlobalShortcuts,
             defaults' = defaults
      PROVE  FileInv'
  <2>1. writeout' = writeout /\ live' = live /\ fresh' = fresh /\ keys' = keys
    BY <1>9 DEF ActivateContext, CreateContext, BlockGlobalShortcuts,
                UnblockGlobalShortcuts, book
  <2> QED
    BY <1>6, <1>9, <2>1
<1>10. FileInv'
  BY <1>7, <1>8, <1>9 DEF Serve
<1> QED
  BY <1>3, <1>10 DEF UpInv

\* Components of removed desktop files go with all they have.
LEMMA RefreshUpToDate ==
    ASSUME SInv, UpInv, RefreshServices
    PROVE  UpInv'
<1> DEFINE gone == (Created \cap Apps) \ installed
           dead == {s \in live : s.component \in gone}
<1>1. /\ phase = "up" /\ phase' = "detecting" /\ file' = file /\ kind' = kind
      /\ writeout' = writeout /\ defaults' = DefaultsKept({})
      /\ Retire({}, {}, gone) /\ Erase(gone)
  BY DEF RefreshServices, Delete, world
<1>2. /\ live' = live \ dead /\ fresh' = fresh \ dead
      /\ keys' = [s \in Slots |-> IF s \in dead THEN <<>> ELSE keys[s]]
  BY <1>1 DEF Retire
<1>3. live \in SUBSET Slots /\ Created \subseteq Components
  BY DEF SInv, IInv, TypeOK, Created
<1>4. Created' = Created \ gone
  <2>1. gone \in SUBSET Created
    OBVIOUS
  <2> HIDE DEF gone
  <2> QED
    BY <1>1, <2>1, PlacesErase DEF SInv
<1>5. AllLoaded'
  BY <1>1, <1>4 DEF UpInv, AllLoaded
<1>6. ASSUME NEW s \in live' \ fresh'
      PROVE  /\ s \in live \ fresh /\ keys'[s] = keys[s] /\ defaults'[s] = defaults[s]
             /\ \A t \in fresh : t.component = s.component => t \in fresh'
  <2>1. s \in live \ fresh /\ s \in Slots /\ s \notin dead /\ s.component \notin gone
    BY <1>2, <1>3
  <2>2. defaults'[s] = defaults[s]
    BY <1>1, <2>1 DEF DefaultsKept
  <2> HIDE DEF gone
  <2> QED
    BY <1>2, <2>1, <2>2
<1>7. ASSUME NEW c \in Created'
      PROVE  c \in Created /\ \A s \in live : s.component = c => s \in live'
  <2> HIDE DEF gone
  <2> QED
    BY <1>2, <1>4
<1>8. FileInv'
  BY <1>1, <1>3, <1>4, <1>6, <1>7, UpToDateStays DEF UpInv, FileInv, SInv
<1> QED
  BY <1>5, <1>8 DEF UpInv

\* Steps that leave the registry alone.
LEMMA OffLineUpToDate ==
    ASSUME SInv, UpInv,
           \/ Tick \/ Start \/ Loaded \/ Detected \/ Migrate \/ UNCHANGED settingsVars
           \/ \E c \in Apps : HotkeyFile(c) \/ DesktopFileChanges(c)
    PROVE  UpInv'
<1>1. UNCHANGED vars
  BY DEF Tick, Start, Loaded, Detected, Migrate, HotkeyFile, DesktopFileChanges, settingsVars
<1>2. /\ live' = live /\ keys' = keys /\ fresh' = fresh /\ writeout' = writeout
      /\ Created' = Created
  BY <1>1 DEF vars, book, place, Created
<1>3. kind' = kind /\ defaults' = defaults
  BY DEF Tick, Start, Loaded, Detected, Migrate, HotkeyFile, DesktopFileChanges, settingsVars,
         disk, world
<1>4. Created \subseteq Components
  BY DEF SInv, IInv, TypeOK, Created
<1>5. ASSUME file' = file PROVE FileInv'
  BY <1>2, <1>3, <1>4, <1>5, UpToDateStays DEF UpInv, FileInv, SInv
<1>6. CASE Migrate
  <2>1. phase = "migrating" /\ phase' = "loading"
    BY <1>6 DEF Migrate
  <2>2. live' = {} /\ Created' = {}
    BY <1>2, <2>1 DEF SInv, LifeOK, PlacesOK
  <2>3. UpToDate'
    BY <2>2, NothingDiffers
  <2> QED
    BY <2>1, <2>3 DEF UpInv, FileInv, AllLoaded
<1>7. CASE Loaded
  <2>1. /\ file' = file
        /\ Grouped \cap (Missing \cup (Components \ Apps)) \subseteq Created
    BY <1>7 DEF Loaded, disk
  <2>2. ASSUME NEW c \in Components \ (Created \cup Apps)
        PROVE  DOMAIN file[c].keys = {}
    <3>1. file[c] = NoGroup
      BY <2>1, <2>2 DEF Grouped
    <3> QED
      BY <3>1, NoGroupType
  <2> QED
    BY <1>2, <1>5, <2>1, <2>2 DEF UpInv, AllLoaded
<1>8. CASE \/ Tick \/ Start \/ Detected \/ UNCHANGED settingsVars
           \/ \E c \in Apps : HotkeyFile(c) \/ DesktopFileChanges(c)
  <2>1. file' = file
    BY <1>8 DEF Tick, Start, Detected, HotkeyFile, DesktopFileChanges, settingsVars, disk
  <2>2. phase' \in {"detecting", "up"} => phase \in {"detecting", "up"}
    BY <1>8 DEF Tick, Start, Detected, HotkeyFile, DesktopFileChanges, settingsVars
  <2>3. AllLoaded'
    BY <1>2, <2>1, <2>2 DEF UpInv, AllLoaded
  <2> QED
    BY <1>5, <2>1, <2>3 DEF UpInv
<1> QED
  BY <1>6, <1>7, <1>8

LEMMA StopUpToDate ==
    ASSUME SInv, Crash \/ ShutDown
    PROVE  UpInv'
<1>1. Stopped
  BY DEF Crash, ShutDown
<1>2. phase' = "down" /\ live' = {}
  BY <1>1 DEF Stopped
<1>3. Created' = {}
  BY <1>1, StoppedRegistry DEF SInv, IInv
<1> QED
  BY <1>2, <1>3, NothingDiffers DEF UpInv, FileInv, AllLoaded

\* A component is loaded from its group: what the filter accepts is what the
\* file says.
LEMMA LoadingUpToDate ==
    ASSUME SInv, UpInv, NEW c \in Components, NEW wanted, NEW added,
           Loading(c, wanted, added), Restores(c, wanted, added)
    PROVE  UpInv'
<1>1. PICK rank \in Orders, accepted \in SUBSET Places(wanted) :
        Loads(c, wanted, added, rank, accepted)
  BY LoadForm DEF Loading
<1>2. /\ file' = file /\ kind' = kind /\ phase' = phase
      /\ defaults' = [s \in Slots |->
                        IF s \in (IF c \in Apps THEN DOMAIN wanted ELSE {}) \ added
                        THEN FileKeys(s) ELSE defaults[s]]
  BY DEF Loading, Load, world
<1>3. Wants(c, wanted) /\ \A s \in added : s \in Slots /\ s.component = c
  BY DEF Loading
<1>4. /\ live' = live \cup DOMAIN wanted \cup added /\ fresh' = fresh \cup added
      /\ writeout' = writeout
      /\ keys' = [s \in Slots |-> IF s \in added THEN <<>>
                                  ELSE IF s \in DOMAIN wanted
                                       THEN LoadedKeys(wanted, accepted)[s] ELSE keys[s]]
  BY <1>1 DEF Loads
<1>5. /\ DOMAIN wanted \in SUBSET Slots /\ live \in SUBSET Slots
      /\ \A s \in DOMAIN wanted : s.component = c
      /\ \A s \in live : s.component # c
  BY <1>3, WantsTypes DEF SInv, IInv, TypeOK
<1>6. Created' = Created \cup {c}
  BY <1>1, <1>3, LoadPlaces DEF SInv
<1>7. AllLoaded'
  BY <1>2, <1>6 DEF UpInv, AllLoaded
<1>8. ASSUME NEW s \in Slots
      PROVE  Recorded(s)' = Recorded(s)
  BY <1>2 DEF Recorded, FileKeys
<1>9. ASSUME UpToDate, NEW s \in live' \ fresh', Kept(s)'
      PROVE  /\ s \in DOMAIN file'[s.component].keys \/ s.component \in Apps
             /\ DOMAIN keys'[s] = DOMAIN Recorded(s)'
             /\ \A i \in DOMAIN keys'[s] : keys'[s][i] \in {Recorded(s)'[i], <<>>}
  <2>1. CASE s \in live
    <3>1. s \notin DOMAIN wanted /\ s \notin added /\ s \in Slots /\ s \notin fresh
      BY <1>3, <1>4, <1>5, <1>9, <2>1
    <3>2. keys'[s] = keys[s] /\ defaults'[s] = defaults[s]
      BY <1>2, <1>4, <3>1
    <3>3. Kept(s)
      BY <1>2, <1>4, <1>9, <3>2 DEF Kept, ServiceSlots, FileKeys
    <3> QED
      BY <1>2, <1>8, <1>9, <2>1, <3>1, <3>2, <3>3 DEF UpToDate
  <2>2. CASE s \notin live
    <3>1. s \in DOMAIN wanted /\ s \notin added /\ s \in Slots /\ s.component = c
      BY <1>4, <1>5, <1>9, <2>2
    <3>2. added = {}
      <4>1. CASE c \notin Apps
        BY <4>1 DEF Restores
      <4>2. CASE c \in Apps
        BY <1>3, <1>4, <1>9, <3>1, <4>2 DEF Kept
      <4> QED
        BY <4>1, <4>2
    <3>3. wanted[s] = Recorded(s)
      BY <3>1, <3>2 DEF Restores
    <3>4. s \in DOMAIN file[c].keys \/ c \in Apps
      BY <3>1 DEF Restores
    <3>5. keys'[s] = [i \in DOMAIN wanted[s] |->
                        IF <<s, i>> \in accepted THEN wanted[s][i] ELSE <<>>]
      BY <1>4, <3>1 DEF LoadedKeys
    <3> QED
      BY <1>2, <1>8, <3>1, <3>3, <3>4, <3>5
  <2> QED
    BY <2>1, <2>2
<1>10. ASSUME UpToDate, NEW d \in Created', NEW s \in DOMAIN file'[d].keys, OfFile(s)'
       PROVE  s \in live'
  <2>1. s \in DOMAIN file[d].keys /\ OfFile(s)
    BY <1>2, <1>10 DEF OfFile, ServiceSlots
  <2>2. CASE d \in Created
    BY <1>4, <1>10, <2>1, <2>2 DEF UpToDate
  <2>3. CASE d = c
    <3>1. s.component = c
      BY <2>1, <2>3 DEF SInv, FileOK, KeysOf
    <3>2. s \in DOMAIN wanted
      BY <2>1, <2>3, <3>1 DEF Restores, OfFile
    <3> QED
      BY <1>4, <3>2
  <2> QED
    BY <1>6, <2>2, <2>3
<1>11. UpToDate => UpToDate'
  BY <1>9, <1>10 DEF UpToDate
<1> QED
  BY <1>4, <1>7, <1>11 DEF UpInv, FileInv

LEMMA UpInductive == SettingsSpec => []UpInv
<1>1. SettingsInit => UpInv
  BY DEF SettingsInit, Init, Created, UpInv, FileInv, UpToDate, AllLoaded
<1>2. SInv /\ UpInv /\ [SettingsNext]_settingsVars => UpInv'
  <2> SUFFICES ASSUME SInv, UpInv, [SettingsNext]_settingsVars PROVE UpInv'
    OBVIOUS
  <2>1. CASE Serve
    BY <2>1, ServeUpToDate
  <2>2. CASE WriteOut \/ \E c \in Components : Forget(c) \/ ForgetApplication(c)
    BY <2>2, WriteOutUpToDate, ForgetUpToDate DEF UpInv
  <2>3. CASE RefreshServices
    BY <2>3, RefreshUpToDate
  <2>4. CASE \/ \E c \in Components : LoadGroup(c) \/ LoadServiceGroup(c) \/ LoadServiceFile(c)
             \/ \E c \in Apps : DetectApp(c)
             \/ \E id \in Ids : AddApplication(id)
    BY <2>4, LoadingKinds, LoadingUpToDate
  <2>5. CASE \/ Tick \/ Start \/ Loaded \/ Detected \/ Migrate \/ UNCHANGED settingsVars
             \/ \E c \in Apps : HotkeyFile(c) \/ DesktopFileChanges(c)
    BY <2>5, OffLineUpToDate
  <2>6. CASE Crash \/ ShutDown
    BY <2>6, StopUpToDate
  <2> QED
    BY <2>1, <2>2, <2>3, <2>4, <2>5, <2>6 DEF SettingsNext
<1> QED
  BY <1>1, <1>2, SettingsInductive, PTL DEF SettingsSpec

(***************************************************************************)
(* While nothing waits to be written, the file says what is in memory:     *)
(* each shortcut has the keys that a start would read for it, from its     *)
(* group or else from its desktop file, but for those that the conflict    *)
(* filter refuses, and each shortcut in the file exists, whatever clients  *)
(* ask for, whichever desktop files come and go, and wherever the daemon   *)
(* was interrupted (scheduleWriteSettings, refreshServices, loadSettings). *)
(***************************************************************************)
THEOREM FileStaysUpToDate == SettingsSpec => []FileIsUpToDate
<1>1. UpInv => FileIsUpToDate
  BY DEF UpInv, FileInv, FileIsUpToDate
<1> QED
  BY <1>1, UpInductive, PTL

\* The action of the property.
SavesKeys ==
    \A s \in {t \in live \ fresh : Kept(t) /\ t.component \notin Spent(live)} :
        /\ s \in DOMAIN file'[s.component].keys \/ s.component \in Apps
        /\ DOMAIN keys[s] = DOMAIN Recorded(s)'
        /\ \A i \in DOMAIN keys[s] : keys[s][i] \in {Recorded(s)'[i], <<>>}

\* What is written is what is in memory; if nothing is, the file says it already.
LEMMA ShutDownSaves ==
    ASSUME SInv, UpInv, ShutDown
    PROVE  SavesKeys
<1>1. kind' = kind /\ file' = IF writeout THEN Written(live) ELSE file
  BY DEF ShutDown, Stopped, world
<1>2. ASSUME NEW s \in live \ fresh, Kept(s), s.component \notin Spent(live)
      PROVE  /\ s \in DOMAIN file'[s.component].keys \/ s.component \in Apps
             /\ DOMAIN keys[s] = DOMAIN Recorded(s)'
             /\ \A i \in DOMAIN keys[s] : keys[s][i] \in {Recorded(s)'[i], <<>>}
  <2> DEFINE c == s.component
             saved == {t \in live \ fresh :
                          t.component = c /\ (c \in Apps => keys[t] # defaults[t])}
  <2>1. FileKeys(s)' = FileKeys(s)
    BY <1>1 DEF FileKeys
  <2>2. CASE ~writeout
    <3>1. Recorded(s)' = Recorded(s) /\ file' = file
      BY <1>1, <2>1, <2>2 DEF Recorded
    <3> QED
      BY <1>2, <2>2, <3>1 DEF UpInv, FileInv, UpToDate
  <2>3. CASE writeout
    <3>1. c \in Created /\ c \in Components
      <4>1. s \in Slots
        BY DEF SInv, IInv, TypeOK
      <4> QED
        BY <4>1 DEF SInv, PlacesOK, Slots
    <3>2. file'[c].keys = [t \in saved |-> keys[t]]
      <4>1. file'[c] = Group(c, live)
        BY <1>1, <1>2, <2>3, <3>1 DEF Written
      <4> QED
        BY <4>1 DEF Group
    <3>3. CASE s \in saved
      <4>1. s \in DOMAIN file'[c].keys /\ file'[c].keys[s] = keys[s]
        BY <3>2, <3>3
      <4>2. Recorded(s)' = keys[s]
        BY <4>1 DEF Recorded
      <4> QED
        BY <4>1, <4>2
    <3>4. CASE s \notin saved
      <4>1. c \in Apps /\ keys[s] = defaults[s]
        BY <3>4
      <4>2. s \notin DOMAIN file'[c].keys
        BY <3>2, <3>4
      <4>3. Recorded(s)' = FileKeys(s)
        BY <2>1, <4>2 DEF Recorded
      <4>4. defaults[s] = FileKeys(s)
        BY <1>2, <4>1 DEF Kept
      <4> QED
        BY <4>1, <4>3, <4>4
    <3> QED
      BY <3>3, <3>4
  <2> QED
    BY <2>2, <2>3
<1> QED
  BY <1>2 DEF SavesKeys

(***************************************************************************)
(* An orderly shutdown loses no keys, of applications or others, in any    *)
(* contexts, whether the timer runs or not: each shortcut has the keys     *)
(* that the next start would read for it, unless its component has nothing *)
(* in the default context (~KGlobalAccelD, writeSettings).                 *)
(***************************************************************************)
THEOREM ShutDownsKeepKeys == SettingsSpec => ShutDownKeepsKeys
<1>1. SInv /\ UpInv /\ [SettingsNext]_settingsVars => [ShutDown => SavesKeys]_settingsVars
  BY ShutDownSaves
<1>2. SettingsSpec => [][ShutDown => SavesKeys]_settingsVars
  BY <1>1, SettingsInductive, UpInductive, PTL DEF SettingsSpec
<1> QED
  BY <1>2, PTL DEF ShutDownKeepsKeys, SavesKeys

-----------------------------------------------------------------------------
(***************************************************************************)
(* Upgrades.  The keys chosen in an older file are in one of three places: *)
(* in the entry that the shortcut is made from, in the old group of the    *)
(* application, or in its group.  The invariant says in which, for as long *)
(* as no client asks for anything.                                         *)
(***************************************************************************)

\* The entry that s is made from is there.
Here(s) == s \in DOMAIN From /\ From[s] \in DOMAIN Source(s)

\* It has keys to be moved.
Pending(s) ==
    /\ Here(s)
    /\ kind[s.component] \in {"file", "hotkey"}
    /\ Source(s)[From[s]] \notin {FromDefault[From[s]], FileKeys(s)}

\* migrateConfig writes over what migrateKHotkeys wrote.
Overridden(s) == kind[s.component] = "hotkey" /\ s \in Changed(s.component)

Promised(s) ==
    IF Pending(s) /\ ~Overridden(s) THEN wished[s] = Source(s)[From[s]]
    ELSE IF s \in Changed(s.component) THEN wished[s] = old[s.component][s].keys
    ELSE /\ s \in DOMAIN file[s.component].keys
         /\ wished[s] = file[s.component].keys[s]
         /\ kind[s.component] = "hotkey" => ~Here(s)

\* An entry that stays behind is that of a desktop file not installed when the
\* settings were migrated.
Behind(s) ==
    /\ Pending(s)
    /\ phase \in {"loading", "detecting", "up"}
    => /\ s.component \notin Created
       /\ phase = "loading" => s.component \notin installed

\* Nobody has asked for anything.
Untouched ==
    /\ ~writeout
    /\ fresh = {}
    /\ \A s \in live : s.component \in Apps =>
          s \in ServiceSlots(s.component) /\ defaults[s] = FileKeys(s)

WishInv ==
    DOMAIN wished # {} =>
        /\ Untouched
        /\ phase \in {"loading", "detecting", "up"} => \A c \in Apps : Changed(c) = {}
        /\ \A s \in DOMAIN wished :
              s \in Slots /\ s.component \in Apps /\ Promised(s) /\ Behind(s)

\* What a promise is about changes only while the settings are migrated.
LEMMA PromisesStay ==
    ASSUME UNCHANGED <<file, old, kind, wished>>
    PROVE  /\ \A c : Changed(c)' = Changed(c)
           /\ \A s : /\ Pending(s)' <=> Pending(s)
                     /\ Promised(s)' <=> Promised(s)
                     /\ FileKeys(s)' = FileKeys(s)
           /\ \A c : ServiceSlots(c)' = ServiceSlots(c)
<1>1. \A c : Changed(c)' = Changed(c)
  BY DEF Changed
<1>2. \A s : Source(s)' = Source(s) /\ FileKeys(s)' = FileKeys(s)
  BY DEF Source, FileKeys
<1>3. \A s : (Here(s)' <=> Here(s)) /\ (Pending(s)' <=> Pending(s))
  BY <1>2 DEF Here, Pending
<1>4. \A s : Overridden(s)' <=> Overridden(s)
  BY <1>1 DEF Overridden
<1>5. \A s : Promised(s)' <=> Promised(s)
  BY <1>1, <1>2, <1>3, <1>4 DEF Promised
<1> QED
  BY <1>1, <1>2, <1>3, <1>5 DEF ServiceSlots

\* Steps that do not migrate, and before which nobody has asked for anything.
LEMMA WishesStay ==
    ASSUME WishInv, UNCHANGED <<file, old, kind, wished>>,
           DOMAIN wished # {} =>
              /\ Untouched'
              /\ phase' \in {"loading", "detecting", "up"} =>
                    phase \in {"loading", "detecting", "up"}
              /\ \A s \in DOMAIN wished :
                    Behind(s) /\ s.component \in Apps => Behind(s)'
    PROVE  WishInv'
BY PromisesStay DEF WishInv

LEMMA UntouchedStays ==
    ASSUME Untouched, kind' = kind, writeout' = writeout, fresh' \subseteq fresh,
           \A s \in live' : s.component \in Apps =>
              \/ s \in live /\ defaults'[s] = defaults[s]
              \/ s \in ServiceSlots(s.component) /\ defaults'[s] = FileKeys(s)
    PROVE  Untouched'
BY DEF Untouched, ServiceSlots, FileKeys

\* After migration, entries that moved are gone, and the others as they were.
LEMMA MigratedSource ==
    ASSUME FileOK, file' = Migrated, NEW s \in DOMAIN From
    PROVE  /\ Here(s)' <=> Here(s) /\ s \notin Moved
           /\ Here(s)' => Source(s)'[From[s]] = Source(s)[From[s]]
<1> DEFINE d == From[s].component
           gone == {From[t] : t \in {u \in Moved : From[u].component = d}}
           kept == [t \in DOMAIN file[d].keys \ gone |-> file[d].keys[t]]
           named == \A t \in DOMAIN kept : t.context # Default
<1>1. /\ From[s] \in Slots /\ d \in Components /\ d \notin Apps
      /\ From[s].context = Default
      /\ \A t \in DOMAIN From : From[s] = From[t] => s = t
  BY FromAssumption DEF Slots
<1>2. Moved \subseteq DOMAIN From
  BY DEF Moved
<1>3. From[s] \in gone <=> s \in Moved
  BY <1>1, <1>2
<1>4. file'[d] = LeftOf(d)
  BY <1>1 DEF Migrated
<1>5. LeftOf(d) = IF named /\ \E t \in Moved : From[t].component = d /\ kind[t.component] = "file"
                  THEN NoGroup ELSE [contexts |-> file[d].contexts, keys |-> kept]
  BY DEF LeftOf
<1>6. From[s] \in DOMAIN kept <=> Here(s) /\ s \notin Moved
  BY <1>3 DEF Here, Source
<1>7. CASE Here(s) /\ s \notin Moved
  <2>1. ~named
    BY <1>1, <1>6, <1>7
  <2>2. file'[d].keys = kept
    BY <1>4, <1>5, <2>1
  <2>3. kept[From[s]] = file[d].keys[From[s]]
    BY <1>6, <1>7
  <2> QED
    BY <1>6, <1>7, <2>2, <2>3 DEF Here, Source
<1>8. CASE ~(Here(s) /\ s \notin Moved)
  <2>1. From[s] \notin DOMAIN kept
    BY <1>6, <1>8
  <2>2. file'[d].keys = kept \/ DOMAIN file'[d].keys = {}
    <3>1. file'[d] = NoGroup \/ file'[d] = [contexts |-> file[d].contexts, keys |-> kept]
      BY <1>4, <1>5
    <3> HIDE DEF kept
    <3> QED
      BY <3>1, NoGroupType
  <2>3. From[s] \notin DOMAIN file'[d].keys
    BY <2>1, <2>2
  <2> QED
    BY <1>8, <2>3 DEF Here, Source
<1> QED
  BY <1>7, <1>8

\* migrateKHotkeys, migrateConfig: the keys chosen are in the group of the
\* application, unless its desktop file is not installed.
LEMMA MigratedPromise ==
    ASSUME FileOK, kind' = kind, wished' = wished,
           file' = Migrated, old' = [c \in Apps |-> NoKeys],
           NEW s, s.component \in Apps, Promised(s)
    PROVE  Promised(s)' /\ (Pending(s)' => Pending(s) /\ s \notin Moved)
<1> DEFINE c == s.component
           new == DOMAIN file[c].keys \cup Changed(c) \cup {t \in Brought : t.component = c}
<1>1. file'[c].keys = NewKeys(c)
  BY AppsAssumption DEF Migrated, AppGroup
<1>2. /\ DOMAIN NewKeys(c) = new
      /\ s \in new =>
           NewKeys(c)[s] = IF s \in Brought /\ ~Overridden(s) THEN Source(s)[From[s]]
                           ELSE IF s \in Changed(c) THEN old[c][s].keys ELSE file[c].keys[s]
  BY DEF NewKeys, Overridden
<1>3. Changed(c)' = {}
  BY DEF Changed, NoKeys
<1>4. ~Overridden(s)'
  BY <1>3 DEF Overridden
<1>5. FileKeys(s)' = FileKeys(s)
  BY DEF FileKeys
<1>6. /\ Here(s)' => /\ Here(s) /\ s \notin Moved /\ kind[c] # "hotkey"
                     /\ Source(s)'[From[s]] = Source(s)[From[s]]
      /\ Here(s) /\ s \notin Moved => Here(s)'
  <2>1. Here(s) \/ Here(s)' => s \in DOMAIN From
    BY DEF Here
  <2>2. Here(s) /\ s \notin Moved => kind[c] # "hotkey"
    BY DEF Here, Moved
  <2> QED
    BY <2>1, <2>2, MigratedSource
<1>7. Pending(s)' <=> Pending(s) /\ s \notin Moved
  BY <1>5, <1>6 DEF Pending
<1>8. s \in Brought => Here(s) /\ s \in Moved /\ (Pending(s) \/ kind[c] = "hotkey")
  BY DEF Brought, Moved, Here, Pending
<1>9. Pending(s) /\ s \in Moved => s \in Brought
  BY DEF Brought, Pending
<1>10. CASE Pending(s) /\ ~Overridden(s)
  <2>1. wished[s] = Source(s)[From[s]]
    BY <1>10 DEF Promised
  <2>2. CASE s \in Moved
    <3>1. s \in DOMAIN file'[c].keys /\ file'[c].keys[s] = wished[s]
      BY <1>1, <1>2, <1>9, <1>10, <2>1, <2>2
    <3> QED
      BY <1>3, <1>6, <1>7, <2>2, <3>1 DEF Promised
  <2>3. CASE s \notin Moved
    <3>1. Pending(s)' /\ Source(s)'[From[s]] = Source(s)[From[s]]
      BY <1>6, <1>7, <1>10, <2>3 DEF Pending
    <3> QED
      BY <1>4, <1>7, <2>1, <3>1 DEF Promised
  <2> QED
    BY <2>2, <2>3
<1>11. CASE ~(Pending(s) /\ ~Overridden(s)) /\ s \in Changed(c)
  <2>1. wished[s] = old[c][s].keys
    BY <1>11 DEF Promised
  <2>2. ~(s \in Brought /\ ~Overridden(s))
    BY <1>8, <1>11 DEF Overridden
  <2>3. s \in DOMAIN file'[c].keys /\ file'[c].keys[s] = wished[s]
    BY <1>1, <1>2, <1>11, <2>1, <2>2
  <2>4. ~Pending(s)'
    <3>1. Overridden(s) => ~Here(s)'
      BY <1>6 DEF Overridden
    <3> QED
      BY <1>7, <1>11, <3>1 DEF Pending
  <2> QED
    BY <1>3, <1>6, <1>7, <2>3, <2>4 DEF Promised
<1>12. CASE ~(Pending(s) /\ ~Overridden(s)) /\ s \notin Changed(c)
  <2>1. /\ s \in DOMAIN file[c].keys /\ wished[s] = file[c].keys[s]
        /\ kind[c] = "hotkey" => ~Here(s)
    BY <1>12 DEF Promised
  <2>2. ~Pending(s)
    BY <1>12 DEF Overridden
  <2>3. s \notin Brought
    BY <1>8, <2>1, <2>2
  <2>4. s \in DOMAIN file'[c].keys /\ file'[c].keys[s] = wished[s]
    BY <1>1, <1>2, <1>12, <2>1, <2>3
  <2> QED
    BY <1>3, <1>6, <1>7, <2>2, <2>4 DEF Promised
<1> QED
  BY <1>10, <1>11, <1>12

LEMMA MigrateWishes ==
    ASSUME SInv, WishInv, Migrate
    PROVE  WishInv'
<1>1. /\ phase = "migrating" /\ phase' = "loading" /\ file' = Migrated
      /\ old' = [c \in Apps |-> NoKeys]
      /\ \A s \in Moved : s.component \in installed
      /\ UNCHANGED <<vars, defaults, installed, kind, wished>>
  BY DEF Migrate
<1>2. live' = live /\ fresh' = fresh /\ writeout' = writeout /\ Created' = Created
  BY <1>1 DEF vars, book, place, Created
<1>3. Created = {}
  BY <1>1 DEF SInv, LifeOK
<1> SUFFICES ASSUME DOMAIN wished # {}
             PROVE  /\ Untouched'
                    /\ \A c \in Apps : Changed(c)' = {}
                    /\ \A s \in DOMAIN wished : /\ s \in Slots /\ s.component \in Apps
                                                /\ Promised(s)' /\ Behind(s)'
  BY <1>1 DEF WishInv
<1>4. Untouched'
  BY <1>1, <1>2, UntouchedStays DEF WishInv
<1>5. \A c \in Apps : Changed(c)' = {}
  BY <1>1 DEF Changed, NoKeys
<1>6. ASSUME NEW s \in DOMAIN wished
      PROVE  s \in Slots /\ s.component \in Apps /\ Promised(s)' /\ Behind(s)'
  <2>1. s \in Slots /\ s.component \in Apps /\ Promised(s)
    BY DEF WishInv
  <2>2. Promised(s)' /\ (Pending(s)' => Pending(s) /\ s \notin Moved)
    BY <1>1, <2>1, MigratedPromise DEF SInv
  <2>3. Pending(s) /\ s \notin Moved => s.component \notin installed
    BY DEF Pending, Here, Moved
  <2>4. Behind(s)'
    BY <1>1, <1>2, <1>3, <2>2, <2>3 DEF Behind
  <2> QED
    BY <2>1, <2>2, <2>4
<1> QED
  BY <1>4, <1>5, <1>6

\* The other steps that leave the registry alone.
LEMMA OffLineWishes ==
    ASSUME SInv, WishInv,
           \/ Tick \/ Start \/ Loaded \/ Detected \/ UNCHANGED settingsVars
           \/ \E c \in Apps : HotkeyFile(c) \/ DesktopFileChanges(c)
    PROVE  WishInv'
<1>1. UNCHANGED vars
  BY DEF Tick, Start, Loaded, Detected, HotkeyFile, DesktopFileChanges, settingsVars
<1>2. live' = live /\ fresh' = fresh /\ writeout' = writeout /\ Created' = Created
  BY <1>1 DEF vars, book, place, Created
<1>3. UNCHANGED <<file, old, kind, wished>> /\ defaults' = defaults
  BY DEF Tick, Start, Loaded, Detected, HotkeyFile, DesktopFileChanges, settingsVars, disk, world
<1>4. /\ phase' \in {"loading", "detecting", "up"} => phase \in {"loading", "detecting", "up"}
      /\ phase' = "loading" => phase = "loading" /\ installed' = installed
  BY DEF Tick, Start, Loaded, Detected, HotkeyFile, DesktopFileChanges, settingsVars, disk, world
<1>5. Untouched => Untouched'
  BY <1>2, <1>3, UntouchedStays
<1>6. \A s : Behind(s) => Behind(s)'
  BY <1>2, <1>3, <1>4, PromisesStay DEF Behind
<1> QED
  BY <1>3, <1>4, <1>5, <1>6, WishesStay DEF WishInv

LEMMA RefreshWishes ==
    ASSUME SInv, WishInv, RefreshServices
    PROVE  WishInv'
<1> DEFINE gone == (Created \cap Apps) \ installed
           dead == {s \in live : s.component \in gone}
<1>1. /\ phase = "up" /\ phase' = "detecting" /\ writeout' = writeout
      /\ UNCHANGED <<file, old, kind, wished>> /\ defaults' = DefaultsKept({})
      /\ Retire({}, {}, gone) /\ Erase(gone)
  BY DEF RefreshServices, Delete, world
<1>2. live' = live \ dead /\ fresh' = fresh \ dead
  BY <1>1 DEF Retire
<1>3. Created' \subseteq Created
  <2>1. gone \in SUBSET Created
    OBVIOUS
  <2> HIDE DEF gone
  <2> QED
    BY <1>1, <2>1, PlacesErase DEF SInv
<1>4. \A s \in live' : s \in live /\ defaults'[s] = defaults[s]
  <2>1. live \in SUBSET Slots
    BY DEF SInv, IInv, TypeOK
  <2> QED
    BY <1>1, <1>2, <2>1 DEF DefaultsKept
<1>5. Untouched => Untouched'
  BY <1>1, <1>2, <1>4, UntouchedStays
<1>6. \A s : Behind(s) => Behind(s)'
  BY <1>1, <1>3, PromisesStay DEF Behind
<1> QED
  BY <1>1, <1>5, <1>6, WishesStay DEF WishInv

\* The entry a shortcut was made from stays behind only if its desktop file is
\* not loaded.
LEMMA LoadingWishes ==
    ASSUME SInv, WishInv, NEW c \in Components, NEW wanted, NEW added,
           Loading(c, wanted, added), Restores(c, wanted, added)
    PROVE  WishInv'
<1>1. CASE added # {}
  <2>1. DOMAIN wished' = {}
    BY <1>1 DEF Restores, NoWishes
  <2> QED
    BY <2>1 DEF WishInv
<1>2. CASE added = {}
  <2>1. PICK rank \in Orders, accepted \in SUBSET Places(wanted) :
          Loads(c, wanted, added, rank, accepted)
    BY LoadForm DEF Loading
  <2>2. /\ UNCHANGED <<file, old, kind, wished>> /\ installed' = installed /\ phase' = phase
        /\ defaults' = [s \in Slots |->
                          IF s \in (IF c \in Apps THEN DOMAIN wanted ELSE {}) \ added
                          THEN FileKeys(s) ELSE defaults[s]]
    BY <1>2 DEF Loading, Restores, Load, world
  <2>3. Wants(c, wanted)
    BY DEF Loading
  <2>4. /\ live' = live \cup DOMAIN wanted /\ fresh' = fresh /\ writeout' = writeout
    BY <1>2, <2>1 DEF Loads
  <2>5. /\ DOMAIN wanted \in SUBSET Slots /\ live \in SUBSET Slots
        /\ \A s \in DOMAIN wanted : s.component = c
        /\ DOMAIN wanted \cap live = {}
    BY <2>3, WantsTypes DEF SInv, IInv, TypeOK
  <2>6. Created' = Created \cup {c}
    BY <1>2, <2>1, <2>3, LoadPlaces DEF SInv
  <2>7. ASSUME NEW s \in live', s.component \in Apps
        PROVE  \/ s \in live /\ defaults'[s] = defaults[s]
               \/ s \in ServiceSlots(s.component) /\ defaults'[s] = FileKeys(s)
    <3>1. CASE s \in live
      BY <2>2, <2>5, <3>1
    <3>2. CASE s \in DOMAIN wanted
      BY <1>2, <2>2, <2>5, <2>7, <3>2 DEF Restores
    <3> QED
      BY <2>4, <3>1, <3>2
  <2>8. Untouched => Untouched'
    BY <2>2, <2>4, <2>7, UntouchedStays
  <2>9. phase = "loading" \/ (phase = "detecting" /\ kind[c] = "application")
    BY <1>2 DEF Restores
  <2>10. c \in Apps => c \in installed
    BY DEF Loading
  <2>11. ASSUME NEW s, Behind(s), s.component \in Apps
         PROVE  Behind(s)'
    <3> SUFFICES ASSUME Pending(s)' PROVE s.component # c
      BY <2>2, <2>6, <2>11, PromisesStay DEF Behind
    <3>1. Pending(s)
      BY <2>2, PromisesStay
    <3>2. kind[s.component] # "application"
      BY <3>1 DEF Pending
    <3> QED
      BY <2>9, <2>10, <2>11, <3>1, <3>2 DEF Behind
  <2> QED
    BY <2>2, <2>8, <2>11, WishesStay DEF WishInv
<1> QED
  BY <1>1, <1>2

LEMMA StopWishes ==
    ASSUME SInv, WishInv, Crash \/ ShutDown
    PROVE  WishInv'
<1>1. Stopped
  BY DEF Crash, ShutDown
<1>2. /\ phase' = "down" /\ live' = {} /\ fresh' = {} /\ writeout' = FALSE
      /\ UNCHANGED <<old, kind, wished>>
  BY <1>1 DEF Stopped, world
<1>3. DOMAIN wished # {} => file' = file
  BY DEF Crash, ShutDown, WishInv, Untouched
<1>4. Untouched' /\ \A s : Behind(s)'
  BY <1>2 DEF Untouched, Behind
<1>5. CASE DOMAIN wished = {}
  BY <1>2, <1>5 DEF WishInv
<1>6. CASE DOMAIN wished # {}
  BY <1>2, <1>3, <1>4, <1>6, WishesStay
<1> QED
  BY <1>5, <1>6

\* What clients ask for counts from then on, and there is nothing to write
\* before.
LEMMA AskedWishes ==
    ASSUME WishInv,
           Serve \/ WriteOut \/ \E c \in Components : Forget(c) \/ ForgetApplication(c)
    PROVE  WishInv'
<1>1. DOMAIN NoWishes = {}
  BY DEF NoWishes
<1>2. CASE WriteOut
  <2>1. writeout /\ wished' = wished
    BY <1>2 DEF WriteOut, WriteSettings
  <2>2. DOMAIN wished' = {}
    BY <2>1 DEF WishInv, Untouched
  <2> QED
    BY <2>2 DEF WishInv
<1>3. CASE Serve \/ \E c \in Components : Forget(c) \/ ForgetApplication(c)
  <2>1. wished' = NoWishes
    BY <1>3 DEF Serve, Forget, ForgetApplication
  <2> QED
    BY <1>1, <2>1 DEF WishInv
<1> QED
  BY <1>2, <1>3

LEMMA InitialWishes == SettingsInit => WishInv
<1> SUFFICES ASSUME SettingsInit PROVE WishInv
  OBVIOUS
<1> DEFINE moved == {s \in DOMAIN From :
                       /\ From[s] \in DOMAIN Source(s)
                       /\ kind[s.component] \in {"file", "hotkey"}
                       /\ Source(s)[From[s]] \notin {FromDefault[From[s]], FileKeys(s)}}
           chosen(c) == {s \in DOMAIN old[c] : old[c][s].keys # old[c][s].default}
<1>1. wished = [s \in moved \cup UNION {chosen(c) : c \in Apps} |->
                  IF s \in moved /\ (kind[s.component] = "hotkey" => s \notin chosen(s.component))
                  THEN Source(s)[From[s]] ELSE old[s.component][s].keys]
  BY DEF SettingsInit
<1>2. \A s : s \in moved <=> Pending(s)
  BY DEF Pending, Here
<1>3. \A c : chosen(c) = Changed(c)
  BY DEF Changed
<1> HIDE DEF moved, chosen
<1>4. phase = "down" /\ Untouched
  BY DEF SettingsInit, Init, Untouched
<1>5. ASSUME NEW s \in DOMAIN wished
      PROVE  s \in Slots /\ s.component \in Apps /\ Promised(s)
  <2>1. s \in moved \/ \E c \in Apps : s \in chosen(c)
    BY <1>1
  <2>2. wished[s] = IF s \in moved /\ (kind[s.component] = "hotkey" => s \notin chosen(s.component))
                    THEN Source(s)[From[s]] ELSE old[s.component][s].keys
    BY <1>1
  <2>3. ASSUME NEW c \in Apps, s \in chosen(c)
        PROVE  s \in Slots /\ s.component = c
    <3>1. s \in DOMAIN old[c]
      BY <1>3, <2>3 DEF Changed
    <3>2. KeysOf(c, [t \in DOMAIN old[c] |-> old[c][t].keys])
      BY SettingsInitInv DEF SInv, OldOK
    <3> QED
      BY <3>1, <3>2 DEF KeysOf
  <2>4. s \in moved => s \in Slots /\ s.component \in Apps
    BY <1>2, FromAssumption DEF Pending, Here
  <2>5. s \notin moved => s \in chosen(s.component)
    BY <2>1, <2>3
  <2>6. Overridden(s) <=> kind[s.component] = "hotkey" /\ s \in chosen(s.component)
    BY <1>3 DEF Overridden
  <2>7. Promised(s)
    BY <1>2, <1>3, <2>2, <2>5, <2>6 DEF Promised
  <2> QED
    BY <2>1, <2>3, <2>4, <2>7
<1>6. \A s : Behind(s)
  BY <1>4 DEF Behind
<1> QED
  BY <1>4, <1>5, <1>6 DEF WishInv

LEMMA WishInductive == SettingsSpec => []WishInv
<1>1. SInv /\ WishInv /\ [SettingsNext]_settingsVars => WishInv'
  <2> SUFFICES ASSUME SInv, WishInv, [SettingsNext]_settingsVars PROVE WishInv'
    OBVIOUS
  <2>1. CASE Serve \/ WriteOut \/ \E c \in Components : Forget(c) \/ ForgetApplication(c)
    BY <2>1, AskedWishes
  <2>2. CASE RefreshServices
    BY <2>2, RefreshWishes
  <2>3. CASE \/ \E c \in Components : LoadGroup(c) \/ LoadServiceGroup(c) \/ LoadServiceFile(c)
             \/ \E c \in Apps : DetectApp(c)
             \/ \E id \in Ids : AddApplication(id)
    BY <2>3, LoadingKinds, LoadingWishes
  <2>4. CASE Migrate
    BY <2>4, MigrateWishes
  <2>5. CASE \/ Tick \/ Start \/ Loaded \/ Detected \/ UNCHANGED settingsVars
             \/ \E c \in Apps : HotkeyFile(c) \/ DesktopFileChanges(c)
    BY <2>5, OffLineWishes
  <2>6. CASE Crash \/ ShutDown
    BY <2>6, StopWishes
  <2> QED
    BY <2>1, <2>2, <2>3, <2>4, <2>5, <2>6 DEF SettingsNext
<1> QED
  BY <1>1, InitialWishes, SettingsInductive, PTL DEF SettingsSpec

(***************************************************************************)
(* The keys chosen in a file of an older version are those that the daemon *)
(* has once it is up, and until a client asks for other ones, but for keys *)
(* that the conflict filter refuses: whichever desktop files there are,    *)
(* whatever a shortcut was made from, and whatever crashed on the way      *)
(* (migrateKHotkeys, migrateConfig, loadSettings).                         *)
(***************************************************************************)
THEOREM UpgradesKeepChosenKeys == SettingsSpec => []ChosenKeysSurviveUpgrades
<1>1. SInv /\ UpInv /\ WishInv => ChosenKeysSurviveUpgrades
  <2> SUFFICES ASSUME SInv, UpInv, WishInv, phase = "up", NEW s \in DOMAIN wished \cap live
               PROVE  /\ DOMAIN keys[s] = DOMAIN wished[s]
                      /\ \A i \in DOMAIN keys[s] : keys[s][i] \in {wished[s][i], <<>>}
    BY DEF ChosenKeysSurviveUpgrades
  <2>1. /\ Untouched /\ s.component \in Apps /\ Promised(s) /\ Behind(s)
        /\ Changed(s.component) = {}
    BY DEF WishInv
  <2>2. s.component \in Created
    BY DEF SInv, PlacesOK
  <2>3. ~Pending(s)
    BY <2>1, <2>2 DEF Behind
  <2>4. wished[s] = Recorded(s)
    BY <2>1, <2>3 DEF Promised, Recorded
  <2>5. s \in live \ fresh /\ Kept(s)
    BY <2>1 DEF Untouched, Kept
  <2>6. UpToDate
    BY <2>1 DEF Untouched, UpInv, FileInv
  <2> QED
    BY <2>4, <2>5, <2>6 DEF UpToDate
<1> QED
  BY <1>1, SettingsInductive, UpInductive, WishInductive, PTL

-----------------------------------------------------------------------------
(***************************************************************************)
(* Keys stay apart across restarts.                                        *)
(***************************************************************************)

\* What the filter accepts for a shortcut of the group that is loaded.
LEMMA LoadedKey ==
    ASSUME IInv, PlacesOK, NEW c, NEW wanted, Wants(c, wanted),
           NEW added, NEW rank, NEW accepted, Loads(c, wanted, added, rank, accepted),
           NEW s \in DOMAIN wanted \ added, NEW i \in DOMAIN keys'[s], keys'[s][i] \in Keys
    PROVE  /\ <<s, i>> \in accepted /\ <<s, i>> \in Places(wanted)
           /\ keys'[s][i] = wanted[s][i]
<1>1. s \in Slots
  BY WantsTypes
<1>2. keys'[s] = LoadedKeys(wanted, accepted)[s]
  BY <1>1 DEF Loads
<1>3. LoadedKeys(wanted, accepted)[s]
        = [n \in DOMAIN wanted[s] |-> IF <<s, n>> \in accepted THEN wanted[s][n] ELSE <<>>]
  BY DEF LoadedKeys
<1>4. i \in DOMAIN wanted[s]
  BY <1>2, <1>3
<1>5. keys'[s][i] = IF <<s, i>> \in accepted THEN wanted[s][i] ELSE <<>>
  BY <1>2, <1>3, <1>4
<1>6. <<s, i>> \in Places(wanted)
  BY <1>4 DEF Places
<1> QED
  BY <1>5, <1>6, EmptyIsNoKey

LEMMA RanksDiffer ==
    ASSUME NEW rank \in Orders, NEW m \in Names, NEW n \in Names, m # n
    PROVE  rank[m] < rank[n] \/ rank[n] < rank[m]
<1>1. Cardinality(Names) \in Nat
  BY DesktopAssumption, FS_CardinalityType
<1>2. rank[m] \in Int /\ rank[n] \in Int /\ rank[m] # rank[n]
  BY <1>1 DEF Orders
<1> QED
  BY <1>2

LEMMA LoadKeepsApart ==
    ASSUME IInv, PlacesOK, NoClash, NEW c, NEW wanted, Wants(c, wanted),
           NEW added \in SUBSET Slots, \A s \in added : s.component = c,
           NEW rank \in Orders, NEW accepted, Loads(c, wanted, added, rank, accepted)
    PROVE  NoClash'
<1>1. /\ DOMAIN wanted \in SUBSET Slots /\ DOMAIN wanted \cap live = {}
      /\ added \cap live = {} /\ live \in SUBSET Slots
      /\ \A s \in DOMAIN wanted : s.component = c /\ DOMAIN wanted[s] \subseteq Int
  BY WantsTypes DEF IInv, TypeOK, KeyListType
<1>2. /\ live' = live \cup DOMAIN wanted \cup added
      /\ current' = current
      /\ keys' = [s \in Slots |-> IF s \in added THEN <<>>
                                  ELSE IF s \in DOMAIN wanted
                                       THEN LoadedKeys(wanted, accepted)[s] ELSE keys[s]]
      /\ PastFilter(wanted, rank, accepted)
  BY DEF Loads
<1>3. /\ \A s \in live : keys'[s] = keys[s]
      /\ \A s \in added : DOMAIN keys'[s] = {}
  BY <1>1, <1>2
<1>4. ASSUME NEW s \in CurrentSlots', DOMAIN keys'[s] # {}
      PROVE  \/ s \in CurrentSlots
             \/ s \in DOMAIN wanted \ added /\ s.context = current[c] /\ s \in Slots
  <2>1. s \in live' /\ s.context = current[s.component]
    BY <1>2 DEF CurrentSlots, InCurrent
  <2> QED
    BY <1>1, <1>2, <1>3, <1>4, <2>1 DEF CurrentSlots, InCurrent
<1>5. ASSUME NEW s \in DOMAIN wanted \ added, NEW t \in CurrentSlots,
             NEW i \in DOMAIN keys'[s], NEW j \in DOMAIN keys'[t],
             keys'[s][i] \in Keys, keys'[t][j] \in Keys
      PROVE  <<keys'[s][i], keys'[t][j]>> \notin Clashing
  <2>1. <<s, i>> \in accepted /\ <<s, i>> \in Places(wanted) /\ keys'[s][i] = wanted[s][i]
    BY <1>5, LoadedKey
  <2>2. keys'[t][j] \in KeySet(keys[t])
    <3>1. keys'[t] = keys[t]
      BY <1>3 DEF CurrentSlots
    <3> QED
      BY <1>5, <3>1, EmptyIsNoKey DEF KeySet
  <2> DEFINE p == <<s, i>>
  <2>3. p[1] = s /\ p[2] = i
    OBVIOUS
  <2>4. \A t2 \in CurrentSlots : \A other \in KeySet(keys[t2]) :
           <<wanted[p[1]][p[2]], other>> \notin Clashing
    BY <1>2, <2>1 DEF PastFilter
  <2> QED
    BY <2>1, <2>2, <2>3, <2>4
<1>6. ASSUME NEW s \in DOMAIN wanted \ added, NEW t \in DOMAIN wanted \ added,
             NEW i \in DOMAIN keys'[s], NEW j \in DOMAIN keys'[t],
             keys'[s][i] \in Keys, keys'[t][j] \in Keys, s.context = t.context,
             rank[t.name] < rank[s.name] \/ (t = s /\ j < i)
      PROVE  <<keys'[s][i], keys'[t][j]>> \notin Clashing
  <2> DEFINE p == <<s, i>>
             q == <<t, j>>
  <2>1. /\ p \in accepted /\ p \in Places(wanted) /\ keys'[s][i] = wanted[s][i]
        /\ q \in accepted /\ keys'[t][j] = wanted[t][j]
    BY <1>6, LoadedKey
  <2>2. p[1] = s /\ p[2] = i /\ q[1] = t /\ q[2] = j
    OBVIOUS
  <2>3. \A q2 \in accepted :
           /\ q2[1].context = p[1].context
           /\ \/ rank[q2[1].name] < rank[p[1].name]
              \/ q2[1] = p[1] /\ q2[2] < p[2]
           => <<wanted[p[1]][p[2]], wanted[q2[1]][q2[2]]>> \notin Clashing
    BY <1>2, <2>1 DEF PastFilter
  <2> HIDE DEF p, q
  <2> QED
    BY <1>6, <2>1, <2>2, <2>3
<1>7. ASSUME NEW s \in CurrentSlots', NEW t \in CurrentSlots',
             NEW i \in DOMAIN keys'[s], NEW j \in DOMAIN keys'[t],
             <<keys'[s][i], keys'[t][j]>> \in Clashing
      PROVE  s = t /\ i = j
  <2>1. keys'[s][i] \in Keys /\ keys'[t][j] \in Keys
    BY <1>7 DEF Clashing
  <2>2. <<keys'[t][j], keys'[s][i]>> \in Clashing
    BY <1>7, <2>1, ClashingSymmetric
  <2>3. CASE s \in CurrentSlots /\ t \in CurrentSlots
    <3>1. keys'[s] = keys[s] /\ keys'[t] = keys[t]
      BY <1>3, <2>3 DEF CurrentSlots
    <3> QED
      BY <1>7, <2>3, <3>1 DEF NoClash
  <2>4. CASE s \in DOMAIN wanted \ added /\ t \in CurrentSlots
    BY <1>5, <1>7, <2>1, <2>4
  <2>5. CASE s \in CurrentSlots /\ t \in DOMAIN wanted \ added
    BY <1>5, <2>1, <2>2, <2>5
  <2>6. CASE /\ s \in DOMAIN wanted \ added /\ s.context = current[c] /\ s \in Slots
             /\ t \in DOMAIN wanted \ added /\ t.context = current[c] /\ t \in Slots
    <3>1. i \in Int /\ j \in Int
      <4>1. i \in DOMAIN wanted[s] /\ j \in DOMAIN wanted[t]
        BY <1>2, <2>6 DEF LoadedKeys
      <4> QED
        BY <1>1, <2>6, <4>1
    <3>2. s = t
      <4>1. SUFFICES ASSUME s # t PROVE FALSE
        OBVIOUS
      <4>2. s.name # t.name /\ s.name \in Names /\ t.name \in Names
        BY <1>1, <2>6, <4>1 DEF Slots
      <4>3. rank[s.name] < rank[t.name] \/ rank[t.name] < rank[s.name]
        BY <4>2, RanksDiffer
      <4> QED
        BY <1>6, <1>7, <2>1, <2>2, <2>6, <4>3
    <3>3. ~(i < j) /\ ~(j < i)
      BY <1>6, <1>7, <2>1, <2>2, <2>6, <3>2
    <3> QED
      BY <3>1, <3>2, <3>3
  <2> QED
    BY <1>4, <2>3, <2>4, <2>5, <2>6
<1>8. Clashing' = Clashing
  BY DEF Clashing
<1> QED
  BY <1>7, <1>8 DEF NoClash

LEMMA SettingsClashStep ==
    ASSUME SInv, NoClash, NoneEnters, SettingsNext
    PROVE  NoClash'
<1>1. CASE Work
  BY <1>1, ClashStep DEF SInv, Next
<1>2. ASSUME NEW idle, NEW doomed, NEW gone, Retire(idle, doomed, gone)
      PROVE  NoClash'
  <2> DEFINE dead == doomed \cup {s \in live : s.component \in gone}
  <2>1. /\ live' = live \ dead
        /\ keys' = [s \in Slots |-> IF s \in dead THEN <<>> ELSE keys[s]]
    BY <1>2 DEF Retire
  <2>2. \A s \in live' : s \in live /\ s \in Slots /\ s \notin dead
    BY <2>1 DEF SInv, IInv, TypeOK
  <2> HIDE DEF dead
  <2>3. \A s \in live' : s \in live /\ keys'[s] = keys[s]
    BY <2>1, <2>2
  <2> QED
    BY <2>3, ClashStays
<1>3. ASSUME NEW c, NEW wanted, NEW added, Loading(c, wanted, added)
      PROVE  NoClash'
  BY <1>3, LoadForm, LoadKeepsApart DEF Loading, SInv
<1>4. CASE UNCHANGED vars
  <2>1. \A s \in live' : s \in live /\ keys'[s] = keys[s]
    BY <1>4 DEF vars, book
  <2> QED
    BY <2>1, ClashStays
<1>5. CASE Stopped
  BY <1>5 DEF Stopped, NoClash, CurrentSlots
<1>6. CASE Serve \/ WriteOut \/ \E c \in Components : Forget(c)
  BY <1>1, <1>6, ServeIsWork, WriteOutIsWork, ForgetIsWork
<1>7. CASE RefreshServices \/ \E c \in Components : ForgetApplication(c)
  BY <1>2, <1>7 DEF RefreshServices, Delete, ForgetApplication
<1>8. CASE \/ \E c \in Components : LoadGroup(c) \/ LoadServiceGroup(c) \/ LoadServiceFile(c)
           \/ \E c \in Apps : DetectApp(c)
           \/ \E id \in Ids : AddApplication(id)
  BY <1>3, <1>8, LoadingKinds
<1>9. CASE \/ Tick \/ Start \/ Loaded \/ Detected \/ Migrate
           \/ \E c \in Apps : HotkeyFile(c) \/ DesktopFileChanges(c)
  BY <1>4, <1>9 DEF Tick, Start, Loaded, Detected, Migrate, HotkeyFile, DesktopFileChanges
<1>10. CASE Crash \/ ShutDown
  BY <1>5, <1>10 DEF Crash, ShutDown
<1> QED
  BY <1>6, <1>7, <1>8, <1>9, <1>10 DEF SettingsNext

(***************************************************************************)
(* Whatever stands in the settings file and in desktop files, and whatever *)
(* was lost in a crash, no two keys of shortcuts in current contexts come  *)
(* to clash as long as no context is entered that holds shortcuts: every   *)
(* key loaded goes past the filter of GlobalShortcut::setKeys.             *)
(***************************************************************************)
THEOREM RestartsKeepKeysApart ==
    SettingsSpec /\ [][NoneEnters]_settingsVars => []NoClash
<1>1. SettingsInit => NoClash
  BY DEF SettingsInit, Init, NoClash, CurrentSlots
<1>2. SInv /\ NoClash /\ [NoneEnters]_settingsVars /\ [SettingsNext]_settingsVars => NoClash'
  <2> SUFFICES ASSUME SInv, NoClash, [NoneEnters]_settingsVars, [SettingsNext]_settingsVars
               PROVE  NoClash'
    OBVIOUS
  <2>1. CASE NoneEnters /\ SettingsNext
    BY <2>1, SettingsClashStep
  <2>2. CASE UNCHANGED settingsVars
    <3>1. CurrentSlots' = CurrentSlots /\ keys' = keys /\ Clashing' = Clashing
      BY <2>2 DEF settingsVars, vars, place, book, CurrentSlots, InCurrent, Clashing
    <3> QED
      BY <3>1 DEF NoClash
  <2> QED
    BY <2>1, <2>2
<1> QED
  BY <1>1, <1>2, SettingsInductive, PTL DEF SettingsSpec

-----------------------------------------------------------------------------
(***************************************************************************)
(* The settings are a durable store, in a daemon without desktop files and *)
(* with every component in one context, provided that no two keys in the   *)
(* file clash when the daemon is started for the first time: it never      *)
(* writes keys that do.                                                    *)
(***************************************************************************)
ClashFree(stored) ==
    \A c, d \in Components :
        \A s \in DOMAIN stored[c], t \in DOMAIN stored[d] :
            \A i \in DOMAIN stored[c][s], j \in DOMAIN stored[d][t] :
                <<stored[c][s][i], stored[d][t][j]>> \in Clashing => s = t /\ i = j

CleanFiles ==
    \A upgrade \in Upgrades : ClashFree([c \in Components |-> upgrade.file[c].keys])

Simple == Apps = {} /\ Contexts = {Default} /\ CleanFiles

(***************************************************************************)
(* What makes a start bring back what was stored: the keys in the file do  *)
(* not clash, so the filter refuses none of them; components that are      *)
(* loaded have the shortcuts and keys of their group; and every group with *)
(* shortcuts belongs to a component once all are loaded.                   *)
(***************************************************************************)
GroupsLoaded ==
    phase \in {"detecting", "up"} =>
        \A c \in Components \ Created : DOMAIN file[c].keys = {}

LoadedAsStored ==
    phase \in {"loading", "detecting"} =>
        /\ \A s \in live : /\ s \in DOMAIN file[s.component].keys
                           /\ keys[s] = file[s.component].keys[s]
        /\ \A c \in Created : DOMAIN file[c].keys \subseteq live

StoreInv ==
    /\ ClashFree(Stored)
    /\ GroupsLoaded
    /\ LoadedAsStored
    /\ phase # "up" => fresh = {}
    /\ refreshDue = FALSE

\* In one context every shortcut is in its current one.
LEMMA OneContextCurrent ==
    ASSUME Simple, IInv
    PROVE  CurrentSlots = live
BY DEF Simple, IInv, TypeOK, CurrentSlots, InCurrent, Slots

LEMMA OneContextNoneEnters ==
    ASSUME Simple, IInv, IInv'
    PROVE  NoneEnters
<1>1. CurrentSlots = live
  BY OneContextCurrent
<1> QED
  BY <1>1 DEF NoneEnters

\* The shortcuts a group is written for, and their keys.
Saved(c, remaining) == {s \in remaining \ fresh : s.component = c}

LEMMA GroupKeys ==
    ASSUME Simple, NEW c, NEW remaining
    PROVE  Group(c, remaining).keys = [s \in Saved(c, remaining) |-> keys[s]]
<1>1. {s \in remaining \ fresh : s.component = c /\ (c \in Apps => keys[s] # defaults[s])}
        = Saved(c, remaining)
  BY DEF Simple, Saved
<1> QED
  BY <1>1 DEF Group

\* InMemory after a step.
LEMMA GroupKeysNext ==
    ASSUME Simple, NEW c
    PROVE  Group(c, live)'.keys = [s \in Saved(c, live)' |-> keys'[s]]
<1>1. {s \in live' \ fresh' : s.component = c /\ (c \in Apps => keys'[s] # defaults'[s])}
        = Saved(c, live)'
  BY DEF Simple, Saved
<1> QED
  BY <1>1 DEF Group

\* If the same shortcuts have the same keys, the same is in memory.
LEMMA SameInMemory ==
    ASSUME Simple, live' \ fresh' = live \ fresh,
           \A s \in live \ fresh : keys'[s] = keys[s]
    PROVE  InMemory' = InMemory
<1>1. ASSUME NEW c \in Components
      PROVE  Group(c, live)'.keys = Group(c, live).keys
  <2>1. Saved(c, live)' = Saved(c, live)
    BY DEF Saved
  <2>2. \A s \in Saved(c, live) : keys'[s] = keys[s]
    BY DEF Saved
  <2>3. [s \in Saved(c, live)' |-> keys'[s]] = [s \in Saved(c, live) |-> keys[s]]
    BY <2>1, <2>2
  <2> QED
    BY <2>3, GroupKeys, GroupKeysNext
<1> QED
  BY <1>1 DEF InMemory

\* What is written is what stays in memory.
LEMMA WrittenKeys ==
    ASSUME Simple, SInv, GroupsLoaded, phase = "up",
           NEW remaining \in SUBSET live, NEW c \in Components
    PROVE  Written(remaining)[c].keys = [s \in Saved(c, remaining) |-> keys[s]]
<1>1. Written(remaining)[c] = IF c \notin Created THEN file[c]
                              ELSE IF c \in Spent(remaining) THEN NoGroup
                                   ELSE Group(c, remaining)
  BY DEF Written
<1>2. CASE c \notin Created
  <2>1. Saved(c, remaining) = {}
    BY <1>2 DEF SInv, PlacesOK, Saved
  <2>2. DOMAIN file[c].keys = {} /\ file[c].keys \in [DOMAIN file[c].keys -> Seq(Keys \cup {<<>>})]
    BY <1>2 DEF GroupsLoaded, SInv, FileOK, KeysOf
  <2>3. file[c].keys = [s \in {} |-> keys[s]]
    BY <2>2
  <2> QED
    BY <1>1, <1>2, <2>1, <2>3
<1>3. CASE c \in Created /\ c \in Spent(remaining)
  <2>1. \A s \in remaining : s.context = Default
    BY DEF Simple, SInv, IInv, TypeOK, Slots
  <2>2. Saved(c, remaining) = {}
    BY <1>3, <2>1 DEF Saved, Spent
  <2>3. NoGroup.keys = [s \in {} |-> keys[s]]
    BY DEF NoGroup, NoKeys
  <2> QED
    BY <1>1, <1>3, <2>2, <2>3
<1>4. CASE c \in Created /\ c \notin Spent(remaining)
  BY <1>1, <1>4, GroupKeys
<1> QED
  BY <1>2, <1>3, <1>4

\* The two steps that write while the daemon stays up.
LEMMA SyncStep ==
    ASSUME Simple, SInv, GroupsLoaded, phase = "up",
           NEW idle, NEW doomed \in SUBSET live, NEW gone, Retire(idle, doomed, gone),
           file' = Written(live')
    PROVE  Stored' = InMemory'
<1> DEFINE dead == doomed \cup {s \in live : s.component \in gone}
<1>1. /\ live' = live \ dead /\ fresh' = fresh \ dead
      /\ keys' = [s \in Slots |-> IF s \in dead THEN <<>> ELSE keys[s]]
  BY DEF Retire
<1>2. live \in SUBSET Slots
  BY DEF SInv, IInv, TypeOK
<1>3. live' \in SUBSET live /\ \A s \in live' : keys'[s] = keys[s]
  BY <1>1, <1>2
<1>4. ASSUME NEW c \in Components
      PROVE  file'[c].keys = Group(c, live)'.keys
  <2>1. file'[c].keys = [s \in Saved(c, live') |-> keys[s]]
    BY <1>3, WrittenKeys
  <2>2. Saved(c, live)' = Saved(c, live')
    BY <1>1 DEF Saved
  <2>3. \A s \in Saved(c, live') : keys'[s] = keys[s]
    BY <1>3 DEF Saved
  <2>4. [s \in Saved(c, live)' |-> keys'[s]] = [s \in Saved(c, live') |-> keys[s]]
    BY <2>2, <2>3
  <2> QED
    BY <2>1, <2>4, GroupKeysNext
<1> QED
  BY <1>4 DEF Stored, InMemory

\* Keys of shortcuts do not clash, so what is written does not.
LEMMA WrittenClashFree ==
    ASSUME Simple, SInv, GroupsLoaded, NoClash, phase = "up",
           NEW remaining \in SUBSET live, file' = Written(remaining)
    PROVE  ClashFree(Stored')
<1>1. CurrentSlots = live
  BY OneContextCurrent DEF SInv
<1>2. ASSUME NEW c \in Components
      PROVE  /\ Stored'[c] = [s \in Saved(c, remaining) |-> keys[s]]
             /\ DOMAIN Stored'[c] \subseteq live
             /\ \A s \in DOMAIN Stored'[c] : Stored'[c][s] = keys[s]
  <2>1. Stored'[c] = [s \in Saved(c, remaining) |-> keys[s]]
    BY WrittenKeys DEF Stored
  <2> QED
    BY <2>1 DEF Saved
<1>3. ASSUME NEW c \in Components, NEW d \in Components,
             NEW s \in DOMAIN Stored'[c], NEW t \in DOMAIN Stored'[d],
             NEW i \in DOMAIN Stored'[c][s], NEW j \in DOMAIN Stored'[d][t],
             <<Stored'[c][s][i], Stored'[d][t][j]>> \in Clashing
      PROVE  s = t /\ i = j
  <2>1. /\ s \in CurrentSlots /\ t \in CurrentSlots
        /\ Stored'[c][s] = keys[s] /\ Stored'[d][t] = keys[t]
    BY <1>1, <1>2
  <2> QED
    BY <1>3, <2>1 DEF NoClash
<1> QED
  BY <1>3 DEF ClashFree

LEMMA ClashFreeNext == ClashFree(Stored)' <=> ClashFree(Stored')
BY DEF ClashFree, Clashing

(***************************************************************************)
(* One lemma per kind of step: it preserves StoreInv, and it is a step of  *)
(* DurableStore.                                                           *)
(***************************************************************************)
Memory == IF phase = "up" THEN InMemory ELSE Stored

LEMMA ServeStores ==
    ASSUME Simple, SInv, StoreInv, Serve
    PROVE  /\ StoreInv'
           /\ Stored' = Stored
           /\ \/ writeout' = TRUE
              \/ writeout' = writeout /\ Memory' = Memory
<1>1. /\ phase = "up" /\ phase' = "up" /\ file' = file /\ refreshDue' = refreshDue
  BY DEF Serve
<1>2. Stored' = Stored
  BY <1>1 DEF Stored
<1>3. StoreInv'
  <2>1. Created \subseteq Created'
    BY ServePlaces DEF SInv
  <2>2. GroupsLoaded'
    BY <1>1, <2>1 DEF StoreInv, GroupsLoaded
  <2> QED
    BY <1>1, <1>2, <2>2, ClashFreeNext DEF StoreInv, LoadedAsStored
<1>4. ASSUME live' \ fresh' = live \ fresh, \A s \in live \ fresh : keys'[s] = keys[s]
      PROVE  Memory' = Memory
  BY <1>1, <1>4, SameInMemory DEF Memory
<1>5. ASSUME NEW id \in Ids, Register(id) \/ ChangeKeys(id) \/ Withdraw(id)
      PROVE  writeout' = TRUE \/ (writeout' = writeout /\ Memory' = Memory)
  <2>1. CASE AddAction(id)
    <3>1. Home(id) \in Slots /\ Target(id) \in Slots
      BY SlotsOfIds DEF SInv, IInv
    <3>2. Home(id) = Target(id)
      BY <3>1 DEF Simple, Home, Target, Slots
    <3>3. Home(id) \notin live
      BY <2>1, <3>2 DEF AddAction
    <3>4. /\ live' = live \cup {Home(id)} /\ fresh' = fresh \cup {Home(id)}
          /\ keys' = [keys EXCEPT ![Home(id)] = <<>>]
          /\ writeout' = writeout
      BY <2>1 DEF AddAction
    <3>5. live' \ fresh' = live \ fresh
      BY <3>3, <3>4
    <3>6. \A s \in live \ fresh : keys'[s] = keys[s]
      BY <3>3, <3>4 DEF SInv, IInv, TypeOK
    <3> QED
      BY <1>4, <3>4, <3>5, <3>6
  <2>2. CASE Rename(id)
    <3>1. writeout' \in {writeout, TRUE} /\ live' = live /\ fresh' = fresh /\ keys' = keys
      BY <2>2 DEF Rename, book
    <3> QED
      BY <1>4, <3>1
  <2>3. CASE Autoload(id) \/ SetInactive(id)
    <3>1. writeout' = writeout /\ live' = live /\ fresh' = fresh /\ keys' = keys
      BY <2>3 DEF Autoload, SetInactive
    <3> QED
      BY <1>4, <3>1
  <2>4. CASE \/ Unregister(id)
             \/ \E list \in KeyLists :
                  \/ \E setPresent, autoloading \in BOOLEAN :
                        SetShortcutKeys(id, list, setPresent, autoloading)
                  \/ SetForeignShortcutKeys(id, list)
    BY <2>4 DEF Unregister, SetShortcutKeys, SetForeignShortcutKeys, SetKeys
  <2> QED
    BY <1>5, <2>1, <2>2, <2>3, <2>4 DEF Register, ChangeKeys, Withdraw
<1>6. ASSUME NEW id \in Ids, SetDefaults(id)
      PROVE  writeout' = TRUE
  BY <1>6 DEF SetDefaults, SetDefaultKeys
<1>7. ASSUME \/ \E c \in Components, context \in Contexts :
                   ActivateContext(c, context) \/ CreateContext(c, context)
             \/ BlockGlobalShortcuts
             \/ UnblockGlobalShortcuts
      PROVE  writeout' = writeout /\ Memory' = Memory
  <2>1. writeout' = writeout /\ live' = live /\ fresh' = fresh /\ keys' = keys
    BY <1>7 DEF ActivateContext, CreateContext, BlockGlobalShortcuts,
                UnblockGlobalShortcuts, book
  <2> QED
    BY <1>4, <2>1
<1>8. writeout' = TRUE \/ (writeout' = writeout /\ Memory' = Memory)
  BY <1>5, <1>6, <1>7 DEF Serve
<1> QED
  BY <1>2, <1>3, <1>8

\* Steps that write while the daemon stays up delete shortcuts, and then the
\* components of which nothing is left.
LEMMA WritingForm ==
    ASSUME WriteOut \/ \E c \in Components : Forget(c)
    PROVE  \E doomed \in SUBSET live : /\ Retire({}, doomed, Spent(live \ doomed))
                                       /\ Erase(Spent(live \ doomed))
<1>1. CASE WriteOut
  <2>1. Retire({}, {}, Spent(live)) /\ Erase(Spent(live)) /\ live \ {} = live
    BY <1>1 DEF WriteOut, WriteSettings, Delete
  <2> QED
    BY <2>1
<1>2. ASSUME NEW c \in Components, Forget(c)
      PROVE  \E doomed \in SUBSET live : /\ Retire({}, doomed, Spent(live \ doomed))
                                         /\ Erase(Spent(live \ doomed))
  <2> DEFINE doomed == UNION {Siblings(s) : s \in
                                {t \in CurrentSlots \ present : t.component = c}}
  <2>1. doomed \in SUBSET live
    BY DEF Siblings
  <2>2. Retire({}, doomed, Spent(live \ doomed)) /\ Erase(Spent(live \ doomed))
    BY <1>2 DEF Forget, CleanUp, Delete
  <2> HIDE DEF doomed
  <2> QED
    BY <2>1, <2>2
<1> QED
  BY <1>1, <1>2

\* Writing while the daemon is up.
LEMMA WriteStores ==
    ASSUME Simple, SInv, StoreInv, NoClash,
           WriteOut \/ \E c \in Components : Forget(c)
    PROVE  /\ StoreInv'
           /\ Stored' = Memory'
           /\ writeout' \in {writeout, FALSE}
<1>1. /\ phase = "up" /\ phase' = "up" /\ file' = Written(live')
      /\ writeout' \in {writeout, FALSE} /\ refreshDue' = refreshDue
  BY DEF WriteOut, Forget, WriteSettings, CleanUp
<1>2. PICK doomed \in SUBSET live : /\ Retire({}, doomed, Spent(live \ doomed))
                                    /\ Erase(Spent(live \ doomed))
  BY WritingForm
<1> DEFINE gone == Spent(live \ doomed)
           dead == doomed \cup {s \in live : s.component \in gone}
<1>3. GroupsLoaded
  BY DEF StoreInv
<1>4. Stored' = InMemory'
  BY <1>1, <1>2, <1>3, SyncStep
<1>5. live' = live \ dead /\ live' \subseteq live
  BY <1>2 DEF Retire
<1>6. ClashFree(Stored')
  BY <1>1, <1>3, <1>5, WrittenClashFree
<1>7. Created' = Created \ gone /\ gone \subseteq Created
  BY <1>2, PlacesErase, SpentCreated DEF SInv
<1>8. ASSUME NEW c \in Components, c \notin Created'
      PROVE  DOMAIN file'[c].keys = {}
  <2>1. CASE c \notin Created
    <3>1. file'[c] = file[c]
      BY <1>1, <2>1 DEF Written
    <3> QED
      BY <1>1, <1>3, <2>1, <3>1 DEF GroupsLoaded
  <2>2. CASE c \in gone
    <3>1. \A s \in live' : s.component # c
      BY <1>5, <2>2
    <3>2. c \in Spent(live')
      BY <1>7, <2>2, <3>1 DEF Spent
    <3>3. file'[c] = NoGroup
      BY <1>1, <1>7, <2>2, <3>2 DEF Written
    <3> QED
      BY <3>3, NoGroupType
  <2> QED
    BY <1>7, <1>8, <2>1, <2>2
<1>9. StoreInv'
  BY <1>1, <1>6, <1>8, ClashFreeNext DEF StoreInv, GroupsLoaded, LoadedAsStored
<1> QED
  BY <1>1, <1>4, <1>9 DEF Memory

\* Steps that leave the registry and the file alone, or bring nothing new into
\* the file: what the start does before the settings are loaded, and after.
LEMMA NothingMoves ==
    ASSUME Simple
    PROVE  Moved = {}
BY FromAssumption DEF Simple, Moved

LEMMA MigratedStores ==
    ASSUME Simple, FileOK, file' = Migrated
    PROVE  \A c \in Components : file'[c].keys = file[c].keys
<1>1. ASSUME NEW c \in Components
      PROVE  file'[c].keys = file[c].keys
  <2> DEFINE gone == {From[s] : s \in {t \in Moved : From[t].component = c}}
             kept == [s \in DOMAIN file[c].keys \ gone |-> file[c].keys[s]]
  <2>1. file'[c] = LeftOf(c)
    BY DEF Simple, Migrated
  <2>2. LeftOf(c) = [contexts |-> file[c].contexts, keys |-> kept]
    BY NothingMoves DEF LeftOf
  <2>3. gone = {}
    BY NothingMoves
  <2>4. file[c].keys \in [DOMAIN file[c].keys -> Seq(Keys \cup {<<>>})]
    BY DEF FileOK, KeysOf
  <2>5. kept = file[c].keys
    BY <2>3, <2>4
  <2> HIDE DEF kept
  <2> QED
    BY <2>1, <2>2, <2>5
<1> QED
  BY <1>1

LEMMA OffLineStores ==
    ASSUME Simple, SInv, StoreInv,
           \/ Tick \/ Start \/ Loaded \/ Detected \/ Migrate
           \/ \E c \in Apps : HotkeyFile(c) \/ DesktopFileChanges(c)
    PROVE  /\ StoreInv'
           /\ Stored' = Stored
           /\ Memory' = Memory
           /\ writeout' = writeout
<1>1. UNCHANGED vars
  BY DEF Tick, Start, Loaded, Detected, Migrate, HotkeyFile, DesktopFileChanges
<1>2. /\ live' = live /\ keys' = keys /\ fresh' = fresh /\ writeout' = writeout
      /\ Created' = Created
  BY <1>1 DEF vars, book, place, Created
<1>3. InMemory' = InMemory
  BY <1>2, SameInMemory
<1>4. refreshDue' = refreshDue \/ \E c \in Apps : HotkeyFile(c) \/ DesktopFileChanges(c)
  BY DEF Tick, Start, Loaded, Detected, Migrate, disk
<1>5. refreshDue' = FALSE
  BY <1>4 DEF Simple, StoreInv
<1>6. CASE Tick
  <2>1. phase' = phase /\ file' = file
    BY <1>6 DEF Tick, disk
  <2>2. Stored' = Stored
    BY <2>1 DEF Stored
  <2> QED
    BY <1>2, <1>3, <2>1, <2>2, <1>5, ClashFreeNext
       DEF StoreInv, GroupsLoaded, LoadedAsStored, Memory
<1>7. CASE Start
  <2>1. phase = "down" /\ phase' = "migrating" /\ file' = file
    BY <1>7 DEF Start, disk
  <2>2. Stored' = Stored
    BY <2>1 DEF Stored
  <2> QED
    BY <1>2, <2>1, <2>2, <1>5, ClashFreeNext DEF StoreInv, GroupsLoaded, LoadedAsStored, Memory
<1>8. CASE Migrate
  <2>1. phase = "migrating" /\ phase' = "loading" /\ file' = Migrated
    BY <1>8 DEF Migrate
  <2>2. Stored' = Stored
    BY <2>1, MigratedStores DEF SInv, Stored
  <2>3. Created = {} /\ live = {}
    BY <2>1 DEF SInv, LifeOK, PlacesOK
  <2> QED
    BY <1>2, <2>1, <2>2, <2>3, <1>5, ClashFreeNext
       DEF StoreInv, GroupsLoaded, LoadedAsStored, Memory
<1>9. CASE Loaded
  <2>1. /\ phase = "loading" /\ phase' = "detecting" /\ file' = file
        /\ Grouped \cap (Missing \cup (Components \ Apps)) \subseteq Created
    BY <1>9 DEF Loaded, disk
  <2>2. Stored' = Stored
    BY <2>1 DEF Stored
  <2>3. ASSUME NEW c \in Components \ Created
        PROVE  DOMAIN file[c].keys = {}
    <3>1. file[c] = NoGroup
      BY <2>1, <2>3 DEF Simple, Grouped
    <3> QED
      BY <3>1, NoGroupType
  <2>4. GroupsLoaded' /\ LoadedAsStored'
    BY <1>2, <2>1, <2>3 DEF StoreInv, GroupsLoaded, LoadedAsStored
  <2> QED
    BY <1>2, <2>1, <2>2, <2>4, <1>5, ClashFreeNext DEF StoreInv, Memory
<1>10. CASE Detected
  <2>1. phase = "detecting" /\ phase' = "up" /\ file' = file
    BY <1>10 DEF Detected, disk
  <2>2. Stored' = Stored
    BY <2>1 DEF Stored
  <2>3. ASSUME NEW c \in Components
        PROVE  Group(c, live).keys = file[c].keys
    <3>1. DOMAIN file[c].keys = Saved(c, live)
      <4>1. fresh = {}
        BY <2>1 DEF StoreInv
      <4>2. ASSUME NEW s \in live, s.component = c PROVE s \in DOMAIN file[c].keys
        BY <2>1, <4>2 DEF StoreInv, LoadedAsStored
      <4>3. ASSUME NEW s \in DOMAIN file[c].keys PROVE s \in live /\ s.component = c
        BY <2>1, <4>3 DEF StoreInv, LoadedAsStored, GroupsLoaded, SInv, FileOK, KeysOf
      <4> QED
        BY <4>1, <4>2, <4>3 DEF Saved
    <3>2. \A s \in Saved(c, live) : file[c].keys[s] = keys[s]
      BY <2>1 DEF StoreInv, LoadedAsStored, Saved
    <3>3. file[c].keys \in [DOMAIN file[c].keys -> Seq(Keys \cup {<<>>})]
      BY DEF SInv, FileOK, KeysOf
    <3>4. file[c].keys = [s \in Saved(c, live) |-> keys[s]]
      BY <3>1, <3>2, <3>3
    <3> QED
      BY <3>4, GroupKeys
  <2>4. InMemory = Stored
    BY <2>3 DEF InMemory, Stored
  <2>5. GroupsLoaded' /\ LoadedAsStored'
    BY <1>2, <2>1 DEF StoreInv, GroupsLoaded, LoadedAsStored
  <2> QED
    BY <1>2, <1>3, <2>1, <2>2, <2>4, <2>5, <1>5, ClashFreeNext DEF StoreInv, Memory
<1> QED
  BY <1>6, <1>7, <1>8, <1>9, <1>10 DEF Simple

\* Keys in the file clash only with themselves.
LEMMA NoStoredClash ==
    ASSUME ClashFree(Stored), NEW c \in Components, NEW d \in Components,
           NEW s \in DOMAIN file[c].keys, NEW t \in DOMAIN file[d].keys,
           NEW i \in DOMAIN file[c].keys[s], NEW j \in DOMAIN file[d].keys[t],
           <<file[c].keys[s][i], file[d].keys[t][j]>> \in Clashing
    PROVE  s = t /\ i = j
<1>1. Stored[c] = file[c].keys /\ Stored[d] = file[d].keys
  BY DEF Stored
<1>2. \A i2 \in DOMAIN Stored[c][s], j2 \in DOMAIN Stored[d][t] :
         <<Stored[c][s][i2], Stored[d][t][j2]>> \in Clashing => s = t /\ i2 = j2
  BY <1>1 DEF ClashFree
<1> QED
  BY <1>1, <1>2

\* A group is loaded as it is: the filter refuses nothing.
LEMMA AllAccepted ==
    ASSUME Simple, SInv, StoreInv, phase = "loading", NEW c \in Components \ Created,
           NEW rank \in Orders, NEW accepted \in SUBSET Places(file[c].keys),
           PastFilter(file[c].keys, rank, accepted),
           NEW s \in DOMAIN file[c].keys, NEW i \in DOMAIN file[c].keys[s],
           file[c].keys[s][i] # <<>>
    PROVE  <<s, i>> \in accepted
<1> DEFINE wanted == file[c].keys
           p == <<s, i>>
<1>1. p \in Places(wanted) /\ p[1] = s /\ p[2] = i
  BY DEF Places
<1>2. ASSUME NEW t \in CurrentSlots, NEW other \in KeySet(keys[t])
      PROVE  <<wanted[s][i], other>> \notin Clashing
  <2>1. /\ t \in live /\ t.component \in Created /\ t.component \in Components
        /\ t \in DOMAIN file[t.component].keys
        /\ keys[t] = file[t.component].keys[t]
    BY DEF CurrentSlots, SInv, IInv, TypeOK, Slots, PlacesOK, StoreInv, LoadedAsStored
  <2>2. PICK j \in DOMAIN keys[t] : keys[t][j] = other
    BY DEF KeySet
  <2>3. s # t
    BY <2>1 DEF SInv, FileOK, KeysOf
  <2>4. ClashFree(Stored)
    BY DEF StoreInv
  <2> QED
    BY <2>1, <2>2, <2>3, <2>4, NoStoredClash
<1>3. ASSUME NEW q \in accepted,
             q[1].context = s.context,
             rank[q[1].name] < rank[s.name] \/ (q[1] = s /\ q[2] < i)
      PROVE  <<wanted[s][i], wanted[q[1]][q[2]]>> \notin Clashing
  <2>1. q[1] \in DOMAIN wanted /\ q[2] \in DOMAIN wanted[q[1]]
    BY DEF Places
  <2>2. ~(q[1] = s /\ q[2] = i)
    <3>1. /\ s \in Slots
          /\ wanted[s] \in Seq(Keys \cup {<<>>})
      BY DEF SInv, FileOK, KeysOf
    <3>2. i \in Int /\ s.name \in Names
      BY <3>1 DEF Slots
    <3>3. Cardinality(Names) \in Nat
      BY DesktopAssumption, FS_CardinalityType
    <3>4. rank[s.name] \in Int
      BY <3>2, <3>3 DEF Orders
    <3> HIDE DEF wanted
    <3> QED
      BY <1>3, <3>2, <3>4
  <2>3. ClashFree(Stored)
    BY DEF StoreInv
  <2>4. PICK t \in DOMAIN wanted : t = q[1]
    BY <2>1
  <2>5. PICK j \in DOMAIN wanted[t] : j = q[2]
    BY <2>1, <2>4
  <2>6. <<wanted[s][i], wanted[t][j]>> \notin Clashing
    <3>1. SUFFICES ASSUME <<wanted[s][i], wanted[t][j]>> \in Clashing PROVE FALSE
      OBVIOUS
    <3>2. s = t /\ i = j
      BY <2>3, <3>1, NoStoredClash
    <3> QED
      BY <2>2, <2>4, <2>5, <3>2
  <2> QED
    BY <2>4, <2>5, <2>6
<1>4. p \in accepted <=>
        /\ wanted[p[1]][p[2]] # <<>>
        /\ \A t \in CurrentSlots : \A other \in KeySet(keys[t]) :
              <<wanted[p[1]][p[2]], other>> \notin Clashing
        /\ \A q \in accepted :
              /\ q[1].context = p[1].context
              /\ \/ rank[q[1].name] < rank[p[1].name]
                 \/ q[1] = p[1] /\ q[2] < p[2]
              => <<wanted[p[1]][p[2]], wanted[q[1]][q[2]]>> \notin Clashing
  BY <1>1 DEF PastFilter
<1> HIDE DEF p
<1> QED
  BY <1>1, <1>2, <1>3, <1>4 DEF p

LEMMA LoadStores ==
    ASSUME Simple, SInv, SInv', StoreInv,
           \/ \E c \in Components : LoadGroup(c) \/ LoadServiceGroup(c) \/ LoadServiceFile(c)
           \/ \E c \in Apps : DetectApp(c)
           \/ \E id \in Ids : AddApplication(id)
    PROVE  /\ StoreInv'
           /\ Stored' = Stored
           /\ Memory' = Memory
           /\ writeout' = writeout
<1>1. Missing = {}
  BY DEF Simple, SInv, LifeOK, Missing
<1>2. PICK c \in Components : LoadGroup(c)
  BY <1>1 DEF Simple, LoadServiceGroup, LoadServiceFile, DetectApp, AddApplication
<1> DEFINE wanted == file[c].keys
<1>3. /\ phase = "loading" /\ phase' = "loading" /\ c \in Components \ Created
      /\ Load(c, wanted, {})
  BY <1>2 DEF LoadGroup
<1>4. PICK rank \in Orders, accepted \in SUBSET Places(wanted) :
        Loads(c, wanted, {}, rank, accepted)
  BY <1>3, LoadForm
<1>5. file' = file /\ refreshDue' = refreshDue
  BY <1>2, <1>3 DEF Load, LoadGroup
<1>6. writeout' = writeout /\ fresh' = fresh /\ live' = live \cup DOMAIN wanted
  BY <1>4 DEF Loads
<1>7. Wants(c, wanted)
  BY <1>3 DEF Wants, SInv, FileOK
<1>8. ASSUME NEW s \in DOMAIN wanted
      PROVE  keys'[s] = wanted[s]
  <2>1. s \in Slots /\ wanted[s] \in KeyListType
    BY <1>7, WantsTypes DEF SInv
  <2>2. keys'[s] = [i \in DOMAIN wanted[s] |->
                      IF <<s, i>> \in accepted THEN wanted[s][i] ELSE <<>>]
    BY <1>4, <2>1 DEF Loads, LoadedKeys
  <2>3. \A i \in DOMAIN wanted[s] : wanted[s][i] # <<>> => <<s, i>> \in accepted
    BY <1>3, <1>4, AllAccepted DEF Loads
  <2>4. keys'[s] = [i \in DOMAIN wanted[s] |-> wanted[s][i]]
    BY <2>2, <2>3
  <2> HIDE DEF wanted
  <2> QED
    BY <2>1, <2>4 DEF KeyListType
<1>9. \A s \in live : keys'[s] = keys[s]
  BY <1>4, <1>7, WantsTypes DEF Loads, SInv, IInv, TypeOK
<1>10. Created' = Created \cup {c}
  BY <1>4, <1>7, LoadPlaces DEF SInv
<1>11. LoadedAsStored'
  <2>1. ASSUME NEW s \in live'
        PROVE  s \in DOMAIN file[s.component].keys /\ keys'[s] = file[s.component].keys[s]
    <3>1. CASE s \in live
      BY <1>3, <1>9, <3>1 DEF StoreInv, LoadedAsStored
    <3>2. CASE s \in DOMAIN wanted
      BY <1>7, <1>8, <3>2, WantsTypes DEF SInv
    <3> QED
      BY <1>6, <3>1, <3>2
  <2>2. ASSUME NEW d \in Created'
        PROVE  DOMAIN file[d].keys \subseteq live'
    BY <1>3, <1>6, <1>10 DEF StoreInv, LoadedAsStored
  <2> QED
    BY <1>5, <2>1, <2>2 DEF LoadedAsStored
<1>12. Stored' = Stored
  BY <1>5 DEF Stored
<1>13. GroupsLoaded'
  BY <1>3 DEF GroupsLoaded
<1> QED
  BY <1>3, <1>5, <1>6, <1>11, <1>12, <1>13, ClashFreeNext DEF StoreInv, Memory

LEMMA StopStores ==
    ASSUME Simple, SInv, StoreInv, NoClash, Crash \/ ShutDown
    PROVE  /\ StoreInv'
           /\ Stored' = Memory'
           /\ writeout' = FALSE
           /\ writeout \/ Stored' = Stored
<1>1. phase' = "down" /\ writeout' = FALSE /\ fresh' = {} /\ refreshDue' = FALSE
  BY DEF Crash, ShutDown, Stopped
<1>2. CASE file' = file
  <2>1. Stored' = Stored
    BY <1>2 DEF Stored
  <2> QED
    BY <1>1, <2>1, ClashFreeNext DEF StoreInv, GroupsLoaded, LoadedAsStored, Memory
<1>3. CASE ShutDown /\ writeout
  <2>1. phase = "up" /\ file' = Written(live)
    BY <1>3 DEF ShutDown
  <2>2. ClashFree(Stored')
    BY <2>1, WrittenClashFree DEF StoreInv
  <2> QED
    BY <1>1, <1>3, <2>2, ClashFreeNext DEF StoreInv, GroupsLoaded, LoadedAsStored, Memory
<1> QED
  BY <1>2, <1>3 DEF Crash, ShutDown

\* Desktop files play no part.
LEMMA SimpleSteps ==
    ASSUME Simple, StoreInv, SettingsNext
    PROVE  \/ Serve
           \/ WriteOut \/ \E c \in Components : Forget(c)
           \/ \/ \E c \in Components : LoadGroup(c) \/ LoadServiceGroup(c) \/ LoadServiceFile(c)
              \/ \E c \in Apps : DetectApp(c)
              \/ \E id \in Ids : AddApplication(id)
           \/ \/ Tick \/ Start \/ Loaded \/ Detected \/ Migrate
              \/ \E c \in Apps : HotkeyFile(c) \/ DesktopFileChanges(c)
           \/ Crash \/ ShutDown
BY DEF Simple, SettingsNext, ForgetApplication, StoreInv, RefreshServices

\* Every step of the daemon is one of the store, or leaves it alone.
LEMMA StoreStep ==
    ASSUME Simple, SInv, SInv', NoClash, StoreInv, [SettingsNext]_settingsVars
    PROVE  StoreInv' /\ [Store!Next]_(Store!vars)
<1>1. ASSUME Stored' = Stored, Memory' = Memory, writeout' = writeout
      PROVE  [Store!Next]_(Store!vars)
  BY <1>1 DEF Memory, Store!vars
<1>2. ASSUME Stored' = Stored, writeout' = TRUE
      PROVE  Store!Next
  BY <1>2 DEF Store!Next, Store!Change
<1>3. ASSUME Stored' = Memory', writeout' \in {writeout, FALSE}
      PROVE  Store!Next
  BY <1>3 DEF Store!Next, Store!Sync, Memory
<1>4. CASE Serve
  BY <1>1, <1>2, <1>4, ServeStores
<1>5. CASE WriteOut \/ \E c \in Components : Forget(c)
  BY <1>3, <1>5, WriteStores
<1>6. CASE \/ \E c \in Components : LoadGroup(c) \/ LoadServiceGroup(c) \/ LoadServiceFile(c)
           \/ \E c \in Apps : DetectApp(c)
           \/ \E id \in Ids : AddApplication(id)
  BY <1>1, <1>6, LoadStores
<1>7. CASE \/ Tick \/ Start \/ Loaded \/ Detected \/ Migrate
           \/ \E c \in Apps : HotkeyFile(c) \/ DesktopFileChanges(c)
  BY <1>1, <1>7, OffLineStores
<1>8. CASE Crash \/ ShutDown
  BY <1>3, <1>8, StopStores
<1>9. CASE UNCHANGED settingsVars
  <2>1. UNCHANGED vars /\ UNCHANGED <<phase, file, refreshDue>>
    BY <1>9 DEF settingsVars, disk
  <2>2. /\ live' = live /\ keys' = keys /\ fresh' = fresh /\ writeout' = writeout
        /\ Created' = Created
    BY <2>1 DEF vars, book, place, Created
  <2>3. Stored' = Stored /\ InMemory' = InMemory
    BY <2>1, <2>2, SameInMemory DEF Stored
  <2>4. StoreInv'
    BY <2>1, <2>2, <2>3, ClashFreeNext DEF StoreInv, GroupsLoaded, LoadedAsStored
  <2> QED
    BY <1>1, <2>1, <2>2, <2>3, <2>4 DEF Memory
<1> QED
  BY <1>4, <1>5, <1>6, <1>7, <1>8, <1>9, SimpleSteps

LEMMA StoreInit ==
    ASSUME Simple, SettingsInit
    PROVE  StoreInv /\ Store!Init
<1>1. phase = "down" /\ fresh = {} /\ refreshDue = FALSE /\ writeout = FALSE
  BY DEF SettingsInit, Init
<1>2. ClashFree(Stored)
  <2>1. PICK upgrade \in Upgrades : file = upgrade.file
    BY DEF SettingsInit
  <2>2. Stored = [c \in Components |-> upgrade.file[c].keys]
    BY <2>1 DEF Stored
  <2> QED
    BY <2>2 DEF Simple, CleanFiles
<1> QED
  BY <1>1, <1>2 DEF StoreInv, GroupsLoaded, LoadedAsStored, Store!Init

\* In one context keys never clash.
LEMMA SimpleKeysApart ==
    ASSUME Simple
    PROVE  SettingsSpec => []NoClash
<1>1. SInv /\ SInv' => NoneEnters
  BY OneContextNoneEnters DEF SInv
<1> QED
  BY <1>1, SettingsInductive, RestartsKeepKeysApart, PTL DEF SettingsSpec

LEMMA StoreInductive ==
    ASSUME Simple
    PROVE  SettingsSpec => []StoreInv
<1>1. SettingsInit => StoreInv
  BY StoreInit
<1>2. SInv /\ SInv' /\ NoClash /\ StoreInv /\ [SettingsNext]_settingsVars => StoreInv'
  BY StoreStep
<1> QED
  BY <1>1, <1>2, SettingsInductive, SimpleKeysApart, PTL DEF SettingsSpec

(***************************************************************************)
(* The settings implement DurableStore: with every component in one        *)
(* context, no desktop files, and files without clashing keys to begin     *)
(* with, every request, write-out, crash, shutdown and step of the start   *)
(* changes memory and file the way DurableStore says.  In particular the   *)
(* start brings back exactly the keys that are in the file, whatever the   *)
(* order in which they are loaded.                                         *)
(***************************************************************************)
THEOREM SettingsImplementStore ==
    ASSUME Simple
    PROVE  SettingsSpec => ImplementsStore
<1>1. SettingsInit => Store!Init
  BY StoreInit
<1>2. SInv /\ SInv' /\ NoClash /\ StoreInv /\ [SettingsNext]_settingsVars
        => [Store!Next]_(Store!vars)
  BY StoreStep
<1> QED
  BY <1>1, <1>2, SettingsInductive, SimpleKeysApart, StoreInductive, PTL
     DEF SettingsSpec, ImplementsStore, Store!Spec

(***************************************************************************)
(* Memory and file differ only while a write-out is scheduled, so that a   *)
(* crash loses no change that is older than the timer                      *)
(* (scheduleWriteSettings), and an orderly shutdown loses none at all      *)
(* (~KGlobalAccelD).                                                       *)
(***************************************************************************)
StoreClean == ~writeout => Memory = Stored

LEMMA CleanStep ==
    ASSUME StoreClean, [Store!Next]_(Store!vars)
    PROVE  StoreClean'
BY DEF StoreClean, Memory, Store!Next, Store!Change, Store!Sync, Store!Crash, Store!vars

LEMMA StoreStaysClean ==
    ASSUME Simple
    PROVE  SettingsSpec => []StoreClean
<1>1. SettingsInit => StoreClean
  BY DEF SettingsInit, StoreClean, Memory
<1>2. SInv /\ SInv' /\ NoClash /\ StoreInv /\ StoreClean /\ [SettingsNext]_settingsVars
        => StoreClean'
  BY StoreStep, CleanStep
<1> QED
  BY <1>1, <1>2, SettingsInductive, SimpleKeysApart, StoreInductive, PTL DEF SettingsSpec

(***************************************************************************)
(* An orderly shutdown loses nothing, whether the timer runs or not: what  *)
(* is in memory is what the file holds afterwards (~KGlobalAccelD).        *)
(***************************************************************************)
THEOREM ShutDownSavesAll ==
    ASSUME Simple
    PROVE  SettingsSpec => ShutDownLosesNothing
<1>1. SInv /\ StoreInv /\ StoreClean /\ ShutDown => Stored' = InMemory
  <2> SUFFICES ASSUME SInv, StoreInv, StoreClean, ShutDown PROVE Stored' = InMemory
    OBVIOUS
  <2>1. phase = "up" /\ file' = IF writeout THEN Written(live) ELSE file
    BY DEF ShutDown
  <2>2. CASE writeout
    <3>1. ASSUME NEW c \in Components
          PROVE  file'[c].keys = Group(c, live).keys
      <4>1. file'[c].keys = [s \in Saved(c, live) |-> keys[s]]
        BY <2>1, <2>2, WrittenKeys DEF StoreInv
      <4> QED
        BY <4>1, GroupKeys
    <3> QED
      BY <3>1 DEF Stored, InMemory
  <2>3. CASE ~writeout
    <3>1. Stored' = Stored
      BY <2>1, <2>3 DEF Stored
    <3> QED
      BY <2>1, <2>3, <3>1 DEF StoreClean, Memory
  <2> QED
    BY <2>2, <2>3
<1>2. SInv /\ StoreInv /\ StoreClean /\ [SettingsNext]_settingsVars
        => [ShutDown => Stored' = InMemory]_settingsVars
  BY <1>1
<1> QED
  BY <1>2, SettingsInductive, StoreInductive, StoreStaysClean, PTL
     DEF SettingsSpec, ShutDownLosesNothing
=============================================================================
