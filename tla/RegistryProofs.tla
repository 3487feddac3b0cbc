--------------------------- MODULE RegistryProofs ---------------------------
(***************************************************************************)
(* Proofs about module Registry, for any components, contexts, shortcuts   *)
(* and keys.  The inductive invariant is the conjunction of TypeOK,        *)
(* GrabAccounting and OwnersSound: a count can only be lowered without     *)
(* becoming negative because it is right, and a key is only freed by its   *)
(* owner because owners are sound.                                         *)
(***************************************************************************)
EXTENDS GrabLoop, FiniteSetTheorems, TLAPS

IInv == TypeOK /\ GrabAccounting /\ OwnersSound

-----------------------------------------------------------------------------
(***************************************************************************)
(* Counting the places where a chord stands.                               *)
(***************************************************************************)

\* A chord stands in finitely many places of the keys in play.
LEMMA UsesFinite ==
    ASSUME NEW c, NEW R \in SUBSET Keys
    PROVE  IsFiniteSet(Uses(c, R))
<1>1. IsFiniteSet(R)
  BY KeysAssumption, FS_Subset
<1>2. IsFiniteSet(1 .. MaxSequenceLength)
  <2>1. 1 \in Int /\ MaxSequenceLength \in Int
    BY DEF MaxSequenceLength
  <2> QED
    BY <2>1, FS_Interval, Zenon
<1>3. IsFiniteSet(R \X (1 .. MaxSequenceLength))
  BY <1>1, <1>2, FS_Product
<1>4. Uses(c, R) \in SUBSET (R \X (1 .. MaxSequenceLength))
  BY DEF Uses
<1> QED
  BY <1>3, <1>4, FS_Subset

\* The places in two disjoint sets of keys add up.
LEMMA UsesAdd ==
    ASSUME NEW c, NEW R \in SUBSET Keys, NEW T \in SUBSET Keys, R \cap T = {}
    PROVE  Cardinality(Uses(c, R \cup T))
             = Cardinality(Uses(c, R)) + Cardinality(Uses(c, T))
<1>1. Uses(c, R \cup T) = Uses(c, R) \cup Uses(c, T)
  BY DEF Uses
<1>2. Uses(c, R) \cap Uses(c, T) = {}
  BY DEF Uses
<1>3. IsFiniteSet(Uses(c, R)) /\ IsFiniteSet(Uses(c, T))
  BY UsesFinite
<1>4. Cardinality(Uses(c, R)) \in Nat /\ Cardinality(Uses(c, T)) \in Nat
  BY <1>3, FS_CardinalityType
<1>5. Cardinality(Uses(c, R) \cap Uses(c, T)) = 0
  BY <1>2, FS_EmptySet
<1>6. Cardinality(Uses(c, R) \cup Uses(c, T))
        = Cardinality(Uses(c, R)) + Cardinality(Uses(c, T))
            - Cardinality(Uses(c, R) \cap Uses(c, T))
  BY <1>3, FS_Union
<1>7. Cardinality(Uses(c, R) \cup Uses(c, T))
        = Cardinality(Uses(c, R)) + Cardinality(Uses(c, T))
  BY <1>4, <1>5, <1>6
<1> QED
  BY <1>1, <1>7, Zenon

\* The count of a chord is positive exactly if it stands somewhere.
LEMMA UsesPositive ==
    ASSUME NEW c, NEW R \in SUBSET Keys
    PROVE  /\ Cardinality(Uses(c, R)) \in Nat
           /\ Cardinality(Uses(c, R)) > 0 <=> Uses(c, R) # {}
<1>1. IsFiniteSet(Uses(c, R))
  BY UsesFinite
<1>2. Cardinality(Uses(c, R)) \in Nat
  BY <1>1, FS_CardinalityType
<1>3. Cardinality(Uses(c, R)) = 0 <=> Uses(c, R) = {}
  BY <1>1, FS_EmptySet
<1> QED
  BY <1>2, <1>3

-----------------------------------------------------------------------------
(***************************************************************************)
(* Key lists hold keys in play.                                            *)
(***************************************************************************)
KeyListType == Seq(Keys \cup {<<>>})

\* What a key list contributes to the table of active keys is a set of keys.
LEMMA KeySetType ==
    ASSUME NEW list \in KeyListType
    PROVE  KeySet(list) \in SUBSET Keys
BY DEF KeySet, KeyListType

(***************************************************************************)
(* Regrab keeps the counts right, and every key it leaves in the table     *)
(* either had its owner before and was not freed, or is won by a shortcut  *)
(* that wants it.                                                          *)
(***************************************************************************)
LEMMA RegrabStep ==
    ASSUME TypeOK, GrabAccounting,
           NEW off \in SUBSET Slots, NEW on \in SUBSET Slots,
           NEW newKeys \in [Slots -> KeyListType],
           Regrab(off, on, newKeys)
    PROVE  /\ DOMAIN activeKeys' \in SUBSET Keys
           /\ activeKeys' \in [DOMAIN activeKeys' -> Objects]
           /\ keysCount' \in [Chords -> Nat]
           /\ grabbed' \in SUBSET Chords
           /\ GrabAccounting'
           /\ \A k \in DOMAIN activeKeys' :
                 \/ /\ k \in DOMAIN activeKeys \ Freed(off)
                    /\ activeKeys'[k] = activeKeys[k]
                 \/ \E s \in on : /\ k \in KeySet(newKeys[s])
                                 /\ activeKeys'[k] = Live(s)
<1> DEFINE freed   == Freed(off)
           kept    == DOMAIN activeKeys \ freed
           claimed == Claimed(on, newKeys, kept)
<1>1. PICK won \in [claimed -> on] :
        /\ \A k \in claimed : k \in KeySet(newKeys[won[k]])
        /\ activeKeys' = [k \in kept \cup claimed |->
                            IF k \in kept THEN activeKeys[k] ELSE Live(won[k])]
        /\ keysCount' = [c \in Chords |->
                            keysCount[c] - Cardinality(Uses(c, freed))
                                         + Cardinality(Uses(c, claimed))]
        /\ grabbed' = {c \in Chords :
                         \/ /\ c \in grabbed
                            /\ keysCount[c] > Cardinality(Uses(c, freed))
                         \/ Uses(c, claimed) # {}}
  BY DEF Regrab
<1>2. freed \in SUBSET DOMAIN activeKeys /\ DOMAIN activeKeys \in SUBSET Keys
  BY DEF TypeOK, Freed
<1>3. claimed \in SUBSET Keys /\ kept \cap claimed = {}
  BY KeySetType DEF Claimed
<1>4. kept \in SUBSET Keys /\ freed \in SUBSET Keys
  BY <1>2
<1>5. DOMAIN activeKeys' = kept \cup claimed
  BY <1>1
<1>6. \A k \in kept : activeKeys'[k] = activeKeys[k]
  BY <1>1
<1>7. \A k \in claimed : won[k] \in on /\ activeKeys'[k] = Live(won[k])
  BY <1>1, <1>3
<1>8. activeKeys' \in [DOMAIN activeKeys' -> Objects]
  <2>1. \A k \in kept : activeKeys[k] \in Objects
    BY DEF TypeOK
  <2>2. \A k \in claimed : Live(won[k]) \in Objects
    BY <1>7 DEF Live, Objects
  <2> QED
    BY <1>1, <1>5, <2>1, <2>2
<1>9. ASSUME NEW c \in Chords
      PROVE  /\ keysCount'[c] \in Nat
             /\ keysCount'[c] = Cardinality(Uses(c, kept \cup claimed))
             /\ c \in grabbed' <=> keysCount'[c] > 0
  <2> DEFINE f == Cardinality(Uses(c, freed))
             p == Cardinality(Uses(c, kept))
             q == Cardinality(Uses(c, claimed))
  <2>1. f \in Nat /\ p \in Nat /\ q \in Nat
    BY <1>3, <1>4, UsesPositive
  <2>2. keysCount[c] = f + p
    <3>1. keysCount[c] = Cardinality(Uses(c, DOMAIN activeKeys))
      BY DEF GrabAccounting
    <3>2. DOMAIN activeKeys = freed \cup kept /\ freed \cap kept = {}
      BY <1>2
    <3>3. Cardinality(Uses(c, freed \cup kept)) = f + p
      BY <1>4, <3>2, UsesAdd
    <3>4. Cardinality(Uses(c, DOMAIN activeKeys)) = f + p
      BY <3>2, <3>3, Zenon
    <3> QED
      BY <3>1, <3>4, Zenon
  <2>3. Cardinality(Uses(c, kept \cup claimed)) = p + q
    BY <1>3, <1>4, UsesAdd
  <2>4. keysCount'[c] = keysCount[c] - f + q
    BY <1>1
  <2>5. keysCount'[c] = p + q
    <3> HIDE DEF f, p, q
    <3> QED
      BY <2>1, <2>2, <2>4
  <2>6. q > 0 <=> Uses(c, claimed) # {}
    BY <1>3, UsesPositive
  <2>7. c \in grabbed <=> keysCount[c] > 0
    BY DEF GrabAccounting
  <2>8. c \in grabbed' <=> \/ c \in grabbed /\ keysCount[c] > f
                          \/ Uses(c, claimed) # {}
    BY <1>1
  <2> HIDE DEF f, p, q
  <2>9. keysCount'[c] \in Nat
    BY <2>1, <2>5
  <2>10. keysCount[c] > f <=> p > 0
    BY <2>1, <2>2
  <2>11. keysCount[c] > f => c \in grabbed
    BY <2>1, <2>2, <2>7
  <2>12. c \in grabbed' <=> p > 0 \/ q > 0
    BY <2>6, <2>8, <2>10, <2>11, Zenon
  <2>13. keysCount'[c] > 0 <=> p > 0 \/ q > 0
    BY <2>1, <2>5
  <2>14. c \in grabbed' <=> keysCount'[c] > 0
    BY <2>12, <2>13, Zenon
  <2> QED
    BY <2>3, <2>5, <2>9, <2>14
<1>10. keysCount' \in [Chords -> Nat] /\ grabbed' \in SUBSET Chords
  BY <1>1, <1>9
<1>11. GrabAccounting'
  BY <1>5, <1>9 DEF GrabAccounting
<1>12. ASSUME NEW k \in DOMAIN activeKeys'
       PROVE  \/ /\ k \in DOMAIN activeKeys \ Freed(off)
                 /\ activeKeys'[k] = activeKeys[k]
              \/ \E s \in on : /\ k \in KeySet(newKeys[s])
                              /\ activeKeys'[k] = Live(s)
  <2>1. CASE k \in kept
    BY <1>6, <2>1
  <2>2. CASE k \in claimed
    BY <1>1, <1>7, <2>2
  <2> QED
    BY <1>5, <2>1, <2>2
<1> QED
  BY <1>3, <1>4, <1>5, <1>8, <1>10, <1>11, <1>12

-----------------------------------------------------------------------------
(***************************************************************************)
(* The shortcut held down stays well typed.                                *)
(***************************************************************************)
Holds == [last : Objects \cup {None}, owed : SUBSET Slots, out : Seq(Signals)]

\* Emitting a signal.
LEMMA TellType ==
    ASSUME NEW h \in Holds, NEW s \in Slots,
           NEW kind \in {"Pressed", "Repeated", "Released", "Changed"}
    PROVE  Tell(h, kind, s) \in Holds
<1>1. Signal(kind, s) \in Signals
  BY DEF Signal, Signals
<1>2. h.last \in Objects \cup {None} /\ h.owed \in SUBSET Slots /\ h.out \in Seq(Signals)
  BY DEF Holds
<1>3. Append(h.out, Signal(kind, s)) \in Seq(Signals)
  BY <1>1, <1>2
<1>4. ASSUME NEW o \in SUBSET Slots
      PROVE  [h EXCEPT !.out = Append(@, Signal(kind, s)), !.owed = o] \in Holds
  BY <1>2, <1>3 DEF Holds
<1>5. h.owed \ {s} \in SUBSET Slots /\ h.owed \cup {s} \in SUBSET Slots
  BY <1>2
<1> QED
  BY <1>4, <1>5 DEF Tell

\* Where every step starts from.
LEMMA HeldType ==
    ASSUME TypeOK
    PROVE  Held \in Holds
BY DEF TypeOK, Held, Holds

\* Where every step ends.
LEMMA HoldType ==
    ASSUME NEW h \in Holds, Hold(h)
    PROVE  /\ last' \in Objects \cup {None}
           /\ owed' \in SUBSET Slots
           /\ out' \in Seq(Signals)
BY DEF Hold, Holds

\* Losing keys, or the object held.
LEMMA LetGoType ==
    ASSUME TypeOK, NEW off, NEW dead, NEW gone, NEW more \in Seq(Signals),
           LetGo(off, dead, gone, more)
    PROVE  /\ last' \in Objects \cup {None}
           /\ owed' \in SUBSET Slots
           /\ out' \in Seq(Signals)
<1> DEFINE h == IF \E k \in Freed(off) : activeKeys[k] = last
                THEN [Tell(Held, "Released", last.slot) EXCEPT !.last = None]
                ELSE Held
           orphaned == h.last # None
             /\ (h.last \in {Live(s) : s \in dead} \/ h.last.slot.component \in gone)
           g == [h EXCEPT !.last = IF orphaned THEN Dangling(@.slot) ELSE @,
                          !.out  = @ \o more]
<1>1. h \in Holds
  <2>1. CASE \E k \in Freed(off) : activeKeys[k] = last
    <3>1. last \in Objects
      BY <2>1 DEF TypeOK, Freed
    <3>2. last.slot \in Slots
      BY <3>1 DEF Objects
    <3>3. Tell(Held, "Released", last.slot) \in Holds
      BY <3>2, HeldType, TellType
    <3> QED
      BY <2>1, <3>3 DEF Holds
  <2>2. CASE ~ \E k \in Freed(off) : activeKeys[k] = last
    BY <2>2, HeldType
  <2> QED
    BY <2>1, <2>2
<1>2. orphaned => Dangling(h.last.slot) \in Objects
  BY <1>1 DEF Holds, Objects, Dangling
<1>3. g \in Holds
  <2> HIDE DEF h
  <2>1. h.out \o more \in Seq(Signals)
    BY <1>1 DEF Holds
  <2> QED
    BY <1>1, <1>2, <2>1 DEF Holds
<1>4. Hold(g)
  BY DEF LetGo
<1> QED
  BY <1>3, <1>4, HoldType

\* Pressing and releasing keys.
LEMMA PartingsType ==
    ASSUME NEW h \in Holds, NEW p \in Partings(h)
    PROVE  p \in Holds
<1>1. CASE h.last = None
  BY <1>1 DEF Partings
<1>2. CASE h.last # None
  <2>1. h.last.slot \in Slots
    BY <1>2 DEF Holds, Objects
  <2>2. Tell(h, "Released", h.last.slot) \in Holds
    BY <2>1, TellType
  <2> QED
    BY <1>2, <2>2 DEF Partings
<1> QED
  BY <1>1, <1>2

LEMMA PartedType ==
    ASSUME NEW h \in Holds, NEW p \in Parted(h)
    PROVE  p \in Holds
<1>1. PICK q \in Partings(h) : p = [q EXCEPT !.last = None]
  BY DEF Parted
<1>2. q \in Holds
  BY PartingsType
<1> QED
  BY <1>1, <1>2 DEF Holds

LEMMA FiredType ==
    ASSUME NEW h \in Holds, NEW s \in Slots, NEW kind \in {"Pressed", "Repeated"},
           NEW p \in Fired(h, s, kind)
    PROVE  p \in Holds
<1> DEFINE parted == IF h.last \in {None, Live(s)} THEN {h} ELSE Partings(h)
<1>1. \A q \in parted : q \in Holds
  BY PartingsType
<1>2. CASE <<s.component, s.name>> \in Allowed
  <2>1. PICK q \in parted : p = [Tell(q, kind, s) EXCEPT !.last = Live(s)]
    BY <1>2 DEF Fired
  <2>2. Tell(q, kind, s) \in Holds
    BY <1>1, TellType
  <2>3. Live(s) \in Objects
    BY DEF Live, Objects
  <2> QED
    BY <2>1, <2>2, <2>3 DEF Holds
<1>3. CASE <<s.component, s.name>> \notin Allowed
  BY <1>1, <1>3 DEF Fired
<1> QED
  BY <1>2, <1>3

-----------------------------------------------------------------------------
(***************************************************************************)
(* One lemma per action: it preserves the inductive invariant.             *)
(***************************************************************************)

\* What an action that calls Regrab has to see to.
LEMMA RegrabOwners ==
    ASSUME IInv,
           NEW off \in SUBSET Slots, NEW on \in SUBSET Slots,
           NEW newKeys \in [Slots -> KeyListType],
           Regrab(off, on, newKeys),
           \A s \in registered \ off : s \in registered' /\ keys'[s] = keys[s],
           \A s \in on : s \in registered' /\ keys'[s] = newKeys[s],
           registered' \subseteq present', present' \subseteq live'
    PROVE  OwnersSound'
<1>1. ASSUME NEW k \in DOMAIN activeKeys'
      PROVE  \/ activeKeys'[k].state = "leaked"
             \/ /\ activeKeys'[k].state = "live"
                /\ activeKeys'[k].slot \in registered'
                /\ k \in KeySet(keys'[activeKeys'[k].slot])
  <2>1. CASE /\ k \in DOMAIN activeKeys \ Freed(off)
             /\ activeKeys'[k] = activeKeys[k]
    <3>1. CASE activeKeys[k].state = "leaked"
      BY <2>1, <3>1
    <3>2. CASE /\ activeKeys[k].state = "live"
               /\ activeKeys[k].slot \in registered
               /\ k \in KeySet(keys[activeKeys[k].slot])
      <4> DEFINE s == activeKeys[k].slot
      <4>1. activeKeys[k] \in Objects
        BY <2>1 DEF IInv, TypeOK
      <4>2. activeKeys[k] = Live(s)
        BY <3>2, <4>1 DEF Objects, Live
      <4>3. s \notin off
        BY <2>1, <3>2, <4>2 DEF Freed
      <4> QED
        BY <2>1, <3>2, <4>3
    <3> QED
      BY <2>1, <3>1, <3>2 DEF IInv, OwnersSound
  <2>2. CASE \E s \in on : /\ k \in KeySet(newKeys[s])
                          /\ activeKeys'[k] = Live(s)
    BY <2>2 DEF Live
  <2> QED
    BY <2>1, <2>2, RegrabStep DEF IInv
<1> QED
  BY <1>1 DEF OwnersSound

\* The slots of an action id.
LEMMA SlotsOfIds ==
    ASSUME TypeOK, NEW id \in Ids
    PROVE  Target(id) \in Slots /\ Home(id) \in Slots
BY IdsAssumption, ContextsAssumption DEF TypeOK, Target, Home, Slots

\* Actions that leave the registry's tables alone.
LEMMA SameTables ==
    ASSUME IInv, UNCHANGED <<live, keys, present, registered, fresh, grabs>>,
           components' \in Seq(Components),
           contexts' \in [Components -> SUBSET Contexts],
           current' \in [Components -> Contexts],
           refused' \in SUBSET Refusable, writeout' \in BOOLEAN,
           NEW h \in Holds, Hold(h)
    PROVE  IInv'
<1>1. TypeOK'
  BY HoldType DEF IInv, TypeOK, grabs
<1>2. GrabAccounting'
  BY DEF IInv, GrabAccounting, grabs
<1>3. OwnersSound'
  BY DEF IInv, OwnersSound, grabs
<1> QED
  BY <1>1, <1>2, <1>3 DEF IInv

LEMMA RenameStep ==
    ASSUME IInv, NEW id \in Ids, Rename(id) \/ SetDefaultKeys(id)
    PROVE  IInv'
<1>1. /\ UNCHANGED <<place, book, grabs, refused>>
      /\ writeout' \in {writeout, TRUE}
      /\ Hold(Held)
  BY DEF Rename, SetDefaultKeys, Quiet
<1>2. Held \in Holds
  BY HeldType DEF IInv
<1> QED
  BY <1>1, <1>2, SameTables DEF IInv, TypeOK, place, book

LEMMA AddActionStep ==
    ASSUME IInv, NEW id \in Ids, AddAction(id)
    PROVE  IInv'
<1> DEFINE s == Home(id)
<1>1. s \in Slots
  BY SlotsOfIds DEF IInv
<1>2. s.component \in Components /\ s.context \in Contexts
  BY <1>1 DEF Slots
<1>3. /\ components' = IF contexts[s.component] = {} THEN Append(components, s.component)
                                                    ELSE components
      /\ contexts' = [contexts EXCEPT ![s.component] = @ \cup {Default, s.context}]
      /\ live' = live \cup {s}
      /\ keys' = [keys EXCEPT ![s] = <<>>]
      /\ present' = present \ {s}
      /\ registered' = registered \ {s}
      /\ fresh' = fresh \cup {s}
      /\ activeKeys' = [k \in DOMAIN activeKeys |->
                           IF activeKeys[k] = Live(s) THEN Leaked(s)
                                                      ELSE activeKeys[k]]
      /\ Hold([Held EXCEPT !.last = IF @ = Live(s) THEN Leaked(s) ELSE @])
      /\ UNCHANGED <<current, keysCount, grabbed, refused, writeout>>
  BY DEF AddAction
<1>4. Leaked(s) \in Objects
  BY <1>1 DEF Leaked, Objects
<1>5. TypeOK'
  <2>1. components' \in Seq(Components)
    BY <1>2, <1>3 DEF IInv, TypeOK
  <2>2. contexts' \in [Components -> SUBSET Contexts]
    BY <1>2, <1>3, ContextsAssumption DEF IInv, TypeOK
  <2>3. /\ live' \in SUBSET Slots
        /\ present' \in SUBSET Slots
        /\ registered' \in SUBSET Slots
        /\ fresh' \in SUBSET Slots
        /\ keys' \in [Slots -> KeyListType]
    BY <1>1, <1>3 DEF IInv, TypeOK, KeyListType
  <2>4. /\ DOMAIN activeKeys' \in SUBSET Keys
        /\ activeKeys' \in [DOMAIN activeKeys' -> Objects]
    BY <1>3, <1>4 DEF IInv, TypeOK
  <2>5. [Held EXCEPT !.last = IF @ = Live(s) THEN Leaked(s) ELSE @] \in Holds
    BY <1>4, HeldType DEF IInv, Holds
  <2>6. /\ last' \in Objects \cup {None}
        /\ owed' \in SUBSET Slots
        /\ out' \in Seq(Signals)
    BY <1>3, <2>5, HoldType
  <2> QED
    BY <1>3, <2>1, <2>2, <2>3, <2>4, <2>6 DEF IInv, TypeOK, KeyListType
<1>6. GrabAccounting'
  <2>1. DOMAIN activeKeys' = DOMAIN activeKeys
    BY <1>3
  <2> QED
    BY <1>3, <2>1 DEF IInv, GrabAccounting
<1>7. OwnersSound'
  <2>1. ASSUME NEW k \in DOMAIN activeKeys'
        PROVE  \/ activeKeys'[k].state = "leaked"
               \/ /\ activeKeys'[k].state = "live"
                  /\ activeKeys'[k].slot \in registered'
                  /\ k \in KeySet(keys'[activeKeys'[k].slot])
    <3>1. k \in DOMAIN activeKeys /\ activeKeys[k] \in Objects
      BY <1>3 DEF IInv, TypeOK
    <3>2. CASE activeKeys[k] = Live(s)
      BY <1>3, <3>1, <3>2 DEF Leaked
    <3>3. CASE activeKeys[k] # Live(s) /\ activeKeys[k].state = "leaked"
      BY <1>3, <3>1, <3>3
    <3>4. CASE activeKeys[k] # Live(s) /\ activeKeys[k].state # "leaked"
      <4>1. /\ activeKeys[k].state = "live"
            /\ activeKeys[k].slot \in registered
            /\ k \in KeySet(keys[activeKeys[k].slot])
        BY <3>1, <3>4 DEF IInv, OwnersSound
      <4>2. activeKeys[k].slot # s
        BY <3>1, <3>4, <4>1 DEF Objects, Live
      <4>3. activeKeys[k].slot \in Slots
        BY <3>1 DEF Objects
      <4>4. keys'[activeKeys[k].slot] = keys[activeKeys[k].slot]
        BY <1>3, <4>2, <4>3 DEF IInv, TypeOK
      <4>5. activeKeys'[k] = activeKeys[k]
        BY <1>3, <3>1, <3>4
      <4> QED
        BY <1>3, <4>1, <4>2, <4>4, <4>5
    <3> QED
      BY <3>2, <3>3, <3>4
  <2>2. registered' \subseteq present' /\ present' \subseteq live'
    BY <1>3 DEF IInv, OwnersSound
  <2> QED
    BY <2>1, <2>2 DEF OwnersSound
<1> QED
  BY <1>5, <1>6, <1>7 DEF IInv

\* Actions that activate or deactivate shortcuts.
LEMMA RegrabPreserves ==
    ASSUME IInv,
           NEW off \in SUBSET Slots, NEW on \in SUBSET Slots,
           NEW newKeys \in [Slots -> KeyListType],
           Regrab(off, on, newKeys),
           \A s \in registered \ off : s \in registered' /\ keys'[s] = keys[s],
           \A s \in on : s \in registered' /\ keys'[s] = newKeys[s],
           registered' \subseteq present', present' \subseteq live',
           live' \in SUBSET Slots, fresh' \in SUBSET Slots,
           keys' \in [Slots -> KeyListType],
           components' \in Seq(Components),
           contexts' \in [Components -> SUBSET Contexts],
           current' \in [Components -> Contexts],
           refused' = refused, writeout' \in BOOLEAN,
           last' \in Objects \cup {None},
           owed' \in SUBSET Slots,
           out' \in Seq(Signals)
    PROVE  IInv'
<1>1. OwnersSound'
  BY RegrabOwners
<1>2. TypeOK'
  BY RegrabStep DEF IInv, TypeOK, KeyListType
<1>3. GrabAccounting'
  BY RegrabStep DEF IInv
<1> QED
  BY <1>1, <1>2, <1>3 DEF IInv

\* The keys setKeys accepts form a key list again.
LEMMA FilterType ==
    ASSUME NEW list \in KeyListType, NEW accepted
    PROVE  [i \in DOMAIN list |-> IF i \in accepted THEN list[i] ELSE <<>>]
             \in KeyListType
BY DEF KeyListType

\* Messages of one step: none, or one.
LEMMA ShortSequences ==
    /\ <<>> \in Seq(Signals)
    /\ \A m \in Signals : <<m>> \in Seq(Signals)
OBVIOUS

LEMMA AutoloadStep ==
    ASSUME IInv, NEW id \in Ids, Autoload(id)
    PROVE  IInv'
<1> DEFINE s == Target(id)
<1>1. s \in Slots
  BY SlotsOfIds DEF IInv
<1>2. Held \in Holds
  BY HeldType DEF IInv
<1>3. /\ last' \in Objects \cup {None}
      /\ owed' \in SUBSET Slots
      /\ out' \in Seq(Signals)
  BY <1>2, HoldType DEF Autoload, Quiet
<1>4. /\ s \in live \ fresh
      /\ Regrab({}, {s} \ registered, keys)
      /\ present' = present \cup {s}
      /\ registered' = registered \cup {s}
      /\ UNCHANGED <<place, live, keys, fresh, refused, writeout>>
  BY DEF Autoload
<1>5. registered' \subseteq present' /\ present' \subseteq live'
  BY <1>4 DEF IInv, OwnersSound
<1>6. /\ \A t \in registered \ {} : t \in registered' /\ keys'[t] = keys[t]
      /\ \A t \in {s} \ registered : t \in registered' /\ keys'[t] = keys[t]
  BY <1>4
<1>7. {} \in SUBSET Slots /\ {s} \ registered \in SUBSET Slots
  BY <1>1
<1>8. /\ keys \in [Slots -> KeyListType] /\ keys' \in [Slots -> KeyListType]
      /\ live' \in SUBSET Slots /\ fresh' \in SUBSET Slots
      /\ components' \in Seq(Components)
      /\ contexts' \in [Components -> SUBSET Contexts]
      /\ current' \in [Components -> Contexts]
      /\ refused' = refused /\ writeout' \in BOOLEAN
  BY <1>4 DEF IInv, TypeOK, place, KeyListType
<1> QED
  BY <1>3, <1>4, <1>5, <1>6, <1>7, <1>8, RegrabPreserves

LEMMA SetKeysStep ==
    ASSUME IInv, NEW s \in live, NEW list \in KeyListType,
           NEW setPresent \in BOOLEAN, NEW more \in Seq(Signals),
           SetKeys(s, list, setPresent, more)
    PROVE  IInv'
<1> DEFINE off == {s} \cap registered
           on  == IF setPresent THEN {s} ELSE {s} \cap registered \cap present
           new(accepted) ==
             [keys EXCEPT ![s] = [i \in DOMAIN list |->
                                     IF i \in accepted THEN list[i] ELSE <<>>]]
<1>1. PICK accepted \in SUBSET (DOMAIN list) :
        /\ Regrab(off, on, new(accepted))
        /\ LetGo(off, {}, {}, more)
        /\ keys' = new(accepted)
        /\ present' = IF setPresent THEN present \cup {s} ELSE present
        /\ registered' = (registered \ off) \cup on
        /\ fresh' = fresh \ {s}
        /\ writeout' = TRUE
        /\ UNCHANGED <<place, live, refused>>
  BY DEF SetKeys
<1>2. s \in Slots
  BY DEF IInv, TypeOK
<1>3. new(accepted) \in [Slots -> KeyListType]
  BY <1>2, FilterType DEF IInv, TypeOK, KeyListType
<1>4. /\ last' \in Objects \cup {None}
      /\ owed' \in SUBSET Slots
      /\ out' \in Seq(Signals)
  BY <1>1, LetGoType DEF IInv
<1>5. registered' \subseteq present' /\ present' \subseteq live'
  BY <1>1 DEF IInv, OwnersSound
<1>6. \A t \in registered \ off : t \in registered' /\ keys'[t] = keys[t]
  BY <1>1, <1>2 DEF IInv, TypeOK
<1>7. \A t \in on : t \in registered' /\ keys'[t] = new(accepted)[t]
  BY <1>1
<1>8. off \in SUBSET Slots /\ on \in SUBSET Slots
  BY <1>2
<1>9. /\ live' \in SUBSET Slots /\ fresh' \in SUBSET Slots
      /\ keys' \in [Slots -> KeyListType]
      /\ components' \in Seq(Components)
      /\ contexts' \in [Components -> SUBSET Contexts]
      /\ current' \in [Components -> Contexts]
      /\ refused' = refused /\ writeout' \in BOOLEAN
  BY <1>1, <1>3 DEF IInv, TypeOK, place
<1> HIDE DEF off, on, new
<1> QED
  BY <1>1, <1>3, <1>4, <1>5, <1>6, <1>7, <1>8, <1>9, RegrabPreserves

LEMMA SetShortcutKeysStep ==
    ASSUME IInv, NEW id \in Ids, NEW list \in KeyLists,
           \/ \E setPresent, autoloading \in BOOLEAN :
                SetShortcutKeys(id, list, setPresent, autoloading)
           \/ SetForeignShortcutKeys(id, list)
    PROVE  IInv'
<1>1. list \in KeyListType
  BY KeysAssumption DEF KeyListType
<1>2. PICK setPresent \in BOOLEAN, more \in {<<>>, <<Signal("Changed", Target(id))>>} :
        /\ Target(id) \in live
        /\ SetKeys(Target(id), list, setPresent, more)
  BY DEF SetShortcutKeys, SetForeignShortcutKeys
<1>3. more \in Seq(Signals)
  <2>1. Signal("Changed", Target(id)) \in Signals
    BY SlotsOfIds DEF IInv, Signal, Signals
  <2> QED
    BY <2>1, ShortSequences
<1> QED
  BY <1>1, <1>2, <1>3, SetKeysStep

LEMMA SetInactiveStep ==
    ASSUME IInv, NEW id \in Ids, SetInactive(id)
    PROVE  IInv'
<1> DEFINE s   == Target(id)
           off == {s} \cap registered
<1>1. s \in Slots
  BY SlotsOfIds DEF IInv
<1>2. /\ Regrab(off, {}, keys)
      /\ LetGo(off, {}, {}, <<>>)
      /\ present' = present \ {s}
      /\ registered' = registered \ {s}
      /\ UNCHANGED <<place, live, keys, fresh, refused, writeout>>
  BY DEF SetInactive
<1>3. /\ last' \in Objects \cup {None}
      /\ owed' \in SUBSET Slots
      /\ out' \in Seq(Signals)
  BY <1>2, LetGoType, ShortSequences DEF IInv
<1>4. registered' \subseteq present' /\ present' \subseteq live'
  BY <1>2 DEF IInv, OwnersSound
<1>5. \A t \in registered \ off : t \in registered' /\ keys'[t] = keys[t]
  BY <1>2
<1>6. off \in SUBSET Slots /\ {} \in SUBSET Slots
  BY <1>1
<1>7. /\ keys \in [Slots -> KeyListType] /\ keys' \in [Slots -> KeyListType]
      /\ live' \in SUBSET Slots /\ fresh' \in SUBSET Slots
      /\ components' \in Seq(Components)
      /\ contexts' \in [Components -> SUBSET Contexts]
      /\ current' \in [Components -> Contexts]
      /\ refused' = refused /\ writeout' \in BOOLEAN
  BY <1>2 DEF IInv, TypeOK, place, KeyListType
<1> HIDE DEF off
<1> QED
  BY <1>2, <1>3, <1>4, <1>5, <1>6, <1>7, RegrabPreserves

LEMMA RetireStep ==
    ASSUME IInv, NEW idle \in SUBSET Slots, NEW doomed \in SUBSET live, NEW gone,
           Retire(idle, doomed, gone),
           components' \in Seq(Components),
           contexts' \in [Components -> SUBSET Contexts],
           current' \in [Components -> Contexts],
           writeout' \in BOOLEAN
    PROVE  IInv'
<1> DEFINE dead == doomed \cup {s \in live : s.component \in gone}
           lost == idle \cup dead
           off  == lost \cap registered
<1>1. /\ Regrab(off, {}, keys)
      /\ LetGo(off, dead, gone, <<>>)
      /\ live' = live \ dead
      /\ keys' = [s \in Slots |-> IF s \in dead THEN <<>> ELSE keys[s]]
      /\ present' = present \ lost
      /\ registered' = registered \ lost
      /\ fresh' = fresh \ dead
      /\ refused' = refused
  BY DEF Retire
<1>2. /\ last' \in Objects \cup {None}
      /\ owed' \in SUBSET Slots
      /\ out' \in Seq(Signals)
  BY <1>1, LetGoType, ShortSequences DEF IInv
<1>3. registered' \subseteq present' /\ present' \subseteq live'
  BY <1>1 DEF IInv, OwnersSound
<1>4. \A s \in registered \ off : s \in registered' /\ keys'[s] = keys[s]
  BY <1>1 DEF IInv, TypeOK
<1>5. off \in SUBSET Slots /\ {} \in SUBSET Slots
  BY DEF IInv, TypeOK
<1>6. /\ keys \in [Slots -> KeyListType]
      /\ live' \in SUBSET Slots /\ fresh' \in SUBSET Slots
  BY <1>1 DEF IInv, TypeOK, KeyListType
<1>7. keys' \in [Slots -> KeyListType]
  <2>1. <<>> \in KeyListType
    BY DEF KeyListType
  <2> QED
    BY <1>1, <1>6, <2>1
<1>8. Regrab(off, {}, keys) /\ refused' = refused
  BY <1>1
<1> HIDE DEF dead, off
<1> QED
  BY <1>2, <1>3, <1>4, <1>5, <1>6, <1>7, <1>8, RegrabPreserves

LEMMA DeleteStep ==
    ASSUME IInv, NEW doomed \in SUBSET live, NEW gone,
           Delete(doomed, gone),
           components' \in Seq(Components),
           contexts' \in [Components -> SUBSET Contexts],
           current' \in [Components -> Contexts],
           writeout' \in BOOLEAN
    PROVE  IInv'
<1>1. {} \in SUBSET Slots /\ Retire({}, doomed, gone)
  BY DEF Delete
<1> QED
  BY <1>1, RetireStep

\* Erasing components leaves the places well typed.
LEMMA EraseType ==
    ASSUME TypeOK, NEW gone, Erase(gone)
    PROVE  /\ components' \in Seq(Components)
           /\ contexts' \in [Components -> SUBSET Contexts]
           /\ current' \in [Components -> Contexts]
<1>1. components' \in Seq(Components)
  <2>1. PICK n \in 0 .. Len(components) : components' \in [1 .. n -> Components]
    BY DEF Erase
  <2>2. n \in Nat
    BY DEF TypeOK
  <2> QED
    BY <2>1, <2>2
<1> QED
  BY <1>1, ContextsAssumption DEF Erase, TypeOK

LEMMA UnregisterStep ==
    ASSUME IInv, NEW id \in Ids, Unregister(id)
    PROVE  IInv'
<1>1. Siblings(Target(id)) \in SUBSET live
  BY DEF Siblings
<1>2. /\ Delete(Siblings(Target(id)), {})
      /\ writeout' \in BOOLEAN
      /\ components' \in Seq(Components)
      /\ contexts' \in [Components -> SUBSET Contexts]
      /\ current' \in [Components -> Contexts]
  BY DEF Unregister, place, IInv, TypeOK
<1> QED
  BY <1>1, <1>2, DeleteStep

LEMMA WriteSettingsStep ==
    ASSUME IInv, WriteSettings
    PROVE  IInv'
<1>1. /\ Delete({}, Spent(live))
      /\ Erase(Spent(live))
      /\ writeout' \in BOOLEAN
  BY DEF WriteSettings
<1> QED
  BY <1>1, EraseType, DeleteStep DEF IInv

LEMMA CleanUpStep ==
    ASSUME IInv, NEW c \in Components, CleanUp(c)
    PROVE  IInv'
<1> DEFINE doomed == UNION {Siblings(s) : s \in
                              {t \in CurrentSlots \ present : t.component = c}}
           gone   == Spent(live \ doomed)
<1>1. doomed \in SUBSET live
  BY DEF Siblings
<1>2. /\ Delete(doomed, gone)
      /\ Erase(gone)
      /\ writeout' \in BOOLEAN
  BY DEF CleanUp, IInv, TypeOK
<1> HIDE DEF doomed, gone
<1> QED
  BY <1>1, <1>2, EraseType, DeleteStep DEF IInv

LEMMA ContextStep ==
    ASSUME IInv, NEW c \in Components, NEW context \in Contexts,
           ActivateContext(c, context) \/ CreateContext(c, context)
    PROVE  IInv'
<1>1. CASE CreateContext(c, context)
  <2>1. /\ UNCHANGED <<live, keys, present, registered, fresh, grabs>>
        /\ components' = components /\ current' = current
        /\ contexts' = [contexts EXCEPT ![c] = @ \cup {context}]
        /\ refused' = refused /\ writeout' = writeout
        /\ Hold(Held)
    BY <1>1 DEF CreateContext, Quiet, book
  <2>2. Held \in Holds
    BY HeldType DEF IInv
  <2> QED
    BY <2>1, <2>2, SameTables DEF IInv, TypeOK
<1>2. CASE ActivateContext(c, context)
  <2> DEFINE off == SlotsOf(c) \cap CurrentSlots \cap registered
  <2>1. /\ Regrab(off, {}, keys)
        /\ LetGo(off, {}, {}, <<>>)
        /\ current' = [current EXCEPT ![c] = context]
        /\ registered' = registered \ off
        /\ UNCHANGED <<components, contexts, live, keys, present, fresh,
                       refused, writeout>>
    BY <1>2 DEF ActivateContext
  <2>2. /\ last' \in Objects \cup {None}
        /\ owed' \in SUBSET Slots
        /\ out' \in Seq(Signals)
    BY <2>1, LetGoType, ShortSequences DEF IInv
  <2>3. registered' \subseteq present' /\ present' \subseteq live'
    BY <2>1 DEF IInv, OwnersSound
  <2>4. \A s \in registered \ off : s \in registered' /\ keys'[s] = keys[s]
    BY <2>1
  <2>5. off \in SUBSET Slots /\ {} \in SUBSET Slots
    BY DEF IInv, TypeOK
  <2>6. /\ keys \in [Slots -> KeyListType] /\ keys' \in [Slots -> KeyListType]
        /\ live' \in SUBSET Slots /\ fresh' \in SUBSET Slots
        /\ components' \in Seq(Components)
        /\ contexts' \in [Components -> SUBSET Contexts]
        /\ current' \in [Components -> Contexts]
        /\ refused' = refused /\ writeout' \in BOOLEAN
    BY <2>1 DEF IInv, TypeOK, KeyListType
  <2> HIDE DEF off
  <2> QED
    BY <2>1, <2>2, <2>3, <2>4, <2>5, <2>6, RegrabPreserves
<1> QED
  BY <1>1, <1>2

\* Blocking, unblocking and remapping change only who is active.
LEMMA ActivationStep ==
    ASSUME IInv, NEW off \in SUBSET registered, NEW on \in SUBSET present,
           Regrab(off, on, keys),
           LetGo(off, {}, {}, <<>>) \/ Quiet,
           registered' = (registered \ off) \cup on,
           UNCHANGED <<place, live, keys, present, fresh, refused, writeout>>
    PROVE  IInv'
<1>1. /\ last' \in Objects \cup {None}
      /\ owed' \in SUBSET Slots
      /\ out' \in Seq(Signals)
  <2>1. CASE LetGo(off, {}, {}, <<>>)
    BY <2>1, LetGoType, ShortSequences DEF IInv
  <2>2. CASE Quiet
    BY <2>2, HeldType, HoldType DEF IInv, Quiet
  <2> QED
    BY <2>1, <2>2
<1>2. registered' \subseteq present' /\ present' \subseteq live'
  BY DEF IInv, OwnersSound
<1>3. off \in SUBSET Slots /\ on \in SUBSET Slots
  BY DEF IInv, TypeOK
<1>4. /\ keys \in [Slots -> KeyListType] /\ keys' \in [Slots -> KeyListType]
      /\ live' \in SUBSET Slots /\ fresh' \in SUBSET Slots
      /\ components' \in Seq(Components)
      /\ contexts' \in [Components -> SUBSET Contexts]
      /\ current' \in [Components -> Contexts]
      /\ refused' = refused /\ writeout' \in BOOLEAN
  BY DEF IInv, TypeOK, place, KeyListType
<1>5. /\ \A s \in registered \ off : s \in registered' /\ keys'[s] = keys[s]
      /\ \A s \in on : s \in registered' /\ keys'[s] = keys[s]
  OBVIOUS
<1> QED
  BY <1>1, <1>2, <1>3, <1>4, <1>5, RegrabPreserves

LEMMA BlockStep ==
    ASSUME IInv, BlockGlobalShortcuts \/ UnblockGlobalShortcuts \/ RemapKeys
    PROVE  IInv'
<1>1. CASE BlockGlobalShortcuts
  <2> DEFINE off == {s \in CurrentSlots \cap registered :
                       <<s.component, s.name>> # BlockShortcut}
  <2>1. /\ off \in SUBSET registered /\ {} \in SUBSET present
        /\ Regrab(off, {}, keys)
        /\ LetGo(off, {}, {}, <<>>)
        /\ registered' = (registered \ off) \cup {}
        /\ UNCHANGED <<place, live, keys, present, fresh, refused, writeout>>
    BY <1>1 DEF BlockGlobalShortcuts
  <2> HIDE DEF off
  <2> QED
    BY <2>1, ActivationStep
<1>2. CASE UnblockGlobalShortcuts
  <2> DEFINE on == (CurrentSlots \cap present) \ registered
  <2>1. /\ {} \in SUBSET registered /\ on \in SUBSET present
        /\ Regrab({}, on, keys)
        /\ Quiet
        /\ registered' = (registered \ {}) \cup on
        /\ UNCHANGED <<place, live, keys, present, fresh, refused, writeout>>
    BY <1>2 DEF UnblockGlobalShortcuts
  <2> HIDE DEF on
  <2> QED
    BY <2>1, ActivationStep
<1>3. CASE RemapKeys
  <2> DEFINE off == CurrentSlots \cap registered
             on  == CurrentSlots \cap present
  <2>1. /\ off \in SUBSET registered /\ on \in SUBSET present
        /\ Regrab(off, on, keys)
        /\ LetGo(off, {}, {}, <<>>)
        /\ registered' = (registered \ off) \cup on
        /\ UNCHANGED <<place, live, keys, present, fresh, refused, writeout>>
    BY <1>3 DEF RemapKeys
  <2> HIDE DEF off, on
  <2> QED
    BY <2>1, ActivationStep
<1> QED
  BY <1>1, <1>2, <1>3

LEMMA KeyStep ==
    ASSUME IInv,
           Keyboard \/ \E s \in live : InvokeShortcut(s)
    PROVE  IInv'
<1>1. Held \in Holds
  BY HeldType DEF IInv
<1>2. live \in SUBSET Slots
  BY DEF IInv, TypeOK
<1>3. UNCHANGED <<place, book, grabs, refused, writeout>>
  BY DEF Keyboard, KeyPressed, KeyTapped, KeyReleased, KeyIgnored,
           InvokeShortcut
<1>4. PICK h \in Holds : Hold(h)
  <2>1. ASSUME NEW key \in Keys, NEW kind \in {"Pressed", "Repeated"},
               KeyPressed(key, kind)
        PROVE  \E h \in Holds : Hold(h)
    <3>1. PICK s \in Lookup(key) : \E h \in Fired(Held, s, kind) : Hold(h)
      BY <2>1 DEF KeyPressed
    <3>2. s \in Slots
      BY <1>2 DEF Lookup, CurrentSlots
    <3> QED
      BY <1>1, <3>1, <3>2, FiredType
  <2>2. ASSUME NEW key \in Keys, KeyTapped(key)
        PROVE  \E h \in Holds : Hold(h)
    <3>1. PICK s \in Lookup(key) :
            \E fired \in Fired(Held, s, "Pressed") : \E h \in Parted(fired) : Hold(h)
      BY <2>2 DEF KeyTapped
    <3>2. s \in Slots
      BY <1>2 DEF Lookup, CurrentSlots
    <3> QED
      BY <1>1, <3>1, <3>2, FiredType, PartedType
  <2>3. CASE KeyReleased
    BY <1>1, <2>3, PartedType DEF KeyReleased
  <2>4. ASSUME NEW s \in live, InvokeShortcut(s)
        PROVE  \E h \in Holds : Hold(h)
    <3>1. Signal("Pressed", s) \in Signals
      BY <1>2 DEF Signal, Signals
    <3>2. <<Signal("Pressed", s)>> \in Seq(Signals)
      BY <3>1, ShortSequences
    <3>3. [Held EXCEPT !.out = <<Signal("Pressed", s)>>] \in Holds
      BY <1>1, <3>2 DEF Holds
    <3> QED
      BY <2>4, <3>3 DEF InvokeShortcut
  <2> QED
    BY <1>1, <2>1, <2>2, <2>3, <2>4 DEF Keyboard, KeyIgnored, Quiet
<1> QED
  BY <1>3, <1>4, SameTables DEF IInv, TypeOK, place, book

LEMMA PlatformStep ==
    ASSUME IInv, Platform
    PROVE  IInv'
<1>1. Held \in Holds /\ Hold(Held)
  BY HeldType DEF IInv, Platform, OtherClientGrabs, OtherClientUngrabs, Quiet
<1>2. /\ UNCHANGED <<place, book, grabs, writeout>>
      /\ refused' \in SUBSET Refusable
  BY DEF Platform, OtherClientGrabs, OtherClientUngrabs, IInv, TypeOK
<1> QED
  BY <1>1, <1>2, SameTables DEF IInv, TypeOK, place, book

-----------------------------------------------------------------------------
(***************************************************************************)
(* The invariant is inductive.                                             *)
(***************************************************************************)
LEMMA InitInv == Init => IInv
<1> SUFFICES ASSUME Init PROVE IInv
  OBVIOUS
<1>1. DOMAIN activeKeys = {}
  BY DEF Init
<1>2. TypeOK
  <2>1. components \in Seq(Components) /\ out \in Seq(Signals)
    BY DEF Init
  <2>2. keys \in [Slots -> Seq(Keys \cup {<<>>})]
    BY DEF Init
  <2>3. /\ contexts \in [Components -> SUBSET Contexts]
        /\ current \in [Components -> Contexts]
        /\ keysCount \in [Chords -> Nat]
    BY ContextsAssumption DEF Init
  <2>4. activeKeys \in [DOMAIN activeKeys -> Objects]
    BY DEF Init
  <2> QED
    BY <1>1, <2>1, <2>2, <2>3, <2>4 DEF Init, TypeOK
<1>3. GrabAccounting
  <2>1. ASSUME NEW c \in Chords PROVE Cardinality(Uses(c, DOMAIN activeKeys)) = 0
    <3>1. Uses(c, DOMAIN activeKeys) = {}
      BY <1>1 DEF Uses
    <3> QED
      BY <3>1, FS_EmptySet
  <2> QED
    BY <2>1 DEF GrabAccounting, Init
<1>4. OwnersSound
  BY <1>1 DEF OwnersSound, Init
<1> QED
  BY <1>2, <1>3, <1>4 DEF IInv

LEMMA NextInv == IInv /\ [Next]_vars => IInv'
<1> SUFFICES ASSUME IInv, [Next]_vars PROVE IInv'
  OBVIOUS
<1>1. ASSUME NEW id \in Ids, Request(id) PROVE IInv'
  <2>1. CASE Rename(id) \/ SetDefaultKeys(id)
    BY <2>1, RenameStep
  <2>2. CASE AddAction(id)
    BY <2>2, AddActionStep
  <2>3. CASE Autoload(id)
    BY <2>3, AutoloadStep
  <2>4. CASE \E list \in KeyLists :
               \/ \E setPresent, autoloading \in BOOLEAN :
                    SetShortcutKeys(id, list, setPresent, autoloading)
               \/ SetForeignShortcutKeys(id, list)
    BY <2>4, SetShortcutKeysStep
  <2>5. CASE SetInactive(id)
    BY <2>5, SetInactiveStep
  <2>6. CASE Unregister(id)
    BY <2>6, UnregisterStep
  <2> QED
    BY <1>1, <2>1, <2>2, <2>3, <2>4, <2>5, <2>6 DEF Request
<1>2. CASE Housekeeping
  <2>1. CASE WriteSettings
    BY <2>1, WriteSettingsStep
  <2>2. ASSUME NEW c \in Components, CleanUp(c) PROVE IInv'
    BY <2>2, CleanUpStep
  <2>3. ASSUME NEW c \in Components, NEW context \in Contexts,
               ActivateContext(c, context) \/ CreateContext(c, context)
        PROVE  IInv'
    BY <2>3, ContextStep
  <2>4. CASE BlockGlobalShortcuts \/ UnblockGlobalShortcuts \/ RemapKeys
    BY <2>4, BlockStep
  <2> QED
    BY <1>2, <2>1, <2>2, <2>3, <2>4 DEF Housekeeping
<1>3. CASE Keyboard \/ \E s \in live : InvokeShortcut(s)
  BY <1>3, KeyStep
<1>4. CASE Platform
  BY <1>4, PlatformStep
<1>5. CASE UNCHANGED vars
  BY <1>5 DEF vars, place, book, grabs, hold, IInv, TypeOK, GrabAccounting, OwnersSound
<1> QED
  BY <1>1, <1>2, <1>3, <1>4, <1>5 DEF Next, Work

LEMMA Inductive == Spec => []IInv
BY InitInv, NextInv, PTL DEF Spec

-----------------------------------------------------------------------------
(***************************************************************************)
(* The registry's state is always well typed.                              *)
(***************************************************************************)
THEOREM TypeCorrect == Spec => []TypeOK
<1>1. IInv => TypeOK
  BY DEF IInv
<1> QED
  BY <1>1, Inductive, PTL

(***************************************************************************)
(* However many clients register, change and remove however many keys, in  *)
(* whatever contexts, and whatever the platform refuses, the reference     *)
(* counts of registerKey and unregisterKey count the active keys, and the  *)
(* chords grabbed are those counted.                                       *)
(***************************************************************************)
THEOREM GrabsAreCounted == Spec => []GrabAccounting
<1>1. IInv => GrabAccounting
  BY DEF IInv
<1> QED
  BY <1>1, Inductive, PTL

(***************************************************************************)
(* No key is ever grabbed for a shortcut that was deleted, is not active,  *)
(* or has been given other keys: _active_keys holds no such pointer.       *)
(***************************************************************************)
THEOREM OwnersAreSound == Spec => []OwnersSound
<1>1. IInv => OwnersSound
  BY DEF IInv
<1> QED
  BY <1>1, Inductive, PTL

-----------------------------------------------------------------------------
(***************************************************************************)
(* The loops of registerKey and unregisterKey (GrabLoop).  On the way the  *)
(* ledger accounts for the keys of the table and some places of one more.  *)
(***************************************************************************)

\* Where chord c stands in the keys in R, or at a place of k in P.
Placed(c, R, k, P) == Uses(c, R) \cup {u \in {k} \X P : k[u[2]] = c}

Partial(ledger, R, k, P) ==
    /\ ledger = [counts |-> ledger.counts, grabbed |-> ledger.grabbed]
    /\ DOMAIN ledger.counts = Chords
    /\ \A c \in Chords :
          /\ ledger.counts[c] = Cardinality(Placed(c, R, k, P))
          /\ c \in ledger.grabbed <=> ledger.counts[c] > 0

\* One place more, or none if another chord stands there.
LEMMA OnePlaceMore ==
    ASSUME NEW R \in SUBSET Keys, NEW k \in Keys \ R, NEW P \in SUBSET (1 .. Len(k)),
           NEW i \in (1 .. Len(k)) \ P, NEW c
    PROVE  /\ Cardinality(Placed(c, R, k, P)) \in Nat
           /\ k[i] = c => Cardinality(Placed(c, R, k, P \cup {i}))
                             = Cardinality(Placed(c, R, k, P)) + 1
           /\ k[i] # c => Cardinality(Placed(c, R, k, P \cup {i}))
                             = Cardinality(Placed(c, R, k, P))
<1>1. Len(k) \in 1 .. MaxSequenceLength
  BY KeysAssumption
<1>2. R \cup {k} \in SUBSET Keys
  OBVIOUS
<1>3. \A Q \in SUBSET (1 .. Len(k)) : Placed(c, R, k, Q) \subseteq Uses(c, R \cup {k})
  BY <1>1 DEF Placed, Uses, MaxSequenceLength
<1>4. IsFiniteSet(Placed(c, R, k, P))
  BY <1>2, <1>3, UsesFinite, FS_Subset
<1>5. <<k, i>> \notin Placed(c, R, k, P)
  BY DEF Placed, Uses
<1>6. CASE k[i] = c
  <2>1. Placed(c, R, k, P \cup {i}) = Placed(c, R, k, P) \cup {<<k, i>>}
    BY <1>6 DEF Placed
  <2> QED
    BY <1>4, <1>5, <1>6, <2>1, FS_AddElement, FS_CardinalityType
<1>7. CASE k[i] # c
  <2>1. Placed(c, R, k, P \cup {i}) = Placed(c, R, k, P)
    BY <1>7 DEF Placed
  <2> QED
    BY <1>4, <1>7, <2>1, FS_CardinalityType
<1> QED
  BY <1>6, <1>7

LEMMA ChordOfKey ==
    ASSUME NEW k \in Keys, NEW i \in 1 .. Len(k)
    PROVE  k[i] \in Chords
BY DEF Chords

\* grabKey(chord, true), granted, accounts for one place more.
LEMMA TakePlace ==
    ASSUME NEW R \in SUBSET Keys, NEW k \in Keys \ R, NEW P \in SUBSET (1 .. Len(k)),
           NEW i \in (1 .. Len(k)) \ P, NEW ledger, Partial(ledger, R, k, P)
    PROVE  Partial(Take(ledger, k[i]), R, k, P \cup {i})
<1> DEFINE after == Take(ledger, k[i])
<1>1. /\ after = [counts |-> after.counts, grabbed |-> after.grabbed]
      /\ DOMAIN after.counts = Chords
      /\ after.grabbed = ledger.grabbed \cup {k[i]}
      /\ \A c \in Chords : after.counts[c] = IF k[i] = c THEN ledger.counts[c] + 1
                                                         ELSE ledger.counts[c]
  BY ChordOfKey DEF Take, Partial
<1>2. ASSUME NEW c \in Chords
      PROVE  /\ after.counts[c] = Cardinality(Placed(c, R, k, P \cup {i}))
             /\ c \in after.grabbed <=> after.counts[c] > 0
  <2>1. /\ ledger.counts[c] = Cardinality(Placed(c, R, k, P))
        /\ c \in ledger.grabbed <=> ledger.counts[c] > 0
    BY DEF Partial
  <2>2. /\ Cardinality(Placed(c, R, k, P)) \in Nat
        /\ k[i] = c => Cardinality(Placed(c, R, k, P \cup {i}))
                          = Cardinality(Placed(c, R, k, P)) + 1
        /\ k[i] # c => Cardinality(Placed(c, R, k, P \cup {i}))
                          = Cardinality(Placed(c, R, k, P))
    BY OnePlaceMore
  <2> HIDE DEF after
  <2> QED
    BY <1>1, <2>1, <2>2
<1> HIDE DEF after
<1>3. Partial(after, R, k, P \cup {i})
  BY <1>1, <1>2 DEF Partial
<1> QED
  BY <1>3 DEF after

\* A use less accounts for one place less.
LEMMA DropPlace ==
    ASSUME NEW R \in SUBSET Keys, NEW k \in Keys \ R, NEW P \in SUBSET (1 .. Len(k)),
           NEW i \in (1 .. Len(k)) \ P, NEW ledger, Partial(ledger, R, k, P \cup {i})
    PROVE  Partial(Drop(ledger, k[i]), R, k, P)
<1> DEFINE after == Drop(ledger, k[i])
<1>1. /\ Cardinality(Placed(k[i], R, k, P)) \in Nat
      /\ ledger.counts[k[i]] = Cardinality(Placed(k[i], R, k, P)) + 1
  BY OnePlaceMore, ChordOfKey DEF Partial
<1>2. ledger.counts[k[i]] # 0
  BY <1>1
<1>3. /\ after = [counts |-> after.counts, grabbed |-> after.grabbed]
      /\ DOMAIN after.counts = Chords
      /\ after.grabbed = IF ledger.counts[k[i]] = 1 THEN ledger.grabbed \ {k[i]}
                                                    ELSE ledger.grabbed
      /\ \A c \in Chords : after.counts[c] = IF k[i] = c THEN ledger.counts[c] - 1
                                                         ELSE ledger.counts[c]
  BY <1>2, ChordOfKey DEF Drop, Partial
<1>4. ASSUME NEW c \in Chords
      PROVE  /\ after.counts[c] = Cardinality(Placed(c, R, k, P))
             /\ c \in after.grabbed <=> after.counts[c] > 0
  <2>1. /\ ledger.counts[c] = Cardinality(Placed(c, R, k, P \cup {i}))
        /\ c \in ledger.grabbed <=> ledger.counts[c] > 0
    BY DEF Partial
  <2>2. /\ Cardinality(Placed(c, R, k, P)) \in Nat
        /\ k[i] = c => Cardinality(Placed(c, R, k, P \cup {i}))
                          = Cardinality(Placed(c, R, k, P)) + 1
        /\ k[i] # c => Cardinality(Placed(c, R, k, P \cup {i}))
                          = Cardinality(Placed(c, R, k, P))
    BY OnePlaceMore
  <2> HIDE DEF after
  <2> QED
    BY <1>1, <1>3, <2>1, <2>2
<1> HIDE DEF after
<1>5. Partial(after, R, k, P)
  BY <1>3, <1>4 DEF Partial
<1> QED
  BY <1>5 DEF after

\* With no place of k, or all, the accounts are those of a table.
LEMMA PartialAccounts ==
    ASSUME NEW R \in SUBSET Keys, NEW k \in Keys \ R, NEW ledger
    PROVE  /\ Partial(ledger, R, k, {}) => Accounts(ledger, R)
           /\ Partial(ledger, R, k, 1 .. Len(k)) => Accounts(ledger, R \cup {k})
<1>1. ASSUME NEW c
      PROVE  /\ Placed(c, R, k, {}) = Uses(c, R)
             /\ Placed(c, R, k, 1 .. Len(k)) = Uses(c, R \cup {k})
  <2>1. Len(k) \in 1 .. MaxSequenceLength
    BY KeysAssumption
  <2> QED
    BY <2>1 DEF Placed, Uses, MaxSequenceLength
<1> QED
  BY <1>1 DEF Partial, Accounts

LEMMA LedgerIsPartial ==
    ASSUME IInv, NEW R \in SUBSET Keys, NEW k \in Keys \ R
    PROVE  /\ R = DOMAIN activeKeys => Partial(Ledger, R, k, {})
           /\ R \cup {k} = DOMAIN activeKeys => Partial(Ledger, R, k, 1 .. Len(k))
<1>1. ASSUME NEW c
      PROVE  /\ Placed(c, R, k, {}) = Uses(c, R)
             /\ Placed(c, R, k, 1 .. Len(k)) = Uses(c, R \cup {k})
  <2>1. Len(k) \in 1 .. MaxSequenceLength
    BY KeysAssumption
  <2> QED
    BY <2>1 DEF Placed, Uses, MaxSequenceLength
<1>2. DOMAIN keysCount = Chords /\ GrabAccounting
  BY DEF IInv, TypeOK
<1> QED
  BY <1>1, <1>2 DEF Partial, Ledger, GrabAccounting

-----------------------------------------------------------------------------
\* The loops' ledgers are defined one from the other; a key has at most four
\* chords, so the ledgers can be written out.
LEMMA TakingLoop ==
    ASSUME NEW ledger, NEW key, NEW n \in 0 .. 4
    PROVE  \A i \in 0 .. n : Taking(ledger, key, n)[i] =
             IF i = 0 THEN ledger ELSE Take(Taking(ledger, key, n)[i - 1], key[i])
<1> DEFINE one   == Take(ledger, key[1])
           two   == Take(one, key[2])
           three == Take(two, key[3])
           four  == Take(three, key[4])
           after == [j \in 0 .. n |->
                        IF j = 0 THEN ledger ELSE IF j = 1 THEN one
                        ELSE IF j = 2 THEN two ELSE IF j = 3 THEN three ELSE four]
           Body(f) == [j \in 0 .. n |->
                          IF j = 0 THEN ledger ELSE Take(f[j - 1], key[j])]
<1>1. after = Body(after)
  <2>1. ASSUME NEW j \in 0 .. n
        PROVE  after[j] = IF j = 0 THEN ledger ELSE Take(after[j - 1], key[j])
    <3>1. j = 0 \/ j = 1 \/ j = 2 \/ j = 3 \/ j = 4
      OBVIOUS
    <3> QED
      BY <3>1
  <2> QED
    BY <2>1
<1>2. Taking(ledger, key, n) = CHOOSE f : f = Body(f)
  BY DEF Taking
<1> HIDE DEF after
<1>3. Taking(ledger, key, n) = Body(Taking(ledger, key, n))
  BY <1>1, <1>2
<1> QED
  BY <1>3

LEMMA RewindingLoop ==
    ASSUME NEW ledger, NEW key, NEW n \in 0 .. 4
    PROVE  \A i \in 0 .. n : Rewinding(ledger, key, n)[i] =
             IF i = 0 THEN ledger
             ELSE Drop(Rewinding(ledger, key, n)[i - 1], key[n - i + 1])
<1> DEFINE one   == Drop(ledger, key[n])
           two   == Drop(one, key[n - 1])
           three == Drop(two, key[n - 2])
           four  == Drop(three, key[n - 3])
           after == [j \in 0 .. n |->
                        IF j = 0 THEN ledger ELSE IF j = 1 THEN one
                        ELSE IF j = 2 THEN two ELSE IF j = 3 THEN three ELSE four]
           Body(f) == [j \in 0 .. n |->
                          IF j = 0 THEN ledger ELSE Drop(f[j - 1], key[n - j + 1])]
<1>1. after = Body(after)
  <2>1. ASSUME NEW j \in 0 .. n
        PROVE  after[j] = IF j = 0 THEN ledger
                          ELSE Drop(after[j - 1], key[n - j + 1])
    <3>1. j = 0 \/ j = 1 \/ j = 2 \/ j = 3 \/ j = 4
      OBVIOUS
    <3>2. n - 1 + 1 = n /\ n - 2 + 1 = n - 1 /\ n - 3 + 1 = n - 2 /\ n - 4 + 1 = n - 3
      OBVIOUS
    <3> QED
      BY <3>1, <3>2
  <2> QED
    BY <2>1
<1>2. Rewinding(ledger, key, n) = CHOOSE f : f = Body(f)
  BY DEF Rewinding
<1> HIDE DEF after
<1>3. Rewinding(ledger, key, n) = Body(Rewinding(ledger, key, n))
  BY <1>1, <1>2
<1> QED
  BY <1>3

LEMMA DroppingLoop ==
    ASSUME NEW ledger, NEW key, NEW n \in 0 .. 4
    PROVE  \A i \in 0 .. n : Dropping(ledger, key, n)[i] =
             IF i = 0 THEN ledger ELSE Drop(Dropping(ledger, key, n)[i - 1], key[i])
<1> DEFINE one   == Drop(ledger, key[1])
           two   == Drop(one, key[2])
           three == Drop(two, key[3])
           four  == Drop(three, key[4])
           after == [j \in 0 .. n |->
                        IF j = 0 THEN ledger ELSE IF j = 1 THEN one
                        ELSE IF j = 2 THEN two ELSE IF j = 3 THEN three ELSE four]
           Body(f) == [j \in 0 .. n |->
                          IF j = 0 THEN ledger ELSE Drop(f[j - 1], key[j])]
<1>1. after = Body(after)
  <2>1. ASSUME NEW j \in 0 .. n
        PROVE  after[j] = IF j = 0 THEN ledger ELSE Drop(after[j - 1], key[j])
    <3>1. j = 0 \/ j = 1 \/ j = 2 \/ j = 3 \/ j = 4
      OBVIOUS
    <3> QED
      BY <3>1
  <2> QED
    BY <2>1
<1>2. Dropping(ledger, key, n) = CHOOSE f : f = Body(f)
  BY DEF Dropping
<1> HIDE DEF after
<1>3. Dropping(ledger, key, n) = Body(Dropping(ledger, key, n))
  BY <1>1, <1>2
<1> QED
  BY <1>3

\* The ledgers while the chords of a key are grabbed.
LEMMA KeyLength ==
    ASSUME NEW k \in Keys
    PROVE  \E m \in 1 .. 4 : m = Len(k)
BY KeysAssumption DEF MaxSequenceLength

LEMMA TakingPartial ==
    ASSUME NEW R \in SUBSET Keys, NEW k \in Keys \ R, NEW m \in 1 .. 4, m = Len(k),
           NEW n \in 0 .. m,
           NEW ledger, Partial(ledger, R, k, {})
    PROVE  Partial(Taking(ledger, k, n)[n], R, k, 1 .. n)
<1> DEFINE after == Taking(ledger, k, n)
<1>0. n \in 0 .. 4
  OBVIOUS
<1>1. \A i \in 0 .. n : after[i] = IF i = 0 THEN ledger ELSE Take(after[i - 1], k[i])
  BY <1>0, TakingLoop
<1> HIDE DEF after
<1>2. Partial(after[0], R, k, 1 .. 0)
  BY <1>1
<1>3. ASSUME NEW i \in 1 .. n, Partial(after[i - 1], R, k, 1 .. (i - 1))
      PROVE  Partial(after[i], R, k, 1 .. i)
  <2>1. after[i] = Take(after[i - 1], k[i])
    BY <1>1
  <2>2. /\ 1 .. (i - 1) \in SUBSET (1 .. m)
        /\ i \in (1 .. m) \ (1 .. (i - 1))
        /\ (1 .. (i - 1)) \cup {i} = 1 .. i
    BY <1>1
  <2> DEFINE P == 1 .. (i - 1)
  <2>3. P \in SUBSET (1 .. Len(k)) /\ i \in (1 .. Len(k)) \ P
    BY <2>2
  <2> HIDE DEF P
  <2>4. Partial(Take(after[i - 1], k[i]), R, k, P \cup {i})
    BY <1>3, <2>3, TakePlace DEF P
  <2> QED
    BY <2>1, <2>2, <2>4 DEF P
<1> DEFINE Sofar(i) == Partial(after[i], R, k, 1 .. i)
<1>4. n \in 0 .. 4 /\ Sofar(0) /\ \A i \in 1 .. n : Sofar(i - 1) => Sofar(i)
  BY <1>2, <1>3
<1>5. Sofar(n)
  <2> HIDE DEF Sofar
  <2>1. 1 <= n => Sofar(1)
    BY <1>4
  <2>2. 2 <= n => Sofar(2)
    BY <1>4, <2>1
  <2>3. 3 <= n => Sofar(3)
    BY <1>4, <2>2
  <2>4. 4 <= n => Sofar(4)
    BY <1>4, <2>3
  <2> QED
    BY <1>4, <2>1, <2>2, <2>3, <2>4
<1> QED
  BY <1>5 DEF after

\* The ledgers while the chords granted are given back.
LEMMA RewindingPartial ==
    ASSUME NEW R \in SUBSET Keys, NEW k \in Keys \ R, NEW m \in 1 .. 4, m = Len(k),
           NEW n \in 0 .. m,
           NEW ledger, Partial(ledger, R, k, 1 .. n)
    PROVE  Partial(Rewinding(ledger, k, n)[n], R, k, {})
<1> DEFINE after == Rewinding(ledger, k, n)
<1>0. n \in 0 .. 4
  OBVIOUS
<1>1. \A i \in 0 .. n :
          after[i] = IF i = 0 THEN ledger ELSE Drop(after[i - 1], k[n - i + 1])
  BY <1>0, RewindingLoop
<1> HIDE DEF after
<1>2. Partial(after[0], R, k, 1 .. (n - 0))
  BY <1>1
<1>3. ASSUME NEW i \in 1 .. n, Partial(after[i - 1], R, k, 1 .. (n - (i - 1)))
      PROVE  Partial(after[i], R, k, 1 .. (n - i))
  <2>1. after[i] = Drop(after[i - 1], k[n - i + 1])
    BY <1>1
  <2>2. /\ 1 .. (n - i) \in SUBSET (1 .. m)
        /\ n - i + 1 \in (1 .. m) \ (1 .. (n - i))
        /\ (1 .. (n - i)) \cup {n - i + 1} = 1 .. (n - (i - 1))
    BY <1>1
  <2> DEFINE P == 1 .. (n - i)
             j == n - i + 1
  <2>3. P \in SUBSET (1 .. Len(k)) /\ j \in (1 .. Len(k)) \ P
    BY <2>2
  <2>4. Partial(after[i - 1], R, k, P \cup {j})
    BY <1>3, <2>2
  <2> HIDE DEF P, j
  <2>5. Partial(Drop(after[i - 1], k[j]), R, k, P)
    BY <2>3, <2>4, DropPlace
  <2> QED
    BY <2>1, <2>5 DEF P, j
<1> DEFINE Sofar(i) == Partial(after[i], R, k, 1 .. (n - i))
<1>4. n \in 0 .. 4 /\ Sofar(0) /\ \A i \in 1 .. n : Sofar(i - 1) => Sofar(i)
  <2>1. n \in 0 .. 4
    OBVIOUS
  <2>2. Sofar(0)
    BY <1>2
  <2>3. ASSUME NEW i \in 1 .. n, Sofar(i - 1) PROVE Sofar(i)
    BY <1>3, <2>3
  <2> HIDE DEF Sofar
  <2> QED
    BY <2>1, <2>2, <2>3
<1>5. Sofar(n)
  <2> HIDE DEF Sofar
  <2>1. 1 <= n => Sofar(1)
    BY <1>4
  <2>2. 2 <= n => Sofar(2)
    BY <1>4, <2>1
  <2>3. 3 <= n => Sofar(3)
    BY <1>4, <2>2
  <2>4. 4 <= n => Sofar(4)
    BY <1>4, <2>3
  <2> QED
    BY <1>4, <2>1, <2>2, <2>3, <2>4
<1>6. 1 .. (n - n) = {}
  BY <1>4
<1> QED
  BY <1>5, <1>6 DEF after

\* The ledgers while the chords of a key in the table are given up.
LEMMA DroppingPartial ==
    ASSUME NEW R \in SUBSET Keys, NEW k \in Keys \ R, NEW m \in 1 .. 4, m = Len(k),
           NEW n \in 0 .. m,
           NEW ledger, Partial(ledger, R, k, 1 .. m)
    PROVE  Partial(Dropping(ledger, k, n)[n], R, k, (n + 1) .. m)
<1> DEFINE after == Dropping(ledger, k, n)
<1>0. n \in 0 .. 4
  OBVIOUS
<1>1. \A i \in 0 .. n : after[i] = IF i = 0 THEN ledger ELSE Drop(after[i - 1], k[i])
  BY <1>0, DroppingLoop
<1> HIDE DEF after
<1>2. Partial(after[0], R, k, (0 + 1) .. m)
  BY <1>1
<1>3. ASSUME NEW i \in 1 .. n, Partial(after[i - 1], R, k, i .. m)
      PROVE  Partial(after[i], R, k, (i + 1) .. m)
  <2>1. after[i] = Drop(after[i - 1], k[i])
    BY <1>1
  <2>2. /\ (i + 1) .. m \in SUBSET (1 .. m)
        /\ i \in (1 .. m) \ ((i + 1) .. m)
        /\ ((i + 1) .. m) \cup {i} = i .. m
    BY <1>1
  <2> DEFINE P == (i + 1) .. m
  <2>3. P \in SUBSET (1 .. Len(k)) /\ i \in (1 .. Len(k)) \ P
    BY <2>2
  <2>4. Partial(after[i - 1], R, k, P \cup {i})
    BY <1>3, <2>2
  <2> HIDE DEF P
  <2>5. Partial(Drop(after[i - 1], k[i]), R, k, P)
    BY <2>3, <2>4, DropPlace
  <2> QED
    BY <2>1, <2>5 DEF P
<1> DEFINE Sofar(i) == Partial(after[i], R, k, (i + 1) .. m)
<1>4. n \in 0 .. 4 /\ Sofar(0) /\ \A i \in 1 .. n : Sofar(i - 1) => Sofar(i)
  BY <1>2, <1>3
<1>5. Sofar(n)
  <2> HIDE DEF Sofar
  <2>1. 1 <= n => Sofar(1)
    BY <1>4
  <2>2. 2 <= n => Sofar(2)
    BY <1>4, <2>1
  <2>3. 3 <= n => Sofar(3)
    BY <1>4, <2>2
  <2>4. 4 <= n => Sofar(4)
    BY <1>4, <2>3
  <2> QED
    BY <1>4, <2>1, <2>2, <2>3, <2>4
<1> QED
  BY <1>5 DEF after

(***************************************************************************)
(* Whatever is grabbed and whichever chord is refused, the loops of        *)
(* registerKey and unregisterKey keep the accounts: Regrab takes nothing   *)
(* for granted that they do not do.                                        *)
(***************************************************************************)
THEOREM LoopsCount == Spec => []LoopsKeepAccounts
<1>1. IInv => LoopsKeepAccounts
  <2> SUFFICES ASSUME IInv PROVE LoopsKeepAccounts
    OBVIOUS
  <2>1. DOMAIN activeKeys \in SUBSET Keys
    BY DEF IInv, TypeOK
  <2>2. ASSUME NEW k \in Keys \ DOMAIN activeKeys, NEW n \in 0 .. Len(k)
        PROVE  Accounts(RegisterKey(Ledger, k, n),
                        IF n = Len(k) THEN DOMAIN activeKeys \cup {k}
                                      ELSE DOMAIN activeKeys)
    <3> DEFINE begun == Taking(Ledger, k, n)[n]
    <3>0. PICK m \in 1 .. 4 : m = Len(k)
      BY KeyLength
    <3>1. Partial(begun, DOMAIN activeKeys, k, 1 .. n)
      BY <2>1, <3>0, LedgerIsPartial, TakingPartial
    <3> HIDE DEF begun
    <3>2. CASE n = Len(k)
      <4>1. RegisterKey(Ledger, k, n) = begun
        BY <3>2 DEF RegisterKey, begun
      <4> QED
        BY <2>1, <3>1, <3>2, <4>1, PartialAccounts
    <3>3. CASE n # Len(k)
      <4>1. RegisterKey(Ledger, k, n) = Rewinding(begun, k, n)[n]
        BY <3>3 DEF RegisterKey, begun
      <4>2. Partial(Rewinding(begun, k, n)[n], DOMAIN activeKeys, k, {})
        BY <2>1, <3>0, <3>1, RewindingPartial
      <4> QED
        BY <2>1, <3>3, <4>1, <4>2, PartialAccounts
    <3> QED
      BY <3>2, <3>3
  <2>3. ASSUME NEW k \in DOMAIN activeKeys
        PROVE  Accounts(UnregisterKey(Ledger, k), DOMAIN activeKeys \ {k})
    <3> DEFINE others == DOMAIN activeKeys \ {k}
    <3>1. /\ others \in SUBSET Keys /\ k \in Keys \ others
          /\ others \cup {k} = DOMAIN activeKeys
      BY <2>1
    <3> HIDE DEF others
    <3>0. PICK m \in 1 .. 4 : m = Len(k)
      BY <2>1, KeyLength
    <3>2. Partial(Ledger, others, k, 1 .. Len(k))
      BY <3>1, LedgerIsPartial
    <3>3. Partial(Dropping(Ledger, k, m)[m], others, k, {})
      <4>1. m \in 0 .. m /\ (m + 1) .. m = {}
        OBVIOUS
      <4>2. Partial(Dropping(Ledger, k, m)[m], others, k, (m + 1) .. m)
        BY <3>0, <3>1, <3>2, <4>1, DroppingPartial
      <4> QED
        BY <4>1, <4>2
    <3> QED
      BY <3>0, <3>1, <3>3, PartialAccounts DEF UnregisterKey, others
  <2> QED
    BY <2>2, <2>3 DEF LoopsKeepAccounts
<1> QED
  BY <1>1, Inductive, PTL
=============================================================================
