------------------------------ MODULE GrabLoop ------------------------------
(***************************************************************************)
(* registerKey and unregisterKey of GlobalShortcutsRegistry, chord by      *)
(* chord.  Regrab of Registry says at once what any number of such calls   *)
(* come to; here is what one of them does to _keys_count and to what the   *)
(* platform has grabbed, when the platform may refuse at any chord.        *)
(***************************************************************************)
EXTENDS Registry

\* _keys_count and the chords that the platform has grabbed.
Ledger == [counts |-> keysCount, grabbed |-> grabbed]

\* grabKey(chord, true) is granted, and counted.
Take(ledger, chord) ==
    [counts  |-> [ledger.counts EXCEPT ![chord] = @ + 1],
     grabbed |-> ledger.grabbed \cup {chord}]

\* One use of chord less; the last one ungrabs it.
Drop(ledger, chord) ==
    IF ledger.counts[chord] = 0 THEN ledger
    ELSE [counts  |-> [ledger.counts EXCEPT ![chord] = @ - 1],
          grabbed |-> IF ledger.counts[chord] = 1 THEN ledger.grabbed \ {chord}
                                                  ELSE ledger.grabbed]

\* The loop that grabs: the ledgers after each of the first n chords of key.
Taking(ledger, key, n) ==
    LET after[i \in 0 .. n] ==
            IF i = 0 THEN ledger ELSE Take(after[i - 1], key[i])
    IN  after

\* The loop of unregisterKey: the ledgers after each of the first n chords.
Dropping(ledger, key, n) ==
    LET after[i \in 0 .. n] ==
            IF i = 0 THEN ledger ELSE Drop(after[i - 1], key[i])
    IN  after

\* Broken: the chord that was refused is rewound too.
RewindingRefused(ledger, key, n) ==
    LET after[i \in 0 .. n] ==
            IF i = 0 THEN Drop(ledger, key[n + 1])
                     ELSE Drop(after[i - 1], key[n - i + 1])
    IN  after

\* The loop that rewinds, from the last chord that was granted to the first.
Rewinding(ledger, key, n) ==
    LET after[i \in 0 .. n] ==
            IF i = 0 THEN ledger ELSE Drop(after[i - 1], key[n - i + 1])
    IN  after

\* registerKey for a key that is free, of which the platform grants n chords
\* before it refuses one: all of them, or the registration fails.
RegisterKey(ledger, key, n) ==
    LET begun == Taking(ledger, key, n)[n]
    IN  IF n = Len(key) THEN begun ELSE Rewinding(begun, key, n)[n]

\* unregisterKey for the owner of the key.
UnregisterKey(ledger, key) == Dropping(ledger, key, Len(key))[Len(key)]

-----------------------------------------------------------------------------
\* The counts and grabs in ledger are those of a table with the keys in R.
Accounts(ledger, R) ==
    \A c \in Chords :
        /\ ledger.counts[c] = Cardinality(Uses(c, R))
        /\ c \in ledger.grabbed <=> ledger.counts[c] > 0

(***************************************************************************)
(* Whatever is grabbed, registering one more key counts and grabs exactly  *)
(* its chords, however often one occurs in it, or leaves no trace where    *)
(* the platform refuses, whichever chord it refuses; and unregistering one *)
(* leaves exactly what the others need (registerKey, unregisterKey).  So   *)
(* the calls come to what Regrab says, in whatever order they are made.    *)
(***************************************************************************)
LoopsKeepAccounts ==
    LET table == DOMAIN activeKeys
    IN  /\ \A k \in Keys \ table : \A n \in 0 .. Len(k) :
              Accounts(RegisterKey(Ledger, k, n),
                       IF n = Len(k) THEN table \cup {k} ELSE table)
        /\ \A k \in table : Accounts(UnregisterKey(Ledger, k), table \ {k})
=============================================================================
