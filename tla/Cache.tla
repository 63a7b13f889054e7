------------------------------- MODULE Cache -------------------------------
(***************************************************************************)
(* A cache manager over the in-memory LRU backend, shared by tasks that    *)
(* fill it from the database.                                              *)
(*                                                                         *)
(*   src/src/cache/manager.ts, backends.ts                                 *)
(*                                                                         *)
(* A backend call runs to completion when it is made; the tasks interleave *)
(* at the awaits of getOrSet.  What compute() returns is the version that  *)
(* the database has of the key when it answers.                            *)
(***************************************************************************)
EXTENDS Naturals, Sequences, SequencesExt

CONSTANTS
    Tasks,      \* the callers of the cache
    Keys,       \* the keys they use
    NoKey,      \* no key
    MaxSize,    \* maxSize of the backend
    Ttl,        \* time to live of an entry, in clock ticks
    MaxTime,    \* bound: clock ticks in one behaviour
    MaxVersion  \* bound: versions of one key in the database

CacheAssumption ==
    /\ NoKey \notin Keys
    /\ MaxSize \in Nat /\ Ttl \in Nat
    /\ MaxTime \in Nat /\ MaxVersion \in Nat

VARIABLES
    database,   \* database[k]: the current version of k
    now,        \* Date.now()
    map,        \* the Map: its entries, in its order
    key,        \* key[t]: the key that t's getOrSet computes, or NoKey
    value,      \* value[t]: what compute() returned to it, or Unknown
    invalidated \* history: database[k] when k was last removed on request

calls == <<key, value>>
vars == <<database, now, map, calls, invalidated>>

Versions == 0 .. MaxVersion
Unknown == MaxVersion + 1

Entries == [key: Keys, value: Versions, expiresAt: Nat]
Cached == {map[i].key : i \in DOMAIN map}

TypeOK ==
    /\ database \in [Keys -> Versions]
    /\ now \in 0 .. MaxTime
    /\ map \in Seq(Entries)
    /\ Len(map) <= MaxSize \/ Len(map) <= 1
    /\ \A i, j \in DOMAIN map : map[i].key = map[j].key => i = j
    /\ key \in [Tasks -> Keys \cup {NoKey}]
    /\ value \in [Tasks -> Versions \cup {Unknown}]
    /\ invalidated \in [Keys -> Versions]

Init ==
    /\ database = [k \in Keys |-> 0]
    /\ now = 0
    /\ map = <<>>
    /\ key = [t \in Tasks |-> NoKey]
    /\ value = [t \in Tasks |-> Unknown]
    /\ invalidated = [k \in Keys |-> 0]

---------------------------------------------------------------------------
Idle(t) == key[t] = NoKey

Without(k) == RemoveFirstMatch(map, LAMBDA e : e.key = k)

Fresh(e) == now <= e.expiresAt

(* get, of a key that is there: it moves to the end of the Map.            *)
Hit(t) ==
    /\ Idle(t)
    /\ \E i \in DOMAIN map :
        /\ Fresh(map[i])
        /\ map' = Append(Without(map[i].key), map[i])
    /\ UNCHANGED <<database, now, calls, invalidated>>

(* get, of a key that is not there, or whose entry has expired and goes.   *)
(* It returns null; getOrSet goes on to compute the value.                 *)
Miss(t, k) ==
    /\ Idle(t)
    /\ \A i \in DOMAIN map : map[i].key = k => ~Fresh(map[i])
    /\ map' = Without(k)
    /\ key' \in {key, [key EXCEPT ![t] = k]}
    /\ UNCHANGED <<database, now, value, invalidated>>

(* compute() queries the database.                                         *)
Compute(t) ==
    /\ ~Idle(t) /\ value[t] = Unknown
    /\ value' = [value EXCEPT ![t] = database[key[t]]]
    /\ UNCHANGED <<database, now, map, key, invalidated>>

Return(t) ==
    /\ key' = [key EXCEPT ![t] = NoKey]
    /\ value' = [value EXCEPT ![t] = Unknown]

(* compute() throws, and getOrSet with it.                                 *)
ComputeFails(t) ==
    /\ ~Idle(t) /\ value[t] = Unknown
    /\ Return(t)
    /\ UNCHANGED <<database, now, map, invalidated>>

(* At capacity the first entry of the Map goes, expired or not.            *)
Evict == IF Len(map) >= MaxSize /\ map # <<>> THEN Tail(map) ELSE map

(* set: a key that is in the Map keeps its place there.                    *)
Set(t) ==
    /\ ~Idle(t) /\ value[t] # Unknown
    /\ LET e == [key |-> key[t], value |-> value[t], expiresAt |-> now + Ttl]
       IN  map' = IF e.key \in Cached
                  THEN [i \in DOMAIN map |->
                           IF map[i].key = e.key THEN e ELSE map[i]]
                  ELSE Append(Evict, e)
    /\ Return(t)
    /\ UNCHANGED <<database, now, invalidated>>

---------------------------------------------------------------------------
(* A key that nobody computes now is removed for good; the answer to a     *)
(* computation that is under way may still bring back what was removed.    *)
Removed(ks) ==
    invalidated' =
        [k \in Keys |-> IF k \in ks /\ \A t \in Tasks : key[t] # k
                        THEN database[k] ELSE invalidated[k]]

(* Mutant: delete(pattern) without the key prefix.                         *)
InvalidateOther(k) ==
    /\ Removed({k})
    /\ UNCHANGED <<database, now, map, calls>>

Invalidate(k) ==
    /\ map' = Without(k)
    /\ Removed({k})
    /\ UNCHANGED <<database, now, calls>>

(* clear and close.                                                        *)
Clear ==
    /\ map' = <<>>
    /\ Removed(Keys)
    /\ UNCHANGED <<database, now, calls>>

(* Someone changes the database.                                           *)
Write(k) ==
    /\ database[k] < MaxVersion
    /\ database' = [database EXCEPT ![k] = @ + 1]
    /\ UNCHANGED <<now, map, calls, invalidated>>

Tick ==
    /\ now < MaxTime
    /\ now' = now + 1
    /\ UNCHANGED <<database, map, calls, invalidated>>

Next ==
    \/ \E t \in Tasks, k \in Keys : Miss(t, k)
    \/ \E t \in Tasks : Hit(t) \/ Compute(t) \/ ComputeFails(t) \/ Set(t)
    \/ \E k \in Keys : Invalidate(k) \/ Write(k)
    \/ Clear
    \/ Tick

Spec == Init /\ [][Next]_vars

---------------------------------------------------------------------------
(* Properties.                                                             *)

(* What was invalidated or cleared while nobody was computing it never     *)
(* comes back: an entry is at least as new as its last removal.            *)
InvalidatedIsGone ==
    \A i \in DOMAIN map : map[i].value >= invalidated[map[i].key]

(* What it rests on: what a task holds of a key was read after the key's   *)
(* last removal, for none counts while it computes.                        *)
CacheInv ==
    /\ InvalidatedIsGone
    /\ \A k \in Keys : invalidated[k] <= database[k]
    /\ \A t \in Tasks : value[t] # Unknown =>
        key[t] # NoKey /\ value[t] >= invalidated[key[t]]
===========================================================================
