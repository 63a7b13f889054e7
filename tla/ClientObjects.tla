--------------------------- MODULE ClientObjects ---------------------------
(***************************************************************************)
(* The client-side objects that keep state of their own in one process:    *)
(* the cache, the connection registry, the streaming manager and the       *)
(* schema watcher.                                                         *)
(*                                                                         *)
(* They share nothing but the event loop, so a behaviour uses one of them: *)
(* interleaving them would multiply their states and show nothing new.     *)
(***************************************************************************)
EXTENDS Naturals, Sequences

CONSTANTS
    Tasks,
    Keys, NoKey, MaxSize, Ttl, MaxTime, MaxVersion,
    MaxQueries, MaxFaults,
    Names, NoName, MaxClients,
    MaxChanges, MaxErrors

VARIABLES
    used,       \* the object that this behaviour is about
    database, now, map, key, value, invalidated,
    named, server, created, queries, active, subscribed, event, fate, livePc,
    query, via, liveRest, faults, lost,
    callers, connections, defaultName, made, closing, registryPc,
    registryEntry, registryRest,
    files, events, timer, started, check, seen, reports, stopped, loop, errors

Objects == {"cache", "live", "registry", "watcher"}

Cache == INSTANCE Cache
Live == INSTANCE LiveQueries WITH pc <- livePc, rest <- liveRest
Registry == INSTANCE ConnectionRegistry
    WITH pc <- registryPc, entry <- registryEntry, rest <- registryRest
Watcher == INSTANCE SchemaWatcher

(* What each object requires of its constants.                             *)
ASSUME ObjectsAssumption ==
    /\ Cache!CacheAssumption
    /\ Live!LiveAssumption
    /\ Registry!NamesAssumption
    /\ Watcher!WatcherAssumption

cacheVars ==
    <<database, now, map, key, value, invalidated>>
liveVars ==
    <<named, server, created, queries, active, subscribed, event, fate,
      livePc, query, via, liveRest, faults, lost>>
registryVars ==
    <<callers, connections, defaultName, made, closing, registryPc,
      registryEntry, registryRest>>
watcherVars ==
    <<files, events, timer, started, check, seen, reports, stopped, loop,
      errors>>
vars == <<used, cacheVars, liveVars, registryVars, watcherVars>>

Init ==
    /\ used \in Objects
    /\ Cache!Init
    /\ Live!Init
    /\ Registry!Init
    /\ used # "registry" => callers = Tasks
    /\ Watcher!Init

Next ==
    \/ /\ used = "cache"
       /\ Cache!Next
       /\ UNCHANGED <<used, liveVars, registryVars, watcherVars>>
    \/ /\ used = "live"
       /\ Live!Next
       /\ UNCHANGED <<used, cacheVars, registryVars, watcherVars>>
    \/ /\ used = "registry"
       /\ Registry!Next
       /\ UNCHANGED <<used, cacheVars, liveVars, watcherVars>>
    \/ /\ used = "watcher"
       /\ Watcher!Next
       /\ UNCHANGED <<used, cacheVars, liveVars, registryVars>>

(* The fairness of SchemaWatcher!FairSpec.                                 *)
Spec == Init /\ [][Next]_vars
FairSpec ==
    Spec /\ WF_vars(/\ used = "watcher"
                    /\ Watcher!Progress
                    /\ UNCHANGED <<used, cacheVars, liveVars, registryVars>>)

---------------------------------------------------------------------------
(* Each of these says also that the object's variables have their types.   *)

(* Cache: what was invalidated while nobody computed it never comes back.  *)
InvalidatedIsGone == Cache!TypeOK /\ Cache!InvalidatedIsGone

(* Live queries: what runs on the server is listed, but for what a lost    *)
(* request was about, if the answers are ids.                              *)
NothingRunsUnlisted == Live!TypeOK /\ Live!NothingRunsUnlisted

(* Registry: no client is dropped while it is open.                        *)
NoneDropped == Registry!TypeOK /\ Registry!NoneDropped

(* Watcher: every change is reported by a check that read it.              *)
EveryChangeReported == []Watcher!TypeOK /\ Watcher!EveryChangeReported
===========================================================================
