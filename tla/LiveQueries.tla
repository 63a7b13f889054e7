---------------------------- MODULE LiveQueries ----------------------------
(***************************************************************************)
(* A streaming manager, its live queries, and the server that runs them.   *)
(*                                                                         *)
(*   src/src/connection/streaming.ts                                       *)
(*                                                                         *)
(* Tasks create and kill live queries on one connection.  A request takes  *)
(* two steps: the server acts on it, and the caller goes on.               *)
(*                                                                         *)
(* The manager keeps and kills a query by String(uuid) of what the SDK's   *)
(* live() resolves to, which is not in src/.  The tests mock it as an id   *)
(* (test/streaming.test.ts:170); the release that deno.lock pins, 2.0.2,   *)
(* is understood to resolve to a subscription object, whose text is that   *)
(* of every other one and names no query.  A behaviour has the one or the  *)
(* other.                                                                  *)
(***************************************************************************)
EXTENDS Naturals, Sequences, SequencesExt

CONSTANTS
    Tasks,      \* the callers of the manager
    MaxQueries, \* bound: live queries created in one behaviour
    MaxFaults   \* bound: requests and replies lost in one behaviour

LiveAssumption == MaxQueries \in Nat /\ MaxFaults \in Nat

VARIABLES
    named,      \* what live() resolves to is, as a text, the query's id
    server,     \* the live queries that run on the server
    created,    \* how many were created so far: they are 1 .. created
    queries,    \* the manager's Map, in its order
    active,     \* active[q]: _active of the LiveQuery
    subscribed, \* subscribed[q]: it has a callback
    event,      \* the query that the event we follow is for, or 0
    fate,       \* where it is: "none", "sent", "notified" or "dropped"
    pc,         \* pc[t]: where t's call stands
    query,      \* query[t]: the live query it is about
    via,        \* via[t]: what kills it: the handle, kill(uuid) or killAll
    rest,       \* rest[t]: what is left of killAll's entries
    faults,     \* requests and replies lost so far
    lost        \* the queries that such a request or reply was about

handles == <<queries, active, subscribed>>
events == <<event, fate>>
calls == <<pc, query, via, rest>>
losses == <<faults, lost>>
vars == <<named, server, created, handles, events, calls, losses>>

Ids == 1 .. MaxQueries
Listed == {queries[i] : i \in DOMAIN queries}

Locations ==
    {"idle", "live", "created", "kill", "killed", "failed", "killAll"}

TypeOK ==
    /\ named \in BOOLEAN
    /\ server \subseteq 1 .. created
    /\ created \in 0 .. MaxQueries
    /\ queries \in Seq(1 .. created)
    /\ active \in [Ids -> BOOLEAN]
    /\ subscribed \in [Ids -> BOOLEAN]
    /\ event \in 0 .. created
    /\ fate \in {"none", "sent", "notified", "dropped"}
    /\ pc \in [Tasks -> Locations]
    /\ query \in [Tasks -> 0 .. MaxQueries]
    /\ via \in [Tasks -> {"handle", "kill", "killAll"}]
    /\ rest \in [Tasks -> Seq(Ids)]
    /\ faults \in 0 .. MaxFaults
    /\ lost \subseteq 1 .. created

Init ==
    /\ named \in BOOLEAN
    /\ server = {}
    /\ created = 0
    /\ queries = <<>>
    /\ active = [q \in Ids |-> FALSE]
    /\ subscribed = [q \in Ids |-> FALSE]
    /\ event = 0
    /\ fate = "none"
    /\ pc = [t \in Tasks |-> "idle"]
    /\ query = [t \in Tasks |-> 0]
    /\ via = [t \in Tasks |-> "kill"]
    /\ rest = [t \in Tasks |-> <<>>]
    /\ faults = 0
    /\ lost = {}

---------------------------------------------------------------------------
Goto(t, l) == pc' = [pc EXCEPT ![t] = l]

Fault == faults < MaxFaults /\ faults' = faults + 1

(* The Map after set and delete: handles that are not named all have the   *)
(* same key.                                                               *)
With(q) == IF named THEN Append(queries, q) ELSE <<q>>
Without(q) == IF named THEN RemoveFirst(queries, q) ELSE <<>>

(* KILL '<text>' stops the query that the text is the id of.               *)
Stopped(q) == IF named THEN server \ {q} ELSE server

(* live: the request.                                                      *)
Live(t) ==
    /\ pc[t] = "idle"
    /\ created < MaxQueries
    /\ Goto(t, "live")
    /\ UNCHANGED <<named, server, created, handles, events, query, via,
                   rest, losses>>

(* The server starts the query and answers with its id.                    *)
ServerCreates(t) ==
    /\ pc[t] = "live"
    /\ created < MaxQueries
    /\ created' = created + 1
    /\ server' = server \cup {created + 1}
    /\ query' = [query EXCEPT ![t] = created + 1]
    /\ Goto(t, "created")
    /\ UNCHANGED <<named, handles, events, via, rest, losses>>

(* The request never arrives, or the answer never does.                    *)
LiveFails(t) ==
    /\ pc[t] \in {"live", "created"}
    /\ Fault
    /\ lost' = IF pc[t] = "created" THEN lost \cup {query[t]} ELSE lost
    /\ Goto(t, "idle")
    /\ query' = [query EXCEPT ![t] = 0]
    /\ UNCHANGED <<named, server, created, handles, events, via, rest>>

(* The caller has the answer: a handle is made and entered.  Nothing of it *)
(* is registered with the connection.                                      *)
Enter(t) ==
    /\ pc[t] = "created"
    /\ queries' = With(query[t])
    /\ active' = [active EXCEPT ![query[t]] = TRUE]
    /\ Goto(t, "idle")
    /\ query' = [query EXCEPT ![t] = 0]
    /\ UNCHANGED <<named, server, created, subscribed, events, via, rest,
                   losses>>

(* subscribe and unsubscribe, on a handle.                                 *)
Subscribe(q) ==
    /\ active[q]
    /\ subscribed' = [subscribed EXCEPT ![q] = TRUE]
    /\ UNCHANGED <<named, server, created, queries, active, events, calls,
                   losses>>

Unsubscribe(q) ==
    /\ subscribed[q]
    /\ subscribed' = [subscribed EXCEPT ![q] = FALSE]
    /\ UNCHANGED <<named, server, created, queries, active, events, calls,
                   losses>>

---------------------------------------------------------------------------
(* LiveQuery.kill of a handle that is already dead returns at once.        *)
StartKill(t, q, by) ==
    /\ query' = [query EXCEPT ![t] = q]
    /\ via' = [via EXCEPT ![t] = by]
    /\ Goto(t, IF active[q] THEN "kill" ELSE "killed")

(* kill() of a handle; kill(uuid), which refuses one not in the Map.       *)
Kill(t) ==
    /\ pc[t] = "idle"
    /\ \/ \E q \in 1 .. created : active[q] /\ StartKill(t, q, "handle")
       \/ \E q \in Listed : StartKill(t, q, "kill")
    /\ UNCHANGED <<named, server, created, handles, events, rest, losses>>

(* killAll takes its entries once.                                         *)
KillAll(t) ==
    /\ pc[t] = "idle"
    /\ rest' = [rest EXCEPT ![t] = queries]
    /\ Goto(t, "killAll")
    /\ UNCHANGED <<named, server, created, handles, events, query, via,
                   losses>>

KillNext(t) ==
    /\ pc[t] = "killAll"
    /\ rest[t] # <<>>
    /\ StartKill(t, Head(rest[t]), "killAll")
    /\ UNCHANGED <<named, server, created, handles, events, rest, losses>>

(* Mutant: the Map is emptied at the end.                                  *)
KillAllClears(t) ==
    /\ pc[t] = "killAll"
    /\ rest[t] = <<>>
    /\ Goto(t, "idle")
    /\ queries' = <<>>
    /\ UNCHANGED <<named, server, created, active, subscribed, events,
                   query, via, rest, losses>>

KillAllReturns(t) ==
    /\ pc[t] = "killAll"
    /\ rest[t] = <<>>
    /\ Goto(t, "idle")
    /\ UNCHANGED <<named, server, created, handles, events, query, via,
                   rest, losses>>

(* The server executes KILL, and refuses what is no id that it runs.       *)
ServerKills(t) ==
    /\ pc[t] = "kill"
    /\ Goto(t, IF named /\ query[t] \in server THEN "killed" ELSE "failed")
    /\ server' = Stopped(query[t])
    /\ UNCHANGED <<named, created, handles, events, query, via, rest, losses>>

(* The request is lost, before or after the server acts on it.             *)
KillFails(t) ==
    /\ pc[t] = "kill"
    /\ Fault
    /\ lost' = lost \cup {query[t]}
    /\ Goto(t, "failed")
    /\ server' \in {server, Stopped(query[t])}
    /\ UNCHANGED <<named, created, handles, events, query, via, rest>>

(* kill's finally, and what the caller makes of it: kill(uuid) forgets     *)
(* the handle if nothing was thrown, killAll in any case, and goes on.     *)
Killed(t) ==
    /\ pc[t] \in {"killed", "failed"}
    /\ active' = [active EXCEPT ![query[t]] = FALSE]
    /\ subscribed' = [subscribed EXCEPT ![query[t]] = FALSE]
    /\ queries' = IF via[t] = "killAll" \/ (via[t] = "kill" /\ pc[t] = "killed")
                  THEN Without(query[t])
                  ELSE queries
    /\ IF via[t] = "killAll"
       THEN Goto(t, "killAll") /\ rest' = [rest EXCEPT ![t] = Tail(@)]
       ELSE Goto(t, "idle") /\ UNCHANGED rest
    /\ query' = [query EXCEPT ![t] = 0]
    /\ UNCHANGED <<named, server, created, events, via, losses>>

---------------------------------------------------------------------------
(* A record changes, and the server sends an event to the connection.  We  *)
(* follow one event, for a query that has a subscriber.                    *)
ServerSends ==
    /\ fate = "none"
    /\ event' \in {q \in server : subscribed[q]}
    /\ fate' = "sent"
    /\ UNCHANGED <<named, server, created, handles, calls, losses>>

(* Whom the connection hands the events of its live queries to: live()     *)
(* passes it no handler, and never subscribes to what it answers.          *)
Listeners == {}

(* The connection dispatches the event; a listener would call notify(),    *)
(* which calls the subscribed callbacks.                                   *)
Dispatch ==
    /\ fate = "sent"
    /\ fate' = IF event \in Listeners /\ subscribed[event] THEN "notified"
                                                         ELSE "dropped"
    /\ UNCHANGED <<named, server, created, handles, event, calls, losses>>

Continue(t) ==
    \/ ServerCreates(t)
    \/ Enter(t)
    \/ KillNext(t)
    \/ KillAllReturns(t)
    \/ ServerKills(t)
    \/ Killed(t)

Next ==
    \/ \E t \in Tasks :
        \/ Live(t) \/ Kill(t) \/ KillAll(t)
        \/ Continue(t)
        \/ LiveFails(t) \/ KillFails(t)
    \/ \E q \in Ids : Subscribe(q) \/ Unsubscribe(q)
    \/ ServerSends
    \/ Dispatch

Spec == Init /\ [][Next]_vars

(* The server answers, the event loop runs, events are dispatched.         *)
FairSpec ==
    /\ Spec
    /\ \A t \in Tasks : WF_vars(Continue(t))
    /\ WF_vars(Dispatch)

---------------------------------------------------------------------------
(* Properties.                                                             *)

(* A query is on its way to the Map, or still held by somebody.            *)
InFlight(q) == \E t \in Tasks : pc[t] = "created" /\ query[t] = q
Killing(t) == pc[t] \in {"kill", "killed", "failed"}
Left(t) == {rest[t][i] : i \in DOMAIN rest[t]}
Known(q) ==
    \/ q \in Listed \/ active[q]
    \/ \E t \in Tasks : (Killing(t) /\ query[t] = q) \/ q \in Left(t)

(* Whatever live, kill and killAll overlap and whichever requests fail: a  *)
(* query that runs on the server is in the Map, where killAll finds it, or *)
(* on its way there, unless it is one that a lost request or reply was     *)
(* itself about; nobody else's failure leaves it unlisted.  That is so if  *)
(* handles are named by ids.  If they are not, no kill ever stops a query, *)
(* and the Map, so size and list(), has one of them at the most.           *)
NothingRunsUnlisted ==
    IF named
    THEN \A q \in server \ lost : q \in Listed \/ InFlight(q)
    ELSE server = 1 .. created /\ Len(queries) <= 1

(* What it rests on: a query that was answered and not entered yet is      *)
(* nobody else's; and one that runs is alive and listed, or on its way.    *)
Assigned ==
    \A t \in Tasks : pc[t] = "created" \/ Killing(t)
                        => query[t] \in 1 .. created
Unshared ==
    \A t, u \in Tasks :
        pc[t] = "created" /\ pc[u] = "created" /\ query[t] = query[u] => t = u
Pending ==
    \A t \in Tasks : Killing(t) /\ via[t] = "killAll" => rest[t] # <<>>
NewInFlight == \A q \in Ids : InFlight(q) => ~Known(q)
KnownExist == \A q \in Ids : Known(q) => q <= created
RunningKept ==
    named =>
        /\ \A q \in server \ lost : InFlight(q) \/ (q \in Listed /\ active[q])
        /\ \A t \in Tasks :
            pc[t] \in {"killed", "failed"} => query[t] \notin server \ lost
NoneStopped == ~named => server = 1 .. created /\ Len(queries) <= 1

LiveInv ==
    /\ Assigned /\ Unshared /\ Pending
    /\ NewInFlight /\ KnownExist /\ RunningKept /\ NoneStopped

(* "notify ... (called internally by StreamingManager)" (streaming.ts:61): *)
(* an event for a subscribed query reaches its callback, unless the query  *)
(* is killed or unsubscribed first.                                        *)
EventsReachSubscribers ==
    \A q \in Ids :
        fate = "sent" /\ event = q /\ subscribed[q]
            ~> fate = "notified" \/ ~subscribed[q]
===========================================================================
