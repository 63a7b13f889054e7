------------------------- MODULE ConnectionManager -------------------------
(***************************************************************************)
(* One SurrealConnectionManager, the tasks that call it, and the SDK       *)
(* handles it opens.                                                       *)
(*                                                                         *)
(*   src/src/auth/connection.ts, src/src/client.ts                         *)
(*                                                                         *)
(* A remote endpoint with configured credentials.  Tasks interleave at the *)
(* awaits: on the connection attempt, and on each request.  Time is seen   *)
(* through isTokenValid() only, which turns false at any moment.           *)
(***************************************************************************)
EXTENDS Naturals, FiniteSets

CONSTANTS
    Tasks,      \* the asynchronous tasks of the program
    Users,      \* the users they sign in
    Operations, \* what they call: "get", "signin", "invalidate", "close"
    MaxHandles, \* bound: SDK handles opened in one behaviour
    MaxFaults,  \* bound: failed requests in one behaviour
    MaxExpiries \* bound: expiries of a token in one behaviour

ASSUME ManagerAssumption ==
    /\ IsFiniteSet(Tasks)
    /\ Operations \subseteq {"get", "signin", "invalidate", "close"}
    /\ MaxHandles \in Nat /\ MaxFaults \in Nat /\ MaxExpiries \in Nat
    /\ {"nobody", "anonymous", "config"} \cap Users = {}

Handles == 1 .. MaxHandles

VARIABLES
    callers,            \* the tasks that use the client
    db,                 \* this.db, 0 for null
    isConnected,        \* this.isConnected
    connectionPromise,  \* the handle being connected, 0 for null
    tokenValid,         \* what isTokenValid() answers of this.expiresAt
    session,            \* the user authToken and sessionInfo are about
    stage,              \* stage[h]: where performConnection(h) stands
    link,               \* link[h]: the socket of handle h
    identity,           \* identity[h]: whom the server takes h for
    used,               \* used[h]: h has a namespace and a database
    pc,                 \* pc[t]: where task t's call stands
    operation,          \* operation[t]: what t called
    user,               \* user[t]: the user t signs in
    handle,             \* handle[t]: the handle t awaits or works with
    faults, losses, expiries

manager == <<db, isConnected, connectionPromise, tokenValid, session>>
sockets == <<link, identity, used>>
calls   == <<operation, user, handle>>
bounds  == <<faults, losses, expiries>>
vars    == <<callers, manager, stage, sockets, pc, calls, bounds>>

Stages == {"none", "connecting", "signing", "using", "done", "failed"}
Locations == {"idle", "getting", "waiting", "request", "reply", "closing"}

TypeOK ==
    /\ callers \subseteq Tasks
    /\ db \in {0} \cup Handles
    /\ isConnected \in BOOLEAN
    /\ connectionPromise \in {0} \cup Handles
    /\ tokenValid \in BOOLEAN
    /\ session \in {"nobody"} \cup Users
    /\ stage \in [Handles -> Stages]
    /\ link \in [Handles -> {"new", "open", "closed"}]
    /\ identity \in [Handles -> {"anonymous", "config"} \cup Users]
    /\ used \in [Handles -> BOOLEAN]
    /\ pc \in [Tasks -> Locations]
    /\ operation \in [Tasks -> {"get", "signin", "invalidate", "close"}]
    /\ user \in [Tasks -> {"nobody"} \cup Users]
    /\ handle \in [Tasks -> {0} \cup Handles]
    /\ faults \in 0 .. MaxFaults
    /\ losses \in 0 .. MaxFaults
    /\ expiries \in 0 .. MaxExpiries
    /\ \A t \in Tasks :
          /\ pc[t] \in {"waiting", "request", "reply"} => handle[t] \in Handles
          /\ operation[t] = "signin" => user[t] \in Users

(* The client is used by one task, or by several.                          *)
Init ==
    /\ callers \in (SUBSET Tasks) \ {{}}
    /\ db = 0
    /\ isConnected = FALSE
    /\ connectionPromise = 0
    /\ tokenValid = FALSE
    /\ session = "nobody"
    /\ stage = [h \in Handles |-> "none"]
    /\ link = [h \in Handles |-> "new"]
    /\ identity = [h \in Handles |-> "anonymous"]
    /\ used = [h \in Handles |-> FALSE]
    /\ pc = [t \in Tasks |-> "idle"]
    /\ operation = [t \in Tasks |-> "get"]
    /\ user = [t \in Tasks |-> "nobody"]
    /\ handle = [t \in Tasks |-> 0]
    /\ faults = 0
    /\ losses = 0
    /\ expiries = 0

---------------------------------------------------------------------------
Goto(t, l) == pc' = [pc EXCEPT ![t] = l]

(* The call returns or throws.                                             *)
Settle(t) ==
    /\ Goto(t, "idle")
    /\ operation' = [operation EXCEPT ![t] = "get"]
    /\ user' = [user EXCEPT ![t] = "nobody"]
    /\ handle' = [handle EXCEPT ![t] = 0]

(* A request fails, or its reply does after the server has acted.          *)
Fault == /\ faults + losses < MaxFaults
         /\ faults' = faults + 1
         /\ UNCHANGED <<losses, expiries>>

Loss == /\ faults + losses < MaxFaults
        /\ losses' = losses + 1
        /\ UNCHANGED <<faults, expiries>>

Unopened == {h \in Handles : stage[h] = "none"}
Busy == {t \in Tasks : pc[t] # "idle"}

(* A task calls the manager.  The bound leaves a handle for every call     *)
(* that may yet have to open one.                                          *)
Call(t) ==
    /\ pc[t] = "idle"
    /\ Cardinality(Unopened) > Cardinality(Busy)
    /\ \E o \in Operations \ {"close"} :
        /\ operation' = [operation EXCEPT ![t] = o]
        /\ \E u \in Users :
            user' = [user EXCEPT ![t] = IF o = "signin" THEN u ELSE "nobody"]
    /\ Goto(t, "getting")
    /\ UNCHANGED <<manager, stage, sockets, handle, bounds>>

---------------------------------------------------------------------------
(* getConnection and connect, up to their await.                           *)
IsReady == db # 0 /\ isConnected /\ tokenValid

UseCurrent(t) ==
    /\ pc[t] = "getting"
    /\ IsReady
    /\ handle' = [handle EXCEPT ![t] = db]
    /\ Goto(t, "request")
    /\ UNCHANGED <<manager, stage, sockets, operation, user, bounds>>

AwaitPromise(t) ==
    /\ pc[t] = "getting"
    /\ ~IsReady
    /\ connectionPromise # 0
    /\ handle' = [handle EXCEPT ![t] = connectionPromise]
    /\ Goto(t, "waiting")
    /\ UNCHANGED <<manager, stage, sockets, operation, user, bounds>>

(* Mutant: a call connects although another one does.                      *)
ConnectToo(t) ==
    /\ pc[t] = "getting"
    /\ ~IsReady
    /\ Unopened # {}
    /\ LET h == CHOOSE n \in Unopened : TRUE IN
        /\ db' = h
        /\ connectionPromise' = h
        /\ stage' = [stage EXCEPT ![h] = "connecting"]
        /\ handle' = [handle EXCEPT ![t] = h]
    /\ Goto(t, "waiting")
    /\ UNCHANGED <<isConnected, tokenValid, session, sockets, operation, user,
                   bounds>>

(* A new Surreal object takes the place of this.db at once.                *)
Connect(t) ==
    /\ pc[t] = "getting"
    /\ ~IsReady
    /\ connectionPromise = 0
    /\ Unopened # {}
    /\ LET h == CHOOSE n \in Unopened : TRUE IN
        /\ db' = h
        /\ connectionPromise' = h
        /\ stage' = [stage EXCEPT ![h] = "connecting"]
        /\ handle' = [handle EXCEPT ![t] = h]
    /\ Goto(t, "waiting")
    /\ UNCHANGED <<isConnected, tokenValid, session, sockets, operation, user,
                   bounds>>

(* performConnection(h): connect, signin, use, each one request.           *)
Open(h) ==
    /\ stage[h] = "connecting"
    /\ link[h] = "new"
    /\ link' = [link EXCEPT ![h] = "open"]
    /\ stage' = [stage EXCEPT ![h] = "signing"]
    /\ UNCHANGED <<manager, identity, used, pc, calls, bounds>>

(* Mutant: isConnected is set before db.use.                               *)
SigninConnects(h) ==
    /\ stage[h] = "signing"
    /\ link[h] = "open"
    /\ identity' = [identity EXCEPT ![h] = "config"]
    /\ tokenValid' = TRUE
    /\ isConnected' = TRUE
    /\ stage' = [stage EXCEPT ![h] = "using"]
    /\ UNCHANGED <<db, connectionPromise, session, link, used, pc, calls,
                   bounds>>

PerformSignin(h) ==
    /\ stage[h] = "signing"
    /\ link[h] = "open"
    /\ identity' = [identity EXCEPT ![h] = "config"]
    /\ tokenValid' = TRUE
    /\ stage' = [stage EXCEPT ![h] = "using"]
    /\ UNCHANGED <<db, isConnected, connectionPromise, session, link, used,
                   pc, calls, bounds>>

Use(h) ==
    /\ stage[h] = "using"
    /\ link[h] = "open"
    /\ used' = [used EXCEPT ![h] = TRUE]
    /\ isConnected' = TRUE
    /\ connectionPromise' = 0
    /\ stage' = [stage EXCEPT ![h] = "done"]
    /\ UNCHANGED <<db, tokenValid, session, link, identity, pc, calls, bounds>>

(* One of the three requests fails, because of the network or because      *)
(* close() got in between.  The handle stays as it is, and in this.db.     *)
InFlight(h) == stage[h] \in {"connecting", "signing", "using"}

(* Mutant: a request on a closed socket never fails.                       *)
ConnectionHangs(h) ==
    /\ InFlight(h)
    /\ Fault
    /\ connectionPromise' = 0
    /\ stage' = [stage EXCEPT ![h] = "failed"]
    /\ UNCHANGED <<db, isConnected, tokenValid, session, sockets, pc, calls>>

ConnectionFails(h) ==
    /\ InFlight(h)
    /\ IF link[h] = "closed" THEN UNCHANGED bounds ELSE Fault
    /\ connectionPromise' = 0
    /\ stage' = [stage EXCEPT ![h] = "failed"]
    /\ UNCHANGED <<db, isConnected, tokenValid, session, sockets, pc, calls>>

(* The promise settles for whoever awaits it.                              *)
Connected(t) ==
    /\ pc[t] = "waiting"
    /\ stage[handle[t]] = "done"
    /\ Goto(t, "request")
    /\ UNCHANGED <<manager, stage, sockets, calls, bounds>>

NotConnected(t) ==
    /\ pc[t] = "waiting"
    /\ stage[handle[t]] = "failed"
    /\ Settle(t)
    /\ UNCHANGED <<manager, stage, sockets, bounds>>

---------------------------------------------------------------------------
(* getConnection returns to its caller.                                    *)
GetConnection(t) ==
    /\ pc[t] = "request"
    /\ operation[t] = "get"
    /\ Settle(t)
    /\ UNCHANGED <<manager, stage, sockets, bounds>>

(* The server acts on the request of signin, signup or authenticate, and   *)
(* of invalidate.                                                          *)
ServerActs(t) ==
    /\ pc[t] = "request"
    /\ operation[t] # "get"
    /\ link[handle[t]] = "open"
    /\ identity' = [identity EXCEPT
                      ![handle[t]] = IF operation[t] = "signin" THEN user[t]
                                     ELSE "anonymous"]
    /\ Goto(t, "reply")
    /\ UNCHANGED <<manager, stage, link, used, calls, bounds>>

RequestFails(t) ==
    /\ pc[t] = "request"
    /\ operation[t] # "get"
    /\ IF link[handle[t]] # "open" THEN UNCHANGED bounds ELSE Fault
    /\ Settle(t)
    /\ UNCHANGED <<manager, stage, sockets>>

(* setSession, and its like in signup and authenticate.                    *)
SetSession(t) ==
    /\ pc[t] = "reply"
    /\ operation[t] = "signin"
    /\ session' = user[t]
    /\ tokenValid' = TRUE
    /\ Settle(t)
    /\ UNCHANGED <<db, isConnected, connectionPromise, stage, sockets, bounds>>

(* The rest of invalidate: expiresAt = 0.                                  *)
Invalidate(t) ==
    /\ pc[t] = "reply"
    /\ operation[t] = "invalidate"
    /\ session' = "nobody"
    /\ tokenValid' = FALSE
    /\ Settle(t)
    /\ UNCHANGED <<db, isConnected, connectionPromise, stage, sockets, bounds>>

(* The reply is lost, or has no token, or one that does not decode.        *)
ReplyFails(t) ==
    /\ pc[t] = "reply"
    /\ Loss
    /\ Settle(t)
    /\ UNCHANGED <<manager, stage, sockets>>

---------------------------------------------------------------------------
(* close(), up to its await and after it.                                  *)
Close(t) ==
    /\ pc[t] = "idle"
    /\ "close" \in Operations
    /\ db # 0
    /\ operation' = [operation EXCEPT ![t] = "close"]
    /\ handle' = [handle EXCEPT ![t] = db]
    /\ link' = [link EXCEPT ![db] = "closed"]
    /\ Goto(t, "closing")
    /\ UNCHANGED <<manager, stage, identity, used, user, bounds>>

(* Mutant: close() keeps the token and the session.                        *)
ClosedButSignedIn(t) ==
    /\ pc[t] = "closing"
    /\ db' = 0
    /\ isConnected' = FALSE
    /\ tokenValid' = FALSE
    /\ Settle(t)
    /\ UNCHANGED <<session, connectionPromise, stage, sockets, bounds>>

Closed(t) ==
    /\ pc[t] = "closing"
    /\ db' = 0
    /\ isConnected' = FALSE
    /\ tokenValid' = FALSE
    /\ session' = "nobody"
    /\ Settle(t)
    /\ UNCHANGED <<connectionPromise, stage, sockets, bounds>>

CloseFails(t) ==
    /\ pc[t] = "closing"
    /\ Fault
    /\ Settle(t)
    /\ UNCHANGED <<manager, stage, sockets>>

(* expiresAt comes within a minute of now.                                 *)
Expire ==
    /\ tokenValid
    /\ expiries < MaxExpiries
    /\ expiries' = expiries + 1
    /\ tokenValid' = FALSE
    /\ UNCHANGED <<db, isConnected, connectionPromise, session, stage, sockets,
                   pc, calls, faults, losses>>

---------------------------------------------------------------------------
Attempt(h) == Open(h) \/ PerformSignin(h) \/ Use(h) \/ ConnectionFails(h)

Continue(t) ==
    \/ UseCurrent(t)
    \/ AwaitPromise(t)
    \/ Connect(t)
    \/ Connected(t)
    \/ NotConnected(t)
    \/ GetConnection(t)
    \/ ServerActs(t)
    \/ RequestFails(t)
    \/ SetSession(t)
    \/ Invalidate(t)
    \/ Closed(t)

Step ==
    \/ \E h \in Handles : Attempt(h)
    \/ \E t \in callers :
        Call(t) \/ Close(t) \/ Continue(t) \/ ReplyFails(t) \/ CloseFails(t)
    \/ Expire

Next == Step /\ UNCHANGED callers

Spec == Init /\ [][Next]_vars

(* Every request is answered or fails, and the event loop runs what is     *)
(* ready to run.                                                           *)
FairSpec ==
    /\ Spec
    /\ \A h \in Handles : WF_vars(Attempt(h) /\ UNCHANGED callers)
    /\ \A t \in Tasks : WF_vars(Continue(t) /\ UNCHANGED callers)

---------------------------------------------------------------------------
(* The inductive invariant of the proofs.  A handle has its database once  *)
(* its attempt is done, and its socket has been opened by then; isConnected *)
(* was set by an attempt that is done; this.db is a handle that was made.  *)
HandlesAsStaged ==
    \A h \in Handles :
        /\ used[h] <=> stage[h] = "done"
        /\ stage[h] \in {"signing", "using", "done"} => link[h] # "new"

ConnectedMeansDone == isConnected => \E h \in Handles : stage[h] = "done"

(* While one task uses the client: what is in flight is this.db, and the   *)
(* task waits for it, signed in as nobody; a request is made over this.db; *)
(* and a session is that of the connection, but for the moment between the *)
(* server's answer and its effect here.                                    *)
AttemptIsAwaited(c) ==
    /\ \A h \in Handles :
          InFlight(h) => pc[c] = "waiting" /\ handle[c] = h
    /\ pc[c] = "waiting" =>
          /\ session = "nobody"
          /\ handle[c] = db
          /\ stage[db] = "done" => isConnected

RequestsUseCurrent(c) ==
    /\ pc[c] \in {"request", "reply"} => handle[c] = db /\ isConnected
    /\ pc[c] = "reply" /\ operation[c] = "signin" => identity[db] = user[c]

SessionIsIdentity(c) ==
    session # "nobody" =>
        /\ IsReady
        /\ identity[db] = session \/ pc[c] = "reply"

Solo(c) == AttemptIsAwaited(c) /\ RequestsUseCurrent(c) /\ SessionIsIdentity(c)

SoloInv ==
    losses = 0 /\ expiries = 0 =>
        \A c \in Tasks : callers = {c} => Solo(c)

---------------------------------------------------------------------------
(* Properties.                                                             *)

(* Only one connection is ever being made, and it is the one that          *)
(* connectionPromise is about: a call that finds the promise awaits it.    *)
(* The variables have their types.                                         *)
SingleFlight ==
    /\ TypeOK
    /\ \A h \in Handles : InFlight(h) <=> connectionPromise = h

(* Until a connection is replaced or closed, getConnection hands out a     *)
(* handle that is connected and has its database selected, however many    *)
(* tasks ask at once and however many attempts fail before.                *)
HandedOutUsable ==
    [][\A t \in Tasks :
         /\ pc[t] # "request" /\ pc'[t] = "request"
         /\ \A h \in Handles : link[h] # "closed"
         /\ \A h \in Handles : used[h] => h = handle'[t]
         => link[handle'[t]] = "open" /\ used[handle'[t]]]_vars

Staged == SingleFlight /\ HandlesAsStaged /\ ConnectedMeansDone

ManagerInv == Staged /\ SoloInv

isAuthenticated == session # "nobody" /\ tokenValid

(* isAuthenticated() (connection.ts:493): while one task uses the client,  *)
(* none of its requests fails half way and no token has expired, it tells  *)
(* whether the server takes this connection for the signed-in user.        *)
AuthenticatedUntilExpiry ==
    /\ Cardinality(callers) = 1 /\ losses = 0 /\ expiries = 0
    /\ Busy = {} /\ isAuthenticated
    => db # 0 /\ identity[db] = session

(* Every call settles: nobody awaits a promise for ever.                   *)
CallsSettle == \A t \in Tasks : pc[t] # "idle" ~> pc[t] = "idle"
===========================================================================
