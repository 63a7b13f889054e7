------------------------------ MODULE Sessions ------------------------------
(***************************************************************************)
(* Several sessions over one connection, and the manager that keeps the    *)
(* token of the connection's own session.                                  *)
(*                                                                         *)
(*   src/src/sessions/session.ts, src/src/client.ts,                       *)
(*   src/src/connection/auth.ts, src/src/auth/connection.ts                *)
(*                                                                         *)
(* A session of the server has a database, a user and the table that its   *)
(* builders read.  A call is served and, later, answered: two calls may be *)
(* answered in the other order, and an answer may be lost.                 *)
(***************************************************************************)
EXTENDS Naturals, Sequences

CONSTANTS
    Tasks,
    MaxOpened,  \* bound: sessions that are opened
    MaxAsked    \* bound: calls that are made

SessionsAssumption == {MaxOpened, MaxAsked} \subseteq Nat

VARIABLES
    websocket,  \* the endpoint is ws:// or wss://
    sessions,   \* the server's sessions, that of the connection first
    own,        \* own[i]: what the calls on session i have asked for
    token,      \* _currentToken: whose it is, None for null
    authType,   \* _authType
    asking,     \* asking[t]: the call of task t
    apart,      \* calls on the manager overlapped, or an answer was lost
    asks

vars == <<websocket, sessions, own, token, authType, asking, apart, asks>>

---------------------------------------------------------------------------
None == "none"
Databases == {"d", "e"}
Session(database, user, open) ==
    [database |-> database, user |-> user, open |-> open]

(* Who signs in, and the keys of the credentials.                          *)
Users == {"root", "namespace", "database", "scope"}
Keys(user) ==
    CASE user = "scope"     -> {"namespace", "database", "access"}
      [] user = "database"  -> {"namespace", "database"}
      [] user = "namespace" -> {"namespace"}
      [] user = "root"      -> {}

(* AuthManager.signin tells the type by the keys.                          *)
AuthTypeOf(keys) ==
    IF "access" \in keys THEN "scope"
    ELSE IF "database" \in keys THEN "database"
    ELSE IF "namespace" \in keys THEN "namespace" ELSE "root"

Quiet == [at |-> "idle", op |-> None, on |-> 1, arg |-> None]

Init ==
    /\ websocket \in BOOLEAN
    /\ sessions = <<Session("d", None, TRUE)>>
    /\ own = sessions
    /\ token = None /\ authType = None
    /\ asking = [t \in Tasks |-> Quiet]
    /\ apart = FALSE
    /\ asks = 0

ManagerOps == {"signup", "signin", "authenticate", "invalidate"}

Ask(t, op, on, arg) ==
    /\ asks < MaxAsked /\ asking[t].at = "idle"
    /\ asks' = asks + 1
    /\ asking' = [asking EXCEPT ![t] = [at |-> "sent", op |-> op, on |-> on,
                                        arg |-> arg]]
    /\ apart' = (\/ apart
                 \/ /\ op \in ManagerOps
                    /\ \E u \in Tasks : asking[u].op \in ManagerOps)
    /\ UNCHANGED <<websocket, sessions, own, token, authType>>

(* The manager's calls on the connection.                                  *)
Signup(t) == Ask(t, "signup", 1, "scope")
Signin(t) == \E u \in Users : Ask(t, "signin", 1, u)
Authenticate(t) == \E u \in {"scope", "database"} : Ask(t, "authenticate", 1, u)
Invalidate(t) == Ask(t, "invalidate", 1, None)

(* newSession throws before it asks when there is no websocket.            *)
NewSession(t) == websocket /\ Ask(t, "newSession", 1, None)

Opened == 2 .. Len(sessions)
Use(t) == \E i \in Opened, d \in Databases \cup {None} : Ask(t, "use", i, d)
SessionSignin(t) == \E i \in Opened : Ask(t, "sessionSignin", i, "database")
ForkSession(t) == \E i \in Opened : Ask(t, "fork", i, None)
CloseSession(t) == \E i \in Opened : Ask(t, "close", i, None)

---------------------------------------------------------------------------
(* What a call makes of the session it is made on; a new one and a fork    *)
(* are sessions of their own.                                              *)
Changed(s, call) ==
    CASE call.op \in {"signup", "signin", "authenticate", "sessionSignin"} ->
           [s EXCEPT !.user = call.arg]
      [] call.op = "invalidate" -> [s EXCEPT !.user = None]
      [] call.op = "use" -> [s EXCEPT !.database = call.arg]
      [] call.op = "close" -> [s EXCEPT !.open = FALSE]
      [] OTHER -> s

(* Session.getConnection, and this.session in its calls.                   *)
GetConnection(call) == call.on

Serve(t) ==
    LET call == asking[t]
        served(all, on) ==
            IF call.op \in {"newSession", "fork"}
            THEN Append(all, IF call.op = "fork" THEN all[on]
                             ELSE Session("d", None, TRUE))
            ELSE [all EXCEPT ![on] = Changed(@, call)]
    IN  /\ call.at = "sent"
        /\ sessions[GetConnection(call)].open
        /\ call.op \in {"newSession", "fork"} => Len(sessions) <= MaxOpened
        /\ sessions' = served(sessions, GetConnection(call))
        /\ own' = served(own, call.on)
        /\ \/ asking' = [asking EXCEPT ![t].at = "served"] /\ UNCHANGED apart
           \/ asking' = [asking EXCEPT ![t] = Quiet] /\ apart' = TRUE
        /\ UNCHANGED <<websocket, token, authType, asks>>

(* The answer of a manager's call: authenticate leaves the type alone.     *)
Answer(t) ==
    LET call == asking[t]
    IN  /\ call.at = "served"
        /\ asking' = [asking EXCEPT ![t] = Quiet]
        /\ token' = CASE call.op = "invalidate" -> None
                      [] call.op \in ManagerOps \ {"invalidate"} -> call.arg
                      [] OTHER -> token
        /\ authType' = CASE call.op \in {"signup", "signin"} -> AuthTypeOf(Keys(call.arg))
                         [] call.op = "invalidate" -> None
                         [] OTHER -> authType
        /\ UNCHANGED <<websocket, sessions, own, apart, asks>>

(* The call is refused, or it never arrives: it throws and changes nothing.*)
Refuse(t) ==
    /\ asking[t].at = "sent"
    /\ asking' = [asking EXCEPT ![t] = Quiet]
    /\ UNCHANGED <<websocket, sessions, own, token, authType, apart, asks>>

Next ==
    \E t \in Tasks :
        \/ Signup(t) \/ Signin(t) \/ Authenticate(t) \/ Invalidate(t)
        \/ NewSession(t) \/ Use(t) \/ SessionSignin(t) \/ ForkSession(t)
        \/ CloseSession(t)
        \/ Serve(t) \/ Answer(t) \/ Refuse(t)

Spec == Init /\ [][Next]_vars

---------------------------------------------------------------------------
(* While its calls do not overlap and no answer is lost, the token that    *)
(* the manager holds is that of the user the connection is signed in as,   *)
(* through sign-ins that fail and sign-ins of other sessions.              *)
TokenIsConnections ==
    /\ ~apart
    /\ \A t \in Tasks : asking[t].op \notin ManagerOps
    => /\ token = sessions[1].user
       /\ token = None => authType = None

(* Each session is as its own calls and the one it was forked from have    *)
(* made it: what is signed in, used or closed on one changes no other.     *)
SessionsApart == sessions = own

(* What makes it so: while nothing overlaps, one task at most is in a call *)
(* of the manager; the token is that of the connection's user until the    *)
(* call is served, and the served call has what the token is to become.    *)
AllSessions ==
    [database: Databases \cup {None}, user: Users \cup {None}, open: BOOLEAN]

Ops == ManagerOps \cup
       {"newSession", "use", "sessionSignin", "fork", "close", None}
Calls == [at: {"idle", "sent", "served"}, op: Ops, on: Nat,
          arg: Users \cup Databases \cup {None}]

AskingInv ==
    /\ asking \in [Tasks -> Calls]
    /\ \A t \in Tasks :
        LET call == asking[t]
        IN  /\ call.at = "idle" => call.op = None
            /\ call.on \in DOMAIN sessions
            /\ call.op \in ManagerOps \ {"invalidate"} => call.arg \in Users
            /\ call.op = "invalidate" => call.arg = None
            /\ call.op = "use" => call.arg \in Databases \cup {None}
            /\ call.op = "sessionSignin" => call.arg = "database"
            /\ call.op \in ManagerOps => call.on = 1
            /\ call.op \in {"use", "sessionSignin", "close"} => call.on # 1

TokenInv ==
    ~apart =>
        /\ \A t, u \in Tasks :
            {asking[t].op, asking[u].op} \subseteq ManagerOps => t = u
        /\ token = None => authType = None
        /\ IF \E t \in Tasks :
                asking[t].op \in ManagerOps /\ asking[t].at = "served"
           THEN \A t \in Tasks :
                asking[t].op \in ManagerOps => asking[t].arg = sessions[1].user
           ELSE token = sessions[1].user

SessionsInv ==
    /\ sessions \in Seq(AllSessions) /\ sessions # <<>>
    /\ SessionsApart
    /\ AskingInv
    /\ TokenInv
=============================================================================
