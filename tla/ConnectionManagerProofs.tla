----------------------- MODULE ConnectionManagerProofs -----------------------
(***************************************************************************)
(* Theorems about ConnectionManager, for any finite set of tasks, and any  *)
(* number of users, handles, failures and expiries.                        *)
(***************************************************************************)
EXTENDS ConnectionManager, FiniteSetTheorems, TLAPS

LEMMA InitManager == Init => ManagerInv
<1>. SUFFICES ASSUME Init PROVE ManagerInv
  OBVIOUS
<1>1. TypeOK
  <2>1. 0 \in 0 .. MaxFaults /\ 0 \in 0 .. MaxExpiries
    BY ManagerAssumption
  <2>. QED
    BY <2>1 DEF Init, TypeOK, Stages, Locations
<1>2. SingleFlight
  BY <1>1 DEF Init, SingleFlight, InFlight, Handles
<1>3. HandlesAsStaged /\ ConnectedMeansDone
  BY DEF Init, HandlesAsStaged, ConnectedMeansDone
<1>4. SoloInv
  BY DEF Init, SoloInv, Solo, AttemptIsAwaited, RequestsUseCurrent,
         SessionIsIdentity, InFlight
<1>. QED
  BY <1>1, <1>2, <1>3, <1>4 DEF ManagerInv, Staged

(* A step keeps the types: one case for each action.                       *)
LEMMA CallTypes ==
    ASSUME TypeOK, NEW t \in callers, UNCHANGED callers,
           Call(t) \/ Close(t) \/ CloseFails(t) \/ Closed(t) \/ ReplyFails(t)
    PROVE  TypeOK'
<1>. USE DEF TypeOK, Locations, Goto, Settle, manager, sockets, calls, bounds
<1>1. CASE Call(t)
  BY <1>1, ManagerAssumption DEF Call
<1>2. CASE Close(t)
  BY <1>2 DEF Close
<1>3. CASE CloseFails(t)
  BY <1>3, ManagerAssumption DEF CloseFails, Fault
<1>4. CASE Closed(t)
  BY <1>4 DEF Closed
<1>5. CASE ReplyFails(t)
  BY <1>5, ManagerAssumption DEF ReplyFails, Loss
<1>. QED
  BY <1>1, <1>2, <1>3, <1>4, <1>5

LEMMA ContinueTypes ==
    ASSUME TypeOK, NEW t \in callers, UNCHANGED callers, Continue(t)
    PROVE  TypeOK'
<1>. USE DEF TypeOK, Locations, Goto, Settle, manager, sockets, calls, bounds
<1>1. CASE UseCurrent(t)
  BY <1>1 DEF UseCurrent, IsReady
<1>2. CASE AwaitPromise(t)
  BY <1>2 DEF AwaitPromise
<1>3. CASE Connect(t)
  BY <1>3 DEF Connect, Unopened, Stages
<1>4. CASE Connected(t)
  BY <1>4 DEF Connected
<1>5. CASE NotConnected(t)
  BY <1>5 DEF NotConnected
<1>6. CASE GetConnection(t)
  BY <1>6 DEF GetConnection
<1>7. CASE ServerActs(t)
  BY <1>7 DEF ServerActs
<1>8. CASE RequestFails(t)
  BY <1>8, ManagerAssumption DEF RequestFails, Fault
<1>9. CASE SetSession(t)
  BY <1>9 DEF SetSession
<1>10. CASE Invalidate(t)
  BY <1>10 DEF Invalidate
<1>11. CASE Closed(t)
  BY <1>11, CallTypes
<1>. QED
  BY <1>1, <1>2, <1>3, <1>4, <1>5, <1>6, <1>7, <1>8, <1>9, <1>10, <1>11
     DEF Continue

LEMMA AttemptTypes ==
    ASSUME TypeOK, NEW h \in Handles, UNCHANGED callers, Attempt(h)
    PROVE  TypeOK'
<1>. USE DEF TypeOK, Stages, manager, sockets, calls, bounds
<1>1. CASE Open(h)
  BY <1>1 DEF Open
<1>2. CASE PerformSignin(h)
  BY <1>2 DEF PerformSignin
<1>3. CASE Use(h)
  BY <1>3 DEF Use
<1>4. CASE ConnectionFails(h)
  BY <1>4, ManagerAssumption DEF ConnectionFails, Fault
<1>. QED
  BY <1>1, <1>2, <1>3, <1>4 DEF Attempt

LEMMA StepTypes ==
    ASSUME TypeOK, Next
    PROVE  TypeOK'
<1>1. CASE \E h \in Handles : Attempt(h)
  BY <1>1, AttemptTypes DEF Next
<1>2. CASE \E t \in callers :
             Call(t) \/ Close(t) \/ ReplyFails(t) \/ CloseFails(t)
  BY <1>2, CallTypes DEF Next
<1>3. CASE \E t \in callers : Continue(t)
  BY <1>3, ContinueTypes DEF Next
<1>4. CASE Expire
  <2>1. expiries \in 0 .. MaxExpiries
    BY DEF TypeOK
  <2>2. expiries < MaxExpiries /\ expiries' = expiries + 1
    BY <1>4 DEF Expire
  <2>3. expiries' \in 0 .. MaxExpiries
    BY <2>1, <2>2, ManagerAssumption
  <2>4. tokenValid' \in BOOLEAN
    BY <1>4 DEF Expire
  <2>. QED
    BY <1>4, <2>3, <2>4 DEF Next, Expire, TypeOK, sockets, calls
<1>. QED
  BY <1>1, <1>2, <1>3, <1>4 DEF Next, Step

(* Of the handles' side only the steps of an attempt, connect, and close() *)
(* change anything.                                                        *)
LEMMA StagedAttempt ==
    ASSUME Staged, TypeOK', NEW h \in Handles, Attempt(h)
    PROVE  Staged'
<1>. USE DEF Staged, SingleFlight, HandlesAsStaged, ConnectedMeansDone,
             InFlight, TypeOK, manager, sockets, Handles
<1>1. CASE Open(h)
  BY <1>1 DEF Open
<1>2. CASE PerformSignin(h)
  BY <1>2 DEF PerformSignin
<1>3. CASE Use(h)
  BY <1>3 DEF Use
<1>4. CASE ConnectionFails(h)
  BY <1>4 DEF ConnectionFails
<1>. QED
  BY <1>1, <1>2, <1>3, <1>4 DEF Attempt

LEMMA StagedConnect ==
    ASSUME Staged, TypeOK', NEW t \in Tasks, Connect(t)
    PROVE  Staged'
<1>. USE DEF Staged, SingleFlight, TypeOK
<1>. DEFINE h == CHOOSE n \in Unopened : TRUE
<1>1. h \in Handles /\ stage[h] = "none"
  BY DEF Connect, Unopened
<1>2. /\ connectionPromise = 0
      /\ connectionPromise' = h
      /\ stage' = [stage EXCEPT ![h] = "connecting"]
      /\ UNCHANGED <<link, used, isConnected>>
  BY DEF Connect, sockets
<1>. HIDE DEF h
<1>3. \A n \in Handles : InFlight(n)' <=> connectionPromise' = n
  BY <1>1, <1>2 DEF InFlight, Handles
<1>4. HandlesAsStaged' /\ ConnectedMeansDone'
  BY <1>1, <1>2 DEF HandlesAsStaged, ConnectedMeansDone
<1>. QED
  BY <1>3, <1>4

LEMMA StagedClose ==
    ASSUME Staged, TypeOK', NEW t \in Tasks,
           Close(t) \/ Closed(t) \/ CloseFails(t)
    PROVE  Staged'
<1>. USE DEF Staged, SingleFlight, HandlesAsStaged, ConnectedMeansDone,
             InFlight, TypeOK, manager, sockets
<1>1. CASE Close(t)
  BY <1>1 DEF Close
<1>2. CASE Closed(t)
  BY <1>2 DEF Closed
<1>3. CASE CloseFails(t)
  BY <1>3 DEF CloseFails
<1>. QED
  BY <1>1, <1>2, <1>3

LEMMA StagedQuiet ==
    ASSUME Staged, TypeOK',
           UNCHANGED <<connectionPromise, isConnected, stage, link, used>>
    PROVE  Staged'
BY DEF Staged, SingleFlight, HandlesAsStaged, ConnectedMeansDone, InFlight

LEMMA StagedContinue ==
    ASSUME Staged, TypeOK', NEW t \in Tasks, Continue(t)
    PROVE  Staged'
<1>. USE DEF manager, sockets
<1>1. CASE UseCurrent(t) \/ AwaitPromise(t) \/ Connected(t) \/ NotConnected(t)
  BY <1>1, StagedQuiet DEF UseCurrent, AwaitPromise, Connected, NotConnected
<1>2. CASE GetConnection(t) \/ ServerActs(t) \/ RequestFails(t)
  BY <1>2, StagedQuiet DEF GetConnection, ServerActs, RequestFails
<1>3. CASE SetSession(t) \/ Invalidate(t)
  BY <1>3, StagedQuiet DEF SetSession, Invalidate
<1>4. CASE Connect(t)
  BY <1>4, StagedConnect
<1>5. CASE Closed(t)
  BY <1>5, StagedClose
<1>. QED
  BY <1>1, <1>2, <1>3, <1>4, <1>5 DEF Continue

LEMMA StagedStep ==
    ASSUME Staged, Next
    PROVE  Staged'
<1>1. TypeOK' /\ callers \subseteq Tasks
  BY StepTypes DEF Staged, SingleFlight, TypeOK
<1>2. CASE \E h \in Handles : Attempt(h)
  BY <1>1, <1>2, StagedAttempt
<1>3. CASE \E t \in callers : Close(t) \/ CloseFails(t)
  BY <1>1, <1>3, StagedClose
<1>4. CASE \E t \in callers : Call(t) \/ ReplyFails(t)
  BY <1>1, <1>4, StagedQuiet DEF Call, ReplyFails, manager, sockets
<1>5. CASE \E t \in callers : Continue(t)
  BY <1>1, <1>5, StagedContinue
<1>6. CASE Expire
  BY <1>1, <1>6, StagedQuiet DEF Expire, sockets
<1>. QED
  BY <1>2, <1>3, <1>4, <1>5, <1>6 DEF Next, Step

(* One task uses the client, no reply of its own was lost and no token has *)
(* expired.  What it waits for is its own attempt, over this.db; and so is *)
(* every request it makes.                                                 *)
LEMMA SoloAttempt ==
    ASSUME ManagerInv, Staged', NEW c \in Tasks, callers = {c},
           losses' = 0, expiries' = 0, NEW h \in Handles, Attempt(h)
    PROVE  Solo(c)'
<1>1. TypeOK /\ InFlight(h)
  BY DEF ManagerInv, Staged, SingleFlight, Attempt, Open, PerformSignin, Use,
         ConnectionFails, InFlight
<1>2. /\ losses = 0 /\ expiries = 0
      /\ UNCHANGED <<db, session, pc, operation, user, handle>>
  BY DEF Attempt, Open, PerformSignin, Use, ConnectionFails, Fault, manager,
         calls, bounds
<1>3. Solo(c)
  BY <1>2 DEF ManagerInv, SoloInv
<1>4. pc[c] = "waiting" /\ handle[c] = h /\ db = h /\ session = "nobody"
  BY <1>1, <1>3 DEF Solo, AttemptIsAwaited
<1>5. \A n \in Handles : n # h => ~InFlight(n) /\ stage'[n] = stage[n]
  BY <1>1, <1>3, <1>4 DEF Solo, AttemptIsAwaited, TypeOK, Attempt, Open,
         PerformSignin, Use, ConnectionFails
<1>6. stage'[h] = "done" => isConnected'
  BY <1>1 DEF TypeOK, Attempt, Open, PerformSignin, Use, ConnectionFails
<1>7. AttemptIsAwaited(c)'
  BY <1>2, <1>4, <1>5, <1>6 DEF AttemptIsAwaited, InFlight
<1>. QED
  BY <1>2, <1>4, <1>7 DEF Solo, RequestsUseCurrent, SessionIsIdentity

LEMMA SoloConnect ==
    ASSUME ManagerInv, Staged', NEW c \in Tasks, callers = {c},
           losses' = 0, expiries' = 0, Connect(c)
    PROVE  Solo(c)'
<1>. DEFINE h == CHOOSE n \in Unopened : TRUE
<1>1. TypeOK /\ h \in Handles
  BY DEF Connect, Unopened, ManagerInv, Staged, SingleFlight
<1>2. /\ losses = 0 /\ expiries = 0
      /\ db' = h
      /\ stage' = [stage EXCEPT ![h] = "connecting"]
      /\ handle' = [handle EXCEPT ![c] = h]
      /\ pc' = [pc EXCEPT ![c] = "waiting"]
      /\ pc[c] = "getting" /\ ~IsReady
      /\ session' = session
  BY DEF Connect, Goto, bounds
<1>. HIDE DEF h
<1>3. Solo(c)
  BY <1>2 DEF ManagerInv, SoloInv
<1>4. session = "nobody"
  BY <1>2, <1>3 DEF Solo, SessionIsIdentity
<1>5. \A n \in Handles : n # h => ~InFlight(n)'
  BY <1>1, <1>2, <1>3 DEF Solo, AttemptIsAwaited, InFlight, TypeOK
<1>6. pc'[c] = "waiting" /\ handle'[c] = h /\ stage'[h] = "connecting"
  BY <1>1, <1>2 DEF TypeOK
<1>7. AttemptIsAwaited(c)'
  BY <1>2, <1>4, <1>5, <1>6 DEF AttemptIsAwaited
<1>. QED
  BY <1>2, <1>4, <1>6, <1>7 DEF Solo, RequestsUseCurrent, SessionIsIdentity

(* The other steps up to the request change neither handles nor sessions.  *)
LEMMA SoloGetting ==
    ASSUME ManagerInv, Staged', NEW c \in Tasks, callers = {c},
           losses' = 0, expiries' = 0,
           \/ Call(c) \/ UseCurrent(c) \/ AwaitPromise(c) \/ Connected(c)
           \/ NotConnected(c) \/ GetConnection(c) \/ RequestFails(c)
           \/ CloseFails(c)
    PROVE  Solo(c)'
<1>1. /\ TypeOK
      /\ \A n \in Handles : InFlight(n) <=> connectionPromise = n
  BY DEF ManagerInv, Staged, SingleFlight
<1>2. /\ losses = 0 /\ expiries = 0
      /\ UNCHANGED <<db, isConnected, tokenValid, session, stage, identity>>
  BY DEF Call, UseCurrent, AwaitPromise, Connected, NotConnected,
         GetConnection, RequestFails, CloseFails, Fault, manager, sockets,
         bounds
<1>3. Solo(c)
  BY <1>2 DEF ManagerInv, SoloInv
<1>. USE DEF Solo, AttemptIsAwaited, RequestsUseCurrent, SessionIsIdentity,
             InFlight, IsReady, TypeOK, Goto, Settle
<1>4. CASE Call(c)
  BY <1>1, <1>2, <1>3, <1>4 DEF Call
<1>5. CASE UseCurrent(c)
  BY <1>1, <1>2, <1>3, <1>5 DEF UseCurrent
<1>6. CASE AwaitPromise(c)
  BY <1>1, <1>3, <1>6 DEF AwaitPromise
<1>7. CASE Connected(c)
  BY <1>1, <1>2, <1>3, <1>7 DEF Connected, calls
<1>8. CASE NotConnected(c)
  BY <1>1, <1>2, <1>3, <1>8 DEF NotConnected
<1>9. CASE GetConnection(c)
  BY <1>1, <1>2, <1>3, <1>9 DEF GetConnection
<1>10. CASE RequestFails(c)
  BY <1>1, <1>2, <1>3, <1>10 DEF RequestFails
<1>11. CASE CloseFails(c)
  BY <1>1, <1>2, <1>3, <1>11 DEF CloseFails
<1>. QED
  BY <1>4, <1>5, <1>6, <1>7, <1>8, <1>9, <1>10, <1>11

(* The server's answer to a request, and what is made of it; close().      *)
LEMMA SoloSession ==
    ASSUME ManagerInv, Staged', NEW c \in Tasks, callers = {c},
           losses' = 0, expiries' = 0,
           \/ ServerActs(c) \/ SetSession(c) \/ Invalidate(c)
           \/ Close(c) \/ Closed(c)
    PROVE  Solo(c)'
<1>1. TypeOK
  BY DEF ManagerInv, Staged, SingleFlight
<1>2. losses = 0 /\ expiries = 0 /\ stage' = stage
  BY DEF ServerActs, SetSession, Invalidate, Close, Closed, bounds
<1>3. Solo(c)
  BY <1>2 DEF ManagerInv, SoloInv
<1>. USE DEF Solo, AttemptIsAwaited, RequestsUseCurrent, SessionIsIdentity,
             InFlight, IsReady, TypeOK, Goto, Settle, manager
<1>4. CASE ServerActs(c)
  BY <1>1, <1>2, <1>3, <1>4 DEF ServerActs, calls
<1>5. CASE SetSession(c)
  BY <1>1, <1>2, <1>3, <1>5 DEF SetSession, sockets, Handles
<1>6. CASE Invalidate(c)
  BY <1>1, <1>2, <1>3, <1>6 DEF Invalidate, sockets
<1>7. CASE Close(c)
  BY <1>1, <1>2, <1>3, <1>7 DEF Close
<1>8. CASE Closed(c)
  BY <1>1, <1>2, <1>3, <1>8 DEF Closed, sockets
<1>. QED
  BY <1>4, <1>5, <1>6, <1>7, <1>8

LEMMA SoloStep ==
    ASSUME ManagerInv, Next
    PROVE  SoloInv'
<1>. SUFFICES ASSUME losses' = 0, expiries' = 0, NEW c \in Tasks, callers' = {c}
              PROVE  Solo(c)'
  BY DEF SoloInv
<1>1. callers = {c} /\ Staged' /\ TypeOK
  BY StagedStep DEF Next, ManagerInv, Staged, SingleFlight
<1>2. CASE \E h \in Handles : Attempt(h)
  BY <1>1, <1>2, SoloAttempt
<1>3. CASE Call(c) \/ CloseFails(c)
  BY <1>1, <1>3, SoloGetting
<1>4. CASE Close(c)
  BY <1>1, <1>4, SoloSession
<1>5. CASE Continue(c)
  BY <1>1, <1>5, SoloConnect, SoloGetting, SoloSession DEF Continue
<1>6. CASE ReplyFails(c)
  BY <1>1, <1>6 DEF ReplyFails, Loss, TypeOK
<1>7. CASE Expire
  BY <1>1, <1>7 DEF Expire, TypeOK
<1>. QED
  BY <1>1, <1>2, <1>3, <1>4, <1>5, <1>6, <1>7 DEF Next, Step

---------------------------------------------------------------------------
(* The inductive invariant.                                                *)
THEOREM ManagerInvariant == Spec => []ManagerInv
<1>1. ManagerInv /\ [Next]_vars => ManagerInv'
  <2>1. CASE ManagerInv /\ Next
    BY <2>1, StagedStep, SoloStep DEF ManagerInv
  <2>2. CASE ManagerInv /\ UNCHANGED vars
    BY <2>2 DEF vars, manager, sockets, calls, bounds, ManagerInv, Staged,
           SingleFlight, TypeOK, HandlesAsStaged, ConnectedMeansDone, SoloInv,
           Solo, AttemptIsAwaited, RequestsUseCurrent, SessionIsIdentity,
           IsReady, InFlight
  <2>. QED
    BY <2>1, <2>2
<1>. QED
  BY <1>1, InitManager, PTL DEF Spec

(* Only one connection is ever being made, the one connectionPromise is    *)
(* about, however many tasks call connect() at once.                       *)
THEOREM OneAttemptAtATime == Spec => []SingleFlight
<1>1. ManagerInv => SingleFlight
  BY DEF ManagerInv, Staged
<1>. QED
  BY <1>1, ManagerInvariant, PTL

(* isAuthenticated() tells the truth of a client that one task uses, as    *)
(* long as no reply is lost and no token expires.                          *)
THEOREM AuthenticatedIsTrue == Spec => []AuthenticatedUntilExpiry
<1>1. ManagerInv => AuthenticatedUntilExpiry
  <2>. SUFFICES ASSUME ManagerInv, Cardinality(callers) = 1, losses = 0,
                       expiries = 0, Busy = {}, session # "nobody"
                PROVE  db # 0 /\ identity[db] = session
    BY DEF AuthenticatedUntilExpiry, isAuthenticated
  <2>1. IsFiniteSet(callers) /\ callers \subseteq Tasks
    BY ManagerAssumption, FS_Subset DEF ManagerInv, Staged, SingleFlight, TypeOK
  <2>2. PICK c : callers = {c}
    BY <2>1, FS_Singleton
  <2>3. c \in Tasks /\ Solo(c)
    BY <2>1, <2>2 DEF ManagerInv, SoloInv
  <2>4. pc[c] # "reply"
    BY <2>3 DEF Busy
  <2>. QED
    BY <2>3, <2>4 DEF Solo, SessionIsIdentity, IsReady
<1>. QED
  BY <1>1, ManagerInvariant, PTL

(* Whatever handle getConnection hands out is connected and has its        *)
(* database, as long as none was replaced or closed.                       *)
THEOREM HandlesAreUsable == Spec => HandedOutUsable
<1>. DEFINE A ==
       \A t \in Tasks :
         /\ pc[t] # "request" /\ pc'[t] = "request"
         /\ \A h \in Handles : link[h] # "closed"
         /\ \A h \in Handles : used[h] => h = handle'[t]
         => link[handle'[t]] = "open" /\ used[handle'[t]]
<1>1. ManagerInv /\ [Next]_vars => [A]_vars
  <2>. SUFFICES ASSUME ManagerInv, Next, NEW t \in Tasks,
                       pc[t] # "request", pc'[t] = "request",
                       \A h \in Handles : link[h] # "closed",
                       \A h \in Handles : used[h] => h = handle'[t]
                PROVE  link[handle'[t]] = "open" /\ used[handle'[t]]
    OBVIOUS
  <2>1. TypeOK /\ HandlesAsStaged /\ ConnectedMeansDone
    BY DEF ManagerInv, Staged, SingleFlight
  <2>2. UseCurrent(t) \/ Connected(t)
    BY <2>1 DEF Next, Step, Continue, Attempt, Open, PerformSignin, Use,
           ConnectionFails, Call, Close, ReplyFails, CloseFails, UseCurrent,
           AwaitPromise, Connect, Connected, NotConnected, GetConnection,
           ServerActs, RequestFails, SetSession, Invalidate, Closed, Expire,
           Goto, Settle, TypeOK
  <2>3. CASE UseCurrent(t)
    <3>1. isConnected
      BY <2>3 DEF UseCurrent, IsReady
    <3>2. PICK h \in Handles : used[h]
      BY <2>1, <3>1 DEF ConnectedMeansDone, HandlesAsStaged
    <3>. QED
      BY <2>1, <3>2 DEF HandlesAsStaged, TypeOK
  <2>4. CASE Connected(t)
    <3>1. handle'[t] \in Handles /\ stage[handle'[t]] = "done"
      BY <2>1, <2>4 DEF Connected, calls, TypeOK
    <3>. QED
      BY <2>1, <3>1 DEF HandlesAsStaged, TypeOK
  <2>. QED
    BY <2>2, <2>3, <2>4
<1>. QED
  BY <1>1, ManagerInvariant, PTL DEF Spec, HandedOutUsable
==============================================================================
