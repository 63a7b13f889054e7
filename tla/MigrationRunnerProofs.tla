----------------------- MODULE MigrationRunnerProofs -----------------------
(***************************************************************************)
(* Theorems about MigrationRunner, for every set of versions, of runners   *)
(* and of statements, and any number of faults: of runners that only go    *)
(* up, and then of one that goes up and down.                              *)
(***************************************************************************)
EXTENDS MigrationRunner, FiniteSetTheorems, SequenceTheorems,
        TLAPS

(* A plan holds versions of the directory only, so every call's does.      *)
LEMMA PlanType ==
    ASSUME NEW d, NEW recorded, NEW t, NEW n
    PROVE  Plan(d, recorded, t, n) \subseteq Versions
BY DEF Plan, FirstSteps, Selected

(* Type correctness: pc, the plan, and the migration being executed stay   *)
(* in their domains, and the bound on faults is kept.                      *)
THEOREM TypeCorrect == Spec => []TypeOK
<1>1. Init => TypeOK
  BY RunnersAssumption
     DEF Init, TypeOK, Locations, Resting, Directions
<1>2. TypeOK /\ [Next]_vars => TypeOK'
  <2> SUFFICES ASSUME TypeOK, [Next]_vars
               PROVE  TypeOK'
    OBVIOUS
  <2> USE RunnersAssumption
      DEF TypeOK, Locations, Resting, Goto, database, call, loop
  <2>1. ASSUME NEW r \in Runners, Invoke(r)
        PROVE  TypeOK'
    BY <2>1 DEF Invoke
  <2>2. ASSUME NEW r \in Runners, EnsureMigrationTable(r)
        PROVE  TypeOK'
    BY <2>2 DEF EnsureMigrationTable
  <2>3. ASSUME NEW r \in Runners, GetAppliedVersions(r)
        PROVE  TypeOK'
    BY <2>3, PlanType DEF GetAppliedVersions
  <2>4. ASSUME NEW r \in Runners, Confirm(r) \/ Decline(r) \/ Return(r)
        PROVE  TypeOK'
    BY <2>4 DEF Confirm, Decline, Return
  <2>5. ASSUME NEW r \in Runners, ExecuteMigration(r)
        PROVE  TypeOK'
    BY <2>5 DEF ExecuteMigration, Foremost
  <2>6. ASSUME NEW r \in Runners, ExecuteStatement(r)
        PROVE  TypeOK'
    <3>1. cur[r] \in Versions /\ at[r] \in Nat \ {0}
      BY <2>6 DEF ExecuteStatement
    <3>2. Query(r) \in Script
      BY <3>1, FilesAssumption DEF Query, Sql, LoadMigration, Script
    <3>3. Query(r)[at[r]] \in Statement
      BY <3>1, <3>2, <2>6 DEF ExecuteStatement, Script
    <3>4. schema' \subseteq Objects
      BY <3>3, <2>6 DEF ExecuteStatement, Execute, Statement
    <3>5. at' \in [Runners -> Nat \ {0}]
      <4>1. at' = [at EXCEPT ![r] = at[r] + 1]
        BY <2>6 DEF ExecuteStatement
      <4>2. at[r] + 1 \in Nat \ {0}
        BY <3>1
      <4> QED
        BY <4>1, <4>2
    <3>7. refused' \in [Runners -> BOOLEAN]
      BY <2>6 DEF ExecuteStatement
    <3>6. UNCHANGED <<history, pc, direction, target, steps, todo, cur,
                      results, faults>>
      BY <2>6 DEF ExecuteStatement
    <3> QED
      BY <3>4, <3>5, <3>6, <3>7
  <2>7. ASSUME NEW r \in Runners, StatementFault(r)
        PROVE  TypeOK'
    BY <2>7 DEF StatementFault, Fault
  <2>8. ASSUME NEW r \in Runners, QueryReply(r)
        PROVE  TypeOK'
    BY <2>8 DEF QueryReply
  <2>9. ASSUME NEW r \in Runners, RecordMigration(r)
        PROVE  TypeOK'
    BY <2>9 DEF RecordMigration, WriteRecord
  <2>10. ASSUME NEW r \in Runners, RecordRefused(r)
         PROVE  TypeOK'
    BY <2>10 DEF RecordRefused
  <2>11. ASSUME NEW r \in Runners, RecordReplyLost(r)
         PROVE  TypeOK'
    BY <2>11 DEF RecordReplyLost, WriteRecord, Fault
  <2>12. ASSUME NEW r \in Runners, RequestFault(r) \/ Crash(r)
         PROVE  TypeOK'
    BY <2>12 DEF RequestFault, Crash, Fault
  <2>13. CASE UNCHANGED vars
    BY <2>13 DEF vars
  <2> QED
    BY <2>1, <2>2, <2>3, <2>4, <2>5, <2>6, <2>7, <2>8, <2>9, <2>10, <2>11,
       <2>12, <2>13 DEF Next, Progress, Failure
<1> QED
  BY <1>1, <1>2, PTL DEF Spec

---------------------------------------------------------------------------
(* The plan of an upward call skips no version below one it contains.      *)
LEMMA PlanSkipsNothing ==
    ASSUME NEW recorded \in SUBSET Versions, NEW t \in Nat, NEW n \in Nat,
           NEW v \in Plan("UP", recorded, t, n),
           NEW w \in Versions, w < v
    PROVE  w \in recorded \cup Plan("UP", recorded, t, n)
<1> SUFFICES ASSUME w \notin recorded
             PROVE  w \in Plan("UP", recorded, t, n)
  OBVIOUS
<1> DEFINE S == Selected("UP", recorded, t)
           Below(x) == {y \in S : Precedes("UP", y, x)}
<1>1. /\ v \in S
      /\ Cardinality(Below(v)) < n
  BY DEF Plan, FirstSteps
<1>2. v \in Nat /\ w \in Nat /\ S \subseteq Nat
  BY <1>1, VersionsAssumption DEF Selected
<1>3. w \in S
  BY <1>1, <1>2 DEF Selected
<1>4. Below(w) \subseteq Below(v)
  BY <1>2 DEF Precedes
<1>5. IsFiniteSet(Below(v))
  BY VersionsAssumption, FS_Subset DEF Selected
<1>6. /\ Cardinality(Below(w)) <= Cardinality(Below(v))
      /\ Cardinality(Below(w)) \in Nat /\ Cardinality(Below(v)) \in Nat
  BY <1>4, <1>5, FS_Subset, FS_CardinalityType
<1>7. Cardinality(Below(w)) < n
  BY <1>1, <1>6
<1> QED
  BY <1>3, <1>7 DEF Plan, FirstSteps

(* A call without a step limit plans every pending version it was asked    *)
(* for.                                                                    *)
LEMMA PlanLeavesNothing ==
    ASSUME NEW recorded \in SUBSET Versions, NEW t \in Nat, NEW n \in Nat,
           n >= NoLimit,
           NEW v \in Versions, t = 0 \/ v <= t
    PROVE  v \in recorded \cup Plan("UP", recorded, t, n)
<1> SUFFICES ASSUME v \notin recorded
             PROVE  v \in Plan("UP", recorded, t, n)
  OBVIOUS
<1> DEFINE S == Selected("UP", recorded, t)
           Below == {y \in S : Precedes("UP", y, v)}
<1>1. v \in S
  BY DEF Selected
<1>2. Below \subseteq Versions /\ v \notin Below
  BY VersionsAssumption DEF Selected, Precedes
<1>3. /\ IsFiniteSet(Versions)
      /\ NoLimit \in Nat
  BY VersionsAssumption, FS_CardinalityType DEF NoLimit
<1>4. /\ IsFiniteSet(Below)
      /\ Cardinality(Below) <= NoLimit
      /\ Cardinality(Below) # NoLimit
  BY <1>2, <1>3, FS_Subset DEF NoLimit
<1>5. Cardinality(Below) \in Nat
  BY <1>4, FS_CardinalityType
<1>6. Cardinality(Below) < n
  BY <1>3, <1>4, <1>5
<1> QED
  BY <1>1, <1>6 DEF Plan, FirstSteps

(* The front of a concatenation.                                           *)
LEMMA ConcatFront ==
    ASSUME NEW S, NEW s \in Seq(S), NEW t \in Seq(S), NEW i \in DOMAIN s
    PROVE  i \in DOMAIN (s \o t) /\ (s \o t)[i] = s[i]
<1>1. /\ s \o t \in Seq(S)
      /\ Len(s \o t) = Len(s) + Len(t)
      /\ \A j \in 1 .. Len(s) + Len(t) :
            (s \o t)[j] = IF j <= Len(s) THEN s[j] ELSE t[j - Len(s)]
  BY ConcatProperties
<1>2. /\ DOMAIN s = 1 .. Len(s) /\ Len(s) \in Nat /\ Len(t) \in Nat
      /\ DOMAIN (s \o t) = 1 .. Len(s \o t)
  BY <1>1, LenProperties
<1>3. i \in 1 .. Len(s) + Len(t) /\ i <= Len(s)
  BY <1>2
<1> QED
  BY <1>1, <1>2, <1>3

(* All that the UP section of a file defines, its up() defines.            *)
LEMMA UpDefines ==
    ASSUME NEW v \in Versions, NEW o \in Defines(v)
    PROVE  \E i \in DOMAIN Sql("UP", v) : Sql("UP", v)[i].obj = o
<1>1. PICK i \in DOMAIN Section[v].up : Section[v].up[i].obj = o
  BY DEF Defines
<1>2. Section[v].up \in Script /\ Section[v].down \in Script
  BY FilesAssumption
<1>3. CASE Format[v] = "surql"
  <2>1. Sql("UP", v) = Section[v].up \o Section[v].down
    BY <1>3 DEF Sql, LoadMigration
  <2>2. /\ i \in DOMAIN (Section[v].up \o Section[v].down)
        /\ (Section[v].up \o Section[v].down)[i] = Section[v].up[i]
    BY <1>1, <1>2, ConcatFront DEF Script
  <2> QED
    BY <1>1, <2>1, <2>2
<1>4. CASE Format[v] # "surql"
  BY <1>1, <1>4 DEF Sql, LoadMigration
<1> QED
  BY <1>3, <1>4

---------------------------------------------------------------------------
(* Commands that only go up, of migrations that only add.                  *)

(* The steps that only move pc, to a place outside of the loop or without  *)
(* a migration to record, keep the invariant.                              *)
LEMMA PcStep ==
    ASSUME TypeOK, UpInv, NEW r \in Runners, NEW l \in Locations,
           Goto(r, l),
           UNCHANGED <<database, call, loop>>,
           \/ l \in {"idle", "failed", "read"}
           \/ l = "next" /\ pc[r] = "confirm"
           \/ l = "record" /\ pc[r] = "sql" /\ at[r] > Len(Query(r))
              /\ ~refused[r]
           \/ l = "done" /\ pc[r] = "next" /\ todo[r] = {}
    PROVE  UpInv'
<1> USE DEF Goto, database, call, loop, TypeOK
<1>1. GoesUp' /\ RecordedInEffect' /\ NoGaps' /\ ReportsSound'
  BY DEF UpInv, GoesUp, RecordedInEffect, InEffect, NoGaps, ReportsSound
<1>2. \A q \in Runners : Query(q)' = Query(q)
  BY DEF Query
<1>3. \A q \in Runners : pc'[q] = IF q = r THEN l ELSE pc[q]
  OBVIOUS
<1>4. ExecutedInEffect'
  BY <1>2, <1>3 DEF UpInv, ExecutedInEffect, Executing
<1>5. \A q \in Runners : /\ Planned(q)' => Planned(q)
                         /\ Planned(q)' => Pending(q)' = Pending(q)
                         /\ Executing(q)' => Executing(q)
  BY <1>3 DEF Planned, Pending, Executing
<1>6. PlanHasNoGaps'
  BY <1>5 DEF UpInv, PlanHasNoGaps, Planned, Executing
<1>7. PlanIsComplete'
  <2> SUFFICES ASSUME NEW q \in Runners, (steps[q] >= NoLimit)',
                      NEW v \in Versions, Asked(q, v)'
               PROVE  /\ Planned(q)' => v \in history \cup Pending(q)'
                      /\ pc'[q] = "done" => v \in history
    BY DEF PlanIsComplete, NoLimit
  <2>1. steps[q] >= NoLimit /\ Asked(q, v)
    BY DEF NoLimit, Asked
  <2>2. /\ Planned(q) => v \in history \cup Pending(q)
        /\ pc[q] = "done" => v \in history
    BY <2>1 DEF UpInv, PlanIsComplete
  <2>3. pc'[q] = "done" /\ pc[q] # "done" => Planned(q) /\ Pending(q) = {}
    BY <1>3 DEF Planned, Pending, Executing
  <2> QED
    BY <1>5, <2>2, <2>3
<1> QED
  BY <1>1, <1>4, <1>6, <1>7 DEF UpInv

(* A plan made of the recorded versions.                                   *)
LEMMA GetAppliedVersionsStep ==
    ASSUME TypeOK, UpInv, NEW r \in Runners, GetAppliedVersions(r)
    PROVE  UpInv'
<1> USE DEF Goto, database, call, TypeOK, GetAppliedVersions
<1> DEFINE plan == Plan("UP", history, target[r], steps[r])
<1>1. GoesUp' /\ RecordedInEffect' /\ NoGaps' /\ ReportsSound'
  BY DEF UpInv, GoesUp, RecordedInEffect, InEffect, NoGaps, ReportsSound
<1>2. \A q \in Runners :
        /\ Query(q)' = Query(q)
        /\ pc'[q] = IF q = r THEN "confirm" ELSE pc[q]
        /\ Executing(q)' <=> Executing(q) /\ q # r
  BY DEF Query, Executing
<1>3. ExecutedInEffect'
  BY <1>2 DEF UpInv, ExecutedInEffect, Executing
<1>4. Pending(r)' = plan
  BY <1>2 DEF Pending, UpInv, GoesUp
<1>5. \A q \in Runners \ {r} : /\ Planned(q)' <=> Planned(q)
                               /\ Pending(q)' = Pending(q)
                               /\ todo'[q] = todo[q]
  BY <1>2 DEF Planned, Pending
<1>6. PlanHasNoGaps'
  <2> SUFFICES ASSUME NEW q \in Runners, Planned(q)'
               PROVE  /\ \A v \in Pending(q)', w \in Versions :
                             w < v => w \in history \cup Pending(q)'
                      /\ Executing(q)' => \A v \in todo'[q] : cur[q] < v
    BY DEF PlanHasNoGaps
  <2>1. CASE q = r
    <3>1. \A v \in plan, w \in Versions : w < v => w \in history \cup plan
      BY PlanSkipsNothing
    <3> QED
      BY <1>2, <1>4, <2>1, <3>1
  <2>2. CASE q # r
    BY <1>2, <1>5, <2>2 DEF UpInv, PlanHasNoGaps
  <2> QED
    BY <2>1, <2>2
<1>7. PlanIsComplete'
  <2> SUFFICES ASSUME NEW q \in Runners, steps[q] >= NoLimit,
                      NEW v \in Versions, Asked(q, v)
               PROVE  /\ Planned(q)' => v \in history \cup Pending(q)'
                      /\ pc'[q] = "done" => v \in history
    BY DEF PlanIsComplete, NoLimit, Asked
  <2>1. CASE q = r
    BY <1>2, <1>4, <2>1, PlanLeavesNothing DEF Asked
  <2>2. CASE q # r
    BY <1>2, <1>5, <2>2 DEF UpInv, PlanIsComplete
  <2> QED
    BY <2>1, <2>2
<1> QED
  BY <1>1, <1>3, <1>6, <1>7 DEF UpInv

(* The foremost version moves from the plan to cur.                        *)
LEMMA ExecuteMigrationStep ==
    ASSUME TypeOK, UpInv, NEW r \in Runners, ExecuteMigration(r)
    PROVE  UpInv'
<1> USE DEF Goto, database, call, TypeOK, ExecuteMigration
<1>1. GoesUp' /\ RecordedInEffect' /\ NoGaps' /\ ReportsSound'
  BY DEF UpInv, GoesUp, RecordedInEffect, InEffect, NoGaps, ReportsSound
<1>2. PICK m \in todo[r] :
        /\ Foremost("UP", m, todo[r])
        /\ cur' = [cur EXCEPT ![r] = m]
        /\ todo' = [todo EXCEPT ![r] = @ \ {m}]
  BY DEF UpInv, GoesUp
<1>3. \A q \in Runners :
        pc'[q] = IF q = r THEN "sql" ELSE pc[q]
  OBVIOUS
<1>4. ExecutedInEffect'
  <2> SUFFICES ASSUME NEW q \in Runners, Executing(q)'
               PROVE  /\ ~refused'[q] => \A i \in DOMAIN Query(q)' :
                             i < at'[q] => Query(q)'[i].obj \in schema
                      /\ pc'[q] = "record" => ~refused'[q]
                                             /\ at'[q] > Len(Query(q)')
    BY DEF ExecutedInEffect
  <2>1. CASE q = r
    <3>1. Query(r)' \in Seq(Statement)
      BY <1>2, FilesAssumption DEF Query, Sql, LoadMigration, Script
    <3>2. DOMAIN Query(r)' \subseteq Nat \ {0}
      BY <3>1
    <3> QED
      BY <1>3, <2>1, <3>2
  <2>2. CASE q # r
    BY <1>2, <1>3, <2>2 DEF UpInv, ExecutedInEffect, Executing, Query
  <2> QED
    BY <2>1, <2>2
<1>5. \A q \in Runners : /\ Planned(q)' => Planned(q)
                         /\ Pending(q)' = Pending(q)
                         /\ q # r => (Executing(q)' <=> Executing(q))
  BY <1>2, <1>3 DEF Planned, Pending, Executing
<1>6. PlanHasNoGaps'
  <2>1. \A v \in todo'[r] : cur'[r] < v
    BY <1>2 DEF Foremost, Precedes
  <2> QED
    BY <1>2, <1>5, <2>1 DEF UpInv, PlanHasNoGaps
<1>7. PlanIsComplete'
  BY <1>3, <1>5 DEF UpInv, PlanIsComplete, NoLimit, Asked
<1> QED
  BY <1>1, <1>4, <1>6, <1>7 DEF UpInv

(* A statement of an additive query is refused, or its object is in effect *)
(* ever after.                                                             *)
LEMMA ExecuteStatementStep ==
    ASSUME Additive, TypeOK, UpInv, NEW r \in Runners, ExecuteStatement(r)
    PROVE  UpInv'
<1> USE DEF TypeOK, ExecuteStatement, call
<1> DEFINE s == Query(r)[at[r]]
<1>1. GoesUp' /\ NoGaps' /\ ReportsSound'
  BY DEF UpInv, GoesUp, NoGaps, ReportsSound
<1>2. cur[r] \in Versions /\ Query(r) = Sql("UP", cur[r])
  BY DEF UpInv, GoesUp, Query
<1>3. Query(r) \in Seq(Statement)
  BY <1>2, FilesAssumption DEF Sql, LoadMigration, Script
<1>4. at[r] \in DOMAIN Query(r)
  BY <1>3
<1>5. s.op = "DEFINE"
  BY <1>2, <1>4 DEF Additive
<1>6. /\ schema \subseteq schema'
      /\ ~refused'[r] => s.obj \in schema' /\ ~refused[r]
  BY <1>5 DEF Execute
<1>7. RecordedInEffect'
  BY <1>6 DEF UpInv, RecordedInEffect, InEffect
<1>8. \A q \in Runners : Query(q)' = Query(q)
  BY DEF Query
<1>9. ExecutedInEffect'
  <2> SUFFICES ASSUME NEW q \in Runners, Executing(q)
               PROVE  /\ ~refused'[q] => \A i \in DOMAIN Query(q) :
                             i < at'[q] => Query(q)[i].obj \in schema'
                      /\ pc[q] = "record" => ~refused'[q]
                                            /\ at'[q] > Len(Query(q))
    BY <1>8 DEF ExecutedInEffect, Executing
  <2>1. CASE q = r
    <3>1. at'[r] = at[r] + 1 /\ at[r] \in Nat /\ pc[r] # "record"
      OBVIOUS
    <3>2. SUFFICES ASSUME ~refused'[r], NEW i \in DOMAIN Query(r),
                          i < at[r] + 1
                   PROVE  Query(r)[i].obj \in schema'
      BY <2>1, <3>1
    <3>3. i < at[r] \/ i = at[r]
      BY <1>3, <3>1, <3>2
    <3>4. \A j \in DOMAIN Query(r) :
              j < at[r] => Query(r)[j].obj \in schema
      BY <1>6, <2>1, <3>2 DEF UpInv, ExecutedInEffect
    <3> QED
      BY <1>6, <3>2, <3>3, <3>4
  <2>2. CASE q # r
    <3>1. refused'[q] = refused[q] /\ at'[q] = at[q]
      BY <2>2
    <3> QED
      BY <1>6, <3>1 DEF UpInv, ExecutedInEffect
  <2> QED
    BY <2>1, <2>2
<1>10. \A q \in Runners : /\ Planned(q)' <=> Planned(q)
                          /\ Executing(q)' <=> Executing(q)
                          /\ Pending(q)' = Pending(q)
  BY DEF Planned, Executing, Pending
<1>11. PlanHasNoGaps'
  BY <1>10 DEF UpInv, PlanHasNoGaps
<1>12. PlanIsComplete'
  BY <1>10 DEF UpInv, PlanIsComplete, NoLimit, Asked
<1> QED
  BY <1>1, <1>7, <1>9, <1>11, <1>12 DEF UpInv

(* A statement that fails leaves the rest of the query unrecordable.       *)
LEMMA StatementFaultStep ==
    ASSUME TypeOK, UpInv, NEW r \in Runners, StatementFault(r)
    PROVE  UpInv'
<1> USE DEF TypeOK, StatementFault, call, database
<1>1. GoesUp' /\ RecordedInEffect' /\ NoGaps' /\ ReportsSound'
  BY DEF UpInv, GoesUp, RecordedInEffect, InEffect, NoGaps, ReportsSound
<1>2. \A q \in Runners : Query(q)' = Query(q)
  BY DEF Query
<1>3. ExecutedInEffect'
  BY <1>2 DEF UpInv, ExecutedInEffect, Executing
<1>4. \A q \in Runners : /\ Planned(q)' <=> Planned(q)
                         /\ Executing(q)' <=> Executing(q)
                         /\ Pending(q)' = Pending(q)
  BY DEF Planned, Executing, Pending
<1>5. PlanHasNoGaps' /\ PlanIsComplete'
  BY <1>4 DEF UpInv, PlanHasNoGaps, PlanIsComplete, NoLimit, Asked
<1> QED
  BY <1>1, <1>3, <1>5 DEF UpInv

(* A new call goes up, has reported nothing, and has no plan yet.          *)
LEMMA InvokeStep ==
    ASSUME UpOnly, TypeOK, UpInv, NEW r \in Runners, Invoke(r)
    PROVE  UpInv'
<1> USE DEF TypeOK, Invoke, Goto, database
<1>1. GoesUp'
  BY DEF UpInv, GoesUp, UpOnly
<1>2. RecordedInEffect' /\ NoGaps' /\ ReportsSound'
  BY DEF UpInv, RecordedInEffect, InEffect, NoGaps, ReportsSound
<1>3. \A q \in Runners :
        /\ pc'[q] = IF q = r THEN "ensure" ELSE pc[q]
        /\ q # r => /\ todo'[q] = todo[q] /\ cur'[q] = cur[q]
                    /\ at'[q] = at[q] /\ refused'[q] = refused[q]
                    /\ direction'[q] = direction[q]
                    /\ target'[q] = target[q] /\ steps'[q] = steps[q]
  OBVIOUS
<1>4. ExecutedInEffect'
  BY <1>3 DEF UpInv, ExecutedInEffect, Executing, Query
<1>5. \A q \in Runners :
        /\ Planned(q)' <=> Planned(q) /\ q # r
        /\ Executing(q)' <=> Executing(q) /\ q # r
        /\ q # r => Pending(q)' = Pending(q)
  BY <1>3 DEF Planned, Executing, Pending
<1>6. PlanHasNoGaps'
  BY <1>3, <1>5 DEF UpInv, PlanHasNoGaps
<1>7. PlanIsComplete'
  BY <1>3, <1>5 DEF UpInv, PlanIsComplete, NoLimit, Asked
<1> QED
  BY <1>1, <1>2, <1>4, <1>6, <1>7 DEF UpInv

(* A version is recorded: the server wrote the record, whether or not the  *)
(* reply arrives.                                                          *)
LEMMA WriteRecordStep ==
    ASSUME TypeOK, UpInv, NEW r \in Runners,
           RecordMigration(r) \/ RecordReplyLost(r)
    PROVE  UpInv'
<1> USE DEF TypeOK, RecordMigration, RecordReplyLost, WriteRecord, Goto, call,
            loop
<1> DEFINE v == cur[r]
<1>1. /\ pc[r] = "record" /\ v \in Versions /\ v \notin history
      /\ history' = history \cup {v}
      /\ UNCHANGED <<schema, direction, target, steps, todo, cur, at, refused>>
  BY DEF UpInv, GoesUp, Duplicate
<1>2. \A q \in Runners :
        /\ q # r => pc'[q] = pc[q]
        /\ pc'[r] \in {"next", "failed"}
        /\ Query(q)' = Query(q)
  BY <1>1 DEF Query
<1>3. GoesUp'
  BY <1>1 DEF UpInv, GoesUp
<1>4. RecordedInEffect'
  <2>1. Query(r) = Sql("UP", v) /\ Query(r) \in Seq(Statement)
    BY <1>1, FilesAssumption
       DEF UpInv, GoesUp, Query, Sql, LoadMigration, Script
  <2>2. \A i \in DOMAIN Query(r) : Query(r)[i].obj \in schema
    <3>1. ~refused[r] /\ at[r] > Len(Query(r))
      BY <1>1 DEF UpInv, ExecutedInEffect, Executing
    <3>2. DOMAIN Query(r) = 1 .. Len(Query(r)) /\ Len(Query(r)) \in Nat
      BY <2>1
    <3>3. \A i \in DOMAIN Query(r) : i < at[r]
      BY <3>1, <3>2
    <3> QED
      BY <1>1, <3>1, <3>3 DEF UpInv, ExecutedInEffect, Executing
  <2>3. Defines(v) \subseteq schema
    <3> SUFFICES ASSUME NEW o \in Defines(v)
                 PROVE  o \in schema
      OBVIOUS
    <3>1. PICK i \in DOMAIN Sql("UP", v) : Sql("UP", v)[i].obj = o
      BY <1>1, UpDefines
    <3> QED
      BY <2>1, <2>2, <3>1
  <2> QED
    BY <1>1, <2>3 DEF UpInv, RecordedInEffect, InEffect
<1>5. ExecutedInEffect'
  BY <1>1, <1>2 DEF UpInv, ExecutedInEffect, Executing
<1>6. v \in Pending(r) /\ Planned(r) /\ Executing(r) /\ Pending(r)' = todo[r]
  BY <1>1, <1>2 DEF Pending, Planned, Executing
<1>7. \A u \in Versions : u < v => u \in history
  <2>1. \A u \in todo[r] : v < u
    BY <1>6 DEF UpInv, PlanHasNoGaps
  <2>2. \A u \in Versions : u < v => u \in history \cup Pending(r)
    BY <1>1, <1>6 DEF UpInv, PlanHasNoGaps
  <2>3. \A u \in Pending(r) : u = v \/ u \in todo[r]
    BY <1>6 DEF Pending
  <2> SUFFICES ASSUME NEW u \in Versions, u < v
               PROVE  u \in history
    OBVIOUS
  <2>4. u \in Nat /\ v \in Nat
    BY <1>1, VersionsAssumption
  <2>5. u # v /\ ~(v < u)
    BY <2>4
  <2> QED
    BY <2>1, <2>2, <2>3, <2>5
<1>8. NoGaps'
  BY <1>1, <1>7 DEF UpInv, NoGaps
<1>9. \A q \in Runners :
        /\ Planned(q)' => Planned(q)
        /\ Executing(q)' <=> Executing(q) /\ q # r
        /\ history \cup Pending(q) \subseteq history' \cup Pending(q)'
        /\ Pending(q)' \subseteq Pending(q)
  BY <1>1, <1>2 DEF Planned, Executing, Pending
<1>10. PlanHasNoGaps'
  <2> SUFFICES ASSUME NEW q \in Runners, Planned(q)'
               PROVE  /\ \A u \in Pending(q)', w \in Versions :
                             w < u => w \in history' \cup Pending(q)'
                      /\ Executing(q)' => \A u \in todo[q] : cur[q] < u
    BY <1>1 DEF PlanHasNoGaps
  <2> QED
    BY <1>9 DEF UpInv, PlanHasNoGaps
<1>11. PlanIsComplete'
  <2> SUFFICES ASSUME NEW q \in Runners, steps[q] >= NoLimit,
                      NEW u \in Versions, Asked(q, u)
               PROVE  /\ Planned(q)' => u \in history' \cup Pending(q)'
                      /\ pc'[q] = "done" => u \in history'
    BY <1>1 DEF PlanIsComplete, NoLimit, Asked
  <2>1. /\ Planned(q) => u \in history \cup Pending(q)
        /\ pc[q] = "done" => u \in history
    BY DEF UpInv, PlanIsComplete
  <2> QED
    BY <1>1, <1>2, <1>9, <2>1
<1>12. ReportsSound'
  <2>1. \A q \in Runners : v \notin results[q]
    BY <1>1 DEF UpInv, ReportsSound
  <2>2. \A q \in Runners :
          /\ q # r => results'[q] = results[q]
          /\ results'[r] \in {results[r], results[r] \cup {v}}
    OBVIOUS
  <2> QED
    BY <1>1, <2>1, <2>2 DEF UpInv, ReportsSound
<1> QED
  BY <1>3, <1>4, <1>5, <1>8, <1>10, <1>11, <1>12 DEF UpInv

(* Every step keeps the invariant: one step of the proof per action.       *)
LEMMA UpInvStep ==
    ASSUME UpOnly, Additive, TypeOK, TypeOK', UpInv, [Next]_vars
    PROVE  UpInv'
<1> USE DEF database, call, loop
<1>1. ASSUME NEW r \in Runners, Invoke(r)
      PROVE  UpInv'
  BY <1>1, InvokeStep
<1>2. ASSUME NEW r \in Runners, EnsureMigrationTable(r)
      PROVE  UpInv'
  BY <1>2, PcStep DEF EnsureMigrationTable, Locations
<1>3. ASSUME NEW r \in Runners, GetAppliedVersions(r)
      PROVE  UpInv'
  BY <1>3, GetAppliedVersionsStep
<1>4. ASSUME NEW r \in Runners, Confirm(r)
      PROVE  UpInv'
  BY <1>4, PcStep DEF Confirm, Locations
<1>5. ASSUME NEW r \in Runners, Decline(r)
      PROVE  UpInv'
  BY <1>5, PcStep DEF Decline, Locations, Resting
<1>6. ASSUME NEW r \in Runners, ExecuteMigration(r)
      PROVE  UpInv'
  BY <1>6, ExecuteMigrationStep
<1>7. ASSUME NEW r \in Runners, Return(r)
      PROVE  UpInv'
  BY <1>7, PcStep DEF Return, Locations, Resting
<1>8. ASSUME NEW r \in Runners, ExecuteStatement(r)
      PROVE  UpInv'
  BY <1>8, ExecuteStatementStep
<1>9. ASSUME NEW r \in Runners, StatementFault(r)
      PROVE  UpInv'
  BY <1>9, StatementFaultStep
<1>10. ASSUME NEW r \in Runners, QueryReply(r)
       PROVE  UpInv'
  <2>1. CASE refused[r]
    BY <1>10, <2>1, PcStep DEF QueryReply, Locations, Resting
  <2>2. CASE ~refused[r]
    BY <1>10, <2>2, PcStep DEF QueryReply, Locations
  <2> QED
    BY <2>1, <2>2
<1>11. ASSUME NEW r \in Runners, RecordMigration(r) \/ RecordReplyLost(r)
       PROVE  UpInv'
  BY <1>11, WriteRecordStep
<1>12. ASSUME NEW r \in Runners, RecordRefused(r)
       PROVE  UpInv'
  BY <1>12, PcStep DEF RecordRefused, Locations, Resting
<1>13. ASSUME NEW r \in Runners, RequestFault(r)
       PROVE  UpInv'
  BY <1>13, PcStep DEF RequestFault, Locations, Resting
<1>14. ASSUME NEW r \in Runners, Crash(r)
       PROVE  UpInv'
  BY <1>14, PcStep DEF Crash, Locations, Resting
<1>15. CASE UNCHANGED vars
  BY <1>15
     DEF vars, UpInv, GoesUp, RecordedInEffect, InEffect, ExecutedInEffect,
         NoGaps, PlanHasNoGaps, ReportsSound, PlanIsComplete, Executing,
         Planned, Pending, Asked, Query, NoLimit
<1> QED
  BY <1>1, <1>2, <1>3, <1>4, <1>5, <1>6, <1>7, <1>8, <1>9, <1>10, <1>11,
     <1>12, <1>13, <1>14, <1>15 DEF Next, Progress, Failure

(* The inductive invariant of commands that only go up.                    *)
THEOREM UpInvariant ==
    ASSUME UpOnly, Additive
    PROVE  Spec => []UpInv
<1>1. Init => UpInv
  BY DEF Init, UpInv, GoesUp, RecordedInEffect, ExecutedInEffect, NoGaps,
         PlanHasNoGaps, ReportsSound, PlanIsComplete, Executing, Planned
<1>2. UpInv /\ TypeOK /\ TypeOK' /\ [Next]_vars => UpInv'
  BY UpInvStep
<1> QED
  BY <1>1, <1>2, TypeCorrect, PTL DEF Spec

(* However many runners migrate upward at once, and whatever fails, a      *)
(* version that _migrations records is in effect in the schema.            *)
THEOREM RecordedStaysInEffect ==
    ASSUME UpOnly, Additive
    PROVE  Spec => []RecordedInEffect
<1>1. UpInv => RecordedInEffect
  BY DEF UpInv
<1> QED
  BY <1>1, UpInvariant, PTL

(* The recorded versions are always the lowest ones of the directory.      *)
THEOREM HistoryHasNoGaps ==
    ASSUME UpOnly, Additive
    PROVE  Spec => []NoGaps
<1>1. UpInv => NoGaps
  BY DEF UpInv
<1> QED
  BY <1>1, UpInvariant, PTL

(* What a runner reports applied is recorded, and no other reports it.     *)
THEOREM ReportsAreSound ==
    ASSUME UpOnly, Additive
    PROVE  Spec => []ReportsSound
<1>1. UpInv => ReportsSound
  BY DEF UpInv
<1> QED
  BY <1>1, UpInvariant, PTL

(* migrateUp without a limit returns only once every version up to its     *)
(* target is recorded.                                                     *)
THEOREM MigrateUpCompletes ==
    ASSUME UpOnly, Additive
    PROVE  Spec => []ReturnedMeansDone
<1>1. UpInv => ReturnedMeansDone
  BY DEF UpInv, GoesUp, PlanIsComplete, Asked, ReturnedMeansDone
<1> QED
  BY <1>1, UpInvariant, PTL

---------------------------------------------------------------------------
(* One runner that goes up and down through migrations whose down() undoes *)
(* their up(): it implements SchemaLedger.                                 *)

(* A downward plan leaves out no recorded version above one it contains.   *)
LEMMA DownPlanSkipsNothing ==
    ASSUME NEW recorded \in SUBSET Versions, NEW t \in Nat, NEW n \in Nat,
           NEW v \in Plan("DOWN", recorded, t, n),
           NEW w \in recorded, v < w
    PROVE  w \in Plan("DOWN", recorded, t, n)
<1>. DEFINE S == Selected("DOWN", recorded, t)
            Above(x) == {y \in S : Precedes("DOWN", y, x)}
<1>1. v \in S /\ Cardinality(Above(v)) < n
  BY DEF Plan, FirstSteps
<1>2. v \in Nat /\ w \in Nat /\ S \subseteq Nat
  BY <1>1, VersionsAssumption DEF Selected
<1>3. w \in S
  BY <1>1, <1>2 DEF Selected
<1>4. Above(w) \subseteq Above(v)
  BY <1>2 DEF Precedes
<1>5. IsFiniteSet(Above(v))
  BY VersionsAssumption, FS_Subset DEF Selected
<1>6. /\ Cardinality(Above(w)) <= Cardinality(Above(v))
      /\ Cardinality(Above(w)) \in Nat /\ Cardinality(Above(v)) \in Nat
  BY <1>4, <1>5, FS_Subset, FS_CardinalityType
<1>7. Cardinality(Above(w)) < n
  BY <1>1, <1>6
<1>. QED
  BY <1>3, <1>7 DEF Plan, FirstSteps

(* Without a step limit, it has every recorded version above the target.   *)
LEMMA DownPlanLeavesNothing ==
    ASSUME NEW recorded \in SUBSET Versions, NEW t \in Nat, NEW n \in Nat,
           n >= NoLimit,
           NEW v \in recorded, t = 0 \/ v > t
    PROVE  v \in Plan("DOWN", recorded, t, n)
<1>. DEFINE S == Selected("DOWN", recorded, t)
            Above == {y \in S : Precedes("DOWN", y, v)}
<1>1. v \in S
  BY DEF Selected
<1>2. Above \subseteq Versions /\ v \notin Above /\ v \in Versions
  BY VersionsAssumption DEF Selected, Precedes
<1>3. IsFiniteSet(Versions) /\ NoLimit \in Nat
  BY VersionsAssumption, FS_CardinalityType DEF NoLimit
<1>4. /\ IsFiniteSet(Above)
      /\ Cardinality(Above) <= NoLimit
      /\ Cardinality(Above) # NoLimit
  BY <1>2, <1>3, FS_Subset DEF NoLimit
<1>5. Cardinality(Above) \in Nat
  BY <1>4, FS_CardinalityType
<1>6. Cardinality(Above) < n
  BY <1>3, <1>4, <1>5
<1>. QED
  BY <1>1, <1>6 DEF Plan, FirstSteps

(* Plans are made of what is pending, or of what is recorded.              *)
LEMMA PlanSelects ==
    ASSUME NEW recorded, NEW t, NEW n
    PROVE  /\ Plan("UP", recorded, t, n) \cap recorded = {}
           /\ Plan("DOWN", recorded, t, n) \subseteq recorded
  BY DEF Plan, FirstSteps, Selected

(* The statement under way is one of the query's.                          *)
LEMMA StatementUnderWay ==
    ASSUME TypeOK, NEW r \in Runners, pc[r] = "sql", at[r] <= Len(Query(r))
    PROVE  /\ cur[r] \in Versions
           /\ Query(r) \in Seq(Statement)
           /\ at[r] \in DOMAIN Query(r) /\ at[r] \in Nat
<1>1. cur[r] \in Versions /\ at[r] \in Nat \ {0}
  BY DEF TypeOK
<1>2. Query(r) \in Seq(Statement)
  BY <1>1, FilesAssumption DEF Query, Sql, LoadMigration, Script
<1>. QED
  BY <1>1, <1>2

---------------------------------------------------------------------------
(* The steps that only move pc, to a place outside of the loop or without  *)
(* a migration to record, keep the invariant.                              *)
LEMMA SerialPcStep ==
    ASSUME TypeOK, SerialInv, NEW r \in Runners, NEW l \in Locations,
           Goto(r, l),
           UNCHANGED <<database, call, loop>>,
           \/ l \in {"idle", "failed", "read"}
           \/ l = "next" /\ pc[r] = "confirm"
           \/ l = "record" /\ pc[r] = "sql" /\ at[r] > Len(Query(r))
              /\ ~refused[r]
           \/ l = "done" /\ pc[r] = "next" /\ todo[r] = {}
    PROVE  SerialInv'
<1>. USE DEF Goto, database, call, loop, TypeOK
<1>1. NoGaps' /\ ReportedIsGone'
  BY DEF SerialInv, NoGaps, ReportedIsGone
<1>2. \A q \in Runners : /\ Query(q)' = Query(q) /\ Left(q)' = Left(q)
                         /\ pc'[q] = IF q = r THEN l ELSE pc[q]
  BY DEF Query, Left, Asked
<1>3. ExecutedTookEffect'
  BY <1>2 DEF SerialInv, ExecutedTookEffect, Executing
<1>4. \A q \in Runners : /\ Planned(q)' => Planned(q)
                         /\ Planned(q)' => Pending(q)' = Pending(q)
                         /\ Executing(q)' => Executing(q)
  BY <1>2 DEF Planned, Pending, Executing
<1>5. PlanContinues'
  BY <1>4 DEF SerialInv, PlanContinues
<1>6. PlanSuffices'
  <2>. SUFFICES ASSUME NEW q \in Runners, steps[q] >= NoLimit
                PROVE  /\ Planned(q)' => Left(q) \subseteq Pending(q)'
                       /\ pc'[q] = "done" => Left(q) = {}
    BY <1>2 DEF PlanSuffices, NoLimit
  <2>1. /\ Planned(q) => Left(q) \subseteq Pending(q)
        /\ pc[q] = "done" => Left(q) = {}
    BY DEF SerialInv, PlanSuffices
  <2>2. pc'[q] = "done" /\ pc[q] # "done" => Planned(q) /\ Pending(q) = {}
    BY <1>2 DEF Planned, Pending, Executing
  <2>. QED
    BY <1>4, <2>1, <2>2
<1>. QED
  BY <1>1, <1>3, <1>5, <1>6 DEF SerialInv

(* A new call has no plan yet and has reported nothing.                    *)
LEMMA SerialInvokeStep ==
    ASSUME Serial, TypeOK, SerialInv, NEW r \in Runners, Invoke(r)
    PROVE  SerialInv'
<1>1. UNCHANGED <<schema, history>> /\ pc'[r] = "ensure" /\ results'[r] = {}
  BY DEF Invoke, Goto, TypeOK, database
<1>2. \A q \in Runners : q = r
  BY DEF Serial
<1>. QED
  BY <1>1, <1>2 DEF SerialInv, NoGaps, ExecutedTookEffect, ReportedIsGone,
     PlanContinues, PlanSuffices, Executing, Planned

(* The plan, made of the recorded versions.                                *)
LEMMA SerialPlanStep ==
    ASSUME Serial, TypeOK, SerialInv, NEW r \in Runners, GetAppliedVersions(r)
    PROVE  SerialInv'
<1>. DEFINE plan == Plan(direction[r], history, target[r], steps[r])
<1>1. /\ todo'[r] = plan /\ pc'[r] = "confirm"
      /\ UNCHANGED <<schema, history, direction, target, steps, results>>
  BY DEF GetAppliedVersions, Goto, TypeOK, database, call
<1>2. \A q \in Runners : q = r
  BY DEF Serial
<1>3. /\ Pending(r)' = plan /\ Planned(r)' /\ ~Executing(r)'
      /\ Left(r)' = Left(r)
  BY <1>1 DEF Pending, Executing, Planned, Left, Asked
<1>4. /\ direction[r] \in {"UP", "DOWN"} /\ history \in SUBSET Versions
      /\ target[r] \in Nat /\ steps[r] \in Nat
  BY DEF TypeOK, Directions
<1>5. NoGaps' /\ ReportedIsGone' /\ ExecutedTookEffect'
  BY <1>1, <1>2, <1>3
     DEF SerialInv, NoGaps, ReportedIsGone, ExecutedTookEffect
<1>6. PlanContinues'
  <2>1. CASE direction[r] = "UP"
    <3>1. \A v \in plan, w \in Versions : w < v => w \in history \cup plan
      BY <1>4, <2>1, PlanSkipsNothing
    <3>. QED
      BY <1>1, <1>2, <1>3, <2>1, <3>1, PlanSelects DEF PlanContinues
  <2>2. CASE direction[r] = "DOWN"
    <3>1. \A v \in plan, w \in history : v < w => w \in plan
      BY <1>4, <2>2, DownPlanSkipsNothing
    <3>. QED
      BY <1>1, <1>2, <1>3, <2>2, <3>1, PlanSelects DEF PlanContinues
  <2>. QED
    BY <1>4, <2>1, <2>2
<1>7. PlanSuffices'
  <2>. SUFFICES ASSUME steps[r] >= NoLimit PROVE Left(r) \subseteq plan
    BY <1>1, <1>2, <1>3 DEF PlanSuffices, NoLimit
  <2>1. CASE direction[r] = "UP"
    BY <1>4, <2>1, PlanLeavesNothing DEF Left, Asked
  <2>2. CASE direction[r] = "DOWN"
    BY <1>4, <2>2, DownPlanLeavesNothing DEF Left
  <2>. QED
    BY <1>4, <2>1, <2>2
<1>. QED
  BY <1>5, <1>6, <1>7 DEF SerialInv

(* The foremost version moves from the plan to cur.                        *)
LEMMA SerialMigrationStep ==
    ASSUME Serial, TypeOK, SerialInv, NEW r \in Runners, ExecuteMigration(r)
    PROVE  SerialInv'
<1>1. PICK m \in todo[r] :
        /\ Foremost(direction[r], m, todo[r])
        /\ cur'[r] = m /\ todo'[r] = todo[r] \ {m}
  BY DEF ExecuteMigration, TypeOK
<1>2. /\ pc[r] = "next" /\ pc'[r] = "sql" /\ at'[r] = 1
      /\ UNCHANGED <<schema, history, direction, target, steps, results>>
  BY DEF ExecuteMigration, TypeOK, Goto, database, call
<1>3. \A q \in Runners : q = r
  BY DEF Serial
<1>4. /\ Planned(r) /\ Planned(r)' /\ Executing(r)' /\ Left(r)' = Left(r)
      /\ Pending(r)' = Pending(r)
  BY <1>1, <1>2 DEF Planned, Pending, Executing, Left, Asked
<1>5. NoGaps' /\ ReportedIsGone'
  BY <1>2 DEF SerialInv, NoGaps, ReportedIsGone
<1>6. ExecutedTookEffect'
  <2>1. m \in Versions
    BY <1>1 DEF TypeOK
  <2>2. Query(r)' \in Seq(Statement)
    BY <1>1, <1>2, <2>1, FilesAssumption DEF Query, Sql, LoadMigration, Script
  <2>3. \A i \in DOMAIN Query(r)' : ~(i < 1)
    BY <2>2
  <2>. QED
    BY <1>2, <1>3, <2>3 DEF ExecutedTookEffect
<1>7. PlanContinues'
  <2>1. /\ direction[r] = "UP" => \A v \in todo'[r] : cur'[r] < v
        /\ direction[r] # "UP" => \A v \in todo'[r] : v < cur'[r]
    BY <1>1 DEF Foremost, Precedes
  <2>. QED
    BY <1>2, <1>3, <1>4, <2>1 DEF SerialInv, PlanContinues
<1>8. PlanSuffices'
  BY <1>2, <1>3, <1>4 DEF SerialInv, PlanSuffices, NoLimit
<1>. QED
  BY <1>5, <1>6, <1>7, <1>8 DEF SerialInv

(* A statement of up() defines its object, one of down() removes it.       *)
LEMMA StatementTakesEffect ==
    ASSUME Invertible, TypeOK, NEW r \in Runners, ExecuteStatement(r)
    PROVE  /\ LET o == Query(r)[at[r]].obj
              IN  /\ o \in Defines(cur[r])
                  /\ schema' \in {schema, IF direction[r] = "UP"
                                          THEN schema \cup {o}
                                          ELSE schema \ {o}}
                  /\ ~refused'[r] =>
                       ~refused[r] /\ (o \in schema' <=> direction[r] = "UP")
           /\ pc[r] = "sql" /\ cur[r] \in Versions
           /\ at[r] \in Nat /\ at'[r] = at[r] + 1
           /\ UNCHANGED <<history, pc, direction, target, steps, todo, cur,
                          results>>
<1>. DEFINE s == Query(r)[at[r]]
<1>1. /\ pc[r] = "sql" /\ at'[r] = at[r] + 1 /\ at[r] <= Len(Query(r))
      /\ UNCHANGED <<history, pc, direction, target, steps, todo, cur, results>>
  BY DEF ExecuteStatement, TypeOK, call
<1>2. /\ cur[r] \in Versions /\ at[r] \in DOMAIN Query(r) /\ at[r] \in Nat
      /\ direction[r] \in {"UP", "DOWN"}
  BY <1>1, StatementUnderWay DEF TypeOK, Directions
<1>3. /\ s.obj \in Defines(cur[r])
      /\ s.op = IF direction[r] = "UP" THEN "DEFINE" ELSE "REMOVE"
  BY <1>2 DEF Query, Invertible, Does
<1>4. \/ schema' = schema /\ refused'[r]
      \/ schema' = Execute(s, schema) /\ refused'[r] = refused[r]
  BY DEF ExecuteStatement, TypeOK
<1>. QED
  BY <1>1, <1>2, <1>3, <1>4 DEF Execute

LEMMA SerialStatementStep ==
    ASSUME Serial, Invertible, TypeOK, SerialInv, NEW r \in Runners,
           ExecuteStatement(r)
    PROVE  SerialInv'
<1>. DEFINE o == Query(r)[at[r]].obj
<1>1. /\ o \in Defines(cur[r])
      /\ schema' \in {schema, IF direction[r] = "UP" THEN schema \cup {o}
                                                     ELSE schema \ {o}}
      /\ ~refused'[r] => ~refused[r] /\ (o \in schema' <=> direction[r] = "UP")
      /\ pc[r] = "sql" /\ cur[r] \in Versions
      /\ at[r] \in Nat /\ at'[r] = at[r] + 1
      /\ UNCHANGED <<history, pc, direction, target, steps, todo, cur, results>>
  BY StatementTakesEffect
<1>2. \A q \in Runners : q = r
  BY DEF Serial
<1>3. /\ Query(r)' = Query(r) /\ Planned(r)' = Planned(r) /\ Executing(r)
      /\ Executing(r)' = Executing(r) /\ Pending(r)' = Pending(r)
      /\ Left(r)' = Left(r)
  BY <1>1 DEF Query, Planned, Executing, Pending, Left, Asked
<1>4. NoGaps' /\ PlanContinues' /\ PlanSuffices'
  BY <1>1, <1>2, <1>3
     DEF SerialInv, NoGaps, PlanContinues, PlanSuffices, NoLimit
<1>5. ReportedIsGone'
  <2>1. direction[r] = "DOWN" => schema' \subseteq schema
    BY <1>1
  <2>. QED
    BY <1>1, <1>2, <2>1 DEF SerialInv, ReportedIsGone
<1>6. ExecutedTookEffect'
  <2>. SUFFICES ASSUME ~refused'[r], NEW i \in DOMAIN Query(r), i < at[r] + 1
                PROVE  Query(r)[i].obj \in schema' <=> direction[r] = "UP"
    BY <1>1, <1>2, <1>3 DEF ExecutedTookEffect
  <2>1. i \in Nat
    <3>1. Query(r) \in Seq(Statement)
      BY <1>1, StatementUnderWay DEF ExecuteStatement
    <3>. QED
      BY <3>1
  <2>2. CASE i = at[r]
    BY <1>1, <2>2
  <2>3. CASE i # at[r]
    <3>1. i < at[r]
      BY <1>1, <2>1, <2>3
    <3>2. Query(r)[i].obj \in schema <=> direction[r] = "UP"
      BY <1>1, <1>3, <3>1 DEF SerialInv, ExecutedTookEffect
    <3>. QED
      BY <1>1, <3>2
  <2>. QED
    BY <2>2, <2>3
<1>. QED
  BY <1>4, <1>5, <1>6 DEF SerialInv

LEMMA SerialFaultStep ==
    ASSUME Serial, TypeOK, SerialInv, NEW r \in Runners, StatementFault(r)
    PROVE  SerialInv'
<1>1. /\ refused'[r] = TRUE /\ pc[r] = "sql"
      /\ UNCHANGED <<schema, history, pc, direction, target, steps, todo, cur,
                     results>>
  BY DEF StatementFault, TypeOK, database, call
<1>2. \A q \in Runners : q = r
  BY DEF Serial
<1>3. /\ Planned(r)' = Planned(r) /\ Executing(r)' = Executing(r)
      /\ Pending(r)' = Pending(r) /\ Left(r)' = Left(r)
  BY <1>1 DEF Planned, Executing, Pending, Left, Asked
<1>. QED
  BY <1>1, <1>2, <1>3
     DEF SerialInv, NoGaps, ReportedIsGone, ExecutedTookEffect, PlanContinues,
         PlanSuffices, NoLimit

(* Versions are ordered.                                                   *)
LEMMA VersionsAreOrdered ==
    \A v, w \in Versions : /\ v < w => v # w /\ ~(w < v)
                           /\ ~(v < w) <=> w <= v
<1>. SUFFICES ASSUME NEW v \in Versions, NEW w \in Versions
              PROVE  /\ v < w => v # w /\ ~(w < v)
                     /\ ~(v < w) <=> w <= v
  OBVIOUS
<1>1. v \in Nat /\ w \in Nat
  BY VersionsAssumption
<1>. QED
  BY <1>1

(* The migration under way is the lowest that is not recorded, or the      *)
(* highest that is.                                                        *)
LEMMA CurIsForemost ==
    ASSUME TypeOK, SerialInv, NEW r \in Runners, Executing(r)
    PROVE  IF direction[r] = "UP"
           THEN Ledger!LowestUnrecorded(cur[r])
           ELSE Ledger!HighestRecorded(cur[r])
<1>1. /\ cur[r] \in Versions /\ todo[r] \subseteq Versions
      /\ history \subseteq Versions
  BY DEF TypeOK, Executing
<1>2. Pending(r) = todo[r] \cup {cur[r]} /\ Planned(r)
  BY DEF Pending, Planned, Executing
<1>3. CASE direction[r] = "UP"
  <2>1. cur[r] \notin history /\ \A v \in todo[r] : cur[r] < v
    BY <1>2, <1>3 DEF SerialInv, PlanContinues
  <2>2. \A w \in Versions : w < cur[r] => w \in history \cup Pending(r)
    BY <1>2, <1>3 DEF SerialInv, PlanContinues
  <2>3. \A w \in Versions : w < cur[r] => w # cur[r] /\ w \notin todo[r]
    BY <1>1, <2>1, VersionsAreOrdered
  <2>4. \A w \in Versions : w < cur[r] => w \in history
    BY <1>2, <2>2, <2>3
  <2>. QED
    BY <1>3, <2>1, <2>4 DEF Ledger!LowestUnrecorded
<1>4. CASE direction[r] # "UP"
  <2>1. cur[r] \in history /\ \A v \in todo[r] : v < cur[r]
    BY <1>2, <1>4 DEF SerialInv, PlanContinues
  <2>2. \A w \in history : cur[r] < w => w \in Pending(r)
    BY <1>2, <1>4 DEF SerialInv, PlanContinues
  <2>3. \A w \in history : cur[r] < w => w # cur[r] /\ w \notin todo[r]
    BY <1>1, <2>1, VersionsAreOrdered
  <2>4. \A w \in history : ~(cur[r] < w)
    BY <1>2, <2>2, <2>3
  <2>5. \A w \in history : w <= cur[r]
    BY <1>1, <2>4, VersionsAreOrdered
  <2>. QED
    BY <1>4, <2>1, <2>5 DEF Ledger!HighestRecorded
<1>. QED
  BY <1>3, <1>4

(* A migration whose record is written or removed is there whole, or gone. *)
LEMMA MigrationTookEffect ==
    ASSUME Invertible, TypeOK, SerialInv, NEW r \in Runners, pc[r] = "record"
    PROVE  Defines(cur[r]) \cap schema =
             IF direction[r] = "UP" THEN Defines(cur[r]) ELSE {}
<1>1. /\ cur[r] \in Versions /\ direction[r] \in {"UP", "DOWN"}
      /\ Executing(r)
  BY DEF TypeOK, Directions, Executing
<1>2. Query(r) \in Seq(Statement) /\ at[r] \in Nat
  BY <1>1, FilesAssumption
     DEF Query, Sql, LoadMigration, Script, TypeOK
<1>3. ~refused[r] /\ at[r] > Len(Query(r))
  BY <1>1 DEF SerialInv, ExecutedTookEffect
<1>4. \A i \in DOMAIN Query(r) : i < at[r]
  BY <1>2, <1>3
<1>5. \A i \in DOMAIN Query(r) :
        Query(r)[i].obj \in schema <=> direction[r] = "UP"
  BY <1>1, <1>3, <1>4 DEF SerialInv, ExecutedTookEffect
<1>6. Defines(cur[r]) = {Query(r)[i].obj : i \in DOMAIN Query(r)}
  BY <1>1 DEF Invertible, Does, Query
<1>. QED
  BY <1>5, <1>6

(* The record of the migration under way is written or removed: the plan   *)
(* goes on from there.                                                     *)
LEMMA SerialRecordStep ==
    ASSUME Serial, Invertible, TypeOK, SerialInv, NEW r \in Runners,
           RecordMigration(r) \/ RecordReplyLost(r)
    PROVE  SerialInv'
<1>. DEFINE v == cur[r]
<1>1. /\ pc[r] = "record" /\ pc'[r] \in {"next", "failed"}
      /\ history' = IF direction[r] = "UP" THEN history \cup {v}
                                           ELSE history \ {v}
      /\ results'[r] \in {results[r], results[r] \cup {v}}
      /\ UNCHANGED <<schema, direction, target, steps, todo, cur>>
  BY DEF RecordMigration, RecordReplyLost, WriteRecord, Goto, call, loop,
         TypeOK
<1>2. \A q \in Runners : q = r
  BY DEF Serial
<1>3. /\ v \in Versions /\ history \subseteq Versions
      /\ todo[r] \subseteq Versions /\ direction[r] \in {"UP", "DOWN"}
  BY <1>1 DEF TypeOK, Directions
<1>4. /\ Executing(r) /\ Planned(r) /\ Pending(r) = todo[r] \cup {v}
      /\ ~Executing(r)' /\ (Planned(r)' => pc'[r] = "next")
      /\ Pending(r)' = todo[r]
  BY <1>1 DEF Executing, Planned, Pending
<1>5. IF direction[r] = "UP" THEN Ledger!LowestUnrecorded(v)
                             ELSE Ledger!HighestRecorded(v)
  BY <1>4, CurIsForemost
<1>6. NoGaps'
  <2>1. CASE direction[r] = "UP"
    BY <1>1, <1>3, <1>5, <2>1 DEF SerialInv, NoGaps, Ledger!LowestUnrecorded
  <2>2. CASE direction[r] = "DOWN"
    <3>. SUFFICES ASSUME NEW x \in history, x # v, NEW w \in Versions, w < x
                  PROVE  w \in history /\ w # v
      BY <1>1, <2>2 DEF NoGaps
    <3>1. w \in history
      BY DEF SerialInv, NoGaps
    <3>2. x <= v /\ x \in Nat /\ w \in Nat /\ v \in Nat
      BY <1>3, <1>5, <2>2, VersionsAssumption DEF Ledger!HighestRecorded
    <3>. QED
      BY <3>1, <3>2
  <2>. QED
    BY <1>3, <2>1, <2>2
<1>7. ReportedIsGone'
  <2>1. direction[r] = "DOWN" => Defines(v) \cap schema = {}
    BY <1>1, MigrationTookEffect
  <2>. QED
    BY <1>1, <1>2, <2>1 DEF SerialInv, ReportedIsGone
<1>8. ExecutedTookEffect'
  BY <1>2, <1>4 DEF ExecutedTookEffect
<1>9. PlanContinues'
  <2>1. CASE direction[r] = "UP"
    <3>1. \A x \in todo[r] : x \notin history /\ v < x
      BY <1>4, <2>1 DEF SerialInv, PlanContinues
    <3>2. v \notin todo[r]
      BY <1>3, <3>1, VersionsAreOrdered
    <3>3. \A x \in todo[r], w \in Versions :
            w < x => w \in history \cup {v} \cup todo[r]
      BY <1>4, <2>1 DEF SerialInv, PlanContinues
    <3>. QED
      BY <1>1, <1>2, <1>4, <2>1, <3>1, <3>2, <3>3 DEF PlanContinues
  <2>2. CASE direction[r] = "DOWN"
    <3>1. \A x \in todo[r] : x \in history /\ x < v
      BY <1>4, <2>2 DEF SerialInv, PlanContinues
    <3>2. v \notin todo[r]
      BY <1>3, <3>1, VersionsAreOrdered
    <3>3. \A x \in todo[r], w \in history : x < w => w \in todo[r] \cup {v}
      BY <1>4, <2>2 DEF SerialInv, PlanContinues
    <3>. QED
      BY <1>1, <1>2, <1>4, <2>2, <3>1, <3>2, <3>3 DEF PlanContinues
  <2>. QED
    BY <1>3, <2>1, <2>2
<1>10. PlanSuffices'
  <2>. SUFFICES ASSUME steps[r] >= NoLimit PROVE Left(r)' \subseteq todo[r]
    BY <1>1, <1>2, <1>4 DEF PlanSuffices, NoLimit
  <2>1. Left(r) \subseteq todo[r] \cup {v}
    BY <1>4 DEF SerialInv, PlanSuffices
  <2>2. Left(r)' = Left(r) \ {v}
    BY <1>1, <1>3 DEF Left, Asked
  <2>. QED
    BY <2>1, <2>2
<1>. QED
  BY <1>6, <1>7, <1>8, <1>9, <1>10 DEF SerialInv

(* Every step keeps the invariant: one step of the proof per action.       *)
LEMMA SerialInvStep ==
    ASSUME Serial, Invertible, TypeOK, SerialInv, [Next]_vars
    PROVE  SerialInv'
<1>. USE DEF database, call, loop
<1>1. ASSUME NEW r \in Runners, Invoke(r)
      PROVE  SerialInv'
  BY <1>1, SerialInvokeStep
<1>2. ASSUME NEW r \in Runners, EnsureMigrationTable(r)
      PROVE  SerialInv'
  BY <1>2, SerialPcStep DEF EnsureMigrationTable, Locations
<1>3. ASSUME NEW r \in Runners, GetAppliedVersions(r)
      PROVE  SerialInv'
  BY <1>3, SerialPlanStep
<1>4. ASSUME NEW r \in Runners, Confirm(r)
      PROVE  SerialInv'
  BY <1>4, SerialPcStep DEF Confirm, Locations
<1>5. ASSUME NEW r \in Runners, Decline(r)
      PROVE  SerialInv'
  BY <1>5, SerialPcStep DEF Decline, Locations, Resting
<1>6. ASSUME NEW r \in Runners, ExecuteMigration(r)
      PROVE  SerialInv'
  BY <1>6, SerialMigrationStep
<1>7. ASSUME NEW r \in Runners, Return(r)
      PROVE  SerialInv'
  BY <1>7, SerialPcStep DEF Return, Locations, Resting
<1>8. ASSUME NEW r \in Runners, ExecuteStatement(r)
      PROVE  SerialInv'
  BY <1>8, SerialStatementStep
<1>9. ASSUME NEW r \in Runners, StatementFault(r)
      PROVE  SerialInv'
  BY <1>9, SerialFaultStep
<1>10. ASSUME NEW r \in Runners, QueryReply(r)
       PROVE  SerialInv'
  <2>1. CASE refused[r]
    BY <1>10, <2>1, SerialPcStep DEF QueryReply, Locations, Resting
  <2>2. CASE ~refused[r]
    BY <1>10, <2>2, SerialPcStep DEF QueryReply, Locations
  <2>. QED
    BY <2>1, <2>2
<1>11. ASSUME NEW r \in Runners, RecordMigration(r) \/ RecordReplyLost(r)
       PROVE  SerialInv'
  BY <1>11, SerialRecordStep
<1>12. ASSUME NEW r \in Runners, RecordRefused(r)
       PROVE  SerialInv'
  BY <1>12, SerialPcStep DEF RecordRefused, Locations, Resting
<1>13. ASSUME NEW r \in Runners, RequestFault(r)
       PROVE  SerialInv'
  BY <1>13, SerialPcStep DEF RequestFault, Locations, Resting
<1>14. ASSUME NEW r \in Runners, Crash(r)
       PROVE  SerialInv'
  BY <1>14, SerialPcStep DEF Crash, Locations, Resting
<1>15. CASE UNCHANGED vars
  BY <1>15
     DEF vars, SerialInv, NoGaps, ExecutedTookEffect, ReportedIsGone,
         PlanContinues, PlanSuffices, Left, Executing, Planned, Pending,
         Asked, Query, NoLimit
<1>. QED
  BY <1>1, <1>2, <1>3, <1>4, <1>5, <1>6, <1>7, <1>8, <1>9, <1>10, <1>11,
     <1>12, <1>13, <1>14, <1>15 DEF Next, Progress, Failure

---------------------------------------------------------------------------
(* The inductive invariant of one runner that goes up and down.            *)
THEOREM SerialInvariant ==
    ASSUME Serial, Invertible
    PROVE  Spec => []SerialInv
<1>1. Init => SerialInv
  BY DEF Init, SerialInv, NoGaps, ExecutedTookEffect, ReportedIsGone,
         PlanContinues, PlanSuffices, Executing, Planned
<1>2. SerialInv /\ TypeOK /\ [Next]_vars => SerialInv'
  BY SerialInvStep
<1>. QED
  BY <1>1, <1>2, TypeCorrect, PTL DEF Spec

(* Whatever one runner applies, reverts and fails at, the recorded         *)
(* versions are the lowest ones of the directory.                          *)
THEOREM SerialHistoryHasNoGaps ==
    ASSUME Serial, Invertible
    PROVE  Spec => []NoGaps
<1>1. SerialInv => NoGaps
  BY DEF SerialInv
<1>. QED
  BY <1>1, SerialInvariant, PTL

(* A call without a step limit, up or down, returns only once it did all   *)
(* that its target asks for.                                               *)
THEOREM SerialCallsComplete ==
    ASSUME Serial, Invertible
    PROVE  Spec => []ReturnedMeansDone
<1>1. SerialInv /\ TypeOK => ReturnedMeansDone
  <2>. SUFFICES ASSUME SerialInv, TypeOK, NEW r \in Runners, pc[r] = "done",
                       steps[r] >= NoLimit
                PROVE  IF direction[r] = "UP"
                       THEN \A v \in Versions : Asked(r, v) => v \in history
                       ELSE \A v \in history :
                                target[r] # 0 /\ v <= target[r]
    BY DEF ReturnedMeansDone, Asked
  <2>1. Left(r) = {}
    BY DEF SerialInv, PlanSuffices
  <2>2. CASE direction[r] = "UP"
    BY <2>1, <2>2 DEF Left
  <2>3. CASE direction[r] # "UP"
    <3>1. \A v \in history : ~(target[r] = 0 \/ v > target[r])
      BY <2>1, <2>3 DEF Left
    <3>2. \A v \in history : v \in Nat /\ target[r] \in Nat
      BY VersionsAssumption DEF TypeOK
    <3>. QED
      BY <2>3, <3>1, <3>2
  <2>. QED
    BY <2>2, <2>3
<1>. QED
  BY <1>1, SerialInvariant, TypeCorrect, PTL

(* A downward call that returns has reverted what it reports, when down()  *)
(* removes what up() defines: what a .surql file's down() does not.        *)
THEOREM SerialDownReverts ==
    ASSUME Serial, Invertible
    PROVE  Spec => []DownReverts
<1>1. SerialInv => DownReverts
  BY DEF SerialInv, ReportedIsGone, DownReverts
<1>. QED
  BY <1>1, SerialInvariant, PTL

---------------------------------------------------------------------------
(* A statement of the migration under way builds or tears down part of     *)
(* that migration and touches no other.                                    *)
LEMMA StatementRefines ==
    ASSUME Invertible, TypeOK, SerialInv, NEW r \in Runners,
           ExecuteStatement(r)
    PROVE  [Ledger!Next]_(Ledger!vars)
<1>. DEFINE v == cur[r]
            o == Query(r)[at[r]].obj
            built == [w \in Versions |-> Defines(w) \cap schema]
<1>1. /\ o \in Defines(v) /\ v \in Versions /\ pc[r] = "sql"
      /\ schema' \in {schema, IF direction[r] = "UP" THEN schema \cup {o}
                                                     ELSE schema \ {o}}
      /\ UNCHANGED history
  BY StatementTakesEffect
<1>2. \A w \in Versions : w # v => o \notin Defines(w)
  BY <1>1 DEF Invertible
<1>3. IF direction[r] = "UP" THEN Ledger!LowestUnrecorded(v)
                             ELSE Ledger!HighestRecorded(v)
  BY <1>1, CurIsForemost DEF Executing
<1>4. CASE schema' = schema
  BY <1>1, <1>4 DEF Ledger!vars, Defines
<1>5. CASE direction[r] = "UP" /\ schema' = schema \cup {o}
  <2>1. built' = [built EXCEPT ![v] = @ \cup {o}]
    <3>1. \A w \in Versions :
            Defines(w) \cap schema' = IF w = v
                                      THEN (Defines(w) \cap schema) \cup {o}
                                      ELSE Defines(w) \cap schema
      BY <1>1, <1>2, <1>5
    <3>2. built' = [w \in Versions |-> Defines(w) \cap schema']
      BY DEF Defines
    <3>. QED
      BY <1>1, <3>1, <3>2
  <2>2. Ledger!Build(v)
    BY <1>1, <1>3, <1>5, <2>1 DEF Ledger!Build
  <2>. QED
    BY <1>1, <2>2 DEF Ledger!Next
<1>6. CASE direction[r] # "UP" /\ schema' = schema \ {o}
  <2>1. built' = [built EXCEPT ![v] = @ \ {o}]
    BY <1>1, <1>2, <1>6 DEF Defines
  <2>2. Ledger!TearDown(v)
    BY <1>1, <1>3, <1>6, <2>1 DEF Ledger!TearDown
  <2>. QED
    BY <1>1, <2>2 DEF Ledger!Next
<1>. QED
  BY <1>1, <1>4, <1>5, <1>6

(* Writing a record is recording a complete migration, removing one is     *)
(* forgetting a migration of which nothing is left.                        *)
LEMMA RecordRefines ==
    ASSUME Invertible, TypeOK, SerialInv, NEW r \in Runners,
           pc[r] = "record", WriteRecord(r)
    PROVE  Ledger!Next
<1>. DEFINE v == cur[r]
            built == [w \in Versions |-> Defines(w) \cap schema]
<1>1. v \in Versions /\ Executing(r)
  BY DEF TypeOK, Executing
<1>2. IF direction[r] = "UP" THEN Ledger!LowestUnrecorded(v)
                             ELSE Ledger!HighestRecorded(v)
  BY <1>1, CurIsForemost
<1>3. built[v] = IF direction[r] = "UP" THEN Defines(v) ELSE {}
  BY <1>1, MigrationTookEffect
<1>4. built' = built
  BY DEF WriteRecord, Defines
<1>5. history' = IF direction[r] = "UP" THEN history \cup {v}
                                        ELSE history \ {v}
  BY DEF WriteRecord
<1>6. CASE direction[r] = "UP"
  BY <1>1, <1>2, <1>3, <1>4, <1>5, <1>6 DEF Ledger!Next, Ledger!Record
<1>7. CASE direction[r] # "UP"
  BY <1>1, <1>2, <1>3, <1>4, <1>5, <1>7 DEF Ledger!Next, Ledger!Forget
<1>. QED
  BY <1>6, <1>7

(* Every step of the runner is a step of the ledger or leaves it alone.    *)
LEMMA LedgerStep ==
    ASSUME Invertible, TypeOK, SerialInv, [Next]_vars
    PROVE  [Ledger!Next]_(Ledger!vars)
<1>1. ASSUME NEW r \in Runners, ExecuteStatement(r)
      PROVE  [Ledger!Next]_(Ledger!vars)
  BY <1>1, StatementRefines
<1>2. ASSUME NEW r \in Runners, RecordMigration(r) \/ RecordReplyLost(r)
      PROVE  [Ledger!Next]_(Ledger!vars)
  BY <1>2, RecordRefines DEF RecordMigration, RecordReplyLost
<1>3. CASE UNCHANGED database
  BY <1>3 DEF database, Ledger!vars, Defines
<1>. QED
  BY <1>1, <1>2, <1>3
     DEF Next, Progress, Failure, vars, Invoke, EnsureMigrationTable,
         GetAppliedVersions, Confirm, Decline, ExecuteMigration, Return,
         QueryReply, RecordRefused, StatementFault, RequestFault, Crash

(* One runner at a time keeps the ledger: the migrations it has not        *)
(* recorded are untouched but for the lowest, the ones it has are whole    *)
(* but for the highest.                                                    *)
THEOREM RunnerKeepsLedger ==
    ASSUME Serial, Invertible
    PROVE  Spec => KeepsLedger
<1>1. Init => Ledger!Init
  BY DEF Init, Ledger!Init
<1>2. SerialInv /\ TypeOK /\ [Next]_vars => [Ledger!Next]_(Ledger!vars)
  BY LedgerStep
<1>. QED
  BY <1>1, <1>2, SerialInvariant, TypeCorrect, PTL
     DEF Spec, KeepsLedger, Ledger!Spec
============================================================================
