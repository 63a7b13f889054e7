-------------------------- MODULE MigrationRunner --------------------------
(***************************************************************************)
(* Migration commands against one database.                                *)
(*                                                                         *)
(*   src/src/migration/executor.ts, history.ts, rollback.ts,               *)
(*   src/src/cli/migrate.ts                                                *)
(*                                                                         *)
(* A runner is a process that calls migrateUp, migrateDown or              *)
(* executeRollback, or runs `surql migrate up|down`, one call at a time.   *)
(* Each await of the code is a point where other runners move, a request   *)
(* fails, or the process dies.  Nothing locks the database.                *)
(***************************************************************************)
EXTENDS Migrations

CONSTANTS
    Runners,    \* the processes that run migration commands
    Commands,   \* the directions they use: a subset of Directions
    Targets,    \* the target versions they pass, 0 for none
    Steps,      \* the values of --steps; Cardinality(Versions) is "no limit"
    MaxFaults   \* bound: failed requests and crashes in one behaviour

ASSUME RunnersAssumption ==
    /\ Commands \subseteq Directions
    /\ Targets \subseteq Nat
    /\ Steps \subseteq Nat
    /\ MaxFaults \in Nat

VARIABLES
    schema,     \* database: the objects that exist
    history,    \* database: the versions with a record in _migrations
    pc,         \* pc[r]: where runner r's call stands
    direction,  \* direction[r]: of r's call
    target,     \* target[r]: targetVersion of r's call
    steps,      \* steps[r]: how many migrations r's call may run
    todo,       \* todo[r]: what is left of r's plan
    cur,        \* cur[r]: the migration r is executing, 0 for none
    at,         \* at[r]: the next statement of cur[r] the server executes
    refused,    \* refused[r]: a statement of cur[r] failed
    results,    \* results[r]: what r's call has pushed on its results
    faults      \* failed requests and crashes so far

database == <<schema, history>>
call     == <<direction, target, steps>>
loop     == <<todo, cur, at, refused, results>>
vars     == <<database, pc, call, loop, faults>>

Resting == {"idle", "done", "failed"}
Locations ==
    Resting \cup {"ensure", "read", "confirm", "next", "sql", "record"}

NoLimit == Cardinality(Versions)

Query(r) == Sql(direction[r], cur[r])

TypeOK ==
    /\ schema \subseteq Objects
    /\ history \subseteq Versions
    /\ pc \in [Runners -> Locations]
    /\ direction \in [Runners -> Directions]
    /\ target \in [Runners -> Nat]
    /\ steps \in [Runners -> Nat]
    /\ todo \in [Runners -> SUBSET Versions]
    /\ cur \in [Runners -> Versions \cup {0}]
    /\ at \in [Runners -> Nat \ {0}]
    /\ refused \in [Runners -> BOOLEAN]
    /\ results \in [Runners -> SUBSET Versions]
    /\ faults \in 0 .. MaxFaults
    /\ \A r \in Runners : pc[r] \in {"sql", "record"} => cur[r] \in Versions

(* A new database, and no command running.                                 *)
Init ==
    /\ schema = {}
    /\ history = {}
    /\ pc = [r \in Runners |-> "idle"]
    /\ direction = [r \in Runners |-> "UP"]
    /\ target = [r \in Runners |-> 0]
    /\ steps = [r \in Runners |-> 0]
    /\ todo = [r \in Runners |-> {}]
    /\ cur = [r \in Runners |-> 0]
    /\ at = [r \in Runners |-> 1]
    /\ refused = [r \in Runners |-> FALSE]
    /\ results = [r \in Runners |-> {}]
    /\ faults = 0

---------------------------------------------------------------------------
Goto(r, l) == pc' = [pc EXCEPT ![r] = l]

(* A request can fail at any await: the call then throws, and executeMig-  *)
(* ration's catch only rewraps the error.                                  *)
Fault == /\ faults < MaxFaults
         /\ faults' = faults + 1

(* A command starts, with a target (the API) or a step count (the CLI).    *)
Invoke(r) ==
    /\ pc[r] \in Resting
    /\ \E d \in Commands, t \in Targets, n \in Steps :
        /\ t = 0 \/ n = NoLimit
        /\ direction' = [direction EXCEPT ![r] = d]
        /\ target' = [target EXCEPT ![r] = t]
        /\ steps' = [steps EXCEPT ![r] = n]
    /\ Goto(r, "ensure")
    /\ todo' = [todo EXCEPT ![r] = {}]
    /\ cur' = [cur EXCEPT ![r] = 0]
    /\ at' = [at EXCEPT ![r] = 1]
    /\ refused' = [refused EXCEPT ![r] = FALSE]
    /\ results' = [results EXCEPT ![r] = {}]
    /\ UNCHANGED <<database, faults>>

(* ensureMigrationTable: every DEFINE is IF NOT EXISTS, and what they      *)
(* define, the table and its unique index, is there ever after.            *)
EnsureMigrationTable(r) ==
    /\ pc[r] = "ensure"
    /\ Goto(r, "read")
    /\ UNCHANGED <<database, call, loop, faults>>

(* getAppliedVersions, and the plan made of its answer before the next     *)
(* await.                                                                  *)
GetAppliedVersions(r) ==
    /\ pc[r] = "read"
    /\ todo' = [todo EXCEPT
                 ![r] = Plan(direction[r], history, target[r], steps[r])]
    /\ Goto(r, "confirm")
    /\ UNCHANGED <<database, call, cur, at, refused, results, faults>>

(* cmdDown's prompt; the other callers go on at once.                      *)
Confirm(r) ==
    /\ pc[r] = "confirm"
    /\ Goto(r, "next")
    /\ UNCHANGED <<database, call, loop, faults>>

(* The prompt answered no, or --dry-run.                                   *)
Decline(r) ==
    /\ pc[r] = "confirm"
    /\ Goto(r, "idle")
    /\ UNCHANGED <<database, call, loop, faults>>

(* Mutants: statements counted from zero; a plan that is not used up.      *)
ExecuteFromZero(r) ==
    /\ pc[r] = "next"
    /\ \E v \in todo[r] :
        /\ Foremost(direction[r], v, todo[r])
        /\ cur' = [cur EXCEPT ![r] = v]
        /\ todo' = [todo EXCEPT ![r] = @ \ {v}]
    /\ at' = [at EXCEPT ![r] = 0]
    /\ refused' = [refused EXCEPT ![r] = FALSE]
    /\ Goto(r, "sql")
    /\ UNCHANGED <<database, call, results, faults>>

ExecuteForever(r) ==
    /\ pc[r] = "next"
    /\ \E v \in todo[r] :
        /\ Foremost(direction[r], v, todo[r])
        /\ cur' = [cur EXCEPT ![r] = v]
    /\ at' = [at EXCEPT ![r] = 1]
    /\ refused' = [refused EXCEPT ![r] = FALSE]
    /\ Goto(r, "sql")
    /\ UNCHANGED <<database, call, todo, results, faults>>

(* The loop takes the next migration, evaluates up() or down(), and sends  *)
(* the SQL as one query.                                                   *)
ExecuteMigration(r) ==
    /\ pc[r] = "next"
    /\ \E v \in todo[r] :
        /\ Foremost(direction[r], v, todo[r])
        /\ cur' = [cur EXCEPT ![r] = v]
        /\ todo' = [todo EXCEPT ![r] = @ \ {v}]
    /\ at' = [at EXCEPT ![r] = 1]
    /\ refused' = [refused EXCEPT ![r] = FALSE]
    /\ Goto(r, "sql")
    /\ UNCHANGED <<database, call, results, faults>>

(* The plan is exhausted: the call returns its results.                    *)
Return(r) ==
    /\ pc[r] = "next"
    /\ todo[r] = {}
    /\ Goto(r, "done")
    /\ UNCHANGED <<database, call, loop, faults>>

(* The server executes one statement of the query.                         *)
ExecuteStatement(r) ==
    /\ pc[r] = "sql"
    /\ at[r] <= Len(Query(r))
    /\ LET s == Query(r)[at[r]] IN
        IF Refused(s, schema)
        THEN /\ refused' = [refused EXCEPT ![r] = TRUE]
             /\ UNCHANGED schema
        ELSE /\ schema' = Execute(s, schema)
             /\ UNCHANGED refused
    /\ at' = [at EXCEPT ![r] = @ + 1]
    /\ UNCHANGED <<history, pc, call, todo, cur, results, faults>>

(* A statement fails for a reason of the server's own.                     *)
StatementFault(r) ==
    /\ pc[r] = "sql"
    /\ at[r] <= Len(Query(r))
    /\ Fault
    /\ refused' = [refused EXCEPT ![r] = TRUE]
    /\ at' = [at EXCEPT ![r] = @ + 1]
    /\ UNCHANGED <<database, pc, call, todo, cur, results>>

(* Mutants: the query's failure is ignored; the migration is skipped.      *)
ReplyIgnored(r) ==
    /\ pc[r] = "sql"
    /\ at[r] > Len(Query(r))
    /\ Goto(r, "record")
    /\ UNCHANGED <<database, call, loop, faults>>

ReplySkips(r) ==
    /\ pc[r] = "sql"
    /\ at[r] > Len(Query(r))
    /\ Goto(r, IF refused[r] THEN "next" ELSE "record")
    /\ UNCHANGED <<database, call, loop, faults>>

(* Awaiting the query rejects when one of its statements failed.           *)
QueryReply(r) ==
    /\ pc[r] = "sql"
    /\ at[r] > Len(Query(r))
    /\ Goto(r, IF refused[r] THEN "failed" ELSE "record")
    /\ UNCHANGED <<database, call, loop, faults>>

(* Mutant: no unique index.                                                *)
NoDuplicate(r) == FALSE

(* What the server does with recordMigration's CREATE, which the unique    *)
(* index refuses for a version already there, and with                     *)
(* removeMigrationRecord's DELETE ... WHERE, which always succeeds.        *)
Duplicate(r) == direction[r] = "UP" /\ cur[r] \in history

(* Mutant: an upward migration is not recorded.                            *)
WriteNothing(r) ==
    /\ ~Duplicate(r)
    /\ history' = IF direction[r] = "UP" THEN history
                                         ELSE history \ {cur[r]}
    /\ UNCHANGED schema

WriteRecord(r) ==
    /\ ~Duplicate(r)
    /\ history' = IF direction[r] = "UP" THEN history \cup {cur[r]}
                                         ELSE history \ {cur[r]}
    /\ UNCHANGED schema

(* The record is written, and the loop pushes its result.                  *)
RecordMigration(r) ==
    /\ pc[r] = "record"
    /\ WriteRecord(r)
    /\ results' = [results EXCEPT ![r] = @ \cup {cur[r]}]
    /\ Goto(r, "next")
    /\ UNCHANGED <<call, todo, cur, at, refused, faults>>

(* The unique index refuses the record.                                    *)
RecordRefused(r) ==
    /\ pc[r] = "record"
    /\ Duplicate(r)
    /\ Goto(r, "failed")
    /\ UNCHANGED <<database, call, loop, faults>>

(* The record is written but its reply is lost.                            *)
RecordReplyLost(r) ==
    /\ pc[r] = "record"
    /\ WriteRecord(r)
    /\ Fault
    /\ Goto(r, "failed")
    /\ UNCHANGED <<call, loop>>

(* A request fails before the server acts on it, or its reply is lost      *)
(* where that makes no difference to the database.                         *)
RequestFault(r) ==
    /\ pc[r] \in {"ensure", "read", "sql", "record"}
    /\ Fault
    /\ Goto(r, "failed")
    /\ UNCHANGED <<database, call, loop>>

(* The process dies; what it kept in memory is gone.                       *)
Crash(r) ==
    /\ pc[r] \notin Resting
    /\ Fault
    /\ Goto(r, "idle")
    /\ UNCHANGED <<database, call, loop>>

---------------------------------------------------------------------------
(* The steps of a call that is under way.                                  *)
Progress(r) ==
    \/ EnsureMigrationTable(r)
    \/ GetAppliedVersions(r)
    \/ Confirm(r)
    \/ ExecuteMigration(r)
    \/ Return(r)
    \/ ExecuteStatement(r)
    \/ QueryReply(r)
    \/ RecordMigration(r)
    \/ RecordRefused(r)

Failure(r) ==
    \/ StatementFault(r)
    \/ RecordReplyLost(r)
    \/ RequestFault(r)
    \/ Crash(r)

Next == \E r \in Runners :
    Invoke(r) \/ Progress(r) \/ Decline(r) \/ Failure(r)

Spec == Init /\ [][Next]_vars

(* The event loop runs what is ready to run; the prompt is answered.       *)
FairSpec == Spec /\ \A r \in Runners : WF_vars(Progress(r))

---------------------------------------------------------------------------
(* Properties.                                                             *)

InEffect(v) == Defines(v) \subseteq schema

(* A version with a record in _migrations has its whole UP section in      *)
(* effect: executeMigration records only after the query succeeded,        *)
(* whichever runner's requests fail and whoever else runs.  (Commands that *)
(* only go up.)                                                            *)
RecordedInEffect == \A v \in history : InEffect(v)

(* The history never skips a version: no version is recorded before every  *)
(* lower one is, in spite of failures, of targets and step counts, and of  *)
(* other runners (that all go up), because a loop stops at its first       *)
(* failure.                                                                *)
NoGaps == \A v \in history, w \in Versions : w < v => w \in history

(* Two runners never both report having applied a version, and what they   *)
(* report is recorded: of those that execute one migration at once, the    *)
(* unique index lets one record it.  (Commands that only go up.)           *)
ReportsSound ==
    \A r \in Runners :
        /\ results[r] \subseteq history
        /\ \A q \in Runners \ {r} : results[r] \cap results[q] = {}

(* A call that returns did all that it was asked: docs/migrations.md says  *)
(* up to and including the target, and down to it.  Steps cut it short.    *)
ReturnedMeansDone ==
    \A r \in Runners :
        pc[r] = "done" /\ steps[r] >= NoLimit
            => IF direction[r] = "UP"
               THEN \A v \in Versions :
                        target[r] = 0 \/ v <= target[r] => v \in history
               ELSE \A v \in history : target[r] # 0 /\ v <= target[r]

(* A downward call that returns has reverted what it reports: nothing that *)
(* the migrations' UP sections define is left (docs/migrations.md:87,      *)
(* migrateDown reverts every applied migration above the target).  (One    *)
(* runner.)                                                                *)
DownReverts ==
    \A r \in Runners :
        pc[r] = "done" /\ direction[r] = "DOWN"
            => \A v \in results[r] : Defines(v) \cap schema = {}

(* One runner at a time keeps the ledger of SchemaLedger, when each        *)
(* migration's DOWN section removes what its UP section defines.           *)
Ledger == INSTANCE SchemaLedger WITH
    recorded <- history,
    built <- [v \in Versions |-> Defines(v) \cap schema],
    Parts <- [v \in Versions |-> Defines(v)]

KeepsLedger == Ledger!Spec

(* Every call ends: it returns, throws or dies.                            *)
EveryCallEnds ==
    \A r \in Runners : pc[r] \notin Resting ~> pc[r] \in Resting

(* If in the end only `migrate up` is called, without a target, and again  *)
(* and again, then all migrations end up recorded, whatever the earlier    *)
(* calls left behind, provided every statement is guarded.                 *)
FullUp(r) == direction[r] = "UP" /\ target[r] = 0 /\ steps[r] > 0

RetriesConverge ==
    /\ <>[](\A r \in Runners : direction[r] = "UP")
    /\ []<>(\E r \in Runners : pc[r] = "next" /\ FullUp(r))
    => <>[](history = Versions)

---------------------------------------------------------------------------
(* The inductive invariant behind the properties of commands that only go  *)
(* up.                                                                     *)

UpOnly == Commands \subseteq {"UP"}

(* No statement of an up() removes anything.                               *)
Additive ==
    \A v \in Versions : \A i \in DOMAIN Sql("UP", v) :
        Sql("UP", v)[i].op = "DEFINE"

Executing(r) == pc[r] \in {"sql", "record"}
Planned(r) == pc[r] \in {"confirm", "next", "sql", "record"}
Pending(r) == todo[r] \cup IF Executing(r) THEN {cur[r]} ELSE {}
Asked(r, v) == target[r] = 0 \/ v <= target[r]

GoesUp == \A r \in Runners : direction[r] = "UP"

(* What the server has executed of a query without a refusal is in effect, *)
(* and a query is recorded only after its last statement.                  *)
ExecutedInEffect ==
    \A r \in Runners : Executing(r) =>
        /\ ~refused[r] => \A i \in DOMAIN Query(r) :
                              i < at[r] => Query(r)[i].obj \in schema
        /\ pc[r] = "record" => ~refused[r] /\ at[r] > Len(Query(r))

(* A plan skips no version: what lies below one of its entries is in it or *)
(* recorded; and the migration under way is below the rest.                *)
PlanHasNoGaps ==
    \A r \in Runners : Planned(r) =>
        /\ \A v \in Pending(r), w \in Versions :
               w < v => w \in history \cup Pending(r)
        /\ Executing(r) => \A v \in todo[r] : cur[r] < v

(* A call without a step limit has every version it was asked for recorded *)
(* or still in its plan.                                                   *)
PlanIsComplete ==
    \A r \in Runners : steps[r] >= NoLimit =>
        /\ Planned(r) => \A v \in Versions :
                            Asked(r, v) => v \in history \cup Pending(r)
        /\ pc[r] = "done" => \A v \in Versions : Asked(r, v) => v \in history

UpInv ==
    /\ GoesUp
    /\ RecordedInEffect
    /\ ExecutedInEffect
    /\ NoGaps
    /\ PlanHasNoGaps
    /\ ReportsSound
    /\ PlanIsComplete

---------------------------------------------------------------------------
(* The inductive invariant behind the properties of one runner that goes   *)
(* up and down.                                                            *)

Serial == \A q, r \in Runners : q = r

(* up() defines what the UP section defines, down() removes as much, and   *)
(* no two migrations define the same.                                      *)
Does(d, op) ==
    \A v \in Versions :
        /\ \A i \in DOMAIN Sql(d, v) : Sql(d, v)[i].op = op
        /\ Defines(v) = {Sql(d, v)[i].obj : i \in DOMAIN Sql(d, v)}

Invertible ==
    /\ Does("UP", "DEFINE") /\ Does("DOWN", "REMOVE")
    /\ \A v, w \in Versions : v # w => Defines(v) \cap Defines(w) = {}

(* What the server has executed of a query without a refusal is there, or  *)
(* gone; and what a downward call reports is gone altogether.              *)
ExecutedTookEffect ==
    \A r \in Runners : Executing(r) =>
        /\ ~refused[r] => \A i \in DOMAIN Query(r) : i < at[r] =>
               (Query(r)[i].obj \in schema <=> direction[r] = "UP")
        /\ pc[r] = "record" => ~refused[r] /\ at[r] > Len(Query(r))

ReportedIsGone ==
    \A r \in Runners : direction[r] = "DOWN" =>
        \A v \in results[r] : Defines(v) \cap schema = {}

(* A plan continues the history: upward, from the lowest version that is   *)
(* not recorded on; downward, from the highest one that is.                *)
PlanContinues ==
    \A r \in Runners : Planned(r) =>
        IF direction[r] = "UP"
        THEN /\ Pending(r) \cap history = {}
             /\ \A v \in Pending(r), w \in Versions :
                    w < v => w \in history \cup Pending(r)
             /\ Executing(r) => \A v \in todo[r] : cur[r] < v
        ELSE /\ Pending(r) \subseteq history
             /\ \A v \in Pending(r), w \in history :
                    v < w => w \in Pending(r)
             /\ Executing(r) => \A v \in todo[r] : v < cur[r]

(* What a call without a step limit was asked for is done or planned.      *)
Left(r) == IF direction[r] = "UP"
           THEN {v \in Versions \ history : Asked(r, v)}
           ELSE {v \in history : target[r] = 0 \/ v > target[r]}

PlanSuffices ==
    \A r \in Runners : steps[r] >= NoLimit =>
        /\ Planned(r) => Left(r) \subseteq Pending(r)
        /\ pc[r] = "done" => Left(r) = {}

SerialInv ==
    /\ NoGaps
    /\ ExecutedTookEffect
    /\ ReportedIsGone
    /\ PlanContinues
    /\ PlanSuffices
===========================================================================
