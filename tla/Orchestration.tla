--------------------------- MODULE Orchestration ---------------------------
(***************************************************************************)
(* Deploying the migrations to several environments.                       *)
(*                                                                         *)
(*   src/src/orchestration/coordinator.ts, strategy.ts, health.ts,         *)
(*   src/src/cli/orchestrate.ts                                            *)
(*                                                                         *)
(* A deployment runs migrateUp in its environments, one at a time, all at  *)
(* once or batch by batch.  MigrationRunner is what happens inside of one  *)
(* such call; here a migration and its record are one step, which the call *)
(* takes, fails to take, or takes without learning that it did.            *)
(***************************************************************************)
EXTENDS Naturals, Sequences, FiniteSets

CONSTANTS
    Environments,   \* the configured environments, a database each
    Versions,       \* the migrations that are deployed
    Plans,          \* the plans that deploy() is called with
    MaxFaults       \* bound: failed requests and crashes in one behaviour

Strategies == {"sequential", "parallel", "rolling", "canary"}

(* The list of environments may repeat a name: cmdDeploy takes the names   *)
(* as they are given on the command line.                                  *)
ASSUME PlansAssumption ==
    /\ Plans \subseteq [strategy: Strategies,
                        environments: Seq(Environments),
                        batchSize: Nat]
    /\ Versions \subseteq Nat \ {0}
    /\ IsFiniteSet(Versions)
    /\ MaxFaults \in Nat

VARIABLES
    applied,    \* applied[e]: the versions recorded in e's database
    plan,       \* the plan of the deployment
    phase,      \* where deploy() stands
    batch,      \* the positions of plan.environments deployed at once
    at,         \* at[i]: where the deployment at position i stands
    todo,       \* todo[i]: what is left of the plan migrateUp made there
    thrown,     \* thrown[i]: the deployment at i has failed
    results,    \* what deploy() has pushed on its results
    healthy,    \* canaryDeploy's verdict on its canary
    faults      \* failed requests and crashes so far

deployment == <<plan, phase, batch, results, healthy>>
slots == <<at, todo, thrown>>
vars == <<applied, deployment, slots, faults>>

Stages == {"waiting", "connect", "read", "migrate", "close", "settled"}
Positions == DOMAIN plan.environments
Env(i) == plan.environments[i]

TypeOK ==
    /\ applied \in [Environments -> SUBSET Versions]
    /\ plan \in Plans
    /\ phase \in {"idle", "deploying", "verifying", "returned"}
    /\ batch \subseteq Positions
    /\ at \in [Positions -> Stages]
    /\ todo \in [Positions -> SUBSET Versions]
    /\ thrown \in [Positions -> BOOLEAN]
    /\ \A k \in DOMAIN results :
        results[k] \in [environment: Environments,
                        status: {"SUCCESS", "FAILED", "ROLLED_BACK"}]
    /\ healthy \in BOOLEAN
    /\ faults \in 0 .. MaxFaults

(* Databases without migrations, and no deployment.                        *)
Init ==
    /\ applied = [e \in Environments |-> {}]
    /\ plan \in Plans
    /\ phase = "idle"
    /\ batch = {}
    /\ at = [i \in Positions |-> "waiting"]
    /\ todo = [i \in Positions |-> {}]
    /\ thrown = [i \in Positions |-> FALSE]
    /\ results = <<>>
    /\ healthy = FALSE
    /\ faults = 0

---------------------------------------------------------------------------
(* Strategies.                                                             *)

(* Mutant: a batch one too large.                                          *)
BatchAndOne(p, first) ==
    {i \in DOMAIN p.environments :
        /\ first <= i
        /\ p.strategy = "sequential" => i = first
        /\ p.strategy = "rolling" => i <= first + p.batchSize
        /\ p.strategy = "canary" => (first = 1 => i = 1)}

(* The positions that the strategy deploys at once, from `first` on.       *)
BatchFrom(p, first) ==
    {i \in DOMAIN p.environments :
        /\ first <= i
        /\ p.strategy = "sequential" => i = first
        /\ p.strategy = "rolling" => i < first + p.batchSize
        /\ p.strategy = "canary" => (first = 1 => i = 1)}

(* The environments of the batch start: each gets a client of its own.     *)
Launch(b, stages) ==
    /\ batch' = b
    /\ at' = [i \in DOMAIN stages |-> IF i \in b THEN "connect" ELSE stages[i]]

(* deploy() is called.                                                     *)
Deploy ==
    /\ phase \in {"idle", "returned"}
    /\ \E p \in Plans :
        /\ plan' = p
        /\ Launch(BatchFrom(p, 1), [i \in DOMAIN p.environments |-> "waiting"])
        /\ todo' = [i \in DOMAIN p.environments |-> {}]
        /\ thrown' = [i \in DOMAIN p.environments |-> FALSE]
    /\ phase' = "deploying"
    /\ results' = <<>>
    /\ healthy' = FALSE
    /\ UNCHANGED <<applied, faults>>

---------------------------------------------------------------------------
(* deployFn: one environment.                                              *)

Fault == /\ faults < MaxFaults
         /\ faults' = faults + 1

Goto(i, stage) == at' = [at EXCEPT ![i] = stage]
Throw(i) == thrown' = [thrown EXCEPT ![i] = TRUE]

GetConnection(i) ==
    /\ at[i] = "connect"
    /\ Goto(i, "read")
    /\ UNCHANGED <<applied, deployment, todo, thrown, faults>>

(* Mutant: every migration is planned, recorded or not.                    *)
ReadNothing(i) ==
    /\ at[i] = "read"
    /\ Goto(i, "migrate")
    /\ todo' = [todo EXCEPT ![i] = Versions]
    /\ UNCHANGED <<applied, deployment, thrown, faults>>

(* migrateUp reads the history and makes its plan.                         *)
ReadHistory(i) ==
    /\ at[i] = "read"
    /\ Goto(i, "migrate")
    /\ todo' = [todo EXCEPT ![i] = Versions \ applied[Env(i)]]
    /\ UNCHANGED <<applied, deployment, thrown, faults>>

NextVersion(i, v) ==
    /\ at[i] = "migrate"
    /\ v \in todo[i]
    /\ \A w \in todo[i] : v <= w

Record(i, v) == applied' = [applied EXCEPT ![Env(i)] = @ \cup {v}]

(* Mutant: the migrations taken in any order.                              *)
MigrateInAnyOrder(i) ==
    /\ \E v \in todo[i] :
        /\ at[i] = "migrate"
        /\ v \notin applied[Env(i)]
        /\ Record(i, v)
        /\ todo' = [todo EXCEPT ![i] = @ \ {v}]
    /\ UNCHANGED <<deployment, at, thrown, faults>>

(* The next migration is executed and recorded.                            *)
Migrate(i) ==
    /\ \E v \in todo[i] :
        /\ NextVersion(i, v)
        /\ v \notin applied[Env(i)]
        /\ Record(i, v)
        /\ todo' = [todo EXCEPT ![i] = @ \ {v}]
    /\ UNCHANGED <<deployment, at, thrown, faults>>

(* Another entry for the same database has recorded it meanwhile.          *)
MigrateRefused(i) ==
    /\ \E v \in todo[i] : NextVersion(i, v) /\ v \in applied[Env(i)]
    /\ Throw(i)
    /\ Goto(i, "close")
    /\ UNCHANGED <<applied, deployment, todo, faults>>

(* The record is written and its reply lost.                               *)
MigrateReplyLost(i) ==
    /\ \E v \in todo[i] :
        /\ NextVersion(i, v)
        /\ v \notin applied[Env(i)]
        /\ Record(i, v)
    /\ Fault
    /\ Throw(i)
    /\ Goto(i, "close")
    /\ UNCHANGED <<deployment, todo>>

MigrateUpReturns(i) ==
    /\ at[i] = "migrate"
    /\ todo[i] = {}
    /\ Goto(i, "close")
    /\ UNCHANGED <<applied, deployment, todo, thrown, faults>>

(* getConnection or migrateUp throws; `finally` still closes the client.   *)
RequestFails(i) ==
    /\ at[i] \in {"connect", "read", "migrate"}
    /\ Fault
    /\ Throw(i)
    /\ Goto(i, "close")
    /\ UNCHANGED <<applied, deployment, todo>>

CloseClient(i) ==
    /\ at[i] = "close"
    /\ Goto(i, "settled")
    /\ UNCHANGED <<applied, deployment, todo, thrown, faults>>

(* close() throws, which fails the deployment whatever it achieved.        *)
CloseFails(i) ==
    /\ at[i] = "close"
    /\ Fault
    /\ Throw(i)
    /\ Goto(i, "settled")
    /\ UNCHANGED <<applied, deployment, todo>>

---------------------------------------------------------------------------
(* The strategy, once every environment of the batch has settled.          *)

BatchSettled == phase = "deploying" /\ \A i \in batch : at[i] = "settled"
BatchFailed == \E i \in batch : thrown[i]

(* Mutant: a result that only says that the environment is settled.        *)
ResultSettled(i) == [environment |-> Env(i), status |-> "SUCCESS"]

Result(i) ==
    [environment |-> Env(i), status |-> IF thrown[i] THEN "FAILED"
                                                     ELSE "SUCCESS"]

(* Mutant: the results of the last batch replace those before.             *)
PushedAlone ==
    [k \in 1 .. Cardinality(batch) |-> Result(Len(results) + k)]

(* results.push(...batchResults): a batch is a run of positions.           *)
Pushed ==
    [i \in DOMAIN results \cup batch |->
        IF i \in batch THEN Result(i) ELSE results[i]]

(* Where the loop goes on.                                                 *)
NextFirst == Len(results) + Cardinality(batch) + 1

IsCanary == plan.strategy = "canary" /\ results = <<>> /\ batch # {}

(* The loop's condition fails, or the strategy breaks out of it.           *)
LoopEnds ==
    \/ NextFirst \notin Positions
    \/ BatchFailed
    \/ plan.strategy = "parallel"

(* Another batch.  With a batch size of 0, the same empty one for ever.    *)
NextBatch ==
    /\ BatchSettled
    /\ ~LoopEnds /\ ~IsCanary
    /\ results' = Pushed
    /\ Launch(BatchFrom(plan, NextFirst), at)
    /\ UNCHANGED <<applied, plan, phase, todo, thrown, healthy, faults>>

(* The canary is deployed: it is verified before anything else.            *)
Verify ==
    /\ BatchSettled
    /\ IsCanary /\ ~BatchFailed
    /\ phase' = "verifying"
    /\ results' = Pushed
    /\ batch' = {}
    /\ UNCHANGED <<applied, plan, at, todo, thrown, healthy, faults>>

Return ==
    /\ BatchSettled
    /\ LoopEnds
    /\ ~IsCanary \/ BatchFailed
    /\ phase' = "returned"
    /\ results' = Pushed
    /\ batch' = {}
    /\ UNCHANGED <<applied, plan, at, todo, thrown, healthy, faults>>

(* checkEnvironmentHealth says that the canary is healthy.                 *)
CanaryHealthy ==
    /\ phase = "verifying"
    /\ phase' = "deploying"
    /\ healthy' = TRUE
    /\ Launch(BatchFrom(plan, 2), at)
    /\ UNCHANGED <<applied, plan, todo, thrown, results, faults>>

(* It is not, or cannot be reached: the result is renamed, nothing else.   *)
CanaryUnhealthy ==
    /\ phase = "verifying"
    /\ phase' = "returned"
    /\ results' = [results EXCEPT ![1].status = "ROLLED_BACK"]
    /\ UNCHANGED <<applied, plan, batch, slots, healthy, faults>>

(* The deploying process dies.                                             *)
Crash ==
    /\ phase \in {"deploying", "verifying"}
    /\ Fault
    /\ phase' = "idle"
    /\ batch' = {}
    /\ results' = <<>>
    /\ at' = [i \in Positions |-> "waiting"]
    /\ todo' = [i \in Positions |-> {}]
    /\ thrown' = [i \in Positions |-> FALSE]
    /\ UNCHANGED <<applied, plan, healthy>>

---------------------------------------------------------------------------
Progress(i) ==
    \/ GetConnection(i)
    \/ ReadHistory(i)
    \/ Migrate(i)
    \/ MigrateRefused(i)
    \/ MigrateUpReturns(i)
    \/ CloseClient(i)

Failure(i) ==
    \/ MigrateReplyLost(i)
    \/ RequestFails(i)
    \/ CloseFails(i)

Strategy ==
    \/ NextBatch
    \/ Verify
    \/ Return
    \/ CanaryHealthy
    \/ CanaryUnhealthy

Next ==
    \/ Deploy
    \/ \E i \in Positions : Progress(i) \/ Failure(i)
    \/ Strategy
    \/ Crash

Spec == Init /\ [][Next]_vars

(* Pending promises are settled, and what waits for them goes on.          *)
FairSpec ==
    Spec /\ WF_vars((\E i \in Positions : Progress(i)) \/ Strategy)

---------------------------------------------------------------------------
(* Properties.                                                             *)

(* An environment reported SUCCESS has every migration: deployFn's await   *)
(* of migrateUp comes before the result, and a plan that another entry for *)
(* the same database has made stale fails instead of skipping.             *)
SuccessMeansMigrated ==
    \A k \in DOMAIN results :
        results[k].status # "FAILED"
            => applied[results[k].environment] = Versions

(* A batch size of 0, which cli/orchestrate.ts accepts: rollingDeploy      *)
(* never advances.                                                         *)
Loops == plan.strategy = "rolling" /\ plan.batchSize = 0

(* The number of the batch that position i of plan p belongs to.           *)
BatchOf(p, i) ==
    CASE p.strategy = "sequential" -> i
      [] p.strategy = "parallel" -> 1
      [] p.strategy = "rolling" -> (i - 1) \div p.batchSize
      [] p.strategy = "canary" -> IF i = 1 THEN 0 ELSE 1

(* No environment is touched before every earlier batch has succeeded: the *)
(* strategies "stop on first failure" (docs/orchestration.md:70), and a    *)
(* canary is found healthy before the others (docs/orchestration.md:72).   *)
(* The variables have their types.                                         *)
StopsAtFailure ==
    /\ TypeOK
    /\ ~Loops => \A i, j \in Positions :
        /\ at[j] # "waiting"
        /\ BatchOf(plan, i) < BatchOf(plan, j)
        => /\ at[i] = "settled" /\ ~thrown[i]
           /\ plan.strategy = "canary" => healthy

(* deploy() accounts for all it did: its results are those of the first    *)
(* positions of the plan, in order, and behind them nothing was touched.   *)
ResultsAccount ==
    phase = "returned" =>
        /\ Len(results) <= Len(plan.environments)
        /\ \A i \in Positions :
            IF i \in DOMAIN results
            THEN /\ results[i].environment = Env(i)
                 /\ (results[i].status = "FAILED") <=> thrown[i]
            ELSE at[i] = "waiting"

(* In each database the migrations are recorded one by one, lowest first,  *)
(* and for ever, whichever deployments fail, die or overlap.               *)
Ledger(e) == INSTANCE SchemaLedger WITH
    recorded <- applied[e],
    built <- [v \in Versions |-> {}],
    Parts <- [v \in Versions |-> {}]

LedgerStep(e) == Ledger(e)!Next \/ UNCHANGED Ledger(e)!vars

KeepsLedgers ==
    /\ \A e \in Environments : Ledger(e)!Init
    /\ [][\A e \in Environments : LedgerStep(e)]_vars

(* The inductive invariant of the proofs: what a plan of migrateUp lacks   *)
(* is recorded; an environment that is through has every migration, or has *)
(* thrown; a canary that is being verified was reported a success.         *)
PlansCover ==
    \A i \in Positions :
        at[i] = "migrate" => Versions \subseteq applied[Env(i)] \cup todo[i]

ThroughMeansMigrated ==
    \A i \in Positions :
        at[i] \in {"close", "settled"} /\ ~thrown[i]
            => applied[Env(i)] = Versions

CanarySucceeded ==
    phase = "verifying"
        => \A k \in DOMAIN results : results[k].status = "SUCCESS"

DeployInv ==
    /\ TypeOK /\ PlansCover /\ ThroughMeansMigrated /\ CanarySucceeded
    /\ SuccessMeansMigrated

(* The batch is the run of positions behind the results, and behind it     *)
(* nothing was touched; the results are those of the positions they stand  *)
(* at; and while the loop goes on, no batch before this one has failed.    *)
InOrder ==
    /\ results \in Seq([environment: Environments,
                        status: {"SUCCESS", "FAILED", "ROLLED_BACK"}])
    /\ \E m \in Len(results) .. Len(plan.environments) :
        /\ batch = (Len(results) + 1) .. m
        /\ \A i \in Positions : i > m => at[i] = "waiting"

ResultsInPlace ==
    \A i \in DOMAIN results :
        /\ at[i] = "settled"
        /\ results[i].environment = Env(i)
        /\ (results[i].status = "FAILED") <=> thrown[i]

LoopInv ==
    /\ phase # "deploying" => batch = {}
    /\ phase = "verifying" => plan.strategy = "canary" /\ Len(results) = 1
    /\ phase = "deploying" =>
        /\ batch = BatchFrom(plan, Len(results) + 1)
        /\ plan.strategy = "canary" /\ results # <<>> => healthy
        /\ plan.strategy = "rolling" =>
            \E k \in 0 .. Len(results) : Len(results) = k * plan.batchSize
    /\ phase \in {"deploying", "verifying"} =>
        \A i \in DOMAIN results : ~thrown[i]

RunInv == InOrder /\ ResultsInPlace /\ LoopInv /\ StopsAtFailure

(* If all environments are deployed to again and again, by any strategy    *)
(* that does not stop at an unhealthy canary, all end up migrated,         *)
(* whatever the earlier deployments left behind.  Every deployment         *)
(* returns, or its process dies; but for the one that never advances.      *)
Full ==
    /\ ~Loops
    /\ plan.strategy # "canary"
    /\ \A e \in Environments : \E i \in Positions : Env(i) = e

RedeploysConverge ==
    /\ phase = "deploying" /\ ~Loops ~> phase \in {"returned", "idle"}
    /\ <>[]Full /\ []<>(phase = "deploying")
        => <>[](applied = [e \in Environments |-> Versions])
===========================================================================
