------------------------ MODULE OrchestrationProofs ------------------------
(***************************************************************************)
(* Theorems about Orchestration, for any environments, any set of plans,   *)
(* whatever environments they name or repeat, any versions and any number  *)
(* of failures.                                                            *)
(***************************************************************************)
EXTENDS Orchestration, FiniteSetTheorems, TLAPS

LEMMA PlanHasEnvironments ==
    ASSUME TypeOK, NEW i \in Positions
    PROVE  Env(i) \in Environments
<1>1. plan.environments \in Seq(Environments)
  BY PlansAssumption DEF TypeOK
<1>. QED
  BY <1>1 DEF Positions, Env

LEMMA InitDeploy == Init => DeployInv
<1>. SUFFICES ASSUME Init PROVE DeployInv
  OBVIOUS
<1>1. faults \in 0 .. MaxFaults
  BY PlansAssumption DEF Init
<1>2. TypeOK
  <2>1. DOMAIN results = {}
    BY DEF Init
  <2>. QED
    BY <1>1, <2>1 DEF Init, TypeOK, Stages
<1>3. /\ PlansCover /\ ThroughMeansMigrated /\ CanarySucceeded
      /\ SuccessMeansMigrated
  BY DEF Init, PlansCover, ThroughMeansMigrated, CanarySucceeded,
         SuccessMeansMigrated
<1>. QED
  BY <1>2, <1>3 DEF DeployInv

(* A new deployment begins with nothing but its plan.                      *)
LEMMA DeployStep ==
    ASSUME DeployInv, Deploy
    PROVE  DeployInv'
<1>1. PICK p \in Plans :
        /\ plan' = p
        /\ batch' = BatchFrom(p, 1)
        /\ at' = [i \in DOMAIN p.environments |->
                    IF i \in BatchFrom(p, 1) THEN "connect" ELSE "waiting"]
        /\ todo' = [i \in DOMAIN p.environments |-> {}]
        /\ thrown' = [i \in DOMAIN p.environments |-> FALSE]
  BY DEF Deploy, Launch
<1>2. TypeOK'
  <2>1. DOMAIN results' = {}
    BY DEF Deploy
  <2>2. BatchFrom(p, 1) \subseteq DOMAIN p.environments
    BY DEF BatchFrom
  <2>. QED
    BY <1>1, <2>1, <2>2 DEF Deploy, DeployInv, TypeOK, Positions, Stages
<1>3. PlansCover' /\ ThroughMeansMigrated'
  BY <1>1 DEF PlansCover, ThroughMeansMigrated, Positions
<1>4. CanarySucceeded' /\ SuccessMeansMigrated'
  BY DEF Deploy, CanarySucceeded, SuccessMeansMigrated
<1>. QED
  BY <1>2, <1>3, <1>4 DEF DeployInv

(* A migration is recorded: the lowest of the plan, which is the lowest    *)
(* that the database lacks.                                                *)
LEMMA RecordStep ==
    ASSUME DeployInv, NEW i \in Positions, Migrate(i) \/ MigrateReplyLost(i)
    PROVE  /\ DeployInv'
           /\ \E v \in Versions :
                /\ v \notin applied[Env(i)]
                /\ \A w \in Versions : w < v => w \in applied[Env(i)]
                /\ applied' = [applied EXCEPT ![Env(i)] = @ \cup {v}]
<1>1. TypeOK /\ Env(i) \in Environments
  BY PlanHasEnvironments DEF DeployInv
<1>2. PICK v \in todo[i] :
        /\ NextVersion(i, v) /\ v \notin applied[Env(i)] /\ Record(i, v)
        /\ \/ /\ todo' = [todo EXCEPT ![i] = @ \ {v}]
              /\ UNCHANGED <<at, thrown, faults>>
           \/ /\ at' = [at EXCEPT ![i] = "close"]
              /\ thrown' = [thrown EXCEPT ![i] = TRUE]
              /\ faults' = faults + 1 /\ faults < MaxFaults
              /\ todo' = todo
  BY DEF Migrate, MigrateReplyLost, Fault, Throw, Goto
<1>3. /\ applied' = [applied EXCEPT ![Env(i)] = @ \cup {v}]
      /\ v \in Versions /\ at[i] = "migrate"
      /\ UNCHANGED <<plan, phase, batch, results, healthy>>
  BY <1>1, <1>2 DEF TypeOK, Record, NextVersion, Migrate, MigrateReplyLost,
                    deployment
<1>4. \A w \in Versions : w < v => w \in applied[Env(i)]
  <2>. SUFFICES ASSUME NEW w \in Versions, w < v, w \notin applied[Env(i)]
                PROVE  FALSE
    OBVIOUS
  <2>1. w \in todo[i]
    BY <1>3 DEF DeployInv, PlansCover
  <2>2. v <= w
    BY <1>2, <2>1 DEF NextVersion
  <2>. QED
    BY <1>3, <2>2, PlansAssumption
<1>5. \A e \in Environments :
        /\ applied[e] \subseteq applied'[e]
        /\ applied'[e] \subseteq Versions
  BY <1>1, <1>3 DEF TypeOK
<1>6. TypeOK'
  <2>1. faults' \in 0 .. MaxFaults
    BY <1>1, <1>2, PlansAssumption DEF TypeOK
  <2>. QED
    BY <1>1, <1>2, <1>3, <2>1 DEF TypeOK, Stages, Positions
<1>7. PlansCover'
  <2>. SUFFICES ASSUME NEW j \in Positions, at'[j] = "migrate",
                       NEW u \in Versions, u \notin todo'[j]
                PROVE  u \in applied'[Env(j)]
    BY <1>3 DEF PlansCover, Positions, Env
  <2>1. Env(j) \in Environments
    BY <1>1, PlanHasEnvironments
  <2>2. at[j] = "migrate"
    BY <1>1, <1>2 DEF TypeOK
  <2>3. u \in applied[Env(j)] \/ u \in todo[j]
    BY <2>2 DEF DeployInv, PlansCover
  <2>4. CASE u \in applied[Env(j)]
    BY <1>5, <2>1, <2>4
  <2>5. CASE u \in todo[j]
    BY <1>1, <1>2, <1>3, <2>1, <2>5 DEF TypeOK
  <2>. QED
    BY <2>3, <2>4, <2>5
<1>8. ThroughMeansMigrated'
  <2>. SUFFICES ASSUME NEW j \in Positions,
                       at'[j] \in {"close", "settled"}, ~thrown'[j]
                PROVE  applied'[Env(j)] = Versions
    BY <1>3 DEF ThroughMeansMigrated, Positions, Env
  <2>1. at[j] \in {"close", "settled"} /\ ~thrown[j]
    BY <1>1, <1>2 DEF TypeOK
  <2>2. applied[Env(j)] = Versions /\ Env(j) \in Environments
    BY <1>1, <2>1, PlanHasEnvironments DEF DeployInv, ThroughMeansMigrated
  <2>. QED
    BY <1>5, <2>2
<1>9. CanarySucceeded'
  BY <1>3 DEF DeployInv, CanarySucceeded
<1>10. SuccessMeansMigrated'
  <2>. SUFFICES ASSUME NEW k \in DOMAIN results, results[k].status # "FAILED"
                PROVE  applied'[results[k].environment] = Versions
    BY <1>3 DEF SuccessMeansMigrated
  <2>1. results[k].environment \in Environments
    BY <1>1 DEF TypeOK
  <2>2. applied[results[k].environment] = Versions
    BY DEF DeployInv, SuccessMeansMigrated
  <2>. QED
    BY <1>5, <2>1, <2>2
<1>. QED
  BY <1>2, <1>3, <1>4, <1>6, <1>7, <1>8, <1>9, <1>10 DEF DeployInv

(* The other steps of one environment leave the databases alone.           *)
LEMMA EnvironmentStep ==
    ASSUME DeployInv, NEW i \in Positions,
           \/ GetConnection(i) \/ ReadHistory(i) \/ MigrateRefused(i)
           \/ MigrateUpReturns(i) \/ CloseClient(i)
           \/ RequestFails(i) \/ CloseFails(i)
    PROVE  DeployInv' /\ applied' = applied
<1>. DEFINE NextFaults ==
       faults' = faults \/ (faults < MaxFaults /\ faults' = faults + 1)
<1>1. TypeOK /\ Env(i) \in Environments
  BY PlanHasEnvironments DEF DeployInv
<1>2. UNCHANGED <<applied, plan, phase, batch, results, healthy>>
  BY DEF GetConnection, ReadHistory, MigrateRefused, MigrateUpReturns,
         CloseClient, RequestFails, CloseFails, deployment
<1>3. \/ /\ at' = [at EXCEPT ![i] = "read"]
         /\ UNCHANGED <<todo, thrown, faults>>
      \/ /\ at' = [at EXCEPT ![i] = "migrate"]
         /\ todo' = [todo EXCEPT ![i] = Versions \ applied[Env(i)]]
         /\ UNCHANGED <<thrown, faults>>
      \/ /\ at' = [at EXCEPT ![i] = "close"]
         /\ at[i] = "migrate" /\ todo[i] = {}
         /\ UNCHANGED <<todo, thrown, faults>>
      \/ /\ at' = [at EXCEPT ![i] = "settled"]
         /\ at[i] = "close"
         /\ UNCHANGED <<todo, thrown, faults>>
      \/ /\ \/ at' = [at EXCEPT ![i] = "close"]
            \/ at' = [at EXCEPT ![i] = "settled"]
         /\ thrown' = [thrown EXCEPT ![i] = TRUE]
         /\ UNCHANGED todo
         /\ NextFaults
  BY DEF GetConnection, ReadHistory, MigrateRefused, MigrateUpReturns,
         CloseClient, RequestFails, CloseFails, Fault, Throw, Goto
<1>4. TypeOK'
  <2>1. faults' \in 0 .. MaxFaults
    BY <1>1, <1>3, PlansAssumption DEF TypeOK
  <2>. QED
    BY <1>1, <1>2, <1>3, <2>1 DEF TypeOK, Stages, Positions
<1>5. PlansCover'
  BY <1>1, <1>2, <1>3 DEF DeployInv, PlansCover, Positions, Env, TypeOK
<1>6. ThroughMeansMigrated'
  <2>. SUFFICES ASSUME NEW j \in Positions,
                       at'[j] \in {"close", "settled"}, ~thrown'[j]
                PROVE  applied[Env(j)] = Versions
    BY <1>2 DEF ThroughMeansMigrated, Positions, Env
  <2>1. \/ at[j] \in {"close", "settled"} /\ ~thrown[j]
        \/ j = i /\ at[i] = "migrate" /\ todo[i] = {}
    BY <1>1, <1>3 DEF TypeOK
  <2>2. CASE at[j] \in {"close", "settled"} /\ ~thrown[j]
    BY <2>2 DEF DeployInv, ThroughMeansMigrated
  <2>3. CASE j = i /\ at[i] = "migrate" /\ todo[i] = {}
    BY <1>1, <2>3 DEF DeployInv, PlansCover, TypeOK
  <2>. QED
    BY <2>1, <2>2, <2>3
<1>7. CanarySucceeded' /\ SuccessMeansMigrated'
  BY <1>2 DEF DeployInv, CanarySucceeded, SuccessMeansMigrated
<1>. QED
  BY <1>2, <1>4, <1>5, <1>6, <1>7 DEF DeployInv

(* What a batch pushes on the results is true of its environments.         *)
LEMMA PushedIsTrue ==
    ASSUME DeployInv, BatchSettled, NEW k \in DOMAIN Pushed
    PROVE  /\ Pushed[k] \in [environment: Environments,
                              status: {"SUCCESS", "FAILED", "ROLLED_BACK"}]
           /\ Pushed[k].status # "FAILED"
                => applied[Pushed[k].environment] = Versions
<1>1. CASE k \in batch
  <2>1. k \in Positions /\ Env(k) \in Environments /\ at[k] = "settled"
    BY <1>1, PlanHasEnvironments DEF DeployInv, TypeOK, BatchSettled
  <2>2. Pushed[k] = Result(k)
    BY <1>1 DEF Pushed
  <2>3. ~thrown[k] => applied[Env(k)] = Versions
    BY <2>1 DEF DeployInv, ThroughMeansMigrated
  <2>. QED
    BY <2>1, <2>2, <2>3 DEF Result
<1>2. CASE k \notin batch
  <2>1. k \in DOMAIN results /\ Pushed[k] = results[k]
    BY <1>2 DEF Pushed
  <2>. QED
    BY <2>1 DEF DeployInv, TypeOK, SuccessMeansMigrated
<1>. QED
  BY <1>1, <1>2

(* The strategy's own steps start environments or end the deployment.      *)
LEMMA StrategyStep ==
    ASSUME DeployInv, Strategy
    PROVE  DeployInv' /\ applied' = applied
<1>1. /\ TypeOK /\ PlansCover /\ ThroughMeansMigrated
      /\ UNCHANGED <<applied, plan, todo, thrown, faults>>
  BY DEF DeployInv, Strategy, NextBatch, Verify, Return, CanaryHealthy,
         CanaryUnhealthy, slots
<1>2. /\ batch' \subseteq Positions
      /\ at' \in [Positions -> Stages]
      /\ \A i \in Positions : at'[i] \in {at[i], "connect"}
  BY <1>1 DEF Strategy, NextBatch, Verify, Return, CanaryHealthy,
              CanaryUnhealthy, slots, Launch, BatchFrom, TypeOK, Positions,
              Stages
<1>3. /\ phase' \in {"idle", "deploying", "verifying", "returned"}
      /\ healthy' \in BOOLEAN
  BY <1>1 DEF Strategy, NextBatch, Verify, Return, CanaryHealthy,
              CanaryUnhealthy, TypeOK
<1>4. /\ \A k \in DOMAIN results' :
            results'[k] \in [environment: Environments,
                             status: {"SUCCESS", "FAILED", "ROLLED_BACK"}]
      /\ SuccessMeansMigrated'
      /\ CanarySucceeded'
  <2>1. CASE NextBatch \/ Return
    <3>1. BatchSettled /\ results' = Pushed /\ phase' # "verifying"
      BY <2>1 DEF NextBatch, Return, BatchSettled
    <3>. QED
      BY <1>1, <3>1, PushedIsTrue DEF SuccessMeansMigrated, CanarySucceeded
  <2>2. CASE Verify
    <3>1. BatchSettled /\ results' = Pushed
      BY <2>2 DEF Verify
    <3>2. \A k \in DOMAIN Pushed : Pushed[k].status = "SUCCESS"
      BY <2>2 DEF Verify, IsCanary, BatchFailed, Pushed, Result
    <3>. QED
      BY <1>1, <3>1, <3>2, PushedIsTrue
         DEF SuccessMeansMigrated, CanarySucceeded
  <2>3. CASE CanaryHealthy
    BY <1>1, <2>3 DEF CanaryHealthy, DeployInv, TypeOK, SuccessMeansMigrated,
                      CanarySucceeded
  <2>4. CASE CanaryUnhealthy
    <3>1. /\ \A k \in DOMAIN results : results[k].status = "SUCCESS"
          /\ results' = [results EXCEPT ![1].status = "ROLLED_BACK"]
          /\ phase' = "returned"
      BY <2>4 DEF CanaryUnhealthy, DeployInv, CanarySucceeded
    <3>2. \A k \in DOMAIN results :
            applied[results[k].environment] = Versions
      BY <3>1 DEF DeployInv, SuccessMeansMigrated
    <3>3. /\ DOMAIN results' = DOMAIN results
          /\ \A k \in DOMAIN results :
                /\ results'[k] \in
                     [environment: Environments,
                      status: {"SUCCESS", "FAILED", "ROLLED_BACK"}]
                /\ results'[k].environment = results[k].environment
      BY <1>1, <3>1 DEF TypeOK
    <3>. QED
      BY <1>1, <3>1, <3>2, <3>3 DEF SuccessMeansMigrated, CanarySucceeded
  <2>. QED
    BY <2>1, <2>2, <2>3, <2>4 DEF Strategy
<1>5. TypeOK'
  BY <1>1, <1>2, <1>3, <1>4 DEF TypeOK, Positions
<1>6. PlansCover' /\ ThroughMeansMigrated'
  BY <1>1, <1>2 DEF PlansCover, ThroughMeansMigrated, Positions, Env
<1>. QED
  BY <1>1, <1>4, <1>5, <1>6 DEF DeployInv

LEMMA CrashStep ==
    ASSUME DeployInv, Crash
    PROVE  DeployInv' /\ applied' = applied
<1>1. faults' \in 0 .. MaxFaults
  BY PlansAssumption DEF Crash, Fault, DeployInv, TypeOK
<1>2. TypeOK'
  BY <1>1 DEF Crash, DeployInv, TypeOK, Positions, Stages
<1>3. PlansCover' /\ ThroughMeansMigrated'
  BY DEF Crash, PlansCover, ThroughMeansMigrated, Positions
<1>4. CanarySucceeded' /\ SuccessMeansMigrated' /\ applied' = applied
  BY DEF Crash, CanarySucceeded, SuccessMeansMigrated
<1>. QED
  BY <1>2, <1>3, <1>4 DEF DeployInv

---------------------------------------------------------------------------
(* The inductive invariant.                                                *)
THEOREM DeployInvariant == Spec => []DeployInv
<1>1. DeployInv /\ [Next]_vars => DeployInv'
  <2>. SUFFICES ASSUME DeployInv, [Next]_vars PROVE DeployInv'
    OBVIOUS
  <2>1. CASE Deploy
    BY <2>1, DeployStep
  <2>2. CASE \E i \in Positions : Progress(i) \/ Failure(i)
    BY <2>2, RecordStep, EnvironmentStep DEF Progress, Failure
  <2>3. CASE Strategy
    BY <2>3, StrategyStep
  <2>4. CASE Crash
    BY <2>4, CrashStep
  <2>5. CASE UNCHANGED vars
    BY <2>5 DEF vars, deployment, slots, DeployInv, TypeOK, PlansCover,
           ThroughMeansMigrated, CanarySucceeded, SuccessMeansMigrated,
           Positions, Env
  <2>. QED
    BY <2>1, <2>2, <2>3, <2>4, <2>5 DEF Next
<1>. QED
  BY <1>1, InitDeploy, PTL DEF Spec

(* An environment that is reported SUCCESS has every migration.            *)
THEOREM ReportedIsMigrated == Spec => []SuccessMeansMigrated
<1>1. DeployInv => SuccessMeansMigrated
  BY DEF DeployInv
<1>. QED
  BY <1>1, DeployInvariant, PTL

(* Every deployment, of any plan, keeps the ledger of each database: the   *)
(* migrations are recorded one by one, lowest first, and for ever.         *)
THEOREM DeploymentsKeepLedgers == Spec => KeepsLedgers
<1>1. Init => \A e \in Environments : Ledger(e)!Init
  BY DEF Init, Ledger!Init
<1>2. DeployInv /\ [Next]_vars => [\A e \in Environments : LedgerStep(e)]_vars
  <2>. SUFFICES ASSUME DeployInv, Next, NEW e \in Environments
                PROVE  LedgerStep(e)
    OBVIOUS
  <2>1. CASE applied' = applied
    BY <2>1 DEF LedgerStep, Ledger!vars
  <2>2. CASE \E i \in Positions : Migrate(i) \/ MigrateReplyLost(i)
    <3>1. PICK i \in Positions, v \in Versions :
            /\ v \notin applied[Env(i)]
            /\ \A w \in Versions : w < v => w \in applied[Env(i)]
            /\ applied' = [applied EXCEPT ![Env(i)] = @ \cup {v}]
      BY <2>2, RecordStep
    <3>2. /\ applied \in [Environments -> SUBSET Versions]
          /\ Env(i) \in Environments
      BY PlanHasEnvironments DEF DeployInv, TypeOK
    <3>3. CASE e = Env(i)
      <4>1. applied'[e] = applied[e] \cup {v}
        BY <3>1, <3>2, <3>3
      <4>2. Ledger(e)!Record(v)
        BY <3>1, <3>3, <4>1 DEF Ledger!Record, Ledger!LowestUnrecorded
      <4>. QED
        BY <4>2 DEF LedgerStep, Ledger!Next
    <3>4. CASE e # Env(i)
      BY <3>1, <3>2, <3>4 DEF LedgerStep, Ledger!vars
    <3>. QED
      BY <3>3, <3>4
  <2>3. \/ applied' = applied
        \/ \E i \in Positions : Migrate(i) \/ MigrateReplyLost(i)
    BY EnvironmentStep, StrategyStep, CrashStep
       DEF Next, Deploy, Progress, Failure
  <2>. QED
    BY <2>1, <2>2, <2>3
<1>. QED
  BY <1>1, <1>2, DeployInvariant, PTL DEF Spec, KeepsLedgers

---------------------------------------------------------------------------
(* The order of a deployment.                                              *)

LEMMA DivBetween ==
    ASSUME NEW b \in Nat \ {0}, NEW k \in Nat, NEW x \in Nat,
           k * b <= x, x < k * b + b
    PROVE  x \div b = k
BY SMT

LEMMA DivMonotone ==
    ASSUME NEW b \in Nat \ {0}, NEW x \in Nat, NEW y \in Nat, x <= y
    PROVE  x \div b \in Nat /\ y \div b \in Nat /\ x \div b <= y \div b
BY SMT

LEMMA PlanShape ==
    ASSUME NEW p \in Plans
    PROVE  /\ p.strategy \in Strategies
           /\ p.batchSize \in Nat
           /\ Len(p.environments) \in Nat
           /\ DOMAIN p.environments = 1 .. Len(p.environments)
<1>1. p \in [strategy: Strategies, environments: Seq(Environments),
             batchSize: Nat]
  BY PlansAssumption
<1>. QED
  BY <1>1

(* Every strategy takes a run of positions from where it goes on.          *)
LEMMA BatchIsRun ==
    ASSUME NEW p \in Plans, NEW n \in Nat, n <= Len(p.environments)
    PROVE  \E m \in n .. Len(p.environments) :
             BatchFrom(p, n + 1) = (n + 1) .. m
<1>. DEFINE L == Len(p.environments)
<1>. USE PlanShape
<1>1. CASE p.strategy = "sequential"
  <2>1. BatchFrom(p, n + 1) = (n + 1) .. (IF n < L THEN n + 1 ELSE n)
    BY <1>1 DEF BatchFrom
  <2>. QED
    BY <2>1
<1>2. CASE p.strategy = "parallel"
  <2>1. BatchFrom(p, n + 1) = (n + 1) .. L
    BY <1>2 DEF BatchFrom
  <2>. QED
    BY <2>1
<1>3. CASE p.strategy = "rolling"
  <2>1. BatchFrom(p, n + 1) =
          (n + 1) .. (IF n + p.batchSize < L THEN n + p.batchSize ELSE L)
    BY <1>3 DEF BatchFrom
  <2>. QED
    BY <2>1
<1>4. CASE p.strategy = "canary"
  <2>1. BatchFrom(p, n + 1) = (n + 1) .. (IF n = 0 /\ L > 0 THEN 1 ELSE L)
    BY <1>4 DEF BatchFrom
  <2>. QED
    BY <2>1
<1>. QED
  BY <1>1, <1>2, <1>3, <1>4 DEF Strategies

(* The batches are numbered in the order of the positions, and one that    *)
(* the loop takes has one number.                                          *)
LEMMA BatchesAreOrdered ==
    ASSUME NEW p \in Plans, ~(p.strategy = "rolling" /\ p.batchSize = 0),
           NEW i \in DOMAIN p.environments, NEW j \in DOMAIN p.environments,
           BatchOf(p, i) < BatchOf(p, j)
    PROVE  i < j
<1>1. /\ i \in Nat \ {0} /\ j \in Nat \ {0}
      /\ p.strategy \in Strategies /\ p.batchSize \in Nat
  BY PlanShape
<1>2. CASE p.strategy = "rolling"
  <2>1. /\ BatchOf(p, i) = (i - 1) \div p.batchSize
        /\ BatchOf(p, j) = (j - 1) \div p.batchSize
    BY <1>2 DEF BatchOf
  <2>2. p.batchSize \in Nat \ {0} /\ i - 1 \in Nat /\ j - 1 \in Nat
    BY <1>1, <1>2
  <2>3. CASE j <= i
    <3>1. j - 1 <= i - 1
      BY <1>1, <2>3
    <3>2. /\ BatchOf(p, j) \in Nat /\ BatchOf(p, i) \in Nat
          /\ BatchOf(p, j) <= BatchOf(p, i)
      BY <2>1, <2>2, <3>1, DivMonotone
    <3>. QED
      BY <3>2
  <2>. QED
    BY <1>1, <2>3
<1>3. CASE p.strategy # "rolling"
  BY <1>1, <1>3 DEF BatchOf, Strategies
<1>. QED
  BY <1>2, <1>3

LEMMA BatchHasOneNumber ==
    ASSUME NEW p \in Plans, ~(p.strategy = "rolling" /\ p.batchSize = 0),
           NEW n \in Nat,
           p.strategy = "rolling" => \E k \in Nat : n = k * p.batchSize,
           NEW i \in BatchFrom(p, n + 1), NEW j \in BatchFrom(p, n + 1)
    PROVE  BatchOf(p, i) = BatchOf(p, j)
<1>1. /\ p.strategy \in Strategies /\ p.batchSize \in Nat
      /\ i \in Nat \ {0} /\ j \in Nat \ {0} /\ n < i /\ n < j
  BY PlanShape DEF BatchFrom
<1>2. CASE p.strategy = "rolling"
  <2>1. PICK k \in Nat : n = k * p.batchSize
    BY <1>2
  <2>2. i < n + 1 + p.batchSize /\ j < n + 1 + p.batchSize
    BY <1>2 DEF BatchFrom
  <2>3. p.batchSize \in Nat \ {0}
    BY <1>1, <1>2
  <2>4. /\ i - 1 \in Nat /\ n <= i - 1 /\ i - 1 < n + p.batchSize
        /\ j - 1 \in Nat /\ n <= j - 1 /\ j - 1 < n + p.batchSize
    BY <1>1, <2>2, <2>3
  <2>5. (i - 1) \div p.batchSize = k /\ (j - 1) \div p.batchSize = k
    BY <2>1, <2>3, <2>4, DivBetween
  <2>. QED
    BY <1>2, <2>5 DEF BatchOf
<1>3. CASE p.strategy # "rolling"
  BY <1>1, <1>3 DEF BatchOf, BatchFrom, Strategies
<1>. QED
  BY <1>2, <1>3

(* What is numbered before a batch lies before where the loop took it.     *)
LEMMA LiesBefore ==
    ASSUME NEW p \in Plans, ~(p.strategy = "rolling" /\ p.batchSize = 0),
           NEW n \in Nat, n <= Len(p.environments),
           p.strategy = "rolling" => \E k \in Nat : n = k * p.batchSize,
           NEW i \in DOMAIN p.environments, NEW j \in BatchFrom(p, n + 1),
           BatchOf(p, i) < BatchOf(p, j)
    PROVE  i \in 1 .. n
<1>1. PICK m \in n .. Len(p.environments) : BatchFrom(p, n + 1) = (n + 1) .. m
  BY BatchIsRun
<1>2. DOMAIN p.environments = 1 .. Len(p.environments)
  BY PlanShape
<1>3. i < j
  BY <1>1, <1>2, PlanShape, BatchesAreOrdered
<1>4. CASE i > n
  <2>1. i \in BatchFrom(p, n + 1)
    BY <1>1, <1>2, <1>3, <1>4
  <2>2. BatchOf(p, i) = BatchOf(p, j)
    BY <2>1, BatchHasOneNumber
  <2>3. i < i
    BY <1>2, <2>2, BatchesAreOrdered
  <2>. QED
    BY <1>2, <2>3
<1>. QED
  BY <1>2, <1>4, PlanShape

LEMMA InitRun == Init => RunInv
<1>. SUFFICES ASSUME Init PROVE RunInv
  OBVIOUS
<1>1. TypeOK /\ Len(plan.environments) \in Nat /\ results = <<>>
  BY InitDeploy, PlanShape DEF DeployInv, TypeOK, Init
<1>2. InOrder
  <2>1. /\ batch = (Len(results) + 1) .. 0
        /\ 0 \in Len(results) .. Len(plan.environments)
    BY <1>1 DEF Init
  <2>2. \A i \in Positions : at[i] = "waiting"
    BY DEF Init
  <2>. QED
    BY <1>1, <2>1, <2>2 DEF InOrder
<1>3. ResultsInPlace /\ LoopInv /\ StopsAtFailure
  BY <1>1 DEF Init, ResultsInPlace, LoopInv, StopsAtFailure
<1>. QED
  BY <1>2, <1>3 DEF RunInv

(* A deployment begins with the first batch of its plan.                   *)
LEMMA DeployRuns ==
    ASSUME Deploy, TypeOK'
    PROVE  RunInv'
<1>1. PICK p \in Plans :
        /\ plan' = p
        /\ batch' = BatchFrom(p, 1)
        /\ at' = [i \in DOMAIN p.environments |->
                    IF i \in BatchFrom(p, 1) THEN "connect" ELSE "waiting"]
  BY DEF Deploy, Launch
<1>2. /\ results' = <<>> /\ phase' = "deploying"
      /\ Len(p.environments) \in Nat
  BY PlanShape DEF Deploy
<1>3. PICK m \in 0 .. Len(p.environments) : BatchFrom(p, 0 + 1) = (0 + 1) .. m
  BY <1>2, BatchIsRun
<1>4. InOrder'
  <2>1. \A i \in Positions' : i > m => at'[i] = "waiting"
    BY <1>1, <1>2, <1>3, PlanShape DEF Positions
  <2>. QED
    BY <1>1, <1>2, <1>3, <2>1 DEF InOrder
<1>5. ResultsInPlace' /\ LoopInv'
  <2>1. 0 \in 0 .. Len(results') /\ Len(results') = 0 * p.batchSize
    BY <1>2, PlanShape
  <2>. QED
    BY <1>1, <1>2, <2>1 DEF ResultsInPlace, LoopInv
<1>6. StopsAtFailure'
  <2>. SUFFICES ASSUME ~Loops', NEW i \in Positions', NEW j \in Positions',
                       at'[j] # "waiting", BatchOf(p, i) < BatchOf(p, j)
                PROVE  FALSE
    BY <1>1 DEF StopsAtFailure
  <2>1. j \in BatchFrom(p, 0 + 1)
    BY <1>1 DEF Positions
  <2>2. 0 = 0 * p.batchSize
    BY PlanShape
  <2>3. i \in 1 .. 0
    BY <1>1, <1>2, <2>1, <2>2, LiesBefore DEF Loops, Positions
  <2>. QED
    BY <2>3
<1>. QED
  BY <1>4, <1>5, <1>6 DEF RunInv

(* A step of one environment, which is under way: neither waiting nor      *)
(* settled, hence of the batch, and no later batch was begun.              *)
LEMMA EnvironmentRuns ==
    ASSUME RunInv, DeployInv, TypeOK', NEW i \in Positions,
           Progress(i) \/ Failure(i)
    PROVE  RunInv'
<1>1. /\ at[i] \notin {"waiting", "settled"}
      /\ UNCHANGED <<plan, phase, batch, results, healthy>>
  BY DEF Progress, Failure, GetConnection, ReadHistory, Migrate,
         MigrateRefused, MigrateUpReturns, CloseClient, MigrateReplyLost,
         RequestFails, CloseFails, NextVersion, deployment
<1>2. /\ at'[i] # "waiting"
      /\ \A j \in Positions : j # i => at'[j] = at[j] /\ thrown'[j] = thrown[j]
  BY <1>1 DEF Progress, Failure, GetConnection, ReadHistory, Migrate,
         MigrateRefused, MigrateUpReturns, CloseClient, MigrateReplyLost,
         RequestFails, CloseFails, Goto, Throw, DeployInv, TypeOK
<1>3. /\ \A j \in Positions : at'[j] = "waiting" <=> at[j] = "waiting"
      /\ \A j \in Positions : at[j] = "settled" =>
            at'[j] = "settled" /\ thrown'[j] = thrown[j]
  BY <1>1, <1>2
<1>4. InOrder'
  BY <1>1, <1>3 DEF RunInv, InOrder, Positions
<1>5. DOMAIN results \subseteq Positions
  BY PlanShape DEF RunInv, InOrder, DeployInv, TypeOK, Positions
<1>6. ResultsInPlace'
  BY <1>1, <1>3, <1>5 DEF RunInv, ResultsInPlace, Env
<1>7. LoopInv'
  BY <1>1, <1>3, <1>5 DEF RunInv, LoopInv, ResultsInPlace
<1>8. StopsAtFailure'
  BY <1>1, <1>3 DEF RunInv, StopsAtFailure, Positions, Loops
<1>. QED
  BY <1>4, <1>6, <1>7, <1>8 DEF RunInv

LEMMA RunCardinality ==
    ASSUME NEW n \in Nat, NEW m \in Nat, n <= m
    PROVE  Cardinality((n + 1) .. m) = m - n
<1>1. n + 1 \in Int /\ m \in Int
  OBVIOUS
<1>2. Cardinality((n + 1) .. m) = IF n + 1 > m THEN 0 ELSE m - (n + 1) + 1
  BY <1>1, FS_Interval
<1>. QED
  BY <1>2

LEMMA IsSequence ==
    ASSUME NEW S, NEW m \in Nat, NEW f, f = [i \in 1 .. m |-> f[i]],
           \A i \in 1 .. m : f[i] \in S
    PROVE  f \in Seq(S) /\ Len(f) = m
<1>1. f \in [1 .. m -> S]
  BY Zenon
<1>. QED
  BY <1>1

(* The batch has settled: its results take their places behind the others. *)
LEMMA PushedInPlace ==
    ASSUME DeployInv, RunInv, BatchSettled
    PROVE  \E m \in Len(results) .. Len(plan.environments) :
             /\ batch = (Len(results) + 1) .. m
             /\ NextFirst = m + 1
             /\ Pushed \in Seq([environment: Environments,
                                status: {"SUCCESS", "FAILED", "ROLLED_BACK"}])
             /\ Len(Pushed) = m
             /\ \A i \in Positions : i > m => at[i] = "waiting"
             /\ \A i \in 1 .. m :
                  /\ i \in Positions /\ at[i] = "settled"
                  /\ Pushed[i].environment = Env(i)
                  /\ (Pushed[i].status = "FAILED") <=> thrown[i]
                  /\ ~BatchFailed => ~thrown[i]
<1>1. TypeOK /\ Len(plan.environments) \in Nat
      /\ Positions = 1 .. Len(plan.environments)
  BY PlanShape DEF DeployInv, TypeOK, Positions
<1>2. /\ Len(results) \in Nat /\ DOMAIN results = 1 .. Len(results)
      /\ phase = "deploying"
  BY DEF RunInv, InOrder, BatchSettled
<1>3. PICK m \in Len(results) .. Len(plan.environments) :
        /\ batch = (Len(results) + 1) .. m
        /\ \A i \in Positions : i > m => at[i] = "waiting"
  BY DEF RunInv, InOrder
<1>4. NextFirst = m + 1
  <2>1. m \in Nat /\ Len(results) <= m
    BY <1>1, <1>2
  <2>2. Cardinality(batch) = m - Len(results)
    BY <1>2, <1>3, <2>1, RunCardinality
  <2>. QED
    BY <1>2, <2>1, <2>2 DEF NextFirst
<1>5. DOMAIN Pushed = 1 .. m
  BY <1>1, <1>2, <1>3 DEF Pushed
<1>6. \A i \in 1 .. m :
        Pushed[i] \in [environment: Environments,
                      status: {"SUCCESS", "FAILED", "ROLLED_BACK"}]
  BY <1>5, PushedIsTrue
<1>7. /\ Pushed \in Seq([environment: Environments,
                         status: {"SUCCESS", "FAILED", "ROLLED_BACK"}])
      /\ Len(Pushed) = m
  <2>. DEFINE S == [environment: Environments,
                    status: {"SUCCESS", "FAILED", "ROLLED_BACK"}]
  <2>1. Pushed = [i \in 1 .. m |-> Pushed[i]]
    BY <1>5 DEF Pushed
  <2>2. m \in Nat /\ \A i \in 1 .. m : Pushed[i] \in S
    BY <1>1, <1>2, <1>6
  <2>. HIDE DEF S
  <2>3. Pushed \in Seq(S) /\ Len(Pushed) = m
    BY <2>1, <2>2, IsSequence
  <2>. QED
    BY <2>3 DEF S
<1>8. \A i \in 1 .. m :
        /\ i \in Positions /\ at[i] = "settled"
        /\ Pushed[i].environment = Env(i)
        /\ (Pushed[i].status = "FAILED") <=> thrown[i]
        /\ ~BatchFailed => ~thrown[i]
  <2>. SUFFICES ASSUME NEW i \in 1 .. m
                PROVE  /\ i \in Positions /\ at[i] = "settled"
                       /\ Pushed[i].environment = Env(i)
                       /\ (Pushed[i].status = "FAILED") <=> thrown[i]
                       /\ ~BatchFailed => ~thrown[i]
    OBVIOUS
  <2>1. i \in Positions
    BY <1>1, <1>2, <1>3
  <2>2. CASE i \in batch
    BY <2>1, <2>2 DEF Pushed, Result, BatchSettled, BatchFailed
  <2>3. CASE i \notin batch
    <3>1. i \in DOMAIN results
      BY <1>1, <1>2, <1>3, <2>3
    <3>2. Pushed[i] = results[i]
      BY <2>3, <3>1 DEF Pushed
    <3>. QED
      BY <1>2, <2>1, <3>1, <3>2 DEF RunInv, ResultsInPlace, LoopInv
  <2>. QED
    BY <2>2, <2>3
<1>. QED
  BY <1>3, <1>4, <1>7, <1>8

(* Another batch is launched behind the first n positions, all of which    *)
(* have succeeded.                                                         *)
LEMMA LaunchInOrder ==
    ASSUME TypeOK, TypeOK', StopsAtFailure, NEW n \in Nat,
           n <= Len(plan.environments),
           \A i \in Positions : i > n => at[i] = "waiting",
           \A i \in 1 .. n : at[i] = "settled" /\ ~thrown[i],
           plan.strategy = "rolling" => \E k \in Nat : n = k * plan.batchSize,
           plan.strategy = "canary" /\ n > 0 => healthy',
           healthy => healthy',
           Launch(BatchFrom(plan, n + 1), at), UNCHANGED <<plan, thrown>>
    PROVE  /\ StopsAtFailure'
           /\ \E m \in n .. Len(plan.environments) :
                /\ batch' = (n + 1) .. m
                /\ \A i \in Positions : i > m => at'[i] = "waiting"
           /\ \A i \in 1 .. n : at'[i] = at[i]
<1>1. /\ plan \in Plans /\ Len(plan.environments) \in Nat
      /\ Positions = 1 .. Len(plan.environments) /\ DOMAIN at = Positions
  BY PlanShape DEF TypeOK, Positions
<1>2. PICK m \in n .. Len(plan.environments) :
        BatchFrom(plan, n + 1) = (n + 1) .. m
  BY <1>1, BatchIsRun
<1>3. /\ batch' = (n + 1) .. m
      /\ \A i \in Positions :
            at'[i] = IF i \in (n + 1) .. m THEN "connect" ELSE at[i]
  BY <1>1, <1>2 DEF Launch
<1>4. \A i \in Positions : i > m => at'[i] = "waiting"
  BY <1>1, <1>3
<1>5. \A i \in 1 .. n : i \in Positions /\ at'[i] = at[i]
  BY <1>1, <1>3
<1>6. StopsAtFailure'
  <2>. SUFFICES ASSUME ~Loops, NEW i \in Positions, NEW j \in Positions,
                       at'[j] # "waiting", BatchOf(plan, i) < BatchOf(plan, j)
                PROVE  /\ at'[i] = "settled" /\ ~thrown[i]
                       /\ plan.strategy = "canary" => healthy'
    BY DEF StopsAtFailure, Loops, Positions
  <2>1. CASE at[j] # "waiting"
    <3>1. /\ at[i] = "settled" /\ ~thrown[i]
          /\ plan.strategy = "canary" => healthy
      BY <2>1 DEF StopsAtFailure
    <3>2. i \in 1 .. n
      BY <1>1, <3>1
    <3>. QED
      BY <1>5, <3>1, <3>2
  <2>2. CASE at[j] = "waiting"
    <3>1. j \in BatchFrom(plan, n + 1)
      BY <1>2, <1>3, <2>2
    <3>2. i \in 1 .. n
      BY <1>1, <3>1, LiesBefore DEF Loops, Positions
    <3>. QED
      BY <1>5, <3>2
  <2>. QED
    BY <2>1, <2>2
<1>. QED
  BY <1>3, <1>4, <1>5, <1>6

(* A rolling batch that does not reach the last position is full, and the  *)
(* batches behind it start at a multiple of the batch size.                *)
LEMMA RollingBatchIsFull ==
    ASSUME NEW n \in Nat, NEW m \in Nat, NEW L \in Nat, NEW b \in Nat, NEW S,
           S = (n + 1) .. m,
           S = {i \in 1 .. L : n + 1 <= i /\ i < n + 1 + b},
           n <= m, m < L
    PROVE  m = n + b
<1>1. m + 1 \notin S /\ m + 1 \in 1 .. L
  OBVIOUS
<1>2. ~(m + 1 < n + 1 + b)
  <2>1. ~(n + 1 <= m + 1 /\ m + 1 < n + 1 + b)
    BY <1>1
  <2>. QED
    BY <2>1
<1>3. m # n => m < n + 1 + b
  <2>1. m # n => m \in S
    OBVIOUS
  <2>. QED
    BY <2>1
<1>. QED
  BY <1>2, <1>3

LEMMA EmptyRun ==
    ASSUME NEW n \in Nat, NEW m \in Nat, n <= m, (n + 1) .. m = {}
    PROVE  m = n
<1>1. m # n => m \in (n + 1) .. m
  OBVIOUS
<1>. QED
  BY <1>1

LEMMA NextMultiple ==
    ASSUME NEW k \in Nat, NEW b \in Nat, NEW n \in Nat, NEW m \in Nat,
           k <= n, n = k * b, m = n + b
    PROVE  \/ 0 \in 0 .. m /\ m = 0 * b
           \/ k + 1 \in 0 .. m /\ m = (k + 1) * b
<1>1. CASE b = 0
  BY <1>1
<1>2. CASE b # 0
  <2>1. (k + 1) * b = k * b + b
    OBVIOUS
  <2>2. k + 1 \in 0 .. m
    BY <1>2
  <2>. QED
    BY <2>1, <2>2
<1>. QED
  BY <1>1, <1>2

LEMMA NextBatchRuns ==
    ASSUME RunInv, DeployInv, TypeOK', NextBatch
    PROVE  RunInv'
<1>1. /\ TypeOK /\ StopsAtFailure /\ BatchSettled /\ phase = "deploying"
      /\ ~LoopEnds /\ ~IsCanary
      /\ results' = Pushed
      /\ Launch(BatchFrom(plan, NextFirst), at)
      /\ UNCHANGED <<plan, phase, thrown, healthy>>
  BY DEF NextBatch, BatchSettled, DeployInv, RunInv
<1>2. PICK m \in Len(results) .. Len(plan.environments) :
        /\ batch = (Len(results) + 1) .. m
        /\ NextFirst = m + 1
        /\ Pushed \in Seq([environment: Environments,
                           status: {"SUCCESS", "FAILED", "ROLLED_BACK"}])
        /\ Len(Pushed) = m
        /\ \A i \in Positions : i > m => at[i] = "waiting"
        /\ \A i \in 1 .. m :
             /\ i \in Positions /\ at[i] = "settled"
             /\ Pushed[i].environment = Env(i)
             /\ (Pushed[i].status = "FAILED") <=> thrown[i]
             /\ ~BatchFailed => ~thrown[i]
  BY <1>1, PushedInPlace
<1>3. /\ Len(results) \in Nat /\ Len(plan.environments) \in Nat /\ m \in Nat
      /\ Positions = 1 .. Len(plan.environments) /\ plan.batchSize \in Nat
  BY <1>1, PlanShape DEF RunInv, InOrder, TypeOK, Positions
<1>4. m < Len(plan.environments) /\ ~BatchFailed
  BY <1>1, <1>2, <1>3 DEF LoopEnds
<1>5. plan.strategy = "rolling" =>
        \E k \in 0 .. m : m = k * plan.batchSize
  <2>. SUFFICES ASSUME plan.strategy = "rolling"
                PROVE  \E k \in 0 .. m : m = k * plan.batchSize
    OBVIOUS
  <2>1. PICK k \in 0 .. Len(results) : Len(results) = k * plan.batchSize
    BY <1>1 DEF RunInv, LoopInv
  <2>2. batch = {i \in Positions : /\ Len(results) + 1 <= i
                                   /\ i < Len(results) + 1 + plan.batchSize}
    BY <1>1 DEF RunInv, LoopInv, BatchFrom, Positions
  <2>3. m = Len(results) + plan.batchSize
    <3>1. batch = {i \in 1 .. Len(plan.environments) :
                     /\ Len(results) + 1 <= i
                     /\ i < Len(results) + 1 + plan.batchSize}
      BY <1>3, <2>2
    <3>2. Len(results) <= m /\ m < Len(plan.environments)
      BY <1>3, <1>4
    <3>3. batch = (Len(results) + 1) .. m
      BY <1>2
    <3>4. /\ Len(results) \in Nat /\ m \in Nat
          /\ Len(plan.environments) \in Nat /\ plan.batchSize \in Nat
      BY <1>3
    <3>. QED
      BY <3>1, <3>2, <3>3, <3>4, RollingBatchIsFull
  <2>4. k \in Nat /\ k <= Len(results)
    BY <1>3
  <2>5. Len(results) \in Nat /\ m \in Nat /\ plan.batchSize \in Nat
    BY <1>3
  <2>. QED
    <3>. DEFINE b == plan.batchSize
                n == Len(results)
    <3>1. /\ k \in Nat /\ b \in Nat /\ n \in Nat /\ m \in Nat
          /\ k <= n /\ n = k * b /\ m = n + b
      BY <2>1, <2>3, <2>4, <2>5
    <3>. HIDE DEF b, n
    <3>2. \/ 0 \in 0 .. m /\ m = 0 * b
          \/ k + 1 \in 0 .. m /\ m = (k + 1) * b
      BY <3>1, NextMultiple, Zenon
    <3>. QED
      BY <3>2, Zenon DEF b
<1>6. plan.strategy = "canary" /\ m > 0 => healthy
  <2>1. CASE results # <<>>
    BY <1>1, <2>1 DEF RunInv, LoopInv
  <2>2. CASE results = <<>>
    <3>1. Len(results) = 0
      BY <2>2
    <3>2. m > 0 => m \in batch
      BY <1>2, <1>3, <3>1
    <3>. QED
      BY <1>1, <2>2, <3>2 DEF IsCanary
  <2>. QED
    BY <2>1, <2>2
<1>7. /\ StopsAtFailure'
      /\ \E l \in m .. Len(plan.environments) :
            /\ batch' = (m + 1) .. l
            /\ \A i \in Positions : i > l => at'[i] = "waiting"
      /\ \A i \in 1 .. m : at'[i] = at[i]
  <2>1. /\ m \in 0 .. Len(plan.environments)
        /\ Launch(BatchFrom(plan, m + 1), at)
    BY <1>1, <1>2, <1>3
  <2>2. \A i \in 1 .. m : at[i] = "settled" /\ ~thrown[i]
    BY <1>2, <1>4
  <2>3. plan.strategy = "rolling" => \E k \in Nat : m = k * plan.batchSize
    BY <1>5
  <2>4. UNCHANGED <<plan, thrown>> /\ healthy' = healthy
    BY <1>1
  <2>5. TypeOK /\ TypeOK' /\ StopsAtFailure
    BY <1>1
  <2>6. \A i \in Positions : i > m => at[i] = "waiting"
    BY <1>2
  <2>. QED
    BY <1>6, <2>1, <2>2, <2>3, <2>4, <2>5, <2>6, LaunchInOrder
<1>8. DOMAIN results' = 1 .. m /\ Len(results') = m
  BY <1>1, <1>2
<1>9. InOrder'
  BY <1>1, <1>2, <1>7, <1>8 DEF InOrder, Positions
<1>10. ResultsInPlace'
  BY <1>1, <1>2, <1>7, <1>8 DEF ResultsInPlace, Env
<1>11. LoopInv'
  <2>1. results' # <<>> => m > 0
    BY <1>1, <1>2, <1>3
  <2>2. batch' = BatchFrom(plan, m + 1)
    BY <1>1, <1>2 DEF Launch
  <2>. QED
    BY <1>1, <1>2, <1>4, <1>5, <1>6, <1>8, <2>1, <2>2 DEF LoopInv
<1>. QED
  BY <1>7, <1>9, <1>10, <1>11 DEF RunInv

(* The last batch, or the canary, is through.                              *)
LEMMA BatchEnds ==
    ASSUME RunInv, DeployInv, TypeOK', Verify \/ Return
    PROVE  RunInv'
<1>1. /\ TypeOK /\ StopsAtFailure /\ BatchSettled /\ phase = "deploying"
      /\ results' = Pushed /\ batch' = {}
      /\ UNCHANGED <<plan, at, thrown, healthy>>
  BY DEF Verify, Return, BatchSettled, DeployInv, RunInv
<1>2. PICK m \in Len(results) .. Len(plan.environments) :
        /\ batch = (Len(results) + 1) .. m
        /\ NextFirst = m + 1
        /\ Pushed \in Seq([environment: Environments,
                           status: {"SUCCESS", "FAILED", "ROLLED_BACK"}])
        /\ Len(Pushed) = m
        /\ \A i \in Positions : i > m => at[i] = "waiting"
        /\ \A i \in 1 .. m :
             /\ i \in Positions /\ at[i] = "settled"
             /\ Pushed[i].environment = Env(i)
             /\ (Pushed[i].status = "FAILED") <=> thrown[i]
             /\ ~BatchFailed => ~thrown[i]
  BY <1>1, PushedInPlace
<1>3. /\ Len(results) \in Nat /\ Len(plan.environments) \in Nat /\ m \in Nat
      /\ Positions = 1 .. Len(plan.environments)
  BY <1>1, PlanShape DEF RunInv, InOrder, TypeOK, Positions
<1>4. DOMAIN results' = 1 .. m /\ Len(results') = m
  BY <1>1, <1>2
<1>5. InOrder'
  <2>1. batch' = (m + 1) .. m /\ m \in m .. Len(plan.environments)
    BY <1>1, <1>3
  <2>. QED
    BY <1>1, <1>2, <1>4, <2>1 DEF InOrder, Positions
<1>6. ResultsInPlace'
  BY <1>1, <1>2, <1>4 DEF ResultsInPlace, Env
<1>7. LoopInv'
  <2>1. CASE Verify
    <3>1. /\ plan.strategy = "canary" /\ results = <<>> /\ batch # {}
          /\ ~BatchFailed /\ phase' = "verifying"
      BY <2>1 DEF Verify, IsCanary
    <3>2. batch = BatchFrom(plan, 0 + 1)
      BY <1>1, <3>1 DEF RunInv, LoopInv
    <3>3. \A i \in batch : i = 1
      BY <3>1, <3>2 DEF BatchFrom
    <3>4. m \in batch
      BY <1>2, <1>3, <3>1
    <3>. QED
      BY <1>1, <1>2, <1>4, <3>1, <3>3, <3>4 DEF LoopInv
  <2>2. CASE Return
    BY <1>1, <2>2 DEF Return, LoopInv
  <2>. QED
    BY <2>1, <2>2
<1>8. StopsAtFailure'
  BY <1>1 DEF StopsAtFailure, Loops, Positions
<1>. QED
  BY <1>5, <1>6, <1>7, <1>8 DEF RunInv

LEMMA OnlyReplaced ==
    ASSUME NEW T, NEW r \in Seq(T), Len(r) = 1, NEW x \in T
    PROVE  /\ [r EXCEPT ![1] = x] \in Seq(T)
           /\ Len([r EXCEPT ![1] = x]) = 1
           /\ DOMAIN [r EXCEPT ![1] = x] = 1 .. 1
           /\ [r EXCEPT ![1] = x][1] = x
  OBVIOUS

(* The canary's verdict: the others are launched, or its result renamed.   *)
LEMMA VerdictRuns ==
    ASSUME RunInv, DeployInv, TypeOK', CanaryHealthy \/ CanaryUnhealthy
    PROVE  RunInv'
<1>1. /\ TypeOK /\ StopsAtFailure /\ phase = "verifying" /\ batch = {}
      /\ plan.strategy = "canary" /\ Len(results) = 1
      /\ \A i \in DOMAIN results : ~thrown[i] /\ at[i] = "settled"
      /\ results \in Seq([environment: Environments,
                          status: {"SUCCESS", "FAILED", "ROLLED_BACK"}])
      /\ UNCHANGED <<plan, thrown>>
  BY DEF CanaryHealthy, CanaryUnhealthy, slots, DeployInv, RunInv, LoopInv,
         InOrder, ResultsInPlace
<1>2. DOMAIN results = 1 .. 1
  BY <1>1
<1>3. /\ Len(plan.environments) \in Nat /\ 1 <= Len(plan.environments)
      /\ Positions = 1 .. Len(plan.environments)
      /\ \A i \in Positions : i > 1 => at[i] = "waiting"
  <2>1. /\ Len(plan.environments) \in Nat
        /\ Positions = 1 .. Len(plan.environments)
    BY <1>1, PlanShape DEF TypeOK, Positions
  <2>2. PICK m \in 1 .. Len(plan.environments) :
          /\ batch = (1 + 1) .. m
          /\ \A i \in Positions : i > m => at[i] = "waiting"
    BY <1>1 DEF RunInv, InOrder
  <2>3. m = 1
    BY <1>1, <2>1, <2>2
  <2>. QED
    BY <2>1, <2>2, <2>3
<1>4. CASE CanaryHealthy
  <2>1. /\ results' = results /\ phase' = "deploying" /\ healthy' = TRUE
        /\ Launch(BatchFrom(plan, 1 + 1), at)
    BY <1>4 DEF CanaryHealthy
  <2>2. /\ StopsAtFailure'
        /\ \E l \in 1 .. Len(plan.environments) :
              /\ batch' = (1 + 1) .. l
              /\ \A i \in Positions : i > l => at'[i] = "waiting"
        /\ \A i \in 1 .. 1 : at'[i] = at[i]
    <3>1. \A i \in 1 .. 1 : at[i] = "settled" /\ ~thrown[i]
      BY <1>1, <1>2
    <3>2. plan.strategy # "rolling"
      BY <1>1
    <3>. QED
      BY <1>1, <1>3, <2>1, <3>1, <3>2, LaunchInOrder
  <2>3. InOrder'
    BY <1>1, <2>1, <2>2 DEF InOrder, Positions
  <2>4. ResultsInPlace'
    BY <1>1, <1>2, <2>1, <2>2 DEF RunInv, ResultsInPlace, Env
  <2>5. LoopInv'
    BY <1>1, <2>1 DEF LoopInv, Launch
  <2>. QED
    BY <2>2, <2>3, <2>4, <2>5 DEF RunInv
<1>5. CASE CanaryUnhealthy
  <2>1. /\ results' = [results EXCEPT ![1].status = "ROLLED_BACK"]
        /\ phase' = "returned" /\ UNCHANGED <<batch, at, healthy>>
    BY <1>5 DEF CanaryUnhealthy, slots
  <2>2. /\ results' \in Seq([environment: Environments,
                             status: {"SUCCESS", "FAILED", "ROLLED_BACK"}])
        /\ Len(results') = 1 /\ DOMAIN results' = 1 .. 1
        /\ results'[1].environment = results[1].environment
        /\ results'[1].status = "ROLLED_BACK"
    <3>1. results \in Seq([environment: Environments,
                           status: {"SUCCESS", "FAILED", "ROLLED_BACK"}])
      BY <1>1
    <3>. DEFINE T == [environment: Environments,
                      status: {"SUCCESS", "FAILED", "ROLLED_BACK"}]
                x == [results[1] EXCEPT !.status = "ROLLED_BACK"]
    <3>2. results \in Seq(T) /\ Len(results) = 1
      BY <1>1, <3>1
    <3>3. results[1] \in T
      <4>. HIDE DEF T
      <4>. QED
        BY <3>2
    <3>4. /\ x \in T /\ x.environment = results[1].environment
          /\ x.status = "ROLLED_BACK"
      BY <3>3
    <3>5. results' = [results EXCEPT ![1] = x]
      BY <2>1, Zenon
    <3>6. /\ results' \in Seq(T) /\ Len(results') = 1
          /\ DOMAIN results' = 1 .. 1 /\ results'[1] = x
      <4>. HIDE DEF T, x
      <4>. QED
        BY <3>2, <3>4, <3>5, OnlyReplaced
    <3>. QED
      BY <3>4, <3>6, Zenon
  <2>3. InOrder'
    BY <1>1, <2>1, <2>2 DEF RunInv, InOrder, Positions
  <2>4. ResultsInPlace'
    BY <1>1, <1>2, <2>1, <2>2 DEF RunInv, ResultsInPlace, Env
  <2>5. LoopInv' /\ StopsAtFailure'
    BY <1>1, <2>1 DEF LoopInv, StopsAtFailure, Loops, Positions
  <2>. QED
    BY <2>3, <2>4, <2>5 DEF RunInv
<1>. QED
  BY <1>4, <1>5

LEMMA CrashRuns ==
    ASSUME RunInv, DeployInv, TypeOK', Crash
    PROVE  RunInv'
<1>1. /\ Len(plan.environments) \in Nat /\ phase' = "idle" /\ batch' = {}
      /\ results' = <<>> /\ plan' = plan
      /\ \A i \in Positions : at'[i] = "waiting"
  BY PlanShape DEF Crash, DeployInv, TypeOK
<1>2. InOrder'
  <2>1. batch' = (Len(results') + 1) .. 0
        /\ 0 \in Len(results') .. Len(plan.environments)
    BY <1>1
  <2>. QED
    BY <1>1, <2>1 DEF InOrder, Positions
<1>3. ResultsInPlace' /\ LoopInv' /\ StopsAtFailure'
  BY <1>1 DEF ResultsInPlace, LoopInv, StopsAtFailure, Positions
<1>. QED
  BY <1>2, <1>3 DEF RunInv

(* Whatever the strategy, its batches are runs of positions right behind   *)
(* the results pushed so far, and behind them nothing was touched.         *)
THEOREM RunInvariant == Spec => []RunInv
<1>1. DeployInv /\ DeployInv' /\ RunInv /\ [Next]_vars => RunInv'
  <2>. SUFFICES ASSUME DeployInv, TypeOK', RunInv, [Next]_vars PROVE RunInv'
    BY DEF DeployInv
  <2>1. CASE Deploy
    BY <2>1, DeployRuns
  <2>2. CASE \E i \in Positions : Progress(i) \/ Failure(i)
    BY <2>2, EnvironmentRuns
  <2>3. CASE Strategy
    BY <2>3, NextBatchRuns, BatchEnds, VerdictRuns DEF Strategy
  <2>4. CASE Crash
    BY <2>4, CrashRuns
  <2>5. CASE UNCHANGED vars
    BY <2>5 DEF vars, deployment, slots, RunInv, InOrder, ResultsInPlace,
           LoopInv, StopsAtFailure, Loops, Positions, Env
  <2>. QED
    BY <2>1, <2>2, <2>3, <2>4, <2>5 DEF Next
<1>. QED
  BY <1>1, InitRun, DeployInvariant, PTL DEF Spec

(* Whatever the strategy, and wherever deployments fail, no environment is *)
(* touched before every earlier batch has succeeded, and no other than the *)
(* canary before it was found healthy.                                     *)
THEOREM FailureStops == Spec => []StopsAtFailure
<1>1. RunInv => StopsAtFailure
  BY DEF RunInv
<1>. QED
  BY <1>1, RunInvariant, PTL

(* What deploy() returns accounts for all that it touched, in order: the   *)
(* environments it lists are those of the plan's first positions, FAILED   *)
(* where the deployment threw, and no other was touched.                   *)
THEOREM AllAccountedFor == Spec => []ResultsAccount
<1>1. DeployInv /\ RunInv => ResultsAccount
  <2>. SUFFICES ASSUME DeployInv, RunInv, phase = "returned"
                PROVE  /\ Len(results) <= Len(plan.environments)
                       /\ \A i \in Positions :
                            IF i \in DOMAIN results
                            THEN /\ results[i].environment = Env(i)
                                 /\ (results[i].status = "FAILED") <=> thrown[i]
                            ELSE at[i] = "waiting"
    BY DEF ResultsAccount
  <2>1. /\ Len(plan.environments) \in Nat /\ Len(results) \in Nat
        /\ DOMAIN results = 1 .. Len(results)
        /\ Positions = 1 .. Len(plan.environments)
    BY PlanShape DEF DeployInv, TypeOK, RunInv, InOrder, Positions
  <2>2. PICK m \in Len(results) .. Len(plan.environments) :
          /\ batch = (Len(results) + 1) .. m
          /\ \A i \in Positions : i > m => at[i] = "waiting"
    BY DEF RunInv, InOrder
  <2>3. m = Len(results)
    <3>1. batch = {}
      BY DEF RunInv, LoopInv
    <3>2. m \in Nat /\ Len(results) <= m
      BY <2>1, <2>2
    <3>3. (Len(results) + 1) .. m = {} /\ Len(results) \in Nat
      BY <2>1, <2>2, <3>1
    <3>. QED
      BY <3>2, <3>3, EmptyRun
  <2>. QED
    BY <2>1, <2>2, <2>3 DEF RunInv, ResultsInPlace
<1>. QED
  BY <1>1, DeployInvariant, RunInvariant, PTL
============================================================================
