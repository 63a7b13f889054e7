-------------------------- MODULE MCOrchestration --------------------------
(* Plans for model checking Orchestration.                                 *)
EXTENDS Orchestration

CONSTANTS e1, e2, e3

ThisPlan(s, n, es) == [strategy |-> s, batchSize |-> n, environments |-> es]

(* Three environments, one of them twice; a last batch that is smaller; a   *)
(* canary without company; batches of none; nothing to deploy to.          *)
MCPlans ==
    {ThisPlan("sequential", 1, <<e1, e2, e3>>),
     ThisPlan("parallel", 1, <<e2, e1, e3, e2>>),
     ThisPlan("rolling", 2, <<e1, e2, e3>>),
     ThisPlan("rolling", 0, <<e1>>),
     ThisPlan("canary", 1, <<e1, e2, e3>>),
     ThisPlan("canary", 1, <<e1>>),
     ThisPlan("parallel", 1, <<>>)}

TwoVersions == 1 .. 2
============================================================================
