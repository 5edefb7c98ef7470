----------------------------- MODULE MCScheduler -------------------------------
(* An instance of Scheduler: c needs a and b, d needs c, so the full plan has *)
(* three levels; the first one has two tasks competing for one or two slots.  *)
EXTENDS Scheduler, TLC

CONSTANTS a, b, c, d

G == INSTANCE Dag

MCNeeds == a :> {} @@ b :> {} @@ c :> {a, b} @@ d :> {c}
MCPlans == {G!PlanFor(MCNeeds, targets) : targets \in SUBSET {a, b, c, d}}
MCKind  == a :> "command" @@ b :> "remote" @@ c :> "command" @@ d :> "composite"

(* The default options, a run that keeps going after a failure, a dry run.    *)
MCOptions ==
    {[failFast |-> TRUE, dryRun |-> FALSE, parallelism |-> 2],
     [failFast |-> TRUE, dryRun |-> FALSE, parallelism |-> 1],
     [failFast |-> FALSE, dryRun |-> FALSE, parallelism |-> 2],
     [failFast |-> FALSE, dryRun |-> TRUE, parallelism |-> 2]}
================================================================================
