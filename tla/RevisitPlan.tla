---------------------------- MODULE RevisitPlan -----------------------------
(***************************************************************************)
(* internal/revisit: how deep one run of a source goes, and whether it may *)
(* call itself complete.  A source without pagination is read whole; one   *)
(* with pagination gets short passes over the head of its listing and a    *)
(* full pass every DefaultFullEvery-th time.                               *)
(***************************************************************************)
EXTENDS Integers

CONSTANTS DefaultHeadMaxIterations,  \* 3 in the code
          DefaultFullEvery,          \* 5 in the code
          NoPagination               \* a source whose YAML has no pagination

ASSUME RevisitAssumption ==
  /\ DefaultHeadMaxIterations \in Nat
  /\ DefaultFullEvery \in Nat \ {0}
  /\ NoPagination \notin Nat

Plan == [maxIterations : Nat, completion : {"complete", "incomplete"}]

Least(m, n) == IF m <= n THEN m ELSE n

(* Mutant: the first run and every DefaultFullEvery-th after it.            *)
IsFullPassEarly(completedRuns) == completedRuns % DefaultFullEvery = 0

IsFullPass(completedRuns) ==
  completedRuns % DefaultFullEvery = DefaultFullEvery - 1

(* limit is the source's max_iterations; without pagination the plan's own  *)
(* number is never read.                                                    *)
Build(limit, completedRuns) ==
  IF limit = NoPagination
  THEN [maxIterations |-> 0, completion |-> "complete"]
  ELSE IF IsFullPass(completedRuns)
  THEN [maxIterations |-> limit, completion |-> "complete"]
  ELSE [maxIterations |-> Least(DefaultHeadMaxIterations, limit),
        completion |-> "incomplete"]
=============================================================================
