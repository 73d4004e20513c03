---------------------------- MODULE PlanContext ----------------------------
(***************************************************************************)
(* The context that the plans of a task are asked for with: made once,     *)
(* before the first plan is proposed (exactsource/runner.py, solve).       *)
(***************************************************************************)
EXTENDS PlanApplication, ContextShares

(* When a task begins, its context is made: the budget is divided fairly   *)
(* among the sections, whatever they are (_section_allocations).           *)
SharesAreFair == phase = "idle" /\ plan = None => EveryDivisionIsFair

(* And the context, wherever it is cut, fits its budget (_clip_context).   *)
ContextFits == phase = "idle" /\ plan = None => EveryContextFits
=============================================================================
