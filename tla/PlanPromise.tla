---------------------------- MODULE PlanPromise ----------------------------
(***************************************************************************)
(* What the application of the plans for one task promises about the       *)
(* task's workbook: each plan is applied as a whole and accepted, or it is *)
(* rejected and nothing is changed.                                        *)
(***************************************************************************)
CONSTANTS
  Plan,
  Outcome(_, _, _),  \* what a plan for a task may make of a workbook
  Late,              \* a plan may be rejected after it was applied
  None

VARIABLES
  task,
  file,      \* the workbook
  plan,      \* the plan that is being applied
  verdict    \* what became of it

Init == plan = None /\ verdict = None

Begin ==
  /\ plan = None \/ verdict = "rejected"
  /\ plan' \in Plan
  /\ verdict' = None
  /\ UNCHANGED <<task, file>>

Accept ==
  /\ plan # None /\ verdict = None
  /\ verdict' = "accepted"
  /\ file' \in Outcome(task, plan, file)
  /\ UNCHANGED <<task, plan>>

Reject ==
  /\ plan # None /\ verdict = None
  /\ verdict' = "rejected"
  /\ file' = file \/ (Late /\ file' \in Outcome(task, plan, file))
  /\ UNCHANGED <<task, plan>>

Next == Begin \/ Accept \/ Reject

Spec == Init /\ [][Next]_<<task, file, plan, verdict>>
=============================================================================
