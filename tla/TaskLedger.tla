----------------------------- MODULE TaskLedger -----------------------------
(***************************************************************************)
(* What an output directory promises about its tasks, whatever happens to  *)
(* the processes that work on it: each task has at most one settled        *)
(* outcome, a failure may be replaced as a whole, a success never.         *)
(***************************************************************************)
CONSTANTS Task, Result, Success, None

VARIABLE ledger

Init == ledger = [t \in Task |-> None]

(* One atomic publication; a checkpoint may settle several tasks.          *)
Settle ==
  /\ ledger' \in [Task -> Result \cup {None}]
  /\ \A t \in Task :
       ledger'[t] # ledger[t] => ledger[t] \notin Success /\ ledger'[t] # None

Spec == Init /\ [][Settle]_ledger
=============================================================================
