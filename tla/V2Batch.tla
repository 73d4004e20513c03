------------------------------ MODULE V2Batch ------------------------------
(***************************************************************************)
(* What a v2 run promises: every task is settled once, as the input with   *)
(* one plan applied or as the pristine input, and the predictions appear   *)
(* once, when every task is settled, and never change.                     *)
(***************************************************************************)
CONSTANTS Task, Plan, None

VARIABLES
  settled,   \* each task's outcome
  delivered  \* the outcomes the predictions stand for

(* A workbook is the sequence of the plans applied to the input.           *)
Outcome ==
  [status : {"ok"}, workbook : {<<p>> : p \in Plan}]
    \cup [status : {"error"}, workbook : {<<>>}]

Init ==
  /\ settled = [t \in Task |-> None]
  /\ delivered = None

Settle(t) ==
  /\ settled[t] = None
  /\ \E o \in Outcome : settled' = [settled EXCEPT ![t] = o]
  /\ UNCHANGED delivered

Deliver ==
  /\ delivered = None
  /\ \A t \in Task : settled[t] # None
  /\ delivered' = settled
  /\ UNCHANGED settled

Next == Deliver \/ \E t \in Task : Settle(t)

Spec == Init /\ [][Next]_<<settled, delivered>>
=============================================================================
