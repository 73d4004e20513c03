------------------------------ MODULE MCV2Run ------------------------------
(* Instances of V2Run: one cell task and one sheet task.                   *)
EXTENDS V2Run, RunMetrics

CONSTANTS cell, sheet, p1

TwoTasks == {cell, sheet}
OneCell == {cell}
OnePlan == {p1}
=============================================================================
