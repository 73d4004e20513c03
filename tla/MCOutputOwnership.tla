------------------------- MODULE MCOutputOwnership -------------------------
(* Model values for OutputOwnership.                                       *)
EXTENDS OutputOwnership, TLC

CONSTANTS p1, p2, p3, t1, t2, i1, i2, i3, i4
TwoProcesses == {p1, p2}
TwoTasks == {t1, t2}
ThreeProcesses == {p1, p2, p3}
FourInodes == {i1, i2, i3, i4}
KeptApart == {{"captured"}, {"direct"}, {"v2"}}
Mixed == {{"captured", "direct"}}
Interchangeable ==
  Permutations(Process) \cup Permutations(Task) \cup Permutations(Inode)
=============================================================================
