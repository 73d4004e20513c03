-------------------------- MODULE MCRunCoordinator --------------------------
(* Instances of RunCoordinator for TLC, with the validator of its          *)
(* directories and the documents that its tasks send.                      *)
EXTENDS RunDocuments, OutputValidator

CONSTANTS t1, t2, failed1, failed2, ok1

TwoTasks == {t1, t2}
TwoFailuresOneSuccess == {failed1, failed2, ok1}
OneSuccess == {ok1}

(* Ranges that overlap, repeat one another, are too large or dynamic, and  *)
(* an answer cell (6) that holds nothing and is no candidate.              *)
Compact(cells, chars) == [cells |-> cells, chars |-> chars, dynamic |-> FALSE]
Details(chars) == [i \in 1 .. 5 |-> [cell |-> i, chars |-> chars[i]]]

FiveCells ==
  [mandatory : {8},
   answers : {<<>>, <<Compact({1, 2}, 6), Compact({2}, 4)>>,
              <<Compact({1, 2, 6}, 7), Compact({2, 3}, 5)>>},
   data : {<<>>, <<Compact({2, 3}, 6)>>,
           <<[cells |-> {3}, chars |-> 4, dynamic |-> TRUE],
             Compact({1, 2, 3, 4}, 4), Compact({4, 5}, 6)>>},
   details : {Details(<<a, 4, b, 5, 4>>) : a, b \in 4 .. 6}]

TightAndAmple == 14 .. 56
=============================================================================
