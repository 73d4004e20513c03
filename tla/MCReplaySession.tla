--------------------------- MODULE MCReplaySession ---------------------------
(* An instance of ReplaySession for TLC: two tasks, a failed write and     *)
(* another failure.                                                        *)
EXTENDS ReplaySession

CONSTANTS t1, t2, failed1, unwritten, ok1

TwoTasks == {t1, t2}
TwoFailuresOneSuccess == {failed1, unwritten, ok1}
FailedWrite == {unwritten}
OneSuccess == {ok1}
=============================================================================
