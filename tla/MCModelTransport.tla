-------------------------- MODULE MCModelTransport --------------------------
(* Values for ModelTransport.                                              *)
EXTENDS ModelTransport
Doubling == [n \in 0 .. Retries |-> 2 ^ n]
TwoStaggers == {0, 1}
Headers == {Absent, -1, 0, 5}
=============================================================================
