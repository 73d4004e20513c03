------------------------- MODULE MCProviderGateway -------------------------
(* Instances of ProviderGateway.                                           *)
EXTENDS ProviderGateway

CONSTANTS t1, t2, t3, t4

ThreeTasks == {t1, t2, t3}
FourTasks == {t1, t2, t3, t4}
=============================================================================
