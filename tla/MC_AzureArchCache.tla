------------------------- MODULE MC_AzureArchCache --------------------------
(* Two image streams so that a reconfiguration can change the stream, two *)
(* callers racing for the cache, and three configurations: a              *)
(* reconfiguration can land before, during and after a cache fill.        *)
EXTENDS AzureArchCache

CONSTANTS released, daily, t1, t2

MC_Stream == {released, daily}
MC_Caller == {t1, t2}
MC_MaxConfigs == 3

=============================================================================
