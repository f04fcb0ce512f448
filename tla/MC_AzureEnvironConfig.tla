------------------------ MODULE MC_AzureEnvironConfig ------------------------
(* Two accounts so that a reconfiguration can change the account, two     *)
(* callers racing each other, and three configurations: two              *)
(* reconfigurations can land inside one caller's update.                  *)
EXTENDS AzureEnvironConfig

CONSTANTS acc1, acc2, t1, t2

MC_Account == {acc1, acc2}
MC_Caller == {t1, t2}
MC_MaxConfigs == 3

=============================================================================
