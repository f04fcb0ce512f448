--------------------- MODULE MC_AzureEnvironLifecycle -----------------------
EXTENDS AzureEnvironLifecycle

CONSTANTS ss, n1, n2

MC_Service == {ss, n1, n2}
MC_MaxAttempts == 2

=============================================================================
