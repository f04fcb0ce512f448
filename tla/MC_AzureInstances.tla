------------------------- MODULE MC_AzureInstances --------------------------
EXTENDS AzureInstances

CONSTANTS s1, s2, s3, r1, r2, r3

MC_Service == {s1, s2, s3}
MC_Role == {r1, r2, r3}
MC_Symmetry == Permutations(MC_Service) \cup Permutations(MC_Role)

=============================================================================
