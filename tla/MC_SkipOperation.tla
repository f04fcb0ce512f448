-------------------------- MODULE MC_SkipOperation --------------------------
EXTENDS SkipOperation

CONSTANTS o1, o2, o3

MC_Op == {o1, o2, o3}

=============================================================================
