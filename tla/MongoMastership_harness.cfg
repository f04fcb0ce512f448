\* The test's replica set has three members; two agents already reach
\* every interleaving of a handoff between an old and a new primary.
CONSTANTS
    NumAgents <- MC_NumAgents
    MaxElections <- MC_MaxElections
    MaxFaults <- MC_MaxFaults

SPECIFICATION Spec

INVARIANT HarnessAccepts
\* The test returns once every agent has quit.
CHECK_DEADLOCK FALSE
