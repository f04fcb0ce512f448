\* Bounded handoff: checked under the fairness of every goroutine.
\* The test's replica set has three members; two agents already reach
\* every interleaving of a handoff between an old and a new primary.
CONSTANTS
    NumAgents <- MC_NumAgents
    MaxElections <- MC_MaxElections
    MaxFaults <- MC_MaxFaults

SPECIFICATION Spec

PROPERTY PrimaryEventuallyRuns
\* The test returns once every agent has quit.
CHECK_DEADLOCK FALSE
