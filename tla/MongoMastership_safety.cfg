\* The test's replica set has three members; two agents already reach
\* every interleaving of a handoff between an old and a new primary.
CONSTANTS
    NumAgents <- MC_NumAgents
    MaxElections <- MC_MaxElections
    MaxFaults <- MC_MaxFaults

SPECIFICATION Spec

INVARIANT TypeOK
INVARIANT AtMostOneEffectiveWriter
INVARIANT WorkerStoppedBeforeRedial

\* Under the fairness of every goroutine, a killed agent quits.
PROPERTY KillLeadsToQuit

\* The test returns once every agent has quit: the only terminal states.
CHECK_DEADLOCK FALSE
