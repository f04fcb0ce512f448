\* Three operations, each run plain or skipped, with a crash allowed
\* between any two executor steps.  The run ends once every operation
\* has been handed to the executor and committed.
CONSTANTS
    o1 = o1  o2 = o2  o3 = o3
    NoOp = NoOp
    Op <- MC_Op
SPECIFICATION Spec
INVARIANT SkippedNeverExecuted
CHECK_DEADLOCK FALSE
