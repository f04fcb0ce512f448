--------------------------- MODULE SkipOperation ----------------------------
(***************************************************************************)
(* The skip operation of the caasoperator (src/worker/caasoperator/       *)
(* operation/skip.go) run by the operation executor, with the executor's  *)
(* process crashing and restarting between steps.                         *)
(*                                                                         *)
(* skipOperation embeds the operation it wraps: Prepare and Execute are   *)
(* overridden to return no state and ErrSkipExecute, every other method  *)
(* (Commit among them) is the wrapped operation's.  The executor that     *)
(* runs operations is not in the repository (spec.md section 1 lists the  *)
(* operation state machine as an external collaborator); its actions are  *)
(* the Operation contract skip.go is written against: Prepare, then       *)
(* Execute unless Prepare said ErrSkipExecute, then Commit, each step's   *)
(* returned state persisted when it is not nil; on restart an operation   *)
(* persisted as pending is rebuilt from that state and run again.         *)
(***************************************************************************)
EXTENDS FiniteSets

CONSTANTS
    Op,       \* the operations the executor may be given (a hook run, ...)
    NoOp      \* no operation recorded in the persisted state

ASSUME NoOp \notin Op

VARIABLES
    st,        \* the persisted operation state: [op, step]
    pc,        \* the executor's in-memory run: [phase, op, skip]
    issued,    \* operations handed to the executor so far
    asSkip,    \* operations handed to it wrapped in skipOperation
    executed   \* operations whose Execute has run (their side effect)

vars == <<st, pc, issued, asSkip, executed>>

\* A step's result: the state it returns (or NoState for nil) and its error.
NoState == [op |-> NoOp, step |-> "none"]
Idle == [phase |-> "idle", op |-> NoOp, skip |-> FALSE]

-----------------------------------------------------------------------------
(* The operations' steps: [state |-> returned state, err |-> error]        *)

\* The wrapped operation: Prepare and Execute leave it pending, Commit
\* marks it done.
InnerPrepare(o) == [state |-> [op |-> o, step |-> "pending"], err |-> "nil"]
InnerExecute(o) == [state |-> [op |-> o, step |-> "pending"], err |-> "nil"]
InnerCommit(o)  == [state |-> [op |-> o, step |-> "done"], err |-> "nil"]

\* Mutant: Prepare returning the wrapped operation's pending state along
\* with ErrSkipExecute.
SkipPrepareWithState(o) ==
    [state |-> [op |-> o, step |-> "pending"], err |-> "ErrSkipExecute"]

\* skipOperation.Prepare: nil, ErrSkipExecute.
SkipPrepare(o) == [state |-> NoState, err |-> "ErrSkipExecute"]

\* skipOperation.Execute: nil, ErrSkipExecute.
SkipExecute(o) == [state |-> NoState, err |-> "ErrSkipExecute"]

\* The methods of an operation, skipped or not; Commit is embedded.
Prepare(o, skip) == IF skip THEN SkipPrepare(o) ELSE InnerPrepare(o)
Execute(o, skip) == IF skip THEN SkipExecute(o) ELSE InnerExecute(o)
Commit(o, skip)  == InnerCommit(o)

\* The executor persists a step's state only when one is returned.
Persist(r) == st' = IF r.state = NoState THEN st ELSE r.state

-----------------------------------------------------------------------------
(* The executor                                                            *)

\* Run, first step: a new operation (the last one is done or there was
\* none) is prepared; ErrSkipExecute sends it straight to Commit.
RunPrepare(o, skip) ==
    /\ pc = Idle
    /\ st.step \in {"none", "done"}
    /\ o \notin issued
    /\ issued' = issued \cup {o}
    /\ asSkip' = IF skip THEN asSkip \cup {o} ELSE asSkip
    /\ LET r == Prepare(o, skip) IN
          /\ Persist(r)
          /\ pc' = [phase |-> IF r.err = "ErrSkipExecute" THEN "skipped"
                              ELSE "prepared", op |-> o, skip |-> skip]
    /\ UNCHANGED executed

\* Run, second step: Execute; its error, ErrSkipExecute included, stops
\* the run with the operation still pending.
RunExecute ==
    /\ pc.phase = "prepared"
    /\ LET r == Execute(pc.op, pc.skip) IN
          /\ Persist(r)
          /\ executed' = IF pc.skip THEN executed ELSE executed \cup {pc.op}
          /\ pc' = IF r.err = "nil" THEN [pc EXCEPT !.phase = "executed"]
                   ELSE Idle
    /\ UNCHANGED <<issued, asSkip>>

\* Run, last step: Commit.
RunCommit ==
    /\ pc.phase \in {"skipped", "executed"}
    /\ Persist(Commit(pc.op, pc.skip))
    /\ pc' = Idle
    /\ UNCHANGED <<issued, asSkip, executed>>

\* The process dies between two steps: the in-memory run is lost, the
\* persisted state is kept.
Crash ==
    /\ pc # Idle
    /\ pc' = Idle
    /\ UNCHANGED <<st, issued, asSkip, executed>>

\* On restart an operation persisted as pending is rebuilt from the state
\* (as the operation itself, not a skip) and run again from Prepare.
Resume ==
    /\ pc = Idle
    /\ st.step = "pending"
    /\ LET r == Prepare(st.op, FALSE) IN
          /\ Persist(r)
          /\ pc' = [phase |-> "prepared", op |-> st.op, skip |-> FALSE]
    /\ UNCHANGED <<issued, asSkip, executed>>

Init ==
    /\ st = NoState
    /\ pc = Idle
    /\ issued = {} /\ asSkip = {} /\ executed = {}

Next ==
    \/ \E o \in Op, skip \in BOOLEAN : RunPrepare(o, skip)
    \/ RunExecute \/ RunCommit \/ Crash \/ Resume

Spec == Init /\ [][Next]_vars

-----------------------------------------------------------------------------
(* Properties                                                              *)

\* An operation handed to the executor wrapped in skipOperation never has
\* its own Execute run, even when the process crashes after Prepare and
\* the executor resumes from the persisted state: skipOperation.Prepare
\* returns no state, so nothing of the skipped operation is pending.
SkippedNeverExecuted == asSkip \cap executed = {}

=============================================================================
