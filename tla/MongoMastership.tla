-------------------------- MODULE MongoMastership --------------------------
(***************************************************************************)
(* The singular-runner mastership test (src/unnamed/part_000) composed    *)
(* with the mastership-gated coordinator it drives (spec.md section 4.1). *)
(*                                                                         *)
(* Each agent runs an outer runner whose one worker, "mongo-<id>", is     *)
(* mongoWorker: it dials a mongo session, builds an inner runner and a    *)
(* singular coordinator on it, and registers "worker-<id>", the singleton *)
(* worker that inserts into the store and reports events.  The replica    *)
(* set is the environment: it elects a primary and, when the primary      *)
(* steps down, closes every client connection.  The test's event checker *)
(* (globalAgentState) consumes every reported event in channel order.     *)
(*                                                                         *)
(* The coordinator itself is not in the repository's sources; its         *)
(* actions are written from spec.md and marked so in PROJECT.json.        *)
(***************************************************************************)
EXTENDS Integers, FiniteSets

CONSTANTS
    NumAgents,      \* agents, one per replica-set member (len(insts))
    MaxElections,   \* bound on the number of elections the replica set holds
    MaxFaults       \* bound on lost connections and failed inserts

ASSUME NumAgents \in Nat \ {0} /\ MaxElections \in Nat /\ MaxFaults \in Nat

\* Agent ids start from 1 to match the replica-set member ids; -1 is the
\* test's "no active agent", used here for "no primary" as well.
Agent == 1..NumAgents
None  == -1

VARIABLES
    \* environment: the replica set
    primary,     \* the member currently primary, or None during an election
    elections,   \* elections held so far (bounded by MaxElections)
    faults,      \* connection losses and insert errors so far
    \* agent a: outer runner and mongoWorker
    rn,          \* "down" | "dialed" | "connected" | "up" | "quit"
    sess,        \* whether a's current mgo session still works
    killed,      \* a.Kill() has been called
    \* agent a: the singular coordinator of the current mongoWorker
    ms,          \* "Unknown" | "Master" | "NotMaster" | "Terminated"
    cph,         \* poll-loop position: "idle" | "pinged" | "stopping" | "dying"
    running,     \* coordinator's bookkeeping: worker-a started by it
    reg,         \* worker-a has been registered with the coordinator
    \* agent a: the worker-a goroutine
    wk,          \* "none" | "created" | "select" | "inserted" | "failed"
    stopReq,     \* worker-a's stop channel is closed
    \* the test's globalAgentState
    test

envVars   == <<primary, elections, faults>>
agentVars == <<rn, sess, killed>>
coordVars == <<ms, cph, running, reg>>
workVars  == <<wk, stopReq>>
vars      == <<envVars, agentVars, coordVars, workVars, test>>

TypeOK ==
    /\ primary \in Agent \cup {None}
    /\ elections \in 0..MaxElections
    /\ faults \in 0..MaxFaults
    /\ rn \in [Agent -> {"down", "dialed", "connected", "up", "quit"}]
    /\ sess \in [Agent -> BOOLEAN]
    /\ killed \in [Agent -> BOOLEAN]
    /\ ms \in [Agent -> {"Unknown", "Master", "NotMaster", "Terminated"}]
    /\ cph \in [Agent -> {"idle", "pinged", "stopping", "dying"}]
    /\ running \in [Agent -> BOOLEAN]
    /\ reg \in [Agent -> BOOLEAN]
    /\ wk \in [Agent -> {"none", "created", "select", "inserted", "failed"}]
    /\ stopReq \in [Agent -> BOOLEAN]
    /\ test \in [connected : [Agent -> BOOLEAN], started : [Agent -> BOOLEAN],
                 quit : [Agent -> BOOLEAN], activeId : Agent \cup {None},
                 failed : BOOLEAN]

-----------------------------------------------------------------------------
(* The test's event checker: possibleEvents and waitEvent.                 *)

\* The event kinds globalAgentState.possibleEvents allows from agent i.
PossibleEvents(g, i) ==
    IF g.connected[i]
    THEN IF g.started[i]
         THEN {"stop"} \cup (IF g.activeId \in {None, i}
                             THEN {"operation"} ELSE {})
         ELSE {"start", "connect"} \cup (IF g.quit[i] THEN {} ELSE {"quit"})
    ELSE {"connect"}

\* Mutant: the active agent recorded by its slice index (got.id - 1).
WaitEventByIndex(g, kind, i) ==
    [g EXCEPT
        !.failed    = @ \/ kind \notin PossibleEvents(g, i),
        !.connected = IF kind = "connect" THEN [@ EXCEPT ![i] = TRUE] ELSE @,
        !.started   = CASE kind = "start" -> [@ EXCEPT ![i] = TRUE]
                        [] kind = "stop"  -> [@ EXCEPT ![i] = FALSE]
                        [] OTHER          -> @,
        !.activeId  = CASE kind = "operation" -> i - 1
                        [] kind = "stop"      -> None
                        [] OTHER              -> @,
        !.quit      = IF kind = "quit" THEN [@ EXCEPT ![i] = TRUE] ELSE @]

\* globalAgentState.waitEvent: the test fails on an impossible event, and
\* records the event whatever it is.
WaitEvent(g, kind, i) ==
    [g EXCEPT
        !.failed    = @ \/ kind \notin PossibleEvents(g, i),
        !.connected = IF kind = "connect" THEN [@ EXCEPT ![i] = TRUE] ELSE @,
        !.started   = CASE kind = "start" -> [@ EXCEPT ![i] = TRUE]
                        [] kind = "stop"  -> [@ EXCEPT ![i] = FALSE]
                        [] OTHER          -> @,
        !.activeId  = CASE kind = "operation" -> i
                        [] kind = "stop"      -> None
                        [] OTHER              -> @,
        !.quit      = IF kind = "quit" THEN [@ EXCEPT ![i] = TRUE] ELSE @]

\* notifier.sendEvent: the event travels on notifyCh, which the test
\* drains in order, so delivery is modelled as the checker's step.
Notify(kind, a) == test' = WaitEvent(test, kind, a)

-----------------------------------------------------------------------------
(* mongoConn: the oracle the coordinator consults.                         *)

\* mongoConn.Ping: succeeds while the session's connection is open.
Ping(a) == sess[a]

\* Mutant: any reachable primary taken for this agent (err == nil).
IsMasterAnyPrimary(a) == primary # None

\* mongoConn.IsMaster: the primary's host:port equals the agent's own.
\* Only asked on a working session, which the replica set opened while it
\* had a primary.
IsMaster(a) == primary = a

-----------------------------------------------------------------------------
(* The environment: replica-set elections and TestMongoMastership.        *)

\* A member is elected primary (changeVotes forces a new election).
Elect(a) ==
    /\ primary = None
    /\ elections < MaxElections
    /\ primary' = a
    /\ elections' = elections + 1
    /\ UNCHANGED <<faults, agentVars, coordVars, workVars, test>>

\* The primary steps down and closes every client connection; an mgo
\* session in Strong mode keeps its socket error until refreshed, which
\* this code never does.  The test's changeVotes forces it only once
\* every agent has connected and one has started; the elections that
\* follow may hand over more than once.  A step-down is always followed
\* by an election, so the last of the MaxElections leaves a primary.
StepDown ==
    /\ primary # None
    /\ elections < MaxElections
    /\ \A b \in Agent : test.connected[b]
    /\ test.activeId # None
    /\ primary' = None
    /\ sess' = [a \in Agent |-> FALSE]
    /\ UNCHANGED <<elections, faults, rn, killed, coordVars, workVars, test>>

\* One agent's connection to mongo is lost (a network failure): its
\* session keeps the socket error, and Ping fails from then on.
LoseConnection(a) ==
    /\ sess[a]
    /\ faults < MaxFaults
    /\ sess' = [sess EXCEPT ![a] = FALSE]
    /\ faults' = faults + 1
    /\ UNCHANGED <<primary, elections, rn, killed, coordVars, workVars, test>>

\* The test kills the agents once every agent has connected.
Kill(a) ==
    /\ ~killed[a]
    /\ \A b \in Agent : test.connected[b]
    /\ killed' = [killed EXCEPT ![a] = TRUE]
    /\ UNCHANGED <<envVars, rn, sess, coordVars, workVars, test>>

-----------------------------------------------------------------------------
(* agent.mongoWorker, run (and re-run after failure) by the outer runner.  *)

\* mgo.DialWithInfo succeeds only while the replica set has a primary;
\* without one it times out and the outer runner retries later.
Dial(a) ==
    /\ rn[a] = "down"
    /\ ~killed[a]
    /\ primary # None
    /\ rn' = [rn EXCEPT ![a] = "dialed"]
    /\ sess' = [sess EXCEPT ![a] = TRUE]
    /\ UNCHANGED <<envVars, killed, coordVars, workVars, test>>

\* singular.New pings the session: on success the agent reports
\* "connect" and a fresh coordinator starts with mastership Unknown; on
\* failure mongoWorker returns an error and will be restarted.
NewSingular(a) ==
    /\ rn[a] = "dialed"
    /\ \/ /\ Ping(a)
          /\ rn' = [rn EXCEPT ![a] = "connected"]
          /\ ms' = [ms EXCEPT ![a] = "Unknown"]
          /\ cph' = [cph EXCEPT ![a] = "idle"]
          /\ running' = [running EXCEPT ![a] = FALSE]
          /\ reg' = [reg EXCEPT ![a] = FALSE]
          /\ Notify("connect", a)
       \/ /\ ~Ping(a)
          /\ rn' = [rn EXCEPT ![a] = "down"]
          /\ UNCHANGED <<coordVars, test>>
    /\ UNCHANGED <<envVars, sess, killed, workVars>>

\* The coordinator starts worker-a: a new goroutine with a new stop channel.
StartWorkerA(a) ==
    /\ running' = [running EXCEPT ![a] = TRUE]
    /\ wk' = [wk EXCEPT ![a] = "created"]
    /\ stopReq' = [stopReq EXCEPT ![a] = FALSE]

\* singularRunner.StartWorker("worker-<id>"): registered, and started at
\* once if the coordinator already believes it is master; mongoWorker
\* then returns the inner runner to the outer runner.
Register(a) ==
    /\ rn[a] = "connected"
    /\ rn' = [rn EXCEPT ![a] = "up"]
    /\ reg' = [reg EXCEPT ![a] = TRUE]
    /\ IF ms[a] = "Master" /\ ~running[a]
       THEN StartWorkerA(a)
       ELSE UNCHANGED <<running, workVars>>
    /\ UNCHANGED <<envVars, sess, killed, ms, cph, test>>

-----------------------------------------------------------------------------
(* The singular coordinator's poll loop (spec.md 4.1).  It lives as long  *)
(* as the mongoWorker that created it; a restarted mongoWorker builds a   *)
(* new one.                                                                *)

CoordinatorLive(a) == rn[a] \in {"connected", "up"} /\ ms[a] # "Terminated"

\* Step 1: Ping.  Failure is fatal: stop every running worker, terminate.
CoordPing(a) ==
    /\ CoordinatorLive(a)
    /\ cph[a] = "idle"
    /\ IF Ping(a)
       THEN /\ cph' = [cph EXCEPT ![a] = "pinged"]
            /\ UNCHANGED stopReq
       ELSE /\ cph' = [cph EXCEPT ![a] = "dying"]
            /\ stopReq' = [stopReq EXCEPT ![a] = @ \/ running[a]]
    /\ UNCHANGED <<envVars, agentVars, ms, running, reg, wk, test>>

\* Steps 2 and 3: IsMaster, then act on the answer.  A failed query is
\* absorbed and retried on the next tick.  Losing mastership stops the
\* running worker (completed in CoordStopped); gaining it starts every
\* registered worker unless the inner runner is being killed.
CoordIsMaster(a) ==
    /\ CoordinatorLive(a)
    /\ cph[a] = "pinged"
    /\ \/ /\ ~Ping(a)
          /\ cph' = [cph EXCEPT ![a] = "idle"]
          /\ UNCHANGED <<ms, running, workVars>>
       \/ /\ Ping(a) /\ ~IsMaster(a) /\ ms[a] # "NotMaster"
          /\ IF running[a]
             THEN /\ cph' = [cph EXCEPT ![a] = "stopping"]
                  /\ stopReq' = [stopReq EXCEPT ![a] = TRUE]
                  /\ UNCHANGED <<ms, running, wk>>
             ELSE /\ cph' = [cph EXCEPT ![a] = "idle"]
                  /\ ms' = [ms EXCEPT ![a] = "NotMaster"]
                  /\ UNCHANGED <<running, workVars>>
       \/ /\ Ping(a) /\ IsMaster(a) /\ ms[a] # "Master"
          /\ cph' = [cph EXCEPT ![a] = "idle"]
          /\ ms' = [ms EXCEPT ![a] = "Master"]
          /\ IF reg[a] /\ ~running[a] /\ ~killed[a]
             THEN StartWorkerA(a)
             ELSE UNCHANGED <<running, workVars>>
       \/ /\ Ping(a) /\ (IsMaster(a) <=> ms[a] = "Master")
          /\ cph' = [cph EXCEPT ![a] = "idle"]
          /\ UNCHANGED <<ms, running, workVars>>
    /\ UNCHANGED <<envVars, agentVars, reg, test>>

\* Mutant: the coordinator's termination left to itself, not fatal to the
\* inner runner, so mongoWorker is never run again.
CoordStoppedNotFatal(a) ==
    /\ CoordinatorLive(a)
    /\ cph[a] \in {"stopping", "dying"}
    /\ wk[a] = "none"
    /\ running' = [running EXCEPT ![a] = FALSE]
    /\ cph' = [cph EXCEPT ![a] = "idle"]
    /\ ms' = [ms EXCEPT ![a] = IF cph[a] = "dying" THEN "Terminated"
                                                  ELSE "NotMaster"]
    /\ UNCHANGED <<envVars, agentVars, reg, workVars, test>>

\* A synchronous stop returns once worker-a's goroutine has exited.  After
\* a failed Ping the coordinator terminates and returns the Ping error; it
\* runs under the inner runner, whose connectionIsFatal finds the error
\* fatal (Ping still fails), so the inner runner dies, mongoWorker's
\* worker is gone, and the outer runner will run mongoWorker again.
CoordStopped(a) ==
    /\ CoordinatorLive(a)
    /\ cph[a] \in {"stopping", "dying"}
    /\ wk[a] = "none"
    /\ running' = [running EXCEPT ![a] = FALSE]
    /\ cph' = [cph EXCEPT ![a] = "idle"]
    /\ IF cph[a] = "dying"
       THEN /\ ms' = [ms EXCEPT ![a] = "Terminated"]
            /\ rn' = [rn EXCEPT ![a] = "down"]
       ELSE /\ ms' = [ms EXCEPT ![a] = "NotMaster"]
            /\ UNCHANGED rn
    /\ UNCHANGED <<envVars, sess, killed, reg, workVars, test>>

-----------------------------------------------------------------------------
(* The worker-a goroutine: agent.worker.                                   *)

\* notifier.workerStarted on entry.
WorkerStart(a) ==
    /\ wk[a] = "created"
    /\ wk' = [wk EXCEPT ![a] = "select"]
    /\ Notify("start", a)
    /\ UNCHANGED <<envVars, agentVars, coordVars, stopReq>>

\* Mutant: the insert error returned without the deferred workerStopped.
WorkerTickNoDeferredStop(a) ==
    /\ wk[a] = "select"
    /\ ~stopReq[a]
    /\ \/ /\ sess[a]
          /\ wk' = [wk EXCEPT ![a] = "inserted"]
          /\ UNCHANGED faults
       \/ /\ ~sess[a] \/ faults < MaxFaults
          /\ faults' = IF sess[a] THEN faults + 1 ELSE faults
          /\ wk' = [wk EXCEPT ![a] = "failed"]
    /\ UNCHANGED <<primary, elections, agentVars, coordVars, stopReq, test>>

\* The 250ms timer fires before stop is closed: insert.  An insert on a
\* broken session returns an error, and so, bounded by MaxFaults, may one
\* on a working session (a write error or timeout); either way the
\* deferred workerStopped runs.
WorkerTick(a) ==
    /\ wk[a] = "select"
    /\ ~stopReq[a]
    /\ \/ /\ sess[a]
          /\ wk' = [wk EXCEPT ![a] = "inserted"]
          /\ UNCHANGED <<faults, test>>
       \/ /\ ~sess[a] \/ faults < MaxFaults
          /\ faults' = IF sess[a] THEN faults + 1 ELSE faults
          /\ wk' = [wk EXCEPT ![a] = "failed"]
          /\ Notify("stop", a)
    /\ UNCHANGED <<primary, elections, agentVars, coordVars, stopReq>>

\* notifier.operation after a successful insert.
WorkerOperation(a) ==
    /\ wk[a] = "inserted"
    /\ wk' = [wk EXCEPT ![a] = "select"]
    /\ Notify("operation", a)
    /\ UNCHANGED <<envVars, agentVars, coordVars, stopReq>>

\* <-stop: return nil; the deferred workerStopped runs.
WorkerStop(a) ==
    /\ wk[a] = "select"
    /\ stopReq[a]
    /\ wk' = [wk EXCEPT ![a] = "none"]
    /\ Notify("stop", a)
    /\ UNCHANGED <<envVars, agentVars, coordVars, stopReq>>

-----------------------------------------------------------------------------
(* The inner and outer runners.                                            *)

\* The inner runner asks connectionIsFatal about worker-a's error: a
\* failed Ping makes it fatal, the inner runner dies, and the outer
\* runner will restart mongoWorker; otherwise the inner runner restarts
\* worker-a by itself, unless it was asked to stop it meanwhile.
RunnerWorkerError(a) ==
    /\ wk[a] = "failed"
    /\ IF ~Ping(a)
       THEN /\ wk' = [wk EXCEPT ![a] = "none"]
            /\ rn' = [rn EXCEPT ![a] = "down"]
       ELSE /\ wk' = [wk EXCEPT ![a] = IF stopReq[a] THEN "none" ELSE "created"]
            /\ UNCHANGED rn
    /\ UNCHANGED <<envVars, sess, killed, coordVars, stopReq, test>>

\* a.Kill(): the outer runner kills mongo-<id>, the inner runner, which
\* closes the stop channel of worker-a.
RunnerKill(a) ==
    /\ killed[a]
    /\ rn[a] = "up"
    /\ wk[a] # "none"
    /\ ~stopReq[a]
    /\ stopReq' = [stopReq EXCEPT ![a] = TRUE]
    /\ UNCHANGED <<envVars, agentVars, coordVars, wk, test>>

\* Mutant: Wait only returns for a mongoWorker that is still up.
AgentQuitOnlyWhenUp(a) ==
    /\ killed[a]
    /\ rn[a] = "up" /\ wk[a] = "none"
    /\ rn' = [rn EXCEPT ![a] = "quit"]
    /\ Notify("quit", a)
    /\ UNCHANGED <<envVars, sess, killed, coordVars, workVars>>

\* The outer runner's Wait returns once mongo-<id> is gone; agent.run
\* returns and notifier.agentQuit reports "quit".
AgentQuit(a) ==
    /\ killed[a]
    /\ \/ rn[a] = "down"
       \/ rn[a] = "up" /\ wk[a] = "none"
    /\ rn' = [rn EXCEPT ![a] = "quit"]
    /\ Notify("quit", a)
    /\ UNCHANGED <<envVars, sess, killed, coordVars, workVars>>

-----------------------------------------------------------------------------

Init ==
    /\ primary = 1              \* the root member, insts[0]
    /\ elections = 0
    /\ faults = 0
    /\ rn = [a \in Agent |-> "down"]
    /\ sess = [a \in Agent |-> FALSE]
    /\ killed = [a \in Agent |-> FALSE]
    /\ ms = [a \in Agent |-> "Unknown"]
    /\ cph = [a \in Agent |-> "idle"]
    /\ running = [a \in Agent |-> FALSE]
    /\ reg = [a \in Agent |-> FALSE]
    /\ wk = [a \in Agent |-> "none"]
    /\ stopReq = [a \in Agent |-> FALSE]
    /\ test = [connected |-> [a \in Agent |-> FALSE],
               started   |-> [a \in Agent |-> FALSE],
               quit      |-> [a \in Agent |-> FALSE],
               activeId  |-> None,
               failed    |-> FALSE]

\* The goroutines of agent a: mongoWorker (run by the outer runner), the
\* coordinator's poll loop, worker-a, the inner runner and the outer runner.
MongoWorkerStep(a) == Dial(a) \/ NewSingular(a) \/ Register(a)
CoordStep(a)       == CoordPing(a) \/ CoordIsMaster(a) \/ CoordStopped(a)
WorkerStep(a)      ==
    WorkerStart(a) \/ WorkerTick(a) \/ WorkerOperation(a) \/ WorkerStop(a)
InnerRunnerStep(a) == RunnerWorkerError(a) \/ RunnerKill(a)

AgentStep(a) ==
    \/ MongoWorkerStep(a) \/ CoordStep(a) \/ WorkerStep(a)
    \/ InnerRunnerStep(a) \/ AgentQuit(a)

Environment ==
    \/ \E a \in Agent : Elect(a) \/ Kill(a) \/ LoseConnection(a)
    \/ StepDown

Next == Environment \/ \E a \in Agent : AgentStep(a)

\* Each goroutine is scheduled (Go's scheduler, the runners' restart
\* delay and the coordinator's ticker are finite); the replica set and
\* the test driver are not obliged to act.
Fairness ==
    \A a \in Agent :
        /\ WF_vars(MongoWorkerStep(a))
        /\ WF_vars(CoordStep(a))
        /\ WF_vars(WorkerStep(a))
        /\ WF_vars(InnerRunnerStep(a))
        /\ WF_vars(AgentQuit(a))

Spec == Init /\ [][Next]_vars /\ Fairness

-----------------------------------------------------------------------------
(* Properties                                                              *)

\* Singleton safety as the store sees it: at most one agent's worker-a
\* can still write, i.e. is running on a working session.  The
\* coordinator starts worker-a only on an IsMaster answer, and a primary
\* change closes every old session, so two such writers would mean two
\* primaries at once.
Writers == {a \in Agent : wk[a] \in {"select", "inserted"} /\ sess[a]}
AtMostOneEffectiveWriter == Cardinality(Writers) <= 1

\* Fatal-on-disconnect (spec.md section 8) as the test observes it: once
\* an agent's mongoWorker is gone (its inner runner died on a fatal error,
\* or the agent quit), its worker-a has exited and the checker has seen
\* its stop, so a redialled mongoWorker never starts a worker beside one
\* of its predecessor and its "connect" is never taken for a second one.
WorkerStoppedBeforeRedial ==
    \A a \in Agent :
        rn[a] \in {"down", "dialed", "quit"} =>
            wk[a] = "none" /\ ~test.started[a]

\* TestMongoMastership never fails: every event the agents report is one
\* globalAgentState.possibleEvents allows, in particular no operation
\* event of one agent while another is the active one.
HarnessAccepts == ~test.failed

\* Killing an agent makes it quit: the inner runner stops worker-a
\* whatever step it is in, and agent.run returns.
KillLeadsToQuit == \A a \in Agent : killed[a] ~> rn[a] = "quit"

\* Bounded handoff (spec.md section 8): once a member stays primary for
\* good, and its agent is not killed, that agent's worker ends up running.
PrimaryEventuallyRuns ==
    \A a \in Agent :
        (<>[](primary = a) /\ [](~killed[a]))
            => <>[](wk[a] \in {"select", "inserted"})

=============================================================================
