# TLA+ models of the singular mastership harness and the Azure provider

This directory holds TLA+ models of the code under `src/`, the TLC
configurations that check them, and `PROJECT.json`, which maps each
definition to the source lines it translates.

## The system

The sources fall into four parts.

* **`src/unnamed/part_000`: the mongo mastership test.** It is written
  against the *singular* coordinator of spec.md §4.1. That coordinator
  is not in `src/`, so it is modelled from spec.md and marked
  `spec_modelled` in the map. How the test runs:
  * It starts a replica set. The root member, agent 1, is the first
    primary.
  * It runs one agent per member. Each agent has an outer `worker.Runner`
    whose only worker is `mongoWorker`. `mongoWorker` dials a session,
    builds an inner runner (with `connectionIsFatal`) and a singular
    coordinator on that session. It then registers `worker-<id>`, which
    inserts into the store every 250 ms.
  * Every agent reports `connect`, `start`, `operation`, `stop` and
    `quit` on one channel. The test's `globalAgentState` consumes them in
    order and fails on any event `possibleEvents` does not allow.
  * Once every agent has connected and one has started, the test
    changes the votes so the primary steps down. On a step-down mongo
    closes every client connection, and an mgo Strong session stays
    broken (the code never calls `Refresh`).
  * A failed Ping terminates the coordinator (spec.md §4.1 step 1). The
    coordinator runs under the inner runner, whose `connectionIsFatal`
    finds the error fatal, so the inner runner dies and the outer runner
    runs `mongoWorker` again: the agent redials.
  * Finally it kills the agents and waits until all of them have quit.
* **`src/unnamed/part_001`: the Azure environ.** It has two stateful
  parts:
  * the configuration and its cached storage-account key, kept
    consistent by a read-copy-update (`getSnapshot`, `SetConfig`,
    `getStorageContext`, `updateStorageAccountKey`);
  * the instance lifecycle over Azure cloud services, deployments and
    roles (`StartInstance`/`createInstance`/`newHostedService`,
    `getInstance`, `StopInstances`, `AllInstances`).

  It also has Bootstrap and Destroy, which create and delete the
  affinity group, virtual network and services. A cache of supported
  architectures is filled on first use under its own mutex.
* **`src/worker/caasoperator/operation/skip.go`:** `skipOperation`
  wraps an operation. Its `Prepare` and `Execute` return no state and
  `ErrSkipExecute`. Its `Commit` is the wrapped operation's. The
  executor that runs operations and persists their state is not in
  `src/`.
* **`src/cmd/juju/storage/poolcreate_test.go`:** CLI argument tests with
  no protocol state.

## Modules

### `MongoMastership` (with `MC_MongoMastership`)

This module composes the harness with the coordinator. Per agent `a`,
the variables are:

| Variable | Meaning |
|---|---|
| `rn[a]` | the outer runner's view of `mongoWorker`: `down`, `dialed`, `connected`, `up` or `quit` |
| `sess[a]` | whether the mgo session is still usable |
| `killed[a]` | whether `a.Kill()` has been called |
| `ms[a]`, `cph[a]`, `running[a]`, `reg[a]` | the coordinator's mastership, poll-loop position and bookkeeping |
| `wk[a]`, `stopReq[a]` | the `worker-a` goroutine and its stop channel |

Two variables are global:

* `primary`, `elections`, `faults`: the replica set, and the count of
  lost connections and failed inserts on working sessions;
* `test`: the `globalAgentState` record.

The actions:

| Code | Actions |
|---|---|
| `mongoWorker` | `Dial`, `NewSingular` (Ping succeeds: `connect`; Ping fails: error), `Register` |
| the coordinator's poll | `CoordPing`, `CoordIsMaster`, `CoordStopped` (after a failed Ping it also ends the inner runner: `rn` goes back to `down`) |
| `agent.worker` | `WorkerStart`, `WorkerTick`, `WorkerOperation`, `WorkerStop` |
| the inner runner | `RunnerWorkerError` (`connectionIsFatal`: fatal when Ping fails, else worker-a is restarted unless it is being stopped), `RunnerKill` |
| the outer runner's `Wait` and `agentQuit` | `AgentQuit` |
| the environment | `Elect`, `StepDown` (only after every agent connected and one started), `LoseConnection` (one agent's session breaks), `Kill` |

`WorkerTick` may also fail an insert on a working session (a write
error or timeout). That is the error `connectionIsFatal` finds not fatal.

Each event is delivered through `Notify`, as a step of `WaitEvent`.
`notifyCh` is FIFO, and the test consumes it in order, so delivering on
send keeps that order.

### `AzureEnvironConfig` (with `MC_AzureEnvironConfig`)

The variables:

| Variable | Meaning |
|---|---|
| `configs` | every configuration installed; a configuration is a pointer, so it is identified by its number |
| `ecfg` | the current configuration |
| `storageAccountKey` | the cached key |
| `pc`, `snap`, `queried`, `ctx` | the position, snapshot, queried key and returned context of each caller of `getStorageContext` |

`SetConfig` is one action, because it runs under the lock. So is each
locked section of `getStorageContext`. The Azure query between them is
an action of its own.

### `AzureInstances` (with `MC_AzureInstances`)

The variables:

| Variable | Meaning |
|---|---|
| `svc[s]` | cloud service `s`: free, live or gone (random names never repeat); its first deployment's naming (V1 legacy or V2); its deployment count; its first deployment's roles |
| `known` | the instance ids the provisioner holds |
| `lastStop` | the ids of this step's `StopInstances` call |
| `roleUsed` | role names already used |

Each handler is one action, because the provisioner calls them one at a
time. Its outcome is any result that the failure of any Azure call,
early returns included, can produce:

* **`StartInstance`.** The cloud service is either the service of a
  known instance (the distribution group) or a new one. The action
  covers `createInstance`, `newHostedService`, the first deployment or
  `AddRole`, `getInstance`, and the deferred cleanups.
* **`StopInstances`.** `StopPlan` is the first loop, written as a
  `FoldLeft` of `PlanStep`. It covers the nil map of a legacy id and the
  panic of a later role id of the same service. `StopLoop` is the second
  loop, written as a `RECURSIVE` operator over the service names. It
  includes the filtering of roles that no longer exist and a
  `DeleteRole` that fails after any proper subset of the roles.

### `SkipOperation` (with `MC_SkipOperation`)

The variables:

| Variable | Meaning |
|---|---|
| `st` | the persisted operation state `[op, step]` |
| `pc` | the executor's in-memory run `[phase, op, skip]` |
| `issued`, `asSkip` | the operations handed to the executor, and those wrapped in `skipOperation` |
| `executed` | the operations whose own `Execute` ran |

`SkipPrepare`, `SkipExecute` and `Commit` are the code of `skip.go`.
The executor is modelled from the `Operation` contract that `skip.go`
is written against, and is marked `spec_modelled`:

* `RunPrepare`, `RunExecute` and `RunCommit` run the steps in order.
  A step's returned state is persisted only when it is not nil, and
  `ErrSkipExecute` sends a prepared operation straight to `Commit`.
* `Crash` loses the in-memory run.
* `Resume` rebuilds a pending operation from the persisted state.

### `AzureEnvironLifecycle` (with `MC_AzureEnvironLifecycle`)

Azure is the state: `ag`, `vnet`, `services`, `lag` (Azure still holds
references to the network after its services are deleted) and
`stored` (the storage that marks the environment bootstrapped). The
client runs one command at a time (`op`, `step`). It keeps the services
Destroy `listed`, its `snapshot` of them, and the `attempts` of
`deleteVirtualNetwork`.

| Code | Actions |
|---|---|
| `Bootstrap` | `BootstrapCreateAffinityGroup`, `BootstrapCreateVirtualNetwork`, `CommonBootstrap`, then on error the deferred `DeleteVirtualNetwork` and `DeleteAffinityGroup` (LIFO) |
| `Destroy` | `DestroyListServices`, `DestroyDeleteService` (per listed service), `DeleteVirtualNetwork`, `DeleteAffinityGroup` (warnings only), `DestroyRemoveStorage` |
| `deleteVirtualNetwork` | one action per `RemoveVirtualNetworkSite`. It retries "in use" until `MaxAttempts`, and any other error ends the loop. |
| the provisioner on the state server | `Provision` |
| Azure | `ReleaseNetwork` |

Every Azure call may fail. `common.Bootstrap` is outside `src/`. It is
reduced to three outcomes: it refuses a bootstrapped environment, it
fails, or it starts the state server and writes the storage.

### `AzureArchCache` (with `MC_AzureArchCache`)

The variables:

| Variable | Meaning |
|---|---|
| `configs`, `ecfg` | the installed configurations (their image streams) and the current one |
| `supportedArchitectures` | the cache; `Nil` is the nil slice |
| `archMutex` | the caller holding the mutex |
| `apc`, `snap`, `ret` | each caller's position, snapshot of `ecfg`, and last answer |
| `during` | history: the configurations current during a caller's call |

The architectures of a configuration are identified with its image
stream. The actions:

* `SupportedArchitectures(t)` locks `archMutex`. It returns a cached
  answer at once, or else takes a snapshot and keeps the lock.
* `QuerySupportedArchitectures(t)` stores the answer for the snapshot's
  stream, or nil on error, returns it, and unlocks.
* `SetConfig(s)` installs a configuration with any stream. The
  provider's `Validate` is not in `src/`.

The check, `getSnapshot` and returning a hit are one step.
`SetConfig` landing between the check and the snapshot only changes
which current configuration is snapshotted.

## Runs

| Run | Config | Expect | Properties | What it shows |
|---|---|---|---|---|
| mastership_safety | `MongoMastership_safety.cfg` | pass | `TypeOK`, `AtMostOneEffectiveWriter`, `WorkerStoppedBeforeRedial`, `KillLeadsToQuit` | At most one worker can write to the store at a time, across step-downs, lost connections, failed inserts, redials and kills. An agent's `mongoWorker` is gone only once its worker has exited and its `stop` was seen. Under fair scheduling, every killed agent quits. |
| mastership_handoff | `MongoMastership_handoff.cfg` | pass | `PrimaryEventuallyRuns` | Under fair scheduling, a member that stays primary for good ends up running its agent's worker, even after its coordinator died on a failed Ping. |
| harness_race | `MongoMastership_harness.cfg` | violation | `HarnessAccepts` | The test can fail with "mixed operations". See finding 1. |
| azure_key_rcu | `AzureEnvironConfig.cfg` | pass | `TypeOK`, `CachedKeyMatchesConfig`, `ContextKeyMatchesAccount` | The read-copy-update never caches or returns another account's key. |
| azure_instances | `AzureInstances.cfg` | pass | `TypeOK`, `NoNilMapWrite`, `RolesRemovedOnlyWhenRequested` | `StopInstances` never panics on known ids and never deletes an unrequested role, even after partial failures leave stale ids. |
| skip_operation | `SkipOperation.cfg` | pass | `SkippedNeverExecuted` | However the executor crashes and resumes, an operation wrapped in `skipOperation` never has its own `Execute` run. |
| environ_lifecycle | `AzureEnvironLifecycle.cfg` | pass | `StorageRemovedAfterListedServices`, `CommandsReturn` | A successful Destroy has deleted every service it listed before removing storage. Every Bootstrap and Destroy returns, in spite of the "in use" retry. |
| destroy_leak | `AzureEnvironLifecycle_leak.cfg` | violation | `DestroyLeavesNoService` | A service created after the listing survives a successful Destroy. See finding 3. |
| arch_cache | `AzureArchCache.cfg` | pass | `CacheFilledOnce` | Once filled, the cache never changes. `archMutex`, held across the check and the query, lets only one caller fill it. |
| arch_stale | `AzureArchCache_stale.cfg` | violation | `ReturnsCurrentArchitectures` | After `SetConfig` changes the image stream, `SupportedArchitectures` returns the old stream's architectures. See finding 4. |
| azure_orphan_service | `AzureInstances_orphan.cfg` | violation | `NoOrphanCloudService` | A failed StartInstance can leave a new cloud service in Azure that no instance refers to. See finding 5. |
| azure_legacy_leak | `AzureInstances_leak.cfg` | violation | `AllInstancesSucceeds` | A leaked role breaks `AllInstances`. See finding 2. |

Each property of a passing run is also checked against a mutant of the
code it depends on, listed in `PROJECT.json`. TLC finds every one of
those mutants violating its property.

## Findings

1. **The test can fail on a correct system.**
   * The test changes the votes once every agent has connected and one
     is active (part_000:51-65). The step-down breaks every session.
   * The old master's worker only learns that its session is broken on
     its next 250 ms insert. Only then does it report `stop`.
   * Meanwhile the new master's coordinator fails its Ping, its inner
     runner dies, and `mongoWorker` redials. The new coordinator then
     sees `IsMaster`, starts its worker, and the worker reports an
     operation.
   * Nothing orders the two: only timing keeps the operation behind the
     `stop` (one 250 ms tick against a restart, a redial and a poll).
     When it does not, `waitEvent` (part_000:258) fails with "mixed
     operations".
   * The system itself is safe: `AtMostOneEffectiveWriter` holds.
2. **A role is leaked when a legacy service is chosen for a new
   instance.**
   * `createInstance`'s deferred `StopInstances` (part_001:554-562)
     tests a local `inst` that is never assigned.
   * StartInstance into a cloud service chosen from the distribution
     group then goes wrong when that service is a legacy deployment:
     `AddRole` succeeds, and `getInstance` fails with "expected one
     role".
   * The role stays in Azure, and `AllInstances` fails on that service
     from then on.

3. **Destroy can return success with a cloud service still running.**
   * `destroyAllServices` (part_001:915-933) deletes the services of one
     `ListPrefixedHostedServices` call.
   * The provisioner on the state server is still running and can create
     a service after that call.
   * That service keeps the network in use. The network and
     affinity-group deletes then fail, but Destroy only logs them as
     warnings.
   * The storage is removed and Destroy returns nil. The service is
     left running, although the comment says the function "destroys all
     Cloud Services".

4. **`SupportedArchitectures` answers for an old configuration.**
   * The cache (part_001:437) is filled once and never cleared.
     `SetConfig` resets the storage key, because it "may not be
     appropriate for the new config", but not this cache.
   * Once a reconfiguration changes the image stream, every later call
     returns the old stream's architectures. Whether that change is
     allowed depends on the provider's `Validate`, which is not in
     `src/`.
   * `ConstraintsValidator` (part_001:504) then builds its arch
     vocabulary from those architectures.
   * Clearing the cache in `SetConfig` would not be enough. A fill that
     snapshotted the old configuration before `SetConfig` still stores
     its answer afterwards, as in the trace. The fill needs the
     conflict check that `updateStorageAccountKey` has.

5. **A failed StartInstance can orphan a new cloud service.**
   * `newHostedService` creates the service with `AddHostedService`,
     then calls `GetHostedServiceProperties` (part_001:430). If that
     call fails it returns an error.
   * `createInstance` defers the deletion of a new service only once
     the service has been returned (part_001:583-592). So nothing
     deletes this one. The comment at 584 says a newly created cloud
     service is destroyed if anything below fails.
   * When a first deployment fails, the deferred `DeleteHostedService`
     ignores its own error (part_001:588). The service is then left
     behind as well.
   * The service holds no instance the provisioner knows. It stays
     until Destroy, and meanwhile counts against the subscription's
     cloud-service quota.
   * With both paths removed from the model, `NoOrphanCloudService`
     holds.

## Bounds and fairness

### MongoMastership

* **Bounds.** Two agents, two elections and one fault: one handoff from
  the root to the other member and back, and one lost connection or
  failed insert on a working session. With unbounded faults no member
  would ever be obliged to run its worker. Three agents (the test's replica set)
  exceed a few million states without reaching a new kind of
  interleaving: the checker and the coordinators treat any two agents
  as "old" and "new".
* **Fairness.** Weak fairness on each goroutine of an agent: its
  `mongoWorker` steps, coordinator poll, worker, inner runner and
  `Wait`. Go schedules every runnable goroutine, the coordinator's
  ticker fires, and the runners restart after a finite delay. The
  replica set and the test driver get no fairness.
* **Deadlock.** The safety and handoff runs use `CHECK_DEADLOCK FALSE`,
  and so does the violation run. The test's end state, with every agent
  quit, has no successor, and the test returns there.

### AzureEnvironConfig

Two callers, two storage accounts, and up to three configurations (two
reconfigurations). That is enough for a reconfiguration to fall between
any two steps of either caller, in both directions.

### AzureInstances

* **Bounds.** Three service names and three role names. A service can
  hold three roles, or two next to a legacy one. A partial
  `StopInstances` failure can leave a stale id behind for the next
  call.
* **Symmetry.** Symmetry over services and roles is sound: the model
  never distinguishes them.
* **Deadlock.** `CHECK_DEADLOCK FALSE` is used because the role names
  run out.

### SkipOperation

* **Bounds.** Three operations, each handed to the executor once, as
  itself or wrapped. That is enough for a skipped operation to follow a
  pending one and to meet a crash at every step.
* **Fairness and deadlock.** There is no fairness, because the property
  is a safety property. `CHECK_DEADLOCK FALSE` is used because the run
  ends once every operation is committed.

### AzureEnvironLifecycle

* **Bounds.** Three service names: the state server's and two more for
  the provisioner. `MaxAttempts = 2` stands for the 30 attempts of
  `deleteVnetAttempt`: one retry and then giving up are the two
  behaviours that matter.
* **Fairness.** Weak fairness applies to the steps of a running command
  (`Running`). The client's goroutine runs each command to its end, and
  every step is an Azure call that returns. Starting a command, the
  provisioner and Azure's release of the network get no fairness.
* **Deadlock.** Deadlock is checked, because a user can always start
  another command.

### AzureArchCache

* **Bounds.** Two streams, two callers and three configurations. A
  reconfiguration can fall before, during and after a fill, and a
  second caller can find the cache empty or filled.
* **Fairness and deadlock.** There is no fairness, because both
  properties are safety properties. Deadlock is checked: a caller can
  always call again.

## Not modelled

* **Kept out of the models on purpose:**
  * The event strings (`mkEvent`) and all logging.
  * The network configuration and port masking of roles.
  * `Instances(ids)`.
  * `getManagementAPI` and `releaseManagementAPI`. Despite the comments
    there is no pool: each call builds its own context and temporary
    certificate file, and release deletes the file. No state is
    shared.
  * Name collisions in `attemptCreateService` (part_001:399). The
    names are random, and the model never reuses one. The race between
    the availability check and `AddHostedService` with another Azure
    user would need a model of Azure's global name registry.
  * The session and inner runner that `mongoWorker` leaks when
    `singular.New` fails (part_000:171). The code closes its session
    on no path at all, so counting sessions would only restate that.
  * `skipOperation.String`, which is formatting.
  * `poolcreate_test.go`, which holds table-driven CLI argument tests
    with no state.
  * `StateServerInstances`, and what `common.Bootstrap` does beyond
    starting the state server and writing the storage.
* **The provisioner that calls `StartInstance` and `StopInstances`.** It
  is not in `src/`. The model lets it stop any one or two ids it knows,
  and keep the ids after an error.

## Plan for later sittings

In order of importance:

1. An abstract `Singular` specification (at most one started worker;
   handoff) and the coordinator shown to implement it, with `INSTANCE
   ... WITH` a refinement mapping. The coordinator is spec-modelled, so
   such a refinement would check spec.md against itself unless the
   harness's events are what is mapped.
2. Coordinator `Kill`, and `IsMaster` errors on a working session.
3. A three-agent mastership run in simulation.
