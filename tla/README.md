# A verification project for LWA (local webpage access)

LWA imports web projects (a zip, a folder, a git repository) and serves them on
the local network, as a process behind a static gateway or as a container. It is
one Python package, `src/src/local_webpage_access/`, used by several long-lived
processes and many short ones at once:

* the **manager** (HTTP API and page; it also runs the agent worker),
* the **daemon** (reconciles instances with their desired state, empties the inbox),
* the **gateway** (Caddy, or built-in servers, for static sites and aliases),
* any number of **CLI** calls.

They share the workspace directory, one SQLite registry, one SQLite database of
build locks, lock files, and the Docker daemon. Nothing else coordinates them:
every hard behaviour below is a race, a crash or a failed step between
processes that meet only in these tables and files.

File names in this document are relative to `src/src/local_webpage_access/`.

Contents: 1 inventory; 2 modules and how they are run; 3 build queue; 4 agent operations;
5 hosting of containers; 6 life of an instance; 7 what survives a process; 8 entrances;
9 services; 10 watching; 11 proved, checked, not modelled; 12 where the code differs from what it says.

## 1. Inventory

| component | state it keeps | operations | interacts with | correct when |
|---|---|---|---|---|
| build queue (`build_queue.py`) | tables `build_slots`, `build_tasks`; per process a map of tasks and finish events | `run`, `cancel`, reclaim of dead owners | hosting (the builder), build hub, every caller of rebuild | slots are exclusive and never leak; a cancel stops what it names and reports what happened; a row agrees with the result of its build |
| build hub (`build_process.py`) | per process: cancel flag and running command per instance | enter/exit a build context, register a command, request a cancel, kill a process tree | build queue, `hosting.run_command` | no command of a cancelled build survives |
| agent operations (`agent/operations.py`, `registry/dao.py`) | tables `agent_operations`, `agent_plans`, snapshots of sources | plan, accept, claim, renew, execute phases, cancel, recover, sweep | importer, lifecycle, build queue | one operation per idempotency key; one executor; closed once; cancel is honest; what is deployed is what was planned |
| hosting (`hosting.py`, `rebuild_txn.py`, `compose.py`) | manifest, registry row, generated files, `.env` files, images `:latest` and `:prev`, the container | deploy, rebuild as a transaction, start, stop, recreate, compensate | compose/Docker, build queue, registry | a failed rebuild leaves the old service running; settings survive; status is what is observed |
| static sites (`hosting.py`, `ports.py`) | ports table, configuration, pid file, `public/` | enable, disable, build, remove | gateway, registry | a site's address shows its own content; a server can be found |
| lifecycle (`lifecycle.py`) | instance lock, desired state, observed revision, fallback plan | start, stop, restart, rebuild, recover, remove, prune | hosting, registry, daemon | operations on one instance are serial; a stop stays; a failed start leaves nothing |
| daemon (`daemon.py`, `reconcile_circuit.py`) | circuit records, inbox, its own pid and lock file | reconcile, watch the inbox, on, off | lifecycle, importer, service manager | what should run runs; a failing instance is not restarted for ever; one watcher; the inbox empties |
| importer (`importer.py`) | source tree, package, manifest, identity of the source | import, update | registry, versions, hosting | an instance is whole or absent; "unchanged" is true |
| versions, rollback | build rows, version tags, snapshots | archive, roll back, collect | hosting, registry | "restored" is true; a way back is kept |
| gateways (`static_gateway.py`, `gateway_service.py`, `gateway_switch.py`) | configuration, admin port, pid file, certificate, fragments | start, stop, switch, render, sign | hosting, manager, daemon | one master; one backend named; key and certificate pair up |
| aliases and access (`path_alias.py`, `access*.py`, `wsl_network.py`) | alias in manifest, registry and fragment; addresses; verdict on reachability | ask, clear, publish, verify, refresh | lifecycle, gateway | an alias leads to the instance it names; addresses follow the host; a verdict is true |
| registry (`registry/`) | SQLite schema and rows | transactions, migrations, CAS of a revision | everyone | a row is never changed on a stale revision; the schema is that of its version |
| status, patrol (`status.py`, `consistency.py`) | rows, manifests, builds; memory of what was told | synchronise, recover, patrol | Docker, daemon, manager | a building nobody works on ends, one that runs is spared; no drift is silent |
| page views, logs (`pageviews.py`, `logs.py`) | counts and a cursor; log files | read, commit, rotate, page backwards | gateway, manager, agents | no visit twice, none missed; no line left out |
| manager service, autostart | `run/manager.json`, token, report of capabilities, units, start lock | on, off, update; install, uninstall, check | service manager | off stands; on is remembered; what the check calls complete comes back |
| workspace move, updater, full setup | journal of a move; the clone and its locks; setup state and reports | move, resume, roll back; update; set up, resume | all services | resumable after a crash; no mixed code; it comes to its end |
| scanning and generation (`scanner.py`, `candidate_generator.py`, `dockerfile_templates.py`, ...) | none | classify a project, render files | importer, hosting | pure functions |
| doctor, CLI | none of their own | probes and commands | everyone | - |

(The complete list, with the source files of each component and what is and is
not modelled, is `components` of `PROJECT.json`.)

### How the components meet

* **Calls.** Manager, CLI, daemon and agent worker all call `lifecycle.py`,
  `importer.py` and `rollback.py` directly, each in its own process. There is no
  server that owns an instance.
* **The instance lock.** A file lock per instance serialises operations on it
  over processes. It is advisory and has a timeout; readers (daemon
  observation, status) and several writers (a circuit record, a revision check, the
  refresh of addresses) do part of their work outside it.
* **Other locks.** `import.lock` (one import or update at a time), the gateway's
  mutation lock and start lock, the alias lock, a rotation lock per log, the two
  locks of an update, a lock file per service. None of them is held over a whole command
  that needs several.
* **The build queue.** A build holds a row of `build_slots` and a row of
  `build_tasks` in `run/build-locks.db`; a cancel may come from any thread or
  process and names the instance, not the build.
* **The registry.** `instances.observed_revision` is a compare-and-set counter
  for callers that name the revision they expect.
* **Docker.** The container, and the image tags `:latest` and `:prev`, are shared by the
  old and the new version of an instance. A command may fail after it worked.
* **systemd.** Units are global to the user while workspaces are several; systemd
  restarts what it knows whatever a command has just decided.
* **Callbacks.** `run_command` registers the process of a build in the hub so
  that a canceller can kill it; the finish event wakes local cancellers.

### What is hard here

| behaviour | where |
|---|---|
| a cancel races with every step of a build, from inside and outside its process | `build_queue.py:cancel`, `build_process.py` |
| a process dies with a slot, a lease, a lock, a half-swapped container, a half-moved workspace | `_reclaim_dead`, `recover_stale`, `build_sources.py`, `workspace_migrate.py` |
| a decision on a row read in an earlier transaction | `cancel`, `cancel_operation`, `recover_stale`, `reconcile`, `delete_expired_agent_plans` |
| a step fails in the middle of a swap in which both versions share every name | `host_container`, `_compensate`, `rollback_instance`, the exchange of `current/`, `gateway_switch.py` |
| an undoing whose own steps fail | the same |
| a retried request, a lease that runs out under a live executor | `accept`, `claim`, `renew` |
| the daemon restarts what a user stops | `reconcile`, `start_instance`, `autostart.py` |
| two commands each find nobody there and start a process | `static_gateway.py:2064`, `manager_service.py`, `daemon.py:453` |
| a list made without a lock and used under another one | `remove --redundant` |
| a verdict that was true when it was written | `wsl_network.py`, `path_alias.py`, `capability.py` |
| a file that is renamed between reading and committing | `pageviews.py`, `logs.py` |

`PROJECT.json` lists forty hazards at their lines, each with the properties
that would catch it. Further ones, which the code itself permits, are in section 12.

## 2. Modules and how they are run

| modules | component | lines of the code | state |
|---|---|---|---|
| `BuildQueue`, `BuildSemaphore`, `BuildQueueProofs` | build queue and hub | `build_queue.py`, `build_process.py` | checked, proved |
| `AgentOps`, `AgentPlans`, `AgentOpsProofs` | durable operations and plans | `agent/operations.py`, `registry/dao.py`, `folder_source.py` | checked, proved |
| `ContainerDeploy`, `ContainerStart`, `ContainerProofs` | hosting of containers | `hosting.py`, `rebuild_txn.py`, `generated_convergence.py` | checked, proved |
| `InstanceLife`, `LifeProofs` | lifecycle, daemon, circuit breaker | `lifecycle.py`, `daemon.py`, `reconcile_circuit.py`, `importer.py` | checked, proved |
| `WorkspaceMove`, `ImportTxn`, `Fallback`, `VersionStore`, `EnvFiles`, `Redundant`, `SchemaMigrate`, `LogPages` | what survives a process (section 7) | `workspace_migrate.py`, `importer.py`, `lifecycle.py`, `rollback.py`, `versions.py`, `compose.py`, `registry/connection.py`, `logs.py`, `agent/service.py` | checked; all proved |
| `GatewaySwitch`, `CaddyMaster`, `EntryCert`, `PathAlias`, `StaticHost`, `WslExposure`, `EntrancesProofs` | entrances (section 8) | `gateway_switch.py`, `gateway_service.py`, `static_gateway.py`, `path_alias.py`, `hosting.py`, `wsl_network.py` | checked; all proved |
| `ManagerService`, `ManagerPage`, `ManagerToken`, `Autostart`, `DaemonService`, `UpdateFlow`, `PageViews` | services (section 9) | `manager_service.py`, `manager_api.py`, `capability.py`, `autostart.py`, `daemon.py`, `file_lock.py`, `update_flow.py`, `update_source.py`, `pageviews.py`, `consistency.py` | checked; `ManagerService`, `ManagerPage`, `ManagerToken`, `DaemonService`, `UpdateFlow` proved |
| `InboxWatch`, `StatusSync`, `LanRefresh`, `FullSetup` | watching (section 10) | `daemon.py`, `status.py`, `access_workflow.py`, `access.py`, `host_bootstrap.py`, `capability.py` | checked; `InboxWatch`, `StatusSync`, `FullSetup` proved |

Proofs are in modules of their own, which extend the modules they are about: `BuildQueueProofs`,
`AgentOpsProofs`, `ContainerProofs`, `LifeProofs`, `EntrancesProofs`, `ManagerProofs`, `FilesProofs`, and `PartsProofs` for the smaller modules of several sections. Section 11 sums them up.

**Composition.** `BuildQueue` instantiates
`BuildSemaphore`, the abstract specification it implements; `ContainerStart` extends `ContainerDeploy`.
`AgentOps` uses the build queue through its one promise that matters there (a cancel stops the
build of that instance that is running); `InstanceLife` takes a whole deployment as one step whose outcomes
are those `ContainerDeploy` has, `Fallback` one attempt as the outcomes of `host_container`,
`AgentPlans` an import as one step, `CaddyMaster` the fragments as one set.

**Several modules in one run.** `MCFiles`, `MCEntrances`, `MCServices` and `MCWatching` each
put modules that share no state side by side. A variable `part`, chosen at the
start and never changed, says which module a behaviour is about; the others stay in
one of their initial states (`Still`). So the states of such a run are the *sum* of those of its
modules, not the product, and every property speaks of the module it comes from; in
`MCWatching` fairness is conjoined for the steps of the module in question alone.
No run of these uses symmetry.

**Promises.** Each of these modules ends in one definition that joins its type
invariant and its properties, for instance
`ImportIsSafe == ImportTypeOK /\ WholeOrAbsent /\ UnchangedIsTrue`; the runs check these promises.
The conjuncts are named and commented one by one in the modules, and a violation is reported by
TLC under the name of the conjunct when the promise is a temporal formula.

**Mutants.** A definition named `X_What` beside a definition `X` is what a plausible bug would make of it.
`PROJECT.json` lists one for each promise; those it does not list break the conjunct
named in the comment beside them under the same configuration.

| run | module | constants | distinct states |
|---|---|---|---|
| `agent_exec` | `MCAgentOps` | 3 calls (2 share a key), 2 managers, 1 crash, 1 lapsed lease, the CLI's rebuild | 2.8 million |
| `agent_cancel` | `MCAgentOps` | 2 calls, 1 canceller, 2 managers, 1 crash; fair | 500 thousand |
| `build_cancel` | `MCBuildQueue` | 1 instance, 2 processes, 2 builds, 2 cancels, 1 crash | 1.2 million |
| `build_slots` | `MCBuildQueue` | 2 instances, 1 slot, 2 processes, 1 cancel, 1 crash, 2 failed writes | 2.0 million |
| `build_live` | `MCBuildQueue` | builds without deadline, commands without end; fair | 59 thousand |
| `container` | `ContainerStart` | 3 operations, 2 edits, 1 failing step, 1 upset | 4.6 million |
| `instance_life` | `InstanceLife` | 2 users and the daemon, 2 events; fair | 610 thousand |
| `files` | `MCFiles` | section 7 | 1.7 million |
| `entrances` | `MCEntrances` | section 8 | 2.5 million |
| `services` | `MCServices` | section 9 | 2.0 million |
| `watching` | `MCWatching` | section 10; fair | 590 thousand |
| `full_setup_resume` | `FullSetup` | no outages: the violation is in the code's own state | 2 thousand, violated |

## 3. Build queue (`BuildQueue`, `BuildSemaphore`)

The first part of `BuildQueue` is what a transaction of `CrossProcessBuildGate` does to the two
tables: reclaiming the slots of dead processes, the lowest free slot, release,
upsert and update with the table of allowed transitions and with tokens that
must match, the mark that requests a cancel. The second part is the threads.

| state | code |
|---|---|
| `slots`, `rows` | tables `build_slots`, `build_tasks` |
| `mem`, `fin` | `BuildQueue._tasks`, the finish events |
| `flag`, `hub` | `BuildProcessHub._cancel_flags`, `_procs` |
| `pc`, `held` | where `BuildQueue.run` stands, its local `slot` |
| `kills` | `_pending_kills`: workers of dead owners to be terminated after the transaction |
| `worker` | the command of each build: running, ended or killed |
| `canc` | the calls of `cancel`, local or from another process |
| `alive` | the processes; a crash removes one |

`run()` is: `Register`, `PersistQueued`, `Acquire` or `NoSlotLeft` (one
`BEGIN IMMEDIATE`), `CheckQueued`, `WaitForSlot`, `CheckTimeout`, `DrainKills`,
`StartBuilding` (under `_guard`), `PersistBuilding` or `PersistLost`, `EnterContext`,
the command (`SpawnWorker` .. `CommandResult`), `FinishBuild`, `PersistSuccess`, or
`OnCancelled`/`OnError`, and `ReleaseSlot`. `cancel()` is the `CancelStep` actions; a
caller in another process takes the `x` steps (read the row, then decide). A
builder runs at most one command here, and a command may run into its timeout or never end by itself.

One instance has one thread per process in `run` because the instance lock
and the per-process map serialise callers; over processes the lock does the same
(`InstanceFree`). A token is a fresh uuid4 (`lastTok`); a pid is never reused
within a behaviour (the identity check of the code).

| property | says |
|---|---|
| `SlotKept` | between acquire and release a run finds its own slot row, whatever others reclaim |
| `BuildersBounded` | never more builders than slots, over all live processes |
| `NoSlotLeak` | a slot row of a live process belongs to a run that still holds it |
| `GateIsSemaphore` | through the slot rows the queue is a counting semaphore |
| `BuilderRecorded` | no builder runs whose row was not written as building |
| `SuccessAgrees` | a build that answers success has a row that says so |
| `LocalReportTrue` | what a local cancel reports is what happened to that build |
| `QueuedCancelSkipsBuilder` | a build cancelled while queued never starts its builder |
| `CancelMarkJustified` | a row ends cancelled only for a cancel of that generation |
| `NoWorkerLeft` | a build that is over has no running command |
| `RowsCloseOnce` | a closed row changes only for a new generation |
| `CancelStopsBuild`, `CancelReturns`, `DeadSlotReclaimed` | liveness, below |

The runs check them as promises: `SlotsAreSafe` (`TypeOK`, `SlotKept`, `NoSlotLeak`, `BuildersBounded`),
`ReportsAreTrue` (`LocalReportTrue`, `SuccessAgrees`, `QueuedCancelSkipsBuilder`, `CancelMarkJustified`,
`RowsCloseOnce`), `RecordsAgree` (`BuilderRecorded`, `SuccessAgrees`), `BuildsGoOn` (the liveness), beside `NoWorkerLeft` and
`GateIsSemaphore`.

**Runs.** `build_cancel`: one instance, two processes, two generations, one
cancel in each process, one crash: the smallest with which a cancel of build 1
can touch build 2 and a process can be both local and remote to a build.
`build_slots`: two instances for one slot, one crash, two failing writes of the
row: two failures, because one can hit the write before and the other the one
after the builder. `build_live`: `FairSpec`, builds that wait without deadline and commands that need
not end.

**Fairness.** Weak fairness of each run's steps, each call of cancel's steps
and of signals that are delivered: these are threads of the code in loops
without a blocking wait on another party except those modelled. *No* fairness
for a command to end by itself, for a process to die or for a call to begin.

**What the code does not keep.** `CancelReportTrue`: a cancel from another process that
read `queued` ignores that its update was refused (`build_queue.py:859`) and
answers cancelled for a build that succeeded; `build_queue.py:130` says it never
reports a success falsely. `OrphanWorkerKept`: `run` writes
its new generation before its first acquire, which forgets the worker of a dead
owner; the orphan is never terminated (`build_queue.py:638`; `src/tests/scripts/test_build_queue.py:1051`
expects it to be). Both definitions are at the end of the module; named in `BuildQueueCancel.cfg` in the
place of the others, as `INVARIANT` and `PROPERTY`, TLC violates them.

### What is proved (`BuildQueueProofs`)

For every set of processes and instances, every slot count, every number of
builds, crashes and failed writes, from `GateAssumption` and `QueueAssumption`
alone:

| theorem | establishes |
|---|---|
| `Invariant` | `Spec => []IInv` |
| `TypeCorrect` | `Spec => []TypeOK` |
| `SlotsKept`, `NoLeak` | `Spec => []SlotKept`, `Spec => []NoSlotLeak` |
| `BuildersStayBounded` | `Spec => []BuildersBounded` |
| `SlotsStaySafe` | `Spec => []SlotsAreSafe`, the promise that `build_slots` checks |
| `GateImplementsSemaphore` | `Spec => GateIsSemaphore` |

None of the properties is inductive: that a run *between* acquire and release
has its row says nothing of how a run in state `finish` knows it took one.
`IInv == TypeOK /\ RunInv /\ SlotInv` adds (1) `RunInv`: what a thread in the middle
of `run` knows of its own task and that it holds a slot number exactly at the
holding control points, and (2) `SlotInv`: slot rows and holders
correspond in both directions (a live holder's row is there; a live process's row has its
holder). The proof that a step keeps it goes action by action; the
actions that change no slot share one lemma (`Goto` with types), so each action
has one step for the types, one for `RunInv` and, when it touches `slots`, one
for `SlotInv`. `BuildersBounded` is not an invariant one can prove step by step:
it follows from `SlotInv`, as the map from builders to slots is injective and there
are `Concurrency` slots. For the refinement, `Acquire` is an acquisition
after reclaiming the dead, `ReleaseSlot` a release, and every other step leaves
`slots` alone.

Its second part goes on from there to what the records say: `WorkersLeaveNothing` (`NoWorkerLeft`), `RecordsStayTrue`
(`RecordsAgree`) and `ReportsStayTrue` (`ReportsAreTrue`), from one invariant, `RecInv` (theorem `RecordsInvariant`):

* `TokenInv`: a token names one build, and rows, calls and workers name none that was not handed out; `LockInv`: one run of an
  instance at a time; `WorkInv`: a command runs only while its run waits for it.
* `RunRec`: for each control point, what the task in memory may be and what the row may be: theirs or not, which status, which mark. A row
  that is no longer this run's is not constrained: others may have written over it.
* `MarkRec`, `CallRec`: a mark in a row, or in a task, has a call behind it; a local call that answers cancelled found its build in a state
  from which it cannot report a success any more (`Hopeless`).

A step of a run is judged on the pair of its task and row alone (`RunOk`), so each action has one step for its own pair, and the other runs
and calls follow from lemmas about closing, marking and moving. The properties are action properties in part: `RowsCloseOnce` and
`CancelMarkJustified` are proved from the invariant before the step and the action. Two facts came out of attempts
that failed, each with a counterexample of TLC. `LocalReportTrue` needs its condition `dbFails = 0`: with two failed writes and two calls, the
mark of a cancel may be lost and the build report success after the call has answered. And at `persistQ` the row may be this build's
already, and cancelled: a caller in another process had written it first.

## 4. Agent operations (`AgentOps`)

| state | code |
|---|---|
| `ops` | table `agent_operations`: status, phase, owner, lease valid or not, target known or not |
| `calls` | requests inside `apply`/`instance_action`, each with its key and content |
| `cancels` | calls of `cancel_operation` |
| `wk` | the worker thread of each manager: recovering, claiming, executing |
| `stop` | the builds for which `BuildQueue.cancel` was called |
| `cli` | one rebuild of the same instance that is not an operation |

Accepting is `ReplayExisting`, `LookupKey`, `CountPending`, `InsertOp`, `RereadKey` (separate
transactions; the UNIQUE index decides the race). The worker lists stale
operations, closes them one by one (`RecoverOne`), claims the oldest (`Claim`) and
runs its phases, each an `Advance` (a compare-and-set that fails once the row was
closed) followed by its effect. `RenewLease` is the heartbeat thread; `LeaseExpires`
is a manager that was suspended. A cancel reads, then tries
`queued -> cancelled`, `running -> cancelling`, rereads, and stops the build if the phase it
*read* was build. `Sweep` deletes closed rows that nobody works on (they
have been closed for a week).

| property | says |
|---|---|
| `IdempotentAccept` | one operation per key, for equal contents |
| `ReplayFirst` | a known request is answered with its operation or a conflict, never busy or refused |
| `OneExecutor` | no operation has two executors, whatever leases expire and managers recover |
| `EndedMeansQuiet` | an operation closed other than by interruption has no executor |
| `CancelHonest` | a final status answered by a cancel stays true |
| `CloseOnce` | a closed operation stays closed |
| `OpEnds` | every accepted operation ends (liveness) |

**Runs.** `agent_exec`: three calls, two under one key with different bodies, two
managers, one crash, one lease that expires under a live worker, the CLI's rebuild: enough for
two requests to miss the lookup together and for a recovery to meet a live
executor. `agent_cancel`: a canceller, a create and a rebuild of one instance;
no expired leases, because a recovery of a live executor closes the row as
interrupted while it still runs, which is what the code intends and
`EndedMeansQuiet` excludes by its wording. Operation ids are not reused and are
bounded by `MaxOp`.

**Fairness.** Weak fairness of each manager's worker loop, which polls and
whose phases have timeouts (a phase is one step). `OpEnds` needs one manager that
lives: `MaxCrash` is one of two.

The runs check `AcceptIsTrue` (`TypeOK`, `IdempotentAccept`, `ReplayFirst`), `CancelIsTrue` (`EndedMeansQuiet`,
`CancelHonest`), `OneExecutor`, `CloseOnce` and `OpEnds`.

**What the code does not keep.** `CancelHitsOwnBuild`: an operation is in phase build while it
waits for the instance lock; its cancel stops the build of whoever holds the
lock (`agent/operations.py:383`), as the build token of the row is not compared; the comment at
`agent/operations.py:378` excludes it. TLC violates it in `AgentCancel.cfg` with `MaxCli = 1`.

### What is proved (`AgentOpsProofs`)

`AcceptStaysTrue`, `ExecutorStaysOne`, `CancelStaysTrue` and `ClosedStaysClosed` state the four safety promises for any requests, workers,
cancellers, limits, lapses and crashes. None is inductive. `IInv` (`OperationsInvariant`) adds to the types: `RowsInv` and `KeyInv`, which rows exist and that a
key has one, the UNIQUE index, with ids handed out in order so that a swept row is not another's; `CallInv` and `CancelInv`,
what a request or a cancel that has read knows of its row, so that its answer still fits when it is given; `WorkInv`: a live worker inside `_execute` stands at a row that is
held, or was closed as interrupted by a recovery, and nobody else stands there. The last clause is what makes `ExecutorStaysOne` go through although
leases lapse: `claim` takes queued rows only, and a recovery closes a row instead of handing it on.

## 5. Hosting of containers (`ContainerDeploy`, `ContainerStart`)

The state is everything the old and the new version share: the inputs (`src`,
`cfg`, `env`), the generated files `gen`, their snapshot `snap` (`docker/.prev`), the
record `goodEnv` (`docker/.env-good`), the images `latest` and `prev`, the container
`box`, the manifest on disk `man` and in the memory of the operation `mem`, the status
in the registry `row`, and the operation `op` with its Python-level flags (`txn`,
`oldStopped`, `stopAborted`, `upDone`). A file, an image or a container is named by what it
was made from; `Bad` are the versions with which a container does not come up
healthy.

`ContainerDeploy` is `host_container`: `Begin`, `SnapshotGenerated`, `TagPrevious`, then in the
order of the strategy `StopOld`/`ClearIdentity`, `RenderArtifacts`, `BuildImage`, `SwapStop`, `UpNew`,
`ObserveNew`, `CommitVerifying`, `Verify`, `Finalize`; and `KeepOld`, `Compensate`, `GiveUp`, `Cancelled` for
its exception handlers with the steps `CompDown` .. `CompGiveUp` of the compensation.
`ContainerStart` adds the entries `RebuildInstance`, `StartInstance`, `RestartInstance`, `StopInstance`,
the decision between full rebuild, recreate and light start by fingerprints
(`Converge`), the two cheaper paths, the rollback of a first attempt, and the world
around: `EditSource`, `EditEnv` (without the lock), `CancelBuild`, `ContainerLost`, `Crash`.

| property | says |
|---|---|
| `ServiceSurvives` | one failing step never leaves an instance that served without a working container |
| `KeptWhole` | "old version kept" is true of files, manifest and row |
| `RestoredWhole` | "rolled back" is true of container, files, tag, manifest and row |
| `WayBack` | while the old container may be down, its image, files and environment are on record |
| `NoSplit` | a row that says running is not that of a container that is down |

The run checks `ServiceSurvives` and `OldVersionKept`, which joins `TypeOK` and the other four.

What they exclude is named by ghost flags of `op`: `calm` (a second failure inside
the compensation, an outside event), `quiet` (the same for `NoSplit`), `swapCut` (a cancel during
the swap) and `fellBack` (a recreate that fell back to a rebuild).

**Run.** `container`: three operations, two edits, one failing step, one upset, both
strategies, three versions of source and configuration of which one is bad (a
good old one, a bad new one, a good next one) and two of the environment. Three operations
are the least for a first deployment, one that fails, and one that
builds on what it left; four and a half million states.

**What the code does not keep.** `CancelKeepsService`: a cancel is possible until `host_container`
returns; one that arrives in the swap is handled as if nothing had been
stopped (`hosting.py:1732`; `src/docs/operations-playbook.md:303` and `src/docs/agent-guide.md:140`
promise the contrary). `SnapshotIsServed`: a recreate that falls back
to a rebuild snapshots files it has just rendered (`hosting.py:2308`, against `rebuild_txn.py:124`).
TLC violates both as invariants in `Container.cfg`.

### What is proved (`ContainerProofs`)

`ServiceStays` (`ServiceSurvives`) and `OldVersionStays` (`OldVersionKept`), for any versions of sources, configuration and environment, any of them bad, any
number of operations, faults, edits and upsets. Both speak of moments (an operation has ended; the old container may be down), while the
danger lies in what an earlier step has left behind. `ContainerInv` therefore says at every control point which of two things holds: the old version is *untouched*,
or the *way back* to it is on record.

| conjunct | says |
|---|---|
| `Types`, `Roots`, `Flags` | types; a manifest with an identity has an image and files; which of the flags `txn`, `recreate`, `light`, `fellBack` go together |
| `EarlyOk`, `TxnOk` | until the old container goes down: records, container and files are the old ones, or are in the snapshot |
| `SwapOk`, `RecreateOk`, `CompOk` | from there on: `Way`, that is snapshot, `:prev` and the last good environment are the old version's, and that version works if it served |
| `PlainOk`, `LightOk` | the stop-first order and the light start, which promise less: what they may have touched |
| `FailedOk`, `CancelledOk` | which of the two holds when an exception arrives at its handler: decided by `oldStopped` and `stopAborted` |
| `EndedOk` | the properties, at the end of an operation |

`Way` is what a compensation needs, and `cTag`, `cUp`, `cCheck` consume it piece by piece. The attempt found a case no run within its
bounds had met: a light start that fell back to a full deployment after it had rendered, and whose stop then failed, ended as "kept" with other files than before (three faults); the fallback of `LightStart` now sets `fellBack`, as that of a recreate does, and the property excepts both by the same
name (`SnapshotIsServed` above is the same behaviour of the code).

## 6. Life of an instance (`InstanceLife`, `LifeProofs`)

| state | code |
|---|---|
| `row` | `instances`: present, status, desired state, `observed_revision` |
| `man` | `local-web.json`: present, deployed, failure count, waiting for a retry |
| `box`, `code` | the container; whether the source is newer than it and whether it builds |
| `history` | last operation failed; a version to roll back to; a `builds` row says running |
| `owner` | `run/build-owners/<id>.json` and whether its process lives |
| `lock` | the instance lock |
| `act` | each user's operation, and the daemon's reconcile of this instance |
| `mem` | the daemon's in-memory backoff, lost when it dies |
| `gh` | ghosts: the wish of the users, tries since the last clear, what is excluded |

`Call` is the arrival of a request (with or without an expected revision). Under the lock
an operation is: a light start in one step, a full one from `FullBegin`
(owner marker, builds row) through `BuildEnds` to `FullOk` or `FullFails`, a stop as
`StopBox` then `StopRecord`, a removal as `RemoveDown`, `RemoveRow`, `RemoveTree`. `import --update` has
two lock sections and writes in the second the manifest it loaded in the first.
`reconcile` is `Look` (list of the rows; backoff, circuit and active builds
excuse an instance), `Observe` (`observe_status`), `Recheck` (owner marker and
desired state, before the lock), the start through the same actions as a user's, `Done`, `Record`/`Persist` or
`Clear`.

| property | says |
|---|---|
| `StopStays` | what users stopped or removed is not running, unless the daemon or an update had passed the last check before |
| `NoGhostFile` | after a purge neither manifest nor row comes back |
| `TriesBounded` | at most `MANUAL_THRESHOLD` expensive tries in a row over restarts of the daemon; only lost records are not counted |
| `FuseEarned` | the circuit opens only after that many failures since it was cleared |
| `NotOvertaken` | an expected revision that was overtaken neither begins nor raises it |
| `HealedOrFused` | what should run runs again, or its circuit is open (liveness) |

The run checks `LifeIsSafe`, which joins `TypeOK` and the safety properties, and `HealedOrFused`.

**Run.** `instance_life`: two users and the daemon, a threshold of two (the code
has five; two is the least at which counting and clearing
differ), and two events of any kind: calls, failing commands, crashes, deaths of
the container. The daemon's own steps are free, so two events already combine a
user's call, or a crash, with any number of rounds of reconcile.

**Fairness.** The users' operations and the daemon's loop go on (one weak
fairness each: commands have timeouts, the loop polls) and time passes
(`BackoffOver`, `RetryDue`, `BuildStale`). The daemon is assumed to be started again after it
died, as the service manager does. Nothing forces a call, an error or a death.

*Proved* (`LifeProofs`, `LifeStaysSafe`) for any number of users, any threshold and any number of events.
`LifeIsSafe` is not inductive; `LifeInv` adds to it

* where an actor can be, with which operation (`DeedsFit`), and that the instance lock is with whom is inside one, and with nobody
  else (`LockFits`): every argument below about an operation under the lock begins with it;
* `WishStands`: once the users have settled that the instance is stopped or gone (and nobody was past his last look), nothing that would
  start it is left anywhere: not the row's desired state, not a manifest an update still holds, not an actor inside a start,
  not the daemon between `Recheck` and the lock, nor one whose failed rollback is about to go on to a start;
* `PurgeStands`: only a removal is inside an operation without a manifest, and who removes the tree has removed the row;
* `TriesFit` and `FuseFits`: every try is in the manifest's count, was lost, or is about to be counted, and no count, in the manifest
  or in a copy on its way there, is above the tries;
* `OldFits`: nobody goes by a revision the row has not reached, and who was overtaken goes by one the row has left behind.
  `NotOvertaken` is an action property that follows from it: one lemma says that a step of an actor leaves the others where they are,
  the other goes through the steps of the actor that was overtaken.

The ghost of the wish forgets "gone" with every update that writes the row: one that loaded the manifest before the removal ended
brings the instance back, also when a second removal that died in between had registered the row anew. The latter takes five events, more
than the run has; only the invariant shows it.

## 7. What survives a process (`MCFiles`, run `files`)

Each of these modules has files, rows or images that a command changes in several steps, any of
which may fail, and a process that may die in between.

**`WorkspaceMove`** - `lwa workspace relocate`. `root` is where the directory is, `journals` the
journal on each of the two paths, `names` the path written in manifests, registry, fragments, Caddyfile and units,
`up` what runs, `mv` the call. A move is `StartMove`, `Backup`, `QuiescePhase`, `Rename`, `Rebind`, `Regenerate`,
`Restore`, `Verify`, `Complete`, each saving the journal as the code does; `ResumeMove` goes on from it,
`StartRollback` undoes it (`QuiesceBack` .. `RestoreBack`). `MovesQuiet`: the directory is never renamed under a container or a service that runs (built-in servers are not checked, see section 12), except
by force or when it was started after the last check. `NothingForgotten`: a move that answers ok runs
again everything that ran when it began, over failures and resumptions (but a resumption after a rollback). `PathsFollow`: after it every file names the new path.
Two calls and two upsets (a failing step, a crash, a unit somebody starts): the least with which a
resumption itself can be interrupted.
*Proved* (`FilesProofs`, `MoveStaysSafe`) for any instances, services, calls and upsets. The invariant `MoveInv` says what a reader of the code
has to believe at every phase: a journal that says the tree came from elsewhere is past the phases before the renaming (`JournalsFit`), the call writes the journal
beside the tree and agrees with it (`CallFits`, `PhaseFits`), the check before a rename still holds at the rename (`StillQuiet`), a journal past the
rewriting means that every file names the new path (`SettledFollow`), and what ran is up or in every snapshot that may still be restored (`Covered`).

**`ImportTxn`** - imports and updates from a zip, a folder, a repository. `inst` is the directory of each id (`current/`,
`current.new`, `current.old`, package, manifest, `data/`) with its rows, `origin` what the source holds now, `txn` the command:
an import is `Pack`, `Claim`, `Unpack`, `NewManifest`, `Register`, `Count`; an update `SameSource`, `FirstLook`, `SecondLook`, `Stage`,
`SwapOut`, `SwapIn`, `SaveManifest`, `SaveZip`, `UpsertRow`, `Purge`, `Sizes`, `Tidy`, `Cas`, with the undoing in `UpdateFails`; both end in
`LoadIdentity`, `WriteBack`. `WholeOrAbsent`: without a command under way the four records of an instance are of one version.
`UnchangedIsTrue`: an answer "unchanged" is right. Three commands over two ids: one that leaves something, one that
fails on it, one that is asked whether anything changed.
*Proved* (`PartsProofs`, `ImportStaysSafe`) for any ids, sources, contents and changes beside. `ImportInv` says for each step how far directory, package, manifest and row are apart. Away from the id at work, and before a command has touched it, every
instance is whole and its recorded identity that of what is in `current/` (`AtRestOk`, with `Intact` and `Names`); an import makes its parts one after the other (`MakingOk`); before `SwapIn` the old version is in `current.old` and the backup, and the
base is its manifest (`UpdateOk`); after it each record already written is of the new version and the way back still of the old (`SwappedOk`); when only the identity is left the instance is whole (`SettledOk`). What is packed is what will be recorded
(`PackageOk`), unless the source moved on meanwhile. An instance that was removed or left by a dead import is exempt from the point on where that happened (`Sound`, `Unbroken`).

**`Fallback`** - the first start with fallback plans (`_try_host_with_fallback`). `plan`, `gen`, `port`, `cont` are what an
attempt leaves, `try` the start: `BeginStart`, an attempt (`BuildBreaks`, `BringUp`, `ProbeFails`, `LateStepFails`, `HostSucceeds`),
`RollBackContainer`, `RestoreSnapshot`, `ApplyCandidate`, `GiveUp`. `FirstStartsClean`: the first fallback plan meets nothing of the
primary attempt. `FailedStartUndone`: a start that fails, and could undo everything, leaves port, files and plan as they were.
Four plans, of which two are equivalent and two are in a subdirectory.
*Proved* (`FilesProofs`, `FallbackStaysSafe`) for any plans, equivalences and bounds. `FallInv`: the port of an attempt is the one from before, or a fresh one that its rollback gives back, and every snapshot is of what
was there before as long as nothing of an attempt was left (`AttemptsFit`); between two attempts port, files and plan are those from before (`RolledBack`); what the first attempt leaves is known (`FirstKnown`).
That the candidates are taken in order needs a finite set of naturals to have a member of each rank (`RankOf`), which is proved from well-founded induction by a least counterexample.

**`VersionStore`** - archive, rollback, collection. `rows`, `tags`, `snaps` are the three records of a version, `files`, `latest`, `box`,
`record` what is deployed. `Deploys`, `TagVersion`, `SnapVersion`, `RecordVersion`, `CollectSurplus` end a deployment; `BeginBack` .. `Land` roll
back, `CompDown` .. `Judge` compensate. `SaysRestored`: a failed rollback that says the original is back tells the truth. `WayBackKept`: collecting
leaves a version to go back to. Three builds with a retention of one: the one served, the one to keep and a surplus.
*Proved* (`FilesProofs`, `VersionsStaySafe`) for any images, retention and number of builds. `VersionInv`: what ran before a rollback is what the rollback wants to come back to (`KnowsBefore`), each step of the compensation has put back what
the later ones rely on (`Compensates`), an archived version has tag and snapshot unless something was removed outside the code (`ArchivesWhole`), and the version being archived is the last to get its record (`ArchivesLast`). That collecting
leaves a target is an argument about the newest version (`GreatestOf`).

**`EnvFiles`** - `docker/.env` and `docker/.env.local`. `dotenv` holds the lines of each key, `dbs` the SQLite files, `served` the settings
the container runs with and the stored fingerprint. A deployment reads the old file, sets an unparsable one aside, migrates keys, writes, ensures the
secret, decides by the fingerprint whether to leave the container, goes up and records. `SettingsSurviveUnlessTwice`: no rendering, failure or crash changes a setting
of the user or a generated secret, except of a key with several lines (`odds.twice`): the last line holds, the first one is migrated. `DataFound`: no application is started on an empty database while `data/` has one with data.
`NothingSwallowedUnlessLate`: a start that leaves the container leaves it with the settings of the files, unless
they were edited after the look. `Uncrossed` (the run's constraint) does not follow a behaviour further once the user or the
application wrote a file in the moment of its rendering, which no lock prevents; the properties except it in the same words. Two values and up to two lines per key: enough for a key that disagrees with itself.
*Proved* (`FilesProofs`, `EnvStaysSafe`) for any values, files and bounds. `EnvInv`: while an operation renders, the file is the one it began with, and what `.env.local` lacks after the migration the old file lacked as well, so that going up, failing and putting
the old file back all leave the same settings in force (`KeepsOk`); a key that never had two settings has one first and last line (`LinesOk`); the url decided upon names a file with data if there is one (`UrlOk`); as long as no edit
fell between up and record, a stored fingerprint is of the files the container runs with (`PrintOk`). The attempt found that the property was false: with one line per key, as the run had it, the first line is the last.

**`Redundant`** - `remove --redundant`, two prunings and users. Only the lock of the instance to remove is held; its keeper's never is.
`LastCopyStays`: no pruning takes the last copy of a zip. `OnlyRestingGo`: what it removes rests and is not kept on purpose. Both except a change in
the very moment (`chance`). Three instances: one to keep, one for each pruning.
*Proved* (`FilesProofs`, `PruningStaysSafe`) for any prunings, ids and zips. Two prunings may each take the other's keeper; what saves the last copy is that
a keeper is always *older* (`KeeperOlder`, `OlderStays`): when a pruning removes the copy another one relies on, it has an older one itself, which serves both.

**`SchemaMigrate`** - opening the database. Two processes of any releases up to the newest and two deaths. `SchemaIsItsVersion`: each version's
statements were applied once, in order, whole. Three versions, the first of two statements that cannot be run twice.
*Proved* (`PartsProofs`, `SchemaStaysSafe`) for any openers, releases, versions and deaths: `SchemaInv` says that exactly the writer is inside a transaction, and that its copy is the committed
schema and a prefix of the *next* version's statements (`CopyIsPending`), which holds because the version is read again inside the transaction.

**`LogPages`** - appending, rotating, reading backwards. `NothingLeftOut`: a reader that reaches the end has every line. `OldestGoFirst`: rotation by
two processes, also when one dies, drops only the oldest lines. Five lines, two kept files, three rotations.
*Proved* (`FilesProofs`, `LogsStayWhole`) for any page size, number of kept files, processes and lines. The current file is always a run of consecutive lines (`CurIsRun`), so
that a cursor which only counts lines finds its place again although lines were added meanwhile; the files are in order (`FilesInOrder`) and the name a rotation is to
write to is free (`OneRotates`), which the rotation lock ensures.

## 8. Entrances (`MCEntrances`, run `entrances`)

**`GatewaySwitch`** - the switch between Caddy and the built-in servers. `backend` (configuration), `enabled` (intent), `caddy`, `builtin`, `man`, `row`
(what each site's records name); `sw` the switch: `TakeLock`, `TakeSnapshot`, stop, write, enable or start, `SyncManifests`, `AccessPass`, and on a failure `Undo` ..
`Review`. `boot` is `start_gateway` with its own lock; users start and stop the gateway and sites beside it. A start, stop or heal of a site (`op`) takes the configuration its process holds, `config[p]` for the manager or the daemon, the saved
one for a new command (`TakesSite`), works by it (`EnableSite`, `DisableSite`) and saves later (`SaveSite`); `Reloads` restarts a process. `OneBackendNamed`: configuration, manifests and rows name one backend
whenever no switch is under way, but for the sites somebody saved since by an old configuration (`ggh.old`, section 12): no switch and no rollback leaves another name behind. `SwitchServes`: what a switch answers is so for every running site. Two switches, one failing step, one other command.
*Proved* (`EntrancesProofs`, `SwitchStaysSafe`) for any switches, sites and bounds. Neither part is inductive, since both speak of the end. `SwitchInv` says of each step of the switch what names the backend there:
which of configuration, manifests and rows are the old one's, which the new one's, and that the snapshot agrees with the old one (`NamesOf`); this holds whatever ran beside, unless an undo was torn.
What is served (`PlanOf`, `ServeOf`, `BootHolds`) is kept only while nothing crossed the switch and nobody worked by an old configuration, so it stands under `Clean`; that no other switch is between taking the lock and answering closes both (`SwitchControl`).

**`CaddyMaster`** - who starts, configures and stops Caddy. `procs` are the Caddy processes of the machine, one of which may be the system's; `reg`, `pidf`, `pieces`, `mainText` what
LWA has written. Commands enable a site, reload, switch on and off; each judges the admin port, renders under one lock and starts under another. `OneMaster`: a
workspace has one master on its port. `SystemUntouched`: the system's Caddy is neither configured nor stopped. Four processes, two commands, one
failure (a command that dies, a child that does not boot, a master that dies).
*Proved* (`EntrancesProofs`, `MasterStaysSafe`) for any commands of the two workspaces, ports, masters and failures. One master is not inductive: a start spawns because it saw none a few steps ago. `CaddyInv` adds that
who starts has found none and holds the start lock until its child answers (`StepsOk`, `StartsOk`: every master that boots has somebody who waits for it, as long as no wait was given up); that a master listens on the
port its workspace has registered or still on the default one, and a pid file names a master of its workspace (`PortsOk`); and that a master on the default port and a Caddy of the system never run beside each other
(`SystemApart`), so that a stop which finds the one on that port has not found the other. The lock is re-entrant (`gateway_service.py:216`): `lwa gateway on` reloads while it holds it, and starts a master that
died meanwhile.

**`EntryCert`** - the certificate of the entrance. `PairOnDisk`: key and certificate belong together whoever signs at once. `RenewedIsServed`: Caddy serves the one on disk at rest.
Three serials: two for two renderers and one for a renewal.
*Proved* (`EntrancesProofs`, `CertStaysSafe`) for any renderers, addresses, signings and deaths: `PairOnDisk` is not inductive, since a signer writes the key first. `CertInv` adds that the one that signs holds the lock
(`OneSigner`), how far the pair is behind it (`PairBehindSigner`), and that Caddy lags behind the files only while a renderer is on its way to load them (`LagIsLoaded`).

**`PathAlias`** - aliases in manifest, registry, fragment and Caddy. `ask` is a command under the alias lock and the lock of its instance, `start` the start of an instance, which holds that lock from `Deploy` over
`SyncAliasPort` and its live check to the save (`lifecycle.py:423-524`). What comes after the lock has a variable of its own: `wish` is a finished start that asks for the alias a manifest wishes for (`LookForWish`, `RestoreWish`, `WishRefused`), two of
them at a time, so that it meets a second start, a stop and commands on the same instance; `glance` is the check after a switch (`SwitchGlances`, `SwitchNotes`). `AliasesApart`: no two
instances hold one alias, and what a finished command leaves agrees. `ClearedStays`: no start brings back a cleared alias. `VerifiedStays`: no start withdraws an alias that was
verified once. One static site and one container (they differ in what a start does), two aliases, two commands, two starts, two finishers, one trouble. An instance is set aside (`loose`) once a command died half-way on it, a check was cut, or
one of the two that save without the lock wrote a copy over what had changed since (`Written`); the save of a start under the lock never does.
*Proved* (`EntrancesProofs`, `AliasStaysSafe`) for any instances, aliases, commands, starts and finishers. `AliasInv` says at each step of a command which of manifest, registry and fragment have the old alias and which the one it
is about to give (`RowFits`, `AskFits`, `FragmentFits`, with what a rollback needs), that nobody has what a command is about to give to another (`Distinct`: the registry is asked under the lock that every command holds), that what an instance has,
wishes for and is about to get was asked for since it was cleared (`WasAsked`), and that the mark of the live check is kept with the alias (`MarkStays`). The copy a start holds is what the manifest says (`StartFits`), since a command and a start never hold
one instance together (`AskGoes`). The attempt corrected the ghost of `VerifiedStays`: an alias that was verified, changed and given again without a check counted as verified, which five commands show and two do not; saving another alias now ends it,
as `_apply_manifest_alias` drops the mark.

**`StaticHost`** - sites on built-in servers. `owner` is the ports table, `listen` the sockets, `pidFile`, `site`, `srow`, `built`, `public` the records; `dep` a deployment. `OwnContentKept`: who answers at a site's
recorded port is the site. `Traceable`: every server can be found by a later stop. `RunningIsWhole`: a deployment that calls the site running has filled `public/`. Two sites for two
ports, so that both want one and a foreign program can take it.
*Proved* (`EntrancesProofs`, `HostStaysSafe`) for any sites, ports and bounds. `OwnContentKept` is not inductive: the port of a row is only safe as long as the ports table keeps it for the site, so `HostInv` says of every
place that names a port (row, configuration file, deployment, the configuration to restore) that the port is registered for the site or was given up (`PortsOf`), and of every server that nobody else is
registered where it listens (`ListensOwn`). A port taken afresh is named by none of the site's other records (the allocator takes only ports without a registration), which is why `_restore_after_enable_failure` may give it back.
`Traceable` needs that the pid file, when it names a port, names one the site has bound, and that it is empty between stopping and spawning (`PidOf`).

**`WslExposure`** - the verdict that the Windows entrance was reached from another device. `VerifiedReaches`: what is shown as verified, judged by what Windows answers now, is reachable.
`OthersDoNotWithdraw`: changes of other programs' ports do not take it back. One change of the network suffices: it falls before the attempt is
recorded, between record and judgement, or after.
*Proved* (`EntrancesProofs`, `VerdictStaysTrue`) for any ports, addresses and number of changes. The argument is that the fingerprint holds everything reachability hangs on (lemma `MarkTellsAll`: from the fingerprint
of a complete snapshot one can tell whether an entry is reachable) and nothing that strangers change (`StrangersLeaveMark`). `WslInv` carries it over time: an attempt that is not old
answers as the network does (`AttemptIsTrue`), an observation as its fingerprint does (`MarkIsTrue`), and netsh keeps one forward per port (`OneForward`), without which the fingerprint would not tell enough.

## 9. Services (`MCServices`, run `services`)

**`ManagerService`** - on, off, update and supervision of the manager. `st` is `run/manager.json`, `proc` the processes, `unit` the unit. `OffStands`: after an off nothing runs until it is asked for again.
`IntentKept`: what was switched on stays wanted. `CircuitHolds`: a service that cannot start is tried at most `Threshold` times by updates. Two commands,
three processes, a threshold of two (the least at which counting and clearing differ). `Followed` does not follow a child that writes the state after its command
recorded the failure: that clears the count by the code's own order.
*Proved* (`ManagerProofs`, `ManagerStaysObedient`) for any commands at a time, any processes and any threshold of at least two. `ServiceInv`: who is between `lock` and `killChild` holds the start lock (`CommandOk`), one process has the lock of the
service (`ProcessesOk`), an off in force finds nothing up and no command but an update that has not looked yet (`OffOk`), an on in force is in the state and in every copy of it that will be written back (`OnOk`). While nothing was lost: what is up outside of the unit is the child
of a command that waits for it, or serves and is the one the state names (`KnownOk`), so that the signal of an off reaches it (`StopOk`); and fruitless starts are in the count of the state, or of the copy a start or a stop will write over it (`TriesOk`). A threshold of one is refuted by
TLC: a process of the unit comes up while an update is about to look at the port, so `ManagerAssumption` asks for two (the code has three, `service_failures.py:26`). The attempt also found a behaviour the program does not have: two updates at once, of which the slower wrote an old count back. An
update holds the workspace's lock through its restart phase (`update_flow.py:202`), which `Begin` now says.

**`ManagerPage`** - what the page says of Docker and the gateway. `shared` is the state of the shared probe, `page` the report in memory, `saved` the file. `OneSurvey`: one probe runs however many ask.
`AnswersAreHeard`: a thread tells of a probe that ended after it asked, and fails only if such a one failed. `FileLeads`: the file never goes back, memory never runs ahead of it. `ReadyWasProbed`: no
gateway makes the page ready before the manager probed. One request beside the background thread (a thread that waits needs one other to probe twice), two probes, two upsets (a probe that fails, a change of the host, a restart).
*Proved* (`ManagerProofs`, `PageStaysHonest`) for any callers, probes and upsets. `PageInv`: one thread probes, and the shared result is its own until the next one begins (`ProbeOk`); who waits while no probe is on has heard the end of the one whose result is
there (`HeardOk`, the reason that waking late does no harm); no report in memory or in hand is newer than the file but the one about to be saved (`FileOk`); a report of no probe calls nothing ready (`ModestOk`).

**`ManagerToken`** - issue, dating and replacement of the token by the manager and by two commands that print it. `PrintedHolds`: a printed token is accepted until it is due or its file is lost; `ReplacedIsGone`: none
comes back; both unless two checks were about to write at a time (`crossed`). Three tokens, two commands, two lapses: a printed token can be due, and be lost, between two commands.
*Proved* (`ManagerProofs`, `TokenStaysSafe`) for any commands and tokens. `TokenInv`: while nothing crossed, who is about to write has a new token for a file that is missing or due, or the date for the token that is there (`WritersOk`), a printed token is the one in the file until it
is due (`PrintedOk`), and nobody holds a token that was replaced (`ReplacedOk`).
The run states the three modules as `ManagerHolds`, and `ManagerAlwaysHolds` proves it of the three specifications together: they share no state.

**`Autostart`** - units of systemd for two workspaces, of which one has one service and one two. `ForgottenIsGone`: a unit whose file is gone is gone for systemd. `OffStaysOff`: a service put off stays
off over dying units and logins. `GreenComesBack`: what the deep check calls complete comes back at the next login. Three commands, one snag, one login.

**`DaemonService`** - the watcher process with the inode and the content of its lock file, the start lock, on, off and a unit that starts it. `OneWatcherUnlessCrossed`: one watcher at a time, as long as no start overlaps an
off or another start, and no start lock is taken away from a command that holds it. Three watchers, two commands, two deaths.
*Proved* (`PartsProofs`, `DaemonStaysSafe`) for any commands, watchers and deaths. `DaemonInv` says of the lock files that a name in one is its holder's (`LockNames`), and while nothing crossed: a watcher's lock is on the file the path names and the record names the watcher
(`LocksFound`); between its look and the end of its wait a command holds the start lock and only its child may be alive (`StartsAlone`); an off finds nobody on the way up, and nobody up when it unlinks (`OffAlone`). A file that is created gets an inode
of its own because there are more inodes than watchers (`FreshIsThere`, a counting argument).
The attempt showed that the condition was too weak: with four commands, three watchers and three deaths two commands judge one start lock stale, the second unlinks the lock the first has just taken (`daemon.py:1499`),
both start a watcher, the wait of the one whose child died writes no pid over the other's, a later off removes the lock of a watcher that is up, and the unit starts a second one. `ClearOnLock` now counts as crossed when the lock it removes is held.

**`UpdateFlow`** - `lwa update` from a clone: `TakeRepo`, `TakeHome`, `Advance`, the installation, then the runtime phase in the same process or in a new interpreter (`MigratePhase`, `RestartPhase`, `ReviewPhase`).
`OnePhase`: two updates never restart one workspace's services at once. `NoMixedCode`: no old code on a new tree, no new code on old dependencies.
`CleanMeansNew`: an update without failure leaves the new code running. Two workspaces on one clone, two commits, one mishap, one
change by a user.
*Proved* (`ManagerProofs`, `UpdateStaysSafe`) for any updaters, workspaces and commits. `UpdateInv` says of each updater: the locks it holds at its step, and that its child's phase still has them unless the command gave them up (`HasLocks`); how far command and
phase are from each other (`InOrder`); that the code it runs is the tree's unless it read it before another one moved the tree (`KnowsSource`); what the phase, and the service it restarted, run on (`PhaseRuns`, `Restarted`). `CleanMeansNew`
follows from `Restarted` at the step that reads the phase's result: between the restart and that step the locks keep everybody else from moving the tree, and a user who turns the service off or on leaves it down or on the code of the tree.

**`AgentPlans`** - plans, snapshots, deployments and the sweeps of both. `DeployedIsPlanned`: an instance is made of the whole snapshot of its plan. `DeployedOnce`: a key makes one
instance of a plan however late it is repeated. One plan, one key, two requests, two workers, a clock of three with lifetimes of one: late enough for everything to be forgotten.
*Proved* (`AgentOpsProofs`, `PlansStaySafe`) for any plans, keys, requests, workers and lifetimes. `PlansInv`: a snapshot is whole until its plan expires (`PlanOk`), a deployment names a plan that was there when it was accepted and
does not outlive it by more than its lifetime (`DeployOk`), a sweeper holds only what has expired (`SweepOk`), a worker that packs still has the whole snapshot between what it has and what it has not read (`PackOk`), and what was made keeps its row until its plan has expired (`MadeOk`),
so that a late repetition finds either the row or no plan. `DeployedOnce` was first stated per key alone, which two plans refute: the row of an operation is forgotten, and its key used for another plan makes a second instance.

**`PageViews`** - counting visits by a cursor. `CountedOnce`, `NothingMissed`. One reader, six lines, three rotations, two archives kept, one archive that is incomplete when it is first seen.

**The patrol** (the last section of `DaemonService`) - what the daemon tells of drifts. `NothingSilent`: it keeps quiet only about what has been told.
*Proved* (`PartsProofs`, `PatrolStaysHeard`): while a round is on, each drift it saw is still to be told or has been (`RoundIsTold`).

## 10. Watching (`MCWatching`, run `watching`)

**`InboxWatch`** - the watcher's rounds: a zip must be seen unchanged twice, is imported, filed as processed, or counted as failed. `ZipsAreSeen`, by `FiledWasSeen`: what is filed as processed was imported or reported.
`InboxEmpties`: nothing stays in the inbox. Two names, two drops, two attempts, one hitch or restart. *Fairness:* the loop polls (`WatchStep`); copying a file need not end.
*Proved* (`PartsProofs`, `ZipsStaySeen`) for any names, drops and restarts. `FiledWasSeen` is about the step that files a zip; `InboxInv` gives it what was noted before: each key the watcher noted as done belongs to a zip that was
dealt with or is gone (`KeysAreDealt`), and a drop has an identity no earlier one had, so that a key noted for a zip is never met by its successor under the same name.

**`StatusSync`** - `sync_status` of a manager against a build. `BuildIsSpared`, by `LiveBuildSparedUnlessCrossed`: a build that runs is not declared dead, unless it began while it was being judged. `BuildingEnds`: a building nobody works on ends, also when
Docker cannot be observed. *Fairness:* the manager synchronises again and again; time passes (`GrowsOld`). Nothing forces a build to end. A build is assumed to be shorter than the 3600 s after which the code calls it stale.
*Proved* (`PartsProofs`, `BuildStaysSpared`) for any kinds of instances, builds and rounds: a builder that nobody crossed has told the registry that it builds (`UncrossedIsTold`), and a row that says so and is young is never judged stale.

**`LanRefresh`** - the refresh of addresses. `tls` keeps apart what the Caddyfile says (`file`) and what Caddy runs (`run`): the refresh judges the text alone (`OldText`), writes and reloads, and puts the text back when the reload fails (`SyncsTlsBind`);
other operations leave what they wrote (`WritesCaddyfile`). `AddressesFollow`: once the host keeps its address every manifest and a running Caddy come to have it and keep it, although operations write back manifests they loaded before, reloads fail and a process dies.
Excepted is a Caddy behind a reload that failed after `_sync_main_config` wrote the text (`lag`, section 12). *Fairness:* the interval and the caches run out, a refresh that began goes on. The host roams twice, one locked write, two of: a look in vain, a failed
reload, a death, an off or on of Caddy.

`WatchingGoesOn` joins what must go on in these modules: `InboxEmpties`, `BuildingEnds`, `LanFollows` (the types and `AddressesFollow`) and `SetupEnds`.

**`FullSetup`** - `lwa setup --full`. The run first looks at its own access (`CollectsAccess`), then reads the report of each service (`ReadsReport`) and in another step whether that service lives (`JudgesReport`); between them services die, are
stopped or started anew, from the new session or from an old one without the group (`OldSessionStarts`), and Docker comes and goes. `SetupIsTrue`, by `FullIsEarned`: the profile is raised only when the session has the group and, for each service, a process of it has
reported that itself reached Docker; the one that runs then has the access too, unless it came later. `SetupEnds`: a setup that was begun
comes to its end although Docker and services fail now and then, unless a run was told to refresh the session. *Fairness:* the user runs the command again (the code's exit code asks for it), installs what is
missing and logs in; services probe and are restarted. One outage and one snare (a failing script or start, a start from an old session).
*Proved* (`PartsProofs`, `SetupStaysTrue`) for any bounds. `SetupInv`: a report is of the process that runs or of an earlier one, and says "ready" only if a process with the group wrote it (`Fits`), which is carried from the file to what the run got and counted (`Counted`).

**Violation: `full_setup_resume`.** A run that ends with exit 2 saves `sessionRefreshRequired`; the next one reads it back, therefore
does not call the result ready, and saves it again: after the new login `lwa setup --full --resume` never finishes (`host_bootstrap.py:778`, `capability.py:476`, 885),
which `src/docs/operations-playbook.md:26` promises. `ResumeConverges` states the promise; it is violated under the fairness above and without any outage.

## 11. Proved, checked, not modelled

**Proved** for all values of the constants, under the assumptions named beside their declarations (finite sets, distinct
markers, bounds that are naturals, a threshold of at least two failed starts of the manager) and nothing else:

| module | about | theorems that state a promise of a run | arguments in |
|---|---|---|---|
| `BuildQueueProofs` | `BuildQueue` | `SlotsStaySafe`, `GateImplementsSemaphore` (and their parts), `WorkersLeaveNothing`, `RecordsStayTrue`, `ReportsStayTrue` | section 3 |
| `AgentOpsProofs` | `AgentOps`, `AgentPlans` | `AcceptStaysTrue`, `ExecutorStaysOne`, `CancelStaysTrue`, `ClosedStaysClosed`, `PlansStaySafe` | sections 4, 9 |
| `ContainerProofs` | `ContainerStart` with `ContainerDeploy` | `ServiceStays`, `OldVersionStays` | section 5 |
| `EntrancesProofs` | `EntryCert`, `WslExposure`, `CaddyMaster`, `StaticHost`, `GatewaySwitch`, `PathAlias` | `CertStaysSafe`, `VerdictStaysTrue`, `MasterStaysSafe`, `HostStaysSafe`, `SwitchStaysSafe`, `AliasStaysSafe` | section 8 |
| `ManagerProofs` | `ManagerService`, `ManagerPage`, `ManagerToken`, `UpdateFlow` | `ManagerAlwaysHolds` (of `ManagerStaysObedient`, `PageStaysHonest`, `TokenStaysSafe`), `UpdateStaysSafe` | section 9 |
| `LifeProofs` | `InstanceLife` | `LifeStaysSafe` | section 6 |
| `FilesProofs` | `WorkspaceMove`, `Redundant`, `LogPages`, `Fallback`, `VersionStore`, `EnvFiles` | `MoveStaysSafe`, `PruningStaysSafe`, `LogsStayWhole`, `FallbackStaysSafe`, `VersionsStaySafe`, `EnvStaysSafe` | section 7 |
| `PartsProofs` | `ImportTxn`, `SchemaMigrate`, `DaemonService` (with the patrol), `InboxWatch`, `StatusSync`, `FullSetup` | `ImportStaysSafe`, `SchemaStaysSafe`, `DaemonStaysSafe`, `PatrolStaysHeard`, `ZipsStaySeen`, `BuildStaysSpared`, `SetupStaysTrue` | sections 7, 9, 10 |

Every proof has the same shape: `Init => IInv`, `IInv /\ [Next]_vars => IInv'` with one step per action, `IInv => Inv`; an action property from `IInv` before the step and the action.

**Checked only by TLC**, within the bounds of the runs:

* what the prover cannot do: liveness under fairness (`BuildsGoOn`, `OpEnds`, `HealedOrFused` and what the run `watching` says of the end), and ENABLED;
* safety whose invariant has not been written: `ViewsAreExact`, and the promises of `Autostart`.
  `ViewsAreExact` counts lines in sequences that are cut, filtered and joined; what those operators return would need an induction over data.

No module uses a RECURSIVE operator, so that all of them can be proved about.

Runs do not check deadlock where behaviours really end: all builds, commands and
troubles are used up. The agent runs do check it: a worker loop polls for ever.

Each module leaves out: `BuildQueue` the closing of the gate when
`buildConcurrency` changes
and builders with several commands; `AgentOps` the contents
of plans; the container modules ports, the pin a rollback sets, drift of
SQLite mounts, failures while recording a failure;
`InstanceLife` recover and host builds; `WorkspaceMove` moves to another volume and more than one
instance; `ImportTxn` unpacking and git as more than a step; `VersionStore` the refusal of versions that migrate a database (the set of these is
empty in the run); `EnvFiles` keys of the build environment; `Autostart` launchd and the Windows scheduler; `StaticHost`
the Caddy backend; `PageViews` two readers; `InboxWatch` the bound of 2048 names; the patrol the check of mounts; `FullSetup` the acceptance of the gateway.
Whole components left out, with reasons, are in `components`: scanning and the templates are pure functions of file
contents, the doctor reads, the command line parses; they are not
state machines worth checking. The build environment runs commands on the host. The agent interface is transport, authentication and schemas.

## 12. Where the code differs from what it says

Read while modelling, beside the run `full_setup_resume` and what sections 3 to 5 name. The models behave like
the code; the properties except these cases by name (the ghost is in parentheses, a definition that TLC violates in the module's run is in
code type with its reference).

### Life of an instance and containers

1. `daemon.py:1178`: the last look at the desired state is not repeated under the
   lock, so a stop in between is undone; a failed self-heal rollback goes on to a
   start without looking again. (`late`)
2. `importer.py:839`, `1087`: `import --update` writes back the manifest it loaded before its
   second lock section, with the desired state and the circuit record of that
   time; one that waits while the instance is removed registers it again.
3. `daemon.py:909`: the failure count is loaded outside the lock it is written
   under. (`crossed`)
4. `lifecycle.py:2389`: a rebuild compares its revision after the build and then
   answers `revision_conflict` though it deployed; an update compares after its lock.
5. `reconcile_circuit.py`: a record that does not get the lock is dropped. (`lost`)
6. A light start whose probe fails returns normally, so reconcile counts it as healed.
7. `lifecycle.py:2609`: removal goes on when stop and down fail; the container may
   outlive its row.
8. A removed instance that is registered again starts at revision 1, which an
   old expected revision may match.
9. `hosting.py:1676`: after a crash between rendering and the up, the next snapshot
   holds files that never served.
10. A first deployment that fails its verification keeps its container
    identity without fingerprints; later rebuilds of it are refused.
11. `hosting.py:2054`: `.env.local` edited between the up and the record becomes the last
    good one. (`EnvInUse`)
12. `hosting.py:1648`: in the stop-first order a failing rescue of data marks the
    instance failed while the old container serves.
13. `build_queue.py:899`: a local cancel decided for one generation may stop the next build of the instance: the flag carries no token.
14. `hosting.py:3684`: an owner that dies between spawning a command and persisting its pid leaves an orphan nobody can find.
15. `agent/operations.py:443`: concurrent requests pass the count of pending operations together and exceed the limit.
16. `agent/operations.py:705`: a crash between importing an instance and naming it in its operation leaves an instance without operation.

### What survives a process

* **WorkspaceMove.** The check before the rename (`workspace_migrate.py:830`) skips instances without a compose file: a built-in server whose stop failed is renamed under, of which `MovesQuiet` does not speak. A journal that is left from an earlier move gives its snapshot to the next one (`workspace_migrate.py:1372`); a resumption after a rollback
  answers ok without verifying (1323), and a rollback answers ok though its rewriting failed; a rollback that dies after its rename is not found again; one that is refused before
  the rename leaves things stopped; an interrupt between the rename and the opening of the new path creates `run/` on the old one; a Caddyfile that failed to regenerate is never done again.
* **ImportTxn.** `FolderUnaffected`: a folder instance updated by a zip keeps its folder identity, and a later sync may answer unchanged (`importer.py:763` against 1611). A crash between the two renames (1135, 1137) loses the
  source at the next staging (971); the CAS conflict is found after the exchange (1312); identities are written outside the lock; the folder is hashed before it is packed; an id that was
  claimed may stay as an orphan directory; the comment at 1676 describes an older order.
* **Fallback.** Not modelled: giving a port back may itself fail (`lifecycle.py:1600`), and a file that could not be read for the snapshot counts as absent and is deleted by the restore (1394). `NothingAfterMigration`: a plan is tried after one whose container may have migrated the database (`lifecycle.py:562`, 771). `ManifestComesBack`: after a failed start the manifest may keep a fallback plan (step 5 at 561 against 1502). A Docker that does not answer counts as "container gone" (1578).
* **VersionStore.** `LastTargetKept`: the version collecting keeps is not picked with the eligibility of a rollback's target, so the last target may go (`versions.py:263`). A rollback that is killed after its up leaves a container that manifest and `docker/` do not
  describe, and the next one that fails answers "restored" for it (`rollback.py:363`).
* **EnvFiles.** `UrlKept`: a database URL is replaced without evidence that it is read (`compose.py:697`). `NothingSwallowed`: an edit of `.env.local` between the up and its record is recorded as served (`lifecycle.py:1106` against `hosting.py:2045`). `SettingsSurvive`: of several
  lines of one key the first is migrated although the last was in force (`compose.py:992`), where the migration claims to leave what is injected as it was (971); the backup of an unparsable file has a stamp of one second; a file edited back and forth (ABA) is not seen.
* **Redundant.** A purge whose `rmtree` fails answers "skipped" although the row is gone; the keeper's lock is never taken.
* **LogPages.** `PagesGoBack`: after a rotation a page may have lines newer than those the first page had (`agent/service.py:282`); without a category a page reads the log written last, which may change between two pages;
  lines through an old handle go with the renamed file; a rotation that does not get its lock in 5 s is left out; a crash in its middle leaves a gap in the numbers.

### Entrances

* **GatewaySwitch.** A switch does not reach the configuration other processes hold: a daemon or manager that loaded it before (`daemon.py:1845`), or the manager after its own failed switch, heals, starts or stops a site by the old backend (`static_gateway.py:686`, `hosting.py:3394`)
  and saves the old name, or starts the old Caddy again, with no switch under way; a stop may also save the name of the manifest it loaded before a switch. Such sites are in `ggh.old`, and what a switch answers after one is set aside (`stale`). A site that fails leaves what was before
  (`SiteFails`); the answers of a manager that takes the switch for done already are not modelled. The plan is made before the lock (`stale`); `_rollback` ignores that Caddy did not stop (`gateway_switch.py:591`); an off during a switch is undone by its rollback; a start on a running
  master leaves `enabled` false; `_restore_snapshot` overwrites what another command wrote; mutation lock and start lock are taken in both orders, with a timeout that resolves it.
* **CaddyMaster.** `NeighbourUntouched`: another workspace's master that took the port meanwhile may be configured (`admin_port.py:1`, `_sync_main_config` in `static_gateway.py:1393`); the run has two actors of one
  workspace, with one of each (`Ours = {c1}`, `Theirs = {c2}`) TLC violates it, and `MasterIsSafe` holds there too. With SO_REUSEPORT two masters may listen when a start is given up
  while its child boots (`slow`); `caddy_stop` answers true for a master it could not adopt.
* **EntryCert.** `HalfIsSeen`: a signing that was cut may leave a key and a certificate that do not belong together and pass for complete (`static_gateway.py:470`). A lost reload keeps the old certificate in Caddy until the next change.
* **PathAlias.** An alias that was never verified, whose fragment this start made, is kept when its check fails (`path_alias.py:545` against `lifecycle.py:508`, 2466). Here that is because `Deploy` writes the fragment before `SyncAliasPort` looks whether one was there. A start saves under the lock, but two save a copy they read
  without it: the restore of a wished alias that was refused (`path_alias.py:1368`-1384) and the check after a switch (`gateway_switch.py:453`-482); what changed between is overwritten (`loose`). `rewrite_alias_fragments` and `_rebuild_caddy_aliases` write fragments from manifests read
  without the lock, which is not modelled, nor is a death inside the rollback of a wished alias (1306-1324). A crash between
  1219 and 1222 leaves manifest and registry apart; a reload that fails is logged; any HTML counts as passed by the live check.
* **StaticHost.** `OwnContent`: the address of a site that is called running may be answered by another one, after its port was given up while rows still named it (`hosting.py:143`, 2785 against 2826). `DeclaredWhole`: the files of a site that is called running may not be whole
  (894 against 3441). The pid file is overwritten although the old server lives when killing failed (2532, `stray`); any 2xx is health; a cancelled build leaves "building".
* **WslExposure.** An attempt recorded after the network changed is bound to the new network; a query that failed when it was recorded hides changes; the port proxy is not in the fingerprint
  when it cannot be read (`UnreadableWithdraws`, `src/docs/known-limitations.md:72`, `wsl_network.py:729`); an instance that moves to the port of a forward to its old one stays verified.

### Services and watching

* **ManagerService.** An off overlapping a start or an update overwrites its pid (`manager_service.py:906`); an on killed between spawning and noting the pid leaves a process; a child that comes up late resets the count of
  failures (859, `lost`); migrating to supervision may lose the intent; the health check accepts whoever answers on the port.
* **ManagerPage.** `UnknownStays`: after a failed probe the whole is to stay unknown, "避免假绿" (`manager_api.py:790`); the parts of the last report are kept, and once the gateway reports something else than they say,
  `overlay_gateway_access_from_cache` judges them anew (`capability.py:760`) and `/api/health` answers ready. `MemoryFollows`: memory is written outside the lock (810, 1024), so an older report may replace a newer one there until the next probe.
* **ManagerToken.** `PrintedAlwaysHolds`: two checks that overlap both replace a token that is due, and the first command has printed one that is refused (`manager_api.py:300`, against `cli/manager.py:54`).
* **Autostart.** `OffSparesOthers`: an off may stop the service of another workspace (`autostart.py:1302`; `mixed`). A unit enabled but dead counts as managed; an enable that fails after the migration loses the intent.
* **DaemonService.** `OneWatcher`: an off unlinks the lock file (1666) while a watcher that started meanwhile holds it; another one then starts beside it (`daemon.py:453`, `file_lock.py:7`; `crossed`). A start lock is judged stale by its content and then unlinked by its name, so that two commands at once
may remove the one another has just taken (`daemon.py:1499`; `crossed`). A failed wait
  wipes another watcher's pid; the last write of a stop may overwrite a start.
* **UpdateFlow.** Code loaded before the locks were taken may be older than the tree (`update_flow.py:416`, `late`); `--no-pull` takes no lock of the repository (`crossed`); an interrupted parent gives up
  the locks its child works under (`update_source.py:319`, `cut`).
* **AgentPlans.** A lease that lapses under its worker, with an expired plan, lets the snapshot be swept while it is packed (`folder_source.py:170`, `lapsed`); the digest of a snapshot is never compared; a planner that
  dies leaves a snapshot; two keys may deploy one plan twice, and one key two plans, once its row was swept.
* **PageViews.** `PutOffIsRetried`: a round that was put off may be taken for counted by the age of its archives (`pageviews.py:1057` against 718). A second reader, a rotation between reading and committing, and an archive dropped before a
  reading lose or double lines (`dropped` and the `AgesHold` condition).
* **DaemonService, the patrol.** What was told is remembered per process; after {a} was told and telling {b} failed, {a} alone is not told again.
* **InboxWatch.** A zip put over one that is being imported is filed without import (`swapped`); counts of failures are lost at a restart; a crash between import and filing answers conflict.
* **StatusSync.** `LiveBuildSpared`: an instance may be failed by rows read before its build began (`status.py:553`, 35 against `hosting.py:239`; `sygh`). A cancelled build is not stale; observations "unknown" refresh `updated_at`.
* **LanRefresh.** After `_sync_main_config` wrote the Caddyfile with the new address and its reload failed, which is only logged (`static_gateway.py:1392`-1408), or its process died between the two, the text is right and Caddy is not: the refresh judges the text alone (`access.py:680`)
  and nobody reloads while the address stays (`tls.lag`). `LockedWritesStay`: the refresh saves manifests without the instance lock and overwrites what an operation wrote (`access.py:528`, against `src/docs/agent-guide.md:95`). A manifest without address never drifts; the first
  resolution is not compared with what is written.
* **FullSetup.** A report does not name the process that wrote it (`capability.py:593`-637): a service that died and was started again, by a session without the group, is credited with its predecessor's report until its first probe, and the profile may be raised on it; a setup begun by a user without the docker group keeps the daemon from healing by itself (`daemon.py:1052`); the profile is never lowered.
