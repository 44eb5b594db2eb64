# stackman in TLA+

`stackman apply` deploys a compose file as a Docker Swarm stack: it takes a
snapshot of the stack, changes the services one by one, follows the update and
the health of their tasks, and puts the snapshot back when one of these gates
fails. This directory models the parts of the program that keep state or run
concurrently, checks them with TLC on small instances and proves some of the
results with TLAPS for every instance.

    tlc -workers 2 -config MCApply.cfg MCApply      # a run
    tlapm ApplyProofs.tla                           # the proofs

Every run is named after its `.cfg` file and uses the MC module of its
component. Paths below are relative to the repository.

## 1. Inventory

### Components

| Component | Code | State it keeps | Operations |
|---|---|---|---|
| apply lifecycle | `cmd/apply.go` `runApply`, `runSignalHandler` | contexts (root, update, health, rollback), signal channels, error groups, deferred calls | deploy, wait, roll back, exit |
| stack deployer | `internal/swarm/{stack,services,cleanup,rollback}.go`, `internal/snapshot` | `StackSnapshot`, `DeploymentResult`; the services in the Swarm API with their version | `CreateSnapshot`, `Deploy`, `Rollback` |
| task watcher | `internal/health/watcher.go`, `events.go` | `taskStates`, `existingTasks`, event channel, subscribers, `done` | `Start`, `pollTasks`, `broadcastEvents`, `Subscribe`, `Unsubscribe`, `CleanupOldTasks` |
| task monitors | `internal/health/monitor.go`, `cmd/apply.go` `monitorServiceTasks` | registry of monitors under `monitorsMu`; per monitor its channels and `stopped` | `Start`, `Stop`, `SendEvent`, log streaming |
| update and health gates | `internal/health/service_update_monitor.go`, `cmd/apply.go` `waitForAllTasksHealthy` | the answers of one round | `WaitForUpdateComplete`, rounds of list/list/inspect |
| resources | `internal/swarm/{networks,volumes,images}.go` | networks, volumes, images of the daemon | ensure, create, pull |
| planner | `internal/plan`, `internal/swarm/state.go` | `CurrentState` while it is read, `Plan` | `GetCurrentState`, `CreatePlan`, `IsEmpty` |
| rollback command | `cmd/rollback.go` | the services as listed | `ServiceUpdate` to `PreviousSpec`, service by service |
| events, logs commands | `cmd/events.go`, `cmd/logs.go` | none | print streams |
| compose parser, converter, paths | `internal/compose`, `internal/paths` | none | YAML to `swarm.ServiceSpec` |
| wiring | `cmd/root.go`, `main.go`, clients, ids, loggers, doubles | none | |

### How they interact

`runApply` is the only caller of everything. It calls `CreateSnapshot` and
`Deploy` in its own goroutine. For every updated service it then starts three
goroutines: a **watcher** (`runServiceWatcher`), a consumer of that watcher's
channel (`monitorServiceTasks`, which runs one **monitor** per task) and an
**update monitor**. The first two belong to `watchersGroup`, the third to
`updateGroup`; all hang below `updateCtx`. A **signal handler** waits for a
signal, the end of the root context or the end of the deployment. A failed gate
cancels `updateCtx`, waits for both groups and calls `snapshot.Rollback` under a
context of its own. Deferred calls then wait for the handler and close
everything. The command `stackman rollback` is a process of its own, which
changes the same services without a snapshot. No command calls the planner yet.
The Swarm manager, its orchestrator, the containers and other
clients of the cluster act on their own time.

### What is hard in it

* Eleven places where a goroutine blocks, released by five contexts and three
  channels whose order of closing is the order of `defer` statements.
* A signal, a deadline or a broken stream at any point of the sequence.
* API calls that fail, or take effect and lose their answer; three attempts of
  some, endless retries of others.
* Optimistic versions of services that the orchestrator and others bump.
* Two sources of task events (stream and polling) over the same map, bounded
  channels that drop events, and a clean-up that forgets.
* Gates that decide on answers gathered at different times.
* Names: Swarm takes a name in a filter for the beginning of one, and the planner
  cuts a prefix without looking at its end.
* Several processes on one stack: applies, rollbacks, other clients.

### What makes each component correct

| Component | Correctness |
|---|---|
| apply lifecycle | at most one rollback, alone with the cluster; rolled back exactly when a gate failed; success only after both gates; nothing outlives the process; every failed gate reaches the rollback, every run ends |
| deployer | an apply is a transaction: kept whole, undone whole, or given up with an error; it does not fail by itself; no write of others is lost unseen; a kept service is never removed or made anew |
| watcher | each running task of the deployment is announced, nothing else is; the subscriber is released and all goroutines end |
| task monitors | one live monitor per task and exactly those in the registry; whoever is waited for was told to stop; everything ends with the context |
| gates | a gate opens only for a healthy, completed update; it always ends with its context, and opens for a healthy stack |
| resources | what a file asks for exists when its services are written, whoever else deploys; a deployment can be repeated; what can succeed does |
| planner | applying the plan to the current state gives the desired one; the plan fits what was there all the time, though it was read by several calls |
| rollback command | a service holds the two specs the last apply left it, whatever runs of the command meet; what a run did not revert it has warned about |

`PROJECT.json` lists the hazards one by one, each at its line with the
properties that would catch it.

## 2. Plan

| Step | Module | What | State |
|---|---|---|---|
| 1 | `Apply` | the process: goroutines, contexts, signals, timers, defers | done |
| 2 | `Deployer`, `StackTxn` | the calls to the cluster; the transaction they implement | done |
| 3 | `Watcher` | events of one service | done |
| 4 | `TaskMonitors` | the registry and the life of monitors | done |
| 5 | `HealthGate` | the two gates against a moving Swarm | done |
| 6 | `ApplyProofs` | type correctness and the safety of `Apply` | done |
| 7 | `Resources`, `ResourcesProofs` | images, networks and volumes of concurrent and repeated deployments, with the default network and the volume without a name | done |
| 8 | `Planner` | reading the stack call by call, and the plan made of it | done |
| 9 | `Apply` implements `StackTxn` | the process and the deployer meet in one abstract specification, instead of a product of both modules | done |
| 10 | `RollbackCommand`, `RollbackCommandProofs` | several runs of `stackman rollback` next to applies | done |
| 11 | `DeployerProofs` | all safety of `Deployer`, its refinement of `StackTxn`, and what the transaction promises in the end | done |
| 12 | `TaskMonitorsProofs` | the registry, and that nobody is left | done |
| 13 | `WatcherProofs` | type correctness with the capacities, `RecordedIsHeard`, and that everyone can leave | done |
| 14 | `HealthGateProofs` | `PassIsSound` | done |
| 15 | `PlannerProofs` | `PlanReachesDesired`, `PlanFitsCluster` | done |
| 16 | `ApplyStack` | `Apply` composed with `Deployer`: the signal and the deadline meet the single API call | open |

No module uses a RECURSIVE operator, so each of them can be proved about.
Parameters are CONSTANTS with named assumptions, as weak as the code allows
(any finite set of services, any number of signals, faults and events).
The abstract specification is `StackTxn`: what an apply promises about the specs
of a stack. Both `Apply` and `Deployer` implement it, the first as the process
sees it, the second as the cluster does.

## 3. Modules and the code

### Apply

One action per step of `runApply` between two points where another goroutine
can be seen, and one per step of each goroutine it starts. `main` is the
program counter:

    snapshot -> deploy -> updates -> health -> stopping -> drain -> exit
                                 \-> unwind -> rollback -/

`drain` is the stack of deferred calls: waiting for the handler
(`signalWG.Wait()`) comes before closing `deploymentComplete` and before
`cancel()`, as `defer` orders them. `ctx` and `upd` carry the reason they ended,
since a child keeps the first. The handler's three steps - receive, send the
error without blocking, cancel - are separate actions because the order matters.
`DeployService` and `RestoreService` stand for the API calls of one service;
`Deployer` opens them.

`Apply` implements `StackTxn` with its own view of the stack: `spec` is new for
what `Deploy` changed and `Rollback` has not restored, `phase` says what
`runApply` takes the stack for when it returns: kept when it returned nil or saw
both gates pass, undone when `Rollback` returned nil, half way otherwise.

### Deployer and StackTxn

The cluster keeps per name an identity, a version, the version of the last
write of the spec, and whose spec it is (old, new, foreign). `pc` is the next
API call. Loops visit a set `todo` in any order, which is what ranging over a Go
map does. A call answers, fails because its context is done, or fails while its
context is live (`MaxFaults`); a write may also take effect and then fail.
`FindService` looks a service up as Swarm does it: the service of that name, or
any that begins with it (`Longer`); `found` is what it returned, and Swarm
refuses an update that would rename a service.
`ListOldTasks`/`ListNewTasks` include the three attempts. `images`, `networks`
and `volumes` are one step each that may fail (`Prepare`).
`Restore` writes the spec of the snapshot; that `rollback.go:154-164` first sets its
`UpdateConfig` to start-first and pause is data.
`StackTxn` says the same from outside: services move from old to new, then the
transaction is kept, undone or given up half way. The refinement maps `initial`
to `before`, the specs of present services to `spec`, and `pc` to `phase`.

### Watcher

Three goroutines, the Docker stream and the life of the tasks. `known` is the
key set of `taskStates`, `existing` is `existingTasks`. The inspection of a task
and the rest of `handleContainerEvent` are two steps (the API call in between
holds no lock); so are the lookup and the insertion in `discoverTasks`, which
take the lock twice. `Emit` is the non-blocking send that drops, or gives way to
a closed `done`. The subscriber unsubscribes when its context is done or its
channel closed and drained (`listening`); the broadcaster closes only what is
still subscribed. `announced` and `excused` are history variables, read by
properties only. Recording a task and emitting its event are one step: the
goroutine that records always emits next, and nobody can tell the moment between
them, in which the task is in `taskStates` and its event not yet in the channel,
from one in which it waits to run. An action that records a task and emits nothing
(`watcher.go:411-413`) is left out: to the subscriber it is an event other than
create that met a full channel, which excuses the task as well. Docker health events and `kill`, `stop`, `destroy` take the
same path as `start` and `die` and are left out, and so is the version-less
start of the filter: the watcher of an apply always has both filters.

### TaskMonitors

`monitorServiceTasks` up to its return. Monitors are numbered in the order they
are made; `registry` maps a task to the number of its monitor, 0 for none. A
monitor has `Start`, `processEvents` and `streamLogs` as goroutines;
`monitorHealth` decides nothing and leaves when `Start` does. `mu` is
`monitorsMu` where it is held over more than one step: the deferred call that
stops the monitors.

### HealthGate

Per service the update status Swarm reports, per task what its record and its
container say. Task 0 of a service is left from the deployment before. A round
of `waitForAllTasksHealthy` is `ListServices`, `ListTasks`, one
`InspectContainer` per running task (any order: they run in parallel) and
`Decide`. Swarm moves at any time between them. `checked` are the services with a
healthcheck; a container without one counts as healthy by being there, even if it
has exited since the tasks were listed (`CountsAsHealthy`), or is gone, which fails
the round. The containers of a removed service live on until Swarm stops them. `wanted` and `healthy` remember
what the round saw and what was true during it.

### Resources

Several applies of one stack, each at its own place in `Deploy`: `images`,
`networks`, `volumes`, `services`, with `create` and `make` between the look-up
and the creation of a network or volume. `todo` is what the current loop has
still to visit, in any order. A compose file is what it declares and which
services have no `networks:`; the converter makes nothing of the networks a
service lists, so `DeployService` attaches to the default network or to none.
The cluster refuses a network name that is taken, a spec with an unknown
network, and the removal of a network in use. A failed apply is repeated from
the beginning. `maker`, `blind` and `lost` are history variables, read by
properties only. Removing obsolete services belongs to `Deployer`, and so do
the calls of `deployService`, which are one step here.

### RollbackCommand

A service of the cluster is its two specs, `Spec` and `PreviousSpec`, and its
version; every write moves the first into the second. A run of the command
(`pc`, `seen`, `todo`, `warned`) lists the services once and visits them in
turn: it skips one without a previous spec (`Skip`), sends the listed previous
spec with the listed version (`Revert`), or warns and goes on (`RevertFails`).
It handles no signal, so `Kill` may end it between two services. Next to it
applies write the number of the apply as the spec, die, or put their own snapshot
back. `last` is a history variable: the specs the last apply left.

### Planner

`GetCurrentState` reads services, networks and volumes by one call per kind and
one more per network, between which others add and remove objects. A name is a
sequence of parts, since what matters is where `Strip` cuts it; two objects can
come to have one name, and the later of the list stays. `CreatePlan` is one
step; `PlanResources` is the code of `planNetworks`, `planVolumes`, `planConfigs`
and `planSecrets`. `late` and `gone` are history variables.

## 4. Runs

Passing runs:

| Run | Checks | Shows |
|---|---|---|
| MCApply | `TypeOK` `SignalNeverLost` `QuiescentRollback` `RolledBackIffUnverified` `OkMeansVerified` `NoOrphans`; `ImplementsTxn`; `RollbackCompletes` `Exits` | the process is safe under every interleaving with two services and two signals, and a transaction; no timer is needed for a failed gate to reach the rollback, which restores whatever the apply touched; the process ends once the root timer fires |
| MCDeployer | `TypeOK` `KeptServicesSurvive` `RollbackUndoes` `FailsForCause` `NoLostUpdate` `NoneUnreported`; `ImplementsTxn`; `Terminates` | two services, one name the beginning of the other, one fault, one version bump, one foreign write: safe, nothing changed goes unseen because a call failed, a transaction in the sense of `StackTxn`, and every loop leaves with its context |
| MCWatcher | `TypeOK` `RecordedIsHeard`; `TaskAnnounced` `EveryoneReleased` | channels are never written after closing; both ways of discovery filter alike, and neither records a task without its announcement; what the watcher owes its subscriber; a broken stream or the end of the context releases everyone |
| MCTaskMonitors | `TypeOK` `RegistryIsExact` `NothingLeft`; `Returns` `DeafMonitorEnds` | the registry is exact while monitors come and go, nobody waits for a monitor nobody stopped, and all ways out lead out |
| MCHealthGate | `TypeOK` `PassIsSound`; `EndsWithContext` `WellOpens` | a gate over two replicas, with or without a healthcheck, that fail and are replaced opens only for what was healthy in the round and updated, ends with its context, and opens for a stack that stays well |
| MCResources | `TypeOK` `NetworksReady` `RefusedByOthersOnly`; `Converges` | two applies that race for the same names never lose a network unseen, are refused one only for what others did or their file asks, and succeed in the end if their files allow it |
| MCRollbackCommand | `TypeOK` `TwoSpecsKept` `RevertedOrTold` | two runs of the command and applies of two services: no stale spec goes back, and nothing is skipped silently, even by a run that is killed |
| MCPlanner | `TypeOK` `PlanReachesDesired` `PlanFitsCluster` | every pair of a stack out of seven objects and a compose file, with two changes during the reading: the plan turns what was read into what is wanted, and fits what was there all the time |

The exceptions a property names are those the code has. `TaskAnnounced`: a task
whose first event was not its create event, whose announcement met a full
channel, or which was there before. `PassIsSound`: healthy at some time of the
round, not at its end. `RollbackUndoes`: after a failed call a new service may be
left, since a failed removal is a warning (`rollback.go:136`). `NoneUnreported`: a
service whose tasks are slower than the second the code waits. `Returns`: with
logs only the context is sure to end a monitor. `DeafMonitorEnds`: a monitor that
never got the terminal event. `RefusedByOthersOnly` and `Converges`: a file that
declares other networks than the default one. `FailsForCause`: a new service whose name
begins another name of the file. `PlanFitsCluster`: an object whose plan name
another object, or the file, has too.

Runs that TLC must refute, each a statement of the documentation or of a
comment against what the code does:

| Run | Statement | What happens |
|---|---|---|
| MCApplyNoWait | `cmd/apply.go:176` "If --no-wait, exit now" | `signalWG.Wait()` is the first deferred call to run; the handler it waits for is ended only by later ones, so the process hangs until a signal or the deadline. Every return after line 162 does |
| MCApplyFailure | `README.md:150` rollback on "failure, timeout, or interrupt", `README.md:386` "if deployment started" | an error of `Deploy`, or a signal during it, returns at once, with services changed |
| MCDeployerSnapshot | `rollback.go:101` "restores the stack to a previous snapshot" | services the same apply removed as obsolete are skipped, and success is reported |
| MCHealthGateFailed | `apply.go:364` "all tasks ... healthy" | failed tasks and delayed replacements are passed over |

### Disagreements seen on reading, without a run

* `VolumeCreate` gets no name (`volumes.go:38-47`): "Create local volumes from
  `volumes:` section" (`README.md:1092`) makes another anonymous volume at every
  apply, and the one of the stack never exists. `CreateVolume` models this.
* A compose file that declares a network, and not `default`, leaves the default
  network uncreated (`networks.go:13`), and a service without `networks:` is then
  refused at every apply. `RefusedByOthersOnly` and `Converges` name the exception. The
  networks a service does list reach no spec (`converter.go`), against "Network
  attachment with aliases" (`README.md:668`).
* Obsolete services are removed with or without `--prune` (`README.md:276`,
  default false): nothing reads the flag (`stack.go:62`).
* "is running (no healthcheck)" (`apply.go:527`): `State.Running` is not looked at,
  and a container that has exited since the tasks were listed is counted as healthy.
  `CountsAsHealthy` models this; `PassIsSound` is what remains.
* `waitForServicesRemoval` takes any error of the inspection for "Service not
  found" (`cleanup.go:81`).
* The rollback sends the version it has just listed, not the saved
  `Version.Index` of `README.md:140`, so it overwrites what other clients wrote
  after the deployment (`rollback.go:175`). `NoLostUpdate` is the guarantee that
  remains.
* Events of tasks that existed before are forwarded although `watcher.go:40`
  says none are emitted: `handleContainerEvent` does not look at
  `existingTasks`. Polling forgets those that end and then announces them
  (`watcher.go:758`), and announces a quiet task again once `CleanupOldTasks`
  has forgotten it (`watcher.go:565`).
* A monitor "automatically cleans up ... when task reaches terminal state"
  (`monitor.go:16`) only when a terminal event reaches it: one made after its
  task has ended lives as long as the context.
* The error of a signal ends in `log.Fatalf`, hence status 1 and not 130
  (`README.md:390`); statuses 2, 3 and 4 (`README.md:387-389`) are never used by
  `apply`. The health re-check after a rollback (`README.md:141`) does not exist.
* A service is looked up by a filter on its name (`services.go:108-113`), which
  Swarm takes for the beginning of one. With `web2` there and `web` not, the
  lookup of `web` returns `web2`; Swarm refuses to rename it, and the deployment
  fails. A file with both is deployed or not as the order of a Go map has it.
* "Return nil - service was NOT changed" (`services.go:231`): it was. Its new
  tasks were slower than the second the code waits, and so it is neither
  monitored nor gated on.
* Polling is "catching tasks created before subscription" (`watcher.go:689`); a
  task recorded by any earlier event is never announced (`watcher.go:346-357`).
* "The channel will be closed automatically when the Watcher shuts down"
  (`watcher.go:177`) is not so for a channel that has been unsubscribed.
* "Repeated applies without changes result in no-op" (`README.md:180`): every
  apply labels the tasks with a new deploy id (`services.go:84-97`), so all of
  them are made anew.
* `stackman rollback` is listed as "Rollback stack to previous state"
  (`README.md:248`). It updates each service to its `PreviousSpec`, skips what
  was created, brings nothing back that was removed, and undoes itself when run
  twice. It reports success whatever failed (`cmd/rollback.go:117-134`), and
  status 3 is unreachable behind `log.Fatalf` (`cmd/rollback.go:56-57`).
* The planner: `compareServices` ends with "configuration" whenever it found
  nothing (`planner.go:289`), so no plan with a kept service is empty; configs and
  secrets are never read (`state.go:109`), so they are always created;
  `Orphaned*` (`types.go:80-84`) is never filled; the prefix of a name is cut
  without a look at the separator (`state.go:42`).
* `logs -f` stays with the first container (`logs.go:200`), and `events` without
  `-f` ends only with an error (`events.go:163-175`).
* The converter: labels of the file can overwrite the label of the stack
  (`converter.go:48-52`), an entrypoint replaces the command (`converter.go:143`),
  and a disabled healthcheck is left out rather than disabled
  (`converter.go:156`).

### Bounds

Only MCRollbackCommand, which checks no liveness, uses symmetry; for liveness
TLC's reduction is unsound.

The runs of Watcher, TaskMonitors, HealthGate, RollbackCommand and Planner have
`CHECK_DEADLOCK FALSE`: the component returns and its environment has a bounded
supply of events, so the system really stops. `Apply` and `Deployer` stutter in their final states
only, and every other deadlock would be reported.

* `Services`: two in `Apply` and `Deployer`. Every property of `Apply` speaks of
  one service, of all, or of the first of two failing; the proofs of section 6
  remove the bound for its safety. In `Deployer` the initial states give each of
  the two every role: kept, new, obsolete, or absent; the name of one begins the
  name of the other, and pairs without that relation behave as this one does
  while the longer name is absent.
* `MaxSignals` 2: one signal that is handled and one that finds the handler busy
  or gone.
* `MaxFaults`, `MaxBumps`, `MaxForeign` 1: one stale version is enough for a
  refusal, and the retries of a `TaskList` are exhausted under a done context,
  where every attempt fails. The violation runs have no fault unless the fault is
  their point.
* `Watcher`: one task. Tasks share the channels, whose drops a capacity of 1
  already brings about (create and start of one task compete for it), and the
  stream, of which two pending events give every order; two tasks exceed 24
  million states. The shared table is keyed by task.
* `TaskMonitors`: channels of 1, two tasks and two events, so that two monitors
  are alive together, or a task gets a second one after its first has gone.
* `HealthGate`: one service; the code treats services in turn and never compares
  two. `Slots` 3 bounds the tasks Swarm makes: two replicas and a replacement.
  Properties compare what a round saw with what was true, and a round has no
  memory of the rounds before.
* `RollbackCommand`: two runs, two services, one apply after those that are past
  and one version bump; a stale listing needs one writer, a reverted revert two.
* `Planner`: two services of one plan name and a third, two networks of one plan
  name, a volume and a config, every subset of them; two changes, so that one
  can come and one go, or two of one name. Names are compared by kind, so kinds
  do not mix.
* `Resources`: two applies, of one service; a race has two sides. The files
  declare none, one, the other or both of two networks, one of them the default
  one, so that loops over several and the undeclared default network all occur.
  One fault and one removal by others; the proofs of section 6 need no bound.

## 5. Fairness

Weak fairness of a goroutine's steps says that the Go scheduler runs it and
that Docker answers calls. Nothing is owed by the operator, by Swarm, by other
clients, by the stream (it may break or stay silent) or by a container's log.
Strong fairness appears where a `select` in a loop has a second case that can
stay ready (a ticker, a full channel): Go chooses among ready cases at random,
so the way out is not avoided for ever, and weak fairness would not say it of an
action that other steps disable in between. `FairSpec` of `Apply` leaves out
the timers on purpose (and owes no API error), as a property that needs a twenty-minute deadline to hold
is one the operator experiences as a hang; only `Exits` assumes that the root
timer fires. `FairSpec` of `Deployer` makes both contexts end, because loops such
as `waitForServicesRemoval` leave with them and nothing else is certain to
release them. `FairSpec` of `Resources` repeats a failed apply,
which is what `Converges` is about. `FairSpec` of `Watcher` is strong for the exit
of `pollTasks` only, the other selects run out of events; its subscriber reads and leaves, as `monitorServiceTasks` does;
and it makes a task reach the version its service
has, which is Swarm's own invariant: a task record is written after it.

## 6. Proofs

`ApplyProofs` proves for every finite non-empty set of services and every number
of signals (`ServicesAssumption`, `MaxSignalsAssumption`):

| Theorem | States |
|---|---|
| `Invariance` | `Spec => []IInv` |
| `TypeCorrectness` | `TypeOK`: types, and at most one rollback |
| `SignalReported` | `SignalNeverLost` |
| `RollbackIsQuiescent` | `QuiescentRollback` |
| `RollbackExactlyWhenUnverified` | `RolledBackIffUnverified` |
| `SuccessIsVerified` | `OkMeansVerified` |
| `NothingOutlivesApply` | `NoOrphans` |
| `ApplyIsTransaction` | `ImplementsTxn`: every step is a step of `StackTxn` or a stutter |
| `WaitsAreReleased` | `NobodyStuck`: after a gate has failed or both have passed, and in any phase once the root context is done, `runApply` or someone it waits for can go on |
| `NoFalseInterruption` | `InterruptionIsReal`: an interruption is reported only if there was a signal |
| `ExitIsLate` | `ExitNeedsSignalOrDeadline`: what MCApplyNoWait finds on one instance holds of all |
| `RollbackOnlyAfterGates` | `OnlyMonitoredRollsBack`: and so does what MCApplyFailure finds |

None of the six invariants is inductive alone. `SignalNeverLost`, for instance,
needs that only the handler cancels the root context before the process exits,
that it has sent its error by then, and that nobody takes the error out of the
channel before the result is decided. `IInv` therefore relates the phase of the
main goroutine to whether a result exists (`Decided`), to the handler and the
channel (`SignalOrder`), to what still runs (`Running`) and to the gates
(`Gates`). The proof goes action by action; actions with the same frame share a
lemma on what they leave unchanged. For the refinement, `Whole` adds that a gate
is only reached with every service deployed; for the last four theorems, `OInv`
adds where signals come from and that a rollback needs monitoring (`Occasions`),
and `Released` says who has been cancelled in which phase.

The theorems called `NobodyStuck`, here, in `TaskMonitorsProofs` and in
`WatcherProofs`, are as much of liveness as this prover reaches. They write out the
guards of the steps meant, because ENABLED is beyond it, and say that one of them
is open; that such a step is taken, and that steps come to an end, are fairness
and a variant, and stay with TLC (`RollbackCompletes`, `Exits`, `Returns`,
`DeafMonitorEnds`, `EveryoneReleased`).

`DeployerProofs` proves the safety of `Deployer` for any services, any relation
of names and any number of faults, bumps and foreign writes
(`DeployerAssumption`):

| Theorem | States |
|---|---|
| `DeployerInvariance` | `Spec => []IInv` |
| `DeployerTypes` | `TypeOK` |
| `KeptServicesAreSafe` | `KeptServicesSurvive` |
| `RollbackPutsBack` | `RollbackUndoes` |
| `DeploymentsFailForCause` | `FailsForCause` |
| `WritesAreOfWhatWasListed` | `NoLostUpdate` |
| `ChangesAreReported` | `NoneUnreported` |
| `DeploymentIsTransaction` | `ImplementsTxn` |
| `TransactionOutcome` | `ImplementsTxn => []Outcome`, proved of `StackTxn` alone |
| `DeploymentOutcome` | `Spec => []Outcome` |
| `RemovedForGood` | `ObsoleteStaysGone`: what MCDeployerSnapshot finds on one instance holds of all |

`IInv` comes in layers, each proved with the help of those before it. `Listed`: a
service with the version that was listed is the service that was listed, because
versions only grow. `Initial`: the snapshot holds what was found, and the loops
that remove services spare what is found and wanted. `Undoing`: what the restore
loop has visited is back, and undisturbed, what is new is still to be removed or
gone. `Untroubled`: undisturbed, everything found is as it was until the loop gets
to it. What a single step can do to a single service is stated once (`Moves`).

`DeploymentIsTransaction` needs two facts more: what the loop has visited is new (`Renewed`, the premise of
`Keep` and `BeginUndo`; that the task lists compared are of the service updated,
which `NoneUnreported` needs, is a part of it), and the rollback takes nothing that was found for new
unless others made it anew (`Spared`). Each group of actions is then mapped: by
the phase before and after, and by the one spec it sets. `Outcome` is what the
refinement is good for: every service of the file has the new spec or what it had,
all are new when the deployment is kept, and all that were there are old again
when it is undone, but for what others wrote. `ObsoleteStaysGone` needs that
nothing of the code makes a service the file does not name (`GoneStays`), and that
what the loop of `removeObsoleteServices` has visited is gone (`Swept`).

`ResourcesProofs` proves all safety properties of `Resources` for any set of
applies, services, names and compose files (`ResourcesAssumption`):

| Theorem | States |
|---|---|
| `ResourcesInvariance` | `Spec => []IInv` |
| `ResourcesTypes` | `TypeOK` |
| `NetworksAreReady` | `NetworksReady` |
| `ApplyIsRepeatable` | `RefusedByOthersOnly`, for both reasons of a refusal: a name taken, a network missing |

`IInv` adds what holds in the middle: what the loop over the networks has visited
exists or was removed since (`Progress`), and the network an apply is about to
create was not made by itself unless its look-up failed (`Makers`), because a
missing network has no maker.

`WatcherProofs` (`WatcherAssumption`), `TaskMonitorsProofs`, `HealthGateProofs`
(`HealthGateAssumption`), `RollbackCommandProofs` (`RollbackCommandAssumption`)
and `PlannerProofs` (`PlannerAssumption`) prove the safety of their components:

| Theorem | States |
|---|---|
| `WatcherInvariance`, `WatcherTypes`, `SubscriberHears` | `[]IInv`; `TypeOK`; `RecordedIsHeard` |
| `SubscriberIsReleased`, `WatcherCanEnd` | `SubscriberCanLeave`: when `Start` has left its loop, the subscriber's channel is closed or can be; `NobodyStuck`: under a done context nobody waits in a circle |
| `TaskMonitorsInvariance`, `TaskMonitorsTypes`, `RegistryStaysExact`, `NobodyIsLeftBehind` | `[]IInv`; `TypeOK`; `RegistryIsExact`; `NothingLeft` |
| `NoMonitorStaysDeaf`, `WorkersCanLeave` | `DeafIsTold`: a monitor that hears no more events has been stopped or its context is over; `NobodyStuck`: `monitorServiceTasks` and whoever it waits for can go on |
| `HealthGateInvariance`, `HealthGateTypes`, `GateIsSound` | `[]IInv`; `TypeOK`; `PassIsSound` |
| `RollbackCommandInvariance`, `RollbackCommandTypes`, `NoSpecOlderThanLastApply`, `NothingSkippedSilently` | `[]IInv`; `TypeOK`; `TwoSpecsKept`; `RevertedOrTold` |
| `PlannerInvariance`, `PlannerTypes`, `PlanGivesDesired`, `PlanSuitsCluster` | `[]IInv`; `TypeOK`; `PlanReachesDesired`; `PlanFitsCluster` |

The invariants say what holds between the steps. Watcher: an event is filtered
before it is emitted, the channels hold only what was, and a task enters the table
by the same step that sends, drops or excuses its announcement. Monitors: one that
leaves its select has been stopped, one that has returned has outlived its
goroutines, and the registry never forgets one that is not over. Gates: as long as
nothing has spoiled a round, each task with an answer was healthy since the tasks
were listed, one without a healthcheck from the listing on, and an update found complete stays complete. Rollback command: the
version listed is never ahead, and if it is the current one, so are both specs.
Planner: what was there all the time and is listed has its plan name among those
read (`Covered`), and the plan is the one `CreatePlan` makes of them (`Planned`);
that a key of the file is not empty is what lets `Strip` find it again behind the
prefix.

Every invariant that a passing run checks is proved, and both refinements are.
Model-checked only: all liveness (the prover has no rule for fairness and
ENABLED), and that the bounded runs can refute what they should, which a proof
does not show: that the gate of MCHealthGateFailed opens too early needs a
behaviour, which TLC gives.

## 7. Not modelled

* Compose parsing and conversion, paths, ids, formatting, the events and logs
  commands: data in, data out, no state to go wrong between steps.
* The host gateway: two calls of `deployService` that answer or fail it before it
  has looked the service up; `FindService` can fail as they do.
* The product of `Apply` and `Deployer` (step 16): both refine `StackTxn`, which
  is what each assumes of the other; their product multiplies a million states
  by the interleavings of the goroutines.
* In the watcher: task and service events, which Swarm daemons do not send per
  task, the name cache and `SubscribeToService`, which `apply` does not call. In
  the deployer: `waitForServiceUpdate` and `RemoveStack`, which nothing calls.
* Times. A timer fires at any moment or, where fairness does not ask for it,
  never; that is weaker than any value of the durations.
