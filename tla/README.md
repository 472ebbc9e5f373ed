# A TLA+ model of swarm-deploy

swarm-deploy keeps the stacks of a Docker Swarm at the state that a Git
repository describes. This directory models its core: the control loop that
decides which stack is worked on and when, the reconciliation of a stack with
drift and self-heal, the lifecycle of a deployment with its retries and crashes,
the rollout of one service down to what Docker shows of it, the outbox through
which every part tells the others what happened, the incidents that alert
management derives from it and the notifications about them, and the operations
that the assistant carries out on request. Paths below are relative to the repository.

## 1. Inventory

| Part | State | Operations | Interacts with |
| --- | --- | --- | --- |
| Stack queue, `internal/modules/gitops/controller/stackqueue` | ready list, waiting and running operation per stack, kept priorities, paused/started/stopped, idle channel, workers | Start, Stop, Pause, Resume, Replace, Clear, SubmitCleanup, next, finish | called by the sync run; calls the stack reconciler outside its lock |
| Scheduler and lifecycle, `controller/scheduler`, `controller/controller.go`, `ownership.go` | one task slot, shutdown flag, file lock | Schedule, tickers, Shutdown, Run | API and webhook callers; runs the sync run |
| Sync run, `controller/syncrun`, `stackplan`, `gitpull`, `configstore` | last dispatch, accepted configuration, local clone, persisted revision | Run, Poll, Cleanup | Git, networks, queue, state database |
| Stack reconciler, `controller/stackloop` | runtime state per stack and service, drift, rotation history | Reconcile, Cleanup, self-heal | deployments, Docker, event bus |
| Deployments, `internal/modules/deployments` | deployment, attempt, baseline and verification rows; completions still to be persisted | StartIfChanged, RecordUpdateGeneration, Complete, InterruptRunning, Execute | deployer pipeline, outbox |
| Deployer, `deployments/deployer` | none of its own; Docker services, networks, configs, secrets | validate, networks, resources, convert, init jobs, apply, wait | Docker |
| Service applier and convergence waiter, `deployer/services`, `deployer/waiter` | the attempt's baseline and update generation; the saved verification receipt | inspect or create, check safety, record, update, refresh after a conflict; poll, observe | Docker, deployment rows |
| Event outbox, `internal/modules/event` | publications, delivery rows with leases | Publish, Claim, Process, Acknowledge, Fail, Replay, Discard | every subscriber |
| Alert management, `internal/modules/alertmanagement` | incidents, versions, failure streaks | subscribers of the outbox | outbox |
| Notifications, `internal/modules/notifications` | message links per alert and recipient; subscriptions | Register, Handle, MarkOpened, MarkResolved, PruneCompleted | outbox, Telegram |
| Resource inventories, recommendations | read models of nodes, services, secrets | collectors, analyzers | Docker, outbox |
| Assistant, `internal/modules/assistant` | runs, pending operation per conversation | Chat, confirmation, tool calls | language model, Docker |
| Web, webhook and health servers, UI | none | requests | everything above |
| Configuration, compose loading, conversion | none | pure translation | - |

Hard behaviours, in the order of the damage they can do:

* the queue's workers execute outside its lock while runs replace, clear and
  pause the waiting work (lost wakeups, lost or duplicated work, overtaking);
* a sync run fails between two of its stages, after the new configuration is
  accepted and before its stacks are queued;
* a process crashes in the middle of a deployment that has already written to
  Docker, or a database commit succeeds although its caller sees an error;
* a lease expires under a live worker, which then finishes late;
* a reconciliation writes back what it read before the deployment, while
  completions are projected into the same record, and repairs fail halfway;
* events about a resource are handled late, out of order, or when its stack has
  left the configuration;
* Docker returns a service as it was before the accepted write, or an update
  status of an earlier one, while tasks of several generations run;
* Telegram accepts a message whose answer is lost, and the recipients change
  while an alert is open;
* messages of one assistant conversation overtake each other around a question
  that waits for confirmation;
* triggers are dropped when the task slot is full, and shutdown arrives at any
  time.

`PROJECT.json` lists these hazards one by one, at their lines, with the
properties that are about them.

## 2. Modules

| Module | Models | Extends |
| --- | --- | --- |
| `StackQueue` | the queue with any caller | - |
| `GitOpsController` | scheduler, sync run, planner, shutdown, crash, around that queue | `StackQueue` |
| `GitOpsControllerProofs` | the theorems of the queue and, from them, of the controller | `GitOpsController` |
| `GitOpsConvergence` | what the loop achieves in the end; adds the observer `applied` and fairness | `GitOpsController` |
| `Outbox` | publications, leases, delivery workers | - (instantiates `EventLedger`) |
| `OutboxProofs` | its theorems, the refinement among them | `Outbox` |
| `EventLedger` | what the outbox promises: the abstract specification it implements | - |
| `DeploymentLifecycle` | deployment rows and transactions, execution, ownership of several processes | - |
| `DeploymentLifecycleProofs` | its theorems | `DeploymentLifecycle` |
| `StackReconciler` | the reconciliation of one stack: deployment or drift analysis, self-heal, verification, recorded result, drift events, projected completions | - |
| `StackReconcilerProofs` | its theorems | `StackReconciler` |
| `SwarmService` | one replicated Docker service: record, update status, tasks, orchestrator (external) | - |
| `ServiceRollout` | applier, convergence waiter and verification receipt over attempts at that service | `SwarmService` |
| `ServiceRolloutProofs` | its theorems | `ServiceRollout` |
| `AlertIncidents` | alert management with the publishers it listens to | - |
| `AlertIncidentsProofs` | its theorems | `AlertIncidents` |
| `AlertNotifications` | the notifications of one alert to its recipients | - |
| `AlertNotificationsProofs` | its theorems | `AlertNotifications` |
| `AssistantOperations` | chat runs, pending operations, mutating tools | - |
| `AssistantOperationsProofs` | its theorems | `AssistantOperations` |

`*MC` modules give the constants their values for TLC. Definitions introduced
by `\* Variant` are altered copies of the definition that follows them; they are
used by no specification. Each is a plausible slip in the code, and putting it
in the place of the original makes TLC refute one property (`mutants` in
`PROJECT.json`).

### StackQueue

Each Go method holds the mutex for its whole body and is one action. The maps
`pending` and `running` are functions on the keys present; `ready` is the list.
A worker is in `awake` (it is in `next` and wants or has the mutex), in `asleep`
(in `cond.Wait`), or in the domain of `executing`. `Broadcast` and `Signal` move
workers from `asleep` to `awake`. The order that `rebuildReadyLocked` produces by
appending in three passes is described by what it is: the unique ordering of the
admissible stacks in which `GoesBefore` holds for every pair. A revision stands
for commit and stack specification, which the code compares together.

### GitOpsController

The controller goroutine is the program counter `pc`; every call into the queue
and every slow stage is a step of its own, so the workers and outside callers
interleave with it. A stage takes an argument `ok`: when it fails the code's
failure path is taken (`finishStageFailure`, the deferred `Resume`, and for
networks `Clear`). `remote`, `head`, `accepted` and `gitRevision` are the four
places a revision lives: the remote branch, the local clone, the configuration
store and the state database. A crash keeps the clone and the database.
Revisions are numbered; the diff of two revisions is the union of what the
revisions between them touch, and the planner sorts by the rank of the changed
path. `Runtime` fields that only the UI displays are left out.

### GitOpsConvergence

`applied` remembers the revision each stack was last brought to; a
reconciliation that ends did so or failed.

Fairness: the controller goroutine and the workers are scheduled (WF). Go's
`select` chooses among ready cases at random, so a case that is ready again and
again is taken (SF on taking a task, the interval tick and the poll; a poll that
does not fail for ever succeeds some time). A worker that is awake and finds the
queue open again and again takes work (SF): runs are short compared with the
interval between them. Operations end because deployments have a deadline.
`LastPushIsApplied` assumes in addition that failures end at some point; the code
guarantees nothing while network reconciliation keeps failing between good runs,
because `Clear` also drops the order in which stacks were waiting.

### Outbox

Every SQL transaction is one action. A worker is `claimed` between claim and
handling, `calling` and `called` around an external handler, `failing` until its
failure is recorded. Time is what the statements compare: `due` and `expired`. The
lease token is represented by the worker that holds it, since nobody else knows it.
`ImplementsLedger` is the refinement: under the mapping that takes the rows not yet
delivered for open deliveries and `handled` for effects, every step is a step of
`EventLedger` or leaves it alone. The ledger has no workers, leases, attempts or
crashes; a DB-only subscription takes effect, publishes its follow-up and ends its
delivery in one step, an external one ends only after its effect, and effects come
in order unless a delivery was parked. DB-only handlers run in one transaction with
the lease check and the acknowledgement; `Relays` publish a follow-up in it.
`handled` records effects in order and `parked`/`waived` what was ever parked or
discarded.

Fairness for `EveryDeliverySettles`: workers poll and their calls have deadlines
(WF), time passes (WF), the oldest claimable delivery is taken first so that each
has its turn (SF), and recording a failure does not fail for ever (SF).

### DeploymentLifecycle

One stack. `deployments` holds the rows with their attempts, `baseline` the last
successful one, `proc` what each process does, `pending` the completion that a
process could not persist. Every transaction is an action that can fail; within
`MaxLost` it can also commit although its caller gets an error. `unproven` is an
observer: services that Docker may have accepted a write for and that nobody saw
converged since. A definition's services are applied in order, with the update
obligation recorded before and restored after a definite rejection. Several
processes contend for the ownership lock. Outcome `policy_rejected` is produced by
no code and rows of earlier releases are imported by none of the modelled steps.

### StackReconciler

One stack; the queue guarantees that its reconciliations do not overlap. `rec` is
`pipelinePayload` with the program counter of `Reconcile` and its pipeline: `prev`
is the runtime state read before the pipeline runs, `drift` and `remaining` the two
drift maps, `todo`, `healed` and `broken` the services to repair and the outcome of
their `serviceRemediation`. `stack` is the persisted `model.Stack`: open episodes
(`DriftedServices`), pending repairs (`SelfHealPending`) and whether an error is
shown; the sync status of a service, which nothing but the UI reads, is left out.
`StateUpdatedAt` is compared only with the end of the latest attempt, so the
model keeps the result of that comparison, `settled`. `live` is Swarm, which
anybody changes between two steps; drift is a missing service or another replica
count, for the services whose count is compared.

`latest` and `completion` stand for the deployment module: which attempt is started
follows `startPrepared` and `startExisting`, how it ends is a choice, with the
retryable flag and the services it leaves unresolved. A completion that cannot be
persisted is the subject of `DeploymentLifecycle` and not repeated here. Completions
of older attempts project nothing and are not kept. The policies are constants, so
they do not change during a behaviour. `Unreliable` switches lost transactions and
crashes on. The runtime state never has a source digest while there is no
deployment, so `IsNewDigest` and the digest are left out. Which undesired services
the pruner removes depends on labels and is a choice. The cleanup of rotated
configs and secrets after the result is not modelled.

`said` (the last drift event of a service) and `unconfirmed` (a repair failed and no
waiter has seen the service converge since) are observers.

Fairness for `DriftIsHealed`: the queue runs the stack again after every interval (WF
on `Begin`), and Docker calls have deadlines (WF on `Pipeline`). The property assumes
that interference and failures end, and that the latest deployment is not a failed
one whose retry waits for an operator: `deferredServices` protects its services from
self-heal until then.

### SwarmService and ServiceRollout

`SwarmService` is what the code relies on and sees of SwarmKit; nothing of it is in
the repository. The clock counts writes of the service record. A client's write
clears the update status, and the orchestrator fills it in later, when it finds
slots whose task does not belong to the specification; tasks start, end and are
replaced one by one, updates fail and pause or roll back. A listing may return any
earlier record (`past`). Of a task one sees its template, force counter and time of
creation, not the endpoint it was started with, and that is why a verification
generation exists at all.

In `ServiceRollout`, `ctl` is the attempt in progress: the baseline, the record the
applier inspected, the prepared specification, the update generation, and the record
the waiter listed last. Every call to Docker and every transaction is a step:
inspection, the listing of tasks, the committed intent, the write (accepted,
refused, in conflict, or accepted with the answer lost), the second inspection after
a conflict, the listing of services and of tasks. `receipt` is the row that
survives. `managed` chooses between services whose replicas swarm-deploy sets and
externally scheduled ones, which are parked before an update and verified for their
specification only.

Assumed of the environment: an external job declares no replicas when it is created,
its scheduler scales it up only after the orchestrator dropped the parked slots, and a
service is scaled to all slots or none (`Scaled`, and `ReplicasFillSlots` of the
definitions). Left out: placement-compatible updates,
global and job modes, finite restart policies, the stability window, failing updates of
externally scheduled services, and an attempt that fails because of another service after
this one converged.

`blurred` marks what `SuccessMeansRolledOut` does not promise. An intent that was
recorded and whose write was never accepted leaves a generation newer than the
record; a metadata-only write that follows does not carry the task boundary over
(`services/verification.go:83`), so that tasks with the old endpoint pass for the new
ones, against the comment at line 98 there. The same happens when a metadata-only
definition follows a rollback. It lasts until a success finds every task with the
desired endpoint.
In the other direction such an intent, after the definition was reverted, keeps the
waiter pending until its timeout, which is why `RolloutInvariant` excludes `blurred`
as well. It also excludes `Undated`: an obligation without a generation, inherited from
an apply that failed before it recorded one, when the last update of the service changed
only the endpoint. `verificationTaskCutoff` then asks for a newer rollout.

A behaviour starts without the service, with one just created, or with one whose last
update is complete (`Replaced`), so that the first attempt already finds a
`PreviousSpec`.

### AlertNotifications

One alert: alerts share nothing but the order of a subscription. Of `Outbox` the module
keeps the delivery rows of the two transitions, their owner and whether the lease
expired; the deadline of a handler is its lease, so a worker that lost it fails (the code
starts the deadline a little after the lease, `delivery_worker.go:193`). A call stands for
the sender's own retries too. Any
failure may be the last attempt. A link is the set of transitions that were recorded
for a recipient, or `NoLink`. `chats` is what Telegram accepted, in order, also when
the answer was lost. `Restart` may come at any point and changes the configured
recipients; who is subscribed afterwards follows `Register`.

### AssistantOperations

A goroutine per accepted message, identified by the slot it holds; nothing serialises
the messages of a conversation. The store of pending operations is locked for single
reads and writes, so a message reads the operation in one step and claims, cancels or
completes it in another. Language model, router, injection guard and fuzzy name
matching may answer anything. `stamp` stands for `ExpiresAt`, which differs for every
`set`; the time to live passes in `Expire`. The mutating tools are followed into
`service_manager.go`: `GetReplicas`, and `scale` as an inspection and a versioned
update. The retries of a failed restore come after the deadline of the run
(`restartServiceDelay` is 250 s, `runExecutionTimeout` 2 min) and fail, so they are
part of the failure. `asked` and `executed` are observers.

### AlertIncidents

Publishers are reduced to when they publish what: `Reload` (configuration store),
`Start`, `Deployed` and `Drifted` (reconciliations, which may outlive the
configuration they were started for), `Observe` (pull monitor with its persisted
failure), `Collect` (node collector), `Restart`. From `Outbox` the module takes
that every publication is handled once, in one transaction, and that a parked one is
overtaken: any undelivered event may be next. `versions` is the projection table
behind `ConsumeLatest`, `streak` the failure streak kept up to the threshold. A
resource is the incident's fingerprint and the key of its version in one. A
detection that is published as already resolved opens nothing and is left out.
Events of one transaction share a sequence number; the code orders them by time and
identifier, and apart from such a detection no two of them are about one resource.

`Reload` accepts a configuration and then publishes the signal; a publication that
fails is lost (`unsignalled`, until one succeeds). `Collect` is one listing of the nodes
with its transaction: the snapshot is replaced, identities are observed, and
`connectionEvents`, `reappearedNodes` and `creationFact` say which nodes are reported. A
node that enters the snapshot for the first time is not reported, ready or not; one that
disappears while ready is reported disconnected and leaves the snapshot; one that comes
back is reported connected, unless a Docker `create` event finds it among the join
candidates: then `NodeJoined` is published, which alert management does not listen to.
Join candidates expire at any time and are lost at a restart. Why the nodes are listed (a
Docker event, a retry, a resynchronisation, a start) is left to choice, as is what the
listing shows; an event whose transaction fails is kept and retried, which is the same
step later. `seenReady` and `rejoined` are observers.

## 3. Runs

| Run | Instance | Shows |
| --- | --- | --- |
| `stack_queue` | 3 stacks, 2 workers, 1 revision | order and exclusion in the queue with any caller |
| `control_loop` | 2 stacks, 1 worker, 2 revisions, 2 pushes, 1 crash | safety of the loop through failing runs, requests, cleanups and shutdown |
| `convergence` | 2 stacks, 1 worker, 1 push, 1 crash | liveness of the loop |
| `outbox_leases` | 2 subscriptions, 2 workers, 2 events, 2 attempts, 1 expired lease, 1 replay | the outbox implements the ledger; stale workers |
| `outbox_settles` | 1 worker, 1 undecodable event, 1 crash, 1 expired lease | every delivery completes or is parked |
| `deployment_lifecycle` | 2 processes, 2 definitions, 2 deployments, 2 attempts, 1 crash, 1 lost acknowledgement | rows, obligations, announcements, recovery |
| `stack_reconciler` | 2 services (one repaired, one not), 2 definitions, lost transactions and crashes without bound | episodes, announcements, pending repairs, the error shown; drift is repaired once disturbances end |
| `service_rollout` | 2 slots, 3 definitions, with or without an earlier update, 2 attempts, 2 update tries, 2 requested executions, 1 fault | success, failure and executions of one service |
| `alert_incidents` | 1 stack, 2 repositories, 1 node with any listings, 4 publications or lost signals, 1 restart | incidents agree with what was last reported and with what the collector knows |
| `alert_notifications` | 2 recipients, 2 workers, 1 restart, 1 fault, 1 replay, 1 expired lease | who is told of an alert and of its end |
| `assistant` | 1 conversation, 2 services, 3 request ids, 2 slots, 4 runs, 2 questions, 1 fault | what is executed was confirmed; runs end |
| `restart_restores` | 1 service, 2 slots, no faults | the finding below |

The first invariant of a run named `...Invariant` also contains the type invariant of
its module.

Why the bounds are enough to be interesting. Three stacks are the least for a
changed stack to be placed between changed and unchanged ones, two workers the least
for a signal to go to the wrong one. The loop needs two revisions that configure
different stacks, and one push more than that to come back to the first. One worker
for two stacks makes stacks wait for each other. Two events and two attempts let an
event be overtaken and be parked by its last attempt; one lease that expires under a
live worker makes a stale worker. Two deployments of two attempts let obligations
pass from attempt to attempt and to another definition; a second process matters
only if it can start while the first works. The second definition of
`stack_reconciler` drops a service, so that episodes of services that leave and
return occur; its state space is finite without bounds. Incidents of different
resources do not interact except through the configuration, so one stack and one
node suffice, with two repositories to change between. A rollout needs a definition
that changes only the endpoint, which no task shows, one that changes only metadata
on top of it, a second attempt that inherits the first, and a second slot so that
tasks of two generations run side by side. Two recipients are the least for one to
be configured in place of the other, and two workers for one to take over from the
other. Two slots of the assistant let two messages overtake each other, three
request ids with two retained runs make room by eviction, and two questions let a
confirmation meet the wrong one. Crashes, pushes, requests and lost acknowledgements
are bounded by constants named `Max...`; the queue itself has no bound.

Runs with `CHECK_DEADLOCK FALSE` end in states where the system really stops: a
released controller, an outbox without work after the last bounded event, a stack
whose bounded deployments are over, an alert that is resolved, a conversation with
nothing more to say.

**Finding**, shown by the run `restart_restores`: `Restart` of the service manager is
documented as scaling to zero and restoring the previous count. Two confirmed restarts
that overlap both succeed and leave the service at zero, because the second reads the
zero of the first as the count to restore.

Statements of comments and documents that the code does not keep, met while modelling
without a run of their own (the graver ones are hazards in `PROJECT.json`):

* `self_heal.go:184` says an episode is retained until the waiter confirms the service.
  A failed deployment in between drops `SelfHealPending` and keeps the episode, and the
  next reconciliation closes it on configuration agreement.
* A failed attempt also keeps the episode of a service that its definition dropped and
  whose alert is already resolved; when the service returns and differs, no detection is
  published (`docs/drift.md:212`).
* `docs/drift.md:220` says that alerts of a service removed from a retained stack are not
  resolved automatically. They are: starting the deployment publishes
  `ServiceRemovedFromDesired`, and `subscriber.go:169` resolves the alert.
* `docs/event-history.md:60` says that reconnection resolves the incident of a node. A node
  that was reported missing and is created again within the ten minutes in which its
  first observation counts as recent is reported as joined, and its incident stays open
  while it is ready (`rejoined` in `DisconnectedIsOpen`).
* `configstore/store.go:25` says that a change of the configuration is signalled. A signal
  whose publication fails is logged and not repeated; incidents of removed stacks stay
  open until the next signal (`unsignalled` in `NoIncidentOfRemovedStack`).
* `docs/assistant.md:18` describes restart and scale calls of the model as terminal
  actions. The tool loop refuses mutating tools (`graph_tool.go:17`); they are executed
  only after a confirmation.
* Drift reported by a reconciliation that was running when its stack was removed opens
  an alert that nothing resolves before the next configuration change
  (`docs/drift.md:216`). `NoIncidentOfRemovedStack` holds for deployment incidents, whose
  handler asks whether the stack is still configured, and for as long as signals of
  changes are published.
* `services/verification.go:98` says that a later write must not erase an inherited
  obligation; see `blurred` above.
* `waiter/evaluation.go:374` speaks of legacy writes as what leaves an endpoint obligation
  without a boundary. A failed apply does too (`completion.go:121` marks every desired
  service unresolved): see `Undated` above.
* `notifications/alerts/subscriber.go:148` says never to reopen a notification. An opening
  that an operator replays while the resolution is between the call and its record is
  sent after it. No code of the program calls `Replay` yet.
* `docs/event-history.md` says that the outbox preserves ordering within each
  subscription, but a delivery that was parked is overtaken and replayed behind its
  successors (`EventLedger` states what holds).
* `docs/drift.md` says that a service becomes `Synced` whenever verification confirms it,
  even if applying returned an error, but `applyVerifiedDrift` requires both.
* A deferred retry writes back the `LastError` it read before the completion of the
  failed attempt was projected, so that a failed stack can show no error (the exception
  in `ErrorClearedBySuccess`).

## 4. Proofs

The first part of `GitOpsControllerProofs` proves the properties of the `stack_queue` run, the type
invariant, that the ready list is exactly the waiting work that may start
(`ReadyIsWaiting`) and that the idle signal is exact, for every finite set of
stacks, every finite non-empty set of workers and every set of revisions
(`StacksFinite`, `WorkersFinite`). The inductive invariant `IInv` is the conjunction
of the type invariant, `OneOperationPerStack`, `ReadyIsWaiting`, `ChangedFirst`,
`NoLostWakeup` and `IdleTracksWork` with `WorkersApart`: a worker is in one place at
a time. None of the parts is inductive alone. That `Take` keeps operations of a
stack apart needs `ReadyIsWaiting` (the head of the list does not run); that this
survives `Finish` needs `OneOperationPerStack` (the stack that becomes free is
executed by nobody else). `NoLostWakeup` counts awake workers and ready stacks, so a
step that moves a worker must not count it twice, which is `WorkersApart`. `enqueue`
and `rebuildReady` get lemmas of their own that say what list they produce;
`FifoWithinGroup` follows from the same lemmas.

`StackReconcilerProofs` proves the safety properties of the `stack_reconciler`
run and the type invariant for any services, definitions, counts and policies that satisfy
`ReconcilerConstants` (a definition names services and counts they can have). The
inductive invariant relates three places where an episode lives: the recorded state,
the copy that a reconciliation read (`ReadIsCurrent`: nobody else changes episodes or
pending repairs meanwhile, in particular no projected completion), and what was
announced (`AnnouncedIsRecorded`). `AnnouncedIsDesired` and `DeployedDefinition` are
needed because a result forgets episodes of services outside its definition: that is
harmless only as the definition is the one deployed last and announcements about
others were closed when it was started. `Repairs` says that each repair has one
outcome, concerns no protected service and, if it failed, is left over as drift, and that
what was deployed has been waited for, so that `PendingUntilConverged` need exempt only
deployments that fail;
`Decided` that a reconciliation without a deferred retry stands on a deployment that
succeeded, which is what permits it to clear an error.

The second part of `GitOpsControllerProofs` takes the queue's invariant over into the controller: every
action of the loop either leaves the queue alone or is one of the queue's own steps, a
crash empties it and a restart begins it anew. `LoopInv` says what the loop holds about
that queue. Waiting work is of the configuration accepted last except between `Reload`
and the `Replace` or `Clear` that follows it (`CurrentInv`), and the queue is paused
there (`PauseInv`), so no worker sees the exception. `RunInv` and `DispatchInv` tie the plan of a run to
its revision. The planner's CHOOSE of a sorted list is backed by `Sortable`: a finite set
with a strict total order can be listed in that order. Assumed of the constants are
their types and that the stacks and workers are finite.

`OutboxProofs` proves that the outbox implements `EventLedger` step by step, and from
the ledger that nothing is lost and nothing projected twice. What the mapping needs
beyond types concerns a worker that has claimed a delivery: every earlier one of the
subscription has ended or was parked *since the claim* (`HeldInTurn`), which outlives
the lease, so that an external call made after the lease was lost is still in order; and
the call is for a delivery that is open, was waived or had already reached its
subscriber (`CallJustified`). `OpenIsNotProjected` is exactly-once for database
subscriptions.

`DeploymentLifecycleProofs` proves all safety properties of the `deployment_lifecycle`
run. `RowsInv` is about the rows alone. The properties about a running attempt need what
each process knows of it: only the owner executes, and what it executes, or has still to
report, is the latest attempt of the newest deployment (`DriverInv`). `ReportInv` is
`ObligationsKept` before the fact: at each place of the execution, what the process will
report covers every unproven service. The bounds of the model need only be natural
numbers.

`AlertIncidentsProofs` rests on `StreamInv`: for every resource, either the last event
about it is still to be handled and will not be ignored (`Outstanding`), or whatever is
still delivered will be ignored and the incident agrees with the last report. This is
stronger than the properties, which speak only of resources that are caught up with, and
is what makes the order of delivery immaterial. `RemovedInv` explains the one incident a
removed stack may have: a change of the configuration is still to be handled, or its
signal was lost. For nodes, `ReportInv` says that the last report is bad exactly if the
node is `Disconnected`. It needs `CollectorInv`: whoever was ready, or is in the snapshot,
has an observed identity, so that no return is taken for a first appearance but by a join
candidate (`CollectStep`).

`AlertNotificationsProofs` has to show that a missing link is not mistaken for one that
never existed: `LinkInv` says that a link is missing only before the first message of
its recipient or once the outbox has forgotten the alert. `ResolutionInv` strengthens
`ToldOfResolution` by the reason a resolution may be skipped (`NeverOpened`: the opening
did not arrive and no delivery of it is left), `WorkerInv` justifies what a handler
decided before its call by what holds after it.

`AssistantOperationsProofs` follows a pending operation from the store to its
execution: what waits in the store was asked under a stamp of its own (`PendingInv`), a
goroutine that claimed it holds it alone (`Free`, `OneClaim`), and what was executed is
neither waiting nor claimed (`ExecutedInv`). The store is read and claimed in separate
steps, so nothing can be said about what a goroutine read before its claim, and the
invariant claims nothing there. `HeldInv` records why the replica count that a restart
remembers is explained, which `ReplicasAccounted` needs when it is written back.
`FinishedInv` and `GoroutineInv` show that eviction takes finished runs only.

`ServiceRolloutProofs` proves all properties of the `service_rollout` run, for any
slots, specifications and bounds (`SlotsFinite`, `DefinitionsAreSpecifications`,
`RolloutBounds`, and for managed services `ReplicasFillSlots`). Everything rests on versions:
`VersionInv` says that a time of update names one record, so that a write whose version
matches replaces the very record that was inspected (`ReadInv`). `ParkedInv` carries the
listing of `checkUpdateSafety` over to the write: as long as the version matches, the
settled tasks stay settled, since whatever could start one (a request of the scheduler)
is a new version, and what the orchestrator still owes to a slot (`Owed`) was requested
and makes the tasks unsettled (`ExecutionInv`). That the replaced tasks of a scaled
external service differ in the force counter only is what lets a comparison of template
and force, which does not see endpoints, decide this. For failures, `StatusOf(a)` says
that a record written at a or later has no status that started before a; `AcceptedInv`
adds that the generation of the attempt awaits exactly its accepted write, so that a
record which is not rejected as too old is no older than it.

What is said of managed services (`SuccessIsRolledOut`, `RolloutCorrect`) needs a second
inductive invariant, `RInv`, on top of that one. No single attempt explains the
tasks: one attempt records an intent, a second is refused, a third writes metadata only,
a crash loses what the process knew, and the waiter of the last sees a template and
times of creation, never an endpoint. The parts are:

* `RecordInv`: a record is a client's latest (`Latest`) if all newer ones are the
  orchestrator's, and then `Succeeded` says what became of it: the specification stayed,
  or was rolled back to the one before.
* `TaskInv`: tasks started since the client's write, or since the update began, have the
  endpoint of the current specification (`EndpointSince`).
* `BaseInv`: since its baseline only the attempt itself has written the service
  (`Updating`, or `Creating` it), so a listed record that is not older than what the
  waiter awaits is the latest one (`SeenLatest`). `Settling` says that a rollback which
  no receipt knows of changed neither template nor endpoint.
* `AttemptInv`: which of the attempt's copies of the receipt are current at which
  program point. `Held` is the receipt as it is if the write in progress is refused.
* `TasksInv`: what the receipt means. Without a generation every task has the current
  endpoint; with one, `GenMeans` says that the service was written after the intent and
  that, if that write replaced the specification the intent names and changed neither
  template nor endpoint, the tasks from `tasksAfter` on have the current endpoint. A service that is not unresolved is `Filled`: its tasks are of
  its template, and would be after a rollback.

Success then follows in `ReadySound`: `Verified` counts all slots (`AllVerified`), which
gives the template, and the cutoff of the generation (`GenerationCutoff`) or of an
inherited obligation (`InheritedCutoff`) puts their creation past the point from which
the invariant knows the endpoint (`EndpointReady`). Recognition is the converse: none of
the cutoffs can lie after the start of the update that completed (`ConvergedCutoff`). The
step that has to hold for this to be inductive is `GenerationSound`: the boundary that
`updateGeneration` carries over from the interrupted rollout dates only tasks that have
the endpoint of the specification it replaces. The proof corrected the model in one
place: with a definition of zero replicas, the history variable `blurred` was reset by a
success that had not looked at a single task.

Each of these inductive invariants was checked by TLC on the instance of its run before
it was proved.

Only model-checked:

* liveness (`GitOpsConvergence`, `EveryDeliverySettles`, `DriftIsHealed`): the proof system does not reason about
  fairness and ENABLED;
* `RestartRestores`, which does not hold (see the finding).

## 5. Not modelled

Most of the repository's lines are generated: `entrypoints/webserver/generated` is the
API's client, server and encoding, with no decisions of its own. Also left out are pure
translation (compose loading, conversion to Docker specs, configuration, event encoding),
adapters (Docker client, registries, SQLite, senders, tracing, metrics), read models and
queries, recommendations and the UI. They hold no protocol of their own; where a
modelled part depends on their failing, the failure is a choice. Init jobs and the
resources and networks of a deployment keep nothing between attempts; they are failing
or succeeding steps of the pipeline. Within modelled parts: the retention and paging of
history, rows imported from earlier releases, the cleanup of rotated resources, the
queue of Docker events before the node collector, conversation turns of the assistant, and
what the sections above name.

## 6. Plan

1. Liveness of `DeploymentLifecycle` (a running attempt ends, a retryable failure is
   retried) and of `ServiceRollout` (a wait ends).
2. The other service modes in `ServiceRollout`, and the stability window.
3. The node collector's queue of Docker events with its overflow and retries (which
   joins are reported), and the cleanup of rotated resources with its history.
