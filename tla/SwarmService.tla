----------------------------- MODULE SwarmService -----------------------------
(***************************************************************************)
(* One replicated Docker Swarm service as the deployer and the convergence *)
(* waiter see it (external: SwarmKit is not part of this repository).      *)
(*                                                                         *)
(* Every write of the service record, by a client or by the orchestrator,  *)
(* is a new version, told by its time of update: the clock counts writes.  *)
(* A client's write resets the update status, and the orchestrator fills   *)
(* it in later, when it finds slots whose task does not belong to the      *)
(* specification.  The waiter cannot see which endpoint a task was started *)
(* with, only its template, the force counter and when it was created.     *)
(***************************************************************************)
EXTENDS Integers, FiniteSets

CONSTANTS
    Slots,       \* task slots
    MaxRequests  \* bound: executions the external scheduler requests

VARIABLES
    managed,  \* replicas are managed by swarm-deploy (fixed for a behaviour)
    service,  \* the service record, or NoService
    past,     \* earlier versions that a listing may still return
    tasks,    \* the newest task of each slot
    now,      \* number of service writes so far
    requested, started  \* of an external service: executions the scheduler
              \* asked for and tasks the orchestrator created, per slot

swarmVars == <<managed, service, past, tasks, now, requested, started>>

runs == <<requested, started>>

NoStatus  == [state |-> "none", startedAt |-> 0]
NoSpec    == [tmpl |-> 0, ep |-> 0, meta |-> 0, force |-> 0, replicas |-> 0]
NoService == [exists |-> FALSE, spec |-> NoSpec, prev |-> NoSpec, createdAt |-> 0,
              updatedAt |-> 0, status |-> NoStatus]
NoTask    == [tmpl |-> 0, ep |-> 0, force |-> 0, born |-> 0, state |-> "none"]

\* A service is scaled to all slots or to none.
Scaled(spec) == IF spec.replicas = 0 THEN {} ELSE Slots

\* A task the orchestrator creates now, from the current specification.
NewTask == [tmpl |-> service.spec.tmpl, ep |-> service.spec.ep,
            force |-> service.spec.force, born |-> now, state |-> "starting"]

Active(task) == task.state \in {"starting", "running"}

Dirty(i) ==
    /\ i \in Scaled(service.spec) /\ tasks[i] # NoTask
    /\ \/ tasks[i].tmpl # service.spec.tmpl
       \/ tasks[i].force # service.spec.force
       \/ tasks[i].ep # service.spec.ep

\* The record becomes s: a new version.
Store(s) ==
    /\ now' = now + 1
    /\ service' = [s EXCEPT !.exists = TRUE, !.updatedAt = now + 1]
    /\ past' = past \cup {service}
    /\ UNCHANGED managed

\* A client's accepted ServiceUpdate.
AcceptUpdate(spec) ==
    Store([service EXCEPT !.spec = spec, !.prev = service.spec, !.status = NoStatus])

AcceptCreate(spec) ==
    Store([NoService EXCEPT !.spec = spec, !.createdAt = now + 1])

Keep == UNCHANGED <<service, past, now, managed>>

Spawn(i) ==
    /\ tasks' = [tasks EXCEPT ![i] = NewTask]
    /\ started' = IF managed THEN started ELSE [started EXCEPT ![i] = @ + 1]
    /\ UNCHANGED requested /\ Keep

-----------------------------------------------------------------------------
(* The orchestrator.                                                       *)

FillSlot(i) ==
    /\ i \in Scaled(service.spec) /\ tasks[i] = NoTask
    /\ Spawn(i)

RemoveTask(i) ==
    /\ i \notin Scaled(service.spec) /\ tasks[i] # NoTask
    /\ tasks' = [tasks EXCEPT ![i] = NoTask]
    /\ UNCHANGED runs /\ Keep

StartUpdate ==
    /\ service.status = NoStatus
    /\ \E i \in Slots : Dirty(i)
    /\ Store([service EXCEPT !.status = [state |-> "updating", startedAt |-> now + 1]])
    /\ UNCHANGED <<tasks, runs>>

ReplaceTask(i) ==
    /\ service.status.state \in {"updating", "rollback_started"}
    /\ Dirty(i)
    /\ Spawn(i)

FinishUpdate ==
    /\ service.status.state \in {"updating", "rollback_started"}
    /\ \A i \in Scaled(service.spec) :
          ~Dirty(i) /\ tasks[i].state \in {"running", "done"}
    /\ Store([service EXCEPT !.status.state =
          IF @ = "updating" THEN "completed" ELSE "rollback_completed"])
    /\ UNCHANGED <<tasks, runs>>

\* A replaced task does not come up: the update is paused or rolled back.
UpdateFails(i) ==
    /\ managed
    /\ service.status.state = "updating"
    /\ ~Dirty(i) /\ tasks[i].state = "starting"
    /\ \/ Store([service EXCEPT !.status.state = "paused"])
       \/ /\ service.prev # NoSpec
          /\ Store([service EXCEPT !.spec = service.prev, !.prev = NoSpec,
                                   !.status.state = "rollback_started"])
    /\ UNCHANGED <<tasks, runs>>

TaskRuns(i) ==
    /\ tasks[i].state = "starting"
    /\ tasks' = [tasks EXCEPT ![i].state = "running"]
    /\ UNCHANGED runs /\ Keep

\* A managed task that ends is restarted, from the current specification; an
\* external one is a job (restart condition none) and stays where it is.
TaskEnds(i) ==
    /\ tasks[i].state = "running"
    /\ IF managed
         THEN tasks' = [tasks EXCEPT ![i] = NewTask]
         ELSE tasks' = [tasks EXCEPT ![i].state = "done"]
    /\ UNCHANGED runs /\ Keep

Orchestrator ==
    /\ service.exists
    /\ \/ StartUpdate \/ FinishUpdate
       \/ \E i \in Slots : \/ FillSlot(i) \/ RemoveTask(i) \/ ReplaceTask(i)
                           \/ UpdateFails(i) \/ TaskRuns(i) \/ TaskEnds(i)

\* The external scheduler requests an execution of its service: it raises the
\* replicas of a parked one, or forces the tasks of a scaled one anew.  The
\* orchestrator has dropped the slots of a parked service by then.
RequestExecution ==
    /\ ~managed /\ service.exists
    /\ requested < MaxRequests
    /\ requested' = requested + 1
    /\ \A i \in Slots \ Scaled(service.spec) : tasks[i] = NoTask
    /\ IF service.spec.replicas = 0
         THEN AcceptUpdate([service.spec EXCEPT !.replicas = Cardinality(Slots)])
         ELSE AcceptUpdate([service.spec EXCEPT !.force = @ + 1])
    /\ UNCHANGED <<tasks, started>>

\* Nothing the scheduler asked for is under way or still to be started.
Quiescent ==
    /\ \A i \in Slots : ~Active(tasks[i])
    /\ \A i \in Scaled(service.spec) : tasks[i] # NoTask /\ ~Dirty(i)
===============================================================================
