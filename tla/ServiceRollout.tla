---------------------------- MODULE ServiceRollout ----------------------------
(***************************************************************************)
(* The deployments of one service: the applier                             *)
(* (deployments/deployer/services) that writes its specification to Docker, *)
(* the convergence waiter (deployments/deployer/waiter) that decides from  *)
(* what Docker shows whether the service runs it, and the verification     *)
(* receipt (deployments/verification.go) that carries an undecided rollout *)
(* to later attempts and over a crash.                                     *)
(*                                                                         *)
(* Every call to Docker and every transaction is a step of its own, and    *)
(* the orchestrator and an external scheduler act between them.  A         *)
(* specification is told apart by its task template, endpoint, metadata,   *)
(* force counter and replicas.  Modelled are replicated services whose     *)
(* tasks restart (managed) and job-like ones that do not (external).       *)
(***************************************************************************)
EXTENDS SwarmService

CONSTANTS
    Definitions,   \* desired specifications of the service
    Deployed,      \* the ones that may be running at the start
    Replaced,      \* what the last update before that replaced; NoSpec: there was none
    MaxAttempts,   \* bound: attempts over all deployments
    MaxFaults,     \* bound: crashes, failed calls and replaced credentials
    UpdateTries    \* serviceUpdateAttempts

Specification == [tmpl : Nat, ep : Nat, meta : Nat, force : Nat, replicas : Nat]

ASSUME SlotsFinite == IsFiniteSet(Slots)
ASSUME DefinitionsAreSpecifications ==
    Definitions \cup Deployed \cup Replaced \subseteq Specification
ASSUME ReplicasFillSlots ==
    \A d \in Definitions : d.replicas \in {0, Cardinality(Slots)}
ASSUME RolloutBounds ==
    /\ MaxRequests \in Nat /\ MaxAttempts \in Nat /\ MaxFaults \in Nat
    /\ UpdateTries \in Nat \ {0}

VARIABLES
    dep,      \* the latest deployment: definition, status, attempt number
    receipt,  \* its Verification: unresolved and the update generation
    auth,     \* the current credentials were sent with an accepted write
    ctl,      \* the attempt in progress
    blurred,  \* history: an intent was recorded whose write was not accepted, or an
              \* update was rolled back, and no success rolled the endpoint out since
    accepted, \* history: version of this attempt's accepted update, or 0
    attempts, faults

rolloutVars == <<dep, receipt, auth, ctl, attempts, faults>>
vars == <<swarmVars, rolloutVars, blurred, accepted>>

\* UpdateGeneration; after and tasksAfter are 0 when zero, before stands for
\* the digest of the specification that the write replaces.
NoGen == [on |-> FALSE, force |-> 0, after |-> 0, mode |-> "existing",
          before |-> NoSpec, tasksAfter |-> 0]

Receipt(unresolved, gen) == [unresolved |-> unresolved, gen |-> gen]

\* A controller between attempts.
Idle == [pc |-> "idle", base |-> NoService, cur |-> NoService, applied |-> NoSpec,
         gen |-> NoGen, saved |-> Receipt(FALSE, NoGen), inherited |-> FALSE,
         changed |-> FALSE, tries |-> 0, seen |-> NoService]

Want == dep.want
Retrying == dep.number > 1   \* RetryFailedUpdates

Init ==
    /\ managed \in BOOLEAN
    /\ \/ /\ dep = [want |-> NoSpec, status |-> "succeeded", number |-> 1]
          /\ service = NoService
       \/ \E d \in Deployed, p \in Replaced :
          /\ p # NoSpec => managed
          /\ dep = [want |-> d, status |-> "succeeded", number |-> 1]
          /\ service = [NoService EXCEPT !.exists = TRUE, !.createdAt = 1, !.prev = p,
                            !.updatedAt = IF p = NoSpec THEN 1 ELSE 4,
                            !.status = IF p = NoSpec THEN NoStatus
                                       ELSE [state |-> "completed", startedAt |-> 3],
                            !.spec = [d EXCEPT !.replicas = IF managed THEN @ ELSE 0]]
    /\ past = {} /\ requested = 0 /\ started = [i \in Slots |-> 0]
    /\ now = IF service.exists THEN service.updatedAt ELSE 1
    /\ tasks = [i \in Slots |->
          IF i \in Scaled(service.spec)
            THEN [tmpl |-> service.spec.tmpl, ep |-> service.spec.ep, force |-> 0,
                  born |-> IF service.prev = NoSpec THEN 1 ELSE 3, state |-> "running"]
            ELSE NoTask]
    /\ receipt = Receipt(FALSE, NoGen)
    /\ auth = TRUE
    /\ ctl = Idle
    /\ blurred = FALSE /\ accepted = 0
    /\ attempts = 0 /\ faults = 0

-----------------------------------------------------------------------------
(* Comparing specifications.                                               *)

SameTemplate(x, y) == x.tmpl = y.tmpl /\ x.force = y.force

\* The force counter belongs to the runtime, and so do external replicas.
SpecsEqual(current, desired) ==
    /\ current.tmpl = desired.tmpl /\ current.ep = desired.ep /\ current.meta = desired.meta
    /\ managed => current.replicas = desired.replicas

taskRecreatingUpdate(current, desired) ==
    \/ ~SameTemplate(current, desired)
    \/ current.ep # desired.ep
    \/ managed /\ current.replicas # desired.replicas

ClassifyVerification(before, after) ==
    IF SameTemplate(before, after) /\ before.ep = after.ep THEN "existing" ELSE "new"

FailedStates == {"paused", "rollback_started", "rollback_completed"}
retryRequired(s) == Retrying /\ managed /\ s.status.state \in FailedStates

\* A write of an unchanged specification could start a job, unless it is parked.
authOnlyUpdateSafe(spec) == managed \/ spec.replicas = 0
authPending(s) == authOnlyUpdateSafe(s.spec) /\ ~auth

updateRequired(s) == ~SpecsEqual(s.spec, Want) \/ retryRequired(s) \/ authPending(s)

\* prepareUpdate, before an external service is parked.
Prepared(s) ==
    IF ~retryRequired(s) /\ SpecsEqual(s.spec, Want) THEN s.spec
    ELSE [Want EXCEPT !.force = s.spec.force + (IF retryRequired(s) THEN 1 ELSE 0),
                      !.replicas = IF managed THEN @ ELSE s.spec.replicas]

-----------------------------------------------------------------------------
(* The update generation.                                                  *)

\* ResolveUpdateGeneration.
Resolve(gen, prev, current) ==
    LET mode == ClassifyVerification(prev, current)
    IN IF prev = NoSpec \/ gen.before # prev \/ mode = "new"
         THEN [gen EXCEPT !.mode = "new", !.tasksAfter = 0]
         ELSE IF gen.tasksAfter = 0 THEN [gen EXCEPT !.mode = mode]
         ELSE gen

\* Variant: a later write forgets the rollout it interrupts.
updateGenerationFresh(spec, s, previous) ==
    [on |-> TRUE, force |-> spec.force, after |-> s.updatedAt,
     mode |-> ClassifyVerification(s.spec, spec), before |-> s.spec, tasksAfter |-> 0]

updateGeneration(spec, s, previous) ==
    LET own == [on |-> TRUE, force |-> spec.force, after |-> s.updatedAt,
                mode |-> ClassifyVerification(s.spec, spec), before |-> s.spec,
                tasksAfter |-> 0]
        p == Resolve(previous, s.prev, s.spec)
        boundary == IF s.status.startedAt > p.after THEN s.status.startedAt ELSE s.updatedAt
    IN IF ~previous.on \/ p.mode # "new" THEN own
       ELSE [own EXCEPT !.mode = "new",
                        !.tasksAfter = IF p.tasksAfter = 0 /\ s.updatedAt > p.after
                                         THEN boundary ELSE p.tasksAfter]

-----------------------------------------------------------------------------
(* Attempts.                                                               *)

\* StartIfChanged: a new definition inherits the receipt, and a failed or
\* interrupted one is tried again.
Begin(d) ==
    /\ ctl.pc = "idle" /\ dep.status # "running"
    /\ attempts < MaxAttempts
    /\ d = Want => dep.status # "succeeded"
    /\ attempts' = attempts + 1
    /\ dep' = [want |-> d, status |-> "running", number |-> IF d = Want THEN 2 ELSE 1]
    /\ ctl' = [Idle EXCEPT !.pc = "baseline", !.inherited = receipt.unresolved,
                           !.gen = receipt.gen]
    /\ UNCHANGED <<swarmVars, receipt, auth, faults>>

\* Complete.  A failed apply keeps what it inherited, and everything when it
\* does not know what Docker accepted; what is resolved loses its generation.
Complete(status, unresolved) ==
    /\ dep' = [dep EXCEPT !.status = status]
    /\ receipt' = Receipt(unresolved, IF unresolved THEN receipt.gen ELSE NoGen)
    /\ ctl' = Idle
    /\ UNCHANGED <<swarmVars, auth, attempts>>

Fault == faults < MaxFaults /\ faults' = faults + 1

\* A call fails or times out, the write among them without being accepted.
\* Before the apply nothing new can have been accepted.
ApplyFails ==
    /\ ctl.pc \in {"baseline", "apply", "safety", "record", "write", "reinspect"}
    /\ Fault
    /\ Complete("failed", ctl.pc = "baseline" => receipt.unresolved)

CaptureBaseline ==
    /\ ctl.pc = "baseline"
    /\ ctl' = [ctl EXCEPT !.pc = "apply", !.base = service]
    /\ UNCHANGED <<swarmVars, dep, receipt, auth, attempts, faults>>

-----------------------------------------------------------------------------
(* The applier.                                                            *)

\* Continue with the inspected record s: nothing is left to write, or an
\* external service has to be idle first, or the write is recorded.
Advance(s, tries) ==
    LET applied == Prepared(s)
    IN ctl' = [ctl EXCEPT !.cur = s, !.applied = applied, !.tries = tries, !.pc =
                  IF managed \/ ~taskRecreatingUpdate(s.spec, applied)
                    THEN "record" ELSE "safety"]

\* verificationServiceNames and waitForStack: whether the service is observed.
IsTarget(changed) ==
    \/ changed \/ ctl.inherited
    \/ managed /\ (Retrying \/ ctl.base.status.state = "updating")

\* apply when no update is required.
LeaveAlone ==
    IF IsTarget(FALSE)
      THEN ctl' = [ctl EXCEPT !.pc = "poll"] /\ UNCHANGED <<swarmVars, dep, receipt, auth>>
      ELSE Complete("succeeded", FALSE)

inspectOrCreate ==
    /\ ctl.pc = "apply" /\ ~service.exists
    /\ AcceptCreate([Want EXCEPT !.replicas = IF managed THEN @ ELSE 0])
    /\ auth' = TRUE
    /\ ctl' = [ctl EXCEPT !.pc = "poll", !.changed = TRUE,
          !.gen = [NoGen EXCEPT !.on = TRUE, !.before = service'.spec]]
    /\ UNCHANGED <<tasks, runs, dep, receipt, attempts, faults>>

Inspect ==
    /\ ctl.pc = "apply" /\ service.exists
    /\ IF updateRequired(service)
         THEN Advance(service, 0) /\ UNCHANGED <<swarmVars, dep, receipt, auth>>
         ELSE LeaveAlone
    /\ UNCHANGED <<attempts, faults>>

\* The record was not written since it was read.
VersionMatches(s) == s.updatedAt = service.updatedAt

\* Variant: a slot whose task ended counts, whichever execution it was.
SettledAnyhow(s) == \A i \in Slots : ~Active(tasks[i])

\* executionSettled for the inspected version.
Settled(s) ==
    /\ \A i \in Slots : ~Active(tasks[i])
    /\ \A i \in Scaled(s.spec) :
          tasks[i] # NoTask /\ SameTemplate(tasks[i], s.spec)

\* The reason "template mismatch": ended tasks of another template or force.
Mismatched(s) ==
    /\ \A i \in Slots : ~Active(tasks[i])
    /\ \A i \in Scaled(s.spec) : tasks[i] # NoTask

\* Variant: an idle service is updated without being parked.
checkUpdateSafetyScaled ==
    /\ ctl.pc = "safety" /\ Settled(ctl.cur)
    /\ ctl' = [ctl EXCEPT !.pc = "record"]
    /\ UNCHANGED <<swarmVars, dep, receipt, auth, attempts, faults>>

\* checkUpdateSafety: the tasks are listed after the service was inspected.
\* Unsettled tasks block the update; while they only mismatch,
\* recheckTemplateMismatch lists them again unless the service has changed.
checkUpdateSafety ==
    /\ ctl.pc = "safety"
    /\ \/ /\ Settled(ctl.cur)
          /\ ctl' = [ctl EXCEPT !.pc = "record", !.applied.replicas = 0]
          /\ UNCHANGED <<swarmVars, dep, receipt, auth>>
       \/ /\ ~Settled(ctl.cur)
          /\ IF Mismatched(ctl.cur) /\ ~VersionMatches(ctl.cur)
               THEN /\ ctl' = [ctl EXCEPT !.pc = "reinspect"]
                    /\ UNCHANGED <<swarmVars, dep, receipt, auth>>
               ELSE Complete("failed", TRUE)
    /\ UNCHANGED <<attempts, faults>>

\* BeforeUpdate: RecordUpdateGeneration commits the intent.
RecordUpdateGeneration ==
    /\ ctl.pc = "record"
    /\ LET gen == updateGeneration(ctl.applied, ctl.cur, ctl.gen)
       IN /\ receipt' = Receipt(TRUE, gen)
          /\ ctl' = [ctl EXCEPT !.pc = "write", !.gen = gen,
                                !.saved = Receipt(receipt.unresolved, ctl.gen)]
    /\ UNCHANGED <<swarmVars, dep, auth, attempts, faults>>

\* Update is accepted; the response may be lost, and then the apply fails
\* without knowing.
UpdateAccepted ==
    /\ ctl.pc = "write" /\ VersionMatches(ctl.cur)
    /\ AcceptUpdate(ctl.applied)
    /\ UNCHANGED <<tasks, runs, attempts>>
    /\ \/ /\ auth' = TRUE
          /\ ctl' = [ctl EXCEPT !.pc = "poll", !.changed = TRUE]
          /\ UNCHANGED <<dep, receipt, faults>>
       \/ /\ Fault
          /\ dep' = [dep EXCEPT !.status = "failed"]
          /\ ctl' = Idle
          /\ UNCHANGED <<receipt, auth>>

\* What a refused apply leaves: inherited obligations and earlier writes.
RefusedWith(gen) ==
    /\ receipt' = LET unresolved == ctl.inherited \/ gen.on
                  IN Receipt(unresolved, IF unresolved THEN gen ELSE NoGen)
    /\ dep' = [dep EXCEPT !.status = "failed"]
    /\ ctl' = Idle

\* A definite refusal restores the receipt; after a conflict the service is
\* inspected again.
UpdateRefused ==
    /\ ctl.pc = "write"
    /\ IF VersionMatches(ctl.cur)
         THEN Fault /\ RefusedWith(ctl.saved.gen)
         ELSE /\ receipt' = ctl.saved
              /\ ctl' = [ctl EXCEPT !.pc = "reinspect", !.gen = ctl.saved.gen]
              /\ UNCHANGED <<dep, faults>>
    /\ UNCHANGED <<swarmVars, auth, attempts>>

\* refreshConcurrentUpdate: another writer may have brought the service to
\* the desired specification, and then its transition becomes the
\* obligation; otherwise the update starts over, UpdateTries times in all.
refreshConcurrentUpdate ==
    /\ ctl.pc = "reinspect"
    /\ IF SpecsEqual(service.spec, Want) /\ ~retryRequired(service) /\ ~authPending(service)
         THEN LET before == [service EXCEPT !.updatedAt = ctl.cur.updatedAt,
                                !.spec = IF service.prev = NoSpec THEN @ ELSE service.prev]
                  gen == updateGeneration(service.spec, before, ctl.gen)
              IN /\ receipt' = Receipt(TRUE, gen)
                 /\ ctl' = [ctl EXCEPT !.pc = "poll", !.changed = TRUE, !.gen = gen]
                 /\ UNCHANGED dep
         ELSE IF ctl.tries + 1 < UpdateTries
         THEN Advance(service, ctl.tries + 1) /\ UNCHANGED <<dep, receipt>>
         ELSE RefusedWith(ctl.gen)
    /\ UNCHANGED <<swarmVars, auth, attempts, faults>>

\* RefreshRegistryAuth after a success: maintenance outside any attempt.
RefreshRegistryAuth ==
    /\ ctl.pc = "idle" /\ dep.status = "succeeded" /\ service.exists
    /\ service.status.state \in {"none", "completed"}
    /\ SpecsEqual(service.spec, Want) /\ authPending(service)
    /\ AcceptUpdate(service.spec)
    /\ auth' = TRUE
    /\ UNCHANGED <<tasks, runs, dep, receipt, ctl, attempts, faults>>

RotateCredentials ==
    /\ Fault
    /\ auth' = FALSE
    /\ UNCHANGED <<swarmVars, dep, receipt, ctl, attempts>>

-----------------------------------------------------------------------------
(* The convergence waiter.                                                 *)

serviceChanged(before, after) ==
    \/ before.exists # after.exists
    \/ before.updatedAt # after.updatedAt \/ before.spec # after.spec

\* Variant: the rollout is compared with the record it belongs to.
RolloutCutoffLate(base, s) ==
    [time |-> s.status.startedAt, pending |-> s.status.startedAt <= s.updatedAt]

\* taskGenerationCutoff: when tasks of the current rollout can have started.
RolloutCutoff(base, s) ==
    IF ~base.exists THEN [time |-> s.createdAt, pending |-> FALSE]
    ELSE [time |-> s.status.startedAt, pending |-> s.status.startedAt <= base.updatedAt]

serviceVerificationMode(base, s, unresolved, gen) ==
    LET mode == ClassifyVerification(base.spec, s.spec)
    IN IF ~base.exists \/ s.updatedAt < base.updatedAt THEN "new"
       ELSE IF gen.on /\ gen.mode = "new" THEN "new"
       ELSE IF mode = "new" \/ (~unresolved /\ ~gen.on) THEN mode
       ELSE IF s.prev = NoSpec THEN "new"
       ELSE ClassifyVerification(s.prev, s.spec)

verificationTaskCutoff(base, s, mode, unresolved, gen) ==
    IF mode # "new" THEN [time |-> 0, pending |-> FALSE]
    ELSE IF gen.on /\ gen.after # 0
      THEN LET cutoff == RolloutCutoff([base EXCEPT !.updatedAt = gen.after], s)
           IN IF gen.tasksAfter = 0 THEN cutoff
              ELSE [time |-> gen.tasksAfter, pending |-> s.status # NoStatus /\ cutoff.pending]
    ELSE IF \/ ~unresolved \/ ~base.exists
            \/ ClassifyVerification(base.spec, s.spec) # "existing"
      THEN RolloutCutoff(base, s)
    ELSE IF s.updatedAt < base.updatedAt THEN [time |-> 0, pending |-> TRUE]
    ELSE IF /\ s.status = NoStatus /\ base.status = NoStatus
            /\ s.prev = NoSpec /\ base.prev = NoSpec /\ s.spec.force = 0
      THEN [time |-> s.createdAt, pending |-> FALSE]
    ELSE IF s.status = NoStatus THEN [time |-> 0, pending |-> TRUE]
    ELSE IF s.prev # NoSpec /\ SameTemplate(s.prev, s.spec) THEN RolloutCutoff(base, s)
    ELSE [time |-> s.status.startedAt, pending |-> FALSE]

restoredCompletedRollback(s) ==
    /\ ctl.base.exists /\ ~serviceChanged(ctl.base, s)
    /\ s.status.state = "rollback_completed" /\ s.status = ctl.base.status
    /\ SpecsEqual(s.spec, Want)

\* The generation as observeService resolves it.
Resolved(s) == IF ctl.gen.on THEN Resolve(ctl.gen, s.prev, s.spec) ELSE NoGen

\* Variant: whatever record is listed is judged.
MetadataPendingNever(s, gen) == FALSE

\* specificationMetadataPending: the record may be older than what is awaited.
MetadataPending(s, gen) ==
    \/ ctl.base.exists /\ s.updatedAt < ctl.base.updatedAt
    \/ gen.on /\ s.updatedAt <= gen.after

DesiredTasks == {i \in Slots : tasks[i] # NoTask}

\* countVerifiedRunningTasks.
Verified(s, mode, cutoff) ==
    {i \in DesiredTasks : /\ tasks[i].state = "running"
                          /\ SameTemplate(tasks[i], s.spec)
                          /\ mode = "new" => tasks[i].born >= cutoff}

\* A failed status that is still the one the baseline showed says nothing of
\* the write that followed.
staleUpdateStatus(base, s) ==
    /\ ctl.base.exists /\ serviceChanged(base, s)
    /\ base.status = s.status /\ s.status.startedAt <= base.updatedAt

\* evaluateService.
evaluateService(s) ==
    LET restored == restoredCompletedRollback(s)
        gen  == IF restored THEN NoGen ELSE Resolved(s)
        base == IF gen.on /\ gen.after # 0
                  THEN [ctl.base EXCEPT !.updatedAt = gen.after] ELSE ctl.base
        unresolved == ctl.inherited /\ ~restored
        mode   == serviceVerificationMode(base, s, unresolved, gen)
        cutoff == verificationTaskCutoff(base, s, mode, unresolved, gen)
    IN IF ~s.exists \/ MetadataPending(s, gen) THEN "pending"
       ELSE IF s.status.state \in FailedStates /\ ~restored
         THEN IF staleUpdateStatus(base, s) THEN "pending" ELSE "failed"
       ELSE IF ~SpecsEqual(s.spec, Want) THEN "pending"
       ELSE IF s.spec.replicas = 0
         THEN IF \A i \in Slots : ~Active(tasks[i]) THEN "ready" ELSE "pending"
       ELSE IF cutoff.pending \/ s.status.state = "updating" THEN "pending"
       ELSE IF /\ Cardinality(Verified(s, mode, cutoff.time)) = s.spec.replicas
               /\ Cardinality(DesiredTasks) = s.spec.replicas
         THEN "ready" ELSE "pending"

\* specificationStatusPending.
StatusPending(reference, s) ==
    /\ s.status # NoStatus
    /\ \/ s.status.startedAt > s.updatedAt
       \/ /\ reference.exists
          /\ IF ctl.inherited /\ ~ctl.gen.on
               THEN s.status.startedAt < reference.status.startedAt
               ELSE s.status.startedAt <= reference.updatedAt

\* specificationRolloutPending.
RolloutPending(s, mode, gen) ==
    LET cutoff == verificationTaskCutoff(ctl.base, s, mode, ctl.inherited, gen)
        fromGeneration ==
            /\ gen.tasksAfter # 0
            /\ Cardinality(DesiredTasks) = s.spec.replicas
            /\ \A i \in DesiredTasks :
                  tasks[i].born >= gen.tasksAfter /\ SameTemplate(tasks[i], s.spec)
    IN IF ~ctl.base.exists \/ s.spec.replicas = 0 \/ mode # "new"
         THEN s.status.state = "updating"
         ELSE \/ cutoff.pending
              \/ IF s.status = NoStatus
                   THEN cutoff.time # s.createdAt /\ ~fromGeneration
                   ELSE s.status.state # "completed"

\* specificationProgress: an external service is verified for its
\* specification and rollout, never for the health of its tasks.
specificationProgress(s) ==
    LET gen == Resolved(s)
        reference == IF gen.on
                       THEN [ctl.base EXCEPT !.exists = TRUE, !.updatedAt = gen.after,
                                             !.spec.force = gen.force]
                       ELSE ctl.base
        own  == \/ gen.on \/ ctl.inherited \/ ctl.base.exists # s.exists
                \/ ~SpecsEqual(ctl.base.spec, Want)
        mode == serviceVerificationMode(ctl.base, s, ctl.inherited, gen)
        external == s.spec.force # reference.spec.force
    IN IF ~s.exists \/ MetadataPending(s, gen) THEN "pending"
       ELSE IF own /\ mode = "new" /\ StatusPending(reference, s) THEN "pending"
       ELSE IF own /\ ~external /\ s.status.state \in FailedStates THEN "failed"
       ELSE IF ~SpecsEqual(s.spec, Want) THEN "pending"
       ELSE IF own /\ ~external /\ RolloutPending(s, mode, gen) THEN "pending"
       ELSE "ready"

\* poll: the services are listed, possibly as they were before the write.
Poll ==
    /\ ctl.pc = "poll"
    /\ \E s \in past \cup {service} :
          /\ ~(ctl.changed /\ ctl.base.exists /\ ~serviceChanged(ctl.base, s))
          /\ ctl' = [ctl EXCEPT !.pc = "tasks", !.seen = s]
    /\ UNCHANGED <<swarmVars, dep, receipt, auth, attempts, faults>>

Verdict == IF managed THEN evaluateService(ctl.seen) ELSE specificationProgress(ctl.seen)

\* observeTargets: the tasks are listed and the service is judged.
Observe ==
    /\ ctl.pc = "tasks"
    /\ CASE Verdict = "ready"  -> Complete("succeeded", FALSE)
         [] Verdict = "failed" -> Complete("failed", TRUE)
         [] OTHER -> /\ ctl' = [ctl EXCEPT !.pc = "poll", !.seen = NoService]
                     /\ UNCHANGED <<swarmVars, dep, receipt, auth, attempts>>
    /\ UNCHANGED faults

\* The wait times out, or an observation fails for good.
WaitInterrupted ==
    /\ ctl.pc = "poll"
    /\ Complete("interrupted", TRUE)
    /\ UNCHANGED faults

\* The process dies and InterruptRunning finds its attempt.
Crash ==
    /\ ctl.pc # "idle"
    /\ Fault
    /\ dep' = [dep EXCEPT !.status = "interrupted"]
    /\ receipt' = [receipt EXCEPT !.unresolved = TRUE]
    /\ auth' = FALSE
    /\ ctl' = Idle
    /\ UNCHANGED <<swarmVars, attempts>>

-----------------------------------------------------------------------------
Apply ==
    \/ inspectOrCreate \/ Inspect \/ checkUpdateSafety \/ RecordUpdateGeneration
    \/ UpdateAccepted \/ UpdateRefused \/ refreshConcurrentUpdate

Step ==
    \/ \E d \in Definitions : Begin(d)
    \/ CaptureBaseline \/ Apply \/ ApplyFails \/ Poll \/ Observe \/ WaitInterrupted \/ Crash
    \/ RefreshRegistryAuth \/ RotateCredentials
    \/ (Orchestrator \/ RequestExecution) /\ UNCHANGED rolloutVars

Succeeds == dep.status = "running" /\ dep'.status = "succeeded"

History ==
    LET abandoned == /\ ctl.pc = "write" /\ ctl'.pc = "idle"
                     /\ service' = service /\ receipt'.gen = ctl.gen
        rolledBack == /\ service'.status.state = "rollback_started"
                      /\ service' # service
        settled == Succeeds /\ \A i \in DesiredTasks : tasks[i].ep = Want.ep
    IN /\ blurred' = (~settled /\ (blurred \/ abandoned \/ rolledBack))
       /\ accepted' = IF ctl'.pc = "idle" THEN 0
                      ELSE IF ctl.pc = "write" /\ ctl'.pc = "poll" THEN service'.updatedAt
                      ELSE accepted

Next == Step /\ History

Spec == Init /\ [][Next]_vars

-----------------------------------------------------------------------------
RolloutTypeOK ==
    /\ dep.status \in {"running", "succeeded", "failed", "interrupted"}
    /\ dep.status = "running" <=> ctl.pc # "idle"
    /\ receipt.gen.on => receipt.unresolved
    /\ ctl.seen.updatedAt <= service.updatedAt /\ ctl.cur.updatedAt <= service.updatedAt

\* Every task of the service belongs to the desired specification.
RolledOut ==
    \A i \in Scaled(dep.want) :
        /\ tasks[i].tmpl = dep.want.tmpl
        /\ blurred \/ tasks[i].ep = dep.want.ep

(***************************************************************************)
(* An attempt succeeds only when every task of the service belongs to the  *)
(* desired specification, its endpoint included, which no task shows:      *)
(* whatever earlier attempt wrote it, was interrupted or refused, however  *)
(* a later write reset the update status, and whichever version of the     *)
(* record Docker happened to return.  The endpoint is left out where an    *)
(* intent was abandoned or an update rolled back, until a success has      *)
(* rolled the endpoint out.                                                *)
(***************************************************************************)
SuccessMeansRolledOut == [][managed /\ Succeeds => RolledOut]_vars

(***************************************************************************)
(* A failure is the desired specification's own: the waiter never takes    *)
(* the paused or rolled back update of an earlier write for the outcome of *)
(* the one this attempt had accepted.                                      *)
(***************************************************************************)
FailureIsOwn ==
    [][ctl.pc = "tasks" /\ dep'.status = "failed"
        => ctl.seen.status.startedAt > accepted]_vars

\* The record read is current, its update is over and every task runs the desired
\* specification.
Converged ==
    /\ managed /\ ctl.seen = service
    /\ SpecsEqual(service.spec, Want)
    /\ service.status.state = "completed"
    /\ \A i \in Slots : /\ tasks[i].state = "running" /\ ~Dirty(i)
                         /\ tasks[i].born >= service.status.startedAt

\* The obligation has no generation, and the last update changed no more than the
\* endpoint: nothing dates its tasks.
Undated ==
    /\ ctl.inherited /\ ~ctl.gen.on
    /\ service.prev # NoSpec /\ SameTemplate(service.prev, service.spec)

(***************************************************************************)
(* A converged service is recognised: the waiter does not keep waiting for *)
(* it until it times out (evaluateService, specificationProgress).  The    *)
(* exceptions are an undated obligation, for which verificationTaskCutoff  *)
(* asks for a newer rollout, and what blurs the receipt.  The receipt      *)
(* carries a generation only while the service is unresolved.              *)
(***************************************************************************)
RolloutInvariant ==
    /\ RolloutTypeOK
    /\ ctl.pc = "tasks" /\ Converged /\ ~blurred /\ ~Undated => Verdict = "ready"

(***************************************************************************)
(* The executions of an external service are its scheduler's: an update    *)
(* that replaces tasks is accepted only when none of them is running or    *)
(* still to be started, although the check (checkUpdateSafety) and the     *)
(* write are separate calls.                                               *)
(***************************************************************************)
ExecutionsUndisturbed ==
    [][~managed /\ UpdateAccepted /\ taskRecreatingUpdate(service.spec, service'.spec)
        => Quiescent]_vars

(***************************************************************************)
(* No update of an external service starts an execution by itself: a slot  *)
(* starts at most as often as the scheduler requested it.                  *)
(***************************************************************************)
NoUnrequestedExecution == \A i \in Slots : started[i] <= requested
===============================================================================
