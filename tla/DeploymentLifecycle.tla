------------------------ MODULE DeploymentLifecycle ------------------------
(***************************************************************************)
(* The deployments of one stack (internal/modules/deployments): the rows   *)
(* and transactions of Service (service.go, completion.go,                 *)
(* verification.go), the synchronous execution of Controller               *)
(* (controller.go) with the outline of the deployment pipeline it drives,  *)
(* and the ownership lock that lets one process of several do so           *)
(* (gitops/controller/ownership.go).                                       *)
(*                                                                         *)
(* Every transaction is one action, every write to Docker another.  A      *)
(* transaction may fail, and it may commit although its caller gets an     *)
(* error.  A desired state is one of Definitions; definitions are equal    *)
(* when their digests are.  A service is named by its place in the order   *)
(* of application.  Update generations, which only tell the waiter what to *)
(* look for, are left out.                                                 *)
(***************************************************************************)
EXTENDS Integers, Sequences, FiniteSets

CONSTANTS
    Processes,      \* controller processes sharing the data directory
    Definitions,    \* desired states the stack can be asked for
    ServicesOf,     \* the services of a definition
    None,           \* no process
    MaxDeployments, \* bound: deployments of the stack
    MaxAttempts,    \* bound: attempts of a deployment
    MaxCrashes,     \* bound: process crashes
    MaxLost         \* bound: commits whose acknowledgement is lost

ASSUME ServicesAreNumbered == ServicesOf \in [Definitions -> SUBSET Nat]
ASSUME NoneIsNoProcess == None \notin Processes
ASSUME LifecycleBounds ==
    MaxDeployments \in Nat /\ MaxAttempts \in Nat /\ MaxCrashes \in Nat /\ MaxLost \in Nat

VARIABLES
    deployments, \* rows of the stack, oldest first, with their attempts
    baseline,    \* desired_snapshots: deployment of the successful baseline
    owner,       \* process that holds the ownership lock
    proc,        \* what each process is doing
    pending,     \* Controller.pending: completion still to be persisted
    unproven,    \* services written in Docker, not seen converged since
    crashes, lost

dbVars == <<deployments, baseline>>
vars   == <<dbVars, owner, proc, pending, unproven, crashes, lost>>

Services == UNION {ServicesOf[x] : x \in Definitions}
Statuses == {"running", "succeeded", "failed", "interrupted"}
Outcomes == {"succeeded", "apply_failed", "init_failed", "convergence_failed",
             "verification_interrupted", "cleanup_failed", "process_interrupted"}

\* model.Verification.
Unknown == [known |-> FALSE, unresolved |-> {}]
Known(names) == [known |-> TRUE, unresolved |-> names]

NoCompletion == [d |-> 0, n |-> 0, outcome |-> "succeeded", retryable |-> FALSE,
                 verification |-> Unknown]

\* A process that is not executing; d and n are the attempt it executes.
Resting(where) == [pc |-> where, d |-> 0, n |-> 0, inherited |-> {}, todo |-> {},
                   written |-> {}, was |-> FALSE, result |-> NoCompletion]

Executing == {"deploying", "applying", "recorded", "verifying", "observing", "completing"}

Init ==
    /\ deployments = <<>> /\ baseline = 0
    /\ owner = None
    /\ proc = [p \in Processes |-> Resting("down")]
    /\ pending = [p \in Processes |-> NoCompletion]
    /\ unproven = {}
    /\ crashes = 0 /\ lost = 0

-----------------------------------------------------------------------------
(* Rows.                                                                   *)

Current == deployments[Len(deployments)]

\* newDeployment with its first attempt; announced counts the terminal
\* events published for each attempt.
NewDeployment(definition, verification) ==
    [desired |-> definition, status |-> "running", retryable |-> FALSE, due |-> FALSE,
     verification |-> verification, attempts |-> <<"running">>, announced |-> <<0>>]

\* StartAttempt.
Retried(dep) ==
    [dep EXCEPT !.status = "running", !.retryable = FALSE, !.due = FALSE,
                !.attempts = Append(@, "running"), !.announced = Append(@, 0)]

StatusOf(outcome) ==
    CASE outcome = "succeeded" -> "succeeded"
      [] outcome \in {"verification_interrupted", "process_interrupted"} -> "interrupted"
      [] OTHER -> "failed"

ApplyPhase == {"apply_failed", "init_failed", "process_interrupted"}

\* Variant: a failed apply only keeps what it reports itself.
ObligationsReported(dep, completion) ==
    IF completion.outcome = "succeeded" THEN {}
    ELSE IF completion.verification.known THEN completion.verification.unresolved
    ELSE IF completion.outcome = "init_failed" THEN {}
    ELSE ServicesOf[dep.desired]

\* rolloutObligations and the set complete derives from it.
Obligations(dep, completion) ==
    LET reported == IF completion.verification.known
                      THEN completion.verification.unresolved
                      ELSE IF completion.outcome = "init_failed" THEN {}
                      ELSE ServicesOf[dep.desired]
    IN IF completion.outcome = "succeeded" THEN {}
       ELSE IF completion.outcome \in ApplyPhase
              THEN reported \cup dep.verification.unresolved
              ELSE reported

\* FinishAttempt and publishCompletion.
Finished(dep, completion) ==
    LET n == Len(dep.attempts)
        status == StatusOf(completion.outcome)
    IN [dep EXCEPT !.status = status, !.retryable = completion.retryable, !.due = FALSE,
                   !.verification = Known(Obligations(dep, completion)),
                   !.attempts[n] = status, !.announced[n] = @ + 1]

ProcessInterrupted ==
    [NoCompletion EXCEPT !.outcome = "process_interrupted", !.retryable = TRUE]

\* Variant: the latest attempt is accepted whatever its status.
IsLatest(d, n) == Len(deployments[d].attempts) = n

\* complete accepts the attempt: it is running and the latest.
IsRunning(d, n) ==
    /\ deployments[d].status = "running"
    /\ Len(deployments[d].attempts) = n
    /\ deployments[d].attempts[n] = "running"

\* Variant: every completion saves the baseline.
CompleteSaving(completion) ==
    /\ IsRunning(completion.d, completion.n)
    /\ deployments' = [deployments EXCEPT ![completion.d] = Finished(@, completion)]
    /\ baseline' = completion.d

\* The transaction of Complete.
Complete(completion) ==
    /\ IsRunning(completion.d, completion.n)
    /\ deployments' = [deployments EXCEPT ![completion.d] = Finished(@, completion)]
    /\ baseline' = IF completion.outcome = "succeeded" THEN completion.d ELSE baseline

-----------------------------------------------------------------------------
(* Process lifecycle.                                                      *)

Boot(p) ==
    /\ proc[p].pc = "down"
    /\ proc' = [proc EXCEPT ![p] = Resting("waiting")]
    /\ UNCHANGED <<dbVars, owner, pending, unproven, crashes, lost>>

\* Variant: the lock is not exclusive.
AcquireShared(p) ==
    /\ proc[p].pc = "waiting"
    /\ owner' = p
    /\ proc' = [proc EXCEPT ![p] = Resting("recovering")]
    /\ UNCHANGED <<dbVars, pending, unproven, crashes, lost>>

Acquire(p) ==
    /\ proc[p].pc = "waiting" /\ owner = None
    /\ owner' = p
    /\ proc' = [proc EXCEPT ![p] = Resting("recovering")]
    /\ UNCHANGED <<dbVars, pending, unproven, crashes, lost>>

\* Variant: attempts of an earlier process are left running.
RecoverNothing(p) ==
    /\ proc[p].pc = "recovering"
    /\ proc' = [proc EXCEPT ![p] = Resting("idle")]
    /\ UNCHANGED <<dbVars, owner, pending, unproven, crashes, lost>>

\* InterruptRunning, in one transaction; if it fails the process ends.
Recover(p) ==
    /\ proc[p].pc = "recovering"
    /\ \/ /\ deployments' = [d \in DOMAIN deployments |->
                IF deployments[d].status = "running"
                  THEN Finished(deployments[d], ProcessInterrupted)
                  ELSE deployments[d]]
          /\ proc' = [proc EXCEPT ![p] = Resting("idle")]
          /\ UNCHANGED owner
       \/ /\ proc' = [proc EXCEPT ![p] = Resting("down")]
          /\ owner' = None
          /\ UNCHANGED deployments
    /\ UNCHANGED <<baseline, pending, unproven, crashes, lost>>

\* A graceful end, once the workers are drained, and a crash at any point:
\* the lock goes with the process, and so does what it remembered.
Shutdown(p) ==
    /\ proc[p].pc \in {"waiting", "idle"}
    /\ proc' = [proc EXCEPT ![p] = Resting("down")]
    /\ pending' = [pending EXCEPT ![p] = NoCompletion]
    /\ owner' = IF owner = p THEN None ELSE owner
    /\ UNCHANGED <<dbVars, unproven, crashes, lost>>

Crash(p) ==
    /\ crashes < MaxCrashes
    /\ proc[p].pc # "down"
    /\ crashes' = crashes + 1
    /\ proc' = [proc EXCEPT ![p] = Resting("down")]
    /\ pending' = [pending EXCEPT ![p] = NoCompletion]
    /\ owner' = IF owner = p THEN None ELSE owner
    /\ UNCHANGED <<dbVars, unproven, lost>>

\* The retry backoff of the latest deployment elapses.
BackoffElapses ==
    /\ deployments # <<>>
    /\ Current.status \in {"failed", "interrupted"} /\ ~Current.due
    /\ deployments' = [deployments EXCEPT ![Len(deployments)].due = TRUE]
    /\ UNCHANGED <<baseline, owner, proc, pending, unproven, crashes, lost>>

-----------------------------------------------------------------------------
(* Execute: recoverPending, then StartIfChanged.                           *)

\* The completion is persisted now, or it was persisted before and is
\* forgotten; a failing transaction changes nothing.
RecoverPending(p) ==
    LET c == pending[p]
    IN /\ proc[p].pc = "idle" /\ c # NoCompletion
       /\ IF IsRunning(c.d, c.n)
            THEN Complete(c)
            ELSE UNCHANGED dbVars
       /\ pending' = [pending EXCEPT ![p] = NoCompletion]
       /\ UNCHANGED <<owner, proc, unproven, crashes, lost>>

automaticRetryAllowed(dep) == dep.retryable /\ dep.due

\* unresolvedServices: obligations survive while a service stays desired.
Inherited(dep, definition) ==
    IF ~dep.verification.known /\ dep.status \in {"failed", "interrupted"}
      THEN ServicesOf[definition]
      ELSE dep.verification.unresolved \cap ServicesOf[definition]

\* Variant: a superseded deployment is not ended.
StartedBeside(definition, manual, sourceChanged) ==
    \/ /\ deployments = <<>> /\ sourceChanged /\ MaxDeployments > 0
       /\ deployments' = <<NewDeployment(definition, Unknown)>>
    \/ /\ deployments # <<>> /\ Current.desired # definition
       /\ Len(deployments) < MaxDeployments
       /\ deployments' = Append(deployments,
             NewDeployment(definition, Known(Inherited(Current, definition))))

\* startPrepared when it leaves a running attempt: the rows after it.
Started(definition, manual, sourceChanged) ==
    LET k == Len(deployments)
        previous == IF Current.status = "running"
                      THEN Finished(Current, ProcessInterrupted) ELSE Current
    IN \/ /\ deployments = <<>> /\ sourceChanged /\ MaxDeployments > 0
          /\ deployments' = <<NewDeployment(definition, Unknown)>>
       \/ /\ deployments # <<>> /\ Current.desired = definition
          /\ Current.status \in {"failed", "interrupted"}
          /\ manual \/ automaticRetryAllowed(Current)
          /\ Len(Current.attempts) < MaxAttempts
          /\ deployments' = [deployments EXCEPT ![k] = Retried(@)]
       \/ /\ deployments # <<>> /\ Current.desired # definition
          /\ k < MaxDeployments
          /\ deployments' = Append([deployments EXCEPT ![k] = previous],
                NewDeployment(definition, Known(Inherited(previous, definition))))

\* StartIfChanged; acknowledged is FALSE when it commits but returns an error.
Start(p, definition, manual, sourceChanged, acknowledged) ==
    LET row == deployments'[Len(deployments')]
    IN /\ proc[p].pc = "idle" /\ pending[p] = NoCompletion
       /\ Started(definition, manual, sourceChanged)
       /\ unproven' = unproven \cap ServicesOf[definition]
       /\ IF acknowledged
            THEN /\ proc' = [proc EXCEPT ![p] =
                       [Resting("deploying") EXCEPT
                          !.d = Len(deployments'), !.n = Len(row.attempts),
                          !.inherited = row.verification.unresolved]]
                 /\ UNCHANGED lost
            ELSE lost < MaxLost /\ lost' = lost + 1 /\ UNCHANGED proc
       /\ UNCHANGED <<baseline, owner, pending, crashes>>

-----------------------------------------------------------------------------
(* DeployStack, as far as Execute depends on it.                           *)

\* p goes on to persist the outcome of its attempt.
Conclude(p, outcome, retryable, verification) ==
    proc' = [proc EXCEPT ![p].pc = "completing",
               ![p].result = [d |-> proc[p].d, n |-> proc[p].n, outcome |-> outcome,
                              retryable |-> retryable, verification |-> verification]]

Desired(p) == ServicesOf[deployments[proc[p].d].desired]
NextService(p) == CHOOSE s \in proc[p].todo : \A t \in proc[p].todo : s <= t

\* stackOptions fails, or a pipeline step before apply does.
FailBeforeApply(p) ==
    /\ proc[p].pc = "deploying"
    /\ \/ Conclude(p, "apply_failed", TRUE, Unknown)
       \/ \E outcome \in {"apply_failed", "init_failed"}, retryable \in BOOLEAN :
             Conclude(p, outcome, retryable, Known({}))
    /\ UNCHANGED <<dbVars, owner, pending, unproven, crashes, lost>>

BeginApply(p) ==
    /\ proc[p].pc = "deploying"
    /\ proc' = [proc EXCEPT ![p].pc = "applying", ![p].todo = Desired(p)]
    /\ UNCHANGED <<dbVars, owner, pending, unproven, crashes, lost>>

\* The next service needs no write, or is created.
Inspect(p) ==
    LET s == NextService(p)
    IN /\ proc[p].pc = "applying" /\ proc[p].todo # {}
       /\ \/ /\ proc' = [proc EXCEPT ![p].todo = @ \ {s}]
             /\ UNCHANGED unproven
          \/ /\ proc' = [proc EXCEPT ![p].todo = @ \ {s}, ![p].written = @ \cup {s}]
             /\ unproven' = unproven \cup {s}
       /\ UNCHANGED <<dbVars, owner, pending, crashes, lost>>

\* The verification of p's deployment with obligations names; an unknown one
\* is persisted as such, without names.
Noted(p, names) ==
    deployments' = [deployments EXCEPT ![proc[p].d].verification.unresolved =
        IF deployments[proc[p].d].verification.known THEN names ELSE {}]

\* RecordUpdateGeneration, before the update is sent to Docker.
RecordUpdateGeneration(p) ==
    LET s == NextService(p)
        names == deployments[proc[p].d].verification.unresolved
    IN /\ proc[p].pc = "applying" /\ proc[p].todo # {}
       /\ IsRunning(proc[p].d, proc[p].n)
       /\ Noted(p, names \cup {s})
       /\ proc' = [proc EXCEPT ![p].pc = "recorded", ![p].was = s \in names]
       /\ UNCHANGED <<baseline, owner, pending, unproven, crashes, lost>>

\* Docker accepts the update.
Update(p) ==
    LET s == NextService(p)
    IN /\ proc[p].pc = "recorded"
       /\ unproven' = unproven \cup {s}
       /\ proc' = [proc EXCEPT ![p].pc = "applying", ![p].todo = @ \ {s},
                               ![p].written = @ \cup {s}]
       /\ UNCHANGED <<dbVars, owner, pending, crashes, lost>>

\* Docker refuses it for certain and the obligation is restored: a version
\* conflict is tried again, anything else ends the attempt.
Reject(p) ==
    LET s == NextService(p)
        names == deployments[proc[p].d].verification.unresolved
    IN /\ proc[p].pc = "recorded"
       /\ IsRunning(proc[p].d, proc[p].n)
       /\ Noted(p, IF proc[p].was THEN names ELSE names \ {s})
       /\ \/ proc' = [proc EXCEPT ![p].pc = "applying"]
          \/ \E retryable \in BOOLEAN :
                Conclude(p, "apply_failed", retryable, Known(proc[p].inherited \cup proc[p].written))
       /\ UNCHANGED <<baseline, owner, pending, unproven, crashes, lost>>

\* It is refused but restoring the obligation fails.
RejectUnrestored(p) ==
    /\ proc[p].pc = "recorded"
    /\ \E retryable \in BOOLEAN :
          Conclude(p, "apply_failed", retryable,
             Known(proc[p].inherited \cup proc[p].written \cup {NextService(p)}))
    /\ UNCHANGED <<dbVars, owner, pending, unproven, crashes, lost>>

\* Apply ends with an error that says nothing about the last write, which
\* Docker may have accepted; or updates are blocked by running tasks.
FailApply(p) ==
    /\ proc[p].pc \in {"applying", "recorded"}
    /\ \/ UNCHANGED unproven
       \/ proc[p].todo # {} /\ unproven' = unproven \cup {NextService(p)}
    /\ \E retryable \in BOOLEAN : Conclude(p, "apply_failed", retryable, Unknown)
    /\ UNCHANGED <<dbVars, owner, pending, crashes, lost>>

ApplyDone(p) ==
    /\ proc[p].pc = "applying" /\ proc[p].todo = {}
    /\ proc' = [proc EXCEPT ![p].pc = "verifying"]
    /\ UNCHANGED <<dbVars, owner, pending, unproven, crashes, lost>>

\* What waitForStack asks the waiter to verify.
VerifiedNames(p) ==
    proc[p].written \cup proc[p].inherited \cup (IF proc[p].n > 1 THEN Desired(p) ELSE {})

\* The waiter proves convergence of all names but left.
Wait(p) ==
    /\ proc[p].pc = "verifying"
    /\ \E left \in SUBSET VerifiedNames(p) :
          /\ unproven' = unproven \ (VerifiedNames(p) \ left)
          /\ IF left = {}
               THEN proc' = [proc EXCEPT ![p].pc = "observing"]
               ELSE \/ Conclude(p, "convergence_failed", FALSE, Known(left))
                    \/ Conclude(p, "verification_interrupted", TRUE, Known(left))
    /\ UNCHANGED <<dbVars, owner, pending, crashes, lost>>

\* The deadline rejects a late success, live state cannot be read, pruning
\* fails, or all is done.
Observe(p) ==
    /\ proc[p].pc = "observing"
    /\ \/ \E retryable \in BOOLEAN : Conclude(p, "apply_failed", retryable, Known({}))
       \/ Conclude(p, "verification_interrupted", TRUE, Known({}))
       \/ \E retryable \in BOOLEAN : Conclude(p, "cleanup_failed", retryable, Known({}))
       \/ Conclude(p, "succeeded", FALSE, Unknown)
    /\ UNCHANGED <<dbVars, owner, pending, unproven, crashes, lost>>

\* Controller.complete: the completion is persisted, or kept in memory when
\* the transaction returns an error, whether or not it committed.
Persist(p) ==
    LET c == proc[p].result
    IN /\ proc[p].pc = "completing"
       /\ \/ /\ Complete(c)
             /\ pending' = [pending EXCEPT ![p] = NoCompletion]
             /\ UNCHANGED lost
          \/ /\ UNCHANGED <<dbVars, lost>>
             /\ pending' = [pending EXCEPT ![p] = c]
          \/ /\ lost < MaxLost /\ lost' = lost + 1
             /\ Complete(c)
             /\ pending' = [pending EXCEPT ![p] = c]
       /\ proc' = [proc EXCEPT ![p] = Resting("idle")]
       /\ UNCHANGED <<owner, unproven, crashes>>

-----------------------------------------------------------------------------
Deploy(p) ==
    \/ FailBeforeApply(p) \/ BeginApply(p) \/ Inspect(p) \/ RecordUpdateGeneration(p)
    \/ Update(p) \/ Reject(p) \/ RejectUnrestored(p) \/ FailApply(p) \/ ApplyDone(p)
    \/ Wait(p) \/ Observe(p) \/ Persist(p)

Execute(p) ==
    \/ RecoverPending(p)
    \/ \E definition \in Definitions, manual, sourceChanged, acknowledged \in BOOLEAN :
          Start(p, definition, manual, sourceChanged, acknowledged)

Next ==
    \/ BackoffElapses
    \/ \E p \in Processes :
          Boot(p) \/ Acquire(p) \/ Recover(p) \/ Shutdown(p) \/ Crash(p)
          \/ Execute(p) \/ Deploy(p)

Spec == Init /\ [][Next]_vars

-----------------------------------------------------------------------------
LifecycleTypeOK ==
    /\ \A d \in DOMAIN deployments : LET row == deployments[d] IN
          /\ row.desired \in Definitions /\ row.status \in Statuses
          /\ row.retryable \in BOOLEAN /\ row.due \in BOOLEAN
          /\ row.verification.known \in BOOLEAN
          /\ row.verification.unresolved \subseteq Services
          /\ row.attempts \in Seq(Statuses) /\ row.announced \in Seq(Nat)
    /\ baseline \in 0..Len(deployments)
    /\ owner \in Processes \cup {None}
    /\ \A p \in Processes :
          /\ proc[p].pc \in Executing \cup {"down", "waiting", "recovering", "idle"}
          /\ proc[p].d \in 0..Len(deployments)
          /\ proc[p].todo \cup proc[p].written \cup proc[p].inherited \subseteq Services
          /\ pending[p].outcome \in Outcomes
    /\ unproven \subseteq Services

\* A row shows its latest attempt, and every earlier attempt ended without success.
ProjectionAgrees ==
    \A d \in DOMAIN deployments : LET row == deployments[d] IN
        /\ row.attempts # <<>>
        /\ row.status = row.attempts[Len(row.attempts)]
        /\ \A n \in 1..(Len(row.attempts) - 1) : row.attempts[n] \in {"failed", "interrupted"}

(***************************************************************************)
(* The rows agree with each other: whatever supersedes, retries, recovers  *)
(* or completes late (startPrepared, complete, interruptAttempts), each    *)
(* deployment shows its latest attempt and only the newest can be running, *)
(* so that a stack has one running attempt at most.                        *)
(***************************************************************************)
LifecycleInvariant ==
    /\ LifecycleTypeOK
    /\ ProjectionAgrees
    /\ \A d \in DOMAIN deployments : deployments[d].status = "running" => d = Len(deployments)

(***************************************************************************)
(* No rollout obligation is lost: once the newest deployment has ended,    *)
(* every service that Docker may have accepted a write for and that was    *)
(* not seen converged since is on its persisted list, through rejected and *)
(* uncertain writes, retries, superseded deployments, failed completions   *)
(* and crashes.  A successful deployment leaves none.                      *)
(***************************************************************************)
ObligationsKept ==
    deployments # <<>> /\ Current.status # "running" =>
        unproven \subseteq Current.verification.unresolved

(***************************************************************************)
(* Every attempt that ended was announced by exactly one terminal event,   *)
(* and none that still runs, although a completion may be tried again      *)
(* after a commit whose acknowledgement was lost.                          *)
(***************************************************************************)
OneTerminalEvent ==
    \A d \in DOMAIN deployments : \A n \in DOMAIN deployments[d].attempts :
        deployments[d].announced[n] = IF deployments[d].attempts[n] = "running" THEN 0 ELSE 1

(***************************************************************************)
(* The comparison baseline is the newest deployment that succeeded, never  *)
(* one that failed later or an older success saved out of order.           *)
(***************************************************************************)
BaselineIsLastSuccess ==
    /\ baseline # 0 => deployments[baseline].status = "succeeded"
    /\ \A d \in DOMAIN deployments : deployments[d].status = "succeeded" => d <= baseline

(***************************************************************************)
(* While a recovered process owns the stack, a running attempt is one that *)
(* it executes, or whose completion it still has to persist: no attempt is *)
(* left running that nobody will end.  (A start whose acknowledgement was  *)
(* lost is the exception; it is ended by the next definition or restart.)  *)
(***************************************************************************)
RunningIsDriven ==
    lost = 0 /\ owner # None /\ proc[owner].pc # "recovering" =>
        \A d \in DOMAIN deployments : deployments[d].status = "running" =>
            \/ proc[owner].pc \in Executing /\ proc[owner].d = d
            \/ proc[owner].pc = "idle" /\ pending[owner].d = d

(***************************************************************************)
(* An attempt that a live process executes is ended by that process only:  *)
(* recovery in a second process never interrupts it, because ownership is  *)
(* released only after the operations have ended.                          *)
(***************************************************************************)
EndedByItsProcess ==
    \A p \in Processes :
        LET d == proc[p].d  n == proc[p].n
        IN /\ proc[p].pc \in Executing
           /\ deployments'[d].attempts[n] # deployments[d].attempts[n]
           => proc[p].pc = "completing" /\ proc'[p].pc = "idle"

LiveAttemptUndisturbed == [][EndedByItsProcess]_vars
=============================================================================
