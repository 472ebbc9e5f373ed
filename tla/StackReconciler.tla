--------------------------- MODULE StackReconciler ---------------------------
(***************************************************************************)
(* The reconciliation of one stack: deploy when the definition changed,    *)
(* otherwise observe Swarm, repair drifted services, verify, and record    *)
(* the result together with the drift events it gives rise to.             *)
(*                                                                         *)
(* Reconciliations of a stack never overlap (StackQueue), but each is a    *)
(* sequence of steps with Docker calls between them, during which Swarm    *)
(* changes, the completion of a deployment is projected into the same      *)
(* runtime state by the outbox, and the process may die.                   *)
(***************************************************************************)
EXTENDS Naturals

CONSTANTS
    Services,      \* names of services
    Definitions,   \* Compose definitions: functions from service names to replica counts
    Counts,        \* the live replica counts of each service, with Missing when it is not there
    Missing,
    Compared,      \* services whose replica count takes part in drift detection
    SelfHeal,      \* services whose self-heal policy is enabled
    Unreliable     \* whether transactions of the reconciler fail and the process dies

ASSUME ReconcilerConstants ==
    /\ Unreliable \in BOOLEAN
    /\ \A s \in Services : Missing \in Counts[s]
    /\ \A d \in Definitions :
          /\ DOMAIN d \subseteq Services
          /\ \A s \in DOMAIN d : d[s] \in Counts[s] \ {Missing}

VARIABLES
    live,        \* Swarm: the replica count of each service
    latest,      \* the latest Deployment of the stack
    completion,  \* undelivered completion event of its latest Attempt, or "none"
    stack,       \* the persisted runtime state of the stack
    rec,         \* the reconciliation in progress with its payload
    said,        \* observer: the last drift event published for each service
    unconfirmed  \* observer: services whose last repair failed and that no waiter confirmed since

vars == <<live, latest, completion, stack, rec, said, unconfirmed>>

Statuses == {"none", "running", "succeeded", "failed", "interrupted"}
Stages == {"idle", "execute", "deploying", "observe", "load", "heal", "verify", "persist"}

\* Open drift episodes, repairs to be confirmed, whether an error is shown.
\* StateUpdatedAt is kept as what it is compared for: settled says that the
\* state is not older than the end of the latest Attempt.
NewStack == [drifted |-> {}, pending |-> {}, lastError |-> FALSE, settled |-> FALSE]

Idle ==
    [pc |-> "idle", def |-> << >>, manual |-> FALSE, prev |-> NewStack, attempt |-> FALSE,
     deferred |-> FALSE, analyzed |-> FALSE, drift |-> {}, remaining |-> {}, todo |-> {},
     healed |-> {}, broken |-> {}]

\* The services of the definition that the reconciliation in progress has loaded.
Desired == DOMAIN rec.def

Init ==
    /\ live = [s \in Services |-> Missing]
    /\ latest = [def |-> << >>, status |-> "none", retryable |-> FALSE, protected |-> {}]
    /\ completion = "none"
    /\ stack = NewStack
    /\ rec = Idle
    /\ said = [s \in Services |-> "none"]
    /\ unconfirmed = {}

-----------------------------------------------------------------------------
(* Operators of the reconciler.                                            *)

\* Services of a definition that are missing or have another replica count.
Analyze(def, observed) ==
    {s \in DOMAIN def :
        \/ observed[s] = Missing
        \/ s \in Compared /\ observed[s] # def[s]}

\* Services whose repair was tried in this reconciliation.
Attempted == rec.healed \cup rec.broken

\* Variant: the failure replaces the state of the stack.
UnpreparedAnew == [NewStack EXCEPT !.lastError = TRUE, !.settled = TRUE]

\* Variant: the services of the definition are rebuilt without their pending repairs.
UnpreparedDropping == [stack EXCEPT !.lastError = TRUE, !.settled = TRUE, !.pending = {}]

\* The runtime state after a preparation failure.
Unprepared == [stack EXCEPT !.lastError = TRUE, !.settled = TRUE]

\* The failure is recorded in a transaction of its own, which may fail too.
recordFailure == stack' = Unprepared \/ (Unreliable /\ stack' = stack)

\* Variant: the failed Attempt forgets the open episodes.
FailedAttemptAnew ==
    [rec.prev EXCEPT !.lastError = TRUE, !.settled = TRUE, !.pending = {}, !.drifted = {}]

\* The runtime state after an Attempt that failed, built from the state read before it.
FailedAttempt ==
    [rec.prev EXCEPT !.lastError = TRUE, !.settled = TRUE, !.pending = @ \ Desired]

\* Repairs recorded as pending before this reconciliation, unless a deployment replaced them.
StillPending == IF rec.attempt THEN {} ELSE rec.prev.pending \cap Desired

\* The drift that is left when the result is recorded.
Unresolved == (rec.remaining \cup StillPending) \ rec.healed

\* Services whose state a deferred retry leaves as it was.
Protected == IF rec.deferred THEN latest.protected \cap Desired ELSE {}

\* Repairs that are pending afterwards.
PendingAfter ==
    LET free == Desired \ Protected
    IN  (rec.prev.pending \cap Protected)
        \cup (free \cap (rec.broken \cup (StillPending \ Attempted)))

\* The runtime state that a finished reconciliation records.
Result ==
    [drifted   |-> IF rec.analyzed THEN Unresolved ELSE rec.prev.drifted,
     pending   |-> PendingAfter,
     lastError |-> rec.deferred /\ rec.prev.lastError,
     settled   |-> TRUE]

\* ServiceMissed or ServiceDrifted is published for s: a new episode.
Detects(s) ==
    /\ rec.analyzed /\ s \in Desired
    /\ s \in rec.drift \cup Unresolved
    /\ s \notin rec.prev.drifted

\* ServiceDriftFixed is published for s.
Fixes(s) ==
    /\ rec.analyzed /\ s \in Desired
    /\ s \notin Unresolved
    /\ s \in rec.prev.drifted \cup rec.drift

-----------------------------------------------------------------------------
(* Surroundings: Swarm, the outbox, the process.                           *)

\* Somebody scales, removes or creates a service.
External ==
    /\ \E s \in Services : \E n \in Counts[s] : live' = [live EXCEPT ![s] = n]
    /\ UNCHANGED <<latest, completion, stack, rec, said, unconfirmed>>

\* The runtime state with the outcome of the latest Attempt projected into it.
projectRuntime == [stack EXCEPT !.lastError = latest.status # "succeeded", !.settled = TRUE]

\* Variant: a completion is projected however late it is.
ProjectLate ==
    /\ completion # "none"
    /\ completion' = "none"
    /\ stack' = projectRuntime
    /\ UNCHANGED <<live, latest, rec, said, unconfirmed>>

\* The completion event of the latest Attempt is delivered.  Those of earlier
\* Attempts change nothing and are not kept.
Project ==
    /\ completion # "none"
    /\ completion' = "none"
    /\ stack' = IF stack.settled THEN stack ELSE projectRuntime
    /\ UNCHANGED <<live, latest, rec, said, unconfirmed>>

\* An Attempt ends with a status, in one transaction with its completion event.
EndAttempt(status, retryable, protected) ==
    /\ latest' = [latest EXCEPT !.status = status, !.retryable = retryable,
                                !.protected = protected]
    /\ completion' = status

\* The process dies; before the restarted one reconciles, it interrupts the Attempt left running.
Crash ==
    /\ Unreliable
    /\ rec.pc # "idle"
    /\ rec' = Idle
    /\ IF latest.status = "running"
          THEN /\ \E protected \in SUBSET DOMAIN latest.def, r \in BOOLEAN :
                     EndAttempt("interrupted", r, protected)
               /\ stack' = [stack EXCEPT !.settled = FALSE]
          ELSE UNCHANGED <<latest, completion, stack>>
    /\ UNCHANGED <<live, said, unconfirmed>>

-----------------------------------------------------------------------------
(* The reconciliation.                                                     *)

\* Loading or preparing the definition fails.
PrepareFails ==
    /\ rec.pc = "idle"
    /\ recordFailure
    /\ UNCHANGED <<live, latest, completion, rec, said, unconfirmed>>

\* The definition is loaded and the runtime state read.
Begin(def, manual) ==
    /\ rec.pc = "idle"
    /\ rec' = [Idle EXCEPT !.pc = "execute", !.def = def, !.manual = manual, !.prev = stack]
    /\ UNCHANGED <<live, latest, completion, stack, said, unconfirmed>>

\* An Attempt is due: a changed definition, or a retry that the operator or the backoff permits.
StartsAttempt(allowed) ==
    \/ latest.status = "none"
    \/ latest.def # rec.def
    \/ /\ latest.status \in {"failed", "interrupted"}
       /\ rec.manual \/ (latest.retryable /\ allowed)

\* The pipeline fails before an Attempt exists; a deferred retry is not recorded again.
StepFails ==
    /\ rec.pc \in {"execute", "load"}
    /\ IF rec.deferred THEN UNCHANGED stack ELSE recordFailure
    /\ rec' = Idle
    /\ UNCHANGED <<live, latest, completion, said, unconfirmed>>

\* A Deployment or a further Attempt is started; services left out of a new definition are announced.
StartAttempt(allowed) ==
    /\ rec.pc = "execute"
    /\ StartsAttempt(allowed)
    /\ latest' = [def |-> rec.def, status |-> "running", retryable |-> FALSE, protected |-> {}]
    /\ completion' = "none"
    /\ rec' = [rec EXCEPT !.pc = "deploying", !.attempt = TRUE]
    /\ LET removed == DOMAIN latest.def \ Desired
       IN  /\ said' = [s \in Services |-> IF s \in removed THEN "removed" ELSE said[s]]
           /\ unconfirmed' = unconfirmed \ removed
    /\ UNCHANGED <<live, stack>>

\* Nothing to deploy.
Unchanged(allowed) ==
    /\ rec.pc = "execute"
    /\ ~StartsAttempt(allowed)
    /\ rec' = [rec EXCEPT !.pc = "load", !.deferred = latest.status \in {"failed", "interrupted"}]
    /\ UNCHANGED <<live, latest, completion, stack, said, unconfirmed>>

\* The services of Swarm after some were applied; a count that is not compared is kept.
Applied(services) ==
    [s \in Services |-> IF s \in services /\ (s \in Compared \/ live[s] = Missing)
                           THEN rec.def[s] ELSE live[s]]

\* The services were applied and waited for.
Deployed ==
    /\ rec.pc = "deploying"
    /\ live' = Applied(Desired)
    /\ rec' = [rec EXCEPT !.pc = "observe"]
    /\ unconfirmed' = unconfirmed \ Desired
    /\ UNCHANGED <<latest, completion, stack, said>>

\* Services of the stack that are pruned, as far as their policy says.
Pruned(gone) ==
    /\ gone \cap Desired = {}
    /\ live' = [s \in Services |-> IF s \in gone THEN Missing ELSE live[s]]

\* Variant: a pending repair of a service that does not differ is not confirmed.
analyzeDriftOnly(observed) ==
    LET drift == Analyze(rec.def, observed)
    IN  [rec EXCEPT !.pc = "heal", !.analyzed = TRUE, !.drift = drift, !.remaining = drift,
                    !.todo = IF rec.attempt THEN {} ELSE (drift \cap SelfHeal) \ Protected]

\* The payload after drift analysis of the services listed.  After a deployment drift is
\* looked for only on request or when an episode is open, and never repaired.
analyzeDrift(observed) ==
    LET runs  == ~rec.attempt \/ rec.manual \/ rec.prev.drifted # {}
        drift == IF runs THEN Analyze(rec.def, observed) ELSE {}
        heals == {s \in Desired \ Protected :
                     \/ s \in drift /\ s \in SelfHeal
                     \/ s \notin drift /\ s \in rec.prev.pending}
    IN  [rec EXCEPT !.pc = "heal", !.analyzed = runs, !.drift = drift, !.remaining = drift,
                    !.todo = IF rec.attempt THEN {} ELSE heals]

\* Live services are listed, orphans pruned, and the Attempt ends.
DeploySucceeds ==
    /\ rec.pc = "observe"
    /\ \E gone \in SUBSET Services : Pruned(gone)
    /\ EndAttempt("succeeded", FALSE, {})
    /\ stack' = [stack EXCEPT !.settled = FALSE]
    /\ rec' = analyzeDrift(live)
    /\ UNCHANGED <<said, unconfirmed>>

\* The deployment fails with some services applied, or listing or pruning fails after it.
\* The Attempt is over; the result is recorded from the state read at the start, if its
\* transaction succeeds.
DeployFails ==
    /\ \/ rec.pc = "deploying" /\ \E applied \in SUBSET Desired : live' = Applied(applied)
       \/ rec.pc = "observe" /\ \E gone \in SUBSET Services : Pruned(gone)
    /\ \E protected \in SUBSET Desired, retryable \in BOOLEAN :
          /\ EndAttempt("failed", retryable, protected)
          /\ \E confirmed \in SUBSET (Desired \ protected) : unconfirmed' = unconfirmed \ confirmed
    /\ \/ stack' = FailedAttempt
       \/ Unreliable /\ stack' = [stack EXCEPT !.settled = FALSE]
    /\ rec' = Idle
    /\ UNCHANGED said

\* Live services are listed, and services that are no longer desired pruned
\* as far as their policy says.
LoadAndPrune ==
    /\ rec.pc = "load"
    /\ \E gone \in SUBSET Services : Pruned(gone) /\ (rec.deferred => gone = {})
    /\ rec' = analyzeDrift(live)
    /\ UNCHANGED <<latest, completion, stack, said, unconfirmed>>

\* One service is reapplied, or only waited for when its configuration already agrees.
\* An error leaves open whether the change was applied.
HealService(s, ok) ==
    /\ rec.pc = "heal" /\ s \in rec.todo
    /\ live' \in (IF s \in rec.drift THEN {Applied({s})} ELSE {}) \cup
                  (IF s \in rec.drift /\ ok THEN {} ELSE {live})
    /\ rec' = IF ok THEN [rec EXCEPT !.todo = @ \ {s}, !.healed = @ \cup {s}]
                    ELSE [rec EXCEPT !.todo = @ \ {s}, !.broken = @ \cup {s}]
    /\ unconfirmed' = IF ok THEN unconfirmed \ {s} ELSE unconfirmed \cup {s}
    /\ UNCHANGED <<latest, completion, stack, said>>

HealDone ==
    /\ rec.pc = "heal" /\ rec.todo = {}
    /\ rec' = [rec EXCEPT !.pc = IF Attempted = {} THEN "persist" ELSE "verify"]
    /\ UNCHANGED <<live, latest, completion, stack, said, unconfirmed>>

\* Variant: agreement of the configuration ends a failed repair's episode.
applyVerifiedDriftOnly ==
    LET found == Analyze(rec.def, live)
    IN  [rec EXCEPT !.pc = "persist", !.healed = @ \ found, !.broken = @ \cup (rec.healed \cap found),
                    !.remaining = found]

\* The repairs are verified against a fresh listing of the whole stack.
applyVerifiedDrift ==
    LET found == Analyze(rec.def, live)
    IN  [rec EXCEPT !.pc = "persist", !.healed = @ \ found, !.broken = @ \cup (rec.healed \cap found),
                    !.remaining = found \cup rec.broken]

\* The verifying read failed: no repair counts as converged.
markVerificationFailed ==
    [rec EXCEPT !.pc = "persist", !.healed = {}, !.broken = Attempted,
                !.remaining = @ \cup Attempted]

VerifySelfHeal(ok) ==
    /\ rec.pc = "verify"
    /\ rec' = IF ok THEN applyVerifiedDrift ELSE markVerificationFailed
    /\ UNCHANGED <<live, latest, completion, stack, said, unconfirmed>>

\* The result and the drift events are recorded in one transaction.
PersistResult ==
    /\ rec.pc = "persist"
    /\ stack' = Result
    /\ said' = [s \in Services |-> IF Fixes(s) THEN "fixed"
                                   ELSE IF Detects(s) THEN "detected" ELSE said[s]]
    /\ rec' = Idle
    /\ UNCHANGED <<live, latest, completion, unconfirmed>>

PersistFails ==
    /\ Unreliable
    /\ rec.pc = "persist"
    /\ rec' = Idle
    /\ UNCHANGED <<live, latest, completion, stack, said, unconfirmed>>

Pipeline ==
    \/ \E allowed \in BOOLEAN : StartAttempt(allowed) \/ Unchanged(allowed)
    \/ Deployed \/ DeploySucceeds \/ DeployFails \/ StepFails
    \/ LoadAndPrune \/ HealDone
    \/ \E s \in Services, ok \in BOOLEAN : HealService(s, ok)
    \/ \E ok \in BOOLEAN : VerifySelfHeal(ok)
    \/ PersistResult \/ PersistFails

Next ==
    \/ External \/ Project \/ Crash
    \/ PrepareFails \/ \E def \in Definitions, manual \in BOOLEAN : Begin(def, manual)
    \/ Pipeline

Spec == Init /\ [][Next]_vars

\* The queue runs the stack again after every interval, and Docker calls have deadlines.
FairSpec ==
    /\ Spec
    /\ WF_vars(\E def \in Definitions, manual \in BOOLEAN : Begin(def, manual))
    /\ WF_vars(Pipeline)

-----------------------------------------------------------------------------
(* Properties.                                                             *)

ReconcilerTypeOK ==
    /\ \A s \in Services : live[s] \in Counts[s]
    /\ latest.status \in Statuses
    /\ latest.protected \subseteq DOMAIN latest.def
    /\ completion \in {"none", "succeeded", "failed", "interrupted"}
    /\ stack \in [drifted : SUBSET Services, pending : SUBSET Services,
                  lastError : BOOLEAN, settled : BOOLEAN]
    /\ rec.pc \in Stages
    /\ rec.healed \cup rec.broken \cup rec.todo \cup rec.remaining \subseteq Desired
    /\ said \in [Services -> {"none", "detected", "fixed", "removed"}]
    /\ unconfirmed \subseteq Services

(***************************************************************************)
(* A repeated observation of an unresolved episode is not announced again: *)
(* when a reconciliation is about to announce drift of a service, the last *)
(* announcement for it was not still open, whatever reconciliations, failed*)
(* deployments, lost transactions and crashes lie between the two.         *)
(***************************************************************************)
OneAnnouncementPerEpisode ==
    rec.pc = "persist" => \A s \in Services : Detects(s) => said[s] # "detected"

(***************************************************************************)
(* What was announced and not closed is still recorded as an open episode, *)
(* so a later reconciliation will close it: no alert is left that nothing  *)
(* will resolve.                                                           *)
(***************************************************************************)
AnnouncedIsRecorded ==
    \A s \in Services : said[s] = "detected" => s \in stack.drifted

(***************************************************************************)
(* A repair recorded as pending keeps its drift episode open: the runtime  *)
(* state never shows a service as free of drift while a repair of it is    *)
(* still to be confirmed.                                                  *)
(***************************************************************************)
PendingKeepsEpisode == stack.pending \subseteq stack.drifted

(***************************************************************************)
(* A repair recorded as pending stays so until a waiter confirmed the      *)
(* service or a result is recorded for a definition without it: neither a  *)
(* failed preparation, a projected completion, a crash nor a deferred      *)
(* retry drops it, in the middle of a reconciliation or between two.  The  *)
(* exception is a deployment that fails (FailedAttempt).                   *)
(***************************************************************************)
PendingUntilConverged ==
    [][\A s \in stack.pending \ stack'.pending :
          \/ s \notin unconfirmed
          \/ rec.pc = "persist" /\ s \notin Desired
          \/ rec.pc \in {"deploying", "observe"} /\ latest'.status = "failed"]_vars

(***************************************************************************)
(* An error that the stack shows is cleared only by success: the result of *)
(* a reconciliation on top of a successful Deployment, or the completion   *)
(* of a successful Attempt that ended after the error was recorded, never  *)
(* by one that is delivered late.  The exception is a deferred retry that  *)
(* began before the error was projected and writes back what it had read.  *)
(***************************************************************************)
ErrorClearedBySuccess ==
    [][stack.lastError /\ ~stack'.lastError =>
          \/ latest.status = "succeeded" /\ (rec.pc = "persist" \/ ~stack.settled)
          \/ rec.deferred /\ ~rec.prev.lastError]_vars

\* Somebody interferes with the stack, or a step fails.
Disturbance ==
    \/ External \/ Crash \/ PersistFails \/ StepFails \/ DeployFails \/ VerifySelfHeal(FALSE)
    \/ \E s \in Services : HealService(s, FALSE)

(***************************************************************************)
(* Once nobody interferes and nothing fails any more, and the latest       *)
(* deployment is not one whose retry waits for an operator, the drift of   *)
(* every service under self-heal is repaired, recorded as repaired and     *)
(* announced as fixed, whatever the failed repairs and crashes before.     *)
(***************************************************************************)
DriftIsHealed ==
    <>[][~Disturbance]_vars /\ <>[](latest.status \in {"running", "succeeded"})
        => <>[](\A s \in SelfHeal : said[s] # "detected" /\ s \notin stack.pending)
==============================================================================
