-------------------------- MODULE GitOpsController --------------------------
(***************************************************************************)
(* The GitOps control loop: the scheduler that serializes triggers         *)
(* (controller/scheduler), the sync run it executes (controller/syncrun,   *)
(* stackplan, gitpull, configstore) and the stack queue whose workers run  *)
(* at the same time (StackQueue), from process start to graceful shutdown  *)
(* (controller/controller.go), with crashes and restarts of the process.   *)
(*                                                                         *)
(* A run is one goroutine that calls the queue between slow steps (Git,    *)
(* configuration, networks, the state database), so every such call is an  *)
(* action of its own and the workers and outside callers interleave with   *)
(* it.  What a stack operation does is the subject of other modules; here  *)
(* it takes some time and ends.                                            *)
(***************************************************************************)
EXTENDS StackQueue

CONSTANTS
    ConfigOf,       \* stacks configured at a revision, in order
    Touched,        \* stacks whose compose file a revision changes
    PathRank,       \* place of a stack's compose file in a diff
    PollEnabled,    \* sync.mode is pull or hybrid
    CleanupEnabled, \* resourceRotation.cleanup.enabled
    Requests,       \* triggers outside callers use: manual, webhook
    MaxPushes,      \* bound: moves of the remote branch
    MaxRestarts     \* bound: crashes of the process

NoRevision == 0

ASSUME RevisionsAreNumbered == Revisions \subseteq Nat \ {NoRevision}
ASSUME ConfigsAreLists == ConfigOf \in [Revisions -> RequestLists]
ASSUME TouchedAreSets == Touched \in [Revisions -> SUBSET Stacks]
ASSUME PathRanks == PathRank \in [Stacks -> Nat]
ASSUME Switches == PollEnabled \in BOOLEAN /\ CleanupEnabled \in BOOLEAN
ASSUME RequestsAreTriggers == Requests \subseteq {"manual", "webhook"}
ASSUME Bounds == MaxPushes \in Nat /\ MaxRestarts \in Nat

VARIABLES
    remote,     \* revision of the configured branch at origin
    head,       \* HEAD of the local clone and its worktree
    accepted,   \* revision whose configuration the store accepted last
    slot,       \* the scheduler's single-slot task channel
    shutdown,   \* Scheduler.shutdown
    pc,         \* what the controller goroutine is about to do
    run,        \* the sync run in progress
    todo,       \* stacks the cleanup tick has still to submit
    dispatch,   \* Runner.lastDispatch
    gitRevision,\* persisted Runtime.GitRevision
    pushes, restarts

ctlVars == <<remote, head, accepted, slot, shutdown, pc, run, todo, dispatch,
             gitRevision, pushes, restarts>>
vars == <<queueVars, ctlVars>>

Reasons == {"startup", "manual", "webhook", "interval", "poll"}
NoTask == "none"

NoRun == [reason |-> NoTask, old |-> NoRevision, new |-> NoRevision,
          stacks |-> <<>>, changed |-> {}]
NoDispatch == [rev |-> NoRevision, stacks |-> <<>>]

Init ==
    /\ New
    /\ remote \in Revisions /\ head = remote
    /\ accepted = NoRevision
    /\ slot = NoTask /\ shutdown = FALSE /\ pc = "down"
    /\ run = NoRun /\ todo = <<>> /\ dispatch = NoDispatch
    /\ gitRevision = NoRevision
    /\ pushes = 0 /\ restarts = 0

-----------------------------------------------------------------------------
(* Outside the process: the remote branch moves, forced pushes included.   *)

Push ==
    /\ pushes < MaxPushes
    /\ \E r \in Revisions \ {remote} : remote' = r
    /\ pushes' = pushes + 1
    /\ UNCHANGED <<queueVars, head, accepted, slot, shutdown, pc, run, todo,
                   dispatch, gitRevision, restarts>>

-----------------------------------------------------------------------------
(* Process start, shutdown and crash.                                      *)

\* Ownership is acquired and orphans are recovered; the workers start and
\* the scheduler queues the startup task.
Boot ==
    /\ pc = "down" /\ ~shutdown
    /\ Start
    /\ slot' = "startup"
    /\ pc' = "idle"
    /\ UNCHANGED <<remote, head, accepted, shutdown, run, todo, dispatch, gitRevision,
                   pushes, restarts>>

\* The wait for ownership is cancelled.
BootCancelled ==
    /\ pc = "down" /\ shutdown
    /\ pc' = "released"
    /\ UNCHANGED <<queueVars, remote, head, accepted, slot, shutdown, run, todo,
                   dispatch, gitRevision, pushes, restarts>>

Shutdown ==
    /\ ~shutdown
    /\ shutdown' = TRUE
    /\ UNCHANGED <<queueVars, remote, head, accepted, slot, pc, run, todo,
                   dispatch, gitRevision, pushes, restarts>>

\* Scheduler.Run returns between two tasks and the deferred Stop follows.
StopStacks ==
    /\ pc = "idle" /\ shutdown
    /\ Stop
    /\ pc' = "draining"
    /\ UNCHANGED <<remote, head, accepted, slot, shutdown, run, todo, dispatch,
                   gitRevision, pushes, restarts>>

\* Variant: ownership is released without waiting for the workers.
ReleaseEarly ==
    /\ pc = "draining"
    /\ pc' = "released"
    /\ UNCHANGED <<queueVars, remote, head, accepted, slot, shutdown, run, todo,
                   dispatch, gitRevision, pushes, restarts>>

\* Stop's wait ends and the ownership lock is released.
Release ==
    /\ pc = "draining" /\ Drained
    /\ pc' = "released"
    /\ UNCHANGED <<queueVars, remote, head, accepted, slot, shutdown, run, todo,
                   dispatch, gitRevision, pushes, restarts>>

\* Everything in memory is lost; the clone and the state database stay.
Crash ==
    /\ restarts < MaxRestarts
    /\ pc \notin {"down", "released"}
    /\ restarts' = restarts + 1
    /\ ready' = <<>> /\ pending' = EmptyMap /\ running' = EmptyMap
    /\ changedAfterFailure' = {} /\ paused' = FALSE /\ started' = FALSE
    /\ stopped' = FALSE /\ idle' = TRUE
    /\ awake' = {} /\ asleep' = {} /\ executing' = EmptyMap
    /\ accepted' = NoRevision /\ slot' = NoTask /\ shutdown' = FALSE
    /\ pc' = "down" /\ run' = NoRun /\ todo' = <<>> /\ dispatch' = NoDispatch
    /\ UNCHANGED <<remote, head, gitRevision, pushes>>

-----------------------------------------------------------------------------
(* The scheduler.                                                          *)

Active == pc \notin {"down", "draining", "released"}

\* Non-blocking send into the single slot.
Schedule(reason) ==
    /\ ~shutdown /\ Active
    /\ slot = NoTask
    /\ slot' = reason
    /\ UNCHANGED <<queueVars, remote, head, accepted, shutdown, pc, run, todo,
                   dispatch, gitRevision, pushes, restarts>>

\* API and webhook callers schedule at any time, the loop's own ticker only
\* between two tasks.
Request == \E reason \in Requests : Schedule(reason)

IntervalTick == pc = "idle" /\ Schedule("interval")

TakeTask ==
    /\ pc = "idle" /\ ~shutdown
    /\ slot # NoTask
    /\ slot' = NoTask
    /\ run' = [NoRun EXCEPT !.reason = slot]
    /\ pc' = "resolve"
    /\ UNCHANGED <<queueVars, remote, head, accepted, shutdown, todo, dispatch,
                   gitRevision, pushes, restarts>>

\* The revision that a successful pull leaves in the clone: the branch is
\* followed wherever it moved, its worktree reset to it.  A pull that fails
\* may have got as far as moving HEAD.
Pull == remote

\* Poll pulls, and starts a run only for an updated revision.
PollTick(ok) ==
    /\ PollEnabled
    /\ pc = "idle" /\ ~shutdown
    /\ IF ok /\ Pull # head
         THEN /\ run' = [NoRun EXCEPT !.reason = "poll", !.old = head, !.new = Pull]
              /\ head' = Pull
              /\ pc' = "pause"
         ELSE /\ head' \in {head, Pull}
              /\ UNCHANGED <<run, pc>>
    /\ UNCHANGED <<queueVars, remote, accepted, slot, shutdown, todo, dispatch,
                   gitRevision, pushes, restarts>>

CleanupTick ==
    /\ CleanupEnabled
    /\ pc = "idle" /\ ~shutdown
    /\ dispatch # NoDispatch /\ dispatch.stacks # <<>>
    /\ todo' = dispatch.stacks
    /\ pc' = "cleanup"
    /\ UNCHANGED <<queueVars, remote, head, accepted, slot, shutdown, run,
                   dispatch, gitRevision, pushes, restarts>>

\* One SubmitCleanup call; a busy stack is skipped.
CleanupStack ==
    /\ pc = "cleanup"
    /\ IF CanSubmitCleanup(Head(todo))
         THEN SubmitCleanup(Head(todo), dispatch.rev)
         ELSE UNCHANGED queueVars
    /\ todo' = Tail(todo)
    /\ pc' = IF Tail(todo) = <<>> THEN "idle" ELSE "cleanup"
    /\ UNCHANGED <<remote, head, accepted, slot, shutdown, run, dispatch, gitRevision,
                   pushes, restarts>>

-----------------------------------------------------------------------------
(* The sync run.  ok is FALSE when the step fails.  A failed stage keeps   *)
(* GitRevision and goes on to the deferred Resume; the result and error    *)
(* text it writes for display are read by nothing here and left out.       *)

\* publishManualSync and resolveGitState: a periodic run keeps the clone as it is.
ResolveGit(ok) ==
    /\ pc = "resolve"
    /\ LET new == IF run.reason = "interval" THEN head ELSE Pull
       IN IF ok
            THEN /\ run' = [run EXCEPT !.old = head, !.new = new]
                 /\ head' = new
                 /\ pc' = "pause"
            ELSE /\ head' \in {head, new}
                 /\ run' = NoRun
                 /\ pc' = "idle"
    /\ UNCHANGED <<queueVars, remote, accepted, slot, shutdown, todo, dispatch,
                   gitRevision, pushes, restarts>>

\* Pause cannot be refused here: only StopStacks, between runs, stops the queue.
PauseStacks ==
    /\ pc = "pause"
    /\ Pause
    /\ pc' = "reload"
    /\ UNCHANGED <<remote, head, accepted, slot, shutdown, run, todo, dispatch,
                   gitRevision, pushes, restarts>>

\* Stacks of the configuration at new whose compose file differs from old.
Diff(old, new) ==
    {s \in Image(ConfigOf[new]) : \E r \in Revisions :
        s \in Touched[r] /\ ((old < r /\ r <= new) \/ (new < r /\ r <= old))}

\* The configured stacks, changed ones first in diff order.
Plan(config, changed) ==
    CHOOSE order \in Orderings(Image(config)) :
        \A i, j \in DOMAIN order : i < j =>
            LET a == order[i]  b == order[j]
            IN \/ a \in changed /\ b \notin changed
               \/ a \in changed /\ b \in changed /\ PathRank[a] < PathRank[b]
               \/ /\ a \in changed <=> b \in changed
                  /\ a \in changed => PathRank[a] = PathRank[b]
                  /\ Precedes(config, a, b)

\* Variant: the stacks of the last dispatch stay known.
ReloadRemembering(ok) ==
    /\ pc = "reload"
    /\ IF ok
         THEN /\ accepted' = run.new
              /\ run' = [run EXCEPT !.stacks = ConfigOf[run.new]]
              /\ pc' = "networks"
         ELSE pc' = "resume" /\ UNCHANGED <<accepted, run>>
    /\ UNCHANGED <<queueVars, remote, head, slot, shutdown, todo, dispatch,
                   gitRevision, pushes, restarts>>

\* Reload, invalidateDispatch and Plan.  The diff is only computed for an
\* updated revision, and a failing diff leaves no stack marked.
Reload(ok) ==
    /\ pc = "reload"
    /\ IF ok
         THEN /\ accepted' = run.new
              /\ dispatch' = NoDispatch
              /\ \E changed \in {Diff(run.old, run.new), {}} :
                    run' = [run EXCEPT !.changed = changed,
                                       !.stacks = Plan(ConfigOf[run.new], changed)]
              /\ pc' = "networks"
         ELSE /\ pc' = "resume"
              /\ UNCHANGED <<accepted, dispatch, run>>
    /\ UNCHANGED <<queueVars, remote, head, slot, shutdown, todo,
                   gitRevision, pushes, restarts>>

\* Variant: a failure records the revision.
NetworksRecording(ok) ==
    /\ pc = "networks"
    /\ IF ok
         THEN pc' = "dispatch" /\ UNCHANGED <<queueVars, gitRevision>>
         ELSE Clear(run.changed) /\ pc' = "resume" /\ gitRevision' = run.new
    /\ UNCHANGED <<remote, head, accepted, slot, shutdown, run, todo, dispatch,
                   pushes, restarts>>

Networks(ok) ==
    /\ pc = "networks"
    /\ IF ok
         THEN pc' = "dispatch" /\ UNCHANGED queueVars
         ELSE /\ Clear(run.changed)
              /\ pc' = "resume"
    /\ UNCHANGED <<remote, head, accepted, slot, shutdown, run, todo, dispatch,
                   gitRevision, pushes, restarts>>

DispatchStacks ==
    /\ pc = "dispatch"
    /\ Replace(run.stacks, run.new, run.reason = "manual", run.changed)
    /\ dispatch' = [rev |-> run.new, stacks |-> run.stacks]
    /\ pc' = "record"
    /\ UNCHANGED <<remote, head, accepted, slot, shutdown, run, todo, gitRevision,
                   pushes, restarts>>

Record(ok) ==
    /\ pc = "record"
    /\ gitRevision' = IF ok THEN run.new ELSE gitRevision
    /\ pc' = "resume"
    /\ UNCHANGED <<queueVars, remote, head, accepted, slot, shutdown, run, todo,
                   dispatch, pushes, restarts>>

ResumeStacks ==
    /\ pc = "resume"
    /\ Resume
    /\ run' = NoRun
    /\ pc' = "idle"
    /\ UNCHANGED <<remote, head, accepted, slot, shutdown, todo, dispatch, gitRevision,
                   pushes, restarts>>

RunStep(ok) == ResolveGit(ok) \/ Reload(ok) \/ Networks(ok) \/ Record(ok)

-----------------------------------------------------------------------------
(* The queue's workers.                                                    *)

Admission(w) == (Sleep(w) \/ Exit(w) \/ Take(w)) /\ UNCHANGED ctlVars

FinishOperation(w) == Finish(w) /\ UNCHANGED ctlVars

-----------------------------------------------------------------------------
Controller ==
    \/ Boot \/ BootCancelled \/ StopStacks \/ Release
    \/ IntervalTick \/ TakeTask \/ CleanupTick \/ CleanupStack
    \/ PauseStacks \/ DispatchStacks \/ ResumeStacks
    \/ \E ok \in BOOLEAN : PollTick(ok) \/ RunStep(ok)

ControlNext ==
    \/ Push \/ Request \/ Shutdown \/ Crash
    \/ Controller
    \/ \E w \in Workers : Admission(w) \/ FinishOperation(w)

ControlSpec == Init /\ [][ControlNext]_vars

-----------------------------------------------------------------------------
(* Properties.                                                             *)

ControlTypeOK ==
    /\ TypeOK
    /\ remote \in Revisions /\ head \in Revisions
    /\ accepted \in Revisions \cup {NoRevision}
    /\ slot \in Reasons \cup {NoTask}
    /\ shutdown \in BOOLEAN
    /\ pc \in {"down", "idle", "resolve", "pause", "reload", "networks",
               "dispatch", "record", "resume", "cleanup", "draining", "released"}
    /\ run.reason \in Reasons \cup {NoTask} /\ run.changed \subseteq Stacks
    /\ Image(todo) \subseteq Stacks
    /\ gitRevision \in Revisions \cup {NoRevision}

\* Work that a worker may start belongs to the configuration accepted last: its stack is
\* configured there and it has that revision.
AdmittedWorkIsCurrent ==
    ~paused => \A s \in DOMAIN pending :
        /\ pending[s].rev = accepted
        /\ s \in Image(ConfigOf[accepted])

(***************************************************************************)
(* The persisted GitRevision only ever moves to the revision whose stacks  *)
(* the queue took over: a run that failed before dispatch, at whatever     *)
(* stage, never publishes its revision.                                    *)
(***************************************************************************)
RevisionRecorded == gitRevision' # gitRevision => gitRevision' = dispatch.rev

RecordedRevisionIsDispatched == [][RevisionRecorded]_vars

\* s has priority: waiting, remembered after a failed run, or planned.
Prioritized(s) ==
    \/ s \in DOMAIN pending /\ pending[s].changed
    \/ s \in changedAfterFailure
    \/ pc \in {"networks", "dispatch"} /\ s \in run.changed

\* A stack found changed keeps its priority until it runs, is no longer configured or
\* the queue or process stops.
PriorityKept ==
    \A s \in Stacks :
        Prioritized(s) /\ ~Prioritized(s)' =>
            \/ s \in DOMAIN running'
            \/ dispatch' # NoDispatch /\ s \notin Image(dispatch'.stacks)
            \/ stopped' \/ pc' = "down"

\* A waiting manual reconciliation stays manual until it starts, its stack is no longer
\* configured, a failed run drops all waiting work or the queue or process stops.
ManualKept ==
    \A s \in DOMAIN pending :
        pending[s].manual /\ ~(s \in DOMAIN pending' /\ pending'[s].manual) =>
            \/ s \in DOMAIN running' /\ running'[s].manual
            \/ dispatch' # NoDispatch /\ s \notin Image(dispatch'.stacks)
            \/ pc = "networks" /\ pc' = "resume"
            \/ stopped' \/ pc' = "down"

(***************************************************************************)
(* Waiting work keeps its marks until it starts: a stack found changed is  *)
(* not overtaken after failing runs and runs without a diff, and a manual  *)
(* request keeps its permission to retry when an automatic run supersedes  *)
(* it.                                                                     *)
(***************************************************************************)
WaitingMarksKept == [][PriorityKept /\ ManualKept]_vars

\* Ownership is released only when no operation is executing any more.
ReleasedIsQuiet == pc = "released" => executing = EmptyMap /\ awake = {}

(***************************************************************************)
(* Through failures at every stage, shutdown, crash and restart, no worker *)
(* may start work of a superseded configuration (Reload, Networks, Cleanup *)
(* and the queue's Pause and Resume together), and ownership is released   *)
(* only when nothing executes.                                             *)
(***************************************************************************)
ControlInvariant == ControlTypeOK /\ AdmittedWorkIsCurrent /\ ReleasedIsQuiet
=============================================================================
