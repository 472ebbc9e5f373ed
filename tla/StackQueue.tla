----------------------------- MODULE StackQueue -----------------------------
(***************************************************************************)
(* The stack operation queue of the GitOps controller                      *)
(* (internal/modules/gitops/controller/stackqueue/queue.go).               *)
(*                                                                         *)
(* A fixed set of workers runs at most one operation per stack.  Every     *)
(* method of the Go type takes the queue mutex for its whole body, so each *)
(* is one action here; what happens between two lock acquisitions of a     *)
(* worker (waiting on the condition variable, executing an operation) is   *)
(* visible to the other actions as a worker that is asleep or executing.   *)
(*                                                                         *)
(* Go maps are functions whose domain is the set of present keys.  A       *)
(* revision stands for a Git commit together with the stack specifications *)
(* configured at it: the code compares both, and one determines the other. *)
(***************************************************************************)
EXTENDS Integers, Sequences, FiniteSets

CONSTANTS
    Stacks,     \* stack names
    Workers,    \* the worker goroutines; max(sync.parallelism, 1) of them
    Revisions   \* Git revisions at which stacks can be queued

ASSUME StacksFinite   == IsFiniteSet(Stacks)
ASSUME WorkersFinite  == IsFiniteSet(Workers) /\ Workers # {}

VARIABLES
    ready,               \* stacks with waiting work that may start, in order
    pending,             \* waiting operation of a stack
    running,             \* operation of a stack being executed
    changedAfterFailure, \* stacks whose changed mark outlived dropped work
    paused, started, stopped,
    idle,                \* whether the idle channel is closed
    awake,               \* workers inside next() holding or wanting the mutex
    asleep,              \* workers waiting on the condition variable
    executing            \* the stack each busy worker executes

queueVars == <<ready, pending, running, changedAfterFailure, paused, started,
               stopped, idle, awake, asleep, executing>>

Operation == [kind: {"reconcile", "cleanup"}, rev: Revisions,
              manual: BOOLEAN, changed: BOOLEAN]

Image(f) == {f[x] : x \in DOMAIN f}

\* f without the key x, as Go's delete(f, x).
Without(f, x) == [y \in DOMAIN f \ {x} |-> f[y]]

\* f with x bound to v, as Go's f[x] = v.
With(f, x, v) == [y \in DOMAIN f \cup {x} |-> IF y = x THEN v ELSE f[y]]

EmptyMap == [x \in {} |-> 0]

Distinct(seq) == \A i, j \in DOMAIN seq : seq[i] = seq[j] => i = j

\* a occurs in seq, at a place before every occurrence of b.
Precedes(seq, a, b) ==
    \E i \in DOMAIN seq : seq[i] = a /\ \A j \in DOMAIN seq : seq[j] = b => i < j

\* The sequences that list every element of S once.
Orderings(S) == {q \in [1..Cardinality(S) -> S] : Image(q) = S /\ Distinct(q)}

\* seq with e inserted behind its first k elements.
InsertAfter(seq, k, e) ==
    [i \in 1..(Len(seq) + 1) |->
        IF i <= k THEN seq[i] ELSE IF i = k + 1 THEN e ELSE seq[i - 1]]

\* Every request list the runner can pass: each configured stack once.
RequestLists == UNION {Orderings(S) : S \in SUBSET Stacks}

-----------------------------------------------------------------------------
(* Steps shared by the methods.                                            *)

New ==
    /\ ready = <<>>
    /\ pending = EmptyMap
    /\ running = EmptyMap
    /\ changedAfterFailure = {}
    /\ paused = FALSE /\ started = FALSE /\ stopped = FALSE
    /\ idle = TRUE
    /\ awake = {} /\ asleep = {} /\ executing = EmptyMap

\* sync.Cond: Broadcast wakes every waiter, Signal one if there is one.
\* active is the set of workers that are awake anyway after the step.
Broadcast(active) == awake' = active \cup asleep /\ asleep' = {}

Signal(active) ==
    \/ asleep = {} /\ awake' = active /\ UNCHANGED asleep
    \/ \E w \in asleep : awake' = active \cup {w} /\ asleep' = asleep \ {w}

updateState(waiting, busy) == idle' = (waiting = {} /\ busy = {})

\* Variant: changed work waits at the end like any other.
enqueueLast(name, waiting, active) ==
    ready' = Append(ready, name) /\ Signal(active)

\* Places name, whose waiting operation is waiting[name], behind the leading
\* changed stacks if it is changed and at the end otherwise; signals a worker.
enqueue(name, waiting, active) ==
    /\ IF waiting[name].changed
         THEN \E k \in 0..Len(ready) :
                 /\ \A i \in 1..k : waiting[ready[i]].changed
                 /\ k < Len(ready) => ~waiting[ready[k + 1]].changed
                 /\ ready' = InsertAfter(ready, k, name)
         ELSE ready' = Append(ready, name)
    /\ Signal(active)

\* Variant: the manual mark is not inherited.
SupersedingAutomatic(name, rev, manual, changed) ==
    [kind |-> "reconcile", rev |-> rev, manual |-> manual,
     changed |-> \/ name \in changed \cup changedAfterFailure
                 \/ name \in DOMAIN pending /\ pending[name].changed]

\* The operation that a request for name leaves waiting: it inherits the
\* changed mark of what it supersedes, and the manual mark of a reconciliation.
Superseding(name, rev, manual, changed) ==
    LET waits == name \in DOMAIN pending
    IN [kind    |-> "reconcile",
        rev     |-> rev,
        manual  |-> manual \/ (waits /\ pending[name].kind = "reconcile"
                                     /\ pending[name].manual),
        changed |-> \/ name \in changed \cup changedAfterFailure
                    \/ waits /\ pending[name].changed]

\* A running reconciliation already applies what op asks for.
AlreadyApplying(name, op) ==
    /\ name \in DOMAIN running
    /\ running[name].kind = "reconcile"
    /\ running[name].rev = op.rev
    /\ ~op.manual

\* Variant: every dispatch starts over with the order of its own requests.
GoesBeforeAnew(a, b, waiting, reqs) ==
    IF waiting[a].changed # waiting[b].changed
      THEN waiting[a].changed
      ELSE Precedes(reqs, a, b)

\* Whether a goes before b in the rebuilt ready list: changed stacks first; in
\* each group the stacks already ready, in their order, then the requested ones.
GoesBefore(a, b, waiting, reqs) ==
    IF waiting[a].changed # waiting[b].changed
      THEN waiting[a].changed
      ELSE IF a \in Image(ready)
             THEN Precedes(ready, a, b)
             ELSE b \notin Image(ready) /\ Precedes(reqs, a, b)

rebuildReady(waiting, reqs) ==
    /\ \E order \in Orderings(DOMAIN waiting \ DOMAIN running) :
          /\ \A i, j \in DOMAIN order :
                i < j => GoesBefore(order[i], order[j], waiting, reqs)
          /\ ready' = order
    /\ Broadcast(awake)

-----------------------------------------------------------------------------
(* The methods.                                                            *)

Start ==
    /\ ~started /\ ~stopped
    /\ started' = TRUE
    /\ awake' = Workers
    /\ UNCHANGED <<ready, pending, running, changedAfterFailure, paused,
                   stopped, idle, asleep, executing>>

\* Variant: sleeping workers are not woken.
StopSilently ==
    /\ stopped' = TRUE
    /\ ready' = <<>>
    /\ pending' = EmptyMap
    /\ changedAfterFailure' = {}
    /\ updateState({}, DOMAIN running)
    /\ UNCHANGED <<running, paused, started, awake, asleep, executing>>

\* The locked part of Stop; its Wait for the workers is Drained.
Stop ==
    /\ stopped' = TRUE
    /\ ready' = <<>>
    /\ pending' = EmptyMap
    /\ changedAfterFailure' = {}
    /\ updateState({}, DOMAIN running)
    /\ Broadcast(awake)
    /\ UNCHANGED <<running, paused, started, executing>>

Drained == awake = {} /\ asleep = {} /\ executing = EmptyMap

Pause ==
    /\ ~stopped
    /\ paused' = TRUE
    /\ UNCHANGED <<ready, pending, running, changedAfterFailure, started,
                   stopped, idle, awake, asleep, executing>>

\* Variant: sleeping workers are not woken.
ResumeSilently ==
    /\ paused' = FALSE
    /\ UNCHANGED <<ready, pending, running, changedAfterFailure, started,
                   stopped, idle, awake, asleep, executing>>

Resume ==
    /\ paused' = FALSE
    /\ Broadcast(awake)
    /\ UNCHANGED <<ready, pending, running, changedAfterFailure, started,
                   stopped, idle, executing>>

Replace(reqs, rev, manual, changed) ==
    LET op(s)   == Superseding(s, rev, manual, changed)
        waiting == [s \in {t \in Image(reqs) : ~AlreadyApplying(t, op(t))} |-> op(s)]
    IN /\ ~stopped
       /\ pending' = waiting
       /\ changedAfterFailure' = {}
       /\ rebuildReady(waiting, reqs)
       /\ updateState(DOMAIN waiting, DOMAIN running)
       /\ UNCHANGED <<running, paused, started, stopped, executing>>

\* dropLocked for all stacks: nothing waits any more.
drop ==
    /\ pending' = EmptyMap
    /\ ready' = IF pending = EmptyMap THEN ready ELSE <<>>

\* Variant: the marks of dropped work are lost.
ClearForgetting(changed) ==
    /\ changedAfterFailure' = changedAfterFailure \cup changed
    /\ pending' = EmptyMap
    /\ ready' = <<>>
    /\ updateState({}, DOMAIN running)
    /\ UNCHANGED <<running, paused, started, stopped, awake, asleep, executing>>

Clear(changed) ==
    /\ changedAfterFailure' = changedAfterFailure \cup changed \cup
          {s \in DOMAIN pending : pending[s].kind = "reconcile" /\ pending[s].changed}
    /\ drop
    /\ updateState({}, DOMAIN running)
    /\ UNCHANGED <<running, paused, started, stopped, awake, asleep, executing>>

\* A stack is idle enough for a periodic cleanup to be queued.
CanSubmitCleanup(name) ==
    /\ ~stopped /\ ~paused
    /\ name \notin DOMAIN running \cup DOMAIN pending

SubmitCleanup(name, rev) ==
    LET op == [kind |-> "cleanup", rev |-> rev, manual |-> FALSE, changed |-> FALSE]
        waiting == With(pending, name, op)
    IN /\ CanSubmitCleanup(name)
       /\ pending' = waiting
       /\ enqueue(name, waiting, awake)
       /\ updateState(DOMAIN waiting, DOMAIN running)
       /\ UNCHANGED <<running, changedAfterFailure, paused, started, stopped,
                      executing>>

-----------------------------------------------------------------------------
(* A worker: next() either waits, ends or takes the head of the ready list *)
(* to execute it; finish() then re-admits the stack's waiting work.        *)

Sleep(w) ==
    /\ w \in awake
    /\ ready = <<>> \/ paused
    /\ ~stopped
    /\ awake' = awake \ {w}
    /\ asleep' = asleep \cup {w}
    /\ UNCHANGED <<ready, pending, running, changedAfterFailure, paused,
                   started, stopped, idle, executing>>

Exit(w) ==
    /\ w \in awake
    /\ stopped
    /\ awake' = awake \ {w}
    /\ UNCHANGED <<ready, pending, running, changedAfterFailure, paused,
                   started, stopped, idle, asleep, executing>>

\* Variant: the stack is not marked as running.
TakeUnmarked(w) ==
    /\ w \in awake
    /\ ready # <<>> /\ ~paused /\ ~stopped
    /\ ready' = Tail(ready)
    /\ pending' = Without(pending, Head(ready))
    /\ executing' = With(executing, w, Head(ready))
    /\ updateState(DOMAIN pending', DOMAIN running)
    /\ awake' = awake \ {w}
    /\ UNCHANGED <<running, changedAfterFailure, paused, started, stopped, asleep>>

Take(w) ==
    /\ w \in awake
    /\ ready # <<>> /\ ~paused /\ ~stopped
    /\ LET name == Head(ready)
       IN /\ ready' = Tail(ready)
          /\ pending' = Without(pending, name)
          /\ running' = With(running, name, pending[name])
          /\ executing' = With(executing, w, name)
    /\ updateState(DOMAIN pending', DOMAIN running')
    /\ awake' = awake \ {w}
    /\ UNCHANGED <<changedAfterFailure, paused, started, stopped, asleep>>

Finish(w) ==
    /\ w \in DOMAIN executing
    /\ LET name == executing[w]
       IN /\ running' = Without(running, name)
          /\ executing' = Without(executing, w)
          /\ IF name \in DOMAIN pending
               THEN enqueue(name, pending, awake \cup {w})
               ELSE /\ awake' = awake \cup {w}
                    /\ UNCHANGED <<ready, asleep>>
    /\ updateState(DOMAIN pending, DOMAIN running')
    /\ UNCHANGED <<pending, changedAfterFailure, paused, started, stopped>>

Worker(w) == Sleep(w) \/ Exit(w) \/ Take(w) \/ Finish(w)

-----------------------------------------------------------------------------
(* The queue with any caller: the methods in any order and interleaving.   *)

Caller ==
    \/ Start
    \/ Stop
    \/ Pause
    \/ Resume
    \/ \E reqs \in RequestLists, rev \in Revisions, manual \in BOOLEAN,
          changed \in SUBSET Stacks : Replace(reqs, rev, manual, changed)
    \/ \E changed \in SUBSET Stacks : Clear(changed)
    \/ \E s \in Stacks, rev \in Revisions : SubmitCleanup(s, rev)

Next == Caller \/ \E w \in Workers : Worker(w)

Spec == New /\ [][Next]_queueVars

-----------------------------------------------------------------------------
(* What the queue guarantees to every caller.                              *)

TypeOK ==
    /\ ready \in Seq(Stacks)
    /\ DOMAIN pending \subseteq Stacks /\ pending \in [DOMAIN pending -> Operation]
    /\ DOMAIN running \subseteq Stacks /\ running \in [DOMAIN running -> Operation]
    /\ changedAfterFailure \subseteq Stacks
    /\ paused \in BOOLEAN /\ started \in BOOLEAN /\ stopped \in BOOLEAN
    /\ idle \in BOOLEAN
    /\ awake \subseteq Workers /\ asleep \subseteq Workers
    /\ DOMAIN executing \subseteq Workers /\ executing \in [DOMAIN executing -> Stacks]

(***************************************************************************)
(* Two workers never execute operations of the same stack, and what the    *)
(* running map records is exactly what the workers execute (work(), next() *)
(* and finish() keep them together across the unlocked execution).         *)
(***************************************************************************)
OneOperationPerStack ==
    /\ \A v, w \in DOMAIN executing : executing[v] = executing[w] => v = w
    /\ Image(executing) = DOMAIN running

(***************************************************************************)
(* The ready list names, once each, exactly the stacks with waiting work   *)
(* that are not running: no waiting work is forgotten, and next() never    *)
(* takes a stack without work or one that runs (rebuildReadyLocked,        *)
(* dropLocked, enqueueLocked and finish agree).                            *)
(***************************************************************************)
ReadyIsWaiting ==
    /\ Distinct(ready)
    /\ Image(ready) = DOMAIN pending \ DOMAIN running

(***************************************************************************)
(* Work of stacks changed in Git waits before all other work, whatever mix *)
(* of Replace, finish and SubmitCleanup built the list.                    *)
(***************************************************************************)
ChangedFirst ==
    \A i, j \in DOMAIN ready :
        i < j /\ pending[ready[j]].changed => pending[ready[i]].changed

(***************************************************************************)
(* No wakeup is lost: while the queue admits work, either no worker sleeps *)
(* on the condition variable or at least as many workers are on their way  *)
(* to the ready list as it has entries.  A Signal consumed by a worker     *)
(* that finds the queue paused must be made up for by Resume.              *)
(***************************************************************************)
NoLostWakeup ==
    ~paused /\ ~stopped =>
        asleep = {} \/ Cardinality(awake) >= Len(ready)

(***************************************************************************)
(* The idle channel is closed exactly while nothing waits or runs          *)
(* (updateStateLocked is called after every change).                       *)
(***************************************************************************)
IdleTracksWork == idle = (pending = EmptyMap /\ running = EmptyMap)

(***************************************************************************)
(* First in, first out within a group: a stack already in the ready list   *)
(* is never overtaken by a stack behind it, or new in the list, that has   *)
(* the same changed mark after the step.                                   *)
(***************************************************************************)
NoOvertaking ==
    \A a, b \in Image(ready') :
        /\ a \in Image(ready) /\ a # b
        /\ b \in Image(ready) => Precedes(ready, a, b)
        /\ pending'[a].changed = pending'[b].changed
        => Precedes(ready', a, b)

FifoWithinGroup == [][NoOvertaking]_queueVars
=============================================================================
