----------------------- MODULE GitOpsControllerProofs -----------------------
(***************************************************************************)
(* The control loop, proved for any stacks, workers, revisions,            *)
(* configurations, pushes and restarts.  The first part is the stack queue *)
(* under any order of its callers.  The second is the controller: no       *)
(* worker may start work of a superseded configuration, only a dispatched  *)
(* revision is recorded, and waiting work keeps its marks; what the queue  *)
(* guarantees to any caller is taken from the first part.                  *)
(***************************************************************************)
EXTENDS GitOpsController, TLAPS, SequenceTheorems, FiniteSetTheorems, FunctionTheorems

(***************************************************************************)
(* The stack queue.                                                        *)
(***************************************************************************)

(***************************************************************************)
(* A worker is in one place: asleep, on its way to the ready list or       *)
(* executing, and none exists before Start.                                *)
(***************************************************************************)
WorkersApart ==
    /\ awake \cap asleep = {}
    /\ awake \cap DOMAIN executing = {}
    /\ asleep \cap DOMAIN executing = {}
    /\ ~started => awake = {} /\ asleep = {} /\ DOMAIN executing = {}

\* The inductive invariant.
IInv ==
    /\ TypeOK
    /\ WorkersApart
    /\ OneOperationPerStack
    /\ ReadyIsWaiting
    /\ ChangedFirst
    /\ NoLostWakeup
    /\ IdleTracksWork

\* In seq, stacks changed in waiting come before the others.
Grouped(seq, waiting) ==
    \A i, j \in DOMAIN seq :
        i < j /\ waiting[seq[j]].changed => waiting[seq[i]].changed

-----------------------------------------------------------------------------
(* The helpers on maps and sequences.                                      *)

\* A map is the empty one exactly when it has no key.
LEMMA EmptyMapFacts ==
    /\ DOMAIN EmptyMap = {}
    /\ \A S, D : \A f \in [D -> S] : f = EmptyMap <=> D = {}
BY DEF EmptyMap

\* An ordering of a finite set is a sequence that lists it without repetition.
LEMMA OrderingFacts ==
    ASSUME NEW S, IsFiniteSet(S), NEW q \in Orderings(S)
    PROVE  q \in Seq(S) /\ Image(q) = S /\ Distinct(q)
<1>1. Cardinality(S) \in Nat
  BY FS_CardinalityType
<1>2. q \in [1..Cardinality(S) -> S]
  BY DEF Orderings
<1>3. q \in Seq(S)
  BY <1>1, <1>2, SeqDef
<1> QED  BY <1>3 DEF Orderings

-----------------------------------------------------------------------------
(* The shared steps of the methods.                                        *)

\* new is seq with e inserted behind its first k elements.
Inserted(new, seq, k, e) ==
    /\ Len(new) = Len(seq) + 1
    /\ DOMAIN new = 1..(Len(seq) + 1)
    /\ \A i \in 1..(Len(seq) + 1) :
          \/ i \in 1..k /\ new[i] = seq[i]
          \/ i = k + 1 /\ new[i] = e
          \/ i \in (k + 2)..(Len(seq) + 1) /\ i - 1 \in (k + 1)..Len(seq) /\ new[i] = seq[i - 1]
    /\ \A i \in 1..k : new[i] = seq[i]
    /\ \A i \in (k + 1)..Len(seq) : new[i + 1] = seq[i]

\* Where enqueue places a stack: changed ones in front of it if it is
\* changed, unchanged ones behind it, and at the end if it is not changed.
LEMMA EnqueuePlace ==
    ASSUME NEW name \in Stacks, NEW waiting, NEW active,
           ready \in Seq(Stacks), Grouped(ready, waiting),
           enqueue(name, waiting, active)
    PROVE  \E k \in 0..Len(ready) :
              /\ ready' \in Seq(Stacks)
              /\ Inserted(ready', ready, k, name)
              /\ \A i \in 1..k : waiting[name].changed => waiting[ready[i]].changed
              /\ \A i \in (k + 1)..Len(ready) :
                    waiting[name].changed /\ ~waiting[ready[i]].changed
<1> DEFINE n == Len(ready)
<1>1. n \in Nat /\ DOMAIN ready = 1..n /\ \A i \in 1..n : ready[i] \in Stacks
  BY LenProperties, ElementOfSeq
<1>2. CASE waiting[name].changed
  <2>1. PICK k \in 0..n :
           /\ \A i \in 1..k : waiting[ready[i]].changed
           /\ k < n => ~waiting[ready[k + 1]].changed
           /\ ready' = InsertAfter(ready, k, name)
    BY <1>2 DEF enqueue
  <2>2. /\ ready' = [i \in DOMAIN ready' |-> ready'[i]]
        /\ DOMAIN ready' = 1..(n + 1)
        /\ \A i \in 1..(n + 1) :
              ready'[i] = IF i <= k THEN ready[i]
                          ELSE IF i = k + 1 THEN name ELSE ready[i - 1]
    BY <2>1 DEF InsertAfter
  <2>3. \A i \in 1..(n + 1) : ready'[i] \in Stacks
    BY <1>1, <2>2
  <2>4. ready' \in [1..(n + 1) -> Stacks]
    BY <2>2, <2>3
  <2>5. ready' \in Seq(Stacks)
    BY <1>1, <2>4, SeqDef
  <2>6. Len(ready') = n + 1
    BY <1>1, <2>2, <2>5, LenProperties
  <2>7. Inserted(ready', ready, k, name)
    BY <1>1, <2>2, <2>6 DEF Inserted
  <2>8. \A i \in (k + 1)..n : ~waiting[ready[i]].changed
    BY <1>1, <2>1 DEF Grouped
  <2> WITNESS k \in 0..Len(ready)
  <2> QED  BY <1>2, <2>1, <2>5, <2>7, <2>8
<1>3. CASE ~waiting[name].changed
  <2>1. ready' = Append(ready, name)
    BY <1>3 DEF enqueue
  <2>2. /\ ready' \in Seq(Stacks)
        /\ Len(ready') = n + 1 /\ DOMAIN ready' = 1..(n + 1)
        /\ \A i \in 1..n : ready'[i] = ready[i]
        /\ ready'[n + 1] = name
    BY <2>1, <1>1, AppendProperties, LenProperties
  <2>3. Inserted(ready', ready, n, name)
    BY <1>1, <2>2 DEF Inserted
  <2>4. Len(ready) \in 0..Len(ready)
    BY <1>1
  <2> WITNESS Len(ready) \in 0..Len(ready)
  <2> QED  BY <1>1, <1>3, <2>2, <2>3
<1> QED  BY <1>2, <1>3

\* What enqueue does to the ready list: name joins it once, and the changed
\* stacks stay in front.
LEMMA EnqueueFacts ==
    ASSUME NEW name \in Stacks, NEW waiting, NEW active,
           ready \in Seq(Stacks), Distinct(ready), name \notin Image(ready),
           Grouped(ready, waiting),
           enqueue(name, waiting, active)
    PROVE  /\ ready' \in Seq(Stacks)
           /\ Len(ready') = Len(ready) + 1
           /\ Distinct(ready')
           /\ Image(ready') = Image(ready) \cup {name}
           /\ Grouped(ready', waiting)
<1> DEFINE n == Len(ready)
<1>1. /\ n \in Nat /\ DOMAIN ready = 1..n
      /\ \A i \in 1..n : ready[i] \in Stacks /\ ready[i] # name
      /\ \A i, j \in 1..n : ready[i] = ready[j] => i = j
  BY LenProperties, ElementOfSeq DEF Image, Distinct
<1>2. PICK k \in 0..Len(ready) :
         /\ ready' \in Seq(Stacks)
         /\ Inserted(ready', ready, k, name)
         /\ \A i \in 1..k : waiting[name].changed => waiting[ready[i]].changed
         /\ \A i \in (k + 1)..Len(ready) :
               waiting[name].changed /\ ~waiting[ready[i]].changed
  BY EnqueuePlace, Zenon
<1>3. /\ \A i \in 1..k : waiting[name].changed => waiting[ready[i]].changed
      /\ \A i \in (k + 1)..n : waiting[ready[i]].changed => waiting[name].changed
  BY <1>2
<1>4. DOMAIN ready' = 1..(n + 1) /\ Len(ready') = n + 1
  BY <1>2 DEF Inserted
<1>5. \A i \in 1..(n + 1) :
         \/ i \in 1..k /\ ready'[i] = ready[i]
         \/ i = k + 1 /\ ready'[i] = name
         \/ i \in (k + 2)..(n + 1) /\ i - 1 \in (k + 1)..n /\ ready'[i] = ready[i - 1]
  BY <1>2 DEF Inserted
<1>6. Distinct(ready')
  BY <1>1, <1>4, <1>5 DEF Distinct
<1>7. Image(ready') = Image(ready) \cup {name}
  <2>1. Image(ready') \subseteq Image(ready) \cup {name}
    <3> SUFFICES ASSUME NEW i \in 1..(n + 1)
                 PROVE  ready'[i] = name \/ ready'[i] \in Image(ready)
      BY <1>4 DEF Image
    <3>1. i \in 1..k => i \in 1..n
      BY <1>1
    <3>2. i - 1 \in (k + 1)..n => i - 1 \in 1..n
      BY <1>1
    <3> QED  BY <1>1, <1>5, <3>1, <3>2 DEF Image
  <2>2. name \in Image(ready')
    <3>1. k + 1 \in 1..(n + 1) /\ k + 1 \notin 1..k /\ k + 1 \notin (k + 2)..(n + 1)
      BY <1>1
    <3> QED  BY <1>4, <1>5, <3>1 DEF Image
  <2>3. \A i \in 1..n : ready[i] \in Image(ready')
    <3> SUFFICES ASSUME NEW i \in 1..n PROVE ready[i] \in Image(ready')
      OBVIOUS
    <3>1. \/ i \in 1..k /\ i \in 1..(n + 1)
          \/ i \in (k + 1)..n /\ i + 1 \in 1..(n + 1)
      BY <1>1
    <3>2. \/ i \in 1..(n + 1) /\ ready'[i] = ready[i]
          \/ i + 1 \in 1..(n + 1) /\ ready'[i + 1] = ready[i]
      BY <1>2, <3>1 DEF Inserted
    <3> QED  BY <1>4, <3>2 DEF Image
  <2> QED  BY <1>1, <2>1, <2>2, <2>3 DEF Image
<1>8. Grouped(ready', waiting)
  <2> SUFFICES ASSUME NEW i \in 1..(n + 1), NEW j \in 1..(n + 1), i < j,
                      waiting[ready'[j]].changed
               PROVE  waiting[ready'[i]].changed
    BY <1>4 DEF Grouped
  <2>1. \A a, b \in 1..n :
           a < b /\ waiting[ready[b]].changed => waiting[ready[a]].changed
    BY <1>1 DEF Grouped
  <2>2. CASE i \in 1..k
    BY <1>1, <1>3, <1>5, <2>1, <2>2
  <2>3. CASE i \notin 1..k
    BY <1>1, <1>3, <1>5, <2>1, <2>3
  <2> QED  BY <2>2, <2>3
<1> QED  BY <1>2, <1>4, <1>6, <1>7, <1>8

\* A signal makes as many workers awake as it adds entries to the ready list,
\* unless nobody sleeps any more.
LEMMA SignalFacts ==
    ASSUME NEW active \in SUBSET Workers, asleep \subseteq Workers,
           active \cap asleep = {}, Signal(active)
    PROVE  /\ awake' \subseteq Workers /\ asleep' \subseteq Workers
           /\ awake' \cap asleep' = {}
           /\ awake' \cup asleep' = active \cup asleep
           /\ asleep' = {} \/ Cardinality(awake') = Cardinality(active) + 1
<1>1. IsFiniteSet(active)
  BY WorkersFinite, FS_Subset
<1>2. CASE asleep = {} /\ awake' = active /\ UNCHANGED asleep
  BY <1>2
<1>3. CASE \E w \in asleep : awake' = active \cup {w} /\ asleep' = asleep \ {w}
  <2>1. PICK w \in asleep : awake' = active \cup {w} /\ asleep' = asleep \ {w}
    BY <1>3
  <2>2. Cardinality(awake') = Cardinality(active) + 1
    BY <1>1, <2>1, FS_AddElement
  <2> QED  BY <2>1, <2>2
<1> QED  BY <1>2, <1>3 DEF Signal

\* What rebuildReady leaves: the stacks that wait and do not run, once each,
\* changed ones first; every sleeping worker is woken.
LEMMA RebuildFacts ==
    ASSUME NEW waiting, NEW reqs, DOMAIN waiting \subseteq Stacks,
           \A s \in DOMAIN waiting : waiting[s].changed \in BOOLEAN,
           rebuildReady(waiting, reqs)
    PROVE  /\ ready' \in Seq(Stacks)
           /\ Distinct(ready')
           /\ Image(ready') = DOMAIN waiting \ DOMAIN running
           /\ Grouped(ready', waiting)
           /\ awake' = awake \cup asleep /\ asleep' = {}
<1> DEFINE S == DOMAIN waiting \ DOMAIN running
<1>1. IsFiniteSet(S)
  BY StacksFinite, FS_Subset
<1>2. /\ ready' \in Orderings(S)
      /\ \A i, j \in DOMAIN ready' :
            i < j => GoesBefore(ready'[i], ready'[j], waiting, reqs)
  BY DEF rebuildReady
<1>3. ready' \in Seq(S) /\ Image(ready') = S /\ Distinct(ready')
  BY <1>1, <1>2, OrderingFacts
<1>4. ready' \in Seq(Stacks)
  BY <1>3, SeqMonotonic
<1>5. Grouped(ready', waiting)
  <2> SUFFICES ASSUME NEW i \in DOMAIN ready', NEW j \in DOMAIN ready', i < j,
                      waiting[ready'[j]].changed
               PROVE  waiting[ready'[i]].changed
    BY DEF Grouped
  <2>1. GoesBefore(ready'[i], ready'[j], waiting, reqs)
    BY <1>2
  <2>2. ready'[i] \in DOMAIN waiting /\ ready'[j] \in DOMAIN waiting
    BY <1>3 DEF Image
  <2> QED  BY <2>1, <2>2 DEF GoesBefore
<1> QED  BY <1>3, <1>4, <1>5 DEF rebuildReady, Broadcast

-----------------------------------------------------------------------------
(* One lemma per action whose effect is not immediate.                     *)

\* Extending a map of operations.
LEMMA WithType ==
    ASSUME NEW f, NEW S, NEW D, f \in [DOMAIN f -> S], DOMAIN f \subseteq D,
           NEW x \in D, NEW v \in S
    PROVE  /\ With(f, x, v) \in [DOMAIN With(f, x, v) -> S]
           /\ DOMAIN With(f, x, v) \subseteq D
BY DEF With

\* Deleting a key from a map of operations.
LEMMA WithoutType ==
    ASSUME NEW f, NEW S, NEW x, f \in [DOMAIN f -> S]
    PROVE  Without(f, x) \in [DOMAIN Without(f, x) -> S]
BY DEF Without

\* updateState, called with the keys that a step leaves, keeps idle right.
LEMMA IdleFacts ==
    ASSUME TypeOK', updateState(DOMAIN pending', DOMAIN running')
    PROVE  IdleTracksWork'
<1>1. pending' \in [DOMAIN pending' -> Operation] /\ running' \in [DOMAIN running' -> Operation]
  BY DEF TypeOK
<1>2. /\ pending' = EmptyMap <=> DOMAIN pending' = {}
      /\ running' = EmptyMap <=> DOMAIN running' = {}
  BY <1>1, EmptyMapFacts
<1> QED  BY <1>2 DEF IdleTracksWork, updateState

\* Replace rebuilds the ready list from the work it leaves waiting.
LEMMA ReplaceKeeps ==
    ASSUME IInv, NEW reqs \in RequestLists, NEW rev \in Revisions,
           NEW manual \in BOOLEAN, NEW changed \in SUBSET Stacks,
           Replace(reqs, rev, manual, changed)
    PROVE  IInv'
<1> DEFINE op(s) == Superseding(s, rev, manual, changed)
           kept  == {t \in Image(reqs) : ~AlreadyApplying(t, op(t))}
<1> USE DEF IInv
<1>1. Image(reqs) \subseteq Stacks
  BY DEF RequestLists, Orderings
<1>2. \A s \in Stacks : op(s) \in Operation
  BY DEF Superseding, Operation, TypeOK
<1>3. /\ pending' = [s \in kept |-> op(s)]
      /\ rebuildReady(pending', reqs)
      /\ updateState(DOMAIN pending', DOMAIN running)
      /\ changedAfterFailure' = {}
      /\ UNCHANGED <<running, paused, started, stopped, executing>>
  BY DEF Replace
<1> HIDE DEF op
<1>4. /\ DOMAIN pending' = kept /\ kept \subseteq Stacks
      /\ pending' \in [DOMAIN pending' -> Operation]
  BY <1>1, <1>2, <1>3
<1>5. \A s \in DOMAIN pending' : pending'[s].changed \in BOOLEAN
  BY <1>4 DEF Operation
<1>6. /\ ready' \in Seq(Stacks)
      /\ Distinct(ready')
      /\ Image(ready') = DOMAIN pending' \ DOMAIN running
      /\ Grouped(ready', pending')
      /\ awake' = awake \cup asleep /\ asleep' = {}
  BY <1>3, <1>4, <1>5, RebuildFacts
<1>7. TypeOK'
  BY <1>3, <1>4, <1>6 DEF TypeOK, updateState
<1>8. WorkersApart'
  BY <1>3, <1>6 DEF WorkersApart
<1>9. OneOperationPerStack'
  BY <1>3 DEF OneOperationPerStack, Image
<1>10. ReadyIsWaiting'
  BY <1>3, <1>6 DEF ReadyIsWaiting
<1>11. ChangedFirst'
  BY <1>6 DEF ChangedFirst, Grouped
<1>12. NoLostWakeup'
  BY <1>6 DEF NoLostWakeup
<1>13. IdleTracksWork'
  BY <1>3, <1>7, IdleFacts
<1> QED  BY <1>7, <1>8, <1>9, <1>10, <1>11, <1>12, <1>13

\* SubmitCleanup adds one stack to the waiting work and to the ready list.
LEMMA SubmitCleanupKeeps ==
    ASSUME IInv, NEW name \in Stacks, NEW rev \in Revisions, SubmitCleanup(name, rev)
    PROVE  IInv'
<1> DEFINE op == [kind |-> "cleanup", rev |-> rev, manual |-> FALSE, changed |-> FALSE]
<1> USE DEF IInv
<1>1. /\ pending' = With(pending, name, op)
      /\ enqueue(name, pending', awake)
      /\ updateState(DOMAIN pending', DOMAIN running)
      /\ name \notin DOMAIN running \cup DOMAIN pending
      /\ UNCHANGED <<running, changedAfterFailure, paused, started, stopped, executing>>
  BY DEF SubmitCleanup, CanSubmitCleanup
<1>2. op \in Operation
  BY DEF Operation
<1> HIDE DEF op
<1>3. /\ DOMAIN pending' = DOMAIN pending \cup {name}
      /\ \A s \in DOMAIN pending : pending'[s] = pending[s]
  BY <1>1 DEF With
<1>4. pending' \in [DOMAIN pending' -> Operation] /\ DOMAIN pending' \subseteq Stacks
  BY <1>1, <1>2, WithType DEF TypeOK
<1>5. /\ ready \in Seq(Stacks) /\ Distinct(ready) /\ name \notin Image(ready)
      /\ \A i \in DOMAIN ready : ready[i] \in DOMAIN pending
  BY <1>1 DEF TypeOK, ReadyIsWaiting, Image
<1>6. Grouped(ready, pending')
  BY <1>3, <1>5 DEF ChangedFirst, Grouped
<1>7. /\ ready' \in Seq(Stacks)
      /\ Len(ready') = Len(ready) + 1
      /\ Distinct(ready')
      /\ Image(ready') = Image(ready) \cup {name}
      /\ Grouped(ready', pending')
  BY <1>1, <1>5, <1>6, EnqueueFacts
<1>8. /\ awake' \subseteq Workers /\ asleep' \subseteq Workers
      /\ awake' \cap asleep' = {}
      /\ awake' \cup asleep' = awake \cup asleep
      /\ asleep' = {} \/ Cardinality(awake') = Cardinality(awake) + 1
  BY <1>1, SignalFacts DEF enqueue, TypeOK, WorkersApart
<1>9. TypeOK'
  BY <1>1, <1>4, <1>7, <1>8 DEF TypeOK, updateState
<1>10. WorkersApart'
  BY <1>1, <1>8 DEF WorkersApart
<1>11. OneOperationPerStack'
  BY <1>1 DEF OneOperationPerStack, Image
<1>12. ReadyIsWaiting'
  BY <1>1, <1>3, <1>7 DEF ReadyIsWaiting
<1>13. ChangedFirst'
  BY <1>7 DEF ChangedFirst, Grouped
<1>14. NoLostWakeup'
  <2> SUFFICES ASSUME ~paused, ~stopped, asleep' # {}
               PROVE  Cardinality(awake') >= Len(ready')
    BY <1>1 DEF NoLostWakeup
  <2>1. asleep # {}
    BY <1>1, <1>8 DEF enqueue, Signal
  <2>2. Cardinality(awake) >= Len(ready)
    BY <2>1 DEF NoLostWakeup
  <2>3. Cardinality(awake) \in Nat /\ Len(ready) \in Nat
    BY <1>5, WorkersFinite, FS_Subset, FS_CardinalityType, LenProperties DEF TypeOK
  <2> QED  BY <1>7, <1>8, <2>2, <2>3
<1>15. IdleTracksWork'
  BY <1>1, <1>9, IdleFacts
<1> QED  BY <1>9, <1>10, <1>11, <1>12, <1>13, <1>14, <1>15

\* next() moves the head of the ready list to a worker of its own.
LEMMA TakeKeeps ==
    ASSUME IInv, NEW w \in Workers, Take(w)
    PROVE  IInv'
<1> DEFINE name == Head(ready)
<1> USE DEF IInv
<1>1. /\ w \in awake /\ ready # <<>> /\ ~paused /\ ~stopped
      /\ ready' = Tail(ready)
      /\ pending' = Without(pending, name)
      /\ running' = With(running, name, pending[name])
      /\ executing' = With(executing, w, name)
      /\ updateState(DOMAIN pending', DOMAIN running')
      /\ awake' = awake \ {w}
      /\ UNCHANGED <<changedAfterFailure, paused, started, stopped, asleep>>
  BY DEF Take
<1>2. /\ Len(ready) \in Nat /\ Len(ready') = Len(ready) - 1
      /\ ready' \in Seq(Stacks)
      /\ DOMAIN ready = 1..Len(ready) /\ DOMAIN ready' = 1..Len(ready')
      /\ \A i \in 1..Len(ready') : ready'[i] = ready[i + 1]
      /\ name = ready[1] /\ Len(ready) >= 1
  BY <1>1, LenProperties, HeadTailProperties, EmptySeq DEF TypeOK
<1>3. /\ \A i \in 1..Len(ready) : ready[i] \in DOMAIN pending \ DOMAIN running
      /\ \A i, j \in 1..Len(ready) : ready[i] = ready[j] => i = j
  BY <1>2 DEF ReadyIsWaiting, Image, Distinct
<1>4. name \in DOMAIN pending \ DOMAIN running /\ name \in Stacks
  BY <1>2, <1>3 DEF TypeOK
<1> HIDE DEF name
<1>5. /\ DOMAIN pending' = DOMAIN pending \ {name}
      /\ \A s \in DOMAIN pending' : pending'[s] = pending[s]
      /\ DOMAIN running' = DOMAIN running \cup {name}
      /\ DOMAIN executing' = DOMAIN executing \cup {w}
      /\ executing'[w] = name
      /\ \A v \in DOMAIN executing : v # w => executing'[v] = executing[v]
  BY <1>1 DEF With, Without
<1>6. Distinct(ready') /\ Image(ready') = Image(ready) \ {name}
  <2>1. Distinct(ready')
    BY <1>2, <1>3 DEF Distinct
  <2>2. Image(ready') \subseteq Image(ready) \ {name}
    BY <1>2, <1>3 DEF Image
  <2>3. ASSUME NEW i \in 1..Len(ready), ready[i] # name
        PROVE  ready[i] \in Image(ready')
    <3>1. i - 1 \in 1..Len(ready') /\ (i - 1) + 1 = i
      BY <1>2, <2>3
    <3> QED  BY <1>2, <3>1 DEF Image
  <2>4. Image(ready) \ {name} \subseteq Image(ready')
    BY <1>2, <2>3 DEF Image
  <2> QED  BY <2>1, <2>2, <2>4
<1>7. TypeOK'
  <2>1. pending[name] \in Operation
    BY <1>4 DEF TypeOK
  <2>2. pending' \in [DOMAIN pending' -> Operation]
    BY <1>1, WithoutType DEF TypeOK
  <2>3. running' \in [DOMAIN running' -> Operation] /\ DOMAIN running' \subseteq Stacks
    BY <1>1, <1>4, <2>1, WithType DEF TypeOK
  <2>4. executing' \in [DOMAIN executing' -> Stacks] /\ DOMAIN executing' \subseteq Workers
    BY <1>1, <1>4, WithType DEF TypeOK
  <2> QED  BY <1>1, <1>2, <1>5, <2>2, <2>3, <2>4 DEF TypeOK, updateState
<1>8. WorkersApart'
  BY <1>1, <1>5 DEF WorkersApart
<1>9. OneOperationPerStack'
  <2>1. w \notin DOMAIN executing
    BY <1>1 DEF WorkersApart
  <2>2. \A v \in DOMAIN executing : executing[v] # name
    BY <1>4 DEF OneOperationPerStack, Image
  <2>3. Image(executing') = Image(executing) \cup {name}
    BY <1>5, <2>1 DEF Image
  <2> QED  BY <1>5, <2>1, <2>2, <2>3 DEF OneOperationPerStack
<1>10. ReadyIsWaiting'
  BY <1>5, <1>6 DEF ReadyIsWaiting
<1>11. ChangedFirst'
  <2> SUFFICES ASSUME NEW i \in 1..Len(ready'), NEW j \in 1..Len(ready'), i < j,
                      pending'[ready'[j]].changed
               PROVE  pending'[ready'[i]].changed
    BY <1>2 DEF ChangedFirst
  <2>1. i + 1 \in 1..Len(ready) /\ j + 1 \in 1..Len(ready) /\ i + 1 < j + 1
    BY <1>2
  <2>2. ready'[i] \in DOMAIN pending' /\ ready'[j] \in DOMAIN pending'
    BY <1>2, <1>10 DEF ReadyIsWaiting, Image
  <2> QED  BY <1>2, <1>5, <2>1, <2>2 DEF ChangedFirst
<1>12. NoLostWakeup'
  <2>1. IsFiniteSet(awake)
    BY WorkersFinite, FS_Subset DEF TypeOK
  <2>2. Cardinality(awake) \in Nat /\ Cardinality(awake') = Cardinality(awake) - 1
    BY <1>1, <2>1, FS_CardinalityType, FS_RemoveElement
  <2> QED  BY <1>1, <1>2, <2>2 DEF NoLostWakeup
<1>13. IdleTracksWork'
  BY <1>1, <1>7, IdleFacts
<1> QED  BY <1>7, <1>8, <1>9, <1>10, <1>11, <1>12, <1>13

\* finish() frees the stack and makes what waited for it ready.
LEMMA FinishKeeps ==
    ASSUME IInv, NEW w \in Workers, Finish(w)
    PROVE  IInv'
<1> DEFINE name == executing[w]
           active == awake \cup {w}
<1> USE DEF IInv
<1>1. /\ w \in DOMAIN executing
      /\ running' = Without(running, name)
      /\ executing' = Without(executing, w)
      /\ IF name \in DOMAIN pending
           THEN enqueue(name, pending, active)
           ELSE awake' = active /\ UNCHANGED <<ready, asleep>>
      /\ updateState(DOMAIN pending, DOMAIN running')
      /\ UNCHANGED <<pending, changedAfterFailure, paused, started, stopped>>
  BY DEF Finish
<1>2. name \in Stacks /\ name \in DOMAIN running
  BY <1>1 DEF TypeOK, OneOperationPerStack, Image
<1>3. /\ w \notin awake /\ w \notin asleep
      /\ active \subseteq Workers /\ active \cap asleep = {}
      /\ IsFiniteSet(awake) /\ Cardinality(awake) \in Nat
      /\ Cardinality(active) = Cardinality(awake) + 1
  <2>1. w \notin awake /\ w \notin asleep
    BY <1>1 DEF WorkersApart
  <2>2. active \subseteq Workers /\ active \cap asleep = {}
    BY <2>1 DEF WorkersApart, TypeOK
  <2>3. IsFiniteSet(awake)
    BY WorkersFinite, FS_Subset DEF TypeOK
  <2> QED  BY <2>1, <2>2, <2>3, FS_CardinalityType, FS_AddElement
<1>4. ready \in Seq(Stacks) /\ Distinct(ready) /\ name \notin Image(ready)
      /\ Grouped(ready, pending) /\ Len(ready) \in Nat
  BY <1>2, LenProperties DEF TypeOK, ReadyIsWaiting, ChangedFirst, Grouped
<1>5. /\ DOMAIN running' = DOMAIN running \ {name}
      /\ DOMAIN executing' = DOMAIN executing \ {w}
      /\ \A v \in DOMAIN executing' : executing'[v] = executing[v]
  BY <1>1 DEF Without
<1>6. /\ ready' \in Seq(Stacks) /\ Distinct(ready')
      /\ Image(ready') = DOMAIN pending \ DOMAIN running'
      /\ Grouped(ready', pending)
  <2>1. CASE name \in DOMAIN pending
    <3>1. /\ ready' \in Seq(Stacks) /\ Distinct(ready')
          /\ Image(ready') = Image(ready) \cup {name}
          /\ Grouped(ready', pending)
      BY <1>1, <1>2, <1>4, <2>1, EnqueueFacts
    <3> QED  BY <1>5, <2>1, <3>1 DEF ReadyIsWaiting
  <2>2. CASE name \notin DOMAIN pending
    BY <1>1, <1>4, <1>5, <2>2 DEF ReadyIsWaiting
  <2> QED  BY <2>1, <2>2
<1>7. /\ awake' \subseteq Workers /\ asleep' \subseteq Workers
      /\ awake' \cap asleep' = {}
      /\ awake' \cup asleep' = active \cup asleep
  <2>1. CASE name \in DOMAIN pending
    <3>1. Signal(active)
      BY <1>1, <2>1 DEF enqueue
    <3>2. asleep \subseteq Workers
      BY DEF TypeOK
    <3> HIDE DEF active
    <3> QED  BY <1>3, <3>1, <3>2, SignalFacts
  <2>2. CASE name \notin DOMAIN pending
    BY <1>1, <1>3, <2>2 DEF TypeOK
  <2> QED  BY <2>1, <2>2
<1>8. TypeOK'
  <2>1. running' \in [DOMAIN running' -> Operation]
    BY <1>1, WithoutType DEF TypeOK
  <2>2. executing' \in [DOMAIN executing' -> Stacks]
    BY <1>1, WithoutType DEF TypeOK
  <2> QED  BY <1>1, <1>5, <1>6, <1>7, <2>1, <2>2 DEF TypeOK, updateState
<1>9. WorkersApart'
  BY <1>1, <1>3, <1>5, <1>7 DEF WorkersApart
<1>10. OneOperationPerStack'
  <2>1. \A v \in DOMAIN executing' : executing[v] # name
    BY <1>1, <1>5 DEF OneOperationPerStack
  <2>2. Image(executing') = Image(executing) \ {name}
    <3>1. Image(executing') \subseteq Image(executing) \ {name}
      BY <1>5, <2>1 DEF Image
    <3>2. \A v \in DOMAIN executing : executing[v] # name => executing[v] \in Image(executing')
      BY <1>1, <1>5 DEF Image
    <3> QED  BY <3>1, <3>2 DEF Image
  <2> QED  BY <1>5, <2>2 DEF OneOperationPerStack
<1>11. ReadyIsWaiting'
  BY <1>1, <1>6 DEF ReadyIsWaiting
<1>12. ChangedFirst'
  BY <1>1, <1>6 DEF ChangedFirst, Grouped
<1>13. NoLostWakeup'
  <2> SUFFICES ASSUME ~paused, ~stopped, asleep' # {}
               PROVE  Cardinality(awake') >= Len(ready')
    BY <1>1 DEF NoLostWakeup
  <2>1. CASE name \in DOMAIN pending
    <3>1. Signal(active)
      BY <1>1, <2>1 DEF enqueue
    <3>2. Len(ready') = Len(ready) + 1
      BY <1>1, <1>2, <1>4, <2>1, EnqueueFacts
    <3>3. Cardinality(awake) >= Len(ready)
      BY <3>1 DEF NoLostWakeup, Signal
    <3>4. asleep \subseteq Workers
      BY DEF TypeOK
    <3> HIDE DEF active
    <3>5. Cardinality(awake') = Cardinality(active) + 1
      BY <1>3, <3>1, <3>4, SignalFacts
    <3> QED  BY <1>3, <1>4, <3>2, <3>3, <3>5
  <2>2. CASE name \notin DOMAIN pending
    <3>1. awake' = active /\ ready' = ready /\ asleep' = asleep
      BY <1>1, <2>2
    <3>2. Cardinality(awake) >= Len(ready)
      BY <3>1 DEF NoLostWakeup
    <3> QED  BY <1>3, <1>4, <3>1, <3>2
  <2> QED  BY <2>1, <2>2
<1>14. IdleTracksWork'
  BY <1>1, <1>8, IdleFacts
<1> QED  BY <1>8, <1>9, <1>10, <1>11, <1>12, <1>13, <1>14

\* Stop and Clear drop the waiting work, and with it every ready entry.
LEMMA DropKeeps ==
    ASSUME IInv, pending' = EmptyMap, ready' = <<>>,
           updateState({}, DOMAIN running),
           changedAfterFailure' \subseteq Stacks, stopped' \in BOOLEAN,
           Broadcast(awake) \/ UNCHANGED <<awake, asleep>>,
           UNCHANGED <<running, paused, started, executing>>
    PROVE  IInv'
<1> USE DEF IInv
<1>1. DOMAIN pending' = {} /\ pending' \in [DOMAIN pending' -> Operation]
  BY EmptyMapFacts DEF EmptyMap
<1>2. ready' \in Seq(Stacks) /\ DOMAIN ready' = {} /\ Len(ready') = 0
  BY EmptySeq, LenProperties
<1>3. /\ awake' \cup asleep' = awake \cup asleep /\ awake' \cap asleep' = {}
  BY DEF Broadcast, WorkersApart
<1>4. TypeOK'
  BY <1>1, <1>2, <1>3 DEF TypeOK, updateState
<1>5. WorkersApart'
  BY <1>3 DEF WorkersApart
<1>6. OneOperationPerStack'
  BY DEF OneOperationPerStack, Image
<1>7. ReadyIsWaiting' /\ ChangedFirst'
  BY <1>1, <1>2 DEF ReadyIsWaiting, ChangedFirst, Distinct, Image
<1>8. NoLostWakeup'
  <2>1. Cardinality(awake') \in Nat
    BY <1>4, WorkersFinite, FS_Subset, FS_CardinalityType DEF TypeOK
  <2> QED  BY <1>2, <2>1 DEF NoLostWakeup
<1>9. IdleTracksWork'
  BY <1>1, <1>4, IdleFacts
<1> QED  BY <1>4, <1>5, <1>6, <1>7, <1>8, <1>9

\* Steps that leave the work alone and move workers or switch the queue.
LEMMA IdleStepKeeps ==
    ASSUME IInv,
           UNCHANGED <<ready, pending, running, changedAfterFailure, idle, executing>>,
           paused' \in BOOLEAN, started' \in BOOLEAN, stopped' \in BOOLEAN,
           awake' \subseteq Workers, asleep' \subseteq Workers,
           WorkersApart', NoLostWakeup'
    PROVE  IInv'
BY DEF IInv, TypeOK, OneOperationPerStack, ReadyIsWaiting, ChangedFirst,
       IdleTracksWork, Image, Distinct

-----------------------------------------------------------------------------
(* The theorems.                                                           *)

\* A new queue satisfies the inductive invariant.
LEMMA NewEstablishes == New => IInv
<1> SUFFICES ASSUME New PROVE IInv
  OBVIOUS
<1>1. /\ ready = <<>> /\ pending = EmptyMap /\ running = EmptyMap
      /\ changedAfterFailure = {} /\ paused = FALSE /\ started = FALSE
      /\ stopped = FALSE /\ idle = TRUE
      /\ awake = {} /\ asleep = {} /\ executing = EmptyMap
  BY DEF New
<1>2. ready \in Seq(Stacks) /\ DOMAIN ready = {}
  BY <1>1, EmptySeq, LenProperties
<1>3. DOMAIN EmptyMap = {} /\ \A S : EmptyMap \in [{} -> S]
  BY DEF EmptyMap
<1>4. TypeOK
  BY <1>1, <1>2, <1>3 DEF TypeOK
<1>5. WorkersApart /\ OneOperationPerStack
  BY <1>1, <1>3 DEF WorkersApart, OneOperationPerStack, Image
<1>6. ReadyIsWaiting /\ ChangedFirst
  BY <1>1, <1>2, <1>3 DEF ReadyIsWaiting, ChangedFirst, Distinct, Image
<1>7. NoLostWakeup /\ IdleTracksWork
  BY <1>1 DEF NoLostWakeup, IdleTracksWork
<1> QED  BY <1>4, <1>5, <1>6, <1>7 DEF IInv

\* Every method and every worker step preserves the inductive invariant.
LEMMA NextKeeps == IInv /\ [Next]_queueVars => IInv'
<1> SUFFICES ASSUME IInv, [Next]_queueVars PROVE IInv'
  OBVIOUS
<1>1. CASE Start
  <2>1. asleep = {} /\ DOMAIN executing = {}
    BY <1>1 DEF IInv, WorkersApart, Start
  <2>2. WorkersApart' /\ NoLostWakeup'
    BY <1>1, <2>1 DEF Start, WorkersApart, NoLostWakeup
  <2> QED  BY <1>1, <2>2, IdleStepKeeps DEF Start, IInv, TypeOK
<1>2. CASE Stop
  BY <1>2, DropKeeps DEF Stop
<1>3. CASE Pause
  BY <1>3, IdleStepKeeps DEF Pause, IInv, TypeOK, WorkersApart, NoLostWakeup
<1>4. CASE Resume
  BY <1>4, IdleStepKeeps DEF Resume, Broadcast, IInv, TypeOK, WorkersApart, NoLostWakeup
<1>5. CASE \E reqs \in RequestLists, rev \in Revisions, manual \in BOOLEAN,
              changed \in SUBSET Stacks : Replace(reqs, rev, manual, changed)
  BY <1>5, ReplaceKeeps
<1>6. CASE \E changed \in SUBSET Stacks : Clear(changed)
  <2>1. PICK changed \in SUBSET Stacks : Clear(changed)
    BY <1>6
  <2>2. ready' = <<>>
    <3>1. CASE pending = EmptyMap
      <4>1. Image(ready) = {}
        BY <3>1, EmptyMapFacts DEF IInv, ReadyIsWaiting
      <4>2. Len(ready) \in Nat /\ DOMAIN ready = 1..Len(ready) /\ ready \in Seq(Stacks)
        BY LenProperties DEF IInv, TypeOK
      <4>3. Len(ready) = 0
        <5>1. \A i \in DOMAIN ready : ready[i] \in Image(ready)
          BY DEF Image
        <5>2. 1 \notin DOMAIN ready
          BY <4>1, <5>1
        <5> QED  BY <4>2, <5>2
      <4>4. ready = <<>>
        BY <4>2, <4>3, EmptySeq
      <4> QED  BY <2>1, <3>1, <4>4 DEF Clear, drop
    <3>2. CASE pending # EmptyMap
      BY <2>1, <3>2 DEF Clear, drop
    <3> QED  BY <3>1, <3>2
  <2>3. changedAfterFailure' \subseteq Stacks /\ stopped' \in BOOLEAN
    BY <2>1 DEF Clear, drop, IInv, TypeOK
  <2> QED  BY <2>1, <2>2, <2>3, DropKeeps DEF Clear, drop
<1>7. CASE \E s \in Stacks, rev \in Revisions : SubmitCleanup(s, rev)
  BY <1>7, SubmitCleanupKeeps
<1>8. ASSUME NEW w \in Workers, Sleep(w) PROVE IInv'
  <2>1. WorkersApart'
    BY <1>8 DEF Sleep, IInv, WorkersApart
  <2>2. awake' \subseteq Workers /\ asleep' \subseteq Workers
    BY <1>8 DEF Sleep, IInv, TypeOK
  <2>3. NoLostWakeup'
    <3>1. Cardinality(awake') \in Nat
      BY <2>2, WorkersFinite, FS_Subset, FS_CardinalityType
    <3>2. ~paused' => Len(ready') = 0
      BY <1>8, EmptySeq DEF Sleep
    <3> QED  BY <3>1, <3>2 DEF NoLostWakeup
  <2> QED  BY <1>8, <2>1, <2>2, <2>3, IdleStepKeeps DEF Sleep, IInv, TypeOK
<1>9. ASSUME NEW w \in Workers, Exit(w) PROVE IInv'
  BY <1>9, IdleStepKeeps DEF Exit, IInv, TypeOK, WorkersApart, NoLostWakeup
<1>10. ASSUME NEW w \in Workers, Take(w) PROVE IInv'
  BY <1>10, TakeKeeps
<1>11. ASSUME NEW w \in Workers, Finish(w) PROVE IInv'
  BY <1>11, FinishKeeps
<1>12. CASE UNCHANGED queueVars
  BY <1>12, IdleStepKeeps DEF queueVars, IInv, TypeOK, WorkersApart, NoLostWakeup
<1> QED
  BY <1>1, <1>2, <1>3, <1>4, <1>5, <1>6, <1>7, <1>8, <1>9, <1>10, <1>11, <1>12
     DEF Next, Caller, Worker

\* The inductive invariant holds in every reachable state of the queue.
THEOREM QueueInvariant == Spec => []IInv
BY NewEstablishes, NextKeeps, PTL DEF Spec

(***************************************************************************)
(* The queue's state is well typed, for any number of stacks and workers.  *)
(***************************************************************************)
THEOREM QueueTypeCorrect == Spec => []TypeOK
<1>1. IInv => TypeOK  BY DEF IInv
<1> QED  BY <1>1, QueueInvariant, PTL

(***************************************************************************)
(* Two workers never execute the same stack (work, next and finish).       *)
(***************************************************************************)
THEOREM QueueExclusive == Spec => []OneOperationPerStack
<1>1. IInv => OneOperationPerStack  BY DEF IInv
<1> QED  BY <1>1, QueueInvariant, PTL

(***************************************************************************)
(* The ready list is exactly the waiting work that may start, so no stack  *)
(* is forgotten and none is taken without work (rebuildReadyLocked).       *)
(***************************************************************************)
THEOREM QueueComplete == Spec => []ReadyIsWaiting
<1>1. IInv => ReadyIsWaiting  BY DEF IInv
<1> QED  BY <1>1, QueueInvariant, PTL

(***************************************************************************)
(* Changed stacks are always ahead in the ready list (enqueueLocked,       *)
(* rebuildReadyLocked).                                                    *)
(***************************************************************************)
THEOREM QueuePriority == Spec => []ChangedFirst
<1>1. IInv => ChangedFirst  BY DEF IInv
<1> QED  BY <1>1, QueueInvariant, PTL

(***************************************************************************)
(* No wakeup of the condition variable is lost, for any number of workers  *)
(* and any interleaving of Pause, Resume and Signal.                       *)
(***************************************************************************)
THEOREM QueueWakesWorkers == Spec => []NoLostWakeup
<1>1. IInv => NoLostWakeup  BY DEF IInv
<1> QED  BY <1>1, QueueInvariant, PTL

(***************************************************************************)
(* The idle channel is closed exactly while there is no work               *)
(* (updateStateLocked).                                                    *)
(***************************************************************************)
THEOREM QueueIdleExact == Spec => []IdleTracksWork
<1>1. IInv => IdleTracksWork  BY DEF IInv
<1> QED  BY <1>1, QueueInvariant, PTL

-----------------------------------------------------------------------------
(* First in, first out within a group.                                     *)

\* A stack placed by enqueue overtakes none with its own changed mark.
LEMMA EnqueueFifo ==
    ASSUME NEW name \in Stacks, NEW waiting, NEW active,
           ready \in Seq(Stacks), Distinct(ready), name \notin Image(ready),
           Grouped(ready, waiting),
           enqueue(name, waiting, active),
           NEW a \in Image(ready), NEW b \in Image(ready'), a # b,
           b \in Image(ready) => Precedes(ready, a, b),
           waiting[a].changed = waiting[b].changed
    PROVE  Precedes(ready', a, b)
<1> DEFINE n == Len(ready)
<1>1. n \in Nat /\ DOMAIN ready = 1..n /\ \A i, j \in 1..n : ready[i] = ready[j] => i = j
  BY LenProperties DEF Distinct
<1>2. PICK k \in 0..Len(ready) :
         /\ ready' \in Seq(Stacks)
         /\ Inserted(ready', ready, k, name)
         /\ \A i \in 1..k : waiting[name].changed => waiting[ready[i]].changed
         /\ \A i \in (k + 1)..Len(ready) :
               waiting[name].changed /\ ~waiting[ready[i]].changed
  BY EnqueuePlace, Zenon
<1>3. PICK i \in 1..n : ready[i] = a
  BY <1>1 DEF Image
<1>4. /\ DOMAIN ready' = 1..(n + 1)
      /\ \A j \in 1..(n + 1) :
            \/ j \in 1..k /\ ready'[j] = ready[j]
            \/ j = k + 1 /\ ready'[j] = name
            \/ j \in (k + 2)..(n + 1) /\ j - 1 \in (k + 1)..n /\ ready'[j] = ready[j - 1]
      /\ \A j \in 1..k : ready'[j] = ready[j]
      /\ \A j \in (k + 1)..n : ready'[j + 1] = ready[j]
  BY <1>2 DEF Inserted
<1>5. CASE b = name
  <2>1. i \in 1..k
    BY <1>1, <1>2, <1>3, <1>5
  <2>2. \A j \in 1..n : ready[j] # name
    BY <1>1 DEF Image
  <2>3. \A j \in 1..(n + 1) : ready'[j] = name => j = k + 1
    BY <1>1, <1>4, <2>2
  <2>4. i \in 1..(n + 1) /\ ready'[i] = a /\ \A j \in 1..(n + 1) : ready'[j] = b => i < j
    BY <1>1, <1>3, <1>4, <1>5, <2>1, <2>3
  <2> QED  BY <1>4, <2>4 DEF Precedes
<1>6. CASE b # name
  <2>1. b \in Image(ready)
    <3>1. PICK j \in 1..(n + 1) : ready'[j] = b
      BY <1>4 DEF Image
    <3>2. j \in 1..k \/ j - 1 \in (k + 1)..n
      BY <1>4, <1>6, <3>1
    <3>3. \E m \in 1..n : ready[m] = b
      BY <1>1, <1>4, <1>6, <3>1, <3>2
    <3> QED  BY <1>1, <3>3 DEF Image
  <2>2. \A m \in 1..n : ready[m] = b => i < m
    BY <1>1, <1>3, <2>1 DEF Precedes
  <2> DEFINE p == IF i \in 1..k THEN i ELSE i + 1
  <2>3. p \in 1..(n + 1) /\ ready'[p] = a
    BY <1>1, <1>3, <1>4
  <2>4. \A j \in 1..(n + 1) : ready'[j] = b => p < j
    <3> SUFFICES ASSUME NEW j \in 1..(n + 1), ready'[j] = b PROVE p < j
      OBVIOUS
    <3>1. CASE j \in 1..k /\ ready'[j] = ready[j]
      BY <1>1, <2>2, <3>1
    <3>2. CASE j \in (k + 2)..(n + 1) /\ j - 1 \in (k + 1)..n /\ ready'[j] = ready[j - 1]
      <4>1. i < j - 1
        BY <1>1, <2>2, <3>2
      <4> QED  BY <1>1, <4>1, <3>2
    <3> QED  BY <1>4, <1>6, <3>1, <3>2
  <2> HIDE DEF p
  <2> QED  BY <1>4, <2>3, <2>4 DEF Precedes
<1> QED  BY <1>5, <1>6

\* Nor does rebuildReady reorder the stacks of a group that stay ready.
LEMMA RebuildFifo ==
    ASSUME NEW waiting, NEW reqs, DOMAIN waiting \subseteq Stacks,
           ready \in Seq(Stacks),
           rebuildReady(waiting, reqs),
           NEW a \in Image(ready), NEW b, a \in Image(ready'), b \in Image(ready'), a # b,
           b \in Image(ready) => Precedes(ready, a, b),
           waiting[a].changed = waiting[b].changed
    PROVE  Precedes(ready', a, b)
<1> DEFINE S == DOMAIN waiting \ DOMAIN running
<1>1. IsFiniteSet(S)
  BY StacksFinite, FS_Subset
<1>2. /\ ready' \in Orderings(S)
      /\ \A i, j \in DOMAIN ready' :
            i < j => GoesBefore(ready'[i], ready'[j], waiting, reqs)
  BY DEF rebuildReady
<1>3. ready' \in Seq(S) /\ Distinct(ready')
  BY <1>1, <1>2, OrderingFacts
<1>4. DOMAIN ready' = 1..Len(ready') /\ Len(ready') \in Nat
  BY <1>3, LenProperties
<1>5. DOMAIN ready = 1..Len(ready) /\ Len(ready) \in Nat
  BY LenProperties
<1>6. PICK i \in DOMAIN ready' : ready'[i] = a
  BY DEF Image
<1>7. PICK j \in DOMAIN ready' : ready'[j] = b
  BY DEF Image
<1>8. ~(j < i)
  <2> SUFFICES ASSUME j < i PROVE FALSE
    OBVIOUS
  <2>1. GoesBefore(b, a, waiting, reqs)
    BY <1>2, <1>6, <1>7
  <2>2. IF b \in Image(ready) THEN Precedes(ready, b, a)
        ELSE a \notin Image(ready) /\ Precedes(reqs, b, a)
    BY <2>1 DEF GoesBefore
  <2>3. Precedes(ready, b, a) /\ Precedes(ready, a, b)
    BY <2>2
  <2> QED  BY <1>5, <2>3 DEF Precedes
<1>9. i < j
  BY <1>4, <1>6, <1>7, <1>8
<1>10. \A m \in DOMAIN ready' : ready'[m] = b => i < m
  BY <1>3, <1>7, <1>9 DEF Distinct
<1> QED  BY <1>6, <1>10 DEF Precedes

\* No step of the queue lets a stack be overtaken within its group.
LEMMA StepIsFifo == IInv /\ [Next]_queueVars => [NoOvertaking]_queueVars
<1> SUFFICES ASSUME IInv, Next,
                    NEW a \in Image(ready'), NEW b \in Image(ready'),
                    a \in Image(ready), a # b,
                    b \in Image(ready) => Precedes(ready, a, b),
                    pending'[a].changed = pending'[b].changed
             PROVE  Precedes(ready', a, b)
  BY DEF NoOvertaking
<1>1. /\ ready \in Seq(Stacks) /\ Distinct(ready) /\ Grouped(ready, pending)
      /\ Image(ready) = DOMAIN pending \ DOMAIN running
  BY DEF IInv, TypeOK, ReadyIsWaiting, ChangedFirst, Grouped
<1>2. CASE ready' = ready
  BY <1>2
<1>3. CASE ready' = <<>>
  <2>1. DOMAIN <<>> = {}
    BY EmptySeq, LenProperties
  <2> QED  BY <1>3, <2>1 DEF Image
<1>4. CASE \E reqs \in RequestLists, rev \in Revisions, manual \in BOOLEAN,
              changed \in SUBSET Stacks : Replace(reqs, rev, manual, changed)
  <2>1. PICK reqs \in RequestLists, rev \in Revisions, manual \in BOOLEAN,
             changed \in SUBSET Stacks : Replace(reqs, rev, manual, changed)
    BY <1>4
  <2>2. rebuildReady(pending', reqs)
    BY <2>1 DEF Replace
  <2>3. DOMAIN pending' \subseteq Stacks
    BY <2>1, ReplaceKeeps DEF IInv, TypeOK
  <2> QED  BY <1>1, <2>2, <2>3, RebuildFifo
<1>5. CASE \E s \in Stacks, rev \in Revisions : SubmitCleanup(s, rev)
  <2>1. PICK s \in Stacks, rev \in Revisions : SubmitCleanup(s, rev)
    BY <1>5
  <2>2. /\ enqueue(s, pending', awake)
        /\ s \notin DOMAIN pending
        /\ \A t \in DOMAIN pending : pending'[t] = pending[t]
    BY <2>1 DEF SubmitCleanup, CanSubmitCleanup, With
  <2>3. Grouped(ready, pending')
    BY <1>1, <2>2 DEF Grouped, Image
  <2> QED  BY <1>1, <2>2, <2>3, EnqueueFifo
<1>6. ASSUME NEW w \in Workers, Take(w) PROVE Precedes(ready', a, b)
  <2>1. ready # <<>> /\ ready' = Tail(ready)
    BY <1>6 DEF Take
  <2>2. /\ Len(ready) \in Nat /\ Len(ready') = Len(ready) - 1
        /\ DOMAIN ready = 1..Len(ready) /\ DOMAIN ready' = 1..Len(ready')
        /\ \A i \in 1..Len(ready') : ready'[i] = ready[i + 1]
    BY <1>1, <2>1, LenProperties, HeadTailProperties
  <2>3. b \in Image(ready)
    BY <2>2 DEF Image
  <2>4. PICK i \in 1..Len(ready') : ready'[i] = a
    BY <2>2 DEF Image
  <2>5. \A m \in 1..Len(ready) : ready[m] = b => i + 1 < m
    BY <1>1, <2>2, <2>3, <2>4 DEF Precedes, Distinct
  <2>6. \A j \in 1..Len(ready') : ready'[j] = b => i < j
    BY <2>2, <2>5
  <2> QED  BY <2>2, <2>4, <2>6 DEF Precedes
<1>7. ASSUME NEW w \in Workers, Finish(w) PROVE Precedes(ready', a, b)
  <2> DEFINE name == executing[w]
  <2>1. /\ w \in DOMAIN executing /\ pending' = pending
        /\ IF name \in DOMAIN pending
             THEN enqueue(name, pending, awake \cup {w})
             ELSE ready' = ready
    BY <1>7 DEF Finish
  <2>2. name \in Stacks /\ name \in DOMAIN running
    BY <2>1 DEF IInv, TypeOK, OneOperationPerStack, Image
  <2>3. CASE name \in DOMAIN pending
    BY <1>1, <2>1, <2>2, <2>3, EnqueueFifo
  <2>4. CASE name \notin DOMAIN pending
    BY <1>2, <2>1, <2>4
  <2> QED  BY <2>3, <2>4
<1>8. CASE Start \/ Pause \/ Resume \/ \E w \in Workers : Sleep(w) \/ Exit(w)
  BY <1>2, <1>8 DEF Start, Pause, Resume, Sleep, Exit
<1>9. CASE Stop \/ \E changed \in SUBSET Stacks : Clear(changed)
  BY <1>2, <1>3, <1>9 DEF Stop, Clear, drop
<1> QED
  BY <1>4, <1>5, <1>6, <1>7, <1>8, <1>9 DEF Next, Caller, Worker

(***************************************************************************)
(* Within its group no ready stack is ever overtaken, whatever mix of      *)
(* Replace, SubmitCleanup and finish changes the list.                     *)
(***************************************************************************)
THEOREM QueueFifo == Spec => FifoWithinGroup
BY QueueInvariant, StepIsFifo, PTL DEF Spec, FifoWithinGroup

(***************************************************************************)
(* The controller.                                                         *)
(***************************************************************************)
-----------------------------------------------------------------------------
(* The planner: the order it chooses exists.                               *)

\* A finite set with a strict total order R can be listed in that order: an element's place
\* is given by how many go before it.
LEMMA Sortable ==
    ASSUME NEW S, IsFiniteSet(S), NEW R,
           \A a, b \in S : a # b => <<a, b>> \in R \/ <<b, a>> \in R,
           \A a \in S : <<a, a>> \notin R,
           \A a, b, c \in S : <<a, b>> \in R /\ <<b, c>> \in R => <<a, c>> \in R
    PROVE  \E q \in Orderings(S) : \A i, j \in DOMAIN q : i < j => <<q[i], q[j]>> \in R
<1> DEFINE n == Cardinality(S)
           below(a) == {b \in S : <<b, a>> \in R}
           place == [a \in S |-> Cardinality(below(a)) + 1]
<1>1. n \in Nat BY FS_CardinalityType
<1>2. ASSUME NEW a \in S
      PROVE  IsFiniteSet(below(a)) /\ Cardinality(below(a)) \in Nat /\ Cardinality(below(a)) < n
  <2>1. below(a) \in SUBSET S OBVIOUS
  <2>2. below(a) # S OBVIOUS
  <2>3. IsFiniteSet(below(a)) /\ Cardinality(below(a)) <= n /\ Cardinality(below(a)) # n
    BY <2>1, <2>2, FS_Subset
  <2>4. Cardinality(below(a)) \in Nat BY <2>3, FS_CardinalityType
  <2> QED BY <1>1, <2>3, <2>4
<1>3. ASSUME NEW a \in S, NEW b \in S, <<a, b>> \in R PROVE place[a] < place[b]
  <2>1. below(a) \in SUBSET below(b) BY <1>3
  <2>2. a \in below(b) /\ a \notin below(a) BY <1>3
  <2>3. Cardinality(below(a)) <= Cardinality(below(b)) /\ Cardinality(below(a)) # Cardinality(below(b))
    BY <1>2, <2>1, <2>2, FS_Subset
  <2>4. Cardinality(below(a)) \in Nat /\ Cardinality(below(b)) \in Nat BY <1>2
  <2>5. place[a] = Cardinality(below(a)) + 1 /\ place[b] = Cardinality(below(b)) + 1 OBVIOUS
  <2> HIDE DEF below, place
  <2> QED BY <2>3, <2>4, <2>5
<1>4. \A a \in S : place[a] \in 1..n
  <2> SUFFICES ASSUME NEW a \in S PROVE place[a] \in 1..n OBVIOUS
  <2>1. place[a] = Cardinality(below(a)) + 1 OBVIOUS
  <2>2. Cardinality(below(a)) \in Nat /\ Cardinality(below(a)) < n BY <1>2
  <2> HIDE DEF below, place, n
  <2> QED BY <1>1, <2>1, <2>2
<1>5. \A a, b \in S : place[a] = place[b] => a = b
  <2> SUFFICES ASSUME NEW a \in S, NEW b \in S, place[a] = place[b], a # b PROVE FALSE OBVIOUS
  <2>1. place[a] < place[b] \/ place[b] < place[a] BY <1>3
  <2>2. place[a] \in Int BY <1>1, <1>4
  <2> HIDE DEF place
  <2> QED BY <2>1, <2>2
<1>6. place \in [S -> 1..n] BY <1>4
<1>7. place \in Injection(S, 1..n) BY <1>5, <1>6, Fun_IsInj
<1>8. IsFiniteSet(1..n) /\ Cardinality(1..n) = n
  <2> HIDE DEF n
  <2> QED BY <1>1, FS_Interval
<1>9. place \in Surjection(S, 1..n) BY <1>7, <1>8, FS_Injection
<1>10. \A i \in 1..n : \E a \in S : place[a] = i
  <2> HIDE DEF place, n
  <2> QED BY <1>9, Fun_SurjectionProperties
<1> DEFINE q == [i \in 1..n |-> CHOOSE a \in S : place[a] = i]
<1>11. \A i \in 1..n : q[i] \in S /\ place[q[i]] = i
  <2> HIDE DEF place, n
  <2> QED BY <1>10
<1> HIDE DEF place, n
<1>12. q \in [1..n -> S] BY <1>11
<1>13. \A a \in S : q[place[a]] = a BY <1>4, <1>5, <1>11
<1>14. DOMAIN q = 1..n OBVIOUS
<1> HIDE DEF q
<1>15. Image(q) = S BY <1>4, <1>11, <1>13, <1>14 DEF Image
<1>16. Distinct(q) BY <1>11, <1>14 DEF Distinct
<1>17. q \in Orderings(S) BY <1>12, <1>15, <1>16 DEF Orderings, n
<1>18. ASSUME NEW i \in 1..n, NEW j \in 1..n, i < j PROVE <<q[i], q[j]>> \in R
  <2> SUFFICES ASSUME <<q[i], q[j]>> \notin R PROVE FALSE OBVIOUS
  <2>1. q[i] \in S /\ q[j] \in S /\ place[q[i]] = i /\ place[q[j]] = j BY <1>11
  <2>2. i \in Int /\ j \in Int BY <1>1
  <2>3. q[i] # q[j] BY <1>18, <2>1, <2>2
  <2>4. <<q[j], q[i]>> \in R BY <2>1, <2>3
  <2>5. j < i BY <1>3, <2>1, <2>4
  <2> QED BY <1>18, <2>2, <2>5
<1> QED BY <1>14, <1>17, <1>18

\* The plan lists exactly the configured stacks.
LEMMA PlanListsConfig ==
    ASSUME NEW config \in RequestLists, NEW changed
    PROVE  Plan(config, changed) \in RequestLists /\ Image(Plan(config, changed)) = Image(config)
<1> DEFINE S == Image(config)
           before(a, b) ==
               \/ a \in changed /\ b \notin changed
               \/ a \in changed /\ b \in changed /\ PathRank[a] < PathRank[b]
               \/ /\ a \in changed <=> b \in changed
                  /\ a \in changed => PathRank[a] = PathRank[b]
                  /\ Precedes(config, a, b)
           R == {x \in S \X S : before(x[1], x[2])}
<1>1. S \in SUBSET Stacks /\ Distinct(config) /\ IsFiniteSet(S)
  <2>1. PICK T \in SUBSET Stacks : config \in Orderings(T) BY DEF RequestLists
  <2>2. S = T /\ Distinct(config) BY <2>1 DEF Orderings
  <2> QED BY <2>2, StacksFinite, FS_Subset
<1>2. \E at \in [S -> DOMAIN config] : \A a \in S : config[at[a]] = a
  <2>1. \A a \in S : \E i \in DOMAIN config : config[i] = a BY DEF Image
  <2> DEFINE at == [a \in S |-> CHOOSE i \in DOMAIN config : config[i] = a]
  <2> HIDE DEF S
  <2>2. \A a \in S : at[a] \in DOMAIN config /\ config[at[a]] = a BY <2>1
  <2>3. at \in [S -> DOMAIN config] BY <2>2
  <2> QED BY <2>2, <2>3
<1>3. PICK at \in [S -> DOMAIN config] : \A a \in S : config[at[a]] = a BY <1>2
<1>4. DOMAIN config \subseteq Int
  <2>1. PICK T \in SUBSET Stacks : config \in Orderings(T) BY DEF RequestLists
  <2> QED BY <2>1 DEF Orderings
<1>5. ASSUME NEW a \in S, NEW b \in S PROVE Precedes(config, a, b) <=> at[a] < at[b]
  BY <1>1, <1>3 DEF Precedes, Distinct
<1>6. \A a \in S : PathRank[a] \in Int /\ at[a] \in Int BY <1>1, <1>3, <1>4, PathRanks
<1>7. \A a, b \in S : a # b => at[a] # at[b] BY <1>3
<1>8. \A a, b \in S : <<a, b>> \in R <=> before(a, b) OBVIOUS
<1> HIDE DEF R, S
<1>9. \A a, b \in S : a # b => before(a, b) \/ before(b, a)
  BY <1>5, <1>6, <1>7
<1>10. \A a \in S : ~before(a, a) BY <1>5, <1>6
<1>11. \A a, b, c \in S : before(a, b) /\ before(b, c) => before(a, c)
  BY <1>5, <1>6
<1>12. \E q \in Orderings(S) : \A i, j \in DOMAIN q : i < j => <<q[i], q[j]>> \in R
  <2> HIDE DEF before
  <2> QED BY <1>1, <1>8, <1>9, <1>10, <1>11, Sortable
<1>13. \E q \in Orderings(S) : \A i, j \in DOMAIN q : i < j => before(q[i], q[j])
  <2> HIDE DEF before
  <2>1. PICK q \in Orderings(S) : \A i, j \in DOMAIN q : i < j => <<q[i], q[j]>> \in R BY <1>12
  <2>2. \A i \in DOMAIN q : q[i] \in S BY DEF Orderings
  <2> QED BY <1>8, <2>1, <2>2
<1>14. Plan(config, changed) = CHOOSE q \in Orderings(S) : \A i, j \in DOMAIN q : i < j => before(q[i], q[j])
  BY DEF Plan, S
<1>15. Plan(config, changed) \in Orderings(S)
  <2> HIDE DEF before
  <2> QED BY <1>13, <1>14
<1> QED BY <1>1, <1>15 DEF RequestLists, Orderings, S

-----------------------------------------------------------------------------
(* The inductive invariant.                                                *)

RunType ==
    [reason : Reasons \cup {NoTask}, old : Revisions \cup {NoRevision},
     new : Revisions \cup {NoRevision}, stacks : RequestLists, changed : SUBSET Stacks]

DispatchType == [rev : Revisions \cup {NoRevision}, stacks : RequestLists]

Places == {"down", "idle", "resolve", "pause", "reload", "networks", "dispatch", "record",
           "resume", "cleanup", "draining", "released"}

\* The variables of the control loop as wholes.
Shape ==
    /\ remote \in Revisions /\ head \in Revisions
    /\ accepted \in Revisions \cup {NoRevision}
    /\ slot \in Reasons \cup {NoTask} /\ shutdown \in BOOLEAN /\ pc \in Places
    /\ run \in RunType /\ todo \in Seq(Stacks) /\ dispatch \in DispatchType
    /\ gitRevision \in Revisions \cup {NoRevision}

\* The queue is paused exactly from Pause to the deferred Resume; it has not started before
\* Boot and has no worker left after Release.
PauseInv ==
    /\ paused <=> pc \in {"reload", "networks", "dispatch", "record", "resume"}
    /\ pc = "down" => ~started
    /\ pc = "released" => Drained

\* Waiting work is of the configuration accepted last, except between Reload and the
\* Replace or Clear that follows it.
CurrentInv ==
    pc \notin {"networks", "dispatch"} => \A s \in DOMAIN pending :
        pending[s].rev = accepted /\ s \in Image(ConfigOf[accepted])

\* A run has a revision, and after Reload it is the accepted one with its stacks.
RunInv ==
    /\ pc \in {"pause", "reload", "networks", "dispatch", "record"} => run.new \in Revisions
    /\ pc \in {"networks", "dispatch", "record"} =>
          accepted = run.new /\ Image(run.stacks) = Image(ConfigOf[run.new])

\* What the last dispatch remembers is the accepted configuration.
DispatchInv ==
    /\ dispatch # NoDispatch =>
          /\ accepted \in Revisions /\ dispatch.rev = accepted
          /\ Image(dispatch.stacks) = Image(ConfigOf[accepted])
    /\ pc = "record" => dispatch.rev = run.new
    /\ pc = "cleanup" =>
          dispatch # NoDispatch /\ todo # <<>> /\ Image(todo) \subseteq Image(dispatch.stacks)

\* A periodic cleanup is neither manual nor changed.
CleanupUnmarked ==
    \A s \in DOMAIN pending :
        pending[s].kind = "cleanup" => ~pending[s].changed /\ ~pending[s].manual

LoopInv == Shape /\ PauseInv /\ CurrentInv /\ RunInv /\ DispatchInv /\ CleanupUnmarked

ControlIInv == IInv /\ LoopInv

-----------------------------------------------------------------------------
(* Constants.                                                              *)

\* The empty list is a request list: that of no stack.
LEMMA EmptyList == <<>> \in RequestLists /\ Image(<<>>) = {}
<1>1. Cardinality({}) = 0 BY FS_EmptySet
<1>2. <<>> \in [1..0 -> {}] /\ DOMAIN <<>> = {} OBVIOUS
<1>3. Image(<<>>) = {} /\ Distinct(<<>>) BY <1>2 DEF Image, Distinct
<1>4. <<>> \in Orderings({}) BY <1>1, <1>2, <1>3 DEF Orderings
<1> QED BY <1>3, <1>4 DEF RequestLists

\* What is configured at a revision.
LEMMA ConfigFacts ==
    ASSUME NEW r \in Revisions
    PROVE  /\ ConfigOf[r] \in RequestLists /\ Image(ConfigOf[r]) \subseteq Stacks /\ r # NoRevision
           /\ \A old : Diff(old, r) \in SUBSET Stacks
<1>1. ConfigOf[r] \in RequestLists BY ConfigsAreLists
<1>2. Image(ConfigOf[r]) \subseteq Stacks BY <1>1 DEF RequestLists, Orderings
<1>3. r # NoRevision BY RevisionsAreNumbered
<1> QED BY <1>1, <1>2, <1>3 DEF Diff

\* A request list is a sequence of stacks.
LEMMA ListFacts ==
    ASSUME NEW q \in RequestLists
    PROVE  q \in Seq(Stacks) /\ Image(q) \subseteq Stacks
<1>1. PICK S \in SUBSET Stacks : q \in Orderings(S) BY DEF RequestLists
<1>2. IsFiniteSet(S) BY StacksFinite, FS_Subset
<1>3. q \in Seq(S) /\ Image(q) = S BY <1>1, <1>2, OrderingFacts
<1> QED BY <1>3

\* No run and no dispatch.
LEMMA NoRunType ==
    /\ NoRun \in RunType /\ NoDispatch \in DispatchType /\ NoDispatch.rev = NoRevision
    /\ \A reason \in Reasons \cup {NoTask} : [NoRun EXCEPT !.reason = reason] \in RunType
BY EmptyList DEF NoRun, NoDispatch, RunType, DispatchType

-----------------------------------------------------------------------------
(* Steps that leave the queue alone.                                       *)

\* The facts about waiting work only depend on the queue and on what was accepted.
LEMMA OutsideKeeps ==
    ASSUME LoopInv, UNCHANGED <<queueVars, accepted, pc, run, todo, dispatch, gitRevision>>,
           remote' \in Revisions, head' \in Revisions,
           slot' \in Reasons \cup {NoTask}, shutdown' \in BOOLEAN
    PROVE  LoopInv'
<1>1. UNCHANGED <<pending, paused, started, awake, asleep, executing>> BY DEF queueVars
<1>2. Shape' BY DEF LoopInv, Shape
<1>3. PauseInv' /\ CurrentInv' /\ CleanupUnmarked'
  BY <1>1 DEF LoopInv, PauseInv, CurrentInv, CleanupUnmarked, Drained
<1>4. RunInv' /\ DispatchInv' BY DEF LoopInv, RunInv, DispatchInv
<1> QED BY <1>2, <1>3, <1>4 DEF LoopInv

\* The branch moves, a task is scheduled, or the process is asked to end.
LEMMA AroundKeeps ==
    ASSUME LoopInv, Push \/ Shutdown \/ (\E reason \in Reasons : Schedule(reason))
    PROVE  LoopInv'
<1>1. CASE Push BY <1>1, OutsideKeeps DEF Push, LoopInv, Shape
<1>2. CASE Shutdown BY <1>2, OutsideKeeps DEF Shutdown, LoopInv, Shape
<1>3. CASE \E reason \in Reasons : Schedule(reason) BY <1>3, OutsideKeeps DEF Schedule, LoopInv, Shape
<1> QED BY <1>1, <1>2, <1>3

\* Ownership is given up, without having been gained or after the workers have ended.
LEMMA ReleaseKeeps ==
    ASSUME ControlIInv, BootCancelled \/ Release
    PROVE  LoopInv'
<1>1. /\ UNCHANGED <<queueVars, remote, head, accepted, slot, shutdown, run, todo, dispatch, gitRevision>>
      /\ pc \in {"down", "draining"} /\ pc' = "released"
  BY DEF BootCancelled, Release
<1>2. Drained
  <2>1. CASE pc = "down"
    <3>1. ~started BY <2>1 DEF ControlIInv, LoopInv, PauseInv
    <3>2. awake = {} /\ asleep = {} /\ DOMAIN executing = {} BY <3>1 DEF ControlIInv, IInv, WorkersApart
    <3>3. executing = EmptyMap BY <3>2, EmptyMapFacts DEF ControlIInv, IInv, TypeOK
    <3> QED BY <3>2, <3>3 DEF Drained
  <2>2. CASE pc = "draining" BY <2>2 DEF BootCancelled, Release
  <2> QED BY <1>1, <2>1, <2>2
<1>3. LoopInv BY DEF ControlIInv
<1>4. UNCHANGED <<pending, paused, started, awake, asleep, executing>> BY <1>1 DEF queueVars
<1>5. Shape' BY <1>1, <1>3 DEF LoopInv, Shape, Places
<1>6. PauseInv' /\ CurrentInv' /\ CleanupUnmarked'
  BY <1>1, <1>2, <1>3, <1>4 DEF LoopInv, PauseInv, CurrentInv, CleanupUnmarked, Drained
<1>7. RunInv' /\ DispatchInv' BY <1>1, <1>3 DEF LoopInv, RunInv, DispatchInv
<1> QED BY <1>5, <1>6, <1>7 DEF LoopInv

\* The loop takes a task, polls, or begins a cleanup.
LEMMA IdleKeeps ==
    ASSUME LoopInv, TakeTask \/ CleanupTick \/ \E ok \in BOOLEAN : PollTick(ok)
    PROVE  LoopInv'
<1>1. UNCHANGED queueVars /\ pc = "idle" /\ accepted' = accepted /\ dispatch' = dispatch
      /\ UNCHANGED <<remote, shutdown, gitRevision>>
  BY DEF TakeTask, CleanupTick, PollTick
<1>2. UNCHANGED <<pending, paused, started, awake, asleep, executing>> BY <1>1 DEF queueVars
<1>3. CleanupUnmarked' BY <1>2 DEF LoopInv, CleanupUnmarked
<1>4. CASE TakeTask
  <2>1. run' = [NoRun EXCEPT !.reason = slot] /\ slot' = NoTask /\ pc' = "resolve" /\ UNCHANGED <<head, todo>>
    BY <1>4 DEF TakeTask
  <2>2. run' \in RunType BY <2>1, NoRunType DEF LoopInv, Shape
  <2> QED BY <1>1, <1>2, <1>3, <2>1, <2>2
      DEF LoopInv, Shape, Places, PauseInv, CurrentInv, RunInv, DispatchInv
<1>5. CASE CleanupTick
  <2>1. /\ dispatch # NoDispatch /\ dispatch.stacks # <<>> /\ todo' = dispatch.stacks /\ pc' = "cleanup"
        /\ UNCHANGED <<head, slot, run>>
    BY <1>5 DEF CleanupTick
  <2>2. todo' \in Seq(Stacks) BY <2>1, ListFacts DEF LoopInv, Shape, DispatchType
  <2> QED BY <1>1, <1>2, <1>3, <2>1, <2>2
      DEF LoopInv, Shape, Places, PauseInv, CurrentInv, RunInv, DispatchInv
<1>6. ASSUME NEW ok \in BOOLEAN, PollTick(ok) PROVE LoopInv'
  <2>1. UNCHANGED <<slot, todo>> BY <1>6 DEF PollTick
  <2>2. CASE ok /\ Pull # head
    <3>1. run' = [NoRun EXCEPT !.reason = "poll", !.old = head, !.new = Pull] /\ head' = Pull /\ pc' = "pause"
      BY <1>6, <2>2 DEF PollTick
    <3>2. head \in Revisions /\ Pull \in Revisions BY DEF LoopInv, Shape, Pull
    <3>3. run' \in RunType /\ run'.new = Pull BY <3>1, <3>2, EmptyList DEF NoRun, RunType, Reasons
    <3> QED BY <1>1, <1>2, <1>3, <2>1, <3>1, <3>2, <3>3
        DEF LoopInv, Shape, Places, PauseInv, CurrentInv, RunInv, DispatchInv
  <2>3. CASE ~(ok /\ Pull # head)
    <3>1. head' \in {head, Pull} /\ UNCHANGED <<run, pc>> BY <1>6, <2>3 DEF PollTick
    <3> QED BY <1>1, <2>1, <3>1, OutsideKeeps DEF LoopInv, Shape, Pull
  <2> QED BY <2>2, <2>3
<1> QED BY <1>4, <1>5, <1>6

\* The stages of a run that leave the queue alone.
LEMMA StageKeeps ==
    ASSUME LoopInv, NEW ok \in BOOLEAN, ResolveGit(ok) \/ Reload(ok) \/ Record(ok)
    PROVE  LoopInv'
<1>1. UNCHANGED queueVars /\ UNCHANGED <<remote, slot, shutdown, todo>>
  BY DEF ResolveGit, Reload, Record
<1>2. UNCHANGED <<pending, paused, started, awake, asleep, executing>> BY <1>1 DEF queueVars
<1>3. CleanupUnmarked' BY <1>2 DEF LoopInv, CleanupUnmarked
<1>4. CASE ResolveGit(ok)
  <2> PICK new : new = IF run.reason = "interval" THEN head ELSE Pull OBVIOUS
  <2>1. /\ pc = "resolve" /\ UNCHANGED <<accepted, dispatch, gitRevision>>
        /\ new \in Revisions /\ head \in Revisions /\ run \in RunType
    BY <1>4 DEF ResolveGit, LoopInv, Shape, Pull
  <2>2. CASE ok
    <3>1. run' = [run EXCEPT !.old = head, !.new = new] /\ head' = new /\ pc' = "pause"
      BY <1>4, <2>2 DEF ResolveGit
    <3>2. run' \in RunType /\ run'.new = new BY <2>1, <3>1 DEF RunType
    <3> QED BY <1>1, <1>2, <1>3, <2>1, <3>1, <3>2
        DEF LoopInv, Shape, Places, PauseInv, CurrentInv, RunInv, DispatchInv
  <2>3. CASE ~ok
    <3>1. head' \in {head, new} /\ run' = NoRun /\ pc' = "idle" BY <1>4, <2>3 DEF ResolveGit
    <3> QED BY <1>1, <1>2, <1>3, <2>1, <3>1, NoRunType
        DEF LoopInv, Shape, Places, PauseInv, CurrentInv, RunInv, DispatchInv
  <2> QED BY <2>2, <2>3
<1>5. CASE Reload(ok)
  <2>1. pc = "reload" /\ UNCHANGED <<head, gitRevision>> /\ run.new \in Revisions /\ run \in RunType
    BY <1>5 DEF Reload, LoopInv, RunInv, Shape
  <2>2. CASE ok
    <3>1. PICK changed \in {Diff(run.old, run.new), {}} :
            run' = [run EXCEPT !.changed = changed, !.stacks = Plan(ConfigOf[run.new], changed)]
      BY <1>5, <2>2 DEF Reload
    <3>2. accepted' = run.new /\ dispatch' = NoDispatch /\ pc' = "networks" BY <1>5, <2>2 DEF Reload
    <3> PICK plan : plan = Plan(ConfigOf[run.new], changed) OBVIOUS
    <3>3. ConfigOf[run.new] \in RequestLists /\ changed \in SUBSET Stacks
      BY <2>1, ConfigFacts
    <3>4. plan \in RequestLists /\ Image(plan) = Image(ConfigOf[run.new]) BY <3>3, PlanListsConfig
    <3> DEFINE r1 == [run EXCEPT !.changed = changed]
               r == [r1 EXCEPT !.stacks = plan]
    <3>5. r1 \in RunType BY <2>1, <3>3 DEF RunType
    <3>6. r \in RunType /\ r.new = run.new /\ r.stacks = plan BY <2>1, <3>4, <3>5 DEF RunType
    <3>7. run' = r BY <3>1
    <3> HIDE DEF r
    <3> QED BY <1>1, <1>2, <1>3, <2>1, <3>2, <3>4, <3>6, <3>7, NoRunType
        DEF LoopInv, Shape, Places, PauseInv, CurrentInv, RunInv, DispatchInv
  <2>3. CASE ~ok
    <3>1. pc' = "resume" /\ UNCHANGED <<accepted, dispatch, run>> BY <1>5, <2>3 DEF Reload
    <3> QED BY <1>1, <1>2, <1>3, <2>1, <3>1
        DEF LoopInv, Shape, Places, PauseInv, CurrentInv, RunInv, DispatchInv
  <2> QED BY <2>2, <2>3
<1>6. CASE Record(ok)
  <2>1. /\ pc = "record" /\ pc' = "resume" /\ UNCHANGED <<head, accepted, run, dispatch>>
        /\ gitRevision' \in {run.new, gitRevision} /\ run.new \in Revisions
    BY <1>6 DEF Record, LoopInv, RunInv
  <2> QED BY <1>1, <1>2, <1>3, <2>1
      DEF LoopInv, Shape, Places, PauseInv, CurrentInv, RunInv, DispatchInv
<1> QED BY <1>4, <1>5, <1>6

-----------------------------------------------------------------------------
(* Steps that call the queue.                                              *)

\* Start, Stop, Pause and Resume: work is kept, or all of it is dropped.
LEMMA LifecycleKeeps ==
    ASSUME LoopInv, Boot \/ StopStacks \/ PauseStacks \/ ResumeStacks
    PROVE  LoopInv'
<1>1. UNCHANGED <<remote, head, accepted, shutdown, todo, dispatch, gitRevision>>
  BY DEF Boot, StopStacks, PauseStacks, ResumeStacks
<1>2. DOMAIN EmptyMap = {} BY EmptyMapFacts
<1>3. CASE Boot
  <2>1. /\ pc = "down" /\ pc' = "idle" /\ slot' = "startup" /\ run' = run
        /\ UNCHANGED <<pending, paused>> /\ started' = TRUE
    BY <1>3 DEF Boot, Start
  <2> QED BY <1>1, <2>1 DEF LoopInv, Shape, Places, Reasons, PauseInv, CurrentInv, RunInv, DispatchInv, CleanupUnmarked
<1>4. CASE StopStacks
  <2>1. /\ pc = "idle" /\ pc' = "draining" /\ UNCHANGED <<slot, run, paused, started>> /\ pending' = EmptyMap
    BY <1>4 DEF StopStacks, Stop
  <2> QED BY <1>1, <1>2, <2>1 DEF LoopInv, Shape, Places, PauseInv, CurrentInv, RunInv, DispatchInv, CleanupUnmarked
<1>5. CASE PauseStacks
  <2>1. /\ pc = "pause" /\ pc' = "reload" /\ UNCHANGED <<slot, run, pending, started>> /\ paused' = TRUE
    BY <1>5 DEF PauseStacks, Pause
  <2> QED BY <1>1, <2>1 DEF LoopInv, Shape, Places, PauseInv, CurrentInv, RunInv, DispatchInv, CleanupUnmarked
<1>6. CASE ResumeStacks
  <2>1. /\ pc = "resume" /\ pc' = "idle" /\ UNCHANGED <<slot, pending, started>> /\ run' = NoRun /\ paused' = FALSE
    BY <1>6 DEF ResumeStacks, Resume
  <2> QED BY <1>1, <2>1, NoRunType
      DEF LoopInv, Shape, Places, PauseInv, CurrentInv, RunInv, DispatchInv, CleanupUnmarked
<1> QED BY <1>3, <1>4, <1>5, <1>6

\* A crash forgets the configuration with the work.
LEMMA CrashKeeps ==
    ASSUME LoopInv, Crash
    PROVE  New' /\ LoopInv'
<1>1. /\ pending' = EmptyMap /\ paused' = FALSE /\ started' = FALSE /\ pc' = "down" /\ run' = NoRun
      /\ accepted' = NoRevision /\ slot' = NoTask /\ shutdown' = FALSE /\ todo' = <<>>
      /\ dispatch' = NoDispatch /\ UNCHANGED <<remote, head, gitRevision>>
  BY DEF Crash
<1>2. DOMAIN EmptyMap = {} BY EmptyMapFacts
<1>3. Shape'
  <2>1. todo' \in Seq(Stacks) BY <1>1, EmptySeq
  <2> QED BY <1>1, <2>1, NoRunType DEF LoopInv, Shape, Places
<1>4. PauseInv' /\ CurrentInv' /\ RunInv' /\ DispatchInv' /\ CleanupUnmarked'
  BY <1>1, <1>2 DEF PauseInv, CurrentInv, RunInv, DispatchInv, CleanupUnmarked
<1> QED BY <1>3, <1>4 DEF LoopInv, Crash, New

\* The network stage keeps the work, or drops all of it.
LEMMA NetworksKeeps ==
    ASSUME LoopInv, NEW ok \in BOOLEAN, Networks(ok)
    PROVE  LoopInv'
<1>1. /\ pc = "networks" /\ UNCHANGED <<remote, head, accepted, slot, shutdown, run, todo, dispatch, gitRevision>>
  BY DEF Networks
<1>2. DOMAIN EmptyMap = {} BY EmptyMapFacts
<1>3. CASE ok
  <2>1. pc' = "dispatch" /\ UNCHANGED <<pending, paused, started>> BY <1>3 DEF Networks, queueVars
  <2> QED BY <1>1, <2>1 DEF LoopInv, Shape, Places, PauseInv, CurrentInv, RunInv, DispatchInv, CleanupUnmarked
<1>4. CASE ~ok
  <2>1. pc' = "resume" /\ pending' = EmptyMap /\ UNCHANGED <<paused, started>>
    BY <1>4 DEF Networks, Clear, drop
  <2> QED BY <1>1, <1>2, <2>1
      DEF LoopInv, Shape, Places, PauseInv, CurrentInv, RunInv, DispatchInv, CleanupUnmarked
<1> QED BY <1>3, <1>4

\* The work that a dispatch leaves waiting.
LEMMA DispatchedWork ==
    ASSUME NEW reqs, NEW rev, NEW manual, NEW changed, Replace(reqs, rev, manual, changed)
    PROVE  /\ DOMAIN pending' \subseteq Image(reqs)
           /\ \A s \in DOMAIN pending' : pending'[s] = Superseding(s, rev, manual, changed)
           /\ \A s \in Image(reqs) \ DOMAIN pending' :
                 AlreadyApplying(s, Superseding(s, rev, manual, changed))
<1> DEFINE op(s) == Superseding(s, rev, manual, changed)
           kept == {t \in Image(reqs) : ~AlreadyApplying(t, op(t))}
<1>1. pending' = [s \in kept |-> op(s)] BY DEF Replace
<1> QED BY <1>1

\* A dispatch replaces all waiting work by that of the accepted configuration.
LEMMA DispatchKeeps ==
    ASSUME LoopInv, DispatchStacks
    PROVE  LoopInv'
<1>1. /\ pc = "dispatch" /\ pc' = "record" /\ dispatch' = [rev |-> run.new, stacks |-> run.stacks]
      /\ Replace(run.stacks, run.new, run.reason = "manual", run.changed)
      /\ UNCHANGED <<remote, head, accepted, slot, shutdown, run, todo, gitRevision>>
  BY DEF DispatchStacks
<1>2. /\ run \in RunType /\ run.new \in Revisions /\ accepted = run.new
      /\ Image(run.stacks) = Image(ConfigOf[run.new]) /\ run.new # NoRevision
  BY <1>1, ConfigFacts DEF LoopInv, Shape, RunInv
<1>3. UNCHANGED <<paused, started>> BY <1>1 DEF Replace
<1>4. /\ DOMAIN pending' \subseteq Image(run.stacks)
      /\ \A s \in DOMAIN pending' : pending'[s] = Superseding(s, run.new, run.reason = "manual", run.changed)
  BY <1>1, DispatchedWork
<1>5. \A s \in DOMAIN pending' : pending'[s].rev = run.new /\ pending'[s].kind = "reconcile"
  BY <1>4 DEF Superseding
<1>6. dispatch' \in DispatchType /\ dispatch'.rev = run.new /\ dispatch'.stacks = run.stacks
  BY <1>1, <1>2 DEF DispatchType, RunType
<1>7. Shape' BY <1>1, <1>6 DEF LoopInv, Shape, Places
<1>8. PauseInv' BY <1>1, <1>3 DEF LoopInv, PauseInv
<1>9. CurrentInv' BY <1>1, <1>2, <1>4, <1>5 DEF CurrentInv
<1>10. RunInv' /\ DispatchInv' BY <1>1, <1>2, <1>6 DEF RunInv, DispatchInv
<1>11. CleanupUnmarked' BY <1>5 DEF CleanupUnmarked
<1> QED BY <1>7, <1>8, <1>9, <1>10, <1>11 DEF LoopInv

\* A cleanup tick submits the next stack of the last dispatch.
LEMMA CleanupStackKeeps ==
    ASSUME LoopInv, CleanupStack
    PROVE  LoopInv'
<1>1. /\ pc = "cleanup" /\ todo' = Tail(todo) /\ pc' = IF Tail(todo) = <<>> THEN "idle" ELSE "cleanup"
      /\ UNCHANGED <<remote, head, accepted, slot, shutdown, run, dispatch, gitRevision>>
      /\ SubmitCleanup(Head(todo), dispatch.rev) \/ UNCHANGED queueVars
  BY DEF CleanupStack
<1>2. /\ todo \in Seq(Stacks) /\ todo # <<>> /\ Image(todo) \subseteq Image(dispatch.stacks)
      /\ dispatch.rev = accepted /\ Image(dispatch.stacks) = Image(ConfigOf[accepted])
  BY <1>1 DEF LoopInv, Shape, DispatchInv
<1>3. Tail(todo) \in Seq(Stacks) /\ Head(todo) \in Image(todo) /\ Image(Tail(todo)) \subseteq Image(todo)
  <2>1. Len(todo) \in Nat \ {0} /\ DOMAIN todo = 1..Len(todo) BY <1>2
  <2>2. Tail(todo) \in Seq(Stacks) /\ Len(Tail(todo)) = Len(todo) - 1
        /\ \A i \in 1..(Len(todo) - 1) : Tail(todo)[i] = todo[i + 1]
    BY <1>2
  <2>3. DOMAIN Tail(todo) = 1..(Len(todo) - 1) BY <2>2
  <2>4. Head(todo) = todo[1] BY <1>2
  <2> QED BY <2>1, <2>2, <2>3, <2>4 DEF Image
<1>4. /\ UNCHANGED <<paused, started>>
      /\ \A s \in DOMAIN pending' :
            \/ s \in DOMAIN pending /\ pending'[s] = pending[s]
            \/ /\ s = Head(todo)
               /\ pending'[s] = [kind |-> "cleanup", rev |-> dispatch.rev, manual |-> FALSE, changed |-> FALSE]
  <2>1. CASE UNCHANGED queueVars BY <2>1 DEF queueVars
  <2>2. CASE SubmitCleanup(Head(todo), dispatch.rev) BY <2>2 DEF SubmitCleanup, With
  <2> QED BY <1>1, <2>1, <2>2
<1>5. Shape' BY <1>1, <1>3 DEF LoopInv, Shape, Places
<1>6. PauseInv' BY <1>1, <1>4 DEF LoopInv, PauseInv
<1>7. CurrentInv'
  <2> SUFFICES ASSUME NEW s \in DOMAIN pending'
               PROVE  pending'[s].rev = accepted /\ s \in Image(ConfigOf[accepted])
    BY <1>1 DEF CurrentInv
  <2>1. s \in DOMAIN pending => pending[s].rev = accepted /\ s \in Image(ConfigOf[accepted])
    BY <1>1 DEF LoopInv, CurrentInv
  <2> QED BY <1>2, <1>3, <1>4, <2>1
<1>8. RunInv' BY <1>1 DEF LoopInv, RunInv
<1>9. DispatchInv' BY <1>1, <1>2, <1>3 DEF LoopInv, DispatchInv
<1>10. CleanupUnmarked' BY <1>4 DEF LoopInv, CleanupUnmarked
<1> QED BY <1>5, <1>6, <1>7, <1>8, <1>9, <1>10 DEF LoopInv

\* A worker only takes work away.
LEMMA WorkerKeeps ==
    ASSUME LoopInv, NEW w \in Workers, Worker(w), UNCHANGED ctlVars
    PROVE  LoopInv'
<1>1. UNCHANGED <<remote, head, accepted, slot, shutdown, pc, run, todo, dispatch, gitRevision>>
  BY DEF ctlVars
<1>2. /\ UNCHANGED <<paused, started>>
      /\ \A s \in DOMAIN pending' : s \in DOMAIN pending /\ pending'[s] = pending[s]
  BY DEF Worker, Sleep, Exit, Take, Finish, Without
<1>3. ~Drained BY DEF Worker, Sleep, Exit, Take, Finish, Drained, EmptyMap
<1>4. Shape' BY <1>1 DEF LoopInv, Shape
<1>5. PauseInv' BY <1>1, <1>2, <1>3 DEF LoopInv, PauseInv
<1>6. CurrentInv' /\ CleanupUnmarked' BY <1>1, <1>2 DEF LoopInv, CurrentInv, CleanupUnmarked
<1>7. RunInv' /\ DispatchInv' BY <1>1 DEF LoopInv, RunInv, DispatchInv
<1> QED BY <1>4, <1>5, <1>6, <1>7 DEF LoopInv

-----------------------------------------------------------------------------
(* Every step.                                                             *)

\* The control loop is one of the callers that the queue is proved for.
LEMMA QueueStep ==
    ASSUME ControlIInv, ControlNext
    PROVE  IInv'
<1>1. IInv /\ LoopInv BY DEF ControlIInv
<1>2. CASE UNCHANGED queueVars BY <1>1, <1>2, NextKeeps
<1>3. CASE Next BY <1>1, <1>3, NextKeeps
<1>4. CASE Boot BY <1>3, <1>4 DEF Boot, Next, Caller
<1>5. CASE StopStacks BY <1>3, <1>5 DEF StopStacks, Next, Caller
<1>6. CASE PauseStacks BY <1>3, <1>6 DEF PauseStacks, Next, Caller
<1>7. CASE ResumeStacks BY <1>3, <1>7 DEF ResumeStacks, Next, Caller
<1>8. CASE Crash
  <2>1. New' BY <1>1, <1>8, CrashKeeps
  <2>2. New' => IInv' BY NewEstablishes, PTL
  <2> QED BY <2>1, <2>2
<1>9. ASSUME NEW ok \in BOOLEAN, Networks(ok) PROVE IInv'
  <2>1. run.changed \in SUBSET Stacks BY <1>1 DEF LoopInv, Shape, RunType
  <2> QED BY <1>2, <1>3, <1>9, <2>1 DEF Networks, Next, Caller
<1>10. CASE DispatchStacks
  <2>1. /\ Replace(run.stacks, run.new, run.reason = "manual", run.changed)
        /\ run.stacks \in RequestLists /\ run.new \in Revisions /\ run.changed \in SUBSET Stacks
    BY <1>1, <1>10 DEF DispatchStacks, LoopInv, Shape, RunInv, RunType
  <2>2. (run.reason = "manual") \in BOOLEAN OBVIOUS
  <2> QED BY <1>1, <2>1, <2>2, ReplaceKeeps
<1>11. CASE CleanupStack
  <2>1. /\ UNCHANGED queueVars \/ SubmitCleanup(Head(todo), dispatch.rev)
        /\ todo \in Seq(Stacks) /\ todo # <<>> /\ dispatch.rev \in Revisions
    BY <1>1, <1>11 DEF CleanupStack, LoopInv, Shape, DispatchInv
  <2>2. Head(todo) \in Stacks BY <2>1
  <2> QED BY <1>1, <1>2, <2>1, <2>2, SubmitCleanupKeeps
<1>12. ASSUME NEW w \in Workers, Admission(w) \/ FinishOperation(w) PROVE IInv'
  BY <1>3, <1>12 DEF Admission, FinishOperation, Next, Worker
<1>13. CASE Push \/ Request \/ Shutdown \/ BootCancelled \/ Release \/ IntervalTick \/ TakeTask \/ CleanupTick
  BY <1>2, <1>13 DEF Push, Request, Schedule, Shutdown, BootCancelled, Release, IntervalTick, TakeTask, CleanupTick
<1>14. ASSUME NEW ok \in BOOLEAN, PollTick(ok) \/ ResolveGit(ok) \/ Reload(ok) \/ Record(ok) PROVE IInv'
  BY <1>2, <1>14 DEF PollTick, ResolveGit, Reload, Record
<1> QED BY <1>4, <1>5, <1>6, <1>7, <1>8, <1>9, <1>10, <1>11, <1>12, <1>13, <1>14
        DEF ControlNext, Controller, RunStep

\* So is what the loop keeps about it.
LEMMA LoopStep ==
    ASSUME ControlIInv, ControlNext
    PROVE  LoopInv'
<1>1. LoopInv BY DEF ControlIInv
<1>2. CASE Request \/ IntervalTick
  BY <1>1, <1>2, AroundKeeps, RequestsAreTriggers DEF Request, IntervalTick, Reasons
<1>3. ASSUME NEW w \in Workers, Admission(w) \/ FinishOperation(w) PROVE LoopInv'
  BY <1>1, <1>3, WorkerKeeps DEF Admission, FinishOperation, Worker
<1>4. ASSUME NEW ok \in BOOLEAN, PollTick(ok) \/ RunStep(ok) PROVE LoopInv'
  BY <1>1, <1>4, IdleKeeps, StageKeeps, NetworksKeeps DEF RunStep
<1> QED BY <1>1, <1>2, <1>3, <1>4, AroundKeeps, ReleaseKeeps, IdleKeeps, LifecycleKeeps, CrashKeeps,
           DispatchKeeps, CleanupStackKeeps
        DEF ControlNext, Controller

\* ControlIInv is inductive.
LEMMA ControlStep == ControlIInv /\ [ControlNext]_vars => ControlIInv'
<1> SUFFICES ASSUME ControlIInv, [ControlNext]_vars PROVE ControlIInv' OBVIOUS
<1>1. CASE ControlNext BY <1>1, QueueStep, LoopStep DEF ControlIInv
<1>2. CASE UNCHANGED vars
  <2>1. UNCHANGED queueVars /\ UNCHANGED ctlVars BY <1>2 DEF vars
  <2>2. IInv' BY <2>1, NextKeeps DEF ControlIInv
  <2>3. LoopInv' BY <2>1, OutsideKeeps DEF ControlIInv, LoopInv, Shape, ctlVars
  <2> QED BY <2>2, <2>3 DEF ControlIInv
<1> QED BY <1>1, <1>2

\* ControlIInv holds throughout.
LEMMA ControlHolds == ControlSpec => []ControlIInv
<1>1. Init => ControlIInv
  <2> SUFFICES ASSUME Init PROVE ControlIInv OBVIOUS
  <2>1. IInv BY NewEstablishes DEF Init
  <2>2. /\ pending = EmptyMap /\ paused = FALSE /\ started = FALSE /\ remote \in Revisions /\ head = remote
        /\ accepted = NoRevision /\ slot = NoTask /\ shutdown = FALSE /\ pc = "down" /\ run = NoRun
        /\ todo = <<>> /\ dispatch = NoDispatch /\ gitRevision = NoRevision
    BY DEF Init, New
  <2>3. todo \in Seq(Stacks) BY <2>2, EmptySeq
  <2>4. Shape BY <2>2, <2>3, NoRunType DEF Shape, Places
  <2>5. PauseInv /\ CurrentInv /\ RunInv /\ DispatchInv /\ CleanupUnmarked
    BY <2>2, EmptyMapFacts DEF PauseInv, CurrentInv, RunInv, DispatchInv, CleanupUnmarked
  <2> QED BY <2>1, <2>4, <2>5 DEF ControlIInv, LoopInv
<1> QED BY <1>1, ControlStep, PTL DEF ControlSpec

-----------------------------------------------------------------------------
(* The theorems.                                                           *)

(***************************************************************************)
(* The queue keeps all its guarantees inside the controller: no stack runs *)
(* twice at a time, no waiting work is forgotten and no wakeup lost,       *)
(* across sync runs, cleanups, shutdown, crash and restart.                *)
(***************************************************************************)
THEOREM QueueSoundInController ==
    ControlSpec => [](OneOperationPerStack /\ ReadyIsWaiting /\ ChangedFirst /\ NoLostWakeup /\ IdleTracksWork)
<1>1. ControlIInv => OneOperationPerStack /\ ReadyIsWaiting /\ ChangedFirst /\ NoLostWakeup /\ IdleTracksWork
  BY DEF ControlIInv, IInv
<1> QED BY <1>1, ControlHolds, PTL

(***************************************************************************)
(* No worker may start work of a superseded configuration, and ownership   *)
(* is released only when nothing executes (runner.go, queue.go,            *)
(* controller.go).                                                         *)
(***************************************************************************)
THEOREM ControlCorrect == ControlSpec => []ControlInvariant
<1>1. ControlIInv => ControlInvariant
  <2> SUFFICES ASSUME ControlIInv PROVE ControlInvariant OBVIOUS
  <2>1. ControlTypeOK
    <3>1. Image(todo) \subseteq Stacks
      <4>1. todo \in Seq(Stacks) BY DEF ControlIInv, LoopInv, Shape
      <4>2. \A i \in DOMAIN todo : todo[i] \in Stacks BY <4>1
      <4> QED BY <4>2 DEF Image
    <3> QED BY <3>1 DEF ControlIInv, IInv, LoopInv, Shape, Places, RunType, ControlTypeOK
  <2>2. AdmittedWorkIsCurrent BY DEF ControlIInv, LoopInv, PauseInv, CurrentInv, AdmittedWorkIsCurrent
  <2>3. ReleasedIsQuiet BY DEF ControlIInv, LoopInv, PauseInv, ReleasedIsQuiet, Drained
  <2> QED BY <2>1, <2>2, <2>3 DEF ControlInvariant
<1> QED BY <1>1, ControlHolds, PTL

(***************************************************************************)
(* The persisted GitRevision only moves to a revision that the queue took  *)
(* over (Runner.run: record after dispatch).                               *)
(***************************************************************************)
THEOREM OnlyDispatchedIsRecorded == ControlSpec => RecordedRevisionIsDispatched
<1>1. ControlIInv /\ [ControlNext]_vars => [RevisionRecorded]_vars
  <2> SUFFICES ASSUME ControlIInv, ControlNext, gitRevision' # gitRevision PROVE gitRevision' = dispatch.rev
    BY DEF RevisionRecorded
  <2>1. PICK ok \in BOOLEAN : Record(ok)
    BY DEF ControlNext, Controller, RunStep, Push, Request, Schedule, Shutdown, Crash, Boot, BootCancelled,
           StopStacks, Release, IntervalTick, TakeTask, CleanupTick, CleanupStack, PauseStacks, DispatchStacks,
           ResumeStacks, PollTick, ResolveGit, Reload, Networks, Admission, FinishOperation, ctlVars
  <2> QED BY <2>1 DEF Record, ControlIInv, LoopInv, DispatchInv
<1> QED BY <1>1, ControlHolds, PTL DEF ControlSpec, RecordedRevisionIsDispatched

-----------------------------------------------------------------------------
(* The marks of waiting work.                                              *)

\* A step that keeps the waiting work and a planned run keeps all marks.
LEMMA SameMarks ==
    ASSUME UNCHANGED <<pending, changedAfterFailure>>,
           pc \in {"networks", "dispatch"} => pc' \in {"networks", "dispatch"} /\ run' = run
    PROVE  PriorityKept /\ ManualKept
BY DEF PriorityKept, ManualKept, Prioritized

\* The queue's side of a step that adds work or takes it to run it.
LEMMA MovedMarks ==
    ASSUME UNCHANGED <<changedAfterFailure, pc, run>>,
           \A s \in DOMAIN pending :
              \/ s \in DOMAIN pending' /\ pending'[s] = pending[s]
              \/ s \in DOMAIN running' /\ running'[s] = pending[s]
    PROVE  PriorityKept /\ ManualKept
BY DEF PriorityKept, ManualKept, Prioritized

\* A failed run drops waiting work and remembers what was changed.
LEMMA ClearedMarks ==
    ASSUME ControlIInv, Networks(FALSE)
    PROVE  PriorityKept /\ ManualKept
<1>1. /\ pc = "networks" /\ pc' = "resume"
      /\ changedAfterFailure' = changedAfterFailure \cup run.changed \cup
            {s \in DOMAIN pending : pending[s].kind = "reconcile" /\ pending[s].changed}
  BY DEF Networks, Clear
<1>2. \A s \in DOMAIN pending : pending[s].changed => pending[s].kind = "reconcile"
  <2>1. \A s \in DOMAIN pending : pending[s].kind \in {"reconcile", "cleanup"}
    BY DEF ControlIInv, IInv, TypeOK, Operation
  <2> QED BY <2>1 DEF ControlIInv, LoopInv, CleanupUnmarked
<1>3. PriorityKept BY <1>1, <1>2 DEF PriorityKept, Prioritized
<1>4. ManualKept BY <1>1 DEF ManualKept
<1> QED BY <1>3, <1>4

\* A dispatch passes the marks on to the work that supersedes.
LEMMA DispatchedMarks ==
    ASSUME ControlIInv, DispatchStacks
    PROVE  PriorityKept /\ ManualKept
<1> PICK manual : manual = (run.reason = "manual") OBVIOUS
<1>1. /\ pc = "dispatch" /\ pc' = "record" /\ dispatch' = [rev |-> run.new, stacks |-> run.stacks]
      /\ Replace(run.stacks, run.new, manual, run.changed) /\ running' = running
  BY DEF DispatchStacks, Replace
<1>2. dispatch' # NoDispatch /\ dispatch'.stacks = run.stacks
  <2>1. run.new # NoRevision BY <1>1, ConfigFacts DEF ControlIInv, LoopInv, RunInv
  <2>2. dispatch'.rev # NoDispatch.rev BY <1>1, <2>1, NoRunType
  <2> QED BY <1>1, <2>2
<1>3. ASSUME NEW s \in Image(run.stacks)
      PROVE  \/ s \in DOMAIN pending' /\ pending'[s] = Superseding(s, run.new, manual, run.changed)
             \/ AlreadyApplying(s, Superseding(s, run.new, manual, run.changed))
  BY <1>1, DispatchedWork
<1>4. PriorityKept
  <2> SUFFICES ASSUME NEW s \in Stacks, Prioritized(s), s \in Image(run.stacks)
               PROVE  Prioritized(s)' \/ s \in DOMAIN running'
    BY <1>2 DEF PriorityKept
  <2>1. Superseding(s, run.new, manual, run.changed).changed BY DEF Prioritized, Superseding
  <2>2. CASE s \in DOMAIN pending' /\ pending'[s] = Superseding(s, run.new, manual, run.changed)
    BY <2>1, <2>2 DEF Prioritized
  <2>3. CASE AlreadyApplying(s, Superseding(s, run.new, manual, run.changed))
    BY <1>1, <2>3 DEF AlreadyApplying
  <2> QED BY <1>3, <2>2, <2>3
<1>5. ManualKept
  <2> SUFFICES ASSUME NEW s \in DOMAIN pending, pending[s].manual, s \in Image(run.stacks)
               PROVE  s \in DOMAIN pending' /\ pending'[s].manual
    BY <1>2 DEF ManualKept
  <2>1. pending[s].kind = "reconcile"
    <3>1. pending[s].kind \in {"reconcile", "cleanup"} BY DEF ControlIInv, IInv, TypeOK, Operation
    <3> QED BY <3>1 DEF ControlIInv, LoopInv, CleanupUnmarked
  <2>2. Superseding(s, run.new, manual, run.changed).manual BY <2>1 DEF Superseding
  <2> QED BY <1>3, <2>2 DEF AlreadyApplying
<1> QED BY <1>4, <1>5

\* Every step of the control loop keeps the marks.
LEMMA MarksStep ==
    ASSUME ControlIInv, ControlNext
    PROVE  PriorityKept /\ ManualKept
<1>1. CASE Push \/ Request \/ IntervalTick \/ Shutdown
  BY <1>1, SameMarks DEF Push, Request, IntervalTick, Schedule, Shutdown, queueVars
<1>2. CASE BootCancelled \/ Release \/ TakeTask \/ CleanupTick
  BY <1>2, SameMarks DEF BootCancelled, Release, TakeTask, CleanupTick, queueVars
<1>3. CASE Boot \/ PauseStacks \/ ResumeStacks
  BY <1>3, SameMarks DEF Boot, Start, PauseStacks, Pause, ResumeStacks, Resume
<1>4. CASE StopStacks BY <1>4 DEF StopStacks, Stop, PriorityKept, ManualKept
<1>5. CASE Crash BY <1>5 DEF Crash, PriorityKept, ManualKept
<1>6. CASE CleanupStack
  <2>1. CASE UNCHANGED queueVars BY <1>6, <2>1, SameMarks DEF CleanupStack, queueVars
  <2>2. CASE SubmitCleanup(Head(todo), dispatch.rev)
    <3>1. /\ changedAfterFailure' = changedAfterFailure /\ Head(todo) \notin DOMAIN pending
          /\ \A s \in DOMAIN pending : s # Head(todo) => s \in DOMAIN pending' /\ pending'[s] = pending[s]
      BY <2>2 DEF SubmitCleanup, CanSubmitCleanup, With
    <3>2. pc = "cleanup" /\ pc' \in {"idle", "cleanup"} BY <1>6 DEF CleanupStack
    <3> QED BY <3>1, <3>2 DEF PriorityKept, ManualKept, Prioritized
  <2> QED BY <1>6, <2>1, <2>2 DEF CleanupStack
<1>7. CASE DispatchStacks BY <1>7, DispatchedMarks
<1>8. ASSUME NEW ok \in BOOLEAN, PollTick(ok) \/ ResolveGit(ok) \/ Reload(ok) \/ Record(ok)
      PROVE  PriorityKept /\ ManualKept
  BY <1>8, SameMarks DEF PollTick, ResolveGit, Reload, Record, queueVars
<1>9. ASSUME NEW ok \in BOOLEAN, Networks(ok) PROVE PriorityKept /\ ManualKept
  <2>1. CASE ok BY <1>9, <2>1, SameMarks DEF Networks, queueVars
  <2>2. CASE ~ok
    <3>1. ok = FALSE BY <2>2
    <3> QED BY <1>9, <3>1, ClearedMarks
  <2> QED BY <2>1, <2>2
<1>10. ASSUME NEW w \in Workers, Admission(w) \/ FinishOperation(w) PROVE PriorityKept /\ ManualKept
  <2>1. UNCHANGED <<pc, run>> /\ Worker(w) BY <1>10 DEF Admission, FinishOperation, Worker, ctlVars
  <2>2. UNCHANGED changedAfterFailure BY <2>1 DEF Worker, Sleep, Exit, Take, Finish
  <2>3. ASSUME NEW s \in DOMAIN pending
        PROVE  \/ s \in DOMAIN pending' /\ pending'[s] = pending[s]
               \/ s \in DOMAIN running' /\ running'[s] = pending[s]
    BY <2>1 DEF Worker, Sleep, Exit, Take, Finish, With, Without
  <2> QED BY <2>1, <2>2, <2>3, MovedMarks
<1> QED BY <1>1, <1>2, <1>3, <1>4, <1>5, <1>6, <1>7, <1>8, <1>9, <1>10 DEF ControlNext, Controller, RunStep

(***************************************************************************)
(* Waiting work keeps its marks until it starts (Replace, Clear,           *)
(* SubmitCleanup and next with the runs that call them): no stack found    *)
(* changed loses its priority and no manual request its permission.        *)
(***************************************************************************)
THEOREM MarksNeverLost == ControlSpec => WaitingMarksKept
<1>1. ControlIInv /\ [ControlNext]_vars => [PriorityKept /\ ManualKept]_vars BY MarksStep
<1> QED BY <1>1, ControlHolds, PTL DEF ControlSpec, WaitingMarksKept
===============================================================================
