--------------------- MODULE AssistantOperationsProofs ---------------------
(***************************************************************************)
(* The assistant's operations, proved for any slots, requests,             *)
(* conversations and services: what is executed was confirmed, once and    *)
(* for this service, and every request in progress has one goroutine.      *)
(***************************************************************************)
EXTENDS AssistantOperations, TLAPS, FiniteSetTheorems, FunctionTheorems, SequenceTheorems

Places ==
    {"pending", "claim", "cancel", "abandon", "collect", "route", "generate", "execute",
     "inspect", "down", "up", "scale", "write_down", "write_up", "write_scale"}

ActiveType ==
    [pc : Places, id : RequestIDs, conv : Conversations, message : Messages,
     op : Operation \cup {NoOperation}, rounds : Nat, current : Nat \cup {Unset}, read : Nat]

\* The variables as whole functions.
Shape ==
    /\ allowed \subseteq Operations
    /\ workers \in [Slots -> ActiveType \cup {Idle}]
    /\ catalog \subseteq Services
    /\ replicas \in [Services -> {0, InitialReplicas} \cup ScaleTargets]
    /\ version \in [Services -> Nat]
    /\ pending \in [Conversations -> Operation \cup {NoOperation}]
    /\ expired \subseteq {c \in Conversations : Stamped(c)}
    /\ asked \in Seq(Operation \cup {Withdrawn})
    /\ executed \in Seq(Operation)

-----------------------------------------------------------------------------
(* Runs: the inductive invariant.                                          *)

\* A finished run is listed once.
FinishedInv ==
    /\ runs \in [RequestIDs -> {None, "in_progress", "finished"}]
    /\ finished \in Seq(RequestIDs)
    /\ \A i, j \in DOMAIN finished : finished[i] = finished[j] => i = j
    /\ \A id \in RequestIDs : runs[id] = "finished" <=> id \in Range(finished)

\* A run in progress has one goroutine.
GoroutineInv ==
    /\ \A k \in Slots : Busy(k) => runs[workers[k].id] = "in_progress"
    /\ \A id \in InProgress : \E k \in Slots : Busy(k) /\ workers[k].id = id
    /\ \A k, l \in Slots : Busy(k) /\ Busy(l) /\ workers[k].id = workers[l].id => k = l

-----------------------------------------------------------------------------
(* Operations: the inductive invariant.                                    *)

Complete(op) ==
    (op.type # "sync" => op.service # None) /\ (op.type = "scale" => op.replicas # Unset)

\* op was put into the store as it is and not withdrawn since.
Asked(op) ==
    /\ op.stamp \in DOMAIN asked /\ asked[op.stamp] = op
    /\ op.stage = "confirmation" => Complete(op)

\* What waits in the store was asked, each under a stamp of its own.
PendingInv ==
    /\ \A c \in Conversations : Stamped(c) => Asked(pending[c])
    /\ \A c, d \in Conversations : Stamped(c) /\ pending[c].stamp = pending[d].stamp => c = d

\* What was executed was confirmed, and neither waits nor is executed again.
ExecutedInv ==
    /\ \A i \in DOMAIN executed : Asked(executed[i]) /\ executed[i].stage = "confirmation"
    /\ \A i \in DOMAIN executed : \A c \in Conversations : pending[c].stamp # executed[i].stamp
    /\ \A i, j \in DOMAIN executed : executed[i].stamp = executed[j].stamp => i = j

\* op is confirmed, has left the store and is not executed yet.
Free(op) ==
    /\ op \in Operation /\ Asked(op) /\ op.stage = "confirmation"
    /\ \A c \in Conversations : pending[c].stamp # op.stamp
    /\ \A i \in DOMAIN executed : executed[i].stamp # op.stamp

\* An executed operation explains n replicas of s.
Accounted(s, n) ==
    \/ n = InitialReplicas
    \/ \E i \in DOMAIN executed :
         /\ executed[i].service = s
         /\ \/ executed[i].type = "scale" /\ n = executed[i].replicas /\ n > 0
            \/ executed[i].type = "restart" /\ n = 0

Tool == {"inspect", "down", "up", "scale", "write_down", "write_up", "write_scale"}

\* What a goroutine holds where it is.
HeldInv(w) ==
    /\ w.pc \in {"claim", "collect"} => w.op \in Operation
    /\ w.pc = "claim" => w.op.stage = "confirmation"
    /\ w.pc = "execute" => Free(w.op)
    /\ w.pc \in Tool => /\ w.op \in Operation /\ w.op.service \in Services
                        /\ \E i \in DOMAIN executed : executed[i] = w.op
                        /\ w.op.type \in {"restart", "scale"}
    /\ w.pc \in {"down", "up", "write_down", "write_up"} =>
          w.op.type = "restart" /\ Accounted(w.op.service, w.current)
    /\ w.pc \in {"scale", "write_scale"} => w.op.type = "scale" /\ w.op.replicas > 0

\* No two goroutines have claimed the same operation.
OneClaim ==
    \A k, l \in Slots :
        /\ workers[k].pc = "execute" /\ workers[l].pc = "execute"
        /\ workers[k].op.stamp = workers[l].op.stamp
        => k = l

IInv ==
    /\ Shape /\ FinishedInv /\ GoroutineInv
    /\ PendingInv /\ ExecutedInv /\ OneClaim
    /\ \A k \in Slots : HeldInv(workers[k])
    /\ ReplicasAccounted

-----------------------------------------------------------------------------
(* Goroutines.                                                             *)

\* A slot is idle or holds a goroutine.
LEMMA ActiveFacts ==
    ASSUME Shape, NEW k \in Slots
    PROVE  /\ Busy(k) => workers[k] \in ActiveType
           /\ workers[k] \in ActiveType => Busy(k)
           /\ workers[k].pc # "idle" => workers[k] \in ActiveType
<1>1. workers[k] \in ActiveType \cup {Idle} BY DEF Shape
<1>2. Idle.pc = "idle" BY DEF Idle
<1>3. workers[k] \in ActiveType => workers[k].pc # "idle" BY DEF ActiveType, Places
<1> QED BY <1>1, <1>2, <1>3 DEF Busy

\* The goroutine of a slot goes on to another place.
Moves(k) ==
    /\ UNCHANGED <<runs, finished>>
    /\ \E r \in ActiveType : r.id = workers[k].id /\ workers' = [workers EXCEPT ![k] = r]

\* The finished runs as a set.
LEMMA RangeFacts ==
    ASSUME NEW T, NEW s \in Seq(T)
    PROVE  /\ \A id : id \in Range(s) <=> \E i \in 1..Len(s) : s[i] = id
           /\ Range(s) \subseteq T /\ DOMAIN s = 1..Len(s) /\ Len(s) \in Nat
BY DEF Range

\* A goroutine that goes on keeps its run.
LEMMA MoveKeeps ==
    ASSUME Shape, FinishedInv, GoroutineInv, NEW k \in Slots, Busy(k), Moves(k)
    PROVE  FinishedInv' /\ GoroutineInv' /\ workers' \in [Slots -> ActiveType \cup {Idle}]
<1>1. PICK r \in ActiveType : r.id = workers[k].id /\ workers' = [workers EXCEPT ![k] = r] BY DEF Moves
<1>2. runs' = runs /\ finished' = finished BY DEF Moves
<1>3. workers' \in [Slots -> ActiveType \cup {Idle}] BY <1>1 DEF Shape
<1>4. r # Idle BY DEF ActiveType, Idle, Places
<1>5. \A l \in Slots : (Busy(l)' <=> Busy(l)) /\ workers'[l].id = workers[l].id
  BY <1>1, <1>4 DEF Shape, Busy
<1>6. FinishedInv' BY <1>2 DEF FinishedInv
<1>7. GoroutineInv' BY <1>2, <1>5 DEF GoroutineInv, InProgress
<1> QED BY <1>3, <1>6, <1>7

\* A goroutine that ends leaves its run finished and its slot free.
LEMMA EndRunKeeps ==
    ASSUME Shape, FinishedInv, GoroutineInv, NEW k \in Slots, Busy(k), EndRun(k)
    PROVE  FinishedInv' /\ GoroutineInv' /\ workers' \in [Slots -> ActiveType \cup {Idle}]
<1> PICK id : id = workers[k].id OBVIOUS
<1> PICK n : n = Len(finished) OBVIOUS
<1>1. /\ runs' = [runs EXCEPT ![id] = "finished"] /\ finished' = Append(finished, id)
      /\ workers' = [workers EXCEPT ![k] = Idle]
  BY DEF EndRun
<1>2. id \in RequestIDs BY ActiveFacts DEF ActiveType
<1>3. workers' \in [Slots -> ActiveType \cup {Idle}] BY <1>1 DEF Shape
<1>4. runs[id] = "in_progress" /\ finished \in Seq(RequestIDs) /\ runs \in [RequestIDs -> {None, "in_progress", "finished"}]
  BY DEF GoroutineInv, FinishedInv
<1>5. id \notin Range(finished) BY <1>2, <1>4 DEF FinishedInv
<1>6. /\ n \in Nat /\ DOMAIN finished = 1..n
      /\ finished' \in Seq(RequestIDs) /\ Len(finished') = n + 1 /\ finished'[n + 1] = id
      /\ \A i \in 1..n : finished'[i] = finished[i]
  BY <1>1, <1>2, <1>4
<1>7. \A i \in 1..n : finished[i] # id BY <1>4, <1>5, <1>6, RangeFacts
<1>8. FinishedInv'
  <2>1. runs' \in [RequestIDs -> {None, "in_progress", "finished"}] BY <1>1, <1>4
  <2>2. DOMAIN finished' = 1..(n + 1) BY <1>6
  <2>3. \A i, j \in DOMAIN finished' : finished'[i] = finished'[j] => i = j
    BY <1>6, <1>7, <2>2 DEF FinishedInv
  <2>4. ASSUME NEW x \in RequestIDs PROVE runs'[x] = "finished" <=> x \in Range(finished')
    <3>1. x \in Range(finished') <=> x = id \/ x \in Range(finished)
      BY <1>4, <1>6, RangeFacts
    <3>2. runs[x] = "finished" <=> x \in Range(finished) BY DEF FinishedInv
    <3> QED BY <1>1, <1>2, <1>4, <3>1, <3>2
  <2> QED BY <1>6, <2>1, <2>3, <2>4 DEF FinishedInv
<1>9. GoroutineInv'
  <2>1. \A l \in Slots : Busy(l)' <=> Busy(l) /\ l # k BY <1>1 DEF Shape, Busy
  <2>2. \A l \in Slots : l # k => workers'[l] = workers[l] BY <1>1 DEF Shape
  <2>3. \A l \in Slots : Busy(l) /\ l # k => workers[l].id # id /\ workers[l].id \in RequestIDs
    BY ActiveFacts DEF GoroutineInv, ActiveType
  <2>4. \A x \in RequestIDs : x # id => runs'[x] = runs[x] BY <1>1, <1>4
  <2>5. runs'[id] = "finished" BY <1>1, <1>2, <1>4
  <2>6. ASSUME NEW x \in InProgress' PROVE \E l \in Slots : Busy(l)' /\ workers'[l].id = x
    <3>1. x \in InProgress /\ x # id BY <2>4, <2>5, <2>6 DEF InProgress
    <3> QED BY <2>1, <2>2, <3>1 DEF GoroutineInv
  <2>7. \A l \in Slots : Busy(l)' => runs'[workers'[l].id] = "in_progress"
    BY <2>1, <2>2, <2>3, <2>4 DEF GoroutineInv
  <2>8. \A l, m \in Slots : Busy(l)' /\ Busy(m)' /\ workers'[l].id = workers'[m].id => l = m
    BY <2>1, <2>2 DEF GoroutineInv
  <2> QED BY <2>6, <2>7, <2>8 DEF GoroutineInv
<1> QED BY <1>3, <1>8, <1>9

-----------------------------------------------------------------------------
(* New runs.                                                               *)

\* There are finitely many runs in progress: no more than slots.
LEMMA InProgressFinite ==
    ASSUME Shape, GoroutineInv
    PROVE  IsFiniteSet(InProgress)
<1> DEFINE S == {k \in Slots : Busy(k) /\ workers[k].id \in InProgress}
           f == [k \in S |-> workers[k].id]
<1>1. IsFiniteSet(S) BY SlotsFinite, FS_Subset
<1>2. f \in [S -> InProgress] OBVIOUS
<1>3. \A id \in InProgress : \E k \in S : f[k] = id BY DEF GoroutineInv
<1> HIDE DEF f, S
<1>4. f \in Surjection(S, InProgress) BY <1>2, <1>3, Fun_IsSurj
<1> QED BY <1>1, <1>4, FS_Surjection

\* The range of a sequence is finite.
LEMMA RangeFinite ==
    ASSUME NEW T, NEW s \in Seq(T)
    PROVE  IsFiniteSet(Range(s))
<1>1. Len(s) \in Nat /\ DOMAIN s = 1..Len(s) OBVIOUS
<1>2. IsFiniteSet(1..Len(s)) BY <1>1, FS_Interval
<1>3. s \in [1..Len(s) -> Range(s)] BY <1>1 DEF Range
<1>4. s \in Surjection(1..Len(s), Range(s)) BY <1>1, <1>3, Fun_IsSurj DEF Range
<1> QED BY <1>2, <1>4, FS_Surjection

\* A suffix of the finished runs lists runs that were listed, each once.
Suffix(old, s) ==
    \E n \in Nat : /\ n <= Len(s) /\ Len(old) = Len(s) - n
                   /\ \A i \in 1..Len(old) : old[i] = s[i + n]

\* Pruning and making room keep a suffix of what has finished.
LEMMA MakeRoomSuffix ==
    ASSUME NEW T, NEW s \in Seq(T), NEW m \in Nat
    PROVE  /\ makeRoomForRunLocked(s, m) \in Seq(T)
           /\ Suffix(makeRoomForRunLocked(s, m), s)
<1> DEFINE excess == m - MaxRetainedRuns + 1
           drop == IF excess <= 0 THEN 0 ELSE IF excess > Len(s) THEN Len(s) ELSE excess
           rest == SubSeq(s, drop + 1, Len(s))
<1>1. excess \in Int /\ Len(s) \in Nat BY AssistantBounds
<1> HIDE DEF excess
<1>2. drop \in Nat /\ drop <= Len(s) BY <1>1
<1> HIDE DEF drop
<1>3. /\ rest \in Seq(T) /\ Len(rest) = Len(s) - drop
      /\ \A i \in 1..Len(rest) : rest[i] = s[i + drop]
  BY <1>1, <1>2
<1>4. makeRoomForRunLocked(s, m) = rest BY DEF makeRoomForRunLocked, drop, excess
<1> HIDE DEF rest
<1> QED BY <1>2, <1>3, <1>4 DEF Suffix

\* A suffix of a list without repetition.
LEMMA SuffixFacts ==
    ASSUME NEW T, NEW s \in Seq(T), NEW old \in Seq(T), Suffix(old, s),
           \A i, j \in DOMAIN s : s[i] = s[j] => i = j
    PROVE  /\ \A i, j \in DOMAIN old : old[i] = old[j] => i = j
           /\ Range(old) \subseteq Range(s)
<1>1. PICK n \in Nat : /\ n <= Len(s) /\ Len(old) = Len(s) - n
                       /\ \A i \in 1..Len(old) : old[i] = s[i + n]
  BY DEF Suffix
<1>2. DOMAIN s = 1..Len(s) /\ DOMAIN old = 1..Len(old) /\ Len(s) \in Nat /\ Len(old) \in Nat OBVIOUS
<1>3. \A i \in 1..Len(old) : i + n \in 1..Len(s) BY <1>1, <1>2
<1>4. \A i, j \in 1..Len(old) : old[i] = old[j] => i = j
  <2> SUFFICES ASSUME NEW i \in 1..Len(old), NEW j \in 1..Len(old), old[i] = old[j] PROVE i = j OBVIOUS
  <2>1. s[i + n] = s[j + n] BY <1>1
  <2>2. i + n = j + n BY <1>2, <1>3, <2>1
  <2> QED BY <2>2
<1>5. \A id : id \in Range(old) => id \in Range(s) BY <1>1, <1>2, <1>3, RangeFacts
<1> QED BY <1>2, <1>4, <1>5

\* Another run at the end of a list without repetition.
LEMMA AppendOnce ==
    ASSUME NEW T, NEW s \in Seq(T), NEW id \in T, id \notin Range(s),
           \A i, j \in DOMAIN s : s[i] = s[j] => i = j
    PROVE  /\ Append(s, id) \in Seq(T)
           /\ \A i, j \in DOMAIN Append(s, id) : Append(s, id)[i] = Append(s, id)[j] => i = j
           /\ Range(Append(s, id)) = Range(s) \cup {id}
<1> PICK n : n = Len(s) OBVIOUS
<1> PICK t : t = Append(s, id) OBVIOUS
<1>1. /\ n \in Nat /\ DOMAIN s = 1..n /\ DOMAIN t = 1..(n + 1)
      /\ t \in Seq(T) /\ Len(t) = n + 1 /\ t[n + 1] = id /\ \A i \in 1..n : t[i] = s[i]
  OBVIOUS
<1>2. \A i \in 1..n : s[i] # id BY <1>1, RangeFacts
<1>3. \A i, j \in DOMAIN t : t[i] = t[j] => i = j BY <1>1, <1>2
<1>4. \A x : (\E i \in 1..(n + 1) : t[i] = x) <=> x = id \/ (\E i \in 1..n : s[i] = x)
  BY <1>1
<1>5. \A x : x \in Range(t) <=> \E i \in 1..(n + 1) : t[i] = x BY <1>1 DEF Range
<1>6. \A x : x \in Range(s) <=> \E i \in 1..n : s[i] = x BY <1>1 DEF Range
<1>7. Range(t) = Range(s) \cup {id} BY <1>4, <1>5, <1>6
<1> QED BY <1>1, <1>3, <1>7

\* Pruning and eviction leave finished runs of before, each listed once.
LEMMA RoomFacts ==
    ASSUME Shape, FinishedInv, GoroutineInv, NEW n \in 0..Len(finished)
    PROVE  LET old == pruneRunsLocked(n)
               left == makeRoomForRunLocked(old, Cardinality(InProgress \cup Range(old)))
           IN /\ left \in Seq(RequestIDs) /\ Range(left) \subseteq Range(old)
              /\ Range(old) \subseteq Range(finished)
              /\ \A i, j \in DOMAIN left : left[i] = left[j] => i = j
<1> DEFINE old == pruneRunsLocked(n)
           m == Cardinality(InProgress \cup Range(old))
           left == makeRoomForRunLocked(old, m)
<1>1. finished \in Seq(RequestIDs) /\ \A i, j \in DOMAIN finished : finished[i] = finished[j] => i = j
  BY DEF FinishedInv
<1>2. old \in Seq(RequestIDs) /\ Suffix(old, finished)
  <2>1. Len(finished) \in Nat /\ n \in Nat /\ n <= Len(finished) BY <1>1
  <2>2. /\ old \in Seq(RequestIDs) /\ Len(old) = Len(finished) - n
        /\ \A i \in 1..Len(old) : old[i] = finished[i + n]
    BY <1>1, <2>1 DEF pruneRunsLocked
  <2> HIDE DEF old
  <2> QED BY <2>1, <2>2 DEF Suffix
<1> HIDE DEF old
<1>3. (\A i, j \in DOMAIN old : old[i] = old[j] => i = j) /\ Range(old) \subseteq Range(finished)
  BY <1>1, <1>2, SuffixFacts
<1>4. m \in Nat
  <2>1. IsFiniteSet(InProgress) /\ IsFiniteSet(Range(old)) BY <1>2, InProgressFinite, RangeFinite
  <2>2. IsFiniteSet(InProgress \cup Range(old)) BY <2>1, FS_Union
  <2> QED BY <2>2, FS_CardinalityType
<1> HIDE DEF m
<1>5. left \in Seq(RequestIDs) /\ Suffix(left, old) BY <1>2, <1>4, MakeRoomSuffix
<1> HIDE DEF left
<1>6. (\A i, j \in DOMAIN left : left[i] = left[j] => i = j) /\ Range(left) \subseteq Range(old)
  BY <1>2, <1>3, <1>5, SuffixFacts
<1> QED BY <1>3, <1>5, <1>6 DEF left, m, old

\* An accepted message is a run with a goroutine of its own, or a finished one.
LEMMA ChatKeeps ==
    ASSUME Shape, FinishedInv, GoroutineInv, NEW id \in RequestIDs, NEW conv \in Conversations,
           NEW message \in Messages, Chat(id, conv, message)
    PROVE  FinishedInv' /\ GoroutineInv' /\ workers' \in [Slots -> ActiveType \cup {Idle}]
<1> DEFINE busy == \A k \in Slots : workers[k] # Idle
           status == IF busy THEN "finished" ELSE "in_progress"
<1>1. PICK n \in 0..Len(finished) : getOrCreateRun(id, pruneRunsLocked(n), status) BY DEF Chat
<1>2. PICK left :
         /\ id \notin InProgress /\ id \notin Range(left)
         /\ Inserted(id, status, left)
         /\ left \in Seq(RequestIDs) /\ Range(left) \subseteq Range(finished)
         /\ \A i, j \in DOMAIN left : left[i] = left[j] => i = j
  BY <1>1, RoomFacts DEF getOrCreateRun
<1>3. runs \in [RequestIDs -> {None, "in_progress", "finished"}] BY DEF FinishedInv
<1>4. /\ runs' \in [RequestIDs -> {None, "in_progress", "finished"}]
      /\ runs'[id] = status
      /\ \A x \in RequestIDs : x # id => /\ runs'[x] = "in_progress" <=> x \in InProgress
                                         /\ runs'[x] = "finished" <=> x \in Range(left)
  <2> \A x \in Range(left) : x \notin InProgress BY <1>2 DEF InProgress, FinishedInv
  <2> status \in {"finished", "in_progress"} OBVIOUS
  <2> HIDE DEF status
  <2> QED BY <1>2, <1>3 DEF Inserted, None
<1>5. CASE busy
  <2>1. status = "finished" /\ workers' = workers /\ finished' = Append(left, id)
    BY <1>2, <1>5 DEF Chat, Inserted
  <2> HIDE DEF status
  <2>2. FinishedInv'
    <3>1. /\ finished' \in Seq(RequestIDs) /\ Range(finished') = Range(left) \cup {id}
          /\ \A i, j \in DOMAIN finished' : finished'[i] = finished'[j] => i = j
      BY <1>2, <2>1, AppendOnce
    <3>2. \A x \in RequestIDs : runs'[x] = "finished" <=> x \in Range(finished')
      BY <1>4, <2>1, <3>1
    <3> QED BY <1>4, <3>1, <3>2 DEF FinishedInv
  <2>3. \A k \in Slots : Busy(k) => workers[k].id # id /\ workers[k].id \in InProgress
    BY <1>2, ActiveFacts DEF GoroutineInv, InProgress, ActiveType
  <2>4. InProgress' = InProgress
    <3>0. id \notin InProgress BY <1>2
    <3>1. \A x \in RequestIDs : runs'[x] = "in_progress" <=> x \in InProgress BY <1>4, <2>1, <3>0
    <3> QED BY <3>1 DEF InProgress
  <2>5. \A k \in Slots : Busy(k)' <=> Busy(k) BY <2>1 DEF Busy
  <2>6. GoroutineInv' BY <2>1, <2>3, <2>4, <2>5 DEF GoroutineInv, InProgress
  <2> QED BY <2>1, <2>2, <2>6 DEF Shape
<1>6. CASE ~busy
  <2> DEFINE r == [pc |-> "pending", id |-> id, conv |-> conv, message |-> message,
                   op |-> NoOperation, rounds |-> 0, current |-> Unset, read |-> 0]
  <2>1. status = "in_progress" /\ finished' = left BY <1>2, <1>6 DEF Inserted
  <2> HIDE DEF status
  <2>2. PICK k \in Slots : workers[k] = Idle /\ workers' = [workers EXCEPT ![k] = r]
    BY <1>6 DEF Chat
  <2>3. r \in ActiveType /\ r # Idle /\ r.id = id BY DEF ActiveType, Places, Idle
  <2> HIDE DEF r
  <2>4. workers' \in [Slots -> ActiveType \cup {Idle}] BY <2>2, <2>3 DEF Shape
  <2>5. FinishedInv'
    <3>1. \A x \in RequestIDs : runs'[x] = "finished" <=> x \in Range(finished') BY <1>2, <1>4, <2>1
    <3> QED BY <1>2, <1>4, <2>1, <3>1 DEF FinishedInv
  <2>6. InProgress' = InProgress \cup {id}
    <3>1. \A x \in RequestIDs : runs'[x] = "in_progress" <=> x \in InProgress \cup {id}
      BY <1>4, <2>1
    <3> QED BY <3>1 DEF InProgress
  <2>7. \A l \in Slots : Busy(l) => workers[l].id # id /\ workers[l].id \in InProgress
    BY <1>2, ActiveFacts DEF GoroutineInv, InProgress, ActiveType
  <2>8. workers'[k] = r /\ Busy(k)' /\ ~Busy(k) BY <2>2, <2>3 DEF Shape, Busy
  <2>9. \A l \in Slots : l # k => workers'[l] = workers[l] /\ (Busy(l)' <=> Busy(l))
    BY <2>2 DEF Shape, Busy
  <2>10. \A l \in Slots : Busy(l)' => workers'[l].id \in InProgress'
    BY <2>3, <2>6, <2>7, <2>8, <2>9
  <2>11. \A x \in InProgress' : \E l \in Slots : Busy(l)' /\ workers'[l].id = x
    BY <2>3, <2>6, <2>8, <2>9 DEF GoroutineInv
  <2>12. \A l, m \in Slots : Busy(l)' /\ Busy(m)' /\ workers'[l].id = workers'[m].id => l = m
    BY <2>3, <2>7, <2>8, <2>9 DEF GoroutineInv
  <2>13. GoroutineInv' BY <2>10, <2>11, <2>12 DEF GoroutineInv, InProgress
  <2> QED BY <2>4, <2>5, <2>13
<1> QED BY <1>5, <1>6

-----------------------------------------------------------------------------
(* The store.                                                              *)

\* What is in the store is an operation with a stamp of its own.
LEMMA StampedFacts ==
    ASSUME Shape, PendingInv, NEW c \in Conversations
    PROVE  /\ Stamped(c) => /\ pending[c] \in Operation /\ pending[c].stamp \in 1..Len(asked)
                            /\ asked[pending[c].stamp] = pending[c]
           /\ ~Stamped(c) => pending[c].stamp = 0
           /\ pending[c].stamp \in 0..Len(asked)
<1>1. pending[c] \in Operation \cup {NoOperation} BY DEF Shape
<1>2. asked \in Seq(Operation \cup {Withdrawn}) BY DEF Shape
<1>3. DOMAIN asked = 1..Len(asked) /\ Len(asked) \in Nat BY <1>2
<1>4. CASE Stamped(c)
  <2>1. pending[c] \in Operation BY <1>1, <1>4 DEF Stamped
  <2>2. pending[c].stamp \in DOMAIN asked /\ asked[pending[c].stamp] = pending[c]
    BY <1>4 DEF PendingInv, Asked
  <2> QED BY <1>3, <1>4, <2>1, <2>2
<1>5. CASE ~Stamped(c)
  <2>1. pending[c].stamp = 0 BY <1>5 DEF Stamped, NoOperation
  <2> QED BY <1>3, <1>5, <2>1
<1> QED BY <1>4, <1>5

\* Operations that were executed have a stamp.
LEMMA ExecutedFacts ==
    ASSUME Shape
    PROVE  \A i \in DOMAIN executed : executed[i] \in Operation /\ executed[i].stamp # 0
<1>1. \A i \in DOMAIN executed : executed[i] \in Operation BY DEF Shape
<1>2. \A op \in Operation : op.stamp # 0 BY DEF Operation
<1> QED BY <1>1, <1>2

\* An operation leaves the store: nothing else that was asked is touched.
LEMMA WithdrawFacts ==
    ASSUME Shape, PendingInv, NEW conv \in Conversations
    PROVE  /\ Withdraw(conv) \in Seq(Operation \cup {Withdrawn})
           /\ Len(Withdraw(conv)) = Len(asked) /\ DOMAIN Withdraw(conv) = DOMAIN asked
           /\ \A i \in DOMAIN asked : i # pending[conv].stamp => Withdraw(conv)[i] = asked[i]
<1>1. asked \in Seq(Operation \cup {Withdrawn}) BY DEF Shape
<1> PICK n : n = Len(asked) OBVIOUS
<1> PICK st : st = pending[conv].stamp OBVIOUS
<1> PICK x : x = Withdrawn OBVIOUS
<1>2. n \in Nat /\ DOMAIN asked = 1..n /\ \A i \in 1..n : asked[i] \in Operation \cup {x} BY <1>1
<1> DEFINE w == [i \in 1..n |-> IF i = st THEN x ELSE asked[i]]
<1>3. Withdraw(conv) = w BY <1>2 DEF Withdraw
<1>4. w \in [1..n -> Operation \cup {x}] BY <1>2
<1>5. w \in Seq(Operation \cup {x}) BY <1>2, <1>4, SeqDef
<1>6. \A i \in 1..n : i # st => w[i] = asked[i] OBVIOUS
<1>7. Len(w) = n /\ DOMAIN w = 1..n BY <1>2, <1>4, <1>5
<1> HIDE DEF w
<1> QED BY <1>2, <1>3, <1>5, <1>6, <1>7

\* What may be lost of the claimed operations that are free: only the one
\* that the goroutine of the slot holds, when it executes it.
FreeKept(k) ==
    \A op \in Operation :
        Free(op) /\ (workers[k].pc = "execute" => op.stamp # workers[k].op.stamp) => Free(op)'

Keeps(k) ==
    /\ pending' \in [Conversations -> Operation \cup {NoOperation}]
    /\ expired' \subseteq {c \in Conversations : Stamped(c)'}
    /\ asked' \in Seq(Operation \cup {Withdrawn}) /\ executed' \in Seq(Operation)
    /\ PendingInv' /\ ExecutedInv' /\ FreeKept(k)
    /\ \A i \in DOMAIN executed : i \in DOMAIN executed' /\ executed'[i] = executed[i]

\* A step that leaves the store alone.
LEMMA StoreUnchanged ==
    ASSUME Shape, PendingInv, ExecutedInv, NEW k, UNCHANGED <<storeVars, executed>>
    PROVE  Keeps(k)
<1>1. pending' = pending /\ expired' = expired /\ asked' = asked /\ executed' = executed BY DEF storeVars
<1>2. PendingInv' BY <1>1 DEF PendingInv, Asked, Stamped
<1>3. ExecutedInv' BY <1>1 DEF ExecutedInv, Asked
<1>4. FreeKept(k) BY <1>1 DEF FreeKept, Free, Asked
<1>5. /\ pending' \in [Conversations -> Operation \cup {NoOperation}]
      /\ expired' \subseteq {c \in Conversations : Stamped(c)'}
      /\ asked' \in Seq(Operation \cup {Withdrawn}) /\ executed' \in Seq(Operation)
  BY <1>1 DEF Shape, Stamped
<1> QED BY <1>1, <1>2, <1>3, <1>4, <1>5 DEF Keeps

\* Asked survives when no stamp but that of the conversation is touched.
LEMMA AskedKept ==
    ASSUME Shape, PendingInv, NEW conv \in Conversations, NEW op,
           \A i \in DOMAIN asked : i # pending[conv].stamp => i \in DOMAIN asked' /\ asked'[i] = asked[i],
           Asked(op), op.stamp # pending[conv].stamp
    PROVE  Asked(op)'
BY DEF Asked

\* An operation is deleted.
LEMMA DeleteKeeps ==
    ASSUME Shape, PendingInv, ExecutedInv, NEW k, NEW conv \in Conversations, delete(conv),
           UNCHANGED executed
    PROVE  Keeps(k)
<1>1. /\ pending' = [pending EXCEPT ![conv] = NoOperation] /\ expired' = expired \ {conv}
      /\ asked' = Withdraw(conv)
  BY DEF delete
<1>2. /\ asked' \in Seq(Operation \cup {Withdrawn}) /\ DOMAIN asked' = DOMAIN asked
      /\ \A i \in DOMAIN asked : i # pending[conv].stamp => i \in DOMAIN asked' /\ asked'[i] = asked[i]
  BY <1>1, WithdrawFacts
<1>3. pending' \in [Conversations -> Operation \cup {NoOperation}] BY <1>1 DEF Shape
<1>4. /\ \A c \in Conversations : c # conv => pending'[c] = pending[c] /\ (Stamped(c)' <=> Stamped(c))
      /\ pending'[conv] = NoOperation /\ pending'[conv].stamp = 0 /\ ~Stamped(conv)'
  BY <1>1 DEF Shape, Stamped, NoOperation
<1>5. expired' \subseteq {c \in Conversations : Stamped(c)'} BY <1>1, <1>4 DEF Shape
<1>6. PendingInv'
  <2>1. ASSUME NEW c \in Conversations, Stamped(c)' PROVE Asked(pending[c])'
    <3>1. c # conv /\ Stamped(c) /\ pending'[c] = pending[c] BY <1>4, <2>1
    <3> PICK op : op = pending[c] OBVIOUS
    <3>2. Asked(op) /\ op.stamp # pending[conv].stamp BY <3>1 DEF PendingInv
    <3>3. Asked(op)' BY <1>2, <3>2, AskedKept
    <3> QED BY <3>1, <3>3 DEF Asked, Complete
  <2>2. ASSUME NEW c \in Conversations, NEW d \in Conversations, Stamped(c)',
               pending'[c].stamp = pending'[d].stamp
        PROVE  c = d
    <3>1. c # conv /\ Stamped(c) /\ pending'[c] = pending[c] BY <1>4, <2>2
    <3>2. pending[c].stamp # 0 BY <3>1, StampedFacts DEF Shape
    <3>3. d # conv BY <1>4, <2>2, <3>1, <3>2
    <3> QED BY <1>4, <2>2, <3>1, <3>3 DEF PendingInv
  <2> QED BY <2>1, <2>2 DEF PendingInv
<1>7. \A i \in DOMAIN executed : executed[i].stamp # 0 BY ExecutedFacts
<1>8. ExecutedInv'
  <2>1. ASSUME NEW i \in DOMAIN executed PROVE Asked(executed[i])'
    <3> PICK op : op = executed[i] OBVIOUS
    <3>1. Asked(op) /\ op.stamp # pending[conv].stamp BY DEF ExecutedInv
    <3>2. Asked(op)' BY <1>2, <3>1, AskedKept
    <3> QED BY <3>2 DEF Asked, Complete
  <2>2. \A i \in DOMAIN executed : \A c \in Conversations : pending'[c].stamp # executed[i].stamp
    BY <1>4, <1>7 DEF ExecutedInv
  <2> QED BY <2>1, <2>2 DEF ExecutedInv
<1>9. FreeKept(k)
  <2> SUFFICES ASSUME NEW op \in Operation, Free(op) PROVE Free(op)' BY DEF FreeKept
  <2>1. Asked(op)' BY <1>2, AskedKept DEF Free
  <2>2. op.stamp # 0 BY DEF Operation
  <2> QED BY <1>4, <2>1, <2>2 DEF Free
<1> QED BY <1>2, <1>3, <1>5, <1>6, <1>8, <1>9 DEF Keeps, Shape

\* An operation is put into the store under a new stamp.
LEMMA SetKeeps ==
    ASSUME Shape, PendingInv, ExecutedInv, NEW k, NEW conv \in Conversations, NEW op \in Operation,
           op.stage = "confirmation" => Complete(op), set(conv, op), UNCHANGED executed
    PROVE  Keeps(k)
<1> PICK n : n = Len(asked) OBVIOUS
<1> PICK new : new = [op EXCEPT !.stamp = n + 1] OBVIOUS
<1> PICK w : w = Withdraw(conv) OBVIOUS
<1>1. /\ n < MaxAsked /\ pending' = [pending EXCEPT ![conv] = new] /\ expired' = expired \ {conv}
      /\ asked' = Append(w, new)
  BY DEF set
<1>2. n \in Nat /\ DOMAIN asked = 1..n BY DEF Shape
<1>3. new \in Operation /\ new.stamp = n + 1 /\ (new.stage = "confirmation" => Complete(new))
  <2>1. n + 1 \in 1..MaxAsked BY <1>1, <1>2, AssistantBounds
  <2> QED BY <2>1 DEF Operation, Complete
<1>4. /\ w \in Seq(Operation \cup {Withdrawn}) /\ Len(w) = n
      /\ \A i \in DOMAIN asked : i # pending[conv].stamp => w[i] = asked[i]
  BY WithdrawFacts
<1>5. /\ asked' \in Seq(Operation \cup {Withdrawn}) /\ DOMAIN asked' = 1..(n + 1)
      /\ asked'[n + 1] = new /\ \A i \in 1..n : asked'[i] = w[i]
  BY <1>1, <1>2, <1>3, <1>4
<1>6. \A i \in DOMAIN asked : i # pending[conv].stamp => i \in DOMAIN asked' /\ asked'[i] = asked[i]
  BY <1>2, <1>4, <1>5
<1>7. pending' \in [Conversations -> Operation \cup {NoOperation}] BY <1>1, <1>3 DEF Shape
<1>8. /\ \A c \in Conversations : c # conv => pending'[c] = pending[c] /\ (Stamped(c)' <=> Stamped(c))
      /\ pending'[conv] = new
  BY <1>1 DEF Shape, Stamped
<1>9. expired' \subseteq {c \in Conversations : Stamped(c)'} BY <1>1, <1>8 DEF Shape
<1>10. \A x : Asked(x) => x.stamp # n + 1 BY <1>2 DEF Asked
<1>11. Asked(new)' BY <1>2, <1>3, <1>5 DEF Asked
<1>12. \A d \in Conversations : d # conv => pending'[d].stamp # n + 1
  BY <1>2, <1>8, StampedFacts
<1>13. PendingInv'
  <2>1. ASSUME NEW c \in Conversations, Stamped(c)' PROVE Asked(pending[c])'
    <3>1. CASE c # conv
      <4>1. Stamped(c) /\ pending'[c] = pending[c] BY <1>8, <2>1, <3>1
      <4> PICK x : x = pending[c] OBVIOUS
      <4>2. Asked(x) /\ x.stamp # pending[conv].stamp BY <3>1, <4>1 DEF PendingInv
      <4>3. Asked(x)' BY <1>6, <4>2, AskedKept
      <4> QED BY <4>1, <4>3 DEF Asked, Complete
    <3>2. CASE c = conv BY <1>8, <1>11, <3>2 DEF Asked, Complete
    <3> QED BY <3>1, <3>2
  <2>2. ASSUME NEW c \in Conversations, NEW d \in Conversations, Stamped(c)',
               pending'[c].stamp = pending'[d].stamp
        PROVE  c = d
    <3>1. CASE c # conv /\ d # conv BY <1>8, <2>2, <3>1 DEF PendingInv
    <3>2. CASE c = conv \/ d = conv BY <1>3, <1>8, <1>12, <2>2, <3>2
    <3> QED BY <3>1, <3>2
  <2> QED BY <2>1, <2>2 DEF PendingInv
<1>14. ExecutedInv'
  <2>1. ASSUME NEW i \in DOMAIN executed PROVE Asked(executed[i])' /\ executed[i].stamp # n + 1
    <3> PICK x : x = executed[i] OBVIOUS
    <3>1. Asked(x) /\ x.stamp # pending[conv].stamp BY DEF ExecutedInv
    <3>2. Asked(x)' BY <1>6, <3>1, AskedKept
    <3> QED BY <1>10, <3>1, <3>2 DEF Asked, Complete
  <2>2. ASSUME NEW i \in DOMAIN executed, NEW c \in Conversations
        PROVE  pending'[c].stamp # executed[i].stamp
    <3>1. CASE c = conv BY <1>3, <1>8, <2>1, <3>1
    <3>2. CASE c # conv BY <1>8, <3>2 DEF ExecutedInv
    <3> QED BY <3>1, <3>2
  <2> QED BY <2>1, <2>2 DEF ExecutedInv
<1>15. FreeKept(k)
  <2> SUFFICES ASSUME NEW x \in Operation, Free(x) PROVE Free(x)' BY DEF FreeKept
  <2>1. Asked(x)' BY <1>6, AskedKept DEF Free
  <2>2. x.stamp # n + 1 BY <1>10 DEF Free
  <2> QED BY <1>3, <1>8, <2>1, <2>2 DEF Free
<1> QED BY <1>5, <1>7, <1>9, <1>13, <1>14, <1>15 DEF Keeps, Shape

\* A claimed operation is free, and no other goroutine has claimed it.
LEMMA ClaimKeeps ==
    ASSUME Shape, PendingInv, ExecutedInv, NEW k, NEW conv \in Conversations, NEW op \in Operation,
           op.stage = "confirmation", Claims(conv, op), claim(conv, op), UNCHANGED executed
    PROVE  /\ Keeps(k) /\ Free(op)'
           /\ \A x \in Operation : Free(x) => x.stamp # op.stamp
<1>1. pending' = [pending EXCEPT ![conv] = NoOperation] /\ expired' = expired /\ asked' = asked
  BY DEF claim
<1>2. pending[conv] = op /\ conv \notin expired /\ Stamped(conv) BY DEF Claims
<1>3. pending' \in [Conversations -> Operation \cup {NoOperation}] BY <1>1 DEF Shape
<1>4. /\ \A c \in Conversations : c # conv => pending'[c] = pending[c] /\ (Stamped(c)' <=> Stamped(c))
      /\ pending'[conv] = NoOperation /\ pending'[conv].stamp = 0 /\ ~Stamped(conv)'
  BY <1>1 DEF Shape, Stamped, NoOperation
<1>5. expired' \subseteq {c \in Conversations : Stamped(c)'} BY <1>1, <1>2, <1>4 DEF Shape
<1>6. \A x \in Operation : x.stamp # 0 BY DEF Operation
<1>7. \A x : Asked(x) => Asked(x)' BY <1>1 DEF Asked
<1>8. PendingInv'
  <2>1. ASSUME NEW c \in Conversations, Stamped(c)' PROVE Asked(pending[c])'
    BY <1>1, <1>4, <2>1 DEF PendingInv, Asked, Complete
  <2>2. ASSUME NEW c \in Conversations, NEW d \in Conversations, Stamped(c)',
               pending'[c].stamp = pending'[d].stamp
        PROVE  c = d
    <3>1. c # conv /\ Stamped(c) /\ pending'[c] = pending[c] BY <1>4, <2>2
    <3>2. pending[c].stamp # 0 BY <3>1, StampedFacts DEF Shape
    <3>3. d # conv BY <1>4, <2>2, <3>1, <3>2
    <3> QED BY <1>4, <2>2, <3>1, <3>3 DEF PendingInv
  <2> QED BY <2>1, <2>2 DEF PendingInv
<1>9. ExecutedInv'
  <2>1. \A i \in DOMAIN executed : \A c \in Conversations : pending'[c].stamp # executed[i].stamp
    BY <1>4, ExecutedFacts DEF ExecutedInv
  <2>2. \A i \in DOMAIN executed : Asked(executed[i])' BY <1>1 DEF ExecutedInv, Asked
  <2> QED BY <2>1, <2>2 DEF ExecutedInv
<1>10. FreeKept(k)
  <2> SUFFICES ASSUME NEW x \in Operation, Free(x) PROVE Free(x)' BY DEF FreeKept
  <2> QED BY <1>4, <1>6, <1>7 DEF Free
<1>11. Free(op)'
  <2>1. Asked(op)' BY <1>2, <1>7 DEF PendingInv
  <2>2. \A c \in Conversations : pending'[c].stamp # op.stamp
    BY <1>2, <1>4, <1>6 DEF PendingInv
  <2>3. \A i \in DOMAIN executed : executed[i].stamp # op.stamp BY <1>2 DEF ExecutedInv
  <2> QED BY <2>1, <2>2, <2>3 DEF Free
<1>12. \A x \in Operation : Free(x) => x.stamp # op.stamp BY <1>2 DEF Free
<1>13. executed' \in Seq(Operation) BY DEF Shape
<1>14. Keeps(k) BY <1>1, <1>3, <1>5, <1>8, <1>9, <1>10, <1>13 DEF Keeps, Shape
<1> QED BY <1>11, <1>12, <1>14

\* The tool of a claimed operation is called.
LEMMA ExecuteKeeps ==
    ASSUME Shape, PendingInv, ExecutedInv, NEW k, NEW op \in Operation, Free(op),
           workers[k].pc = "execute", workers[k].op = op,
           executed' = Append(executed, op), UNCHANGED storeVars
    PROVE  Keeps(k) /\ \E i \in DOMAIN executed' : executed'[i] = op
<1> PICK n : n = Len(executed) OBVIOUS
<1>1. pending' = pending /\ expired' = expired /\ asked' = asked BY DEF storeVars
<1>2. n \in Nat /\ DOMAIN executed = 1..n /\ executed \in Seq(Operation) BY DEF Shape
<1>3. /\ executed' \in Seq(Operation) /\ DOMAIN executed' = 1..(n + 1)
      /\ executed'[n + 1] = op /\ \A i \in 1..n : executed'[i] = executed[i]
  BY <1>2
<1>4. \A x : Asked(x) => Asked(x)' BY <1>1 DEF Asked
<1>5. PendingInv' BY <1>1 DEF PendingInv, Asked, Stamped
<1>6. \A i \in 1..n : /\ Asked(executed[i]) /\ executed[i].stage = "confirmation"
                      /\ executed[i].stamp # op.stamp
                      /\ \A c \in Conversations : pending[c].stamp # executed[i].stamp
  BY <1>2 DEF ExecutedInv, Free
<1>7. \A i \in 1..(n + 1) : i \in 1..n \/ i = n + 1 BY <1>2
<1>8. ExecutedInv'
  <2>1. \A i \in DOMAIN executed' : Asked(executed[i])' /\ executed'[i].stage = "confirmation"
    BY <1>1, <1>3, <1>6, <1>7 DEF Asked, Complete, Free
  <2>2. \A i \in DOMAIN executed' : \A c \in Conversations : pending'[c].stamp # executed'[i].stamp
    BY <1>1, <1>3, <1>6, <1>7 DEF Free
  <2>3. \A i, j \in DOMAIN executed' : executed'[i].stamp = executed'[j].stamp => i = j
    BY <1>2, <1>3, <1>6, <1>7 DEF ExecutedInv
  <2> QED BY <2>1, <2>2, <2>3 DEF ExecutedInv
<1>9. FreeKept(k)
  <2> SUFFICES ASSUME NEW x \in Operation, Free(x), x.stamp # op.stamp PROVE Free(x)' BY DEF FreeKept
  <2> QED BY <1>1, <1>2, <1>3, <1>4, <1>7 DEF Free
<1>10. /\ pending' \in [Conversations -> Operation \cup {NoOperation}]
       /\ expired' \subseteq {c \in Conversations : Stamped(c)'}
       /\ asked' \in Seq(Operation \cup {Withdrawn})
  BY <1>1 DEF Shape, Stamped
<1>11. \A i \in DOMAIN executed : i \in DOMAIN executed' /\ executed'[i] = executed[i]
  BY <1>2, <1>3
<1> QED BY <1>2, <1>3, <1>5, <1>8, <1>9, <1>10, <1>11 DEF Keeps

-----------------------------------------------------------------------------
(* What the goroutines hold.                                               *)

\* What explained a number of replicas explains it ever after.
LEMMA AccountedKept ==
    ASSUME NEW s, NEW n, Accounted(s, n),
           \A i \in DOMAIN executed : i \in DOMAIN executed' /\ executed'[i] = executed[i]
    PROVE  Accounted(s, n)'
BY DEF Accounted

\* What a goroutine holds it holds through a step of another one.
LEMMA HeldKept ==
    ASSUME NEW w, HeldInv(w), w.pc = "execute" => Free(w.op)',
           \A i \in DOMAIN executed : i \in DOMAIN executed' /\ executed'[i] = executed[i]
    PROVE  HeldInv(w)'
<1>1. Accounted(w.op.service, w.current) => Accounted(w.op.service, w.current)' BY AccountedKept
<1>2. (\E i \in DOMAIN executed : executed[i] = w.op) => \E i \in DOMAIN executed' : executed'[i] = w.op
  OBVIOUS
<1> QED BY <1>1, <1>2 DEF HeldInv

\* A step of the goroutine of slot k.
LEMMA OthersKeep ==
    ASSUME Shape, OneClaim, \A l \in Slots : HeldInv(workers[l]), NEW k \in Slots, Keeps(k),
           NEW r, workers' = [workers EXCEPT ![k] = r], HeldInv(r)',
           r.pc = "execute" => \A x \in Operation : Free(x) => x.stamp # r.op.stamp
    PROVE  OneClaim' /\ (\A l \in Slots : HeldInv(workers[l]))'
<1>1. workers'[k] = r /\ \A l \in Slots : l # k => workers'[l] = workers[l] BY DEF Shape
<1>2. \A l \in Slots : workers[l].pc = "execute" => Free(workers[l].op) /\ workers[l].op \in Operation
  BY DEF HeldInv, Free
<1>3. ASSUME NEW l \in Slots PROVE HeldInv(workers[l])'
  <2>1. CASE l = k
    <3> HeldInv(workers[k])' BY <1>1 DEF HeldInv, Free, Asked, Complete, Accounted
    <3> QED BY <2>1
  <2>2. CASE l # k
    <3> PICK w : w = workers[l] OBVIOUS
    <3>1. HeldInv(w) /\ workers'[l] = w BY <1>1, <2>2
    <3>2. ASSUME w.pc = "execute" PROVE Free(w.op)'
      <4>1. Free(w.op) /\ w.op \in Operation BY <1>2, <3>2
      <4>2. workers[k].pc = "execute" => w.op.stamp # workers[k].op.stamp BY <2>2, <3>2 DEF OneClaim
      <4> PICK x : x = w.op OBVIOUS
      <4>3. Free(x)' BY <4>1, <4>2 DEF Keeps, FreeKept
      <4> QED BY <4>3
    <3>3. HeldInv(w)' BY <3>1, <3>2, HeldKept DEF Keeps
    <3> QED BY <3>1, <3>3 DEF HeldInv, Free, Asked, Complete, Accounted
  <2> QED BY <2>1, <2>2
<1>4. ASSUME NEW l \in Slots, NEW m \in Slots, workers'[l].pc = "execute", workers'[m].pc = "execute",
             workers'[l].op.stamp = workers'[m].op.stamp
      PROVE  l = m
  <2>1. CASE l # k /\ m # k BY <1>1, <1>4, <2>1 DEF OneClaim
  <2>2. CASE l = k /\ m # k BY <1>1, <1>2, <1>4, <2>2
  <2>3. CASE l # k /\ m = k BY <1>1, <1>2, <1>4, <2>3
  <2>4. CASE l = k /\ m = k BY <2>4
  <2> QED BY <2>1, <2>2, <2>3, <2>4
<1> QED BY <1>3, <1>4 DEF OneClaim

\* No goroutine steps.
LEMMA AllKeep ==
    ASSUME OneClaim, \A l \in Slots : HeldInv(workers[l]), UNCHANGED <<storeVars, executed, workers>>
    PROVE  OneClaim' /\ (\A l \in Slots : HeldInv(workers[l]))'
BY DEF OneClaim, HeldInv, Free, Asked, Complete, Accounted, storeVars

-----------------------------------------------------------------------------
(* Steps of a goroutine.                                                   *)

\* The part of the invariant that is about Swarm and the configuration.
World ==
    /\ allowed \subseteq Operations /\ catalog \subseteq Services
    /\ replicas \in [Services -> {0, InitialReplicas} \cup ScaleTargets]
    /\ version \in [Services -> Nat]
    /\ ReplicasAccounted

LEMMA AccountedFacts == ReplicasAccounted <=> \A s \in Services : Accounted(s, replicas[s])
BY DEF ReplicasAccounted, Accounted

LEMMA WorldKept ==
    ASSUME IInv, UNCHANGED <<allowed, replicas, catalog>>, version' \in [Services -> Nat],
           \A i \in DOMAIN executed : i \in DOMAIN executed' /\ executed'[i] = executed[i]
    PROVE  World'
<1>1. ASSUME NEW s \in Services PROVE Accounted(s, replicas[s])'
  <2> PICK n : n = replicas[s] OBVIOUS
  <2>1. Accounted(s, n) BY AccountedFacts DEF IInv
  <2>2. Accounted(s, n)' BY <2>1, AccountedKept
  <2> QED BY <2>2 DEF Accounted
<1>2. ReplicasAccounted' BY <1>1 DEF ReplicasAccounted, Accounted
<1> QED BY <1>2 DEF World, IInv, Shape

\* A goroutine ends.
LEMMA EndStep ==
    ASSUME IInv, NEW k \in Slots, Busy(k), EndRun(k), Keeps(k), World'
    PROVE  IInv'
<1>1. FinishedInv' /\ GoroutineInv' /\ workers' \in [Slots -> ActiveType \cup {Idle}]
  BY EndRunKeeps DEF IInv
<1>2. workers' = [workers EXCEPT ![k] = Idle] BY DEF EndRun
<1>3. Idle.pc = "idle" BY DEF Idle
<1> PICK r : r = Idle OBVIOUS
<1>4. HeldInv(r)' BY <1>3 DEF HeldInv, Tool
<1>5. OneClaim' /\ (\A l \in Slots : HeldInv(workers[l]))' BY <1>2, <1>3, <1>4, OthersKeep DEF IInv
<1>6. Shape' BY <1>1 DEF Shape, World, Keeps
<1> QED BY <1>1, <1>5, <1>6 DEF IInv, World, Keeps

\* A goroutine goes on.
LEMMA MoveStep ==
    ASSUME IInv, NEW k \in Slots, Busy(k), Keeps(k), World', UNCHANGED <<runs, finished>>,
           NEW r \in ActiveType, r.id = workers[k].id, workers' = [workers EXCEPT ![k] = r], HeldInv(r)',
           r.pc = "execute" => \A x \in Operation : Free(x) => x.stamp # r.op.stamp
    PROVE  IInv'
<1>1. Moves(k) BY DEF Moves
<1>2. FinishedInv' /\ GoroutineInv' /\ workers' \in [Slots -> ActiveType \cup {Idle}]
  BY <1>1, MoveKeeps DEF IInv
<1>3. OneClaim' /\ (\A l \in Slots : HeldInv(workers[l]))' BY OthersKeep DEF IInv
<1>4. Shape' BY <1>2 DEF Shape, World, Keeps
<1> QED BY <1>2, <1>3, <1>4 DEF IInv, World, Keeps

\* A goroutine goes on to a place where it needs to hold nothing.
LEMMA GoStep ==
    ASSUME IInv, NEW k \in Slots, Busy(k), Keeps(k), World', NEW pc \in {"route", "generate"}, GoTo(k, pc)
    PROVE  IInv'
<1> PICK w : w = workers[k] OBVIOUS
<1> PICK r : r = [w EXCEPT !.pc = pc] OBVIOUS
<1>1. w \in ActiveType BY ActiveFacts DEF IInv
<1>2. r \in ActiveType /\ r.id = w.id /\ r.pc = pc BY <1>1 DEF ActiveType, Places
<1>3. workers' = [workers EXCEPT ![k] = r] /\ UNCHANGED <<runs, finished>> BY DEF GoTo, chatVars
<1>4. HeldInv(r)' BY <1>2 DEF HeldInv, Tool
<1> QED BY <1>2, <1>3, <1>4, MoveStep

\* The facts that the steps below share.
LEMMA WorkerFacts ==
    ASSUME IInv, NEW k \in Slots, workers[k].pc # "idle"
    PROVE  /\ Busy(k) /\ workers[k] \in ActiveType /\ HeldInv(workers[k])
           /\ workers[k].conv \in Conversations
BY ActiveFacts DEF IInv, ActiveType

LEMMA PendingStep ==
    ASSUME IInv, NEW k \in Slots, handlePendingOperation(k)
    PROVE  IInv'
<1> PICK w : w = workers[k] OBVIOUS
<1> PICK conv : conv = w.conv OBVIOUS
<1> PICK op : op = pending[conv] OBVIOUS
<1>1. w.pc = "pending" /\ UNCHANGED <<allowed, swarmVars, catalog, executed>>
  BY DEF handlePendingOperation
<1>2. Busy(k) /\ w \in ActiveType /\ conv \in Conversations BY <1>1, WorkerFacts
<1>3. World' BY <1>1, WorldKept DEF swarmVars, IInv, Shape
<1>4. UNCHANGED storeVars => Keeps(k) BY <1>1, StoreUnchanged DEF IInv
<1>5. delete(conv) => Keeps(k) BY <1>1, <1>2, DeleteKeeps DEF IInv
<1>6. ASSUME Stamped(conv), NEW pc \in {"claim", "cancel", "abandon", "collect"},
             pc = "claim" => op.stage = "confirmation",
             workers' = [workers EXCEPT ![k].pc = pc, ![k].op = op], UNCHANGED <<chatVars, storeVars>>
      PROVE  IInv'
  <2> PICK r1 : r1 = [w EXCEPT !.pc = pc] OBVIOUS
  <2> PICK r : r = [r1 EXCEPT !.op = op] OBVIOUS
  <2>1. op \in Operation BY <1>2, <1>6, StampedFacts DEF IInv
  <2>2. r1 \in ActiveType /\ r1.id = w.id /\ r1.pc = pc BY <1>2, <1>6 DEF ActiveType, Places
  <2>3. r \in ActiveType /\ r.id = w.id /\ r.pc = pc /\ r.op = op BY <2>1, <2>2 DEF ActiveType
  <2>4. workers' = [workers EXCEPT ![k] = r] BY <1>6 DEF IInv, Shape
  <2>5. HeldInv(r)' BY <1>6, <2>1, <2>3 DEF HeldInv, Tool
  <2>6. UNCHANGED <<runs, finished>> /\ Keeps(k) BY <1>4, <1>6 DEF chatVars
  <2>7. r.pc # "execute" BY <1>6, <2>3
  <2> QED BY <1>2, <1>3, <2>3, <2>4, <2>5, <2>6, <2>7, MoveStep
<1>7. CASE EndRun(k) /\ UNCHANGED storeVars BY <1>2, <1>3, <1>4, <1>7, EndStep
<1>8. CASE delete(conv) /\ GoTo(k, "route") BY <1>2, <1>3, <1>5, <1>8, GoStep
<1>9. CASE /\ Stamped(conv)
           /\ \E pc \in {"claim", "cancel", "abandon", "collect"} :
                /\ pc = "claim" => op.stage = "confirmation"
                /\ workers' = [workers EXCEPT ![k].pc = pc, ![k].op = op]
                /\ UNCHANGED <<chatVars, storeVars>>
  BY <1>6, <1>9
<1> QED BY <1>7, <1>8, <1>9 DEF handlePendingOperation

LEMMA CancelStep ==
    ASSUME IInv, NEW k \in Slots, CancelOperation(k)
    PROVE  IInv'
<1>1. /\ workers[k].pc \in {"cancel", "abandon"} /\ delete(workers[k].conv)
      /\ UNCHANGED <<allowed, swarmVars, catalog, executed>>
  BY DEF CancelOperation
<1>2. Busy(k) /\ workers[k].conv \in Conversations BY <1>1, WorkerFacts
<1>3. World' BY <1>1, WorldKept DEF swarmVars, IInv, Shape
<1>4. Keeps(k) BY <1>1, <1>2, DeleteKeeps DEF IInv
<1>5. EndRun(k) \/ GoTo(k, "route") BY DEF CancelOperation
<1> QED BY <1>2, <1>3, <1>4, <1>5, EndStep, GoStep

\* What is put into the store for confirmation is complete.
LEMMA StagedFacts ==
    ASSUME NEW op \in Operation
    PROVE  Staged(op) \in Operation /\ (Staged(op).stage = "confirmation" => Complete(Staged(op)))
BY DEF Staged, Operation, Complete

LEMMA CollectStep ==
    ASSUME IInv, NEW k \in Slots, handlePendingCollection(k)
    PROVE  IInv'
<1> PICK w : w = workers[k] OBVIOUS
<1>1. w.pc = "collect" /\ EndRun(k) /\ UNCHANGED <<allowed, swarmVars, catalog, executed>>
  BY DEF handlePendingCollection
<1>2. Busy(k) /\ w.conv \in Conversations /\ w.op \in Operation BY <1>1, WorkerFacts DEF HeldInv
<1>3. World' BY <1>1, WorldKept DEF swarmVars, IInv, Shape
<1>4. PICK service \in IF w.op.service = None THEN catalog \cup {None} ELSE {w.op.service},
           count \in IF w.op.replicas = Unset /\ w.message = "reply"
                     THEN {Unset} \cup (ScaleTargets \ {0}) ELSE {w.op.replicas} :
         set(w.conv, Staged([w.op EXCEPT !.service = service, !.replicas = count]))
  BY DEF handlePendingCollection
<1>5. service \in Services \cup {None} /\ count \in ScaleTargets \cup {Unset}
  BY <1>2 DEF Operation, IInv, Shape
<1> PICK o1 : o1 = [w.op EXCEPT !.service = service] OBVIOUS
<1> PICK o : o = [o1 EXCEPT !.replicas = count] OBVIOUS
<1>6. o \in Operation
  <2>1. o1 \in Operation BY <1>2, <1>5 DEF Operation
  <2> QED BY <1>5, <2>1 DEF Operation
<1>7. set(w.conv, Staged(o)) BY <1>4
<1>8. Keeps(k)
  <2> PICK op : op = Staged(o) OBVIOUS
  <2> QED BY <1>1, <1>2, <1>6, <1>7, StagedFacts, SetKeeps DEF IInv
<1> QED BY <1>1, <1>2, <1>3, <1>8, EndStep

LEMMA RouteStep ==
    ASSUME IInv, NEW k \in Slots, routeNode(k)
    PROVE  IInv'
<1>1. workers[k].pc = "route" /\ UNCHANGED <<allowed, swarmVars, catalog, executed>> BY DEF routeNode
<1>2. Busy(k) /\ workers[k].conv \in Conversations BY <1>1, WorkerFacts
<1>3. World' BY <1>1, WorldKept DEF swarmVars, IInv, Shape
<1>4. UNCHANGED storeVars => Keeps(k) BY <1>1, StoreUnchanged DEF IInv
<1>5. ASSUME startPendingOperation(k) PROVE Keeps(k)
  <2>1. PICK type \in Operations, service \in catalog \cup {None}, count \in ScaleTargets \cup {Unset} :
           set(workers[k].conv,
               Staged([type |-> type, stage |-> "collecting", service |-> service,
                       replicas |-> count, stamp |-> 1]))
    BY <1>5 DEF startPendingOperation
  <2> PICK o : o = [type |-> type, stage |-> "collecting", service |-> service,
                    replicas |-> count, stamp |-> 1] OBVIOUS
  <2>2. 1 \in 1..MaxAsked
    <3>1. Len(asked) < MaxAsked BY <2>1 DEF set
    <3> QED BY <3>1, AssistantBounds DEF IInv, Shape
  <2>3. o \in Operation BY <2>2 DEF Operation, IInv, Shape
  <2> PICK op : op = Staged(o) OBVIOUS
  <2> QED BY <1>1, <1>2, <2>1, <2>3, StagedFacts, SetKeeps DEF IInv
<1>6. \/ EndRun(k) /\ Keeps(k)
      \/ GoTo(k, "generate") /\ Keeps(k)
  BY <1>4, <1>5 DEF routeNode
<1> QED BY <1>2, <1>3, <1>6, EndStep, GoStep

LEMMA GenerateStep ==
    ASSUME IInv, NEW k \in Slots, GenerateAnswer(k)
    PROVE  IInv'
<1> PICK w : w = workers[k] OBVIOUS
<1>1. w.pc = "generate" /\ UNCHANGED <<allowed, storeVars, swarmVars, catalog>> BY DEF GenerateAnswer
<1>2. UNCHANGED executed BY DEF GenerateAnswer, executeToolCall
<1>3. Busy(k) /\ w \in ActiveType BY <1>1, WorkerFacts
<1>4. World' BY <1>1, <1>2, WorldKept DEF swarmVars, IInv, Shape
<1>5. Keeps(k) BY <1>1, <1>2, StoreUnchanged DEF IInv
<1>6. CASE EndRun(k) BY <1>3, <1>4, <1>5, <1>6, EndStep
<1>7. CASE workers' = [workers EXCEPT ![k].rounds = @ + 1] /\ UNCHANGED chatVars
  <2> PICK r : r = [w EXCEPT !.rounds = w.rounds + 1] OBVIOUS
  <2>1. r \in ActiveType /\ r.id = w.id /\ r.pc = "generate" BY <1>1, <1>3 DEF ActiveType
  <2>2. workers' = [workers EXCEPT ![k] = r] BY <1>7 DEF IInv, Shape
  <2>3. HeldInv(r)' BY <2>1 DEF HeldInv, Tool
  <2>4. UNCHANGED <<runs, finished>> BY <1>7 DEF chatVars
  <2> QED BY <1>3, <1>4, <1>5, <2>1, <2>2, <2>3, <2>4, MoveStep
<1> QED BY <1>6, <1>7 DEF GenerateAnswer

LEMMA ClaimStep ==
    ASSUME IInv, NEW k \in Slots, ClaimOperation(k)
    PROVE  IInv'
<1> PICK w : w = workers[k] OBVIOUS
<1> PICK op : op = w.op OBVIOUS
<1> PICK conv : conv = w.conv OBVIOUS
<1>1. w.pc = "claim" /\ claim(conv, op) /\ UNCHANGED <<allowed, swarmVars, catalog, executed>>
  BY DEF ClaimOperation
<1>2. Busy(k) /\ w \in ActiveType /\ conv \in Conversations /\ op \in Operation /\ op.stage = "confirmation"
  BY <1>1, WorkerFacts DEF HeldInv
<1>3. World' BY <1>1, WorldKept DEF swarmVars, IInv, Shape
<1>4. CASE Claims(conv, op)
  <2> PICK r : r = [w EXCEPT !.pc = "execute"] OBVIOUS
  <2>1. Keeps(k) /\ Free(op)' /\ \A x \in Operation : Free(x) => x.stamp # op.stamp
    BY <1>1, <1>2, <1>4, ClaimKeeps DEF IInv
  <2>2. r \in ActiveType /\ r.id = w.id /\ r.pc = "execute" /\ r.op = op BY <1>2 DEF ActiveType, Places
  <2>3. GoTo(k, "execute") BY <1>4 DEF ClaimOperation
  <2>4. workers' = [workers EXCEPT ![k] = r] /\ UNCHANGED <<runs, finished>> BY <2>3 DEF GoTo, chatVars
  <2>5. HeldInv(r)' BY <2>1, <2>2 DEF HeldInv, Tool
  <2> QED BY <1>2, <1>3, <2>1, <2>2, <2>4, <2>5, MoveStep
<1>5. CASE ~Claims(conv, op)
  <2>1. delete(conv) \/ UNCHANGED storeVars BY <1>1, <1>5 DEF claim
  <2>2. Keeps(k) BY <1>1, <1>2, <2>1, DeleteKeeps, StoreUnchanged DEF IInv
  <2>3. EndRun(k) BY <1>5 DEF ClaimOperation
  <2> QED BY <1>2, <1>3, <2>2, <2>3, EndStep
<1> QED BY <1>4, <1>5

LEMMA ExecuteStep ==
    ASSUME IInv, NEW k \in Slots, executePendingOperation(k)
    PROVE  IInv'
<1> PICK w : w = workers[k] OBVIOUS
<1> PICK op : op = w.op OBVIOUS
<1>1. w.pc = "execute" /\ UNCHANGED <<allowed, storeVars, swarmVars, catalog>> BY DEF executePendingOperation
<1>2. Busy(k) /\ w \in ActiveType /\ Free(op) /\ op \in Operation BY <1>1, WorkerFacts DEF HeldInv, Free
<1>3. ASSUME Keeps(k) PROVE World' BY <1>1, <1>3, WorldKept DEF swarmVars, IInv, Shape, Keeps
<1>4. CASE UNCHANGED executed /\ EndRun(k)
  <2>1. Keeps(k) BY <1>1, <1>4, StoreUnchanged DEF IInv
  <2> QED BY <1>2, <1>3, <1>4, <2>1, EndStep
<1>5. CASE executed' = Append(executed, op)
  <2>1. Keeps(k) /\ \E i \in DOMAIN executed' : executed'[i] = op
    BY <1>1, <1>2, <1>5, ExecuteKeeps DEF IInv
  <2>2. CASE EndRun(k) BY <1>2, <1>3, <2>1, <2>2, EndStep
  <2>3. CASE /\ op.type # "sync" /\ UNCHANGED chatVars
             /\ \E service \in ResolvedService(op) :
                  workers' = [workers EXCEPT ![k].pc = "inspect", ![k].op.service = service]
    <3>1. PICK service \in ResolvedService(op) :
             workers' = [workers EXCEPT ![k].pc = "inspect", ![k].op.service = service]
      BY <2>3
    <3>2. service = op.service /\ op.service \in Services BY <3>1 DEF ResolvedService, IInv, Shape
    <3> PICK r : r = [w EXCEPT !.pc = "inspect"] OBVIOUS
    <3>3. r \in ActiveType /\ r.id = w.id /\ r.pc = "inspect" /\ r.op = op
      BY <1>2 DEF ActiveType, Places
    <3>4. [op EXCEPT !.service = service] = op BY <1>2, <3>2 DEF Operation
    <3>5. [r EXCEPT !.op = op] = r BY <3>3 DEF ActiveType
    <3>6. workers' = [workers EXCEPT ![k] = r]
      <4> PICK o : o = [op EXCEPT !.service = service] OBVIOUS
      <4>1. workers' = [workers EXCEPT ![k] = [r EXCEPT !.op = o]]
        BY <1>2, <3>1, <3>3 DEF IInv, Shape
      <4> QED BY <3>4, <3>5, <4>1
    <3>7. op.type \in {"restart", "scale"} BY <1>2, <2>3 DEF Operation, Operations
    <3>8. HeldInv(r)' BY <1>2, <2>1, <3>2, <3>3, <3>7 DEF HeldInv, Tool
    <3>9. UNCHANGED <<runs, finished>> BY <2>3 DEF chatVars
    <3> QED BY <1>2, <1>3, <2>1, <3>3, <3>6, <3>8, <3>9, MoveStep
  <2> QED BY <2>2, <2>3, <1>4 DEF executePendingOperation
<1> QED BY <1>4, <1>5 DEF executePendingOperation

-----------------------------------------------------------------------------
(* The tools.                                                              *)

LEMMA InspectStep ==
    ASSUME IInv, NEW k \in Slots, GetReplicas(k)
    PROVE  IInv'
<1> PICK w : w = workers[k] OBVIOUS
<1> PICK op : op = w.op OBVIOUS
<1> PICK n : n = replicas[op.service] OBVIOUS
<1>1. w.pc = "inspect" /\ UNCHANGED <<allowed, storeVars, replicas, version, catalog, executed>>
  BY DEF GetReplicas
<1>2. /\ Busy(k) /\ w \in ActiveType /\ op \in Operation /\ op.service \in Services
      /\ op.type \in {"restart", "scale"} /\ \E i \in DOMAIN executed : executed[i] = op
  BY <1>1, WorkerFacts DEF HeldInv, Tool
<1>3. World' BY <1>1, WorldKept DEF IInv, Shape
<1>4. Keeps(k) BY <1>1, StoreUnchanged DEF IInv
<1>5. CASE EndRun(k) BY <1>2, <1>3, <1>4, <1>5, EndStep
<1>6. CASE /\ parseReplicasParam(op) /\ UNCHANGED chatVars
           /\ workers' = [workers EXCEPT
                ![k].pc = IF op.type = "restart" THEN "down" ELSE "scale",
                ![k].current = replicas[op.service]]
  <2> PICK pc : pc = IF op.type = "restart" THEN "down" ELSE "scale" OBVIOUS
  <2> PICK r1 : r1 = [w EXCEPT !.pc = pc] OBVIOUS
  <2> PICK r : r = [r1 EXCEPT !.current = n] OBVIOUS
  <2>1. n \in Nat
    <3>1. replicas \in [Services -> {0, InitialReplicas} \cup ScaleTargets] BY DEF IInv, Shape
    <3>2. n \in {0, InitialReplicas} \cup ScaleTargets BY <1>2, <3>1
    <3> QED BY <3>2, ReplicaCounts
  <2>2. r1 \in ActiveType /\ r1.id = w.id /\ r1.pc = pc /\ r1.op = op BY <1>2 DEF ActiveType, Places
  <2>3. r \in ActiveType /\ r.id = w.id /\ r.pc = pc /\ r.op = op /\ r.current = n
    BY <2>1, <2>2 DEF ActiveType
  <2>4. workers' = [workers EXCEPT ![k] = r] BY <1>6 DEF IInv, Shape
  <2>5. Accounted(op.service, n) BY <1>2, AccountedFacts DEF IInv
  <2>6. Accounted(op.service, n)' BY <1>1, <2>5, AccountedKept
  <2>7. op.type = "scale" => op.replicas > 0 BY <1>6 DEF parseReplicasParam
  <2>8. HeldInv(r)'
    <3>1. CASE pc = "down" BY <1>1, <1>2, <2>3, <2>6, <3>1 DEF HeldInv, Tool
    <3>2. CASE pc = "scale" BY <1>1, <1>2, <2>3, <2>7, <3>2 DEF HeldInv, Tool
    <3> QED BY <3>1, <3>2
  <2>9. UNCHANGED <<runs, finished>> /\ r.pc # "execute" BY <1>6, <2>3 DEF chatVars
  <2> QED BY <1>2, <1>3, <1>4, <2>3, <2>4, <2>8, <2>9, MoveStep
<1> QED BY <1>5, <1>6 DEF GetReplicas, ToolFailed

\* A scaling step is done: the restart goes on, or the goroutine ends.
LEMMA DoneStep ==
    ASSUME IInv, NEW k \in Slots, workers[k].pc \in Tool \ {"inspect"}, ScaleDone(k),
           UNCHANGED <<storeVars, executed>>, World'
    PROVE  IInv'
<1> PICK w : w = workers[k] OBVIOUS
<1>1. Busy(k) /\ w \in ActiveType /\ HeldInv(w) BY WorkerFacts DEF Tool
<1>2. Keeps(k) BY StoreUnchanged DEF IInv
<1>3. CASE w.pc \in {"down", "write_down"}
  <2> PICK r : r = [w EXCEPT !.pc = "up"] OBVIOUS
  <2>1. r \in ActiveType /\ r.id = w.id /\ r.pc = "up" /\ r.op = w.op /\ r.current = w.current
    BY <1>1 DEF ActiveType, Places
  <2>2. workers' = [workers EXCEPT ![k] = r] /\ UNCHANGED <<runs, finished>>
    BY <1>3 DEF ScaleDone, GoTo, chatVars
  <2>3. /\ w.op \in Operation /\ w.op.service \in Services
        /\ \E i \in DOMAIN executed : executed[i] = w.op
        /\ w.op.type = "restart" /\ Accounted(w.op.service, w.current)
    BY <1>1, <1>3 DEF HeldInv, Tool
  <2>4. Accounted(w.op.service, w.current)' BY <2>3, AccountedKept
  <2>5. HeldInv(r)' BY <2>1, <2>3, <2>4 DEF HeldInv, Tool
  <2> QED BY <1>1, <1>2, <2>1, <2>2, <2>5, MoveStep
<1>4. CASE w.pc \notin {"down", "write_down"}
  <2>1. EndRun(k) BY <1>4 DEF ScaleDone
  <2> QED BY <1>1, <1>2, <2>1, EndStep
<1> QED BY <1>3, <1>4

LEMMA ScaleStep ==
    ASSUME IInv, NEW k \in Slots, ScaleInspect(k)
    PROVE  IInv'
<1> PICK w : w = workers[k] OBVIOUS
<1> PICK s : s = w.op.service OBVIOUS
<1> DEFINE Write == [down |-> "write_down", up |-> "write_up", scale |-> "write_scale"]
<1>1. /\ w.pc \in {"down", "up", "scale"}
      /\ UNCHANGED <<allowed, storeVars, replicas, version, catalog, executed>>
  BY DEF ScaleInspect
<1>2. Busy(k) /\ w \in ActiveType /\ HeldInv(w) BY <1>1, WorkerFacts
<1>3. World' BY <1>1, WorldKept DEF IInv, Shape
<1>4. Keeps(k) BY <1>1, StoreUnchanged DEF IInv
<1>5. CASE EndRun(k) BY <1>2, <1>3, <1>4, <1>5, EndStep
<1>6. CASE ScaleDone(k) BY <1>1, <1>3, <1>6, DoneStep DEF Tool
<1>7. CASE /\ UNCHANGED chatVars
           /\ workers' = [workers EXCEPT ![k].pc = Write[w.pc], ![k].read = version[s]]
  <2> PICK pc : pc = Write[w.pc] OBVIOUS
  <2> PICK v : v = version[s] OBVIOUS
  <2> PICK r1 : r1 = [w EXCEPT !.pc = pc] OBVIOUS
  <2> PICK r : r = [r1 EXCEPT !.read = v] OBVIOUS
  <2>1. /\ w.op \in Operation /\ s \in Services /\ w.op.type \in {"restart", "scale"}
        /\ \E i \in DOMAIN executed : executed[i] = w.op
        /\ w.pc \in {"down", "up"} => w.op.type = "restart" /\ Accounted(s, w.current)
        /\ w.pc = "scale" => w.op.type = "scale" /\ w.op.replicas > 0
    BY <1>1, <1>2 DEF HeldInv, Tool
  <2>2. /\ w.pc \in {"down", "up"} => pc \in {"write_down", "write_up"}
        /\ w.pc = "scale" => pc = "write_scale"
    OBVIOUS
  <2>3. v \in Nat BY <2>1 DEF IInv, Shape
  <2>4. r1 \in ActiveType /\ r1.id = w.id /\ r1.pc = pc /\ r1.op = w.op /\ r1.current = w.current
    BY <1>1, <1>2, <2>2 DEF ActiveType, Places
  <2>5. r \in ActiveType /\ r.id = w.id /\ r.pc = pc /\ r.op = w.op /\ r.current = w.current
    BY <2>3, <2>4 DEF ActiveType
  <2>6. workers' = [workers EXCEPT ![k] = r] BY <1>7 DEF IInv, Shape
  <2>7. Accounted(s, w.current) => Accounted(s, w.current)' BY <1>1, AccountedKept
  <2>8. HeldInv(r)'
    <3>1. CASE w.pc \in {"down", "up"} BY <1>1, <2>1, <2>2, <2>5, <2>7, <3>1 DEF HeldInv, Tool
    <3>2. CASE w.pc = "scale" BY <1>1, <2>1, <2>2, <2>5, <3>2 DEF HeldInv, Tool
    <3> QED BY <1>1, <3>1, <3>2
  <2>9. UNCHANGED <<runs, finished>> /\ r.pc # "execute" BY <1>1, <1>7, <2>2, <2>5 DEF chatVars
  <2> QED BY <1>2, <1>3, <1>4, <2>5, <2>6, <2>8, <2>9, MoveStep
<1> QED BY <1>5, <1>6, <1>7 DEF ScaleInspect, ToolFailed

LEMMA UpdateStep ==
    ASSUME IInv, NEW k \in Slots, ServiceUpdate(k)
    PROVE  IInv'
<1> PICK w : w = workers[k] OBVIOUS
<1> PICK s : s = w.op.service OBVIOUS
<1> PICK n : n = Goal(w) OBVIOUS
<1> DEFINE Written == replicas' = [replicas EXCEPT ![s] = n] /\ version' = [version EXCEPT ![s] = @ + 1]
<1>1. /\ w.pc \in {"write_down", "write_up", "write_scale"}
      /\ UNCHANGED <<allowed, storeVars, catalog, executed>>
  BY DEF ServiceUpdate
<1>2. Busy(k) /\ w \in ActiveType /\ HeldInv(w) BY <1>1, WorkerFacts
<1>3. Keeps(k) BY <1>1, StoreUnchanged DEF IInv
<1>4. /\ w.op \in Operation /\ s \in Services /\ \E i \in DOMAIN executed : executed[i] = w.op
      /\ w.pc \in {"write_down", "write_up"} => w.op.type = "restart" /\ Accounted(s, w.current)
      /\ w.pc = "write_scale" => w.op.type = "scale" /\ w.op.replicas > 0
  BY <1>1, <1>2 DEF HeldInv, Tool
<1>5. Accounted(s, n)
  <2>1. CASE w.pc = "write_down"
    <3> n = 0 BY <2>1 DEF Goal
    <3> QED BY <1>4, <2>1 DEF Accounted
  <2>2. CASE w.pc = "write_up" BY <1>4, <2>2 DEF Goal
  <2>3. CASE w.pc = "write_scale"
    <3> n = w.op.replicas BY <2>3 DEF Goal
    <3> QED BY <1>4, <2>3 DEF Accounted
  <2> QED BY <1>1, <2>1, <2>2, <2>3
<1>6. n \in {0, InitialReplicas} \cup ScaleTargets
  <2>1. \A op \in Operation : op.replicas > 0 => op.replicas \in ScaleTargets BY DEF Operation, Unset
  <2>2. \A i \in DOMAIN executed : executed[i] \in Operation BY ExecutedFacts DEF IInv
  <2> QED BY <1>5, <2>1, <2>2 DEF Accounted
<1>7. ASSUME UNCHANGED <<replicas, version>> PROVE World' BY <1>1, <1>7, WorldKept DEF IInv, Shape
<1>8. ASSUME Written PROVE World'
  <2>1. /\ replicas' \in [Services -> {0, InitialReplicas} \cup ScaleTargets]
        /\ version' \in [Services -> Nat]
    BY <1>4, <1>6, <1>8 DEF IInv, Shape
  <2>2. ASSUME NEW t \in Services PROVE Accounted(t, replicas'[t])
    <3>1. CASE t = s BY <1>4, <1>5, <1>8, <3>1 DEF IInv, Shape
    <3>2. CASE t # s
      <4>1. replicas'[t] = replicas[t] BY <1>8, <3>2 DEF IInv, Shape
      <4>2. Accounted(t, replicas[t]) BY AccountedFacts DEF IInv
      <4> QED BY <4>1, <4>2
    <3> QED BY <3>1, <3>2
  <2>3. ReplicasAccounted' BY <1>1, <2>2 DEF ReplicasAccounted, Accounted
  <2> QED BY <1>1, <2>1, <2>3 DEF World, IInv, Shape
<1>9. World' BY <1>7, <1>8 DEF ServiceUpdate, swarmVars
<1>10. CASE EndRun(k) BY <1>2, <1>3, <1>9, <1>10, EndStep
<1>11. CASE ScaleDone(k) BY <1>1, <1>9, <1>11, DoneStep DEF Tool
<1> QED BY <1>10, <1>11 DEF ServiceUpdate, ToolFailed

-----------------------------------------------------------------------------
(* The environment, and the theorems.                                      *)

\* Steps that touch neither the goroutines nor the store's operations.
LEMMA QuietStep ==
    ASSUME IInv, UNCHANGED <<allowed, chatVars, pending, asked, replicas, workers, executed>>,
           version' \in [Services -> Nat], catalog' \subseteq Services,
           expired' \subseteq {c \in Conversations : Stamped(c)}
    PROVE  IInv'
<1>1. Shape' BY DEF IInv, Shape, Stamped
<1>2. FinishedInv' /\ GoroutineInv' BY DEF IInv, FinishedInv, GoroutineInv, Busy, InProgress, chatVars
<1>3. PendingInv' BY DEF IInv, PendingInv, Stamped, Asked
<1>4. ExecutedInv' BY DEF IInv, ExecutedInv, Asked
<1>5. OneClaim' BY DEF IInv, OneClaim
<1>6. (\A k \in Slots : HeldInv(workers[k]))'
  BY DEF IInv, HeldInv, Free, Asked, Complete, Accounted
<1>7. ReplicasAccounted' BY DEF IInv, ReplicasAccounted
<1> QED BY <1>1, <1>2, <1>3, <1>4, <1>5, <1>6, <1>7 DEF IInv

LEMMA ChatStep ==
    ASSUME IInv, NEW id \in RequestIDs, NEW conv \in Conversations, NEW message \in Messages,
           Chat(id, conv, message)
    PROVE  IInv'
<1>1. UNCHANGED <<allowed, storeVars, swarmVars, catalog, executed>> BY DEF Chat
<1>2. FinishedInv' /\ GoroutineInv' /\ workers' \in [Slots -> ActiveType \cup {Idle}]
  BY ChatKeeps DEF IInv
<1>3. World' BY <1>1, WorldKept DEF swarmVars, IInv, Shape
<1>4. CASE UNCHANGED workers
  <2>1. OneClaim' /\ (\A l \in Slots : HeldInv(workers[l]))' BY <1>1, <1>4, AllKeep DEF IInv
  <2> PICK k : k = 0 OBVIOUS
  <2>2. Keeps(k) BY <1>1, StoreUnchanged DEF IInv
  <2> QED BY <1>2, <1>3, <2>1, <2>2 DEF IInv, Shape, World, Keeps
<1>5. CASE \E k \in Slots :
             workers' = [workers EXCEPT ![k] =
               [pc |-> "pending", id |-> id, conv |-> conv, message |-> message,
                op |-> NoOperation, rounds |-> 0, current |-> Unset, read |-> 0]]
  <2> PICK r : r = [pc |-> "pending", id |-> id, conv |-> conv, message |-> message,
                    op |-> NoOperation, rounds |-> 0, current |-> Unset, read |-> 0] OBVIOUS
  <2>1. PICK k \in Slots : workers' = [workers EXCEPT ![k] = r] BY <1>5
  <2>2. r.pc = "pending" OBVIOUS
  <2>3. HeldInv(r)' BY <2>2 DEF HeldInv, Tool
  <2>4. Keeps(k) BY <1>1, StoreUnchanged DEF IInv
  <2>5. OneClaim' /\ (\A l \in Slots : HeldInv(workers[l]))'
    BY <2>1, <2>2, <2>3, <2>4, OthersKeep DEF IInv
  <2> QED BY <1>2, <1>3, <2>4, <2>5 DEF IInv, Shape, World, Keeps
<1> QED BY <1>4, <1>5 DEF Chat

\* The invariant holds when the assistant starts.
LEMMA InitInv == Init => IInv
<1> SUFFICES ASSUME Init PROVE IInv OBVIOUS
<1>1. /\ finished = <<>> /\ asked = <<>> /\ executed = <<>> BY DEF Init
<1>2. DOMAIN finished = {} /\ DOMAIN executed = {} /\ DOMAIN asked = {} /\ Range(finished) = {}
  BY <1>1 DEF Range
<1>3. Idle.pc = "idle" /\ \A k \in Slots : workers[k] = Idle BY DEF Init, Idle
<1>4. \A c \in Conversations : pending[c] = NoOperation /\ ~Stamped(c) BY DEF Init, Stamped
<1>5. Shape
  <2>1. asked \in Seq(Operation \cup {Withdrawn}) /\ executed \in Seq(Operation) BY <1>1, EmptySeq
  <2>2. allowed \subseteq Operations BY AllowedOperations DEF Init, Operations
  <2> QED BY <2>1, <2>2 DEF Init, Shape
<1>6. FinishedInv
  <2>1. finished \in Seq(RequestIDs) BY <1>1, EmptySeq
  <2> QED BY <1>2, <2>1 DEF Init, FinishedInv, None
<1>7. GoroutineInv BY <1>3 DEF Init, GoroutineInv, Busy, InProgress, None
<1>8. PendingInv /\ ExecutedInv BY <1>2, <1>4 DEF PendingInv, ExecutedInv
<1>9. OneClaim /\ \A k \in Slots : HeldInv(workers[k]) BY <1>3 DEF OneClaim, HeldInv, Tool
<1>10. ReplicasAccounted BY DEF Init, ReplicasAccounted
<1> QED BY <1>5, <1>6, <1>7, <1>8, <1>9, <1>10 DEF IInv

\* Every step keeps it.
LEMMA NextInv == IInv /\ [Next]_vars => IInv'
<1> SUFFICES ASSUME IInv, [Next]_vars PROVE IInv' OBVIOUS
<1>1. ASSUME NEW id \in RequestIDs, NEW c \in Conversations, NEW m \in Messages, Chat(id, c, m)
      PROVE  IInv'
  BY <1>1, ChatStep
<1>2. ASSUME NEW k \in Slots, Worker(k) PROVE IInv'
  BY <1>2, PendingStep, CancelStep, CollectStep, RouteStep, GenerateStep, ClaimStep, ExecuteStep,
     InspectStep, ScaleStep, UpdateStep
  DEF Worker
<1>3. ASSUME NEW c \in Conversations, Expire(c) PROVE IInv'
  BY <1>3, QuietStep DEF Expire, swarmVars, IInv, Shape
<1>4. ASSUME NEW s \in Services, ForeignUpdate(s) PROVE IInv'
  <2>1. version' \in [Services -> Nat] BY <1>4 DEF ForeignUpdate, IInv, Shape
  <2> QED BY <1>4, <2>1, QuietStep DEF ForeignUpdate, storeVars, IInv, Shape
<1>5. ASSUME NEW s \in Services, ServiceLeaves(s) PROVE IInv'
  BY <1>5, QuietStep DEF ServiceLeaves, storeVars, IInv, Shape
<1>6. CASE UNCHANGED vars
  BY <1>6, QuietStep DEF vars, chatVars, storeVars, swarmVars, IInv, Shape
<1> QED BY <1>1, <1>2, <1>3, <1>4, <1>5, <1>6 DEF Next

LEMMA SpecInv == Spec => []IInv
BY InitInv, NextInv, PTL DEF Spec

\* A list without repetition is as long as its set is large.
LEMMA ListedOnce ==
    ASSUME NEW T, NEW s \in Seq(T), \A i, j \in DOMAIN s : s[i] = s[j] => i = j
    PROVE  Len(s) = Cardinality(Range(s))
<1> PICK n : n = Len(s) OBVIOUS
<1>1. n \in Nat /\ DOMAIN s = 1..n OBVIOUS
<1>2. s \in [1..n -> Range(s)] BY <1>1 DEF Range
<1>3. s \in Bijection(1..n, Range(s)) BY <1>1, <1>2, Fun_IsBij DEF Range
<1>4. ExistsBijection(1..n, Range(s)) BY <1>3 DEF ExistsBijection
<1> QED BY <1>1, <1>4, FS_CountingElements

\* The request ids of the runs in progress are those of the goroutines, one
\* goroutine each, and the finished runs are listed once: retried request
\* ids, pruning, eviction and full slots neither run a message twice nor
\* leave a run that nobody finishes (Chat, getOrCreateRun, runAssistant).
THEOREM OneGoroutinePerRequest == Spec => []AssistantInvariant
<1>1. IInv => AssistantInvariant
  <2> SUFFICES ASSUME IInv PROVE AssistantInvariant OBVIOUS
  <2>1. Shape /\ FinishedInv /\ GoroutineInv BY DEF IInv
  <2>2. Len(finished) = Cardinality(Range(finished)) BY <2>1, ListedOnce DEF FinishedInv
  <2>3. Range(finished) = {id \in RequestIDs : runs[id] = "finished"}
    <3>1. Range(finished) \subseteq RequestIDs BY <2>1, RangeFacts DEF FinishedInv
    <3> QED BY <2>1, <3>1 DEF FinishedInv
  <2>4. /\ \A i \in DOMAIN asked : asked[i] \in Operation \cup {Withdrawn}
        /\ \A i \in DOMAIN executed : executed[i] \in Operation
    BY <2>1 DEF Shape
  <2>5. AssistantTypeOK BY <2>1, <2>2, <2>3, <2>4 DEF AssistantTypeOK, Shape, FinishedInv
  <2>6. \A k \in Slots : Busy(k) => workers[k].id \in InProgress
    BY <2>1, ActiveFacts DEF GoroutineInv, InProgress, ActiveType
  <2>7. InProgress = {workers[k].id : k \in {l \in Slots : Busy(l)}} BY <2>1, <2>6 DEF GoroutineInv
  <2> QED BY <2>1, <2>5, <2>7 DEF AssistantInvariant, GoroutineInv
<1> QED BY <1>1, SpecInv, PTL

\* An operation is executed only as the user confirmed it, once, and never
\* after it was refused, replaced, abandoned or expired, whatever the
\* messages of a conversation overtake (claim, executePendingOperation).
THEOREM OnlyConfirmedIsExecuted == Spec => []ExecutedAsConfirmed
<1>1. IInv => ExecutedAsConfirmed BY DEF IInv, ExecutedAsConfirmed, ExecutedInv, Asked, Complete
<1> QED BY <1>1, SpecInv, PTL

\* The replicas of a service are those it had, or what an executed operation
\* on this very service explains, although names are resolved again after
\* the confirmation (executePendingOperation, serviceManager.Scale).
THEOREM ReplicasExplained == Spec => []ReplicasAccounted
<1>1. IInv => ReplicasAccounted BY DEF IInv
<1> QED BY <1>1, SpecInv, PTL

===============================================================================
