------------------------- MODULE ServiceRolloutProofs -------------------------
(***************************************************************************)
(* The deployments of one service, proved for any slots, definitions,      *)
(* attempts, faults and requested executions: the executions of an         *)
(* external service are left alone, a failure is the own write's, and what *)
(* the waiter calls ready of a managed service is rolled out and           *)
(* recognised.                                                             *)
(***************************************************************************)
EXTENDS ServiceRollout, TLAPS, FiniteSetTheorems

StatusType ==
    [state : {"none", "updating", "completed"} \cup FailedStates, startedAt : Nat]

ServiceType ==
    [exists : BOOLEAN, spec : Specification, prev : Specification, createdAt : Nat,
     updatedAt : Nat, status : StatusType]

TaskType ==
    [tmpl : Nat, ep : Nat, force : Nat, born : Nat,
     state : {"none", "starting", "running", "done"}]

GenType ==
    [on : BOOLEAN, force : Nat, after : Nat, mode : {"existing", "new"},
     before : Specification, tasksAfter : Nat]

ReceiptType == [unresolved : BOOLEAN, gen : GenType]

Stages ==
    {"idle", "baseline", "apply", "safety", "record", "write", "reinspect", "poll", "tasks"}

CtlType ==
    [pc : Stages, base : ServiceType, cur : ServiceType, applied : Specification,
     gen : GenType, saved : ReceiptType, inherited : BOOLEAN, changed : BOOLEAN,
     tries : Nat, seen : ServiceType]

DepType ==
    [want : Specification, status : {"running", "succeeded", "failed", "interrupted"},
     number : Nat]

-----------------------------------------------------------------------------
(* The inductive invariant.                                                *)

Shape ==
    /\ managed \in BOOLEAN /\ service \in ServiceType /\ past \subseteq ServiceType
    /\ tasks \in [Slots -> TaskType] /\ now \in Nat
    /\ requested \in Nat /\ started \in [Slots -> Nat]
    /\ dep \in DepType /\ receipt \in ReceiptType /\ ctl \in CtlType
    /\ accepted \in Nat

\* A version is one record, and older versions have older times.
VersionInv ==
    /\ IF service.exists THEN service.updatedAt = now ELSE service.updatedAt = 0
    /\ \A r \in past : r.updatedAt < service.updatedAt

\* What the attempt in progress has read.
ReadInv ==
    /\ ctl.cur.updatedAt <= service.updatedAt /\ ctl.seen.updatedAt <= service.updatedAt
    /\ ctl.pc \in {"safety", "record", "write", "reinspect"} => service.exists
    /\ ctl.pc \in {"safety", "record", "write"} /\ VersionMatches(ctl.cur) => ctl.cur = service
    /\ ctl.pc = "tasks" => ctl.seen \in past \cup {service}

\* An attempt runs exactly while its deployment does, and a generation stands
\* for an obligation.
ReceiptInv ==
    /\ dep.status = "running" <=> ctl.pc # "idle"
    /\ receipt.gen.on => receipt.unresolved
    /\ ctl.pc \in {"baseline", "apply", "safety", "record", "reinspect"} /\ ctl.gen.on =>
          receipt.unresolved
    /\ ctl.pc = "write" =>
          /\ ctl.gen.on /\ ctl.gen.after = ctl.cur.updatedAt
          /\ ctl.saved.gen.on => ctl.saved.unresolved

\* The status of a record belongs to it: what was written at a or later and has a status
\* was updated later than a.
StatusOf(a) ==
    \A r \in past \cup {service} :
        r.updatedAt >= a /\ r.status.state # "none" => r.status.startedAt > a

\* What this attempt had accepted is what its generation awaits.
AcceptedInv ==
    /\ StatusOf(0)
    /\ accepted # 0 =>
          /\ ctl.pc \in {"poll", "tasks"} /\ ctl.gen.on /\ ctl.gen.after + 1 = accepted
          /\ accepted <= service.updatedAt
          /\ StatusOf(accepted)

\* The orchestrator will start a task in slot i.
Owed(i) == i \in Scaled(service.spec) /\ (tasks[i] = NoTask \/ Dirty(i))

\* Executions are requested before they are started, and replaced tasks of a
\* scaled external service differ in the force counter only.
ExecutionInv ==
    \A i \in Slots :
        /\ started[i] <= requested
        /\ ~managed => /\ Owed(i) => started[i] < requested
                       /\ i \in Scaled(service.spec) /\ tasks[i] # NoTask =>
                             tasks[i].tmpl = service.spec.tmpl /\ tasks[i].ep = service.spec.ep

\* An external service is written only as it is, or parked after its tasks settled.
ParkedInv ==
    ~managed /\ ctl.pc \in {"record", "write"} =>
        \/ /\ ~taskRecreatingUpdate(ctl.cur.spec, ctl.applied)
           /\ ctl.applied.replicas = ctl.cur.spec.replicas
        \/ /\ ctl.applied.replicas = 0
           /\ VersionMatches(ctl.cur) => Settled(ctl.cur)

IInv ==
    /\ Shape /\ VersionInv /\ ReadInv /\ ReceiptInv /\ AcceptedInv
    /\ ExecutionInv /\ ParkedInv

-----------------------------------------------------------------------------
(* Records.                                                                *)

\* The empty values have their types.
LEMMA EmptyTypes ==
    /\ NoStatus \in StatusType /\ NoSpec \in Specification /\ NoService \in ServiceType
    /\ NoTask \in TaskType /\ NoGen \in GenType /\ Receipt(FALSE, NoGen) \in ReceiptType
    /\ Idle \in CtlType
<1>1. NoStatus \in StatusType BY DEF NoStatus, StatusType
<1>2. NoSpec \in Specification BY DEF NoSpec, Specification
<1>3. NoService \in ServiceType BY <1>1, <1>2 DEF NoService, ServiceType
<1>4. NoTask \in TaskType BY DEF NoTask, TaskType
<1>5. NoGen \in GenType BY <1>2 DEF NoGen, GenType
<1>6. Receipt(FALSE, NoGen) \in ReceiptType BY <1>5 DEF Receipt, ReceiptType
<1>7. Idle \in CtlType BY <1>2, <1>3, <1>5, <1>6 DEF Idle, CtlType, Stages
<1> QED BY <1>1, <1>2, <1>3, <1>4, <1>5, <1>6, <1>7

\* A stored record is s with a new version.
LEMMA StoreFacts ==
    ASSUME Shape, VersionInv, NEW s \in ServiceType, Store(s)
    PROVE  /\ service' \in ServiceType /\ service'.exists /\ service'.updatedAt = now + 1
           /\ service'.spec = s.spec /\ service'.status = s.status
           /\ past' \subseteq ServiceType /\ past' = past \cup {service}
           /\ now' \in Nat /\ managed' = managed /\ service.updatedAt <= now
           /\ VersionInv'
<1>1. now \in Nat /\ service \in ServiceType /\ past \subseteq ServiceType BY DEF Shape
<1>2. service' = [s EXCEPT !.exists = TRUE, !.updatedAt = now + 1] /\ now' = now + 1
      /\ past' = past \cup {service} /\ managed' = managed
  BY DEF Store
<1>3. /\ service' \in ServiceType /\ service'.exists /\ service'.updatedAt = now + 1
      /\ service'.spec = s.spec /\ service'.status = s.status
  <2> PICK n : n = now + 1 OBVIOUS
  <2> PICK r : r = [s EXCEPT !.exists = TRUE] OBVIOUS
  <2>1. n \in Nat BY <1>1
  <2>2. r \in ServiceType /\ r.exists /\ r.spec = s.spec /\ r.status = s.status BY DEF ServiceType
  <2>3. service' = [r EXCEPT !.updatedAt = n] BY <1>2
  <2> QED BY <2>1, <2>2, <2>3 DEF ServiceType
<1>4. service.updatedAt \in Nat /\ service.updatedAt <= now BY <1>1 DEF ServiceType, VersionInv
<1>5. \A r \in past : r.updatedAt \in Nat BY <1>1 DEF ServiceType
<1>6. VersionInv' BY <1>1, <1>2, <1>3, <1>4, <1>5 DEF VersionInv
<1> QED BY <1>1, <1>2, <1>3, <1>4, <1>6

\* Statuses that are later than a stay so when the stored record keeps to it.
LEMMA StatusStored ==
    ASSUME Shape, VersionInv, NEW s \in ServiceType, Store(s), NEW a, StatusOf(a),
           s.status.state # "none" => s.status.startedAt > a
    PROVE  StatusOf(a)'
BY StoreFacts DEF StatusOf

\* A client's update keeps the record but for specification and status.
LEMMA UpdateFacts ==
    ASSUME Shape, NEW spec \in Specification
    PROVE  LET s == [service EXCEPT !.spec = spec, !.prev = service.spec, !.status = NoStatus]
           IN s \in ServiceType /\ s.spec = spec /\ s.status.state = "none"
<1>1. service \in ServiceType BY DEF Shape
<1>2. service.spec \in Specification BY <1>1 DEF ServiceType
<1>3. NoStatus.state = "none" BY DEF NoStatus
<1> QED BY <1>1, <1>2, <1>3, EmptyTypes DEF ServiceType

-----------------------------------------------------------------------------
(* Writes that the attempt in progress does not make.                      *)

\* Whatever the attempt read is older now.
LEMMA ControlKept ==
    ASSUME IInv, NEW s \in ServiceType, Store(s), UNCHANGED <<dep, receipt, ctl>>
    PROVE  ReadInv' /\ ReceiptInv' /\ ParkedInv'
<1>1. /\ service'.exists /\ service'.updatedAt = now + 1 /\ service.updatedAt <= now
      /\ past' = past \cup {service} /\ managed' = managed
  BY StoreFacts DEF IInv
<1>2. /\ now \in Nat /\ service.updatedAt \in Nat /\ ctl.cur.updatedAt \in Nat
      /\ ctl.seen.updatedAt \in Nat
  BY DEF IInv, Shape, ServiceType, CtlType
<1>3. ~VersionMatches(ctl.cur)' BY <1>1, <1>2 DEF IInv, ReadInv, VersionMatches
<1>4. ReadInv' BY <1>1, <1>2, <1>3 DEF IInv, ReadInv
<1>5. ReceiptInv' BY DEF IInv, ReceiptInv
<1>6. ParkedInv' BY <1>1, <1>3 DEF IInv, ParkedInv, taskRecreatingUpdate
<1> QED BY <1>4, <1>5, <1>6

\* A record that was not written by the attempt has a later status or none.
LEMMA AcceptedKept ==
    ASSUME IInv, NEW s \in ServiceType, Store(s), UNCHANGED <<ctl, accepted>>,
           s.status.state # "none" =>
               \/ s.status.startedAt = now + 1
               \/ service.status.state # "none" /\ s.status.startedAt = service.status.startedAt
    PROVE  AcceptedInv'
<1>1. /\ service'.updatedAt = now + 1 /\ service.updatedAt <= now BY StoreFacts DEF IInv
<1>2. now \in Nat /\ service.updatedAt \in Nat /\ accepted \in Nat
  BY DEF IInv, Shape, ServiceType
<1>3. ASSUME NEW a \in Nat, StatusOf(a), a <= service.updatedAt PROVE StatusOf(a)'
  <2>1. s.status.state # "none" => s.status.startedAt > a BY <1>1, <1>2, <1>3 DEF StatusOf
  <2> QED BY <1>3, <2>1, StatusStored DEF IInv
<1>4. StatusOf(0)' BY <1>2, <1>3 DEF IInv, AcceptedInv
<1>5. accepted # 0 => StatusOf(accepted)' BY <1>2, <1>3 DEF IInv, AcceptedInv
<1>6. accepted # 0 => accepted <= service'.updatedAt BY <1>1, <1>2 DEF IInv, AcceptedInv
<1>7. (accepted # 0 => StatusOf(accepted)') => (accepted # 0 => StatusOf(accepted))' BY DEF StatusOf
<1> QED BY <1>4, <1>5, <1>6, <1>7 DEF IInv, AcceptedInv

\* The tasks of y are those of x.
SameExecution(x, y) ==
    SameTemplate(x, y) /\ x.ep = y.ep /\ x.replicas = y.replicas

\* A write that asks for the same tasks, or for none, owes no execution.
LEMMA ExecutionStored ==
    ASSUME IInv, NEW s \in ServiceType, Store(s), UNCHANGED <<tasks, runs>>,
           managed \/ SameExecution(service.spec, s.spec) \/ s.spec.replicas = 0
    PROVE  ExecutionInv'
<1>1. service'.spec = s.spec /\ managed' = managed BY StoreFacts DEF IInv
<1>2. tasks' = tasks /\ started' = started /\ requested' = requested BY DEF runs
<1>3. CASE managed BY <1>1, <1>2, <1>3 DEF IInv, ExecutionInv
<1>4. CASE ~managed /\ s.spec.replicas = 0
  BY <1>1, <1>2, <1>4 DEF IInv, ExecutionInv, Owed, Scaled
<1>5. CASE ~managed /\ SameExecution(service.spec, s.spec)
  <2> SUFFICES ASSUME NEW i \in Slots
               PROVE  /\ Owed(i)' <=> Owed(i)
                      /\ i \in Scaled(service.spec)' <=> i \in Scaled(service.spec)
                      /\ s.spec.tmpl = service.spec.tmpl /\ s.spec.ep = service.spec.ep
    BY <1>1, <1>2, <1>5 DEF IInv, ExecutionInv
  <2>1. /\ s.spec.tmpl = service.spec.tmpl /\ s.spec.ep = service.spec.ep
        /\ s.spec.force = service.spec.force /\ s.spec.replicas = service.spec.replicas
    BY <1>5 DEF SameExecution, SameTemplate
  <2>2. i \in Scaled(service.spec)' <=> i \in Scaled(service.spec) BY <1>1, <2>1 DEF Scaled
  <2>3. Dirty(i)' <=> Dirty(i) BY <1>1, <1>2, <2>1, <2>2 DEF Dirty
  <2> QED BY <1>2, <2>1, <2>2, <2>3 DEF Owed
<1> QED BY <1>3, <1>4, <1>5

\* The orchestrator writes the status of the record, or rolls a managed one back.
LEMMA StatusWritten ==
    ASSUME IInv, NEW st \in StatusType, NEW sp \in Specification, NEW pv \in Specification,
           Store([service EXCEPT !.spec = sp, !.prev = pv, !.status = st]),
           UNCHANGED <<tasks, runs, rolloutVars, accepted>>, managed \/ sp = service.spec,
           \/ st.startedAt = now + 1
           \/ service.status.state # "none" /\ st.startedAt = service.status.startedAt
    PROVE  IInv'
<1> PICK s : s = [service EXCEPT !.spec = sp, !.prev = pv, !.status = st] OBVIOUS
<1>1. service \in ServiceType BY DEF IInv, Shape
<1>2. s \in ServiceType /\ s.spec = sp /\ s.status = st BY <1>1 DEF ServiceType
<1>3. /\ tasks' = tasks /\ requested' = requested /\ started' = started /\ dep' = dep
      /\ receipt' = receipt /\ ctl' = ctl /\ accepted' = accepted
  BY DEF rolloutVars, runs
<1>4. Store(s) OBVIOUS
<1>5. /\ service' \in ServiceType /\ past' \subseteq ServiceType /\ now' \in Nat
      /\ managed' = managed /\ VersionInv'
  BY <1>2, <1>4, StoreFacts DEF IInv
<1>6. Shape' BY <1>3, <1>5 DEF IInv, Shape
<1>7. ReadInv' /\ ReceiptInv' /\ ParkedInv' BY <1>2, <1>3, <1>4, ControlKept
<1>8. AcceptedInv'
  <2>1. s.status.state # "none" =>
            \/ s.status.startedAt = now + 1
            \/ service.status.state # "none" /\ s.status.startedAt = service.status.startedAt
    BY <1>2
  <2>2. s \in ServiceType BY <1>2
  <2> QED BY <1>3, <1>4, <2>1, <2>2, AcceptedKept
<1>9. SameExecution(service.spec, service.spec) BY DEF SameExecution, SameTemplate
<1>10. ExecutionInv' BY <1>2, <1>3, <1>4, <1>9, ExecutionStored
<1> QED BY <1>5, <1>6, <1>7, <1>8, <1>10 DEF IInv

-----------------------------------------------------------------------------
(* The orchestrator.                                                       *)

LEMMA StartUpdateKeeps ==
    ASSUME IInv, StartUpdate, UNCHANGED <<rolloutVars, accepted>> PROVE IInv'
<1> PICK st : st = [state |-> "updating", startedAt |-> now + 1] OBVIOUS
<1>1. now \in Nat /\ service \in ServiceType BY DEF IInv, Shape
<1>2. st \in StatusType /\ st.startedAt = now + 1 BY <1>1 DEF StatusType
<1>3. service.spec \in Specification /\ service.prev \in Specification BY <1>1 DEF ServiceType
<1>4. [service EXCEPT !.status = st]
        = [service EXCEPT !.spec = service.spec, !.prev = service.prev, !.status = st]
  BY <1>1 DEF ServiceType
<1> QED BY <1>2, <1>3, <1>4, StatusWritten DEF StartUpdate

LEMMA FinishUpdateKeeps ==
    ASSUME IInv, FinishUpdate, UNCHANGED <<rolloutVars, accepted>> PROVE IInv'
<1> PICK state : state = IF service.status.state = "updating" THEN "completed"
                                                              ELSE "rollback_completed"
  OBVIOUS
<1> PICK st : st = [service.status EXCEPT !.state = state] OBVIOUS
<1>1. service \in ServiceType /\ service.status.state # "none" BY DEF IInv, Shape, FinishUpdate
<1>2. /\ service.spec \in Specification /\ service.prev \in Specification
      /\ service.status \in StatusType
  BY <1>1 DEF ServiceType
<1>3. state \in {"none", "updating", "completed"} \cup FailedStates BY DEF FailedStates
<1>4. st \in StatusType /\ st.startedAt = service.status.startedAt BY <1>2, <1>3 DEF StatusType
<1>5. [service EXCEPT !.status.state = state]
        = [service EXCEPT !.spec = service.spec, !.prev = service.prev, !.status = st]
  BY <1>1 DEF ServiceType
<1>6. Store([service EXCEPT !.status.state = state]) /\ UNCHANGED <<tasks, runs>>
  BY DEF FinishUpdate
<1> QED BY <1>1, <1>2, <1>4, <1>5, <1>6, StatusWritten

LEMMA UpdateFailsKeeps ==
    ASSUME IInv, NEW i \in Slots, UpdateFails(i), UNCHANGED <<rolloutVars, accepted>> PROVE IInv'
<1>1. service \in ServiceType /\ service.status.state # "none" /\ managed
      /\ UNCHANGED <<tasks, runs>>
  BY DEF IInv, Shape, UpdateFails
<1>2. /\ service.spec \in Specification /\ service.prev \in Specification
      /\ service.status \in StatusType
  BY <1>1 DEF ServiceType
<1>3. ASSUME NEW state \in FailedStates
      PROVE  LET st == [service.status EXCEPT !.state = state]
             IN st \in StatusType /\ st.startedAt = service.status.startedAt
  BY <1>2, <1>3 DEF StatusType
<1>4. CASE Store([service EXCEPT !.status.state = "paused"])
  <2> PICK st : st = [service.status EXCEPT !.state = "paused"] OBVIOUS
  <2>1. st \in StatusType /\ st.startedAt = service.status.startedAt BY <1>3 DEF FailedStates
  <2>2. [service EXCEPT !.status.state = "paused"]
          = [service EXCEPT !.spec = service.spec, !.prev = service.prev, !.status = st]
    BY <1>1 DEF ServiceType
  <2> QED BY <1>1, <1>2, <1>4, <2>1, <2>2, StatusWritten
<1>5. CASE Store([service EXCEPT !.spec = service.prev, !.prev = NoSpec,
                                 !.status.state = "rollback_started"])
  <2> PICK st : st = [service.status EXCEPT !.state = "rollback_started"] OBVIOUS
  <2>1. st \in StatusType /\ st.startedAt = service.status.startedAt BY <1>3 DEF FailedStates
  <2>2. [service EXCEPT !.spec = service.prev, !.prev = NoSpec, !.status.state = "rollback_started"]
          = [service EXCEPT !.spec = service.prev, !.prev = NoSpec, !.status = st]
    BY <1>1 DEF ServiceType
  <2> QED BY <1>1, <1>2, <1>5, <2>1, <2>2, EmptyTypes, StatusWritten
<1> QED BY <1>4, <1>5 DEF UpdateFails

\* A task changes and nothing is written.
LEMMA TaskChanged ==
    ASSUME IInv, Keep, UNCHANGED <<requested, rolloutVars, accepted>>,
           tasks' \in [Slots -> TaskType], started' \in [Slots -> Nat],
           ExecutionInv', ~managed /\ Settled(service) => Settled(service)'
    PROVE  IInv'
<1>1. /\ service' = service /\ past' = past /\ now' = now /\ managed' = managed
      /\ requested' = requested /\ dep' = dep /\ receipt' = receipt /\ ctl' = ctl
      /\ accepted' = accepted
  BY DEF Keep, rolloutVars
<1>2. Shape' BY <1>1 DEF IInv, Shape
<1>3. VersionInv' /\ ReadInv' /\ ReceiptInv'
  BY <1>1 DEF IInv, VersionInv, ReadInv, ReceiptInv, VersionMatches
<1>4. AcceptedInv' BY <1>1 DEF IInv, AcceptedInv, StatusOf
<1>5. ParkedInv'
  <2> SUFFICES ASSUME ~managed, ctl.pc \in {"record", "write"}, ctl.applied.replicas = 0,
                      VersionMatches(ctl.cur), Settled(ctl.cur)
               PROVE  Settled(ctl.cur)'
    BY <1>1 DEF IInv, ParkedInv, VersionMatches, taskRecreatingUpdate
  <2>1. ctl.cur = service BY DEF IInv, ReadInv
  <2>2. Settled(service)' BY <2>1
  <2>3. (ctl.cur)' = service' BY <1>1, <2>1
  <2> QED BY <2>2, <2>3 DEF Settled
<1> QED BY <1>2, <1>3, <1>4, <1>5 DEF IInv

\* A new task is of the current specification.
LEMMA NewTaskFacts ==
    ASSUME Shape
    PROVE  /\ NewTask \in TaskType /\ NewTask # NoTask /\ NewTask.tmpl = service.spec.tmpl
           /\ NewTask.ep = service.spec.ep /\ NewTask.force = service.spec.force
<1>1. now \in Nat /\ service.spec \in Specification BY DEF Shape, ServiceType
<1>2. /\ service.spec.tmpl \in Nat /\ service.spec.ep \in Nat /\ service.spec.force \in Nat
  BY <1>1 DEF Specification
<1>3. NewTask \in TaskType BY <1>1, <1>2 DEF NewTask, TaskType
<1>4. NewTask.state = "starting" /\ NoTask.state = "none" BY DEF NewTask, NoTask
<1> QED BY <1>3, <1>4 DEF NewTask

\* The orchestrator starts the task that it owes to slot i.
LEMMA SpawnKeeps ==
    ASSUME IInv, NEW i \in Slots, Owed(i), Spawn(i), UNCHANGED <<rolloutVars, accepted>>
    PROVE  IInv'
<1>1. /\ tasks' = [tasks EXCEPT ![i] = NewTask] /\ requested' = requested /\ Keep
      /\ started' = IF managed THEN started ELSE [started EXCEPT ![i] = @ + 1]
  BY DEF Spawn
<1>2. tasks \in [Slots -> TaskType] /\ started \in [Slots -> Nat] /\ requested \in Nat
  BY DEF IInv, Shape
<1>3. NewTask \in TaskType BY NewTaskFacts DEF IInv
<1>4. tasks' \in [Slots -> TaskType] BY <1>1, <1>2, <1>3
<1>5. started' \in [Slots -> Nat] BY <1>1, <1>2
<1>6. service' = service /\ managed' = managed BY <1>1 DEF Keep
<1>7. ~managed => ~Settled(service)
  <2> SUFFICES ASSUME ~managed, Settled(service) PROVE FALSE OBVIOUS
  <2>1. i \in Scaled(service.spec) BY DEF Owed
  <2>2. tasks[i] # NoTask /\ tasks[i].force = service.spec.force
    BY <2>1 DEF Settled, SameTemplate
  <2>3. tasks[i].tmpl = service.spec.tmpl /\ tasks[i].ep = service.spec.ep
    BY <2>1, <2>2 DEF IInv, ExecutionInv
  <2> QED BY <2>2, <2>3 DEF Owed, Dirty
<1>8. ASSUME NEW j \in Slots
      PROVE  /\ started'[j] <= requested
             /\ ~managed =>
                  /\ Owed(j)' => started'[j] < requested
                  /\ j \in Scaled(service.spec) /\ tasks'[j] # NoTask =>
                        tasks'[j].tmpl = service.spec.tmpl /\ tasks'[j].ep = service.spec.ep
  <2>1. CASE managed BY <1>1, <2>1 DEF IInv, ExecutionInv
  <2>2. CASE ~managed /\ j = i
    <3>1. tasks'[i] = NewTask /\ started'[i] = started[i] + 1 BY <1>1, <1>2, <2>2
    <3>2. ~Owed(i)'
      <4>1. tasks'[i] # NoTask /\ ~Dirty(i)' BY <1>6, <3>1, NewTaskFacts DEF IInv, Dirty
      <4> QED BY <4>1 DEF Owed
    <3>3. started[i] \in Nat /\ started[i] < requested BY <1>2, <2>2 DEF IInv, ExecutionInv
    <3> QED BY <1>2, <2>2, <3>1, <3>2, <3>3, NewTaskFacts DEF IInv
  <2>3. CASE ~managed /\ j # i
    <3>1. tasks'[j] = tasks[j] /\ started'[j] = started[j] BY <1>1, <1>2, <2>3
    <3>2. Owed(j)' <=> Owed(j) BY <1>6, <3>1 DEF Owed, Dirty
    <3> QED BY <2>3, <3>1, <3>2 DEF IInv, ExecutionInv
  <2> QED BY <2>1, <2>2, <2>3
<1>9. ExecutionInv' BY <1>1, <1>6, <1>8 DEF ExecutionInv
<1> QED BY <1>1, <1>4, <1>5, <1>7, <1>9, TaskChanged

\* Task i becomes t, which is owed nothing that was not owed before.
LEMMA TaskReplaced ==
    ASSUME IInv, NEW i \in Slots, NEW t \in TaskType, tasks' = [tasks EXCEPT ![i] = t],
           Keep, UNCHANGED <<runs, rolloutVars, accepted>>,
           \/ managed
           \/ i \notin Scaled(service.spec) /\ t = NoTask
           \/ /\ Active(tasks[i]) /\ t # NoTask /\ t.tmpl = tasks[i].tmpl
              /\ t.ep = tasks[i].ep /\ t.force = tasks[i].force
    PROVE  IInv'
<1>1. service' = service /\ managed' = managed /\ requested' = requested /\ started' = started
  BY DEF Keep, runs
<1>2. tasks \in [Slots -> TaskType] /\ started \in [Slots -> Nat] BY DEF IInv, Shape
<1>3. tasks' \in [Slots -> TaskType] BY <1>2
<1>4. \A j \in Slots : tasks'[j] = IF j = i THEN t ELSE tasks[j] BY <1>2
<1>5. tasks[i] = NoTask => ~Active(tasks[i]) BY DEF NoTask, Active
<1>6. ExecutionInv'
  <2>1. CASE managed BY <1>1, <2>1 DEF IInv, ExecutionInv
  <2>2. CASE ~managed
    <3> SUFFICES ASSUME NEW j \in Slots
                 PROVE  /\ Owed(j)' => Owed(j)
                        /\ j \in Scaled(service.spec) /\ tasks'[j] # NoTask =>
                              tasks'[j].tmpl = service.spec.tmpl /\ tasks'[j].ep = service.spec.ep
      BY <1>1, <2>2 DEF IInv, ExecutionInv
    <3>1. CASE j # i BY <1>1, <1>4, <2>2, <3>1 DEF IInv, ExecutionInv, Owed, Dirty
    <3>2. CASE j = i /\ i \notin Scaled(service.spec) BY <1>1, <3>2 DEF Owed
    <3>3. CASE j = i /\ i \in Scaled(service.spec)
      BY <1>1, <1>4, <1>5, <2>2, <3>3 DEF IInv, ExecutionInv, Owed, Dirty
    <3> QED BY <3>1, <3>2, <3>3
  <2> QED BY <2>1, <2>2
<1>7. ~managed /\ Settled(service) => Settled(service)'
  <2> SUFFICES ASSUME ~managed, Settled(service) PROVE Settled(service)' OBVIOUS
  <2>1. ~Active(tasks[i]) BY DEF Settled
  <2>2. i \notin Scaled(service.spec) /\ t = NoTask BY <2>1
  <2>3. ~Active(NoTask) BY DEF NoTask, Active
  <2> QED BY <1>1, <1>4, <2>2, <2>3 DEF Settled
<1> QED BY <1>1, <1>2, <1>3, <1>6, <1>7, TaskChanged

LEMMA FillSlotKeeps ==
    ASSUME IInv, NEW i \in Slots, FillSlot(i) \/ ReplaceTask(i), UNCHANGED <<rolloutVars, accepted>>
    PROVE  IInv'
<1>1. Owed(i) /\ Spawn(i) BY DEF FillSlot, ReplaceTask, Owed, Dirty
<1> QED BY <1>1, SpawnKeeps

LEMMA RemoveTaskKeeps ==
    ASSUME IInv, NEW i \in Slots, RemoveTask(i), UNCHANGED <<rolloutVars, accepted>>
    PROVE  IInv'
BY TaskReplaced, EmptyTypes DEF RemoveTask

LEMMA TaskRunsKeeps ==
    ASSUME IInv, NEW i \in Slots, TaskRuns(i), UNCHANGED <<rolloutVars, accepted>>
    PROVE  IInv'
<1> PICK t : t = [tasks[i] EXCEPT !.state = "running"] OBVIOUS
<1>1. tasks \in [Slots -> TaskType] /\ tasks[i] \in TaskType BY DEF IInv, Shape
<1>2. /\ t \in TaskType /\ t.tmpl = tasks[i].tmpl /\ t.ep = tasks[i].ep
      /\ t.force = tasks[i].force /\ t.state = "running"
  BY <1>1 DEF TaskType
<1>3. tasks' = [tasks EXCEPT ![i] = t] /\ UNCHANGED runs /\ Keep BY <1>1 DEF TaskRuns
<1>4. Active(tasks[i]) /\ t # NoTask BY <1>2 DEF TaskRuns, Active, NoTask
<1> QED BY <1>2, <1>3, <1>4, TaskReplaced

LEMMA TaskEndsKeeps ==
    ASSUME IInv, NEW i \in Slots, TaskEnds(i), UNCHANGED <<rolloutVars, accepted>>
    PROVE  IInv'
<1>1. tasks \in [Slots -> TaskType] /\ tasks[i] \in TaskType BY DEF IInv, Shape
<1>2. CASE managed BY <1>2, TaskReplaced, NewTaskFacts DEF TaskEnds, IInv
<1>3. CASE ~managed
  <2> PICK t : t = [tasks[i] EXCEPT !.state = "done"] OBVIOUS
  <2>1. /\ t \in TaskType /\ t.tmpl = tasks[i].tmpl /\ t.ep = tasks[i].ep
        /\ t.force = tasks[i].force /\ t.state = "done"
    BY <1>1 DEF TaskType
  <2>2. tasks' = [tasks EXCEPT ![i] = t] /\ UNCHANGED runs /\ Keep BY <1>1, <1>3 DEF TaskEnds
  <2>3. Active(tasks[i]) /\ t # NoTask BY <2>1 DEF TaskEnds, Active, NoTask
  <2> QED BY <2>1, <2>2, <2>3, TaskReplaced
<1> QED BY <1>2, <1>3

LEMMA OrchestratorKeeps ==
    ASSUME IInv, Orchestrator, UNCHANGED <<rolloutVars, accepted>> PROVE IInv'
BY StartUpdateKeeps, FinishUpdateKeeps, FillSlotKeeps, RemoveTaskKeeps, UpdateFailsKeeps,
   TaskRunsKeeps, TaskEndsKeeps
   DEF Orchestrator

-----------------------------------------------------------------------------
(* The scheduler and the credentials.                                      *)

\* An update by another client than the attempt keeps all but the executions.
LEMMA OtherUpdate ==
    ASSUME IInv, NEW spec \in Specification, AcceptUpdate(spec),
           UNCHANGED <<dep, receipt, ctl, accepted>>,
           tasks' \in [Slots -> TaskType], requested' \in Nat, started' \in [Slots -> Nat]
    PROVE  /\ Shape' /\ VersionInv' /\ ReadInv' /\ ReceiptInv' /\ AcceptedInv' /\ ParkedInv'
           /\ service'.spec = spec /\ managed' = managed
<1> PICK s : s = [service EXCEPT !.spec = spec, !.prev = service.spec, !.status = NoStatus] OBVIOUS
<1>1. s \in ServiceType /\ s.spec = spec /\ s.status.state = "none" BY UpdateFacts DEF IInv
<1>2. Store(s) BY DEF AcceptUpdate
<1>3. /\ service' \in ServiceType /\ past' \subseteq ServiceType /\ now' \in Nat
      /\ managed' = managed /\ VersionInv' /\ service'.spec = spec
  BY <1>1, <1>2, StoreFacts DEF IInv
<1>4. Shape' BY <1>3 DEF IInv, Shape
<1>5. ReadInv' /\ ReceiptInv' /\ ParkedInv' BY <1>1, <1>2, ControlKept
<1>6. AcceptedInv'
  <2>1. s.status.state # "none" =>
            \/ s.status.startedAt = now + 1
            \/ service.status.state # "none" /\ s.status.startedAt = service.status.startedAt
    BY <1>1
  <2> QED BY <1>1, <1>2, <2>1, AcceptedKept
<1> QED BY <1>3, <1>4, <1>5, <1>6

\* What the scheduler requests may be started once more in every slot.
LEMMA RequestExecutionKeeps ==
    ASSUME IInv, RequestExecution, UNCHANGED <<rolloutVars, accepted>> PROVE IInv'
<1>1. /\ ~managed /\ requested' = requested + 1 /\ tasks' = tasks /\ started' = started
      /\ dep' = dep /\ receipt' = receipt /\ ctl' = ctl /\ accepted' = accepted
  BY DEF RequestExecution, rolloutVars
<1>2. /\ tasks \in [Slots -> TaskType] /\ started \in [Slots -> Nat] /\ requested \in Nat
      /\ service.spec \in Specification
  BY DEF IInv, Shape, ServiceType
<1>3. Cardinality(Slots) \in Nat BY SlotsFinite, FS_CardinalityType
<1>4. PICK spec \in Specification :
        /\ AcceptUpdate(spec) /\ spec.tmpl = service.spec.tmpl /\ spec.ep = service.spec.ep
        /\ service.spec.replicas = 0 \/ spec.replicas = service.spec.replicas
  <2>1. CASE service.spec.replicas = 0
    <3> PICK n : n = Cardinality(Slots) OBVIOUS
    <3> PICK spec : spec = [service.spec EXCEPT !.replicas = n] OBVIOUS
    <3>1. spec \in Specification /\ spec.tmpl = service.spec.tmpl /\ spec.ep = service.spec.ep
      BY <1>2, <1>3 DEF Specification
    <3>2. AcceptUpdate(spec) BY <2>1 DEF RequestExecution
    <3> QED BY <2>1, <3>1, <3>2
  <2>2. CASE service.spec.replicas # 0
    <3> PICK n : n = service.spec.force + 1 OBVIOUS
    <3> PICK spec : spec = [service.spec EXCEPT !.force = n] OBVIOUS
    <3>1. n \in Nat BY <1>2 DEF Specification
    <3>2. /\ spec \in Specification /\ spec.tmpl = service.spec.tmpl /\ spec.ep = service.spec.ep
          /\ spec.replicas = service.spec.replicas
      BY <1>2, <3>1 DEF Specification
    <3>3. AcceptUpdate(spec) BY <2>2 DEF RequestExecution
    <3> QED BY <3>2, <3>3
  <2> QED BY <2>1, <2>2
<1>5. /\ Shape' /\ VersionInv' /\ ReadInv' /\ ReceiptInv' /\ AcceptedInv' /\ ParkedInv'
      /\ service'.spec = spec /\ managed' = managed
  BY <1>1, <1>2, <1>4, OtherUpdate
<1>6. ExecutionInv'
  <2> SUFFICES ASSUME NEW i \in Slots
               PROVE  /\ started[i] < requested + 1
                      /\ i \in Scaled(spec) /\ tasks[i] # NoTask =>
                            tasks[i].tmpl = spec.tmpl /\ tasks[i].ep = spec.ep
    BY <1>1, <1>2, <1>5 DEF ExecutionInv
  <2>1. started[i] <= requested BY DEF IInv, ExecutionInv
  <2>2. started[i] < requested + 1 BY <1>2, <2>1
  <2>3. tasks[i] # NoTask => i \in Scaled(service.spec) BY DEF RequestExecution
  <2>4. tasks[i] # NoTask => tasks[i].tmpl = spec.tmpl /\ tasks[i].ep = spec.ep
    BY <1>1, <1>4, <2>3 DEF IInv, ExecutionInv
  <2> QED BY <2>2, <2>4
<1> QED BY <1>5, <1>6 DEF IInv

LEMMA RefreshRegistryAuthKeeps ==
    ASSUME IInv, RefreshRegistryAuth, accepted' = accepted PROVE IInv'
<1>1. /\ AcceptUpdate(service.spec) /\ tasks' = tasks /\ UNCHANGED runs
      /\ dep' = dep /\ receipt' = receipt /\ ctl' = ctl
  BY DEF RefreshRegistryAuth
<1>2. /\ tasks \in [Slots -> TaskType] /\ started \in [Slots -> Nat] /\ requested \in Nat
      /\ service.spec \in Specification
  BY DEF IInv, Shape, ServiceType
<1>3. tasks' \in [Slots -> TaskType] /\ started' \in [Slots -> Nat] /\ requested' \in Nat
  BY <1>1, <1>2 DEF runs
<1>4. Shape' /\ VersionInv' /\ ReadInv' /\ ReceiptInv' /\ AcceptedInv' /\ ParkedInv'
  BY <1>1, <1>2, <1>3, OtherUpdate
<1>5. ExecutionInv'
  <2> PICK s : s = [service EXCEPT !.spec = service.spec, !.prev = service.spec,
                                   !.status = NoStatus]
    OBVIOUS
  <2>1. s \in ServiceType /\ s.spec = service.spec BY <1>2, UpdateFacts DEF IInv
  <2>2. Store(s) BY <1>1 DEF AcceptUpdate
  <2>3. SameExecution(service.spec, s.spec) BY <2>1 DEF SameExecution, SameTemplate
  <2> QED BY <1>1, <2>1, <2>2, <2>3, ExecutionStored
<1> QED BY <1>4, <1>5 DEF IInv

-----------------------------------------------------------------------------
(* Steps of an attempt that write nothing to Docker.                       *)

\* What the history records of the accepted write.
LEMMA AcceptedNext ==
    ASSUME IInv, History
    PROVE  /\ ctl'.pc = "idle" => accepted' = 0
           /\ ctl.pc \notin {"write", "poll", "tasks"} => accepted' = 0
           /\ ctl'.pc # "poll" /\ ctl.pc \notin {"poll", "tasks"} => accepted' = 0
           /\ ctl.pc = "write" /\ ctl'.pc = "poll" => accepted' = service'.updatedAt
           /\ ctl' = ctl => accepted' = accepted
           /\ ctl.pc \in {"poll", "tasks"} /\ ctl'.pc # "idle" => accepted' = accepted
BY DEF History, IInv, AcceptedInv

\* The service is as it was.
LEMMA ControlChanged ==
    ASSUME IInv, UNCHANGED swarmVars, dep' \in DepType, receipt' \in ReceiptType,
           ctl' \in CtlType, ReadInv', ReceiptInv', ParkedInv',
           \/ accepted' = 0
           \/ /\ accepted' = accepted /\ ctl'.pc \in {"poll", "tasks"} /\ ctl'.gen = ctl.gen
    PROVE  IInv'
<1>1. /\ managed' = managed /\ service' = service /\ past' = past /\ tasks' = tasks
      /\ now' = now /\ requested' = requested /\ started' = started
  BY DEF swarmVars
<1>2. accepted' \in Nat BY DEF IInv, Shape
<1>3. Shape' BY <1>1, <1>2 DEF IInv, Shape
<1>4. VersionInv' BY <1>1 DEF IInv, VersionInv
<1>5. ExecutionInv' BY <1>1 DEF IInv, ExecutionInv, Owed, Dirty
<1>6. StatusOf(0)' BY <1>1 DEF IInv, AcceptedInv, StatusOf
<1>7. AcceptedInv'
  <2>1. CASE accepted' = 0 BY <1>6, <2>1 DEF AcceptedInv
  <2>2. CASE /\ accepted' = accepted /\ ctl'.pc \in {"poll", "tasks"} /\ ctl'.gen = ctl.gen
    BY <1>1, <1>6, <2>2 DEF IInv, AcceptedInv, StatusOf
  <2> QED BY <2>1, <2>2
<1> QED BY <1>3, <1>4, <1>5, <1>7 DEF IInv

\* The attempt ends.
LEMMA AttemptEnds ==
    ASSUME IInv, History, UNCHANGED swarmVars, ctl' = Idle,
           NEW status \in {"succeeded", "failed", "interrupted"},
           dep' = [dep EXCEPT !.status = status],
           receipt' \in ReceiptType, receipt'.gen.on => receipt'.unresolved
    PROVE  IInv'
<1>1. /\ Idle \in CtlType /\ Idle.pc = "idle" /\ Idle.cur.updatedAt = 0 /\ Idle.seen.updatedAt = 0
  BY EmptyTypes DEF Idle, NoService
<1>2. dep \in DepType /\ service.updatedAt \in Nat BY DEF IInv, Shape, ServiceType
<1>3. dep' \in DepType /\ dep'.status = status BY <1>2 DEF DepType
<1>4. accepted' = 0 BY <1>1, AcceptedNext
<1>5. ReadInv' BY <1>1, <1>2 DEF ReadInv, swarmVars
<1>6. ReceiptInv' BY <1>1, <1>3 DEF ReceiptInv
<1>7. ParkedInv' BY <1>1 DEF ParkedInv
<1> QED BY <1>1, <1>3, <1>4, <1>5, <1>6, <1>7, ControlChanged

LEMMA CompleteKeeps ==
    ASSUME IInv, History, NEW status \in {"succeeded", "failed", "interrupted"},
           NEW unresolved \in BOOLEAN, Complete(status, unresolved)
    PROVE  IInv'
<1>1. /\ UNCHANGED swarmVars /\ ctl' = Idle /\ dep' = [dep EXCEPT !.status = status]
      /\ receipt' = Receipt(unresolved, IF unresolved THEN receipt.gen ELSE NoGen)
  BY DEF Complete
<1>2. receipt.gen \in GenType BY DEF IInv, Shape, ReceiptType
<1>3. ~NoGen.on BY DEF NoGen
<1>4. receipt' \in ReceiptType /\ (receipt'.gen.on => receipt'.unresolved)
  BY <1>1, <1>2, <1>3, EmptyTypes DEF Receipt, ReceiptType
<1> QED BY <1>1, <1>4, AttemptEnds

\* What a refused apply leaves has its type.
LEMMA RefusedKeeps ==
    ASSUME IInv, History, NEW gen \in GenType, RefusedWith(gen), UNCHANGED swarmVars
    PROVE  IInv'
<1>1. /\ ctl' = Idle /\ dep' = [dep EXCEPT !.status = "failed"]
      /\ receipt' = LET unresolved == ctl.inherited \/ gen.on
                    IN Receipt(unresolved, IF unresolved THEN gen ELSE NoGen)
  BY DEF RefusedWith
<1>2. ctl.inherited \in BOOLEAN /\ gen.on \in BOOLEAN BY DEF IInv, Shape, CtlType, GenType
<1>3. ~NoGen.on BY DEF NoGen
<1>4. receipt' \in ReceiptType /\ (receipt'.gen.on => receipt'.unresolved)
  BY <1>1, <1>2, <1>3, EmptyTypes DEF Receipt, ReceiptType
<1> QED BY <1>1, <1>4, AttemptEnds

LEMMA ApplyFailsKeeps ==
    ASSUME IInv, History, ApplyFails PROVE IInv'
<1>1. (ctl.pc = "baseline" => receipt.unresolved) \in BOOLEAN
  BY DEF IInv, Shape, ReceiptType
<1> QED BY <1>1, CompleteKeeps DEF ApplyFails

LEMMA WaitInterruptedKeeps ==
    ASSUME IInv, History, WaitInterrupted PROVE IInv'
BY CompleteKeeps DEF WaitInterrupted

LEMMA CrashKeeps ==
    ASSUME IInv, History, Crash PROVE IInv'
<1>1. /\ UNCHANGED swarmVars /\ ctl' = Idle /\ dep' = [dep EXCEPT !.status = "interrupted"]
      /\ receipt' = [receipt EXCEPT !.unresolved = TRUE]
  BY DEF Crash
<1>2. receipt' \in ReceiptType /\ receipt'.unresolved BY <1>1 DEF IInv, Shape, ReceiptType
<1> QED BY <1>1, <1>2, AttemptEnds

LEMMA BeginKeeps ==
    ASSUME IInv, History, NEW d \in Definitions, Begin(d) PROVE IInv'
<1>1. /\ UNCHANGED swarmVars /\ receipt' = receipt /\ ctl.pc = "idle"
      /\ dep' = [want |-> d, status |-> "running", number |-> IF d = Want THEN 2 ELSE 1]
      /\ ctl' = [Idle EXCEPT !.pc = "baseline", !.inherited = receipt.unresolved,
                             !.gen = receipt.gen]
  BY DEF Begin
<1>2. /\ receipt \in ReceiptType /\ receipt.unresolved \in BOOLEAN /\ receipt.gen \in GenType
      /\ d \in Specification /\ service.updatedAt \in Nat
  BY DefinitionsAreSpecifications DEF IInv, Shape, ReceiptType, ServiceType
<1>3. dep' \in DepType /\ dep'.status = "running" BY <1>1, <1>2 DEF DepType
<1>4. /\ ctl' \in CtlType /\ ctl'.pc = "baseline" /\ ctl'.gen = receipt.gen
      /\ ctl'.cur = Idle.cur /\ ctl'.seen = Idle.seen
  BY <1>1, <1>2, EmptyTypes DEF CtlType, Stages
<1>5. Idle.cur.updatedAt = 0 /\ Idle.seen.updatedAt = 0 BY DEF Idle, NoService
<1>6. accepted' = 0 BY <1>1, AcceptedNext
<1>7. ReadInv' BY <1>1, <1>2, <1>4, <1>5 DEF ReadInv, swarmVars
<1>8. ReceiptInv' BY <1>1, <1>3, <1>4 DEF IInv, ReceiptInv
<1>9. ParkedInv' BY <1>4 DEF ParkedInv
<1> QED BY <1>1, <1>2, <1>3, <1>4, <1>6, <1>7, <1>8, <1>9, ControlChanged

LEMMA CaptureBaselineKeeps ==
    ASSUME IInv, History, CaptureBaseline PROVE IInv'
<1>1. /\ UNCHANGED swarmVars /\ dep' = dep /\ receipt' = receipt /\ ctl.pc = "baseline"
      /\ ctl' = [ctl EXCEPT !.pc = "apply", !.base = service]
  BY DEF CaptureBaseline
<1>2. /\ receipt \in ReceiptType /\ dep \in DepType /\ ctl \in CtlType /\ service \in ServiceType
  BY DEF IInv, Shape
<1>3. /\ ctl' \in CtlType /\ ctl'.pc = "apply" /\ ctl'.gen = ctl.gen
      /\ ctl'.cur = ctl.cur /\ ctl'.seen = ctl.seen
  BY <1>1, <1>2 DEF CtlType, Stages
<1>4. accepted' = 0 BY <1>1, AcceptedNext
<1>5. ReadInv' BY <1>1, <1>3 DEF IInv, ReadInv, swarmVars
<1>6. ReceiptInv' BY <1>1, <1>3 DEF IInv, ReceiptInv
<1>7. ParkedInv' BY <1>3 DEF ParkedInv
<1> QED BY <1>1, <1>2, <1>3, <1>4, <1>5, <1>6, <1>7, ControlChanged

-----------------------------------------------------------------------------
(* The applier.                                                            *)

\* What is prepared leaves the replicas of an external service alone.
LEMMA PreparedFacts ==
    ASSUME Shape
    PROVE  /\ Prepared(service) \in Specification
           /\ ~managed => Prepared(service).replicas = service.spec.replicas
<1>1. /\ service.spec \in Specification /\ Want \in Specification
  BY DEF Shape, ServiceType, DepType, Want
<1>2. service.spec.force \in Nat /\ service.spec.replicas \in Nat /\ Want.replicas \in Nat
  BY <1>1 DEF Specification
<1> PICK n : n = service.spec.force + (IF retryRequired(service) THEN 1 ELSE 0) OBVIOUS
<1> PICK k : k = IF managed THEN Want.replicas ELSE service.spec.replicas OBVIOUS
<1>3. n \in Nat /\ k \in Nat BY <1>2
<1>4. \/ Prepared(service) = service.spec
      \/ Prepared(service) = [Want EXCEPT !.force = n, !.replicas = k]
  BY <1>1 DEF Prepared, Specification
<1> QED BY <1>1, <1>3, <1>4 DEF Specification

LEMMA AdvanceKeeps ==
    ASSUME IInv, History, NEW tries \in Nat, Advance(service, tries), service.exists,
           ctl.pc \in {"apply", "reinspect"}, UNCHANGED <<swarmVars, dep, receipt>>
    PROVE  IInv'
<1> PICK pc : pc = IF managed \/ ~taskRecreatingUpdate(service.spec, Prepared(service))
                     THEN "record" ELSE "safety"
  OBVIOUS
<1> PICK applied : applied = Prepared(service) OBVIOUS
<1>1. ctl' = [ctl EXCEPT !.cur = service, !.applied = applied, !.tries = tries, !.pc = pc]
  BY DEF Advance
<1>2. /\ receipt \in ReceiptType /\ dep \in DepType /\ ctl \in CtlType /\ service \in ServiceType
      /\ service.updatedAt \in Nat
  BY DEF IInv, Shape, ServiceType
<1>3. applied \in Specification /\ (~managed => applied.replicas = service.spec.replicas)
  BY PreparedFacts DEF IInv
<1>4. pc \in {"record", "safety"} OBVIOUS
<1>5. /\ ctl' \in CtlType /\ ctl'.pc = pc /\ ctl'.gen = ctl.gen /\ ctl'.cur = service
      /\ ctl'.applied = applied /\ ctl'.seen = ctl.seen
  BY <1>1, <1>2, <1>3, <1>4 DEF CtlType, Stages
<1>6. accepted' = 0 BY <1>4, <1>5, AcceptedNext
<1>7. /\ service' = service /\ past' = past /\ managed' = managed /\ dep' = dep
      /\ receipt' = receipt /\ UNCHANGED swarmVars
  BY DEF swarmVars
<1>8. ReadInv' BY <1>2, <1>4, <1>5, <1>7 DEF IInv, ReadInv
<1>9. ReceiptInv' BY <1>4, <1>5, <1>7 DEF IInv, ReceiptInv
<1>10. ParkedInv'
  <2>1. ~managed /\ pc # "safety" => ~taskRecreatingUpdate(service.spec, applied) OBVIOUS
  <2> QED BY <1>3, <1>4, <1>5, <1>7, <2>1 DEF ParkedInv, taskRecreatingUpdate
<1> QED BY <1>2, <1>5, <1>6, <1>7, <1>8, <1>9, <1>10, ControlChanged

LEMMA InspectKeeps ==
    ASSUME IInv, History, Inspect PROVE IInv'
<1>1. ctl.pc = "apply" /\ service.exists BY DEF Inspect
<1>2. CASE Advance(service, 0) /\ UNCHANGED <<swarmVars, dep, receipt, auth>>
  BY <1>1, <1>2, AdvanceKeeps
<1>3. CASE LeaveAlone
  <2>1. CASE Complete("succeeded", FALSE) BY <2>1, CompleteKeeps
  <2>2. CASE ctl' = [ctl EXCEPT !.pc = "poll"] /\ UNCHANGED <<swarmVars, dep, receipt, auth>>
    <3>1. /\ receipt \in ReceiptType /\ dep \in DepType /\ ctl \in CtlType
      BY DEF IInv, Shape
    <3>2. /\ ctl' \in CtlType /\ ctl'.pc = "poll" /\ ctl'.cur = ctl.cur /\ ctl'.seen = ctl.seen
      BY <2>2, <3>1 DEF CtlType, Stages
    <3>3. accepted' = 0 BY <1>1, AcceptedNext
    <3>4. ReadInv' BY <2>2, <3>2 DEF IInv, ReadInv, swarmVars
    <3>5. ReceiptInv' BY <1>1, <2>2, <3>2 DEF IInv, ReceiptInv
    <3>6. ParkedInv' BY <3>2 DEF ParkedInv
    <3> QED BY <2>2, <3>1, <3>2, <3>3, <3>4, <3>5, <3>6, ControlChanged
  <2> QED BY <1>3, <2>1, <2>2 DEF LeaveAlone
<1> QED BY <1>2, <1>3 DEF Inspect

LEMMA checkUpdateSafetyKeeps ==
    ASSUME IInv, History, checkUpdateSafety PROVE IInv'
<1>1. ctl.pc = "safety" BY DEF checkUpdateSafety
<1>2. /\ receipt \in ReceiptType /\ dep \in DepType /\ ctl \in CtlType
      /\ ctl.applied \in Specification
  BY DEF IInv, Shape, CtlType
<1>3. CASE /\ Settled(ctl.cur)
           /\ ctl' = [ctl EXCEPT !.pc = "record", !.applied.replicas = 0]
           /\ UNCHANGED <<swarmVars, dep, receipt, auth>>
  <2> PICK applied : applied = [ctl.applied EXCEPT !.replicas = 0] OBVIOUS
  <2>1. applied \in Specification /\ applied.replicas = 0 BY <1>2 DEF Specification
  <2>2. ctl' = [ctl EXCEPT !.pc = "record", !.applied = applied] BY <1>2, <1>3 DEF CtlType
  <2>3. /\ ctl' \in CtlType /\ ctl'.pc = "record" /\ ctl'.gen = ctl.gen /\ ctl'.cur = ctl.cur
        /\ ctl'.applied = applied /\ ctl'.seen = ctl.seen
    BY <1>2, <2>1, <2>2 DEF CtlType, Stages
  <2>4. accepted' = 0 BY <1>1, AcceptedNext
  <2>5. /\ service' = service /\ past' = past /\ managed' = managed /\ tasks' = tasks
        /\ dep' = dep /\ receipt' = receipt /\ UNCHANGED swarmVars
    BY <1>3 DEF swarmVars
  <2>6. ReadInv' BY <1>1, <2>3, <2>5 DEF IInv, ReadInv, VersionMatches
  <2>7. ReceiptInv' BY <1>1, <2>3, <2>5 DEF IInv, ReceiptInv
  <2>8. Settled(ctl.cur)' BY <1>3, <2>3, <2>5 DEF Settled
  <2>9. ParkedInv' BY <2>1, <2>3, <2>8 DEF ParkedInv
  <2> QED BY <1>2, <2>3, <2>4, <2>5, <2>6, <2>7, <2>9, ControlChanged
<1>4. CASE ctl' = [ctl EXCEPT !.pc = "reinspect"] /\ UNCHANGED <<swarmVars, dep, receipt, auth>>
  <2>1. /\ ctl' \in CtlType /\ ctl'.pc = "reinspect" /\ ctl'.gen = ctl.gen
        /\ ctl'.cur = ctl.cur /\ ctl'.seen = ctl.seen
    BY <1>2, <1>4 DEF CtlType, Stages
  <2>2. accepted' = 0 BY <1>1, AcceptedNext
  <2>3. ReadInv' BY <1>1, <1>4, <2>1 DEF IInv, ReadInv, swarmVars
  <2>4. ReceiptInv' BY <1>1, <1>4, <2>1 DEF IInv, ReceiptInv
  <2>5. ParkedInv' BY <2>1 DEF ParkedInv
  <2> QED BY <1>2, <1>4, <2>1, <2>2, <2>3, <2>4, <2>5, ControlChanged
<1>5. CASE Complete("failed", TRUE) BY <1>5, CompleteKeeps
<1> QED BY <1>3, <1>4, <1>5 DEF checkUpdateSafety

\* Resolving a generation keeps what it awaits.
LEMMA ResolveFacts ==
    ASSUME NEW gen \in GenType, NEW prev \in Specification, NEW spec \in Specification
    PROVE  LET r == Resolve(gen, prev, spec)
           IN r \in GenType /\ r.on = gen.on /\ r.after = gen.after
<1> PICK mode : mode = ClassifyVerification(prev, spec) OBVIOUS
<1> PICK r : r = Resolve(gen, prev, spec) OBVIOUS
<1>1. mode \in {"existing", "new"} BY DEF ClassifyVerification
<1>2. \/ r = gen
      \/ r = [gen EXCEPT !.mode = "new", !.tasksAfter = 0]
      \/ r = [gen EXCEPT !.mode = mode]
  BY DEF Resolve
<1>3. r \in GenType /\ r.on = gen.on /\ r.after = gen.after
  <2>1. CASE r = gen BY <2>1
  <2>2. CASE r = [gen EXCEPT !.mode = "new", !.tasksAfter = 0]
    <3> PICK m : m = [gen EXCEPT !.mode = "new"] OBVIOUS
    <3>1. m \in GenType /\ m.on = gen.on /\ m.after = gen.after BY DEF GenType
    <3> PICK zero : zero = 0 OBVIOUS
    <3>2. zero \in Nat OBVIOUS
    <3>3. r = [m EXCEPT !.tasksAfter = zero] BY <2>2
    <3> QED BY <3>1, <3>2, <3>3 DEF GenType
  <2>3. CASE r = [gen EXCEPT !.mode = mode] BY <1>1, <2>3 DEF GenType
  <2> QED BY <1>2, <2>1, <2>2, <2>3
<1> QED BY <1>3

\* The recorded generation awaits what follows the inspected version.
LEMMA GenerationFacts ==
    ASSUME NEW spec \in Specification, NEW s \in ServiceType, NEW previous \in GenType
    PROVE  LET gen == updateGeneration(spec, s, previous)
           IN gen \in GenType /\ gen.on /\ gen.after = s.updatedAt
<1>1. /\ s.spec \in Specification /\ s.prev \in Specification /\ s.updatedAt \in Nat
      /\ s.status.startedAt \in Nat /\ spec.force \in Nat
  BY DEF ServiceType, StatusType, Specification
<1>2. \A x, y : ClassifyVerification(x, y) \in {"existing", "new"} BY DEF ClassifyVerification
<1> DEFINE own == [on |-> TRUE, force |-> spec.force, after |-> s.updatedAt,
                   mode |-> ClassifyVerification(s.spec, spec), before |-> s.spec,
                   tasksAfter |-> 0]
           p == Resolve(previous, s.prev, s.spec)
           boundary == IF s.status.startedAt > p.after THEN s.status.startedAt ELSE s.updatedAt
           tasksAfter == IF p.tasksAfter = 0 /\ s.updatedAt > p.after
                           THEN boundary ELSE p.tasksAfter
<1>3. own \in GenType /\ own.on /\ own.after = s.updatedAt BY <1>1, <1>2 DEF GenType
<1>4. p \in GenType BY <1>1, ResolveFacts
<1>5. p.tasksAfter \in Nat BY <1>4 DEF GenType
<1>6. tasksAfter \in Nat BY <1>1, <1>5
<1>7. \/ updateGeneration(spec, s, previous) = own
      \/ updateGeneration(spec, s, previous)
           = [own EXCEPT !.mode = "new", !.tasksAfter = tasksAfter]
  BY DEF updateGeneration
<1> HIDE DEF own, p, tasksAfter
<1> QED BY <1>3, <1>6, <1>7 DEF GenType

LEMMA RecordUpdateGenerationKeeps ==
    ASSUME IInv, History, RecordUpdateGeneration PROVE IInv'
<1> PICK gen : gen = updateGeneration(ctl.applied, ctl.cur, ctl.gen) OBVIOUS
<1> PICK saved : saved = Receipt(receipt.unresolved, ctl.gen) OBVIOUS
<1>1. /\ ctl.pc = "record" /\ receipt' = Receipt(TRUE, gen) /\ dep' = dep /\ UNCHANGED swarmVars
      /\ ctl' = [ctl EXCEPT !.pc = "write", !.gen = gen, !.saved = saved]
  BY DEF RecordUpdateGeneration
<1>2. /\ ctl \in CtlType /\ ctl.applied \in Specification /\ ctl.cur \in ServiceType
      /\ ctl.gen \in GenType /\ receipt.unresolved \in BOOLEAN /\ dep \in DepType
  BY DEF IInv, Shape, CtlType, ReceiptType
<1>3. gen \in GenType /\ gen.on /\ gen.after = ctl.cur.updatedAt BY <1>2, GenerationFacts
<1>4. /\ saved \in ReceiptType /\ saved.gen = ctl.gen /\ saved.unresolved = receipt.unresolved
  BY <1>2 DEF Receipt, ReceiptType
<1>5. receipt' \in ReceiptType /\ receipt'.unresolved BY <1>1, <1>3 DEF Receipt, ReceiptType
<1>6. /\ ctl' \in CtlType /\ ctl'.pc = "write" /\ ctl'.gen = gen /\ ctl'.saved = saved
      /\ ctl'.cur = ctl.cur /\ ctl'.seen = ctl.seen /\ ctl'.applied = ctl.applied
  BY <1>1, <1>2, <1>3, <1>4 DEF CtlType, Stages
<1>7. accepted' = 0 BY <1>1, AcceptedNext
<1>8. /\ service' = service /\ past' = past /\ managed' = managed /\ tasks' = tasks
  BY <1>1 DEF swarmVars
<1>9. ReadInv' BY <1>1, <1>6, <1>8 DEF IInv, ReadInv, VersionMatches
<1>10. ReceiptInv' BY <1>1, <1>3, <1>4, <1>5, <1>6 DEF IInv, ReceiptInv
<1>11. ParkedInv'
  BY <1>1, <1>6, <1>8 DEF IInv, ParkedInv, VersionMatches, Settled, taskRecreatingUpdate
<1> QED BY <1>1, <1>2, <1>5, <1>6, <1>7, <1>9, <1>10, <1>11, ControlChanged

LEMMA UpdateRefusedKeeps ==
    ASSUME IInv, History, UpdateRefused PROVE IInv'
<1>1. ctl.pc = "write" /\ UNCHANGED swarmVars BY DEF UpdateRefused
<1>2. /\ ctl \in CtlType /\ ctl.saved \in ReceiptType /\ ctl.saved.gen \in GenType
      /\ dep \in DepType
  BY DEF IInv, Shape, CtlType, ReceiptType
<1>3. CASE RefusedWith(ctl.saved.gen) BY <1>1, <1>2, <1>3, RefusedKeeps
<1>4. CASE /\ receipt' = ctl.saved /\ dep' = dep
           /\ ctl' = [ctl EXCEPT !.pc = "reinspect", !.gen = ctl.saved.gen]
  <2>1. /\ ctl' \in CtlType /\ ctl'.pc = "reinspect" /\ ctl'.gen = ctl.saved.gen
        /\ ctl'.cur = ctl.cur /\ ctl'.seen = ctl.seen
    BY <1>2, <1>4 DEF CtlType, Stages
  <2>2. accepted' = 0 BY <1>1, <2>1, AcceptedNext
  <2>3. ReadInv' BY <1>1, <2>1 DEF IInv, ReadInv, swarmVars
  <2>4. ReceiptInv' BY <1>1, <1>4, <2>1 DEF IInv, ReceiptInv
  <2>5. ParkedInv' BY <2>1 DEF ParkedInv
  <2> QED BY <1>1, <1>2, <1>4, <2>1, <2>2, <2>3, <2>4, <2>5, ControlChanged
<1> QED BY <1>3, <1>4 DEF UpdateRefused

LEMMA refreshConcurrentUpdateKeeps ==
    ASSUME IInv, History, refreshConcurrentUpdate PROVE IInv'
<1>1. ctl.pc = "reinspect" /\ UNCHANGED swarmVars /\ service.exists
  BY DEF refreshConcurrentUpdate, IInv, ReadInv
<1>2. /\ ctl \in CtlType /\ ctl.gen \in GenType /\ ctl.cur.updatedAt \in Nat /\ ctl.tries \in Nat
      /\ service \in ServiceType /\ service.spec \in Specification
      /\ service.prev \in Specification /\ dep \in DepType
  BY DEF IInv, Shape, CtlType, ServiceType
<1>3. CASE RefusedWith(ctl.gen) BY <1>1, <1>2, <1>3, RefusedKeeps
<1>4. CASE Advance(service, ctl.tries + 1) /\ UNCHANGED <<dep, receipt>>
  <2>1. ctl.tries + 1 \in Nat BY <1>2
  <2> QED BY <1>1, <1>4, <2>1, AdvanceKeeps
<1> DEFINE before == [service EXCEPT !.updatedAt = ctl.cur.updatedAt,
                                     !.spec = IF service.prev = NoSpec THEN @ ELSE service.prev]
           gen == updateGeneration(service.spec, before, ctl.gen)
<1>5. gen \in GenType
  <2>1. before \in ServiceType
    <3> PICK spec : spec = IF service.prev = NoSpec THEN service.spec ELSE service.prev OBVIOUS
    <3>1. spec \in Specification BY <1>2
    <3>2. before = [service EXCEPT !.updatedAt = ctl.cur.updatedAt, !.spec = spec]
      BY <1>2 DEF ServiceType
    <3> HIDE DEF before
    <3> QED BY <1>2, <3>1, <3>2 DEF ServiceType
  <2> HIDE DEF before
  <2> QED BY <1>2, <2>1, GenerationFacts
<1>6. CASE /\ receipt' = Receipt(TRUE, gen) /\ dep' = dep
           /\ ctl' = [ctl EXCEPT !.pc = "poll", !.changed = TRUE, !.gen = gen]
  <2> HIDE DEF gen
  <2>1. receipt' \in ReceiptType /\ receipt'.unresolved BY <1>5, <1>6 DEF Receipt, ReceiptType
  <2>2. /\ ctl' \in CtlType /\ ctl'.pc = "poll" /\ ctl'.cur = ctl.cur /\ ctl'.seen = ctl.seen
    BY <1>2, <1>5, <1>6 DEF CtlType, Stages
  <2>3. accepted' = 0 BY <1>1, AcceptedNext
  <2>4. ReadInv' BY <1>1, <2>2 DEF IInv, ReadInv, swarmVars
  <2>5. ReceiptInv' BY <1>1, <1>6, <2>1, <2>2 DEF IInv, ReceiptInv
  <2>6. ParkedInv' BY <2>2 DEF ParkedInv
  <2> QED BY <1>1, <1>2, <1>6, <2>1, <2>2, <2>3, <2>4, <2>5, <2>6, ControlChanged
<1> QED BY <1>3, <1>4, <1>6 DEF refreshConcurrentUpdate

-----------------------------------------------------------------------------
(* Writes of the attempt.                                                  *)

\* The own update is the newest version, and nothing of its status is older.
LEMMA UpdateAcceptedKeeps ==
    ASSUME IInv, History, UpdateAccepted PROVE IInv'
<1> PICK spec : spec = ctl.applied OBVIOUS
<1> PICK s : s = [service EXCEPT !.spec = spec, !.prev = service.spec, !.status = NoStatus] OBVIOUS
<1>1. /\ ctl.pc = "write" /\ VersionMatches(ctl.cur) /\ Store(s) /\ tasks' = tasks
      /\ UNCHANGED runs
  BY DEF UpdateAccepted, AcceptUpdate
<1>2. /\ ctl \in CtlType /\ spec \in Specification /\ dep \in DepType /\ receipt \in ReceiptType
      /\ now \in Nat /\ ctl.cur.updatedAt \in Nat /\ ctl.seen.updatedAt \in Nat
      /\ tasks \in [Slots -> TaskType] /\ requested \in Nat /\ started \in [Slots -> Nat]
  BY DEF IInv, Shape, CtlType, ServiceType
<1>3. s \in ServiceType /\ s.spec = spec /\ s.status.state = "none" BY <1>2, UpdateFacts DEF IInv
<1>4. /\ service' \in ServiceType /\ service'.exists /\ service'.updatedAt = now + 1
      /\ service'.spec = spec /\ service'.status.state = "none"
      /\ past' \subseteq ServiceType /\ past' = past \cup {service}
      /\ now' \in Nat /\ managed' = managed /\ service.updatedAt <= now /\ VersionInv'
  BY <1>1, <1>3, StoreFacts DEF IInv
<1>5. ctl.cur = service /\ service.exists BY <1>1 DEF IInv, ReadInv
<1>6. service.updatedAt = now BY <1>5 DEF IInv, VersionInv
<1>7. requested' = requested /\ started' = started BY <1>1 DEF runs
<1>8. ExecutionInv'
  <2>1. managed \/ SameExecution(service.spec, s.spec) \/ s.spec.replicas = 0
    BY <1>1, <1>3, <1>5 DEF IInv, ParkedInv, taskRecreatingUpdate, SameExecution
  <2> QED BY <1>1, <1>3, <2>1, ExecutionStored
<1>9. StatusOf(0)'
  <2>1. s.status.state # "none" => s.status.startedAt > 0 BY <1>3
  <2> QED BY <1>1, <1>3, <2>1, StatusStored DEF IInv, AcceptedInv
<1>10. CASE ctl' = Idle
  <2>1. /\ ctl' \in CtlType /\ ctl'.pc = "idle" /\ ctl'.cur.updatedAt = 0
        /\ ctl'.seen.updatedAt = 0
    BY <1>10, EmptyTypes DEF Idle, NoService
  <2>2. dep' = [dep EXCEPT !.status = "failed"] /\ receipt' = receipt
    BY <1>1, <2>1, <1>10, <1>2 DEF UpdateAccepted, CtlType
  <2>3. dep' \in DepType /\ dep'.status = "failed" BY <1>2, <2>2 DEF DepType
  <2>4. accepted' = 0 BY <2>1, AcceptedNext
  <2>5. Shape' BY <1>1, <1>2, <1>4, <1>7, <2>1, <2>2, <2>3, <2>4 DEF IInv, Shape
  <2>6. ReadInv' BY <1>2, <1>4, <2>1 DEF ReadInv
  <2>7. ReceiptInv' BY <2>1, <2>2, <2>3 DEF IInv, ReceiptInv
  <2>8. AcceptedInv' BY <1>9, <2>4 DEF AcceptedInv
  <2>9. ParkedInv' BY <2>1 DEF ParkedInv
  <2> QED BY <1>4, <1>8, <2>5, <2>6, <2>7, <2>8, <2>9 DEF IInv
<1>11. CASE ctl' = [ctl EXCEPT !.pc = "poll", !.changed = TRUE] /\ UNCHANGED <<dep, receipt>>
  <2>1. /\ ctl' \in CtlType /\ ctl'.pc = "poll" /\ ctl'.gen = ctl.gen /\ ctl'.cur = ctl.cur
        /\ ctl'.seen = ctl.seen
    BY <1>2, <1>11 DEF CtlType, Stages
  <2>2. accepted' = now + 1 BY <1>1, <1>4, <2>1, AcceptedNext
  <2>3. accepted' \in Nat BY <1>2, <2>2
  <2>4. Shape' BY <1>1, <1>2, <1>4, <1>7, <1>11, <2>1, <2>3 DEF IInv, Shape
  <2>5. ReadInv' BY <1>2, <1>4, <1>6, <2>1 DEF IInv, ReadInv
  <2>6. ReceiptInv' BY <1>1, <1>11, <2>1 DEF IInv, ReceiptInv
  <2>7. ctl'.gen.on /\ ctl'.gen.after + 1 = accepted'
    BY <1>1, <1>5, <1>6, <2>1, <2>2 DEF IInv, ReceiptInv
  <2>8. \A r \in past' \cup {service'} :
            r.updatedAt >= accepted' /\ r.status.state # "none" => r.status.startedAt > accepted'
    <3> SUFFICES ASSUME NEW r \in past \cup {service}, r.updatedAt >= now + 1 PROVE FALSE
      BY <1>4, <2>2
    <3>1. r.updatedAt <= now /\ r.updatedAt \in Nat
      BY <1>2, <1>6 DEF IInv, VersionInv, Shape, ServiceType
    <3> QED BY <1>2, <3>1
  <2>9. AcceptedInv' BY <1>2, <1>4, <1>9, <2>1, <2>2, <2>7, <2>8 DEF AcceptedInv, StatusOf
  <2>10. ParkedInv' BY <2>1 DEF ParkedInv
  <2> QED BY <1>4, <1>8, <2>4, <2>5, <2>6, <2>9, <2>10 DEF IInv
<1> QED BY <1>10, <1>11 DEF UpdateAccepted

\* A created external service starts parked.
LEMMA inspectOrCreateKeeps ==
    ASSUME IInv, History, inspectOrCreate PROVE IInv'
<1> PICK spec : spec = [Want EXCEPT !.replicas = IF managed THEN @ ELSE 0] OBVIOUS
<1> PICK s : s = [NoService EXCEPT !.spec = spec, !.createdAt = now + 1] OBVIOUS
<1> PICK gen : gen = [NoGen EXCEPT !.on = TRUE, !.before = service'.spec] OBVIOUS
<1>1. /\ ctl.pc = "apply" /\ Store(s) /\ tasks' = tasks /\ UNCHANGED runs /\ dep' = dep
      /\ receipt' = receipt /\ ctl' = [ctl EXCEPT !.pc = "poll", !.changed = TRUE, !.gen = gen]
  BY DEF inspectOrCreate, AcceptCreate
<1>2. /\ ctl \in CtlType /\ Want \in Specification /\ dep \in DepType /\ receipt \in ReceiptType
      /\ now \in Nat /\ ctl.cur.updatedAt \in Nat /\ ctl.seen.updatedAt \in Nat
      /\ tasks \in [Slots -> TaskType] /\ requested \in Nat /\ started \in [Slots -> Nat]
  BY DEF IInv, Shape, CtlType, ServiceType, DepType, Want
<1>3. spec \in Specification /\ (~managed => spec.replicas = 0) BY <1>2 DEF Specification
<1>4. s \in ServiceType /\ s.spec = spec /\ s.status.state = "none"
  <2> PICK n : n = now + 1 OBVIOUS
  <2>1. n \in Nat BY <1>2
  <2>2. NoService.status.state = "none" BY DEF NoService, NoStatus
  <2>3. s = [NoService EXCEPT !.spec = spec, !.createdAt = n] OBVIOUS
  <2> QED BY <1>3, <2>1, <2>2, <2>3, EmptyTypes DEF ServiceType
<1>5. /\ service' \in ServiceType /\ service'.updatedAt = now + 1 /\ service'.spec = spec
      /\ past' \subseteq ServiceType /\ now' \in Nat /\ managed' = managed
      /\ service.updatedAt <= now /\ VersionInv'
  BY <1>1, <1>4, StoreFacts DEF IInv
<1>6. gen \in GenType BY <1>3, <1>5, EmptyTypes DEF GenType
<1>7. /\ ctl' \in CtlType /\ ctl'.pc = "poll" /\ ctl'.cur = ctl.cur /\ ctl'.seen = ctl.seen
  BY <1>1, <1>2, <1>6 DEF CtlType, Stages
<1>8. accepted' = 0 BY <1>1, AcceptedNext
<1>9. requested' = requested /\ started' = started BY <1>1 DEF runs
<1>10. Shape' BY <1>1, <1>2, <1>5, <1>7, <1>8, <1>9 DEF IInv, Shape
<1>11. ReadInv'
  <2>1. service.updatedAt \in Nat BY DEF IInv, Shape, ServiceType
  <2> QED BY <1>2, <1>5, <1>7, <2>1 DEF IInv, ReadInv
<1>12. ReceiptInv' BY <1>1, <1>7 DEF IInv, ReceiptInv
<1>13. StatusOf(0)'
  <2>1. s.status.state # "none" => s.status.startedAt > 0 BY <1>4
  <2> QED BY <1>1, <1>4, <2>1, StatusStored DEF IInv, AcceptedInv
<1>14. AcceptedInv' BY <1>8, <1>13 DEF AcceptedInv
<1>15. ExecutionInv' BY <1>1, <1>3, <1>4, ExecutionStored
<1>16. ParkedInv' BY <1>7 DEF ParkedInv
<1> QED BY <1>5, <1>10, <1>11, <1>12, <1>14, <1>15, <1>16 DEF IInv

-----------------------------------------------------------------------------
(* The waiter.                                                             *)

LEMMA PollKeeps ==
    ASSUME IInv, History, Poll PROVE IInv'
<1>1. /\ ctl.pc = "poll" /\ UNCHANGED swarmVars /\ dep' = dep /\ receipt' = receipt BY DEF Poll
<1>2. PICK s \in past \cup {service} : ctl' = [ctl EXCEPT !.pc = "tasks", !.seen = s] BY DEF Poll
<1>3. /\ receipt \in ReceiptType /\ dep \in DepType /\ ctl \in CtlType /\ s \in ServiceType
      /\ service.updatedAt \in Nat /\ s.updatedAt \in Nat
  BY DEF IInv, Shape, ServiceType
<1>4. s.updatedAt <= service.updatedAt BY <1>3 DEF IInv, VersionInv
<1>5. /\ ctl' \in CtlType /\ ctl'.pc = "tasks" /\ ctl'.gen = ctl.gen /\ ctl'.cur = ctl.cur
      /\ ctl'.seen = s
  BY <1>2, <1>3 DEF CtlType, Stages
<1>6. accepted' = accepted BY <1>1, <1>5, AcceptedNext
<1>7. ReadInv' BY <1>1, <1>4, <1>5 DEF IInv, ReadInv, swarmVars
<1>8. ReceiptInv' BY <1>1, <1>5 DEF IInv, ReceiptInv
<1>9. ParkedInv' BY <1>5 DEF ParkedInv
<1> QED BY <1>1, <1>3, <1>5, <1>6, <1>7, <1>8, <1>9, ControlChanged

LEMMA ObserveKeeps ==
    ASSUME IInv, History, Observe PROVE IInv'
<1>1. CASE Verdict = "ready"
  <2>1. Complete("succeeded", FALSE) BY <1>1 DEF Observe
  <2> QED BY <2>1, CompleteKeeps
<1>2. CASE Verdict = "failed"
  <2>1. Complete("failed", TRUE) BY <1>2 DEF Observe
  <2> QED BY <2>1, CompleteKeeps
<1>3. CASE Verdict # "ready" /\ Verdict # "failed"
  <2>1. /\ ctl.pc = "tasks" /\ ctl' = [ctl EXCEPT !.pc = "poll", !.seen = NoService]
        /\ UNCHANGED swarmVars /\ dep' = dep /\ receipt' = receipt
    BY <1>3 DEF Observe
  <2>2. /\ receipt \in ReceiptType /\ dep \in DepType /\ ctl \in CtlType
        /\ service.updatedAt \in Nat /\ NoService.updatedAt = 0
    BY DEF IInv, Shape, ServiceType, NoService
  <2>3. /\ ctl' \in CtlType /\ ctl'.pc = "poll" /\ ctl'.gen = ctl.gen /\ ctl'.cur = ctl.cur
        /\ ctl'.seen = NoService
    BY <2>1, <2>2, EmptyTypes DEF CtlType, Stages
  <2>4. accepted' = accepted BY <2>1, <2>3, AcceptedNext
  <2>5. ReadInv' BY <2>1, <2>2, <2>3 DEF IInv, ReadInv, swarmVars
  <2>6. ReceiptInv' BY <2>1, <2>3 DEF IInv, ReceiptInv
  <2>7. ParkedInv' BY <2>3 DEF ParkedInv
  <2> QED BY <2>1, <2>2, <2>3, <2>4, <2>5, <2>6, <2>7, ControlChanged
<1> QED BY <1>1, <1>2, <1>3

\* A record is judged to have failed when it is not older than what is awaited.
LEMMA VerdictFailed ==
    ASSUME IInv, ctl.pc = "tasks", Verdict = "failed"
    PROVE  ctl.seen.status.startedAt > accepted
<1> PICK s : s = ctl.seen OBVIOUS
<1>1. s.status.state \in FailedStates /\ ~MetadataPending(s, Resolved(s))
  <2>1. CASE managed
    <3>1. evaluateService(s) = "failed" BY <2>1 DEF Verdict
    <3> QED BY <3>1 DEF evaluateService
  <2>2. CASE ~managed
    <3>1. specificationProgress(s) = "failed" BY <2>2 DEF Verdict
    <3> QED BY <3>1 DEF specificationProgress
  <2> QED BY <2>1, <2>2
<1>2. s \in past \cup {service} /\ s.status.state # "none"
  BY <1>1 DEF IInv, ReadInv, FailedStates
<1>3. /\ s \in ServiceType /\ s.updatedAt \in Nat /\ s.prev \in Specification
      /\ s.spec \in Specification /\ ctl.gen \in GenType /\ ctl.gen.after \in Nat
      /\ accepted \in Nat
  BY DEF IInv, Shape, CtlType, ServiceType, GenType
<1>4. CASE accepted = 0 BY <1>2, <1>3, <1>4 DEF IInv, AcceptedInv, StatusOf
<1>5. CASE accepted # 0
  <2>1. ctl.gen.on /\ ctl.gen.after + 1 = accepted /\ StatusOf(accepted)
    BY <1>5 DEF IInv, AcceptedInv
  <2>2. Resolved(s).on /\ Resolved(s).after = ctl.gen.after BY <1>3, <2>1, ResolveFacts DEF Resolved
  <2>3. ~(s.updatedAt <= ctl.gen.after) BY <1>1, <2>2 DEF MetadataPending
  <2>4. s.updatedAt >= accepted BY <1>3, <2>1, <2>3
  <2> QED BY <1>2, <2>1, <2>4 DEF StatusOf
<1> QED BY <1>4, <1>5

-----------------------------------------------------------------------------
(* The specification.                                                      *)

LEMMA InitEstablishes ==
    ASSUME Init PROVE IInv
<1>1. /\ managed \in BOOLEAN /\ past = {} /\ requested = 0 /\ started = [i \in Slots |-> 0]
      /\ now = IF service.exists THEN service.updatedAt ELSE 1
      /\ receipt = Receipt(FALSE, NoGen) /\ ctl = Idle /\ accepted = 0
      /\ tasks = [i \in Slots |->
            IF i \in Scaled(service.spec)
              THEN [tmpl |-> service.spec.tmpl, ep |-> service.spec.ep, force |-> 0,
                    born |-> IF service.prev = NoSpec THEN 1 ELSE 3, state |-> "running"]
              ELSE NoTask]
  BY DEF Init
<1> DEFINE First(d, p) ==
        /\ p # NoSpec => managed
        /\ dep = [want |-> d, status |-> "succeeded", number |-> 1]
        /\ service = [NoService EXCEPT !.exists = TRUE, !.createdAt = 1, !.prev = p,
                          !.updatedAt = IF p = NoSpec THEN 1 ELSE 4,
                          !.status = IF p = NoSpec THEN NoStatus
                                     ELSE [state |-> "completed", startedAt |-> 3],
                          !.spec = [d EXCEPT !.replicas = IF managed THEN @ ELSE 0]]
      Typed ==
        /\ service \in ServiceType /\ dep \in DepType /\ dep.status = "succeeded"
        /\ IF service.exists THEN service.updatedAt # 0 ELSE service.updatedAt = 0
        /\ service.status.state # "none" => service.status.startedAt > 0
        /\ ~managed => service.spec.replicas = 0
<1>2. Typed
  <2>1. CASE /\ dep = [want |-> NoSpec, status |-> "succeeded", number |-> 1]
             /\ service = NoService
    <3>1. dep \in DepType /\ dep.status = "succeeded" BY <2>1, EmptyTypes DEF DepType
    <3>2. /\ ~NoService.exists /\ NoService.updatedAt = 0 /\ NoService.status.state = "none"
          /\ NoService.spec.replicas = 0
      BY DEF NoService, NoStatus, NoSpec
    <3> QED BY <2>1, <3>1, <3>2, EmptyTypes
  <2>2. ASSUME NEW d \in Deployed, NEW p \in Replaced, First(d, p) PROVE Typed
    <3>1. d \in Specification /\ p \in Specification BY DefinitionsAreSpecifications
    <3>2. dep \in DepType /\ dep.status = "succeeded" BY <2>2, <3>1 DEF DepType
    <3> PICK spec : spec = [d EXCEPT !.replicas = IF managed THEN @ ELSE 0] OBVIOUS
    <3> PICK st : st = IF p = NoSpec THEN NoStatus ELSE [state |-> "completed", startedAt |-> 3]
      OBVIOUS
    <3> PICK n : n = IF p = NoSpec THEN 1 ELSE 4 OBVIOUS
    <3> PICK one : one = 1 OBVIOUS
    <3>3. spec \in Specification /\ (~managed => spec.replicas = 0) BY <3>1 DEF Specification
    <3>4. st \in StatusType /\ (st.state # "none" => st.startedAt > 0)
      BY DEF StatusType, NoStatus
    <3>5. n \in Nat /\ n # 0 /\ one \in Nat OBVIOUS
    <3>6. service = [exists |-> TRUE, spec |-> spec, prev |-> p, createdAt |-> one,
                     updatedAt |-> n, status |-> st]
      BY <2>2 DEF NoService
    <3>7. /\ service \in ServiceType /\ service.exists /\ service.updatedAt = n
          /\ service.status = st /\ service.spec = spec
      <4> HIDE DEF First
      <4> QED BY <3>1, <3>3, <3>4, <3>5, <3>6 DEF ServiceType
    <3> HIDE DEF First
    <3> QED BY <3>2, <3>3, <3>4, <3>5, <3>7
  <2>3. \/ /\ dep = [want |-> NoSpec, status |-> "succeeded", number |-> 1]
           /\ service = NoService
        \/ \E d \in Deployed, p \in Replaced : First(d, p)
    BY Zenon DEF Init
  <2> HIDE DEF First, Typed
  <2> QED BY <2>1, <2>2, <2>3
<1>3. /\ service.spec \in Specification /\ service.spec.tmpl \in Nat /\ service.spec.ep \in Nat
      /\ service.updatedAt \in Nat
  BY <1>2 DEF ServiceType, Specification
<1>4. tasks \in [Slots -> TaskType]
  <2> PICK born : born = IF service.prev = NoSpec THEN 1 ELSE 3 OBVIOUS
  <2>1. born \in Nat OBVIOUS
  <2>2. [tmpl |-> service.spec.tmpl, ep |-> service.spec.ep, force |-> 0, born |-> born,
         state |-> "running"] \in TaskType
    BY <1>3, <2>1 DEF TaskType
  <2> QED BY <1>1, <2>2, EmptyTypes
<1>5. Shape BY <1>1, <1>2, <1>3, <1>4, EmptyTypes DEF Shape
<1>6. /\ ctl.pc = "idle" /\ ctl.cur.updatedAt = 0 /\ ctl.seen.updatedAt = 0 /\ ~receipt.gen.on
  BY <1>1 DEF Idle, NoService, Receipt, NoGen
<1>7. VersionInv BY <1>1, <1>2 DEF VersionInv
<1>8. ReadInv BY <1>3, <1>6 DEF ReadInv
<1>9. ReceiptInv BY <1>2, <1>6 DEF ReceiptInv
<1>10. AcceptedInv BY <1>1, <1>2 DEF AcceptedInv, StatusOf
<1>11. ExecutionInv BY <1>1, <1>2 DEF ExecutionInv, Owed, Scaled
<1>12. ParkedInv BY <1>6 DEF ParkedInv
<1> QED BY <1>5, <1>7, <1>8, <1>9, <1>10, <1>11, <1>12 DEF IInv

LEMMA RotateCredentialsKeeps ==
    ASSUME IInv, History, RotateCredentials PROVE IInv'
<1>1. /\ UNCHANGED swarmVars /\ dep' = dep /\ receipt' = receipt /\ ctl' = ctl
  BY DEF RotateCredentials
<1>2. accepted' = accepted BY <1>1, AcceptedNext
<1>3. dep \in DepType /\ receipt \in ReceiptType /\ ctl \in CtlType /\ accepted \in Nat
  BY DEF IInv, Shape
<1>4. ReadInv' BY <1>1 DEF IInv, ReadInv, swarmVars, VersionMatches
<1>5. ReceiptInv' BY <1>1 DEF IInv, ReceiptInv
<1>6. ParkedInv'
  BY <1>1 DEF IInv, ParkedInv, swarmVars, VersionMatches, Settled, taskRecreatingUpdate
<1>7. accepted' = 0 \/ ctl'.pc \in {"poll", "tasks"} BY <1>1, <1>2 DEF IInv, AcceptedInv
<1> QED BY <1>1, <1>2, <1>3, <1>4, <1>5, <1>6, <1>7, ControlChanged

\* Every step preserves the invariant.
LEMMA NextKeeps ==
    ASSUME IInv, Next PROVE IInv'
<1>1. History BY DEF Next
<1>2. CASE \E d \in Definitions : Begin(d) BY <1>1, <1>2, BeginKeeps
<1>3. CASE Apply
  BY <1>1, <1>3, inspectOrCreateKeeps, InspectKeeps, checkUpdateSafetyKeeps,
     RecordUpdateGenerationKeeps, UpdateAcceptedKeeps, UpdateRefusedKeeps,
     refreshConcurrentUpdateKeeps
     DEF Apply
<1>4. CASE CaptureBaseline BY <1>1, <1>4, CaptureBaselineKeeps
<1>5. CASE ApplyFails \/ Poll \/ Observe \/ WaitInterrupted \/ Crash
  BY <1>1, <1>5, ApplyFailsKeeps, PollKeeps, ObserveKeeps, WaitInterruptedKeeps, CrashKeeps
<1>6. CASE RefreshRegistryAuth
  <2>1. accepted' = accepted BY <1>1, <1>6, AcceptedNext DEF RefreshRegistryAuth
  <2> QED BY <1>6, <2>1, RefreshRegistryAuthKeeps
<1>7. CASE RotateCredentials BY <1>1, <1>7, RotateCredentialsKeeps
<1>8. CASE (Orchestrator \/ RequestExecution) /\ UNCHANGED rolloutVars
  <2>1. accepted' = accepted BY <1>1, <1>8, AcceptedNext DEF rolloutVars
  <2> QED BY <1>8, <2>1, OrchestratorKeeps, RequestExecutionKeeps
<1> QED BY <1>2, <1>3, <1>4, <1>5, <1>6, <1>7, <1>8 DEF Next, Step

LEMMA StutterKeeps ==
    ASSUME IInv, UNCHANGED vars PROVE IInv'
<1>1. /\ UNCHANGED swarmVars /\ dep' = dep /\ receipt' = receipt /\ ctl' = ctl
      /\ accepted' = accepted
  BY DEF vars, rolloutVars
<1>2. dep \in DepType /\ receipt \in ReceiptType /\ ctl \in CtlType /\ accepted \in Nat
  BY DEF IInv, Shape
<1>3. ReadInv' BY <1>1 DEF IInv, ReadInv, swarmVars, VersionMatches
<1>4. ReceiptInv' BY <1>1 DEF IInv, ReceiptInv
<1>5. ParkedInv'
  BY <1>1 DEF IInv, ParkedInv, swarmVars, VersionMatches, Settled, taskRecreatingUpdate
<1>6. accepted' = 0 \/ ctl'.pc \in {"poll", "tasks"} BY <1>1 DEF IInv, AcceptedInv
<1> QED BY <1>1, <1>2, <1>3, <1>4, <1>5, <1>6, ControlChanged

\* The inductive invariant holds in every reachable state.
THEOREM RolloutInductive == Spec => []IInv
<1>1. Init => IInv BY InitEstablishes
<1>2. IInv /\ [Next]_vars => IInv' BY NextKeeps, StutterKeeps
<1> QED BY <1>1, <1>2, PTL DEF Spec

(***************************************************************************)
(* RolloutTypeOK: an attempt is in progress exactly while its deployment   *)
(* runs, the receipt carries an update generation only while the service   *)
(* is unresolved (RecordUpdateGeneration, Complete, InterruptRunning), and *)
(* no record that was read is newer than the service.                      *)
(***************************************************************************)
THEOREM RolloutTypeCorrect == Spec => []RolloutTypeOK
<1>1. IInv => RolloutTypeOK
  <2> SUFFICES ASSUME IInv PROVE RolloutTypeOK OBVIOUS
  <2>1. dep.status \in {"running", "succeeded", "failed", "interrupted"}
    BY DEF IInv, Shape, DepType
  <2> QED BY <2>1 DEF IInv, ReadInv, ReceiptInv, RolloutTypeOK
<1> QED BY <1>1, RolloutInductive, PTL

(***************************************************************************)
(* No update of an external service starts an execution by itself: in any  *)
(* interleaving of the applier, the orchestrator and the scheduler, and    *)
(* with lost responses and crashes, a slot starts at most as often as the  *)
(* scheduler requested (prepareUpdate, checkUpdateSafety).                 *)
(***************************************************************************)
THEOREM NoExecutionUnrequested == Spec => []NoUnrequestedExecution
<1>1. IInv => NoUnrequestedExecution BY DEF IInv, ExecutionInv, NoUnrequestedExecution
<1> QED BY <1>1, RolloutInductive, PTL

(***************************************************************************)
(* An update that replaces the tasks of an external service is accepted    *)
(* only while none of them runs or is still to be started: the version     *)
(* check of the write closes the gap to the listing of checkUpdateSafety.  *)
(***************************************************************************)
THEOREM ExecutionsLeftAlone == Spec => ExecutionsUndisturbed
<1>1. ASSUME IInv, ~managed, UpdateAccepted, taskRecreatingUpdate(service.spec, service'.spec)
      PROVE  Quiescent
  <2> PICK spec : spec = ctl.applied OBVIOUS
  <2>1. ctl.pc = "write" /\ VersionMatches(ctl.cur) /\ AcceptUpdate(spec)
    BY <1>1 DEF UpdateAccepted
  <2>2. spec \in Specification BY <1>1 DEF IInv, Shape, CtlType
  <2>3. service'.spec = spec
    <3> PICK s : s = [service EXCEPT !.spec = spec, !.prev = service.spec, !.status = NoStatus]
      OBVIOUS
    <3>1. s \in ServiceType /\ s.spec = spec /\ Store(s)
      BY <1>1, <2>1, <2>2, UpdateFacts DEF IInv, AcceptUpdate
    <3> QED BY <1>1, <3>1, StoreFacts DEF IInv
  <2>4. ctl.cur = service BY <1>1, <2>1 DEF IInv, ReadInv
  <2>5. Settled(service) BY <1>1, <2>1, <2>3, <2>4 DEF IInv, ParkedInv
  <2>6. ASSUME NEW i \in Scaled(service.spec) PROVE tasks[i] # NoTask /\ ~Dirty(i)
    <3>1. i \in Slots BY <2>6 DEF Scaled
    <3>2. tasks[i] # NoTask /\ tasks[i].force = service.spec.force
      BY <2>5, <2>6 DEF Settled, SameTemplate
    <3>3. tasks[i].tmpl = service.spec.tmpl /\ tasks[i].ep = service.spec.ep
      BY <1>1, <2>6, <3>1, <3>2 DEF IInv, ExecutionInv
    <3> QED BY <3>2, <3>3 DEF Dirty
  <2> QED BY <2>5, <2>6 DEF Quiescent, Settled
<1>2. IInv /\ [Next]_vars =>
        [~managed /\ UpdateAccepted /\ taskRecreatingUpdate(service.spec, service'.spec)
           => Quiescent]_vars
  BY <1>1
<1> QED BY <1>2, RolloutInductive, PTL DEF Spec, ExecutionsUndisturbed

(***************************************************************************)
(* A failure is the own write's: when the waiter (evaluateService,         *)
(* specificationProgress) fails the attempt, the update that was paused or *)
(* rolled back started after the update that this attempt had accepted,    *)
(* whichever version of the record was listed.                             *)
(***************************************************************************)
THEOREM FailureIsOwnWrite == Spec => FailureIsOwn
<1>1. ASSUME IInv, Next, ctl.pc = "tasks", dep'.status = "failed"
      PROVE  ctl.seen.status.startedAt > accepted
  <2>1. dep.status = "running" BY <1>1 DEF IInv, ReceiptInv
  <2>2. dep' # dep BY <1>1, <2>1
  <2>3. dep \in DepType BY <1>1 DEF IInv, Shape
  <2>4. ~Crash
    <3> SUFFICES ASSUME Crash PROVE FALSE OBVIOUS
    <3>1. dep' = [dep EXCEPT !.status = "interrupted"] BY DEF Crash
    <3> QED BY <1>1, <2>3, <3>1 DEF DepType
  <2>5. Observe
    BY <1>1, <2>2, <2>4
       DEF Next, Step, Begin, CaptureBaseline, Apply, inspectOrCreate, Inspect, checkUpdateSafety,
           RecordUpdateGeneration, UpdateAccepted, UpdateRefused, refreshConcurrentUpdate,
           ApplyFails, Poll, WaitInterrupted, RefreshRegistryAuth, RotateCredentials, rolloutVars
  <2>6. Verdict = "failed"
    <3>1. CASE Verdict = "ready"
      <4>1. dep' = [dep EXCEPT !.status = "succeeded"] BY <2>5, <3>1 DEF Observe, Complete
      <4> QED BY <1>1, <2>3, <4>1 DEF DepType
    <3>2. CASE Verdict # "ready" /\ Verdict # "failed"
      <4>1. dep' = dep BY <2>5, <3>2 DEF Observe
      <4> QED BY <2>2, <4>1
    <3> QED BY <3>1, <3>2
  <2> QED BY <1>1, <2>6, VerdictFailed
<1>2. IInv /\ [Next]_vars =>
        [ctl.pc = "tasks" /\ dep'.status = "failed"
           => ctl.seen.status.startedAt > accepted]_vars
  BY <1>1
<1> QED BY <1>2, RolloutInductive, PTL DEF Spec, FailureIsOwn

-----------------------------------------------------------------------------
(* What holds of a managed service.                                        *)

Records == past \cup {service}
Rolled == {"rollback_started", "rollback_completed"}
Waiting == ctl.pc \in {"poll", "tasks"}

\* No client has written the service since r.
Latest(r) == \A q \in Records : q.updatedAt > r.updatedAt => q.status.state # "none"

\* The receipt as it is when the write in progress is refused.
Held == IF ctl.pc = "write" THEN ctl.saved ELSE receipt

\* What the orchestrator has made of the record r since.
Succeeded(r) ==
    /\ r.exists
    /\ r.status.state \in {"none", "updating", "rollback_started"}
    /\ IF r.status.state = "rollback_started"
         THEN service.status.state \in Rolled ELSE r.spec.replicas # 0
    /\ \/ r.spec = service.spec /\ r.prev = service.prev
       \/ /\ service.status.state \in Rolled /\ r.status.state # "rollback_started"
          /\ service.spec = r.prev /\ r.prev # NoSpec

RecordInv ==
    /\ now # 0
    /\ \A r \in Records : /\ r.status.state = "none" => r.status = NoStatus
                          /\ ~r.exists => r = NoService
    /\ service.status.state # "none" => service.status.startedAt <= service.updatedAt
    /\ \A r \in past : Latest(r) => Succeeded(r)

\* Tasks that were started at t or later have the endpoint of the specification.
EndpointSince(t) ==
    \A i \in Slots : tasks[i] # NoTask /\ tasks[i].born >= t => tasks[i].ep = service.spec.ep

TaskInv ==
    /\ \A i \in Slots : tasks[i] # NoTask =>
          tasks[i].born <= now /\ Active(tasks[i]) /\ service.exists
    /\ service.status.state = "none" => EndpointSince(service.updatedAt)
    /\ service.status.state \in {"updating", "completed", "paused"} =>
          /\ EndpointSince(service.status.startedAt)
          /\ service.spec.replicas = 0 => \A i \in Slots : tasks[i] = NoTask
    /\ service.status.state = "updating" => service.spec.replicas # 0

\* The attempt has created the service, or is about to.
Creating ==
    /\ ctl.base = NoService /\ ~receipt.gen.on
    /\ \A r \in past : ~r.exists
    /\ \/ ctl.pc = "apply" /\ ~service.exists
       \/ /\ Waiting /\ service.exists /\ ctl.changed /\ ctl.gen.on /\ ctl.gen.after = 0
          /\ service.status = NoStatus /\ service.prev = NoSpec
          /\ \A i \in Slots : ~Dirty(i)

\* Since its baseline only the attempt has written the service.
Updating ==
    /\ ctl.base \in Records
    /\ \A q \in Records : q.status.state = "none" =>
          \/ q.updatedAt <= ctl.base.updatedAt
          \/ Waiting /\ ctl.changed /\ ctl.gen.on /\ q.updatedAt <= ctl.gen.after + 1

\* No rollback that went unnoticed replaced tasks.
Settling ==
    service.status.state \in Rolled /\ ~Held.unresolved /\ ~ctl.changed =>
        \A r \in past : Latest(r) /\ r.updatedAt >= ctl.base.updatedAt
                           /\ r.status.state # "rollback_started" =>
            ClassifyVerification(r.prev, r.spec) = "existing"

BaseInv ==
    ctl.pc \notin {"idle", "baseline"} =>
        /\ ctl.base.updatedAt <= service.updatedAt
        /\ IF ctl.base.exists THEN Updating ELSE Creating
        /\ ~blurred => \A r \in Records :
              r.updatedAt >= ctl.base.updatedAt /\ Latest(r) => r.spec = service.spec
        /\ Settling

\* A generation awaits a version, and is dated only if its tasks are to be new.
Dated(g) == g.on => g.after # 0 /\ (g.tasksAfter # 0 => g.mode = "new")

AttemptInv ==
    /\ ctl.pc # "safety"
    /\ ctl.pc # "idle" => Want \in Definitions
    /\ dep.status = "succeeded" => ~receipt.unresolved
    /\ ~service.exists => ~receipt.gen.on
    /\ Dated(receipt.gen) /\ Dated(Held.gen)
    /\ ~Waiting => ~ctl.changed
    /\ ctl.pc # "idle" /\ ~Waiting => (Held.unresolved <=> ctl.inherited)
    /\ ctl.pc \in {"baseline", "apply", "record", "reinspect"} => ctl.gen = receipt.gen
    /\ ctl.pc \in {"record", "write", "reinspect"} =>
          /\ ctl.cur.updatedAt # 0
          /\ ~blurred => updateRequired(service)
    /\ ctl.pc = "write" =>
          /\ receipt.gen = ctl.gen
          /\ ctl.gen = updateGeneration(ctl.applied, ctl.cur, ctl.saved.gen)
    /\ Waiting =>
          /\ ctl.gen = receipt.gen \/ ~ctl.base.exists
          /\ ctl.inherited => receipt.unresolved
          /\ receipt.unresolved \/ ctl.changed => ctl.inherited \/ ctl.gen.on
    /\ ctl.pc = "tasks" /\ ctl.changed /\ ctl.base.exists => serviceChanged(ctl.base, ctl.seen)

\* What generation g says of the tasks while nothing blurs it.
GenMeans(g) ==
    /\ g.after < service.updatedAt /\ g.tasksAfter <= g.after
    /\ service.status.state # "none" => service.status.startedAt > g.after
    /\ service.status.state \notin Rolled
    /\ service.prev = g.before /\ ClassifyVerification(g.before, service.spec) = "existing" =>
          EndpointSince(g.tasksAfter)

\* The tasks are of the template, and stay so if the update is rolled back.
Filled ==
    /\ \A i \in Scaled(service.spec) : tasks[i] # NoTask /\ tasks[i].tmpl = service.spec.tmpl
    /\ service.status.state \in {"none", "updating"} =>
          \/ service.spec.replicas = 0 \/ service.prev = NoSpec
          \/ ClassifyVerification(service.prev, service.spec) = "existing"

TasksInv ==
    /\ ~blurred => IF Held.gen.on THEN GenMeans(Held.gen) ELSE EndpointSince(0)
    /\ ~Held.unresolved /\ ~ctl.changed /\ service.exists => Filled

MInv == RecordInv /\ TaskInv /\ BaseInv /\ AttemptInv /\ TasksInv

RInv == blurred \in BOOLEAN /\ (managed => MInv)

-----------------------------------------------------------------------------
(* The orchestrator and the tasks of a managed service.                    *)

LEMMA RecordTypes ==
    ASSUME IInv
    PROVE  /\ now \in Nat /\ service \in ServiceType /\ service.updatedAt \in Nat
           /\ service.status \in StatusType /\ service.status.startedAt \in Nat
           /\ service.spec \in Specification /\ service.prev \in Specification
           /\ \A r \in Records : /\ r \in ServiceType /\ r.updatedAt \in Nat
                                 /\ r.updatedAt <= service.updatedAt
<1>1. now \in Nat /\ service \in ServiceType /\ past \subseteq ServiceType BY DEF IInv, Shape
<1>2. \A r \in Records : r \in ServiceType BY <1>1 DEF Records
<1>3. \A r \in Records : r.updatedAt \in Nat BY <1>2 DEF ServiceType
<1>4. /\ service.updatedAt \in Nat /\ service.status \in StatusType
      /\ service.spec \in Specification /\ service.prev \in Specification
  BY <1>1 DEF ServiceType
<1>5. service.status.startedAt \in Nat BY <1>4 DEF StatusType
<1>6. \A r \in Records : r.updatedAt <= service.updatedAt
  BY <1>3, <1>4 DEF IInv, VersionInv, Records
<1> QED BY <1>1, <1>2, <1>3, <1>4, <1>5, <1>6

\* Tasks change as the orchestrator of a managed service changes them.
TaskMoves(j) ==
    \/ tasks'[j] = tasks[j]
    \/ tasks'[j] = NoTask /\ j \notin Scaled(service.spec)
    \/ /\ tasks'[j] # NoTask /\ Active(tasks'[j])
       /\ tasks'[j].tmpl = service.spec.tmpl /\ tasks'[j].ep = service.spec.ep
       /\ tasks'[j].force = service.spec.force /\ tasks'[j].born = now
       /\ tasks[j] # NoTask \/ j \in Scaled(service.spec)
    \/ /\ tasks[j] # NoTask /\ tasks'[j] # NoTask /\ Active(tasks'[j])
       /\ tasks'[j].tmpl = tasks[j].tmpl /\ tasks'[j].ep = tasks[j].ep
       /\ tasks'[j].force = tasks[j].force /\ tasks'[j].born = tasks[j].born

LEMMA TaskStepKeeps ==
    ASSUME IInv, MInv, service.exists, Keep, UNCHANGED <<dep, receipt, ctl, auth, blurred>>,
           \A j \in Slots : TaskMoves(j)
    PROVE  MInv'
<1>1. /\ service' = service /\ past' = past /\ now' = now /\ managed' = managed
      /\ dep' = dep /\ receipt' = receipt /\ ctl' = ctl /\ auth' = auth /\ blurred' = blurred
  BY DEF Keep
<1>2. RecordInv' BY <1>1 DEF MInv, RecordInv, Records, Latest, Succeeded
<1>3. ASSUME NEW t, EndpointSince(t)
      PROVE  \A i \in Slots : tasks'[i] # NoTask /\ tasks'[i].born >= t =>
                 tasks'[i].ep = service.spec.ep
  BY <1>3 DEF EndpointSince, TaskMoves
<1>4. \A j \in Slots : tasks'[j] # NoTask => tasks'[j].born <= now /\ Active(tasks'[j])
  <2>1. now <= now BY RecordTypes
  <2> QED BY <2>1 DEF MInv, TaskInv, TaskMoves
<1>5. service.spec.replicas = 0 /\ (\A i \in Slots : tasks[i] = NoTask) =>
        \A i \in Slots : tasks'[i] = NoTask
  BY DEF TaskMoves, Scaled
<1>6. TaskInv'
  <2> DEFINE Since(t) == \A i \in Slots : tasks'[i] # NoTask /\ tasks'[i].born >= t =>
                             tasks'[i].ep = service.spec.ep
  <2>1. \A t : EndpointSince(t) => Since(t) BY <1>3
  <2>2. \A t : Since(t) => (\A i \in Slots : tasks'[i] # NoTask /\ tasks'[i].born >= t =>
                             tasks'[i].ep = service.spec.ep) OBVIOUS
  <2>3. service.status.state = "none" => EndpointSince(service.updatedAt)'
    BY <1>1, <2>1 DEF MInv, TaskInv, EndpointSince
  <2>4. service.status.state \in {"updating", "completed", "paused"} =>
          EndpointSince(service.status.startedAt)'
    BY <1>1, <2>1 DEF MInv, TaskInv, EndpointSince
  <2> QED BY <1>1, <1>4, <1>5, <2>3, <2>4 DEF MInv, TaskInv
<1>7. \A i \in Slots : ~Dirty(i) => ~Dirty(i)' BY <1>1 DEF Dirty, TaskMoves
<1>8. BaseInv'
  <2>1. Creating => Creating' BY <1>1, <1>7 DEF Creating, Waiting
  <2>2. Updating => Updating' BY <1>1 DEF Updating, Waiting, Records
  <2>3. Settling => Settling' BY <1>1 DEF Settling, Held, Latest, Records
  <2> QED BY <1>1, <2>1, <2>2, <2>3 DEF MInv, BaseInv, Records, Latest
<1>9. AttemptInv'
  <2>1. updateRequired(service)' <=> updateRequired(service)
    BY <1>1 DEF updateRequired, SpecsEqual, retryRequired, authPending, authOnlyUpdateSafe,
                Want, Retrying
  <2> QED BY <1>1, <2>1 DEF MInv, AttemptInv, Waiting, Held, Want, Dated
<1>10. TasksInv'
  <2>1. EndpointSince(0)' <=>
          \A i \in Slots : tasks'[i] # NoTask /\ tasks'[i].born >= 0 => tasks'[i].ep = service.spec.ep
    BY <1>1 DEF EndpointSince
  <2>2. EndpointSince(0) => EndpointSince(0)' BY <1>3, <2>1
  <2>3. ASSUME GenMeans(Held.gen) PROVE GenMeans(Held.gen)'
    <3>1. Held' = Held BY <1>1 DEF Held
    <3> PICK g : g = Held.gen OBVIOUS
    <3>2. EndpointSince(g.tasksAfter) => EndpointSince(Held.gen.tasksAfter)'
      BY <1>1, <1>3, <3>1 DEF EndpointSince
    <3> QED BY <1>1, <2>3, <3>1, <3>2 DEF GenMeans
  <2>4. Filled => Filled'
    BY <1>1 DEF Filled, TaskMoves, Scaled
  <2> QED BY <1>1, <2>2, <2>3, <2>4 DEF MInv, TasksInv, Held
<1> QED BY <1>2, <1>6, <1>8, <1>9, <1>10 DEF MInv

\* The status of the update moves on, and a rollback blurs what the receipt says.
StatusMoves ==
    /\ service.exists /\ service'.exists /\ now' = now + 1 /\ service'.updatedAt = now + 1
    /\ past' = past \cup {service} /\ managed' = managed
    /\ \/ /\ service.status = NoStatus /\ (\E i \in Slots : Dirty(i))
          /\ service'.spec = service.spec /\ service'.prev = service.prev
          /\ service'.status.state = "updating" /\ service'.status.startedAt = now + 1
       \/ /\ service.status.state = "updating" /\ service'.status.state \in {"completed", "paused"}
          /\ service'.spec = service.spec /\ service'.prev = service.prev
          /\ service'.status.startedAt = service.status.startedAt
       \/ /\ service.status.state = "rollback_started"
          /\ service'.status.state = "rollback_completed"
          /\ service'.spec = service.spec /\ service'.prev = service.prev
          /\ service'.status.startedAt = service.status.startedAt
       \/ /\ service.status.state = "updating" /\ service'.status.state = "rollback_started"
          /\ service.prev # NoSpec /\ service'.spec = service.prev
          /\ service'.status.startedAt = service.status.startedAt /\ blurred'

LEMMA StatusStepRecords ==
    ASSUME IInv, MInv, StatusMoves
    PROVE  /\ service'.status.state # "none" /\ Latest(service) /\ service.updatedAt = now
           /\ \A r \in Records : Latest(r)' <=> Latest(r)
           /\ Records' = Records \cup {service'}
           /\ RecordInv'
<1> PICK n : n = now + 1 OBVIOUS
<1>1. n \in Nat /\ n > now /\ n # 0 BY RecordTypes
<1>2. /\ now' = n /\ service'.updatedAt = n /\ past' = past \cup {service} /\ service'.exists
      /\ service.exists
  BY DEF StatusMoves
<1>3. service'.status.state # "none" BY DEF StatusMoves
<1>4. service.updatedAt = now BY <1>2 DEF IInv, VersionInv
<1>5. Records' = Records \cup {service'} BY <1>2 DEF Records
<1>6. \A r \in Records : Latest(r)' <=> Latest(r) BY <1>3, <1>5 DEF Latest
<1>7. Latest(service) BY RecordTypes DEF Latest
<1>8. ASSUME NEW r \in past, Latest(r) PROVE Succeeded(r)'
  <2>1. Succeeded(r) BY <1>8 DEF MInv, RecordInv
  <2>2. service.status = NoStatus => service.status.state = "none" BY DEF NoStatus
  <2> QED BY <2>1, <2>2 DEF StatusMoves, Succeeded, Rolled
<1>9. ASSUME NEW r, r = service PROVE Succeeded(r)'
  <2>1. service.status = NoStatus => service.status.state = "none" BY DEF NoStatus
  <2>2. service.status.state \in {"none", "updating"} => r.spec.replicas # 0
    BY <1>9, <2>1 DEF StatusMoves, MInv, TaskInv, Dirty, Scaled
  <2> QED BY <1>2, <1>9, <2>1, <2>2 DEF StatusMoves, Succeeded, Rolled
<1>10. service'.status.startedAt <= n
  BY <1>1, <1>4, RecordTypes DEF StatusMoves, MInv, RecordInv
<1>11. RecordInv'
  <2>1. \A r \in past' : Latest(r)' => Succeeded(r)' BY <1>2, <1>6, <1>8, <1>9 DEF Records
  <2> QED BY <1>1, <1>2, <1>3, <1>5, <1>10, <2>1 DEF MInv, RecordInv
<1> QED BY <1>3, <1>4, <1>5, <1>6, <1>7, <1>11

LEMMA StatusStepKeeps ==
    ASSUME IInv, MInv, StatusMoves, UNCHANGED <<dep, receipt, ctl, auth, tasks>>,
           blurred' \/ blurred' = blurred
    PROVE  MInv'
<1> PICK n : n = now + 1 OBVIOUS
<1>1. n \in Nat /\ n > now /\ now \in Nat BY RecordTypes
<1>2. /\ now' = n /\ service'.updatedAt = n /\ past' = past \cup {service} /\ service'.exists
      /\ service.exists /\ managed' = managed /\ dep' = dep /\ receipt' = receipt /\ ctl' = ctl
      /\ auth' = auth /\ tasks' = tasks
  BY DEF StatusMoves
<1>3. /\ service'.status.state # "none" /\ Latest(service) /\ service.updatedAt = now
      /\ \A r \in Records : Latest(r)' <=> Latest(r)
      /\ Records' = Records \cup {service'} /\ RecordInv'
  BY StatusStepRecords
<1>4. service.status = NoStatus => service.status.state = "none" BY DEF NoStatus
<1>5. ~blurred' => /\ ~blurred /\ service'.spec = service.spec /\ service'.prev = service.prev
                   /\ service'.status.state = "rollback_completed" =>
                         service.status.state = "rollback_started"
                   /\ service'.status.state # "rollback_started"
  BY DEF StatusMoves
<1>6. \A i \in Slots : tasks[i] # NoTask =>
        tasks[i].born <= now /\ Active(tasks[i]) /\ tasks[i].born \in Nat
  BY DEF MInv, TaskInv, IInv, Shape, TaskType
<1>7. TaskInv'
  <2>1. CASE service'.status.state = "updating"
    <3>1. service'.status.startedAt = n /\ service'.spec.replicas # 0
      BY <2>1 DEF StatusMoves, Dirty, Scaled
    <3>2. EndpointSince(service.status.startedAt)' BY <1>1, <1>2, <1>6, <3>1 DEF EndpointSince
    <3>3. \A i \in Slots : tasks[i] # NoTask => tasks[i].born <= n BY <1>1, <1>6
    <3> QED BY <1>2, <1>6, <2>1, <3>1, <3>2, <3>3 DEF TaskInv
  <2>2. CASE service'.status.state \in {"completed", "paused"}
    <3>1. /\ service.status.state = "updating" /\ service'.spec = service.spec
          /\ service'.status.startedAt = service.status.startedAt
      BY <2>2 DEF StatusMoves
    <3>2. service'.spec.replicas # 0 /\ EndpointSince(service.status.startedAt)
      BY <3>1 DEF MInv, TaskInv
    <3>3. EndpointSince(service.status.startedAt)' BY <1>2, <3>1, <3>2 DEF EndpointSince
    <3>4. \A i \in Slots : tasks[i] # NoTask => tasks[i].born <= n BY <1>1, <1>6
    <3> QED BY <1>2, <1>6, <2>2, <3>2, <3>3, <3>4 DEF TaskInv
  <2>3. CASE service'.status.state \in Rolled
    <3>1. \A i \in Slots : tasks[i] # NoTask => tasks[i].born <= n BY <1>1, <1>6
    <3> QED BY <1>2, <1>6, <2>3, <3>1 DEF TaskInv, Rolled
  <2> QED BY <2>1, <2>2, <2>3 DEF StatusMoves, Rolled
<1>8. BaseInv'
  <2> SUFFICES ASSUME ctl.pc \notin {"idle", "baseline"}
               PROVE  /\ ctl.base.updatedAt <= n
                      /\ IF ctl.base.exists THEN Updating' ELSE Creating'
                      /\ ~blurred' => \A r \in Records' :
                            r.updatedAt >= ctl.base.updatedAt /\ Latest(r)' => r.spec = service'.spec
                      /\ Settling'
    BY <1>2 DEF BaseInv
  <2>1. ctl.base.updatedAt \in Nat /\ ctl.base.updatedAt <= now
    BY <1>3 DEF MInv, BaseInv, IInv, Shape, CtlType, ServiceType
  <2>2. ctl.base.updatedAt <= n BY <1>1, <2>1
  <2>3. ~Creating BY <1>2, <1>4 DEF Creating, StatusMoves, NoStatus
  <2>4. ctl.base.exists /\ Updating BY <2>3 DEF MInv, BaseInv
  <2>5. Updating' BY <1>2, <1>3, <2>4 DEF Updating, Waiting
  <2>6. ~blurred' => \A r \in Records' :
            r.updatedAt >= ctl.base.updatedAt /\ Latest(r)' => r.spec = service'.spec
    BY <1>3, <1>5 DEF MInv, BaseInv
  <2>7. Settling'
    <3> SUFFICES ASSUME service'.status.state \in Rolled, ~Held.unresolved, ~ctl.changed,
                        NEW r \in past', Latest(r)', r.updatedAt >= ctl.base.updatedAt,
                        r.status.state # "rollback_started"
                 PROVE  ClassifyVerification(r.prev, r.spec) = "existing"
      BY <1>2 DEF Settling, Held
    <3>1. r \in Records /\ Latest(r) BY <1>2, <1>3 DEF Records
    <3>2. CASE service'.status.state = "rollback_completed"
      <4>1. service.status.state = "rollback_started" BY <3>2 DEF StatusMoves
      <4>2. r \in past BY <1>2, <4>1
      <4> QED BY <3>1, <4>1, <4>2 DEF MInv, BaseInv, Settling, Rolled
    <3>3. CASE service'.status.state = "rollback_started"
      <4>1. service.status.state = "updating" /\ service.prev # NoSpec BY <3>3 DEF StatusMoves
      <4>2. Filled /\ service.spec.replicas # 0 BY <1>2, <4>1 DEF MInv, TasksInv, TaskInv
      <4>3. ClassifyVerification(service.prev, service.spec) = "existing" BY <4>1, <4>2 DEF Filled
      <4>4. r = service \/ (r.spec = service.spec /\ r.prev = service.prev)
        BY <1>2, <3>1, <4>1 DEF MInv, RecordInv, Succeeded, Rolled
      <4> QED BY <4>3, <4>4
    <3> QED BY <3>2, <3>3 DEF Rolled
  <2> QED BY <2>2, <2>4, <2>5, <2>6, <2>7
<1>9. AttemptInv'
  <2>1. ~blurred' /\ updateRequired(service) => updateRequired(service)'
    BY <1>2, <1>4, <1>5 DEF updateRequired, SpecsEqual, retryRequired, authPending,
         authOnlyUpdateSafe, Want, Retrying, StatusMoves, FailedStates
  <2> QED BY <1>2, <1>5, <2>1 DEF MInv, AttemptInv, Waiting, Held, Want, Dated
<1>10. TasksInv'
  <2>1. Held' = Held BY <1>2 DEF Held
  <2>2. ASSUME ~blurred' PROVE IF Held.gen.on THEN GenMeans(Held.gen)' ELSE EndpointSince(0)'
    <3>1. CASE ~Held.gen.on
      <4>1. EndpointSince(0) BY <1>5, <2>2, <3>1 DEF MInv, TasksInv
      <4> QED BY <1>2, <1>5, <2>2, <3>1, <4>1 DEF EndpointSince
    <3>2. CASE Held.gen.on
      <4> PICK g : g = Held.gen OBVIOUS
      <4>1. GenMeans(g) BY <1>5, <2>2, <3>2 DEF MInv, TasksInv
      <4>2. g.after \in Nat BY DEF Held, IInv, Shape, CtlType, ReceiptType, GenType
      <4>3. g.after < now /\ g.after < n BY <1>1, <1>3, <4>1, <4>2 DEF GenMeans
      <4>4. service'.status.startedAt > g.after
        BY <1>4, <2>2, <4>1, <4>2, <4>3 DEF GenMeans, StatusMoves, Rolled
      <4>5. service'.status.state \notin Rolled BY <1>5, <2>2, <4>1 DEF GenMeans, Rolled
      <4>6. EndpointSince(g.tasksAfter) => EndpointSince(Held.gen.tasksAfter)'
        BY <1>2, <1>5, <2>1, <2>2 DEF EndpointSince
      <4> QED BY <1>2, <1>5, <2>1, <2>2, <3>2, <4>1, <4>3, <4>4, <4>5, <4>6 DEF GenMeans
    <3> QED BY <3>1, <3>2
  <2>3. ASSUME Filled PROVE Filled'
    <3>1. CASE service'.spec = service.spec /\ service'.prev = service.prev
      BY <1>2, <1>4, <2>3, <3>1 DEF Filled, StatusMoves
    <3>2. CASE /\ service.status.state = "updating" /\ service'.status.state = "rollback_started"
               /\ service.prev # NoSpec /\ service'.spec = service.prev
      <4>1. service.spec.replicas # 0 BY <3>2 DEF MInv, TaskInv
      <4>2. service.prev.tmpl = service.spec.tmpl
        BY <2>3, <3>2, <4>1 DEF Filled, ClassifyVerification, SameTemplate
      <4> QED BY <1>2, <2>3, <3>2, <4>1, <4>2 DEF Filled, Scaled
    <3> QED BY <3>1, <3>2 DEF StatusMoves
  <2> QED BY <1>2, <2>1, <2>2, <2>3 DEF MInv, TasksInv
<1> QED BY <1>3, <1>7, <1>8, <1>9, <1>10 DEF MInv

\* A step that ends no attempt and rolls nothing back leaves the history as it is.
LEMMA BlurKept ==
    ASSUME History, blurred \in BOOLEAN, dep'.status # "succeeded" \/ dep' = dep
    PROVE  /\ blurred' \in BOOLEAN /\ (~blurred' => ~blurred)
           /\ service' # service /\ service'.status.state = "rollback_started" => blurred'
           /\ ctl.pc = "write" /\ ctl'.pc = "idle" /\ service' = service
                /\ receipt'.gen = ctl.gen => blurred'
           /\ /\ ctl.pc # "write" \/ ctl'.pc # "idle" \/ service' # service
              /\ service' = service \/ service'.status.state # "rollback_started"
              => blurred' = blurred
<1>1. ~Succeeds BY DEF Succeeds
<1> QED BY <1>1 DEF History

\* The stored record is s but for its version.
LEMMA StoredRecord ==
    ASSUME IInv, NEW s \in ServiceType, Store(s)
    PROVE  /\ service'.exists /\ now' = now + 1 /\ service'.updatedAt = now + 1
           /\ past' = past \cup {service} /\ managed' = managed
           /\ service'.spec = s.spec /\ service'.prev = s.prev /\ service'.status = s.status
           /\ service' # service
<1> PICK n : n = now + 1 OBVIOUS
<1>1. n \in Nat BY RecordTypes
<1>2. /\ service'.exists /\ service'.updatedAt = now + 1 /\ past' = past \cup {service}
      /\ managed' = managed /\ service'.spec = s.spec /\ service'.status = s.status
      /\ service.updatedAt <= now
  BY StoreFacts DEF IInv
<1>3. now' = now + 1 /\ service' = [s EXCEPT !.exists = TRUE, !.updatedAt = n] BY DEF Store
<1>4. service'.prev = s.prev BY <1>1, <1>3 DEF ServiceType
<1>5. service' # service BY <1>2, RecordTypes
<1> QED BY <1>2, <1>3, <1>4, <1>5

LEMMA OrchestratorManaged ==
    ASSUME IInv, RInv, managed, Orchestrator, UNCHANGED rolloutVars, History
    PROVE  MInv'
<1>1. /\ dep' = dep /\ receipt' = receipt /\ ctl' = ctl /\ auth' = auth /\ service.exists
  BY DEF rolloutVars, Orchestrator
<1>2. MInv /\ blurred \in BOOLEAN BY DEF RInv
<1>3. /\ service' = service \/ service'.status.state # "rollback_started" => blurred' = blurred
      /\ service' # service /\ service'.status.state = "rollback_started" => blurred'
      /\ blurred' \/ blurred' = blurred
  BY <1>1, <1>2, BlurKept
<1>4. /\ service.spec \in Specification /\ service.prev \in Specification
      /\ service.status \in StatusType /\ service \in ServiceType /\ now \in Nat
  BY RecordTypes
<1>5. CASE StartUpdate
  <2> PICK st : st = [state |-> "updating", startedAt |-> now + 1] OBVIOUS
  <2>1. st \in StatusType /\ st.state = "updating" /\ st.startedAt = now + 1
    BY <1>4 DEF StatusType
  <2> PICK s : s = [service EXCEPT !.status = st] OBVIOUS
  <2>2. s \in ServiceType /\ s.spec = service.spec /\ s.prev = service.prev /\ s.status = st
    BY <1>4, <2>1 DEF ServiceType
  <2>3. /\ service.status = NoStatus /\ (\E i \in Slots : Dirty(i)) /\ tasks' = tasks
        /\ Store(s)
    BY <1>5 DEF StartUpdate
  <2>4. /\ service'.exists /\ now' = now + 1 /\ service'.updatedAt = now + 1
        /\ past' = past \cup {service} /\ managed' = managed
        /\ service'.spec = service.spec /\ service'.prev = service.prev /\ service'.status = st
    BY <2>2, <2>3, StoredRecord
  <2>5. StatusMoves BY <1>1, <2>1, <2>3, <2>4 DEF StatusMoves
  <2> QED BY <1>1, <1>2, <1>3, <2>3, <2>5, StatusStepKeeps
<1>6. CASE FinishUpdate
  <2> PICK state : state = IF service.status.state = "updating" THEN "completed"
                           ELSE "rollback_completed"
    OBVIOUS
  <2> PICK st : st = [service.status EXCEPT !.state = state] OBVIOUS
  <2>1. state \in {"none", "updating", "completed"} \cup FailedStates BY DEF FailedStates
  <2>2. st \in StatusType /\ st.state = state /\ st.startedAt = service.status.startedAt
    BY <1>4, <2>1 DEF StatusType
  <2> PICK s : s = [service EXCEPT !.status.state = state] OBVIOUS
  <2>3. s \in ServiceType /\ s.spec = service.spec /\ s.prev = service.prev /\ s.status = st
    BY <1>4, <2>2 DEF ServiceType
  <2>4. /\ Store(s) /\ tasks' = tasks
        /\ service.status.state \in {"updating", "rollback_started"}
    BY <1>6 DEF FinishUpdate
  <2>5. /\ service'.exists /\ now' = now + 1 /\ service'.updatedAt = now + 1
        /\ past' = past \cup {service} /\ managed' = managed
        /\ service'.spec = service.spec /\ service'.prev = service.prev /\ service'.status = st
    BY <2>3, <2>4, StoredRecord
  <2>6. StatusMoves BY <1>1, <2>2, <2>4, <2>5 DEF StatusMoves
  <2> QED BY <1>1, <1>2, <1>3, <2>4, <2>6, StatusStepKeeps
<1>7. ASSUME NEW i \in Slots, UpdateFails(i) PROVE MInv'
  <2>1. service.status.state = "updating" /\ tasks' = tasks BY <1>7 DEF UpdateFails
  <2>2. CASE Store([service EXCEPT !.status.state = "paused"])
    <3> PICK st : st = [service.status EXCEPT !.state = "paused"] OBVIOUS
    <3>1. st \in StatusType /\ st.state = "paused" /\ st.startedAt = service.status.startedAt
      BY <1>4 DEF StatusType, FailedStates
    <3> PICK s : s = [service EXCEPT !.status.state = "paused"] OBVIOUS
    <3>2. /\ s \in ServiceType /\ s.spec = service.spec /\ s.prev = service.prev
          /\ s.status = st /\ Store(s)
      BY <1>4, <2>2, <3>1 DEF ServiceType
    <3>3. /\ service'.exists /\ now' = now + 1 /\ service'.updatedAt = now + 1
          /\ past' = past \cup {service} /\ managed' = managed
          /\ service'.spec = service.spec /\ service'.prev = service.prev /\ service'.status = st
      BY <3>2, StoredRecord
    <3>4. StatusMoves BY <1>1, <2>1, <3>1, <3>3 DEF StatusMoves
    <3> QED BY <1>1, <1>2, <1>3, <2>1, <3>4, StatusStepKeeps
  <2>3. CASE /\ service.prev # NoSpec
             /\ Store([service EXCEPT !.spec = service.prev, !.prev = NoSpec,
                                      !.status.state = "rollback_started"])
    <3> PICK st : st = [service.status EXCEPT !.state = "rollback_started"] OBVIOUS
    <3>1. /\ st \in StatusType /\ st.state = "rollback_started"
          /\ st.startedAt = service.status.startedAt
      BY <1>4 DEF StatusType, FailedStates
    <3> PICK s : s = [service EXCEPT !.spec = service.prev, !.prev = NoSpec,
                                     !.status.state = "rollback_started"]
      OBVIOUS
    <3>2. s \in ServiceType /\ s.spec = service.prev /\ s.status = st /\ Store(s)
      BY <1>4, <2>3, <3>1, EmptyTypes DEF ServiceType
    <3>3. /\ service'.exists /\ now' = now + 1 /\ service'.updatedAt = now + 1
          /\ past' = past \cup {service} /\ managed' = managed
          /\ service'.spec = service.prev /\ service'.status = st /\ service' # service
      BY <3>2, StoredRecord
    <3>4. blurred' BY <1>3, <3>1, <3>3
    <3>5. StatusMoves BY <1>1, <2>1, <2>3, <3>1, <3>3, <3>4 DEF StatusMoves
    <3> QED BY <1>1, <1>2, <1>3, <2>1, <3>5, StatusStepKeeps
  <2> QED BY <1>7, <2>2, <2>3 DEF UpdateFails
<1>8. ASSUME NEW i \in Slots, NEW t, tasks' = [tasks EXCEPT ![i] = t], Keep,
             \/ t = NoTask /\ i \notin Scaled(service.spec)
             \/ t = NewTask /\ (tasks[i] # NoTask \/ i \in Scaled(service.spec))
             \/ /\ tasks[i] # NoTask /\ t # NoTask /\ Active(t)
                /\ t.tmpl = tasks[i].tmpl /\ t.ep = tasks[i].ep
                /\ t.force = tasks[i].force /\ t.born = tasks[i].born
      PROVE  MInv'
  <2>1. tasks \in [Slots -> TaskType] BY DEF IInv, Shape
  <2>2. \A j \in Slots : tasks'[j] = IF j = i THEN t ELSE tasks[j] BY <1>8, <2>1
  <2>3. /\ NewTask # NoTask /\ NewTask.tmpl = service.spec.tmpl /\ NewTask.ep = service.spec.ep
        /\ NewTask.force = service.spec.force /\ NewTask.born = now /\ Active(NewTask)
    BY NewTaskFacts DEF IInv, NewTask, Active
  <2>4. \A j \in Slots : TaskMoves(j)
    <3> SUFFICES ASSUME NEW j \in Slots PROVE TaskMoves(j) OBVIOUS
    <3>1. CASE j # i BY <2>2, <3>1 DEF TaskMoves
    <3>2. CASE j = i BY <1>8, <2>2, <2>3, <3>2 DEF TaskMoves
    <3> QED BY <3>1, <3>2
  <2>5. service' = service BY <1>8 DEF Keep
  <2> QED BY <1>1, <1>2, <1>3, <1>8, <2>4, <2>5, TaskStepKeeps
<1>9. ASSUME NEW i \in Slots,
             FillSlot(i) \/ RemoveTask(i) \/ ReplaceTask(i) \/ TaskRuns(i) \/ TaskEnds(i)
      PROVE  MInv'
  <2>1. tasks \in [Slots -> TaskType] /\ tasks[i] \in TaskType /\ NoTask.state = "none"
    BY DEF IInv, Shape, NoTask
  <2>2. CASE FillSlot(i) \/ ReplaceTask(i)
    BY <1>8, <2>2 DEF FillSlot, ReplaceTask, Spawn, Dirty
  <2>3. CASE RemoveTask(i) BY <1>8, <2>3 DEF RemoveTask
  <2>4. CASE TaskRuns(i)
    <3> PICK t : t = [tasks[i] EXCEPT !.state = "running"] OBVIOUS
    <3>1. /\ t.tmpl = tasks[i].tmpl /\ t.ep = tasks[i].ep /\ t.force = tasks[i].force
          /\ t.born = tasks[i].born /\ t.state = "running"
      BY <2>1 DEF TaskType
    <3>2. tasks' = [tasks EXCEPT ![i] = t] /\ Keep /\ tasks[i].state = "starting"
      BY <2>1, <2>4 DEF TaskRuns
    <3>3. tasks[i] # NoTask /\ t # NoTask /\ Active(t) BY <2>1, <3>1, <3>2 DEF Active
    <3> QED BY <1>8, <3>1, <3>2, <3>3
  <2>5. CASE TaskEnds(i) BY <1>8, <2>1, <2>5 DEF TaskEnds
  <2> QED BY <1>9, <2>2, <2>3, <2>4, <2>5
<1> QED BY <1>5, <1>6, <1>7, <1>9 DEF Orchestrator

-----------------------------------------------------------------------------
(* Writes of clients to a managed service.                                 *)

\* The record is new, and no older one is the latest of a client.
ClientWrites ==
    /\ service'.exists /\ now' = now + 1 /\ service'.updatedAt = now + 1
    /\ past' = past \cup {service} /\ managed' = managed /\ service'.status = NoStatus
    /\ tasks' = tasks

LEMMA ClientWrote ==
    ASSUME IInv, MInv, ClientWrites
    PROVE  /\ service'.status.state = "none"
           /\ \A r \in Records' : Latest(r)' => r = service'
           /\ RecordInv' /\ TaskInv'
<1> PICK n : n = now + 1 OBVIOUS
<1>1. n \in Nat /\ n > now /\ n # 0 /\ now \in Nat BY RecordTypes
<1>2. /\ now' = n /\ service'.updatedAt = n /\ past' = past \cup {service} /\ service'.exists
      /\ service'.status = NoStatus /\ tasks' = tasks
  BY DEF ClientWrites
<1>3. service'.status.state = "none" BY <1>2 DEF NoStatus
<1>4. \A r \in Records : r.updatedAt \in Nat /\ r.updatedAt <= now
  <2>1. service.updatedAt \in Nat /\ service.updatedAt <= now
    BY <1>1, RecordTypes DEF IInv, VersionInv
  <2> QED BY <1>1, <2>1, RecordTypes
<1>5. \A r \in past' : ~Latest(r)' BY <1>1, <1>2, <1>3, <1>4 DEF Latest, Records
<1>6. RecordInv' BY <1>1, <1>2, <1>3, <1>5 DEF MInv, RecordInv, Records
<1>7. \A i \in Slots : tasks[i] # NoTask => tasks[i].born <= now /\ tasks[i].born \in Nat
  BY DEF MInv, TaskInv, IInv, Shape, TaskType
<1>8. \A i \in Slots : tasks[i] # NoTask => tasks[i].born <= n /\ ~(tasks[i].born >= n)
  BY <1>1, <1>7
<1>9. EndpointSince(service.updatedAt)' BY <1>2, <1>8 DEF EndpointSince
<1>10. TaskInv' BY <1>2, <1>3, <1>8, <1>9 DEF MInv, TaskInv
<1> QED BY <1>3, <1>5, <1>6, <1>10 DEF Records

\* An accepted update is a client's write.
LEMMA AcceptedUpdate ==
    ASSUME IInv, NEW spec \in Specification, AcceptUpdate(spec), tasks' = tasks
    PROVE  /\ ClientWrites /\ service'.spec = spec /\ service'.prev = service.spec
           /\ service' # service
<1> PICK s : s = [service EXCEPT !.spec = spec, !.prev = service.spec, !.status = NoStatus] OBVIOUS
<1>1. service \in ServiceType /\ service.spec \in Specification BY RecordTypes
<1>2. /\ s \in ServiceType /\ s.spec = spec /\ s.prev = service.spec /\ s.status = NoStatus
  BY <1>1, EmptyTypes DEF ServiceType
<1>3. Store(s) BY DEF AcceptUpdate
<1> QED BY <1>2, <1>3, StoredRecord DEF ClientWrites

LEMMA RefreshRegistryAuthManaged ==
    ASSUME IInv, RInv, managed, RefreshRegistryAuth, History
    PROVE  MInv'
<1>1. /\ AcceptUpdate(service.spec) /\ tasks' = tasks /\ dep' = dep /\ receipt' = receipt
      /\ ctl' = ctl /\ ctl.pc = "idle" /\ dep.status = "succeeded" /\ service.exists
  BY DEF RefreshRegistryAuth
<1>2. MInv /\ blurred \in BOOLEAN BY DEF RInv
<1>3. /\ ClientWrites /\ service'.spec = service.spec /\ service'.prev = service.spec
      /\ service' # service
  BY <1>1, RecordTypes, AcceptedUpdate
<1>4. service'.status.state = "none" /\ RecordInv' /\ TaskInv' BY <1>2, <1>3, ClientWrote
<1>5. blurred' = blurred BY <1>1, <1>2, <1>3, <1>4, BlurKept
<1>6. BaseInv' BY <1>1 DEF BaseInv
<1>7. AttemptInv'
  BY <1>1, <1>2, <1>3 DEF MInv, AttemptInv, Waiting, Held, Dated, ClientWrites
<1>8. ~receipt.unresolved /\ ~receipt.gen.on
  BY <1>1, <1>2 DEF MInv, AttemptInv, IInv, ReceiptInv
<1>9. EndpointSince(0) => EndpointSince(0)' BY <1>1, <1>3 DEF EndpointSince
<1>10. Filled => Filled'
  <2>1. ClassifyVerification(service.spec, service.spec) = "existing"
    BY DEF ClassifyVerification, SameTemplate
  <2> QED BY <1>1, <1>3, <2>1 DEF Filled
<1>11. TasksInv'
  BY <1>1, <1>2, <1>5, <1>8, <1>9, <1>10 DEF MInv, TasksInv, Held
<1> QED BY <1>4, <1>6, <1>7, <1>11 DEF MInv

\* The created service has no tasks, no predecessor and no earlier records.
LEMMA inspectOrCreateManaged ==
    ASSUME IInv, RInv, managed, inspectOrCreate, History
    PROVE  MInv'
<1> PICK gen : gen = [NoGen EXCEPT !.on = TRUE, !.before = service'.spec] OBVIOUS
<1>1. /\ ctl.pc = "apply" /\ ~service.exists /\ tasks' = tasks /\ dep' = dep
      /\ receipt' = receipt /\ ctl' = [ctl EXCEPT !.pc = "poll", !.changed = TRUE, !.gen = gen]
  BY DEF inspectOrCreate
<1>2. MInv /\ blurred \in BOOLEAN BY DEF RInv
<1>3. /\ ClientWrites /\ service'.prev = NoSpec /\ service' # service
  <2> PICK spec : spec = [Want EXCEPT !.replicas = IF managed THEN @ ELSE 0] OBVIOUS
  <2> PICK n : n = now + 1 OBVIOUS
  <2> PICK s : s = [NoService EXCEPT !.spec = spec, !.createdAt = n] OBVIOUS
  <2>1. Want \in Specification BY DEF IInv, Shape, DepType, Want
  <2>2. spec \in Specification /\ n \in Nat BY <2>1, RecordTypes DEF Specification
  <2>3. s \in ServiceType /\ s.prev = NoSpec /\ s.status = NoStatus
    <3>1. NoService.prev = NoSpec /\ NoService.status = NoStatus BY DEF NoService
    <3> QED BY <2>2, <3>1, EmptyTypes DEF ServiceType
  <2>4. Store(s) BY DEF inspectOrCreate, AcceptCreate
  <2> QED BY <1>1, <2>3, <2>4, StoredRecord DEF ClientWrites
<1>4. /\ service'.status.state = "none" /\ RecordInv' /\ TaskInv'
      /\ \A r \in Records' : Latest(r)' => r = service'
  BY <1>2, <1>3, ClientWrote
<1>5. /\ ctl \in CtlType /\ gen.on /\ gen.after = 0
  BY DEF IInv, Shape, NoGen
<1>6. /\ ctl'.pc = "poll" /\ ctl'.changed /\ ctl'.gen = gen /\ ctl'.base = ctl.base
      /\ ctl'.inherited = ctl.inherited
  BY <1>1, <1>5 DEF CtlType
<1>7. blurred' = blurred BY <1>1, <1>2, <1>3, <1>4, <1>6, BlurKept
<1>8. past = {} /\ service.updatedAt = 0
  BY <1>1, RecordTypes DEF IInv, VersionInv, Records
<1>9. Creating /\ ~ctl.base.exists
  <2>1. ctl.base.exists => ctl.base = service BY <1>1, <1>2, <1>8 DEF MInv, BaseInv, Updating, Records
  <2> QED BY <1>1, <1>2, <2>1 DEF MInv, BaseInv
<1>10. ctl.base = NoService /\ ~receipt.gen.on /\ \A i \in Slots : tasks[i] = NoTask
  BY <1>1, <1>2, <1>9 DEF Creating, MInv, TaskInv
<1>11. BaseInv'
  <2>1. Creating'
    <3>1. past' = {service} /\ ~service.exists BY <1>1, <1>3, <1>8 DEF ClientWrites
    <3>2. \A i \in Slots : ~Dirty(i)' BY <1>1, <1>10 DEF Dirty
    <3>3. service'.exists /\ service'.status = NoStatus BY <1>3 DEF ClientWrites
    <3> QED BY <1>1, <1>3, <1>5, <1>6, <1>10, <3>1, <3>2, <3>3 DEF Creating, Waiting
  <2>2. ctl'.base.updatedAt = 0 /\ ~ctl'.base.exists BY <1>6, <1>10 DEF NoService
  <2>3. service'.updatedAt >= 0 BY <1>3, RecordTypes DEF ClientWrites
  <2>4. Settling' BY <1>4, <1>6 DEF Settling
  <2> QED BY <1>4, <2>1, <2>2, <2>3, <2>4 DEF BaseInv
<1>12. AttemptInv'
  <2>1. service'.exists BY <1>3 DEF ClientWrites
  <2>2. ~ctl'.base.exists BY <1>6, <1>9
  <2> QED BY <1>1, <1>2, <1>5, <1>6, <1>10, <2>1, <2>2
     DEF MInv, AttemptInv, Waiting, Held, Dated, Want
<1>13. TasksInv' BY <1>1, <1>6, <1>10 DEF TasksInv, Held, EndpointSince
<1> QED BY <1>4, <1>11, <1>12, <1>13 DEF MInv

\* How a generation is resolved: it stays dated, or all its tasks are to be new, or none.
LEMMA ResolveCases ==
    ASSUME NEW g \in GenType, NEW prev \in Specification, NEW spec \in Specification
    PROVE  LET r == Resolve(g, prev, spec)
               same == g.before = prev /\ ClassifyVerification(prev, spec) = "existing"
           IN /\ r.on = g.on /\ r.after = g.after
              /\ \/ r.mode = "new" /\ r.tasksAfter = 0
                 \/ prev # NoSpec /\ same /\ g.tasksAfter = 0 /\ r.mode = "existing" /\ r.tasksAfter = 0
                 \/ prev # NoSpec /\ same /\ g.tasksAfter # 0 /\ r = g
<1> PICK mode : mode = ClassifyVerification(prev, spec) OBVIOUS
<1> PICK r : r = Resolve(g, prev, spec) OBVIOUS
<1>1. mode \in {"existing", "new"} BY DEF ClassifyVerification
<1>2. r.on = g.on /\ r.after = g.after BY ResolveFacts
<1>3. CASE prev = NoSpec \/ g.before # prev \/ mode = "new"
  <2>1. r = [g EXCEPT !.mode = "new", !.tasksAfter = 0] BY <1>3 DEF Resolve
  <2> PICK zero : zero = 0 OBVIOUS
  <2> PICK h : h = [g EXCEPT !.mode = "new"] OBVIOUS
  <2>2. h \in GenType /\ h.mode = "new" BY DEF GenType
  <2>3. r = [h EXCEPT !.tasksAfter = zero] BY <2>1
  <2>4. r.mode = "new" /\ r.tasksAfter = zero BY <2>2, <2>3 DEF GenType
  <2> QED BY <1>2, <2>4
<1>4. CASE ~(prev = NoSpec \/ g.before # prev \/ mode = "new")
  <2>1. mode = "existing" BY <1>1, <1>4
  <2>2. CASE g.tasksAfter = 0
    <3>1. r = [g EXCEPT !.mode = mode] BY <1>4, <2>2 DEF Resolve
    <3>2. r.mode = mode /\ r.tasksAfter = g.tasksAfter BY <3>1 DEF GenType
    <3> QED BY <1>2, <1>4, <2>1, <2>2, <3>2
  <2>3. CASE g.tasksAfter # 0
    <3>1. r = g BY <1>4, <2>3 DEF Resolve
    <3> QED BY <1>2, <1>4, <2>1, <2>3, <3>1
  <2> QED BY <2>2, <2>3
<1> QED BY <1>3, <1>4

\* What the recorded generation says of the tasks, from what the earlier one does.
LEMMA GenerationCases ==
    ASSUME NEW spec \in Specification, NEW s \in ServiceType, NEW g \in GenType
    PROVE  LET new == updateGeneration(spec, s, g)
               p == Resolve(g, s.prev, s.spec)
               boundary == IF s.status.startedAt > p.after THEN s.status.startedAt ELSE s.updatedAt
           IN /\ new.on /\ new.after = s.updatedAt /\ new.before = s.spec
              /\ \/ (~g.on \/ p.mode # "new") /\ new.tasksAfter = 0
                 \/ /\ g.on /\ p.mode = "new" /\ new.mode = "new"
                    /\ new.tasksAfter = IF p.tasksAfter = 0 /\ s.updatedAt > p.after
                                          THEN boundary ELSE p.tasksAfter
<1>1. /\ s.spec \in Specification /\ s.prev \in Specification /\ s.updatedAt \in Nat
      /\ s.status.startedAt \in Nat /\ spec.force \in Nat
  BY DEF ServiceType, StatusType, Specification
<1>2. \A x, y : ClassifyVerification(x, y) \in {"existing", "new"} BY DEF ClassifyVerification
<1> DEFINE own == [on |-> TRUE, force |-> spec.force, after |-> s.updatedAt,
                   mode |-> ClassifyVerification(s.spec, spec), before |-> s.spec,
                   tasksAfter |-> 0]
           p == Resolve(g, s.prev, s.spec)
           boundary == IF s.status.startedAt > p.after THEN s.status.startedAt ELSE s.updatedAt
           tasksAfter == IF p.tasksAfter = 0 /\ s.updatedAt > p.after
                           THEN boundary ELSE p.tasksAfter
           new == updateGeneration(spec, s, g)
<1>3. /\ own \in GenType /\ own.on /\ own.after = s.updatedAt /\ own.before = s.spec
      /\ own.tasksAfter = 0
  BY <1>1, <1>2 DEF GenType
<1>4. CASE ~g.on \/ p.mode # "new"
  <2>1. new = own BY <1>4 DEF updateGeneration
  <2> HIDE DEF own, p, new
  <2>2. new.on /\ new.after = s.updatedAt /\ new.before = s.spec /\ new.tasksAfter = 0 BY <1>3, <2>1
  <2> QED BY <1>4, <2>2 DEF new, p
<1>5. CASE g.on /\ p.mode = "new"
  <2> PICK k : k = tasksAfter OBVIOUS
  <2>1. new = [own EXCEPT !.mode = "new", !.tasksAfter = k] BY <1>5 DEF updateGeneration
  <2>2. /\ new.on /\ new.after = s.updatedAt /\ new.before = s.spec /\ new.mode = "new"
        /\ new.tasksAfter = k
    <3> HIDE DEF own, new, tasksAfter
    <3> QED BY <1>3, <2>1 DEF GenType
  <2> HIDE DEF own, new
  <2> QED BY <1>5, <2>2 DEF new
<1> QED BY <1>4, <1>5

\* The tasks that the recorded generation takes for new have the endpoint of the
\* specification that the write replaces.
LEMMA GenerationSound ==
    ASSUME IInv, MInv, service.exists, NEW spec \in Specification, NEW g \in GenType,
           Dated(g), IF g.on THEN GenMeans(g) ELSE EndpointSince(0)
    PROVE  LET new == updateGeneration(spec, service, g)
           IN new.tasksAfter <= service.updatedAt /\ EndpointSince(new.tasksAfter)
<1> DEFINE new == updateGeneration(spec, service, g)
           p == Resolve(g, service.prev, service.spec)
           boundary == IF service.status.startedAt > p.after THEN service.status.startedAt
                       ELSE service.updatedAt
           same == g.before = service.prev
                     /\ ClassifyVerification(service.prev, service.spec) = "existing"
<1>1. /\ service \in ServiceType /\ service.prev \in Specification /\ service.updatedAt \in Nat
      /\ service.spec \in Specification /\ service.status.startedAt \in Nat
      /\ service.status \in StatusType
  BY RecordTypes
<1>2. \/ (~g.on \/ p.mode # "new") /\ new.tasksAfter = 0
      \/ /\ g.on /\ p.mode = "new"
         /\ new.tasksAfter = IF p.tasksAfter = 0 /\ service.updatedAt > p.after
                               THEN boundary ELSE p.tasksAfter
  BY <1>1, GenerationCases
<1>3. /\ p.after = g.after
      /\ \/ p.mode = "new" /\ p.tasksAfter = 0
         \/ same /\ g.tasksAfter = 0 /\ p.mode = "existing" /\ p.tasksAfter = 0
         \/ same /\ g.tasksAfter # 0 /\ p = g
  BY <1>1, ResolveCases
<1>4. g.after \in Nat /\ g.tasksAfter \in Nat BY DEF GenType
<1>5. g.on => /\ g.after < service.updatedAt /\ g.tasksAfter <= g.after
              /\ service.status.state # "none" => service.status.startedAt > g.after
              /\ service.status.state \notin Rolled
              /\ same => EndpointSince(g.tasksAfter)
              /\ g.tasksAfter # 0 => g.mode = "new"
  BY DEF GenMeans, Dated
<1> HIDE DEF new, p, same
<1>6. CASE ~g.on
  <2>1. new.tasksAfter = 0 /\ EndpointSince(0) BY <1>2, <1>6
  <2> QED BY <1>1, <2>1 DEF new
<1>7. CASE g.on /\ p.mode # "new"
  <2>1. new.tasksAfter = 0 /\ same /\ g.tasksAfter = 0 BY <1>2, <1>3, <1>5, <1>7
  <2>2. EndpointSince(g.tasksAfter) BY <1>5, <1>7, <2>1
  <2>3. EndpointSince(new.tasksAfter) BY <2>1, <2>2
  <2> QED BY <1>1, <2>1, <2>3 DEF new
<1>8. CASE g.on /\ p.mode = "new" /\ p.tasksAfter # 0
  <2>1. same /\ p = g /\ new.tasksAfter = g.tasksAfter BY <1>2, <1>3, <1>8
  <2>2. EndpointSince(g.tasksAfter) BY <1>5, <1>8, <2>1
  <2>3. EndpointSince(new.tasksAfter) BY <2>1, <2>2
  <2>4. new.tasksAfter <= service.updatedAt BY <1>1, <1>4, <1>5, <1>8, <2>1
  <2> QED BY <2>3, <2>4 DEF new
<1>9. CASE g.on /\ p.mode = "new" /\ p.tasksAfter = 0
  <2>1. new.tasksAfter = boundary BY <1>1, <1>2, <1>3, <1>4, <1>5, <1>9
  <2>2. CASE service.status.startedAt > p.after
    <3>1. new.tasksAfter = service.status.startedAt BY <2>1, <2>2
    <3>2. service.status.state # "none"
      <4>1. service.status.state = "none" => service.status.startedAt = 0
        BY DEF MInv, RecordInv, Records, NoStatus
      <4> QED BY <1>1, <1>3, <1>4, <2>2, <4>1
    <3>3. service.status.state \in {"updating", "completed", "paused"}
      BY <1>1, <1>5, <1>9, <3>2 DEF StatusType, FailedStates, Rolled
    <3>4. EndpointSince(service.status.startedAt) BY <3>3 DEF MInv, TaskInv
    <3>5. service.status.startedAt <= service.updatedAt BY <3>2 DEF MInv, RecordInv
    <3>6. EndpointSince(new.tasksAfter) BY <3>1, <3>4
    <3> QED BY <3>1, <3>5, <3>6 DEF new
  <2>3. CASE ~(service.status.startedAt > p.after)
    <3>1. new.tasksAfter = service.updatedAt BY <2>1, <2>3
    <3>2. service.status.state = "none" BY <1>3, <1>5, <1>9, <2>3
    <3>3. EndpointSince(service.updatedAt) BY <3>2 DEF MInv, TaskInv
    <3>4. EndpointSince(new.tasksAfter) BY <3>1, <3>3
    <3> QED BY <1>1, <3>1, <3>4 DEF new
  <2> QED BY <2>2, <2>3
<1> QED BY <1>6, <1>7, <1>8, <1>9

\* The accepted update is what the recorded generation awaits.
LEMMA UpdateAcceptedManaged ==
    ASSUME IInv, IInv', RInv, managed, UpdateAccepted, History
    PROVE  MInv'
<1> PICK spec : spec = ctl.applied OBVIOUS
<1>1. /\ ctl.pc = "write" /\ VersionMatches(ctl.cur) /\ AcceptUpdate(spec) /\ tasks' = tasks
      /\ receipt' = receipt
  BY DEF UpdateAccepted
<1>2. MInv /\ blurred \in BOOLEAN BY DEF RInv
<1>3. /\ ctl \in CtlType /\ spec \in Specification /\ ctl.saved.gen \in GenType
      /\ dep \in DepType
  BY DEF IInv, Shape, CtlType, ReceiptType
<1>4. ctl.cur = service /\ service.exists BY <1>1 DEF IInv, ReadInv
<1>5. service.updatedAt = now /\ now \in Nat /\ now # 0
  BY <1>2, <1>4, RecordTypes DEF IInv, VersionInv, MInv, RecordInv
<1>6. /\ ClientWrites /\ service'.spec = spec /\ service'.prev = service.spec
      /\ service' # service
  BY <1>1, <1>3, AcceptedUpdate
<1>7. /\ service'.status.state = "none" /\ RecordInv' /\ TaskInv'
      /\ \A r \in Records' : Latest(r)' => r = service'
  BY <1>2, <1>6, ClientWrote
<1>8. /\ service'.exists /\ service'.updatedAt = now + 1 /\ past' = past \cup {service}
      /\ Records' = Records \cup {service'}
  BY <1>6 DEF ClientWrites, Records
<1>9. \/ /\ dep' = dep /\ ctl' = [ctl EXCEPT !.pc = "poll", !.changed = TRUE]
      \/ dep' = [dep EXCEPT !.status = "failed"] /\ ctl' = Idle
  BY DEF UpdateAccepted
<1>10. \/ /\ dep' = dep /\ ctl'.pc = "poll" /\ ctl'.changed /\ ctl'.gen = ctl.gen
          /\ ctl'.base = ctl.base /\ ctl'.inherited = ctl.inherited
       \/ dep'.status = "failed" /\ ctl'.pc = "idle" /\ ~ctl'.changed
  <2>1. Idle.pc = "idle" /\ ~Idle.changed BY DEF Idle
  <2> QED BY <1>3, <1>9, <2>1 DEF CtlType, DepType
<1>11. blurred' = blurred
  <2>1. dep'.status # "succeeded" \/ dep' = dep BY <1>10
  <2> QED BY <1>2, <1>6, <1>7, <2>1, BlurKept
<1>12. /\ ctl.gen.on /\ ctl.gen.after = now /\ receipt.gen = ctl.gen /\ receipt.unresolved
       /\ ctl.gen = updateGeneration(spec, service, ctl.saved.gen) /\ Dated(receipt.gen)
  BY <1>1, <1>2, <1>4, <1>5 DEF IInv, ReceiptInv, MInv, AttemptInv
<1>13. Held' = receipt BY <1>1, <1>10 DEF Held
<1>14. BaseInv'
  <2> SUFFICES ASSUME ctl'.pc = "poll" PROVE BaseInv' BY <1>10 DEF BaseInv
  <2>1. /\ ctl'.changed /\ ctl'.gen = ctl.gen /\ ctl'.base = ctl.base BY <1>10
  <2>2. ctl.base.exists /\ Updating /\ ctl.base.updatedAt <= now
    BY <1>1, <1>2, <1>5 DEF MInv, BaseInv, Creating, Waiting
  <2>3. Updating'
    <3>1. \A q \in Records : q.status.state = "none" => q.updatedAt <= ctl.base.updatedAt
      BY <1>1, <2>2 DEF Updating, Waiting
    <3>2. service'.updatedAt <= ctl'.gen.after + 1 BY <1>5, <1>8, <1>12, <2>1
    <3> QED BY <1>8, <1>12, <2>1, <2>2, <3>1, <3>2 DEF Updating, Waiting
  <2>4. ctl'.base.updatedAt <= service'.updatedAt
    <3>1. ctl.base.updatedAt \in Nat BY DEF IInv, Shape, CtlType, ServiceType
    <3> QED BY <1>5, <1>8, <2>1, <2>2, <3>1
  <2>5. Settling' BY <2>1 DEF Settling
  <2> QED BY <1>7, <2>1, <2>2, <2>3, <2>4, <2>5 DEF BaseInv
<1>15. AttemptInv'
  <2>1. Dated(receipt.gen)' BY <1>1, <1>12 DEF Dated
  <2>2. Dated(Held.gen)' BY <1>12, <1>13 DEF Dated
  <2>3. CASE ctl'.pc = "poll"
    BY <1>1, <1>2, <1>8, <1>10, <1>12, <2>1, <2>2, <2>3 DEF MInv, AttemptInv, Waiting, Want
  <2>4. CASE ctl'.pc = "idle"
    BY <1>8, <1>10, <2>1, <2>2, <2>4 DEF AttemptInv, Waiting
  <2> QED BY <1>10, <2>3, <2>4
<1>16. TasksInv'
  <2>1. ASSUME ~blurred' PROVE GenMeans(receipt.gen)'
    <3> PICK g : g = ctl.gen OBVIOUS
    <3>1. /\ IF ctl.saved.gen.on THEN GenMeans(ctl.saved.gen) ELSE EndpointSince(0)
          /\ Dated(ctl.saved.gen)
      BY <1>1, <1>2, <1>11, <2>1 DEF MInv, TasksInv, AttemptInv, Held
    <3>2. g.tasksAfter <= now /\ EndpointSince(g.tasksAfter)
      BY <1>2, <1>3, <1>4, <1>5, <1>12, <3>1, GenerationSound
    <3>3. ClassifyVerification(service.spec, spec) = "existing" => spec.ep = service.spec.ep
      BY DEF ClassifyVerification
    <3>4. g.after < service'.updatedAt BY <1>5, <1>8, <1>12
    <3>5. receipt'.gen = g BY <1>1, <1>12
    <3>6. g.before = service.spec BY <1>3, <1>12, RecordTypes, GenerationCases
    <3>7. service'.status.state \notin Rolled BY <1>7 DEF Rolled
    <3>8. ClassifyVerification(service.spec, spec) = "existing" =>
              EndpointSince(receipt.gen.tasksAfter)'
      BY <1>1, <1>6, <3>2, <3>3, <3>5 DEF EndpointSince
    <3> QED BY <1>6, <1>7, <1>12, <3>2, <3>4, <3>5, <3>6, <3>7, <3>8 DEF GenMeans
  <2> QED BY <1>1, <1>12, <1>13, <2>1 DEF TasksInv
<1> QED BY <1>7, <1>14, <1>15, <1>16 DEF MInv

-----------------------------------------------------------------------------
(* Attempts on a managed service, between its writes.                      *)

\* The service and its tasks are as they were.
LEMMA SwarmKept ==
    ASSUME MInv, UNCHANGED swarmVars
    PROVE  /\ managed' = managed /\ service' = service /\ past' = past /\ tasks' = tasks
           /\ now' = now /\ Records' = Records /\ RecordInv' /\ TaskInv'
           /\ (\A r : Latest(r)' <=> Latest(r)) /\ (\A t : EndpointSince(t)' <=> EndpointSince(t))
           /\ (\A g : GenMeans(g)' <=> GenMeans(g)) /\ (Filled' <=> Filled)
<1>1. /\ managed' = managed /\ service' = service /\ past' = past /\ tasks' = tasks /\ now' = now
  BY DEF swarmVars
<1>2. Records' = Records BY <1>1 DEF Records
<1>3. \A r : Latest(r)' <=> Latest(r) BY <1>1, <1>2 DEF Latest
<1>4. \A t : EndpointSince(t)' <=> EndpointSince(t) BY <1>1 DEF EndpointSince
<1>5. RecordInv' BY <1>1, <1>2, <1>3 DEF MInv, RecordInv, Succeeded
<1>6. TaskInv' BY <1>1 DEF MInv, TaskInv, EndpointSince
<1>7. \A g : GenMeans(g)' <=> GenMeans(g) BY <1>1, <1>4 DEF GenMeans
<1>8. Filled' <=> Filled BY <1>1 DEF Filled
<1> QED BY <1>1, <1>2, <1>3, <1>4, <1>5, <1>6, <1>7, <1>8

\* The attempt is over.
LEMMA AttemptOver ==
    ASSUME MInv, UNCHANGED swarmVars, ctl' = Idle,
           dep'.status = "succeeded" => ~receipt'.unresolved,
           ~service.exists => ~receipt'.gen.on, Dated(receipt'.gen),
           ~blurred' => IF receipt'.gen.on THEN GenMeans(receipt'.gen) ELSE EndpointSince(0),
           ~receipt'.unresolved /\ service.exists => Filled
    PROVE  MInv'
<1>1. /\ service' = service /\ RecordInv' /\ TaskInv'
      /\ (\A t : EndpointSince(t)' <=> EndpointSince(t))
      /\ (\A g : GenMeans(g)' <=> GenMeans(g)) /\ (Filled' <=> Filled)
  BY SwarmKept
<1>2. ctl'.pc = "idle" /\ ~ctl'.changed BY DEF Idle
<1>3. Held' = receipt' BY <1>2 DEF Held
<1>4. BaseInv' BY <1>2 DEF BaseInv
<1>5. AttemptInv' BY <1>1, <1>2, <1>3 DEF AttemptInv, Waiting, Dated
<1>6. TasksInv'
  <2>1. EndpointSince(0) => EndpointSince(0)' BY <1>1
  <2> PICK g : g = receipt'.gen OBVIOUS
  <2>2. GenMeans(g) => GenMeans(Held.gen)' BY <1>1, <1>3 DEF GenMeans, EndpointSince, swarmVars
  <2> QED BY <1>1, <1>2, <1>3, <2>1, <2>2 DEF TasksInv
<1> QED BY <1>1, <1>4, <1>5, <1>6 DEF MInv

\* The attempt goes on with what it inherited.
LEMMA AttemptGoesOn ==
    ASSUME MInv, UNCHANGED swarmVars, ~blurred' => ~blurred, BaseInv', AttemptInv',
           Held'.gen = Held.gen, Held'.unresolved = Held.unresolved,
           ctl'.changed = ctl.changed
    PROVE  MInv'
<1>1. /\ service' = service /\ RecordInv' /\ TaskInv'
      /\ (\A t : EndpointSince(t)' <=> EndpointSince(t))
      /\ (\A g : GenMeans(g)' <=> GenMeans(g)) /\ (Filled' <=> Filled)
  BY SwarmKept
<1>2. TasksInv'
  <2>1. EndpointSince(0) => EndpointSince(0)' BY <1>1
  <2> PICK g : g = Held.gen OBVIOUS
  <2>2. GenMeans(g) => GenMeans(Held.gen)' BY <1>1 DEF GenMeans, EndpointSince, swarmVars
  <2> QED BY <1>1, <2>1, <2>2 DEF MInv, TasksInv
<1> QED BY <1>1, <1>2 DEF MInv

\* The baseline stays what it is.
LEMMA BaseKept ==
    ASSUME MInv, UNCHANGED swarmVars, ~blurred' => ~blurred,
           ctl.pc \notin {"idle", "baseline"}, ctl'.base = ctl.base,
           Waiting => Waiting' /\ ctl'.gen = ctl.gen /\ ctl'.changed = ctl.changed,
           ctl.base.exists \/ (Waiting /\ receipt' = receipt),
           ~Held'.unresolved /\ ~ctl'.changed => ~Held.unresolved /\ ~ctl.changed
    PROVE  BaseInv'
<1>1. /\ service' = service /\ past' = past /\ tasks' = tasks /\ Records' = Records
      /\ (\A r : Latest(r)' <=> Latest(r))
  BY SwarmKept
<1>2. Settling => Settling' BY <1>1 DEF Settling
<1>3. CASE ctl.base.exists
  <2>1. Updating' BY <1>1, <1>3 DEF MInv, BaseInv, Updating
  <2> QED BY <1>1, <1>2, <1>3, <2>1 DEF MInv, BaseInv
<1>4. CASE ~ctl.base.exists
  <2>1. Creating /\ Waiting BY <1>4 DEF MInv, BaseInv
  <2>2. \A i \in Slots : Dirty(i)' <=> Dirty(i) BY <1>1 DEF Dirty
  <2>3. ctl.pc # "apply" /\ Waiting' BY <2>1 DEF Waiting
  <2>4. Creating' BY <1>1, <1>4, <2>1, <2>2, <2>3 DEF Creating
  <2> QED BY <1>1, <1>2, <1>4, <2>4 DEF MInv, BaseInv
<1> QED BY <1>3, <1>4

\* An attempt that ends without success leaves what it found, or blurs it.
LEMMA AttemptLost ==
    ASSUME MInv, UNCHANGED swarmVars, ctl' = Idle, dep'.status # "succeeded",
           ~blurred' => ~blurred,
           \/ receipt'.gen = receipt.gen /\ (ctl.pc = "write" => blurred')
           \/ receipt'.gen = Held.gen /\ service.exists
           \/ ~receipt'.gen.on /\ ~Held.gen.on,
           receipt'.unresolved \/ (~Held.unresolved /\ ~ctl.changed)
    PROVE  MInv'
<1>1. Dated(receipt.gen) /\ Dated(Held.gen) BY DEF MInv, AttemptInv
<1>2. Dated(receipt'.gen) BY <1>1 DEF Dated
<1>3. ~service.exists => ~receipt'.gen.on BY DEF MInv, AttemptInv
<1>4. ~blurred' => IF receipt'.gen.on THEN GenMeans(receipt'.gen) ELSE EndpointSince(0)
  <2> SUFFICES ASSUME ~blurred' PROVE IF receipt'.gen.on THEN GenMeans(receipt'.gen)
                                      ELSE EndpointSince(0)
    OBVIOUS
  <2>1. IF Held.gen.on THEN GenMeans(Held.gen) ELSE EndpointSince(0) BY DEF MInv, TasksInv
  <2>2. \/ receipt'.gen = Held.gen
        \/ ~receipt'.gen.on /\ ~Held.gen.on
    BY DEF Held
  <2> QED BY <2>1, <2>2
<1>5. ~receipt'.unresolved /\ service.exists => Filled BY DEF MInv, TasksInv
<1> QED BY <1>2, <1>3, <1>4, <1>5, AttemptOver

LEMMA CompleteLost ==
    ASSUME IInv, RInv, managed, History, NEW status \in {"failed", "interrupted"},
           NEW unresolved \in BOOLEAN, Complete(status, unresolved),
           ~unresolved => ctl.pc = "baseline" /\ ~receipt.unresolved
    PROVE  MInv'
<1>1. /\ UNCHANGED swarmVars /\ ctl' = Idle /\ dep' = [dep EXCEPT !.status = status]
      /\ receipt' = Receipt(unresolved, IF unresolved THEN receipt.gen ELSE NoGen)
  BY DEF Complete
<1>2. MInv /\ blurred \in BOOLEAN BY DEF RInv
<1>3. dep'.status = status /\ ctl'.pc = "idle" BY <1>1 DEF IInv, Shape, DepType, Idle
<1>4. service' = service BY <1>1 DEF swarmVars
<1>5. receipt'.unresolved = unresolved
      /\ receipt'.gen = IF unresolved THEN receipt.gen ELSE NoGen
  BY <1>1 DEF Receipt
<1>6. ctl.pc = "write" => receipt.gen = ctl.gen BY <1>2 DEF MInv, AttemptInv
<1>7. dep'.status # "succeeded" BY <1>3
<1>8. ~blurred' => ~blurred BY <1>2, <1>7, BlurKept
<1>9. CASE unresolved
  <2>1. ctl.pc = "write" => blurred' BY <1>2, <1>3, <1>4, <1>5, <1>6, <1>7, <1>9, BlurKept
  <2> QED BY <1>1, <1>2, <1>5, <1>7, <1>8, <1>9, <2>1, AttemptLost
<1>10. CASE ~unresolved
  <2>1. ~NoGen.on BY DEF NoGen
  <2>2. Held = receipt /\ ~receipt.gen.on /\ ~ctl.changed
    BY <1>2, <1>10 DEF Held, IInv, ReceiptInv, MInv, AttemptInv, Waiting
  <2> QED BY <1>1, <1>2, <1>5, <1>7, <1>8, <1>10, <2>1, <2>2, AttemptLost
<1> QED BY <1>9, <1>10

LEMMA ApplyFailsManaged ==
    ASSUME IInv, RInv, managed, History, ApplyFails PROVE MInv'
<1>1. receipt.unresolved \in BOOLEAN BY DEF IInv, Shape, ReceiptType
<1> PICK u : u = (ctl.pc = "baseline" => receipt.unresolved) OBVIOUS
<1>2. u \in BOOLEAN /\ (~u => ctl.pc = "baseline" /\ ~receipt.unresolved) BY <1>1
<1>3. Complete("failed", u) BY DEF ApplyFails
<1> QED BY <1>2, <1>3, CompleteLost

LEMMA CrashManaged ==
    ASSUME IInv, RInv, managed, History, Crash PROVE MInv'
<1>1. /\ UNCHANGED swarmVars /\ ctl' = Idle /\ dep' = [dep EXCEPT !.status = "interrupted"]
      /\ receipt' = [receipt EXCEPT !.unresolved = TRUE]
  BY DEF Crash
<1>2. MInv /\ blurred \in BOOLEAN BY DEF RInv
<1>3. dep'.status = "interrupted" /\ ctl'.pc = "idle" BY <1>1 DEF IInv, Shape, DepType, Idle
<1>4. receipt'.unresolved /\ receipt'.gen = receipt.gen BY <1>1 DEF IInv, Shape, ReceiptType
<1>5. ctl.pc = "write" => receipt.gen = ctl.gen BY <1>2 DEF MInv, AttemptInv
<1>6. service' = service BY <1>1 DEF swarmVars
<1>7. (~blurred' => ~blurred) /\ (ctl.pc = "write" => blurred')
  BY <1>2, <1>3, <1>4, <1>5, <1>6, BlurKept
<1> QED BY <1>1, <1>2, <1>3, <1>4, <1>7, AttemptLost

LEMMA RefusedManaged ==
    ASSUME IInv, RInv, managed, History, UNCHANGED swarmVars, RefusedWith(Held.gen),
           ctl.pc \in {"write", "reinspect"}
    PROVE  MInv'
<1> PICK gen : gen = Held.gen OBVIOUS
<1> PICK u : u = (ctl.inherited \/ gen.on) OBVIOUS
<1>1. /\ ctl' = Idle /\ dep' = [dep EXCEPT !.status = "failed"]
      /\ receipt' = Receipt(u, IF u THEN gen ELSE NoGen)
  BY DEF RefusedWith
<1>2. MInv /\ blurred \in BOOLEAN BY DEF RInv
<1>3. dep'.status = "failed" /\ ctl'.pc = "idle" BY <1>1 DEF IInv, Shape, DepType, Idle
<1>4. receipt'.unresolved = u /\ receipt'.gen = IF u THEN gen ELSE NoGen BY <1>1 DEF Receipt
<1>5. ~blurred' => ~blurred BY <1>2, <1>3, BlurKept
<1>6. ~u => ~Held.unresolved /\ ~ctl.changed /\ ~gen.on
  BY <1>2 DEF MInv, AttemptInv, Waiting
<1>7. ~NoGen.on /\ service.exists BY DEF NoGen, IInv, ReadInv
<1> QED BY <1>1, <1>2, <1>3, <1>4, <1>5, <1>6, <1>7, AttemptLost

\* The history of an attempt that goes on.
LEMMA GoesOnBlur ==
    ASSUME RInv, History, UNCHANGED swarmVars, ctl'.pc # "idle" \/ ctl' = ctl,
           dep'.status # "succeeded" \/ dep' = dep
    PROVE  blurred' = blurred
<1>1. service' = service /\ blurred \in BOOLEAN BY DEF swarmVars, RInv
<1>2. ctl.pc # "write" \/ ctl'.pc # "idle" OBVIOUS
<1> QED BY <1>1, <1>2, BlurKept

LEMMA BeginManaged ==
    ASSUME IInv, RInv, managed, History, NEW d \in Definitions, Begin(d) PROVE MInv'
<1>1. /\ UNCHANGED swarmVars /\ receipt' = receipt /\ ctl.pc = "idle"
      /\ dep' = [want |-> d, status |-> "running", number |-> IF d = Want THEN 2 ELSE 1]
      /\ ctl' = [Idle EXCEPT !.pc = "baseline", !.inherited = receipt.unresolved,
                             !.gen = receipt.gen]
  BY DEF Begin
<1>2. MInv BY DEF RInv
<1>3. /\ ctl'.pc = "baseline" /\ ctl'.gen = receipt.gen /\ ctl'.inherited = receipt.unresolved
      /\ ~ctl'.changed
  BY <1>1 DEF Idle
<1>4. dep'.status = "running" /\ dep'.want = d BY <1>1
<1>5. blurred' = blurred BY <1>1, <1>3, <1>4, GoesOnBlur
<1>6. Held = receipt /\ Held' = receipt BY <1>1, <1>3 DEF Held
<1>7. service' = service BY <1>1 DEF swarmVars
<1>8. BaseInv' BY <1>3 DEF BaseInv
<1>9. AttemptInv'
  BY <1>1, <1>2, <1>3, <1>4, <1>6, <1>7 DEF MInv, AttemptInv, Waiting, Dated, Want
<1>10. ~ctl.changed BY <1>1, <1>2 DEF MInv, AttemptInv, Waiting
<1>11. ctl.changed = ctl'.changed
  BY <1>1, <1>3, <1>10 DEF IInv, Shape, CtlType, Idle
<1> QED BY <1>1, <1>2, <1>5, <1>6, <1>8, <1>9, <1>11, AttemptGoesOn

LEMMA CaptureBaselineManaged ==
    ASSUME IInv, RInv, managed, History, CaptureBaseline PROVE MInv'
<1>1. /\ UNCHANGED swarmVars /\ dep' = dep /\ receipt' = receipt /\ ctl.pc = "baseline"
      /\ ctl' = [ctl EXCEPT !.pc = "apply", !.base = service]
  BY DEF CaptureBaseline
<1>2. MInv BY DEF RInv
<1>3. /\ ctl'.pc = "apply" /\ ctl'.base = service /\ ctl'.gen = ctl.gen
      /\ ctl'.inherited = ctl.inherited /\ ctl'.changed = ctl.changed
  BY <1>1 DEF IInv, Shape, CtlType
<1>4. blurred' = blurred BY <1>1, <1>3, GoesOnBlur
<1>5. Held = receipt /\ Held' = receipt BY <1>1, <1>3 DEF Held
<1>6. /\ service' = service /\ past' = past /\ Records' = Records BY <1>1, <1>2, SwarmKept
<1>7. service.updatedAt \in Nat /\ \A r \in past : r.updatedAt \in Nat /\ ~(r.updatedAt >= service.updatedAt)
  BY RecordTypes DEF IInv, VersionInv, Records
<1>8. BaseInv'
  <2>1. CASE service.exists
    <3>1. Updating' BY <1>3, <1>6, RecordTypes DEF Updating, Records
    <3> QED BY <1>3, <1>6, <1>7, <2>1, <3>1 DEF BaseInv, Settling, Records
  <2>2. CASE ~service.exists
    <3>1. past = {} BY <1>7, <2>2, RecordTypes DEF IInv, VersionInv, Records
    <3>2. service = NoService /\ ~receipt.gen.on
      BY <1>2, <2>2 DEF MInv, RecordInv, AttemptInv, Records
    <3>3. Creating' BY <1>1, <1>3, <1>6, <2>2, <3>1, <3>2 DEF Creating
    <3> QED BY <1>3, <1>6, <1>7, <2>2, <3>3 DEF BaseInv, Settling, Records
  <2> QED BY <2>1, <2>2
<1>9. AttemptInv'
  BY <1>1, <1>2, <1>3, <1>5, <1>6 DEF MInv, AttemptInv, Waiting, Dated, Want
<1> QED BY <1>1, <1>2, <1>3, <1>4, <1>5, <1>8, <1>9, AttemptGoesOn

LEMMA AdvanceManaged ==
    ASSUME IInv, RInv, managed, History, NEW tries \in Nat, Advance(service, tries),
           service.exists, ctl.pc \in {"apply", "reinspect"}, updateRequired(service),
           UNCHANGED <<swarmVars, dep, receipt, auth>>
    PROVE  MInv'
<1> PICK applied : applied = Prepared(service) OBVIOUS
<1>1. ctl' = [ctl EXCEPT !.cur = service, !.applied = applied, !.tries = tries, !.pc = "record"]
  BY DEF Advance
<1>2. MInv BY DEF RInv
<1>3. /\ ctl'.pc = "record" /\ ctl'.base = ctl.base /\ ctl'.gen = ctl.gen /\ ctl'.cur = service
      /\ ctl'.inherited = ctl.inherited /\ ctl'.changed = ctl.changed
  BY <1>1 DEF IInv, Shape, CtlType
<1>4. blurred' = blurred BY <1>3, GoesOnBlur
<1>5. Held = receipt /\ Held' = receipt BY <1>3 DEF Held
<1>6. /\ service' = service /\ managed' = managed /\ dep' = dep /\ receipt' = receipt
      /\ auth' = auth /\ UNCHANGED swarmVars
  BY DEF swarmVars
<1>7. ctl.base.exists BY <1>2 DEF MInv, BaseInv, Creating, Waiting
<1>8. BaseInv' BY <1>2, <1>3, <1>4, <1>5, <1>7, BaseKept DEF Waiting
<1>9. updateRequired(service)'
  BY <1>6 DEF updateRequired, SpecsEqual, retryRequired, authPending, authOnlyUpdateSafe,
              Want, Retrying
<1>10. service.updatedAt # 0 BY <1>2 DEF IInv, VersionInv, MInv, RecordInv
<1>11. AttemptInv'
  BY <1>2, <1>3, <1>5, <1>6, <1>9, <1>10 DEF MInv, AttemptInv, Waiting, Dated, Want
<1> QED BY <1>2, <1>3, <1>4, <1>5, <1>8, <1>11, AttemptGoesOn

\* The service is left alone and observed.
LEMMA ObservedManaged ==
    ASSUME IInv, RInv, managed, History, service.exists, ctl.pc = "apply",
           ctl' = [ctl EXCEPT !.pc = "poll"], UNCHANGED <<swarmVars, dep, receipt, auth>>
    PROVE  MInv'
<1>1. MInv BY DEF RInv
<1>2. /\ ctl'.pc = "poll" /\ ctl'.base = ctl.base /\ ctl'.gen = ctl.gen
      /\ ctl'.inherited = ctl.inherited /\ ctl'.changed = ctl.changed
  BY DEF IInv, Shape, CtlType
<1>3. blurred' = blurred BY <1>2, GoesOnBlur
<1>4. Held = receipt /\ Held' = receipt BY <1>2 DEF Held
<1>5. service' = service /\ dep' = dep /\ receipt' = receipt /\ UNCHANGED swarmVars BY DEF swarmVars
<1>6. ctl.base.exists BY <1>1 DEF MInv, BaseInv, Creating, Waiting
<1>7. BaseInv' BY <1>1, <1>2, <1>3, <1>4, <1>6, BaseKept DEF Waiting
<1>8. AttemptInv'
  BY <1>1, <1>2, <1>4, <1>5 DEF MInv, AttemptInv, Waiting, Dated, Want
<1> QED BY <1>1, <1>2, <1>3, <1>4, <1>7, <1>8, AttemptGoesOn

LEMMA RecordUpdateGenerationManaged ==
    ASSUME IInv, RInv, managed, History, RecordUpdateGeneration PROVE MInv'
<1> PICK gen : gen = updateGeneration(ctl.applied, ctl.cur, ctl.gen) OBVIOUS
<1> PICK saved : saved = Receipt(receipt.unresolved, ctl.gen) OBVIOUS
<1>1. /\ ctl.pc = "record" /\ receipt' = Receipt(TRUE, gen) /\ dep' = dep /\ UNCHANGED swarmVars
      /\ ctl' = [ctl EXCEPT !.pc = "write", !.gen = gen, !.saved = saved] /\ auth' = auth
  BY DEF RecordUpdateGeneration
<1>2. MInv BY DEF RInv
<1>3. /\ ctl'.pc = "write" /\ ctl'.base = ctl.base /\ ctl'.gen = gen /\ ctl'.cur = ctl.cur
      /\ ctl'.inherited = ctl.inherited /\ ctl'.changed = ctl.changed /\ ctl'.saved = saved
      /\ ctl'.applied = ctl.applied
  BY <1>1 DEF IInv, Shape, CtlType
<1>4. blurred' = blurred BY <1>1, <1>3, GoesOnBlur
<1>5. /\ saved.unresolved = receipt.unresolved /\ saved.gen = ctl.gen
      /\ receipt'.unresolved /\ receipt'.gen = gen /\ ctl.gen = receipt.gen
  BY <1>1, <1>2 DEF Receipt, MInv, AttemptInv
<1>6. Held = receipt /\ Held' = saved BY <1>1, <1>3 DEF Held
<1>7. service' = service /\ managed' = managed BY <1>1 DEF swarmVars
<1>8. ctl.base.exists BY <1>1, <1>2 DEF MInv, BaseInv, Creating, Waiting
<1>9. BaseInv' BY <1>1, <1>2, <1>3, <1>4, <1>5, <1>6, <1>8, BaseKept DEF Waiting
<1>10. updateRequired(service)' <=> updateRequired(service)
  BY <1>1, <1>7 DEF updateRequired, SpecsEqual, retryRequired, authPending, authOnlyUpdateSafe,
                    Want, Retrying
<1>11. Dated(gen)
  <2>1. /\ ctl.applied \in Specification /\ ctl.cur \in ServiceType /\ ctl.gen \in GenType
    BY DEF IInv, Shape, CtlType
  <2>2. ctl.cur.updatedAt # 0 BY <1>1, <1>2 DEF MInv, AttemptInv
  <2>3. gen.after = ctl.cur.updatedAt /\ (gen.tasksAfter # 0 => gen.mode = "new")
    BY <2>1, GenerationCases
  <2> QED BY <2>2, <2>3 DEF Dated
<1>12. service.exists /\ dep.status = "running" BY <1>1 DEF IInv, ReadInv, ReceiptInv
<1>13. AttemptInv'
  <2>1. Dated(receipt.gen)' BY <1>5, <1>11 DEF Dated
  <2>2. Dated(Held.gen)' BY <1>2, <1>5, <1>6 DEF MInv, AttemptInv, Dated
  <2>3. ctl'.gen = updateGeneration(ctl'.applied, ctl'.cur, ctl'.saved.gen) BY <1>3, <1>5
  <2>4. (ctl.gen = updateGeneration(ctl.applied, ctl.cur, ctl.saved.gen))'
    BY <2>3 DEF updateGeneration, Resolve, ClassifyVerification
  <2> QED BY <1>1, <1>2, <1>3, <1>4, <1>5, <1>6, <1>7, <1>10, <1>12, <2>1, <2>2, <2>4
       DEF MInv, AttemptInv, Waiting, Want
<1> QED BY <1>1, <1>2, <1>3, <1>4, <1>5, <1>6, <1>9, <1>13, AttemptGoesOn

LEMMA UpdateRefusedManaged ==
    ASSUME IInv, RInv, managed, History, UpdateRefused PROVE MInv'
<1>1. ctl.pc = "write" /\ UNCHANGED swarmVars /\ auth' = auth BY DEF UpdateRefused
<1>2. MInv /\ Held = ctl.saved BY <1>1 DEF RInv, Held
<1>3. CASE RefusedWith(ctl.saved.gen) BY <1>1, <1>2, <1>3, RefusedManaged
<1>4. CASE /\ receipt' = ctl.saved /\ dep' = dep
           /\ ctl' = [ctl EXCEPT !.pc = "reinspect", !.gen = ctl.saved.gen]
  <2>1. /\ ctl'.pc = "reinspect" /\ ctl'.base = ctl.base /\ ctl'.gen = ctl.saved.gen
        /\ ctl'.cur = ctl.cur /\ ctl'.inherited = ctl.inherited /\ ctl'.changed = ctl.changed
    BY <1>4 DEF IInv, Shape, CtlType
  <2>2. blurred' = blurred BY <1>1, <1>4, <2>1, GoesOnBlur
  <2>3. Held' = ctl.saved BY <1>4, <2>1 DEF Held
  <2>4. service' = service /\ managed' = managed BY <1>1 DEF swarmVars
  <2>5. ctl.base.exists BY <1>1, <1>2 DEF MInv, BaseInv, Creating, Waiting
  <2>6. BaseInv' BY <1>1, <1>2, <2>1, <2>2, <2>3, <2>5, BaseKept DEF Waiting
  <2>7. updateRequired(service)' <=> updateRequired(service)
    BY <1>1, <1>4, <2>4 DEF updateRequired, SpecsEqual, retryRequired, authPending,
         authOnlyUpdateSafe, Want, Retrying
  <2>8. service.exists /\ dep.status = "running" BY <1>1 DEF IInv, ReadInv, ReceiptInv
  <2>9. AttemptInv'
    BY <1>1, <1>2, <1>4, <2>1, <2>2, <2>3, <2>4, <2>7, <2>8
       DEF MInv, AttemptInv, Waiting, Dated, Want
  <2> QED BY <1>1, <1>2, <2>1, <2>2, <2>3, <2>6, <2>9, AttemptGoesOn
<1> QED BY <1>3, <1>4 DEF UpdateRefused

\* Nobody else brings a managed service to the desired specification, unless the receipt
\* is blurred.
LEMMA refreshConcurrentUpdateManaged ==
    ASSUME IInv, RInv, managed, History, refreshConcurrentUpdate PROVE MInv'
<1>1. ctl.pc = "reinspect" /\ UNCHANGED swarmVars /\ service.exists /\ auth' = auth
  BY DEF refreshConcurrentUpdate, IInv, ReadInv
<1>2. MInv /\ Held = receipt BY <1>1 DEF RInv, Held
<1>3. ctl.gen = receipt.gen BY <1>1, <1>2 DEF MInv, AttemptInv
<1>4. CASE RefusedWith(ctl.gen) BY <1>1, <1>2, <1>3, <1>4, RefusedManaged
<1>5. CASE /\ ~(SpecsEqual(service.spec, Want) /\ ~retryRequired(service) /\ ~authPending(service))
           /\ Advance(service, ctl.tries + 1) /\ UNCHANGED <<dep, receipt>>
  <2>1. updateRequired(service) BY <1>5 DEF updateRequired
  <2>2. ctl.tries + 1 \in Nat BY DEF IInv, Shape, CtlType
  <2> QED BY <1>1, <1>5, <2>1, <2>2, AdvanceManaged
<1> DEFINE before == [service EXCEPT !.updatedAt = ctl.cur.updatedAt,
                                     !.spec = IF service.prev = NoSpec THEN @ ELSE service.prev]
           gen == updateGeneration(service.spec, before, ctl.gen)
<1>6. CASE /\ SpecsEqual(service.spec, Want) /\ ~retryRequired(service) /\ ~authPending(service)
           /\ receipt' = Receipt(TRUE, gen) /\ dep' = dep
           /\ ctl' = [ctl EXCEPT !.pc = "poll", !.changed = TRUE, !.gen = gen]
  <2>1. blurred BY <1>1, <1>2, <1>6 DEF MInv, AttemptInv, updateRequired
  <2>2. gen.on /\ Dated(gen)
    <3>1. /\ service \in ServiceType /\ service.spec \in Specification /\ ctl.gen \in GenType
          /\ service.prev \in Specification /\ ctl.cur.updatedAt \in Nat
      BY RecordTypes DEF IInv, Shape, CtlType, ServiceType
    <3> PICK spec : spec = IF service.prev = NoSpec THEN service.spec ELSE service.prev OBVIOUS
    <3>2. spec \in Specification BY <3>1
    <3>3. before = [service EXCEPT !.updatedAt = ctl.cur.updatedAt, !.spec = spec]
      BY <3>1 DEF ServiceType
    <3> HIDE DEF before
    <3>4. before \in ServiceType /\ before.updatedAt = ctl.cur.updatedAt
      BY <3>1, <3>2, <3>3 DEF ServiceType
    <3>5. ctl.cur.updatedAt # 0 BY <1>1, <1>2 DEF MInv, AttemptInv
    <3>6. /\ gen.on /\ gen.after = before.updatedAt /\ (gen.tasksAfter # 0 => gen.mode = "new")
      BY <3>1, <3>4, GenerationCases
    <3> QED BY <3>4, <3>5, <3>6 DEF Dated
  <2> HIDE DEF gen
  <2>3. /\ ctl'.pc = "poll" /\ ctl'.base = ctl.base /\ ctl'.gen = gen /\ ctl'.changed
        /\ ctl'.inherited = ctl.inherited
    BY <1>6 DEF IInv, Shape, CtlType
  <2>4. blurred' = blurred BY <1>1, <1>6, <2>3, GoesOnBlur
  <2>5. receipt'.unresolved /\ receipt'.gen = gen BY <1>6 DEF Receipt
  <2>6. Held' = receipt' BY <2>3 DEF Held
  <2>7. ctl.base.exists BY <1>1, <1>2 DEF MInv, BaseInv, Creating, Waiting
  <2>8. BaseInv' BY <1>1, <1>2, <2>3, <2>4, <2>7, BaseKept DEF Waiting
  <2>9. service' = service /\ dep.status = "running" BY <1>1 DEF swarmVars, IInv, ReceiptInv
  <2>10. AttemptInv'
    BY <1>1, <1>2, <1>6, <2>2, <2>3, <2>5, <2>6, <2>9 DEF MInv, AttemptInv, Waiting, Dated, Want
  <2>11. TasksInv' BY <2>1, <2>3, <2>4 DEF TasksInv
  <2>12. RecordInv' /\ TaskInv' BY <1>1, <1>2, SwarmKept
  <2> QED BY <2>8, <2>10, <2>11, <2>12 DEF MInv
<1> HIDE DEF gen, before
<1> QED BY <1>4, <1>5, <1>6 DEF refreshConcurrentUpdate, gen, before

LEMMA PollManaged ==
    ASSUME IInv, RInv, managed, History, Poll PROVE MInv'
<1>1. /\ ctl.pc = "poll" /\ UNCHANGED swarmVars /\ dep' = dep /\ receipt' = receipt BY DEF Poll
<1>2. PICK s \in past \cup {service} :
        /\ ~(ctl.changed /\ ctl.base.exists /\ ~serviceChanged(ctl.base, s))
        /\ ctl' = [ctl EXCEPT !.pc = "tasks", !.seen = s]
  BY DEF Poll
<1>3. MInv BY DEF RInv
<1>4. /\ ctl'.pc = "tasks" /\ ctl'.base = ctl.base /\ ctl'.gen = ctl.gen /\ ctl'.seen = s
      /\ ctl'.inherited = ctl.inherited /\ ctl'.changed = ctl.changed
  BY <1>2 DEF IInv, Shape, CtlType
<1>5. blurred' = blurred BY <1>1, <1>4, GoesOnBlur
<1>6. Held = receipt /\ Held' = receipt /\ Waiting /\ Waiting' BY <1>1, <1>4 DEF Held, Waiting
<1>7. service' = service BY <1>1 DEF swarmVars
<1>8. BaseInv' BY <1>1, <1>3, <1>4, <1>5, <1>6, BaseKept
<1>9. (ctl.changed /\ ctl.base.exists => serviceChanged(ctl.base, ctl.seen))'
  BY <1>2, <1>4 DEF serviceChanged
<1>10. AttemptInv'
  BY <1>1, <1>3, <1>4, <1>6, <1>7, <1>9 DEF MInv, AttemptInv, Dated, Want
<1> QED BY <1>1, <1>3, <1>4, <1>5, <1>6, <1>8, <1>10, AttemptGoesOn

LEMMA PendingManaged ==
    ASSUME IInv, RInv, managed, History, ctl.pc = "tasks",
           ctl' = [ctl EXCEPT !.pc = "poll", !.seen = NoService],
           UNCHANGED <<swarmVars, dep, receipt>>
    PROVE  MInv'
<1>1. MInv BY DEF RInv
<1>2. /\ ctl'.pc = "poll" /\ ctl'.base = ctl.base /\ ctl'.gen = ctl.gen
      /\ ctl'.inherited = ctl.inherited /\ ctl'.changed = ctl.changed
  BY DEF IInv, Shape, CtlType
<1>3. blurred' = blurred BY <1>2, GoesOnBlur
<1>4. Held = receipt /\ Held' = receipt /\ Waiting /\ Waiting' BY <1>2 DEF Held, Waiting
<1>5. service' = service /\ UNCHANGED swarmVars BY DEF swarmVars
<1>6. BaseInv' BY <1>1, <1>2, <1>3, <1>4, <1>5, BaseKept
<1>7. AttemptInv' BY <1>1, <1>2, <1>4, <1>5 DEF MInv, AttemptInv, Dated, Want
<1> QED BY <1>1, <1>2, <1>3, <1>4, <1>5, <1>6, <1>7, AttemptGoesOn

\* Replaced credentials, and steps that change nothing.
LEMMA AuthManaged ==
    ASSUME IInv, RInv, managed, UNCHANGED <<swarmVars, dep, receipt, ctl, blurred>>,
           auth' = auth \/ ~auth'
    PROVE  MInv'
<1>1. MInv BY DEF RInv
<1>2. Held' = Held /\ (Waiting' <=> Waiting) BY DEF Held, Waiting
<1>3. service' = service /\ managed' = managed /\ UNCHANGED swarmVars BY DEF swarmVars
<1>4. BaseInv'
  <2>1. CASE ctl.pc \in {"idle", "baseline"} BY <2>1 DEF BaseInv
  <2>2. CASE ctl.pc \notin {"idle", "baseline"} /\ (ctl.base.exists \/ Waiting)
    BY <1>1, <1>2, <1>3, <2>2, BaseKept
  <2>3. CASE ctl.pc \notin {"idle", "baseline"} /\ ~ctl.base.exists /\ ~Waiting
    <3>1. Creating BY <1>1, <2>3 DEF MInv, BaseInv
    <3>2. Creating' BY <1>2, <1>3, <2>3, <3>1 DEF Creating, swarmVars
    <3> QED BY <1>1, <1>2, <1>3, <2>3, <3>2 DEF MInv, BaseInv, Settling, swarmVars, Latest, Records
  <2> QED BY <2>1, <2>2, <2>3
<1>5. updateRequired(service) => updateRequired(service)'
  BY <1>3 DEF updateRequired, SpecsEqual, retryRequired, authPending, authOnlyUpdateSafe,
              Want, Retrying
<1>6. AttemptInv' BY <1>1, <1>2, <1>3, <1>5 DEF MInv, AttemptInv, Dated, Want
<1> QED BY <1>1, <1>2, <1>3, <1>4, <1>6, AttemptGoesOn

-----------------------------------------------------------------------------
(* What a managed service shows when it is judged to be ready.             *)

\* What evaluateService compares the record s with.
JudgedGen(s) == IF restoredCompletedRollback(s) THEN NoGen ELSE Resolved(s)
JudgedBase(s) ==
    IF JudgedGen(s).on /\ JudgedGen(s).after # 0
      THEN [ctl.base EXCEPT !.updatedAt = JudgedGen(s).after] ELSE ctl.base
JudgedUnresolved(s) == ctl.inherited /\ ~restoredCompletedRollback(s)
JudgedMode(s) ==
    serviceVerificationMode(JudgedBase(s), s, JudgedUnresolved(s), JudgedGen(s))
JudgedCutoff(s) ==
    verificationTaskCutoff(JudgedBase(s), s, JudgedMode(s), JudgedUnresolved(s), JudgedGen(s))

LEMMA ReadyMeans ==
    ASSUME NEW s
    PROVE  evaluateService(s) = "ready" =>
             /\ s.exists /\ ~MetadataPending(s, JudgedGen(s)) /\ SpecsEqual(s.spec, Want)
             /\ s.status.state \in FailedStates => restoredCompletedRollback(s)
             /\ s.spec.replicas = 0 => \A i \in Slots : ~Active(tasks[i])
             /\ s.spec.replicas # 0 =>
                  /\ ~JudgedCutoff(s).pending /\ s.status.state # "updating"
                  /\ Cardinality(Verified(s, JudgedMode(s), JudgedCutoff(s).time)) = s.spec.replicas
BY DEF evaluateService, JudgedGen, JudgedBase, JudgedUnresolved, JudgedMode, JudgedCutoff

LEMMA ReadyWhen ==
    ASSUME NEW s, s.exists, ~MetadataPending(s, JudgedGen(s)), SpecsEqual(s.spec, Want),
           s.status.state \notin FailedStates, s.status.state # "updating",
           s.spec.replicas = 0 => \A i \in Slots : ~Active(tasks[i]),
           s.spec.replicas # 0 =>
             /\ ~JudgedCutoff(s).pending /\ Cardinality(DesiredTasks) = s.spec.replicas
             /\ Cardinality(Verified(s, JudgedMode(s), JudgedCutoff(s).time)) = s.spec.replicas
    PROVE  evaluateService(s) = "ready"
BY DEF evaluateService, JudgedGen, JudgedBase, JudgedUnresolved, JudgedMode, JudgedCutoff

\* The record that was seen is a client's latest, and not older than the baseline.
LEMMA SeenLatest ==
    ASSUME IInv, MInv, managed, ctl.pc = "tasks", evaluateService(ctl.seen) = "ready"
    PROVE  /\ ctl.seen \in Records /\ ctl.seen \in ServiceType /\ Latest(ctl.seen)
           /\ ctl.seen.updatedAt >= ctl.base.updatedAt /\ ctl.seen.exists
           /\ ~ctl.base.exists => Creating /\ ctl.seen = service
<1> PICK s : s = ctl.seen OBVIOUS
<1>1. s \in Records /\ s \in ServiceType /\ s.updatedAt \in Nat
  BY RecordTypes DEF IInv, ReadInv, Records
<1>2. s.exists /\ ~MetadataPending(s, JudgedGen(s)) BY ReadyMeans
<1>3. ctl.base.updatedAt \in Nat /\ ctl.gen \in GenType /\ ctl.gen.after \in Nat
  BY DEF IInv, Shape, CtlType, ServiceType, GenType
<1>4. CASE ~ctl.base.exists
  <2>1. Creating BY <1>4 DEF MInv, BaseInv
  <2>2. s = service BY <1>1, <1>2, <2>1 DEF Creating, Records
  <2>3. Latest(s) BY <2>2, RecordTypes DEF Latest
  <2>4. ctl.base.updatedAt = 0 BY <2>1 DEF Creating, NoService
  <2>5. s.updatedAt >= ctl.base.updatedAt BY <1>1, <2>4
  <2> QED BY <1>1, <1>2, <2>1, <2>2, <2>3, <2>5
<1>5. CASE ctl.base.exists
  <2>1. s.updatedAt >= ctl.base.updatedAt BY <1>1, <1>2, <1>3, <1>5 DEF MetadataPending
  <2>2. ASSUME NEW q \in Records, q.status.state = "none" PROVE q.updatedAt <= s.updatedAt
    <3>1. q.updatedAt \in Nat BY RecordTypes
    <3>2. \/ q.updatedAt <= ctl.base.updatedAt
          \/ ctl.changed /\ ctl.gen.on /\ q.updatedAt <= ctl.gen.after + 1
      BY <1>5, <2>2 DEF MInv, BaseInv, Updating
    <3>3. CASE q.updatedAt <= ctl.base.updatedAt BY <1>1, <1>3, <2>1, <3>1, <3>3
    <3>4. CASE ctl.changed /\ ctl.gen.on /\ q.updatedAt <= ctl.gen.after + 1
      <4>1. serviceChanged(ctl.base, s) BY <1>5, <3>4 DEF MInv, AttemptInv
      <4>2. JudgedGen(s) = Resolve(ctl.gen, s.prev, s.spec)
        BY <3>4, <4>1 DEF JudgedGen, restoredCompletedRollback, Resolved
      <4>3. JudgedGen(s).on = ctl.gen.on /\ JudgedGen(s).after = ctl.gen.after
        BY <1>1, <1>3, <4>2, ResolveFacts DEF ServiceType
      <4>4. ~(s.updatedAt <= ctl.gen.after) BY <1>2, <3>4, <4>3 DEF MetadataPending
      <4> QED BY <1>1, <1>3, <3>1, <3>4, <4>4
    <3> QED BY <3>2, <3>3, <3>4
  <2>3. Latest(s)
    <3> SUFFICES ASSUME NEW q \in Records, q.updatedAt > s.updatedAt, q.status.state = "none"
                 PROVE  FALSE
      BY DEF Latest
    <3> QED BY <1>1, <2>2, RecordTypes
  <2> QED BY <1>1, <1>2, <1>5, <2>1, <2>3
<1> QED BY <1>4, <1>5

\* What is counted fills the slots.
LEMMA AllVerified ==
    ASSUME IInv, MInv, managed, ctl.pc = "tasks", evaluateService(ctl.seen) = "ready",
           ctl.seen.spec.replicas # 0
    PROVE  \A i \in Slots :
             /\ tasks[i] # NoTask /\ tasks[i].tmpl = ctl.seen.spec.tmpl
             /\ JudgedMode(ctl.seen) = "new" => tasks[i].born >= JudgedCutoff(ctl.seen).time
<1> PICK s : s = ctl.seen OBVIOUS
<1> PICK V : V = Verified(s, JudgedMode(s), JudgedCutoff(s).time) OBVIOUS
<1>1. Cardinality(V) = s.spec.replicas /\ SpecsEqual(s.spec, Want) BY ReadyMeans
<1>2. Want.replicas \in {0, Cardinality(Slots)}
  BY ReplicasFillSlots DEF MInv, AttemptInv
<1>3. Cardinality(V) = Cardinality(Slots) BY <1>1, <1>2 DEF SpecsEqual
<1>4. V \subseteq Slots BY DEF Verified, DesiredTasks
<1>5. V = Slots BY <1>3, <1>4, SlotsFinite, FS_Subset
<1> QED BY <1>5 DEF Verified, DesiredTasks, SameTemplate

\* The fields of a cutoff.
LEMMA CutoffFields ==
    ASSUME NEW time, NEW pending, NEW c, c = [time |-> time, pending |-> pending]
    PROVE  c.time = time /\ c.pending = pending
OBVIOUS

\* The cutoff of a generation.
LEMMA GenerationCutoff ==
    ASSUME NEW s, JudgedGen(s).on, JudgedGen(s).after # 0,
           ctl.base \in ServiceType, ctl.base.exists, JudgedGen(s).after \in Nat
    PROVE  /\ JudgedGen(s).mode = "new" => JudgedMode(s) = "new"
           /\ JudgedMode(s) = "new" /\ JudgedGen(s).tasksAfter = 0 =>
                /\ JudgedCutoff(s).time = s.status.startedAt
                /\ JudgedCutoff(s).pending <=> s.status.startedAt <= JudgedGen(s).after
           /\ JudgedMode(s) = "new" /\ JudgedGen(s).tasksAfter # 0 =>
                /\ JudgedCutoff(s).time = JudgedGen(s).tasksAfter
                /\ JudgedCutoff(s).pending => s.status.startedAt <= JudgedGen(s).after
<1> PICK g : g = JudgedGen(s) OBVIOUS
<1> PICK b : b = JudgedBase(s) OBVIOUS
<1>1. b = [ctl.base EXCEPT !.updatedAt = g.after] BY DEF JudgedBase
<1>2. b \in ServiceType /\ b.exists BY <1>1 DEF ServiceType
<1>3. g.mode = "new" => JudgedMode(s) = "new" BY <1>2 DEF JudgedMode, serviceVerificationMode
<1> SUFFICES ASSUME JudgedMode(s) = "new"
             PROVE  /\ g.tasksAfter = 0 =>
                         /\ JudgedCutoff(s).time = s.status.startedAt
                         /\ JudgedCutoff(s).pending <=> s.status.startedAt <= g.after
                    /\ g.tasksAfter # 0 =>
                         /\ JudgedCutoff(s).time = g.tasksAfter
                         /\ JudgedCutoff(s).pending => s.status.startedAt <= g.after
  BY <1>3
<1> PICK c : c = RolloutCutoff([b EXCEPT !.updatedAt = g.after], s) OBVIOUS
<1>4. c.time = s.status.startedAt /\ (c.pending <=> s.status.startedAt <= g.after)
  <2> PICK d : d = [b EXCEPT !.updatedAt = g.after] OBVIOUS
  <2>1. d.exists /\ d.updatedAt = g.after BY <1>2 DEF ServiceType
  <2>2. c = RolloutCutoff(d, s) OBVIOUS
  <2>3. c = [time |-> s.status.startedAt, pending |-> s.status.startedAt <= g.after]
    BY <2>1, <2>2 DEF RolloutCutoff
  <2>4. c.time = s.status.startedAt /\ c.pending = (s.status.startedAt <= g.after)
    BY <2>3, CutoffFields
  <2> QED BY <2>4
<1>5. JudgedCutoff(s) = IF g.tasksAfter = 0 THEN c
                        ELSE [time |-> g.tasksAfter, pending |-> s.status # NoStatus /\ c.pending]
  BY DEF JudgedCutoff, verificationTaskCutoff
<1>6. CASE g.tasksAfter = 0
  <2>1. JudgedCutoff(s) = c BY <1>5, <1>6
  <2> QED BY <1>4, <1>6, <2>1
<1>7. CASE g.tasksAfter # 0
  <2> PICK k : k = g.tasksAfter OBVIOUS
  <2>1. JudgedCutoff(s) = [time |-> k, pending |-> s.status # NoStatus /\ c.pending]
    BY <1>5, <1>7
  <2>2. JudgedCutoff(s).time = k /\ JudgedCutoff(s).pending = (s.status # NoStatus /\ c.pending)
    BY <2>1, CutoffFields
  <2> QED BY <1>4, <1>7, <2>2
<1> QED BY <1>6, <1>7

\* The record that was seen describes the service as it is, unless it was rolled back.
LEMMA SeenSpec ==
    ASSUME IInv, MInv, NEW s \in Records, Latest(s)
    PROVE  \/ s = service
           \/ s \in past /\ Succeeded(s)
BY DEF MInv, RecordInv, Records

\* Unless something blurs it, every task has the endpoint of a service that is ready.
LEMMA EndpointReady ==
    ASSUME IInv, MInv, managed, ctl.pc = "tasks", evaluateService(ctl.seen) = "ready",
           ctl.seen.spec.replicas # 0, ~blurred
    PROVE  /\ ctl.seen.spec = service.spec
           /\ \A i \in Slots : tasks[i] # NoTask => tasks[i].ep = service.spec.ep
<1> PICK s : s = ctl.seen OBVIOUS
<1> PICK g : g = JudgedGen(s) OBVIOUS
<1>1. /\ s \in Records /\ s \in ServiceType /\ Latest(s) /\ s.updatedAt >= ctl.base.updatedAt
      /\ ~ctl.base.exists => Creating
  BY SeenLatest
<1>2. s.spec = service.spec BY <1>1 DEF MInv, BaseInv
<1>3. \A i \in Slots : tasks[i].born \in Nat BY DEF IInv, Shape, TaskType
<1>4. Held = receipt BY DEF Held
<1>5. CASE ~receipt.gen.on
  <2>1. EndpointSince(0) BY <1>4, <1>5 DEF MInv, TasksInv
  <2> QED BY <1>2, <1>3, <2>1 DEF EndpointSince
<1>6. CASE receipt.gen.on
  <2> PICK r : r = receipt.gen OBVIOUS
  <2>1. GenMeans(r) /\ Dated(r) BY <1>4, <1>6 DEF MInv, TasksInv, AttemptInv
  <2>2. ctl.base.exists /\ ctl.gen = r /\ ctl.gen.on
    BY <1>1, <1>6 DEF MInv, AttemptInv, Waiting, Creating
  <2>3. service.status.state \notin Rolled BY <2>1 DEF GenMeans
  <2>4. \/ s = service
        \/ /\ s \in past /\ s.status.state \in {"none", "updating"}
           /\ s.spec = service.spec /\ s.prev = service.prev
    BY <1>1, <2>3, SeenSpec DEF Succeeded
  <2>5. s.prev = service.prev /\ s.status.state \notin Rolled BY <2>3, <2>4 DEF Rolled
  <2>6. ~restoredCompletedRollback(s) BY <2>5 DEF restoredCompletedRollback, Rolled
  <2>7. g = Resolve(r, s.prev, s.spec) BY <2>2, <2>6 DEF JudgedGen, Resolved
  <2>8. r \in GenType /\ r.after \in Nat /\ r.tasksAfter \in Nat
    BY DEF IInv, Shape, ReceiptType, GenType
  <2>9. /\ g.on = r.on /\ g.after = r.after
        /\ \/ g.mode = "new" /\ g.tasksAfter = 0
           \/ /\ r.before = s.prev /\ ClassifyVerification(s.prev, s.spec) = "existing"
              /\ r.tasksAfter = 0
           \/ /\ r.before = s.prev /\ ClassifyVerification(s.prev, s.spec) = "existing"
              /\ r.tasksAfter # 0 /\ g = r
    BY <1>1, <2>7, <2>8, ResolveCases DEF ServiceType
  <2>10. r.after # 0 /\ (r.tasksAfter # 0 => r.mode = "new") BY <1>6, <2>1 DEF Dated
  <2>11. ctl.base \in ServiceType BY DEF IInv, Shape, CtlType
  <2>12. CASE /\ r.before = s.prev /\ ClassifyVerification(s.prev, s.spec) = "existing"
              /\ r.tasksAfter = 0 \/ (r.tasksAfter # 0 /\ g = r)
    <3>1. EndpointSince(r.tasksAfter) BY <1>2, <2>1, <2>5, <2>12 DEF GenMeans
    <3>2. CASE r.tasksAfter = 0
      <4>1. EndpointSince(0) BY <3>1, <3>2
      <4> QED BY <1>2, <1>3, <4>1 DEF EndpointSince
    <3>3. CASE r.tasksAfter # 0 /\ g = r
      <4>1. /\ g.on /\ g.after # 0 /\ g.after \in Nat /\ g.mode = "new" /\ g.tasksAfter # 0
            /\ ctl.base.exists
        BY <1>6, <2>2, <2>8, <2>10, <3>3
      <4>2. JudgedMode(s) = "new" BY <2>11, <4>1, GenerationCutoff
      <4>3. JudgedCutoff(s).time = g.tasksAfter BY <2>11, <4>1, <4>2, GenerationCutoff
      <4>4. \A i \in Slots : tasks[i].born >= r.tasksAfter BY <3>3, <4>2, <4>3, AllVerified
      <4> QED BY <1>2, <3>1, <4>4 DEF EndpointSince
    <3> QED BY <2>12, <3>2, <3>3
  <2>13. CASE g.mode = "new" /\ g.tasksAfter = 0
    <3>1. /\ JudgedMode(s) = "new" /\ JudgedCutoff(s).time = s.status.startedAt
          /\ JudgedCutoff(s).pending <=> s.status.startedAt <= r.after
      BY <1>6, <2>2, <2>8, <2>9, <2>10, <2>11, <2>13, GenerationCutoff
    <3>2. /\ ~JudgedCutoff(s).pending /\ s.status.state # "updating"
          /\ s.status.state \notin FailedStates
      BY <2>6, ReadyMeans
    <3>3. s.status \in StatusType /\ s.status.startedAt \in Nat BY <1>1 DEF ServiceType, StatusType
    <3>4. s.status.startedAt > r.after BY <2>8, <3>1, <3>2, <3>3
    <3>5. s.status.state # "none"
      <4>1. s.status.state = "none" => s.status.startedAt = 0
        BY <1>1 DEF MInv, RecordInv, NoStatus
      <4> QED BY <2>8, <3>4, <4>1
    <3>6. s.status.state = "completed" BY <3>2, <3>3, <3>5 DEF StatusType
    <3>7. s = service BY <2>4, <3>6
    <3>8. EndpointSince(s.status.startedAt) BY <3>6, <3>7 DEF MInv, TaskInv
    <3>9. \A i \in Slots : tasks[i].born >= s.status.startedAt BY <3>1, AllVerified
    <3> QED BY <1>2, <3>8, <3>9 DEF EndpointSince
  <2> QED BY <2>9, <2>12, <2>13
<1> QED BY <1>2, <1>5, <1>6

\* Which tasks count for an obligation without a generation.
LEMMA InheritedCutoff ==
    ASSUME NEW s, ~JudgedGen(s).on, JudgedUnresolved(s), ctl.base.exists, s \in ServiceType,
           ctl.base \in ServiceType, s.updatedAt >= ctl.base.updatedAt
    PROVE  LET new == ClassifyVerification(ctl.base.spec, s.spec) = "new"
           IN /\ new => /\ JudgedMode(s) = "new"
                        /\ JudgedCutoff(s) = RolloutCutoff(ctl.base, s)
              /\ ~new /\ s.prev # NoSpec => JudgedMode(s) = ClassifyVerification(s.prev, s.spec)
              /\ ~new /\ JudgedMode(s) = "new" /\ s.status = NoStatus /\ s.prev # NoSpec =>
                    JudgedCutoff(s) = [time |-> 0, pending |-> TRUE]
              /\ ~new /\ JudgedMode(s) = "new" /\ s.status # NoStatus =>
                    JudgedCutoff(s) = IF s.prev # NoSpec /\ SameTemplate(s.prev, s.spec)
                                        THEN RolloutCutoff(ctl.base, s)
                                        ELSE [time |-> s.status.startedAt, pending |-> FALSE]
<1> PICK g : g = JudgedGen(s) OBVIOUS
<1> PICK b : b = ctl.base OBVIOUS
<1> PICK m : m = JudgedMode(s) OBVIOUS
<1>1. JudgedBase(s) = b BY DEF JudgedBase
<1>2. ~(s.updatedAt < b.updatedAt) BY DEF ServiceType
<1>3. m = serviceVerificationMode(b, s, TRUE, g) BY <1>1 DEF JudgedMode
<1>4. JudgedCutoff(s) = verificationTaskCutoff(b, s, m, TRUE, g) BY <1>1 DEF JudgedCutoff
<1>5. ClassifyVerification(b.spec, s.spec) \in {"existing", "new"} BY DEF ClassifyVerification
<1>6. CASE ClassifyVerification(b.spec, s.spec) = "new"
  <2>1. m = "new" BY <1>2, <1>3, <1>6 DEF serviceVerificationMode
  <2>2. JudgedCutoff(s) = RolloutCutoff(b, s)
    BY <1>4, <1>6, <2>1 DEF verificationTaskCutoff
  <2> QED BY <1>6, <2>1, <2>2
<1>7. CASE ClassifyVerification(b.spec, s.spec) # "new"
  <2>1. s.prev # NoSpec => m = ClassifyVerification(s.prev, s.spec)
    BY <1>2, <1>3, <1>7 DEF serviceVerificationMode
  <2>2. m = "new" /\ s.status = NoStatus /\ s.prev # NoSpec =>
           JudgedCutoff(s) = [time |-> 0, pending |-> TRUE]
    BY <1>2, <1>4, <1>5, <1>7 DEF verificationTaskCutoff
  <2>3. m = "new" /\ s.status # NoStatus =>
           JudgedCutoff(s) = IF s.prev # NoSpec /\ SameTemplate(s.prev, s.spec)
                               THEN RolloutCutoff(b, s)
                               ELSE [time |-> s.status.startedAt, pending |-> FALSE]
    BY <1>2, <1>4, <1>5, <1>7 DEF verificationTaskCutoff
  <2> QED BY <1>7, <2>1, <2>2, <2>3
<1> QED BY <1>6, <1>7

\* A service that is ready although no update was started since the write: its tasks are
\* those of the specification that the write replaced.
LEMMA RollbackKnown ==
    ASSUME IInv, MInv, managed, ctl.pc = "tasks", evaluateService(ctl.seen) = "ready",
           ctl.seen.status.state = "none", ctl.seen.spec.replicas # 0
    PROVE  \/ ctl.seen.prev = NoSpec
           \/ ClassifyVerification(ctl.seen.prev, ctl.seen.spec) = "existing"
           \/ ~receipt.unresolved /\ ~ctl.changed
<1> PICK s : s = ctl.seen OBVIOUS
<1> PICK g : g = JudgedGen(s) OBVIOUS
<1>1. /\ s \in Records /\ s \in ServiceType /\ s.updatedAt >= ctl.base.updatedAt
      /\ ~ctl.base.exists => Creating /\ s = service
  BY SeenLatest
<1>2. s.status = NoStatus /\ s.status.startedAt = 0
  BY <1>1 DEF MInv, RecordInv, NoStatus
<1>3. ~restoredCompletedRollback(s) BY DEF restoredCompletedRollback
<1>4. g = Resolved(s) /\ JudgedUnresolved(s) = ctl.inherited
  BY <1>3 DEF JudgedGen, JudgedUnresolved, IInv, Shape, CtlType
<1>5. ~JudgedCutoff(s).pending BY ReadyMeans
<1>6. ctl.base \in ServiceType /\ ctl.base.updatedAt \in Nat /\ ctl.gen \in GenType
  BY DEF IInv, Shape, CtlType, ServiceType
<1>7. CASE ~ctl.base.exists BY <1>1, <1>7 DEF Creating
<1>8. CASE ctl.base.exists /\ ctl.gen.on
  <2>1. g = Resolve(ctl.gen, s.prev, s.spec) BY <1>4, <1>8 DEF Resolved
  <2>2. ctl.gen.after # 0 /\ ctl.gen.after \in Nat
    BY <1>6, <1>8 DEF MInv, AttemptInv, Waiting, Dated, GenType
  <2>3. /\ g.on = ctl.gen.on /\ g.after = ctl.gen.after
        /\ \/ g.mode = "new" /\ g.tasksAfter = 0
           \/ ClassifyVerification(s.prev, s.spec) = "existing"
    BY <1>1, <1>6, <2>1, ResolveCases DEF ServiceType
  <2>4. CASE g.mode = "new" /\ g.tasksAfter = 0
    <3>1. JudgedCutoff(s).pending <=> s.status.startedAt <= g.after
      BY <1>6, <1>8, <2>2, <2>3, <2>4, GenerationCutoff
    <3> QED BY <1>2, <1>5, <2>2, <2>3, <3>1
  <2> QED BY <2>3, <2>4
<1>9. CASE ctl.base.exists /\ ~ctl.gen.on
  <2>1. SUFFICES ASSUME ctl.inherited, s.prev # NoSpec,
                        ClassifyVerification(s.prev, s.spec) # "existing"
                 PROVE  FALSE
    BY <1>9 DEF MInv, AttemptInv, Waiting
  <2>2. ~g.on BY <1>4, <1>9 DEF Resolved, NoGen
  <2>3. JudgedUnresolved(s) BY <1>4, <2>1
  <2>4. CASE ClassifyVerification(ctl.base.spec, s.spec) = "new"
    <3>1. JudgedCutoff(s) = RolloutCutoff(ctl.base, s)
      BY <1>1, <1>6, <1>9, <2>2, <2>3, <2>4, InheritedCutoff
    <3>2. JudgedCutoff(s) = [time |-> 0, pending |-> 0 <= ctl.base.updatedAt]
      BY <1>2, <1>9, <3>1 DEF RolloutCutoff
    <3>3. JudgedCutoff(s).pending = (0 <= ctl.base.updatedAt) BY <3>2, CutoffFields
    <3>4. 0 <= ctl.base.updatedAt BY <1>6
    <3> QED BY <1>5, <3>3, <3>4
  <2>5. CASE ClassifyVerification(ctl.base.spec, s.spec) # "new"
    <3>1. JudgedMode(s) = "new"
      BY <1>1, <1>6, <1>9, <2>1, <2>2, <2>3, <2>5, InheritedCutoff DEF ClassifyVerification
    <3>2. JudgedCutoff(s) = [time |-> 0, pending |-> TRUE]
      BY <1>1, <1>2, <1>6, <1>9, <2>1, <2>2, <2>3, <2>5, <3>1, InheritedCutoff
    <3> QED BY <1>5, <3>2
  <2> QED BY <2>4, <2>5
<1> QED BY <1>7, <1>8, <1>9

\* Whatever the orchestrator has made of the record that was seen, the specification asks
\* for the same tasks.
LEMMA SeenAsksTheSame ==
    ASSUME IInv, MInv, managed, ctl.pc = "tasks", evaluateService(ctl.seen) = "ready"
    PROVE  /\ service.exists
           /\ ctl.seen.spec.tmpl = service.spec.tmpl /\ ctl.seen.spec.ep = service.spec.ep
           /\ \/ ctl.seen = service
              \/ ctl.seen.spec.replicas # 0 /\ service.status.state \in Rolled
              \/ /\ ctl.seen.spec.replicas # 0 /\ ctl.seen.status.state = "none"
                 /\ ctl.seen.spec = service.spec /\ ctl.seen.prev = service.prev
<1> PICK s : s = ctl.seen OBVIOUS
<1>1. /\ s \in Records /\ s \in ServiceType /\ Latest(s) /\ s.updatedAt >= ctl.base.updatedAt
      /\ s.exists
  BY SeenLatest
<1>2. service.exists
  <2>1. ~service.exists => service.updatedAt = 0 BY DEF IInv, VersionInv
  <2>2. s \in past => s.updatedAt < service.updatedAt /\ s.updatedAt \in Nat
    BY <1>1 DEF IInv, VersionInv, ServiceType
  <2> QED BY <1>1, <2>1, <2>2, RecordTypes DEF Records
<1>3. CASE s = service BY <1>2, <1>3
<1>4. CASE s # service
  <2>1. s \in past /\ Succeeded(s) BY <1>1, <1>4, SeenSpec
  <2>2. s.status.state # "rollback_started"
    BY ReadyMeans DEF FailedStates, restoredCompletedRollback
  <2>3. s.spec.replicas # 0 BY <2>1, <2>2 DEF Succeeded
  <2>4. s.status.state = "none" BY <2>1, <2>2, <2>3, ReadyMeans DEF Succeeded
  <2>5. CASE s.spec = service.spec /\ s.prev = service.prev BY <1>2, <2>3, <2>4, <2>5
  <2>6. CASE service.status.state \in Rolled /\ service.spec = s.prev /\ s.prev # NoSpec
    <3>1. ClassifyVerification(s.prev, s.spec) = "existing"
      <4>1. CASE ~receipt.unresolved /\ ~ctl.changed
        <5>1. Settling BY DEF MInv, BaseInv
        <5>2. Held = receipt BY DEF Held
        <5> QED BY <1>1, <2>1, <2>2, <2>6, <4>1, <5>1, <5>2 DEF Settling
      <4> QED BY <2>3, <2>4, <2>6, <4>1, RollbackKnown
    <3>2. s.spec.tmpl = service.spec.tmpl /\ s.spec.ep = service.spec.ep
      BY <2>6, <3>1 DEF ClassifyVerification, SameTemplate
    <3> QED BY <1>2, <2>3, <2>6, <3>2
  <2> QED BY <2>1, <2>5, <2>6 DEF Succeeded
<1> QED BY <1>3, <1>4

\* What a service that is ready shows of its tasks.
LEMMA ReadySound ==
    ASSUME IInv, MInv, managed, ctl.pc = "tasks", evaluateService(ctl.seen) = "ready"
    PROVE  /\ service.exists /\ RolledOut /\ Filled
           /\ ~blurred \/ (\A i \in DesiredTasks : tasks[i].ep = Want.ep) => EndpointSince(0)
<1> PICK s : s = ctl.seen OBVIOUS
<1>1. s.spec.tmpl = Want.tmpl /\ s.spec.ep = Want.ep /\ s.spec.replicas = Want.replicas
  BY ReadyMeans DEF SpecsEqual
<1>2. /\ service.exists /\ s.spec.tmpl = service.spec.tmpl /\ s.spec.ep = service.spec.ep
      /\ \/ s = service
         \/ s.spec.replicas # 0 /\ service.status.state \in Rolled
         \/ /\ s.spec.replicas # 0 /\ s.status.state = "none"
            /\ s.spec = service.spec /\ s.prev = service.prev
  BY SeenAsksTheSame
<1>3. CASE s.spec.replicas = 0
  <2>1. s = service BY <1>2, <1>3
  <2>2. \A i \in Slots : tasks[i] = NoTask BY <1>3, ReadyMeans DEF MInv, TaskInv
  <2>3. RolledOut BY <1>1, <1>3 DEF RolledOut, Scaled, Want
  <2>4. Filled BY <1>3, <2>1 DEF Filled, Scaled
  <2>5. EndpointSince(0) BY <2>2 DEF EndpointSince
  <2> QED BY <1>2, <2>3, <2>4, <2>5
<1>4. CASE s.spec.replicas # 0
  <2>1. \A i \in Slots : tasks[i] # NoTask /\ tasks[i].tmpl = s.spec.tmpl BY <1>4, AllVerified
  <2>2. ~blurred => \A i \in Slots : tasks[i].ep = service.spec.ep
    BY <1>4, <2>1, EndpointReady
  <2>3. RolledOut BY <1>1, <1>2, <2>1, <2>2 DEF RolledOut, Scaled, Want
  <2>4. ~blurred \/ (\A i \in DesiredTasks : tasks[i].ep = Want.ep) => EndpointSince(0)
    BY <1>1, <1>2, <2>2 DEF EndpointSince, DesiredTasks
  <2>5. Filled
    <3>1. \A i \in Scaled(service.spec) : tasks[i] # NoTask /\ tasks[i].tmpl = service.spec.tmpl
      BY <1>2, <2>1 DEF Scaled
    <3>2. SUFFICES ASSUME service.status.state \in {"none", "updating"}
                   PROVE  Filled
      BY <3>1 DEF Filled
    <3>3. /\ s.spec = service.spec /\ s.prev = service.prev /\ s.status.state = "none"
      BY <1>2, <1>4, <3>2, ReadyMeans DEF Rolled
    <3>4. CASE ~receipt.unresolved /\ ~ctl.changed
      <4>1. Held = receipt BY DEF Held
      <4> QED BY <1>2, <3>4, <4>1 DEF MInv, TasksInv
    <3>5. CASE s.prev = NoSpec \/ ClassifyVerification(s.prev, s.spec) = "existing"
      BY <3>1, <3>3, <3>5 DEF Filled
    <3> QED BY <1>4, <3>3, <3>4, <3>5, RollbackKnown
  <2> QED BY <1>2, <2>3, <2>4, <2>5
<1> QED BY <1>3, <1>4

-----------------------------------------------------------------------------
(* The steps of a managed service.                                         *)

\* A service is left alone only if its tasks are of the desired specification.
LEMMA AloneSound ==
    ASSUME IInv, MInv, managed, ctl.pc = "apply", service.exists,
           ~updateRequired(service), ~IsTarget(FALSE)
    PROVE  /\ RolledOut /\ Filled
           /\ ~blurred \/ (\A i \in DesiredTasks : tasks[i].ep = Want.ep) => EndpointSince(0)
<1>1. /\ service.spec.tmpl = Want.tmpl /\ service.spec.ep = Want.ep
      /\ service.spec.replicas = Want.replicas
  BY DEF updateRequired, SpecsEqual
<1>2. Held = receipt /\ ~Waiting BY DEF Held, Waiting
<1>3. ~receipt.unresolved /\ ~ctl.changed
  BY <1>2 DEF IsTarget, MInv, AttemptInv
<1>4. ~receipt.gen.on BY <1>3 DEF IInv, ReceiptInv
<1>5. Filled BY <1>2, <1>3 DEF MInv, TasksInv
<1>6. ~blurred => EndpointSince(0) BY <1>2, <1>4 DEF MInv, TasksInv
<1>7. (\A i \in DesiredTasks : tasks[i].ep = Want.ep) => EndpointSince(0)
  BY <1>1 DEF DesiredTasks, EndpointSince
<1>8. RolledOut
  <2> SUFFICES ASSUME NEW i \in Scaled(Want)
               PROVE  tasks[i].tmpl = Want.tmpl /\ (blurred \/ tasks[i].ep = Want.ep)
    BY DEF RolledOut, Want
  <2>1. i \in Slots /\ i \in Scaled(service.spec) BY <1>1 DEF Scaled
  <2>2. tasks[i] # NoTask /\ tasks[i].tmpl = service.spec.tmpl BY <1>5, <2>1 DEF Filled
  <2>3. tasks[i].born >= 0 BY <2>1 DEF IInv, Shape, TaskType
  <2> QED BY <1>1, <1>6, <2>1, <2>2, <2>3 DEF EndpointSince
<1> QED BY <1>5, <1>6, <1>7, <1>8

\* Where an attempt succeeds.
LEMMA SuccessSound ==
    ASSUME IInv, RInv, managed, Step, Succeeds
    PROVE  /\ service.exists /\ RolledOut /\ Filled
           /\ ~blurred \/ (\A i \in DesiredTasks : tasks[i].ep = Want.ep) => EndpointSince(0)
<1>1. MInv BY DEF RInv
<1>2. dep \in DepType /\ dep.status = "running" /\ dep'.status = "succeeded"
  BY DEF IInv, Shape, Succeeds
<1>3. ASSUME NEW status \in {"failed", "interrupted"}, dep' = [dep EXCEPT !.status = status]
      PROVE  FALSE
  BY <1>2, <1>3 DEF DepType
<1>4. dep' # dep BY <1>2
<1>5. CASE Inspect
  <2>1. ctl.pc = "apply" /\ service.exists BY <1>5 DEF Inspect
  <2>2. ~updateRequired(service) /\ ~IsTarget(FALSE)
    BY <1>4, <1>5 DEF Inspect, LeaveAlone
  <2> QED BY <1>1, <2>1, <2>2, AloneSound
<1>6. CASE Observe
  <2>1. ctl.pc = "tasks" BY <1>6 DEF Observe
  <2>2. Verdict = "ready"
    <3>1. CASE Verdict = "failed" /\ Complete("failed", TRUE) BY <1>3, <3>1 DEF Complete
    <3> QED BY <1>4, <1>6, <3>1 DEF Observe
  <2> QED BY <1>1, <2>1, <2>2, ReadySound DEF Verdict
<1>7. CASE checkUpdateSafety BY <1>1, <1>7 DEF checkUpdateSafety, MInv, AttemptInv
<1>8. CASE \E d \in Definitions : Begin(d) BY <1>2, <1>8 DEF Begin
<1>9. CASE \/ CaptureBaseline \/ inspectOrCreate \/ RecordUpdateGeneration \/ Poll
           \/ RefreshRegistryAuth \/ RotateCredentials
           \/ (Orchestrator \/ RequestExecution) /\ UNCHANGED rolloutVars
  BY <1>4, <1>9
     DEF CaptureBaseline, inspectOrCreate, RecordUpdateGeneration, Poll, RefreshRegistryAuth,
         RotateCredentials, rolloutVars
<1>10. CASE UpdateAccepted \/ UpdateRefused \/ refreshConcurrentUpdate
  BY <1>3, <1>4, <1>10
     DEF UpdateAccepted, UpdateRefused, refreshConcurrentUpdate, RefusedWith
<1>11. CASE ApplyFails \/ WaitInterrupted \/ Crash
  BY <1>3, <1>11 DEF ApplyFails, WaitInterrupted, Crash, Complete
<1> QED BY <1>5, <1>6, <1>7, <1>8, <1>9, <1>10, <1>11 DEF Step, Apply

LEMMA SuccessManaged ==
    ASSUME IInv, RInv, managed, Step, History, Complete("succeeded", FALSE), ctl.pc # "idle"
    PROVE  MInv'
<1>1. dep.status = "running" /\ dep \in DepType BY DEF IInv, Shape, ReceiptInv
<1>2. dep' = [dep EXCEPT !.status = "succeeded"] /\ receipt' = Receipt(FALSE, NoGen)
      /\ ctl' = Idle /\ UNCHANGED swarmVars
  BY DEF Complete
<1>3. Succeeds BY <1>1, <1>2 DEF Succeeds, DepType
<1>4. /\ service.exists /\ Filled
      /\ ~blurred \/ (\A i \in DesiredTasks : tasks[i].ep = Want.ep) => EndpointSince(0)
  BY <1>3, SuccessSound
<1>5. ~blurred' => ~blurred \/ \A i \in DesiredTasks : tasks[i].ep = Want.ep
  BY DEF History, RInv
<1>6. ~receipt'.unresolved /\ ~receipt'.gen.on BY <1>2 DEF Receipt, NoGen
<1>7. Dated(receipt'.gen) BY <1>6 DEF Dated
<1> QED BY <1>2, <1>4, <1>5, <1>6, <1>7, AttemptOver DEF RInv

LEMMA InspectManaged ==
    ASSUME IInv, RInv, managed, Step, History, Inspect PROVE MInv'
<1>1. ctl.pc = "apply" /\ service.exists BY DEF Inspect
<1>2. CASE updateRequired(service) BY <1>1, <1>2, AdvanceManaged DEF Inspect
<1>3. CASE ~updateRequired(service) /\ IsTarget(FALSE)
  BY <1>1, <1>3, ObservedManaged DEF Inspect, LeaveAlone
<1>4. CASE ~updateRequired(service) /\ ~IsTarget(FALSE)
  BY <1>1, <1>4, SuccessManaged DEF Inspect, LeaveAlone
<1> QED BY <1>2, <1>3, <1>4

LEMMA ObserveManaged ==
    ASSUME IInv, RInv, managed, Step, History, Observe PROVE MInv'
<1>1. ctl.pc = "tasks" BY DEF Observe
<1>2. CASE Complete("succeeded", FALSE) BY <1>1, <1>2, SuccessManaged
<1>3. CASE Complete("failed", TRUE) BY <1>3, CompleteLost
<1>4. CASE /\ ctl' = [ctl EXCEPT !.pc = "poll", !.seen = NoService]
           /\ UNCHANGED <<swarmVars, dep, receipt, auth, attempts>>
  BY <1>1, <1>4, PendingManaged
<1> QED BY <1>2, <1>3, <1>4 DEF Observe

LEMMA NextManaged ==
    ASSUME IInv, IInv', RInv, managed, Next PROVE MInv'
<1>1. Step /\ History BY DEF Next
<1>2. MInv BY DEF RInv
<1>3. CASE \E d \in Definitions : Begin(d) BY <1>1, <1>3, BeginManaged
<1>4. CASE CaptureBaseline BY <1>1, <1>4, CaptureBaselineManaged
<1>5. CASE Apply
  <2>1. ~checkUpdateSafety BY <1>2 DEF checkUpdateSafety, MInv, AttemptInv
  <2> QED BY <1>1, <1>5, <2>1, inspectOrCreateManaged, InspectManaged, UpdateAcceptedManaged,
             RecordUpdateGenerationManaged, UpdateRefusedManaged, refreshConcurrentUpdateManaged
          DEF Apply
<1>6. CASE ApplyFails BY <1>1, <1>6, ApplyFailsManaged
<1>7. CASE Poll BY <1>1, <1>7, PollManaged
<1>8. CASE Observe BY <1>1, <1>8, ObserveManaged
<1>9. CASE WaitInterrupted BY <1>1, <1>9, CompleteLost DEF WaitInterrupted
<1>10. CASE Crash BY <1>1, <1>10, CrashManaged
<1>11. CASE RefreshRegistryAuth BY <1>1, <1>11, RefreshRegistryAuthManaged
<1>12. CASE RotateCredentials
  <2>1. UNCHANGED <<swarmVars, dep, receipt, ctl>> /\ ~auth' BY <1>12 DEF RotateCredentials
  <2>2. blurred' = blurred BY <1>1, <2>1, GoesOnBlur
  <2> QED BY <2>1, <2>2, AuthManaged
<1>13. CASE Orchestrator /\ UNCHANGED rolloutVars BY <1>1, <1>13, OrchestratorManaged
<1>14. ~RequestExecution BY DEF RequestExecution
<1> QED BY <1>1, <1>3, <1>4, <1>5, <1>6, <1>7, <1>8, <1>9, <1>10, <1>11, <1>12, <1>13, <1>14
        DEF Step

LEMMA InitManaged ==
    ASSUME Init PROVE RInv
<1>1. /\ past = {} /\ now = IF service.exists THEN service.updatedAt ELSE 1
      /\ receipt = Receipt(FALSE, NoGen) /\ ctl = Idle /\ blurred = FALSE
      /\ tasks = [i \in Slots |->
            IF i \in Scaled(service.spec)
              THEN [tmpl |-> service.spec.tmpl, ep |-> service.spec.ep, force |-> 0,
                    born |-> IF service.prev = NoSpec THEN 1 ELSE 3, state |-> "running"]
              ELSE NoTask]
  BY DEF Init
<1>2. \/ service = NoService
      \/ /\ service.exists
         /\ service.updatedAt = IF service.prev = NoSpec THEN 1 ELSE 4
         /\ service.status = IF service.prev = NoSpec THEN NoStatus
                             ELSE [state |-> "completed", startedAt |-> 3]
  <2> DEFINE First(d, p) ==
        service = [NoService EXCEPT !.exists = TRUE, !.createdAt = 1, !.prev = p,
                          !.updatedAt = IF p = NoSpec THEN 1 ELSE 4,
                          !.status = IF p = NoSpec THEN NoStatus
                                     ELSE [state |-> "completed", startedAt |-> 3],
                          !.spec = [d EXCEPT !.replicas = IF managed THEN @ ELSE 0]]
  <2>1. service = NoService \/ \E d, p : First(d, p) BY Zenon DEF Init
  <2>2. ASSUME NEW d, NEW p, First(d, p)
        PROVE  /\ service.exists /\ service.updatedAt = IF service.prev = NoSpec THEN 1 ELSE 4
               /\ service.status = IF service.prev = NoSpec THEN NoStatus
                                   ELSE [state |-> "completed", startedAt |-> 3]
    <3> PICK spec : spec = [d EXCEPT !.replicas = IF managed THEN @ ELSE 0] OBVIOUS
    <3> PICK st : st = IF p = NoSpec THEN NoStatus ELSE [state |-> "completed", startedAt |-> 3]
      OBVIOUS
    <3> PICK n : n = IF p = NoSpec THEN 1 ELSE 4 OBVIOUS
    <3>1. service = [exists |-> TRUE, spec |-> spec, prev |-> p, createdAt |-> 1,
                     updatedAt |-> n, status |-> st]
      BY <2>2 DEF NoService
    <3>2. service.exists /\ service.prev = p /\ service.updatedAt = n /\ service.status = st
      <4> HIDE DEF First
      <4> QED BY <3>1
    <3> HIDE DEF First
    <3> QED BY <3>2
  <2> HIDE DEF First
  <2> QED BY <2>1, <2>2
<1>3. /\ NoService.updatedAt = 0 /\ ~NoService.exists /\ NoService.status = NoStatus
      /\ NoService.prev = NoSpec /\ NoService.spec = NoSpec /\ NoStatus.state = "none"
      /\ NoSpec.replicas = 0
  BY DEF NoService, NoSpec, NoStatus
<1>4. \/ /\ service.status = NoStatus /\ service.prev = NoSpec
         /\ service.exists => now = 1
      \/ /\ service.status.state = "completed" /\ service.status.startedAt = 3
         /\ service.exists /\ service.updatedAt = 4 /\ service.prev # NoSpec /\ now = 4
  BY <1>1, <1>2, <1>3
<1>5. now # 0 /\ (~service.exists => service = NoService) BY <1>1, <1>2, <1>3
<1>6. \A i \in Slots :
        IF i \in Scaled(service.spec)
          THEN /\ tasks[i] # NoTask /\ tasks[i].tmpl = service.spec.tmpl
               /\ tasks[i].ep = service.spec.ep /\ tasks[i].state = "running"
               /\ tasks[i].born = IF service.prev = NoSpec THEN 1 ELSE 3
          ELSE tasks[i] = NoTask
  BY <1>1 DEF NoTask
<1>7. \A i \in Slots : tasks[i] # NoTask => i \in Scaled(service.spec) /\ service.exists
  BY <1>3, <1>5, <1>6 DEF Scaled
<1>8. \A t : EndpointSince(t) BY <1>6, <1>7 DEF EndpointSince
<1>9. Records = {service} BY <1>1 DEF Records
<1>10. RecordInv BY <1>1, <1>3, <1>4, <1>5, <1>9 DEF RecordInv
<1>11. TaskInv
  <2>1. ASSUME NEW i \in Slots, tasks[i] # NoTask
        PROVE  tasks[i].born <= now /\ Active(tasks[i]) /\ service.exists
    BY <1>4, <1>6, <1>7, <2>1 DEF Active
  <2>2. service.spec.replicas = 0 => \A i \in Slots : tasks[i] = NoTask
    BY <1>7 DEF Scaled
  <2>3. service.status.state # "updating" BY <1>3, <1>4
  <2> QED BY <1>8, <2>1, <2>2, <2>3 DEF TaskInv
<1>12. ctl.pc = "idle" /\ ~ctl.changed BY <1>1 DEF Idle
<1>13. ~receipt.unresolved /\ ~receipt.gen.on /\ Held = receipt
  BY <1>1, <1>12 DEF Receipt, NoGen, Held
<1>14. BaseInv BY <1>12 DEF BaseInv
<1>15. AttemptInv BY <1>12, <1>13 DEF AttemptInv, Dated, Waiting
<1>16. Filled
  <2>1. Scaled(service.spec) \subseteq Slots BY DEF Scaled
  <2> QED BY <1>3, <1>4, <1>6, <2>1 DEF Filled
<1>17. TasksInv BY <1>8, <1>13, <1>16 DEF TasksInv
<1> QED BY <1>1, <1>10, <1>11, <1>14, <1>15, <1>17 DEF RInv, MInv

\* Whoever manages the replicas does so throughout.
LEMMA ManagedFixed ==
    ASSUME IInv, Next PROVE managed' = managed
<1>1. ASSUME UNCHANGED swarmVars PROVE managed' = managed BY <1>1 DEF swarmVars
<1>2. CASE Orchestrator \/ RequestExecution
  BY <1>2
     DEF Orchestrator, StartUpdate, FinishUpdate, FillSlot, RemoveTask, ReplaceTask, UpdateFails,
         TaskRuns, TaskEnds, Spawn, Keep, Store, RequestExecution, AcceptUpdate
<1>3. CASE RefreshRegistryAuth \/ inspectOrCreate \/ UpdateAccepted
  BY <1>3
     DEF RefreshRegistryAuth, inspectOrCreate, UpdateAccepted, AcceptUpdate, AcceptCreate, Store
<1>4. CASE \/ \E d \in Definitions : Begin(d)
           \/ CaptureBaseline \/ ApplyFails \/ Poll \/ Observe \/ WaitInterrupted \/ Crash
           \/ RotateCredentials
  BY <1>1, <1>4
     DEF Begin, CaptureBaseline, ApplyFails, Complete, Poll, Observe, WaitInterrupted, Crash,
         RotateCredentials
<1>5. CASE \/ Inspect \/ checkUpdateSafety \/ RecordUpdateGeneration \/ UpdateRefused
           \/ refreshConcurrentUpdate
  BY <1>1, <1>5
     DEF Inspect, LeaveAlone, Complete, checkUpdateSafety, RecordUpdateGeneration, UpdateRefused,
         refreshConcurrentUpdate
<1> QED BY <1>2, <1>3, <1>4, <1>5 DEF Next, Step, Apply

LEMMA ManagedKeeps ==
    ASSUME IInv, IInv', RInv, [Next]_vars PROVE RInv'
<1>1. CASE Next
  <2>1. blurred' \in BOOLEAN BY <1>1 DEF Next, History
  <2>2. managed' = managed BY <1>1, ManagedFixed
  <2> QED BY <1>1, <2>1, <2>2, NextManaged DEF RInv
<1>2. CASE UNCHANGED vars
  <2>1. /\ UNCHANGED <<swarmVars, dep, receipt, ctl, blurred>> /\ auth' = auth
        /\ managed' = managed
    BY <1>2 DEF vars, rolloutVars, swarmVars
  <2> QED BY <2>1, AuthManaged DEF RInv
<1> QED BY <1>1, <1>2

(***************************************************************************)
(* The inductive invariant of a managed service: which record is a         *)
(* client's latest and what the orchestrator made of it, which tasks have  *)
(* the endpoint of the specification, and what the receipt (its            *)
(* transactions in verification.go) and the attempt in progress            *)
(* (updateGeneration, the waiter's baseline) say of both.                  *)
(***************************************************************************)
THEOREM ManagedInductive == Spec => []RInv
<1>1. Init => RInv BY InitManaged
<1>2. IInv /\ IInv' /\ RInv /\ [Next]_vars => RInv' BY ManagedKeeps
<1> QED BY <1>1, <1>2, RolloutInductive, PTL DEF Spec

(***************************************************************************)
(* An attempt on a managed service succeeds only when every task belongs   *)
(* to the desired specification, its endpoint included unless an intent    *)
(* was abandoned or an update rolled back since the endpoint was last      *)
(* rolled out: for any number of slots, definitions, attempts and faults,  *)
(* and whichever record the poll returned (apply, evaluateService).        *)
(***************************************************************************)
THEOREM SuccessIsRolledOut == Spec => SuccessMeansRolledOut
<1>1. IInv /\ RInv /\ [Next]_vars => [managed /\ Succeeds => RolledOut]_vars
  BY SuccessSound DEF Next
<1> QED BY <1>1, RolloutInductive, ManagedInductive, PTL DEF Spec, SuccessMeansRolledOut

-----------------------------------------------------------------------------
(* A converged service is recognised.                                      *)

\* Nothing holds the verdict back, and every task is new enough.
LEMMA ConvergedCutoff ==
    ASSUME IInv, MInv, managed, ctl.pc = "tasks", ctl.seen = service, service.exists,
           service.status.state = "completed", ctl.base.exists, ~blurred, ~Undated,
           \A i \in Slots : tasks[i].born >= service.status.startedAt
    PROVE  /\ ~MetadataPending(service, JudgedGen(service)) /\ ~JudgedCutoff(service).pending
           /\ JudgedMode(service) = "new" =>
                \A i \in Slots : tasks[i].born >= JudgedCutoff(service).time
<1> PICK s : s = service OBVIOUS
<1> PICK g : g = JudgedGen(s) OBVIOUS
<1>1. /\ s \in ServiceType /\ s.status.startedAt \in Nat /\ s.updatedAt \in Nat
      /\ ctl.base \in ServiceType /\ ctl.base.updatedAt \in Nat /\ ctl.gen \in GenType
      /\ ctl.gen.after \in Nat /\ ctl.gen.tasksAfter \in Nat
      /\ ctl.inherited \in BOOLEAN
      /\ \A i \in Slots : tasks[i].born \in Nat
  BY RecordTypes DEF IInv, Shape, CtlType, ServiceType, GenType, TaskType
<1>2. ~restoredCompletedRollback(s) BY DEF restoredCompletedRollback
<1>3. g = Resolved(s) /\ JudgedUnresolved(s) = ctl.inherited
  BY <1>1, <1>2 DEF JudgedGen, JudgedUnresolved
<1>4. ctl.base.updatedAt <= s.updatedAt /\ Updating BY DEF MInv, BaseInv
<1>5. ctl.gen = receipt.gen /\ Held = receipt /\ Waiting
  BY DEF MInv, AttemptInv, Waiting, Held
<1>6. JudgedMode(s) # "new" =>
        JudgedCutoff(s).time = 0 /\ JudgedCutoff(s).pending = FALSE
  BY DEF JudgedCutoff, verificationTaskCutoff
<1>7. s.status # NoStatus BY DEF NoStatus
<1>8. CASE ctl.gen.on
  <2>1. /\ GenMeans(ctl.gen) /\ ctl.gen.after # 0
        /\ ctl.gen.tasksAfter # 0 => ctl.gen.mode = "new"
    BY <1>5, <1>8 DEF MInv, TasksInv, AttemptInv, Dated
  <2>2. /\ ctl.gen.after < s.updatedAt /\ ctl.gen.tasksAfter <= ctl.gen.after
        /\ s.status.startedAt > ctl.gen.after
    BY <2>1 DEF GenMeans
  <2>3. g = Resolve(ctl.gen, s.prev, s.spec) BY <1>3, <1>8 DEF Resolved
  <2>4. /\ g.on = ctl.gen.on /\ g.after = ctl.gen.after
        /\ g.tasksAfter = 0 \/ g.tasksAfter = ctl.gen.tasksAfter
    BY <1>1, <2>3, ResolveCases DEF ServiceType
  <2>5. ~MetadataPending(s, g) BY <1>1, <1>4, <2>2, <2>4 DEF MetadataPending
  <2>6. CASE JudgedMode(s) = "new" /\ g.tasksAfter = 0
    <3>1. /\ JudgedCutoff(s).time = s.status.startedAt
          /\ JudgedCutoff(s).pending <=> s.status.startedAt <= g.after
      BY <1>1, <1>8, <2>1, <2>4, <2>6, GenerationCutoff
    <3>2. ~(s.status.startedAt <= g.after) BY <1>1, <2>2, <2>4
    <3> QED BY <2>5, <3>1, <3>2
  <2>7. CASE JudgedMode(s) = "new" /\ g.tasksAfter # 0
    <3>1. /\ JudgedCutoff(s).time = g.tasksAfter
          /\ JudgedCutoff(s).pending => s.status.startedAt <= g.after
      BY <1>1, <1>8, <2>1, <2>4, <2>7, GenerationCutoff
    <3>2. ~(s.status.startedAt <= g.after) BY <1>1, <2>2, <2>4
    <3>3. \A i \in Slots : tasks[i].born >= g.tasksAfter BY <1>1, <2>2, <2>4, <2>7
    <3> QED BY <2>5, <3>1, <3>2, <3>3
  <2> QED BY <1>6, <2>5, <2>6, <2>7
<1>9. CASE ~ctl.gen.on
  <2>1. ~g.on BY <1>3, <1>9 DEF Resolved, NoGen
  <2>2. ~MetadataPending(s, g) BY <1>1, <1>4, <2>1 DEF MetadataPending
  <2>3. ctl.base \in Records /\ Latest(ctl.base)
    <3>1. ASSUME NEW q \in Records, q.status.state = "none"
          PROVE  q.updatedAt <= ctl.base.updatedAt
      BY <1>4, <1>9, <3>1 DEF Updating
    <3>2. ctl.base \in Records BY <1>4 DEF Updating
    <3> QED BY <1>1, <3>1, <3>2, RecordTypes DEF Latest
  <2>4. ctl.base.spec = s.spec
    <3>1. ctl.base.updatedAt >= ctl.base.updatedAt BY <1>1
    <3> QED BY <2>3, <3>1 DEF MInv, BaseInv
  <2>5. ClassifyVerification(ctl.base.spec, s.spec) = "existing"
    BY <2>4 DEF ClassifyVerification, SameTemplate
  <2>6. CASE ~ctl.inherited
    <3>1. JudgedMode(s) = "existing"
      <4>1. JudgedBase(s) = ctl.base BY <2>1 DEF JudgedBase
      <4>2. ~(s.updatedAt < ctl.base.updatedAt) BY <1>1, <1>4
      <4>3. ~JudgedUnresolved(s) BY <1>3, <2>6
      <4>4. JudgedMode(s) = serviceVerificationMode(ctl.base, s, FALSE, g)
        BY <4>1, <4>3 DEF JudgedMode, JudgedUnresolved
      <4> QED BY <2>1, <2>5, <4>2, <4>4 DEF serviceVerificationMode
    <3> QED BY <1>6, <2>2, <3>1
  <2>7. CASE ctl.inherited /\ JudgedMode(s) = "new"
    <3>1. ~(s.prev # NoSpec /\ SameTemplate(s.prev, s.spec)) BY <1>9, <2>7 DEF Undated
    <3>2. JudgedUnresolved(s) BY <1>3, <2>7
    <3>3. s.updatedAt >= ctl.base.updatedAt BY <1>1, <1>4
    <3>4. JudgedCutoff(s) = [time |-> s.status.startedAt, pending |-> FALSE]
      BY <1>1, <1>7, <2>1, <2>5, <2>7, <3>1, <3>2, <3>3, InheritedCutoff
    <3> QED BY <2>2, <3>4
  <2> QED BY <1>6, <2>2, <2>6, <2>7
<1> QED BY <1>8, <1>9

LEMMA ConvergedReady ==
    ASSUME IInv, RInv, ctl.pc = "tasks", Converged, ~blurred, ~Undated
    PROVE  Verdict = "ready"
<1> PICK s : s = service OBVIOUS
<1>1. managed /\ MInv /\ ctl.seen = s BY DEF Converged, RInv
<1>2. /\ SpecsEqual(s.spec, Want) /\ s.status.state = "completed"
      /\ \A i \in Slots : /\ tasks[i].state = "running" /\ ~Dirty(i)
                          /\ tasks[i].born >= s.status.startedAt
  BY DEF Converged
<1>3. s.exists BY <1>1, <1>2 DEF MInv, RecordInv, Records, NoService, NoStatus
<1>4. ctl.base.exists BY <1>1, <1>2 DEF MInv, BaseInv, Creating, NoStatus
<1>5. /\ ~MetadataPending(s, JudgedGen(s)) /\ ~JudgedCutoff(s).pending
      /\ JudgedMode(s) = "new" => \A i \in Slots : tasks[i].born >= JudgedCutoff(s).time
  BY <1>1, <1>2, <1>3, <1>4, ConvergedCutoff
<1>6. s.spec.replicas = 0 => \A i \in Slots : ~Active(tasks[i])
  BY <1>1, <1>2 DEF MInv, TaskInv, NoTask, Active
<1>7. CASE s.spec.replicas # 0
  <2>1. s.spec.replicas = Cardinality(Slots)
    <3>1. Want.replicas \in {0, Cardinality(Slots)}
      BY <1>1, ReplicasFillSlots DEF MInv, AttemptInv
    <3> QED BY <1>1, <1>2, <1>7, <3>1 DEF SpecsEqual
  <2>2. DesiredTasks = Slots BY <1>2 DEF DesiredTasks, NoTask
  <2>3. \A i \in Slots : SameTemplate(tasks[i], s.spec)
    BY <1>2, <1>7, <2>2 DEF Dirty, Scaled, SameTemplate, DesiredTasks
  <2>4. Verified(s, JudgedMode(s), JudgedCutoff(s).time) = Slots
    BY <1>2, <1>5, <2>2, <2>3 DEF Verified
  <2>5. evaluateService(s) = "ready"
    BY <1>2, <1>3, <1>5, <1>7, <2>1, <2>2, <2>4, ReadyWhen DEF FailedStates
  <2> QED BY <1>1, <2>5 DEF Verdict
<1>8. CASE s.spec.replicas = 0
  <2>1. evaluateService(s) = "ready" BY <1>2, <1>3, <1>5, <1>6, <1>8, ReadyWhen DEF FailedStates
  <2> QED BY <1>1, <2>1 DEF Verdict
<1> QED BY <1>7, <1>8

(***************************************************************************)
(* A converged managed service is recognised: evaluateService calls the    *)
(* current record of a finished update, whose tasks all run the desired    *)
(* specification, ready, and so the wait ends, unless the obligation is    *)
(* undated or the receipt blurred; and the attempt, its deployment and the *)
(* receipt agree (RolloutTypeOK).                                          *)
(***************************************************************************)
THEOREM RolloutCorrect == Spec => []RolloutInvariant
<1>1. IInv /\ RInv => (ctl.pc = "tasks" /\ Converged /\ ~blurred /\ ~Undated => Verdict = "ready")
  BY ConvergedReady
<1>2. IInv /\ RInv /\ RolloutTypeOK => RolloutInvariant BY <1>1 DEF RolloutInvariant
<1> QED BY <1>2, RolloutInductive, ManagedInductive, RolloutTypeCorrect, PTL

===============================================================================
