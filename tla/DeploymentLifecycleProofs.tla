---------------------- MODULE DeploymentLifecycleProofs ----------------------
(***************************************************************************)
(* The deployments of a stack, proved for any processes, definitions,      *)
(* services, deployments, attempts, crashes and lost acknowledgements: the *)
(* rows agree with each other, every attempt ends once and by the process  *)
(* that drives it, and no rollout obligation is lost.                      *)
(***************************************************************************)
EXTENDS DeploymentLifecycle, TLAPS, WellFoundedInduction

VerificationType == [known : BOOLEAN, unresolved : SUBSET Services]

RowType ==
    [desired : Definitions, status : Statuses, retryable : BOOLEAN, due : BOOLEAN,
     verification : VerificationType, attempts : Seq(Statuses), announced : Seq(Nat)]

CompletionType ==
    [d : Nat, n : Nat, outcome : Outcomes, retryable : BOOLEAN, verification : VerificationType]

ProcType ==
    [pc : Executing \cup {"down", "waiting", "recovering", "idle"}, d : Nat, n : Nat,
     inherited : SUBSET Services, todo : SUBSET Services, written : SUBSET Services,
     was : BOOLEAN, result : CompletionType]

\* A row shows its latest attempt; earlier ones ended without success; each one that ended was
\* announced once.
RowOK(row) ==
    /\ row \in RowType
    /\ row.attempts # << >> /\ Len(row.announced) = Len(row.attempts)
    /\ row.status = row.attempts[Len(row.attempts)]
    /\ \A n \in 1..(Len(row.attempts) - 1) : row.attempts[n] \in {"failed", "interrupted"}
    /\ \A n \in 1..Len(row.attempts) :
          row.announced[n] = IF row.attempts[n] = "running" THEN 0 ELSE 1

RowsInv ==
    /\ deployments \in Seq(RowType)
    /\ \A d \in 1..Len(deployments) :
          RowOK(deployments[d]) /\ (deployments[d].status = "running" => d = Len(deployments))

BaselineInv == baseline \in 0..Len(deployments) /\ BaselineIsLastSuccess

\* The variables as whole functions.
Shape ==
    /\ owner \in Processes \cup {None}
    /\ proc \in [Processes -> ProcType]
    /\ pending \in [Processes -> CompletionType]
    /\ unproven \in SUBSET Services
    /\ crashes \in Nat /\ lost \in Nat

\* Unproven services are desired by the newest deployment, and listed once it has ended.
DutyInv ==
    /\ deployments = << >> => unproven = {}
    /\ deployments # << >> => unproven \subseteq ServicesOf[Current.desired]
    /\ ObligationsKept

\* The attempt that c is about is the latest of the newest deployment.
IsAboutCurrent(c) ==
    deployments # << >> /\ c.d = Len(deployments) /\ c.n = Len(Current.attempts)

\* A process executes only as the owner, and what it executes is the running attempt.
DriverInv(p) ==
    /\ owner = p <=> proc[p].pc \notin {"down", "waiting"}
    /\ proc[p].pc # "idle" => pending[p] = NoCompletion
    /\ proc[p].pc \in Executing =>
          /\ IsAboutCurrent(proc[p]) /\ Current.status = "running"
          /\ proc[p].todo \subseteq ServicesOf[Current.desired]
    /\ proc[p].pc = "recorded" => proc[p].todo # {}
    /\ proc[p].pc = "completing" => IsAboutCurrent(proc[p].result)
    /\ pending[p] # NoCompletion => IsAboutCurrent(pending[p])

\* What a process will report covers every unproven service.
ReportInv(p) ==
    /\ proc[p].pc = "deploying" =>
          unproven \subseteq proc[p].inherited
          /\ proc[p].inherited \subseteq Current.verification.unresolved
    /\ proc[p].pc \in {"applying", "recorded", "verifying"} =>
          unproven \subseteq proc[p].inherited \cup proc[p].written
    /\ proc[p].pc = "observing" => unproven = {}
    /\ proc[p].pc = "completing" => unproven \subseteq Obligations(Current, proc[p].result)
    /\ pending[p] # NoCompletion /\ Current.status = "running" =>
          unproven \subseteq Obligations(Current, pending[p])

IInv ==
    /\ RowsInv /\ BaselineInv /\ Shape /\ DutyInv /\ RunningIsDriven
    /\ \A p \in Processes : DriverInv(p) /\ ReportInv(p)

-----------------------------------------------------------------------------
(* Services and constants.                                                 *)

\* The services of a definition are numbered.
LEMMA DesiredFacts ==
    ASSUME NEW x \in Definitions
    PROVE  ServicesOf[x] \subseteq Services /\ ServicesOf[x] \subseteq Nat
<1>1. ServicesOf[x] \in SUBSET Nat BY ServicesAreNumbered
<1> QED BY <1>1 DEF Services

\* Every nonempty set of numbers has a smallest one.
LEMMA Smallest ==
    ASSUME NEW T, T \subseteq Nat, T # {}
    PROVE  \E s \in T : \A t \in T : s <= t
<1>1. IsWellFoundedOn(OpToRel(<, Nat), Nat) BY NatLessThanWellFounded
<1>2. PICK s \in T : \A t \in T : ~(<<t, s>> \in OpToRel(<, Nat)) BY <1>1, WFMin
<1>3. \A t \in T : ~(t < s) BY <1>2 DEF OpToRel
<1> QED BY <1>3

\* The service to be applied next is one of those left.
LEMMA NextServiceIsLeft ==
    ASSUME NEW p, proc[p].todo \subseteq Nat, proc[p].todo # {}
    PROVE  NextService(p) \in proc[p].todo
BY Smallest DEF NextService

\* Nothing is known to be left to verify, or the names are.
LEMMA VerificationTypes ==
    /\ Unknown \in VerificationType
    /\ \A names \in SUBSET Services : Known(names) \in VerificationType
    /\ ~Unknown.known /\ Unknown.unresolved = {}
    /\ \A names : Known(names).known /\ Known(names).unresolved = names
BY DEF Unknown, Known, VerificationType

\* The completion that stands for none, and the one of an interrupted process.
LEMMA CompletionTypes ==
    /\ NoCompletion \in CompletionType /\ ProcessInterrupted \in CompletionType
    /\ NoCompletion.d = 0 /\ ProcessInterrupted.outcome = "process_interrupted"
    /\ ProcessInterrupted.verification = Unknown
BY VerificationTypes DEF NoCompletion, ProcessInterrupted, CompletionType, Outcomes

\* A process that rests executes nothing.
LEMMA RestingType ==
    ASSUME NEW where \in {"down", "waiting", "recovering", "idle", "deploying"}
    PROVE  Resting(where) \in ProcType /\ Resting(where).pc = where
BY CompletionTypes DEF Resting, ProcType, Executing

-----------------------------------------------------------------------------
(* Rows.                                                                   *)

\* A completion never leaves an attempt running.
LEMMA StatusOfFacts ==
    ASSUME NEW outcome \in Outcomes
    PROVE  /\ StatusOf(outcome) \in {"succeeded", "failed", "interrupted"}
           /\ StatusOf(outcome) = "succeeded" <=> outcome = "succeeded"
BY DEF StatusOf, Outcomes

\* The obligations of a completion are services.
LEMMA ObligationsType ==
    ASSUME NEW dep \in RowType, NEW c \in CompletionType
    PROVE  Obligations(dep, c) \in SUBSET Services
<1>1. ServicesOf[dep.desired] \subseteq Services BY DesiredFacts DEF RowType
<1>2. dep.verification.unresolved \subseteq Services /\ c.verification.unresolved \subseteq Services
  BY DEF RowType, CompletionType, VerificationType
<1> QED BY <1>1, <1>2 DEF Obligations

\* A new deployment has one running attempt.
LEMMA NewDeploymentFacts ==
    ASSUME NEW definition \in Definitions, NEW v \in VerificationType
    PROVE  /\ RowOK(NewDeployment(definition, v))
           /\ NewDeployment(definition, v).status = "running"
           /\ NewDeployment(definition, v).desired = definition
           /\ NewDeployment(definition, v).verification = v
           /\ Len(NewDeployment(definition, v).attempts) = 1
BY DEF NewDeployment, RowOK, RowType, Statuses

\* A retry adds a running attempt to a row that ended without success.
LEMMA RetriedFacts ==
    ASSUME NEW dep, RowOK(dep), dep.status \in {"failed", "interrupted"}
    PROVE  /\ RowOK(Retried(dep))
           /\ Retried(dep).status = "running"
           /\ Retried(dep).desired = dep.desired
           /\ Retried(dep).verification = dep.verification
<1> DEFINE r == Retried(dep)
           n == Len(dep.attempts)
<1>1. /\ dep \in RowType /\ dep.attempts \in Seq(Statuses) /\ dep.announced \in Seq(Nat)
      /\ Len(dep.announced) = n /\ n \in Nat
  BY DEF RowOK, RowType
<1>2. /\ r.status = "running" /\ r.desired = dep.desired /\ r.verification = dep.verification
      /\ r.attempts = Append(dep.attempts, "running") /\ r.announced = Append(dep.announced, 0)
  BY <1>1 DEF Retried, RowType
<1>3. r.attempts \in Seq(Statuses) /\ r.announced \in Seq(Nat) BY <1>1, <1>2 DEF Statuses
<1>4. r \in RowType
  <2> DEFINE a == Append(dep.attempts, "running")
             e == Append(dep.announced, 0)
             r1 == [dep EXCEPT !.status = "running"]
             r2 == [r1 EXCEPT !.retryable = FALSE]
             r3 == [r2 EXCEPT !.due = FALSE]
             r4 == [r3 EXCEPT !.attempts = a]
  <2>1. r = [r4 EXCEPT !.announced = e]
    <3>1. r3.attempts = dep.attempts /\ r4.announced = dep.announced BY <1>1 DEF RowType
    <3> QED BY <3>1 DEF Retried
  <2>2. a \in Seq(Statuses) /\ e \in Seq(Nat) BY <1>1 DEF Statuses
  <2> HIDE DEF a, e
  <2>3. r1 \in RowType BY <1>1 DEF RowType, Statuses
  <2>4. r2 \in RowType BY <2>3 DEF RowType
  <2>5. r3 \in RowType BY <2>4 DEF RowType
  <2> HIDE DEF r3
  <2>6. r4 \in RowType BY <2>2, <2>5 DEF RowType
  <2> HIDE DEF r4
  <2> QED BY <2>1, <2>2, <2>6 DEF RowType
<1>5. /\ Len(r.attempts) = n + 1 /\ r.attempts[n + 1] = "running"
      /\ \A k \in 1..n : r.attempts[k] = dep.attempts[k]
  BY <1>1, <1>2
<1>6. /\ Len(r.announced) = n + 1 /\ r.announced[n + 1] = 0
      /\ \A k \in 1..n : r.announced[k] = dep.announced[k]
  BY <1>1, <1>2
<1>7. \A k \in 1..n : dep.attempts[k] \in {"failed", "interrupted"} /\ dep.announced[k] = 1
  BY <1>1 DEF RowOK
<1>8. r.attempts # << >> BY <1>3, <1>5, <1>1
<1> HIDE DEF r, n
<1>9. RowOK(r) BY <1>1, <1>2, <1>4, <1>5, <1>6, <1>7, <1>8 DEF RowOK
<1> QED BY <1>2, <1>9 DEF r

\* Ending a running attempt.
LEMMA FinishedFacts ==
    ASSUME NEW dep, RowOK(dep), dep.status = "running", NEW c \in CompletionType
    PROVE  /\ RowOK(Finished(dep, c))
           /\ Finished(dep, c).status \in {"succeeded", "failed", "interrupted"}
           /\ Finished(dep, c).status = "succeeded" <=> c.outcome = "succeeded"
           /\ Finished(dep, c).desired = dep.desired
           /\ Finished(dep, c).verification = Known(Obligations(dep, c))
           /\ Len(Finished(dep, c).attempts) = Len(dep.attempts)
<1> DEFINE f == Finished(dep, c)
           n == Len(dep.attempts)
           status == StatusOf(c.outcome)
<1>1. /\ dep \in RowType /\ dep.attempts \in Seq(Statuses) /\ dep.announced \in Seq(Nat)
      /\ Len(dep.announced) = n /\ n \in Nat /\ n > 0
  BY DEF RowOK, RowType
<1>2. c.outcome \in Outcomes /\ c.retryable \in BOOLEAN BY DEF CompletionType
<1>3. status \in {"succeeded", "failed", "interrupted"} /\ (status = "succeeded" <=> c.outcome = "succeeded")
  BY <1>2, StatusOfFacts
<1>4. Known(Obligations(dep, c)) \in VerificationType
  BY <1>1, ObligationsType, VerificationTypes
<1>5. /\ dep.attempts[n] = "running" /\ dep.announced[n] = 0
      /\ \A k \in 1..(n - 1) : dep.attempts[k] \in {"failed", "interrupted"} /\ dep.announced[k] = 1
  <2>1. dep.attempts[n] = "running" BY DEF RowOK
  <2>2. \A k \in 1..n : dep.announced[k] = IF dep.attempts[k] = "running" THEN 0 ELSE 1 BY DEF RowOK
  <2>3. \A k \in 1..(n - 1) : dep.attempts[k] \in {"failed", "interrupted"} BY DEF RowOK
  <2>4. dep.announced[n] = 0 BY <1>1, <2>1, <2>2
  <2>5. \A k \in 1..(n - 1) : dep.announced[k] = 1
    <3> SUFFICES ASSUME NEW k \in 1..(n - 1) PROVE dep.announced[k] = 1 OBVIOUS
    <3>1. k \in 1..n /\ dep.attempts[k] # "running" BY <1>1, <2>3
    <3> QED BY <2>2, <3>1
  <2> QED BY <2>1, <2>3, <2>4, <2>5
<1>6. /\ f.status = status /\ f.desired = dep.desired /\ f.verification = Known(Obligations(dep, c))
      /\ f.attempts = [dep.attempts EXCEPT ![n] = status]
      /\ f.announced = [dep.announced EXCEPT ![n] = dep.announced[n] + 1]
  BY <1>1 DEF Finished, RowType
<1>7. f.attempts \in Seq(Statuses) /\ f.announced \in Seq(Nat) /\ Len(f.attempts) = n /\ Len(f.announced) = n
  BY <1>1, <1>3, <1>6 DEF Statuses
<1>8. f \in RowType
  <2> DEFINE a == [dep.attempts EXCEPT ![n] = status]
             e == [dep.announced EXCEPT ![n] = @ + 1]
             f1 == [dep EXCEPT !.status = status]
             f2 == [f1 EXCEPT !.retryable = c.retryable]
             f3 == [f2 EXCEPT !.due = FALSE]
             f4 == [f3 EXCEPT !.verification = Known(Obligations(dep, c))]
             f5 == [f4 EXCEPT !.attempts = a]
  <2>1. f = [f5 EXCEPT !.announced = e]
    <3>1. f4.attempts = dep.attempts /\ f5.announced = dep.announced BY <1>1 DEF RowType
    <3> QED BY <3>1 DEF Finished
  <2>2. status \in Statuses BY <1>3 DEF Statuses
  <2>3. a \in Seq(Statuses) /\ e \in Seq(Nat) BY <1>1, <2>2
  <2> HIDE DEF status, a, e
  <2>4. f1 \in RowType BY <1>1, <2>2 DEF RowType
  <2>5. f2 \in RowType BY <1>2, <2>4 DEF RowType
  <2>6. f3 \in RowType BY <2>5 DEF RowType
  <2> HIDE DEF f3
  <2>7. f4 \in RowType BY <1>4, <2>6 DEF RowType
  <2> HIDE DEF f4
  <2>8. f5 \in RowType BY <2>3, <2>7 DEF RowType
  <2> HIDE DEF f5
  <2> QED BY <2>1, <2>3, <2>8 DEF RowType
<1>9. /\ f.attempts[n] = status /\ f.announced[n] = 1
      /\ \A k \in 1..n : k # n => f.attempts[k] = dep.attempts[k] /\ f.announced[k] = dep.announced[k]
  BY <1>1, <1>5, <1>6
<1>10. f.attempts # << >> BY <1>1, <1>7
<1> HIDE DEF f, status
<1>11. RowOK(f)
  <2>1. ASSUME NEW k \in 1..(n - 1) PROVE f.attempts[k] \in {"failed", "interrupted"}
    <3>1. k \in 1..n /\ k # n BY <1>1
    <3> QED BY <1>5, <1>9, <3>1
  <2>2. ASSUME NEW k \in 1..n
        PROVE  f.announced[k] = IF f.attempts[k] = "running" THEN 0 ELSE 1
    <3>1. CASE k = n BY <1>3, <1>9, <3>1
    <3>2. CASE k # n
      <4>1. dep.announced[k] = IF dep.attempts[k] = "running" THEN 0 ELSE 1 BY DEF RowOK
      <4> QED BY <1>9, <3>2, <4>1
    <3> QED BY <3>1, <3>2
  <2> QED BY <1>6, <1>7, <1>8, <1>9, <1>10, <2>1, <2>2 DEF RowOK
<1> QED BY <1>3, <1>6, <1>7, <1>11 DEF f, status

\* The newest row.
LEMMA CurrentFacts ==
    ASSUME RowsInv, deployments # << >>
    PROVE  /\ Len(deployments) \in Nat /\ Len(deployments) > 0
           /\ Len(deployments) \in DOMAIN deployments /\ DOMAIN deployments = 1..Len(deployments)
           /\ RowOK(Current) /\ Current \in RowType /\ Current.desired \in Definitions
           /\ Current.attempts \in Seq(Statuses) /\ Len(Current.attempts) \in Nat
           /\ Len(Current.attempts) > 0
           /\ Current.status = Current.attempts[Len(Current.attempts)]
<1>1. /\ deployments \in Seq(RowType) /\ Len(deployments) \in Nat /\ Len(deployments) > 0
      /\ Len(deployments) \in 1..Len(deployments) /\ DOMAIN deployments = 1..Len(deployments)
  BY DEF RowsInv
<1>2. RowOK(Current) BY <1>1 DEF RowsInv, Current
<1>3. /\ Current \in RowType /\ Current.attempts # << >>
      /\ Current.status = Current.attempts[Len(Current.attempts)]
  BY <1>2 DEF RowOK
<1>4. Current.desired \in Definitions /\ Current.attempts \in Seq(Statuses) BY <1>3 DEF RowType
<1>5. Len(Current.attempts) \in Nat /\ Len(Current.attempts) > 0 BY <1>3, <1>4
<1> QED BY <1>1, <1>2, <1>3, <1>4, <1>5

\* Replacing an element of a sequence.
LEMMA SeqExcept ==
    ASSUME NEW T, NEW s \in Seq(T), NEW i \in 1..Len(s), NEW x \in T
    PROVE  /\ [s EXCEPT ![i] = x] \in Seq(T)
           /\ Len([s EXCEPT ![i] = x]) = Len(s)
           /\ [s EXCEPT ![i] = x][i] = x
           /\ \A j \in 1..Len(s) : j # i => [s EXCEPT ![i] = x][j] = s[j]
OBVIOUS

\* A step that rewrites the newest row.
LEMMA RewriteCurrent ==
    ASSUME RowsInv, deployments # << >>, NEW row, RowOK(row),
           deployments' = [deployments EXCEPT ![Len(deployments)] = row]
    PROVE  /\ RowsInv' /\ deployments' # << >> /\ Len(deployments') = Len(deployments)
           /\ Current' = row
           /\ \A d \in 1..Len(deployments) : d # Len(deployments) => deployments'[d] = deployments[d]
<1> DEFINE k == Len(deployments)
<1>1. /\ deployments \in Seq(RowType) /\ k \in Nat /\ k > 0 /\ k \in DOMAIN deployments
      /\ DOMAIN deployments = 1..k
  BY CurrentFacts DEF RowsInv
<1>2. row \in RowType BY DEF RowOK
<1>3. /\ deployments' \in Seq(RowType) /\ Len(deployments') = k /\ deployments'[k] = row
      /\ \A d \in 1..k : d # k => deployments'[d] = deployments[d]
  <2>1. k \in 1..Len(deployments) BY <1>1
  <2> HIDE DEF k
  <2>2. deployments' = [deployments EXCEPT ![k] = row] BY DEF k
  <2>3. Len(deployments) = k BY DEF k
  <2> QED BY <1>1, <1>2, <2>1, <2>2, <2>3, SeqExcept
<1>4. deployments' # << >>
  <2>1. Len(deployments') > 0 BY <1>1, <1>3
  <2> QED BY <2>1
<1>5. \A d \in 1..k : RowOK(deployments'[d]) /\ (deployments'[d].status = "running" => d = k)
  BY <1>3 DEF RowsInv
<1> QED BY <1>3, <1>4, <1>5 DEF RowsInv, Current

\* The baseline survives while no success appears or disappears.
LEMMA BaselineKept ==
    ASSUME RowsInv, BaselineInv, baseline' = baseline,
           Len(deployments') \in Nat, Len(deployments') >= Len(deployments),
           DOMAIN deployments' = 1..Len(deployments'),
           \A d \in 1..Len(deployments) :
              deployments'[d].status = "succeeded" <=> deployments[d].status = "succeeded",
           \A d \in 1..Len(deployments') :
              d > Len(deployments) => deployments'[d].status # "succeeded"
    PROVE  BaselineInv'
<1>1. Len(deployments) \in Nat /\ DOMAIN deployments = 1..Len(deployments) BY DEF RowsInv
<1>2. baseline \in 0..Len(deployments) BY DEF BaselineInv
<1>3. baseline' \in 0..Len(deployments') BY <1>1, <1>2
<1>4. baseline # 0 => deployments'[baseline].status = "succeeded"
  BY <1>1, <1>2 DEF BaselineInv, BaselineIsLastSuccess
<1>5. \A d \in 1..Len(deployments') : deployments'[d].status = "succeeded" => d <= baseline
  BY <1>1 DEF BaselineInv, BaselineIsLastSuccess
<1> QED BY <1>3, <1>4, <1>5 DEF BaselineInv, BaselineIsLastSuccess

\* The transaction of a completion of the running attempt.
LEMMA CompleteFacts ==
    ASSUME RowsInv, BaselineInv, NEW c \in CompletionType, IsAboutCurrent(c), Complete(c)
    PROVE  /\ RowsInv' /\ BaselineInv' /\ Len(deployments') = Len(deployments) /\ deployments' # << >>
           /\ Current.status = "running" /\ Current'.status # "running"
           /\ Current'.desired = Current.desired
           /\ Len(Current'.attempts) = Len(Current.attempts)
           /\ Current'.verification.unresolved = Obligations(Current, c)
<1> PICK k : k = Len(deployments) OBVIOUS
<1> DEFINE row == Finished(Current, c)
<1>1. c.d = k /\ c.n = Len(Current.attempts) /\ deployments # << >> BY DEF IsAboutCurrent
<1>2. RowOK(Current) /\ k \in Nat /\ k > 0 /\ DOMAIN deployments = 1..k BY <1>1, CurrentFacts
<1>3. Current.status = "running" BY <1>1 DEF Complete, IsRunning, Current
<1>4. deployments' = [deployments EXCEPT ![k] = row] BY <1>1 DEF Complete, Current
<1>5. /\ RowOK(row) /\ row.status \in {"succeeded", "failed", "interrupted"}
      /\ row.status = "succeeded" <=> c.outcome = "succeeded"
      /\ row.desired = Current.desired /\ row.verification = Known(Obligations(Current, c))
      /\ Len(row.attempts) = Len(Current.attempts)
  BY <1>2, <1>3, FinishedFacts
<1> HIDE DEF row
<1>6. /\ RowsInv' /\ deployments' # << >> /\ Len(deployments') = k /\ Current' = row
      /\ \A d \in 1..k : d # k => deployments'[d] = deployments[d]
  BY <1>1, <1>4, <1>5, RewriteCurrent
<1>7. row.verification.unresolved = Obligations(Current, c) BY <1>5, VerificationTypes
<1>8. DOMAIN deployments' = 1..k /\ deployments'[k] = row BY <1>6 DEF RowsInv, Current
<1>9. BaselineInv'
  <2>1. CASE c.outcome = "succeeded"
    <3>1. baseline' = k BY <1>1, <2>1 DEF Complete
    <3>2. baseline' \in 0..Len(deployments') BY <1>2, <1>6, <3>1
    <3>3. deployments'[baseline'].status = "succeeded" BY <1>5, <1>8, <2>1, <3>1
    <3>4. \A d \in DOMAIN deployments' : d <= baseline' BY <1>2, <1>8, <3>1
    <3> QED BY <3>2, <3>3, <3>4 DEF BaselineInv, BaselineIsLastSuccess
  <2>2. CASE c.outcome # "succeeded"
    <3>1. baseline' = baseline BY <2>2 DEF Complete
    <3>2. \A d \in 1..k : deployments'[d].status = "succeeded" <=> deployments[d].status = "succeeded"
      BY <1>3, <1>5, <1>6, <1>8, <2>2 DEF Current
    <3>3. \A d \in 1..Len(deployments') : ~(d > k) BY <1>2, <1>6
    <3>4. Len(deployments') \in Nat /\ Len(deployments') >= k /\ DOMAIN deployments' = 1..Len(deployments')
      BY <1>2, <1>6, <1>8
    <3> QED BY <3>1, <3>2, <3>3, <3>4, BaselineKept
  <2> QED BY <2>1, <2>2
<1> QED BY <1>3, <1>5, <1>6, <1>7, <1>9

-----------------------------------------------------------------------------
(* Processes.                                                              *)

\* Only the owner is past waiting for the lock, and only it remembers a completion.
LEMMA OthersRest ==
    ASSUME IInv, NEW p \in Processes, proc[p].pc \notin {"down", "waiting"},
           NEW q \in Processes, q # p
    PROVE  owner = p /\ proc[q].pc \in {"down", "waiting"} /\ pending[q] = NoCompletion
BY DEF IInv, DriverInv

\* A process that waits for the lock, or is down, knows nothing that could become wrong.
LEMMA RestingKeeps ==
    ASSUME NEW q \in Processes, proc'[q].pc \in {"down", "waiting"},
           pending'[q] = NoCompletion, owner' # q
    PROVE  DriverInv(q)' /\ ReportInv(q)'
BY DEF DriverInv, ReportInv, Executing

\* Neither does one that has just become the owner, or has recovered.
LEMMA OwnerRests ==
    ASSUME NEW q \in Processes, proc'[q].pc \in {"recovering", "idle"},
           pending'[q] = NoCompletion, owner' = q
    PROVE  DriverInv(q)' /\ ReportInv(q)'
BY DEF DriverInv, ReportInv, Executing

\* A process that takes no part in a step that leaves rows and writes alone.
LEMMA BystanderKeeps ==
    ASSUME IInv, NEW q \in Processes, proc'[q] = proc[q], pending'[q] = pending[q],
           owner' = q <=> owner = q, UNCHANGED <<deployments, unproven>>
    PROVE  DriverInv(q)' /\ ReportInv(q)'
BY DEF IInv, DriverInv, ReportInv, IsAboutCurrent, Current

\* Rows and unproven services stay.
LEMMA RowsKept ==
    ASSUME IInv, UNCHANGED <<deployments, baseline, unproven>>
    PROVE  RowsInv' /\ BaselineInv' /\ DutyInv'
BY DEF IInv, RowsInv, BaselineInv, BaselineIsLastSuccess, DutyInv, ObligationsKept, Current

\* Boot, and a graceful or sudden end: a process stops or starts to wait.
LEMMA StopKeeps ==
    ASSUME IInv, NEW p \in Processes, NEW where \in {"down", "waiting"},
           proc' = [proc EXCEPT ![p] = Resting(where)],
           pending' = [pending EXCEPT ![p] = NoCompletion],
           owner' = IF owner = p THEN None ELSE owner,
           crashes' \in Nat, lost' = lost,
           UNCHANGED <<deployments, baseline, unproven>>
    PROVE  IInv'
<1>1. RowsInv' /\ BaselineInv' /\ DutyInv' BY RowsKept
<1>2. Resting(where) \in ProcType /\ Resting(where).pc = where BY RestingType
<1>3. Shape' BY <1>2, CompletionTypes DEF IInv, Shape
<1>4. ASSUME NEW q \in Processes PROVE DriverInv(q)' /\ ReportInv(q)'
  <2>1. CASE q = p
    <3>1. proc'[p] = Resting(where) /\ pending'[p] = NoCompletion BY DEF IInv, Shape
    <3>2. owner' # p BY NoneIsNoProcess
    <3> QED BY <1>2, <2>1, <3>1, <3>2, RestingKeeps
  <2>2. CASE q # p
    <3>1. proc'[q] = proc[q] /\ pending'[q] = pending[q] BY <2>2 DEF IInv, Shape
    <3>2. owner' = q <=> owner = q BY <2>2, NoneIsNoProcess
    <3> QED BY <3>1, <3>2, BystanderKeeps
  <2> QED BY <2>1, <2>2
<1>5. RunningIsDriven'
  <2>1. CASE owner' = None BY <2>1 DEF RunningIsDriven
  <2>2. CASE owner' # None
    <3>1. owner' = owner /\ owner # p /\ owner \in Processes BY <2>2 DEF IInv, Shape
    <3>2. proc'[owner] = proc[owner] /\ pending'[owner] = pending[owner] BY <3>1 DEF IInv, Shape
    <3> QED BY <3>1, <3>2 DEF IInv, RunningIsDriven
  <2> QED BY <2>1, <2>2
<1> QED BY <1>1, <1>3, <1>4, <1>5 DEF IInv

\* The process boots, ends, or dies.
LEMMA LifeKeeps ==
    ASSUME NEW p \in Processes PROVE IInv /\ (Boot(p) \/ Shutdown(p) \/ Crash(p)) => IInv'
<1> SUFFICES ASSUME IInv, Boot(p) \/ Shutdown(p) \/ Crash(p) PROVE IInv' OBVIOUS
<1>1. CASE Boot(p)
  <2>1. owner # p /\ pending[p] = NoCompletion BY <1>1 DEF Boot, IInv, DriverInv
  <2>2. pending = [pending EXCEPT ![p] = NoCompletion] BY <2>1 DEF IInv, Shape
  <2>3. crashes \in Nat BY DEF IInv, Shape
  <2> QED BY <1>1, <2>1, <2>2, <2>3, StopKeeps DEF Boot, dbVars
<1>2. CASE Shutdown(p)
  <2>1. crashes \in Nat BY DEF IInv, Shape
  <2> QED BY <1>2, <2>1, StopKeeps DEF Shutdown, dbVars
<1>3. CASE Crash(p)
  <2>1. crashes' \in Nat BY <1>3 DEF Crash, IInv, Shape
  <2> QED BY <1>3, <2>1, StopKeeps DEF Crash, dbVars
<1> QED BY <1>1, <1>2, <1>3

\* The lock was free, so that nobody else executes.
LEMMA AcquireKeeps == ASSUME NEW p \in Processes PROVE IInv /\ Acquire(p) => IInv'
<1> SUFFICES ASSUME IInv, Acquire(p) PROVE IInv' OBVIOUS
<1>1. /\ UNCHANGED <<deployments, baseline, pending, unproven, crashes, lost>>
      /\ owner = None /\ owner' = p /\ proc' = [proc EXCEPT ![p] = Resting("recovering")]
  BY DEF Acquire, dbVars
<1>2. RowsInv' /\ BaselineInv' /\ DutyInv' BY <1>1, RowsKept
<1>3. Resting("recovering") \in ProcType /\ Resting("recovering").pc = "recovering" BY RestingType
<1>4. Shape' BY <1>1, <1>3 DEF IInv, Shape
<1>5. proc'[p] = Resting("recovering") BY <1>1 DEF IInv, Shape
<1>6. \A q \in Processes : pending[q] = NoCompletion /\ proc[q].pc \in {"down", "waiting"}
  BY <1>1, NoneIsNoProcess DEF IInv, DriverInv
<1>7. ASSUME NEW q \in Processes PROVE DriverInv(q)' /\ ReportInv(q)'
  <2>1. CASE q = p BY <1>1, <1>3, <1>5, <1>6, <2>1, OwnerRests
  <2>2. CASE q # p
    <3>1. proc'[q] = proc[q] BY <1>1, <2>2 DEF IInv, Shape
    <3> QED BY <1>1, <1>6, <2>2, <3>1, RestingKeeps
  <2> QED BY <2>1, <2>2
<1>8. RunningIsDriven' BY <1>1, <1>3, <1>5 DEF RunningIsDriven
<1> QED BY <1>2, <1>4, <1>7, <1>8 DEF IInv

\* Recovery ends the attempt an earlier process left running, with every service it may have
\* written as an obligation.
LEMMA RecoverKeeps == ASSUME NEW p \in Processes PROVE IInv /\ Recover(p) => IInv'
<1> SUFFICES ASSUME IInv, Recover(p) PROVE IInv' OBVIOUS
<1>1. /\ proc[p].pc = "recovering" /\ UNCHANGED <<baseline, pending, unproven, crashes, lost>>
      /\ owner = p /\ pending[p] = NoCompletion
  BY DEF Recover, IInv, DriverInv
<1>2. CASE proc' = [proc EXCEPT ![p] = Resting("down")] /\ owner' = None /\ UNCHANGED deployments
  <2>1. pending' = [pending EXCEPT ![p] = NoCompletion] BY <1>1 DEF IInv, Shape
  <2>2. crashes' \in Nat BY <1>1 DEF IInv, Shape
  <2> QED BY <1>1, <1>2, <2>1, <2>2, StopKeeps
<1>3. CASE /\ deployments' = [d \in DOMAIN deployments |->
                IF deployments[d].status = "running"
                  THEN Finished(deployments[d], ProcessInterrupted) ELSE deployments[d]]
           /\ proc' = [proc EXCEPT ![p] = Resting("idle")]
           /\ UNCHANGED owner
  <2> PICK k : k = Len(deployments) OBVIOUS
  <2>1. /\ k \in Nat /\ DOMAIN deployments = 1..k /\ deployments \in Seq(RowType)
        /\ \A d \in 1..k : RowOK(deployments[d]) /\ (deployments[d].status = "running" => d = k)
    BY DEF IInv, RowsInv
  <2>2. ASSUME NEW d \in 1..k
        PROVE  /\ RowOK(deployments'[d]) /\ deployments'[d].status # "running"
               /\ deployments'[d].status = "succeeded" <=> deployments[d].status = "succeeded"
               /\ deployments'[d].desired = deployments[d].desired
    <3>1. CASE deployments[d].status = "running"
      <4>1. deployments'[d] = Finished(deployments[d], ProcessInterrupted) BY <1>3, <2>1, <3>1
      <4> QED BY <2>1, <3>1, <4>1, FinishedFacts, CompletionTypes
    <3>2. CASE deployments[d].status # "running"
      <4>1. deployments'[d] = deployments[d] BY <1>3, <2>1, <3>2
      <4> QED BY <2>1, <3>2, <4>1
    <3> QED BY <3>1, <3>2
  <2>3. DOMAIN deployments' = 1..k BY <1>3, <2>1
  <2>4. \A d \in 1..k : deployments'[d] \in RowType BY <2>2 DEF RowOK
  <2>5. deployments' \in Seq(RowType) /\ Len(deployments') = k BY <1>3, <2>1, <2>3, <2>4
  <2>6. RowsInv' BY <2>2, <2>5 DEF RowsInv
  <2>7. BaselineInv' BY <1>1, <2>1, <2>2, <2>3, <2>5, BaselineKept DEF IInv
  <2>8. DutyInv'
    <3>1. CASE deployments = << >>
      <4>1. deployments' = << >> BY <2>5, <3>1
      <4> QED BY <1>1, <3>1, <4>1 DEF IInv, DutyInv, ObligationsKept
    <3>2. CASE deployments # << >>
      <4>1. k > 0 /\ Current.desired \in Definitions /\ Current \in RowType
        BY <3>2, CurrentFacts DEF IInv
      <4>2. Current' = deployments'[k] /\ Current = deployments[k] BY <2>5 DEF Current
      <4>3. unproven \subseteq ServicesOf[Current.desired] BY <3>2 DEF IInv, DutyInv
      <4>4. unproven \subseteq Current'.verification.unresolved
        <5>1. CASE Current.status = "running"
          <6>1. Current' = Finished(Current, ProcessInterrupted) BY <1>3, <2>1, <4>1, <4>2, <5>1
          <6>2. Current'.verification.unresolved = Obligations(Current, ProcessInterrupted)
            BY <2>1, <4>1, <4>2, <5>1, <6>1, FinishedFacts, CompletionTypes, VerificationTypes
          <6>3. ServicesOf[Current.desired] \subseteq Obligations(Current, ProcessInterrupted)
            BY CompletionTypes, VerificationTypes DEF Obligations, ApplyPhase
          <6> QED BY <4>3, <6>2, <6>3
        <5>2. CASE Current.status # "running"
          <6>1. Current' = Current BY <1>3, <2>1, <4>1, <4>2, <5>2
          <6> QED BY <3>2, <5>2, <6>1 DEF IInv, DutyInv, ObligationsKept
        <5> QED BY <5>1, <5>2
      <4>5. Current'.desired = Current.desired BY <2>2, <4>1, <4>2
      <4>6. deployments' # << >> BY <2>5, <4>1
      <4> QED BY <1>1, <4>3, <4>4, <4>5, <4>6 DEF DutyInv, ObligationsKept
    <3> QED BY <3>1, <3>2
  <2>9. Resting("idle") \in ProcType /\ Resting("idle").pc = "idle" BY RestingType
  <2>10. Shape' BY <1>1, <1>3, <2>9 DEF IInv, Shape
  <2>11. ASSUME NEW q \in Processes PROVE DriverInv(q)' /\ ReportInv(q)'
    <3>1. CASE q = p
      <4>1. proc'[p] = Resting("idle") BY <1>3 DEF IInv, Shape
      <4> QED BY <1>1, <1>3, <2>9, <3>1, <4>1, OwnerRests
    <3>2. CASE q # p
      <4>1. proc[q].pc \in {"down", "waiting"} /\ pending[q] = NoCompletion
        BY <1>1, <3>2, OthersRest
      <4>2. proc'[q] = proc[q] BY <1>3, <3>2 DEF IInv, Shape
      <4> QED BY <1>1, <1>3, <3>2, <4>1, <4>2, RestingKeeps
    <3> QED BY <3>1, <3>2
  <2>12. RunningIsDriven' BY <2>2, <2>3 DEF RunningIsDriven
  <2> QED BY <2>6, <2>7, <2>8, <2>10, <2>11, <2>12 DEF IInv
<1> QED BY <1>2, <1>3 DEF Recover

\* The end of a backoff only marks a row that has ended.
LEMMA BackoffKeeps == IInv /\ BackoffElapses => IInv'
<1> SUFFICES ASSUME IInv, BackoffElapses PROVE IInv' OBVIOUS
<1> PICK k : k = Len(deployments) OBVIOUS
<1> DEFINE row == [Current EXCEPT !.due = TRUE]
<1>1. /\ deployments # << >> /\ Current.status \in {"failed", "interrupted"}
      /\ UNCHANGED <<baseline, owner, proc, pending, unproven, crashes, lost>>
      /\ deployments' = [deployments EXCEPT ![Len(deployments)].due = TRUE]
  BY DEF BackoffElapses
<1>2. RowOK(Current) /\ Current \in RowType /\ k \in Nat /\ k > 0 BY <1>1, CurrentFacts DEF IInv
<1>3. deployments' = [deployments EXCEPT ![Len(deployments)] = row] BY <1>1 DEF Current
<1>4. /\ row \in RowType /\ row.status = Current.status /\ row.attempts = Current.attempts
      /\ row.announced = Current.announced /\ row.desired = Current.desired
      /\ row.verification = Current.verification
  BY <1>2 DEF RowType
<1> HIDE DEF row
<1>5. RowOK(row) BY <1>2, <1>4 DEF RowOK
<1>6. /\ RowsInv' /\ deployments' # << >> /\ Len(deployments') = k /\ Current' = row
      /\ \A d \in 1..k : d # k => deployments'[d] = deployments[d]
  BY <1>1, <1>3, <1>5, RewriteCurrent DEF IInv
<1>7. \A d \in 1..k : deployments'[d].status = deployments[d].status
  BY <1>4, <1>6 DEF Current
<1>8. BaselineInv'
  <2>1. \A d \in 1..Len(deployments') : ~(d > k) BY <1>2, <1>6
  <2>2. Len(deployments') \in Nat /\ Len(deployments') >= k /\ DOMAIN deployments' = 1..Len(deployments')
    BY <1>2, <1>6 DEF RowsInv
  <2> QED BY <1>1, <1>7, <2>1, <2>2, BaselineKept DEF IInv
<1>9. DutyInv' BY <1>1, <1>4, <1>6 DEF IInv, DutyInv, ObligationsKept
<1>10. Shape' BY <1>1 DEF IInv, Shape
<1>11. \A q \in Processes : DriverInv(q)' /\ ReportInv(q)'
  <2> SUFFICES ASSUME NEW q \in Processes PROVE DriverInv(q)' /\ ReportInv(q)' OBVIOUS
  <2>1. proc[q].pc \notin Executing BY <1>1 DEF IInv, DriverInv
  <2>2. DriverInv(q)' BY <1>1, <1>4, <1>6, <2>1 DEF IInv, DriverInv, IsAboutCurrent, Executing
  <2>3. ReportInv(q)' BY <1>1, <1>4, <1>6, <2>1 DEF ReportInv, Executing
  <2> QED BY <2>2, <2>3
<1>12. RunningIsDriven'
  <2>1. DOMAIN deployments' = 1..k /\ DOMAIN deployments = 1..k BY <1>6 DEF IInv, RowsInv
  <2> QED BY <1>1, <1>7, <2>1 DEF IInv, RunningIsDriven
<1> QED BY <1>6, <1>8, <1>9, <1>10, <1>11, <1>12 DEF IInv

-----------------------------------------------------------------------------
(* The owner ends an attempt.                                              *)

\* The owner p rests after a step that left the newest row completed.
LEMMA CompletedKeeps ==
    ASSUME IInv, NEW p \in Processes, owner = p, NEW c \in CompletionType,
           IsAboutCurrent(c), Complete(c),
           unproven \subseteq Obligations(Current, c),
           proc' = [proc EXCEPT ![p] = Resting("idle")],
           pending' = [pending EXCEPT ![p] = NoCompletion] \/ pending' = [pending EXCEPT ![p] = c],
           UNCHANGED <<owner, unproven>>, crashes' \in Nat, lost' \in Nat
    PROVE  IInv'
<1>1. /\ RowsInv' /\ BaselineInv' /\ Len(deployments') = Len(deployments) /\ deployments' # << >>
      /\ Current'.status # "running" /\ Current'.desired = Current.desired
      /\ Len(Current'.attempts) = Len(Current.attempts)
      /\ Current'.verification.unresolved = Obligations(Current, c)
  BY CompleteFacts DEF IInv
<1>2. DutyInv' BY <1>1 DEF IInv, DutyInv, ObligationsKept, IsAboutCurrent
<1>3. Resting("idle") \in ProcType /\ Resting("idle").pc = "idle" BY RestingType
<1>4. Shape' BY <1>3, CompletionTypes DEF IInv, Shape
<1>5. ASSUME NEW q \in Processes PROVE DriverInv(q)' /\ ReportInv(q)'
  <2>1. CASE q = p
    <3>1. proc'[p].pc = "idle" BY <1>3 DEF IInv, Shape
    <3>2. pending'[p] = NoCompletion \/ pending'[p] = c BY DEF IInv, Shape
    <3>3. IsAboutCurrent(c)' BY <1>1 DEF IsAboutCurrent
    <3> QED BY <1>1, <2>1, <3>1, <3>2, <3>3 DEF DriverInv, ReportInv, Executing
  <2>2. CASE q # p
    <3>1. proc[q].pc \in {"down", "waiting"} /\ pending[q] = NoCompletion
      BY <2>2 DEF IInv, DriverInv
    <3>2. proc'[q] = proc[q] /\ pending'[q] = pending[q] BY <2>2 DEF IInv, Shape
    <3> QED BY <2>2, <3>1, <3>2, RestingKeeps
  <2> QED BY <2>1, <2>2
<1>6. RunningIsDriven'
  <2>1. \A d \in DOMAIN deployments' : deployments'[d].status # "running"
    BY <1>1 DEF RowsInv, Current
  <2> QED BY <2>1 DEF RunningIsDriven
<1> QED BY <1>1, <1>2, <1>4, <1>5, <1>6 DEF IInv

\* A remembered completion is persisted, or was so already; then the attempt no longer runs.
LEMMA RecoverPendingKeeps == ASSUME NEW p \in Processes PROVE IInv /\ RecoverPending(p) => IInv'
<1> SUFFICES ASSUME IInv, RecoverPending(p) PROVE IInv' OBVIOUS
<1> PICK c : c = pending[p] OBVIOUS
<1>1. /\ proc[p].pc = "idle" /\ c # NoCompletion
      /\ pending' = [pending EXCEPT ![p] = NoCompletion]
      /\ UNCHANGED <<owner, proc, unproven, crashes, lost>>
  BY DEF RecoverPending
<1>2. owner = p /\ IsAboutCurrent(c) /\ c \in CompletionType
  BY <1>1 DEF IInv, DriverInv, Shape
<1>3. c.d = Len(deployments) /\ c.n = Len(Current.attempts) /\ deployments # << >>
  BY <1>2 DEF IsAboutCurrent
<1>4. /\ Current.status = Current.attempts[Len(Current.attempts)]
      /\ Len(deployments) \in Nat /\ DOMAIN deployments = 1..Len(deployments)
  BY <1>3, CurrentFacts DEF IInv
<1>5. IsRunning(c.d, c.n) <=> Current.status = "running"
  BY <1>3, <1>4 DEF IsRunning, Current
<1>6. ASSUME NEW q \in Processes, q # p
      PROVE  proc[q].pc \in {"down", "waiting"} /\ pending[q] = NoCompletion /\ owner # q
  BY <1>1, <1>6, OthersRest
<1>7. Shape' BY <1>1, CompletionTypes DEF IInv, Shape
<1>8. ASSUME NEW q \in Processes PROVE DriverInv(q)' /\ ReportInv(q)'
  <2>1. CASE q = p
    <3>1. pending'[p] = NoCompletion BY <1>1 DEF IInv, Shape
    <3> QED BY <1>1, <1>2, <2>1, <3>1, OwnerRests
  <2>2. CASE q # p
    <3>1. pending'[q] = NoCompletion BY <1>1, <1>6, <2>2 DEF IInv, Shape
    <3> QED BY <1>1, <1>6, <2>2, <3>1, RestingKeeps
  <2> QED BY <2>1, <2>2
<1>9. CASE IsRunning(c.d, c.n)
  <2>1. Complete(c) BY <1>9 DEF RecoverPending
  <2>2. /\ RowsInv' /\ BaselineInv' /\ Len(deployments') = Len(deployments) /\ deployments' # << >>
        /\ Current'.status # "running" /\ Current'.desired = Current.desired
        /\ Current'.verification.unresolved = Obligations(Current, c)
    BY <1>2, <2>1, CompleteFacts DEF IInv
  <2>3. unproven \subseteq Obligations(Current, c) BY <1>1, <1>5, <1>9 DEF IInv, ReportInv
  <2>4. DutyInv' BY <1>1, <1>3, <2>2, <2>3 DEF IInv, DutyInv, ObligationsKept
  <2>5. RunningIsDriven'
    <3>1. \A d \in DOMAIN deployments' : deployments'[d].status # "running"
      BY <2>2 DEF RowsInv, Current
    <3> QED BY <3>1 DEF RunningIsDriven
  <2> QED BY <1>7, <1>8, <2>2, <2>4, <2>5 DEF IInv
<1>10. CASE ~IsRunning(c.d, c.n)
  <2>1. UNCHANGED <<deployments, baseline>> BY <1>10 DEF RecoverPending, dbVars
  <2>2. RowsInv' /\ BaselineInv' /\ DutyInv' BY <1>1, <2>1, RowsKept
  <2>3. \A d \in DOMAIN deployments : deployments[d].status # "running"
    BY <1>4, <1>5, <1>10 DEF IInv, RowsInv, Current
  <2>4. RunningIsDriven' BY <2>1, <2>3 DEF RunningIsDriven
  <2> QED BY <1>7, <1>8, <2>2, <2>4 DEF IInv
<1> QED BY <1>9, <1>10

\* The completion is persisted or remembered.
LEMMA PersistKeeps == ASSUME NEW p \in Processes PROVE IInv /\ Persist(p) => IInv'
<1> SUFFICES ASSUME IInv, Persist(p) PROVE IInv' OBVIOUS
<1> PICK c : c = proc[p].result OBVIOUS
<1>1. /\ proc[p].pc = "completing" /\ proc' = [proc EXCEPT ![p] = Resting("idle")]
      /\ UNCHANGED <<owner, unproven, crashes>>
  BY DEF Persist
<1>2. /\ owner = p /\ IsAboutCurrent(c) /\ unproven \subseteq Obligations(Current, c)
      /\ Current.status = "running"
  BY <1>1 DEF IInv, DriverInv, ReportInv, Executing
<1>3. c \in CompletionType
  <2>1. proc[p] \in ProcType BY DEF IInv, Shape
  <2> QED BY <2>1 DEF ProcType
<1>4. CASE Complete(c) /\ lost' \in {lost, lost + 1}
           /\ (pending' = [pending EXCEPT ![p] = NoCompletion] \/ pending' = [pending EXCEPT ![p] = c])
  <2>1. crashes' \in Nat /\ lost' \in Nat BY <1>1, <1>4 DEF IInv, Shape
  <2> QED BY <1>1, <1>2, <1>3, <1>4, <2>1, CompletedKeeps
<1>5. CASE UNCHANGED <<deployments, baseline, lost>> /\ pending' = [pending EXCEPT ![p] = c]
  <2>1. RowsInv' /\ BaselineInv' /\ DutyInv' BY <1>1, <1>5, RowsKept
  <2>2. Resting("idle") \in ProcType /\ Resting("idle").pc = "idle" BY RestingType
  <2>3. Shape' BY <1>1, <1>3, <1>5, <2>2 DEF IInv, Shape
  <2>4. proc'[p].pc = "idle" /\ pending'[p] = c BY <1>1, <1>5, <2>2 DEF IInv, Shape
  <2>5. Current' = Current /\ IsAboutCurrent(c)' BY <1>2, <1>5 DEF Current, IsAboutCurrent
  <2>6. ASSUME NEW q \in Processes PROVE DriverInv(q)' /\ ReportInv(q)'
    <3>1. CASE q = p
      <4>1. unproven' \subseteq Obligations(Current, c)' BY <1>1, <1>2, <2>5 DEF Obligations
      <4> QED BY <1>1, <1>2, <2>4, <2>5, <3>1, <4>1 DEF DriverInv, ReportInv, Executing
    <3>2. CASE q # p
      <4>1. proc[q].pc \in {"down", "waiting"} /\ pending[q] = NoCompletion
        BY <1>1, <3>2, OthersRest
      <4>2. proc'[q] = proc[q] /\ pending'[q] = pending[q] BY <1>1, <1>5, <3>2 DEF IInv, Shape
      <4> QED BY <1>1, <1>2, <3>2, <4>1, <4>2, RestingKeeps
    <3> QED BY <3>1, <3>2
  <2>7. RunningIsDriven'
    <3>1. \A d \in DOMAIN deployments : deployments[d].status = "running" => d = c.d
      BY <1>2 DEF IInv, RowsInv, IsAboutCurrent
    <3> QED BY <1>1, <1>2, <1>5, <2>4, <3>1 DEF RunningIsDriven
  <2> QED BY <2>1, <2>3, <2>6, <2>7 DEF IInv
<1> QED BY <1>4, <1>5 DEF Persist, dbVars

-----------------------------------------------------------------------------
(* The owner starts an attempt.                                            *)

\* A new row behind rows of which none runs.
LEMMA AppendRow ==
    ASSUME NEW s \in Seq(RowType), NEW row, RowOK(row),
           \A d \in 1..Len(s) : RowOK(s[d]) /\ s[d].status # "running",
           deployments' = Append(s, row)
    PROVE  /\ RowsInv' /\ deployments' # << >> /\ Len(deployments') = Len(s) + 1 /\ Current' = row
           /\ \A d \in 1..Len(s) : deployments'[d] = s[d]
<1>1. row \in RowType BY DEF RowOK
<1>2. /\ deployments' \in Seq(RowType) /\ Len(deployments') = Len(s) + 1 /\ Len(s) \in Nat
      /\ deployments'[Len(s) + 1] = row /\ \A d \in 1..Len(s) : deployments'[d] = s[d]
  BY <1>1
<1>3. deployments' # << >>
  <2>1. Len(deployments') > 0 BY <1>2
  <2> QED BY <2>1
<1>4. \A d \in 1..(Len(s) + 1) :
         RowOK(deployments'[d]) /\ (deployments'[d].status = "running" => d = Len(s) + 1)
  BY <1>2
<1> QED BY <1>2, <1>3, <1>4 DEF RowsInv, Current

\* The rows after a start: the newest is the one asked for, it runs, and it inherits what is
\* still unproven of its services.
LEMMA StartedFacts ==
    ASSUME IInv, NEW definition \in Definitions, NEW manual, NEW sourceChanged,
           Started(definition, manual, sourceChanged), baseline' = baseline
    PROVE  /\ RowsInv' /\ BaselineInv' /\ deployments' # << >>
           /\ Current'.desired = definition /\ Current'.status = "running"
           /\ unproven \cap ServicesOf[definition] \subseteq Current'.verification.unresolved
<1> PICK k : k = Len(deployments) OBVIOUS
<1>0. deployments \in Seq(RowType) /\ k \in Nat /\ DOMAIN deployments = 1..k BY DEF IInv, RowsInv
<1>1. CASE deployments = << >> /\ deployments' = <<NewDeployment(definition, Unknown)>>
  <2> DEFINE row == NewDeployment(definition, Unknown)
  <2>1. RowOK(row) /\ row.status = "running" /\ row.desired = definition
    BY NewDeploymentFacts, VerificationTypes
  <2> HIDE DEF row
  <2>2. PICK s \in Seq(RowType) : s = deployments BY <1>0
  <2>3. /\ deployments' = Append(s, row) /\ Len(s) = 0
        /\ \A d \in 1..Len(s) : RowOK(s[d]) /\ s[d].status # "running"
    BY <1>1, <2>2 DEF row
  <2>4. RowsInv' /\ deployments' # << >> /\ Len(deployments') = 1 /\ Current' = row
    <3>1. RowsInv' /\ deployments' # << >> /\ Len(deployments') = Len(s) + 1 /\ Current' = row
      BY <2>1, <2>2, <2>3, AppendRow
    <3> QED BY <2>3, <3>1
  <2>5. unproven = {} BY <1>1 DEF IInv, DutyInv
  <2>6. BaselineInv'
    <3>1. k = 0 BY <1>1
    <3>2. deployments'[1] = row /\ DOMAIN deployments' = 1..1 BY <2>4 DEF Current, RowsInv
    <3>3. \A d \in 1..Len(deployments') : deployments'[d].status # "succeeded" BY <2>1, <2>4, <3>2
    <3> QED BY <1>0, <2>4, <3>1, <3>2, <3>3, BaselineKept DEF IInv
  <2> QED BY <2>1, <2>4, <2>5, <2>6
<1>2. CASE /\ deployments # << >> /\ Current.desired = definition
           /\ Current.status \in {"failed", "interrupted"}
           /\ deployments' = [deployments EXCEPT ![Len(deployments)] = Retried(@)]
  <2> DEFINE row == Retried(Current)
  <2>1. RowOK(Current) /\ k > 0 BY <1>2, CurrentFacts DEF IInv
  <2>2. /\ RowOK(row) /\ row.status = "running" /\ row.desired = definition
        /\ row.verification = Current.verification
    BY <1>2, <2>1, RetriedFacts
  <2>3. deployments' = [deployments EXCEPT ![Len(deployments)] = row] BY <1>2 DEF Current
  <2> HIDE DEF row
  <2>4. /\ RowsInv' /\ deployments' # << >> /\ Len(deployments') = k /\ Current' = row
        /\ \A d \in 1..k : d # k => deployments'[d] = deployments[d]
    BY <1>2, <2>2, <2>3, RewriteCurrent DEF IInv
  <2>5. unproven \subseteq Current.verification.unresolved BY <1>2 DEF IInv, DutyInv, ObligationsKept
  <2>6. BaselineInv'
    <3>1. \A d \in 1..k : deployments'[d].status = "succeeded" <=> deployments[d].status = "succeeded"
      BY <1>2, <2>2, <2>4 DEF Current
    <3>2. \A d \in 1..Len(deployments') : ~(d > k) BY <1>0, <2>4
    <3>3. Len(deployments') \in Nat /\ Len(deployments') >= k /\ DOMAIN deployments' = 1..Len(deployments')
      BY <1>0, <2>4 DEF RowsInv
    <3> QED BY <3>1, <3>2, <3>3, BaselineKept DEF IInv
  <2> QED BY <2>2, <2>4, <2>5, <2>6
<1>3. ASSUME deployments # << >>,
             NEW previous,
             previous = IF Current.status = "running" THEN Finished(Current, ProcessInterrupted) ELSE Current,
             deployments' = Append([deployments EXCEPT ![Len(deployments)] = previous],
                NewDeployment(definition, Known(Inherited(previous, definition))))
      PROVE  /\ RowsInv' /\ BaselineInv' /\ deployments' # << >>
             /\ Current'.desired = definition /\ Current'.status = "running"
             /\ unproven \cap ServicesOf[definition] \subseteq Current'.verification.unresolved
  <2>1. /\ RowOK(Current) /\ Current \in RowType /\ k > 0 /\ k \in 1..Len(deployments)
    BY <1>3, <1>0, CurrentFacts DEF IInv
  <2>2. unproven \subseteq ServicesOf[Current.desired] BY <1>3 DEF IInv, DutyInv
  <2>3. /\ RowOK(previous) /\ previous.status # "running"
        /\ previous.status = "succeeded" <=> Current.status = "succeeded"
        /\ unproven \subseteq previous.verification.unresolved
    <3>1. CASE Current.status = "running"
      <4>1. /\ RowOK(previous) /\ previous.status \in {"succeeded", "failed", "interrupted"}
            /\ previous.status = "succeeded" <=> ProcessInterrupted.outcome = "succeeded"
            /\ previous.verification = Known(Obligations(Current, ProcessInterrupted))
        BY <1>3, <2>1, <3>1, FinishedFacts, CompletionTypes
      <4>2. previous.verification.unresolved = Obligations(Current, ProcessInterrupted)
        BY <4>1, VerificationTypes
      <4>3. ServicesOf[Current.desired] \subseteq Obligations(Current, ProcessInterrupted)
        BY CompletionTypes, VerificationTypes DEF Obligations, ApplyPhase
      <4> QED BY <2>2, <3>1, <4>1, <4>2, <4>3, CompletionTypes
    <3>2. CASE Current.status # "running"
      BY <1>3, <2>1, <3>2 DEF IInv, DutyInv, ObligationsKept
    <3> QED BY <3>1, <3>2
  <2>4. previous \in RowType /\ previous.verification.unresolved \subseteq Services
    BY <2>3 DEF RowOK, RowType, VerificationType
  <2>5. /\ Inherited(previous, definition) \in SUBSET Services
        /\ unproven \cap ServicesOf[definition] \subseteq Inherited(previous, definition)
    BY <2>3, <2>4, DesiredFacts DEF Inherited
  <2> DEFINE row == NewDeployment(definition, Known(Inherited(previous, definition)))
             s == [deployments EXCEPT ![k] = previous]
  <2>6. /\ RowOK(row) /\ row.status = "running" /\ row.desired = definition
        /\ row.verification.unresolved = Inherited(previous, definition)
    BY <2>5, NewDeploymentFacts, VerificationTypes
  <2> HIDE DEF row
  <2>7. /\ s \in Seq(RowType) /\ Len(s) = k /\ s[k] = previous
        /\ \A d \in 1..k : d # k => s[d] = deployments[d]
    BY <1>0, <2>1, <2>4, SeqExcept
  <2>8. deployments' = Append(s, row) BY <1>3 DEF row
  <2> HIDE DEF s
  <2>9. \A d \in 1..k : d # k => RowOK(deployments[d]) /\ deployments[d].status # "running"
    BY DEF IInv, RowsInv
  <2>10. \A d \in 1..Len(s) : RowOK(s[d]) /\ s[d].status # "running" BY <2>3, <2>7, <2>9
  <2>11. /\ RowsInv' /\ deployments' # << >> /\ Len(deployments') = k + 1 /\ Current' = row
         /\ \A d \in 1..k : deployments'[d] = s[d]
    BY <2>6, <2>7, <2>8, <2>10, AppendRow
  <2>12. BaselineInv'
    <3>1. \A d \in 1..k : deployments'[d].status = "succeeded" <=> deployments[d].status = "succeeded"
      BY <2>3, <2>7, <2>11 DEF Current
    <3>2. deployments'[k + 1] = row BY <2>11 DEF Current
    <3>3. \A d \in 1..Len(deployments') : d > k => deployments'[d].status # "succeeded"
      BY <1>0, <2>6, <2>11, <3>2
    <3>4. Len(deployments') \in Nat /\ Len(deployments') >= k /\ DOMAIN deployments' = 1..Len(deployments')
      BY <1>0, <2>11 DEF RowsInv
    <3> QED BY <3>1, <3>3, <3>4, BaselineKept DEF IInv
  <2> QED BY <2>5, <2>6, <2>11, <2>12
<1> QED BY <1>1, <1>2, <1>3 DEF Started

\* The owner starts an attempt, and drives it unless the acknowledgement is lost.
LEMMA StartKeeps ==
    ASSUME NEW p \in Processes, NEW definition \in Definitions,
           NEW manual, NEW sourceChanged, NEW acknowledged
    PROVE  IInv /\ Start(p, definition, manual, sourceChanged, acknowledged) => IInv'
<1> SUFFICES ASSUME IInv, Start(p, definition, manual, sourceChanged, acknowledged) PROVE IInv' OBVIOUS
<1>1. /\ proc[p].pc = "idle" /\ pending[p] = NoCompletion
      /\ Started(definition, manual, sourceChanged)
      /\ unproven' = unproven \cap ServicesOf[definition]
      /\ UNCHANGED <<baseline, owner, pending, crashes>>
  BY DEF Start
<1>2. owner = p BY <1>1 DEF IInv, DriverInv
<1>3. /\ RowsInv' /\ BaselineInv' /\ deployments' # << >>
      /\ Current'.desired = definition /\ Current'.status = "running"
      /\ unproven' \subseteq Current'.verification.unresolved
  BY <1>1, StartedFacts
<1>4. DutyInv' BY <1>1, <1>3 DEF DutyInv, ObligationsKept
<1>5. unproven' \in SUBSET Services BY <1>1 DEF IInv, Shape
<1>6. ASSUME NEW q \in Processes, q # p
      PROVE  proc[q].pc \in {"down", "waiting"} /\ pending[q] = NoCompletion
  BY <1>1, <1>6, OthersRest
<1>7. CASE acknowledged
  <2> PICK row : row = deployments'[Len(deployments')] OBVIOUS
  <2> DEFINE r == [Resting("deploying") EXCEPT !.d = Len(deployments'), !.n = Len(row.attempts),
                                               !.inherited = row.verification.unresolved]
  <2>1. proc' = [proc EXCEPT ![p] = r] /\ lost' = lost BY <1>7 DEF Start
  <2>2. row = Current' BY DEF Current
  <2>3. /\ Len(deployments') \in Nat /\ Len(row.attempts) \in Nat
        /\ row.verification.unresolved \in SUBSET Services
    <3>1. Len(deployments') \in Nat /\ Current' \in RowType /\ Len(Current'.attempts) \in Nat
      <4>1. deployments' \in Seq(RowType) /\ Len(deployments') \in 1..Len(deployments') BY <1>3 DEF RowsInv
      <4>2. RowOK(Current') BY <1>3, <4>1 DEF RowsInv, Current
      <4> QED BY <4>1, <4>2 DEF RowOK, RowType
    <3> QED BY <2>2, <3>1 DEF RowType, VerificationType
  <2>4. /\ r \in ProcType /\ r.pc = "deploying" /\ r.d = Len(deployments') /\ r.n = Len(row.attempts)
        /\ r.inherited = row.verification.unresolved /\ r.todo = {}
    BY <2>3, CompletionTypes DEF Resting, ProcType, Executing
  <2> HIDE DEF r
  <2>5. Shape' BY <1>1, <1>5, <2>1, <2>4 DEF IInv, Shape
  <2>6. proc'[p] = r BY <2>1 DEF IInv, Shape
  <2>7. ASSUME NEW q \in Processes PROVE DriverInv(q)' /\ ReportInv(q)'
    <3>1. CASE q = p
      <4>1. DriverInv(p)' BY <1>1, <1>2, <1>3, <2>2, <2>4, <2>6 DEF DriverInv, IsAboutCurrent, Executing
      <4>2. ReportInv(p)' BY <1>1, <1>3, <2>2, <2>4, <2>6 DEF ReportInv
      <4> QED BY <3>1, <4>1, <4>2
    <3>2. CASE q # p
      <4>1. proc'[q] = proc[q] BY <2>1, <3>2 DEF IInv, Shape
      <4> QED BY <1>1, <1>2, <1>6, <3>2, <4>1, RestingKeeps
    <3> QED BY <3>1, <3>2
  <2>8. RunningIsDriven'
    <3>1. \A d \in DOMAIN deployments' : deployments'[d].status = "running" => d = Len(deployments')
      BY <1>3 DEF RowsInv
    <3> QED BY <1>1, <1>2, <2>4, <2>6, <3>1 DEF RunningIsDriven, Executing
  <2> QED BY <1>3, <1>4, <2>5, <2>7, <2>8 DEF IInv
<1>8. CASE ~acknowledged
  <2>1. proc' = proc /\ lost' = lost + 1 BY <1>8 DEF Start
  <2>2. Shape' BY <1>1, <1>5, <2>1 DEF IInv, Shape
  <2>3. ASSUME NEW q \in Processes PROVE DriverInv(q)' /\ ReportInv(q)'
    <3>1. CASE q = p BY <1>1, <1>2, <2>1, <3>1, OwnerRests
    <3>2. CASE q # p BY <1>1, <1>2, <1>6, <2>1, <3>2, RestingKeeps
    <3> QED BY <3>1, <3>2
  <2>4. RunningIsDriven' BY <2>1 DEF RunningIsDriven, IInv, Shape
  <2> QED BY <1>3, <1>4, <2>2, <2>3, <2>4 DEF IInv
<1> QED BY <1>7, <1>8

-----------------------------------------------------------------------------
(* The owner executes an attempt.                                          *)

\* The newest row still runs the same attempt of the same definition.
SameAttempt ==
    /\ RowsInv' /\ BaselineInv' /\ deployments' # << >> /\ Len(deployments') = Len(deployments)
    /\ Current'.status = "running" /\ Current'.desired = Current.desired
    /\ Current'.attempts = Current.attempts

\* What an executing process knows.
LEMMA ExecutingFacts ==
    ASSUME IInv, NEW p \in Processes, proc[p].pc \in Executing
    PROVE  /\ deployments # << >> /\ owner = p /\ pending[p] = NoCompletion
           /\ proc[p] \in ProcType /\ proc[p].d = Len(deployments) /\ proc[p].n = Len(Current.attempts)
           /\ Current.status = "running" /\ Current = deployments[proc[p].d]
           /\ Current \in RowType /\ ServicesOf[Current.desired] \subseteq Services
           /\ ServicesOf[Current.desired] \subseteq Nat
           /\ proc[p].todo \subseteq ServicesOf[Current.desired]
           /\ unproven \subseteq ServicesOf[Current.desired]
           /\ IsRunning(proc[p].d, proc[p].n)
<1>1. /\ IsAboutCurrent(proc[p]) /\ Current.status = "running" /\ owner = p
      /\ pending[p] = NoCompletion /\ proc[p].todo \subseteq ServicesOf[Current.desired]
  BY DEF IInv, DriverInv, Executing
<1>2. deployments # << >> /\ proc[p].d = Len(deployments) /\ proc[p].n = Len(Current.attempts)
  BY <1>1 DEF IsAboutCurrent
<1>3. /\ Current \in RowType /\ Current.desired \in Definitions
      /\ Current.status = Current.attempts[Len(Current.attempts)]
  BY <1>2, CurrentFacts DEF IInv
<1>4. IsRunning(proc[p].d, proc[p].n) BY <1>1, <1>2, <1>3 DEF IsRunning, Current
<1>5. unproven \subseteq ServicesOf[Current.desired] BY <1>2 DEF IInv, DutyInv
<1> QED BY <1>1, <1>2, <1>3, <1>4, <1>5, DesiredFacts DEF IInv, Shape, Current

\* Steps of the pipeline that leave the rows alone.
LEMMA SameRow ==
    ASSUME IInv, NEW p \in Processes, proc[p].pc \in Executing, UNCHANGED <<deployments, baseline>>
    PROVE  SameAttempt /\ Current' = Current
<1>1. deployments # << >> /\ Current.status = "running" BY ExecutingFacts
<1> QED BY <1>1 DEF SameAttempt, IInv, RowsInv, BaselineInv, BaselineIsLastSuccess, Current

\* Steps of the pipeline that rewrite the obligations of the running deployment.
LEMMA NotedRow ==
    ASSUME IInv, NEW p \in Processes, proc[p].pc \in Executing, NEW names \in SUBSET Services,
           Noted(p, names), baseline' = baseline
    PROVE  SameAttempt
<1> PICK k : k = Len(deployments) OBVIOUS
<1> PICK u : u = IF deployments[proc[p].d].verification.known THEN names ELSE {} OBVIOUS
<1> DEFINE v == [Current.verification EXCEPT !.unresolved = u]
           row == [Current EXCEPT !.verification = v]
<1>1. /\ deployments # << >> /\ Current.status = "running" /\ proc[p].d = k
      /\ Current = deployments[proc[p].d] /\ Current \in RowType
  BY ExecutingFacts
<1>2. RowOK(Current) /\ k \in Nat /\ DOMAIN deployments = 1..k BY <1>1, CurrentFacts DEF IInv
<1>3. deployments' = [deployments EXCEPT ![Len(deployments)] = row] BY <1>1 DEF Noted
<1>4. Current.verification \in VerificationType /\ u \in SUBSET Services BY <1>1 DEF RowType
<1>5. v \in VerificationType BY <1>4 DEF VerificationType
<1> HIDE DEF v
<1>6. /\ row \in RowType /\ row.status = Current.status /\ row.attempts = Current.attempts
      /\ row.announced = Current.announced /\ row.desired = Current.desired
  BY <1>1, <1>5 DEF RowType
<1> HIDE DEF row
<1>7. RowOK(row) BY <1>2, <1>6 DEF RowOK
<1>8. /\ RowsInv' /\ deployments' # << >> /\ Len(deployments') = k /\ Current' = row
      /\ \A d \in 1..k : d # k => deployments'[d] = deployments[d]
  BY <1>1, <1>3, <1>7, RewriteCurrent DEF IInv
<1>9. BaselineInv'
  <2>1. \A d \in 1..k : deployments'[d].status = "succeeded" <=> deployments[d].status = "succeeded"
    BY <1>6, <1>8 DEF Current
  <2>2. \A d \in 1..Len(deployments') : ~(d > k) BY <1>2, <1>8
  <2>3. Len(deployments') \in Nat /\ Len(deployments') >= k /\ DOMAIN deployments' = 1..Len(deployments')
    BY <1>2, <1>8 DEF RowsInv
  <2> QED BY <2>1, <2>2, <2>3, BaselineKept DEF IInv
<1> QED BY <1>1, <1>6, <1>8, <1>9 DEF SameAttempt

\* An executing process goes on executing the same attempt.
LEMMA ExecutingKeeps ==
    ASSUME IInv, NEW p \in Processes, proc[p].pc \in Executing, NEW r \in ProcType,
           proc' = [proc EXCEPT ![p] = r],
           r.pc \in Executing, r.d = proc[p].d, r.n = proc[p].n,
           r.todo \subseteq ServicesOf[Current.desired],
           r.pc = "recorded" => r.todo # {},
           r.pc = "completing" => r.result.d = r.d /\ r.result.n = r.n,
           SameAttempt, UNCHANGED <<owner, pending, crashes, lost>>,
           unproven' \subseteq ServicesOf[Current.desired],
           ReportInv(p)'
    PROVE  IInv'
<1>1. /\ owner = p /\ pending[p] = NoCompletion /\ deployments # << >>
      /\ proc[p].d = Len(deployments) /\ proc[p].n = Len(Current.attempts)
      /\ ServicesOf[Current.desired] \subseteq Services
  BY ExecutingFacts
<1>2. Shape' BY <1>1 DEF IInv, Shape
<1>3. proc'[p] = r BY DEF IInv, Shape
<1>4. DutyInv' BY DEF SameAttempt, DutyInv, ObligationsKept
<1>5. ASSUME NEW q \in Processes PROVE DriverInv(q)' /\ ReportInv(q)'
  <2>1. CASE q = p
    <3>1. proc'[p].pc \notin {"down", "waiting", "idle"} BY <1>3 DEF Executing
    <3>2. IsAboutCurrent(proc[p])' BY <1>1, <1>3 DEF IsAboutCurrent, SameAttempt
    <3>3. r.pc = "completing" => IsAboutCurrent(proc[p].result)'
      BY <1>1, <1>3 DEF IsAboutCurrent, SameAttempt
    <3>4. DriverInv(p)' BY <1>1, <1>3, <3>1, <3>2, <3>3 DEF DriverInv, SameAttempt
    <3> QED BY <2>1, <3>4
  <2>2. CASE q # p
    <3>1. proc[q].pc \in {"down", "waiting"} /\ pending[q] = NoCompletion
      BY <1>1, <2>2, OthersRest DEF Executing
    <3>2. proc'[q] = proc[q] BY <2>2 DEF IInv, Shape
    <3> QED BY <1>1, <2>2, <3>1, <3>2, RestingKeeps
  <2> QED BY <2>1, <2>2
<1>6. RunningIsDriven'
  <2>1. \A d \in DOMAIN deployments' : deployments'[d].status = "running" => d = Len(deployments)
    BY DEF SameAttempt, RowsInv
  <2> QED BY <1>1, <1>3, <2>1 DEF RunningIsDriven
<1> QED BY <1>2, <1>4, <1>5, <1>6 DEF IInv, SameAttempt

\* An executing process goes on to persist an outcome that covers what is unproven.
LEMMA ConcludeKeeps ==
    ASSUME IInv, NEW p \in Processes, proc[p].pc \in Executing,
           NEW outcome \in Outcomes, NEW retryable \in BOOLEAN, NEW v \in VerificationType,
           Conclude(p, outcome, retryable, v),
           SameAttempt, UNCHANGED <<owner, pending, crashes, lost>>,
           unproven' \subseteq ServicesOf[Current.desired],
           \/ ~v.known /\ outcome \notin {"succeeded", "init_failed"}
           \/ v.known /\ unproven' \subseteq v.unresolved /\ outcome # "succeeded"
           \/ outcome \in {"apply_failed", "init_failed"} /\ unproven' \subseteq Current'.verification.unresolved
           \/ unproven' = {}
    PROVE  IInv'
<1> PICK c : c = [d |-> proc[p].d, n |-> proc[p].n, outcome |-> outcome, retryable |-> retryable,
                  verification |-> v] OBVIOUS
<1> DEFINE r1 == [proc[p] EXCEPT !.pc = "completing"]
           r == [r1 EXCEPT !.result = c]
<1>1. proc[p] \in ProcType /\ proc[p].todo \subseteq ServicesOf[Current.desired] BY ExecutingFacts
<1>2. c \in CompletionType BY <1>1 DEF CompletionType, ProcType
<1>3. proc' = [proc EXCEPT ![p] = r] BY DEF Conclude
<1>4. r1 \in ProcType BY <1>1 DEF ProcType, Executing
<1>5. /\ r \in ProcType /\ r.pc = "completing" /\ r.d = proc[p].d /\ r.n = proc[p].n
      /\ r.todo = proc[p].todo /\ r.result = c
  BY <1>1, <1>2, <1>4 DEF ProcType
<1> HIDE DEF r
<1>6. unproven' \subseteq Obligations(Current', c)
  BY DEF Obligations, ApplyPhase, SameAttempt
<1>7. proc'[p] = r BY <1>3 DEF IInv, Shape
<1>8. pending'[p] = NoCompletion BY ExecutingFacts
<1>9. ReportInv(p)'
  <2>1. unproven' \subseteq Obligations(Current, proc[p].result)' BY <1>5, <1>6, <1>7 DEF Obligations
  <2> QED BY <1>5, <1>7, <1>8, <2>1 DEF ReportInv
<1>10. r.result.d = r.d /\ r.result.n = r.n /\ r.pc \in Executing BY <1>5 DEF Executing
<1> QED BY <1>1, <1>3, <1>5, <1>9, <1>10, ExecutingKeeps

\* An executing process goes on applying or verifying what it has written.
LEMMA AdvanceKeeps ==
    ASSUME IInv, NEW p \in Processes, proc[p].pc \in Executing, NEW r \in ProcType,
           proc' = [proc EXCEPT ![p] = r],
           r.pc \in {"applying", "recorded", "verifying", "observing"},
           r.d = proc[p].d, r.n = proc[p].n,
           r.todo \subseteq ServicesOf[Current.desired],
           r.pc = "recorded" => r.todo # {},
           SameAttempt, UNCHANGED <<owner, pending, crashes, lost>>,
           unproven' \subseteq ServicesOf[Current.desired],
           unproven' \subseteq r.inherited \cup r.written,
           r.pc = "observing" => unproven' = {}
    PROVE  IInv'
<1>1. proc'[p] = r BY DEF IInv, Shape
<1>2. pending'[p] = NoCompletion BY ExecutingFacts
<1>3. r.pc \notin {"deploying", "completing"} /\ r.pc \in Executing BY DEF Executing
<1>4. ReportInv(p)' BY <1>1, <1>2, <1>3 DEF ReportInv
<1> QED BY <1>3, <1>4, ExecutingKeeps

\* A failure before the apply reports nothing and keeps what was inherited.
LEMMA FailBeforeApplyKeeps ==
    ASSUME IInv, NEW p \in Processes, FailBeforeApply(p)
    PROVE  IInv'
<1>1. /\ proc[p].pc = "deploying" /\ proc[p].pc \in Executing
      /\ UNCHANGED <<deployments, baseline>> /\ UNCHANGED <<owner, pending, crashes, lost>>
      /\ unproven' = unproven
  BY DEF FailBeforeApply, Executing, dbVars
<1>2. SameAttempt /\ Current' = Current BY <1>1, SameRow
<1>3. unproven' \subseteq ServicesOf[Current.desired] BY <1>1, ExecutingFacts
<1>4. unproven' \subseteq Current'.verification.unresolved BY <1>1, <1>2 DEF IInv, ReportInv
<1>5. CASE Conclude(p, "apply_failed", TRUE, Unknown)
  BY <1>1, <1>2, <1>3, <1>4, <1>5, VerificationTypes, ConcludeKeeps DEF Outcomes
<1>6. ASSUME NEW outcome \in {"apply_failed", "init_failed"}, NEW retryable \in BOOLEAN,
             Conclude(p, outcome, retryable, Known({}))
      PROVE  IInv'
  <2>1. outcome \in Outcomes /\ Known({}) \in VerificationType BY VerificationTypes DEF Outcomes
  <2> QED BY <1>1, <1>2, <1>3, <1>4, <1>6, <2>1, ConcludeKeeps
<1> QED BY <1>5, <1>6 DEF FailBeforeApply

\* The apply begins with every desired service.
LEMMA BeginApplyKeeps ==
    ASSUME IInv, NEW p \in Processes, BeginApply(p)
    PROVE  IInv'
<1>1. /\ proc[p].pc = "deploying" /\ proc[p].pc \in Executing
      /\ UNCHANGED <<deployments, baseline>> /\ UNCHANGED <<owner, pending, crashes, lost>>
      /\ unproven' = unproven
      /\ proc' = [proc EXCEPT ![p].pc = "applying", ![p].todo = Desired(p)]
  BY DEF BeginApply, Executing, dbVars
<1>2. SameAttempt BY <1>1, SameRow
<1>3. /\ unproven' \subseteq ServicesOf[Current.desired] /\ proc[p] \in ProcType
      /\ Desired(p) = ServicesOf[Current.desired] /\ Desired(p) \in SUBSET Services
  BY <1>1, ExecutingFacts DEF Desired
<1> DEFINE r1 == [proc[p] EXCEPT !.pc = "applying"]
           r == [r1 EXCEPT !.todo = Desired(p)]
<1>4. proc' = [proc EXCEPT ![p] = r] BY <1>1
<1>5. r1 \in ProcType BY <1>3 DEF ProcType, Executing
<1>6. /\ r \in ProcType /\ r.pc = "applying" /\ r.d = proc[p].d /\ r.n = proc[p].n
      /\ r.todo = Desired(p) /\ r.inherited = proc[p].inherited
  BY <1>3, <1>5 DEF ProcType
<1> HIDE DEF r
<1>7. unproven' \subseteq r.inherited BY <1>1, <1>6 DEF IInv, ReportInv
<1> QED BY <1>1, <1>2, <1>3, <1>4, <1>6, <1>7, AdvanceKeeps

\* What is known while services are applied.
LEMMA ApplyingFacts ==
    ASSUME IInv, NEW p \in Processes, proc[p].pc \in {"applying", "recorded"}
    PROVE  /\ proc[p].pc \in Executing
           /\ unproven \subseteq proc[p].inherited \cup proc[p].written
           /\ proc[p].inherited \cup proc[p].written \in SUBSET Services
           /\ proc[p].pc = "recorded" => proc[p].todo # {}
           /\ proc[p].todo # {} => NextService(p) \in ServicesOf[Current.desired]
           /\ proc[p].todo # {} => NextService(p) \in Services
<1>1. proc[p].pc \in Executing BY DEF Executing
<1>2. /\ proc[p].todo \subseteq ServicesOf[Current.desired] /\ ServicesOf[Current.desired] \subseteq Nat
      /\ ServicesOf[Current.desired] \subseteq Services /\ proc[p] \in ProcType
  BY <1>1, ExecutingFacts
<1>3. proc[p].todo # {} => NextService(p) \in proc[p].todo BY <1>2, NextServiceIsLeft
<1>4. unproven \subseteq proc[p].inherited \cup proc[p].written BY DEF IInv, ReportInv
<1>5. proc[p].pc = "recorded" => proc[p].todo # {} BY DEF IInv, DriverInv
<1> QED BY <1>1, <1>2, <1>3, <1>4, <1>5 DEF ProcType

\* A service is done without a write, or with one.
LEMMA ServiceDoneKeeps ==
    ASSUME IInv, NEW p \in Processes, proc[p].pc \in {"applying", "recorded"}, proc[p].todo # {},
           NEW r \in ProcType, proc' = [proc EXCEPT ![p] = r],
           r.pc = "applying", r.d = proc[p].d, r.n = proc[p].n,
           r.todo = proc[p].todo \ {NextService(p)}, r.inherited = proc[p].inherited,
           \/ unproven' = unproven /\ r.written = proc[p].written
           \/ /\ unproven' = unproven \cup {NextService(p)}
              /\ r.written = proc[p].written \cup {NextService(p)},
           UNCHANGED <<deployments, baseline>>, UNCHANGED <<owner, pending, crashes, lost>>
    PROVE  IInv'
<1>1. /\ proc[p].pc \in Executing /\ NextService(p) \in ServicesOf[Current.desired]
      /\ unproven \subseteq proc[p].inherited \cup proc[p].written
  BY ApplyingFacts
<1>2. proc[p].todo \subseteq ServicesOf[Current.desired] /\ unproven \subseteq ServicesOf[Current.desired]
  BY <1>1, ExecutingFacts
<1>3. SameAttempt BY <1>1, SameRow
<1>4. /\ unproven' \subseteq ServicesOf[Current.desired] /\ unproven' \subseteq r.inherited \cup r.written
      /\ r.todo \subseteq ServicesOf[Current.desired]
  BY <1>1, <1>2
<1> QED BY <1>1, <1>3, <1>4, AdvanceKeeps

\* The next service needs no write, or is created.
LEMMA InspectKeeps ==
    ASSUME IInv, NEW p \in Processes, Inspect(p)
    PROVE  IInv'
<1> PICK s : s = NextService(p) OBVIOUS
<1>1. /\ proc[p].pc \in {"applying", "recorded"} /\ proc[p].pc = "applying" /\ proc[p].todo # {}
      /\ UNCHANGED <<deployments, baseline>> /\ UNCHANGED <<owner, pending, crashes, lost>>
  BY DEF Inspect, dbVars
<1>2. s \in Services /\ proc[p].pc \in Executing BY <1>1, ApplyingFacts
<1>3. proc[p] \in ProcType BY <1>2, ExecutingFacts
<1> DEFINE r == [proc[p] EXCEPT !.todo = proc[p].todo \ {s}]
           w == [r EXCEPT !.written = proc[p].written \cup {s}]
<1>4. r \in ProcType BY <1>3 DEF ProcType
<1>5. /\ r.pc = "applying" /\ r.d = proc[p].d /\ r.n = proc[p].n /\ r.todo = proc[p].todo \ {s}
      /\ r.inherited = proc[p].inherited /\ r.written = proc[p].written
  BY <1>1, <1>3 DEF ProcType
<1>6. w \in ProcType BY <1>2, <1>3, <1>4 DEF ProcType
<1>7. /\ w.pc = "applying" /\ w.d = proc[p].d /\ w.n = proc[p].n /\ w.todo = proc[p].todo \ {s}
      /\ w.inherited = proc[p].inherited /\ w.written = proc[p].written \cup {s}
  BY <1>1, <1>3 DEF ProcType
<1>8. CASE unproven' = unproven /\ proc' = [proc EXCEPT ![p].todo = @ \ {s}]
  <2>1. proc' = [proc EXCEPT ![p] = r] BY <1>8
  <2> HIDE DEF r
  <2> QED BY <1>1, <1>4, <1>5, <1>8, <2>1, ServiceDoneKeeps
<1>9. CASE /\ unproven' = unproven \cup {s}
           /\ proc' = [proc EXCEPT ![p].todo = @ \ {s}, ![p].written = @ \cup {s}]
  <2>1. proc' = [proc EXCEPT ![p] = w] BY <1>3, <1>9 DEF ProcType
  <2> HIDE DEF w
  <2> QED BY <1>1, <1>6, <1>7, <1>9, <2>1, ServiceDoneKeeps
<1> QED BY <1>8, <1>9 DEF Inspect

\* The obligation is recorded before the update is sent.
LEMMA RecordUpdateGenerationKeeps ==
    ASSUME IInv, NEW p \in Processes, RecordUpdateGeneration(p)
    PROVE  IInv'
<1> PICK s : s = NextService(p) OBVIOUS
<1> PICK names : names = deployments[proc[p].d].verification.unresolved OBVIOUS
<1>1. /\ proc[p].pc \in {"applying", "recorded"} /\ proc[p].todo # {}
      /\ Noted(p, names \cup {s})
      /\ proc' = [proc EXCEPT ![p].pc = "recorded", ![p].was = s \in names]
      /\ baseline' = baseline /\ UNCHANGED <<owner, pending, crashes, lost>> /\ unproven' = unproven
  BY DEF RecordUpdateGeneration
<1>2. /\ proc[p].pc \in Executing /\ s \in Services
      /\ unproven \subseteq proc[p].inherited \cup proc[p].written
  BY <1>1, ApplyingFacts
<1>3. /\ proc[p] \in ProcType /\ Current \in RowType /\ Current = deployments[proc[p].d]
      /\ proc[p].todo \subseteq ServicesOf[Current.desired] /\ unproven \subseteq ServicesOf[Current.desired]
  BY <1>2, ExecutingFacts
<1>4. names \cup {s} \in SUBSET Services BY <1>2, <1>3 DEF RowType, VerificationType
<1>5. SameAttempt BY <1>1, <1>2, <1>4, NotedRow
<1> DEFINE b == s \in names
           r1 == [proc[p] EXCEPT !.pc = "recorded"]
           r == [r1 EXCEPT !.was = b]
<1>6. proc' = [proc EXCEPT ![p] = r] BY <1>1
<1>7. r1 \in ProcType /\ b \in BOOLEAN BY <1>3 DEF ProcType, Executing
<1> HIDE DEF b
<1>8. /\ r \in ProcType /\ r.pc = "recorded" /\ r.d = proc[p].d /\ r.n = proc[p].n
      /\ r.todo = proc[p].todo /\ r.inherited = proc[p].inherited /\ r.written = proc[p].written
  BY <1>3, <1>7 DEF ProcType
<1> HIDE DEF r
<1> QED BY <1>1, <1>2, <1>3, <1>5, <1>6, <1>8, AdvanceKeeps

\* Docker accepts the update.
LEMMA UpdateKeeps ==
    ASSUME IInv, NEW p \in Processes, Update(p)
    PROVE  IInv'
<1> PICK s : s = NextService(p) OBVIOUS
<1>1. /\ proc[p].pc \in {"applying", "recorded"} /\ proc[p].pc = "recorded"
      /\ unproven' = unproven \cup {s}
      /\ proc' = [proc EXCEPT ![p].pc = "applying", ![p].todo = @ \ {s}, ![p].written = @ \cup {s}]
      /\ UNCHANGED <<deployments, baseline>> /\ UNCHANGED <<owner, pending, crashes, lost>>
  BY DEF Update, dbVars
<1>2. s \in Services /\ proc[p].pc \in Executing /\ proc[p].todo # {} BY <1>1, ApplyingFacts
<1>3. proc[p] \in ProcType BY <1>2, ExecutingFacts
<1> DEFINE r1 == [proc[p] EXCEPT !.pc = "applying"]
           r2 == [r1 EXCEPT !.todo = proc[p].todo \ {s}]
           r == [r2 EXCEPT !.written = proc[p].written \cup {s}]
<1>4. proc' = [proc EXCEPT ![p] = r]
  <2>1. r1.todo = proc[p].todo /\ r2.written = proc[p].written BY <1>3 DEF ProcType
  <2> QED BY <1>1, <2>1
<1>5. r1 \in ProcType BY <1>3 DEF ProcType, Executing
<1>6. r2 \in ProcType BY <1>3, <1>5 DEF ProcType
<1>7. r \in ProcType BY <1>2, <1>3, <1>6 DEF ProcType
<1>8. /\ r.pc = "applying" /\ r.d = proc[p].d /\ r.n = proc[p].n
      /\ r.todo = proc[p].todo \ {s} /\ r.inherited = proc[p].inherited
      /\ r.written = proc[p].written \cup {s}
  BY <1>3 DEF ProcType
<1> HIDE DEF r
<1> QED BY <1>1, <1>2, <1>4, <1>7, <1>8, ServiceDoneKeeps

\* Docker refuses the update and the obligation is restored.
LEMMA RejectKeeps ==
    ASSUME IInv, NEW p \in Processes, Reject(p)
    PROVE  IInv'
<1> PICK s : s = NextService(p) OBVIOUS
<1> PICK names : names = deployments[proc[p].d].verification.unresolved OBVIOUS
<1> PICK left : left = IF proc[p].was THEN names ELSE names \ {s} OBVIOUS
<1>1. /\ proc[p].pc \in {"applying", "recorded"} /\ Noted(p, left)
      /\ baseline' = baseline /\ UNCHANGED <<owner, pending, crashes, lost>> /\ unproven' = unproven
  BY DEF Reject
<1>2. /\ proc[p].pc \in Executing /\ unproven \subseteq proc[p].inherited \cup proc[p].written
      /\ proc[p].inherited \cup proc[p].written \in SUBSET Services
  BY <1>1, ApplyingFacts
<1>3. /\ proc[p] \in ProcType /\ Current \in RowType /\ Current = deployments[proc[p].d]
      /\ proc[p].todo \subseteq ServicesOf[Current.desired] /\ unproven \subseteq ServicesOf[Current.desired]
  BY <1>2, ExecutingFacts
<1>4. left \in SUBSET Services BY <1>3 DEF RowType, VerificationType
<1>5. SameAttempt BY <1>1, <1>2, <1>4, NotedRow
<1>6. CASE proc' = [proc EXCEPT ![p].pc = "applying"]
  <2> DEFINE r == [proc[p] EXCEPT !.pc = "applying"]
  <2>1. proc' = [proc EXCEPT ![p] = r] BY <1>6
  <2>2. /\ r \in ProcType /\ r.pc = "applying" /\ r.d = proc[p].d /\ r.n = proc[p].n
        /\ r.todo = proc[p].todo /\ r.inherited = proc[p].inherited /\ r.written = proc[p].written
    BY <1>3 DEF ProcType, Executing
  <2> HIDE DEF r
  <2> QED BY <1>1, <1>2, <1>3, <1>5, <2>1, <2>2, AdvanceKeeps
<1>7. ASSUME NEW retryable \in BOOLEAN,
             Conclude(p, "apply_failed", retryable, Known(proc[p].inherited \cup proc[p].written))
      PROVE  IInv'
  <2> PICK v : v = Known(proc[p].inherited \cup proc[p].written) OBVIOUS
  <2>1. v \in VerificationType /\ v.known /\ unproven' \subseteq v.unresolved
    BY <1>1, <1>2, VerificationTypes
  <2>2. "apply_failed" \in Outcomes BY DEF Outcomes
  <2> QED BY <1>1, <1>2, <1>3, <1>5, <1>7, <2>1, <2>2, ConcludeKeeps
<1> QED BY <1>6, <1>7 DEF Reject

\* It is refused but the obligation cannot be restored.
LEMMA RejectUnrestoredKeeps ==
    ASSUME IInv, NEW p \in Processes, RejectUnrestored(p)
    PROVE  IInv'
<1> PICK s : s = NextService(p) OBVIOUS
<1> PICK v : v = Known(proc[p].inherited \cup proc[p].written \cup {s}) OBVIOUS
<1>1. /\ proc[p].pc \in {"applying", "recorded"} /\ proc[p].pc = "recorded"
      /\ UNCHANGED <<deployments, baseline>> /\ UNCHANGED <<owner, pending, crashes, lost>>
      /\ unproven' = unproven
      /\ \E retryable \in BOOLEAN : Conclude(p, "apply_failed", retryable, v)
  BY DEF RejectUnrestored, dbVars
<1>2. /\ proc[p].pc \in Executing /\ unproven \subseteq proc[p].inherited \cup proc[p].written
      /\ proc[p].inherited \cup proc[p].written \in SUBSET Services /\ s \in Services
  BY <1>1, ApplyingFacts
<1>3. unproven \subseteq ServicesOf[Current.desired] BY <1>2, ExecutingFacts
<1>4. SameAttempt BY <1>1, <1>2, SameRow
<1>5. v \in VerificationType /\ v.known /\ unproven' \subseteq v.unresolved
  BY <1>1, <1>2, VerificationTypes
<1>6. "apply_failed" \in Outcomes BY DEF Outcomes
<1> QED BY <1>1, <1>2, <1>3, <1>4, <1>5, <1>6, ConcludeKeeps

\* An apply that ends without saying so may have left its last write accepted.
LEMMA FailApplyKeeps ==
    ASSUME IInv, NEW p \in Processes, FailApply(p)
    PROVE  IInv'
<1>1. /\ proc[p].pc \in {"applying", "recorded"}
      /\ UNCHANGED <<deployments, baseline>> /\ UNCHANGED <<owner, pending, crashes, lost>>
      /\ unproven' = unproven \/ (proc[p].todo # {} /\ unproven' = unproven \cup {NextService(p)})
      /\ \E retryable \in BOOLEAN : Conclude(p, "apply_failed", retryable, Unknown)
  BY DEF FailApply, dbVars
<1>2. /\ proc[p].pc \in Executing
      /\ proc[p].todo # {} => NextService(p) \in ServicesOf[Current.desired]
  BY <1>1, ApplyingFacts
<1>3. unproven' \subseteq ServicesOf[Current.desired] BY <1>1, <1>2, ExecutingFacts
<1>4. SameAttempt BY <1>1, <1>2, SameRow
<1>5. "apply_failed" \in Outcomes BY DEF Outcomes
<1> QED BY <1>1, <1>2, <1>3, <1>4, <1>5, VerificationTypes, ConcludeKeeps

\* Every service was applied.
LEMMA ApplyDoneKeeps ==
    ASSUME IInv, NEW p \in Processes, ApplyDone(p)
    PROVE  IInv'
<1>1. /\ proc[p].pc \in {"applying", "recorded"}
      /\ UNCHANGED <<deployments, baseline>> /\ UNCHANGED <<owner, pending, crashes, lost>>
      /\ unproven' = unproven /\ proc' = [proc EXCEPT ![p].pc = "verifying"]
  BY DEF ApplyDone, dbVars
<1>2. proc[p].pc \in Executing /\ unproven \subseteq proc[p].inherited \cup proc[p].written
  BY <1>1, ApplyingFacts
<1>3. /\ proc[p] \in ProcType /\ unproven \subseteq ServicesOf[Current.desired]
      /\ proc[p].todo \subseteq ServicesOf[Current.desired]
  BY <1>2, ExecutingFacts
<1>4. SameAttempt BY <1>1, <1>2, SameRow
<1> DEFINE r == [proc[p] EXCEPT !.pc = "verifying"]
<1>5. proc' = [proc EXCEPT ![p] = r] BY <1>1
<1>6. /\ r \in ProcType /\ r.pc = "verifying" /\ r.d = proc[p].d /\ r.n = proc[p].n
      /\ r.todo = proc[p].todo /\ r.inherited = proc[p].inherited /\ r.written = proc[p].written
  BY <1>3 DEF ProcType, Executing
<1> HIDE DEF r
<1> QED BY <1>1, <1>2, <1>3, <1>4, <1>5, <1>6, AdvanceKeeps

\* The waiter leaves exactly the names it does not prove.
LEMMA WaitKeeps ==
    ASSUME IInv, NEW p \in Processes, Wait(p)
    PROVE  IInv'
<1> PICK names : names = VerifiedNames(p) OBVIOUS
<1>1. /\ proc[p].pc = "verifying" /\ proc[p].pc \in Executing
      /\ UNCHANGED <<deployments, baseline>> /\ UNCHANGED <<owner, pending, crashes, lost>>
  BY DEF Wait, Executing, dbVars
<1>2. PICK left \in SUBSET names :
        /\ unproven' = unproven \ (names \ left)
        /\ IF left = {}
             THEN proc' = [proc EXCEPT ![p].pc = "observing"]
             ELSE \/ Conclude(p, "convergence_failed", FALSE, Known(left))
                  \/ Conclude(p, "verification_interrupted", TRUE, Known(left))
  BY DEF Wait
<1>3. /\ proc[p] \in ProcType /\ unproven \subseteq ServicesOf[Current.desired]
      /\ proc[p].todo \subseteq ServicesOf[Current.desired]
      /\ ServicesOf[Current.desired] \subseteq Services /\ Current = deployments[proc[p].d]
  BY <1>1, ExecutingFacts
<1>4. SameAttempt BY <1>1, SameRow
<1>5. unproven \subseteq proc[p].inherited \cup proc[p].written BY <1>1 DEF IInv, ReportInv
<1>6. names \subseteq Services /\ unproven \subseteq names
  BY <1>3, <1>5 DEF VerifiedNames, Desired, ProcType
<1>7. unproven' \subseteq left /\ unproven' \subseteq ServicesOf[Current.desired] BY <1>2, <1>3, <1>6
<1>8. CASE left = {}
  <2> DEFINE r == [proc[p] EXCEPT !.pc = "observing"]
  <2>1. proc' = [proc EXCEPT ![p] = r] BY <1>2, <1>8
  <2>2. /\ r \in ProcType /\ r.pc = "observing" /\ r.d = proc[p].d /\ r.n = proc[p].n
        /\ r.todo = proc[p].todo
    BY <1>3 DEF ProcType, Executing
  <2>3. unproven' = {} BY <1>7, <1>8
  <2> HIDE DEF r
  <2> QED BY <1>1, <1>3, <1>4, <2>1, <2>2, <2>3, AdvanceKeeps
<1>9. CASE left # {}
  <2> PICK v : v = Known(left) OBVIOUS
  <2>1. v \in VerificationType /\ v.known /\ unproven' \subseteq v.unresolved
    BY <1>2, <1>6, <1>7, VerificationTypes
  <2>2. "convergence_failed" \in Outcomes /\ "verification_interrupted" \in Outcomes BY DEF Outcomes
  <2>3. PICK outcome \in {"convergence_failed", "verification_interrupted"}, retryable \in BOOLEAN :
          Conclude(p, outcome, retryable, v)
    BY <1>2, <1>9
  <2>4. outcome \in Outcomes /\ outcome # "succeeded" BY <2>2
  <2> QED BY <1>1, <1>4, <1>7, <2>1, <2>3, <2>4, ConcludeKeeps
<1> QED BY <1>8, <1>9

\* After convergence nothing is unproven, whatever the outcome.
LEMMA ObserveKeeps ==
    ASSUME IInv, NEW p \in Processes, Observe(p)
    PROVE  IInv'
<1>1. /\ proc[p].pc = "observing" /\ proc[p].pc \in Executing
      /\ UNCHANGED <<deployments, baseline>> /\ UNCHANGED <<owner, pending, crashes, lost>>
      /\ unproven' = unproven
  BY DEF Observe, Executing, dbVars
<1>2. SameAttempt BY <1>1, SameRow
<1>3. unproven' = {} BY <1>1 DEF IInv, ReportInv
<1>4. Known({}) \in VerificationType /\ Unknown \in VerificationType BY VerificationTypes
<1>5. PICK outcome \in {"apply_failed", "verification_interrupted", "cleanup_failed", "succeeded"},
           retryable \in BOOLEAN, v \in {Known({}), Unknown} :
        Conclude(p, outcome, retryable, v)
  BY DEF Observe
<1>6. outcome \in Outcomes /\ v \in VerificationType BY <1>4 DEF Outcomes
<1> QED BY <1>1, <1>2, <1>3, <1>5, <1>6, ConcludeKeeps

-----------------------------------------------------------------------------
(* Every step.                                                             *)

\* Nothing is deployed and every process is down.
LEMMA InitHolds == Init => IInv
<1> SUFFICES ASSUME Init PROVE IInv OBVIOUS
<1>1. /\ deployments = << >> /\ baseline = 0 /\ owner = None /\ unproven = {} /\ crashes = 0 /\ lost = 0
      /\ proc = [p \in Processes |-> Resting("down")] /\ pending = [p \in Processes |-> NoCompletion]
  BY DEF Init
<1>2. Resting("down") \in ProcType /\ Resting("down").pc = "down" BY RestingType
<1>3. RowsInv /\ BaselineInv BY <1>1 DEF RowsInv, BaselineInv, BaselineIsLastSuccess
<1>4. Shape BY <1>1, <1>2, CompletionTypes DEF Shape
<1>5. DutyInv BY <1>1 DEF DutyInv, ObligationsKept
<1>6. RunningIsDriven BY <1>1 DEF RunningIsDriven
<1>7. ASSUME NEW p \in Processes PROVE DriverInv(p) /\ ReportInv(p)
  <2>1. proc[p].pc = "down" /\ pending[p] = NoCompletion /\ owner # p BY <1>1, <1>2, NoneIsNoProcess
  <2> QED BY <2>1 DEF DriverInv, ReportInv, Executing
<1> QED BY <1>3, <1>4, <1>5, <1>6, <1>7 DEF IInv

\* A step of the pipeline.
LEMMA DeployKeeps == ASSUME IInv, NEW p \in Processes, Deploy(p) PROVE IInv'
BY FailBeforeApplyKeeps, BeginApplyKeeps, InspectKeeps, RecordUpdateGenerationKeeps, UpdateKeeps,
   RejectKeeps, RejectUnrestoredKeeps, FailApplyKeeps, ApplyDoneKeeps, WaitKeeps, ObserveKeeps,
   PersistKeeps DEF Deploy

\* A completion that is tried again, or a new attempt.
LEMMA ExecuteKeeps == ASSUME IInv, NEW p \in Processes, Execute(p) PROVE IInv'
BY RecoverPendingKeeps, StartKeeps DEF Execute

\* A step that changes nothing.
LEMMA StutterKeeps == IInv /\ UNCHANGED vars => IInv'
<1> SUFFICES ASSUME IInv, UNCHANGED vars PROVE IInv' OBVIOUS
<1>1. UNCHANGED <<deployments, baseline, owner, proc, pending, unproven, crashes, lost>> BY DEF vars, dbVars
<1>2. RowsInv' /\ BaselineInv' BY <1>1 DEF IInv, RowsInv, BaselineInv, BaselineIsLastSuccess
<1>3. Shape' /\ DutyInv' /\ RunningIsDriven'
  BY <1>1 DEF IInv, Shape, DutyInv, ObligationsKept, Current, RunningIsDriven
<1>4. ASSUME NEW q \in Processes PROVE DriverInv(q)' /\ ReportInv(q)'
  BY <1>1 DEF IInv, DriverInv, ReportInv, IsAboutCurrent, Current, Obligations
<1> QED BY <1>2, <1>3, <1>4 DEF IInv

\* IInv is inductive.
LEMMA StepKeeps == IInv /\ [Next]_vars => IInv'
<1> SUFFICES ASSUME IInv, [Next]_vars PROVE IInv' OBVIOUS
<1>1. CASE UNCHANGED vars BY <1>1, StutterKeeps
<1>2. CASE BackoffElapses BY <1>2, BackoffKeeps
<1>3. ASSUME NEW p \in Processes,
             Boot(p) \/ Acquire(p) \/ Recover(p) \/ Shutdown(p) \/ Crash(p) \/ Execute(p) \/ Deploy(p)
      PROVE  IInv'
  BY <1>3, LifeKeeps, AcquireKeeps, RecoverKeeps, ExecuteKeeps, DeployKeeps
<1> QED BY <1>1, <1>2, <1>3 DEF Next

\* IInv holds throughout.
LEMMA InvariantHolds == Spec => []IInv
BY InitHolds, StepKeeps, PTL DEF Spec

\* A process that executes no attempt names none.
NamesNone == \A p \in Processes : proc[p].pc \notin Executing => proc[p].d = 0

\* NamesNone is kept: whatever stops executing becomes Resting.
LEMMA NamesNoneHolds == Spec => []NamesNone
<1>1. Init => NamesNone BY DEF Init, NamesNone, Resting
<1>2. IInv /\ NamesNone /\ [Next]_vars => NamesNone'
  <2> SUFFICES ASSUME IInv, NamesNone, [Next]_vars PROVE NamesNone' OBVIOUS
  <2>1. CASE UNCHANGED proc BY <2>1 DEF NamesNone
  <2>2. ASSUME NEW p \in Processes, NEW where, proc' = [proc EXCEPT ![p] = Resting(where)]
        PROVE  NamesNone'
    BY <2>2 DEF NamesNone, IInv, Shape, Resting
  <2>3. ASSUME NEW p \in Processes, NEW r, proc' = [proc EXCEPT ![p] = r], r.pc \in Executing
        PROVE  NamesNone'
    BY <2>3 DEF NamesNone, IInv, Shape
  <2>4. ASSUME NEW p \in Processes, Deploy(p) PROVE NamesNone'
    <3>1. proc[p] \in ProcType BY DEF IInv, Shape
    <3>2. CASE Persist(p) BY <2>2, <3>2 DEF Persist
    <3>3. ASSUME NEW outcome, NEW retryable, NEW v, Conclude(p, outcome, retryable, v) PROVE NamesNone'
      <4>1. proc'[p].pc = "completing" /\ \A q \in Processes : q # p => proc'[q] = proc[q]
        BY <3>1, <3>3 DEF Conclude, ProcType, IInv, Shape
      <4> QED BY <4>1 DEF NamesNone, Executing
    <3>4. CASE FailBeforeApply(p) \/ RejectUnrestored(p) \/ FailApply(p) \/ Observe(p)
      BY <3>3, <3>4 DEF FailBeforeApply, RejectUnrestored, FailApply, Observe
    <3>5. ASSUME proc'[p].pc \in Executing, \A q \in Processes : q # p => proc'[q] = proc[q]
          PROVE  NamesNone'
      BY <3>5 DEF NamesNone
    <3>6. CASE BeginApply(p) \/ RecordUpdateGeneration(p) \/ Update(p) \/ ApplyDone(p)
      BY <3>1, <3>5, <3>6 DEF BeginApply, RecordUpdateGeneration, Update, ApplyDone, ProcType, Executing, IInv, Shape
    <3>7. CASE Inspect(p)
      BY <3>1, <3>5, <3>7 DEF Inspect, ProcType, Executing, IInv, Shape
    <3>8. CASE Reject(p)
      BY <3>1, <3>3, <3>5, <3>8 DEF Reject, ProcType, Executing, IInv, Shape
    <3>9. CASE Wait(p)
      BY <3>1, <3>3, <3>5, <3>9 DEF Wait, ProcType, Executing, IInv, Shape
    <3> QED BY <2>4, <3>2, <3>4, <3>6, <3>7, <3>8, <3>9 DEF Deploy
  <2>5. ASSUME NEW p \in Processes, Execute(p) PROVE NamesNone'
    <3>1. CASE RecoverPending(p) BY <2>1, <3>1 DEF RecoverPending
    <3>2. ASSUME NEW definition \in Definitions, NEW manual, NEW sourceChanged, NEW acknowledged \in BOOLEAN,
                 Start(p, definition, manual, sourceChanged, acknowledged)
          PROVE  NamesNone'
      <4>1. CASE ~acknowledged BY <2>1, <3>2, <4>1 DEF Start
      <4>2. CASE acknowledged
        <5> PICK r : r = [Resting("deploying") EXCEPT
                            !.d = Len(deployments'), !.n = Len(deployments'[Len(deployments')].attempts),
                            !.inherited = deployments'[Len(deployments')].verification.unresolved]
          OBVIOUS
        <5>1. proc' = [proc EXCEPT ![p] = r] BY <3>2, <4>2 DEF Start
        <5>2. r.pc \in Executing BY DEF Resting, Executing
        <5> QED BY <2>3, <5>1, <5>2
      <4> QED BY <4>1, <4>2
    <3> QED BY <2>5, <3>1, <3>2 DEF Execute
  <2>6. ASSUME NEW p \in Processes, Boot(p) \/ Acquire(p) \/ Recover(p) \/ Shutdown(p) \/ Crash(p)
        PROVE  NamesNone'
    BY <2>2, <2>6 DEF Boot, Acquire, Recover, Shutdown, Crash
  <2>7. CASE BackoffElapses BY <2>1, <2>7 DEF BackoffElapses
  <2>8. CASE UNCHANGED vars BY <2>1, <2>8 DEF vars
  <2> QED BY <2>4, <2>5, <2>6, <2>7, <2>8 DEF Next
<1> QED BY <1>1, <1>2, InvariantHolds, PTL DEF Spec

-----------------------------------------------------------------------------
(* The theorems.                                                           *)

(***************************************************************************)
(* The rows agree with each other (startPrepared, complete,                *)
(* interruptAttempts): each deployment shows its latest attempt, every     *)
(* earlier one ended without success, and only the newest deployment can   *)
(* be running, whatever supersedes, retries, recovers or completes late.   *)
(***************************************************************************)
THEOREM RowsAgree == Spec => []LifecycleInvariant
<1>1. IInv /\ NamesNone => LifecycleInvariant
  <2> SUFFICES ASSUME IInv, NamesNone PROVE LifecycleInvariant OBVIOUS
  <2>1. /\ deployments \in Seq(RowType) /\ DOMAIN deployments = 1..Len(deployments) /\ Len(deployments) \in Nat
        /\ \A d \in 1..Len(deployments) :
              RowOK(deployments[d]) /\ (deployments[d].status = "running" => d = Len(deployments))
    BY DEF IInv, RowsInv
  <2>2. ProjectionAgrees BY <2>1 DEF ProjectionAgrees, RowOK
  <2>3. ASSUME NEW d \in DOMAIN deployments PROVE deployments[d] \in RowType BY <2>1 DEF RowOK
  <2>4. baseline \in 0..Len(deployments) /\ owner \in Processes \cup {None} /\ unproven \subseteq Services
    BY DEF IInv, BaselineInv, Shape
  <2>5. ASSUME NEW p \in Processes
        PROVE  /\ proc[p] \in ProcType /\ pending[p] \in CompletionType
               /\ proc[p].d \in 0..Len(deployments)
    <3>1. proc[p] \in ProcType /\ pending[p] \in CompletionType BY DEF IInv, Shape
    <3>2. proc[p].pc \in Executing => proc[p].d = Len(deployments)
      BY DEF IInv, DriverInv, IsAboutCurrent
    <3>3. proc[p].pc \notin Executing => proc[p].d = 0 BY DEF NamesNone
    <3>4. Len(deployments) \in Nat BY DEF IInv, RowsInv
    <3>5. proc[p].d \in 0..Len(deployments) BY <3>2, <3>3, <3>4
    <3> QED BY <3>1, <3>5
  <2>6. LifecycleTypeOK
    <3>1. ASSUME NEW d \in DOMAIN deployments
          PROVE  LET row == deployments[d] IN
                   /\ row.desired \in Definitions /\ row.status \in Statuses
                   /\ row.retryable \in BOOLEAN /\ row.due \in BOOLEAN
                   /\ row.verification.known \in BOOLEAN
                   /\ row.verification.unresolved \subseteq Services
                   /\ row.attempts \in Seq(Statuses) /\ row.announced \in Seq(Nat)
      BY <2>3 DEF RowType, VerificationType
    <3>2. ASSUME NEW p \in Processes
          PROVE  /\ proc[p].pc \in Executing \cup {"down", "waiting", "recovering", "idle"}
                 /\ proc[p].d \in 0..Len(deployments)
                 /\ proc[p].todo \cup proc[p].written \cup proc[p].inherited \subseteq Services
                 /\ pending[p].outcome \in Outcomes
      BY <2>5 DEF ProcType, CompletionType
    <3> QED BY <2>4, <3>1, <3>2 DEF LifecycleTypeOK
  <2> QED BY <2>1, <2>2, <2>6 DEF LifecycleInvariant
<1> QED BY <1>1, InvariantHolds, NamesNoneHolds, PTL

(***************************************************************************)
(* No rollout obligation is lost (rolloutObligations,                      *)
(* RecordUpdateGeneration, unresolvedServices): once the newest deployment *)
(* has ended, every service written and not seen converged since is on its *)
(* persisted list.                                                         *)
(***************************************************************************)
THEOREM NoObligationLost == Spec => []ObligationsKept
<1>1. IInv => ObligationsKept BY DEF IInv, DutyInv
<1> QED BY <1>1, InvariantHolds, PTL

(***************************************************************************)
(* Every attempt that ended was announced once (publishCompletion), also   *)
(* when a completion is tried again after a lost acknowledgement.          *)
(***************************************************************************)
THEOREM AnnouncedOnce == Spec => []OneTerminalEvent
<1>1. IInv => OneTerminalEvent
  <2> SUFFICES ASSUME IInv, NEW d \in DOMAIN deployments, NEW n \in DOMAIN deployments[d].attempts
               PROVE  deployments[d].announced[n] = IF deployments[d].attempts[n] = "running" THEN 0 ELSE 1
    BY DEF OneTerminalEvent
  <2>1. RowOK(deployments[d]) BY DEF IInv, RowsInv
  <2>2. deployments[d].attempts \in Seq(Statuses) BY <2>1 DEF RowOK, RowType
  <2>3. n \in 1..Len(deployments[d].attempts) BY <2>2
  <2> QED BY <2>1, <2>3 DEF RowOK
<1> QED BY <1>1, InvariantHolds, PTL

(***************************************************************************)
(* The comparison baseline is the newest deployment that succeeded         *)
(* (complete saves it in the transaction of the success).                  *)
(***************************************************************************)
THEOREM BaselineHolds == Spec => []BaselineIsLastSuccess
<1>1. IInv => BaselineIsLastSuccess BY DEF IInv, BaselineInv
<1> QED BY <1>1, InvariantHolds, PTL

(***************************************************************************)
(* While a recovered process owns the stack, a running attempt is one that *)
(* it executes or still has to complete (Controller.Execute,               *)
(* recoverPending).                                                        *)
(***************************************************************************)
THEOREM NoAttemptAbandoned == Spec => []RunningIsDriven
<1>1. IInv => RunningIsDriven BY DEF IInv
<1> QED BY <1>1, InvariantHolds, PTL

(***************************************************************************)
(* An attempt that a live process executes is ended by that process only   *)
(* (ownership.go, InterruptRunning): no recovery interrupts it.            *)
(***************************************************************************)
THEOREM OnlyItsProcessEndsIt == Spec => LiveAttemptUndisturbed
<1>1. IInv /\ [Next]_vars => [EndedByItsProcess]_vars
  <2> SUFFICES ASSUME IInv, Next, NEW p \in Processes, proc[p].pc \in Executing,
                      deployments'[proc[p].d].attempts[proc[p].n] # deployments[proc[p].d].attempts[proc[p].n]
               PROVE  proc[p].pc = "completing" /\ proc'[p].pc = "idle"
    BY DEF EndedByItsProcess
  <2>1. /\ deployments # << >> /\ Current.status = "running" /\ proc[p].d = Len(deployments)
        /\ Current \in RowType /\ Current = deployments[proc[p].d]
    BY ExecutingFacts
  <2>2. ~UNCHANGED deployments OBVIOUS
  <2>3. ~BackoffElapses BY <2>1 DEF BackoffElapses
  <2>4. PICK q \in Processes : Recover(q) \/ Execute(q) \/ Deploy(q)
    BY <2>2, <2>3 DEF Next, Boot, Acquire, Shutdown, Crash, dbVars
  <2>5. q = p
    <3> SUFFICES ASSUME q # p PROVE FALSE OBVIOUS
    <3>1. proc[q].pc \in {"down", "waiting"} BY OthersRest DEF Executing
    <3> QED BY <2>4, <3>1 DEF Recover, Execute, RecoverPending, Start, Deploy, FailBeforeApply, BeginApply,
              Inspect, RecordUpdateGeneration, Update, Reject, RejectUnrestored, FailApply, ApplyDone,
              Wait, Observe, Persist
  <2>6. Deploy(p)
    BY <2>4, <2>5 DEF Recover, Execute, RecoverPending, Start, Executing
  <2>7. ASSUME NEW names, Noted(p, names) PROVE FALSE
    <3> PICK u : u = IF deployments[proc[p].d].verification.known THEN names ELSE {} OBVIOUS
    <3> DEFINE row == [Current EXCEPT !.verification.unresolved = u]
    <3>1. deployments \in Seq(RowType) /\ Len(deployments) \in 1..Len(deployments)
      BY <2>1 DEF IInv, RowsInv
    <3>2. deployments' = [deployments EXCEPT ![proc[p].d] = row] BY <2>1, <2>7 DEF Noted
    <3>3. row.attempts = Current.attempts BY <2>1 DEF RowType
    <3> HIDE DEF row
    <3>4. deployments'[proc[p].d] = row BY <2>1, <3>1, <3>2
    <3> QED BY <2>1, <3>3, <3>4
  <2>8. Persist(p)
    BY <2>2, <2>6, <2>7 DEF Deploy, FailBeforeApply, BeginApply, Inspect, RecordUpdateGeneration, Update,
       Reject, RejectUnrestored, FailApply, ApplyDone, Wait, Observe, dbVars
  <2>9. proc'[p] = Resting("idle") BY <2>8 DEF Persist, IInv, Shape
  <2> QED BY <2>8, <2>9, RestingType DEF Persist
<1> QED BY <1>1, InvariantHolds, PTL DEF Spec, LiveAttemptUndisturbed
===============================================================================
