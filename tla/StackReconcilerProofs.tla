------------------------ MODULE StackReconcilerProofs ------------------------
(***************************************************************************)
(* Drift episodes of a stack, proved for any services and definitions: an  *)
(* episode is announced once, what was announced stays recorded until it   *)
(* is closed, and pending repairs are neither orphaned nor dropped.        *)
(***************************************************************************)
EXTENDS StackReconciler, TLAPS

Defs == Definitions \cup {<< >>}

StackType ==
    [drifted : SUBSET Services, pending : SUBSET Services, lastError : BOOLEAN, settled : BOOLEAN]

RecType ==
    [pc : Stages, def : Defs, manual : BOOLEAN, prev : StackType, attempt : BOOLEAN,
     deferred : BOOLEAN, analyzed : BOOLEAN, drift : SUBSET Services,
     remaining : SUBSET Services, todo : SUBSET Services, healed : SUBSET Services,
     broken : SUBSET Services]

LatestType ==
    [def : Defs, status : Statuses, retryable : BOOLEAN, protected : SUBSET Services]

\* The variables as whole records and functions.
Shape ==
    /\ live \in [Services -> UNION {Counts[s] : s \in Services}]
    /\ \A s \in Services : live[s] \in Counts[s]
    /\ latest \in LatestType
    /\ latest.protected \subseteq DOMAIN latest.def
    /\ completion \in {"none", "succeeded", "failed", "interrupted"}
    /\ stack \in StackType
    /\ rec \in RecType
    /\ said \in [Services -> {"none", "detected", "fixed", "removed"}]
    /\ unconfirmed \subseteq Services

\* Nobody but the reconciliation changes episodes and pending repairs while it runs.
ReadIsCurrent ==
    rec.pc # "idle" =>
        /\ rec.prev.drifted = stack.drifted
        /\ rec.prev.pending = stack.pending

\* Past the decision whether to deploy, the definition is the one deployed last.
DeployedDefinition == rec.pc \notin {"idle", "execute"} => rec.def = latest.def

\* What each stage knows.
Phases ==
    /\ rec.pc \in {"idle", "execute", "deploying", "observe", "load"} =>
          rec.todo = {} /\ rec.healed = {} /\ rec.broken = {} /\ rec.remaining = {}
    /\ rec.pc \in {"idle", "execute"} => ~rec.attempt /\ ~rec.deferred
    /\ rec.pc \in {"deploying", "observe"} => rec.attempt /\ ~rec.deferred
    /\ rec.pc = "load" => ~rec.attempt
    /\ rec.pc \in {"heal", "verify", "persist"} => rec.attempt \/ rec.analyzed
    /\ rec.attempt => ~rec.deferred

\* An Attempt runs only while its reconciliation deploys, and behind the decision the latest
\* Deployment succeeded unless its retry is deferred.
Decided ==
    /\ latest.status = "running" => rec.pc \in {"deploying", "observe"}
    /\ rec.pc \in {"load", "heal", "verify", "persist"} =>
          latest.status = "succeeded" \/ rec.deferred

\* Repairs concern desired services that are not protected, and each has one outcome.
\* What was deployed has been waited for.
Repairs ==
    /\ rec.todo \cup rec.healed \cup rec.broken \cup rec.remaining \subseteq Desired
    /\ rec.todo \cap rec.healed = {} /\ rec.todo \cap rec.broken = {} /\ rec.healed \cap rec.broken = {}
    /\ (rec.todo \cup rec.healed \cup rec.broken) \cap Protected = {}
    /\ rec.attempt => rec.todo = {} /\ rec.healed = {} /\ rec.broken = {}
    /\ rec.pc = "persist" => rec.broken \subseteq rec.remaining
    /\ rec.healed \cap unconfirmed = {}
    /\ rec.attempt /\ rec.pc # "deploying" => unconfirmed \cap Desired = {}

\* An open announcement is about a service of the definition deployed last.
AnnouncedIsDesired == \A s \in Services : said[s] = "detected" => s \in DOMAIN latest.def

IInv ==
    /\ Shape /\ ReadIsCurrent /\ DeployedDefinition /\ Phases /\ Decided /\ Repairs
    /\ AnnouncedIsDesired /\ AnnouncedIsRecorded /\ PendingKeepsEpisode

-----------------------------------------------------------------------------
(* The initial states, and the definitions.                                *)

\* A definition names services, and an empty one none.
LEMMA DefinitionFacts ==
    ASSUME NEW d \in Defs
    PROVE  /\ DOMAIN d \subseteq Services
           /\ \A s \in DOMAIN d : d[s] \in Counts[s]
<1>1. CASE d \in Definitions BY <1>1, ReconcilerConstants
<1>2. CASE d = << >> BY <1>2
<1> QED BY <1>1, <1>2 DEF Defs

\* The runtime state of a stack without a record.
LEMMA NewStackType == NewStack \in StackType
BY DEF NewStack, StackType

\* The payload between two reconciliations.
LEMMA IdleType == Idle \in RecType
BY NewStackType DEF Idle, RecType, Stages, Defs

\* No reconciliation is in progress: everything said about one is void.
LEMMA IdleIsQuiet ==
    ASSUME rec' = Idle, stack' \in StackType, latest'.status # "running"
    PROVE  /\ rec' \in RecType
           /\ ReadIsCurrent' /\ DeployedDefinition' /\ Phases' /\ Decided' /\ Repairs'
BY IdleType DEF Idle, ReadIsCurrent, DeployedDefinition, Phases, Decided, Repairs, Desired, Protected

\* The initial state satisfies the invariant.
LEMMA InitInvariant == Init => IInv
<1> SUFFICES ASSUME Init PROVE IInv OBVIOUS
<1>1. Shape
  BY NewStackType, IdleType, ReconcilerConstants
     DEF Init, Shape, LatestType, Defs, Statuses
<1>2. ReadIsCurrent /\ DeployedDefinition /\ Phases /\ Decided /\ Repairs
  BY DEF Init, Idle, ReadIsCurrent, DeployedDefinition, Phases, Decided, Repairs, Desired, Protected
<1>3. AnnouncedIsDesired /\ AnnouncedIsRecorded /\ PendingKeepsEpisode
  BY DEF Init, NewStack, AnnouncedIsDesired, AnnouncedIsRecorded, PendingKeepsEpisode
<1> QED BY <1>1, <1>2, <1>3 DEF IInv

-----------------------------------------------------------------------------
(* The surroundings.                                                       *)

\* Changes in Swarm touch nothing that the invariant relates.
LEMMA ExternalKeeps == IInv /\ External => IInv'
<1> SUFFICES ASSUME IInv, External PROVE IInv' OBVIOUS
<1> USE DEF IInv, External
<1>1. Shape' BY DEF Shape
<1>2. ReadIsCurrent' /\ DeployedDefinition' /\ Phases' /\ Decided' /\ Repairs'
  BY DEF ReadIsCurrent, DeployedDefinition, Phases, Decided, Repairs, Desired, Protected
<1>3. AnnouncedIsDesired' /\ AnnouncedIsRecorded' /\ PendingKeepsEpisode'
  BY DEF AnnouncedIsDesired, AnnouncedIsRecorded, PendingKeepsEpisode
<1> QED BY <1>1, <1>2, <1>3

\* The projection of a completion leaves episodes and pending repairs alone.
LEMMA ProjectedStack ==
    ASSUME stack \in StackType
    PROVE  /\ projectRuntime \in StackType
           /\ projectRuntime.drifted = stack.drifted
           /\ projectRuntime.pending = stack.pending
BY DEF projectRuntime, StackType

\* A delivered completion changes only what the UI shows.
LEMMA ProjectKeeps == IInv /\ Project => IInv'
<1> SUFFICES ASSUME IInv, Project PROVE IInv' OBVIOUS
<1> USE DEF IInv
<1>0. /\ stack' \in StackType
      /\ stack'.drifted = stack.drifted /\ stack'.pending = stack.pending
  BY ProjectedStack DEF Project, Shape
<1>1. Shape' BY <1>0 DEF Shape, Project
<1>2. ReadIsCurrent' /\ DeployedDefinition' /\ Phases' /\ Decided' /\ Repairs'
  BY <1>0 DEF Project, ReadIsCurrent, DeployedDefinition, Phases, Decided, Repairs, Desired, Protected
<1>3. AnnouncedIsDesired' /\ AnnouncedIsRecorded' /\ PendingKeepsEpisode'
  BY <1>0 DEF Project, AnnouncedIsDesired, AnnouncedIsRecorded, PendingKeepsEpisode
<1> QED BY <1>1, <1>2, <1>3

\* The end of an Attempt keeps the definition of the latest Deployment.
LEMMA EndedAttempt ==
    ASSUME Shape, NEW status \in {"succeeded", "failed", "interrupted"}, NEW r \in BOOLEAN,
           NEW p \in SUBSET DOMAIN latest.def, EndAttempt(status, r, p)
    PROVE  /\ latest' \in LatestType /\ latest'.def = latest.def /\ latest'.protected = p
           /\ latest'.status = status
           /\ latest'.protected \subseteq DOMAIN latest'.def
           /\ completion' \in {"none", "succeeded", "failed", "interrupted"}
<1>1. DOMAIN latest.def \subseteq Services BY DefinitionFacts DEF Shape, LatestType
<1> QED BY <1>1 DEF EndAttempt, Shape, LatestType, Statuses

\* A crash ends the reconciliation, and recovery the Attempt it left running.
LEMMA CrashKeeps == IInv /\ Crash => IInv'
<1> SUFFICES ASSUME IInv, Crash PROVE IInv' OBVIOUS
<1> USE DEF IInv
<1>1. /\ stack' \in StackType
      /\ stack'.drifted = stack.drifted /\ stack'.pending = stack.pending
  <2>1. stack \in StackType BY DEF Shape
  <2>2. stack' = stack \/ stack' = [stack EXCEPT !.settled = FALSE] BY DEF Crash
  <2> QED BY <2>1, <2>2 DEF StackType
<1>2. /\ latest' \in LatestType /\ latest'.def = latest.def /\ latest'.status # "running"
      /\ latest'.protected \subseteq DOMAIN latest'.def
      /\ completion' \in {"none", "succeeded", "failed", "interrupted"}
  <2>1. CASE latest.status = "running"
    <3>1. PICK p \in SUBSET DOMAIN latest.def, r \in BOOLEAN : EndAttempt("interrupted", r, p)
      BY <2>1 DEF Crash
    <3> QED BY <3>1, EndedAttempt
  <2>2. CASE latest.status # "running" BY <2>2 DEF Crash, Shape
  <2> QED BY <2>1, <2>2
<1>3. rec' = Idle BY DEF Crash
<1>4. rec' \in RecType /\ ReadIsCurrent' /\ DeployedDefinition' /\ Phases' /\ Decided' /\ Repairs'
  BY <1>1, <1>2, <1>3, IdleIsQuiet
<1>5. Shape' BY <1>1, <1>2, <1>4 DEF Crash, Shape
<1>6. AnnouncedIsDesired' /\ AnnouncedIsRecorded' /\ PendingKeepsEpisode'
  BY <1>1, <1>2 DEF Crash, AnnouncedIsDesired, AnnouncedIsRecorded, PendingKeepsEpisode
<1> QED BY <1>4, <1>5, <1>6

-----------------------------------------------------------------------------
(* Before anything is deployed or observed.                                *)

\* A recorded preparation failure leaves episodes and pending repairs alone.
LEMMA RecordedFailure ==
    ASSUME stack \in StackType, recordFailure
    PROVE  /\ stack' \in StackType
           /\ stack'.drifted = stack.drifted /\ stack'.pending = stack.pending
<1>1. /\ Unprepared \in StackType
      /\ Unprepared.drifted = stack.drifted
      /\ Unprepared.pending = stack.pending
  BY DEF Unprepared, StackType
<1>2. stack' = Unprepared \/ stack' = stack BY DEF recordFailure
<1> QED BY <1>1, <1>2

\* A failed preparation leaves the episodes as they are.
LEMMA PrepareFailsKeeps == IInv /\ PrepareFails => IInv'
<1> SUFFICES ASSUME IInv, PrepareFails PROVE IInv' OBVIOUS
<1> USE DEF IInv
<1>0. /\ stack' \in StackType
      /\ stack'.drifted = stack.drifted /\ stack'.pending = stack.pending
  BY RecordedFailure DEF PrepareFails, Shape
<1>1. Shape' BY <1>0 DEF Shape, PrepareFails
<1>2. ReadIsCurrent' /\ DeployedDefinition' /\ Phases' /\ Decided' /\ Repairs'
  BY <1>0 DEF PrepareFails, ReadIsCurrent, DeployedDefinition, Phases, Decided, Repairs, Desired, Protected
<1>3. AnnouncedIsDesired' /\ AnnouncedIsRecorded' /\ PendingKeepsEpisode'
  BY <1>0 DEF PrepareFails, AnnouncedIsDesired, AnnouncedIsRecorded, PendingKeepsEpisode
<1> QED BY <1>1, <1>2, <1>3

\* A reconciliation starts from the recorded state.
LEMMA BeginKeeps ==
    ASSUME NEW def \in Definitions, NEW manual \in BOOLEAN, IInv, Begin(def, manual)
    PROVE  IInv'
<1> USE DEF IInv
<1>0. rec' \in RecType
  BY IdleType DEF Begin, RecType, Shape, Stages, Defs
<1>1. Shape' BY <1>0 DEF Shape, Begin
<1>2. ReadIsCurrent' /\ DeployedDefinition' /\ Phases' /\ Decided'
  BY IdleType DEF Begin, Idle, RecType, ReadIsCurrent, DeployedDefinition, Phases, Decided
<1>3. Repairs'
  BY DEF Begin, Idle, Repairs, Desired, Protected
<1>4. AnnouncedIsDesired' /\ AnnouncedIsRecorded' /\ PendingKeepsEpisode'
  BY DEF Begin, AnnouncedIsDesired, AnnouncedIsRecorded, PendingKeepsEpisode
<1> QED BY <1>1, <1>2, <1>3, <1>4

\* A pipeline that fails before an Attempt exists.
LEMMA StepFailsKeeps == IInv /\ StepFails => IInv'
<1> SUFFICES ASSUME IInv, StepFails PROVE IInv' OBVIOUS
<1> USE DEF IInv
<1>0. /\ stack' \in StackType
      /\ stack'.drifted = stack.drifted /\ stack'.pending = stack.pending
  BY RecordedFailure DEF StepFails, Shape
<1>1. rec' \in RecType /\ ReadIsCurrent' /\ DeployedDefinition' /\ Phases' /\ Decided' /\ Repairs'
  BY <1>0, IdleIsQuiet DEF StepFails, Decided
<1>2. Shape' BY <1>0, <1>1 DEF Shape, StepFails
<1>3. AnnouncedIsDesired' /\ AnnouncedIsRecorded' /\ PendingKeepsEpisode'
  BY <1>0 DEF StepFails, AnnouncedIsDesired, AnnouncedIsRecorded, PendingKeepsEpisode
<1> QED BY <1>1, <1>2, <1>3

\* Announcements about services that the new definition leaves out are closed.
LEMMA StartAttemptKeeps ==
    ASSUME NEW allowed \in BOOLEAN, IInv, StartAttempt(allowed)
    PROVE  IInv'
<1> USE DEF IInv
<1>0. rec.pc = "execute" BY DEF StartAttempt
<1>1. rec' \in RecType
  BY DEF StartAttempt, Shape, RecType, Stages
<1>2. latest' \in LatestType /\ latest'.def = rec.def /\ latest'.protected = {}
  BY DEF StartAttempt, Shape, RecType, LatestType, Statuses
<1>3. Shape' BY <1>1, <1>2 DEF Shape, StartAttempt
<1>4. ReadIsCurrent' /\ DeployedDefinition' /\ Phases' /\ Decided'
  BY <1>0, <1>2 DEF StartAttempt, Shape, RecType, ReadIsCurrent, DeployedDefinition, Phases, Decided
<1>5. Repairs'
  BY <1>0 DEF StartAttempt, Shape, RecType, Repairs, Phases, Desired, Protected
<1>6. AnnouncedIsDesired'
  BY <1>2 DEF StartAttempt, AnnouncedIsDesired, Desired
<1>7. AnnouncedIsRecorded' /\ PendingKeepsEpisode'
  BY DEF StartAttempt, AnnouncedIsRecorded, PendingKeepsEpisode
<1> QED BY <1>3, <1>4, <1>5, <1>6, <1>7

\* Without an Attempt the definition is the one deployed last.
LEMMA UnchangedKeeps ==
    ASSUME NEW allowed \in BOOLEAN, IInv, Unchanged(allowed)
    PROVE  IInv'
<1> USE DEF IInv
<1>0. /\ rec.pc = "execute" /\ latest.def = rec.def
      /\ latest.status \in {"succeeded", "failed", "interrupted"}
  BY DEF Unchanged, StartsAttempt, Decided, Shape, LatestType, Statuses
<1>1. rec' \in RecType
  <2> DEFINE waits == latest.status \in {"failed", "interrupted"}
  <2>1. waits \in BOOLEAN OBVIOUS
  <2>2. rec' = [rec EXCEPT !.pc = "load", !.deferred = waits] BY DEF Unchanged
  <2> HIDE DEF waits
  <2> QED BY <2>1, <2>2 DEF Shape, RecType, Stages
<1>2. Shape' BY <1>1 DEF Shape, Unchanged
<1>3. ReadIsCurrent' /\ DeployedDefinition' /\ Phases' /\ Decided'
  BY <1>0 DEF Unchanged, Shape, RecType, ReadIsCurrent, DeployedDefinition, Phases, Decided
<1>4. Repairs'
  BY <1>0 DEF Unchanged, Shape, RecType, Repairs, Phases, Desired, Protected
<1>5. AnnouncedIsDesired' /\ AnnouncedIsRecorded' /\ PendingKeepsEpisode'
  BY DEF Unchanged, AnnouncedIsDesired, AnnouncedIsRecorded, PendingKeepsEpisode
<1> QED BY <1>2, <1>3, <1>4, <1>5

-----------------------------------------------------------------------------
(* The deployment, and the observation of Swarm.                           *)

\* Applying and pruning services gives counts that the services can have.
LEMMA AppliedServices ==
    ASSUME Shape, NEW services \in SUBSET Desired
    PROVE  /\ Applied(services) \in [Services -> UNION {Counts[s] : s \in Services}]
           /\ \A s \in Services : Applied(services)[s] \in Counts[s]
<1>1. \A s \in DOMAIN rec.def : s \in Services /\ rec.def[s] \in Counts[s]
  BY DefinitionFacts DEF Shape, RecType
<1>2. \A s \in services : s \in DOMAIN rec.def BY DEF Desired
<1> QED BY <1>1, <1>2 DEF Applied, Shape

\* The same for services that are pruned.
LEMMA PrunedServices ==
    ASSUME Shape, NEW gone, Pruned(gone)
    PROVE  /\ live' \in [Services -> UNION {Counts[s] : s \in Services}]
           /\ \A s \in Services : live'[s] \in Counts[s]
BY ReconcilerConstants DEF Pruned, Shape

\* Applying the services of the definition.
LEMMA DeployedKeeps == IInv /\ Deployed => IInv'
<1> SUFFICES ASSUME IInv, Deployed PROVE IInv' OBVIOUS
<1> USE DEF IInv
<1>0. rec.pc = "deploying" BY DEF Deployed
<1>1. rec' \in RecType BY DEF Deployed, Shape, RecType, Stages
<1>2. /\ live' \in [Services -> UNION {Counts[s] : s \in Services}]
      /\ \A s \in Services : live'[s] \in Counts[s]
  BY AppliedServices DEF Deployed
<1>3. Shape' BY <1>1, <1>2 DEF Shape, Deployed
<1>4. ReadIsCurrent' /\ DeployedDefinition' /\ Phases' /\ Decided'
  BY <1>0 DEF Deployed, Shape, RecType, ReadIsCurrent, DeployedDefinition, Phases, Decided
<1>5. Repairs'
  BY <1>0 DEF Deployed, Shape, RecType, Repairs, Phases, Desired, Protected
<1>6. AnnouncedIsDesired' /\ AnnouncedIsRecorded' /\ PendingKeepsEpisode'
  BY DEF Deployed, AnnouncedIsDesired, AnnouncedIsRecorded, PendingKeepsEpisode
<1> QED BY <1>3, <1>4, <1>5, <1>6

\* What drift analysis puts into the payload.
LEMMA AnalyzedRec ==
    ASSUME Shape, Phases, rec.pc \in {"observe", "load"}
    PROVE  /\ analyzeDrift(live) \in RecType
           /\ analyzeDrift(live).pc = "heal"
           /\ analyzeDrift(live).def = rec.def
           /\ analyzeDrift(live).prev = rec.prev
           /\ analyzeDrift(live).attempt = rec.attempt
           /\ analyzeDrift(live).deferred = rec.deferred
           /\ rec.attempt \/ analyzeDrift(live).analyzed
           /\ analyzeDrift(live).healed = {} /\ analyzeDrift(live).broken = {}
           /\ analyzeDrift(live).remaining \subseteq Desired
           /\ analyzeDrift(live).todo \subseteq Desired \ Protected
           /\ rec.attempt => analyzeDrift(live).todo = {}
<1> DEFINE runs  == ~rec.attempt \/ rec.manual \/ rec.prev.drifted # {}
           drift == IF runs THEN Analyze(rec.def, live) ELSE {}
           heals == {s \in Desired \ Protected :
                        \/ s \in drift /\ s \in SelfHeal
                        \/ s \notin drift /\ s \in rec.prev.pending}
           todo  == IF rec.attempt THEN {} ELSE heals
<1>1. analyzeDrift(live) = [rec EXCEPT !.pc = "heal", !.analyzed = runs, !.drift = drift,
                                       !.remaining = drift, !.todo = todo]
  BY DEF analyzeDrift
<1>2. runs \in BOOLEAN /\ (rec.attempt \/ runs) OBVIOUS
<1>3. Desired \subseteq Services BY DefinitionFacts DEF Shape, RecType, Desired
<1>4. drift \subseteq Desired BY DEF Analyze, Desired
<1>5. todo \subseteq Desired \ Protected /\ (rec.attempt => todo = {}) OBVIOUS
<1> HIDE DEF runs, drift, todo
<1>6. analyzeDrift(live) \in RecType
  <2>1. drift \in SUBSET Services /\ todo \in SUBSET Services /\ "heal" \in Stages
    BY <1>3, <1>4, <1>5 DEF Stages
  <2>2. rec \in RecType BY DEF Shape
  <2> QED BY <1>1, <1>2, <2>1, <2>2 DEF RecType
<1> QED BY <1>1, <1>2, <1>3, <1>4, <1>5, <1>6 DEF Shape, RecType, Phases

\* The state of the reconciliation after drift analysis.
LEMMA AnalyzedKeeps ==
    ASSUME IInv, rec.pc \in {"observe", "load"}, rec' = analyzeDrift(live),
           latest'.def = latest.def, unconfirmed' = unconfirmed,
           rec.deferred => latest' = latest, latest'.status = "succeeded" \/ rec.deferred,
           stack'.drifted = stack.drifted, stack'.pending = stack.pending
    PROVE  ReadIsCurrent' /\ DeployedDefinition' /\ Phases' /\ Decided' /\ Repairs'
<1> USE DEF IInv
<1>1. ReadIsCurrent' /\ DeployedDefinition' BY AnalyzedRec DEF ReadIsCurrent, DeployedDefinition
<1>2. Phases' /\ Decided' BY AnalyzedRec DEF Phases, Decided
<1>3. Desired' = Desired /\ Protected' = Protected BY AnalyzedRec DEF Desired, Protected
<1>4. Repairs' BY <1>3, AnalyzedRec DEF Repairs
<1> QED BY <1>1, <1>2, <1>4

\* The end of a successful Attempt, with drift analysis behind it.
LEMMA DeploySucceedsKeeps == IInv /\ DeploySucceeds => IInv'
<1> SUFFICES ASSUME IInv, DeploySucceeds PROVE IInv' OBVIOUS
<1> USE DEF IInv
<1>0. rec.pc = "observe" /\ ~rec.deferred BY DEF DeploySucceeds, Phases
<1>1. /\ stack' \in StackType
      /\ stack'.drifted = stack.drifted /\ stack'.pending = stack.pending
  BY DEF DeploySucceeds, Shape, StackType
<1>2. /\ latest' \in LatestType /\ latest'.def = latest.def /\ latest'.status = "succeeded"
      /\ latest'.protected \subseteq DOMAIN latest'.def
      /\ completion' \in {"none", "succeeded", "failed", "interrupted"}
  BY EndedAttempt DEF DeploySucceeds
<1>3. /\ live' \in [Services -> UNION {Counts[s] : s \in Services}]
      /\ \A s \in Services : live'[s] \in Counts[s]
  BY PrunedServices DEF DeploySucceeds
<1>4. rec' \in RecType BY <1>0, AnalyzedRec DEF DeploySucceeds
<1>5. Shape' BY <1>1, <1>2, <1>3, <1>4 DEF DeploySucceeds, Shape
<1>6. ReadIsCurrent' /\ DeployedDefinition' /\ Phases' /\ Decided' /\ Repairs'
  BY <1>0, <1>1, <1>2, AnalyzedKeeps DEF DeploySucceeds
<1>7. AnnouncedIsDesired' /\ AnnouncedIsRecorded' /\ PendingKeepsEpisode'
  BY <1>1, <1>2 DEF DeploySucceeds, AnnouncedIsDesired, AnnouncedIsRecorded, PendingKeepsEpisode
<1> QED BY <1>5, <1>6, <1>7

\* The observation of a stack that has nothing to deploy.
LEMMA LoadAndPruneKeeps == IInv /\ LoadAndPrune => IInv'
<1> SUFFICES ASSUME IInv, LoadAndPrune PROVE IInv' OBVIOUS
<1> USE DEF IInv
<1>0. rec.pc = "load" BY DEF LoadAndPrune
<1>1. /\ live' \in [Services -> UNION {Counts[s] : s \in Services}]
      /\ \A s \in Services : live'[s] \in Counts[s]
  BY PrunedServices DEF LoadAndPrune
<1>2. rec' \in RecType BY <1>0, AnalyzedRec DEF LoadAndPrune
<1>3. Shape' BY <1>1, <1>2 DEF LoadAndPrune, Shape
<1>4. ReadIsCurrent' /\ DeployedDefinition' /\ Phases' /\ Decided' /\ Repairs'
  BY <1>0, AnalyzedKeeps DEF LoadAndPrune, Decided
<1>5. AnnouncedIsDesired' /\ AnnouncedIsRecorded' /\ PendingKeepsEpisode'
  BY DEF LoadAndPrune, AnnouncedIsDesired, AnnouncedIsRecorded, PendingKeepsEpisode
<1> QED BY <1>3, <1>4, <1>5

\* What a failed Attempt records keeps the episodes and only drops pending repairs.
LEMMA FailedStack ==
    ASSUME Shape
    PROVE  /\ FailedAttempt \in StackType
           /\ FailedAttempt.drifted = rec.prev.drifted
           /\ FailedAttempt.pending = rec.prev.pending \ Desired
<1> DEFINE prev == rec.prev
<1>1. prev \in StackType BY DEF Shape, RecType
<1>2. FailedAttempt =
        [prev EXCEPT !.lastError = TRUE, !.settled = TRUE, !.pending = @ \ Desired]
  BY DEF FailedAttempt
<1> HIDE DEF prev
<1>3. /\ FailedAttempt \in StackType
      /\ FailedAttempt.drifted = prev.drifted
      /\ FailedAttempt.pending = prev.pending \ Desired
  BY <1>1, <1>2 DEF StackType
<1> QED BY <1>3 DEF prev

\* The end of a failed Attempt, whether or not its result could be recorded.
LEMMA DeployFailsKeeps == IInv /\ DeployFails => IInv'
<1> SUFFICES ASSUME IInv, DeployFails PROVE IInv' OBVIOUS
<1> USE DEF IInv
<1>0. rec.pc \in {"deploying", "observe"} /\ rec' = Idle /\ said' = said BY DEF DeployFails
<1>1. /\ stack' \in StackType
      /\ stack'.drifted = stack.drifted /\ stack'.pending \subseteq stack.pending
  <2>1. CASE stack' = FailedAttempt BY <1>0, <2>1, FailedStack DEF ReadIsCurrent
  <2>2. CASE stack' = [stack EXCEPT !.settled = FALSE] BY <2>2 DEF Shape, StackType
  <2> QED BY <2>1, <2>2 DEF DeployFails
<1>2. /\ latest' \in LatestType /\ latest'.def = latest.def /\ latest'.status # "running"
      /\ latest'.protected \subseteq DOMAIN latest'.def
      /\ completion' \in {"none", "succeeded", "failed", "interrupted"}
  <2>1. Desired = DOMAIN latest.def BY <1>0 DEF DeployedDefinition, Desired
  <2>2. PICK p \in SUBSET Desired, r \in BOOLEAN : EndAttempt("failed", r, p) BY DEF DeployFails
  <2> QED BY <2>1, <2>2, EndedAttempt
<1>3. /\ live' \in [Services -> UNION {Counts[s] : s \in Services}]
      /\ \A s \in Services : live'[s] \in Counts[s]
  BY AppliedServices, PrunedServices DEF DeployFails
<1>4. unconfirmed' \subseteq Services BY DEF DeployFails, Shape
<1>5. rec' \in RecType /\ ReadIsCurrent' /\ DeployedDefinition' /\ Phases' /\ Decided' /\ Repairs'
  BY <1>0, <1>1, <1>2, IdleIsQuiet
<1>6. Shape' BY <1>0, <1>1, <1>2, <1>3, <1>4, <1>5 DEF Shape
<1>7. AnnouncedIsDesired' /\ AnnouncedIsRecorded' /\ PendingKeepsEpisode'
  BY <1>0, <1>1, <1>2 DEF AnnouncedIsDesired, AnnouncedIsRecorded, PendingKeepsEpisode
<1> QED BY <1>5, <1>6, <1>7

-----------------------------------------------------------------------------
(* Repairs and their verification.                                         *)

\* One repair: it leaves the list and gets its outcome.
LEMMA HealServiceKeeps ==
    ASSUME NEW s \in Services, NEW ok \in BOOLEAN, IInv, HealService(s, ok)
    PROVE  IInv'
<1> USE DEF IInv
<1>0. rec.pc = "heal" /\ s \in rec.todo BY DEF HealService
<1>1. rec' \in RecType BY DEF HealService, Shape, RecType
<1>2. /\ live' \in [Services -> UNION {Counts[i] : i \in Services}]
      /\ \A i \in Services : live'[i] \in Counts[i]
  <2>1. {s} \in SUBSET Desired BY <1>0 DEF Repairs
  <2>2. live' = Applied({s}) \/ live' = live BY DEF HealService
  <2> QED BY <2>1, <2>2, AppliedServices DEF Shape
<1>3. Shape' BY <1>1, <1>2 DEF HealService, Shape
<1>4. ReadIsCurrent' /\ DeployedDefinition' /\ Phases' /\ Decided'
  BY <1>0 DEF HealService, Shape, RecType, ReadIsCurrent, DeployedDefinition, Phases, Decided
<1>5. Repairs'
  <2>1. CASE ok
    BY <1>0, <2>1 DEF HealService, Shape, RecType, Repairs, Desired, Protected
  <2>2. CASE ~ok
    BY <1>0, <2>2 DEF HealService, Shape, RecType, Repairs, Desired, Protected
  <2> QED BY <2>1, <2>2
<1>6. AnnouncedIsDesired' /\ AnnouncedIsRecorded' /\ PendingKeepsEpisode'
  BY DEF HealService, AnnouncedIsDesired, AnnouncedIsRecorded, PendingKeepsEpisode
<1> QED BY <1>3, <1>4, <1>5, <1>6

\* Without repairs there is nothing to verify.
LEMMA HealDoneKeeps == IInv /\ HealDone => IInv'
<1> SUFFICES ASSUME IInv, HealDone PROVE IInv' OBVIOUS
<1> USE DEF IInv
<1>0. rec.pc = "heal" BY DEF HealDone
<1>1. rec' \in RecType BY DEF HealDone, Shape, RecType, Stages
<1>2. Shape' BY <1>1 DEF HealDone, Shape
<1>3. ReadIsCurrent' /\ DeployedDefinition' /\ Phases' /\ Decided'
  BY <1>0 DEF HealDone, Shape, RecType, ReadIsCurrent, DeployedDefinition, Phases, Decided
<1>4. Repairs'
  BY <1>0 DEF HealDone, Attempted, Shape, RecType, Repairs, Desired, Protected
<1>5. AnnouncedIsDesired' /\ AnnouncedIsRecorded' /\ PendingKeepsEpisode'
  BY DEF HealDone, AnnouncedIsDesired, AnnouncedIsRecorded, PendingKeepsEpisode
<1> QED BY <1>2, <1>3, <1>4, <1>5

\* Every repair that is not verified is left over as drift.
LEMMA VerifySelfHealKeeps ==
    ASSUME NEW ok \in BOOLEAN, IInv, VerifySelfHeal(ok)
    PROVE  IInv'
<1> USE DEF IInv
<1> DEFINE found == Analyze(rec.def, live)
<1>0. rec.pc = "verify" BY DEF VerifySelfHeal
<1>1. found \subseteq Desired /\ Desired \subseteq Services
  BY DefinitionFacts DEF Analyze, Desired, Shape, RecType
<1>2. /\ rec' \in RecType
      /\ ReadIsCurrent' /\ DeployedDefinition' /\ Phases' /\ Decided' /\ Repairs'
  <2>1. CASE ok
    <3>1. rec' = [rec EXCEPT !.pc = "persist", !.healed = rec.healed \ found,
                             !.broken = rec.broken \cup (rec.healed \cap found),
                             !.remaining = found \cup rec.broken]
      BY <2>1 DEF VerifySelfHeal, applyVerifiedDrift, Attempted, Shape, RecType
    <3> HIDE DEF found
    <3>2. rec' \in RecType BY <1>1, <3>1 DEF Shape, RecType, Stages
    <3>3. ReadIsCurrent' /\ DeployedDefinition' /\ Phases' /\ Decided'
      <4>1. /\ rec'.pc = "persist" /\ rec'.prev = rec.prev /\ rec'.def = rec.def
            /\ rec'.attempt = rec.attempt /\ rec'.analyzed = rec.analyzed
            /\ rec'.deferred = rec.deferred
        BY <3>1 DEF Shape, RecType
      <4>2. stack' = stack /\ latest' = latest BY DEF VerifySelfHeal
      <4> QED BY <1>0, <4>1, <4>2 DEF ReadIsCurrent, DeployedDefinition, Phases, Decided
    <3>4. Desired' = Desired /\ Protected' = Protected
      BY <3>1 DEF VerifySelfHeal, Shape, RecType, Desired, Protected
    <3>5. /\ rec'.healed = rec.healed \ found /\ rec'.todo = rec.todo /\ rec'.attempt = rec.attempt
          /\ rec'.broken = rec.broken \cup (rec.healed \cap found)
          /\ rec'.remaining = found \cup rec.broken /\ unconfirmed' = unconfirmed
      BY <3>1 DEF VerifySelfHeal, Shape, RecType
    <3>6. Repairs' BY <1>0, <1>1, <3>4, <3>5 DEF Repairs
    <3> QED BY <3>2, <3>3, <3>6
  <2>2. CASE ~ok
    <3>1. rec' = [rec EXCEPT !.pc = "persist", !.healed = {},
                             !.broken = rec.healed \cup rec.broken,
                             !.remaining = rec.remaining \cup rec.healed \cup rec.broken]
      BY <2>2 DEF VerifySelfHeal, markVerificationFailed, Attempted, Shape, RecType
    <3>2. rec' \in RecType BY <3>1 DEF Shape, RecType, Stages
    <3>3. ReadIsCurrent' /\ DeployedDefinition' /\ Phases' /\ Decided'
      <4>1. /\ rec'.pc = "persist" /\ rec'.prev = rec.prev /\ rec'.def = rec.def
            /\ rec'.attempt = rec.attempt /\ rec'.analyzed = rec.analyzed
            /\ rec'.deferred = rec.deferred
        BY <3>1 DEF Shape, RecType
      <4>2. stack' = stack /\ latest' = latest BY DEF VerifySelfHeal
      <4> QED BY <1>0, <4>1, <4>2 DEF ReadIsCurrent, DeployedDefinition, Phases, Decided
    <3>4. Desired' = Desired /\ Protected' = Protected
      BY <3>1 DEF VerifySelfHeal, Shape, RecType, Desired, Protected
    <3>5. /\ rec'.healed = {} /\ rec'.todo = rec.todo /\ rec'.attempt = rec.attempt
          /\ rec'.broken = rec.healed \cup rec.broken
          /\ rec'.remaining = rec.remaining \cup rec.healed \cup rec.broken
          /\ unconfirmed' = unconfirmed
      BY <3>1 DEF VerifySelfHeal, Shape, RecType
    <3>6. Repairs' BY <1>0, <3>4, <3>5 DEF Repairs
    <3> QED BY <3>2, <3>3, <3>6
  <2> QED BY <2>1, <2>2
<1>3. Shape' BY <1>2 DEF VerifySelfHeal, Shape
<1>4. AnnouncedIsDesired' /\ AnnouncedIsRecorded' /\ PendingKeepsEpisode'
  BY DEF VerifySelfHeal, AnnouncedIsDesired, AnnouncedIsRecorded, PendingKeepsEpisode
<1> QED BY <1>2, <1>3, <1>4

-----------------------------------------------------------------------------
(* The result.                                                             *)

\* The recorded state has the episodes and pending repairs of the result.
LEMMA ResultStack ==
    ASSUME Shape, Repairs
    PROVE  /\ Result \in StackType
           /\ Result.drifted = IF rec.analyzed THEN Unresolved ELSE rec.prev.drifted
           /\ Result.pending = PendingAfter
<1>1. Desired \subseteq Services BY DefinitionFacts DEF Shape, RecType, Desired
<1>2. Unresolved \subseteq Services /\ PendingAfter \subseteq Services
  BY <1>1 DEF Shape, RecType, StackType, Repairs, Unresolved, StillPending, PendingAfter
<1>3. rec.prev.drifted \subseteq Services
      /\ (rec.deferred /\ rec.prev.lastError) \in BOOLEAN
  BY DEF Shape, RecType, StackType
<1> QED BY <1>2, <1>3 DEF Result, StackType

\* Repairs that stay pending are unresolved, and only confirmed ones cease to be pending.
LEMMA PendingResult ==
    ASSUME IInv, rec.pc = "persist"
    PROVE  /\ rec.analyzed => PendingAfter \subseteq Unresolved
           /\ ~rec.analyzed => PendingAfter = {}
           /\ \A s \in rec.prev.pending \ PendingAfter : s \notin Desired \/ s \notin unconfirmed
<1> USE DEF IInv
<1>1. CASE rec.attempt
  BY <1>1 DEF Phases, Repairs, PendingAfter, Unresolved, StillPending, Protected
<1>2. CASE ~rec.attempt
  <2>1. Protected \subseteq Desired BY DEF Protected
  <2>2. StillPending = rec.prev.pending \cap Desired BY <1>2 DEF StillPending
  <2>3. rec.analyzed BY <1>2 DEF Phases
  <2>4. PendingAfter \subseteq Unresolved
    BY <2>1, <2>2 DEF Repairs, PendingAfter, Unresolved, Attempted
  <2>5. \A s \in rec.prev.pending \ PendingAfter : s \notin Desired \/ s \in rec.healed
    BY <2>1, <2>2 DEF PendingAfter, Attempted
  <2> QED BY <2>3, <2>4, <2>5 DEF Repairs
<1> QED BY <1>1, <1>2 DEF Shape, RecType

\* The result and its events: what is announced is recorded with it.
LEMMA PersistResultKeeps == IInv /\ PersistResult => IInv'
<1> SUFFICES ASSUME IInv, PersistResult PROVE IInv' OBVIOUS
<1> USE DEF IInv
<1>0. /\ rec.pc = "persist" /\ rec' = Idle /\ stack' = Result /\ latest' = latest
      /\ rec.prev.drifted = stack.drifted /\ Desired = DOMAIN latest.def
  BY DEF PersistResult, ReadIsCurrent, DeployedDefinition, Desired
<1>1. /\ stack' \in StackType
      /\ stack'.drifted = IF rec.analyzed THEN Unresolved ELSE stack.drifted
      /\ stack'.pending = PendingAfter
  BY <1>0, ResultStack
<1>2. rec' \in RecType /\ ReadIsCurrent' /\ DeployedDefinition' /\ Phases' /\ Decided' /\ Repairs'
  BY <1>0, <1>1, IdleIsQuiet DEF Decided
<1>3. Shape' BY <1>1, <1>2 DEF PersistResult, Shape
<1>4. PendingKeepsEpisode' BY <1>0, <1>1, PendingResult DEF PendingKeepsEpisode
<1>5. ASSUME NEW s \in Services, said'[s] = "detected"
      PROVE  s \in DOMAIN latest'.def /\ s \in stack'.drifted
  <2>1. ~Fixes(s) /\ (Detects(s) \/ said[s] = "detected") BY <1>5 DEF PersistResult
  <2>2. s \in Desired
    BY <1>0, <2>1 DEF Detects, AnnouncedIsDesired
  <2>3. CASE rec.analyzed
    <3>1. s \in Unresolved
      BY <1>0, <2>1, <2>2, <2>3 DEF Detects, Fixes, AnnouncedIsRecorded
    <3> QED BY <1>0, <1>1, <2>2, <2>3, <3>1
  <2>4. CASE ~rec.analyzed
    BY <1>0, <1>1, <2>1, <2>2, <2>4 DEF Detects, AnnouncedIsRecorded
  <2> QED BY <2>3, <2>4
<1>6. AnnouncedIsDesired' /\ AnnouncedIsRecorded'
  BY <1>5 DEF AnnouncedIsDesired, AnnouncedIsRecorded
<1> QED BY <1>2, <1>3, <1>4, <1>6

\* A result that is lost leaves the previous record.
LEMMA PersistFailsKeeps == IInv /\ PersistFails => IInv'
<1> SUFFICES ASSUME IInv, PersistFails PROVE IInv' OBVIOUS
<1> USE DEF IInv
<1>1. stack' \in StackType /\ rec' = Idle /\ latest'.status # "running"
  BY DEF PersistFails, Shape, Decided
<1>2. rec' \in RecType /\ ReadIsCurrent' /\ DeployedDefinition' /\ Phases' /\ Decided' /\ Repairs'
  BY <1>1, IdleIsQuiet
<1>3. Shape' BY <1>2 DEF PersistFails, Shape
<1>4. AnnouncedIsDesired' /\ AnnouncedIsRecorded' /\ PendingKeepsEpisode'
  BY DEF PersistFails, AnnouncedIsDesired, AnnouncedIsRecorded, PendingKeepsEpisode
<1> QED BY <1>2, <1>3, <1>4

-----------------------------------------------------------------------------
(* Theorems.                                                               *)

\* Every step keeps the invariant.
LEMMA NextKeeps == IInv /\ [Next]_vars => IInv'
<1> SUFFICES ASSUME IInv, [Next]_vars PROVE IInv' OBVIOUS
<1>1. CASE External BY <1>1, ExternalKeeps
<1>2. CASE Project BY <1>2, ProjectKeeps
<1>3. CASE Crash BY <1>3, CrashKeeps
<1>4. CASE PrepareFails BY <1>4, PrepareFailsKeeps
<1>5. ASSUME NEW def \in Definitions, NEW manual \in BOOLEAN, Begin(def, manual) PROVE IInv'
  BY <1>5, BeginKeeps
<1>6. ASSUME NEW allowed \in BOOLEAN, StartAttempt(allowed) \/ Unchanged(allowed) PROVE IInv'
  BY <1>6, StartAttemptKeeps, UnchangedKeeps
<1>7. CASE Deployed BY <1>7, DeployedKeeps
<1>8. CASE DeploySucceeds BY <1>8, DeploySucceedsKeeps
<1>9. CASE DeployFails BY <1>9, DeployFailsKeeps
<1>10. CASE StepFails BY <1>10, StepFailsKeeps
<1>11. CASE LoadAndPrune BY <1>11, LoadAndPruneKeeps
<1>12. CASE HealDone BY <1>12, HealDoneKeeps
<1>13. ASSUME NEW s \in Services, NEW ok \in BOOLEAN, HealService(s, ok) PROVE IInv'
  BY <1>13, HealServiceKeeps
<1>14. ASSUME NEW ok \in BOOLEAN, VerifySelfHeal(ok) PROVE IInv'
  BY <1>14, VerifySelfHealKeeps
<1>15. CASE PersistResult BY <1>15, PersistResultKeeps
<1>16. CASE PersistFails BY <1>16, PersistFailsKeeps
<1>17. CASE UNCHANGED vars
  BY <1>17 DEF IInv, vars, Shape, ReadIsCurrent, DeployedDefinition, Phases, Decided, Repairs, Desired,
     Protected, AnnouncedIsDesired, AnnouncedIsRecorded, PendingKeepsEpisode
<1> QED
  BY <1>1, <1>2, <1>3, <1>4, <1>5, <1>6, <1>7, <1>8, <1>9, <1>10, <1>11, <1>12, <1>13, <1>14,
     <1>15, <1>16, <1>17 DEF Next, Pipeline

(***************************************************************************)
(* The invariant of reconciliation: what a reconciliation read stays       *)
(* current, each repair has one outcome, announcements are recorded.       *)
(***************************************************************************)
THEOREM ReconcilerInvariant == Spec => []IInv
<1>1. Init => IInv BY InitInvariant
<1>2. IInv /\ [Next]_vars => IInv' BY NextKeeps
<1> QED BY <1>1, <1>2, PTL DEF Spec

(***************************************************************************)
(* The state of reconciliation stays well typed.                           *)
(***************************************************************************)
THEOREM ReconcilerTypeCorrect == Spec => []ReconcilerTypeOK
<1>1. IInv => ReconcilerTypeOK
  BY DEF IInv, Shape, Repairs, LatestType, StackType, RecType, ReconcilerTypeOK
<1> QED BY <1>1, ReconcilerInvariant, PTL

(***************************************************************************)
(* Drift of a service is announced once per episode: publishing a second   *)
(* detection before the first was closed is impossible, whatever fails.    *)
(***************************************************************************)
THEOREM EpisodeAnnouncedOnce == Spec => []OneAnnouncementPerEpisode
<1>1. IInv => OneAnnouncementPerEpisode
  BY DEF IInv, ReadIsCurrent, AnnouncedIsRecorded, OneAnnouncementPerEpisode, Detects
<1> QED BY <1>1, ReconcilerInvariant, PTL

(***************************************************************************)
(* An announcement that was not closed has its episode recorded.           *)
(***************************************************************************)
THEOREM AnnouncementRecorded == Spec => []AnnouncedIsRecorded
<1>1. IInv => AnnouncedIsRecorded BY DEF IInv
<1> QED BY <1>1, ReconcilerInvariant, PTL

(***************************************************************************)
(* A repair that is pending has its drift episode open.                    *)
(***************************************************************************)
THEOREM PendingHasEpisode == Spec => []PendingKeepsEpisode
<1>1. IInv => PendingKeepsEpisode BY DEF IInv
<1> QED BY <1>1, ReconcilerInvariant, PTL

(***************************************************************************)
(* No step, be it of a reconciliation or between two, drops a pending      *)
(* repair that no waiter confirmed, except a deployment that fails and the *)
(* result for a definition without the service.                            *)
(***************************************************************************)
THEOREM PendingIsKept == Spec => PendingUntilConverged
<1> DEFINE Kept == \A s \in stack.pending \ stack'.pending :
                     \/ s \notin unconfirmed
                     \/ rec.pc = "persist" /\ s \notin Desired
                     \/ rec.pc \in {"deploying", "observe"} /\ latest'.status = "failed"
<1>1. IInv /\ [Next]_vars => [Kept]_vars
  <2> SUFFICES ASSUME IInv, Next, stack'.pending # stack.pending PROVE Kept
    BY DEF vars
  <2> USE DEF IInv
  <2>1. CASE DeployFails
    BY <2>1 DEF DeployFails, EndAttempt, Shape, LatestType
  <2>2. CASE PersistResult
    <3>1. stack'.pending = PendingAfter /\ rec.pc = "persist" /\ rec.prev.pending = stack.pending
      BY <2>2, ResultStack DEF PersistResult, ReadIsCurrent
    <3> QED BY <3>1, PendingResult
  <2>3. CASE Crash \/ DeploySucceeds
    BY <2>3 DEF Crash, DeploySucceeds, Shape, StackType
  <2>4. CASE Project
    BY <2>4, ProjectedStack DEF Project, Shape
  <2>5. CASE StepFails
    BY <2>5, RecordedFailure DEF StepFails, Shape
  <2>6. CASE PrepareFails
    BY <2>6, RecordedFailure DEF PrepareFails, Shape
  <2>7. CASE UNCHANGED stack BY <2>7
  <2>8. \/ DeployFails \/ PersistResult \/ Crash \/ DeploySucceeds \/ Project \/ StepFails
        \/ PrepareFails \/ UNCHANGED stack
    BY DEF Next, Pipeline, External, Begin, StartAttempt, Unchanged, Deployed, LoadAndPrune,
       HealService, HealDone, VerifySelfHeal, PersistFails
  <2> QED BY <2>1, <2>2, <2>3, <2>4, <2>5, <2>6, <2>7, <2>8
<1> QED BY <1>1, ReconcilerInvariant, PTL DEF Spec, PendingUntilConverged

(***************************************************************************)
(* The error of a stack is cleared only by success, never by a completion  *)
(* that is delivered late, with the deferred retry as the only exception.  *)
(***************************************************************************)
THEOREM ErrorIsKept == Spec => ErrorClearedBySuccess
<1> DEFINE Cleared == stack.lastError /\ ~stack'.lastError
           Allowed == \/ latest.status = "succeeded" /\ (rec.pc = "persist" \/ ~stack.settled)
                      \/ rec.deferred /\ ~rec.prev.lastError
<1>1. IInv /\ [Next]_vars => [Cleared => Allowed]_vars
  <2> SUFFICES ASSUME IInv, Next, Cleared PROVE Allowed
    BY DEF vars
  <2> USE DEF IInv
  <2>1. CASE PersistResult
    <3>1. rec.pc = "persist" /\ ~Result.lastError BY <2>1 DEF PersistResult
    <3>2. ~rec.deferred \/ ~rec.prev.lastError BY <3>1 DEF Result
    <3> QED BY <3>1, <3>2 DEF Decided
  <2>2. CASE Project
    BY <2>2 DEF Project, projectRuntime, Shape, StackType
  <2>3. CASE DeployFails
    BY <2>3 DEF DeployFails, FailedAttempt, Shape, StackType, RecType
  <2>4. CASE Crash \/ DeploySucceeds
    BY <2>4 DEF Crash, DeploySucceeds, Shape, StackType
  <2>5. CASE StepFails \/ PrepareFails
    BY <2>5 DEF StepFails, PrepareFails, recordFailure, Unprepared, Shape, StackType
  <2>6. CASE UNCHANGED stack BY <2>6
  <2>7. \/ DeployFails \/ PersistResult \/ Crash \/ DeploySucceeds \/ Project \/ StepFails
        \/ PrepareFails \/ UNCHANGED stack
    BY DEF Next, Pipeline, External, Begin, StartAttempt, Unchanged, Deployed, LoadAndPrune,
       HealService, HealDone, VerifySelfHeal, PersistFails
  <2> QED BY <2>1, <2>2, <2>3, <2>4, <2>5, <2>6, <2>7
<1> QED BY <1>1, ReconcilerInvariant, PTL DEF Spec, ErrorClearedBySuccess
==============================================================================
