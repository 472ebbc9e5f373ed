---------------------------- MODULE AlertIncidents ----------------------------
(***************************************************************************)
(* Alert management: incidents opened and resolved by the events that the  *)
(* reconciliations, the Git pull monitor, the configuration store and the  *)
(* node collector publish.                                                 *)
(*                                                                         *)
(* A delivery may be parked, overtaken by its successors and replayed      *)
(* (module Outbox), so any undelivered event may be handled next; each is  *)
(* handled once, in one transaction.  The subscriber ignores an event that *)
(* is older than the last one it accepted for the same resource.  Opening  *)
(* and resolving publish a lifecycle event in the same transaction.        *)
(***************************************************************************)
EXTENDS Naturals

CONSTANTS
    Stacks,        \* stacks, each with one service whose drift is followed
    Repositories,  \* configured Git repositories, one at a time
    Nodes,
    Threshold,     \* consecutive temporary failures that open an incident
    MaxEvents,     \* bound on publications, failed ones included
    MaxRestarts    \* bound on restarts

ASSUME AlertConstants ==
    /\ Threshold \in Nat \ {0} /\ MaxEvents \in Nat /\ MaxRestarts \in Nat

VARIABLES
    \* publishers
    accepted,     \* stacks of the accepted configuration
    ready,        \* the first reload of this process succeeded
    unsignalled,  \* observer: the signal of the last accepted change was lost
    busy,         \* stacks whose reconciliation is in progress
    episode,      \* stacks whose service has a recorded drift episode
    repository,   \* the configured repository
    pullFailure,  \* persisted: repositories whose latest pull failed (at most one)
    snapshot,        \* persisted: what the last listing showed of each node
    identities,      \* persisted: nodes that were ever observed
    joinCandidates,  \* nodes first observed by a listing a short while ago
    seenReady,       \* observer: nodes that some listing showed as ready
    rejoined,        \* observer: nodes whose return was reported as a join
    restarts,
    \* the outbox
    published,    \* number of publications, failed ones included
    pending,      \* events not yet handled
    newest,       \* observer: the last event published for each resource
    \* the subscriber
    versions,     \* newest event accepted for each resource
    open,         \* resources with an open incident
    streak        \* consecutive failures of each resource

configuration == <<accepted, ready, unsignalled>>
collector == <<snapshot, identities, joinCandidates, seenReady, rejoined>>
sources == <<configuration, busy, episode, repository, pullFailure, collector, restarts>>
outbox == <<published, pending, newest>>
alerts == <<versions, open, streak>>
vars == <<sources, outbox, alerts>>

\* A resource names an incident and the stream of events about it.
Stack(s) == <<"stack", s>>
Service(s) == <<"service", s>>
Repository(r) == <<"repository", r>>
Node(n) == <<"node", n>>
Configuration == <<"configuration", "">>
Resources ==
    {Stack(s) : s \in Stacks} \cup {Service(s) : s \in Stacks} \cup {Node(n) : n \in Nodes}
    \cup {Repository(r) : r \in Repositories} \cup {Configuration}

\* What a listing shows of a node.
Shown == {"absent", "ready", "notReady"}

Bad == {"failed", "temporary"}
Types == Bad \cup {"recovered", "repaired", "removed", "changed", "none"}

Init ==
    /\ accepted = {} /\ ready = FALSE /\ unsignalled = FALSE /\ busy = {} /\ episode = {}
    /\ repository \in Repositories /\ pullFailure = {} /\ restarts = 0
    /\ snapshot = [n \in Nodes |-> "absent"] /\ identities = {} /\ joinCandidates = {}
    /\ seenReady = {} /\ rejoined = {}
    /\ published = 0 /\ pending = {}
    /\ newest = [r \in Resources |-> "none"]
    /\ versions = [r \in Resources |-> 0] /\ open = {}
    /\ streak = [r \in Resources |-> 0]

-----------------------------------------------------------------------------
(* Publishers.                                                             *)

\* Events about different resources are published in one transaction.
Publish(events) ==
    /\ published < MaxEvents
    /\ published' = published + 1
    /\ pending' = pending \cup {[seq |-> published + 1, type |-> e[1], of |-> e[2]] : e \in events}
    /\ newest' = [r \in Resources |->
                    IF \E e \in events : e[2] = r
                       THEN (CHOOSE e \in events : e[2] = r)[1] ELSE newest[r]]
    /\ UNCHANGED alerts

\* The transaction fails: its number stands for the time that passed.
PublishFails ==
    /\ published < MaxEvents
    /\ published' = published + 1
    /\ UNCHANGED <<pending, newest, alerts>>

\* The configuration is reloaded; a change, and the first reload, is signalled.  An
\* error of that publication is logged: the configuration stays accepted, and the
\* signal is not sent again.
Reload(stacks) ==
    /\ accepted' = stacks /\ ready' = TRUE
    /\ \/ /\ ready /\ stacks = accepted
          /\ UNCHANGED <<unsignalled, outbox, alerts>>
       \/ /\ ~(ready /\ stacks = accepted)
          /\ \/ unsignalled' = FALSE /\ Publish({<<"changed", Configuration>>})
             \/ unsignalled' = TRUE /\ PublishFails
    /\ UNCHANGED <<busy, episode, repository, pullFailure, collector, restarts>>

\* A reconciliation starts for a stack of the accepted configuration.
Start(s) ==
    /\ ready /\ s \in accepted \ busy
    /\ busy' = busy \cup {s}
    /\ UNCHANGED <<configuration, episode, repository, pullFailure, collector, restarts, outbox, alerts>>

\* It ends with an event about the stack; its stack may have left the configuration meanwhile.
Deployed(s) ==
    /\ s \in busy
    /\ busy' = busy \ {s}
    /\ \E type \in Bad \cup {"recovered"} : Publish({<<type, Stack(s)>>})
    /\ UNCHANGED <<configuration, episode, repository, pullFailure, collector, restarts>>

\* It ends with a change of the drift episode of its service: detected, fixed, or the
\* service dropped from the definition.
Drifted(s) ==
    /\ s \in busy
    /\ busy' = busy \ {s}
    /\ \/ s \notin episode /\ episode' = episode \cup {s} /\ Publish({<<"failed", Service(s)>>})
       \/ s \in episode /\ episode' = episode \ {s}
          /\ \E type \in {"repaired", "removed"} : Publish({<<type, Service(s)>>})
       \/ UNCHANGED <<episode, outbox, alerts>>
    /\ UNCHANGED <<configuration, repository, pullFailure, collector, restarts>>

\* Variant: a failure of another repository is overwritten without a word.
ObserveForgetting(outcome) ==
    LET events == IF outcome \in Bad THEN {<<outcome, Repository(repository)>>}
                  ELSE {<<"recovered", Repository(r)>> : r \in pullFailure \cap {repository}}
    IN  /\ pullFailure' = IF outcome \in Bad THEN {repository} ELSE {}
        /\ IF events = {} THEN UNCHANGED <<outbox, alerts>> ELSE Publish(events)
        /\ UNCHANGED <<configuration, busy, episode, repository, collector, restarts>>

\* The outcome of a pull.  Failures recorded for another repository than the
\* configured one are closed by a change event for that one.
Observe(outcome) ==
    LET changed == {<<"changed", Repository(r)>> : r \in pullFailure \ {repository}}
        ended   == {<<"recovered", Repository(r)>> : r \in pullFailure \cap {repository}}
        events  == changed \cup (IF outcome \in Bad THEN {<<outcome, Repository(repository)>>}
                                                    ELSE ended)
    IN  /\ pullFailure' = IF outcome \in Bad THEN {repository} ELSE {}
        /\ IF events = {} THEN UNCHANGED <<outbox, alerts>> ELSE Publish(events)
        /\ UNCHANGED <<configuration, busy, episode, repository, collector, restarts>>

\* Variant: only the nodes of the listing are looked at.
connectionEventsOfListed(current) ==
    {<<"recovered", Node(n)>> : n \in {m \in Nodes : snapshot[m] = "notReady" /\ current[m] = "ready"}}
    \cup {<<"failed", Node(n)>> : n \in {m \in Nodes : snapshot[m] = "ready" /\ current[m] = "notReady"}}

\* Changes of nodes that were in the snapshot.  One that is missing counts as
\* disconnected, if it was connected.
connectionEvents(current) ==
    {<<"recovered", Node(n)>> : n \in {m \in Nodes : snapshot[m] = "notReady" /\ current[m] = "ready"}}
    \cup {<<"failed", Node(n)>> : n \in {m \in Nodes : snapshot[m] = "ready" /\ current[m] # "ready"}}

\* Nodes that enter the snapshot connected.
Arriving(current) == {n \in Nodes : snapshot[n] = "absent" /\ current[n] = "ready"}

\* Known nodes that are back are connected again; the created one is seen to apart.
reappearedNodes(current, created) ==
    {<<"recovered", Node(n)>> : n \in (Arriving(current) \cap identities) \ created}

\* A created node has joined if it is fresh or was first observed recently; NodeJoined
\* concerns no incident.  Otherwise it is connected again if it was not in the snapshot.
creationFact(current, created, recent) ==
    {<<"recovered", Node(n)>> : n \in (Arriving(current) \cap identities \cap created) \ recent}

\* The nodes are listed, because the stream was resumed (created is empty) or for an
\* event, and the snapshot is replaced in one transaction with what it reports.
\* `recent' are the join candidates whose time is not over.
Collect(current, created, recent) ==
    LET listed == {n \in Nodes : current[n] # "absent"}
        events == creationFact(current, created, recent) \cup reappearedNodes(current, created)
                  \cup connectionEvents(current)
    IN  /\ snapshot' = current
        /\ identities' = identities \cup created \cup listed
        /\ joinCandidates' = (recent \ created) \cup (listed \ (identities \cup created))
        /\ seenReady' = seenReady \cup {n \in Nodes : current[n] = "ready"}
        /\ rejoined' = (rejoined \cup (Arriving(current) \cap created \cap recent \cap seenReady))
                       \ {n \in Nodes : \E e \in events : e[2] = Node(n)}
        /\ IF events = {} THEN UNCHANGED <<outbox, alerts>> ELSE Publish(events)
        /\ UNCHANGED <<configuration, busy, episode, repository, pullFailure, restarts>>

\* The process is restarted, possibly with another repository configured.  Deployments
\* that were running are interrupted before the configuration is loaded.
Restart(r) ==
    /\ restarts < MaxRestarts
    /\ restarts' = restarts + 1
    /\ accepted' = {} /\ ready' = FALSE /\ unsignalled' = FALSE /\ busy' = {}
    /\ joinCandidates' = {} /\ repository' = r
    /\ \/ UNCHANGED <<outbox, alerts>>
       \/ \E cut \in SUBSET busy \ {{}} : Publish({<<"failed", Stack(s)>> : s \in cut})
    /\ UNCHANGED <<episode, pullFailure, snapshot, identities, seenReady, rejoined>>

-----------------------------------------------------------------------------
(* The subscriber.                                                         *)

\* The stacks are known, and this one is not among them.
stackRemoved(s) == ready /\ s \notin accepted

\* Variant: the failure of a stack that was removed meanwhile is counted.
handleFailedAnyway(e) ==
    LET failures == streak[e.of] + 1
    IN  /\ streak' = [streak EXCEPT ![e.of] = IF @ < Threshold THEN failures ELSE @]
        /\ open' = IF e.type = "failed" \/ failures >= Threshold THEN open \cup {e.of} ELSE open

\* A failure opens an incident, or counts towards one when it is temporary.  The
\* streak is kept up to the threshold, which is all it is compared with.
handleFailed(e) ==
    LET failures == streak[e.of] + 1
        removed  == e.of[1] = "stack" /\ stackRemoved(e.of[2])
    IN  /\ streak' = [streak EXCEPT ![e.of] = IF removed THEN 0
                                              ELSE IF @ < Threshold THEN failures ELSE @]
        /\ open' = IF ~removed /\ (e.type = "failed" \/ failures >= Threshold)
                      THEN open \cup {e.of} ELSE open

\* Drift is not temporary, and whether its stack is still configured is not looked at.
handleServiceDrift(e) ==
    /\ open' = open \cup {e.of}
    /\ UNCHANGED streak

\* Variant: only the count is reset.
handleRecoveredUnresolved(e) ==
    /\ streak' = [streak EXCEPT ![e.of] = 0]
    /\ open' = open

\* Success, recovery, repair, removal from the definition, change of the repository.
handleRecovered(e) ==
    /\ streak' = [streak EXCEPT ![e.of] = 0]
    /\ open' = open \ {e.of}

\* Incidents and counts of stacks that are not configured any more are removed;
\* an error keeps the delivery for later while the configuration is not known.
handleConfigurationChanged ==
    /\ ready
    /\ LET gone == Stacks \ accepted
       IN  /\ open' = open \ ({Stack(s) : s \in gone} \cup {Service(s) : s \in gone})
           /\ streak' = [r \in Resources |->
                           IF r \in {Stack(s) : s \in gone} THEN 0 ELSE streak[r]]

Handle(e) ==
    CASE e.of = Configuration -> handleConfigurationChanged
      [] e.of # Configuration /\ e.type \in Bad ->
            IF e.of[1] \in {"stack", "repository"} THEN handleFailed(e) ELSE handleServiceDrift(e)
      [] OTHER -> handleRecovered(e)

\* Variant: delayed events are applied too.
ConsumeAny(e) ==
    /\ versions' = [versions EXCEPT ![e.of] = e.seq]
    /\ Handle(e)

\* Events older than the last accepted transition of their resource are ignored.
ConsumeLatest(e) ==
    IF e.seq > versions[e.of]
       THEN versions' = [versions EXCEPT ![e.of] = e.seq] /\ Handle(e)
       ELSE UNCHANGED alerts

Deliver(e) ==
    /\ ConsumeLatest(e)
    /\ pending' = pending \ {e}
    /\ UNCHANGED <<sources, published, newest>>

Next ==
    \/ \E stacks \in SUBSET Stacks : Reload(stacks)
    \/ \E s \in Stacks : Start(s) \/ Deployed(s) \/ Drifted(s)
    \/ \E outcome \in Bad \cup {"ok"} : Observe(outcome)
    \/ \E current \in [Nodes -> Shown], created \in {{}} \cup {{n} : n \in Nodes},
          recent \in SUBSET joinCandidates : Collect(current, created, recent)
    \/ \E r \in Repositories : Restart(r)
    \/ \E e \in pending : Deliver(e)

Spec == Init /\ [][Next]_vars

-----------------------------------------------------------------------------
(* Properties.                                                             *)

AlertTypeOK ==
    /\ accepted \cup busy \cup episode \subseteq Stacks
    /\ pullFailure \subseteq Repositories /\ repository \in Repositories
    /\ snapshot \in [Nodes -> Shown]
    /\ identities \cup joinCandidates \cup seenReady \cup rejoined \subseteq Nodes
    /\ \A e \in pending : e.seq \in 1..published /\ e.type \in Types /\ e.of \in Resources
    /\ versions \in [Resources -> 0..published]
    /\ open \subseteq Resources \ {Configuration}
    /\ streak \in [Resources -> 0..Threshold]

\* Everything published about a resource was handled.
Caught(r) == \A e \in pending : e.of # r

\* Once everything about a resource was handled, an open incident means that the last
\* thing reported about it was bad.
OpenMeansBad == \A r \in open : Caught(r) => newest[r] \in Bad

(***************************************************************************)
(* Whatever the order of delivery, no incident stays open after a recovery *)
(* because a delayed failure was handled later (ConsumeLatest and the      *)
(* handlers).                                                              *)
(***************************************************************************)
AlertInvariant == AlertTypeOK /\ OpenMeansBad

\* The node was connected once and is not now, or its return was not recognized.
Disconnected(n) == (n \in seenReady /\ snapshot[n] # "ready") \/ n \in rejoined

(***************************************************************************)
(* Once everything about a node was handled it has an open incident        *)
(* exactly while it was connected once and the last listing did not show   *)
(* it as ready, be it missing or not ready, however the reports of its     *)
(* coming and going were delivered and whatever the collector forgot at a  *)
(* restart (connectionEvents, reappearedNodes, creationFact).  A node that *)
(* was never ready has none.  The one other case is a node that was        *)
(* reported missing and whose return was taken for its first join.         *)
(***************************************************************************)
DisconnectedIsOpen ==
    \A n \in Nodes : Caught(Node(n)) => (Node(n) \in open <=> Disconnected(n))

(***************************************************************************)
(* Incidents about Git pulls follow the persisted failure across changes   *)
(* of the configured repository and restarts: once everything was handled  *)
(* only the repository whose latest pull failed can have one.              *)
(***************************************************************************)
GitIncidentIsCurrent ==
    \A r \in Repositories :
        Caught(Repository(r)) /\ Repository(r) \in open => r \in pullFailure

(***************************************************************************)
(* Once the configuration is known and everything was handled, no stack    *)
(* that left it has an open deployment incident, although reconciliations  *)
(* that were running when it left report their failure later, and events   *)
(* are delivered before the first reload after a restart.  A signal that   *)
(* could not be published (configstore/store.go:36) is excluded by name,   *)
(* until the next one that is: it makes up for all that were lost.         *)
(***************************************************************************)
NoIncidentOfRemovedStack ==
    ready /\ ~unsignalled /\ pending = {} => \A s \in Stacks \ accepted : Stack(s) \notin open

==============================================================================
