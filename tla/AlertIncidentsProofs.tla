------------------------- MODULE AlertIncidentsProofs -------------------------
(***************************************************************************)
(* Alert management, proved for any stacks, repositories and nodes and any *)
(* number of events and restarts: whatever the order of delivery, the      *)
(* incidents that remain are those of the last thing reported.             *)
(***************************************************************************)
EXTENDS AlertIncidents, TLAPS

CollectorType ==
    /\ snapshot \in [Nodes -> Shown]
    /\ identities \subseteq Nodes /\ joinCandidates \subseteq Nodes
    /\ seenReady \subseteq Nodes /\ rejoined \subseteq Nodes

Shape ==
    /\ accepted \subseteq Stacks /\ busy \subseteq Stacks /\ episode \subseteq Stacks
    /\ pullFailure \subseteq Repositories /\ repository \in Repositories
    /\ CollectorType
    /\ published \in Nat
    /\ \A e \in pending : e.seq \in 1..published /\ e.type \in Types /\ e.of \in Resources
    /\ newest \in [Resources -> Types]
    /\ versions \in [Resources -> 0..published]
    /\ open \subseteq Resources \ {Configuration}
    /\ streak \in [Resources -> 0..Threshold]

\* One publication has one event about a resource.
OneEventEach == \A e, f \in pending : e.of = f.of /\ e.seq = f.seq => e = f

\* The last event published about r is still to be handled.
Outstanding(r) ==
    \E e \in pending :
        /\ e.of = r /\ e.type = newest[r] /\ e.seq > versions[r]
        /\ \A f \in pending : f.of = r => f.seq <= e.seq

\* Whatever is still delivered about r will be ignored.
Settled(r) == \A f \in pending : f.of = r => f.seq <= versions[r]

\* The incident of r is what the last report says.
Agrees(r) ==
    /\ r \in open => newest[r] \in Bad
    /\ r[1] = "node" => (newest[r] \in Bad => r \in open)

StreamInv == \A r \in Resources : Outstanding(r) \/ (Settled(r) /\ Agrees(r))

\* The collector knows what it has seen, and a return that was taken for a join is
\* forgotten with the next report.
CollectorInv ==
    \A n \in Nodes :
        /\ snapshot[n] = "ready" => n \in seenReady
        /\ n \in seenReady \/ snapshot[n] # "absent" => n \in identities
        /\ n \in rejoined => snapshot[n] = "ready"

\* What the publishers remember is what they last reported.
ReportInv ==
    /\ CollectorInv
    /\ \A n \in Nodes : Disconnected(n) <=> newest[Node(n)] \in Bad
    /\ \A r \in Repositories : newest[Repository(r)] \in Bad => r \in pullFailure

\* The incident of a stack that left is waited for by a change of the configuration.
RemovedInv ==
    ready /\ ~unsignalled =>
        \A s \in Stacks \ accepted : Stack(s) \in open => Outstanding(Configuration)

IInv == Shape /\ OneEventEach /\ StreamInv /\ ReportInv /\ RemovedInv

-----------------------------------------------------------------------------
(* Publishers.                                                             *)

\* The events of one transaction, each about a resource of its own.
Transaction(events) ==
    /\ \A e \in events : e[1] \in Types /\ e[2] \in Resources
    /\ \A e, f \in events : e[2] = f[2] => e = f

Concerns(events, r) == \E e \in events : e[2] = r

\* What is published becomes the last thing reported, and is to be handled.
LEMMA PublishKeeps ==
    ASSUME Shape, OneEventEach, StreamInv, NEW events, Transaction(events), Publish(events)
    PROVE  /\ published' \in Nat /\ newest' \in [Resources -> Types]
           /\ \A e \in pending' : e.seq \in 1..published' /\ e.type \in Types /\ e.of \in Resources
           /\ versions' \in [Resources -> 0..published'] /\ open' = open /\ streak' = streak
           /\ OneEventEach' /\ StreamInv'
           /\ \A e \in events : newest'[e[2]] = e[1] /\ Outstanding(e[2])'
           /\ \A r \in Resources : ~Concerns(events, r) => newest'[r] = newest[r]
           /\ \A r \in Resources : Outstanding(r) => Outstanding(r)'
<1> PICK p : p = published OBVIOUS
<1> DEFINE new == {[seq |-> p + 1, type |-> e[1], of |-> e[2]] : e \in events}
<1>1. /\ published' = p + 1 /\ pending' = pending \cup new
      /\ newest' = [r \in Resources |->
                      IF Concerns(events, r) THEN (CHOOSE e \in events : e[2] = r)[1] ELSE newest[r]]
      /\ versions' = versions /\ open' = open /\ streak' = streak
  BY DEF Publish, alerts, Concerns
<1>2. p \in Nat BY DEF Shape
<1>3. \A e \in events : newest'[e[2]] = e[1]
  <2> SUFFICES ASSUME NEW e \in events PROVE newest'[e[2]] = e[1] OBVIOUS
  <2> PICK c : c = CHOOSE x \in events : x[2] = e[2] OBVIOUS
  <2>1. c \in events /\ c[2] = e[2] OBVIOUS
  <2>2. c = e BY <2>1 DEF Transaction
  <2>3. Concerns(events, e[2]) /\ e[2] \in Resources BY DEF Concerns, Transaction
  <2> QED BY <1>1, <2>2, <2>3
<1>4. \A r \in Resources : ~Concerns(events, r) => newest'[r] = newest[r] BY <1>1
<1>5. \A r \in Resources : newest'[r] \in Types
  <2> SUFFICES ASSUME NEW r \in Resources PROVE newest'[r] \in Types OBVIOUS
  <2>1. CASE Concerns(events, r)
    <3>1. PICK e \in events : e[2] = r BY <2>1 DEF Concerns
    <3> QED BY <1>3, <3>1 DEF Transaction
  <2>2. CASE ~Concerns(events, r) BY <1>4, <2>2 DEF Shape
  <2> QED BY <2>1, <2>2
<1>6. newest' \in [Resources -> Types] BY <1>1, <1>5
<1>7. \A x \in new : /\ x.seq = p + 1 /\ x.type \in Types /\ x.of \in Resources
                     /\ Concerns(events, x.of)
  BY DEF Transaction, Concerns
<1>8. \A x, y \in new : x.of = y.of => x = y BY DEF Transaction
<1>9. \A e \in events : \E x \in new : x.of = e[2] /\ x.type = e[1] /\ x.seq = p + 1
  <2> SUFFICES ASSUME NEW e \in events PROVE \E x \in new : x.of = e[2] /\ x.type = e[1] /\ x.seq = p + 1
    OBVIOUS
  <2> PICK x : x = [seq |-> p + 1, type |-> e[1], of |-> e[2]] OBVIOUS
  <2>1. x \in new /\ x.of = e[2] /\ x.type = e[1] /\ x.seq = p + 1 OBVIOUS
  <2> HIDE DEF new
  <2> QED BY <2>1
<1> HIDE DEF new
<1>10. \A x \in pending : x.seq \in 1..p /\ x.seq < p + 1 BY <1>2 DEF Shape
<1>11. \A e \in pending' : e.seq \in 1..published' /\ e.type \in Types /\ e.of \in Resources
  <2> SUFFICES ASSUME NEW e \in pending'
               PROVE  e.seq \in 1..published' /\ e.type \in Types /\ e.of \in Resources
    OBVIOUS
  <2>1. CASE e \in pending BY <1>1, <1>2, <1>10, <2>1 DEF Shape
  <2>2. CASE e \in new BY <1>1, <1>2, <1>7, <2>2
  <2> QED BY <1>1, <2>1, <2>2
<1>12. \A r \in Resources : versions[r] \in 0..p /\ versions[r] < p + 1 BY <1>2 DEF Shape
<1>13. versions' \in [Resources -> 0..published']
  <2>1. \A r \in Resources : versions[r] \in 0..(p + 1) BY <1>2, <1>12
  <2> QED BY <1>1, <2>1 DEF Shape
<1>14. OneEventEach' BY <1>1, <1>2, <1>7, <1>8, <1>10 DEF OneEventEach
<1>15. \A e \in events : Outstanding(e[2])'
  <2> SUFFICES ASSUME NEW e \in events PROVE Outstanding(e[2])' OBVIOUS
  <2>1. PICK x \in new : x.of = e[2] /\ x.type = e[1] /\ x.seq = p + 1 BY <1>9
  <2>2. \A f \in pending' : f.seq <= x.seq BY <1>1, <1>2, <1>7, <1>10, <2>1
  <2>3. e[2] \in Resources BY DEF Transaction
  <2>4. x.seq > versions'[e[2]] BY <1>1, <1>2, <1>12, <2>1, <2>3
  <2> QED BY <1>1, <1>3, <2>1, <2>2, <2>4 DEF Outstanding
<1>16. ASSUME NEW r \in Resources, ~Concerns(events, r)
       PROVE  \A f : f \in pending' /\ f.of = r <=> f \in pending /\ f.of = r
  BY <1>1, <1>7, <1>16
<1>17. ASSUME NEW r \in Resources, Outstanding(r) PROVE Outstanding(r)'
  <2>1. CASE Concerns(events, r) BY <1>15, <2>1 DEF Concerns
  <2>2. CASE ~Concerns(events, r) BY <1>1, <1>4, <1>16, <1>17, <2>2 DEF Outstanding
  <2> QED BY <2>1, <2>2
<1>18. StreamInv'
  <2> SUFFICES ASSUME NEW r \in Resources PROVE Outstanding(r)' \/ (Settled(r)' /\ Agrees(r)')
    BY DEF StreamInv
  <2>1. CASE Concerns(events, r) BY <1>15, <2>1 DEF Concerns
  <2>2. CASE ~Concerns(events, r) /\ Settled(r) /\ Agrees(r)
    <3>1. Settled(r)' BY <1>1, <1>16, <2>2 DEF Settled
    <3>2. Agrees(r)' BY <1>1, <1>4, <2>2 DEF Agrees
    <3> QED BY <3>1, <3>2
  <2> QED BY <1>17, <2>1, <2>2 DEF StreamInv
<1> QED BY <1>1, <1>2, <1>3, <1>4, <1>6, <1>11, <1>13, <1>14, <1>15, <1>17, <1>18

\* A step that publishes nothing, or tries in vain.
LEMMA SilentKeeps ==
    ASSUME Shape, OneEventEach, StreamInv, UNCHANGED <<outbox, alerts>> \/ PublishFails
    PROVE  /\ published' \in Nat /\ newest' \in [Resources -> Types]
           /\ \A e \in pending' : e.seq \in 1..published' /\ e.type \in Types /\ e.of \in Resources
           /\ versions' \in [Resources -> 0..published'] /\ open' = open /\ streak' = streak
           /\ OneEventEach' /\ StreamInv' /\ newest' = newest
           /\ \A r \in Resources : Outstanding(r) => Outstanding(r)'
<1>1. /\ published' \in {published, published + 1} /\ pending' = pending /\ newest' = newest
      /\ versions' = versions /\ open' = open /\ streak' = streak
  BY DEF outbox, alerts, PublishFails
<1>2. \A r \in Resources : /\ Outstanding(r)' <=> Outstanding(r)
                           /\ Settled(r)' <=> Settled(r)
                           /\ Agrees(r)' <=> Agrees(r)
  BY <1>1 DEF Outstanding, Settled, Agrees
<1>3. StreamInv' BY <1>2 DEF StreamInv
<1>4. OneEventEach' BY <1>1 DEF OneEventEach
<1>5. published \in Nat /\ published' \in Nat /\ published <= published' BY <1>1 DEF Shape
<1>6. \A e \in pending' : e.seq \in 1..published' BY <1>1, <1>5 DEF Shape
<1>7. versions' \in [Resources -> 0..published']
  <2>1. \A r \in Resources : versions[r] \in 0..published' BY <1>5 DEF Shape
  <2> QED BY <1>1, <2>1 DEF Shape
<1> QED BY <1>1, <1>2, <1>3, <1>4, <1>5, <1>6, <1>7 DEF Shape

\* A step that publishes one transaction, or nothing.
Published(events) ==
    \/ UNCHANGED <<outbox, alerts>> \/ PublishFails
    \/ Transaction(events) /\ Publish(events)

LEMMA PublisherStep ==
    ASSUME IInv, NEW events, Published(events), ReportInv', RemovedInv',
           accepted' \subseteq Stacks, busy' \subseteq Stacks, episode' \subseteq Stacks,
           pullFailure' \subseteq Repositories, repository' \in Repositories, CollectorType'
    PROVE  IInv'
<1>1. /\ published' \in Nat /\ newest' \in [Resources -> Types]
      /\ \A e \in pending' : e.seq \in 1..published' /\ e.type \in Types /\ e.of \in Resources
      /\ versions' \in [Resources -> 0..published'] /\ open' = open /\ streak' = streak
      /\ OneEventEach' /\ StreamInv'
  BY PublishKeeps, SilentKeeps DEF Published, IInv
<1>2. Shape' BY <1>1 DEF Shape, IInv
<1> QED BY <1>1, <1>2 DEF IInv

\* While the configuration stays, a pending change of it stays pending.
LEMMA RemovedKept ==
    ASSUME IInv, NEW events, Published(events), UNCHANGED configuration
    PROVE  RemovedInv'
<1>1. open' = open /\ \A r \in Resources : Outstanding(r) => Outstanding(r)'
  BY PublishKeeps, SilentKeeps DEF Published, IInv
<1>2. Configuration \in Resources BY DEF Resources
<1> QED BY <1>1, <1>2 DEF RemovedInv, IInv, configuration

\* Events about stacks, services and the configuration leave the reports of
\* nodes and repositories alone.
LEMMA ReportKept ==
    ASSUME IInv, NEW events, Published(events),
           UNCHANGED <<snapshot, identities, seenReady, rejoined, pullFailure>>,
           \A e \in events : e[2][1] \notin {"node", "repository"}
    PROVE  ReportInv'
<1>1. \A n \in Nodes : /\ Node(n) \in Resources /\ ~Concerns(events, Node(n))
  BY DEF Resources, Node, Concerns
<1>2. \A r \in Repositories : Repository(r) \in Resources /\ ~Concerns(events, Repository(r))
  BY DEF Resources, Repository, Concerns
<1>3. \/ newest' = newest
      \/ \A r \in Resources : ~Concerns(events, r) => newest'[r] = newest[r]
  BY PublishKeeps, SilentKeeps DEF Published, IInv
<1>4. /\ \A n \in Nodes : newest'[Node(n)] = newest[Node(n)]
      /\ \A r \in Repositories : newest'[Repository(r)] = newest[Repository(r)]
  BY <1>1, <1>2, <1>3
<1> QED BY <1>4 DEF ReportInv, IInv, CollectorInv, Disconnected

LEMMA ReloadStep ==
    ASSUME IInv, NEW stacks \in SUBSET Stacks, Reload(stacks)
    PROVE  IInv'
<1> PICK events : events = {<<"changed", Configuration>>} OBVIOUS
<1>1. Transaction(events) /\ \A e \in events : e[2][1] = "configuration"
  <2>1. "changed" \in Types /\ Configuration \in Resources BY DEF Types, Resources
  <2>2. Configuration[1] = "configuration" BY DEF Configuration
  <2> QED BY <2>1, <2>2 DEF Transaction
<1>2. Published(events) BY <1>1 DEF Reload, Published
<1>3. accepted' = stacks /\ ready' = TRUE /\ UNCHANGED <<busy, episode, repository, pullFailure, collector>>
  BY DEF Reload
<1>4. ReportInv' BY <1>1, <1>2, <1>3, ReportKept DEF collector
<1>5. RemovedInv'
  <2>1. CASE UNCHANGED configuration BY <1>2, <2>1, RemovedKept
  <2>2. CASE unsignalled' = TRUE BY <2>2 DEF RemovedInv
  <2>3. CASE Publish(events)
    <3>1. \A e \in events : Outstanding(e[2])' BY <1>1, <2>3, PublishKeeps DEF IInv
    <3>2. Outstanding(Configuration)' BY <3>1
    <3> QED BY <3>2 DEF RemovedInv
  <2>4. UNCHANGED configuration \/ unsignalled' = TRUE \/ Publish(events)
    BY <1>3 DEF Reload, configuration
  <2> QED BY <2>1, <2>2, <2>3, <2>4
<1> QED BY <1>2, <1>3, <1>4, <1>5, PublisherStep DEF IInv, Shape, collector, CollectorType

\* The end of a reconciliation, and an interruption, are about stacks and services.
LEMMA ReconcilerStep ==
    ASSUME IInv, NEW events, Published(events), UNCHANGED <<repository, pullFailure, collector>>,
           \A e \in events : e[2][1] \notin {"node", "repository"},
           UNCHANGED configuration, busy' \subseteq Stacks, episode' \subseteq Stacks
    PROVE  IInv'
<1>1. ReportInv' /\ RemovedInv' BY ReportKept, RemovedKept DEF collector
<1> QED BY <1>1, PublisherStep DEF IInv, Shape, collector, configuration, CollectorType

LEMMA StartStep ==
    ASSUME IInv, NEW s \in Stacks, Start(s)
    PROVE  IInv'
<1> PICK events : events = {} OBVIOUS
<1>1. Published(events) BY DEF Start, Published
<1> QED BY <1>1, ReconcilerStep DEF Start, IInv, Shape

LEMMA DeployedStep ==
    ASSUME IInv, NEW s \in Stacks, Deployed(s)
    PROVE  IInv'
<1>1. PICK type \in Bad \cup {"recovered"} : Publish({<<type, Stack(s)>>}) BY DEF Deployed
<1> PICK events : events = {<<type, Stack(s)>>} OBVIOUS
<1>2. Published(events) /\ \A e \in events : e[2][1] = "stack"
  BY <1>1 DEF Published, Transaction, Types, Resources, Stack
<1> QED BY <1>2, ReconcilerStep DEF Deployed, IInv, Shape

LEMMA DriftedStep ==
    ASSUME IInv, NEW s \in Stacks, Drifted(s)
    PROVE  IInv'
<1>1. PICK type \in {"failed", "repaired", "removed"} :
         UNCHANGED <<outbox, alerts>> \/ Publish({<<type, Service(s)>>})
  BY DEF Drifted
<1> PICK events : events = {<<type, Service(s)>>} OBVIOUS
<1>2. Published(events) /\ \A e \in events : e[2][1] = "service"
  BY <1>1 DEF Published, Transaction, Types, Bad, Resources, Service
<1>3. busy' \subseteq Stacks /\ episode' \subseteq Stacks BY DEF Drifted, IInv, Shape
<1> QED BY <1>2, <1>3, ReconcilerStep DEF Drifted

\* A pull: the failure of a repository that is not configured any more is closed.
LEMMA ObserveStep ==
    ASSUME IInv, NEW outcome \in Bad \cup {"ok"}, Observe(outcome)
    PROVE  IInv'
<1> DEFINE changed == {<<"changed", Repository(r)>> : r \in pullFailure \ {repository}}
           ended   == {<<"recovered", Repository(r)>> : r \in pullFailure \cap {repository}}
           events  == changed \cup (IF outcome \in Bad THEN {<<outcome, Repository(repository)>>} ELSE ended)
<1>1. pullFailure \subseteq Repositories /\ repository \in Repositories BY DEF IInv, Shape
<1>2. \A r, q : Repository(r) = Repository(q) => r = q BY DEF Repository
<1>3. Transaction(events)
  <2>1. \A r \in Repositories : Repository(r) \in Resources BY DEF Resources
  <2>2. \A e \in events : e[1] \in Types /\ e[2] \in Resources BY <1>1, <2>1 DEF Types
  <2>3. \A e, f \in events : e[2] = f[2] => e = f BY <1>2
  <2> QED BY <2>2, <2>3 DEF Transaction
<1>4. /\ pullFailure' = IF outcome \in Bad THEN {repository} ELSE {}
      /\ IF events = {} THEN UNCHANGED <<outbox, alerts>> ELSE Publish(events)
      /\ UNCHANGED <<configuration, busy, episode, repository, collector, restarts>>
  BY DEF Observe
<1>5. /\ \A r \in pullFailure \ {repository} : <<"changed", Repository(r)>> \in events
      /\ outcome \notin Bad => \A r \in pullFailure \cap {repository} : <<"recovered", Repository(r)>> \in events
      /\ \A e \in events : e[2][1] = "repository"
  BY DEF Repository
<1> HIDE DEF events
<1>6. Published(events) BY <1>3, <1>4 DEF Published
<1>7. \/ newest' = newest /\ events = {}
      \/ /\ \A e \in events : newest'[e[2]] = e[1]
         /\ \A r \in Resources : ~Concerns(events, r) => newest'[r] = newest[r]
  BY <1>3, <1>4, PublishKeeps, SilentKeeps DEF IInv
<1>8. \A n \in Nodes : newest'[Node(n)] = newest[Node(n)]
  <2>1. \A n \in Nodes : Node(n) \in Resources /\ ~Concerns(events, Node(n))
    BY <1>5 DEF Resources, Node, Concerns
  <2> QED BY <1>7, <2>1
<1>9. ASSUME NEW r \in Repositories, newest'[Repository(r)] \in Bad PROVE r \in pullFailure'
  <2>1. CASE r = repository /\ outcome \in Bad BY <1>4, <2>1
  <2>2. CASE r \in pullFailure /\ (r # repository \/ outcome \notin Bad)
    <3>1. PICK type \in {"changed", "recovered"} : <<type, Repository(r)>> \in events BY <1>5, <2>2
    <3>2. newest'[Repository(r)] = type BY <1>7, <3>1
    <3> QED BY <1>9, <3>1, <3>2 DEF Bad
  <2>3. CASE r \notin pullFailure /\ (r # repository \/ outcome \notin Bad)
    <3>1. ~Concerns(events, Repository(r)) BY <1>2, <2>3 DEF Concerns, events
    <3>2. Repository(r) \in Resources BY DEF Resources
    <3>3. newest'[Repository(r)] = newest[Repository(r)] BY <1>7, <3>1, <3>2
    <3> QED BY <1>9, <2>3, <3>3 DEF IInv, ReportInv
  <2> QED BY <2>1, <2>2, <2>3
<1>10. ReportInv' BY <1>4, <1>8, <1>9 DEF IInv, ReportInv, CollectorInv, Disconnected, collector
<1>11. RemovedInv' BY <1>4, <1>6, RemovedKept
<1> QED BY <1>1, <1>4, <1>6, <1>10, <1>11, PublisherStep
    DEF IInv, Shape, collector, configuration, CollectorType

\* The reports of a listing: who leaves, and whose return is noticed.
Leaving(current) == {n \in Nodes : snapshot[n] = "ready" /\ current[n] # "ready"}
Returning(current, created, recent) ==
    {n \in Nodes :
        /\ current[n] = "ready"
        /\ \/ snapshot[n] = "notReady"
           \/ snapshot[n] = "absent" /\ n \in identities \ (created \cap recent)}
Reports(current, created, recent) ==
    {<<"failed", Node(n)>> : n \in Leaving(current)}
    \cup {<<"recovered", Node(n)>> : n \in Returning(current, created, recent)}

LEMMA ReportsOfListing ==
    ASSUME NEW current, NEW created, NEW recent
    PROVE  creationFact(current, created, recent) \cup reappearedNodes(current, created)
             \cup connectionEvents(current) = Reports(current, created, recent)
BY DEF creationFact, reappearedNodes, connectionEvents, Arriving, Reports, Leaving, Returning

LEMMA CollectStep ==
    ASSUME IInv, NEW current \in [Nodes -> Shown], NEW created \in SUBSET Nodes,
           NEW recent \in SUBSET joinCandidates, Collect(current, created, recent)
    PROVE  IInv'
<1> DEFINE events == Reports(current, created, recent)
           listed == {n \in Nodes : current[n] # "absent"}
<1>1. /\ snapshot' = current
      /\ identities' = identities \cup created \cup listed
      /\ joinCandidates' = (recent \ created) \cup (listed \ (identities \cup created))
      /\ seenReady' = seenReady \cup {n \in Nodes : current[n] = "ready"}
      /\ rejoined' = (rejoined \cup (Arriving(current) \cap created \cap recent \cap seenReady))
                     \ {n \in Nodes : \E e \in events : e[2] = Node(n)}
      /\ IF events = {} THEN UNCHANGED <<outbox, alerts>> ELSE Publish(events)
      /\ UNCHANGED <<configuration, busy, episode, repository, pullFailure, restarts>>
  BY ReportsOfListing DEF Collect
<1>2. \A n, m : Node(n) = Node(m) => n = m BY DEF Node
<1>3. /\ \A n \in Leaving(current) : <<"failed", Node(n)>> \in events
      /\ \A n \in Returning(current, created, recent) : <<"recovered", Node(n)>> \in events
      /\ \A e \in events :
            \/ \E n \in Leaving(current) : e = <<"failed", Node(n)>>
            \/ \E n \in Returning(current, created, recent) : e = <<"recovered", Node(n)>>
  BY DEF Reports
<1>4. Leaving(current) \cap Returning(current, created, recent) = {} BY DEF Leaving, Returning
<1>5. Leaving(current) \subseteq Nodes /\ Returning(current, created, recent) \subseteq Nodes
  BY DEF Leaving, Returning
<1> HIDE DEF events
<1>6. Transaction(events)
  <2>1. \A n \in Nodes : Node(n) \in Resources BY DEF Resources
  <2>2. \A e \in events : e[1] \in Types /\ e[2] \in Resources
    BY <1>3, <1>5, <2>1 DEF Types, Bad
  <2>3. \A e, f \in events : e[2] = f[2] => e = f BY <1>2, <1>3, <1>4
  <2> QED BY <2>2, <2>3 DEF Transaction
<1>7. Published(events) BY <1>1, <1>6 DEF Published
<1>8. \A n \in Nodes : Concerns(events, Node(n)) <=> n \in Leaving(current) \cup Returning(current, created, recent)
  <2> SUFFICES ASSUME NEW n \in Nodes
               PROVE  Concerns(events, Node(n)) <=> n \in Leaving(current) \cup Returning(current, created, recent)
    OBVIOUS
  <2>1. ASSUME NEW e \in events, e[2] = Node(n)
        PROVE  n \in Leaving(current) \cup Returning(current, created, recent)
    <3>1. CASE \E m \in Leaving(current) : e = <<"failed", Node(m)>> BY <1>2, <2>1, <3>1
    <3>2. CASE \E m \in Returning(current, created, recent) : e = <<"recovered", Node(m)>> BY <1>2, <2>1, <3>2
    <3> QED BY <1>3, <3>1, <3>2
  <2>2. ASSUME n \in Leaving(current) \cup Returning(current, created, recent)
        PROVE  \E e \in events : e[2] = Node(n)
    <3>1. PICK type : <<type, Node(n)>> \in events BY <1>3, <2>2
    <3> QED BY <3>1
  <2> QED BY <2>1, <2>2 DEF Concerns
<1>9. /\ \A e \in events : newest'[e[2]] = e[1]
      /\ \A r \in Resources : ~Concerns(events, r) => newest'[r] = newest[r]
  <2>1. CASE events = {} BY <1>1, <2>1 DEF outbox
  <2>2. CASE events # {} BY <1>1, <1>6, <2>2, PublishKeeps DEF IInv
  <2> QED BY <2>1, <2>2
<1>10. ASSUME NEW n \in Nodes
       PROVE  /\ n \in Leaving(current) => newest'[Node(n)] = "failed"
              /\ n \in Returning(current, created, recent) => newest'[Node(n)] = "recovered"
              /\ n \notin Leaving(current) \cup Returning(current, created, recent) =>
                    newest'[Node(n)] = newest[Node(n)]
  <2>1. Node(n) \in Resources BY DEF Resources
  <2> QED BY <1>3, <1>8, <1>9, <2>1
<1>11. \A n \in Nodes : n \in rejoined' <=>
           /\ n \in rejoined \/ (n \in Arriving(current) \cap created \cap recent \cap seenReady)
           /\ n \notin Leaving(current) \cup Returning(current, created, recent)
  BY <1>1, <1>8 DEF Concerns
<1>12. CollectorType'
  BY <1>1 DEF IInv, Shape, CollectorType
<1>13. CollectorInv'
  <2> SUFFICES ASSUME NEW n \in Nodes
               PROVE  /\ current[n] = "ready" => n \in seenReady'
                      /\ n \in seenReady' \/ current[n] # "absent" => n \in identities'
                      /\ n \in rejoined' => current[n] = "ready"
    BY <1>1 DEF CollectorInv
  <2>1. current[n] = "ready" => n \in seenReady' BY <1>1
  <2>2. n \in seenReady' \/ current[n] # "absent" => n \in identities'
    BY <1>1 DEF IInv, ReportInv, CollectorInv
  <2>3. n \in rejoined' => current[n] = "ready"
    BY <1>11 DEF IInv, ReportInv, CollectorInv, Arriving, Leaving
  <2> QED BY <2>1, <2>2, <2>3
<1>14. ASSUME NEW n \in Nodes PROVE Disconnected(n)' <=> newest'[Node(n)] \in Bad
  <2>1. snapshot[n] \in Shown /\ current[n] \in Shown BY DEF IInv, Shape, CollectorType
  <2>2. snapshot[n] = "ready" => n \in seenReady BY DEF IInv, ReportInv, CollectorInv
  <2>3. n \in seenReady \/ snapshot[n] # "absent" => n \in identities BY DEF IInv, ReportInv, CollectorInv
  <2>4. n \in rejoined => snapshot[n] = "ready" BY DEF IInv, ReportInv, CollectorInv
  <2>5. Disconnected(n) <=> newest[Node(n)] \in Bad BY DEF IInv, ReportInv
  <2>6. /\ Disconnected(n)' <=> (n \in seenReady' /\ current[n] # "ready") \/ n \in rejoined'
        /\ n \in seenReady' <=> n \in seenReady \/ current[n] = "ready"
    BY <1>1 DEF Disconnected
  <2>7. CASE n \in Leaving(current)
    BY <1>10, <2>2, <2>6, <2>7 DEF Leaving, Bad
  <2>8. CASE n \in Returning(current, created, recent)
    BY <1>10, <1>11, <2>6, <2>8 DEF Returning, Bad
  <2>9. CASE n \notin Leaving(current) \cup Returning(current, created, recent)
    <3>1. Disconnected(n)' <=> Disconnected(n)
      BY <1>11, <2>1, <2>3, <2>4, <2>6, <2>9 DEF Disconnected, Leaving, Returning, Arriving, Shown
    <3> QED BY <1>10, <2>5, <2>9, <3>1
  <2> QED BY <2>7, <2>8, <2>9
<1>15. \A r \in Repositories : newest'[Repository(r)] = newest[Repository(r)]
  <2> SUFFICES ASSUME NEW r \in Repositories PROVE newest'[Repository(r)] = newest[Repository(r)] OBVIOUS
  <2>1. Repository(r) \in Resources /\ \A n : Repository(r) # Node(n) BY DEF Resources, Repository, Node
  <2>2. ~Concerns(events, Repository(r)) BY <1>3, <2>1 DEF Concerns
  <2> QED BY <1>9, <2>1, <2>2
<1>16. ReportInv' BY <1>1, <1>13, <1>14, <1>15 DEF IInv, ReportInv
<1>17. RemovedInv' BY <1>1, <1>7, RemovedKept
<1> QED BY <1>1, <1>7, <1>12, <1>16, <1>17, PublisherStep DEF IInv, Shape, configuration

LEMMA RestartStep ==
    ASSUME IInv, NEW r \in Repositories, Restart(r)
    PROVE  IInv'
<1>1. /\ accepted' = {} /\ ready' = FALSE /\ busy' = {} /\ repository' = r
      /\ joinCandidates' = {} /\ UNCHANGED <<episode, pullFailure, snapshot, identities, seenReady, rejoined>>
  BY DEF Restart
<1>2. PICK cut \in SUBSET busy :
         UNCHANGED <<outbox, alerts>> \/ Publish({<<"failed", Stack(s)>> : s \in cut})
  BY DEF Restart
<1> DEFINE events == {<<"failed", Stack(s)>> : s \in cut}
<1>3. Transaction(events) /\ \A e \in events : e[2][1] = "stack"
  BY DEF Transaction, Types, Bad, Resources, Stack, IInv, Shape
<1>4. Published(events) BY <1>2, <1>3 DEF Published
<1> HIDE DEF events
<1>5. ReportInv' BY <1>1, <1>3, <1>4, ReportKept
<1>6. RemovedInv' BY <1>1 DEF RemovedInv
<1> QED BY <1>1, <1>4, <1>5, <1>6, PublisherStep DEF IInv, Shape, CollectorType

-----------------------------------------------------------------------------
(* The subscriber.                                                         *)

\* What handling an event does to the incidents.
LEMMA HandleFacts ==
    ASSUME Shape, NEW e \in pending, Handle(e)
    PROVE  /\ open' \subseteq Resources \ {Configuration} /\ streak' \in [Resources -> 0..Threshold]
           /\ \A r \in Resources : r # e.of => /\ r \in open' => r \in open
                                               /\ r[1] = "node" => (r \in open => r \in open')
           /\ e.of # Configuration /\ e.type \notin Bad => e.of \notin open'
           /\ e.of # Configuration /\ e.type \in Bad /\ e.of[1] = "node" => e.of \in open'
           /\ ready => \A s \in Stacks \ accepted :
                         Stack(s) \in open' => Stack(s) \in open /\ e.of # Configuration
<1>1. e.of \in Resources /\ e.type \in Types BY DEF Shape
<1>2. open \subseteq Resources \ {Configuration} /\ streak \in [Resources -> 0..Threshold] BY DEF Shape
<1>3. Threshold \in Nat \ {0} BY AlertConstants
<1>4. \A s : Stack(s)[1] = "stack" /\ Stack(s)[2] = s /\ Service(s)[1] = "service" BY DEF Stack, Service
<1>5. CASE e.of = Configuration
  <2> DEFINE gone == Stacks \ accepted
  <2>1. /\ ready
        /\ open' = open \ ({Stack(s) : s \in gone} \cup {Service(s) : s \in gone})
        /\ streak' = [r \in Resources |-> IF r \in {Stack(s) : s \in gone} THEN 0 ELSE streak[r]]
    BY <1>5 DEF Handle, handleConfigurationChanged
  <2>2. streak' \in [Resources -> 0..Threshold] BY <1>2, <1>3, <2>1
  <2>3. \A r \in Resources : r[1] = "node" /\ r \in open => r \in open' BY <1>4, <2>1
  <2> QED BY <1>2, <1>5, <2>1, <2>2, <2>3
<1>6. CASE e.of # Configuration /\ e.type \notin Bad
  <2>1. streak' = [streak EXCEPT ![e.of] = 0] /\ open' = open \ {e.of}
    BY <1>6 DEF Handle, handleRecovered
  <2>2. streak' \in [Resources -> 0..Threshold] BY <1>1, <1>2, <1>3, <2>1
  <2> QED BY <1>2, <1>6, <2>1, <2>2
<1>7. CASE e.of # Configuration /\ e.type \in Bad /\ e.of[1] \in {"stack", "repository"}
  <2> DEFINE failures == streak[e.of] + 1
             removed == e.of[1] = "stack" /\ stackRemoved(e.of[2])
  <2>1. /\ streak' = [streak EXCEPT ![e.of] = IF removed THEN 0
                                              ELSE IF streak[e.of] < Threshold THEN failures ELSE streak[e.of]]
        /\ open' = IF ~removed /\ (e.type = "failed" \/ failures >= Threshold)
                      THEN open \cup {e.of} ELSE open
    BY <1>7 DEF Handle, handleFailed
  <2>2. streak[e.of] \in 0..Threshold BY <1>1, <1>2
  <2>3. (streak[e.of] < Threshold => failures \in 0..Threshold) /\ 0 \in 0..Threshold BY <1>3, <2>2
  <2>4. streak' \in [Resources -> 0..Threshold] BY <1>1, <1>2, <2>1, <2>2, <2>3
  <2>5. open' = open \/ open' = open \cup {e.of} BY <2>1
  <2>6. ASSUME ready, NEW s \in Stacks \ accepted, Stack(s) \in open' PROVE Stack(s) \in open
    <3>1. CASE e.of # Stack(s) BY <2>5, <2>6, <3>1
    <3>2. CASE e.of = Stack(s)
      <4>1. removed BY <1>4, <2>6, <3>2 DEF stackRemoved
      <4> QED BY <2>1, <2>6, <4>1
    <3> QED BY <3>1, <3>2
  <2> HIDE DEF removed, failures
  <2>7. open' \subseteq Resources \ {Configuration} BY <1>1, <1>2, <1>7, <2>5
  <2>8. e.of[1] # "node" BY <1>7
  <2> QED BY <1>7, <2>4, <2>5, <2>6, <2>7, <2>8
<1>8. CASE e.of # Configuration /\ e.type \in Bad /\ e.of[1] \notin {"stack", "repository"}
  <2>1. open' = open \cup {e.of} /\ streak' = streak BY <1>8 DEF Handle, handleServiceDrift
  <2>2. \A s : Stack(s) # e.of BY <1>4, <1>8
  <2> QED BY <1>1, <1>2, <1>8, <2>1, <2>2
<1> QED BY <1>5, <1>6, <1>7, <1>8

LEMMA DeliverStep ==
    ASSUME IInv, NEW e \in pending, Deliver(e)
    PROVE  IInv'
<1>1. /\ ConsumeLatest(e) /\ pending' = pending \ {e} /\ published' = published /\ newest' = newest
      /\ UNCHANGED sources
  BY DEF Deliver
<1>2. /\ accepted' = accepted /\ ready' = ready /\ unsignalled' = unsignalled
      /\ busy' = busy /\ episode' = episode
      /\ repository' = repository /\ pullFailure' = pullFailure /\ UNCHANGED collector
  BY <1>1 DEF sources, configuration
<1>3. e.of \in Resources /\ e.seq \in 1..published /\ published \in Nat BY DEF IInv, Shape
<1>4. OneEventEach' BY <1>1 DEF IInv, OneEventEach
<1>5. ReportInv' BY <1>1, <1>2 DEF IInv, ReportInv, CollectorInv, Disconnected, collector
<1>6. versions \in [Resources -> 0..published] BY DEF IInv, Shape
<1>7. CASE e.seq <= versions[e.of]
  <2>1. versions' = versions /\ open' = open /\ streak' = streak
    <3>1. ~(e.seq > versions[e.of]) BY <1>3, <1>6, <1>7
    <3> QED BY <1>1, <3>1 DEF ConsumeLatest, alerts
  <2>2. Shape' BY <1>1, <1>2, <2>1 DEF IInv, Shape, CollectorType, collector
  <2>3. ASSUME NEW r \in Resources, Outstanding(r) PROVE Outstanding(r)'
    <3>1. PICK x \in pending : /\ x.of = r /\ x.type = newest[r] /\ x.seq > versions[r]
                               /\ \A f \in pending : f.of = r => f.seq <= x.seq
      BY <2>3 DEF Outstanding
    <3>2. x # e BY <1>3, <1>6, <1>7, <3>1
    <3> QED BY <1>1, <2>1, <3>1, <3>2 DEF Outstanding
  <2>4. StreamInv'
    <3>1. \A r \in Resources : Settled(r) /\ Agrees(r) => Settled(r)' /\ Agrees(r)'
      BY <1>1, <2>1 DEF Settled, Agrees
    <3> QED BY <2>3, <3>1 DEF IInv, StreamInv
  <2>5. RemovedInv'
    <3>1. Configuration \in Resources BY DEF Resources
    <3> QED BY <1>2, <2>1, <2>3, <3>1 DEF IInv, RemovedInv
  <2> QED BY <1>4, <1>5, <2>2, <2>4, <2>5 DEF IInv
<1>8. CASE e.seq > versions[e.of]
  <2>1. versions' = [versions EXCEPT ![e.of] = e.seq] /\ Handle(e) BY <1>1, <1>8 DEF ConsumeLatest
  <2>2. /\ open' \subseteq Resources \ {Configuration} /\ streak' \in [Resources -> 0..Threshold]
        /\ \A r \in Resources : r # e.of => /\ r \in open' => r \in open
                                            /\ r[1] = "node" => (r \in open => r \in open')
        /\ e.of # Configuration /\ e.type \notin Bad => e.of \notin open'
        /\ e.of # Configuration /\ e.type \in Bad /\ e.of[1] = "node" => e.of \in open'
        /\ ready => \A s \in Stacks \ accepted :
                      Stack(s) \in open' => Stack(s) \in open /\ e.of # Configuration
    BY <2>1, HandleFacts DEF IInv
  <2>3. versions' \in [Resources -> 0..published] BY <1>3, <1>6, <2>1
  <2>4. Shape' BY <1>1, <1>2, <2>2, <2>3 DEF IInv, Shape, CollectorType, collector
  <2>5. \A r \in Resources : r # e.of => versions'[r] = versions[r] BY <1>6, <2>1
  <2>6. versions'[e.of] = e.seq BY <1>3, <1>6, <2>1
  <2>7. ASSUME NEW r \in Resources, r # e.of
        PROVE  /\ Outstanding(r) => Outstanding(r)'
               /\ Settled(r) => Settled(r)'
               /\ Agrees(r) => Agrees(r)'
    <3>1. Outstanding(r) => Outstanding(r)' BY <1>1, <2>5, <2>7 DEF Outstanding
    <3>2. Settled(r) => Settled(r)' BY <1>1, <2>5, <2>7 DEF Settled
    <3>3. Agrees(r) => Agrees(r)' BY <1>1, <2>2, <2>7 DEF Agrees
    <3> QED BY <3>1, <3>2, <3>3
  <2>8. Outstanding(e.of)' \/ (Settled(e.of)' /\ Agrees(e.of)')
    <3> PICK r : r = e.of OBVIOUS
    <3>1. Outstanding(r) BY <1>3, <1>6, <1>8 DEF IInv, StreamInv, Settled, Shape
    <3>2. PICK x \in pending : /\ x.of = r /\ x.type = newest[r] /\ x.seq > versions[r]
                               /\ \A f \in pending : f.of = r => f.seq <= x.seq
      BY <3>1 DEF Outstanding
    <3>3. CASE x = e
      <4>1. Settled(r)' BY <1>1, <2>6, <3>2, <3>3 DEF Settled
      <4>2. Configuration[1] # "node" BY DEF Configuration
      <4>3. Agrees(r)' BY <1>1, <2>2, <3>2, <3>3, <4>2 DEF Agrees
      <4>4. Settled(e.of)' /\ Agrees(e.of)' BY <4>1, <4>3
      <4> QED BY <4>4
    <3>4. CASE x # e
      <4>1. x.seq \in 1..published /\ e.seq <= x.seq /\ e.seq # x.seq
        BY <3>2, <3>4 DEF IInv, OneEventEach, Shape
      <4>2. x.seq > e.seq BY <1>3, <4>1
      <4>3. Outstanding(r)' BY <1>1, <2>6, <3>2, <3>4, <4>2 DEF Outstanding
      <4> QED BY <4>3
    <3> QED BY <3>3, <3>4
  <2>9. StreamInv' BY <2>7, <2>8 DEF IInv, StreamInv
  <2>10. RemovedInv'
    <3> SUFFICES ASSUME ready', ~unsignalled', NEW s \in Stacks \ accepted', Stack(s) \in open'
                 PROVE  Outstanding(Configuration)'
      BY DEF RemovedInv
    <3>1. Stack(s) \in open /\ e.of # Configuration /\ Configuration \in Resources
      BY <1>2, <2>2 DEF Resources
    <3>2. Outstanding(Configuration) BY <1>2, <3>1 DEF IInv, RemovedInv
    <3> QED BY <2>7, <3>1, <3>2
  <2> QED BY <1>4, <1>5, <2>4, <2>9, <2>10 DEF IInv
<1>9. versions[e.of] \in Nat /\ e.seq \in Nat BY <1>3, <1>6
<1> QED BY <1>7, <1>8, <1>9

-----------------------------------------------------------------------------
(* The theorems.                                                           *)

LEMMA InitInv == Init => IInv
<1> SUFFICES ASSUME Init PROVE IInv OBVIOUS
<1>1. pending = {} /\ open = {} /\ published = 0 /\ pullFailure = {} BY DEF Init
<1>2. \A r \in Resources : newest[r] = "none" /\ "none" \notin Bad BY DEF Init, Bad
<1>3. Shape BY AlertConstants DEF Init, Shape, Types, CollectorType, Shown
<1>4. OneEventEach BY <1>1 DEF OneEventEach
<1>5. StreamInv BY <1>1, <1>2 DEF StreamInv, Settled, Agrees
<1>6. ReportInv
  <2>1. \A n \in Nodes : Node(n) \in Resources BY DEF Resources
  <2>2. \A r \in Repositories : Repository(r) \in Resources BY DEF Resources
  <2>3. CollectorInv /\ \A n \in Nodes : ~Disconnected(n) BY DEF Init, CollectorInv, Disconnected
  <2> QED BY <1>2, <2>1, <2>2, <2>3 DEF ReportInv
<1>7. RemovedInv BY <1>1 DEF RemovedInv
<1> QED BY <1>3, <1>4, <1>5, <1>6, <1>7 DEF IInv

LEMMA NextInv == IInv /\ [Next]_vars => IInv'
<1> SUFFICES ASSUME IInv, [Next]_vars PROVE IInv' OBVIOUS
<1>1. ASSUME NEW stacks \in SUBSET Stacks, Reload(stacks) PROVE IInv' BY <1>1, ReloadStep
<1>2. ASSUME NEW s \in Stacks, Start(s) \/ Deployed(s) \/ Drifted(s) PROVE IInv'
  BY <1>2, StartStep, DeployedStep, DriftedStep
<1>3. ASSUME NEW outcome \in Bad \cup {"ok"}, Observe(outcome) PROVE IInv' BY <1>3, ObserveStep
<1>4. ASSUME NEW current \in [Nodes -> Shown], NEW created \in {{}} \cup {{n} : n \in Nodes},
             NEW recent \in SUBSET joinCandidates, Collect(current, created, recent)
      PROVE  IInv'
  <2>1. created \in SUBSET Nodes OBVIOUS
  <2> QED BY <1>4, <2>1, CollectStep
<1>5. ASSUME NEW r \in Repositories, Restart(r) PROVE IInv' BY <1>5, RestartStep
<1>6. ASSUME NEW e \in pending, Deliver(e) PROVE IInv' BY <1>6, DeliverStep
<1>7. CASE UNCHANGED vars
  <2> PICK events : events = {} OBVIOUS
  <2>1. Published(events) BY <1>7 DEF Published, vars
  <2> QED BY <1>7, <2>1, ReconcilerStep DEF vars, sources, IInv, Shape
<1> QED BY <1>1, <1>2, <1>3, <1>4, <1>5, <1>6, <1>7 DEF Next

LEMMA SpecInv == Spec => []IInv
BY InitInv, NextInv, PTL DEF Spec

\* What is caught up with is settled.
LEMMA CaughtAgrees ==
    ASSUME IInv, NEW r \in Resources, Caught(r)
    PROVE  Agrees(r)
BY DEF IInv, StreamInv, Outstanding, Caught

\* An incident that is open once everything about its resource was handled
\* is about the last thing reported, whatever overtook what (ConsumeLatest).
THEOREM IncidentsFollowReports == Spec => []AlertInvariant
<1>1. IInv => AlertInvariant
  <2> SUFFICES ASSUME IInv PROVE AlertInvariant OBVIOUS
  <2>1. AlertTypeOK BY DEF IInv, Shape, AlertTypeOK, CollectorType
  <2>2. OpenMeansBad BY CaughtAgrees DEF OpenMeansBad, Agrees, IInv, Shape
  <2> QED BY <2>1, <2>2 DEF AlertInvariant
<1> QED BY <1>1, SpecInv, PTL

\* A node has an incident exactly while it was connected once and the last listing
\* did not show it as ready, but for a return that was taken for a join
\* (connectionEvents, reappearedNodes, creationFact).
THEOREM NodesFollowCollector == Spec => []DisconnectedIsOpen
<1>1. IInv => DisconnectedIsOpen
  <2> SUFFICES ASSUME IInv, NEW n \in Nodes, Caught(Node(n))
               PROVE  Node(n) \in open <=> Disconnected(n)
    BY DEF DisconnectedIsOpen
  <2>1. Node(n) \in Resources /\ Node(n)[1] = "node" BY DEF Resources, Node
  <2>2. Agrees(Node(n)) BY <2>1, CaughtAgrees
  <2> QED BY <2>1, <2>2 DEF Agrees, IInv, ReportInv
<1> QED BY <1>1, SpecInv, PTL

\* Only the repository whose latest pull failed keeps an incident, across
\* restarts with another repository configured (PullMonitor.Observe).
THEOREM PullIncidentsCurrent == Spec => []GitIncidentIsCurrent
<1>1. IInv => GitIncidentIsCurrent
  <2> SUFFICES ASSUME IInv, NEW r \in Repositories, Caught(Repository(r)), Repository(r) \in open
               PROVE  r \in pullFailure
    BY DEF GitIncidentIsCurrent
  <2>1. Repository(r) \in Resources BY DEF Resources
  <2>2. Agrees(Repository(r)) BY <2>1, CaughtAgrees
  <2> QED BY <2>2 DEF Agrees, IInv, ReportInv
<1> QED BY <1>1, SpecInv, PTL

\* Once all is handled, no stack that left the configuration keeps a
\* deployment incident, unless the signal of the last change could not be published
\* (handleConfigurationChanged, stackRemoved, ConfigStore.Reload).
THEOREM RemovedStacksClear == Spec => []NoIncidentOfRemovedStack
<1>1. IInv => NoIncidentOfRemovedStack BY DEF IInv, RemovedInv, Outstanding, NoIncidentOfRemovedStack
<1> QED BY <1>1, SpecInv, PTL

===============================================================================
