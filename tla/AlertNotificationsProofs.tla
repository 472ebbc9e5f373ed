----------------------- MODULE AlertNotificationsProofs -----------------------
(***************************************************************************)
(* The notifications of an alert, proved for any recipients and workers    *)
(* and any number of restarts, failures, replays and expired leases:       *)
(* whoever heard of the opening hears of the resolution, nobody else does, *)
(* in order, and what was recorded is not decided upon again.              *)
(***************************************************************************)
EXTENDS AlertNotifications, TLAPS, SequenceTheorems

Unfinished == {"pending", "processing", "failed"}

Row == [status : Unfinished \cup {"absent", "delivered"}, owner : Workers \cup {None}, expired : BOOLEAN]

\* Places of a handler whose lease has not ended.
Active == {"handle", "notify", "mark", "acknowledge"}

Shape ==
    /\ configured \subseteq registered /\ registered \subseteq Recipients
    /\ alert \in {"none", "open", "resolved"}
    /\ route \in [Transitions -> SUBSET Recipients]
    /\ rows \in [Deliveries -> Row]
    /\ links \in [Recipients -> {NoLink} \cup SUBSET Transitions]
    /\ recorded \in [Recipients -> SUBSET Transitions]
    /\ chats \in [Recipients -> Seq(Transitions)]
    /\ workers \in [Workers -> [pc : Active \cup {"fail"}, of : Deliveries] \cup {Idle}]

\* Nothing happens before the alert opens, nor to its resolution before it resolves.
BeforeInv ==
    /\ alert = "none" =>
         /\ \A d \in Deliveries : rows[d].status = "absent"
         /\ \A r \in Recipients : links[r] = NoLink /\ ~Told(r, "opened")
    /\ alert # "resolved" =>
         \A r \in Recipients : rows[<<"resolved", r>>].status = "absent" /\ ~Told(r, "resolved")

\* The alert is over and the outbox has forgotten it.
Finished == alert = "resolved" /\ \A d \in Deliveries : rows[d].status = "absent"

\* r was not told of the opening and will not be.
NeverOpened(r) ==
    /\ ~Told(r, "opened")
    /\ r \notin route["opened"] \/ rows[<<"opened", r>>].status \notin Unfinished

\* What a worker is about to do is justified.
WorkerInv(w) ==
    LET d == workers[w].of IN
    /\ workers[w].pc \in Active => Owns(w, d) /\ ~rows[d].expired
    /\ workers[w].pc \in {"notify", "mark"} =>
         links[d[2]] # NoLink /\ (d[1] = "opened" => d[2] \in route["opened"])
    /\ workers[w].pc = "mark" => Told(d[2], d[1])
    /\ workers[w].pc = "acknowledge" /\ d[1] = "resolved" =>
         Told(d[2], "resolved") \/ NeverOpened(d[2])

\* An unfinished delivery has a subscription; a failed one is parked.
RowInv ==
    \A d \in Deliveries :
        /\ rows[d].status \in Unfinished => d[2] \in registered
        /\ rows[d].status = "failed" => d[2] \in parked

\* A link is what was recorded, has a subscription, and is missing only before
\* the first message or after the last.
LinkInv ==
    \A r \in Recipients :
        /\ links[r] # NoLink => links[r] = recorded[r] /\ r \in registered
        /\ links[r] = NoLink => Finished \/ (recorded[r] = {} /\ \A t \in Transitions : ~Told(r, t))
        /\ "resolved" \in recorded[r] => Told(r, "resolved")

\* Nobody was told of the opening and nobody will be.
NoOpening == ~Kept("opened") /\ \A q \in Recipients : ~Told(q, "opened")

TheirsInv ==
    \A r \in Recipients :
        links[r] # NoLink \/ Told(r, "resolved") => r \in route["opened"] \/ (alert # "none" /\ NoOpening)

\* The opening is over once the resolution is delivered.
OrderInv ==
    /\ InOrder
    /\ \A r \in Recipients \ parked :
         Told(r, "resolved") \/ rows[<<"resolved", r>>].status = "processing" =>
             rows[<<"opened", r>>].status \notin Unfinished

ResolutionInv ==
    alert = "resolved" => \A r \in Recipients : Told(r, "resolved") \/ Due(r) \/ NeverOpened(r)

IInv ==
    /\ Shape /\ BeforeInv /\ (\A w \in Workers : WorkerInv(w)) /\ RowInv /\ LinkInv
    /\ TheirsInv /\ OrderInv /\ ResolutionInv

-----------------------------------------------------------------------------
(* What the steps have in common.                                          *)

LEMMA DeliveryFacts ==
    /\ \A t \in Transitions, r \in Recipients : <<t, r>> \in Deliveries
    /\ \A d \in Deliveries : d[1] \in Transitions /\ d[2] \in Recipients /\ d = <<d[1], d[2]>>
    /\ \A d \in Deliveries : d[1] = "opened" \/ d[1] = "resolved"
BY DEF Deliveries, Transitions

\* A worker that is not idle has a delivery.
LEMMA WorkerFacts ==
    ASSUME Shape, NEW w \in Workers, workers[w].pc # "idle"
    PROVE  /\ workers[w] \in [pc : Active \cup {"fail"}, of : Deliveries]
           /\ workers[w].of \in Deliveries /\ workers[w].of[2] \in Recipients
<1>1. Idle.pc = "idle" BY DEF Idle
<1>2. workers[w] \in [pc : Active \cup {"fail"}, of : Deliveries] BY <1>1 DEF Shape
<1> QED BY <1>2, DeliveryFacts

\* Row by row: how deliveries may change once they are published.
RowsKeep ==
    \A d \in Deliveries :
        /\ rows'[d].status \in Unfinished => rows[d].status \in Unfinished
        /\ rows[d].status = "absent" => rows'[d].status = "absent"

\* The recipients to whom messages were sent in this step, apart from before.
LEMMA AcceptFacts ==
    ASSUME Shape, NEW d \in Deliveries, Accept(d)
    PROVE  /\ chats' \in [Recipients -> Seq(Transitions)]
           /\ \A r \in Recipients, t \in Transitions : Told(r, t)' <=> Told(r, t) \/ d = <<t, r>>
           /\ \A r \in Recipients : r # d[2] => chats'[r] = chats[r]
           /\ chats'[d[2]] = Append(chats[d[2]], d[1])
<1> PICK q : q = d[2] OBVIOUS
<1> PICK m : m = d[1] OBVIOUS
<1> PICK c : c = chats[q] OBVIOUS
<1> PICK n : n = Len(c) OBVIOUS
<1>1. q \in Recipients /\ m \in Transitions /\ d = <<m, q>> BY DeliveryFacts
<1>2. c \in Seq(Transitions) BY <1>1 DEF Shape
<1>3. chats' = [chats EXCEPT ![q] = Append(c, m)] BY DEF Accept
<1>4. Append(c, m) \in Seq(Transitions) BY <1>1, <1>2
<1>5. chats' \in [Recipients -> Seq(Transitions)] BY <1>3, <1>4 DEF Shape
<1>6. chats'[q] = Append(c, m) /\ \A r \in Recipients : r # q => chats'[r] = chats[r]
  BY <1>1, <1>3 DEF Shape
<1>7. /\ n \in Nat /\ DOMAIN c = 1..n /\ DOMAIN Append(c, m) = 1..(n + 1)
      /\ Append(c, m)[n + 1] = m /\ \A i \in 1..n : Append(c, m)[i] = c[i]
  BY <1>1, <1>2
<1>8. \A t : (\E i \in DOMAIN chats'[q] : chats'[q][i] = t) <=> (\E i \in DOMAIN c : c[i] = t) \/ t = m
  BY <1>6, <1>7
<1>9. ASSUME NEW r \in Recipients, NEW t \in Transitions PROVE Told(r, t)' <=> Told(r, t) \/ d = <<t, r>>
  <2>1. CASE r = q BY <1>1, <1>8, <2>1 DEF Told
  <2>2. CASE r # q BY <1>1, <1>6, <2>2 DEF Told
  <2> QED BY <2>1, <2>2
<1> QED BY <1>5, <1>6, <1>9

\* What was said stays said.
ToldKept == \A r \in Recipients, t \in Transitions : Told(r, t) => Told(r, t)'

\* A worker that does nothing keeps what it relies on.
LEMMA OthersKeep ==
    ASSUME Shape, NEW v \in Workers, WorkerInv(v), workers'[v] = workers[v],
           workers[v].pc \in Active => rows'[workers[v].of] = rows[workers[v].of],
           ToldKept, \A r \in Recipients : links[r] # NoLink => links'[r] # NoLink,
           route'["opened"] = route["opened"], \A r \in Recipients : NeverOpened(r) => NeverOpened(r)'
    PROVE  WorkerInv(v)'
<1> PICK d : d = workers[v].of OBVIOUS
<1> PICK pc : pc = workers[v].pc OBVIOUS
<1>1. workers'[v].of = d /\ workers'[v].pc = pc OBVIOUS
<1>2. CASE pc \notin Active BY <1>1, <1>2 DEF WorkerInv, Active
<1>3. CASE pc \in Active
  <2>1. d \in Deliveries /\ d[2] \in Recipients /\ d[1] \in Transitions
    BY <1>3, WorkerFacts, DeliveryFacts DEF Active
  <2>2. Owns(v, d)' /\ ~rows'[d].expired BY <1>1, <1>3 DEF WorkerInv, Owns
  <2>3. pc \in {"notify", "mark"} => links'[d[2]] # NoLink /\ (d[1] = "opened" => d[2] \in route'["opened"])
    BY <2>1 DEF WorkerInv
  <2>4. pc = "mark" => Told(d[2], d[1])' BY <2>1 DEF WorkerInv, ToldKept
  <2>5. pc = "acknowledge" /\ d[1] = "resolved" => Told(d[2], "resolved")' \/ NeverOpened(d[2])'
    BY <2>1 DEF WorkerInv, ToldKept
  <2> QED BY <1>1, <2>2, <2>3, <2>4, <2>5 DEF WorkerInv, Owns, Told, NeverOpened
<1> QED BY <1>2, <1>3

\* A worker that is idle, or has failed, relies on nothing.
LEMMA IdleKeeps ==
    ASSUME NEW v, workers'[v].pc \notin Active
    PROVE  WorkerInv(v)'
BY DEF WorkerInv, Active

\* Facts of the past and of the route that rows which only finish keep.
LEMMA RowsFacts ==
    ASSUME Shape, RowsKeep, UNCHANGED <<alert, chats>>, route'["opened"] = route["opened"]
    PROVE  /\ \A r \in Recipients, t \in Transitions : Told(r, t)' <=> Told(r, t)
           /\ \A r \in Recipients : NeverOpened(r) => NeverOpened(r)'
           /\ Finished => Finished'
           /\ NoOpening => NoOpening'
           /\ \A t \in Transitions : ~Kept(t) => ~Kept(t)'
<1>1. \A r \in Recipients, t \in Transitions : Told(r, t)' <=> Told(r, t) BY DEF Told
<1>2. "opened" \in Transitions BY DEF Transitions
<1>3. \A r \in Recipients : NeverOpened(r) => NeverOpened(r)'
  BY <1>1, <1>2, DeliveryFacts DEF NeverOpened, RowsKeep
<1>4. Finished => Finished' BY DEF Finished, RowsKeep
<1>5. \A t \in Transitions : ~Kept(t) => ~Kept(t)' BY DeliveryFacts DEF Kept, RowsKeep
<1>6. NoOpening => NoOpening' BY <1>1, <1>2, <1>5 DEF NoOpening
<1> QED BY <1>1, <1>3, <1>4, <1>5, <1>6

-----------------------------------------------------------------------------
(* Steps of the outbox.                                                    *)

\* Deliveries are claimed, retried, parked, replayed and finished.
LEMMA OutboxStep ==
    ASSUME IInv, UNCHANGED <<source, links, chats, recorded>>, rows' \in [Deliveries -> Row], RowsKeep,
           parked \subseteq parked', waived \subseteq waived',
           \A d \in Deliveries : rows'[d].status = "failed" => d[2] \in parked',
           \A r \in Recipients \ parked' : rows'[<<"resolved", r>>].status = "processing" =>
               \/ rows[<<"resolved", r>>].status = "processing"
               \/ rows[<<"opened", r>>].status \notin Unfinished,
           \A r \in Recipients : rows[<<"resolved", r>>].status \in Unfinished =>
               \/ rows'[<<"resolved", r>>].status \in Unfinished \/ <<"resolved", r>> \in waived'
               \/ Told(r, "resolved") \/ NeverOpened(r),
           workers' \in [Workers -> [pc : Active \cup {"fail"}, of : Deliveries] \cup {Idle}],
           \A w \in Workers : WorkerInv(w)'
    PROVE  IInv'
<1>1. /\ configured' = configured /\ registered' = registered /\ alert' = alert /\ route' = route
      /\ links' = links /\ chats' = chats /\ recorded' = recorded
  BY DEF source
<1>2. /\ \A r \in Recipients, t \in Transitions : Told(r, t)' <=> Told(r, t)
      /\ \A r \in Recipients : NeverOpened(r) => NeverOpened(r)'
      /\ Finished => Finished'
      /\ NoOpening => NoOpening'
  BY <1>1, RowsFacts DEF IInv
<1>3. "opened" \in Transitions /\ "resolved" \in Transitions BY DEF Transitions
<1>4. \A r \in Recipients : /\ <<"opened", r>> \in Deliveries /\ <<"resolved", r>> \in Deliveries
                            /\ <<"resolved", r>>[2] = r
  BY <1>3, DeliveryFacts
<1>5. Shape' BY <1>1 DEF IInv, Shape
<1>6. BeforeInv' BY <1>1, <1>2, <1>3, <1>4 DEF IInv, BeforeInv, RowsKeep
<1>7. RowInv' BY <1>1 DEF IInv, RowInv, RowsKeep
<1>8. LinkInv' BY <1>1, <1>2, <1>3 DEF IInv, LinkInv
<1>9. TheirsInv' BY <1>1, <1>2, <1>3 DEF IInv, TheirsInv
<1>10. OrderInv'
  <2>1. InOrder' BY <1>1 DEF IInv, OrderInv, InOrder
  <2>2. ASSUME NEW r \in Recipients \ parked',
               Told(r, "resolved")' \/ rows'[<<"resolved", r>>].status = "processing"
        PROVE  rows'[<<"opened", r>>].status \notin Unfinished
    <3>1. r \notin parked /\ (Told(r, "resolved")' => Told(r, "resolved")) BY <1>2, <1>3
    <3>2. rows[<<"opened", r>>].status \notin Unfinished BY <2>2, <3>1 DEF IInv, OrderInv
    <3> QED BY <1>4, <3>2 DEF RowsKeep
  <2> QED BY <2>1, <2>2 DEF OrderInv
<1>11. ResolutionInv'
  <2> SUFFICES ASSUME alert' = "resolved", NEW r \in Recipients
               PROVE  Told(r, "resolved")' \/ Due(r)' \/ NeverOpened(r)'
    BY DEF ResolutionInv
  <2>1. Told(r, "resolved") \/ Due(r) \/ NeverOpened(r) BY <1>1 DEF IInv, ResolutionInv
  <2>2. Due(r) => Due(r)' \/ Told(r, "resolved") \/ NeverOpened(r) BY DEF Due, Unfinished
  <2> QED BY <1>2, <1>3, <2>1, <2>2
<1> QED BY <1>5, <1>6, <1>7, <1>8, <1>9, <1>10, <1>11 DEF IInv

\* The other workers, when a delivery that none of them works on changes.
LEMMA OutboxOthers ==
    ASSUME IInv, UNCHANGED <<source, links, chats>>, RowsKeep, NEW v \in Workers, workers'[v] = workers[v],
           workers[v].pc \in Active => rows'[workers[v].of] = rows[workers[v].of]
    PROVE  WorkerInv(v)'
<1>1. alert' = alert /\ chats' = chats /\ route' = route /\ links' = links BY DEF source
<1>2. /\ \A r \in Recipients, t \in Transitions : Told(r, t)' <=> Told(r, t)
      /\ \A r \in Recipients : NeverOpened(r) => NeverOpened(r)'
  BY <1>1, RowsFacts DEF IInv
<1> QED BY <1>1, <1>2, OthersKeep DEF IInv, ToldKept

LEMMA ClaimStep ==
    ASSUME IInv, NEW w \in Workers, NEW d \in Deliveries, Claim(w, d)
    PROVE  IInv'
<1> PICK row : row = [status |-> "processing", owner |-> w, expired |-> FALSE] OBVIOUS
<1> PICK act : act = [pc |-> "handle", of |-> d] OBVIOUS
<1>1. /\ workers[w] = Idle
      /\ rows[d].status = "pending" \/ (rows[d].status = "processing" /\ rows[d].expired)
      /\ d[1] = "resolved" => rows[<<"opened", d[2]>>].status \notin {"pending", "processing"}
      /\ rows' = [rows EXCEPT ![d] = row] /\ workers' = [workers EXCEPT ![w] = act]
      /\ UNCHANGED <<source, links, chats, bounds, history>>
  BY DEF Claim
<1>2. row \in Row /\ row.status = "processing" /\ row.owner = w /\ row.expired = FALSE BY DEF Row, Unfinished
<1>3. act.pc = "handle" /\ act.of = d /\ act \in [pc : Active \cup {"fail"}, of : Deliveries] BY DEF Active
<1>4. /\ rows' \in [Deliveries -> Row] /\ rows'[d] = row
      /\ \A x \in Deliveries : x # d => rows'[x] = rows[x]
  BY <1>1, <1>2 DEF IInv, Shape
<1>5. RowsKeep BY <1>1, <1>2, <1>4 DEF RowsKeep, Unfinished
<1>6. workers' \in [Workers -> [pc : Active \cup {"fail"}, of : Deliveries] \cup {Idle}]
  BY <1>1, <1>3 DEF IInv, Shape
<1>7. ASSUME NEW v \in Workers PROVE WorkerInv(v)'
  <2>1. CASE v = w
    <3>1. workers'[w] = act BY <1>1 DEF IInv, Shape
    <3>2. WorkerInv(w)' BY <1>2, <1>3, <1>4, <3>1 DEF WorkerInv, Owns
    <3> QED BY <2>1, <3>2
  <2>2. CASE v # w
    <3>1. workers'[v] = workers[v] BY <1>1, <2>2 DEF IInv, Shape
    <3>2. ASSUME workers[v].pc \in Active PROVE rows'[workers[v].of] = rows[workers[v].of]
      <4>1. workers[v].of \in Deliveries BY <3>2, WorkerFacts DEF IInv, Active
      <4>2. Owns(v, workers[v].of) /\ ~rows[workers[v].of].expired BY <3>2 DEF IInv, WorkerInv
      <4>3. workers[v].of # d BY <1>1, <4>2 DEF Owns
      <4> QED BY <1>4, <4>1, <4>3
    <3> QED BY <1>1, <1>5, <3>1, <3>2, OutboxOthers
  <2> QED BY <2>1, <2>2
<1>8. \A x \in Deliveries : rows'[x].status = "failed" => x[2] \in parked
  BY <1>2, <1>4 DEF IInv, RowInv
<1>9. ASSUME NEW r \in Recipients \ parked, rows'[<<"resolved", r>>].status = "processing",
             rows[<<"resolved", r>>].status # "processing"
      PROVE  rows[<<"opened", r>>].status \notin Unfinished
  <2>1. <<"resolved", r>> \in Deliveries /\ <<"opened", r>> \in Deliveries
    BY DeliveryFacts DEF Transitions
  <2>2. d = <<"resolved", r>> BY <1>4, <1>9, <2>1
  <2>3. rows[<<"opened", r>>].status \notin {"pending", "processing"} BY <1>1, <2>2
  <2>4. <<"opened", r>>[2] = r OBVIOUS
  <2>5. rows[<<"opened", r>>].status # "failed" BY <2>1, <2>4 DEF IInv, RowInv
  <2> QED BY <2>3, <2>5 DEF Unfinished
<1>10. ASSUME NEW r \in Recipients, rows[<<"resolved", r>>].status \in Unfinished
       PROVE  rows'[<<"resolved", r>>].status \in Unfinished
  <2>1. <<"resolved", r>> \in Deliveries BY DeliveryFacts DEF Transitions
  <2> QED BY <1>2, <1>4, <1>10, <2>1 DEF Unfinished
<1>11. parked' = parked /\ waived' = waived /\ recorded' = recorded BY <1>1 DEF history
<1> QED BY <1>1, <1>4, <1>5, <1>6, <1>7, <1>8, <1>9, <1>10, <1>11, OutboxStep

\* deleteCompleted finishes only what is finished.
LEMMA DeleteFacts ==
    ASSUME NEW table \in [Deliveries -> Row], NEW t \in Transitions
    PROVE  /\ DeleteCompleted(table, t) \in [Deliveries -> Row]
           /\ \A d \in Deliveries :
                \/ DeleteCompleted(table, t)[d] = table[d]
                \/ /\ table[d].status \in {"delivered", "absent"}
                   /\ DeleteCompleted(table, t)[d].status = "absent"
<1> PICK absent : absent = Absent OBVIOUS
<1>1. absent \in Row /\ absent.status = "absent" BY DEF Absent, Row
<1>2. CASE \A r \in Recipients : table[<<t, r>>].status \in {"delivered", "absent"}
  <2>1. DeleteCompleted(table, t) = [d \in Deliveries |-> IF d[1] = t THEN absent ELSE table[d]]
    BY <1>2 DEF DeleteCompleted
  <2>2. \A d \in Deliveries : d[1] = t => table[d].status \in {"delivered", "absent"}
    BY <1>2, DeliveryFacts
  <2> QED BY <1>1, <2>1, <2>2
<1>3. CASE ~\A r \in Recipients : table[<<t, r>>].status \in {"delivered", "absent"}
  BY <1>3 DEF DeleteCompleted
<1> QED BY <1>2, <1>3

\* One delivery changes and the completed ones of its transition are deleted, or not.
OneRow(d, row) ==
    /\ rows' \in [Deliveries -> Row]
    /\ rows'[d] = row \/ (row.status \in {"delivered", "absent"} /\ rows'[d].status = "absent")
    /\ \A x \in Deliveries : x # d =>
         \/ rows'[x] = rows[x]
         \/ rows[x].status \in {"delivered", "absent"} /\ rows'[x].status = "absent"

LEMMA OneRowFacts ==
    ASSUME Shape, NEW d \in Deliveries, NEW row \in Row,
           \/ rows' = [rows EXCEPT ![d] = row]
           \/ rows' = DeleteCompleted([rows EXCEPT ![d] = row], d[1])
    PROVE  OneRow(d, row)
<1> PICK table : table = [rows EXCEPT ![d] = row] OBVIOUS
<1>1. /\ table \in [Deliveries -> Row] /\ table[d] = row
      /\ \A x \in Deliveries : x # d => table[x] = rows[x]
  BY DEF Shape
<1>2. d[1] \in Transitions BY DeliveryFacts
<1>3. CASE rows' = table BY <1>1, <1>3 DEF OneRow
<1>4. CASE rows' = DeleteCompleted(table, d[1])
  <2>1. /\ rows' \in [Deliveries -> Row]
        /\ \A x \in Deliveries : \/ rows'[x] = table[x]
                                 \/ table[x].status \in {"delivered", "absent"} /\ rows'[x].status = "absent"
    BY <1>1, <1>2, <1>4, DeleteFacts
  <2> QED BY <1>1, <2>1 DEF OneRow
<1> QED BY <1>3, <1>4

\* A delivery that is unfinished is retried, parked or finished; nobody else works on it.
LEMMA SettleStep ==
    ASSUME IInv, UNCHANGED <<source, links, chats, recorded>>, NEW d \in Deliveries, NEW row \in Row,
           OneRow(d, row), rows[d].status \in Unfinished, row.status # "processing",
           parked \subseteq parked', waived \subseteq waived', row.status = "failed" => d[2] \in parked',
           d[1] = "resolved" /\ row.status \notin Unfinished =>
               d \in waived' \/ Told(d[2], "resolved") \/ NeverOpened(d[2]),
           workers' \in [Workers -> [pc : Active \cup {"fail"}, of : Deliveries] \cup {Idle}],
           \A v \in Workers : \/ workers'[v] = Idle
                              \/ workers'[v] = workers[v] /\ (workers[v].pc \in Active => workers[v].of # d)
    PROVE  IInv'
<1>1. \A x \in Deliveries : x # d =>
         \/ rows'[x] = rows[x]
         \/ rows[x].status \in {"delivered", "absent"} /\ rows'[x].status = "absent"
  BY DEF OneRow
<1>2. rows' \in [Deliveries -> Row] /\ (rows'[d] = row \/ (row.status \in {"delivered", "absent"} /\ rows'[d].status = "absent"))
  BY DEF OneRow
<1>3. "absent" \notin Unfinished /\ "delivered" \notin Unfinished BY DEF Unfinished
<1>4. RowsKeep BY <1>1, <1>2, <1>3 DEF RowsKeep
<1>5. ASSUME NEW v \in Workers PROVE WorkerInv(v)'
  <2>1. CASE workers'[v] = Idle
    <3>1. Idle.pc \notin Active BY DEF Idle, Active
    <3> QED BY <2>1, <3>1, IdleKeeps
  <2>2. CASE workers'[v] = workers[v] /\ (workers[v].pc \in Active => workers[v].of # d)
    <3>1. ASSUME workers[v].pc \in Active PROVE rows'[workers[v].of] = rows[workers[v].of]
      <4>1. workers[v].of \in Deliveries BY <3>1, WorkerFacts DEF IInv, Active
      <4>2. rows[workers[v].of].status = "processing" BY <3>1 DEF IInv, WorkerInv, Owns
      <4> QED BY <1>1, <2>2, <3>1, <4>1, <4>2
    <3> QED BY <1>4, <2>2, <3>1, OutboxOthers
  <2> QED BY <2>1, <2>2
<1>6. \A x \in Deliveries : rows'[x].status = "failed" => x[2] \in parked'
  BY <1>1, <1>2 DEF IInv, RowInv
<1>7. \A r \in Recipients : <<"resolved", r>> \in Deliveries BY DeliveryFacts DEF Transitions
<1>8. \A r \in Recipients : rows'[<<"resolved", r>>].status = "processing" => rows[<<"resolved", r>>].status = "processing"
  BY <1>1, <1>2, <1>7
<1>9. ASSUME NEW r \in Recipients, rows[<<"resolved", r>>].status \in Unfinished,
             rows'[<<"resolved", r>>].status \notin Unfinished
      PROVE  <<"resolved", r>> \in waived' \/ Told(r, "resolved") \/ NeverOpened(r)
  <2>1. d = <<"resolved", r>> BY <1>1, <1>3, <1>7, <1>9
  <2>2. row.status \notin Unfinished BY <1>2, <1>3, <1>9, <2>1
  <2> QED BY <2>1, <2>2
<1> QED BY <1>2, <1>4, <1>5, <1>6, <1>8, <1>9, OutboxStep

\* No other worker works on a delivery that w owns.
LEMMA OwnerAlone ==
    ASSUME IInv, NEW w \in Workers, NEW d \in Deliveries, Owns(w, d), NEW v \in Workers, v # w,
           workers[v].pc \in Active
    PROVE  workers[v].of # d
BY DEF IInv, WorkerInv, Owns

LEMMA AcknowledgeStep ==
    ASSUME IInv, NEW w \in Workers, Acknowledge(w)
    PROVE  IInv'
<1> PICK d : d = workers[w].of OBVIOUS
<1> PICK row : row = [Pending EXCEPT !.status = "delivered"] OBVIOUS
<1>1. /\ workers[w].pc = "acknowledge"
      /\ rows' = DeleteCompleted([rows EXCEPT ![d] = row], d[1])
      /\ workers' = [workers EXCEPT ![w] = Idle]
      /\ UNCHANGED <<source, links, chats, bounds, history>>
  BY DEF Acknowledge
<1>2. d \in Deliveries BY <1>1, WorkerFacts DEF IInv
<1>3. row \in Row /\ row.status = "delivered" BY DEF Row, Pending
<1>4. OneRow(d, row) BY <1>1, <1>2, <1>3, OneRowFacts DEF IInv
<1>5. Owns(w, d) /\ (d[1] = "resolved" => Told(d[2], "resolved") \/ NeverOpened(d[2]))
  BY <1>1 DEF IInv, WorkerInv, Active
<1>6. rows[d].status \in Unfinished BY <1>5 DEF Owns, Unfinished
<1>7. /\ workers' \in [Workers -> [pc : Active \cup {"fail"}, of : Deliveries] \cup {Idle}]
      /\ \A v \in Workers : workers'[v] = IF v = w THEN Idle ELSE workers[v]
  BY <1>1 DEF IInv, Shape
<1>8. \A v \in Workers : \/ workers'[v] = Idle
                         \/ workers'[v] = workers[v] /\ (workers[v].pc \in Active => workers[v].of # d)
  BY <1>2, <1>5, <1>7, OwnerAlone
<1>9. parked' = parked /\ waived' = waived /\ recorded' = recorded BY <1>1 DEF history
<1> QED BY <1>1, <1>2, <1>3, <1>4, <1>5, <1>6, <1>7, <1>8, <1>9, SettleStep

LEMMA FailStep ==
    ASSUME IInv, NEW w \in Workers, Fail(w)
    PROVE  IInv'
<1> PICK d : d = workers[w].of OBVIOUS
<1>1. /\ workers[w].pc = "fail" /\ workers' = [workers EXCEPT ![w] = Idle]
      /\ UNCHANGED <<source, links, chats, bounds, recorded, waived>>
  BY DEF Fail
<1>2. d \in Deliveries BY <1>1, WorkerFacts DEF IInv
<1>3. /\ workers' \in [Workers -> [pc : Active \cup {"fail"}, of : Deliveries] \cup {Idle}]
      /\ \A v \in Workers : workers'[v] = IF v = w THEN Idle ELSE workers[v]
  BY <1>1 DEF IInv, Shape
<1>4. ASSUME Owns(w, d), NEW row \in Row, row.status \in {"pending", "failed"},
             rows' = [rows EXCEPT ![d] = row], parked \subseteq parked',
             row.status = "failed" => d[2] \in parked'
      PROVE  IInv'
  <2>1. OneRow(d, row) BY <1>2, <1>4, OneRowFacts DEF IInv
  <2>2. rows[d].status \in Unfinished BY <1>4 DEF Owns, Unfinished
  <2>3. \A v \in Workers : \/ workers'[v] = Idle
                           \/ workers'[v] = workers[v] /\ (workers[v].pc \in Active => workers[v].of # d)
    BY <1>2, <1>3, <1>4, OwnerAlone
  <2>4. row.status # "processing" /\ row.status \in Unfinished BY <1>4 DEF Unfinished
  <2> QED BY <1>1, <1>2, <1>3, <1>4, <2>1, <2>2, <2>3, <2>4, SettleStep
<1>5. CASE Owns(w, d) /\ rows' = [rows EXCEPT ![d] = Pending] /\ UNCHANGED parked
  <2>1. Pending \in Row /\ Pending.status = "pending" BY DEF Pending, Row, Unfinished
  <2> QED BY <1>4, <1>5, <2>1
<1>6. CASE /\ Owns(w, d) /\ rows' = [rows EXCEPT ![d] = [Pending EXCEPT !.status = "failed"]]
           /\ parked' = parked \cup {d[2]}
  <2> PICK row : row = [Pending EXCEPT !.status = "failed"] OBVIOUS
  <2>1. row \in Row /\ row.status = "failed" BY DEF Pending, Row, Unfinished
  <2> QED BY <1>4, <1>6, <2>1
<1>7. CASE ~Owns(w, d) /\ UNCHANGED <<rows, parked>>
  <2>1. RowsKeep BY <1>7 DEF RowsKeep
  <2>2. ASSUME NEW v \in Workers PROVE WorkerInv(v)'
    <3>1. CASE v = w
      <4>1. Idle.pc \notin Active BY DEF Idle, Active
      <4> QED BY <1>3, <3>1, <4>1, IdleKeeps
    <3>2. CASE v # w BY <1>1, <1>3, <1>7, <2>1, <3>2, OutboxOthers
    <3> QED BY <3>1, <3>2
  <2>3. \A x \in Deliveries : rows'[x].status = "failed" => x[2] \in parked' BY <1>7 DEF IInv, RowInv
  <2> QED BY <1>1, <1>3, <1>7, <2>1, <2>2, <2>3, OutboxStep DEF IInv, Shape
<1> QED BY <1>5, <1>6, <1>7 DEF Fail

\* The operator's commands concern deliveries that nobody works on.
LEMMA OperatorStep ==
    ASSUME IInv, NEW d \in Deliveries, Replay(d) \/ Discard(d)
    PROVE  IInv'
<1>1. /\ rows[d].status = "failed" /\ UNCHANGED <<source, links, chats, recorded, workers, parked>>
      /\ \/ rows' = [rows EXCEPT ![d] = Pending] /\ UNCHANGED waived
         \/ /\ rows' = DeleteCompleted([rows EXCEPT ![d].status = "delivered"], d[1])
            /\ waived' = waived \cup {d}
  BY DEF Replay, Discard, history
<1>2. rows[d] \in Row /\ rows[d].status \in Unfinished BY <1>1 DEF IInv, Shape, Unfinished
<1>3. PICK row \in Row : /\ row.status \in {"pending", "delivered"}
                         /\ row.status = "delivered" => d \in waived'
                         /\ \/ rows' = [rows EXCEPT ![d] = row]
                            \/ rows' = DeleteCompleted([rows EXCEPT ![d] = row], d[1])
  <2>1. CASE rows' = [rows EXCEPT ![d] = Pending]
    <3>1. Pending \in Row /\ Pending.status = "pending" BY DEF Pending, Row, Unfinished
    <3> QED BY <2>1, <3>1
  <2>2. CASE /\ rows' = DeleteCompleted([rows EXCEPT ![d].status = "delivered"], d[1])
             /\ waived' = waived \cup {d}
    <3> PICK row : row = [rows[d] EXCEPT !.status = "delivered"] OBVIOUS
    <3>1. row \in Row /\ row.status = "delivered" BY <1>2 DEF Row
    <3>2. rows' = DeleteCompleted([rows EXCEPT ![d] = row], d[1]) BY <2>2
    <3> QED BY <2>2, <3>1, <3>2
  <2> QED BY <1>1, <2>1, <2>2
<1>4. OneRow(d, row) BY <1>3, OneRowFacts DEF IInv
<1>5. \A v \in Workers : workers'[v] = workers[v] /\ (workers[v].pc \in Active => workers[v].of # d)
  BY <1>1 DEF IInv, WorkerInv, Owns
<1>6. workers' \in [Workers -> [pc : Active \cup {"fail"}, of : Deliveries] \cup {Idle}]
  BY <1>1 DEF IInv, Shape
<1>7. row.status \notin Unfinished => d \in waived' BY <1>3 DEF Unfinished
<1>8. row.status # "processing" /\ row.status # "failed" BY <1>3
<1> QED BY <1>1, <1>2, <1>4, <1>5, <1>6, <1>7, <1>8, SettleStep

-----------------------------------------------------------------------------
(* Steps of the handler.                                                   *)

\* Telegram accepts the message of worker w, or not; the status of no delivery changes.
LEMMA TellStep ==
    ASSUME IInv, NEW w \in Workers, NEW d \in Deliveries, d = workers[w].of,
           UNCHANGED <<source, links, history>>,
           rows' \in [Deliveries -> Row], \A x \in Deliveries : rows'[x].status = rows[x].status,
           UNCHANGED chats \/ (workers[w].pc = "notify" /\ Accept(d)),
           workers' \in [Workers -> [pc : Active \cup {"fail"}, of : Deliveries] \cup {Idle}],
           \A v \in Workers : WorkerInv(v)'
    PROVE  IInv'
<1>1. /\ configured' = configured /\ registered' = registered /\ alert' = alert /\ route' = route
      /\ links' = links /\ recorded' = recorded /\ parked' = parked /\ waived' = waived
  BY DEF source, history
<1>2. CASE UNCHANGED chats
  <2>1. RowsKeep BY DEF RowsKeep
  <2>2. \A x \in Deliveries : rows'[x].status = "failed" => x[2] \in parked BY DEF IInv, RowInv
  <2>3. \A r \in Recipients : <<"resolved", r>> \in Deliveries BY DeliveryFacts DEF Transitions
  <2> QED BY <1>1, <1>2, <2>1, <2>2, <2>3, OutboxStep
<1>3. CASE workers[w].pc = "notify" /\ Accept(d)
  <2> PICK q : q = d[2] OBVIOUS
  <2> PICK m : m = d[1] OBVIOUS
  <2>1. d = <<m, q>> /\ q \in Recipients /\ m \in Transitions /\ (m = "opened" \/ m = "resolved")
    BY DeliveryFacts
  <2>2. /\ chats' \in [Recipients -> Seq(Transitions)]
        /\ \A r \in Recipients, t \in Transitions : Told(r, t)' <=> Told(r, t) \/ d = <<t, r>>
        /\ \A r \in Recipients : r # q => chats'[r] = chats[r]
        /\ chats'[q] = Append(chats[q], m)
    BY <1>3, AcceptFacts DEF IInv
  <2>3. /\ rows[d].status = "processing" /\ links[q] # NoLink
        /\ m = "opened" => q \in route["opened"]
    BY <1>3 DEF IInv, WorkerInv, Owns, Active
  <2>4. "opened" \in Transitions /\ "resolved" \in Transitions BY DEF Transitions
  <2>5. \A r \in Recipients : /\ Told(r, "opened")' <=> Told(r, "opened") \/ (m = "opened" /\ r = q)
                              /\ Told(r, "resolved")' <=> Told(r, "resolved") \/ (m = "resolved" /\ r = q)
    BY <2>1, <2>2, <2>4
  <2>6. \A r \in Recipients : <<"opened", r>> \in Deliveries /\ <<"resolved", r>> \in Deliveries
    BY <2>4, DeliveryFacts
  <2>7. Shape' BY <1>1, <2>2 DEF IInv, Shape
  <2>8. BeforeInv'
    <3>1. alert # "none" /\ (m = "resolved" => alert = "resolved")
      BY <2>1, <2>3 DEF IInv, BeforeInv
    <3> QED BY <1>1, <2>5, <2>6, <3>1 DEF IInv, BeforeInv
  <2>9. RowInv' BY <1>1 DEF IInv, RowInv
  <2>10. LinkInv'
    <3> SUFFICES ASSUME NEW r \in Recipients
                 PROVE  /\ links'[r] # NoLink => links'[r] = recorded'[r] /\ r \in registered'
                        /\ links'[r] = NoLink => Finished' \/ (recorded'[r] = {} /\ \A t \in Transitions : ~Told(r, t)')
                        /\ "resolved" \in recorded'[r] => Told(r, "resolved")'
      BY DEF LinkInv
    <3>1. ~Finished BY <2>3 DEF Finished
    <3>2. links[r] = NoLink => r # q BY <2>3
    <3>3. links[r] = NoLink => recorded[r] = {} /\ \A t \in Transitions : ~Told(r, t)
      BY <3>1 DEF IInv, LinkInv
    <3>4. links[r] = NoLink => \A t \in Transitions : ~Told(r, t)' BY <2>1, <2>2, <3>2, <3>3
    <3>5. "resolved" \in recorded[r] => Told(r, "resolved")' BY <2>5 DEF IInv, LinkInv
    <3>6. links[r] # NoLink => links[r] = recorded[r] /\ r \in registered BY DEF IInv, LinkInv
    <3> QED BY <1>1, <3>3, <3>4, <3>5, <3>6
  <2>11. TheirsInv'
    <3>1. NoOpening => m = "resolved" BY <2>1, <2>3 DEF NoOpening, Kept
    <3>2. NoOpening => NoOpening'
      <4>1. ~Kept("opened") => ~Kept("opened")' BY <2>6 DEF Kept
      <4> QED BY <2>5, <3>1, <4>1 DEF NoOpening
    <3>3. ASSUME NEW r \in Recipients, links'[r] # NoLink \/ Told(r, "resolved")'
          PROVE  r \in route["opened"] \/ (alert # "none" /\ NoOpening)
      BY <1>1, <2>3, <2>5, <3>3 DEF IInv, TheirsInv
    <3> QED BY <1>1, <3>2, <3>3 DEF TheirsInv
  <2>12. OrderInv'
    <3>1. ASSUME NEW r \in Recipients \ parked, m = "opened", r = q PROVE ~Told(r, "resolved")
      BY <2>1, <2>3, <3>1 DEF IInv, OrderInv, Unfinished
    <3>2. ASSUME NEW r \in Recipients \ parked, NEW i \in DOMAIN chats'[r], NEW j \in DOMAIN chats'[r],
                 i < j, chats'[r][i] = "resolved"
          PROVE  chats'[r][j] = "resolved"
      <4>1. CASE r # q BY <2>2, <3>2, <4>1 DEF IInv, OrderInv, InOrder
      <4>2. CASE r = q
        <5> PICK c : c = chats[q] OBVIOUS
        <5> PICK n : n = Len(c) OBVIOUS
        <5>1. c \in Seq(Transitions) BY <2>1 DEF IInv, Shape
        <5>2. /\ n \in Nat /\ DOMAIN c = 1..n /\ DOMAIN chats'[q] = 1..(n + 1)
              /\ chats'[q][n + 1] = m /\ \A k \in 1..n : chats'[q][k] = c[k]
          <6> PICK x : x = Append(c, m) OBVIOUS
          <6>1. /\ n \in Nat /\ DOMAIN c = 1..n /\ DOMAIN x = 1..(n + 1)
                /\ x[n + 1] = m /\ \A k \in 1..n : x[k] = c[k]
            BY <2>1, <5>1
          <6>2. chats'[q] = x BY <2>2
          <6> QED BY <6>1, <6>2, ZenonT(60)
        <5>3. i \in 1..n /\ c[i] = "resolved" BY <3>2, <4>2, <5>2
        <5>4. Told(q, "resolved") BY <5>2, <5>3 DEF Told
        <5>5. m = "resolved" BY <2>1, <3>1, <4>2, <5>4
        <5>6. CASE j = n + 1 BY <4>2, <5>2, <5>5, <5>6
        <5>7. CASE j # n + 1
          <6>1. j \in 1..n BY <3>2, <4>2, <5>2, <5>7
          <6>2. c[j] = "resolved" BY <3>2, <4>2, <5>2, <5>3, <6>1 DEF IInv, OrderInv, InOrder
          <6> QED BY <4>2, <5>2, <6>1, <6>2
        <5> QED BY <5>6, <5>7
      <4> QED BY <4>1, <4>2
    <3>3. InOrder' BY <1>1, <3>2 DEF InOrder
    <3>4. ASSUME NEW r \in Recipients \ parked,
                 Told(r, "resolved")' \/ rows'[<<"resolved", r>>].status = "processing"
          PROVE  rows'[<<"opened", r>>].status \notin Unfinished
      <4>1. Told(r, "resolved") \/ rows[<<"resolved", r>>].status = "processing"
        BY <2>1, <2>3, <2>5, <2>6, <3>4
      <4> QED BY <2>6, <4>1 DEF IInv, OrderInv
    <3> QED BY <1>1, <3>3, <3>4 DEF OrderInv
  <2>13. ResolutionInv'
    <3> SUFFICES ASSUME alert' = "resolved", NEW r \in Recipients
                 PROVE  Told(r, "resolved")' \/ Due(r)' \/ NeverOpened(r)'
      BY DEF ResolutionInv
    <3>1. Told(r, "resolved") \/ Due(r) \/ NeverOpened(r) BY <1>1 DEF IInv, ResolutionInv
    <3>2. Due(r) => Due(r)' BY <1>1, <2>6 DEF Due
    <3>3. NeverOpened(r) => ~(m = "opened" /\ r = q) BY <2>1, <2>3 DEF NeverOpened, Unfinished
    <3>4. NeverOpened(r) => NeverOpened(r)' BY <1>1, <2>5, <2>6, <3>3 DEF NeverOpened
    <3> QED BY <2>5, <3>1, <3>2, <3>4
  <2> QED BY <2>7, <2>8, <2>9, <2>10, <2>11, <2>12, <2>13 DEF IInv
<1> QED BY <1>2, <1>3

\* The workers other than w, when w tells or its lease ends.
LEMMA TellOthers ==
    ASSUME IInv, NEW w \in Workers, NEW d \in Deliveries, d = workers[w].of, Owns(w, d),
           UNCHANGED <<source, links>>,
           \A x \in Deliveries : rows'[x].status = rows[x].status,
           \A x \in Deliveries : x # d => rows'[x] = rows[x],
           UNCHANGED chats \/ (workers[w].pc = "notify" /\ Accept(d)),
           NEW v \in Workers, v # w, workers'[v] = workers[v]
    PROVE  WorkerInv(v)'
<1>1. route' = route /\ links' = links BY DEF source
<1>2. ToldKept
  <2>1. CASE UNCHANGED chats BY <2>1 DEF ToldKept, Told
  <2>2. CASE Accept(d) BY <2>2, AcceptFacts DEF IInv, ToldKept
  <2> QED BY <2>1, <2>2
<1>3. ASSUME workers[v].pc \in Active PROVE rows'[workers[v].of] = rows[workers[v].of]
  <2>1. workers[v].of \in Deliveries BY <1>3, WorkerFacts DEF IInv, Active
  <2> QED BY <1>3, <2>1, OwnerAlone
<1>4. \A r \in Recipients : <<"opened", r>> \in Deliveries BY DeliveryFacts DEF Transitions
<1>5. ASSUME NEW r \in Recipients, NeverOpened(r) PROVE NeverOpened(r)'
  <2>1. ~Told(r, "opened")'
    <3>1. CASE UNCHANGED chats BY <1>5, <3>1 DEF NeverOpened, Told
    <3>2. CASE workers[w].pc = "notify" /\ Accept(d)
      <4>1. d # <<"opened", r>>
        BY <1>5, <3>2 DEF NeverOpened, IInv, WorkerInv, Owns, Active, Unfinished
      <4>2. "opened" \in Transitions BY DEF Transitions
      <4> QED BY <1>5, <3>2, <4>1, <4>2, AcceptFacts DEF IInv, NeverOpened
    <3> QED BY <3>1, <3>2
  <2> QED BY <1>1, <1>4, <1>5, <2>1 DEF NeverOpened
<1> QED BY <1>1, <1>2, <1>3, <1>5, OthersKeep DEF IInv

\* A worker goes on with its delivery.
LEMMA GoOnFacts ==
    ASSUME Shape, NEW w \in Workers, workers[w].pc # "idle", NEW pc \in Active \cup {"fail"}, GoOn(w, pc)
    PROVE  /\ workers' \in [Workers -> [pc : Active \cup {"fail"}, of : Deliveries] \cup {Idle}]
           /\ workers'[w].pc = pc /\ workers'[w].of = workers[w].of
           /\ \A v \in Workers : v # w => workers'[v] = workers[v]
<1> PICK r : r = [workers[w] EXCEPT !.pc = pc] OBVIOUS
<1>1. workers[w] \in [pc : Active \cup {"fail"}, of : Deliveries] BY WorkerFacts
<1>2. r \in [pc : Active \cup {"fail"}, of : Deliveries] /\ r.pc = pc /\ r.of = workers[w].of BY <1>1
<1>3. workers' = [workers EXCEPT ![w] = r] BY DEF GoOn
<1> QED BY <1>2, <1>3 DEF Shape

LEMMA NotifyStep ==
    ASSUME IInv, NEW w \in Workers, Notify(w)
    PROVE  IInv'
<1> PICK d : d = workers[w].of OBVIOUS
<1>1. workers[w].pc = "notify" /\ rows' = rows /\ UNCHANGED <<source, links, history>>
  BY DEF Notify
<1>2. d \in Deliveries /\ Owns(w, d) /\ ~rows[d].expired
  BY <1>1, WorkerFacts DEF IInv, WorkerInv, Active
<1>3. UNCHANGED chats \/ Accept(d) BY DEF Notify
<1>4. PICK pc \in {"mark", "fail"} : GoOn(w, pc) /\ (pc = "mark" => Accept(d)) BY DEF Notify
<1>5. /\ workers' \in [Workers -> [pc : Active \cup {"fail"}, of : Deliveries] \cup {Idle}]
      /\ workers'[w].pc = pc /\ workers'[w].of = d
      /\ \A v \in Workers : v # w => workers'[v] = workers[v]
  BY <1>1, <1>4, GoOnFacts DEF IInv, Active
<1>6. ASSUME NEW v \in Workers PROVE WorkerInv(v)'
  <2>1. CASE v = w /\ pc = "fail" BY <1>5, <2>1, IdleKeeps DEF Active
  <2>2. CASE v = w /\ pc = "mark"
    <3>1. Owns(w, d)' /\ ~rows'[d].expired BY <1>1, <1>2 DEF Owns
    <3>2. links[d[2]] # NoLink /\ (d[1] = "opened" => d[2] \in route["opened"])
      BY <1>1 DEF IInv, WorkerInv
    <3>3. links' = links /\ route' = route BY <1>1 DEF source
    <3>4. Told(d[2], d[1])' BY <1>2, <1>4, <2>2, AcceptFacts, DeliveryFacts DEF IInv
    <3>5. workers'[w].pc = "mark" BY <1>5, <2>2
    <3>6. WorkerInv(w)' BY <1>5, <3>1, <3>2, <3>3, <3>4, <3>5 DEF WorkerInv, Owns, Told
    <3> QED BY <2>2, <3>6
  <2>3. CASE v # w BY <1>1, <1>2, <1>3, <1>5, <2>3, TellOthers
  <2> QED BY <1>4, <2>1, <2>2, <2>3
<1> QED BY <1>1, <1>2, <1>3, <1>5, <1>6, TellStep DEF IInv, Shape

LEMMA LeaseStep ==
    ASSUME IInv, NEW w \in Workers, LeaseExpires(w)
    PROVE  IInv'
<1> PICK d : d = workers[w].of OBVIOUS
<1> PICK row : row = [rows[d] EXCEPT !.expired = TRUE] OBVIOUS
<1>1. /\ workers[w].pc \in Active /\ rows' = [rows EXCEPT ![d] = row] /\ GoOn(w, "fail")
      /\ UNCHANGED chats \/ (workers[w].pc = "notify" /\ Accept(d))
      /\ UNCHANGED <<source, links, history>>
  BY DEF LeaseExpires, Active
<1>2. d \in Deliveries /\ Owns(w, d) BY <1>1, WorkerFacts DEF IInv, WorkerInv, Active
<1>3. rows[d] \in Row BY <1>2 DEF IInv, Shape
<1>4. row \in Row /\ row.status = rows[d].status BY <1>3 DEF Row
<1>5. /\ rows' \in [Deliveries -> Row] /\ rows'[d] = row
      /\ \A x \in Deliveries : x # d => rows'[x] = rows[x]
  BY <1>1, <1>2, <1>4 DEF IInv, Shape
<1>6. \A x \in Deliveries : rows'[x].status = rows[x].status BY <1>4, <1>5
<1>7. /\ workers' \in [Workers -> [pc : Active \cup {"fail"}, of : Deliveries] \cup {Idle}]
      /\ workers'[w].pc = "fail" /\ \A v \in Workers : v # w => workers'[v] = workers[v]
  BY <1>1, GoOnFacts DEF IInv, Active
<1>8. ASSUME NEW v \in Workers PROVE WorkerInv(v)'
  <2>1. CASE v = w BY <1>7, <2>1, IdleKeeps DEF Active
  <2>2. CASE v # w BY <1>1, <1>2, <1>5, <1>6, <1>7, <2>2, TellOthers
  <2> QED BY <2>1, <2>2
<1> QED BY <1>1, <1>2, <1>5, <1>6, <1>7, <1>8, TellStep

\* Links are made and marked; deliveries and chats stay.
LEMMA LinkStep ==
    ASSUME IInv, UNCHANGED <<source, rows, chats, parked, waived>>, alert # "none",
           links' \in [Recipients -> {NoLink} \cup SUBSET Transitions],
           recorded' \in [Recipients -> SUBSET Transitions],
           workers' \in [Workers -> [pc : Active \cup {"fail"}, of : Deliveries] \cup {Idle}],
           \A v \in Workers : WorkerInv(v)', LinkInv',
           \A r \in Recipients : links'[r] # NoLink =>
               links[r] # NoLink \/ r \in route["opened"] \/ NoOpening
    PROVE  IInv'
<1>1. /\ configured' = configured /\ registered' = registered /\ alert' = alert /\ route' = route
      /\ rows' = rows /\ chats' = chats /\ parked' = parked /\ waived' = waived
  BY DEF source
<1>2. RowsKeep BY <1>1 DEF RowsKeep
<1>3. /\ \A r \in Recipients, t \in Transitions : Told(r, t)' <=> Told(r, t)
      /\ \A r \in Recipients : NeverOpened(r) => NeverOpened(r)'
      /\ NoOpening => NoOpening'
  BY <1>1, <1>2, RowsFacts DEF IInv
<1>4. "opened" \in Transitions /\ "resolved" \in Transitions BY DEF Transitions
<1>5. Shape' BY <1>1 DEF IInv, Shape
<1>6. BeforeInv' BY <1>1, <1>3, <1>4 DEF IInv, BeforeInv
<1>7. RowInv' BY <1>1 DEF IInv, RowInv
<1>8. TheirsInv' BY <1>1, <1>3, <1>4 DEF IInv, TheirsInv
<1>9. OrderInv'
  <2>1. InOrder' BY <1>1 DEF IInv, OrderInv, InOrder
  <2> QED BY <1>1, <1>3, <1>4, <2>1 DEF IInv, OrderInv
<1>10. ResolutionInv' BY <1>1, <1>3, <1>4 DEF IInv, ResolutionInv, Due
<1> QED BY <1>5, <1>6, <1>7, <1>8, <1>9, <1>10 DEF IInv

\* The workers other than w in such a step.
LEMMA LinkOthers ==
    ASSUME IInv, UNCHANGED <<source, rows, chats>>, NEW v \in Workers, workers'[v] = workers[v],
           \A r \in Recipients : links[r] # NoLink => links'[r] # NoLink
    PROVE  WorkerInv(v)'
<1>1. alert' = alert /\ route' = route BY DEF source
<1>2. RowsKeep BY DEF RowsKeep
<1>3. /\ \A r \in Recipients, t \in Transitions : Told(r, t)' <=> Told(r, t)
      /\ \A r \in Recipients : NeverOpened(r) => NeverOpened(r)'
  BY <1>1, <1>2, RowsFacts DEF IInv
<1> QED BY <1>1, <1>3, OthersKeep DEF IInv, ToldKept

\* While a worker handles a delivery its publication is kept: nothing is pruned.
LEMMA BusyFacts ==
    ASSUME IInv, NEW w \in Workers, workers[w].pc \in Active
    PROVE  /\ workers[w].of \in Deliveries /\ Owns(w, workers[w].of) /\ ~rows[workers[w].of].expired
           /\ rows[workers[w].of].status = "processing"
           /\ alert # "none" /\ ~Finished /\ PruneCompleted(links) = links
<1> PICK d : d = workers[w].of OBVIOUS
<1>1. d \in Deliveries /\ Owns(w, d) /\ ~rows[d].expired BY WorkerFacts DEF IInv, WorkerInv, Active
<1>2. rows[d].status = "processing" BY <1>1 DEF Owns
<1>3. alert # "none" /\ ~Finished BY <1>1, <1>2 DEF IInv, BeforeInv, Finished
<1>4. d[1] \in Transitions /\ d[2] \in Recipients /\ d = <<d[1], d[2]>> BY <1>1, DeliveryFacts
<1>5. Kept(d[1])
  <2>1. rows[<<d[1], d[2]>>].status # "absent" BY <1>2, <1>4
  <2> QED BY <1>4, <2>1 DEF Kept
<1>6. \E t \in Transitions : Kept(t) BY <1>4, <1>5
<1>7. PruneCompleted(links) = [r \in Recipients |-> links[r]] BY <1>6 DEF PruneCompleted
<1>8. PruneCompleted(links) = links BY <1>7 DEF IInv, Shape
<1> QED BY <1>1, <1>2, <1>3, <1>8

LEMMA HandleStep ==
    ASSUME IInv, NEW w \in Workers, Handle(w)
    PROVE  /\ IInv'
           /\ workers'[w].pc = "notify" =>
                recorded[workers[w].of[2]] \cap {workers[w].of[1], "resolved"} = {}
<1> PICK d : d = workers[w].of OBVIOUS
<1> PICK r : r = d[2] OBVIOUS
<1> PICK m : m = d[1] OBVIOUS
<1> DEFINE concerned == IF m = "opened" THEN r \in route["opened"]
                        ELSE links[r] # NoLink \/ shouldResolveWithoutLink(r, links)
           link == Ensure(links, r)[r]
           due == concerned /\ "resolved" \notin link /\ m \notin link
<1>1. workers[w].pc = "handle" /\ UNCHANGED <<source, rows, chats, bounds, history>> BY DEF Handle
<1>2. workers[w].pc \in Active BY <1>1 DEF Active
<1>3. /\ d \in Deliveries /\ Owns(w, d) /\ ~rows[d].expired /\ alert # "none" /\ ~Finished
      /\ PruneCompleted(links) = links
  BY <1>2, BusyFacts
<1>4. r \in Recipients /\ m \in Transitions /\ d = <<m, r>> /\ (m = "opened" \/ m = "resolved")
  BY <1>3, DeliveryFacts
<1>5. /\ parked' = parked /\ waived' = waived /\ recorded' = recorded /\ rows' = rows
      /\ route' = route /\ registered' = registered /\ alert' = alert
  BY <1>1 DEF history, source
<1>6. \/ /\ r \in registered
         /\ links' = IF concerned THEN Ensure(links, r) ELSE links
         /\ GoOn(w, IF due THEN "notify" ELSE "acknowledge")
      \/ r \notin registered /\ GoOn(w, "fail") /\ UNCHANGED links
  BY <1>3 DEF Handle
<1>7. {} # NoLink /\ "resolved" \notin {} /\ m \notin {} BY DEF NoLink
<1>8. links[r] = NoLink => recorded[r] = {} BY <1>3, <1>4 DEF IInv, LinkInv
<1>9. /\ Ensure(links, r) \in [Recipients -> {NoLink} \cup SUBSET Transitions]
      /\ \A q \in Recipients : q # r => Ensure(links, r)[q] = links[q]
      /\ links[r] # NoLink => link = links[r]
      /\ links[r] = NoLink => link = {}
      /\ link # NoLink
  BY <1>4, <1>7 DEF Ensure, IInv, Shape
<1>10. link = recorded[r] BY <1>4, <1>8, <1>9 DEF IInv, LinkInv
<1>11. ASSUME concerned, links[r] = NoLink PROVE r \in route["opened"] \/ NoOpening
  <2>1. CASE m = "opened" BY <1>11, <2>1
  <2>2. CASE m # "opened" /\ Kept("opened") BY <1>11, <2>2 DEF shouldResolveWithoutLink
  <2>3. CASE m # "opened" /\ ~Kept("opened")
    <3>1. \A q \in Recipients : links[q] = NoLink BY <1>11, <2>3 DEF shouldResolveWithoutLink
    <3>2. "opened" \in Transitions BY DEF Transitions
    <3>3. \A q \in Recipients : ~Told(q, "opened") BY <1>3, <3>1, <3>2 DEF IInv, LinkInv
    <3> QED BY <2>3, <3>3 DEF NoOpening
  <2> QED BY <2>1, <2>2, <2>3
<1>12. ASSUME ~concerned, m = "resolved" PROVE NeverOpened(r)
  <2>1. links[r] = NoLink /\ ~shouldResolveWithoutLink(r, links) BY <1>12
  <2>2. "opened" \in Transitions BY DEF Transitions
  <2>3. ~Told(r, "opened") BY <1>3, <1>4, <2>1, <2>2 DEF IInv, LinkInv
  <2>4. CASE Kept("opened") BY <2>1, <2>3, <2>4 DEF shouldResolveWithoutLink, NeverOpened
  <2>5. CASE ~Kept("opened")
    <3>1. rows[<<"opened", r>>].status = "absent" BY <1>4, <2>5 DEF Kept
    <3> QED BY <2>3, <3>1 DEF NeverOpened, Unfinished
  <2> QED BY <2>4, <2>5
<1> HIDE DEF link, concerned
<1>13. CASE r \notin registered /\ GoOn(w, "fail") /\ UNCHANGED links
  <2>1. /\ workers' \in [Workers -> [pc : Active \cup {"fail"}, of : Deliveries] \cup {Idle}]
        /\ workers'[w].pc = "fail" /\ \A v \in Workers : v # w => workers'[v] = workers[v]
    BY <1>1, <1>13, GoOnFacts DEF IInv
  <2>2. ASSUME NEW v \in Workers PROVE WorkerInv(v)'
    <3>1. CASE v = w BY <2>1, <3>1, IdleKeeps DEF Active
    <3>2. CASE v # w BY <1>1, <1>13, <2>1, <3>2, LinkOthers
    <3> QED BY <3>1, <3>2
  <2>3. LinkInv'
    <3>1. \A q \in Recipients, t \in Transitions : Told(q, t)' <=> Told(q, t) BY <1>1 DEF Told
    <3>2. Finished' <=> Finished BY <1>5 DEF Finished
    <3>3. "resolved" \in Transitions BY DEF Transitions
    <3> QED BY <1>5, <1>13, <3>1, <3>2, <3>3 DEF IInv, LinkInv
  <2>4. IInv' BY <1>1, <1>3, <1>5, <1>13, <2>1, <2>2, <2>3, LinkStep DEF IInv, Shape
  <2> QED BY <2>1, <2>4
<1>14. CASE /\ r \in registered
            /\ links' = IF concerned THEN Ensure(links, r) ELSE links
            /\ GoOn(w, IF due THEN "notify" ELSE "acknowledge")
  <2> PICK pc : pc = IF due THEN "notify" ELSE "acknowledge" OBVIOUS
  <2>1. /\ workers' \in [Workers -> [pc : Active \cup {"fail"}, of : Deliveries] \cup {Idle}]
        /\ workers'[w].pc = pc /\ workers'[w].of = d /\ \A v \in Workers : v # w => workers'[v] = workers[v]
    BY <1>1, <1>14, GoOnFacts DEF IInv, Active
  <2>2. /\ links' \in [Recipients -> {NoLink} \cup SUBSET Transitions]
        /\ \A q \in Recipients : q # r => links'[q] = links[q]
        /\ concerned => links'[r] = link
        /\ ~concerned => links'[r] = links[r]
    BY <1>9, <1>14 DEF link, IInv, Shape
  <2>3. \A q \in Recipients : links[q] # NoLink => links'[q] # NoLink BY <1>9, <2>2
  <2>4. \A q \in Recipients : links'[q] # NoLink => links[q] # NoLink \/ q \in route["opened"] \/ NoOpening
    BY <1>11, <2>2
  <2>5. LinkInv'
    <3>1. \A q \in Recipients, t \in Transitions : Told(q, t)' <=> Told(q, t) BY <1>1 DEF Told
    <3>2. Finished' <=> Finished BY <1>5 DEF Finished
    <3>3. "resolved" \in Transitions BY DEF Transitions
    <3>4. ASSUME NEW q \in Recipients, links'[q] # NoLink PROVE links'[q] = recorded[q] /\ q \in registered
      <4>1. CASE q = r /\ concerned BY <1>10, <1>14, <2>2, <4>1
      <4>2. CASE ~(q = r /\ concerned)
        <5>1. links'[q] = links[q] BY <2>2, <4>2
        <5> QED BY <3>4, <5>1 DEF IInv, LinkInv
      <4> QED BY <4>1, <4>2
    <3>5. ASSUME NEW q \in Recipients, links'[q] = NoLink
          PROVE  Finished \/ (recorded[q] = {} /\ \A t \in Transitions : ~Told(q, t))
      BY <2>3, <3>5 DEF IInv, LinkInv
    <3>6. \A q \in Recipients : "resolved" \in recorded[q] => Told(q, "resolved") BY DEF IInv, LinkInv
    <3> QED BY <1>5, <3>1, <3>2, <3>3, <3>4, <3>5, <3>6 DEF LinkInv
  <2>6. WorkerInv(w)'
    <3>1. Owns(w, d)' /\ ~rows'[d].expired BY <1>3, <1>5 DEF Owns
    <3>2. CASE due
      <4>1. pc = "notify" /\ links'[r] # NoLink /\ (m = "opened" => r \in route["opened"])
        BY <1>9, <2>2, <3>2 DEF concerned
      <4> QED BY <1>5, <2>1, <3>1, <4>1 DEF WorkerInv, Owns
    <3>3. CASE ~due
      <4>1. pc = "acknowledge" BY <3>3
      <4>2. ASSUME m = "resolved" PROVE Told(r, "resolved") \/ NeverOpened(r)
        <5>1. CASE ~concerned BY <1>12, <4>2, <5>1
        <5>2. CASE concerned
          <6>1. "resolved" \in link BY <3>3, <4>2, <5>2
          <6> QED BY <1>4, <1>10, <6>1 DEF IInv, LinkInv
        <5> QED BY <5>1, <5>2
      <4>3. m = "resolved" => Told(r, "resolved")' \/ NeverOpened(r)'
        BY <1>1, <1>5, <4>2 DEF Told, NeverOpened
      <4> QED BY <1>5, <2>1, <3>1, <4>1, <4>3 DEF WorkerInv, Owns, Told, NeverOpened
    <3> QED BY <3>2, <3>3
  <2>7. ASSUME NEW v \in Workers PROVE WorkerInv(v)'
    <3>1. CASE v = w BY <2>6, <3>1
    <3>2. CASE v # w BY <1>1, <2>1, <2>3, <3>2, LinkOthers
    <3> QED BY <3>1, <3>2
  <2>8. IInv' BY <1>1, <1>3, <1>5, <2>1, <2>2, <2>4, <2>5, <2>7, LinkStep DEF IInv, Shape
  <2>9. pc = "notify" => recorded[r] \cap {m, "resolved"} = {} BY <1>10
  <2> QED BY <2>1, <2>8, <2>9
<1> QED BY <1>6, <1>13, <1>14

LEMMA MarkStep ==
    ASSUME IInv, NEW w \in Workers, Mark(w)
    PROVE  IInv'
<1> PICK d : d = workers[w].of OBVIOUS
<1> PICK r : r = d[2] OBVIOUS
<1> PICK m : m = d[1] OBVIOUS
<1> DEFINE changes == links[r] # NoLink /\ links[r] \cap {m, "resolved"} = {}
<1>1. /\ workers[w].pc = "mark" /\ UNCHANGED <<source, rows, chats, parked, waived>>
      /\ links' = IF changes THEN [links EXCEPT ![r] = @ \cup {m}] ELSE links
      /\ recorded' = IF changes THEN [recorded EXCEPT ![r] = @ \cup {m}] ELSE recorded
      /\ GoOn(w, "acknowledge")
  BY DEF Mark
<1>2. workers[w].pc \in Active BY <1>1 DEF Active
<1>3. d \in Deliveries /\ Owns(w, d) /\ ~rows[d].expired /\ alert # "none" BY <1>2, BusyFacts
<1>4. r \in Recipients /\ m \in Transitions BY <1>3, DeliveryFacts
<1>5. rows' = rows /\ route' = route /\ registered' = registered /\ alert' = alert /\ chats' = chats
  BY <1>1 DEF source
<1>6. Told(r, m) BY <1>1 DEF IInv, WorkerInv
<1>7. /\ workers' \in [Workers -> [pc : Active \cup {"fail"}, of : Deliveries] \cup {Idle}]
      /\ workers'[w].pc = "acknowledge" /\ workers'[w].of = d
      /\ \A v \in Workers : v # w => workers'[v] = workers[v]
  BY <1>1, GoOnFacts DEF IInv, Active
<1>8. \A q \in Recipients : links[q] # NoLink => links[q] = recorded[q] /\ q \in registered
  BY DEF IInv, LinkInv
<1>9. \A s \in SUBSET Transitions : s # NoLink BY DEF NoLink, Transitions
<1>10. \A q \in Recipients : recorded[q] \in SUBSET Transitions BY DEF IInv, Shape
<1>11. /\ links' \in [Recipients -> {NoLink} \cup SUBSET Transitions]
       /\ recorded' \in [Recipients -> SUBSET Transitions]
       /\ \A q \in Recipients : links'[q] # NoLink => links'[q] = recorded'[q]
       /\ \A q \in Recipients : links'[q] = NoLink <=> links[q] = NoLink
       /\ \A q \in Recipients : links[q] = NoLink => recorded'[q] = recorded[q]
       /\ \A q \in Recipients : "resolved" \in recorded'[q] => "resolved" \in recorded[q] \/ (q = r /\ m = "resolved")
  <2>1. CASE ~changes BY <1>1, <1>8, <2>1 DEF IInv, Shape
  <2>2. CASE changes
    <3> PICK s : s = recorded[r] \cup {m} OBVIOUS
    <3>1. s \in SUBSET Transitions /\ s # NoLink BY <1>4, <1>9, <1>10
    <3>2. links' = [links EXCEPT ![r] = s] /\ recorded' = [recorded EXCEPT ![r] = s]
      BY <1>1, <1>4, <1>8, <2>2
    <3>3. links[r] # NoLink BY <2>2
    <3>4. /\ links' \in [Recipients -> {NoLink} \cup SUBSET Transitions]
          /\ recorded' \in [Recipients -> SUBSET Transitions]
          /\ links'[r] = s /\ recorded'[r] = s
          /\ \A q \in Recipients : q # r => links'[q] = links[q] /\ recorded'[q] = recorded[q]
      BY <1>4, <3>1, <3>2 DEF IInv, Shape
    <3> QED BY <1>8, <3>1, <3>3, <3>4
  <2> QED BY <2>1, <2>2
<1>12. LinkInv'
  <2>1. \A q \in Recipients, t \in Transitions : Told(q, t)' <=> Told(q, t) BY <1>5 DEF Told
  <2>2. Finished' <=> Finished BY <1>5 DEF Finished
  <2>3. "resolved" \in Transitions BY DEF Transitions
  <2>4. \A q \in Recipients : links[q] = NoLink =>
           Finished \/ (recorded[q] = {} /\ \A t \in Transitions : ~Told(q, t))
    BY DEF IInv, LinkInv
  <2>5. \A q \in Recipients : "resolved" \in recorded'[q] => Told(q, "resolved")
    BY <1>6, <1>11 DEF IInv, LinkInv
  <2> QED BY <1>5, <1>8, <1>11, <2>1, <2>2, <2>3, <2>4, <2>5 DEF LinkInv
<1>13. ASSUME NEW v \in Workers PROVE WorkerInv(v)'
  <2>1. CASE v = w
    <3>1. Owns(w, d)' /\ ~rows'[d].expired BY <1>3, <1>5 DEF Owns
    <3>2. m = "resolved" => Told(r, "resolved")' BY <1>5, <1>6 DEF Told
    <3>3. WorkerInv(w)' BY <1>7, <3>1, <3>2 DEF WorkerInv, Owns, Told
    <3> QED BY <2>1, <3>3
  <2>2. CASE v # w BY <1>1, <1>7, <1>11, <2>2, LinkOthers
  <2> QED BY <2>1, <2>2
<1> QED BY <1>1, <1>3, <1>7, <1>11, <1>12, <1>13, LinkStep

-----------------------------------------------------------------------------
(* Publications and restarts.                                              *)

LEMMA OpenStep ==
    ASSUME IInv, Open
    PROVE  IInv'
<1> PICK p : p = Pending OBVIOUS
<1>1. /\ alert = "none" /\ alert' = "open"
      /\ rows' = [d \in Deliveries |-> IF d[1] = "opened" /\ d[2] \in registered THEN p ELSE rows[d]]
      /\ route' = [route EXCEPT !["opened"] = configured]
      /\ UNCHANGED <<configured, registered, links, workers, chats, bounds, history>>
  BY DEF Open, Publish
<1>2. recorded' = recorded /\ parked' = parked BY <1>1 DEF history
<1>3. p \in Row /\ p.status = "pending" BY DEF Pending, Row, Unfinished
<1>4. "opened" \in Transitions /\ "resolved" \in Transitions BY DEF Transitions
<1>5. /\ \A d \in Deliveries : rows[d].status = "absent"
      /\ \A r \in Recipients : links[r] = NoLink /\ ~Told(r, "opened") /\ ~Told(r, "resolved")
  BY <1>1 DEF IInv, BeforeInv
<1>6. \A r \in Recipients, t \in Transitions : Told(r, t)' <=> Told(r, t) BY <1>1 DEF Told
<1>7. \A r \in Recipients : /\ <<"resolved", r>> \in Deliveries
                            /\ <<"resolved", r>>[1] # "opened"
  BY <1>4, DeliveryFacts
<1>8. \A r \in Recipients : rows'[<<"resolved", r>>] = rows[<<"resolved", r>>] BY <1>1, <1>7
<1>9. Shape' BY <1>1, <1>2, <1>3, <1>4 DEF IInv, Shape
<1>10. BeforeInv' BY <1>1, <1>4, <1>5, <1>6, <1>7, <1>8 DEF BeforeInv
<1>11. ASSUME NEW w \in Workers PROVE WorkerInv(w)'
  <2>1. workers[w].pc \notin Active BY <1>1, BusyFacts
  <2> QED BY <1>1, <2>1, IdleKeeps
<1>12. RowInv'
  <2> SUFFICES ASSUME NEW d \in Deliveries
               PROVE  /\ rows'[d].status \in Unfinished => d[2] \in registered
                      /\ rows'[d].status = "failed" => d[2] \in parked
    BY <1>1, <1>2 DEF RowInv
  <2>1. CASE d[1] = "opened" /\ d[2] \in registered BY <1>1, <1>3, <2>1
  <2>2. CASE ~(d[1] = "opened" /\ d[2] \in registered) BY <1>1, <1>5, <2>2 DEF Unfinished
  <2> QED BY <2>1, <2>2
<1>13. LinkInv'
  <2>1. ~Finished BY <1>1 DEF Finished
  <2> QED BY <1>1, <1>2, <1>4, <1>5, <1>6, <2>1 DEF IInv, LinkInv
<1>14. TheirsInv' BY <1>1, <1>4, <1>5, <1>6 DEF TheirsInv
<1>15. OrderInv'
  <2>1. InOrder' BY <1>1, <1>2 DEF IInv, OrderInv, InOrder
  <2> QED BY <1>2, <1>4, <1>5, <1>6, <1>7, <1>8, <2>1 DEF OrderInv
<1>16. ResolutionInv' BY <1>1 DEF ResolutionInv
<1> QED BY <1>9, <1>10, <1>11, <1>12, <1>13, <1>14, <1>15, <1>16 DEF IInv

\* Whoever heard of the opening, or still may, has a subscription when the
\* resolution is published.
LEMMA ResolveStep ==
    ASSUME IInv, Resolve
    PROVE  IInv'
<1> PICK p : p = Pending OBVIOUS
<1>1. /\ alert = "open" /\ alert' = "resolved"
      /\ rows' = [d \in Deliveries |-> IF d[1] = "resolved" /\ d[2] \in registered THEN p ELSE rows[d]]
      /\ route' = [route EXCEPT !["resolved"] = configured]
      /\ UNCHANGED <<configured, registered, links, workers, chats, bounds, history>>
  BY DEF Resolve, Publish
<1>2. recorded' = recorded /\ parked' = parked /\ waived' = waived BY <1>1 DEF history
<1>3. p \in Row /\ p.status = "pending" BY DEF Pending, Row, Unfinished
<1>4. "opened" \in Transitions /\ "resolved" \in Transitions BY DEF Transitions
<1>5. \A r \in Recipients : rows[<<"resolved", r>>].status = "absent" /\ ~Told(r, "resolved")
  BY <1>1 DEF IInv, BeforeInv
<1>6. \A r \in Recipients, t \in Transitions : Told(r, t)' <=> Told(r, t) BY <1>1 DEF Told
<1>7. \A r \in Recipients :
         /\ <<"resolved", r>> \in Deliveries /\ <<"opened", r>> \in Deliveries
         /\ <<"resolved", r>>[1] = "resolved" /\ <<"resolved", r>>[2] = r
         /\ <<"opened", r>>[1] # "resolved" /\ <<"opened", r>>[2] = r
  BY <1>4, DeliveryFacts
<1>8. \A r \in Recipients :
         /\ rows'[<<"opened", r>>] = rows[<<"opened", r>>]
         /\ rows'[<<"resolved", r>>].status \in {"pending", "absent"}
         /\ r \in registered => rows'[<<"resolved", r>>].status = "pending"
  BY <1>1, <1>3, <1>5, <1>7
<1>9. route'["opened"] = route["opened"] BY <1>1, <1>4 DEF IInv, Shape
<1>10. \A r \in Recipients : NeverOpened(r)' <=> NeverOpened(r)
  BY <1>4, <1>6, <1>8, <1>9 DEF NeverOpened
<1>11. NoOpening' <=> NoOpening
  <2>1. Kept("opened")' <=> Kept("opened") BY <1>8 DEF Kept
  <2> QED BY <1>4, <1>6, <2>1 DEF NoOpening
<1>12. Shape' BY <1>1, <1>2, <1>3, <1>4 DEF IInv, Shape
<1>13. BeforeInv' BY <1>1 DEF BeforeInv
<1>14. ASSUME NEW w \in Workers PROVE WorkerInv(w)'
  <2>1. ASSUME workers[w].pc \in Active PROVE rows'[workers[w].of] = rows[workers[w].of]
    <3> PICK d : d = workers[w].of OBVIOUS
    <3>1. d \in Deliveries /\ rows[d].status = "processing" BY <2>1, BusyFacts
    <3>2. d[1] # "resolved" BY <1>5, <3>1, DeliveryFacts
    <3> QED BY <1>1, <3>1, <3>2
  <2>2. ToldKept BY <1>6 DEF ToldKept
  <2> QED BY <1>1, <1>9, <1>10, <2>1, <2>2, OthersKeep DEF IInv
<1>15. RowInv'
  <2> SUFFICES ASSUME NEW d \in Deliveries
               PROVE  /\ rows'[d].status \in Unfinished => d[2] \in registered
                      /\ rows'[d].status = "failed" => d[2] \in parked
    BY <1>1, <1>2 DEF RowInv
  <2>1. CASE d[1] = "resolved" /\ d[2] \in registered BY <1>1, <1>3, <2>1
  <2>2. CASE ~(d[1] = "resolved" /\ d[2] \in registered) BY <1>1, <2>2 DEF IInv, RowInv
  <2> QED BY <2>1, <2>2
<1>16. ~Finished BY <1>1 DEF Finished
<1>17. LinkInv' BY <1>1, <1>2, <1>4, <1>6, <1>16 DEF IInv, LinkInv
<1>18. TheirsInv' BY <1>1, <1>4, <1>6, <1>9, <1>11 DEF IInv, TheirsInv
<1>19. OrderInv'
  <2>1. InOrder' BY <1>1, <1>2 DEF IInv, OrderInv, InOrder
  <2> QED BY <1>2, <1>4, <1>5, <1>6, <1>8, <2>1 DEF OrderInv
<1>20. ResolutionInv'
  <2> SUFFICES ASSUME NEW r \in Recipients PROVE Due(r)' \/ NeverOpened(r)'
    BY DEF ResolutionInv
  <2>1. CASE r \in registered BY <1>8, <2>1 DEF Due
  <2>2. CASE r \notin registered
    <3>1. links[r] = NoLink BY <2>2 DEF IInv, LinkInv
    <3>2. ~Told(r, "opened") BY <1>4, <1>16, <3>1 DEF IInv, LinkInv
    <3>3. rows[<<"opened", r>>].status \notin Unfinished BY <1>7, <2>2 DEF IInv, RowInv
    <3> QED BY <1>10, <3>2, <3>3 DEF NeverOpened
  <2> QED BY <2>1, <2>2
<1> QED BY <1>12, <1>13, <1>14, <1>15, <1>17, <1>18, <1>19, <1>20 DEF IInv

LEMMA RestartStep ==
    ASSUME IInv, NEW recipients \in SUBSET Recipients, Restart(recipients)
    PROVE  IInv'
<1> PICK table : table = PruneCompleted(links) OBVIOUS
<1>1. /\ configured' = recipients /\ links' = table /\ registered' = Registered(recipients, table)
      /\ workers' = [w \in Workers |-> Idle]
      /\ rows' = [d \in Deliveries |-> [rows[d] EXCEPT !.expired = (rows[d].status = "processing")]]
      /\ UNCHANGED <<alert, route, chats, faults, replays, slips, history>>
  BY DEF Restart
<1>2. recorded' = recorded /\ parked' = parked /\ waived' = waived BY <1>1 DEF history
<1>3. ASSUME NEW d \in Deliveries PROVE rows'[d] \in Row /\ rows'[d].status = rows[d].status
  <2> PICK row : row = rows[d] OBVIOUS
  <2>1. row \in Row BY DEF IInv, Shape
  <2>2. rows'[d] = [row EXCEPT !.expired = (row.status = "processing")] BY <1>1
  <2>3. (row.status = "processing") \in BOOLEAN OBVIOUS
  <2> QED BY <2>1, <2>2, <2>3 DEF Row
<1>4. rows' \in [Deliveries -> Row] BY <1>1, <1>3
<1>5. "opened" \in Transitions /\ "resolved" \in Transitions BY DEF Transitions
<1>6. \A r \in Recipients : /\ <<"opened", r>> \in Deliveries /\ <<"resolved", r>> \in Deliveries
  BY <1>5, DeliveryFacts
<1>7. RowsKeep BY <1>3 DEF RowsKeep
<1>8. /\ \A r \in Recipients, t \in Transitions : Told(r, t)' <=> Told(r, t)
      /\ \A r \in Recipients : NeverOpened(r) => NeverOpened(r)'
      /\ Finished => Finished'
      /\ NoOpening => NoOpening'
  BY <1>1, <1>7, RowsFacts DEF IInv
<1>9. /\ table \in [Recipients -> {NoLink} \cup SUBSET Transitions]
      /\ \A r \in Recipients : table[r] # NoLink => table[r] = links[r]
      /\ \A r \in Recipients : table[r] = NoLink =>
           links[r] = NoLink \/ ("resolved" \in links[r] /\ ~\E t \in Transitions : Kept(t))
  BY DEF PruneCompleted, IInv, Shape
<1>10. /\ registered' \subseteq Recipients /\ recipients \subseteq registered'
       /\ \A r \in Recipients : table[r] # NoLink => r \in registered'
       /\ \A r \in Recipients : (\E t \in Transitions : rows[<<t, r>>].status \in Unfinished) => r \in registered'
  BY <1>1 DEF Registered, Unfinished
<1>11. Shape' BY <1>1, <1>2, <1>4, <1>9, <1>10 DEF IInv, Shape
<1>12. BeforeInv'
  <2>1. alert = "none" => \A r \in Recipients : table[r] = NoLink
    BY <1>9 DEF IInv, BeforeInv
  <2> QED BY <1>1, <1>3, <1>5, <1>6, <1>8, <2>1 DEF IInv, BeforeInv
<1>13. ASSUME NEW w \in Workers PROVE WorkerInv(w)'
  <2>1. workers'[w] = Idle /\ Idle.pc \notin Active BY <1>1 DEF Idle, Active
  <2> QED BY <2>1, IdleKeeps
<1>14. RowInv'
  <2> SUFFICES ASSUME NEW d \in Deliveries
               PROVE  /\ rows'[d].status \in Unfinished => d[2] \in registered'
                      /\ rows'[d].status = "failed" => d[2] \in parked
    BY <1>2 DEF RowInv
  <2>1. d[1] \in Transitions /\ d[2] \in Recipients /\ d = <<d[1], d[2]>> BY DeliveryFacts
  <2>2. rows[<<d[1], d[2]>>].status \in Unfinished => d[2] \in registered' BY <1>10, <2>1
  <2> QED BY <1>3, <2>1, <2>2 DEF IInv, RowInv
<1>15. LinkInv'
  <2>1. ASSUME NEW r \in Recipients, table[r] = NoLink
        PROVE  Finished \/ (recorded[r] = {} /\ \A t \in Transitions : ~Told(r, t))
    <3>1. CASE links[r] = NoLink BY <3>1 DEF IInv, LinkInv
    <3>2. CASE links[r] # NoLink /\ "resolved" \in links[r] /\ ~\E t \in Transitions : Kept(t)
      <4>1. Told(r, "resolved") BY <3>2 DEF IInv, LinkInv
      <4>2. alert = "resolved" BY <4>1 DEF IInv, BeforeInv
      <4>3. \A d \in Deliveries : rows[d].status = "absent" BY <3>2, DeliveryFacts DEF Kept
      <4> QED BY <4>2, <4>3 DEF Finished
    <3> QED BY <1>9, <2>1, <3>1, <3>2
  <2>2. \A r \in Recipients : table[r] # NoLink => table[r] = recorded[r] BY <1>9 DEF IInv, LinkInv
  <2>3. \A r \in Recipients : "resolved" \in recorded[r] => Told(r, "resolved") BY DEF IInv, LinkInv
  <2> QED BY <1>1, <1>2, <1>5, <1>8, <1>10, <2>1, <2>2, <2>3 DEF LinkInv
<1>16. TheirsInv' BY <1>1, <1>5, <1>8, <1>9 DEF IInv, TheirsInv
<1>17. OrderInv'
  <2>1. InOrder' BY <1>1, <1>2 DEF IInv, OrderInv, InOrder
  <2> QED BY <1>2, <1>3, <1>5, <1>6, <1>8, <2>1 DEF IInv, OrderInv
<1>18. ResolutionInv'
  <2> SUFFICES ASSUME alert' = "resolved", NEW r \in Recipients
               PROVE  Told(r, "resolved")' \/ Due(r)' \/ NeverOpened(r)'
    BY DEF ResolutionInv
  <2>1. Told(r, "resolved") \/ Due(r) \/ NeverOpened(r) BY <1>1 DEF IInv, ResolutionInv
  <2>2. Due(r) => Due(r)' BY <1>2, <1>3, <1>6 DEF Due
  <2> QED BY <1>5, <1>8, <2>1, <2>2
<1> QED BY <1>11, <1>12, <1>13, <1>14, <1>15, <1>16, <1>17, <1>18 DEF IInv

-----------------------------------------------------------------------------
(* The theorems.                                                           *)

LEMMA InitInv == Init => IInv
<1> SUFFICES ASSUME Init PROVE IInv OBVIOUS
<1>1. /\ alert = "none" /\ \A r \in Recipients : links[r] = NoLink /\ recorded[r] = {} /\ chats[r] = <<>>
      /\ parked = {}
  BY DEF Init
<1>2. \A d \in Deliveries : rows[d].status = "absent" /\ rows[d] \in Row BY DEF Init, Absent, Row
<1>3. \A r, t : r \in Recipients => ~Told(r, t) BY <1>1 DEF Told
<1>4. \A w \in Workers : workers[w] = Idle /\ Idle.pc \notin Active BY DEF Init, Idle, Active
<1>5. \A r \in Recipients : <<"resolved", r>> \in Deliveries BY DeliveryFacts DEF Transitions
<1>6. Shape
  <2>1. \A r \in Recipients : chats[r] \in Seq(Transitions) BY <1>1, EmptySeq
  <2>2. rows \in [Deliveries -> Row] BY <1>2 DEF Init
  <2>3. chats \in [Recipients -> Seq(Transitions)] BY <2>1 DEF Init
  <2> QED BY <2>2, <2>3 DEF Init, Shape
<1>7. BeforeInv BY <1>1, <1>2, <1>3, <1>5 DEF BeforeInv
<1>8. \A w \in Workers : WorkerInv(w) BY <1>4 DEF WorkerInv, Active
<1>9. RowInv BY <1>2 DEF RowInv, Unfinished
<1>10. LinkInv BY <1>1, <1>3 DEF LinkInv
<1>11. TheirsInv BY <1>1, <1>3 DEF TheirsInv
<1>12. OrderInv
  <2>1. InOrder BY <1>1 DEF InOrder
  <2> QED BY <1>2, <1>3, <1>5, <2>1 DEF OrderInv
<1>13. ResolutionInv BY <1>1 DEF ResolutionInv
<1> QED BY <1>6, <1>7, <1>8, <1>9, <1>10, <1>11, <1>12, <1>13 DEF IInv

LEMMA NextInv == IInv /\ [Next]_vars => IInv'
<1> SUFFICES ASSUME IInv, [Next]_vars PROVE IInv' OBVIOUS
<1>1. ASSUME NEW w \in Workers, Work(w) PROVE IInv'
  BY <1>1, ClaimStep, HandleStep, NotifyStep, MarkStep, AcknowledgeStep, FailStep, LeaseStep DEF Work
<1>2. ASSUME NEW recipients \in SUBSET Recipients, Restart(recipients) PROVE IInv' BY <1>2, RestartStep
<1>3. CASE UNCHANGED vars
  <2>1. UNCHANGED <<source, rows, links, workers, chats, recorded, parked, waived>>
    BY <1>3 DEF vars, history
  <2>2. RowsKeep BY <2>1 DEF RowsKeep
  <2>3. \A v \in Workers : WorkerInv(v)' BY <2>1, <2>2, OutboxOthers
  <2>4. \A x \in Deliveries : rows'[x].status = "failed" => x[2] \in parked BY <2>1 DEF IInv, RowInv
  <2> QED BY <2>1, <2>2, <2>3, <2>4, OutboxStep DEF IInv, Shape
<1> QED BY <1>1, <1>2, <1>3, OpenStep, ResolveStep, OperatorStep DEF Next

LEMMA SpecInv == Spec => []IInv
BY InitInv, NextInv, PTL DEF Spec

\* Nobody hears of a resolution who was not on the route of the opening,
\* unless nobody heard of that either; messages come in order unless a
\* delivery was parked; links record what was marked.
THEOREM NotificationsCorrect == Spec => []NotificationInvariant
<1>1. IInv => NotificationInvariant
  <2> SUFFICES ASSUME IInv PROVE NotificationInvariant OBVIOUS
  <2>1. NotificationTypeOK
    <3>1. \A r \in Recipients : links[r] = NoLink \/ links[r] = recorded[r] BY DEF IInv, LinkInv
    <3>2. Row = [status: {"absent", "pending", "processing", "delivered", "failed"},
                 owner: Workers \cup {None}, expired: BOOLEAN]
      <4>1. Unfinished \cup {"absent", "delivered"} = {"absent", "pending", "processing", "delivered", "failed"}
        BY DEF Unfinished
      <4> QED BY <4>1 DEF Row
    <3> QED BY <3>1, <3>2 DEF NotificationTypeOK, IInv, Shape
  <2>2. OnlyTheirAlerts BY DEF IInv, TheirsInv, NoOpening, OnlyTheirAlerts
  <2>3. InOrder BY DEF IInv, OrderInv
  <2> QED BY <2>1, <2>2, <2>3 DEF NotificationInvariant
<1> QED BY <1>1, SpecInv, PTL

\* Whoever was told of the opening is told of the resolution, unless its
\* delivery is still kept or an operator discarded it.
THEOREM ResolutionReachesAll == Spec => []ToldOfResolution
<1>1. IInv => ToldOfResolution BY DEF IInv, ResolutionInv, NeverOpened, ToldOfResolution
<1> QED BY <1>1, SpecInv, PTL

\* No step of a handler decides to send what was recorded, or what a
\* recorded resolution has overtaken.
THEOREM RecordedStaysRecorded == Spec => RecordedIsNotRepeated
<1> DEFINE A == \A w \in Workers :
                  workers[w].pc = "handle" /\ workers'[w].pc = "notify" =>
                      recorded[workers[w].of[2]] \cap {workers[w].of[1], "resolved"} = {}
<1>1. IInv /\ [Next]_vars => A \/ UNCHANGED vars
  <2> SUFFICES ASSUME IInv, Next, NEW w \in Workers, workers[w].pc = "handle", workers'[w].pc = "notify"
               PROVE  recorded[workers[w].of[2]] \cap {workers[w].of[1], "resolved"} = {}
    OBVIOUS
  <2>1. workers[w].pc \in Active /\ workers[w].pc # "idle" BY DEF Active
  <2>2. ASSUME NEW v \in Workers, Work(v), v # w PROVE FALSE
    <3>1. workers'[w] = workers[w]
      BY <2>2 DEF Work, Claim, Handle, Notify, Mark, Acknowledge, Fail, LeaseExpires, GoOn, IInv, Shape
    <3> QED BY <3>1
  <2>3. ASSUME Work(w) PROVE recorded[workers[w].of[2]] \cap {workers[w].of[1], "resolved"} = {}
    <3>1. \A d \in Deliveries : ~Claim(w, d) BY DEF Claim, Idle
    <3>2. CASE Handle(w) BY <3>2, HandleStep
    <3>3. ~(Notify(w) \/ Mark(w) \/ Acknowledge(w) \/ Fail(w)) BY DEF Notify, Mark, Acknowledge, Fail
    <3>4. CASE LeaseExpires(w)
      <4>1. workers'[w].pc = "fail" BY <2>1, <3>4, GoOnFacts DEF LeaseExpires, IInv
      <4> QED BY <4>1
    <3> QED BY <2>3, <3>1, <3>2, <3>3, <3>4 DEF Work
  <2>4. ~(Open \/ Resolve) BY DEF Open, Resolve, Publish
  <2>5. \A d \in Deliveries : ~Replay(d) /\ ~Discard(d) BY DEF Replay, Discard
  <2>6. \A recipients : ~Restart(recipients) BY DEF Restart, Idle
  <2> QED BY <2>2, <2>3, <2>4, <2>5, <2>6 DEF Next
<1>2. IInv /\ [Next]_vars => [A]_vars BY <1>1
<1> QED BY <1>2, SpecInv, PTL DEF Spec, RecordedIsNotRepeated

===============================================================================
