----------------------------- MODULE OutboxProofs -----------------------------
(***************************************************************************)
(* The outbox implements the event ledger, and only the holder of a claim  *)
(* settles it, proved for any subscriptions, workers, attempts, crashes,   *)
(* lost leases, replays and numbers of publications.                       *)
(***************************************************************************)
EXTENDS Outbox, TLAPS

\* Deliveries of the publications made so far.
Known == (1..Len(parents)) \X Subscriptions

Row ==
    [status : {"pending", "processing", "delivered", "failed"}, attempts : Nat,
     owner : Workers \cup {None}, expired : BOOLEAN, due : BOOLEAN]

IsOpen(d)   == d \in DOMAIN rows /\ rows[d].status # "delivered"
Reached(d)  == \E i \in DOMAIN handled[d[2]] : handled[d[2]][i] = d[1]

\* The variables as whole functions and sequences.
Shape ==
    /\ parents \in Seq(Deliveries \cup {Root}) /\ Len(parents) <= MaxEvents
    /\ rows \in [DOMAIN rows -> Row] /\ DOMAIN rows \subseteq Known
    /\ pc \in [Workers -> {"idle", "claimed", "calling", "called", "failing"}]
    /\ held \in [Workers -> Known \cup {NoDelivery}]
    /\ fatal \in [Workers -> BOOLEAN]
    /\ handled \in [Subscriptions -> Seq(1..Len(parents))]
    /\ parked \subseteq Known /\ waived \subseteq Known

\* Only a parked delivery is shown as failed, and so only parked ones are replayed or discarded.
FailedIsParked == \A d \in DOMAIN rows : rows[d].status = "failed" => d \in parked

\* A DB-only handler has not taken effect for a delivery that is still open.
OpenIsNotProjected ==
    \A d \in DOMAIN rows : d[2] \notin External /\ IsOpen(d) => ~Reached(d)

\* Since w claimed its delivery, every earlier one of the subscription has ended or been parked.
HeldInTurn(w) ==
    \A x \in DOMAIN rows : x[2] = held[w][2] /\ x[1] < held[w][1] /\ IsOpen(x) => x \in parked

\* A call that w has still to make is for a delivery that is open, was waived by an operator, or
\* was already received; one that w made has been received.
CallJustified(w) ==
    /\ pc[w] \in {"calling", "called"} => held[w][2] \in External
    /\ pc[w] = "calling" => IsOpen(held[w]) \/ held[w] \in waived \/ Reached(held[w])
    /\ pc[w] = "called" => Reached(held[w])

WorkerInv(w) == pc[w] # "idle" => held[w] \in Known /\ HeldInTurn(w) /\ CallJustified(w)

IInv ==
    /\ Shape /\ FailedIsParked /\ OpenIsNotProjected
    /\ \A w \in Workers : WorkerInv(w)

\* Every step: what ended is not reopened, what is new belongs to the next publication, what
\* ends was waived or received; parked, waived and received deliveries stay so.
Progress ==
    /\ Len(parents) <= Len(parents')
    /\ parked \subseteq parked' /\ waived \subseteq waived'
    /\ handled' \in [Subscriptions -> Seq(1..Len(parents))]
    /\ \A x \in Known' : x \in Known \/ IsOpen(x)'
    /\ \A x \in DOMAIN rows' : IsOpen(x)' => IsOpen(x) \/ x[1] = Len(parents) + 1
    /\ \A x \in DOMAIN rows : IsOpen(x) => IsOpen(x)' \/ x \in waived' \/ Reached(x)'
    /\ \A x \in Known : Reached(x) => Reached(x)'

-----------------------------------------------------------------------------
(* The statements.                                                         *)

\* A new delivery is pending and unclaimed.
LEMMA NewRowType == NewRow \in Row
BY DEF NewRow, Row

\* Only delivered rows are deleted, and the others stay as they are.
LEMMA DeleteCompletedFacts ==
    ASSUME NEW t, t \in [DOMAIN t -> Row], NEW e
    PROVE  /\ DeleteCompleted(t, e) \in [DOMAIN DeleteCompleted(t, e) -> Row]
           /\ DOMAIN DeleteCompleted(t, e) \subseteq DOMAIN t
           /\ \A d \in DOMAIN DeleteCompleted(t, e) : DeleteCompleted(t, e)[d] = t[d]
           /\ \A d \in DOMAIN t : d \notin DOMAIN DeleteCompleted(t, e) => t[d].status = "delivered"
<1>1. CASE \A d \in DOMAIN t : d[1] = e => t[d].status = "delivered"
  <2> DEFINE r == [d \in {x \in DOMAIN t : x[1] # e} |-> t[d]]
  <2>1. DeleteCompleted(t, e) = r BY <1>1 DEF DeleteCompleted
  <2>2. DOMAIN r = {x \in DOMAIN t : x[1] # e} /\ r \in [DOMAIN r -> Row] OBVIOUS
  <2> QED BY <1>1, <2>1, <2>2
<1>2. CASE ~\A d \in DOMAIN t : d[1] = e => t[d].status = "delivered"
  <2>1. DeleteCompleted(t, e) = t BY <1>2 DEF DeleteCompleted
  <2> QED BY <2>1
<1> QED BY <1>1, <1>2

\* A publication adds its rows and touches no other.
LEMMA InsertedFacts ==
    ASSUME NEW t, t \in [DOMAIN t -> Row], NEW e,
           \A d \in DOMAIN t : d[1] # e
    PROVE  /\ Inserted(t, e) \in [DOMAIN Inserted(t, e) -> Row]
           /\ DOMAIN Inserted(t, e) = DOMAIN t \cup ({e} \X Subscriptions)
           /\ \A d \in DOMAIN t : Inserted(t, e)[d] = t[d]
           /\ \A d \in DOMAIN Inserted(t, e) : d \in DOMAIN t \/ Inserted(t, e)[d] = NewRow
BY NewRowType DEF Inserted

\* A settled row has no owner.
LEMMA SettledType ==
    ASSUME NEW row \in Row, NEW status \in {"pending", "processing", "delivered", "failed"}
    PROVE  Settled(row, status) \in Row /\ Settled(row, status).status = status
BY DEF Settled, Row

\* An acknowledgement marks the row delivered and may delete delivered rows.
LEMMA AcknowledgedFacts ==
    ASSUME Shape, NEW d \in DOMAIN rows
    PROVE  /\ Acknowledged(d) \in [DOMAIN Acknowledged(d) -> Row]
           /\ DOMAIN Acknowledged(d) \subseteq DOMAIN rows
           /\ \A x \in DOMAIN Acknowledged(d) : x # d => Acknowledged(d)[x] = rows[x]
           /\ d \in DOMAIN Acknowledged(d) => Acknowledged(d)[d].status = "delivered"
           /\ \A x \in DOMAIN rows :
                 x # d /\ x \notin DOMAIN Acknowledged(d) => rows[x].status = "delivered"
<1> DEFINE t == [rows EXCEPT ![d] = Settled(@, "delivered")]
<1>1. rows[d] \in Row BY DEF Shape
<1>2. Settled(rows[d], "delivered") \in Row /\ Settled(rows[d], "delivered").status = "delivered"
  BY <1>1, SettledType
<1>3. /\ t \in [DOMAIN t -> Row] /\ DOMAIN t = DOMAIN rows
      /\ t[d].status = "delivered" /\ \A x \in DOMAIN rows : x # d => t[x] = rows[x]
  BY <1>2 DEF Shape
<1>4. Acknowledged(d) = DeleteCompleted(t, d[1]) BY DEF Acknowledged
<1> HIDE DEF t
<1> QED BY <1>3, <1>4, DeleteCompletedFacts

-----------------------------------------------------------------------------
(* Publications received, and the deliveries known.                        *)

\* Known deliveries stay known.
LEMMA KnownGrows ==
    ASSUME Len(parents) \in Nat, Len(parents') \in Nat, Len(parents) <= Len(parents')
    PROVE  Known \subseteq Known'
BY DEF Known

\* The effect of a handler is appended to those of its subscription.
LEMMA ReachedAfter ==
    ASSUME Shape, NEW d \in Known,
           handled' = [handled EXCEPT ![d[2]] = Append(@, d[1])]
    PROVE  /\ handled' \in [Subscriptions -> Seq(1..Len(parents))]
           /\ Reached(d)'
           /\ \A x \in Known : Reached(x) => Reached(x)'
           /\ \A x \in Known : Reached(x)' => Reached(x) \/ x = d
<1>1. d[1] \in 1..Len(parents) /\ d[2] \in Subscriptions /\ d = <<d[1], d[2]>> BY DEF Known
<1>2. handled[d[2]] \in Seq(1..Len(parents)) BY <1>1 DEF Shape
<1>3. /\ handled'[d[2]] = Append(handled[d[2]], d[1])
      /\ \A s \in Subscriptions : s # d[2] => handled'[s] = handled[s]
  BY <1>1 DEF Shape
<1>4. /\ DOMAIN handled'[d[2]] = 1..(Len(handled[d[2]]) + 1)
      /\ \A i \in 1..Len(handled[d[2]]) : handled'[d[2]][i] = handled[d[2]][i]
      /\ handled'[d[2]][Len(handled[d[2]]) + 1] = d[1]
      /\ DOMAIN handled[d[2]] = 1..Len(handled[d[2]]) /\ Len(handled[d[2]]) \in Nat
  BY <1>2, <1>3
<1>5. handled' \in [Subscriptions -> Seq(1..Len(parents))] BY <1>1, <1>2, <1>3 DEF Shape
<1>6. Reached(d)' BY <1>4 DEF Reached
<1>7. ASSUME NEW x \in Known PROVE (Reached(x) => Reached(x)') /\ (Reached(x)' => Reached(x) \/ x = d)
  <2>1. x[2] \in Subscriptions /\ x = <<x[1], x[2]>> BY DEF Known
  <2>2. CASE x[2] # d[2] BY <1>3, <2>1, <2>2 DEF Reached
  <2>3. CASE x[2] = d[2]
    <3>1. \A i \in DOMAIN handled[d[2]] : i \in DOMAIN handled'[d[2]] /\ handled'[d[2]][i] = handled[d[2]][i]
      BY <1>4
    <3>2. \A i \in DOMAIN handled'[d[2]] : i \in DOMAIN handled[d[2]] \/ handled'[d[2]][i] = d[1]
      BY <1>4
    <3>3. \A i \in DOMAIN handled'[d[2]] : handled'[d[2]][i] = x[1] =>
             x[1] = d[1] \/ \E j \in DOMAIN handled[d[2]] : handled[d[2]][j] = x[1]
      BY <3>1, <3>2
    <3> QED BY <1>1, <2>1, <2>3, <3>1, <3>3 DEF Reached
  <2> QED BY <2>2, <2>3
<1> QED BY <1>5, <1>6, <1>7

-----------------------------------------------------------------------------
(* What a step that makes progress preserves.                              *)

\* A worker that takes no part in a step keeps what it knows.
LEMMA BystanderKeeps ==
    ASSUME IInv, Progress, Shape',
           NEW w \in Workers, pc'[w] = pc[w], held'[w] = held[w]
    PROVE  WorkerInv(w)'
<1> SUFFICES ASSUME pc[w] # "idle" PROVE held[w] \in Known' /\ HeldInTurn(w)' /\ CallJustified(w)'
  BY DEF WorkerInv
<1>1. held[w] \in Known /\ HeldInTurn(w) /\ CallJustified(w) BY DEF IInv, WorkerInv
<1>2. held[w][1] \in 1..Len(parents) /\ Len(parents) \in Nat /\ Len(parents') \in Nat
  BY <1>1 DEF IInv, Shape, Known
<1>3. held[w] \in Known' BY <1>1, <1>2, KnownGrows DEF Progress
<1>4. HeldInTurn(w)'
  <2> SUFFICES ASSUME NEW x \in DOMAIN rows', x[2] = held[w][2], x[1] < held[w][1], IsOpen(x)'
               PROVE  x \in parked'
    BY DEF HeldInTurn
  <2>1. IsOpen(x) BY <1>2 DEF Progress
  <2> QED BY <1>1, <2>1 DEF HeldInTurn, IsOpen, Progress
<1>5. CallJustified(w)' BY <1>1 DEF CallJustified, IsOpen, Progress
<1> QED BY <1>3, <1>4, <1>5

\* A DB-only effect and the end of its delivery coincide, so open deliveries stay unprojected.
LEMMA ProjectionKept ==
    ASSUME IInv, Progress, Shape',
           \A x \in Known : x[2] \notin External /\ Reached(x)' => Reached(x) \/ ~IsOpen(x)'
    PROVE  OpenIsNotProjected'
<1> SUFFICES ASSUME NEW x \in DOMAIN rows', x[2] \notin External, IsOpen(x)', Reached(x)' PROVE FALSE
  BY DEF OpenIsNotProjected
<1>1. CASE IsOpen(x)
  <2>1. x \in DOMAIN rows /\ x \in Known BY <1>1 DEF IsOpen, IInv, Shape
  <2> QED BY <1>1, <2>1 DEF IInv, OpenIsNotProjected
<1>2. CASE x[1] = Len(parents) + 1
  <2>1. x[2] \in Subscriptions BY DEF Shape, Known
  <2>2. handled'[x[2]] \in Seq(1..Len(parents)) BY <2>1 DEF Progress
  <2>3. Len(parents) \in Nat BY DEF IInv, Shape
  <2>4. PICK i \in DOMAIN handled'[x[2]] : handled'[x[2]][i] = x[1] BY DEF Reached
  <2>5. handled'[x[2]][i] \in 1..Len(parents) BY <2>2, <2>4
  <2> QED BY <1>2, <2>3, <2>4, <2>5
<1> QED BY <1>1, <1>2 DEF Progress

\* A step that neither publishes nor runs a handler, and only touches row d.
LEMMA RowStep ==
    ASSUME IInv, NEW d \in DOMAIN rows, NEW row \in Row,
           rows' = [rows EXCEPT ![d] = row],
           UNCHANGED <<parents, handled>>,
           parked \subseteq parked', waived' = waived,
           row.status = "delivered" <=> rows[d].status = "delivered"
    PROVE  /\ rows' \in [DOMAIN rows' -> Row] /\ DOMAIN rows' = DOMAIN rows
           /\ rows'[d] = row /\ \A x \in DOMAIN rows : x # d => rows'[x] = rows[x]
           /\ Progress
           /\ \A x \in Known : Reached(x)' => Reached(x)
           /\ \A x : IsOpen(x)' <=> IsOpen(x)
<1>1. /\ rows' \in [DOMAIN rows' -> Row] /\ DOMAIN rows' = DOMAIN rows
      /\ rows'[d] = row /\ \A x \in DOMAIN rows : x # d => rows'[x] = rows[x]
  BY DEF IInv, Shape
<1>2. \A x : IsOpen(x)' <=> IsOpen(x) BY <1>1 DEF IsOpen
<1>3. \A x : Reached(x)' <=> Reached(x) BY DEF Reached
<1>4. Progress BY <1>2, <1>3 DEF Progress, IInv, Shape, Known
<1> QED BY <1>1, <1>2, <1>3, <1>4

\* Neither rows, publications nor effects change.
LEMMA WorkerStep ==
    ASSUME IInv, UNCHANGED <<parents, rows, handled, parked, waived>>
    PROVE  /\ Progress /\ FailedIsParked' /\ OpenIsNotProjected'
           /\ \A x : (IsOpen(x)' <=> IsOpen(x)) /\ (Reached(x)' <=> Reached(x))
           /\ Known' = Known
<1>1. \A x : (IsOpen(x)' <=> IsOpen(x)) /\ (Reached(x)' <=> Reached(x)) BY DEF IsOpen, Reached
<1>2. Progress BY <1>1 DEF Progress, IInv, Shape, Known
<1>3. FailedIsParked' BY DEF IInv, FailedIsParked
<1>4. OpenIsNotProjected' BY <1>1 DEF IInv, OpenIsNotProjected
<1> QED BY <1>1, <1>2, <1>3, <1>4 DEF Known

-----------------------------------------------------------------------------
(* Every action preserves the invariant and is a step of the ledger.       *)

OpenSet == {d \in DOMAIN rows : rows[d].status # "delivered"}

LedgerStep == Ledger!LedgerNext \/ UNCHANGED <<parents, OpenSet, handled, parked, waived>>

\* The mapped variables are unchanged when the same deliveries are open.
LEMMA SameOpen ==
    ASSUME \A x : IsOpen(x)' <=> IsOpen(x), UNCHANGED <<parents, handled, parked, waived>>
    PROVE  LedgerStep
BY DEF LedgerStep, OpenSet, IsOpen

\* The ledger's entries are the deliveries of what was published.
LEMMA EntryStep ==
    ASSUME Shape, NEW d \in Known,
           \/ Ledger!Project(d) \/ Ledger!Reach(d) \/ Ledger!End(d)
           \/ Ledger!Park(d) \/ Ledger!Waive(d)
    PROVE  LedgerStep
<1>1. DOMAIN parents = 1..Len(parents) BY DEF Shape
<1>2. Ledger!Entries = Known BY <1>1 DEF Ledger!Entries, Ledger!Published, Known
<1> QED BY <1>2 DEF LedgerStep, Ledger!LedgerNext

\* Deliveries end and nothing is published.
LEMMA RecordNothing ==
    ASSUME Shape, parents' = parents, NEW ds, OpenSet' = OpenSet \ ds
    PROVE  Ledger!Record(<< >>, ds)
<1>1. parents' = parents \o << >> /\ Len(parents \o << >>) = Len(parents) /\ Len(parents) \in Nat
  BY DEF Shape
<1>2. (Len(parents) + 1 .. Len(parents \o << >>)) = {} BY <1>1
<1>3. OpenSet' = (OpenSet \ ds) \cup ((Len(parents) + 1 .. Len(parents \o << >>)) \X Subscriptions)
  BY <1>2
<1> QED BY <1>1, <1>3 DEF Ledger!Record, OpenSet

\* A publication announces itself and opens one delivery for every subscription.
LEMMA PublishStep == IInv /\ Publish => IInv' /\ Progress /\ LedgerStep
<1> SUFFICES ASSUME IInv, Publish PROVE IInv' /\ Progress /\ LedgerStep OBVIOUS
<1> DEFINE n == Len(parents) + 1
<1>1. n \in Nat \ {0} /\ n <= MaxEvents /\ Len(parents) \in Nat
  BY OutboxBounds DEF Publish, IInv, Shape
<1>2. /\ parents' = parents \o <<Root>>
      /\ parents' \in Seq(Deliveries \cup {Root}) /\ Len(parents') = n
  BY <1>1 DEF Publish, IInv, Shape
<1>3. \A d \in DOMAIN rows : d[1] # n BY <1>1 DEF IInv, Shape, Known
<1>4. /\ rows' \in [DOMAIN rows' -> Row] /\ DOMAIN rows' = DOMAIN rows \cup ({n} \X Subscriptions)
      /\ \A d \in DOMAIN rows : rows'[d] = rows[d]
      /\ \A d \in DOMAIN rows' : d \in DOMAIN rows \/ rows'[d] = NewRow
  <2>1. rows' = Inserted(rows, n) BY DEF Publish
  <2>2. rows \in [DOMAIN rows -> Row] BY DEF IInv, Shape
  <2> HIDE DEF n
  <2>3. DOMAIN Inserted(rows, n) = DOMAIN rows \cup ({n} \X Subscriptions) BY <1>3, <2>2, InsertedFacts
  <2>4. /\ Inserted(rows, n) \in [DOMAIN Inserted(rows, n) -> Row]
        /\ \A d \in DOMAIN rows : Inserted(rows, n)[d] = rows[d]
        /\ \A d \in DOMAIN Inserted(rows, n) : d \in DOMAIN rows \/ Inserted(rows, n)[d] = NewRow
    BY <1>3, <2>2, InsertedFacts
  <2> QED BY <2>1, <2>3, <2>4
<1>5. Known \subseteq Known' /\ {n} \X Subscriptions \subseteq Known'
  BY <1>1, <1>2 DEF Known
<1>6. UNCHANGED <<pc, held, fatal, handled, parked, waived>>
  BY DEF Publish, workerVars, historyVars
<1>7. \A x : IsOpen(x)' <=> IsOpen(x) \/ x \in {n} \X Subscriptions
  BY <1>3, <1>4 DEF IsOpen, NewRow
<1>8. Progress
  <2>1. \A x \in Known' : x \in Known \/ x \in {n} \X Subscriptions BY <1>1, <1>2 DEF Known
  <2> QED BY <1>1, <1>2, <1>6, <1>7, <2>1 DEF Progress, Reached, IInv, Shape
<1>9. Shape'
  <2>1. handled' \in [Subscriptions -> Seq(1..Len(parents'))]
    BY <1>1, <1>2, <1>6 DEF IInv, Shape
  <2> QED BY <1>1, <1>2, <1>4, <1>5, <1>6, <2>1 DEF IInv, Shape
<1>10. FailedIsParked' BY <1>4, <1>6 DEF IInv, FailedIsParked, NewRow
<1>11. OpenIsNotProjected' BY <1>6, <1>8, <1>9, ProjectionKept DEF Reached
<1>12. \A w \in Workers : WorkerInv(w)' BY <1>6, <1>8, <1>9, BystanderKeeps
<1>13. Ledger!Announce
  <2>1. Len(parents \o <<Root>>) = n BY <1>2
  <2>2. OpenSet' = (OpenSet \ {}) \cup ((n .. n) \X Subscriptions)
    <3>1. n .. n = {n} BY <1>1
    <3> QED BY <1>7, <3>1 DEF OpenSet, IsOpen
  <2> QED BY <1>2, <1>6, <2>1, <2>2 DEF Ledger!Announce, Ledger!Record, OpenSet
<1> QED BY <1>8, <1>9, <1>10, <1>11, <1>12, <1>13 DEF IInv, LedgerStep, Ledger!LedgerNext

\* A step of the operator or of time that rewrites row d, which stays open.
LEMMA TouchStep ==
    ASSUME IInv, NEW d \in DOMAIN rows, NEW row \in Row,
           rows' = [rows EXCEPT ![d] = row],
           rows[d].status # "delivered",
           row.status = "delivered" <=> rows[d].status = "delivered",
           row.status = "failed" => rows[d].status = "failed",
           UNCHANGED <<parents, workerVars, historyVars>>
    PROVE  IInv' /\ Progress /\ LedgerStep
<1>1. UNCHANGED <<parents, pc, held, fatal, handled, parked, waived>> BY DEF workerVars, historyVars
<1>2. /\ rows' \in [DOMAIN rows' -> Row] /\ DOMAIN rows' = DOMAIN rows
      /\ rows'[d] = row /\ \A x \in DOMAIN rows : x # d => rows'[x] = rows[x]
      /\ Progress
      /\ \A x \in Known : Reached(x)' => Reached(x)
      /\ \A x : IsOpen(x)' <=> IsOpen(x)
  BY <1>1, RowStep
<1>3. Shape' BY <1>1, <1>2 DEF IInv, Shape, Known
<1>4. FailedIsParked' BY <1>1, <1>2 DEF IInv, FailedIsParked
<1>5. OpenIsNotProjected' BY <1>2, <1>3, ProjectionKept
<1>6. \A w \in Workers : WorkerInv(w)' BY <1>1, <1>2, <1>3, BystanderKeeps
<1>7. LedgerStep BY <1>1, <1>2, SameOpen
<1> QED BY <1>2, <1>3, <1>4, <1>5, <1>6, <1>7 DEF IInv

\* A replay opens nothing: a failed delivery never ended.
LEMMA ReplayStep == ASSUME NEW d \in DOMAIN rows PROVE IInv /\ Replay(d) => IInv' /\ Progress /\ LedgerStep
<1> SUFFICES ASSUME IInv, Replay(d) PROVE IInv' /\ Progress /\ LedgerStep OBVIOUS
<1>1. NewRow \in Row /\ NewRow.status = "pending" BY NewRowType DEF NewRow
<1> QED BY <1>1, TouchStep DEF Replay

\* A retry time that comes, and a lease that runs out, are invisible to the ledger.
LEMMA BecomeDueStep == ASSUME NEW d \in DOMAIN rows PROVE IInv /\ BecomeDue(d) => IInv' /\ Progress /\ LedgerStep
<1> SUFFICES ASSUME IInv, BecomeDue(d) PROVE IInv' /\ Progress /\ LedgerStep OBVIOUS
<1> DEFINE row == [rows[d] EXCEPT !.due = TRUE]
<1>1. rows[d] \in Row BY DEF IInv, Shape
<1>2. row \in Row /\ row.status = rows[d].status BY <1>1 DEF Row
<1>3. rows' = [rows EXCEPT ![d] = row] BY DEF BecomeDue
<1>4. rows[d].status = "pending" /\ UNCHANGED <<parents, workerVars, historyVars>> BY DEF BecomeDue
<1> HIDE DEF row
<1> QED BY <1>2, <1>3, <1>4, TouchStep

\* See BecomeDueStep.
LEMMA ExpireLeaseStep == ASSUME NEW d \in DOMAIN rows PROVE IInv /\ ExpireLease(d) => IInv' /\ Progress /\ LedgerStep
<1> SUFFICES ASSUME IInv, ExpireLease(d) PROVE IInv' /\ Progress /\ LedgerStep OBVIOUS
<1> DEFINE row == [rows[d] EXCEPT !.expired = TRUE]
<1>1. rows[d] \in Row BY DEF IInv, Shape
<1>2. row \in Row /\ row.status = rows[d].status BY <1>1 DEF Row
<1>3. rows' = [rows EXCEPT ![d] = row] BY DEF ExpireLease
<1>4. rows[d].status = "processing" /\ UNCHANGED <<parents, workerVars, historyVars>> BY DEF ExpireLease
<1> HIDE DEF row
<1> QED BY <1>2, <1>3, <1>4, TouchStep

\* An operator waives a delivery that was parked.
LEMMA DiscardStep == ASSUME NEW d \in DOMAIN rows PROVE IInv /\ Discard(d) => IInv' /\ Progress /\ LedgerStep
<1> SUFFICES ASSUME IInv, Discard(d) PROVE IInv' /\ Progress /\ LedgerStep OBVIOUS
<1> DEFINE t == [rows EXCEPT ![d].status = "delivered"]
<1>1. UNCHANGED <<parents, pc, held, fatal, handled, parked>> /\ waived' = waived \cup {d}
  BY DEF Discard, workerVars
<1>2. rows[d] \in Row /\ d \in Known /\ d \in parked /\ IsOpen(d)
  BY DEF Discard, IInv, Shape, FailedIsParked, IsOpen
<1>3. [rows[d] EXCEPT !.status = "delivered"] \in Row BY <1>2 DEF Row
<1>4. /\ t \in [DOMAIN t -> Row] /\ DOMAIN t = DOMAIN rows
      /\ t[d].status = "delivered" /\ \A x \in DOMAIN rows : x # d => t[x] = rows[x]
  BY <1>2, <1>3 DEF IInv, Shape, Row
<1>5. rows' = DeleteCompleted(t, d[1]) BY DEF Discard
<1>6. /\ rows' \in [DOMAIN rows' -> Row] /\ DOMAIN rows' \subseteq DOMAIN rows
      /\ \A x \in DOMAIN rows' : x # d => rows'[x] = rows[x]
      /\ d \in DOMAIN rows' => rows'[d].status = "delivered"
      /\ \A x \in DOMAIN rows : x # d /\ x \notin DOMAIN rows' => rows[x].status = "delivered"
  <2> HIDE DEF t
  <2> QED BY <1>4, <1>5, DeleteCompletedFacts
<1>7. \A x : IsOpen(x)' <=> IsOpen(x) /\ x # d BY <1>6 DEF IsOpen
<1>8. Progress BY <1>1, <1>7 DEF Progress, IInv, Shape, Reached, Known
<1>9. Shape' BY <1>1, <1>2, <1>6 DEF IInv, Shape, Known
<1>10. FailedIsParked' BY <1>1, <1>6 DEF IInv, FailedIsParked
<1>11. OpenIsNotProjected' BY <1>1, <1>8, <1>9, ProjectionKept DEF Reached
<1>12. \A w \in Workers : WorkerInv(w)' BY <1>1, <1>8, <1>9, BystanderKeeps
<1>13. Ledger!Waive(d)
  <2>1. OpenSet' = OpenSet \ {d} BY <1>7 DEF OpenSet, IsOpen
  <2>2. Ledger!Record(<< >>, {d}) BY <1>1, <2>1, RecordNothing DEF IInv
  <2>3. d \in OpenSet \cap parked BY <1>2 DEF OpenSet, IsOpen
  <2> QED BY <1>1, <2>2, <2>3 DEF Ledger!Waive, OpenSet
<1>14. LedgerStep BY <1>2, <1>13, EntryStep DEF IInv
<1> QED BY <1>8, <1>9, <1>10, <1>11, <1>12, <1>14 DEF IInv

-----------------------------------------------------------------------------
(* The steps of a worker.                                                  *)

\* A claim is invisible to the ledger; it is made when the delivery is in turn.
LEMMA ClaimStep ==
    ASSUME NEW w \in Workers, NEW d \in DOMAIN rows
    PROVE  IInv /\ Claim(w, d) => IInv' /\ Progress /\ LedgerStep
<1> SUFFICES ASSUME IInv, Claim(w, d) PROVE IInv' /\ Progress /\ LedgerStep OBVIOUS
<1> DEFINE row == [status |-> "processing", owner |-> w, expired |-> FALSE, due |-> TRUE,
                   attempts |-> IF rows[d].attempts < MaxAttempts THEN rows[d].attempts + 1
                                ELSE MaxAttempts]
<1>1. rows[d] \in Row /\ d \in Known BY DEF IInv, Shape
<1>2. row \in Row /\ row.status = "processing" BY <1>1, AttemptsPositive DEF Row
<1>3. rows' = [rows EXCEPT ![d] = row] BY DEF Claim
<1>4. /\ UNCHANGED <<parents, fatal, handled, parked, waived>>
      /\ pc' = [pc EXCEPT ![w] = "claimed"] /\ held' = [held EXCEPT ![w] = d]
      /\ Claimable(d)
  BY DEF Claim, historyVars
<1>5. rows[d].status # "delivered" BY <1>4 DEF Claimable
<1> HIDE DEF row
<1>6. /\ rows' \in [DOMAIN rows' -> Row] /\ DOMAIN rows' = DOMAIN rows
      /\ rows'[d] = row /\ \A x \in DOMAIN rows : x # d => rows'[x] = rows[x]
      /\ Progress
      /\ \A x \in Known : Reached(x)' => Reached(x)
      /\ \A x : IsOpen(x)' <=> IsOpen(x)
  BY <1>2, <1>3, <1>4, <1>5, RowStep
<1>7. Shape' BY <1>1, <1>4, <1>6 DEF IInv, Shape, Known
<1>8. FailedIsParked' BY <1>2, <1>4, <1>6 DEF IInv, FailedIsParked
<1>9. OpenIsNotProjected' BY <1>6, <1>7, ProjectionKept
<1>10. ASSUME NEW v \in Workers PROVE WorkerInv(v)'
  <2>1. CASE v # w
    <3>1. pc'[v] = pc[v] /\ held'[v] = held[v] BY <1>4, <2>1 DEF IInv, Shape
    <3> QED BY <1>6, <1>7, <3>1, BystanderKeeps
  <2>2. CASE v = w
    <3>1. pc'[w] = "claimed" /\ held'[w] = d BY <1>4 DEF IInv, Shape
    <3>2. HeldInTurn(w)'
      <4> SUFFICES ASSUME NEW x \in DOMAIN rows', x[2] = d[2], x[1] < d[1], IsOpen(x)'
                   PROVE  x \in parked'
        BY <3>1 DEF HeldInTurn
      <4>1. rows[x].status \notin {"pending", "processing", "delivered"} BY <1>4, <1>6 DEF Claimable, IsOpen
      <4>2. rows[x] \in Row BY <1>6 DEF IInv, Shape
      <4>3. rows[x].status = "failed" BY <4>1, <4>2 DEF Row
      <4> QED BY <1>4, <1>6, <4>3 DEF IInv, FailedIsParked
    <3>3. d \in Known' BY <1>1, <1>4 DEF Known
    <3> QED BY <2>2, <3>1, <3>2, <3>3 DEF WorkerInv, CallJustified
  <2> QED BY <2>1, <2>2
<1>11. LedgerStep BY <1>4, <1>6, SameOpen
<1> QED BY <1>6, <1>7, <1>8, <1>9, <1>10, <1>11 DEF IInv

\* Worker w changes what it does and keeps its delivery; nothing else happens.
LEMMA PcStep ==
    ASSUME IInv, NEW w \in Workers, pc[w] # "idle",
           NEW p \in {"calling", "failing"},
           pc' = [pc EXCEPT ![w] = p], fatal' \in [Workers -> BOOLEAN],
           UNCHANGED <<parents, rows, held, handled, parked, waived>>,
           p = "calling" => held[w][2] \in External /\ IsOpen(held[w])
    PROVE  IInv' /\ Progress /\ LedgerStep
<1>1. /\ Progress /\ FailedIsParked' /\ OpenIsNotProjected' /\ Known' = Known
      /\ \A x : (IsOpen(x)' <=> IsOpen(x)) /\ (Reached(x)' <=> Reached(x))
  BY WorkerStep
<1>2. Shape' BY <1>1 DEF IInv, Shape
<1>3. ASSUME NEW v \in Workers PROVE WorkerInv(v)'
  <2>1. CASE v # w
    <3>1. pc'[v] = pc[v] /\ held'[v] = held[v] BY <2>1 DEF IInv, Shape
    <3> QED BY <1>1, <1>2, <3>1, BystanderKeeps
  <2>2. CASE v = w
    <3>1. pc'[w] = p /\ held'[w] = held[w] BY DEF IInv, Shape
    <3>2. held[w] \in Known /\ HeldInTurn(w) BY DEF IInv, WorkerInv
    <3>3. HeldInTurn(w)' BY <1>1, <3>1, <3>2 DEF HeldInTurn
    <3>4. CallJustified(w)' BY <1>1, <3>1 DEF CallJustified
    <3> QED BY <1>1, <2>2, <3>1, <3>2, <3>3, <3>4 DEF WorkerInv
  <2> QED BY <2>1, <2>2
<1>4. LedgerStep BY <1>1, SameOpen
<1> QED BY <1>1, <1>2, <1>3, <1>4 DEF IInv

\* Giving up, and the lease check before a call.
LEMMA ControlStep ==
    ASSUME NEW w \in Workers
    PROVE  IInv /\ (Undeliverable(w) \/ Stumble(w) \/ CheckLease(w)) => IInv' /\ Progress /\ LedgerStep
<1> SUFFICES ASSUME IInv, Undeliverable(w) \/ Stumble(w) \/ CheckLease(w) PROVE IInv' /\ Progress /\ LedgerStep
  OBVIOUS
<1>1. ASSUME NEW b \in BOOLEAN, pc[w] # "idle", ProcessFails(w, b) PROVE IInv' /\ Progress /\ LedgerStep
  <2>1. /\ pc' = [pc EXCEPT ![w] = "failing"]
        /\ UNCHANGED <<parents, rows, held, handled, parked, waived>>
    BY <1>1 DEF ProcessFails, dbVars, historyVars
  <2>2. fatal' \in [Workers -> BOOLEAN] BY <1>1 DEF ProcessFails, IInv, Shape
  <2> QED BY <1>1, <2>1, <2>2, PcStep
<1>2. CASE Undeliverable(w) BY <1>1, <1>2 DEF Undeliverable
<1>3. CASE Stumble(w) BY <1>1, <1>3 DEF Stumble
<1>4. CASE CheckLease(w)
  <2>1. /\ pc' = [pc EXCEPT ![w] = "calling"] /\ pc[w] # "idle"
        /\ UNCHANGED <<parents, rows, held, handled, parked, waived>>
        /\ held[w][2] \in External /\ IsOpen(held[w])
    BY <1>4 DEF CheckLease, dbVars, historyVars, LeaseHeld, IsOpen
  <2>2. fatal' \in [Workers -> BOOLEAN] BY <1>4 DEF CheckLease, IInv, Shape
  <2> QED BY <2>1, <2>2, PcStep
<1> QED BY <1>2, <1>3, <1>4

\* A worker that goes back to polling claims nothing.
LEMMA IdleShape ==
    ASSUME Shape, NEW w \in Workers, Idle(w), Known \subseteq Known'
    PROVE  /\ pc' \in [Workers -> {"idle", "claimed", "calling", "called", "failing"}]
           /\ held' \in [Workers -> Known' \cup {NoDelivery}] /\ fatal' \in [Workers -> BOOLEAN]
BY DEF Shape, Idle

\* See IdleShape.
LEMMA IdleKeeps ==
    ASSUME IInv, Progress, Shape', NEW w \in Workers, Idle(w)
    PROVE  \A v \in Workers : WorkerInv(v)'
<1> SUFFICES ASSUME NEW v \in Workers PROVE WorkerInv(v)' OBVIOUS
<1>1. CASE v # w
  <2>1. pc'[v] = pc[v] /\ held'[v] = held[v] BY <1>1 DEF IInv, Shape, Idle
  <2> QED BY <2>1, BystanderKeeps
<1>2. CASE v = w
  <2>1. pc'[w] = "idle" BY DEF IInv, Shape, Idle
  <2> QED BY <1>2, <2>1 DEF WorkerInv
<1> QED BY <1>1, <1>2

\* A call that arrives for the first time is an effect of the ledger, in turn; a repeated one is
\* invisible.
LEMMA CallStep == ASSUME NEW w \in Workers PROVE IInv /\ Call(w) => IInv' /\ Progress /\ LedgerStep
<1> SUFFICES ASSUME IInv, Call(w) PROVE IInv' /\ Progress /\ LedgerStep OBVIOUS
<1> PICK d : d = held[w] OBVIOUS
<1>1. /\ pc[w] = "calling" /\ pc' = [pc EXCEPT ![w] = "called"]
      /\ UNCHANGED <<parents, rows, held, fatal, parked, waived>>
  BY DEF Call, dbVars
<1>2. d \in Known /\ HeldInTurn(w) /\ CallJustified(w) BY <1>1 DEF IInv, WorkerInv
<1>3. d[2] \in External /\ (IsOpen(d) \/ d \in waived \/ Reached(d)) BY <1>1, <1>2 DEF CallJustified
<1>4. Reached(d) <=> d[1] \in Range(handled[d[2]]) BY DEF Reached, Range
<1>5. /\ handled' \in [Subscriptions -> Seq(1..Len(parents))] /\ Reached(d)'
      /\ \A x \in Known : Reached(x) => Reached(x)'
      /\ \A x \in Known : Reached(x)' => Reached(x) \/ x = d
  <2>1. CASE Reached(d)
    <3>1. handled' = handled BY <1>4, <2>1 DEF Call
    <3> QED BY <2>1, <3>1 DEF Reached, IInv, Shape
  <2>2. CASE ~Reached(d)
    <3>1. handled' = [handled EXCEPT ![d[2]] = Append(@, d[1])] BY <1>4, <2>2 DEF Call
    <3> QED BY <1>2, <3>1, ReachedAfter DEF IInv
  <2> QED BY <2>1, <2>2
<1>6. \A x : IsOpen(x)' <=> IsOpen(x) BY <1>1 DEF IsOpen
<1>7. Progress BY <1>1, <1>5, <1>6 DEF Progress, IInv, Shape, Known
<1>8. Shape' BY <1>1, <1>5 DEF IInv, Shape, Known
<1>9. FailedIsParked' BY <1>1 DEF IInv, FailedIsParked
<1>10. OpenIsNotProjected' BY <1>3, <1>5, <1>7, <1>8, ProjectionKept
<1>11. ASSUME NEW v \in Workers PROVE WorkerInv(v)'
  <2>1. CASE v # w
    <3>1. pc'[v] = pc[v] /\ held'[v] = held[v] BY <1>1, <2>1 DEF IInv, Shape
    <3> QED BY <1>7, <1>8, <3>1, BystanderKeeps
  <2>2. CASE v = w
    <3>1. pc'[w] = "called" /\ held'[w] = d BY <1>1 DEF IInv, Shape
    <3>2. HeldInTurn(w)' BY <1>1, <1>2, <1>6 DEF HeldInTurn
    <3>3. CallJustified(w)' BY <1>3, <1>5, <3>1 DEF CallJustified
    <3>4. d \in Known' BY <1>1, <1>2 DEF Known
    <3> QED BY <2>2, <3>1, <3>2, <3>3, <3>4 DEF WorkerInv
  <2> QED BY <2>1, <2>2
<1>12. LedgerStep
  <2>1. CASE Reached(d)
    <3>1. handled' = handled BY <1>4, <2>1 DEF Call
    <3> QED BY <1>1, <1>6, <3>1, SameOpen
  <2>2. CASE ~Reached(d)
    <3>1. handled' = [handled EXCEPT ![d[2]] = Append(@, d[1])] BY <1>4, <2>2 DEF Call
    <3>2. d \in OpenSet \cup waived BY <1>3, <2>2 DEF OpenSet, IsOpen
    <3>3. \A x \in OpenSet : x[2] = d[2] /\ x[1] < d[1] => x \in parked
      BY <1>2 DEF HeldInTurn, OpenSet, IsOpen
    <3>4. UNCHANGED <<parents, OpenSet, parked, waived>> BY <1>1 DEF OpenSet
    <3>5. Ledger!Reach(d)
      BY <1>3, <2>2, <3>1, <3>2, <3>3, <3>4
         DEF Ledger!Reach, Ledger!Seen, Ledger!InTurn, Ledger!Take, Reached, OpenSet
    <3> QED BY <1>2, <3>5, EntryStep DEF IInv
  <2> QED BY <2>1, <2>2
<1> QED BY <1>7, <1>8, <1>9, <1>10, <1>11, <1>12 DEF IInv

\* The acknowledgement of a call ends a delivery that was received.
LEMMA AcknowledgeCallStep ==
    ASSUME NEW w \in Workers PROVE IInv /\ AcknowledgeCall(w) => IInv' /\ Progress /\ LedgerStep
<1> SUFFICES ASSUME IInv, AcknowledgeCall(w) PROVE IInv' /\ Progress /\ LedgerStep OBVIOUS
<1> PICK d : d = held[w] OBVIOUS
<1>1. /\ pc[w] = "called" /\ LeaseHeld(w, d) /\ rows' = Acknowledged(d) /\ Idle(w)
      /\ UNCHANGED <<parents, handled, parked, waived>>
  BY DEF AcknowledgeCall, historyVars
<1>2. d \in Known /\ d[2] \in External /\ Reached(d) /\ d \in DOMAIN rows /\ IsOpen(d)
  BY <1>1 DEF IInv, WorkerInv, CallJustified, LeaseHeld, IsOpen
<1>3. /\ rows' \in [DOMAIN rows' -> Row] /\ DOMAIN rows' \subseteq DOMAIN rows
      /\ \A x \in DOMAIN rows' : x # d => rows'[x] = rows[x]
      /\ d \in DOMAIN rows' => rows'[d].status = "delivered"
      /\ \A x \in DOMAIN rows : x # d /\ x \notin DOMAIN rows' => rows[x].status = "delivered"
  BY <1>1, <1>2, AcknowledgedFacts DEF IInv
<1>4. \A x : IsOpen(x)' <=> IsOpen(x) /\ x # d BY <1>3 DEF IsOpen
<1>5. \A x : Reached(x)' <=> Reached(x) BY <1>1 DEF Reached
<1>6. Progress BY <1>1, <1>2, <1>4, <1>5 DEF Progress, IInv, Shape, Known
<1>7. Known' = Known BY <1>1 DEF Known
<1>8. Shape' BY <1>1, <1>3, <1>7, IdleShape DEF IInv, Shape
<1>9. FailedIsParked' BY <1>1, <1>3 DEF IInv, FailedIsParked
<1>10. OpenIsNotProjected' BY <1>5, <1>6, <1>8, ProjectionKept
<1>11. \A v \in Workers : WorkerInv(v)' BY <1>1, <1>6, <1>8, IdleKeeps
<1>12. Ledger!End(d)
  <2>1. OpenSet' = OpenSet \ {d} BY <1>4 DEF OpenSet, IsOpen
  <2>2. Ledger!Record(<< >>, {d}) BY <1>1, <2>1, RecordNothing DEF IInv
  <2>3. d \in OpenSet BY <1>2 DEF OpenSet, IsOpen
  <2> QED BY <1>1, <1>2, <2>2, <2>3 DEF Ledger!End, Ledger!Seen, Reached, OpenSet
<1>13. LedgerStep BY <1>2, <1>12, EntryStep DEF IInv
<1> QED BY <1>6, <1>8, <1>9, <1>10, <1>11, <1>13 DEF IInv

\* A DB-only handler projects an open delivery that was not projected before, in turn, and ends it
\* in the same step; with its follow-up when it relays.
LEMMA HandleStep == ASSUME NEW w \in Workers PROVE IInv /\ HandleInTransaction(w) => IInv' /\ Progress /\ LedgerStep
<1> SUFFICES ASSUME IInv, HandleInTransaction(w) PROVE IInv' /\ Progress /\ LedgerStep OBVIOUS
<1> PICK d : d = held[w] OBVIOUS
<1> DEFINE n == Len(parents) + 1
           relays == d[2] \in Relays /\ parents[d[1]] = Root /\ Len(parents) < MaxEvents
<1>1. /\ pc[w] = "claimed" /\ d[2] \notin External /\ LeaseHeld(w, d)
      /\ handled' = [handled EXCEPT ![d[2]] = Append(@, d[1])]
      /\ Idle(w) /\ UNCHANGED <<parked, waived>>
  BY DEF HandleInTransaction
<1>2. \/ relays /\ parents' = Append(parents, d) /\ rows' = Inserted(Acknowledged(d), n)
      \/ rows' = Acknowledged(d) /\ parents' = parents
  BY DEF HandleInTransaction
<1>3. d \in Known /\ HeldInTurn(w) /\ d \in DOMAIN rows /\ IsOpen(d) /\ ~Reached(d)
  BY <1>1 DEF IInv, WorkerInv, LeaseHeld, IsOpen, OpenIsNotProjected
<1>4. /\ handled' \in [Subscriptions -> Seq(1..Len(parents))] /\ Reached(d)'
      /\ \A x \in Known : Reached(x) => Reached(x)'
      /\ \A x \in Known : Reached(x)' => Reached(x) \/ x = d
  BY <1>1, <1>3, ReachedAfter DEF IInv
<1>5. PICK t : t = Acknowledged(d) OBVIOUS
<1>6. /\ t \in [DOMAIN t -> Row] /\ DOMAIN t \subseteq DOMAIN rows
      /\ \A x \in DOMAIN t : x # d => t[x] = rows[x]
      /\ d \in DOMAIN t => t[d].status = "delivered"
      /\ \A x \in DOMAIN rows : x # d /\ x \notin DOMAIN t => rows[x].status = "delivered"
  BY <1>3, <1>5, AcknowledgedFacts DEF IInv
<1>7. Len(parents) \in Nat /\ n \in Nat /\ n > 0 BY DEF IInv, Shape
<1>8. \A x \in DOMAIN t : x[1] # n BY <1>6, <1>7 DEF IInv, Shape, Known
<1>9. PICK fresh \in {{}, {n} \X Subscriptions} :
         /\ fresh = {} => rows' = t /\ parents' = parents
         /\ fresh # {} => relays /\ rows' = Inserted(t, n) /\ parents' = Append(parents, d)
         /\ fresh = {} \/ relays
  <2>1. CASE rows' = Acknowledged(d) /\ parents' = parents BY <1>5, <2>1
  <2>2. CASE relays /\ parents' = Append(parents, d) /\ rows' = Inserted(Acknowledged(d), n)
    <3>1. <<n, d[2]>> \in {n} \X Subscriptions BY <1>3 DEF Known
    <3> QED BY <1>5, <2>2, <3>1
  <2> QED BY <1>2, <2>1, <2>2
<1>10. /\ rows' \in [DOMAIN rows' -> Row] /\ DOMAIN rows' = DOMAIN t \cup fresh
       /\ \A x \in DOMAIN t : rows'[x] = t[x]
       /\ \A x \in DOMAIN rows' : x \in DOMAIN t \/ rows'[x] = NewRow
       /\ \A x \in fresh : x \notin DOMAIN t /\ x[1] = n
  <2>1. CASE fresh = {} BY <1>6, <1>9, <2>1
  <2>2. CASE fresh # {}
    <3> HIDE DEF n
    <3>1. rows' = Inserted(t, n) /\ fresh = {n} \X Subscriptions BY <1>9, <2>2
    <3>2. DOMAIN Inserted(t, n) = DOMAIN t \cup ({n} \X Subscriptions) BY <1>6, <1>8, InsertedFacts
    <3>3. Inserted(t, n) \in [DOMAIN Inserted(t, n) -> Row] BY <1>6, <1>8, InsertedFacts
    <3>4. \A x \in DOMAIN t : Inserted(t, n)[x] = t[x] BY <1>6, <1>8, InsertedFacts, ZenonT(60)
    <3>5. \A x \in DOMAIN Inserted(t, n) : x \in DOMAIN t \/ Inserted(t, n)[x] = NewRow
      BY <1>6, <1>8, InsertedFacts
    <3>6. \A x \in {n} \X Subscriptions : x[1] = n OBVIOUS
    <3> QED BY <1>8, <3>1, <3>2, <3>3, <3>4, <3>5, <3>6
  <2> QED BY <2>1, <2>2
<1>11. \A x : IsOpen(x)' <=> (IsOpen(x) /\ x # d) \/ x \in fresh
  <2>1. \A x \in DOMAIN t : IsOpen(x)' <=> IsOpen(x) /\ x # d BY <1>6, <1>10 DEF IsOpen
  <2>2. \A x : x \notin DOMAIN t /\ IsOpen(x) => x = d BY <1>6 DEF IsOpen
  <2>3. \A x \in fresh : IsOpen(x)' BY <1>10 DEF IsOpen, NewRow
  <2>4. \A x : IsOpen(x)' => x \in DOMAIN t \/ x \in fresh BY <1>10 DEF IsOpen
  <2> QED BY <1>10, <2>1, <2>2, <2>3, <2>4
<1>12. /\ parents' \in Seq(Deliveries \cup {Root}) /\ Len(parents') <= MaxEvents
       /\ Len(parents) <= Len(parents') /\ fresh \subseteq Known'
  <2>1. CASE fresh = {} BY <1>7, <1>9, <2>1 DEF IInv, Shape
  <2>2. CASE fresh # {}
    <3>1. parents' = Append(parents, d) /\ relays /\ fresh = {n} \X Subscriptions BY <1>9, <2>2
    <3>2. d \in Deliveries
      <4>1. MaxEvents \in Nat BY OutboxBounds
      <4> QED BY <1>3, <1>7, <4>1 DEF Deliveries, Events, Known, IInv, Shape
    <3>3. parents' \in Seq(Deliveries \cup {Root}) /\ Len(parents') = n
      BY <3>1, <3>2 DEF IInv, Shape
    <3> QED BY <1>7, <3>1, <3>3, OutboxBounds DEF Known
  <2> QED BY <2>1, <2>2
<1>13. Known \subseteq Known' /\ Len(parents') \in Nat BY <1>7, <1>12, KnownGrows
<1>14. Progress
  <2>1. \A x \in DOMAIN rows' : IsOpen(x)' => IsOpen(x) \/ x[1] = Len(parents) + 1
    BY <1>10, <1>11
  <2>2. \A x \in DOMAIN rows : IsOpen(x) => IsOpen(x)' \/ x \in waived' \/ Reached(x)'
    BY <1>4, <1>11
  <2>3. \A x \in Known' : x \in Known \/ IsOpen(x)'
    <3>1. CASE fresh = {} BY <1>9, <3>1 DEF Known
    <3>2. CASE fresh # {}
      <4>1. parents' = Append(parents, d) /\ fresh = {n} \X Subscriptions BY <1>9, <3>2
      <4>2. Len(parents') = n BY <4>1 DEF IInv, Shape
      <4>3. \A x \in Known' : x \in Known \/ x \in {n} \X Subscriptions BY <1>7, <4>2 DEF Known
      <4> QED BY <1>11, <4>1, <4>3
    <3> QED BY <3>1, <3>2
  <2> QED BY <1>1, <1>4, <1>12, <2>1, <2>2, <2>3 DEF Progress
<1>15. Shape'
  <2>1. DOMAIN rows' \subseteq Known' BY <1>6, <1>10, <1>12, <1>13 DEF IInv, Shape
  <2>2. handled' \in [Subscriptions -> Seq(1..Len(parents'))] BY <1>4, <1>7, <1>12, <1>13
  <2>3. /\ pc' \in [Workers -> {"idle", "claimed", "calling", "called", "failing"}]
        /\ held' \in [Workers -> Known' \cup {NoDelivery}] /\ fatal' \in [Workers -> BOOLEAN]
    BY <1>1, <1>13, IdleShape DEF IInv
  <2>4. parked' \subseteq Known' /\ waived' \subseteq Known' BY <1>1, <1>13 DEF IInv, Shape
  <2> QED BY <1>10, <1>12, <2>1, <2>2, <2>3, <2>4 DEF Shape
<1>16. FailedIsParked'
  <2>1. \A x \in DOMAIN t : t[x].status = "failed" => x \in parked
    BY <1>6 DEF IInv, FailedIsParked
  <2> QED BY <1>1, <1>10, <2>1 DEF FailedIsParked, NewRow
<1>17. OpenIsNotProjected'
  <2>1. ~IsOpen(d)'
    <3>1. d \notin fresh BY <1>3, <1>7, <1>10 DEF Known
    <3> QED BY <1>11, <3>1
  <2> QED BY <1>4, <1>14, <1>15, <2>1, ProjectionKept
<1>18. \A v \in Workers : WorkerInv(v)' BY <1>1, <1>14, <1>15, IdleKeeps
<1>19. Ledger!Project(d)
  <2>1. OpenSet' = (OpenSet \ {d}) \cup fresh BY <1>11 DEF OpenSet, IsOpen
  <2>2. \A x \in OpenSet : x[2] = d[2] /\ x[1] < d[1] => x \in parked
    BY <1>3 DEF HeldInTurn, OpenSet, IsOpen
  <2>3. d \in OpenSet BY <1>3 DEF OpenSet, IsOpen
  <2>4. \/ Ledger!Record(<< >>, {d})
        \/ d[2] \in Relays /\ parents[d[1]] = Root /\ Ledger!Record(<<d>>, {d})
    <3>1. CASE fresh = {}
      <4>1. OpenSet' = OpenSet \ {d} /\ parents' = parents BY <1>9, <2>1, <3>1
      <4> QED BY <4>1, RecordNothing DEF IInv
    <3>2. CASE fresh # {}
      <4>1. parents' = Append(parents, d) /\ relays /\ fresh = {n} \X Subscriptions BY <1>9, <3>2
      <4>2. parents' = parents \o <<d>> /\ Len(parents \o <<d>>) = n BY <4>1, <1>7 DEF IInv, Shape
      <4>3. n .. n = {n} BY <1>7
      <4>4. OpenSet' = (OpenSet \ {d}) \cup ((n .. n) \X Subscriptions) BY <2>1, <4>1, <4>3
      <4>5. Ledger!Record(<<d>>, {d}) BY <4>2, <4>4 DEF Ledger!Record, OpenSet
      <4> QED BY <4>1, <4>5
    <3> QED BY <3>1, <3>2
  <2> QED
    BY <1>1, <1>3, <2>2, <2>3, <2>4
       DEF Ledger!Project, Ledger!Seen, Ledger!InTurn, Ledger!Take, Reached, OpenSet
<1>20. LedgerStep BY <1>3, <1>19, EntryStep DEF IInv
<1> QED BY <1>14, <1>15, <1>16, <1>17, <1>18, <1>20 DEF IInv

\* A recorded failure reopens or parks the row of the claim, and nothing else.
LEMMA RecordFailureStep ==
    ASSUME NEW w \in Workers PROVE IInv /\ RecordFailure(w) => IInv' /\ Progress /\ LedgerStep
<1> SUFFICES ASSUME IInv, RecordFailure(w) PROVE IInv' /\ Progress /\ LedgerStep OBVIOUS
<1> PICK d : d = held[w] OBVIOUS
<1>1. /\ pc[w] = "failing" /\ Idle(w) /\ UNCHANGED <<parents, handled, waived>>
  BY DEF RecordFailure
<1>2. d \in Known BY <1>1 DEF IInv, WorkerInv
<1>3. Known' = Known BY <1>1 DEF Known
<1>4. CASE UNCHANGED <<rows, parked>>
  <2>1. /\ Progress /\ FailedIsParked' /\ OpenIsNotProjected'
        /\ \A x : IsOpen(x)' <=> IsOpen(x)
    BY <1>1, <1>4, WorkerStep
  <2>2. Shape' BY <1>1, <1>3, <1>4, IdleShape DEF IInv, Shape
  <2>3. \A v \in Workers : WorkerInv(v)' BY <1>1, <2>1, <2>2, IdleKeeps
  <2>4. LedgerStep BY <1>1, <1>4, <2>1, SameOpen
  <2> QED BY <2>1, <2>2, <2>3, <2>4 DEF IInv
<1>5. CASE ~UNCHANGED <<rows, parked>>
  <2>1. PICK parks \in BOOLEAN :
          /\ d \in DOMAIN rows /\ rows[d].status = "processing"
          /\ rows' = [rows EXCEPT ![d] =
                [Settled(@, IF parks THEN "failed" ELSE "pending") EXCEPT !.due = FALSE]]
          /\ parked' = IF parks THEN parked \cup {d} ELSE parked
    <3>1. Fail(w) BY <1>5 DEF RecordFailure
    <3>2. fatal[w] \in BOOLEAN BY DEF IInv, Shape
    <3> QED BY <1>5, <3>1, <3>2 DEF Fail
  <2> DEFINE row == [Settled(rows[d], IF parks THEN "failed" ELSE "pending") EXCEPT !.due = FALSE]
  <2>2. rows[d] \in Row BY <2>1 DEF IInv, Shape
  <2>3. row \in Row /\ row.status = IF parks THEN "failed" ELSE "pending"
    <3>1. /\ Settled(rows[d], IF parks THEN "failed" ELSE "pending") \in Row
          /\ Settled(rows[d], IF parks THEN "failed" ELSE "pending").status
                = IF parks THEN "failed" ELSE "pending"
      BY <2>2, SettledType
    <3> QED BY <3>1 DEF Row
  <2>4. rows' = [rows EXCEPT ![d] = row] BY <2>1
  <2> HIDE DEF row
  <2>5. /\ rows' \in [DOMAIN rows' -> Row] /\ DOMAIN rows' = DOMAIN rows
        /\ rows'[d] = row /\ \A x \in DOMAIN rows : x # d => rows'[x] = rows[x]
        /\ Progress
        /\ \A x \in Known : Reached(x)' => Reached(x)
        /\ \A x : IsOpen(x)' <=> IsOpen(x)
    <3>1. row.status # "delivered" /\ rows[d].status # "delivered" BY <2>1, <2>3
    <3> QED BY <1>1, <2>1, <2>3, <2>4, <3>1, RowStep
  <2>6. Shape'
    <3>1. parked' \subseteq Known BY <1>2, <2>1 DEF IInv, Shape
    <3> QED BY <1>1, <1>3, <2>5, <3>1, IdleShape DEF IInv, Shape
  <2>7. FailedIsParked'
    <3>1. row.status = "failed" => d \in parked' BY <2>1, <2>3
    <3>2. \A x \in DOMAIN rows : rows[x].status = "failed" => x \in parked BY DEF IInv, FailedIsParked
    <3>3. parked \subseteq parked' BY <2>5 DEF Progress
    <3> QED BY <2>5, <3>1, <3>2, <3>3 DEF FailedIsParked
  <2>8. OpenIsNotProjected' BY <2>5, <2>6, ProjectionKept
  <2>9. \A v \in Workers : WorkerInv(v)' BY <1>1, <2>5, <2>6, IdleKeeps
  <2>10. LedgerStep
    <3>1. CASE ~parks BY <1>1, <2>1, <2>5, <3>1, SameOpen
    <3>2. CASE parks
      <4>1. OpenSet' = OpenSet /\ d \in OpenSet BY <2>1, <2>5 DEF OpenSet, IsOpen
      <4>2. Ledger!Park(d) BY <1>1, <2>1, <3>2, <4>1 DEF Ledger!Park, OpenSet
      <4> QED BY <1>2, <4>2, EntryStep DEF IInv
    <3> QED BY <3>1, <3>2
  <2> QED BY <2>5, <2>6, <2>7, <2>8, <2>9, <2>10 DEF IInv
<1> QED BY <1>4, <1>5

\* A crash loses what workers knew, and nothing of the ledger.
LEMMA CrashStep == IInv /\ Crash => IInv' /\ Progress /\ LedgerStep
<1> SUFFICES ASSUME IInv, Crash PROVE IInv' /\ Progress /\ LedgerStep OBVIOUS
<1>1. /\ UNCHANGED <<parents, rows, handled, parked, waived>>
      /\ pc' = [w \in Workers |-> "idle"] /\ held' = [w \in Workers |-> NoDelivery]
      /\ fatal' = [w \in Workers |-> FALSE]
  BY DEF Crash, dbVars, historyVars
<1>2. /\ Progress /\ FailedIsParked' /\ OpenIsNotProjected' /\ Known' = Known
      /\ \A x : IsOpen(x)' <=> IsOpen(x)
  BY <1>1, WorkerStep
<1>3. Shape' BY <1>1, <1>2 DEF IInv, Shape
<1>4. \A v \in Workers : WorkerInv(v)' BY <1>1 DEF WorkerInv
<1>5. LedgerStep BY <1>1, <1>2, SameOpen
<1> QED BY <1>2, <1>3, <1>4, <1>5 DEF IInv

-----------------------------------------------------------------------------
(* The theorems.                                                           *)

\* Nothing is published, claimed or handled at first.
LEMMA InitStep == Init => IInv /\ Ledger!LedgerInit
<1> SUFFICES ASSUME Init PROVE IInv /\ Ledger!LedgerInit OBVIOUS
<1>1. DOMAIN rows = {} BY DEF Init
<1>2. Len(parents) = 0 /\ parents \in Seq(Deliveries \cup {Root}) /\ 0 <= MaxEvents
  BY OutboxBounds DEF Init
<1>3. handled \in [Subscriptions -> Seq(1..Len(parents))] BY <1>2 DEF Init
<1>4. Shape BY <1>1, <1>2, <1>3 DEF Init, Shape
<1>5. FailedIsParked /\ OpenIsNotProjected BY <1>1 DEF FailedIsParked, OpenIsNotProjected
<1>6. \A w \in Workers : WorkerInv(w) BY DEF Init, WorkerInv
<1>7. {d \in DOMAIN rows : rows[d].status # "delivered"} = {} BY <1>1
<1>8. Ledger!LedgerInit BY <1>7 DEF Init, Ledger!LedgerInit
<1> QED BY <1>4, <1>5, <1>6, <1>8 DEF IInv

\* Every step of the outbox.
LEMMA NextStep == IInv /\ [Next]_vars => IInv' /\ Progress /\ LedgerStep
<1> SUFFICES ASSUME IInv, [Next]_vars PROVE IInv' /\ Progress /\ LedgerStep OBVIOUS
<1>1. CASE Publish BY <1>1, PublishStep
<1>2. CASE Crash BY <1>2, CrashStep
<1>3. CASE \E d \in DOMAIN rows : Replay(d) \/ Discard(d) \/ BecomeDue(d) \/ ExpireLease(d)
  BY <1>3, ReplayStep, DiscardStep, BecomeDueStep, ExpireLeaseStep
<1>4. CASE \E w \in Workers : Work(w) \/ Stumble(w)
  BY <1>4, ControlStep, HandleStep, CallStep, AcknowledgeCallStep, RecordFailureStep DEF Work
<1>5. CASE \E w \in Workers : \E d \in DOMAIN rows : Claim(w, d)
  BY <1>5, ClaimStep
<1>6. CASE UNCHANGED vars
  <2>1. UNCHANGED <<parents, rows, pc, held, fatal, handled, parked, waived>>
    BY <1>6 DEF vars, dbVars, workerVars, historyVars
  <2>2. /\ Progress /\ FailedIsParked' /\ OpenIsNotProjected' /\ Known' = Known
        /\ \A x : IsOpen(x)' <=> IsOpen(x)
    BY <2>1, WorkerStep
  <2>3. Shape' BY <2>1, <2>2 DEF IInv, Shape
  <2>4. \A v \in Workers : WorkerInv(v)' BY <2>1, <2>2, <2>3, BystanderKeeps
  <2>5. LedgerStep BY <2>1, <2>2, SameOpen
  <2> QED BY <2>2, <2>3, <2>4, <2>5 DEF IInv
<1> QED BY <1>1, <1>2, <1>3, <1>4, <1>5, <1>6 DEF Next

\* The outbox keeps the promise of EventLedger: no delivery ends unless its handler took effect or
\* an operator discarded it, DB-only handlers take effect exactly once together with the
\* acknowledgement and the follow-up publication, and effects follow publication order unless an
\* earlier delivery was parked, whatever leases expire, workers crash and operators do.
THEOREM OutboxImplementsLedger == Spec => ImplementsLedger
<1>1. Init => IInv /\ Ledger!LedgerInit BY InitStep
<1>2. IInv /\ [Next]_vars => IInv' BY NextStep
<1>3. IInv /\ [Next]_vars => [Ledger!LedgerNext]_(Ledger!ledger)
  BY NextStep DEF LedgerStep, OpenSet, Ledger!ledger
<1> QED BY <1>1, <1>2, <1>3, PTL DEF Spec, ImplementsLedger, Ledger!LedgerSpec

\* A worker that lost its claim cannot settle the delivery: only a step of the worker whose token
\* the row carries takes it out of processing.
THEOREM OnlyTheHolderSettles == Spec => StaleWorkerCannotSettle
<1>1. IInv /\ [Next]_vars => [HolderSettles]_vars
  <2> SUFFICES ASSUME IInv, Next,
                      NEW d \in DOMAIN rows, rows[d].status = "processing",
                      d \in DOMAIN rows' => rows'[d].status # "processing"
               PROVE  held[rows[d].owner] = d /\ held'[rows[d].owner] = NoDelivery
    BY DEF HolderSettles
  <2>1. CASE \E x \in DOMAIN rows : Replay(x) \/ BecomeDue(x) \/ ExpireLease(x)
    <3>1. PICK x \in DOMAIN rows : Replay(x) \/ BecomeDue(x) \/ ExpireLease(x) BY <2>1
    <3>2. PICK row : rows' = [rows EXCEPT ![x] = row] /\
                     (rows[x].status = "processing" => row.status = "processing")
      <4>1. rows[x] \in Row BY <3>1 DEF IInv, Shape
      <4>2. [rows[x] EXCEPT !.expired = TRUE].status = rows[x].status BY <4>1 DEF Row
      <4>3. CASE Replay(x) BY <4>3 DEF Replay
      <4>4. CASE BecomeDue(x) BY <4>4 DEF BecomeDue
      <4>5. CASE ExpireLease(x) BY <4>2, <4>5 DEF ExpireLease
      <4> QED BY <3>1, <4>3, <4>4, <4>5
    <3>3. rows'[d].status = "processing" /\ d \in DOMAIN rows' BY <3>2 DEF IInv, Shape
    <3> QED BY <3>3
  <2>2. CASE \E x \in DOMAIN rows : Discard(x)
    <3>1. PICK x \in DOMAIN rows : Discard(x) BY <2>2
    <3> DEFINE t == [rows EXCEPT ![x].status = "delivered"]
    <3>2. rows[x] \in Row /\ rows[x].status = "failed" BY <3>1 DEF IInv, Shape, Discard
    <3>3. [rows[x] EXCEPT !.status = "delivered"] \in Row BY <3>2 DEF Row
    <3>4. t \in [DOMAIN t -> Row] /\ DOMAIN t = DOMAIN rows /\ t[d] = rows[d]
      BY <3>2, <3>3 DEF IInv, Shape
    <3>5. rows' = DeleteCompleted(t, x[1]) BY <3>1 DEF Discard
    <3> HIDE DEF t
    <3> QED BY <3>4, <3>5, DeleteCompletedFacts
  <2>3. CASE \E w \in Workers : \E x \in DOMAIN rows : Claim(w, x)
    <3>1. PICK w \in Workers, x \in DOMAIN rows : Claim(w, x) BY <2>3
    <3>2. PICK row : rows' = [rows EXCEPT ![x] = row] /\ row.status = "processing"
      BY <3>1 DEF Claim
    <3>3. rows'[d].status = "processing" /\ d \in DOMAIN rows' BY <3>2 DEF IInv, Shape
    <3> QED BY <3>3
  <2>4. CASE \E w \in Workers : AcknowledgeCall(w) \/ HandleInTransaction(w) \/ RecordFailure(w)
    <3>1. PICK w \in Workers : AcknowledgeCall(w) \/ HandleInTransaction(w) \/ RecordFailure(w)
      BY <2>4
    <3>2. held'[w] = NoDelivery
      BY <3>1 DEF AcknowledgeCall, HandleInTransaction, RecordFailure, Idle, IInv, Shape
    <3>3. d = held[w] /\ rows[d].owner = w
      <4> PICK h : h = held[w] OBVIOUS
      <4>1. CASE RecordFailure(w)
        <5>1. CASE UNCHANGED rows BY <5>1
        <5>2. CASE ~UNCHANGED rows
          <6>1. Fail(w) BY <4>1, <5>2 DEF RecordFailure
          <6>2. /\ h \in DOMAIN rows /\ rows[h].owner = w
                /\ \A x \in DOMAIN rows : x # h => rows'[x] = rows[x]
                /\ DOMAIN rows' = DOMAIN rows
            BY <5>2, <6>1 DEF Fail, IInv, Shape
          <6> QED BY <6>2
        <5> QED BY <5>1, <5>2
      <4>2. CASE AcknowledgeCall(w) \/ HandleInTransaction(w)
        <5>1. LeaseHeld(w, h) BY <4>2 DEF AcknowledgeCall, HandleInTransaction
        <5>2. PICK t : t = Acknowledged(h) OBVIOUS
        <5>3. /\ t \in [DOMAIN t -> Row]
              /\ h \in DOMAIN rows /\ rows[h].owner = w /\ DOMAIN t \subseteq DOMAIN rows
              /\ \A x \in DOMAIN t : x # h => t[x] = rows[x]
              /\ \A x \in DOMAIN rows : x # h /\ x \notin DOMAIN t => rows[x].status = "delivered"
          BY <5>1, <5>2, AcknowledgedFacts DEF IInv, LeaseHeld
        <5>4. \/ rows' = t
              \/ rows' = Inserted(t, Len(parents) + 1)
          BY <4>2, <5>2 DEF AcknowledgeCall, HandleInTransaction
        <5>5. d # h => d \in DOMAIN rows' /\ rows'[d] = rows[d]
          <6>1. CASE rows' = t BY <5>3, <6>1
          <6>2. CASE rows' = Inserted(t, Len(parents) + 1)
            <7>1. PICK n : n = Len(parents) + 1 OBVIOUS
            <7>2. \A x \in DOMAIN t : x[1] # n
              BY <5>3, <7>1 DEF IInv, Shape, Known
            <7>3. t \in [DOMAIN t -> Row] BY <5>3
            <7>4. /\ \A x \in DOMAIN t : Inserted(t, n)[x] = t[x]
                  /\ DOMAIN Inserted(t, n) = DOMAIN t \cup ({n} \X Subscriptions)
              BY <7>2, <7>3, InsertedFacts, ZenonT(60)
            <7> QED BY <5>3, <6>2, <7>1, <7>4
          <6> QED BY <5>4, <6>1, <6>2
        <5> QED BY <5>3, <5>5
      <4> QED BY <3>1, <4>1, <4>2
    <3> QED BY <3>2, <3>3
  <2>5. CASE Publish
    <3>1. PICK n : n = Len(parents) + 1 OBVIOUS
    <3>2. \A x \in DOMAIN rows : x[1] # n BY <3>1 DEF IInv, Shape, Known
    <3>3. rows' = Inserted(rows, n) /\ rows \in [DOMAIN rows -> Row]
      BY <2>5, <3>1 DEF Publish, IInv, Shape
    <3>4. /\ \A x \in DOMAIN rows : Inserted(rows, n)[x] = rows[x]
          /\ DOMAIN Inserted(rows, n) = DOMAIN rows \cup ({n} \X Subscriptions)
      BY <3>2, <3>3, InsertedFacts
    <3> QED BY <3>3, <3>4
  <2>6. CASE UNCHANGED rows BY <2>6
  <2>7. \/ UNCHANGED rows \/ Publish
        \/ \E x \in DOMAIN rows : Replay(x) \/ BecomeDue(x) \/ ExpireLease(x)
        \/ \E x \in DOMAIN rows : Discard(x)
        \/ \E w \in Workers : \E x \in DOMAIN rows : Claim(w, x)
        \/ \E w \in Workers : AcknowledgeCall(w) \/ HandleInTransaction(w) \/ RecordFailure(w)
    BY DEF Next, Work, Crash, Undeliverable, Stumble, CheckLease, Call, ProcessFails, dbVars
  <2> QED BY <2>1, <2>2, <2>3, <2>4, <2>5, <2>6, <2>7
<1>2. Init => IInv BY InitStep
<1>3. IInv /\ [Next]_vars => IInv' BY NextStep
<1> QED BY <1>1, <1>2, <1>3, PTL DEF Spec, StaleWorkerCannotSettle

\* Every delivery ever published is still open, was waived by an operator, or took effect.
NothingLost == \A d \in Known : IsOpen(d) \/ d \in waived \/ Reached(d)

\* A DB-only subscription sees no publication twice.
ProjectedOnce ==
    \A s \in Subscriptions \ External :
        \A i, j \in DOMAIN handled[s] : handled[s][i] = handled[s][j] => i = j

\* What the ledger's promise comes to for a subscriber: no crash, lost lease, retry or replay makes
\* a delivery disappear, and none makes a database projection run twice.
THEOREM DeliveredOnceNotLost == Spec => [](NothingLost /\ ProjectedOnce)
<1>1. Init => NothingLost /\ ProjectedOnce
  <2> SUFFICES ASSUME Init PROVE NothingLost /\ ProjectedOnce OBVIOUS
  <2>1. Len(parents) = 0 /\ \A s \in Subscriptions : handled[s] = << >> BY DEF Init
  <2> QED BY <2>1 DEF NothingLost, ProjectedOnce, Known
<1>2. IInv /\ NothingLost /\ [Next]_vars => NothingLost'
  <2> SUFFICES ASSUME IInv, NothingLost, [Next]_vars, NEW d \in Known'
               PROVE  (IsOpen(d) \/ d \in waived \/ Reached(d))'
    BY DEF NothingLost
  <2>1. Progress BY NextStep
  <2>2. CASE d \notin Known BY <2>1, <2>2 DEF Progress
  <2>3. CASE d \in Known
    <3>1. IsOpen(d) => d \in DOMAIN rows BY DEF IsOpen
    <3> QED BY <2>1, <2>3, <3>1 DEF NothingLost, Progress
  <2> QED BY <2>2, <2>3
<1>3. IInv /\ ProjectedOnce /\ [Next]_vars => ProjectedOnce'
  <2> SUFFICES ASSUME IInv, ProjectedOnce, [Next]_vars, NEW s \in Subscriptions \ External,
                      NEW i \in DOMAIN handled'[s], NEW j \in DOMAIN handled'[s],
                      handled'[s][i] = handled'[s][j]
               PROVE  i = j
    BY DEF ProjectedOnce
  <2>1. CASE handled'[s] = handled[s] BY <2>1 DEF ProjectedOnce
  <2>2. CASE \E w \in Workers : HandleInTransaction(w)
    <3>1. PICK w \in Workers : HandleInTransaction(w) BY <2>2
    <3> PICK d : d = held[w] OBVIOUS
    <3>2. /\ d \in Known /\ d \in DOMAIN rows /\ IsOpen(d) /\ d[2] \notin External
          /\ handled' = [handled EXCEPT ![d[2]] = Append(@, d[1])]
      BY <3>1 DEF HandleInTransaction, IInv, WorkerInv, LeaseHeld, IsOpen
    <3>3. ~Reached(d) BY <3>2 DEF IInv, OpenIsNotProjected
    <3>4. CASE d[2] # s BY <2>1, <3>2, <3>4 DEF IInv, Shape
    <3>5. CASE d[2] = s
      <4>1. handled[s] \in Seq(1..Len(parents)) /\ handled'[s] = Append(handled[s], d[1])
        BY <3>2, <3>5 DEF IInv, Shape
      <4>2. \A k \in 1..Len(handled[s]) : handled[s][k] # d[1] BY <3>3, <3>5, <4>1 DEF Reached
      <4>3. \A k, l \in 1..Len(handled[s]) : handled[s][k] = handled[s][l] => k = l
        BY <4>1 DEF ProjectedOnce
      <4> QED BY <4>1, <4>2, <4>3
    <3> QED BY <3>4, <3>5
  <2>3. CASE \E w \in Workers : Call(w)
    <3>1. PICK w \in Workers : Call(w) BY <2>3
    <3>2. held[w][2] \in External BY <3>1 DEF Call, IInv, WorkerInv, CallJustified
    <3>3. handled'[s] = handled[s] BY <3>1, <3>2 DEF Call, IInv, Shape
    <3> QED BY <2>1, <3>3
  <2>4. \/ handled' = handled \/ \E w \in Workers : HandleInTransaction(w) \/ Call(w)
    BY DEF Next, Work, Publish, Crash, Replay, Discard, BecomeDue, ExpireLease, Undeliverable, Stumble,
           ProcessFails, CheckLease, AcknowledgeCall, RecordFailure, Claim, historyVars, vars
  <2> QED BY <2>1, <2>2, <2>3, <2>4
<1>4. Init => IInv BY InitStep
<1>5. IInv /\ [Next]_vars => IInv' BY NextStep
<1> QED BY <1>1, <1>2, <1>3, <1>4, <1>5, PTL DEF Spec
===============================================================================
