-------------------------------- MODULE Outbox --------------------------------
(***************************************************************************)
(* The durable event outbox (internal/modules/event/outbox and its         *)
(* dispatcher): publications are committed with one delivery row per       *)
(* subscription, and a pool of workers claims, handles and acknowledges    *)
(* them under expiring leases.                                             *)
(*                                                                         *)
(* Every SQL transaction is one action.  A worker is between transactions  *)
(* when it has claimed a delivery, when an external handler runs outside   *)
(* any transaction, and when it has still to record a failure.  Time is    *)
(* abstracted to what the statements compare: whether a pending delivery   *)
(* is due and whether a lease has expired; both become true as time        *)
(* passes.  A lease token is a UUID that only its claimer knows, so the    *)
(* claiming worker stands for it: a worker holds one claim at a time, and  *)
(* a claim it gave up is never used again.                                 *)
(***************************************************************************)
EXTENDS Integers, Sequences, FiniteSets

CONSTANTS
    Subscriptions, \* destination identities registered for the event type
    External,      \* those whose handler performs I/O outside the database
    Relays,        \* DB-only ones whose handler publishes a follow-up event
    Poison,        \* publications whose payload cannot be decoded
    Workers,       \* delivery workers of the process
    MaxAttempts,   \* attempts before a delivery is parked
    MaxEvents,     \* bound: publications
    MaxSlips,      \* bound: leases that expire under a live worker
    MaxCrashes,    \* bound: process crashes
    MaxReplays,    \* bound: operator replays
    None           \* no worker

ASSUME SubscriptionsSplit ==
    External \subseteq Subscriptions /\ Relays \subseteq Subscriptions \ External
ASSUME NoneIsNoWorker == None \notin Workers
ASSUME AttemptsPositive == MaxAttempts \in Nat \ {0}
ASSUME OutboxBounds ==
    /\ MaxEvents \in Nat /\ MaxSlips \in Nat /\ MaxCrashes \in Nat /\ MaxReplays \in Nat
    /\ Poison \subseteq 1..MaxEvents

VARIABLES
    parents,   \* cause of each publication, by sequence number
    rows,      \* outbox_deliveries: <<event, subscription>> -> row
    pc, held,  \* what each worker does and the delivery it claimed
    fatal,     \* whether the failure a worker has to record is terminal
    handled,   \* per subscription, publications in the order of their effect
    parked, waived, \* deliveries ever failed, and ever discarded
    slips, crashes, replays

dbVars      == <<parents, rows>>
workerVars  == <<pc, held, fatal>>
historyVars == <<handled, parked, waived>>
boundVars   == <<slips, crashes, replays>>
vars == <<dbVars, workerVars, historyVars, boundVars>>

Events     == 1..MaxEvents
Deliveries == Events \X Subscriptions
Root       == <<0, None>>   \* not caused by a delivery
NoDelivery == <<0, None>>

NewRow == [status |-> "pending", attempts |-> 0, owner |-> None,
           expired |-> FALSE, due |-> TRUE]

Range(f) == {f[x] : x \in DOMAIN f}

Init ==
    /\ parents = <<>>
    /\ rows = [d \in {} |-> NewRow]
    /\ pc = [w \in Workers |-> "idle"]
    /\ held = [w \in Workers |-> NoDelivery]
    /\ fatal = [w \in Workers |-> FALSE]
    /\ handled = [s \in Subscriptions |-> <<>>]
    /\ parked = {} /\ waived = {}
    /\ slips = 0 /\ crashes = 0 /\ replays = 0

-----------------------------------------------------------------------------
(* Statements.                                                             *)

\* Worker w is done with its claim and polls again.
Idle(w) ==
    /\ pc' = [pc EXCEPT ![w] = "idle"]
    /\ held' = [held EXCEPT ![w] = NoDelivery]
    /\ fatal' = [fatal EXCEPT ![w] = FALSE]

\* Variant: one delivered row is enough.
DeleteEarly(table, e) ==
    [d \in {x \in DOMAIN table : x[1] # e} |-> table[d]]

\* deleteCompleted: the rows left when the event has only delivered ones.
DeleteCompleted(table, e) ==
    IF \A d \in DOMAIN table : d[1] = e => table[d].status = "delivered"
      THEN [d \in {x \in DOMAIN table : x[1] # e} |-> table[d]]
      ELSE table

\* Insert the next publication, caused by cause, with its delivery rows.
Inserted(table, e) ==
    [d \in DOMAIN table \cup ({e} \X Subscriptions) |->
        IF d[1] = e THEN NewRow ELSE table[d]]

\* The row is claimed by w and its lease is still valid.
LeaseHeld(w, d) ==
    /\ d \in DOMAIN rows
    /\ rows[d].status = "processing"
    /\ rows[d].owner = w
    /\ ~rows[d].expired

Settled(row, status) ==
    [row EXCEPT !.status = status, !.owner = None, !.expired = FALSE]

\* Acknowledge and deleteCompleted, given that the lease is held.
Acknowledged(d) ==
    DeleteCompleted([rows EXCEPT ![d] = Settled(@, "delivered")], d[1])

-----------------------------------------------------------------------------
(* Publishers and operators.                                               *)

Publish ==
    /\ Len(parents) < MaxEvents
    /\ parents' = Append(parents, Root)
    /\ rows' = Inserted(rows, Len(parents) + 1)
    /\ UNCHANGED <<workerVars, historyVars, boundVars>>

Replay(d) ==
    /\ replays < MaxReplays
    /\ rows[d].status = "failed"
    /\ rows' = [rows EXCEPT ![d] = NewRow]
    /\ replays' = replays + 1
    /\ UNCHANGED <<parents, workerVars, historyVars, slips, crashes>>

Discard(d) ==
    /\ rows[d].status = "failed"
    /\ rows' = DeleteCompleted([rows EXCEPT ![d].status = "delivered"], d[1])
    /\ waived' = waived \cup {d}
    /\ UNCHANGED <<parents, workerVars, handled, parked, boundVars>>

-----------------------------------------------------------------------------
(* Time.                                                                   *)

BecomeDue(d) ==
    /\ rows[d].status = "pending" /\ ~rows[d].due
    /\ rows' = [rows EXCEPT ![d].due = TRUE]
    /\ UNCHANGED <<parents, workerVars, historyVars, boundVars>>

\* The worker that took the lease no longer works on the delivery.
Orphaned(d) == rows[d].owner \notin {w \in Workers : held[w] = d}

ExpireLease(d) ==
    /\ rows[d].status = "processing" /\ ~rows[d].expired
    /\ IF Orphaned(d)
         THEN UNCHANGED slips
         ELSE slips < MaxSlips /\ slips' = slips + 1
    /\ rows' = [rows EXCEPT ![d].expired = TRUE]
    /\ UNCHANGED <<parents, workerVars, historyVars, crashes, replays>>

-----------------------------------------------------------------------------
(* A delivery worker.                                                      *)

\* Variant: earlier deliveries of the subscription are not waited for.
ClaimableAtOnce(d) ==
    \/ rows[d].status = "pending" /\ rows[d].due
    \/ rows[d].status = "processing" /\ rows[d].expired

\* claimStatement: due, or abandoned, and nothing earlier is unfinished for
\* the subscription.  Which of several such deliveries comes first (the
\* oldest available_at) only matters for fairness.
Claimable(d) ==
    /\ \/ rows[d].status = "pending" /\ rows[d].due
       \/ rows[d].status = "processing" /\ rows[d].expired
    /\ \A x \in DOMAIN rows :
          x[2] = d[2] /\ x[1] < d[1] => rows[x].status \notin {"pending", "processing"}

\* Attempts are only ever compared with MaxAttempts and are counted up to it.
Claim(w, d) ==
    /\ pc[w] = "idle"
    /\ Claimable(d)
    /\ rows' = [rows EXCEPT ![d] =
          [status |-> "processing", owner |-> w, expired |-> FALSE, due |-> TRUE,
           attempts |-> IF @.attempts < MaxAttempts THEN @.attempts + 1 ELSE MaxAttempts]]
    /\ pc' = [pc EXCEPT ![w] = "claimed"]
    /\ held' = [held EXCEPT ![w] = d]
    /\ UNCHANGED <<parents, fatal, historyVars, boundVars>>

\* Process returns an error; the failure is recorded by RecordFailure.
ProcessFails(w, terminal) ==
    /\ pc' = [pc EXCEPT ![w] = "failing"]
    /\ fatal' = [fatal EXCEPT ![w] = terminal]
    /\ UNCHANGED <<dbVars, held, historyVars, boundVars>>

\* The publication does not decode, or nobody handles it any more.
Undeliverable(w) ==
    /\ pc[w] = "claimed"
    /\ held[w][1] \in Poison
    /\ ProcessFails(w, TRUE)

\* Loading fails, the lease is lost, the handler fails or its transaction is
\* rolled back, or an external handler fails or panics.
Stumble(w) ==
    /\ pc[w] \in {"claimed", "calling", "called"}
    /\ ProcessFails(w, FALSE)

\* Variant: the handler commits on its own, before the acknowledgement.
HandleFirst(w) ==
    LET d == held[w]
    IN /\ pc[w] = "claimed"
       /\ d[1] \notin Poison /\ d[2] \notin External
       /\ LeaseHeld(w, d)
       /\ handled' = [handled EXCEPT ![d[2]] = Append(@, d[1])]
       /\ pc' = [pc EXCEPT ![w] = "called"]
       /\ UNCHANGED <<dbVars, held, fatal, parked, waived, boundVars>>

\* A DB-only handler: lease check, projection, follow-up publication and
\* acknowledgement in one transaction.
HandleInTransaction(w) ==
    LET d == held[w]
        relays == d[2] \in Relays /\ parents[d[1]] = Root /\ Len(parents) < MaxEvents
    IN /\ pc[w] = "claimed"
       /\ d[1] \notin Poison
       /\ d[2] \notin External
       /\ LeaseHeld(w, d)
       /\ handled' = [handled EXCEPT ![d[2]] = Append(@, d[1])]
       /\ IF relays
            THEN /\ parents' = Append(parents, d)
                 /\ rows' = Inserted(Acknowledged(d), Len(parents) + 1)
            ELSE /\ rows' = Acknowledged(d)
                 /\ UNCHANGED parents
       /\ Idle(w)
       /\ UNCHANGED <<parked, waived, boundVars>>

\* An external handler is called after a lease check of its own.
CheckLease(w) ==
    /\ pc[w] = "claimed"
    /\ held[w][1] \notin Poison
    /\ held[w][2] \in External
    /\ LeaseHeld(w, held[w])
    /\ pc' = [pc EXCEPT ![w] = "calling"]
    /\ UNCHANGED <<dbVars, held, fatal, historyVars, boundVars>>

\* The call reaches the destination; its result may still be lost.
Call(w) ==
    LET d == held[w]
    IN /\ pc[w] = "calling"
       /\ handled' = IF d[1] \in Range(handled[d[2]]) THEN handled
                       ELSE [handled EXCEPT ![d[2]] = Append(@, d[1])]
       /\ pc' = [pc EXCEPT ![w] = "called"]
       /\ UNCHANGED <<dbVars, held, fatal, parked, waived, boundVars>>

AcknowledgeCall(w) ==
    /\ pc[w] = "called"
    /\ LeaseHeld(w, held[w])
    /\ rows' = Acknowledged(held[w])
    /\ Idle(w)
    /\ UNCHANGED <<parents, historyVars, boundVars>>

\* Variants: the lease token is not compared; no failure is final.
FailUnowned(w) ==
    LET d == held[w]
    IN IF d \in DOMAIN rows /\ rows[d].status = "processing"
         THEN /\ rows' = [rows EXCEPT ![d] = [Settled(@, "pending") EXCEPT !.due = FALSE]]
              /\ UNCHANGED parked
         ELSE UNCHANGED <<rows, parked>>

FailForever(w) ==
    LET d == held[w]
    IN IF d \in DOMAIN rows /\ rows[d].status = "processing" /\ rows[d].owner = w
         THEN /\ rows' = [rows EXCEPT ![d] = [Settled(@, "pending") EXCEPT !.due = FALSE]]
              /\ UNCHANGED parked
         ELSE UNCHANGED <<rows, parked>>

\* Fail: only the claim's own row, whether or not its lease has expired.
Fail(w) ==
    LET d == held[w]
        owns == d \in DOMAIN rows /\ rows[d].status = "processing" /\ rows[d].owner = w
        parks == fatal[w] \/ rows[d].attempts >= MaxAttempts
    IN IF owns
         THEN /\ rows' = [rows EXCEPT ![d] =
                     [Settled(@, IF parks THEN "failed" ELSE "pending") EXCEPT !.due = FALSE]]
              /\ parked' = IF parks THEN parked \cup {d} ELSE parked
         ELSE UNCHANGED <<rows, parked>>

\* The failure is recorded, or recording it fails and the lease runs out.
RecordFailure(w) ==
    /\ pc[w] = "failing"
    /\ Fail(w) \/ UNCHANGED <<rows, parked>>
    /\ Idle(w)
    /\ UNCHANGED <<parents, handled, waived, boundVars>>

\* The process ends; leases survive it.
Crash ==
    /\ crashes < MaxCrashes
    /\ \E w \in Workers : pc[w] # "idle"
    /\ crashes' = crashes + 1
    /\ pc' = [w \in Workers |-> "idle"]
    /\ held' = [w \in Workers |-> NoDelivery]
    /\ fatal' = [w \in Workers |-> FALSE]
    /\ UNCHANGED <<dbVars, historyVars, slips, replays>>

-----------------------------------------------------------------------------
Work(w) ==
    \/ Undeliverable(w) \/ HandleInTransaction(w) \/ CheckLease(w) \/ Call(w)
    \/ AcknowledgeCall(w) \/ RecordFailure(w)

Next ==
    \/ Publish \/ Crash
    \/ \E d \in DOMAIN rows :
          Replay(d) \/ Discard(d) \/ BecomeDue(d) \/ ExpireLease(d)
    \/ \E w \in Workers :
          Work(w) \/ Stumble(w) \/ \E d \in DOMAIN rows : Claim(w, d)

Spec == Init /\ [][Next]_vars

(***************************************************************************)
(* Workers poll four times a second and every call they make has a         *)
(* deadline, so a started step ends, by success or failure; time passes;   *)
(* among claimable deliveries the oldest is taken first, so each gets its  *)
(* turn; and the database does not refuse every failure record.            *)
(***************************************************************************)
Fairness ==
    /\ \A w \in Workers :
          /\ WF_vars(Work(w) \/ Stumble(w))
          /\ SF_vars(pc[w] = "failing" /\ Fail(w) /\ RecordFailure(w))
    /\ \A d \in Deliveries :
          /\ WF_vars(d \in DOMAIN rows /\ (BecomeDue(d) \/ (Orphaned(d) /\ ExpireLease(d))))
          /\ SF_vars(d \in DOMAIN rows /\ \E w \in Workers : Claim(w, d))

FairSpec == Spec /\ Fairness

-----------------------------------------------------------------------------
\* The refinement mapping: a delivery is open while its row is not marked
\* delivered; the rows of a finished publication are deleted.
Ledger == INSTANCE EventLedger WITH
    NoCause <- Root,
    causes  <- parents,
    open    <- {d \in DOMAIN rows : rows[d].status # "delivered"},
    effects <- handled

(***************************************************************************)
(* The outbox keeps the promise of EventLedger, whatever leases expire,    *)
(* processes crash and operators do meanwhile: no delivery ends unless its *)
(* handler took effect or an operator discarded it, a DB-only handler and  *)
(* its follow-up publication take effect exactly once, together with the   *)
(* acknowledgement, and effects follow publication order unless an earlier *)
(* delivery was parked.                                                    *)
(***************************************************************************)
ImplementsLedger == Ledger!LedgerSpec

(***************************************************************************)
(* A worker that lost its claim cannot settle the delivery: a processing   *)
(* row is released only in a step of the worker that holds its token, even *)
(* after another worker took over an expired lease.                        *)
(***************************************************************************)
HolderSettles ==
    \A d \in DOMAIN rows :
        LET w == rows[d].owner
        IN /\ rows[d].status = "processing"
           /\ d \in DOMAIN rows' => rows'[d].status # "processing"
           => held[w] = d /\ held'[w] = NoDelivery

StaleWorkerCannotSettle == [][HolderSettles]_vars

(***************************************************************************)
(* Every published delivery completes or is parked for an operator: it is  *)
(* not retried forever, and a crash or a lost lease only delays it.        *)
(***************************************************************************)
EveryDeliverySettles ==
    \A d \in Deliveries :
        d \in DOMAIN rows ~>
            (d \notin DOMAIN rows \/ rows[d].status \in {"delivered", "failed"})
===============================================================================
