------------------------------ MODULE EventLedger ------------------------------
(***************************************************************************)
(* What the durable event outbox promises to those who publish and to those *)
(* who subscribe, without leases, attempts, workers or crashes:             *)
(*                                                                         *)
(*  - a publication becomes one open delivery for every subscription;      *)
(*  - a subscription whose handler only writes the database sees each of   *)
(*    them at most once, and its effect and the end of the delivery are    *)
(*    one step, in which it may publish one follow-up of its own;          *)
(*  - an external subscription sees it at least once before it ends;       *)
(*  - effects follow the order of publication, except where a delivery was *)
(*    parked for an operator, who may also waive it.                       *)
(***************************************************************************)
EXTENDS Integers, Sequences

CONSTANTS
    Subscriptions, \* destination identities registered for the event type
    External,      \* those whose handler performs I/O outside the database
    Relays,        \* DB-only ones whose handler publishes a follow-up event
    NoCause        \* the cause of a publication no handler made

VARIABLES
    causes,   \* the delivery that caused each publication, or NoCause
    open,     \* deliveries that have not ended
    effects,  \* per subscription, publications in the order of their effect
    parked,   \* deliveries that waited for an operator at some time
    waived    \* deliveries an operator ended without an effect

ledger == <<causes, open, effects, parked, waived>>

Published == DOMAIN causes
Entries   == Published \X Subscriptions
Seen(d)   == \E i \in DOMAIN effects[d[2]] : effects[d[2]][i] = d[1]

LedgerInit ==
    /\ causes = <<>>
    /\ open = {} /\ parked = {} /\ waived = {}
    /\ effects = [s \in Subscriptions |-> <<>>]

\* Publications ps are recorded, and of the open deliveries ds end.
Record(ps, ds) ==
    /\ causes' = causes \o ps
    /\ open' = (open \ ds) \cup ((Len(causes) + 1 .. Len(causes \o ps)) \X Subscriptions)

\* No earlier delivery of the subscription still has to be waited for.
InTurn(d) ==
    \A x \in open : x[2] = d[2] /\ x[1] < d[1] => x \in parked

Take(d) == effects' = [effects EXCEPT ![d[2]] = Append(@, d[1])]

Announce ==
    /\ Record(<<NoCause>>, {})
    /\ UNCHANGED <<effects, parked, waived>>

\* A DB-only subscription: effect, follow-up and end of the delivery.
Project(d) ==
    /\ d \in open /\ d[2] \notin External
    /\ ~Seen(d) /\ InTurn(d)
    /\ Take(d)
    /\ \/ Record(<<>>, {d})
       \/ d[2] \in Relays /\ causes[d[1]] = NoCause /\ Record(<<d>>, {d})
    /\ UNCHANGED <<parked, waived>>

\* An external subscription: a call may come late, when the delivery was
\* waived meanwhile, but never for the first time after it ended otherwise.
Reach(d) ==
    /\ d \in open \cup waived /\ d[2] \in External
    /\ ~Seen(d) /\ InTurn(d)
    /\ Take(d)
    /\ UNCHANGED <<causes, open, parked, waived>>

End(d) ==
    /\ d \in open /\ d[2] \in External /\ Seen(d)
    /\ Record(<<>>, {d})
    /\ UNCHANGED <<effects, parked, waived>>

Park(d) ==
    /\ d \in open
    /\ parked' = parked \cup {d}
    /\ UNCHANGED <<causes, open, effects, waived>>

Waive(d) ==
    /\ d \in open \cap parked
    /\ waived' = waived \cup {d}
    /\ Record(<<>>, {d})
    /\ UNCHANGED <<effects, parked>>

LedgerNext ==
    \/ Announce
    \/ \E d \in Entries : Project(d) \/ Reach(d) \/ End(d) \/ Park(d) \/ Waive(d)

LedgerSpec == LedgerInit /\ [][LedgerNext]_ledger
===============================================================================
