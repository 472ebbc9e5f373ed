-------------------------- MODULE AlertNotifications --------------------------
(***************************************************************************)
(* The notifications of one alert (internal/modules/notifications/alerts): *)
(* Telegram messages about its opening and its resolution, one durable     *)
(* subscription and one message link for each physical recipient.          *)
(*                                                                         *)
(* The two transitions are publications of the outbox (module Outbox), of  *)
(* which only what this handler can notice is kept: a delivery row, its    *)
(* owner and whether its lease expired.  The number of attempts is left    *)
(* out: any failure may be the last one, which parks the delivery.  The    *)
(* handler runs outside the transactions, and each statement it makes is a *)
(* step, joined with those that cannot be told apart from it.  Alerts      *)
(* share nothing but the order of a subscription, so one is enough.        *)
(* Telegram is the sequence of messages it accepted for a recipient; how a *)
(* resolution is shown (reply, edit or a message of its own) and the texts *)
(* are left out.                                                           *)
(***************************************************************************)
EXTENDS Naturals, Sequences, FiniteSets

CONSTANTS
    Recipients,   \* physical destinations: bot, chat and topic
    Workers,      \* delivery workers of the outbox
    None,         \* no worker
    MaxRestarts,  \* bound: restarts of the process
    MaxFaults,    \* bound: failed or unanswered calls of Telegram
    MaxReplays,   \* bound: operator replays
    MaxSlips      \* bound: leases that expire under a live worker

ASSUME NotificationConstants ==
    /\ None \notin Workers
    /\ MaxRestarts \in Nat /\ MaxFaults \in Nat /\ MaxReplays \in Nat /\ MaxSlips \in Nat

Transitions == {"opened", "resolved"}

Deliveries == Transitions \X Recipients

VARIABLES
    configured,  \* recipients of the alert's kind in this process
    registered,  \* recipients that have a subscription in this process
    alert,       \* "none", "open" or "resolved"
    route,       \* Recipients of each published transition
    rows,        \* outbox_deliveries of both transitions
    links,       \* notification_messages: recipient -> what is recorded
    workers,     \* what each worker does
    chats,       \* recipient -> messages Telegram accepted, in order
    restarts, faults, replays, slips,
    recorded,    \* history: transitions ever recorded for each recipient
    parked,      \* history: recipients that had a delivery parked
    waived       \* history: discarded deliveries

source == <<configured, registered, alert, route>>
bounds == <<restarts, faults, replays, slips>>
history == <<recorded, parked, waived>>
vars == <<source, rows, links, workers, chats, bounds, history>>

Absent == [status |-> "absent", owner |-> None, expired |-> FALSE]

Pending == [status |-> "pending", owner |-> None, expired |-> FALSE]

Idle == [pc |-> "idle", of |-> <<"none", None>>]

(* No link; a link records the transitions that Telegram accepted.         *)
NoLink == {"none"}

-----------------------------------------------------------------------------
(* The outbox.                                                             *)

(* deleteCompleted for the transition of a delivery.                       *)
DeleteCompleted(table, t) ==
    IF \A r \in Recipients : table[<<t, r>>].status \in {"delivered", "absent"}
       THEN [d \in Deliveries |-> IF d[1] = t THEN Absent ELSE table[d]]
       ELSE table

(* The publication is still in outbox_events.                              *)
Kept(t) == \E r \in Recipients : rows[<<t, r>>].status # "absent"

Owns(w, d) == rows[d].status = "processing" /\ rows[d].owner = w

(* Publish: one row for each subscription, none at all without any.        *)
Publish(t) ==
    /\ rows' = [d \in Deliveries |->
                  IF d[1] = t /\ d[2] \in registered THEN Pending ELSE rows[d]]
    /\ route' = [route EXCEPT ![t] = configured]
    /\ UNCHANGED <<configured, registered, links, workers, chats, bounds, history>>

Open == alert = "none" /\ alert' = "open" /\ Publish("opened")

Resolve == alert = "open" /\ alert' = "resolved" /\ Publish("resolved")

(* Claim: in the order of the subscription, and not before a lease ends.   *)
Claim(w, d) ==
    /\ workers[w] = Idle
    /\ rows[d].status = "pending" \/ (rows[d].status = "processing" /\ rows[d].expired)
    /\ d[1] = "resolved" => rows[<<"opened", d[2]>>].status \notin {"pending", "processing"}
    /\ rows' = [rows EXCEPT ![d] = [status |-> "processing", owner |-> w, expired |-> FALSE]]
    /\ workers' = [workers EXCEPT ![w] = [pc |-> "handle", of |-> d]]
    /\ UNCHANGED <<source, links, chats, bounds, history>>

GoOn(w, pc) == workers' = [workers EXCEPT ![w].pc = pc]

(* Acknowledge, with the lease.                                            *)
Acknowledge(w) ==
    LET d == workers[w].of IN
    /\ workers[w].pc = "acknowledge"
    /\ rows' = DeleteCompleted([rows EXCEPT ![d] = [Pending EXCEPT !.status = "delivered"]], d[1])
    /\ workers' = [workers EXCEPT ![w] = Idle]
    /\ UNCHANGED <<source, links, chats, bounds, history>>

(* Fail: the delivery is retried, or parked; nothing if another worker has *)
(* claimed it meanwhile.                                                   *)
Fail(w) ==
    LET d == workers[w].of IN
    /\ workers[w].pc = "fail"
    /\ \/ Owns(w, d) /\ rows' = [rows EXCEPT ![d] = Pending] /\ UNCHANGED parked
       \/ /\ Owns(w, d)
          /\ rows' = [rows EXCEPT ![d] = [Pending EXCEPT !.status = "failed"]]
          /\ parked' = parked \cup {d[2]}
       \/ ~Owns(w, d) /\ UNCHANGED <<rows, parked>>
    /\ workers' = [workers EXCEPT ![w] = Idle]
    /\ UNCHANGED <<source, links, chats, bounds, recorded, waived>>

Replay(d) ==
    /\ replays < MaxReplays
    /\ rows[d].status = "failed"
    /\ replays' = replays + 1
    /\ rows' = [rows EXCEPT ![d] = Pending]
    /\ UNCHANGED <<source, links, workers, chats, restarts, faults, slips, history>>

Discard(d) ==
    /\ rows[d].status = "failed"
    /\ rows' = DeleteCompleted([rows EXCEPT ![d].status = "delivered"], d[1])
    /\ waived' = waived \cup {d}
    /\ UNCHANGED <<source, links, workers, chats, bounds, recorded, parked>>

-----------------------------------------------------------------------------
(* The handler.                                                            *)

\* Variant: what is resolved is removed although a delivery may be replayed.
PruneResolved(table) ==
    [r \in Recipients |-> IF "resolved" \in table[r] THEN NoLink ELSE table[r]]

(* PruneCompleted: resolved links go once no transition is in the outbox.  *)
PruneCompleted(table) ==
    [r \in Recipients |->
        IF "resolved" \in table[r] /\ ~\E t \in Transitions : Kept(t) THEN NoLink ELSE table[r]]

\* Variant: whoever is configured now is told of the resolution.
ResolveWithoutLinkAnyway(r, table) == r \in route["resolved"]

(* shouldResolveWithoutLink: the route of the opening decides while it is  *)
(* in the outbox, then whether anybody has a link.                         *)
shouldResolveWithoutLink(r, table) ==
    IF Kept("opened") THEN r \in route["opened"]
    ELSE r \in route["resolved"] /\ \A q \in Recipients : table[q] = NoLink

Ensure(table, r) == IF table[r] = NoLink THEN [table EXCEPT ![r] = {}] ELSE table

(* Handle up to the call: prune, find whether this recipient is concerned, *)
(* make sure of its link and look at it.  What has been recorded already   *)
(* is not sent again, and an opening not after the resolution.             *)
Handle(w) ==
    LET d == workers[w].of
        r == d[2]
        table == PruneCompleted(links)
        concerned == IF d[1] = "opened" THEN r \in route["opened"]
                     ELSE table[r] # NoLink \/ shouldResolveWithoutLink(r, table)
        link == Ensure(table, r)[r]
        due == concerned /\ "resolved" \notin link /\ d[1] \notin link
    IN
    /\ workers[w].pc = "handle"
    /\ \/ /\ r \in registered
          /\ links' = IF concerned THEN Ensure(table, r) ELSE table
          /\ GoOn(w, IF due THEN "notify" ELSE "acknowledge")
       \/ /\ r \notin registered
          /\ GoOn(w, "fail")
          /\ UNCHANGED links
    /\ UNCHANGED <<source, rows, chats, bounds, history>>

Accept(d) == chats' = [chats EXCEPT ![d[2]] = Append(@, d[1])]

(* Notify: Telegram accepts the message, or the call fails, and then it    *)
(* may have been accepted too.                                             *)
Notify(w) ==
    LET d == workers[w].of IN
    /\ workers[w].pc = "notify"
    /\ \/ Accept(d) /\ GoOn(w, "mark") /\ UNCHANGED faults
       \/ /\ faults < MaxFaults
          /\ faults' = faults + 1
          /\ Accept(d) \/ UNCHANGED chats
          /\ GoOn(w, "fail")
    /\ UNCHANGED <<source, rows, links, restarts, replays, slips, history>>

(* MarkOpened and MarkResolved, each only on a link that is not resolved.  *)
Mark(w) ==
    LET d == workers[w].of
        r == d[2]
        changes == links[r] # NoLink /\ links[r] \cap {d[1], "resolved"} = {}
    IN
    /\ workers[w].pc = "mark"
    /\ links' = IF changes THEN [links EXCEPT ![r] = @ \cup {d[1]}] ELSE links
    /\ recorded' = IF changes THEN [recorded EXCEPT ![r] = @ \cup {d[1]}] ELSE recorded
    /\ GoOn(w, "acknowledge")
    /\ UNCHANGED <<source, rows, chats, bounds, parked, waived>>

(* The lease of a live worker ends, and with it the time that its handler  *)
(* was given: the step it is in fails, though Telegram may have accepted.  *)
LeaseExpires(w) ==
    LET d == workers[w].of IN
    /\ slips < MaxSlips
    /\ slips' = slips + 1
    /\ workers[w].pc \in {"handle", "notify", "mark", "acknowledge"}
    /\ rows' = [rows EXCEPT ![d].expired = TRUE]
    /\ GoOn(w, "fail")
    /\ UNCHANGED chats \/ (workers[w].pc = "notify" /\ Accept(d))
    /\ UNCHANGED <<source, links, restarts, faults, replays, history>>

-----------------------------------------------------------------------------
(* Restarts.                                                               *)

\* Variant: only configured recipients and unfinished deliveries are subscribed.
RegisteredWithoutLinks(recipients, table) ==
    recipients \cup {r \in Recipients : \E t \in Transitions :
                        rows[<<t, r>>].status \in {"pending", "processing", "failed"}}

(* Register: the configured recipients, those that have a link and those   *)
(* with a delivery that is not finished.                                   *)
Registered(recipients, table) ==
    recipients \cup {r \in Recipients : table[r] # NoLink}
    \cup {r \in Recipients : \E t \in Transitions :
            rows[<<t, r>>].status \in {"pending", "processing", "failed"}}

(* The process ends at any point and starts with another configuration;    *)
(* the leases of its workers run out.                                      *)
Restart(recipients) ==
    LET table == PruneCompleted(links) IN
    /\ restarts < MaxRestarts
    /\ restarts' = restarts + 1
    /\ configured' = recipients
    /\ links' = table
    /\ registered' = Registered(recipients, table)
    /\ workers' = [w \in Workers |-> Idle]
    /\ rows' = [d \in Deliveries |->
                  [rows[d] EXCEPT !.expired = (rows[d].status = "processing")]]
    /\ UNCHANGED <<alert, route, chats, faults, replays, slips, history>>

Init ==
    /\ configured \in SUBSET Recipients
    /\ registered = configured
    /\ alert = "none"
    /\ route = [t \in Transitions |-> {}]
    /\ rows = [d \in Deliveries |-> Absent]
    /\ links = [r \in Recipients |-> NoLink]
    /\ workers = [w \in Workers |-> Idle]
    /\ chats = [r \in Recipients |-> <<>>]
    /\ restarts = 0 /\ faults = 0 /\ replays = 0 /\ slips = 0
    /\ recorded = [r \in Recipients |-> {}]
    /\ parked = {}
    /\ waived = {}

Work(w) ==
    \/ \E d \in Deliveries : Claim(w, d)
    \/ Handle(w) \/ Notify(w) \/ Mark(w) \/ Acknowledge(w) \/ Fail(w) \/ LeaseExpires(w)

Next ==
    \/ Open \/ Resolve
    \/ \E w \in Workers : Work(w)
    \/ \E d \in Deliveries : Replay(d) \/ Discard(d)
    \/ \E recipients \in SUBSET Recipients : Restart(recipients)

Spec == Init /\ [][Next]_vars

-----------------------------------------------------------------------------
NotificationTypeOK ==
    /\ configured \subseteq registered /\ registered \subseteq Recipients
    /\ route \in [Transitions -> SUBSET Recipients]
    /\ rows \in [Deliveries -> [status: {"absent", "pending", "processing", "delivered", "failed"},
                                owner: Workers \cup {None}, expired: BOOLEAN]]
    /\ links \in [Recipients -> {NoLink} \cup SUBSET Transitions]
    /\ recorded \in [Recipients -> SUBSET Transitions]
    /\ \A r \in Recipients : links[r] = NoLink \/ links[r] = recorded[r]

Told(r, t) == \E i \in DOMAIN chats[r] : chats[r][i] = t

(* The resolution of r is not finished: still to be delivered, or given up *)
(* by an operator.                                                         *)
Due(r) ==
    \/ rows[<<"resolved", r>>].status \in {"pending", "processing", "failed"}
    \/ <<"resolved", r>> \in waived

(* Whoever was told that the alert opened is told of its resolution, or    *)
(* the delivery is still kept: through failures, unanswered calls,         *)
(* restarts with other recipients configured, and parked deliveries.       *)
ToldOfResolution ==
    \A r \in Recipients : alert = "resolved" /\ Told(r, "opened") => Told(r, "resolved") \/ Due(r)

OnlyTheirAlerts ==
    \A r \in Recipients :
        Told(r, "resolved") =>
            r \in route["opened"] \/ \A q \in Recipients : ~Told(q, "opened")

InOrder ==
    \A r \in Recipients \ parked :
        \A i, j \in DOMAIN chats[r] : i < j /\ chats[r][i] = "resolved" => chats[r][j] = "resolved"

(* Nobody is told of a resolution who was not on the route of the opening, *)
(* unless nobody was told of that either (shouldResolveWithoutLink), and   *)
(* the messages of a recipient whose deliveries were never parked are      *)
(* openings followed by resolutions.  A link records exactly what was      *)
(* marked.                                                                 *)
NotificationInvariant == NotificationTypeOK /\ OnlyTheirAlerts /\ InOrder

(* A message that was recorded as accepted, or that a recorded resolution  *)
(* has overtaken, is not decided upon again, although links are pruned and *)
(* parked deliveries replayed later.                                       *)
RecordedIsNotRepeated ==
    [][\A w \in Workers :
          workers[w].pc = "handle" /\ workers'[w].pc = "notify" =>
              recorded[workers[w].of[2]] \cap {workers[w].of[1], "resolved"} = {}]_vars
===============================================================================
