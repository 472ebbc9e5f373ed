------------------------ MODULE AssistantOperations ------------------------
(***************************************************************************)
(* The assistant's chat service and its mutating operations                *)
(* (internal/modules/assistant/{service,graph,graph_tool,                  *)
(* pending_operation}.go) together with the calls the confirmed operation  *)
(* makes on Docker (internal/swarm/service_manager.go).                    *)
(*                                                                         *)
(* Every accepted message runs in a goroutine of its own, and nothing      *)
(* serialises the messages of one conversation: a reply is handled while   *)
(* an earlier message still waits for the language model.  What the        *)
(* messages share is one pending operation per conversation, whose store   *)
(* is locked for single reads and writes only.                             *)
(*                                                                         *)
(* Abstractions.  A message is what the code tells apart about it: an      *)
(* explicit yes or no, a message that cannot belong to a pending operation *)
(* (isUnrelatedPendingMessage) or any other reply.  The language model,    *)
(* the injection guard and fuzzy name matching may answer anything the     *)
(* code lets through.  ExpiresAt, different for every set, is the stamp of *)
(* the operation; the passing of its TTL is an action.  How a run ended    *)
(* (completed, failed, rejected), conversation turns and wording are left  *)
(* out.                                                                    *)
(***************************************************************************)
EXTENDS Integers, Sequences, FiniteSets, Functions

CONSTANTS
  Slots,             \* goroutine slots: the capacity of runSlots
  RequestIDs,        \* request ids of the clients
  Conversations,
  Services,
  AllowLists,        \* sets of operations that assistant.tools may let through
  MaxRetainedRuns,   \* maxRetainedRuns
  MaxToolIterations, \* maxToolIterations
  InitialReplicas,   \* replicas of every service before the assistant acts
  ScaleTargets,      \* replica counts that users ask for
  MaxRuns,           \* bound: runs created
  MaxAsked,          \* bound: operations put into the store
  MaxFaults          \* bound: failed calls, foreign writes, services that leave

ASSUME SlotsFinite == IsFiniteSet(Slots)
ASSUME ReplicaCounts == InitialReplicas \in Nat /\ ScaleTargets \subseteq Nat
ASSUME AllowedOperations == AllowLists \subseteq SUBSET {"restart", "scale", "sync"}
ASSUME AssistantBounds ==
  /\ MaxRetainedRuns \in Nat /\ MaxToolIterations \in Nat
  /\ MaxRuns \in Nat /\ MaxAsked \in Nat /\ MaxFaults \in Nat

Messages == {"yes", "no", "unrelated", "reply"}

Operations == {"restart", "scale", "sync"}

None == "none"

ASSUME NoneIsNoService == None \notin Services

Unset == -1

(* A pending operation; service and replicas are missing until collected.  *)
Operation ==
  [type: Operations, stage: {"collecting", "confirmation"},
   service: Services \cup {None}, replicas: ScaleTargets \cup {Unset},
   stamp: 1..MaxAsked]

NoOperation == [stamp |-> 0]

Withdrawn == NoOperation

Idle == [pc |-> "idle"]

VARIABLES
  allowed,   \* the configured allow-list of operations
  runs,      \* Service.runs: request id -> "none", "in_progress" or "finished"
  finished,  \* the finished runs still in runs, oldest finishedAt first
  workers,   \* the goroutines, by the slot they hold
  pending,   \* pendingOperationStore.operations
  expired,   \* conversations whose pending operation is past ExpiresAt
  catalog,   \* service.store: the services it lists
  replicas,  \* desired replicas of the Swarm services
  version,   \* their Version.Index
  created,   \* number of runs created
  faults,    \* number of faults so far
  asked,     \* history: by stamp, the operation that was put into the store,
             \* or Withdrawn once it left the store other than by a claim
  executed   \* history: operations whose tool was called, in order

chatVars == <<runs, finished, created>>
storeVars == <<pending, expired, asked>>
swarmVars == <<replicas, version, faults>>
vars == <<allowed, chatVars, storeVars, swarmVars, workers, catalog, executed>>

-----------------------------------------------------------------------------
(* Service: runs, retention and slots.                                     *)

(* makeRoomForRunLocked: of n runs the oldest finished ones are evicted    *)
(* until fewer than MaxRetainedRuns are left; the finished runs that stay. *)
(* A run in progress is never evicted.                                     *)
makeRoomForRunLocked(old, n) ==
  LET excess == n - MaxRetainedRuns + 1
      drop == IF excess <= 0 THEN 0
              ELSE IF excess > Len(old) THEN Len(old) ELSE excess
  IN SubSeq(old, drop + 1, Len(old))

(* pruneRunsLocked: the first n finished runs are past runRetention.       *)
pruneRunsLocked(n) == SubSeq(finished, n + 1, Len(finished))

InProgress == {id \in RequestIDs : runs[id] = "in_progress"}

(* The runs map after an insertion.                                        *)
Inserted(id, status, old) ==
  /\ runs' = [i \in RequestIDs |->
               IF i = id THEN status
               ELSE IF i \in InProgress THEN "in_progress"
               ELSE IF i \in Range(old) THEN "finished" ELSE None]
  /\ finished' = IF status = "finished" THEN Append(old, id) ELSE old

\* Variant: only finished runs are looked up.
getOrCreateRunAgain(id, old, status) ==
  /\ id \notin Range(old)
  /\ Inserted(id, status, makeRoomForRunLocked(old, Cardinality(InProgress \cup Range(old))))

(* getOrCreateRun under runsMu, with the finished runs that pruning left.  *)
(* A known request id starts nothing, whether its conversation and message *)
(* agree or conflict; a new run evicts old ones to make room.              *)
getOrCreateRun(id, old, status) ==
  LET kept == InProgress \cup Range(old)
  IN /\ id \notin kept
     /\ Inserted(id, status, makeRoomForRunLocked(old, Cardinality(kept)))

(* Chat with a message: the goroutine of the new run takes a slot; without *)
(* a free slot the run is finished as busy.                                *)
Chat(id, conv, message) ==
  LET busy == \A k \in Slots : workers[k] # Idle IN
  /\ created < MaxRuns
  /\ created' = created + 1
  /\ \E n \in 0..Len(finished) :
       getOrCreateRun(id, pruneRunsLocked(n), IF busy THEN "finished" ELSE "in_progress")
  /\ \/ busy /\ UNCHANGED workers
     \/ \E k \in Slots :
          /\ workers[k] = Idle
          /\ workers' = [workers EXCEPT ![k] =
               [pc |-> "pending", id |-> id, conv |-> conv, message |-> message,
                op |-> NoOperation, rounds |-> 0, current |-> Unset, read |-> 0]]
  /\ UNCHANGED <<allowed, storeVars, swarmVars, catalog, executed>>

(* The goroutine of slot k ends: run.finish, whatever the status, and then *)
(* the deferred release of the slot.                                       *)
EndRun(k) ==
  /\ runs' = [runs EXCEPT ![workers[k].id] = "finished"]
  /\ finished' = Append(finished, workers[k].id)
  /\ workers' = [workers EXCEPT ![k] = Idle]
  /\ UNCHANGED created

GoTo(k, pc) ==
  /\ workers' = [workers EXCEPT ![k].pc = pc]
  /\ UNCHANGED chatVars

-----------------------------------------------------------------------------
(* pendingOperationStore.                                                  *)

Stamped(conv) == pending[conv] # NoOperation

(* The history when the operation of the conversation is withdrawn.        *)
Withdraw(conv) ==
  [i \in DOMAIN asked |-> IF i = pending[conv].stamp THEN Withdrawn ELSE asked[i]]

delete(conv) ==
  /\ pending' = [pending EXCEPT ![conv] = NoOperation]
  /\ expired' = expired \ {conv}
  /\ asked' = Withdraw(conv)

set(conv, op) ==
  /\ Len(asked) < MaxAsked
  /\ LET new == [op EXCEPT !.stamp = Len(asked) + 1]
     IN /\ pending' = [pending EXCEPT ![conv] = new]
        /\ asked' = Append(Withdraw(conv), new)
  /\ expired' = expired \ {conv}

\* Variant: an operation of the same type is as good as the one that was read.
ClaimsSameType(conv, op) ==
  Stamped(conv) /\ conv \notin expired /\ pending[conv].type = op.type

(* claim succeeds when the store still holds the very operation that the   *)
(* goroutine read, and then removes it.                                    *)
Claims(conv, op) == Stamped(conv) /\ conv \notin expired /\ pending[conv] = op

\* Variant: a claimed operation stays in the store.
claimKeeping(conv, op) ==
  \/ Claims(conv, op) /\ UNCHANGED storeVars
  \/ ~Claims(conv, op) /\ delete(conv)

claim(conv, op) ==
  \/ /\ Claims(conv, op)
     /\ pending' = [pending EXCEPT ![conv] = NoOperation]
     /\ UNCHANGED <<expired, asked>>
  \/ /\ ~Claims(conv, op)
     /\ ~Stamped(conv) \/ conv \in expired
     /\ delete(conv)
  \/ /\ ~Claims(conv, op)
     /\ Stamped(conv) /\ conv \notin expired
     /\ UNCHANGED storeVars

(* Fifteen minutes, or the configured time, pass.                          *)
Expire(conv) ==
  /\ Stamped(conv) /\ conv \notin expired
  /\ expired' = expired \cup {conv}
  /\ UNCHANGED <<allowed, chatVars, pending, asked, swarmVars, workers, catalog, executed>>

-----------------------------------------------------------------------------
(* graph.run: the pending operation, or the route.                         *)

(* A run begins: the conversation cannot be read or the guard rejects the  *)
(* message, and the run ends; or handlePendingOperation, up to the next    *)
(* access to the store: get, then what the stage and the message decide.   *)
handlePendingOperation(k) ==
  LET w == workers[k]
      conv == w.conv
      op == pending[conv]
      Hold(pc) == /\ workers' = [workers EXCEPT ![k].pc = pc, ![k].op = op]
                  /\ UNCHANGED <<chatVars, storeVars>>
  IN /\ w.pc = "pending"
     /\ \/ EndRun(k) /\ UNCHANGED storeVars
        \/ /\ ~Stamped(conv) \/ conv \in expired
           /\ delete(conv)
           /\ GoTo(k, "route")
        \/ /\ Stamped(conv) /\ conv \notin expired
           /\ \/ op.stage = "confirmation" /\ w.message = "yes" /\ Hold("claim")
              \/ op.stage = "confirmation" /\ w.message = "no" /\ Hold("cancel")
              \/ op.stage = "confirmation" /\ w.message = "reply"
                 /\ EndRun(k) /\ UNCHANGED storeVars
              \/ w.message = "unrelated" /\ Hold("abandon")
              \/ op.stage = "collecting" /\ w.message # "unrelated" /\ Hold("collect")
     /\ UNCHANGED <<allowed, swarmVars, catalog, executed>>

(* A refusal deletes the operation and is answered; an unrelated message   *)
(* deletes it and is routed as any other.                                  *)
CancelOperation(k) ==
  /\ workers[k].pc \in {"cancel", "abandon"}
  /\ delete(workers[k].conv)
  /\ IF workers[k].pc = "cancel" THEN EndRun(k) ELSE GoTo(k, "route")
  /\ UNCHANGED <<allowed, swarmVars, catalog, executed>>

\* Variant: confirmation is asked for whatever is missing.
StagedAnyhow(op) == [op EXCEPT !.stage = "confirmation"]

(* The operation with the service resolved and the replicas known, as far  *)
(* as they are: it asks for confirmation once nothing is missing.          *)
Staged(op) ==
  LET missing == \/ op.type # "sync" /\ op.service = None
                 \/ op.type = "scale" /\ op.replicas = Unset
  IN [op EXCEPT !.stage = IF missing THEN "collecting" ELSE "confirmation"]

(* handlePendingCollection: resolve the target unless it is known, then    *)
(* take the replicas from a reply that is a number.                        *)
handlePendingCollection(k) ==
  LET w == workers[k] IN
  /\ w.pc = "collect"
  /\ \E service \in IF w.op.service = None THEN catalog \cup {None} ELSE {w.op.service},
        count \in IF w.op.replicas = Unset /\ w.message = "reply"
                  THEN {Unset} \cup (ScaleTargets \ {0}) ELSE {w.op.replicas} :
       /\ count # w.op.replicas => w.op.type = "scale" /\ service # None
       /\ set(w.conv, Staged([w.op EXCEPT !.service = service, !.replicas = count]))
  /\ EndRun(k)
  /\ UNCHANGED <<allowed, swarmVars, catalog, executed>>

(* startPendingOperation: an operation that the router recognised.         *)
startPendingOperation(k) ==
  \E type \in Operations, service \in catalog \cup {None}, count \in ScaleTargets \cup {Unset} :
    /\ type = "sync" => service = None
    /\ type # "scale" => count = Unset
    /\ set(workers[k].conv,
           Staged([type |-> type, stage |-> "collecting", service |-> service,
                   replicas |-> count, stamp |-> 1]))

(* routeNode: an operation ends the run; so do a greeting, an out-of-scope *)
(* message, a router error and a catalogue that cannot be read, which      *)
(* leave no pending operation; all else is generated.                      *)
routeNode(k) ==
  /\ workers[k].pc = "route"
  /\ \/ startPendingOperation(k) /\ EndRun(k)
     \/ EndRun(k) /\ UNCHANGED storeVars
     \/ GoTo(k, "generate") /\ UNCHANGED storeVars
  /\ UNCHANGED <<allowed, swarmVars, catalog, executed>>

\* Variant: the language model may call mutating tools.
executeAnyToolCall(tool) ==
  \/ tool = "reading" /\ UNCHANGED executed
  \/ /\ tool = "mutating"
     /\ executed' = Append(executed, [type |-> "sync", stage |-> "collecting",
                                      service |-> None, replicas |-> Unset, stamp |-> 1])

(* executeToolCall in the model's tool loop: a mutating tool is refused.   *)
executeToolCall(tool) ==
  /\ tool \in {"reading", "mutating"}
  /\ UNCHANGED executed

(* generateAnswerNode and executeMCPNode: the model answers, or requests   *)
(* a tool for at most MaxToolIterations rounds; a result the guard rejects *)
(* ends the run.                                                           *)
GenerateAnswer(k) ==
  /\ workers[k].pc = "generate"
  /\ \/ EndRun(k) /\ UNCHANGED executed
     \/ /\ workers[k].rounds < MaxToolIterations
        /\ \E tool \in {"reading", "mutating"} : executeToolCall(tool)
        /\ \/ EndRun(k)
           \/ /\ workers' = [workers EXCEPT ![k].rounds = @ + 1]
              /\ UNCHANGED chatVars
  /\ UNCHANGED <<allowed, storeVars, swarmVars, catalog>>

-----------------------------------------------------------------------------
(* executePendingOperation.                                                *)

ClaimOperation(k) ==
  LET w == workers[k] IN
  /\ w.pc = "claim"
  /\ claim(w.conv, w.op)
  /\ IF Claims(w.conv, w.op) THEN GoTo(k, "execute") ELSE EndRun(k)
  /\ UNCHANGED <<allowed, swarmVars, catalog, executed>>

\* Variant: a service with a similar name is taken as well.
ResolvedSimilarService(op) ==
  IF op.service \in catalog THEN {op.service} ELSE catalog

(* The service that the claimed target resolves to now: the one it names   *)
(* if it still exists, otherwise perhaps one with a similar name, which is *)
(* refused.                                                                *)
ResolvedService(op) ==
  IF op.service \in catalog THEN {op.service} ELSE {}

(* After the claim: the catalogue is read and the target resolved again,   *)
(* either of which may end the run, the allow-list is checked, and the     *)
(* tool is called.                                                         *)
executePendingOperation(k) ==
  LET op == workers[k].op IN
  /\ workers[k].pc = "execute"
  /\ \/ /\ op.type # "sync"
        /\ EndRun(k)
        /\ UNCHANGED executed
     \/ /\ op.type \notin allowed
        /\ EndRun(k)
        /\ UNCHANGED executed
     \/ /\ op.type \in allowed
        /\ \/ op.type = "sync" /\ EndRun(k)
           \/ /\ op.type # "sync"
              /\ \E service \in ResolvedService(op) :
                   workers' = [workers EXCEPT ![k].pc = "inspect", ![k].op.service = service]
              /\ UNCHANGED chatVars
        /\ executed' = Append(executed, op)
  /\ UNCHANGED <<allowed, storeVars, swarmVars, catalog>>

-----------------------------------------------------------------------------
(* The tools service_restart_trigger and service_replicas_set on Docker.   *)

Fault == faults < MaxFaults /\ faults' = faults + 1

(* The tool failed: the failure is the answer of the run.  A               *)
(* restore that failed is retried only restartServiceDelay later, when the *)
(* deadline of the run (runExecutionTimeout) has passed and every call     *)
(* fails: the retries are part of this step.                               *)
ToolFailed(k) == EndRun(k)

(* parseReplicasParam: service_replicas_set refuses the count zero.        *)
parseReplicasParam(op) == op.type = "scale" => op.replicas > 0

(* The tool begins: both read GetReplicas, which is what a restart will    *)
(* restore.                                                                *)
GetReplicas(k) ==
  LET w == workers[k] IN
  /\ w.pc = "inspect"
  /\ \/ ~parseReplicasParam(w.op) /\ ToolFailed(k) /\ UNCHANGED faults
     \/ /\ parseReplicasParam(w.op)
        /\ workers' = [workers EXCEPT
             ![k].pc = IF w.op.type = "restart" THEN "down" ELSE "scale",
             ![k].current = replicas[w.op.service]]
        /\ UNCHANGED <<chatVars, faults>>
     \/ Fault /\ ToolFailed(k)
  /\ UNCHANGED <<allowed, storeVars, replicas, version, catalog, executed>>

(* The count a scaling step wants, and what follows when it is reached.    *)
Goal(w) ==
  CASE w.pc \in {"down", "write_down"} -> 0
    [] w.pc \in {"up", "write_up"} -> w.current
    [] OTHER -> w.op.replicas

ScaleDone(k) ==
  IF workers[k].pc \in {"down", "write_down"} THEN GoTo(k, "up") ELSE EndRun(k)

(* scale, first half: the service is inspected; nothing is written when it *)
(* has the count already.                                                  *)
ScaleInspect(k) ==
  LET w == workers[k]
      Write == [down |-> "write_down", up |-> "write_up", scale |-> "write_scale"]
  IN
  /\ w.pc \in DOMAIN Write
  /\ \/ replicas[w.op.service] = Goal(w) /\ ScaleDone(k) /\ UNCHANGED faults
     \/ /\ replicas[w.op.service] # Goal(w)
        /\ workers' = [workers EXCEPT ![k].pc = Write[w.pc],
                                      ![k].read = version[w.op.service]]
        /\ UNCHANGED <<chatVars, faults>>
     \/ Fault /\ ToolFailed(k)
  /\ UNCHANGED <<allowed, storeVars, replicas, version, catalog, executed>>

(* scale, second half: ServiceUpdate with the version that was inspected.  *)
(* A call that fails may have been applied, or not.                        *)
ServiceUpdate(k) ==
  LET w == workers[k]
      s == w.op.service
      Written == /\ replicas' = [replicas EXCEPT ![s] = Goal(w)]
                 /\ version' = [version EXCEPT ![s] = @ + 1]
  IN
  /\ w.pc \in {"write_down", "write_up", "write_scale"}
  /\ \/ /\ version[s] = w.read /\ Written
        /\ ScaleDone(k)
        /\ UNCHANGED faults
     \/ /\ version[s] # w.read
        /\ ToolFailed(k)
        /\ UNCHANGED swarmVars
     \/ Fault /\ ToolFailed(k) /\ UNCHANGED <<replicas, version>>
     \/ Fault /\ ToolFailed(k) /\ version[s] = w.read /\ Written
  /\ UNCHANGED <<allowed, storeVars, catalog, executed>>

-----------------------------------------------------------------------------
(* The environment.                                                        *)

(* Another client of Docker updates a service, not its replicas.           *)
ForeignUpdate(s) ==
  /\ Fault
  /\ version' = [version EXCEPT ![s] = @ + 1]
  /\ UNCHANGED <<allowed, chatVars, storeVars, replicas, workers, catalog, executed>>

(* The catalogue follows the services: one leaves.                         *)
ServiceLeaves(s) ==
  /\ Fault
  /\ s \in catalog
  /\ catalog' = catalog \ {s}
  /\ UNCHANGED <<allowed, chatVars, storeVars, replicas, version, workers, executed>>

Init ==
  /\ allowed \in AllowLists
  /\ runs = [id \in RequestIDs |-> None]
  /\ finished = <<>>
  /\ workers = [k \in Slots |-> Idle]
  /\ pending = [c \in Conversations |-> NoOperation]
  /\ expired = {}
  /\ catalog = Services
  /\ replicas = [s \in Services |-> InitialReplicas]
  /\ version = [s \in Services |-> 0]
  /\ created = 0
  /\ faults = 0
  /\ asked = <<>>
  /\ executed = <<>>

Worker(k) ==
  \/ handlePendingOperation(k)
  \/ CancelOperation(k)
  \/ handlePendingCollection(k)
  \/ routeNode(k)
  \/ GenerateAnswer(k)
  \/ ClaimOperation(k)
  \/ executePendingOperation(k)
  \/ GetReplicas(k)
  \/ ScaleInspect(k)
  \/ ServiceUpdate(k)

Next ==
  \/ \E id \in RequestIDs, c \in Conversations, m \in Messages : Chat(id, c, m)
  \/ \E k \in Slots : Worker(k)
  \/ \E c \in Conversations : Expire(c)
  \/ \E s \in Services : ForeignUpdate(s) \/ ServiceLeaves(s)

Spec == Init /\ [][Next]_vars

-----------------------------------------------------------------------------
Busy(k) == workers[k] # Idle

AssistantTypeOK ==
  /\ allowed \subseteq Operations
  /\ runs \in [RequestIDs -> {None, "in_progress", "finished"}]
  /\ Range(finished) = {id \in RequestIDs : runs[id] = "finished"}
  /\ Len(finished) = Cardinality(Range(finished))
  /\ pending \in [Conversations -> Operation \cup {NoOperation}]
  /\ expired \subseteq {c \in Conversations : Stamped(c)}
  /\ catalog \subseteq Services
  /\ replicas \in [Services -> {0, InitialReplicas} \cup ScaleTargets]
  /\ \A i \in DOMAIN asked : asked[i] \in Operation \cup {Withdrawn}
  /\ \A i \in DOMAIN executed : executed[i] \in Operation

(* Whatever the messages of a conversation overtake, an operation is       *)
(* executed only as it was put to the user for confirmation (complete, the *)
(* same service and count), at most once for one question, and never after *)
(* it was refused, abandoned, replaced or expired                          *)
(* (executePendingOperation, claim).                                       *)
ExecutedAsConfirmed ==
  \A i \in DOMAIN executed :
    LET op == executed[i] IN
    /\ op.stamp \in DOMAIN asked /\ asked[op.stamp] = op
    /\ op.stage = "confirmation"
    /\ op.type # "sync" => op.service # None
    /\ op.type = "scale" => op.replicas # Unset
    /\ \A j \in DOMAIN executed : executed[j].stamp = op.stamp => i = j

(* The replicas of a service change only as operations confirmed for this  *)
(* very service say, although names are resolved again after the           *)
(* confirmation and the catalogue may have changed by then.                *)
ReplicasAccounted ==
  \A s \in Services :
    \/ replicas[s] = InitialReplicas
    \/ \E i \in DOMAIN executed :
         /\ executed[i].service = s
         /\ \/ executed[i].type = "scale" /\ replicas[s] = executed[i].replicas
                /\ replicas[s] > 0
            \/ executed[i].type = "restart" /\ replicas[s] = 0

(* A request is worked on by one goroutine at most, and a run is reported  *)
(* in progress exactly as long as it has that goroutine: retries of a      *)
(* request id, the pruning and eviction of old runs and full slots neither *)
(* execute a message twice nor leave a client polling a run nobody will    *)
(* finish (Chat, getOrCreateRun, makeRoomForRunLocked, runAssistant).      *)
AssistantInvariant ==
  /\ AssistantTypeOK
  /\ \A k, l \in Slots : Busy(k) /\ Busy(l) /\ workers[k].id = workers[l].id => k = l
  /\ InProgress = {workers[k].id : k \in {l \in Slots : Busy(l)}}

(* "Restart restarts stack service by scaling replicas to zero and         *)
(* restoring previous count": when no tool is running, every service that  *)
(* was not scaled has the replicas it had before (serviceManager.Restart). *)
RestartRestores ==
  (\A k \in Slots : ~Busy(k)) =>
    \A s \in Services :
      \/ replicas[s] = InitialReplicas
      \/ \E i \in DOMAIN executed : executed[i].type = "scale" /\ executed[i].service = s

=============================================================================
