----------------------------- MODULE EdgeDelivery -----------------------------
(***************************************************************************)
(* From the phone to the table and the live feed: QueueingCloudReporter    *)
(* (bounded queue, one worker, retries), HttpCloudGateway, the connector's *)
(* handlers postEvent and postTelemetry, and the event pipeline behind     *)
(* them. Requests and responses are lost or late: a request the phone has  *)
(* given up on keeps running in the connector. Phone and connector die and *)
(* come back; only the connector's tables survive.                         *)
(***************************************************************************)
EXTENDS EventPipeline

CONSTANTS
  Snapshots,        \* telemetry reports
  Refused,          \* reports a handler answers 4xx before storing anything
  NoItem,
  Capacity,         \* of the reporter's queue (64)
  EventAttempts,    \* maxAttempts (5)
  SnapshotAttempts  \* 2

Items == Events \cup Snapshots

ASSUME DeliveryAssumption ==
  /\ Events \cap Snapshots = {} /\ NoItem \notin Items /\ Refused \subseteq Items
  /\ Capacity \in Nat \ {0}
  /\ EventAttempts \in Nat \ {0} /\ SnapshotAttempts \in Nat \ {0}

VARIABLES
  before,    \* history: before[i], from its making until the worker takes it:
             \* the reports made before i
  fate,      \* fate[i]: what became of report i
  queue,     \* the reporter's channel
  worker,    \* its draining coroutine
  http,      \* http[h]: a request to the connector, from socket to response
  rows       \* rows[t]: rows of table telemetry that snapshot t has produced

phoneVars == <<before, fate, queue, worker>>
vars      == <<pipelineVars, phoneVars, http, rows>>

Fates == {"unreported", "pending", "accepted", "refused", "abandoned",
          "evicted", "lost"}
Worker  == [pc: {"idle", "ready", "waiting", "backoff"},
            item: Items \cup {NoItem}, attempt: Nat, on: Calls \cup {NoItem}]
Request == [pc: {"free", "wire", "resolve", "accept", "answered"},
            item: Items \cup {NoItem}, code: {"", "2xx", "4xx", "5xx"}]
Resting     == [pc |-> "idle", item |-> NoItem, attempt |-> 0, on |-> NoItem]
FreeRequest == [pc |-> "free", item |-> NoItem, code |-> ""]

PathInit ==
  /\ Init
  /\ before = [i \in Items |-> {}] /\ queue = <<>> /\ worker = Resting
  /\ fate = [i \in Items |-> "unreported"]
  /\ http = [h \in Calls |-> FreeRequest]
  /\ rows = [t \in Snapshots |-> 0]
-----------------------------------------------------------------------------
(***************************************************************************)
(* The phone: QueueingCloudReporter.                                       *)
(***************************************************************************)

\* Mutant: a full queue drops its latest entry.
ReportDroppingNewest(i) ==
  /\ fate[i] = "unreported"
  /\ before' = [before EXCEPT ![i] = {j \in Items : fate[j] # "unreported"}]
  /\ IF Len(queue) < Capacity
     THEN /\ queue' = Append(queue, i)
          /\ fate' = [fate EXCEPT ![i] = "pending"]
     ELSE /\ queue' = Append(Front(queue), i)
          /\ fate' = [fate EXCEPT ![i] = "pending", ![Last(queue)] = "evicted"]
  /\ UNCHANGED <<pipelineVars, worker, http, rows>>

\* reportEvent and reportTelemetry: trySend never blocks, and a full channel
\* drops its oldest element.
Report(i) ==
  /\ fate[i] = "unreported"
  /\ before' = [before EXCEPT ![i] = {j \in Items : fate[j] # "unreported"}]
  /\ IF Len(queue) < Capacity
     THEN /\ queue' = Append(queue, i)
          /\ fate' = [fate EXCEPT ![i] = "pending"]
     ELSE /\ queue' = Append(Tail(queue), i)
          /\ fate' = [fate EXCEPT ![i] = "pending", ![Head(queue)] = "evicted"]
  /\ UNCHANGED <<pipelineVars, worker, http, rows>>

\* The worker's for loop receives the next item.
Take ==
  /\ worker.pc = "idle" /\ queue # <<>>
  /\ worker' = [Resting EXCEPT !.pc = "ready", !.item = Head(queue)]
  /\ queue' = Tail(queue) /\ before' = [before EXCEPT ![Head(queue)] = {}]
  /\ UNCHANGED <<pipelineVars, fate, http, rows>>

\* gateway.postEvent / postTelemetry sends the request and blocks.
Post(h) ==
  /\ worker.pc = "ready" /\ http[h].pc = "free"
  /\ worker' = [worker EXCEPT !.pc = "waiting", !.on = h]
  /\ http' = [http EXCEPT ![h] = [@ EXCEPT !.pc = "wire", !.item = worker.item]]
  /\ UNCHANGED <<pipelineVars, before, fate, queue, rows>>

\* deliver returns: the item is settled, and the loop goes on.
Settle(f) ==
  /\ worker' = Resting
  /\ fate' = [fate EXCEPT ![worker.item] = f]

\* Mutant: attempts that are never counted.
TransientUncounted ==
  /\ worker' = [worker EXCEPT !.pc = "backoff", !.on = NoItem]
  /\ UNCHANGED fate

\* Mutant: the attempts made are compared with the bound before they are
\* counted.
TransientOnceMore ==
  LET attempts == IF worker.item \in Events THEN EventAttempts ELSE SnapshotAttempts
  IN IF worker.attempt >= attempts
     THEN Settle("abandoned")
     ELSE /\ worker' = [worker EXCEPT !.pc = "backoff", !.on = NoItem,
                                      !.attempt = @ + 1]
          /\ UNCHANGED fate

\* TransientError: one attempt more, then backoff or giving up.
Transient ==
  LET attempts == IF worker.item \in Events THEN EventAttempts ELSE SnapshotAttempts
  IN IF worker.attempt + 1 >= attempts
     THEN Settle("abandoned")
     ELSE /\ worker' = [worker EXCEPT !.pc = "backoff", !.on = NoItem,
                                      !.attempt = @ + 1]
          /\ UNCHANGED fate

\* The response arrives in time: 2xx settles, 4xx settles, 5xx is transient.
Answer(h) ==
  /\ worker.pc = "waiting" /\ worker.on = h /\ http[h].pc = "answered"
  /\ CASE http[h].code = "2xx" -> Settle("accepted")
       [] http[h].code = "4xx" -> Settle("refused")
       [] OTHER                -> Transient
  /\ http' = [http EXCEPT ![h] = FreeRequest]
  /\ UNCHANGED <<pipelineVars, before, queue, rows>>

\* IOException: no connection, a connect or read timeout, a reset. Whatever
\* was sent goes on without the phone.
TimeOut ==
  /\ worker.pc \in {"ready", "waiting"}
  /\ Transient
  /\ UNCHANGED <<pipelineVars, before, queue, http, rows>>

\* Any other Exception, say a URL that does not parse: the item is given up at
\* once.
Misconfigured ==
  /\ worker.pc = "ready"
  /\ Settle("abandoned")
  /\ UNCHANGED <<pipelineVars, before, queue, http, rows>>

\* sleep(backoffMs(attempt)) is over.
BackoffEnds ==
  /\ worker.pc = "backoff"
  /\ worker' = [worker EXCEPT !.pc = "ready"]
  /\ UNCHANGED <<pipelineVars, before, fate, queue, http, rows>>

\* close, or the death of the process: the queue is in memory only. The next
\* process starts with an empty one.
ProcessDies ==
  /\ queue # <<>> \/ worker.pc # "idle"
  /\ queue' = <<>> /\ worker' = Resting /\ before' = [i \in Items |-> {}]
  /\ fate' = [i \in Items |-> IF fate[i] = "pending" THEN "lost" ELSE fate[i]]
  /\ UNCHANGED <<pipelineVars, http, rows>>
-----------------------------------------------------------------------------
(***************************************************************************)
(* The connector: postEvent and postTelemetry.                             *)
(***************************************************************************)
Respond(h, code) ==
  http' = [http EXCEPT ![h] = [@ EXCEPT !.pc = "answered", !.code = code]]

\* The request reaches its handler; the token, size, syntax and required-field
\* checks answer 4xx.
Arrive(h) ==
  /\ http[h].pc = "wire"
  /\ IF http[h].item \in Refused
     THEN Respond(h, "4xx")
     ELSE http' = [http EXCEPT ![h] = [@ EXCEPT !.pc = "resolve"]]
  /\ UNCHANGED <<pipelineVars, phoneVars, rows>>

LoseRequest(h) ==
  /\ http[h].pc = "wire"
  /\ http' = [http EXCEPT ![h] = FreeRequest]
  /\ UNCHANGED <<pipelineVars, phoneVars, rows>>

\* UpsertDevice; then an event enters the pipeline, and a snapshot is about
\* to be inserted.
ResolveDevice(h) ==
  /\ http[h].pc = "resolve"
  /\ http' = [http EXCEPT ![h] = [@ EXCEPT !.pc = "accept"]]
  /\ IF http[h].item \in Events
     THEN Accept(h, http[h].item)
     ELSE UNCHANGED pipelineVars
  /\ UNCHANGED <<phoneVars, rows>>

ResolveFails(h) ==
  /\ http[h].pc = "resolve"
  /\ Respond(h, "5xx")
  /\ UNCHANGED <<pipelineVars, phoneVars, rows>>

\* InsertTelemetry is a plain INSERT; a failed one may have committed.
InsertTelemetry(h, ok, committed) ==
  LET t == http[h].item
  IN /\ http[h].pc = "accept" /\ t \in Snapshots
     /\ ok => committed
     /\ rows' = IF committed THEN [rows EXCEPT ![t] = @ + 1] ELSE rows
     /\ Respond(h, IF ok THEN "2xx" ELSE "5xx")
     /\ UNCHANGED <<pipelineVars, phoneVars>>

\* Mutant: whatever the pipeline says, the phone hears "accepted".
AcceptReturnsAccepted(h) ==
  /\ http[h].pc = "accept" /\ http[h].item \in Events
  /\ Return(h)
  /\ Respond(h, IF call[h].answer = "rejected" THEN "4xx" ELSE "2xx")
  /\ UNCHANGED <<phoneVars, rows>>

\* postEvent turns Accept's result into a status code.
AcceptReturns(h) ==
  /\ http[h].pc = "accept" /\ http[h].item \in Events
  /\ Return(h)
  /\ Respond(h, CASE call[h].answer = "rejected" -> "4xx"
                  [] call[h].answer = "error"    -> "5xx"
                  [] OTHER                       -> "2xx")
  /\ UNCHANGED <<phoneVars, rows>>

\* A response nobody waits for any more.
DropResponse(h) ==
  /\ http[h].pc = "answered"
  /\ ~(worker.pc = "waiting" /\ worker.on = h)
  /\ http' = [http EXCEPT ![h] = FreeRequest]
  /\ UNCHANGED <<pipelineVars, phoneVars, rows>>

\* The pipeline's own steps inside Accept, and its streams'.
PipelineStep ==
  /\ \/ \E h \in Calls : CallStep(h)
     \/ \E s \in Streams : StreamStep(s)
  /\ UNCHANGED <<phoneVars, http, rows>>

\* The connector dies and starts again, with every request in it or on its way.
ConnectorRestarts ==
  /\ Restart
  /\ http' = [h \in Calls |-> FreeRequest]
  /\ UNCHANGED <<phoneVars, rows>>

WorkerStep ==
  \/ Take \/ TimeOut \/ Misconfigured \/ BackoffEnds
  \/ \E h \in Calls : Post(h) \/ Answer(h)

RequestStep(h) ==
  \/ Arrive(h) \/ LoseRequest(h) \/ ResolveDevice(h) \/ ResolveFails(h)
  \/ \E ok, committed \in BOOLEAN : InsertTelemetry(h, ok, committed)
  \/ AcceptReturns(h) \/ DropResponse(h)

PathNext ==
  \/ \E i \in Items : Report(i)
  \/ WorkerStep \/ ProcessDies
  \/ \E h \in Calls : RequestStep(h)
  \/ PipelineStep \/ ConnectorRestarts

\* The phone's own coroutine runs, its sockets time out. Nothing is assumed
\* of the network or of the connector.
PathSpec == PathInit /\ [][PathNext]_vars /\ WF_vars(WorkerStep)
-----------------------------------------------------------------------------
(***************************************************************************)
(* Properties.                                                             *)
(***************************************************************************)

PathTypeOK ==
  /\ before \in [Items -> SUBSET Items] /\ queue \in Seq(Items) /\ Len(queue) <= Capacity
  /\ fate \in [Items -> Fates]
  /\ worker \in Worker
  /\ http \in [Calls -> Request]
  /\ rows \in [Snapshots -> Nat]

\* What the phone was told is accepted is in the connector's tables.
AcceptedIsStored ==
  \A i \in Items : fate[i] = "accepted" =>
    IF i \in Events THEN i \in stored ELSE rows[i] > 0

\* What is pending is in the queue or in the worker's hands, and only there.
PendingIsHeld ==
  \A i \in Items :
    /\ fate[i] = "pending" <=> i \in ToSet(queue) \/ worker.item = i
    /\ i \in ToSet(queue) => worker.item # i

\* No report vanishes: one that is neither dropped, given up, refused nor lost
\* with the process is still held, or stored, although the answer crosses three
\* layers (Accept, handler, gateway) that each know errors of their own.
NothingVanishes == AcceptedIsStored /\ PendingIsHeld

\* "Under a long outage the freshest data wins": whatever overflow drops is
\* older than everything still queued.
FreshestSurvive ==
  \A i \in ToSet(queue), dropped \in Items :
    fate[dropped] = "evicted" => dropped \in before[i]

\* Telemetry has no uniqueness: a retry whose first response was lost inserts
\* again. But the copies are bounded by the attempts, however late a request
\* runs and whichever side restarts. (Checked with the types.)
AttemptsBoundRows ==
  /\ PathTypeOK
  /\ \A t \in Snapshots : rows[t] <= SnapshotAttempts

\* How often report i is in the tables.
Kept(i) == IF i \in Events THEN (IF i \in stored THEN 1 ELSE 0) ELSE rows[i]

Contract == INSTANCE ReportContract
  WITH Refused <- Refused \cup Malformed, MostSnapshots <- SnapshotAttempts,
       kept <- [i \in Items |-> Kept(i)], shown <- seen

\* The whole path, with requests that outlive their timeouts next to their own
\* retries, answers that overtake each other and restarts on both sides, keeps
\* the contract: a client sees an event once and only if it is kept, what the
\* phone concludes is true, and a report the queue dropped is never kept.
KeepsContract == Contract!Spec

\* Every report is settled in the end whatever the connector does: the worker
\* never blocks for ever on one item. (A settled report is never pending again,
\* so this says pending ~> settled.)
EveryReportIsSettled ==
  \A i \in Items : []<>(fate[i] # "pending")
=============================================================================
