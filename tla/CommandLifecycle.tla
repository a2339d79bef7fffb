--------------------------- MODULE CommandLifecycle ---------------------------
(***************************************************************************)
(* The command path of the cloud connector: commands.Service (Create,      *)
(* dispatch, Poll, ReportResult, RunReaper) over the commands table of     *)
(* storage.Store, with the gRPC callers, the polling edge devices and the  *)
(* push provider around it.                                                *)
(*                                                                         *)
(* Every SQL statement is one atomic step, as it is in PostgreSQL; what    *)
(* the code does between two statements (a network call, another request's *)
(* statement, a crash) interleaves. A gRPC Create is therefore a small     *)
(* process with a program counter; Poll, ReportResult and the reaper are   *)
(* single statements and single actions.                                   *)
(***************************************************************************)
EXTENDS Naturals, FiniteSets

CONSTANTS
  Commands,      \* identifiers uuid.NewString can return
  EdgeDevices,   \* devices of provider guardian-edge: they poll
  PushDevices,   \* devices whose provider has a CommandSender (alphasense)
  OtherDevices,  \* unknown devices, and those of a provider without a sender
  Keys,          \* non-empty idempotency keys
  NoKey,         \* the empty idempotency key: no deduplication
  Requests,      \* Create calls, retries of a caller included
  TTL,           \* command time to live
  PollLimit,     \* commands returned by one poll (10 in ingest.getCommands)
  MaxTime,       \* bound of the model: the last instant of the clock
  NoCommand, NoDevice

Devices == EdgeDevices \cup PushDevices \cup OtherDevices

ASSUME ConstantsAssumption ==
  /\ TTL \in Nat \ {0} /\ PollLimit \in Nat \ {0} /\ MaxTime \in Nat
  /\ NoKey \notin Keys /\ NoCommand \notin Commands /\ NoDevice \notin Devices
  /\ EdgeDevices \cap PushDevices = {}
  /\ OtherDevices \cap (EdgeDevices \cup PushDevices) = {}

VARIABLES
  now,        \* the clock of connector and database
  row,        \* row[c]: the row of table commands with id c
  req,        \* req[r]: the Create call r
  claims,     \* claims[c]: how many polls returned c
  dispatches, \* dispatches[c]: how many SendCommand calls were made for c
  accepted    \* commands the push provider has taken over

vars == <<now, row, req, claims, dispatches, accepted>>

Terminal == {"ACKNOWLEDGED", "FAILED"}
States   == {"NONE", "PENDING", "DELIVERED"} \cup Terminal
NoTime   == 0          \* SQL NULL in delivered_at and completed_at

\* result_message, by who wrote it.
Results == {"", "accepted by provider", "dispatch error", "device", "expired"}

Row == [state: States, device: Devices \cup {NoDevice}, key: Keys \cup {NoKey},
        result: Results, createdAt: Nat, expiresAt: Nat,
        deliveredAt: Nat, completedAt: Nat]

NoRow == [state |-> "NONE", device |-> NoDevice, key |-> NoKey, result |-> "",
          createdAt |-> NoTime, expiresAt |-> NoTime,
          deliveredAt |-> NoTime, completedAt |-> NoTime]

\* A Create call: "insert" has validated and is about to run CreateCommand,
\* "send" is inside sender.SendCommand, "record" is about to write the
\* dispatch outcome `to`; "done" has answered `reply`.
Request == [pc: {"idle", "insert", "send", "record", "done"},
            device: Devices \cup {NoDevice}, key: Keys \cup {NoKey},
            expiresAt: Nat, cmd: Commands \cup {NoCommand},
            to: {"", "DELIVERED", "FAILED"},
            reply: {"", "invalid", "error", "created", "replayed", "dispatched"}]

IdleRequest == [pc |-> "idle", device |-> NoDevice, key |-> NoKey,
                expiresAt |-> NoTime, cmd |-> NoCommand, to |-> "", reply |-> ""]

Exists(c) == row[c].state # "NONE"

Init ==
  /\ now = 1
  /\ row = [c \in Commands |-> NoRow]
  /\ req = [r \in Requests |-> IdleRequest]
  /\ claims = [c \in Commands |-> 0]
  /\ dispatches = [c \in Commands |-> 0]
  /\ accepted = {}

Tick ==
  /\ now < MaxTime
  /\ now' = now + 1
  /\ UNCHANGED <<row, req, claims, dispatches, accepted>>
-----------------------------------------------------------------------------
(***************************************************************************)
(* Service.Create, one step per statement or network call.                 *)
(***************************************************************************)

\* The capability check: guardian-edge devices are polled, any other provider
\* needs a sender.
AcceptsCommands(d) == d \in EdgeDevices \cup PushDevices

\* Validation, device lookup and the capability check pass; ExpiresAt is
\* computed here, before the INSERT runs. (The bound keeps every expiry
\* within the modelled time.)
Begin(r, d, k) ==
  /\ req[r].pc = "idle"
  /\ AcceptsCommands(d)
  /\ now + TTL <= MaxTime
  /\ req' = [req EXCEPT ![r] = [@ EXCEPT !.pc = "insert", !.device = d,
                                          !.key = k, !.expiresAt = now + TTL]]
  /\ UNCHANGED <<now, row, claims, dispatches, accepted>>

\* ErrValidation: nothing is stored.
Reject(r, d) ==
  /\ req[r].pc = "idle"
  /\ ~AcceptsCommands(d)
  /\ req' = [req EXCEPT ![r] = [@ EXCEPT !.pc = "done", !.reply = "invalid"]]
  /\ UNCHANGED <<now, row, claims, dispatches, accepted>>

\* Mutant: the index only covers commands that are still PENDING.
ConflictsPendingOnly(d, k) ==
  {c \in Commands : /\ k # NoKey
                    /\ row[c].state = "PENDING"
                    /\ row[c].device = d /\ row[c].key = k}

\* The rows a CreateCommand collides with: the partial unique index
\* (device_id, idempotency_key) WHERE idempotency_key <> ''.
Conflicts(d, k) ==
  {c \in Commands : /\ k # NoKey
                    /\ Exists(c) /\ row[c].device = d /\ row[c].key = k}

NewRow(r) ==
  [NoRow EXCEPT !.state = "PENDING", !.device = req[r].device,
                !.key = req[r].key, !.createdAt = now,
                !.expiresAt = req[r].expiresAt]

\* CreateCommand inserts under a fresh id. Create then either dispatches (the
\* device's provider has a sender) or leaves the command to be polled. The
\* caller may hear of an error all the same, when the outcome of the INSERT or
\* the SELECT after it is lost (for a push device: an Abandon before sending).
Insert(r) ==
  /\ req[r].pc = "insert"
  /\ Conflicts(req[r].device, req[r].key) = {}
  /\ \E c \in Commands :
       /\ ~Exists(c)
       /\ row' = [row EXCEPT ![c] = NewRow(r)]
       /\ IF req[r].device \in PushDevices
          THEN /\ req' = [req EXCEPT ![r] = [@ EXCEPT !.pc = "send", !.cmd = c]]
               /\ dispatches' = [dispatches EXCEPT ![c] = @ + 1]
          ELSE /\ \E reply \in {"created", "error"} :
                    req' = [req EXCEPT ![r] = [@ EXCEPT !.pc = "done", !.cmd = c,
                                                        !.reply = reply]]
               /\ UNCHANGED dispatches
  /\ UNCHANGED <<now, claims, accepted>>

\* ON CONFLICT DO NOTHING affected no row: the existing command is returned
\* as it is, and nothing is dispatched.
Replay(r) ==
  /\ req[r].pc = "insert"
  /\ \E c \in Conflicts(req[r].device, req[r].key) :
       req' = [req EXCEPT ![r] = [@ EXCEPT !.pc = "done", !.cmd = c,
                                            !.reply = "replayed"]]
  /\ UNCHANGED <<now, row, claims, dispatches, accepted>>

\* The provider takes the instruction over, any time while SendCommand runs;
\* request_ref = cmd.ID makes the adapter's own retries one instruction.
ProviderAccepts(r) ==
  /\ req[r].pc = "send"
  /\ accepted' = accepted \cup {req[r].cmd}
  /\ UNCHANGED <<now, row, req, claims, dispatches>>

\* Mutant: a timed-out SendCommand is taken for a success.
SendReturnsUnchecked(r, ok) ==
  /\ req[r].pc = "send"
  /\ req' = [req EXCEPT ![r] = [@ EXCEPT !.pc = "record",
                               !.to = IF ok THEN "DELIVERED" ELSE "FAILED"]]
  /\ UNCHANGED <<now, row, claims, dispatches, accepted>>

\* Mutant: the adapter reports the provider's 202 as the device's answer.
SendReturnsAcknowledged(r, ok) ==
  /\ req[r].pc = "send"
  /\ ok => req[r].cmd \in accepted
  /\ req' = [req EXCEPT ![r] = [@ EXCEPT !.pc = "record",
                               !.to = IF ok THEN "ACKNOWLEDGED" ELSE "FAILED"]]
  /\ UNCHANGED <<now, row, claims, dispatches, accepted>>

\* SendCommand returns. Success needs a 2xx, so the provider has the
\* instruction; an error may follow a lost response, so it may have it too.
SendReturns(r, ok) ==
  /\ req[r].pc = "send"
  /\ ok => req[r].cmd \in accepted
  /\ req' = [req EXCEPT ![r] = [@ EXCEPT !.pc = "record",
                               !.to = IF ok THEN "DELIVERED" ELSE "FAILED"]]
  /\ UNCHANGED <<now, row, claims, dispatches, accepted>>

\* Mutants: a result is taken before delivery; a failure overrides an answer.
LegalFromAckEarly(to) ==
  CASE to = "DELIVERED"    -> {"PENDING"}
    [] to = "ACKNOWLEDGED" -> {"PENDING", "DELIVERED"}
    [] to = "FAILED"       -> {"PENDING", "DELIVERED"}

LegalFromFailLate(to) ==
  CASE to = "DELIVERED"    -> {"PENDING"}
    [] to = "ACKNOWLEDGED" -> {"DELIVERED"}
    [] to = "FAILED"       -> {"PENDING", "DELIVERED", "ACKNOWLEDGED"}

\* TransitionCommand: the source states its WHERE clause admits.
LegalFrom(to) ==
  CASE to = "DELIVERED"    -> {"PENDING"}
    [] to = "ACKNOWLEDGED" -> {"DELIVERED"}
    [] to = "FAILED"       -> {"PENDING", "DELIVERED"}

\* The row a state-changing UPDATE writes. An empty message keeps the old one.
Moved(c, to, msg) ==
  [row[c] EXCEPT !.state = to,
                 !.result = IF msg = "" THEN @ ELSE msg,
                 !.deliveredAt = IF to = "DELIVERED" THEN now ELSE @,
                 !.completedAt = IF to \in Terminal THEN now ELSE @]

\* An illegal transition affects zero rows and changes nothing.
TransitionCommand(c, to, msg) ==
  row' = IF row[c].state \in LegalFrom(to)
         THEN [row EXCEPT ![c] = Moved(c, to, msg)]
         ELSE row

\* dispatch writes the outcome. The reaper or a device result may have moved
\* the command meanwhile: then ErrInvalidTransition is the answer.
Record(r) ==
  LET c  == req[r].cmd
      to == req[r].to
  IN /\ req[r].pc = "record"
     /\ TransitionCommand(c, to, IF to = "DELIVERED" THEN "accepted by provider"
                                                     ELSE "dispatch error")
     /\ req' = [req EXCEPT ![r] = [@ EXCEPT !.pc = "done",
                  !.reply = IF row[c].state \in LegalFrom(to)
                            THEN "dispatched" ELSE "error"]]
     /\ UNCHANGED <<now, claims, dispatches, accepted>>

\* The call ends early: a storage error before the statement took effect, a
\* cancelled context, or a connector crash (which ends every call in flight).
\* The commands table is the only thing that survives.
Abandon(r) ==
  /\ req[r].pc \in {"insert", "send", "record"}
  /\ req' = [req EXCEPT ![r] = [@ EXCEPT !.pc = "done", !.reply = "error"]]
  /\ UNCHANGED <<now, row, claims, dispatches, accepted>>
-----------------------------------------------------------------------------
(***************************************************************************)
(* Poll: the device's side of a guardian-edge command.                     *)
(***************************************************************************)

\* Mutants: a poll also returns what an earlier poll claimed; the deadline
\* itself still counts as in time.
ClaimableAgain(d) ==
  {c \in Commands : /\ row[c].state \in {"PENDING", "DELIVERED"}
                    /\ row[c].device = d /\ row[c].expiresAt > now}

ClaimableAtDeadline(d) ==
  {c \in Commands : /\ row[c].state = "PENDING" /\ row[c].device = d
                    /\ row[c].expiresAt >= now}

\* FetchPendingCommands, the WHERE clause of its subquery.
Claimable(d) ==
  {c \in Commands : /\ row[c].state = "PENDING" /\ row[c].device = d
                    /\ row[c].expiresAt > now}

\* ORDER BY created_at LIMIT n: the n oldest, ties in any order.
OldestFirst(S, T) ==
  /\ S \subseteq T /\ Cardinality(S) <= PollLimit
  /\ S # T => Cardinality(S) = PollLimit
  /\ \A c \in S, e \in T \ S : row[c].createdAt <= row[e].createdAt

\* One poll. The UPDATE ... RETURNING with FOR UPDATE SKIP LOCKED is one
\* atomic claim; the connector does not learn whether its response arrives.
Poll(d) ==
  /\ d \in EdgeDevices
  /\ \E S \in (SUBSET Claimable(d)) \ {{}} :
       /\ OldestFirst(S, Claimable(d))
       /\ row' = [c \in Commands |-> IF c \in S
                    THEN [row[c] EXCEPT !.state = "DELIVERED",
                                        !.deliveredAt = now]
                    ELSE row[c]]
       /\ claims' = [c \in Commands |-> IF c \in S THEN claims[c] + 1
                                                   ELSE claims[c]]
  /\ UNCHANGED <<now, req, dispatches, accepted>>

\* POST /v1/edge/commands/{id}/result. The endpoint takes any id: an unknown
\* one is 404, one that is not awaiting a result 409, both without effect.
ReportResult(c, ok, msg) ==
  /\ TransitionCommand(c, IF ok THEN "ACKNOWLEDGED" ELSE "FAILED", msg)
  /\ UNCHANGED <<now, req, claims, dispatches, accepted>>

\* Mutant: the reaper only looks at commands a device has taken.
OverdueDelivered ==
  {c \in Commands : row[c].state = "DELIVERED" /\ row[c].expiresAt <= now}

\* ExpireCommands, the statement behind RunReaper's tick.
Overdue ==
  {c \in Commands : /\ row[c].state \in {"PENDING", "DELIVERED"}
                    /\ row[c].expiresAt <= now}

ExpireCommands ==
  /\ Overdue # {}
  /\ row' = [c \in Commands |-> IF c \in Overdue
               THEN Moved(c, "FAILED", "expired") ELSE row[c]]
  /\ UNCHANGED <<now, req, claims, dispatches, accepted>>
-----------------------------------------------------------------------------
CreateStep(r) ==
  \/ \E d \in Devices, k \in Keys \cup {NoKey} : Begin(r, d, k)
  \/ \E d \in Devices : Reject(r, d)
  \/ Insert(r) \/ Replay(r) \/ ProviderAccepts(r)
  \/ \E ok \in BOOLEAN : SendReturns(r, ok)
  \/ Record(r) \/ Abandon(r)

CommandStep(c) ==
  \E ok \in BOOLEAN, msg \in {"", "device"} : ReportResult(c, ok, msg)

Next ==
  \/ Tick
  \/ \E r \in Requests : CreateStep(r)
  \/ \E d \in EdgeDevices : Poll(d)
  \/ \E c \in Commands : CommandStep(c)
  \/ ExpireCommands

\* Time passes, and the reaper's ticker runs for as long as the connector
\* does; a failed tick is retried by the next one. Nobody else is obliged to
\* move: callers may crash and devices may stay offline.
Fairness == WF_vars(Tick) /\ WF_vars(ExpireCommands)

Spec == Init /\ [][Next]_vars /\ Fairness
-----------------------------------------------------------------------------
(***************************************************************************)
(* Properties.                                                             *)
(***************************************************************************)

TypeOK ==
  /\ now \in Nat \ {0}
  /\ row \in [Commands -> Row]
  /\ req \in [Requests -> Request]
  /\ claims \in [Commands -> Nat]
  /\ dispatches \in [Commands -> Nat]
  /\ accepted \subseteq Commands

\* A command leaves the connector at most once, over concurrent polls, caller
\* retries, replays and abandoned dispatches: the poll's claim and Create's
\* dispatch never repeat and never both happen to one command.
HandedOutAtMostOnce ==
  \A c \in Commands : claims[c] + dispatches[c] <= 1

\* Calls that carry the same idempotency key for the same device are answered
\* with the same command, however they interleave and fail: a retried
\* SendCommand never enqueues a second one.
SameKeySameCommand ==
  \A r, q \in Requests :
    /\ req[r].cmd # NoCommand /\ req[q].cmd # NoCommand
    /\ req[r].device = req[q].device
    /\ req[r].key = req[q].key /\ req[r].key # NoKey
    => req[r].cmd = req[q].cmd

\* delivered_at is the record of a real hand-over: an edge command carries it
\* exactly when one poll returned it, a push command only if the provider
\* took the instruction. It survives whatever happens to the command later.
DeliveryIsWitnessed ==
  \A c \in Commands :
    /\ row[c].device \in EdgeDevices =>
         (row[c].deliveredAt # NoTime <=> claims[c] = 1)
    /\ row[c].device \in PushDevices =>
         (row[c].deliveredAt # NoTime => c \in accepted)

\* The timestamps tell the history of the row: which of them are set follows
\* from the state, delivery never precedes creation nor follows completion,
\* and only a delivered command is ever acknowledged.
TimestampsTellHistory ==
  \A c \in Commands :
    LET w == row[c]
    IN /\ Exists(c) => w.createdAt # NoTime
       /\ w.state \in Terminal <=> w.completedAt # NoTime
       /\ w.state = "PENDING" => w.deliveredAt = NoTime
       /\ w.state \in {"DELIVERED", "ACKNOWLEDGED"} => w.deliveredAt # NoTime
       /\ w.deliveredAt # NoTime => w.createdAt <= w.deliveredAt
       /\ w.completedAt # NoTime => w.deliveredAt <= w.completedAt

\* The reaper and the polls agree on the deadline, although they are separate
\* statements: an edge device is only ever given a command before its expiry,
\* and a command is only called expired at or after it.
DeadlineIsRespected ==
  \A c \in Commands :
    LET w == row[c]
    IN /\ w.device \in EdgeDevices /\ w.deliveredAt # NoTime
            => w.deliveredAt < w.expiresAt
       /\ w.result = "expired" => w.completedAt >= w.expiresAt

\* The statements of storage.go implement the contract: they never take a
\* command along an edge domain.CanTransition does not have, and never call
\* DELIVERED what did not leave the connector.
Contract == INSTANCE CommandContract WITH
              st  <- [c \in Commands |-> row[c].state],
              out <- {c \in Commands : claims[c] > 0} \cup accepted

ImplementsContract == Contract!Spec

\* Every enqueued command is settled in the end: acknowledged, or failed by
\* its result, its dispatch or the reaper, even if its Create call died
\* before dispatching it and its device never polls.
EveryCommandSettles ==
  \A c \in Commands : row[c].state = "PENDING" ~> row[c].state \in Terminal
=============================================================================
