------------------------ MODULE CommandLifecycleProofs ------------------------
(***************************************************************************)
(* Proofs about CommandLifecycle, for any number of commands, devices,     *)
(* keys and concurrent Create calls, and any TTL and poll limit.           *)
(***************************************************************************)
EXTENDS CommandLifecycle, TLAPS

-----------------------------------------------------------------------------
(***************************************************************************)
(* The inductive invariant.                                                *)
(***************************************************************************)

\* An id that is not in the table has no trace anywhere.
FreshIds ==
  \A c \in Commands :
    ~Exists(c) => /\ row[c] = NoRow
                  /\ claims[c] = 0 /\ dispatches[c] = 0 /\ c \notin accepted

\* A row w belongs to one kind of device, and that kind decides how its command
\* leaves the connector: by one poll (n polls so far), or by one dispatch (m
\* dispatches so far) that the provider accepts (acc).
WayOutOK(w, n, m, acc) ==
  w.state # "NONE" =>
    \/ /\ w.device \in EdgeDevices /\ m = 0 /\ ~acc
       /\ w.deliveredAt = NoTime => n = 0
       /\ w.deliveredAt # NoTime => n = 1
    \/ /\ w.device \in PushDevices /\ m = 1 /\ n = 0
       /\ w.deliveredAt # NoTime => acc

OneWayOut ==
  \A c \in Commands :
    WayOutOK(row[c], claims[c], dispatches[c], c \in accepted)

\* The timestamps of a row w read at time t: they lie in the past, and tell
\* how far the command has come.
HistoryOK(w, t) ==
  /\ w.state # "NONE" => w.createdAt # NoTime /\ w.createdAt <= t
  /\ w.state \in Terminal <=> w.completedAt # NoTime
  /\ w.state \in {"NONE", "PENDING"} => w.deliveredAt = NoTime
  /\ w.state \in {"DELIVERED", "ACKNOWLEDGED"} => w.deliveredAt # NoTime
  /\ w.deliveredAt # NoTime => w.createdAt <= w.deliveredAt
  /\ w.deliveredAt <= t
  /\ w.completedAt # NoTime => w.deliveredAt <= w.completedAt
  /\ w.result = "expired" => w.state = "FAILED"

RowHistory == \A c \in Commands : HistoryOK(row[c], now)

\* A call that dispatches or records does it for a real command.
CallsInProgress ==
  \A r \in Requests :
    /\ req[r].pc \in {"send", "record"} => req[r].cmd \in Commands
    /\ req[r].pc = "record" => req[r].to \in {"DELIVERED", "FAILED"}

\* What a Create call q remembers between its steps is true of the table and
\* of the provider.
CallOK(q, rows, acc) ==
  /\ q.pc = "insert" => q.device \in EdgeDevices \cup PushDevices
  /\ q.pc \in {"idle", "insert"} => q.cmd = NoCommand
  /\ q.pc \in {"send", "record"} => q.device \in PushDevices
  /\ q.pc = "record" /\ q.to = "DELIVERED" => q.cmd \in acc
  /\ q.cmd # NoCommand => /\ rows[q.cmd].state # "NONE"
                          /\ rows[q.cmd].device = q.device
                          /\ rows[q.cmd].key = q.key

RequestsMatchRows == \A r \in Requests : CallOK(req[r], row, accepted)

\* The partial unique index.
KeysAreUnique ==
  \A c, e \in Commands :
    /\ Exists(c) /\ Exists(e)
    /\ row[c].device = row[e].device
    /\ row[c].key = row[e].key /\ row[c].key # NoKey
    => c = e

IInv == /\ TypeOK /\ CallsInProgress /\ FreshIds /\ OneWayOut /\ RowHistory
        /\ RequestsMatchRows /\ KeysAreUnique /\ DeadlineIsRespected
-----------------------------------------------------------------------------
(***************************************************************************)
(* The row operators.                                                      *)
(***************************************************************************)

\* What the WHERE clause of TransitionCommand admits for each target state.
LEMMA LegalSources ==
  /\ LegalFrom("DELIVERED") = {"PENDING"}
  /\ LegalFrom("ACKNOWLEDGED") = {"DELIVERED"}
  /\ LegalFrom("FAILED") = {"PENDING", "DELIVERED"}
  BY DEF LegalFrom

\* Row w is row v moved to state `to` at time t, by a message msg.
IsMoved(w, v, to, msg, t) ==
  /\ w.state = to /\ w.device = v.device /\ w.key = v.key
  /\ w.createdAt = v.createdAt /\ w.expiresAt = v.expiresAt
  /\ w.result = IF msg = "" THEN v.result ELSE msg
  /\ w.deliveredAt = IF to = "DELIVERED" THEN t ELSE v.deliveredAt
  /\ w.completedAt = IF to \in Terminal THEN t ELSE v.completedAt

\* Row w is a fresh PENDING row written at time t.
IsNew(w, d, k, t) ==
  /\ w.state = "PENDING" /\ w.device = d /\ w.key = k
  /\ w.createdAt = t /\ w.result = ""
  /\ w.deliveredAt = NoTime /\ w.completedAt = NoTime

\* Row w is row v claimed by a poll at time t.
IsClaimed(w, v, t) ==
  /\ w.state = "DELIVERED" /\ w.deliveredAt = t
  /\ w.device = v.device /\ w.key = v.key /\ w.result = v.result
  /\ w.createdAt = v.createdAt /\ w.expiresAt = v.expiresAt
  /\ w.completedAt = v.completedAt

\* What the UPDATE of TransitionCommand and ExpireCommands writes and keeps.
LEMMA MovedRow ==
  ASSUME TypeOK, NEW c \in Commands, NEW msg \in Results,
         NEW to \in {"DELIVERED", "ACKNOWLEDGED", "FAILED"}
  PROVE  /\ Moved(c, to, msg) \in Row
         /\ IsMoved(Moved(c, to, msg), row[c], to, msg, now)
  BY DEF TypeOK, Moved, Row, States, Terminal, IsMoved

\* What CreateCommand inserts.
LEMMA InsertedRow ==
  ASSUME TypeOK, NEW r \in Requests
  PROVE  /\ NewRow(r) \in Row
         /\ IsNew(NewRow(r), req[r].device, req[r].key, now)
  <1>1. req[r] \in Request /\ now \in Nat
    BY DEF TypeOK
  <1> QED BY <1>1 DEF NewRow, NoRow, Row, States, Terminal, Results, Request,
                      NoTime, IsNew

\* What a poll writes into a row it claims.
LEMMA ClaimedRow ==
  ASSUME TypeOK, NEW c \in Commands
  PROVE  LET w == [row[c] EXCEPT !.state = "DELIVERED", !.deliveredAt = now]
         IN  w \in Row /\ IsClaimed(w, row[c], now)
  BY DEF TypeOK, Row, States, Terminal, IsClaimed
-----------------------------------------------------------------------------
(***************************************************************************)
(* Type correctness.                                                       *)
(***************************************************************************)

LEMMA InitTypeOK == Init => TypeOK
  <1> SUFFICES ASSUME Init PROVE TypeOK
    OBVIOUS
  <1>1. NoRow \in Row
    BY DEF NoRow, Row, States, Results, NoTime
  <1>2. IdleRequest \in Request
    BY DEF IdleRequest, Request, NoTime
  <1> QED BY <1>1, <1>2 DEF Init, TypeOK

\* A step of one Create call that only changes the call's own record.
LEMMA RequestStepTypeOK ==
  ASSUME TypeOK, NEW r \in Requests, NEW q \in Request,
         req' = [req EXCEPT ![r] = q]
  PROVE  req' \in [Requests -> Request]
  BY DEF TypeOK

LEMMA TransitionTypeOK ==
  ASSUME TypeOK, NEW c \in Commands, NEW msg \in Results,
         NEW to \in {"DELIVERED", "ACKNOWLEDGED", "FAILED"},
         TransitionCommand(c, to, msg)
  PROVE  row' \in [Commands -> Row]
  <1>1. Moved(c, to, msg) \in Row
    BY MovedRow
  <1>2. row \in [Commands -> Row]
    BY DEF TypeOK
  <1> QED BY <1>1, <1>2 DEF TransitionCommand

LEMMA NextTypeOK == TypeOK /\ CallsInProgress /\ [Next]_vars => TypeOK'
  <1> SUFFICES ASSUME TypeOK, CallsInProgress, [Next]_vars PROVE TypeOK'
    OBVIOUS
  <1>1. CASE Tick
    BY <1>1 DEF Tick, TypeOK
  <1>2. ASSUME NEW r \in Requests, CreateStep(r) PROVE TypeOK'
    <2>1. ASSUME NEW d \in Devices, NEW k \in Keys \cup {NoKey}, Begin(r, d, k)
          PROVE  TypeOK'
      <3>1. now + TTL \in Nat
        BY ConstantsAssumption DEF TypeOK
      <3>2. [req[r] EXCEPT !.pc = "insert", !.device = d, !.key = k,
                           !.expiresAt = now + TTL] \in Request
        BY <3>1 DEF TypeOK, Request
      <3>3. req' \in [Requests -> Request]
        BY <2>1, <3>2, RequestStepTypeOK DEF Begin
      <3> QED BY <2>1, <3>3 DEF Begin, TypeOK
    <2>2. ASSUME NEW d \in Devices, Reject(r, d) PROVE TypeOK'
      <3>1. [req[r] EXCEPT !.pc = "done", !.reply = "invalid"] \in Request
        BY DEF TypeOK, Request
      <3>2. req' \in [Requests -> Request]
        BY <2>2, <3>1, RequestStepTypeOK DEF Reject
      <3> QED BY <2>2, <3>2 DEF Reject, TypeOK
    <2>3. CASE Insert(r)
      <3>1. PICK c \in Commands, reply \in {"created", "error"} :
              /\ row' = [row EXCEPT ![c] = NewRow(r)]
              /\ \/ /\ req' = [req EXCEPT ![r] =
                                  [@ EXCEPT !.pc = "send", !.cmd = c]]
                    /\ dispatches' = [dispatches EXCEPT ![c] = @ + 1]
                 \/ /\ req' = [req EXCEPT ![r] =
                                  [@ EXCEPT !.pc = "done", !.cmd = c,
                                            !.reply = reply]]
                    /\ UNCHANGED dispatches
        BY <2>3 DEF Insert
      <3>2. row' \in [Commands -> Row]
        BY <3>1, InsertedRow DEF TypeOK
      <3>3. /\ [req[r] EXCEPT !.pc = "send", !.cmd = c] \in Request
            /\ [req[r] EXCEPT !.pc = "done", !.cmd = c, !.reply = reply]
                 \in Request
        BY DEF TypeOK, Request
      <3>4. req' \in [Requests -> Request]
        BY <3>1, <3>3, RequestStepTypeOK
      <3>5. dispatches' \in [Commands -> Nat]
        BY <3>1 DEF TypeOK
      <3> QED BY <2>3, <3>2, <3>4, <3>5 DEF Insert, TypeOK
    <2>4. CASE Replay(r)
      <3>1. PICK c \in Commands :
              req' = [req EXCEPT ![r] = [@ EXCEPT !.pc = "done", !.cmd = c,
                                                  !.reply = "replayed"]]
        BY <2>4 DEF Replay, Conflicts
      <3>2. [req[r] EXCEPT !.pc = "done", !.cmd = c, !.reply = "replayed"]
              \in Request
        BY DEF TypeOK, Request
      <3>3. req' \in [Requests -> Request]
        BY <3>1, <3>2, RequestStepTypeOK
      <3> QED BY <2>4, <3>3 DEF Replay, TypeOK
    <2>5. CASE ProviderAccepts(r)
      BY <2>5 DEF ProviderAccepts, CallsInProgress, TypeOK
    <2>6. ASSUME NEW ok \in BOOLEAN, SendReturns(r, ok) PROVE TypeOK'
      <3>1. [req[r] EXCEPT !.pc = "record",
                           !.to = IF ok THEN "DELIVERED" ELSE "FAILED"]
              \in Request
        BY DEF TypeOK, Request
      <3>2. req' \in [Requests -> Request]
        BY <2>6, <3>1, RequestStepTypeOK DEF SendReturns
      <3> QED BY <2>6, <3>2 DEF SendReturns, TypeOK
    <2>7. CASE Record(r)
      <3>1. \A reply \in {"dispatched", "error"} :
              [req[r] EXCEPT !.pc = "done", !.reply = reply] \in Request
        BY DEF TypeOK, Request
      <3>2. req' \in [Requests -> Request]
        BY <2>7, <3>1, RequestStepTypeOK DEF Record
      <3>3. row' \in [Commands -> Row]
        BY <2>7, TransitionTypeOK DEF Record, CallsInProgress, Results
      <3> QED BY <2>7, <3>2, <3>3 DEF Record, TypeOK
    <2>8. CASE Abandon(r)
      <3>1. [req[r] EXCEPT !.pc = "done", !.reply = "error"] \in Request
        BY DEF TypeOK, Request
      <3>2. req' \in [Requests -> Request]
        BY <2>8, <3>1, RequestStepTypeOK DEF Abandon
      <3> QED BY <2>8, <3>2 DEF Abandon, TypeOK
    <2> QED BY <1>2, <2>1, <2>2, <2>3, <2>4, <2>5, <2>6, <2>7, <2>8
            DEF CreateStep
  <1>3. ASSUME NEW d \in EdgeDevices, Poll(d) PROVE TypeOK'
    <2>1. PICK S \in SUBSET Claimable(d) :
            /\ row' = [c \in Commands |-> IF c \in S
                         THEN [row[c] EXCEPT !.state = "DELIVERED",
                                             !.deliveredAt = now]
                         ELSE row[c]]
            /\ claims' = [c \in Commands |-> IF c \in S THEN claims[c] + 1
                                                        ELSE claims[c]]
      BY <1>3 DEF Poll
    <2>2. row' \in [Commands -> Row]
      BY <2>1, ClaimedRow DEF TypeOK
    <2>3. claims' \in [Commands -> Nat]
      <3>1. claims' = [c \in Commands |-> IF c \in S THEN claims[c] + 1
                                                    ELSE claims[c]]
        BY <2>1
      <3>2. \A c \in Commands : claims[c] \in Nat /\ claims[c] + 1 \in Nat
        BY DEF TypeOK
      <3> QED BY <3>1, <3>2
    <2> QED BY <1>3, <2>2, <2>3 DEF Poll, TypeOK
  <1>4. ASSUME NEW c \in Commands, CommandStep(c) PROVE TypeOK'
    <2>1. ASSUME NEW ok \in BOOLEAN, NEW msg \in {"", "device"},
                 ReportResult(c, ok, msg)
          PROVE  TypeOK'
      BY <2>1, TransitionTypeOK DEF ReportResult, TypeOK, Results
    <2> QED BY <1>4, <2>1 DEF CommandStep
  <1>5. CASE ExpireCommands
    <2>1. \A c \in Commands : Moved(c, "FAILED", "expired") \in Row
      BY MovedRow DEF Results
    <2>2. row' \in [Commands -> Row]
      BY <1>5, <2>1 DEF ExpireCommands, TypeOK
    <2> QED BY <1>5, <2>2 DEF ExpireCommands, TypeOK
  <1>6. CASE UNCHANGED vars
    BY <1>6 DEF vars, TypeOK
  <1> QED BY <1>1, <1>2, <1>3, <1>4, <1>5, <1>6 DEF Next

LEMMA CallStepInProgress ==
  ASSUME TypeOK, CallsInProgress, NEW r \in Requests, NEW q,
         req' = [req EXCEPT ![r] = q],
         q.pc \in {"send", "record"} => q.cmd \in Commands,
         q.pc = "record" => q.to \in {"DELIVERED", "FAILED"}
  PROVE  CallsInProgress'
  BY DEF TypeOK, CallsInProgress

LEMMA NextCallsInProgress ==
  TypeOK /\ CallsInProgress /\ [Next]_vars => CallsInProgress'
  <1> SUFFICES ASSUME TypeOK, CallsInProgress, [Next]_vars
               PROVE  CallsInProgress'
    OBVIOUS
  <1> USE DEF CallsInProgress
  <1>1. CASE UNCHANGED req
    BY <1>1
  <1>2. ASSUME NEW r \in Requests, CreateStep(r) PROVE CallsInProgress'
    <2>1. ASSUME NEW d \in Devices, NEW k \in Keys \cup {NoKey}, Begin(r, d, k)
          PROVE  CallsInProgress'
      BY <2>1 DEF Begin, TypeOK
    <2>2. ASSUME NEW d \in Devices, Reject(r, d) PROVE CallsInProgress'
      BY <2>2 DEF Reject, TypeOK
    <2>3. CASE Insert(r)
      <3>1. PICK c \in Commands, reply \in {"created", "error"} :
              \/ req' = [req EXCEPT ![r] = [@ EXCEPT !.pc = "send", !.cmd = c]]
              \/ req' = [req EXCEPT ![r] = [@ EXCEPT !.pc = "done", !.cmd = c,
                                                     !.reply = reply]]
        BY <2>3 DEF Insert
      <3>2. /\ [req[r] EXCEPT !.pc = "send", !.cmd = c].pc = "send"
            /\ [req[r] EXCEPT !.pc = "send", !.cmd = c].cmd = c
            /\ [req[r] EXCEPT !.pc = "done", !.cmd = c, !.reply = reply].pc
                 = "done"
        BY DEF TypeOK, Request
      <3>3. CASE req' = [req EXCEPT ![r] = [@ EXCEPT !.pc = "send", !.cmd = c]]
        <4> DEFINE q == [req[r] EXCEPT !.pc = "send", !.cmd = c]
        <4>1. q.pc = "send" /\ q.cmd \in Commands /\ req' = [req EXCEPT ![r] = q]
          BY <3>2, <3>3
        <4> HIDE DEF q
        <4> QED BY <4>1, CallStepInProgress
      <3>4. CASE req' = [req EXCEPT ![r] = [@ EXCEPT !.pc = "done", !.cmd = c,
                                                     !.reply = reply]]
        <4> DEFINE q == [req[r] EXCEPT !.pc = "done", !.cmd = c,
                                       !.reply = reply]
        <4>1. q.pc = "done" /\ req' = [req EXCEPT ![r] = q]
          BY <3>2, <3>4
        <4> HIDE DEF q
        <4> QED BY <4>1, CallStepInProgress
      <3> QED BY <3>1, <3>3, <3>4
    <2>4. CASE Replay(r)
      BY <2>4 DEF Replay, TypeOK
    <2>5. CASE ProviderAccepts(r)
      BY <2>5 DEF ProviderAccepts
    <2>6. ASSUME NEW ok \in BOOLEAN, SendReturns(r, ok) PROVE CallsInProgress'
      BY <2>6 DEF SendReturns, TypeOK
    <2>7. CASE Record(r)
      <3> DEFINE reply == IF row[req[r].cmd].state \in LegalFrom(req[r].to)
                          THEN "dispatched" ELSE "error"
      <3>1. req' = [req EXCEPT ![r] = [@ EXCEPT !.pc = "done",
                                                !.reply = reply]]
        BY <2>7 DEF Record
      <3>2. [req[r] EXCEPT !.pc = "done", !.reply = reply].pc = "done"
        BY DEF TypeOK, Request
      <3> QED BY <3>1, <3>2, CallStepInProgress
    <2>8. CASE Abandon(r)
      BY <2>8 DEF Abandon, TypeOK
    <2> QED BY <1>2, <2>1, <2>2, <2>3, <2>4, <2>5, <2>6, <2>7, <2>8
            DEF CreateStep
  <1>3. CASE Tick \/ (\E d \in EdgeDevices : Poll(d)) \/ ExpireCommands
             \/ (\E c \in Commands : CommandStep(c)) \/ UNCHANGED vars
    BY <1>1, <1>3 DEF Tick, Poll, ExpireCommands, CommandStep, ReportResult, vars
  <1> QED BY <1>2, <1>3 DEF Next

\* The variables keep their types whatever the interleaving; a Create call
\* that is dispatching or recording always does it for a real command.
THEOREM TypeCorrectness == Spec => []TypeOK
  <1>1. Init => TypeOK /\ CallsInProgress
    <2>1. IdleRequest.pc = "idle"
      BY DEF IdleRequest
    <2> QED BY InitTypeOK, <2>1 DEF Init, CallsInProgress
  <1>2. TypeOK /\ CallsInProgress /\ [Next]_vars => (TypeOK /\ CallsInProgress)'
    BY NextTypeOK, NextCallsInProgress
  <1> QED BY <1>1, <1>2, PTL DEF Spec
-----------------------------------------------------------------------------
(***************************************************************************)
(* What a step can do to one row.                                          *)
(***************************************************************************)

RowInserted(c) ==
  /\ now' = now /\ ~Exists(c)
  /\ \E r \in Requests :
       /\ req[r].pc = "insert"
       /\ IsNew(row'[c], req[r].device, req[r].key, now)
       /\ \A e \in Conflicts(req[r].device, req[r].key) : FALSE
       /\ claims'[c] = claims[c]
       /\ dispatches'[c] = IF req[r].device \in PushDevices
                           THEN dispatches[c] + 1 ELSE dispatches[c]

RowClaimed(c) ==
  /\ claims'[c] = claims[c] + 1 /\ dispatches'[c] = dispatches[c]
  /\ now' = now
  /\ row[c].state = "PENDING" /\ row[c].device \in EdgeDevices
  /\ row[c].expiresAt > now
  /\ IsClaimed(row'[c], row[c], now)

RowMoved(c) ==
  /\ claims'[c] = claims[c] /\ dispatches'[c] = dispatches[c]
  /\ now' = now
  /\ \E to \in {"DELIVERED", "ACKNOWLEDGED", "FAILED"}, msg \in Results :
       /\ row[c].state \in LegalFrom(to)
       /\ IsMoved(row'[c], row[c], to, msg, now)
       /\ msg = "expired" => to = "FAILED" /\ row[c].expiresAt <= now
       /\ to = "DELIVERED" =>
            \E r \in Requests : /\ req[r].pc = "record" /\ req[r].cmd = c
                                /\ req[r].to = "DELIVERED"

RowKept(c) ==
  /\ row'[c] = row[c]
  /\ claims'[c] = claims[c] /\ dispatches'[c] = dispatches[c]

RowEvolves(c) ==
  RowKept(c) \/ RowInserted(c) \/ RowClaimed(c) \/ RowMoved(c)

\* An UPDATE by id moves that row, legally, or no row.
LEMMA TransitionMoves ==
  ASSUME TypeOK, NEW c \in Commands, NEW msg \in Results \ {"expired"},
         NEW to \in {"DELIVERED", "ACKNOWLEDGED", "FAILED"},
         TransitionCommand(c, to, msg), UNCHANGED <<now, claims, dispatches>>,
         to = "DELIVERED" =>
            \E r \in Requests : /\ req[r].pc = "record" /\ req[r].cmd = c
                                /\ req[r].to = "DELIVERED"
  PROVE  \A e \in Commands : RowEvolves(e)
  <1>1. CASE row[c].state \notin LegalFrom(to)
    BY <1>1 DEF TransitionCommand, RowEvolves, RowKept
  <1>2. CASE row[c].state \in LegalFrom(to)
    <2>1. row' = [row EXCEPT ![c] = Moved(c, to, msg)]
      BY <1>2 DEF TransitionCommand
    <2>2. IsMoved(row'[c], row[c], to, msg, now)
      BY <2>1, MovedRow DEF TypeOK
    <2>3. RowMoved(c)
      BY <1>2, <2>2 DEF RowMoved
    <2>4. \A e \in Commands \ {c} : row'[e] = row[e]
      BY <2>1 DEF TypeOK
    <2> QED BY <2>3, <2>4 DEF RowEvolves, RowKept
  <1> QED BY <1>1, <1>2

LEMMA RowsEvolve ==
  ASSUME TypeOK, CallsInProgress, [Next]_vars
  PROVE  now' >= now /\ \A c \in Commands : RowEvolves(c)
  <1>1. CASE UNCHANGED <<row, claims, dispatches>> /\ now' \in {now, now + 1}
    BY <1>1 DEF RowEvolves, RowKept, TypeOK
  <1>2. ASSUME NEW r \in Requests, CreateStep(r)
        PROVE  now' >= now /\ \A c \in Commands : RowEvolves(c)
    <2>1. CASE Insert(r)
      <3>1. PICK c \in Commands :
              /\ ~Exists(c)
              /\ row' = [row EXCEPT ![c] = NewRow(r)]
              /\ IF req[r].device \in PushDevices
                 THEN dispatches' = [dispatches EXCEPT ![c] = @ + 1]
                 ELSE dispatches' = dispatches
        BY <2>1 DEF Insert
      <3>2. /\ IsNew(row'[c], req[r].device, req[r].key, now)
            /\ \A e \in Commands \ {c} : row'[e] = row[e]
        BY <3>1, InsertedRow DEF TypeOK
      <3>3. /\ now' = now /\ claims' = claims /\ req[r].pc = "insert"
            /\ \A e \in Conflicts(req[r].device, req[r].key) : FALSE
        BY <2>1 DEF Insert
      <3>4. /\ dispatches'[c] = IF req[r].device \in PushDevices
                                THEN dispatches[c] + 1 ELSE dispatches[c]
            /\ \A e \in Commands \ {c} : dispatches'[e] = dispatches[e]
        BY <3>1 DEF TypeOK
      <3>5. RowInserted(c)
        BY <3>1, <3>2, <3>3, <3>4 DEF RowInserted
      <3>6. \A e \in Commands \ {c} : RowKept(e)
        BY <3>2, <3>3, <3>4 DEF RowKept
      <3> QED BY <3>3, <3>5, <3>6 DEF RowEvolves, TypeOK
    <2>2. CASE Record(r)
      <3> DEFINE msg == IF req[r].to = "DELIVERED" THEN "accepted by provider"
                                                   ELSE "dispatch error"
      <3>1. /\ req[r].pc = "record" /\ UNCHANGED <<now, claims, dispatches>>
            /\ TransitionCommand(req[r].cmd, req[r].to, msg)
        BY <2>2 DEF Record
      <3>2. req[r].cmd \in Commands /\ req[r].to \in {"DELIVERED", "FAILED"}
        BY <3>1 DEF CallsInProgress
      <3>3. msg \in Results \ {"expired"}
        BY DEF Results
      <3> HIDE DEF msg
      <3>4. \A c \in Commands : RowEvolves(c)
        BY <3>1, <3>2, <3>3, TransitionMoves
      <3> QED BY <3>1, <3>4 DEF TypeOK
    <2> QED BY <1>1, <1>2, <2>1, <2>2
            DEF CreateStep, Begin, Reject, Replay, ProviderAccepts,
                SendReturns, Abandon
  <1>3. ASSUME NEW d \in EdgeDevices, Poll(d)
        PROVE  now' >= now /\ \A c \in Commands : RowEvolves(c)
    <2>1. PICK S \in SUBSET Claimable(d) :
            /\ row' = [c \in Commands |-> IF c \in S
                         THEN [row[c] EXCEPT !.state = "DELIVERED",
                                             !.deliveredAt = now]
                         ELSE row[c]]
            /\ claims' = [c \in Commands |-> IF c \in S THEN claims[c] + 1
                                                        ELSE claims[c]]
      BY <1>3 DEF Poll
    <2>2. now' = now /\ dispatches' = dispatches
      BY <1>3 DEF Poll
    <2>3. ASSUME NEW c \in Commands PROVE RowEvolves(c)
      <3>1. CASE c \notin S
        BY <2>1, <2>2, <3>1 DEF RowEvolves, RowKept
      <3>2. CASE c \in S
        <4>2. claims'[c] = claims[c] + 1
          BY <2>1, <3>2
        <4>1. IsClaimed(row'[c], row[c], now)
          BY <2>1, <3>2, ClaimedRow
        <4> QED BY <2>2, <3>2, <4>1, <4>2 DEF RowEvolves, RowClaimed, Claimable
      <3> QED BY <3>1, <3>2
    <2> QED BY <2>2, <2>3 DEF TypeOK
  <1>4. ASSUME NEW c \in Commands, CommandStep(c)
        PROVE  now' >= now /\ \A e \in Commands : RowEvolves(e)
    <2>1. ASSUME NEW ok \in BOOLEAN, NEW msg \in {"", "device"},
                 ReportResult(c, ok, msg)
          PROVE  now' = now /\ \A e \in Commands : RowEvolves(e)
      <3> DEFINE to == IF ok THEN "ACKNOWLEDGED" ELSE "FAILED"
      <3>1. TransitionCommand(c, to, msg)
        BY <2>1 DEF ReportResult
      <3>0. UNCHANGED <<now, claims, dispatches>>
        BY <2>1 DEF ReportResult
      <3>2. to \in {"ACKNOWLEDGED", "FAILED"} /\ msg \in Results \ {"expired"}
        BY DEF Results
      <3> HIDE DEF to
      <3>3. \A e \in Commands : RowEvolves(e)
        BY <3>0, <3>1, <3>2, TransitionMoves
      <3> QED BY <3>0, <3>3
    <2>2. now' = now => now' >= now
      BY DEF TypeOK
    <2> QED BY <1>1, <1>4, <2>1, <2>2
            DEF CommandStep
  <1>5. CASE ExpireCommands
    <2>1. UNCHANGED <<now, claims, dispatches>>
      BY <1>5 DEF ExpireCommands
    <2>2. ASSUME NEW c \in Commands PROVE RowEvolves(c)
      <3>1. CASE c \notin Overdue
        BY <1>5, <3>1 DEF ExpireCommands, RowEvolves, RowKept
      <3>2. CASE c \in Overdue
        <4>1. row'[c] = Moved(c, "FAILED", "expired")
          BY <1>5, <3>2 DEF ExpireCommands
        <4>5. IsMoved(row'[c], row[c], "FAILED", "expired", now)
          BY <4>1, MovedRow DEF Results
        <4>2. row[c].state \in LegalFrom("FAILED") /\ row[c].expiresAt <= now
          BY <3>2, LegalSources DEF Overdue
        <4>3. "expired" \in Results
          BY DEF Results
        <4> QED BY <2>1, <4>5, <4>2, <4>3 DEF RowEvolves, RowMoved
      <3> QED BY <3>1, <3>2
    <2> QED BY <2>1, <2>2 DEF TypeOK
  <1> QED BY <1>1, <1>2, <1>3, <1>4, <1>5 DEF Next, Tick, vars
-----------------------------------------------------------------------------
(***************************************************************************)
(* History and deadlines follow from the row changes alone.                *)
(***************************************************************************)

LEMMA HistoryAges ==
  ASSUME NEW w \in Row, NEW t \in Nat, NEW u \in Nat, t <= u, HistoryOK(w, t)
  PROVE  HistoryOK(w, u)
  BY DEF HistoryOK, Row

LEMMA HistoryOfNew ==
  ASSUME NEW w, NEW d, NEW k, NEW t \in Nat \ {0}, IsNew(w, d, k, t)
  PROVE  HistoryOK(w, t)
  <1>1. t # 0 /\ t <= t /\ 0 <= t
    OBVIOUS
  <1>2. /\ w.state = "PENDING" /\ w.createdAt = t /\ w.result = ""
        /\ w.deliveredAt = 0 /\ w.completedAt = 0
    BY DEF IsNew, NoTime
  <1>3. w.state \notin Terminal /\ w.result # "expired"
    BY <1>2 DEF Terminal
  <1> QED BY <1>1, <1>2, <1>3, Zenon DEF HistoryOK, NoTime

LEMMA HistoryOfClaimed ==
  ASSUME NEW v \in Row, NEW w, NEW t \in Nat \ {0}, IsClaimed(w, v, t),
         v.state = "PENDING", HistoryOK(v, t)
  PROVE  HistoryOK(w, t)
  BY DEF HistoryOK, IsClaimed, NoTime, Terminal, Row

LEMMA HistoryOfMoved ==
  ASSUME NEW v \in Row, NEW w, NEW t \in Nat \ {0}, NEW msg \in Results,
         NEW to \in {"DELIVERED", "ACKNOWLEDGED", "FAILED"},
         v.state \in LegalFrom(to), IsMoved(w, v, to, msg, t),
         msg = "expired" => to = "FAILED", HistoryOK(v, t)
  PROVE  HistoryOK(w, t)
  <1>1. /\ v.createdAt \in Nat /\ v.deliveredAt \in Nat
        /\ v.completedAt \in Nat
    BY DEF Row
  <1>2. CASE to = "DELIVERED"
    <2>1. v.state = "PENDING" /\ w.state = "DELIVERED"
      BY <1>2, LegalSources DEF IsMoved
    <2>2. /\ w.createdAt = v.createdAt /\ w.deliveredAt = t
          /\ w.completedAt = v.completedAt
          /\ w.result = IF msg = "" THEN v.result ELSE msg
      BY <1>2 DEF IsMoved, Terminal
    <2>3. /\ v.createdAt # 0 /\ v.createdAt <= t /\ v.completedAt = 0
          /\ v.result # "expired" /\ msg # "expired"
      BY <1>2, <2>1 DEF HistoryOK, NoTime, Terminal
    <2>4. w.result # "expired" /\ w.state \notin Terminal
      BY <2>1, <2>2, <2>3 DEF Terminal
    <2>5. /\ w.createdAt # 0 /\ w.createdAt <= t /\ w.completedAt = 0
          /\ w.deliveredAt # 0 /\ w.deliveredAt <= t
          /\ w.createdAt <= w.deliveredAt
      <3>1. t # 0 /\ t <= t
        OBVIOUS
      <3> QED BY <2>2, <2>3, <3>1, Zenon
    <2>6. w.state \notin {"NONE", "PENDING"}
      BY <2>1
    <2> QED BY <2>4, <2>5, <2>6, Zenon DEF HistoryOK, NoTime
  <1>3. CASE to = "ACKNOWLEDGED"
    BY <1>1, <1>3, LegalSources DEF HistoryOK, IsMoved, NoTime, Terminal
  <1>4. CASE to = "FAILED"
    BY <1>1, <1>4, LegalSources DEF HistoryOK, IsMoved, NoTime, Terminal
  <1> QED BY <1>2, <1>3, <1>4

LEMMA NextRowHistory ==
  ASSUME TypeOK, CallsInProgress, RowHistory, [Next]_vars
  PROVE  RowHistory'
  <1> SUFFICES ASSUME NEW c \in Commands PROVE HistoryOK(row'[c], now')
    BY DEF RowHistory, HistoryOK
  <1>1. /\ now \in Nat \ {0} /\ now' \in Nat \ {0} /\ now' >= now
        /\ RowEvolves(c) /\ row[c] \in Row
    BY RowsEvolve, NextTypeOK DEF TypeOK
  <1>2. HistoryOK(row[c], now)
    BY DEF RowHistory
  <1>3. CASE RowKept(c)
    BY <1>1, <1>2, <1>3, HistoryAges DEF RowKept
  <1>4. CASE RowInserted(c)
    BY <1>1, <1>4, HistoryOfNew DEF RowInserted
  <1>5. CASE RowClaimed(c)
    BY <1>1, <1>2, <1>5, HistoryOfClaimed DEF RowClaimed
  <1>6. CASE RowMoved(c)
    BY <1>1, <1>2, <1>6, HistoryOfMoved DEF RowMoved
  <1> QED BY <1>1, <1>3, <1>4, <1>5, <1>6 DEF RowEvolves

\* A row never disappears, changes hands or changes its key.
LEMMA RowsStay ==
  ASSUME NEW c \in Commands, RowEvolves(c), Exists(c)
  PROVE  /\ row'[c].state # "NONE"
         /\ row'[c].device = row[c].device /\ row'[c].key = row[c].key
  <1>1. CASE RowKept(c)
    BY <1>1 DEF RowKept, Exists
  <1>2. CASE RowClaimed(c)
    BY <1>2 DEF RowClaimed, IsClaimed
  <1>3. CASE RowMoved(c)
    BY <1>3 DEF RowMoved, IsMoved
  <1> QED BY <1>1, <1>2, <1>3 DEF RowEvolves, RowInserted
-----------------------------------------------------------------------------
(***************************************************************************)
(* What a step can do to one Create call.                                  *)
(***************************************************************************)

LEMMA CallStepMatches ==
  ASSUME TypeOK, RequestsMatchRows, \A c \in Commands : RowEvolves(c),
         accepted \subseteq accepted',
         NEW r \in Requests, NEW q, req' = [req EXCEPT ![r] = q],
         CallOK(q, row', accepted')
  PROVE  RequestsMatchRows'
  <1> SUFFICES ASSUME NEW s \in Requests, s # r
               PROVE  CallOK(req[s], row', accepted')
    BY DEF RequestsMatchRows, TypeOK
  <1>1. CallOK(req[s], row, accepted) /\ req[s].cmd \in Commands \cup {NoCommand}
    BY DEF RequestsMatchRows, TypeOK, Request
  <1> QED BY <1>1, RowsStay DEF CallOK, Exists

\* Steps of everyone but the Create calls leave them consistent.
LEMMA OthersKeepCalls ==
  ASSUME TypeOK, RequestsMatchRows, \A c \in Commands : RowEvolves(c),
         accepted \subseteq accepted', UNCHANGED req
  PROVE  RequestsMatchRows'
  <1> SUFFICES ASSUME NEW s \in Requests PROVE CallOK(req[s], row', accepted')
    BY DEF RequestsMatchRows
  <1>1. CallOK(req[s], row, accepted) /\ req[s].cmd \in Commands \cup {NoCommand}
    BY DEF RequestsMatchRows, TypeOK, Request
  <1> QED BY <1>1, RowsStay DEF CallOK, Exists

LEMMA NextRequests ==
  ASSUME TypeOK, CallsInProgress, RequestsMatchRows, [Next]_vars
  PROVE  RequestsMatchRows'
  <1>1. \A c \in Commands : RowEvolves(c)
    BY RowsEvolve
  <1>2. ASSUME UNCHANGED <<req, accepted>> PROVE RequestsMatchRows'
    BY <1>1, <1>2, OthersKeepCalls
  <1>3. ASSUME NEW r \in Requests, CreateStep(r) PROVE RequestsMatchRows'
    <2> DEFINE q0 == req[r]
    <2>0. q0 \in Request /\ CallOK(q0, row, accepted)
      BY DEF TypeOK, RequestsMatchRows
    <2>00. /\ q0.cmd \in Commands \cup {NoCommand}
           /\ NoCommand \notin Commands
      BY <2>0, ConstantsAssumption DEF Request
    <2>1. ASSUME NEW d \in Devices, NEW k \in Keys \cup {NoKey}, Begin(r, d, k)
          PROVE  RequestsMatchRows'
      <3> DEFINE q == [q0 EXCEPT !.pc = "insert", !.device = d, !.key = k,
                                 !.expiresAt = now + TTL]
      <3>1. q.pc = "insert" /\ q.device = d /\ q.cmd = q0.cmd
        BY <2>0 DEF Request
      <3>2. /\ req' = [req EXCEPT ![r] = q] /\ q0.pc = "idle"
            /\ d \in EdgeDevices \cup PushDevices /\ UNCHANGED accepted
        BY <2>1 DEF Begin, AcceptsCommands
      <3> HIDE DEF q, q0
      <3>3. CallOK(q, row', accepted')
        BY <2>0, <3>1, <3>2 DEF CallOK
      <3> QED BY <1>1, <3>2, <3>3, CallStepMatches
    <2>2. ASSUME NEW d \in Devices, Reject(r, d) PROVE RequestsMatchRows'
      <3> DEFINE q == [q0 EXCEPT !.pc = "done", !.reply = "invalid"]
      <3>1. q.pc = "done" /\ q.cmd = q0.cmd
        BY <2>0 DEF Request
      <3>2. /\ req' = [req EXCEPT ![r] = q] /\ q0.pc = "idle"
            /\ UNCHANGED accepted
        BY <2>2 DEF Reject
      <3> HIDE DEF q, q0
      <3>3. CallOK(q, row', accepted')
        BY <2>0, <3>1, <3>2 DEF CallOK
      <3> QED BY <1>1, <3>2, <3>3, CallStepMatches
    <2>3. CASE Insert(r)
      <3>1. PICK c \in Commands, reply \in {"created", "error"} :
              /\ row' = [row EXCEPT ![c] = NewRow(r)]
              /\ \/ /\ req[r].device \in PushDevices
                    /\ req' = [req EXCEPT ![r] =
                                  [@ EXCEPT !.pc = "send", !.cmd = c]]
                 \/ req' = [req EXCEPT ![r] =
                              [@ EXCEPT !.pc = "done", !.cmd = c,
                                        !.reply = reply]]
        BY <2>3 DEF Insert
      <3>2. row'[c] = NewRow(r) /\ UNCHANGED accepted
        BY <2>3, <3>1 DEF TypeOK, Insert
      <3>3. /\ row'[c].state # "NONE" /\ row'[c].device = q0.device
            /\ row'[c].key = q0.key
        BY <3>2, InsertedRow DEF IsNew
      <3>4. CASE /\ req[r].device \in PushDevices
                 /\ req' = [req EXCEPT ![r] =
                              [@ EXCEPT !.pc = "send", !.cmd = c]]
        <4> DEFINE q == [q0 EXCEPT !.pc = "send", !.cmd = c]
        <4>1. /\ q.pc = "send" /\ q.cmd = c /\ q.device = q0.device
              /\ q.key = q0.key
          BY <2>0 DEF Request
        <4>2. req' = [req EXCEPT ![r] = q] /\ q0.device \in PushDevices
          BY <3>4
        <4> HIDE DEF q, q0
        <4>3. CallOK(q, row', accepted')
          BY <3>3, <4>1, <4>2 DEF CallOK
        <4> QED BY <1>1, <3>2, <4>2, <4>3, CallStepMatches
      <3>5. CASE req' = [req EXCEPT ![r] = [@ EXCEPT !.pc = "done", !.cmd = c,
                                                     !.reply = reply]]
        <4> DEFINE q == [q0 EXCEPT !.pc = "done", !.cmd = c,
                                   !.reply = reply]
        <4>1. /\ q.pc = "done" /\ q.cmd = c /\ q.device = q0.device
              /\ q.key = q0.key
          BY <2>0 DEF Request
        <4>2. req' = [req EXCEPT ![r] = q]
          BY <3>5
        <4> HIDE DEF q, q0
        <4>3. CallOK(q, row', accepted')
          BY <3>3, <4>1 DEF CallOK
        <4> QED BY <1>1, <3>2, <4>2, <4>3, CallStepMatches
      <3> QED BY <3>1, <3>4, <3>5
    <2>4. CASE Replay(r)
      <3>1. PICK c \in Conflicts(q0.device, q0.key) :
              req' = [req EXCEPT ![r] = [@ EXCEPT !.pc = "done", !.cmd = c,
                                                  !.reply = "replayed"]]
        BY <2>4 DEF Replay
      <3> DEFINE q == [q0 EXCEPT !.pc = "done", !.cmd = c,
                                 !.reply = "replayed"]
      <3>2. /\ q.pc = "done" /\ q.cmd = c /\ q.device = q0.device
            /\ q.key = q0.key
        BY <2>0 DEF Request
      <3>3. /\ req' = [req EXCEPT ![r] = q] /\ UNCHANGED <<row, accepted>>
        BY <2>4, <3>1 DEF Replay
      <3>4. row[c].state # "NONE" /\ row[c].device = q0.device
              /\ row[c].key = q0.key
        BY <3>1 DEF Conflicts, Exists
      <3> HIDE DEF q, q0
      <3>5. CallOK(q, row', accepted')
        BY <3>2, <3>3, <3>4 DEF CallOK
      <3> QED BY <1>1, <3>3, <3>5, CallStepMatches
    <2>5. CASE ProviderAccepts(r)
      <3>1. accepted \subseteq accepted' /\ UNCHANGED req
        BY <2>5 DEF ProviderAccepts
      <3> QED BY <1>1, <3>1, OthersKeepCalls
    <2>6. ASSUME NEW ok \in BOOLEAN, SendReturns(r, ok)
          PROVE  RequestsMatchRows'
      <3> DEFINE to == IF ok THEN "DELIVERED" ELSE "FAILED"
      <3> DEFINE q == [q0 EXCEPT !.pc = "record", !.to = to]
      <3>1. /\ q.pc = "record" /\ q.cmd = q0.cmd /\ q.device = q0.device
            /\ q.key = q0.key /\ q.to = to
        BY <2>0 DEF Request
      <3>2. /\ req' = [req EXCEPT ![r] = q] /\ q0.pc = "send"
            /\ UNCHANGED <<row, accepted>>
            /\ to = "DELIVERED" => q0.cmd \in accepted
        BY <2>6 DEF SendReturns
      <3> HIDE DEF q, q0, to
      <3>3. CallOK(q, row', accepted')
        BY <2>0, <3>1, <3>2 DEF CallOK
      <3> QED BY <1>1, <3>2, <3>3, CallStepMatches
    <2>7. CASE Record(r)
      <3> DEFINE reply == IF row[req[r].cmd].state \in LegalFrom(req[r].to)
                          THEN "dispatched" ELSE "error"
      <3> DEFINE q == [q0 EXCEPT !.pc = "done", !.reply = reply]
      <3>1. /\ q.pc = "done" /\ q.cmd = q0.cmd /\ q.device = q0.device
            /\ q.key = q0.key
        BY <2>0 DEF Request
      <3>2. req' = [req EXCEPT ![r] = q] /\ UNCHANGED accepted
        BY <2>7 DEF Record
      <3> HIDE DEF q
      <3>3. CallOK(q, row', accepted')
        BY <1>1, <2>0, <2>00, <3>1, <3>2, RowsStay DEF CallOK, Exists
      <3> QED BY <1>1, <3>2, <3>3, CallStepMatches
    <2>8. CASE Abandon(r)
      <3> DEFINE q == [q0 EXCEPT !.pc = "done", !.reply = "error"]
      <3>1. /\ q.pc = "done" /\ q.cmd = q0.cmd /\ q.device = q0.device
            /\ q.key = q0.key
        BY <2>0 DEF Request
      <3>2. /\ req' = [req EXCEPT ![r] = q] /\ UNCHANGED <<row, accepted>>
        BY <2>8 DEF Abandon
      <3> HIDE DEF q, q0
      <3>3. CallOK(q, row', accepted')
        BY <2>0, <3>1, <3>2 DEF CallOK
      <3> QED BY <1>1, <3>2, <3>3, CallStepMatches
    <2> QED BY <1>3, <2>1, <2>2, <2>3, <2>4, <2>5, <2>6, <2>7, <2>8
            DEF CreateStep
  <1>4. CASE Tick \/ (\E d \in EdgeDevices : Poll(d)) \/ ExpireCommands
             \/ (\E c \in Commands : CommandStep(c)) \/ UNCHANGED vars
    BY <1>2, <1>4 DEF Tick, Poll, ExpireCommands, CommandStep, ReportResult, vars
  <1> QED BY <1>3, <1>4 DEF Next
-----------------------------------------------------------------------------
(***************************************************************************)
(* One way out.                                                            *)
(***************************************************************************)

\* The provider only ever takes the command of a call that is sending it.
LEMMA AcceptedGrows ==
  ASSUME [Next]_vars
  PROVE  /\ accepted \subseteq accepted'
         /\ \A c \in accepted' \ accepted :
              /\ UNCHANGED <<row, claims, dispatches>>
              /\ \E r \in Requests : req[r].pc = "send" /\ req[r].cmd = c
  <1>1. CASE UNCHANGED accepted
    BY <1>1
  <1>2. ASSUME NEW r \in Requests, ProviderAccepts(r)
        PROVE  /\ accepted \subseteq accepted'
               /\ \A c \in accepted' \ accepted :
                    /\ UNCHANGED <<row, claims, dispatches>>
                    /\ \E q \in Requests : req[q].pc = "send" /\ req[q].cmd = c
    BY <1>2 DEF ProviderAccepts
  <1> QED BY <1>1, <1>2
          DEF Next, vars, Tick, CreateStep, Begin, Reject, Insert, Replay,
              SendReturns, Record, Abandon, Poll, CommandStep, ReportResult, ExpireCommands

\* A command that has just been enqueued has not left the connector.
LEMMA WayOutOfNew ==
  ASSUME TypeOK, FreshIds, RequestsMatchRows, NEW c \in Commands,
         RowInserted(c), c \notin accepted'
  PROVE  WayOutOK(row'[c], claims'[c], dispatches'[c], c \in accepted')
  <1>1. claims[c] = 0 /\ dispatches[c] = 0
    BY DEF FreshIds, RowInserted
  <1>2. PICK r \in Requests :
          /\ req[r].pc = "insert"
          /\ IsNew(row'[c], req[r].device, req[r].key, now)
          /\ dispatches'[c] = IF req[r].device \in PushDevices
                              THEN dispatches[c] + 1 ELSE dispatches[c]
    BY DEF RowInserted
  <1>3. req[r].device \in EdgeDevices \cup PushDevices
    BY <1>2 DEF RequestsMatchRows, CallOK
  <1>4. row'[c].device = req[r].device /\ row'[c].deliveredAt = NoTime
    BY <1>2 DEF IsNew
  <1>5. claims'[c] = 0
    BY <1>1 DEF RowInserted
  <1>6. CASE req[r].device \in PushDevices
    BY <1>1, <1>2, <1>4, <1>5, <1>6 DEF WayOutOK
  <1>7. CASE req[r].device \notin PushDevices
    BY <1>1, <1>2, <1>3, <1>4, <1>5, <1>7 DEF WayOutOK
  <1> QED BY <1>6, <1>7

\* A move by TransitionCommand or ExpireCommands keeps the way a command took.
LEMMA WayOutOfMoved ==
  ASSUME TypeOK, OneWayOut, RequestsMatchRows, NEW c \in Commands,
         RowMoved(c), c \in accepted' <=> c \in accepted
  PROVE  WayOutOK(row'[c], claims'[c], dispatches'[c], c \in accepted')
  <1>1. PICK to \in {"DELIVERED", "ACKNOWLEDGED", "FAILED"}, msg \in Results :
          /\ row[c].state \in LegalFrom(to)
          /\ IsMoved(row'[c], row[c], to, msg, now)
          /\ to = "DELIVERED" =>
               \E r \in Requests : /\ req[r].pc = "record" /\ req[r].cmd = c
                                   /\ req[r].to = "DELIVERED"
    BY DEF RowMoved
  <1>2. WayOutOK(row[c], claims[c], dispatches[c], c \in accepted)
    BY DEF OneWayOut
  <1>3. row[c].state # "NONE" /\ row'[c].device = row[c].device
    BY <1>1, LegalSources DEF IsMoved
  <1>4. claims'[c] = claims[c] /\ dispatches'[c] = dispatches[c]
    BY DEF RowMoved
  <1>5. CASE to # "DELIVERED"
    <2>1. row'[c].deliveredAt = row[c].deliveredAt
      BY <1>1, <1>5 DEF IsMoved
    <2> QED BY <1>2, <1>3, <1>4, <2>1 DEF WayOutOK
  <1>6. CASE to = "DELIVERED"
    <2>1. PICK r \in Requests : /\ req[r].pc = "record" /\ req[r].cmd = c
                                /\ req[r].to = "DELIVERED"
      BY <1>1, <1>6
    <2>2. c # NoCommand
      BY ConstantsAssumption
    <2>3. c \in accepted /\ row[c].device \in PushDevices
      BY <2>1, <2>2 DEF RequestsMatchRows, CallOK
    <2>4. row[c].device \notin EdgeDevices
      BY <2>3, ConstantsAssumption
    <2> QED BY <1>2, <1>3, <1>4, <2>3, <2>4 DEF WayOutOK
  <1> QED BY <1>5, <1>6

LEMMA NextOneWayOut ==
  ASSUME TypeOK, CallsInProgress, FreshIds, OneWayOut, RowHistory,
         RequestsMatchRows, [Next]_vars
  PROVE  OneWayOut'
  <1> SUFFICES ASSUME NEW c \in Commands
               PROVE  WayOutOK(row'[c], claims'[c], dispatches'[c],
                               c \in accepted')
    BY DEF OneWayOut
  <1>1. RowEvolves(c) /\ TypeOK'
    BY RowsEvolve, NextTypeOK
  <1>2. WayOutOK(row[c], claims[c], dispatches[c], c \in accepted)
    BY DEF OneWayOut
  <1>3. CASE c \in accepted' /\ c \notin accepted
    <2>1. PICK r \in Requests : req[r].pc = "send" /\ req[r].cmd = c
      BY <1>3, AcceptedGrows
    <2>2. c # NoCommand /\ UNCHANGED <<row, claims, dispatches>>
      BY <1>3, AcceptedGrows, ConstantsAssumption
    <2>3. row[c].device \in PushDevices /\ row[c].device \notin EdgeDevices
      BY <2>1, <2>2, ConstantsAssumption DEF RequestsMatchRows, CallOK
    <2> QED BY <1>2, <1>3, <2>2, <2>3 DEF WayOutOK
  <1>4. CASE c \in accepted' <=> c \in accepted
    <2>1. CASE RowKept(c)
      BY <1>2, <1>4, <2>1 DEF RowKept
    <2>2. CASE RowInserted(c)
      <3>1. c \notin accepted'
        BY <1>4, <2>2 DEF FreshIds, RowInserted
      <3> QED BY <2>2, <3>1, WayOutOfNew
    <2>3. CASE RowClaimed(c)
      <3>1. /\ row[c].state = "PENDING" /\ row[c].device \in EdgeDevices
            /\ row'[c].device = row[c].device /\ row'[c].deliveredAt = now
            /\ claims'[c] = claims[c] + 1 /\ dispatches'[c] = dispatches[c]
        BY <2>3 DEF RowClaimed, IsClaimed
      <3>2. row[c].deliveredAt = NoTime /\ row[c].device \notin PushDevices
        BY <3>1, ConstantsAssumption DEF RowHistory, HistoryOK
      <3>3. claims[c] = 0 /\ dispatches[c] = 0 /\ c \notin accepted
        BY <1>2, <3>1, <3>2 DEF WayOutOK
      <3>4. claims'[c] = 1 /\ now # NoTime /\ dispatches'[c] = 0
        BY <3>1, <3>3 DEF TypeOK, NoTime
      <3> QED BY <1>4, <3>1, <3>3, <3>4 DEF WayOutOK
    <2>4. CASE RowMoved(c)
      BY <1>4, <2>4, WayOutOfMoved
    <2> QED BY <1>1, <2>1, <2>2, <2>3, <2>4 DEF RowEvolves
  <1>5. c \in accepted => c \in accepted'
    BY AcceptedGrows
  <1> QED BY <1>3, <1>4, <1>5
-----------------------------------------------------------------------------
(***************************************************************************)
(* Fresh ids, unique keys and the deadline.                                *)
(***************************************************************************)

LEMMA NextFreshIds ==
  ASSUME TypeOK, CallsInProgress, FreshIds, RequestsMatchRows, [Next]_vars
  PROVE  FreshIds'
  <1> SUFFICES ASSUME NEW c \in Commands, row'[c].state = "NONE"
               PROVE  /\ row'[c] = NoRow
                      /\ claims'[c] = 0 /\ dispatches'[c] = 0
                      /\ c \notin accepted'
    BY DEF FreshIds, Exists
  <1>1. RowEvolves(c)
    BY RowsEvolve
  <1>2. RowKept(c)
    <2>1. ~RowInserted(c)
      BY DEF RowInserted, IsNew
    <2>2. ~RowClaimed(c)
      BY DEF RowClaimed, IsClaimed
    <2>3. ~RowMoved(c)
      BY DEF RowMoved, IsMoved
    <2> QED BY <1>1, <2>1, <2>2, <2>3 DEF RowEvolves
  <1>3. ~Exists(c)
    BY <1>2 DEF RowKept, Exists
  <1>4. ASSUME c \in accepted' PROVE FALSE
    <2>1. c \notin accepted
      BY <1>3 DEF FreshIds
    <2>2. PICK r \in Requests : req[r].pc = "send" /\ req[r].cmd = c
      BY <1>4, <2>1, AcceptedGrows
    <2>3. c # NoCommand
      BY ConstantsAssumption
    <2> QED BY <1>3, <2>2, <2>3 DEF RequestsMatchRows, CallOK, Exists
  <1> QED BY <1>2, <1>3, <1>4 DEF FreshIds, RowKept

\* One step inserts at most one row, and only next to rows of other keys.
LEMMA OneInsert ==
  ASSUME TypeOK, CallsInProgress, [Next]_vars,
         NEW c \in Commands, NEW e \in Commands,
         ~Exists(c), row'[c].state # "NONE", c # e
  PROVE  /\ row'[e] = row[e]
         /\ \E r \in Requests :
              /\ row'[c].device = req[r].device /\ row'[c].key = req[r].key
              /\ e \notin Conflicts(req[r].device, req[r].key)
  <1>1. RowEvolves(c)
    BY RowsEvolve
  <1>2. row[c].state = "NONE"
    BY DEF Exists
  <1>3. ASSUME NEW r \in Requests, CreateStep(r), ~Insert(r)
        PROVE  FALSE
    <2>1. CASE Record(r)
      <3>1. /\ req[r].cmd \in Commands /\ req[r].to \in {"DELIVERED", "FAILED"}
            /\ row' = IF row[req[r].cmd].state \in LegalFrom(req[r].to)
                      THEN [row EXCEPT ![req[r].cmd] =
                              Moved(req[r].cmd, req[r].to,
                                    IF req[r].to = "DELIVERED"
                                    THEN "accepted by provider"
                                    ELSE "dispatch error")]
                      ELSE row
        BY <2>1 DEF Record, CallsInProgress, TransitionCommand
      <3>2. row[req[r].cmd].state \in LegalFrom(req[r].to) => req[r].cmd # c
        BY <1>2, <3>1, LegalSources
      <3>3. row'[c] = row[c]
        BY <3>1, <3>2 DEF TypeOK
      <3> QED BY <1>2, <3>3
    <2>2. CASE UNCHANGED row
      BY <1>2, <2>2
    <2> QED BY <1>3, <2>1, <2>2
            DEF CreateStep, Begin, Reject, Replay, ProviderAccepts,
                SendReturns, Abandon
  <1>4. ASSUME NEW r \in Requests, Insert(r)
        PROVE  /\ row'[e] = row[e]
               /\ row'[c].device = req[r].device /\ row'[c].key = req[r].key
               /\ e \notin Conflicts(req[r].device, req[r].key)
    <2>1. PICK f \in Commands : row' = [row EXCEPT ![f] = NewRow(r)]
      BY <1>4 DEF Insert
    <2>2. f = c
      BY <1>2, <2>1 DEF TypeOK
    <2>3. row'[c] = NewRow(r) /\ row'[e] = row[e]
      BY <2>1, <2>2 DEF TypeOK
    <2>4. IsNew(row'[c], req[r].device, req[r].key, now)
      BY <2>3, InsertedRow
    <2> QED BY <1>4, <2>3, <2>4 DEF Insert, IsNew
  <1>5. ASSUME NEW d \in EdgeDevices, Poll(d) PROVE FALSE
    <2>1. PICK S \in SUBSET Claimable(d) :
            row' = [x \in Commands |-> IF x \in S
                      THEN [row[x] EXCEPT !.state = "DELIVERED",
                                          !.deliveredAt = now]
                      ELSE row[x]]
      BY <1>5 DEF Poll
    <2>2. c \notin S
      BY <1>2 DEF Claimable
    <2>3. row'[c] = row[c]
      BY <2>1, <2>2
    <2> QED BY <1>2, <2>3
  <1>6. ASSUME NEW x \in Commands, CommandStep(x) PROVE FALSE
    <2>1. ASSUME NEW ok \in BOOLEAN, NEW msg \in {"", "device"},
                 ReportResult(x, ok, msg)
          PROVE  FALSE
      <3> DEFINE to == IF ok THEN "ACKNOWLEDGED" ELSE "FAILED"
      <3>1. TransitionCommand(x, to, msg)
        BY <2>1 DEF ReportResult
      <3>2. "NONE" \notin LegalFrom(to)
        BY LegalSources
      <3> HIDE DEF to
      <3>3. row'[c] = row[c]
        BY <1>2, <3>1, <3>2 DEF TransitionCommand, TypeOK
      <3> QED BY <1>2, <3>3
    <2>2. CASE UNCHANGED row
      BY <1>2, <2>2
    <2> QED BY <1>6, <2>1, <2>2 DEF CommandStep
  <1>7. ASSUME ExpireCommands PROVE FALSE
    <2>1. c \notin Overdue
      BY <1>2 DEF Overdue
    <2>2. row'[c] = row[c]
      BY <1>7, <2>1 DEF ExpireCommands
    <2> QED BY <1>2, <2>2
  <1>8. CASE UNCHANGED row
    BY <1>2, <1>8
  <1> QED BY <1>3, <1>4, <1>5, <1>6, <1>7, <1>8 DEF Next, vars, Tick

LEMMA NextKeysAreUnique ==
  ASSUME TypeOK, CallsInProgress, KeysAreUnique, [Next]_vars
  PROVE  KeysAreUnique'
  <1> SUFFICES ASSUME NEW c \in Commands, NEW e \in Commands, c # e,
                      row'[c].state # "NONE", row'[e].state # "NONE",
                      row'[c].device = row'[e].device,
                      row'[c].key = row'[e].key, row'[c].key # NoKey
               PROVE  FALSE
    BY DEF KeysAreUnique, Exists
  <1>1. RowEvolves(c) /\ RowEvolves(e)
    BY RowsEvolve
  <1>2. CASE Exists(c) /\ Exists(e)
    BY <1>1, <1>2, RowsStay DEF KeysAreUnique
  <1>3. ASSUME NEW x \in Commands, NEW y \in Commands, x # y, ~Exists(x),
               row'[x].state # "NONE", row'[y].state # "NONE",
               row'[x].device = row'[y].device, row'[x].key = row'[y].key,
               row'[x].key # NoKey
        PROVE  FALSE
    <2>1. row'[y] = row[y]
      BY <1>3, OneInsert
    <2>2. PICK r \in Requests :
            /\ row'[x].device = req[r].device /\ row'[x].key = req[r].key
            /\ y \notin Conflicts(req[r].device, req[r].key)
      BY <1>3, OneInsert
    <2> QED BY <1>3, <2>1, <2>2 DEF Conflicts, Exists
  <1> QED BY <1>2, <1>3

LEMMA NextDeadline ==
  ASSUME TypeOK, CallsInProgress, RowHistory, RequestsMatchRows,
         DeadlineIsRespected, [Next]_vars
  PROVE  DeadlineIsRespected'
  <1> DEFINE D(w) ==
        /\ w.device \in EdgeDevices /\ w.deliveredAt # NoTime
             => w.deliveredAt < w.expiresAt
        /\ w.result = "expired" => w.completedAt >= w.expiresAt
  <1> SUFFICES ASSUME NEW c \in Commands PROVE D(row'[c])
    BY DEF DeadlineIsRespected
  <1>1. /\ RowEvolves(c) /\ D(row[c]) /\ HistoryOK(row[c], now)
        /\ row[c] \in Row /\ now \in Nat
    BY RowsEvolve DEF DeadlineIsRespected, RowHistory, TypeOK
  <1>2. CASE RowKept(c)
    BY <1>1, <1>2 DEF RowKept
  <1>3. CASE RowInserted(c)
    BY <1>3 DEF RowInserted, IsNew
  <1>4. CASE RowClaimed(c)
    <2>1. /\ row[c].state = "PENDING" /\ row[c].expiresAt > now
          /\ IsClaimed(row'[c], row[c], now)
      BY <1>4 DEF RowClaimed
    <2>2. row[c].result # "expired"
      BY <1>1, <2>1 DEF HistoryOK
    <2>3. now < row[c].expiresAt
      BY <1>1, <2>1 DEF Row
    <2> QED BY <2>1, <2>2, <2>3 DEF IsClaimed
  <1>5. CASE RowMoved(c)
    <2>1. PICK to \in {"DELIVERED", "ACKNOWLEDGED", "FAILED"}, msg \in Results :
            /\ row[c].state \in LegalFrom(to)
            /\ IsMoved(row'[c], row[c], to, msg, now)
            /\ msg = "expired" => to = "FAILED" /\ row[c].expiresAt <= now
            /\ to = "DELIVERED" =>
                 \E r \in Requests : /\ req[r].pc = "record" /\ req[r].cmd = c
                                     /\ req[r].to = "DELIVERED"
      BY <1>5 DEF RowMoved
    <2>2. row[c].result # "expired"
      BY <1>1, <2>1, LegalSources DEF HistoryOK
    <2>3. ASSUME row'[c].device \in EdgeDevices, row'[c].deliveredAt # NoTime
          PROVE  row'[c].deliveredAt < row'[c].expiresAt
      <3>1. row[c].device \in EdgeDevices
        BY <2>1, <2>3 DEF IsMoved
      <3>2. to # "DELIVERED"
        BY <2>1, <3>1, ConstantsAssumption DEF RequestsMatchRows, CallOK
      <3>3. /\ row'[c].deliveredAt = row[c].deliveredAt
            /\ row'[c].expiresAt = row[c].expiresAt
        BY <2>1, <3>2 DEF IsMoved
      <3> QED BY <1>1, <2>3, <3>1, <3>3
    <2>4. ASSUME row'[c].result = "expired"
          PROVE  row'[c].completedAt >= row'[c].expiresAt
      <3>1. msg = "expired"
        BY <2>1, <2>2, <2>4 DEF IsMoved
      <3>2. to = "FAILED" /\ row[c].expiresAt <= now
        BY <2>1, <3>1
      <3>3. row'[c].completedAt = now /\ row'[c].expiresAt = row[c].expiresAt
        BY <2>1, <3>2 DEF IsMoved, Terminal
      <3> QED BY <1>1, <3>2, <3>3 DEF Row
    <2> QED BY <2>3, <2>4
  <1> QED BY <1>1, <1>2, <1>3, <1>4, <1>5 DEF RowEvolves
-----------------------------------------------------------------------------
(***************************************************************************)
(* The invariant, and what it says.                                        *)
(***************************************************************************)

\* The fields of a row that does not exist, and of a call not yet made.
LEMMA EmptyFields ==
  /\ NoRow.state = "NONE" /\ NoRow.device = NoDevice /\ NoRow.result = ""
  /\ NoRow.createdAt = 0 /\ NoRow.deliveredAt = 0 /\ NoRow.completedAt = 0
  /\ IdleRequest.pc = "idle" /\ IdleRequest.cmd = NoCommand
  BY DEF NoRow, IdleRequest, NoTime

LEMMA InitIInv == Init => IInv
  <1> SUFFICES ASSUME Init PROVE IInv
    OBVIOUS
  <1>1. TypeOK
    BY InitTypeOK
  <1>2. \A c \in Commands :
          /\ row[c] = NoRow /\ claims[c] = 0 /\ dispatches[c] = 0
          /\ c \notin accepted
    BY DEF Init
  <1>3. \A r \in Requests : req[r] = IdleRequest
    BY DEF Init
  <1>4. CallsInProgress /\ RequestsMatchRows
    BY <1>3, EmptyFields DEF CallsInProgress, RequestsMatchRows, CallOK
  <1>5. FreshIds /\ OneWayOut /\ KeysAreUnique
    BY <1>2, EmptyFields DEF FreshIds, OneWayOut, WayOutOK, KeysAreUnique, Exists
  <1>6. RowHistory
    <2>1. NoRow.state \notin Terminal
      BY EmptyFields DEF Terminal
    <2>2. NoRow.result # "expired"
      BY EmptyFields
    <2>3. 0 <= now
      BY DEF Init
    <2>4. HistoryOK(NoRow, now)
      BY <2>1, <2>2, <2>3, EmptyFields, Zenon DEF HistoryOK, NoTime
    <2> QED BY <1>2, <2>4 DEF RowHistory
  <1>7. DeadlineIsRespected
    BY <1>2, EmptyFields DEF NoTime, DeadlineIsRespected
  <1> QED BY <1>1, <1>4, <1>5, <1>6, <1>7 DEF IInv

LEMMA NextIInv == IInv /\ [Next]_vars => IInv'
  <1> SUFFICES ASSUME IInv, [Next]_vars PROVE IInv'
    OBVIOUS
  <1> USE DEF IInv
  <1>1. TypeOK' /\ CallsInProgress'
    BY NextTypeOK, NextCallsInProgress
  <1>2. FreshIds' /\ OneWayOut'
    BY NextFreshIds, NextOneWayOut
  <1>3. RowHistory' /\ RequestsMatchRows'
    BY NextRowHistory, NextRequests
  <1>4. KeysAreUnique' /\ DeadlineIsRespected'
    BY NextKeysAreUnique, NextDeadline
  <1> QED BY <1>1, <1>2, <1>3, <1>4

\* The inductive invariant: what the calls remember agrees with the table, the
\* provider and the counters in every reachable state.
THEOREM Invariance == Spec => []IInv
  BY InitIInv, NextIInv, PTL DEF Spec

\* A device's poll and a caller's dispatch hand a command out at most once, for
\* any number of concurrent polls, calls and retries.
THEOREM AtMostOnce == Spec => []HandedOutAtMostOnce
  <1>1. ASSUME IInv PROVE HandedOutAtMostOnce
    <2> SUFFICES ASSUME NEW c \in Commands
                 PROVE  claims[c] + dispatches[c] <= 1
      BY DEF HandedOutAtMostOnce
    <2>1. /\ WayOutOK(row[c], claims[c], dispatches[c], c \in accepted)
          /\ ~Exists(c) => claims[c] = 0 /\ dispatches[c] = 0
      BY <1>1 DEF IInv, OneWayOut, FreshIds
    <2>2. \/ claims[c] = 0 /\ dispatches[c] = 0
          \/ claims[c] = 1 /\ dispatches[c] = 0
          \/ claims[c] = 0 /\ dispatches[c] = 1
      BY <2>1 DEF WayOutOK, Exists
    <2> QED BY <2>2
  <1> QED BY <1>1, Invariance, PTL

\* Retries under one idempotency key for one device all get one command.
THEOREM IdempotentCreate == Spec => []SameKeySameCommand
  <1>1. ASSUME IInv PROVE SameKeySameCommand
    <2> SUFFICES ASSUME NEW r \in Requests, NEW q \in Requests,
                        req[r].cmd # NoCommand, req[q].cmd # NoCommand,
                        req[r].device = req[q].device,
                        req[r].key = req[q].key, req[r].key # NoKey
                 PROVE  req[r].cmd = req[q].cmd
      BY DEF SameKeySameCommand
    <2>1. req[r].cmd \in Commands /\ req[q].cmd \in Commands
      BY <1>1 DEF IInv, TypeOK, Request
    <2>2. /\ Exists(req[r].cmd) /\ row[req[r].cmd].device = req[r].device
          /\ row[req[r].cmd].key = req[r].key
          /\ Exists(req[q].cmd) /\ row[req[q].cmd].device = req[q].device
          /\ row[req[q].cmd].key = req[q].key
      BY <1>1 DEF IInv, RequestsMatchRows, CallOK, Exists
    <2> QED BY <1>1, <2>1, <2>2 DEF IInv, KeysAreUnique
  <1> QED BY <1>1, Invariance, PTL

\* delivered_at on a row means that one poll returned the command, or that the
\* push provider took it.
THEOREM DeliveryWitnessed == Spec => []DeliveryIsWitnessed
  <1>1. ASSUME IInv PROVE DeliveryIsWitnessed
    <2> SUFFICES ASSUME NEW c \in Commands
                 PROVE  /\ row[c].device \in EdgeDevices =>
                             (row[c].deliveredAt # NoTime <=> claims[c] = 1)
                        /\ row[c].device \in PushDevices =>
                             (row[c].deliveredAt # NoTime => c \in accepted)
      BY DEF DeliveryIsWitnessed
    <2>1. CASE ~Exists(c)
      <3>1. row[c].device = NoDevice
        BY <1>1, <2>1, EmptyFields DEF IInv, FreshIds
      <3>2. NoDevice \notin EdgeDevices /\ NoDevice \notin PushDevices
        BY ConstantsAssumption DEF Devices
      <3> QED BY <3>1, <3>2
    <2>2. CASE Exists(c)
      <3>1. /\ WayOutOK(row[c], claims[c], dispatches[c], c \in accepted)
            /\ row[c].state # "NONE"
        BY <1>1, <2>2 DEF IInv, OneWayOut, Exists
      <3>2. ~(row[c].device \in EdgeDevices /\ row[c].device \in PushDevices)
        BY ConstantsAssumption
      <3> QED BY <3>1, <3>2 DEF WayOutOK
    <2> QED BY <2>1, <2>2
  <1> QED BY <1>1, Invariance, PTL

\* State and timestamps of a row always tell one consistent history.
THEOREM Timestamps == Spec => []TimestampsTellHistory
  <1>1. ASSUME IInv PROVE TimestampsTellHistory
    BY <1>1 DEF IInv, RowHistory, HistoryOK, TimestampsTellHistory, Exists
  <1> QED BY <1>1, Invariance, PTL

\* Polls hand out before the deadline, the reaper expires at or after it.
THEOREM Deadline == Spec => []DeadlineIsRespected
  <1>1. IInv => DeadlineIsRespected
    BY DEF IInv
  <1> QED BY <1>1, Invariance, PTL
-----------------------------------------------------------------------------
(***************************************************************************)
(* Refinement: the statements of storage.go implement the contract.        *)
(***************************************************************************)

LEMMA InitContract == Init => Contract!Init
  <1> SUFFICES ASSUME Init PROVE Contract!Init
    OBVIOUS
  <1>1. [c \in Commands |-> row[c].state] = [c \in Commands |-> "NONE"]
    BY EmptyFields DEF Init
  <1>2. {c \in Commands : claims[c] > 0} \cup accepted = {}
    BY DEF Init
  <1> QED BY <1>1, <1>2 DEF Contract!Init

\* A row changes along an edge of domain.CanTransition, and one that becomes
\* DELIVERED has been handed out.
LEMMA RowKeepsContract ==
  ASSUME IInv, [Next]_vars, NEW c \in Commands
  PROVE  /\ \/ row'[c].state = row[c].state
            \/ row[c].state = "NONE" /\ row'[c].state = "PENDING"
            \/ Contract!CanTransition(row[c].state, row'[c].state)
         /\ row'[c].state # row[c].state /\ row'[c].state = "DELIVERED"
              => claims'[c] > 0 \/ c \in accepted'
         /\ claims[c] > 0 => claims'[c] > 0
         /\ claims'[c] > 0 => row'[c].state # "NONE"
         /\ c \in accepted' => row'[c].state # "NONE"
  <1>1. /\ RowEvolves(c) /\ claims[c] \in Nat /\ claims'[c] \in Nat
        /\ accepted \subseteq accepted' /\ FreshIds'
    BY RowsEvolve, NextTypeOK, AcceptedGrows, NextFreshIds DEF IInv, TypeOK
  <1>2. /\ claims'[c] > 0 => row'[c].state # "NONE"
        /\ c \in accepted' => row'[c].state # "NONE"
    BY <1>1 DEF FreshIds, Exists
  <1>3. CASE RowKept(c)
    BY <1>2, <1>3 DEF RowKept
  <1>4. CASE RowInserted(c)
    BY <1>1, <1>2, <1>4 DEF RowInserted, IsNew, Exists
  <1>5. CASE RowClaimed(c)
    <2>1. row[c].state = "PENDING" /\ row'[c].state = "DELIVERED"
      BY <1>5 DEF RowClaimed, IsClaimed
    <2>2. claims'[c] > 0
      BY <1>1, <1>5 DEF RowClaimed
    <2> QED BY <1>2, <2>1, <2>2 DEF Contract!CanTransition
  <1>6. CASE RowMoved(c)
    <2>1. PICK to \in {"DELIVERED", "ACKNOWLEDGED", "FAILED"}, msg \in Results :
            /\ row[c].state \in LegalFrom(to)
            /\ IsMoved(row'[c], row[c], to, msg, now)
            /\ to = "DELIVERED" =>
                 \E r \in Requests : /\ req[r].pc = "record" /\ req[r].cmd = c
                                     /\ req[r].to = "DELIVERED"
      BY <1>6 DEF RowMoved
    <2>2. row'[c].state = to /\ claims'[c] = claims[c]
      BY <1>6, <2>1 DEF IsMoved, RowMoved
    <2>3. Contract!CanTransition(row[c].state, to)
      BY <2>1, LegalSources DEF Contract!CanTransition
    <2>4. to = "DELIVERED" => c \in accepted
      BY <2>1 DEF IInv, RequestsMatchRows, CallOK
    <2> QED BY <1>1, <1>2, <2>2, <2>3, <2>4
  <1> QED BY <1>1, <1>3, <1>4, <1>5, <1>6 DEF RowEvolves

LEMMA NextContract ==
  IInv /\ [Next]_vars => [Contract!Next]_Contract!vars
  <1> SUFFICES ASSUME IInv, [Next]_vars PROVE Contract!Next
    OBVIOUS
  <1>1. \A c \in Commands : Contract!Moves(c)
    BY RowKeepsContract DEF Contract!Moves
  <1>2. accepted \subseteq accepted' /\ accepted' \subseteq Commands
    BY AcceptedGrows, NextTypeOK DEF IInv, TypeOK
  <1> QED BY <1>1, <1>2, RowKeepsContract DEF Contract!Next

\* Whatever the interleaving of callers, polls, results and the reaper, the
\* commands table goes through the lifecycle domain.CanTransition declares.
THEOREM Refinement == Spec => ImplementsContract
  BY Invariance, InitContract, NextContract, PTL
  DEF Spec, ImplementsContract, Contract!Spec
=============================================================================
