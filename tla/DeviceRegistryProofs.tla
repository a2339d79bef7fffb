------------------------ MODULE DeviceRegistryProofs ------------------------
(***************************************************************************)
(* Proofs about DeviceRegistry, for any number of devices and requests,    *)
(* and any width of the window and time limit of a request.                *)
(***************************************************************************)
EXTENDS DeviceRegistry, TLAPS

-----------------------------------------------------------------------------
(***************************************************************************)
(* The inductive invariant.                                                *)
(***************************************************************************)

\* A writer that is at work, or has an id, has a device. A heartbeat is a
\* request's, stamped within the window around the instant it was let in.
WriterOK(k, w, t) ==
  /\ k.pc # "idle" \/ k.id # Unset => k.device \in Devices
  /\ k.pc = "touch" => k.beat /\ k.id # Unset
  /\ k.beat => /\ w \in Handlers /\ k.since <= t
               /\ k.since - k.report.at <= MaxSkew /\ k.report.at - k.since <= MaxSkew

WritersAreTrue == \A w \in Writers : WriterOK(writer[w], w, now)

\* No heartbeat the table has taken is farther ahead of the clock than the
\* window allows.
ToldInWindow == \A d \in Devices : told[d].newest <= now + MaxSkew

IInv == StatusIsRecent /\ IdsAgree /\ WritersAreTrue /\ ToldInWindow
-----------------------------------------------------------------------------
(***************************************************************************)
(* The operators of the statements.                                        *)
(***************************************************************************)

\* A row is told from no row.
LEMMA NoRowIsNone == NoRow \notin Device
<1>1. \A r \in Device : r = [id |-> r.id, name |-> r.name, version |-> r.version,
                             status |-> r.status, seen |-> r.seen]
  BY DEF Device
<1>2. SUFFICES ASSUME NoRow \in Device PROVE FALSE
  OBVIOUS
<1>3. "seen" \in DOMAIN NoRow
  BY <1>2 DEF Device
<1>4. QED
  BY <1>3 DEF NoRow

\* A conflicting insert keeps the id, knows no less, and forgets no status.
LEMMA UpsertedKeeps ==
  ASSUME NEW old \in Device, NEW r \in Fields
  PROVE  /\ Upserted(old, r) \in Device /\ Upserted(old, r).id = old.id
         /\ old.name # Unset => Upserted(old, r).name # Unset
         /\ old.version # Unset => Upserted(old, r).version # Unset
         /\ Upserted(old, r).seen >= old.seen
         /\ old.status # "UNKNOWN" => Upserted(old, r).status # "UNKNOWN"
<1> DEFINE n == Coalesce(r.name, old.name)
           v == Coalesce(r.version, old.version)
           s == IF r.status = "UNKNOWN" THEN old.status ELSE r.status
           t == Greatest(r.at, old.seen)
<1>1. /\ n \in Text /\ v \in Text /\ s \in Statuses
      /\ old.name # Unset => n # Unset
      /\ old.version # Unset => v # Unset
      /\ old.status # "UNKNOWN" => s # "UNKNOWN"
  BY DEF Device, Fields, Coalesce, Text
<1>2. t \in Stamps \cup {Never} /\ t >= old.seen
  BY RegistryAssumption DEF Device, Fields, Greatest, Stamps, Never
<1>3. Upserted(old, r) = [old EXCEPT !.name = n, !.version = v, !.status = s, !.seen = t]
  BY DEF Upserted
<1> HIDE DEF n, v, s, t
<1>4. QED
  BY <1>1, <1>2, <1>3 DEF Device
-----------------------------------------------------------------------------
(***************************************************************************)
(* The steps.                                                              *)
(***************************************************************************)

\* The clock only widens what the invariant allows.
LEMMA TickMoves ==
  ASSUME IInv, Tick
  PROVE  IInv'
<1>1. now \in 1..MaxTime /\ now' = now + 1 /\ now' \in 1..MaxTime
  BY RegistryAssumption DEF IInv, StatusIsRecent, TypeOK, Tick
<1>2. StatusIsRecent' /\ IdsAgree'
  BY <1>1 DEF IInv, StatusIsRecent, TypeOK, IdsAgree, Tick
<1>3. WritersAreTrue'
  BY <1>1 DEF IInv, StatusIsRecent, TypeOK, Writer, WritersAreTrue, WriterOK, Tick
<1>4. ToldInWindow'
  BY <1>1, RegistryAssumption
     DEF IInv, StatusIsRecent, TypeOK, ToldInWindow, Tick, Stamps, Never
<1>5. QED
  BY <1>2, <1>3, <1>4 DEF IInv

\* A writer that becomes k, while the table stays.
LEMMA WriterMoves ==
  ASSUME IInv, NEW w \in Writers, NEW k \in Writer, writer' = [writer EXCEPT ![w] = k],
         UNCHANGED <<owner, row, now, told>>, WriterOK(k, w, now), k.id = Unset
  PROVE  IInv'
<1>1. writer'[w] = k /\ \A v \in Writers : v # w => writer'[v] = writer[v]
  BY DEF IInv, StatusIsRecent, TypeOK
<1>2. StatusIsRecent'
  BY DEF IInv, StatusIsRecent, TypeOK
<1>3. IdsAgree'
  BY <1>1 DEF IInv, IdsAgree
<1>4. WritersAreTrue'
  BY <1>1 DEF IInv, WritersAreTrue
<1>5. ToldInWindow'
  BY DEF IInv, ToldInWindow
<1>6. QED
  BY <1>2, <1>3, <1>4, <1>5 DEF IInv

\* A report is taken up; a heartbeat has passed the window.
LEMMA Begins ==
  ASSUME IInv, NEW w \in Writers, NEW d \in Devices, NEW r \in Fields, NEW beat \in BOOLEAN,
         Begin(w, d, r, beat), beat => w \in Handlers /\ InWindow(r.at)
  PROVE  IInv'
<1> DEFINE k == [pc |-> "upsert", device |-> d, report |-> r, beat |-> beat,
                 since |-> now, id |-> Unset]
<1>1. now \in Nat
  BY DEF IInv, StatusIsRecent, TypeOK
<1>2. k \in Writer /\ k.id = Unset
  BY <1>1 DEF Writer
<1>3. WriterOK(k, w, now)
  BY <1>1 DEF WriterOK, InWindow
<1>4. writer' = [writer EXCEPT ![w] = k] /\ UNCHANGED <<owner, row, now, told>>
  BY DEF Begin
<1> HIDE DEF k
<1>5. QED
  BY <1>2, <1>3, <1>4, WriterMoves

\* Every kind of report.
LEMMA ReportMoves ==
  ASSUME IInv, NEW d \in Devices,
         \/ PollUnit(d)
         \/ \E h \in Handlers : EdgeReport(h, d) \/ Heartbeat(h, d)
         \/ \E w \in Writers : ProviderEvent(w, d)
  PROVE  IInv'
<1>a. /\ now \in Stamps /\ Blank \in Fields
      /\ Poller \in Writers /\ Handlers \subseteq Writers
  BY DEF IInv, StatusIsRecent, TypeOK, Stamps, Blank, Fields, Text, Statuses, Never, Writers
<1>1. CASE PollUnit(d)
  <2>1. PICK health \in {"green", "amber", "red", ""}, n \in Text, v \in Text,
             t \in Stamps \cup {Never} :
          Begin(Poller, d,
                [name |-> n, version |-> v, status |-> UnitStatus(health), at |-> t], FALSE)
    BY <1>1 DEF PollUnit
  <2>2. UnitStatus(health) \in Statuses
    BY DEF UnitStatus, Statuses
  <2>3. [name |-> n, version |-> v, status |-> UnitStatus(health), at |-> t] \in Fields
    BY <2>2 DEF Fields
  <2>4. QED
    BY <1>a, <2>1, <2>3, Begins
<1>2. ASSUME NEW h \in Handlers, EdgeReport(h, d)
      PROVE  IInv'
  <2>1. PICK v \in Text :
          Begin(h, d, [Blank EXCEPT !.version = v, !.status = "ONLINE", !.at = now], FALSE)
    BY <1>2 DEF EdgeReport
  <2>2. [Blank EXCEPT !.version = v, !.status = "ONLINE", !.at = now] \in Fields
    BY <1>a DEF Fields, Statuses
  <2>3. QED
    BY <1>a, <2>1, <2>2, Begins
<1>3. ASSUME NEW h \in Handlers, Heartbeat(h, d)
      PROVE  IInv'
  <2>1. PICK t \in Stamps, s \in Statuses :
          InWindow(t) /\ Begin(h, d, [Blank EXCEPT !.status = s, !.at = t], TRUE)
    BY <1>3 DEF Heartbeat
  <2> DEFINE r == [Blank EXCEPT !.status = s, !.at = t]
  <2>2. r \in Fields /\ r.at = t
    BY <1>a DEF Fields
  <2>3. Begin(h, d, r, TRUE) /\ InWindow(r.at)
    BY <2>1, <2>2
  <2> HIDE DEF r
  <2>4. QED
    BY <1>a, <2>2, <2>3, Begins
<1>4. ASSUME NEW w \in Writers, ProviderEvent(w, d)
      PROVE  IInv'
  <2>1. PICK t \in Stamps : Begin(w, d, [Blank EXCEPT !.at = t], FALSE)
    BY <1>4 DEF ProviderEvent
  <2>2. [Blank EXCEPT !.at = t] \in Fields
    BY <1>a DEF Fields
  <2>3. QED
    BY <2>1, <2>2, Begins
<1>5. QED
  BY <1>1, <1>2, <1>3, <1>4

\* A heartbeat that is written in time is at most the window and the time limit
\* of a request behind the clock, those written before at most the window ahead.
LEMMA TellsRecent ==
  ASSUME IInv, NEW w \in Writers, NEW d \in Devices, Tells(w, d), InTime(w), now' = now
  PROVE  /\ told' \in [Devices -> [newest: Stamps \cup {Never}, last: Stamps \cup {Never}]]
         /\ \A e \in Devices : told'[e].newest - told'[e].last <= 2 * MaxSkew + RequestTimeout
         /\ ToldInWindow'
<1> DEFINE t == writer[w].report.at
           b == [newest |-> Greatest(t, told[d].newest), last |-> t]
<1>1. /\ told \in [Devices -> [newest: Stamps \cup {Never}, last: Stamps \cup {Never}]]
      /\ t \in Stamps \cup {Never} /\ now \in Nat /\ writer[w].since \in Nat
      /\ \A e \in Devices : told[e].newest - told[e].last <= 2 * MaxSkew + RequestTimeout
      /\ \A e \in Devices : told[e].newest <= now + MaxSkew
  BY DEF IInv, StatusIsRecent, TypeOK, Writer, Fields, ToldInWindow
<1>2. CASE ~writer[w].beat
  <2>1. told' = told
    BY <1>2 DEF Tells
  <2>2. QED
    BY <1>1, <2>1 DEF ToldInWindow
<1>3. CASE writer[w].beat
  <2>1. told' = [told EXCEPT ![d] = b]
    BY <1>3 DEF Tells
  <2>2. /\ writer[w].since <= now
        /\ writer[w].since - t <= MaxSkew /\ t - writer[w].since <= MaxSkew
        /\ now <= writer[w].since + RequestTimeout
    BY <1>3, RegistryAssumption DEF IInv, WritersAreTrue, WriterOK, InTime
  <2>3. /\ b \in [newest: Stamps \cup {Never}, last: Stamps \cup {Never}]
        /\ b.newest <= now + MaxSkew
        /\ b.newest - b.last <= 2 * MaxSkew + RequestTimeout
    <3>1. told[d].newest \in Stamps \cup {Never} /\ told[d].newest <= now + MaxSkew
      BY <1>1
    <3>2. CASE t >= told[d].newest
      BY <1>1, <2>2, <3>1, <3>2, RegistryAssumption DEF Greatest, Stamps, Never
    <3>3. CASE ~(t >= told[d].newest)
      BY <1>1, <2>2, <3>1, <3>3, RegistryAssumption DEF Greatest, Stamps, Never
    <3>4. QED
      BY <3>2, <3>3
  <2> HIDE DEF b
  <2>4. QED
    BY <1>1, <2>1, <2>3 DEF ToldInWindow
<1>4. QED
  BY <1>2, <1>3

\* The one row of a device takes a statement of writer w, which takes its id.
LEMMA UpsertMoves ==
  ASSUME IInv, NEW w \in Writers, UpsertDevice(w)
  PROVE  IInv' /\ \A d \in Devices : Keeps(d)
<1> DEFINE d == writer[w].device
           r == writer[w].report
           new == IF row[d] = NoRow
                  THEN [id |-> w, name |-> r.name, version |-> r.version,
                        status |-> r.status, seen |-> r.at]
                  ELSE Upserted(row[d], r)
           pc == IF writer[w].beat THEN "touch" ELSE "done"
           k == [writer[w] EXCEPT !.id = new.id, !.pc = pc]
<1>1. /\ d \in Devices /\ r \in Fields /\ writer[w] \in Writer /\ InTime(w)
      /\ row \in [Devices -> Device \cup {NoRow}] /\ writer \in [Writers -> Writer]
      /\ WriterOK(writer[w], w, now)
  BY DEF IInv, StatusIsRecent, TypeOK, WritersAreTrue, WriterOK, UpsertDevice, Writer
<1>2. /\ row' = [row EXCEPT ![d] = new] /\ UNCHANGED <<owner, now>>
      /\ writer' = [writer EXCEPT ![w].id = row'[d].id, ![w].pc = pc]
  BY DEF UpsertDevice
<1>3. new \in Device /\ (row[d] # NoRow => new.id = row[d].id)
  <2>1. CASE row[d] = NoRow
    BY <1>1, <2>1 DEF Device, Fields
  <2>2. CASE row[d] # NoRow
    <3>1. row[d] \in Device
      BY <1>1, <2>2
    <3>2. QED
      BY <1>1, <2>2, <3>1, UpsertedKeeps
  <2>3. QED
    BY <2>1, <2>2
<1>4. row'[d] = new /\ \A e \in Devices : e # d => row'[e] = row[e]
  BY <1>1, <1>2
<1>5. /\ k \in Writer /\ WriterOK(k, w, now) /\ k.id = new.id /\ k.device = d
      /\ writer' = [writer EXCEPT ![w] = k]
  <2>1. new.id \in Writers
    BY <1>3 DEF Device
  <2>2. writer' = [writer EXCEPT ![w] = k]
    BY <1>1, <1>2, <1>4
  <2> HIDE DEF new
  <2>3. k \in Writer /\ k.id = new.id /\ k.device = d
    BY <1>1, <2>1 DEF Writer
  <2>4. WriterOK(k, w, now)
    BY <1>1, <2>1, <2>3, RegistryAssumption DEF WriterOK, Writer
  <2>5. QED
    BY <2>2, <2>3, <2>4
<1> HIDE DEF k, new
<1>6. writer'[w] = k /\ \A v \in Writers : v # w => writer'[v] = writer[v]
  BY <1>1, <1>5
<1>7. StatusIsRecent' /\ ToldInWindow'
  <2>1. row' \in [Devices -> Device \cup {NoRow}] /\ writer' \in [Writers -> Writer]
    BY <1>1, <1>2, <1>3, <1>5
  <2>2. CASE told' = told
    BY <1>2, <2>1, <2>2 DEF IInv, StatusIsRecent, TypeOK, ToldInWindow
  <2>3. CASE Tells(w, d)
    <3>1. /\ told' \in [Devices -> [newest: Stamps \cup {Never}, last: Stamps \cup {Never}]]
          /\ \A e \in Devices : told'[e].newest - told'[e].last <= 2 * MaxSkew + RequestTimeout
          /\ ToldInWindow'
      BY <1>1, <1>2, <2>3, TellsRecent
    <3>2. QED
      BY <1>2, <2>1, <3>1 DEF IInv, StatusIsRecent, TypeOK
  <2>4. QED
    BY <2>2, <2>3 DEF UpsertDevice
<1>8. IdsAgree'
  <2>1. ASSUME NEW v \in Writers, v # w, writer[v].id # Unset
        PROVE  row'[writer[v].device].id = writer[v].id
    <3>1. row[writer[v].device].id = writer[v].id /\ writer[v].device \in Devices
      BY <2>1 DEF IInv, IdsAgree, WritersAreTrue, WriterOK
    <3>2. CASE writer[v].device = d
      <4>1. row[d] # NoRow
        BY <2>1, <3>1, <3>2 DEF NoRow
      <4>2. QED
        BY <1>3, <1>4, <3>1, <3>2, <4>1
    <3>3. CASE writer[v].device # d
      BY <1>4, <3>1, <3>3
    <3>4. QED
      BY <3>2, <3>3
  <2>2. QED
    BY <1>4, <1>5, <1>6, <2>1 DEF IdsAgree
<1>9. WritersAreTrue'
  BY <1>2, <1>5, <1>6 DEF IInv, WritersAreTrue
<1>10. ASSUME NEW e \in Devices PROVE Keeps(e)
  <2>1. CASE e # d
    <3>1. row'[e] = row[e]
      BY <1>4, <2>1
    <3>2. row[e] # NoRow => row[e].seen >= row[e].seen
      BY <1>1 DEF Device, Stamps, Never
    <3>3. QED
      BY <3>1, <3>2 DEF Keeps
  <2>2. CASE e = d /\ row[d] # NoRow
    <3>1. row[d] \in Device /\ row'[d] = Upserted(row[d], r)
      BY <1>1, <1>4, <2>2 DEF new
    <3>2. QED
      BY <1>1, <2>2, <3>1, UpsertedKeeps DEF Keeps
  <2>3. QED
    BY <2>1, <2>2 DEF Keeps
<1>11. QED
  BY <1>7, <1>8, <1>9, <1>10 DEF IInv

\* The status of the row with the writer's id.
LEMMA TouchMoves ==
  ASSUME IInv, NEW w \in Writers, TouchDevice(w)
  PROVE  IInv' /\ \A d \in Devices : Keeps(d)
<1> DEFINE d == writer[w].device
           r == writer[w].report
           k == [writer[w] EXCEPT !.pc = "done"]
           t == Greatest(row[d].seen, r.at)
           new == [row[d] EXCEPT !.status = r.status, !.seen = t]
<1>1. /\ d \in Devices /\ r \in Fields /\ writer[w] \in Writer /\ InTime(w)
      /\ row \in [Devices -> Device \cup {NoRow}] /\ writer \in [Writers -> Writer]
      /\ WriterOK(writer[w], w, now) /\ writer[w].pc = "touch" /\ w \in Handlers
  BY DEF IInv, StatusIsRecent, TypeOK, WritersAreTrue, WriterOK, TouchDevice, Writer
<1>2. writer' = [writer EXCEPT ![w] = k] /\ UNCHANGED <<owner, now>>
  BY <1>1 DEF TouchDevice
<1>3. k \in Writer /\ WriterOK(k, w, now) /\ k.id = writer[w].id /\ k.device = d
  BY <1>1 DEF Writer, WriterOK
<1> HIDE DEF k
<1>4. writer'[w] = k /\ \A v \in Writers : v # w => writer'[v] = writer[v]
  BY <1>1, <1>2
<1>5. WritersAreTrue'
  BY <1>2, <1>3, <1>4 DEF IInv, WritersAreTrue
<1>6. CASE row[d].id # writer[w].id
  <2>1. UNCHANGED <<row, told>>
    BY <1>6 DEF TouchDevice
  <2>2. StatusIsRecent' /\ ToldInWindow'
    BY <1>2, <1>3, <2>1 DEF IInv, StatusIsRecent, TypeOK, ToldInWindow
  <2>3. IdsAgree'
    BY <1>3, <1>4, <2>1 DEF IInv, IdsAgree
  <2>4. ASSUME NEW e \in Devices PROVE Keeps(e)
    <3>1. row[e] # NoRow => row[e].seen >= row[e].seen
      BY <1>1 DEF Device, Stamps, Never
    <3>2. QED
      BY <2>1, <3>1 DEF Keeps
  <2>5. QED
    BY <1>5, <2>2, <2>3, <2>4 DEF IInv
<1>7. CASE row[d] = NoRow
  <2>1. row[d].id # writer[w].id
    BY <1>1, <1>7 DEF NoRow, WriterOK
  <2>2. QED
    BY <1>6, <2>1
<1>8. CASE row[d].id = writer[w].id /\ row[d] # NoRow
  <2>1. row[d] \in Device /\ row' = [row EXCEPT ![d] = new] /\ Tells(w, d)
    <3>1. row' = [row EXCEPT ![d].status = r.status, ![d].seen = Greatest(@, r.at)]
      BY <1>8 DEF TouchDevice
    <3>2. QED
      BY <1>1, <1>8, <3>1 DEF TouchDevice
  <2>2. t \in Stamps \cup {Never} /\ t >= row[d].seen
    BY <1>1, <2>1, RegistryAssumption DEF Device, Fields, Greatest, Stamps, Never
  <2> HIDE DEF t
  <2>3. /\ new \in Device /\ new.id = row[d].id /\ new.name = row[d].name
        /\ new.version = row[d].version /\ new.seen >= row[d].seen
        /\ new.status = r.status
    BY <1>1, <2>1, <2>2 DEF Device, Fields
  <2> HIDE DEF new
  <2>4. row'[d] = new /\ \A e \in Devices : e # d => row'[e] = row[e]
    BY <1>1, <2>1
  <2>5. /\ told' \in [Devices -> [newest: Stamps \cup {Never}, last: Stamps \cup {Never}]]
        /\ \A e \in Devices : told'[e].newest - told'[e].last <= 2 * MaxSkew + RequestTimeout
        /\ ToldInWindow'
    BY <1>1, <1>2, <2>1, TellsRecent
  <2>6. StatusIsRecent'
    BY <1>1, <1>2, <1>3, <2>1, <2>3, <2>5 DEF IInv, StatusIsRecent, TypeOK
  <2>7. IdsAgree'
    BY <1>3, <1>4, <2>3, <2>4 DEF IInv, IdsAgree, WritersAreTrue, WriterOK
  <2>8. ASSUME NEW e \in Devices PROVE Keeps(e)
    <3>1. CASE e # d
      <4>1. row[e] # NoRow => row[e].seen >= row[e].seen
        BY <1>1 DEF Device, Stamps, Never
      <4>2. QED
        BY <2>4, <3>1, <4>1 DEF Keeps
    <3>2. CASE e = d
      <4>1. writer[w].pc = "touch" /\ writer'[w].pc = "done"
        BY <1>1, <1>4 DEF k, Writer
      <4>2. QED
        BY <1>1, <2>3, <2>4, <3>2, <4>1 DEF Keeps
    <3>3. QED
      BY <3>1, <3>2
  <2>9. QED
    BY <1>5, <2>5, <2>6, <2>7, <2>8 DEF IInv
<1>9. QED
  BY <1>6, <1>7, <1>8

\* A writer that is done, or was stopped, starts over.
LEMMA FinishMoves ==
  ASSUME IInv, NEW w \in Writers, Finish(w)
  PROVE  IInv'
<1>1. Idle \in Writer /\ WriterOK(Idle, w, now) /\ Idle.id = Unset
  BY DEF Idle, Writer, Blank, Fields, Text, Statuses, Never, WriterOK
<1>2. QED
  BY <1>1, WriterMoves DEF Finish
-----------------------------------------------------------------------------
(***************************************************************************)
(* Invariance.                                                             *)
(***************************************************************************)

\* No device has a row, no writer is at work.
LEMMA InitialStates == Init => IInv
<1> SUFFICES ASSUME Init
             PROVE  IInv
  OBVIOUS
<1>1. \A w \in Writers : Idle \in Writer /\ WriterOK(Idle, w, now) /\ Idle.id = Unset
  BY DEF Idle, Writer, Blank, Fields, Text, Statuses, Never, WriterOK
<1>2. StatusIsRecent
  BY <1>1, RegistryAssumption DEF Init, StatusIsRecent, TypeOK, Never
<1>3. IdsAgree /\ WritersAreTrue
  BY <1>1 DEF Init, IdsAgree, WritersAreTrue
<1>4. ToldInWindow
  <2>1. \A d \in Devices : told[d].newest = 0
    BY DEF Init, Never
  <2>2. now = 1 /\ 0 <= 1 + MaxSkew
    BY RegistryAssumption DEF Init
  <2>3. QED
    BY <2>1, <2>2 DEF ToldInWindow
<1>5. QED
  BY <1>2, <1>3, <1>4 DEF IInv

\* Every step keeps the invariant, and what is known of the devices.
LEMMA Steps ==
  IInv /\ [Next]_vars => IInv' /\ [IdsAgree' /\ \A d \in Devices : Keeps(d)]_vars
<1> SUFFICES ASSUME IInv, [Next]_vars
             PROVE  IInv' /\ (UNCHANGED vars \/ \A d \in Devices : Keeps(d))
  BY DEF IInv
<1>1. CASE UNCHANGED vars
  BY <1>1 DEF vars, IInv, StatusIsRecent, TypeOK, IdsAgree, WritersAreTrue, ToldInWindow
<1>2. ASSUME UNCHANGED row
      PROVE  \A d \in Devices : Keeps(d)
  <2>1. \A d \in Devices : row[d] # NoRow => row[d].seen >= row[d].seen
    BY DEF IInv, StatusIsRecent, TypeOK, Device, Stamps, Never
  <2>2. QED
    BY <1>2, <2>1 DEF Keeps
<1>3. CASE Tick
  BY <1>2, <1>3, TickMoves DEF Tick
<1>4. ASSUME NEW d \in Devices,
             \/ PollUnit(d)
             \/ \E h \in Handlers : EdgeReport(h, d) \/ Heartbeat(h, d)
             \/ \E w \in Writers : ProviderEvent(w, d)
      PROVE  IInv' /\ \A e \in Devices : Keeps(e)
  <2>1. UNCHANGED row
    BY <1>4 DEF PollUnit, EdgeReport, Heartbeat, ProviderEvent, Begin
  <2>2. QED
    BY <1>2, <1>4, <2>1, ReportMoves
<1>5. ASSUME NEW w \in Writers, Finish(w)
      PROVE  IInv' /\ \A e \in Devices : Keeps(e)
  BY <1>2, <1>5, FinishMoves DEF Finish
<1>6. QED
  BY <1>1, <1>3, <1>4, <1>5, UpsertMoves, TouchMoves DEF Next

\* The inductive invariant holds throughout.
THEOREM Invariance == Spec => []IInv
BY InitialStates, Steps, PTL DEF Spec

\* Every value stays in its domain, and however heartbeats overtake one another,
\* the status is at most twice the window and a request's time limit older than
\* the newest heartbeat the table has taken (webhook.go:101, storage.go:140).
THEOREM RecentStatus == Spec => []StatusIsRecent
<1>1. IInv => StatusIsRecent
  BY DEF IInv
<1>2. QED
  BY <1>1, Invariance, PTL

\* No statement of any writer takes away what is known of a device, and every
\* writer is given the one id of its row (storage.go:118).
THEOREM NothingIsForgotten == Spec => KnownIsKept
BY Invariance, Steps, PTL DEF Spec, KnownIsKept
=============================================================================
