---------------------------- MODULE DeviceRegistry ----------------------------
(***************************************************************************)
(* The table devices and everything that writes to it: the ingest handlers *)
(* (a phone's report), the poller (AlphaSense's units), the webhook        *)
(* handler (BetaGrid's heartbeats) and AcceptFromProvider (the device of   *)
(* an event). A writer reads the clock or its payload first and reaches    *)
(* the table later, so that reports of one device arrive in any order; a   *)
(* heartbeat is two statements with anything in between.                   *)
(***************************************************************************)
EXTENDS Integers

CONSTANTS
  Devices,         \* pairs of provider and external_id
  Handlers,        \* HTTP requests that may run at once
  Poller,          \* the poller's goroutine
  Labels,          \* names and app versions
  Unset,           \* the empty string
  NoDevice,
  MaxSkew,         \* width of the webhook's timestamp window (5 min)
  RequestTimeout,  \* the end of an inbound request (15 s)
  MaxTime          \* bound of the model: the last instant, and time stamp

Writers == Handlers \cup {Poller}

ASSUME RegistryAssumption ==
  /\ Poller \notin Handlers /\ NoDevice \notin Devices
  /\ Unset \notin Labels \cup Writers
  /\ MaxSkew \in Nat /\ RequestTimeout \in Nat /\ MaxTime \in Nat \ {0}

VARIABLES
  owner,     \* owner[d]: the provider of device d
  row,       \* row[d]: its row, NoRow before the first
  writer,    \* writer[w]: what goroutine w is writing
  now,       \* the connector's clock
  told       \* told[d]: of the heartbeats that set the status of d, the newest
             \* time stamp and that of the last

vars == <<owner, row, writer, now, told>>

Statuses  == {"ONLINE", "OFFLINE", "UNKNOWN"}
Providers == {"guardian-edge", "alphasense", "betagrid"}
Never     == 0                     \* the zero time, NULL in the table
Stamps    == 1..MaxTime
Text      == Labels \cup {Unset}

Device == [id: Writers, name: Text, version: Text, status: Statuses,
           seen: Stamps \cup {Never}]
NoRow  == [id |-> Unset]
Fields == [name: Text, version: Text, status: Statuses, at: Stamps \cup {Never}]
Blank  == [name |-> Unset, version |-> Unset, status |-> "UNKNOWN", at |-> Never]
Writer == [pc: {"idle", "upsert", "touch", "done"}, device: Devices \cup {NoDevice},
           report: Fields, beat: BOOLEAN, since: Nat, id: Writers \cup {Unset}]
Idle   == [pc |-> "idle", device |-> NoDevice, report |-> Blank, beat |-> FALSE,
           since |-> 0, id |-> Unset]

Init ==
  /\ owner \in [Devices -> Providers]
  /\ row = [d \in Devices |-> NoRow]
  /\ writer = [w \in Writers |-> Idle]
  /\ now = 1
  /\ told = [d \in Devices |-> [newest |-> Never, last |-> Never]]

Tick ==
  /\ now < MaxTime
  /\ now' = now + 1
  /\ UNCHANGED <<owner, row, writer, told>>
-----------------------------------------------------------------------------
(***************************************************************************)
(* The reports.                                                            *)
(***************************************************************************)

Begin(w, d, r, beat) ==
  /\ writer[w].pc = "idle"
  /\ writer' = [writer EXCEPT ![w] =
       [pc |-> "upsert", device |-> d, report |-> r, beat |-> beat,
        since |-> now, id |-> Unset]]
  /\ UNCHANGED <<owner, row, now, told>>

\* postTelemetry and postEvent: the phone is online, and seen now.
EdgeReport(w, d) ==
  /\ owner[d] = "guardian-edge"
  /\ \E v \in Text :
       Begin(w, d, [Blank EXCEPT !.version = v, !.status = "ONLINE", !.at = now], FALSE)

\* normalizeUnit: amber is degraded but reachable.
UnitStatus(health) ==
  CASE health \in {"green", "amber"} -> "ONLINE"
    [] health = "red"                -> "OFFLINE"
    [] OTHER                         -> "UNKNOWN"

\* FetchDevices: a unit with whatever of its fields the provider gives; a
\* missing or unreadable last_ping is the zero time.
PollUnit(d) ==
  /\ owner[d] = "alphasense"
  /\ \E health \in {"green", "amber", "red", ""}, n \in Text, v \in Text,
        t \in Stamps \cup {Never} :
       Begin(Poller, d,
             [name |-> n, version |-> v, status |-> UnitStatus(health), at |-> t], FALSE)

\* AcceptFromProvider: an event shows its device at confirmed_at, and says
\* nothing about its status. The poller accepts AlphaSense's events, the
\* webhook handler BetaGrid's.
ProviderEvent(w, d) ==
  /\ \/ owner[d] = "alphasense" /\ w = Poller
     \/ owner[d] = "betagrid" /\ w \in Handlers
  /\ \E t \in Stamps : Begin(w, d, [Blank EXCEPT !.at = t], FALSE)

\* Mutant: the window is checked towards the past only.
InWindowPast(t) == now - t <= MaxSkew

\* now.Sub(sentAt).Abs() > maxSkew is out of the window.
InWindow(t) == now - t <= MaxSkew /\ t - now <= MaxSkew

\* A heartbeat that has passed the window and the gate.
Heartbeat(w, d) ==
  /\ owner[d] = "betagrid"
  /\ \E t \in Stamps, s \in Statuses :
       InWindow(t) /\ Begin(w, d, [Blank EXCEPT !.status = s, !.at = t], TRUE)
-----------------------------------------------------------------------------
(***************************************************************************)
(* The statements.                                                         *)
(***************************************************************************)

Greatest(s, t)  == IF s >= t THEN s ELSE t
Coalesce(x, y)  == IF x = Unset THEN y ELSE x

\* Mutant: last_seen_at = COALESCE(EXCLUDED.last_seen_at, devices.last_seen_at).
UpsertedLast(old, r) ==
  [old EXCEPT !.name = Coalesce(r.name, @), !.version = Coalesce(r.version, @),
              !.status = IF r.status = "UNKNOWN" THEN @ ELSE r.status,
              !.seen = IF r.at = Never THEN @ ELSE r.at]

\* ON CONFLICT (provider, external_id) DO UPDATE.
Upserted(old, r) ==
  [old EXCEPT !.name = Coalesce(r.name, @), !.version = Coalesce(r.version, @),
              !.status = IF r.status = "UNKNOWN" THEN @ ELSE r.status,
              !.seen = Greatest(r.at, @)]

\* A request's context ends after RequestTimeout; the poller's does not. (A
\* statement that the server commits after the context ended is not modelled.)
InTime(w) == w = Poller \/ now <= writer[w].since + RequestTimeout

\* The heartbeat of w, whose time stamp is t, has set the status of d.
Tells(w, d) ==
  LET t == writer[w].report.at
  IN told' = IF writer[w].beat
             THEN [told EXCEPT ![d] = [newest |-> Greatest(t, @.newest), last |-> t]]
             ELSE told

\* UpsertDevice inserts with an id of its own or updates, and returns the id
\* of the row.
UpsertDevice(w) ==
  LET d == writer[w].device
      r == writer[w].report
  IN /\ writer[w].pc = "upsert" /\ InTime(w)
     /\ row' = [row EXCEPT ![d] =
          IF @ = NoRow
          THEN [id |-> w, name |-> r.name, version |-> r.version,
                status |-> r.status, seen |-> r.at]
          ELSE Upserted(@, r)]
     /\ writer' = [writer EXCEPT ![w].id = row'[d].id,
                     ![w].pc = IF writer[w].beat THEN "touch" ELSE "done"]
     /\ IF r.status = "UNKNOWN" THEN UNCHANGED told ELSE Tells(w, d)
     /\ UNCHANGED <<owner, now>>

\* TouchDevice sets the status, UNKNOWN too, of the row with the id.
TouchDevice(w) ==
  LET d == writer[w].device
      r == writer[w].report
  IN /\ writer[w].pc = "touch" /\ InTime(w)
     /\ IF row[d].id = writer[w].id
        THEN /\ row' = [row EXCEPT ![d].status = r.status, ![d].seen = Greatest(@, r.at)]
             /\ Tells(w, d)
        ELSE UNCHANGED <<row, told>>
     /\ writer' = [writer EXCEPT ![w].pc = "done"]
     /\ UNCHANGED <<owner, now>>

\* The report is done with its device; or a statement fails, the request's
\* time is over, or the process dies. (A statement that commits and fails all
\* the same is UpsertDevice or TouchDevice before this.)
Finish(w) ==
  /\ writer[w].pc # "idle"
  /\ writer' = [writer EXCEPT ![w] = Idle]
  /\ UNCHANGED <<owner, row, now, told>>

Next ==
  \/ Tick
  \/ \E d \in Devices : PollUnit(d)
  \/ \E h \in Handlers, d \in Devices : EdgeReport(h, d) \/ Heartbeat(h, d)
  \/ \E w \in Writers : \/ \E d \in Devices : ProviderEvent(w, d)
                        \/ UpsertDevice(w) \/ TouchDevice(w) \/ Finish(w)

Spec == Init /\ [][Next]_vars
-----------------------------------------------------------------------------
(***************************************************************************)
(* Properties.                                                             *)
(***************************************************************************)

TypeOK ==
  /\ owner \in [Devices -> Providers]
  /\ row \in [Devices -> Device \cup {NoRow}]
  /\ writer \in [Writers -> Writer]
  /\ now \in 1..MaxTime
  /\ told \in [Devices -> [newest: Stamps \cup {Never}, last: Stamps \cup {Never}]]

\* Every id that was handed out, for telemetry, an event or TouchDevice, is
\* that of the device's one row.
IdsAgree ==
  \A w \in Writers : writer[w].id # Unset => row[writer[w].device].id = writer[w].id

\* A step leaves what is known of d. A known status gives way to UNKNOWN only
\* for a heartbeat that says so.
Keeps(d) ==
  row[d] # NoRow =>
    /\ row'[d].id = row[d].id
    /\ row[d].name # Unset => row'[d].name # Unset
    /\ row[d].version # Unset => row'[d].version # Unset
    /\ row'[d].seen >= row[d].seen
    /\ row[d].status # "UNKNOWN" /\ row'[d].status = "UNKNOWN" =>
         \E h \in Handlers : /\ writer[h].pc = "touch" /\ writer'[h].pc = "done"
                             /\ writer[h].report.status = "UNKNOWN"

\* What the table knows of a device it never forgets, whoever writes, in
\* whatever order and however sparse the report ("Zero-value fields never
\* clobber known data", storage.go:119): the id that commands, events and
\* telemetry refer to, the name, the version and the latest sighting. And
\* writers that race for the first row are all given its id.
KnownIsKept == [][IdsAgree' /\ \A d \in Devices : Keeps(d)]_vars

\* Heartbeats overtake one another, between their two statements too, and the
\* last one writes the status. The window and the request's deadline bound how
\* much older it can be than the newest one the table has taken. (Checked with
\* the types.)
StatusIsRecent ==
  /\ TypeOK
  /\ \A d \in Devices : told[d].newest - told[d].last <= 2 * MaxSkew + RequestTimeout
=============================================================================
