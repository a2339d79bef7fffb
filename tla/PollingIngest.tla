---------------------------- MODULE PollingIngest ----------------------------
(***************************************************************************)
(* provider.Poller over one polling provider (alphasense.FetchEvents) and  *)
(* the event pipeline: the watermark `since`, the overlap that is          *)
(* subtracted from it, fetches that fail, alerts that cannot be normalized *)
(* and events the store fails to take. The poller is one goroutine; the    *)
(* provider, the clock and crashes of the connector interleave with it.    *)
(***************************************************************************)
EXTENDS Naturals, Sequences, FiniteSets

CONSTANTS
  Events, Malformed, NoEvent, Calls, Streams, Buffer,   \* of EventPipeline
  Poller,      \* the poller's goroutine, a member of Calls
  Garbage,     \* alerts normalizeAlert refuses
  Interval,    \* poll interval (30 s)
  Overlap,     \* 1 min
  Lag,         \* the provider lists an alert at most this long after confirming
  MaxTime,     \* bound of the model: the last instant of the clock
  MaxCrashes   \* bound of the model: crashes of the connector

ASSUME PollingAssumption ==
  /\ Poller \in Calls /\ NoEvent \notin Events /\ Buffer \in Nat
  /\ Interval \in Nat /\ Overlap \in Nat /\ Lag \in Nat /\ Lag < Overlap
  /\ MaxTime \in Nat /\ MaxCrashes \in Nat

VARIABLES
  stored, call, feed, seen, published,   \* of EventPipeline
  now,        \* the clock
  confirmed,  \* confirmed[e]: confirmed_at of a listed alert, Unlisted before
  poll,       \* the poller: its program counter, watermark and cycle
  started,    \* when the running process started polling
  failed,     \* events AcceptFromProvider has returned an error for
  crashes

pipelineVars == <<stored, call, feed, seen, published>>
vars == <<pipelineVars, now, confirmed, poll, started, failed, crashes>>

Pipe == INSTANCE EventPipeline

Unlisted == 0
Epoch    == Interval + Overlap + 1   \* the clock starts late enough to look back

Cycle == [pc: {"down", "wait", "fetch", "process", "resolve", "accept"},
          since: Nat, start: Nat, batch: SUBSET Events, item: Events \cup {NoEvent}]

\* Run looks one interval back and starts its first cycle.
Fresh(t) == [pc |-> "wait", since |-> t - Interval, start |-> t, batch |-> {},
             item |-> NoEvent]

Init ==
  /\ Pipe!Init
  /\ now = Epoch /\ started = Epoch
  /\ poll = Fresh(Epoch)
  /\ confirmed = [e \in Events |-> Unlisted]
  /\ failed = {} /\ crashes = 0

Tick ==
  /\ now < MaxTime
  /\ now' = now + 1
  /\ UNCHANGED <<pipelineVars, confirmed, poll, started, failed, crashes>>

\* The provider lists an alert, which it confirmed up to Lag before.
List(e) ==
  /\ confirmed[e] = Unlisted
  /\ \E t \in (now - Lag)..now : confirmed' = [confirmed EXCEPT ![e] = t]
  /\ UNCHANGED <<pipelineVars, now, poll, started, failed, crashes>>
-----------------------------------------------------------------------------
\* A tick, or the immediate first cycle. FetchDevices runs before the events
\* are fetched; its errors and those of its upserts are only logged.
StartCycle ==
  /\ poll.pc = "wait"
  /\ poll' = [poll EXCEPT !.pc = "fetch", !.start = now]
  /\ UNCHANGED <<pipelineVars, now, confirmed, started, failed, crashes>>

\* The alerts the provider lists after the instant it is given.
ListedAfter(t) == {e \in Events : confirmed[e] # Unlisted /\ confirmed[e] > t}

\* Mutant: the default overlap is never applied.
WindowNoOverlap == ListedAfter(poll.since)

\* since.Add(-p.Overlap)
Window == ListedAfter(poll.since - Overlap)

\* FetchEvents fails after its retries, or one alert of the response cannot
\* be normalized, which FetchEvents reports as an error next to the others.
FetchFails ==
  /\ poll.pc = "fetch"
  /\ poll' = [poll EXCEPT !.pc = "wait"]
  /\ UNCHANGED <<pipelineVars, now, confirmed, started, failed, crashes>>

\* normalizeAlert: a known category, its identifiers, a score from 0 to 100 and
\* a readable confirmed_at.
Normalizable == Events \ Garbage

\* All of the response is normalized and handed over.
FetchEvents ==
  /\ poll.pc = "fetch"
  /\ Window \subseteq Normalizable
  /\ poll' = [poll EXCEPT !.pc = "process", !.batch = Window]
  /\ UNCHANGED <<pipelineVars, now, confirmed, started, failed, crashes>>

\* The next event of the batch enters AcceptFromProvider.
NextEvent(e) ==
  /\ poll.pc = "process" /\ e \in poll.batch
  /\ poll' = [poll EXCEPT !.pc = "resolve", !.item = e, !.batch = @ \ {e}]
  /\ UNCHANGED <<pipelineVars, now, confirmed, started, failed, crashes>>

\* UpsertDevice resolves the event's device; if it fails, the error is logged.
ResolveDevice ==
  /\ poll.pc = "resolve"
  /\ Pipe!Accept(Poller, poll.item)
  /\ poll' = [poll EXCEPT !.pc = "accept"]
  /\ UNCHANGED <<now, confirmed, started, failed, crashes>>

ResolveFails ==
  /\ poll.pc = "resolve"
  /\ poll' = [poll EXCEPT !.pc = "process", !.item = NoEvent]
  /\ failed' = failed \cup {poll.item}
  /\ UNCHANGED <<pipelineVars, now, confirmed, started, crashes>>

\* Accept returns; an error is logged and the loop goes on.
AcceptReturns ==
  /\ poll.pc = "accept"
  /\ failed' = IF call[Poller].answer = "error" THEN failed \cup {poll.item}
                                                ELSE failed
  /\ Pipe!Return(Poller)
  /\ poll' = [poll EXCEPT !.pc = "process", !.item = NoEvent]
  /\ UNCHANGED <<now, confirmed, started, crashes>>

\* Mutant: the watermark is read when the cycle ends.
EndCycleNow ==
  /\ poll.pc = "process" /\ poll.batch = {}
  /\ poll' = [poll EXCEPT !.pc = "wait", !.since = now]
  /\ UNCHANGED <<pipelineVars, now, confirmed, started, failed, crashes>>

\* cycle returns the instant it started at.
EndCycle ==
  /\ poll.pc = "process" /\ poll.batch = {}
  /\ poll' = [poll EXCEPT !.pc = "wait", !.since = poll.start]
  /\ UNCHANGED <<pipelineVars, now, confirmed, started, failed, crashes>>

\* The pipeline's own steps inside Accept.
AcceptStep ==
  /\ Pipe!CallStep(Poller)
  /\ UNCHANGED <<now, confirmed, poll, started, failed, crashes>>

\* The connector dies; it comes back at any later time.
Crash ==
  /\ poll.pc # "down" /\ crashes < MaxCrashes
  /\ Pipe!Restart
  /\ poll' = [poll EXCEPT !.pc = "down", !.batch = {}, !.item = NoEvent]
  /\ crashes' = crashes + 1
  /\ UNCHANGED <<now, confirmed, started, failed>>

Start ==
  /\ poll.pc = "down"
  /\ poll' = Fresh(now) /\ started' = now
  /\ UNCHANGED <<pipelineVars, now, confirmed, failed, crashes>>

\* The steps the poller takes by itself.
PollerStep ==
  \/ StartCycle \/ FetchEvents \/ FetchFails \/ (\E e \in Events : NextEvent(e))
  \/ ResolveDevice \/ ResolveFails \/ AcceptStep \/ AcceptReturns \/ EndCycle

Next ==
  \/ Tick \/ (\E e \in Events : List(e))
  \/ PollerStep
  \/ Crash \/ Start

\* The poller's goroutine runs, its calls return, and a provider that is asked
\* for ever answers properly in the end: its outages are finite.
Fairness == WF_vars(PollerStep) /\ SF_vars(FetchEvents)

Spec == Init /\ [][Next]_vars /\ Fairness
-----------------------------------------------------------------------------
(***************************************************************************)
(* Properties.                                                             *)
(***************************************************************************)

TypeOK ==
  /\ Pipe!TypeOK
  /\ now \in Nat /\ started \in Nat /\ crashes \in 0..MaxCrashes
  /\ confirmed \in [Events -> Nat]
  /\ poll \in Cycle
  /\ failed \subseteq Events

WellFormed == Events \ (Garbage \cup Malformed)
Listed     == {e \in Events : confirmed[e] # Unlisted}

\* The next fetch, or the cycle that is running, still has e in reach.
InReach(e) ==
  \/ confirmed[e] > poll.since - Overlap
  \/ poll.item = e \/ e \in poll.batch

\* The watermark never leaves a gap: an alert that is listed late, while a
\* cycle runs or right at its start is stored, or failed in Accept, or still
\* in reach, whatever fetches fail and however long a cycle takes. (What
\* predates the process by more than an interval is out by design. Checked with
\* the types.)
NoGapBehindWatermark ==
  /\ TypeOK
  /\ \A e \in Listed \cap WellFormed :
       \/ e \in stored \cup failed \/ InReach(e)
       \/ poll.pc = "down" \/ confirmed[e] <= started - Interval - Overlap

\* Every listed alert is ingested in the end once the provider answers again.
EveryAlertIsIngested ==
  \A e \in WellFormed :
    e \in Listed ~> \/ e \in stored \cup failed
                    \/ poll.pc = "down" \/ confirmed[e] <= started - Interval - Overlap
-----------------------------------------------------------------------------
(***************************************************************************)
(* A claim of the documentation that the code does not keep.               *)
(***************************************************************************)

\* "malformed alert: skipped, reported, not fatal" (alphasense.go:175;
\* TestMalformedAlertIsSkippedNotFatal: "good alert should survive a bad
\* sibling"). The poller takes the report for a failed fetch and drops the
\* batch, so that no listed good alert is ever ingested.
BadAlertIsNotFatal ==
  \A e \in WellFormed : confirmed[e] # Unlisted ~> e \in stored \cup failed
=============================================================================
