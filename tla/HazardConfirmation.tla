-------------------------- MODULE HazardConfirmation --------------------------
(***************************************************************************)
(* SlidingWindowEventConfirmationEngine: a hazard is confirmed when enough *)
(* qualifying detections of one type fall within a window, and then kept   *)
(* quiet for a cooldown. The engine's queues are compared with a history   *)
(* that is never evicted. Within one session frames reach the engine one   *)
(* at a time and with increasing timestamps (CameraXFrameSource drops what *)
(* comes sooner than its interval); MonitoringSession has the sessions.    *)
(***************************************************************************)
EXTENDS Integers, Sequences, SequencesExt

CONSTANTS
  Types,        \* detector types
  Guarded,      \* those with a ConfirmationPolicy
  Confidences,  \* a few levels, ordered
  MinConfidence, RequiredHits, WindowMs, CooldownMs,   \* the policy, by type
  MaxDetections, \* bound of the model: detections in one frame
  MaxTime        \* bound of the model: the last timestamp

ASSUME ConfirmationAssumption ==
  /\ Guarded \subseteq Types /\ Confidences \subseteq Nat /\ Confidences # {}
  /\ MinConfidence \in [Guarded -> Nat] /\ RequiredHits \in [Guarded -> Nat \ {0}]
  /\ WindowMs \in [Guarded -> Nat] /\ CooldownMs \in [Guarded -> Nat]
  /\ MaxDetections \in Nat /\ MaxTime \in Nat

VARIABLES
  now,     \* timestamp of the last frame
  window,         \* window[t]: the queue of hits of type t
  cooldownUntil,
  seen,    \* history: seen[t], all qualifying hits since the last event or reset
  alarm    \* history: alarm[t], the last event confirmed since the last reset

engineVars == <<now, window, cooldownUntil, seen, alarm>>

Hit       == [at: Nat, confidence: Confidences]
Detection == [type: Types, confidence: Confidences]
Frames    == BoundedSeq(Detection, MaxDetections)

\* SecurityEvent; hits is the history it rests on, prev the time of the event
\* before it (NoTime if there is none).
Alarm   == [at: Nat, first: Nat, confidence: Confidences, hits: Seq(Hit), prev: Nat]
NoTime  == 0
NoAlarm == [at |-> NoTime, first |-> NoTime, confidence |-> Min(Confidences),
            hits |-> <<>>, prev |-> NoTime]

EngineInit ==
  /\ now = NoTime
  /\ window = [t \in Guarded |-> <<>>]
  /\ cooldownUntil = [t \in Guarded |-> NoTime]
  /\ seen  = [t \in Guarded |-> <<>>]
  /\ alarm = [t \in Guarded |-> NoAlarm]
-----------------------------------------------------------------------------
(***************************************************************************)
(* process, as a function of the stage s that one type t has reached.      *)
(***************************************************************************)

Stage(t) == [window |-> window[t], until |-> cooldownUntil[t],
             seen |-> seen[t], alarm |-> alarm[t]]

\* Whether a hit is within the window at some time.
InWindow(h, time, t) == h.at + WindowMs[t] >= time

\* Mutant: a hit exactly as old as the window is already out.
EvictAtCutoff(hits, time, t) ==
  LET young == {i \in DOMAIN hits : hits[i].at + WindowMs[t] > time}
  IN IF young = {} THEN <<>> ELSE SubSeq(hits, Min(young), Len(hits))

\* evict: the hits before the first one inside the window are removed.
Evict(hits, time, t) ==
  LET young == {i \in DOMAIN hits : InWindow(hits[i], time, t)}
  IN IF young = {} THEN <<>> ELSE SubSeq(hits, Min(young), Len(hits))

\* Mutant: one hit more is asked for.
ReadyLate(s, time, t) == time >= s.until /\ Len(s.window) > RequiredHits[t]

\* Out of the cooldown, with enough hits.
Ready(s, time, t) == time >= s.until /\ Len(s.window) >= RequiredHits[t]

Event(s, time) ==
  [at |-> time, first |-> Head(s.window).at, hits |-> s.seen, prev |-> s.alarm.at,
   confidence |-> Max({s.window[i].confidence : i \in DOMAIN s.window})]

\* confirm, the new cooldown, and window.clear().
Confirm(s, time, t) ==
  [window |-> <<>>, until |-> time + CooldownMs[t],
   seen |-> <<>>, alarm |-> Event(s, time)]

\* A detection counts for the policy of its type, if it is sure enough.
Qualifies(d, t) == d.type = t /\ d.confidence >= MinConfidence[t]

\* One detection of the frame: unmapped types and low confidences are
\* ignored, a hit is added and old ones evicted whether it cools down or not.
Observe(s, d, time, t) ==
  IF ~Qualifies(d, t) THEN s
  ELSE LET hit == [at |-> time, confidence |-> d.confidence]
           u   == [s EXCEPT !.window = Evict(Append(@, hit), time, t),
                            !.seen = Append(@, hit)]
       IN IF Ready(u, time, t) THEN Confirm(u, time, t) ELSE u

\* The stage a type has reached at the end of a frame.
Observed(detections, time, t) ==
  LET stage[n \in 0..Len(detections)] ==
        IF n = 0 THEN Stage(t) ELSE Observe(stage[n - 1], detections[n], time, t)
  IN stage[Len(detections)]

\* process(detections, nowMs).
Process(detections, time) ==
  LET after == [t \in Guarded |-> Observed(detections, time, t)]
  IN /\ time > now
     /\ now' = time
     /\ window' = [t \in Guarded |-> after[t].window]
     /\ cooldownUntil' = [t \in Guarded |-> after[t].until]
     /\ seen' = [t \in Guarded |-> after[t].seen]
     /\ alarm' = [t \in Guarded |-> after[t].alarm]

\* reset, at the start and the end of monitoring.
Reset ==
  /\ window' = [t \in Guarded |-> <<>>]
  /\ cooldownUntil' = [t \in Guarded |-> NoTime]
  /\ seen'  = [t \in Guarded |-> <<>>]
  /\ alarm' = [t \in Guarded |-> NoAlarm]
  /\ UNCHANGED now

EngineNext ==
  \/ \E detections \in Frames, time \in 1..MaxTime : Process(detections, time)
  \/ Reset

EngineSpec == EngineInit /\ [][EngineNext]_engineVars
-----------------------------------------------------------------------------
(***************************************************************************)
(* Properties.                                                             *)
(***************************************************************************)

EngineTypeOK ==
  /\ now \in Nat
  /\ window \in [Guarded -> Seq(Hit)] /\ seen \in [Guarded -> Seq(Hit)]
  /\ cooldownUntil \in [Guarded -> Nat]
  /\ alarm \in [Guarded -> Alarm]

\* The hits of a history that are within the window at some time, by a full
\* scan.
Recent(hits, time, t) ==
  LET scan[n \in 0..Len(hits)] ==
        IF n = 0 THEN <<>>
        ELSE IF InWindow(hits[n], time, t) THEN Append(scan[n - 1], hits[n])
        ELSE scan[n - 1]
  IN scan[Len(hits)]

\* Incremental eviction at the front computes the sliding window: after any
\* sequence of frames the queue holds what a full scan of the history since
\* the last event finds, in order. (Checked with the types.)
WindowIsRecentHistory ==
  /\ EngineTypeOK
  /\ \A t \in Guarded :
       window[t] = IF seen[t] = <<>> THEN <<>>
                   ELSE Recent(seen[t], Last(seen[t]).at, t)

\* Every event rests on enough qualifying detections of its type within the
\* window, none of them used by an earlier event, and reports the first of
\* them and the strongest; and no single ongoing hazard fires again within the
\* cooldown.
EventIsJustified ==
  \A t \in Guarded :
    LET a == alarm[t]
        hits == Recent(a.hits, a.at, t)
    IN a.at # NoTime =>
         /\ Len(hits) >= RequiredHits[t]
         /\ a.first = Head(hits).at
         /\ a.confidence = Max({hits[i].confidence : i \in DOMAIN hits})
         /\ a.prev # NoTime => a.at >= a.prev + CooldownMs[t]

\* A hazard is never overlooked: a frame that completes enough hits within
\* the window, outside the cooldown, has fired (which empties the history).
NothingIsMissed ==
  \A t \in Guarded :
    /\ seen[t] # <<>> /\ Last(seen[t]).at = now
    /\ alarm[t].at # NoTime => now >= alarm[t].at + CooldownMs[t]
    => Len(Recent(seen[t], now, t)) < RequiredHits[t]

\* An alarm is raised when, and only when, it is due.
AlarmsAreExact == EventIsJustified /\ NothingIsMissed
=============================================================================
