------------------------- MODULE PollingIngestProofs -------------------------
(***************************************************************************)
(* Proofs about PollingIngest, for any alerts, any interval and overlap,   *)
(* and any delay of the provider's listing that is shorter than the        *)
(* overlap.                                                                *)
(***************************************************************************)
EXTENDS PollingIngest, TLAPS

-----------------------------------------------------------------------------
(***************************************************************************)
(* The inductive invariant.                                                *)
(***************************************************************************)

\* The watermark and the start of a cycle lie in the past.
ClockIsTrue ==
  /\ Epoch <= started /\ started <= now
  /\ poll.since <= now /\ poll.start <= now

InCycle == {"process", "resolve", "accept"}

\* Between cycles the poller has nothing in its hands.
HandsAreTrue ==
  /\ poll.pc \notin InCycle => poll.batch = {}
  /\ IF poll.pc \in {"resolve", "accept"} THEN poll.item \in Events
                                          ELSE poll.item = NoEvent

\* A call that is inside Accept is there for an event, and what it is answered
\* is true of the table.
CallOK(c, rows) ==
  /\ c.pc \in {"insert", "publish"} => c.event \in Events
  /\ c.pc = "publish" \/ c.answer \in {"stored", "duplicate"} => c.event \in rows
  /\ c.answer = "rejected" => c.event \in Malformed
  /\ c.pc = "answered" => c.answer # ""

PipeOK == Pipe!TypeOK /\ CallOK(call[Poller], stored)

\* The poller waits for the call it made.
CallIsTrue ==
  CallOK(call[Poller], stored) /\ (poll.pc = "accept" => call[Poller].event = poll.item)

\* Alerts the property is about.
Due == Listed \cap WellFormed

\* What the poller is done with, or has in its hands.
InHand == stored \cup failed \cup poll.batch \cup {poll.item}

\* A cycle has taken over every alert from its watermark up to the next one.
CycleIsComplete ==
  poll.pc \in InCycle =>
    \A e \in Due :
      confirmed[e] > poll.since - Overlap /\ confirmed[e] <= poll.start - Overlap
        => e \in InHand

\* An alert is done with, in hand, still to be fetched, or out by design.
Reached(e) ==
  \/ e \in InHand \/ confirmed[e] > poll.since - Overlap
  \/ poll.pc = "down" \/ confirmed[e] <= started - Interval - Overlap

IInv ==
  /\ TypeOK /\ ClockIsTrue /\ HandsAreTrue /\ CallIsTrue /\ CycleIsComplete
  /\ \A e \in Due : Reached(e)

\* What the actions rely on.
LEMMA Ranges ==
  ASSUME IInv
  PROVE  /\ TypeOK /\ poll \in Cycle /\ poll.since \in Nat /\ poll.start \in Nat
         /\ now \in Nat /\ started \in Nat /\ \A e \in Events : confirmed[e] \in Nat
         /\ call \in [Calls -> Pipe!Call] /\ stored \subseteq Events
         /\ failed \subseteq Events /\ Due \subseteq Events
         /\ poll.batch \subseteq Events /\ Interval \in Nat /\ Overlap \in Nat
         /\ PipeOK
<1>1. poll \in Cycle => poll.since \in Nat /\ poll.start \in Nat /\ poll.batch \subseteq Events
  BY DEF Cycle
<1>2. QED
  BY <1>1, PollingAssumption DEF IInv, TypeOK, Pipe!TypeOK, Due, Listed,
                                 PipeOK, CallIsTrue
-----------------------------------------------------------------------------
(***************************************************************************)
(* The pipeline's part.                                                    *)
(***************************************************************************)

\* The poller's call becomes another, and the table grows at most.
LEMMA CallMoves ==
  ASSUME PipeOK, NEW c \in Pipe!Call, call' = [call EXCEPT ![Poller] = c],
         stored \subseteq stored', stored' \subseteq Events,
         UNCHANGED <<feed, seen, published>>, CallOK(c, stored')
  PROVE  PipeOK' /\ call'[Poller] = c
BY PollingAssumption DEF PipeOK, Pipe!TypeOK

\* The poller enters Accept.
LEMMA Accepts ==
  ASSUME PipeOK, NEW e \in Events, Pipe!Accept(Poller, e)
  PROVE  PipeOK' /\ stored' = stored /\ call'[Poller].event = e
<1> DEFINE c == IF e \in Malformed
                THEN [pc |-> "answered", event |-> e, answer |-> "rejected"]
                ELSE [pc |-> "insert", event |-> e, answer |-> ""]
<1>1. c \in Pipe!Call /\ c.event = e /\ CallOK(c, stored)
  BY DEF Pipe!Call, Pipe!Answers, CallOK
<1>2. stored \subseteq Events
  BY DEF PipeOK, Pipe!TypeOK
<1>3. QED
  BY <1>1, <1>2, CallMoves DEF Pipe!Accept

\* A publish only adds to what is published and streamed.
LEMMA Publishes ==
  ASSUME PipeOK, Pipe!Publish(Poller)
  PROVE  PipeOK' /\ stored' = stored /\ call'[Poller].event = call[Poller].event
<1> DEFINE e == call[Poller].event
           c == [call[Poller] EXCEPT !.pc = "answered", !.answer = "stored"]
<1>1. /\ call[Poller] \in Pipe!Call /\ call[Poller].pc = "publish" /\ e \in Events
      /\ e \in stored
  BY PollingAssumption DEF PipeOK, Pipe!TypeOK, Pipe!Publish, CallOK
<1>2. /\ call' = [call EXCEPT ![Poller] = c] /\ published' = published \cup {e}
      /\ UNCHANGED <<stored, seen>>
  BY DEF Pipe!Publish, Pipe!Answered
<1>3. c \in Pipe!Call /\ c.event = e /\ CallOK(c, stored)
  BY <1>1 DEF Pipe!Call, Pipe!Answers, CallOK
<1>4. ASSUME NEW s \in Streams
      PROVE  feed'[s] \in Pipe!Channel /\ Len(feed'[s].buffer) <= Buffer
  <2> DEFINE more == Append(feed[s].buffer, e)
  <2>1. feed[s] \in Pipe!Channel /\ feed[s].buffer \in Seq(Events)
    BY DEF PipeOK, Pipe!TypeOK, Pipe!Channel
  <2>2. more \in Seq(Events) /\ Len(more) = Len(feed[s].buffer) + 1
    BY <1>1, <2>1
  <2>3. CASE feed'[s] = feed[s]
    BY <2>3 DEF PipeOK, Pipe!TypeOK
  <2>4. CASE /\ feed'[s] = [feed[s] EXCEPT !.buffer = more]
             /\ Len(feed[s].buffer) < Buffer
    <3> HIDE DEF more
    <3>1. feed'[s].buffer = more /\ feed'[s] \in Pipe!Channel
      BY <2>1, <2>2, <2>4 DEF Pipe!Channel
    <3>2. Len(more) <= Buffer
      BY <2>1, <2>2, <2>4, PollingAssumption
    <3>3. QED
      BY <3>1, <3>2
  <2>5. QED
    BY <2>3, <2>4 DEF Pipe!Publish
<1>5. feed' \in [Streams -> Pipe!Channel]
  BY <1>4 DEF Pipe!Publish
<1>6. Pipe!TypeOK'
  BY <1>1, <1>2, <1>3, <1>4, <1>5 DEF PipeOK, Pipe!TypeOK
<1>7. call'[Poller] = c
  BY <1>2, PollingAssumption DEF PipeOK, Pipe!TypeOK
<1>8. QED
  BY <1>2, <1>3, <1>6, <1>7 DEF PipeOK

\* Inside Accept.
LEMMA Proceeds ==
  ASSUME PipeOK, Pipe!CallStep(Poller)
  PROVE  PipeOK' /\ stored \subseteq stored' /\ call'[Poller].event = call[Poller].event
<1>1. /\ call[Poller] \in Pipe!Call /\ stored \subseteq Events
      /\ CallOK(call[Poller], stored)
  BY PollingAssumption DEF PipeOK, Pipe!TypeOK
<1>2. CASE Pipe!InsertHazardEvent(Poller) /\ call[Poller].event \in stored
  <2> DEFINE c == [call[Poller] EXCEPT !.pc = "answered", !.answer = "duplicate"]
  <2>1. c \in Pipe!Call /\ c.event = call[Poller].event /\ CallOK(c, stored)
    BY <1>1, <1>2 DEF Pipe!Call, Pipe!Answers, CallOK
  <2>2. QED
    BY <1>1, <1>2, <2>1, CallMoves DEF Pipe!InsertHazardEvent, Pipe!Answered
<1>3. CASE Pipe!InsertHazardEvent(Poller) /\ call[Poller].event \notin stored
  <2> DEFINE c == [call[Poller] EXCEPT !.pc = "publish"]
  <2>1. /\ call[Poller].pc = "insert" /\ stored' = stored \cup {call[Poller].event}
        /\ call' = [call EXCEPT ![Poller] = c] /\ UNCHANGED <<feed, seen, published>>
    BY <1>3 DEF Pipe!InsertHazardEvent
  <2>2. /\ c \in Pipe!Call /\ c.event = call[Poller].event
        /\ CallOK(c, stored') /\ stored' \subseteq Events
    BY <1>1, <2>1 DEF Pipe!Call, CallOK
  <2>3. QED
    BY <2>1, <2>2, CallMoves
<1>4. ASSUME NEW committed \in BOOLEAN, Pipe!InsertFails(Poller, committed)
      PROVE  PipeOK' /\ stored \subseteq stored' /\ call'[Poller].event = call[Poller].event
  <2> DEFINE c == [call[Poller] EXCEPT !.pc = "answered", !.answer = "error"]
  <2>1. c \in Pipe!Call /\ c.event = call[Poller].event /\ CallOK(c, stored')
    BY <1>1, <1>4 DEF Pipe!InsertFails, Pipe!Call, Pipe!Answers, CallOK
  <2>2. stored \subseteq stored' /\ stored' \subseteq Events
    BY <1>1, <1>4 DEF Pipe!InsertFails, CallOK
  <2>3. QED
    BY <1>4, <2>1, <2>2, CallMoves DEF Pipe!InsertFails, Pipe!Answered
<1>5. QED
  BY <1>2, <1>3, <1>4, Publishes DEF Pipe!CallStep

\* The poller is outside Accept after its call returned, and after a restart.
LEMMA Leaves ==
  ASSUME PipeOK, Pipe!Return(Poller) \/ Pipe!Restart
  PROVE  PipeOK' /\ stored' = stored
<1>1. Pipe!FreeCall \in Pipe!Call /\ CallOK(Pipe!FreeCall, stored)
  BY DEF Pipe!FreeCall, Pipe!Call, Pipe!Answers, CallOK
<1>2. stored \subseteq Events
  BY DEF PipeOK, Pipe!TypeOK
<1>3. CASE Pipe!Return(Poller)
  BY <1>1, <1>2, <1>3, CallMoves DEF Pipe!Return
<1>4. CASE Pipe!Restart
  <2>1. call' \in [Calls -> Pipe!Call] /\ call'[Poller] = Pipe!FreeCall
    BY <1>1, <1>4, PollingAssumption DEF Pipe!Restart
  <2>2. ASSUME NEW s \in Streams
        PROVE  feed'[s] \in Pipe!Channel /\ Len(feed'[s].buffer) <= Buffer
    <3>1. CASE feed'[s] = feed[s]
      BY <3>1 DEF PipeOK, Pipe!TypeOK
    <3>2. CASE feed'[s] = [status |-> "closed", buffer |-> <<>>]
      BY <3>2, PollingAssumption DEF Pipe!Channel
    <3>3. QED
      BY <1>4, <3>1, <3>2 DEF Pipe!Restart
  <2>3. feed' \in [Streams -> Pipe!Channel] /\ UNCHANGED <<stored, seen, published>>
    BY <1>4, <2>2 DEF Pipe!Restart
  <2>4. QED
    BY <1>1, <2>1, <2>2, <2>3 DEF PipeOK, Pipe!TypeOK
<1>5. QED
  BY <1>3, <1>4
-----------------------------------------------------------------------------
(***************************************************************************)
(* The steps.                                                              *)
(***************************************************************************)

\* Within a cycle the poller drops nothing from its hands.
LEMMA HandsMove ==
  ASSUME IInv, poll.pc \in InCycle, poll' \in Cycle, poll'.pc \in InCycle,
         poll'.since = poll.since, poll'.start = poll.start,
         PipeOK', stored \subseteq stored', failed \subseteq failed', failed' \subseteq Events,
         IF poll'.pc = "process" THEN poll'.item = NoEvent ELSE poll'.item \in Events,
         poll'.pc = "accept" => call'[Poller].event = poll'.item,
         \A e \in Due : e \in InHand => e \in InHand',
         UNCHANGED <<now, confirmed, started, crashes>>
  PROVE  IInv'
<1>1. TypeOK'
  BY DEF IInv, TypeOK, PipeOK
<1>2. ClockIsTrue'
  BY DEF IInv, ClockIsTrue
<1>3. HandsAreTrue'
  BY DEF HandsAreTrue, InCycle
<1>4. CallIsTrue'
  BY DEF CallIsTrue, PipeOK
<1>5. Due' = Due
  BY DEF Due, Listed
<1>6. CycleIsComplete'
  BY <1>5 DEF IInv, CycleIsComplete
<1>7. (\A e \in Due : Reached(e))'
  BY <1>5 DEF IInv, Reached, InCycle
<1>8. QED
  BY <1>1, <1>2, <1>3, <1>4, <1>6, <1>7 DEF IInv

\* The events of a batch, one by one.
LEMMA BatchMoves ==
  ASSUME IInv,
         \/ \E e \in Events : NextEvent(e)
         \/ ResolveDevice \/ ResolveFails \/ AcceptStep \/ AcceptReturns
  PROVE  IInv'
<1>1. /\ poll \in Cycle /\ PipeOK /\ failed \subseteq Events /\ poll.batch \subseteq Events
      /\ poll.pc \in {"resolve", "accept"} => poll.item \in Events
      /\ poll.pc \notin {"resolve", "accept"} => poll.item = NoEvent
      /\ Due \subseteq Events
  BY Ranges DEF IInv, HandsAreTrue
<1>2. ASSUME NEW e \in Events, NextEvent(e)
      PROVE  IInv'
  <2> DEFINE p == [poll EXCEPT !.pc = "resolve", !.item = e, !.batch = poll.batch \ {e}]
  <2>1. /\ poll' = p /\ poll.pc = "process" /\ e \in poll.batch
        /\ UNCHANGED <<pipelineVars, now, confirmed, started, failed, crashes>>
    BY <1>2 DEF NextEvent
  <2>2. /\ p \in Cycle /\ p.pc = "resolve" /\ p.item = e /\ p.batch = poll.batch \ {e}
        /\ p.since = poll.since /\ p.start = poll.start
    BY <1>1 DEF Cycle
  <2>3. PipeOK' /\ stored' = stored
    BY <1>1, <2>1 DEF PipeOK, pipelineVars, Pipe!TypeOK
  <2>4. \A f \in Due : f \in InHand => f \in InHand'
    BY <1>1, <2>1, <2>2, <2>3, PollingAssumption DEF InHand
  <2> HIDE DEF p
  <2>5. QED
    BY <1>1, <2>1, <2>2, <2>3, <2>4, HandsMove DEF InCycle
<1>3. CASE ResolveDevice
  <2> DEFINE p == [poll EXCEPT !.pc = "accept"]
  <2>1. /\ poll' = p /\ poll.pc = "resolve" /\ Pipe!Accept(Poller, poll.item)
        /\ UNCHANGED <<now, confirmed, started, failed, crashes>>
    BY <1>3 DEF ResolveDevice
  <2>2. /\ p \in Cycle /\ p.pc = "accept" /\ p.item = poll.item /\ p.batch = poll.batch
        /\ p.since = poll.since /\ p.start = poll.start
    BY <1>1 DEF Cycle
  <2>3. PipeOK' /\ stored' = stored /\ call'[Poller].event = poll.item
    BY <1>1, <2>1, Accepts
  <2>4. InHand' = InHand
    BY <2>1, <2>2, <2>3 DEF InHand
  <2> HIDE DEF p
  <2>5. QED
    BY <1>1, <2>1, <2>2, <2>3, <2>4, HandsMove DEF InCycle
<1>4. CASE ResolveFails
  <2> DEFINE p == [poll EXCEPT !.pc = "process", !.item = NoEvent]
  <2>1. /\ poll' = p /\ poll.pc = "resolve" /\ failed' = failed \cup {poll.item}
        /\ UNCHANGED <<pipelineVars, now, confirmed, started, crashes>>
    BY <1>4 DEF ResolveFails
  <2>2. /\ p \in Cycle /\ p.pc = "process" /\ p.item = NoEvent /\ p.batch = poll.batch
        /\ p.since = poll.since /\ p.start = poll.start
    BY <1>1 DEF Cycle
  <2>3. PipeOK' /\ stored' = stored
    BY <1>1, <2>1 DEF PipeOK, pipelineVars, Pipe!TypeOK
  <2>4. \A f \in Due : f \in InHand => f \in InHand'
    BY <1>1, <2>1, <2>2, <2>3 DEF InHand
  <2> HIDE DEF p
  <2>5. QED
    BY <1>1, <2>1, <2>2, <2>3, <2>4, HandsMove DEF InCycle
<1>5. CASE AcceptStep
  <2>1. /\ Pipe!CallStep(Poller) /\ UNCHANGED <<now, confirmed, poll, started, failed, crashes>>
    BY <1>5 DEF AcceptStep
  <2>2. /\ PipeOK' /\ stored \subseteq stored'
        /\ call'[Poller].event = call[Poller].event
    BY <1>1, <2>1, Proceeds
  <2>3. \A e \in Due : e \in InHand => e \in InHand'
    BY <2>1, <2>2 DEF InHand
  <2>4. Due' = Due
    BY <2>1 DEF Due, Listed
  <2>5. TypeOK'
    BY <2>1, <2>2 DEF IInv, TypeOK, PipeOK
  <2>6. CallIsTrue'
    BY <2>1, <2>2 DEF IInv, CallIsTrue, PipeOK
  <2>7. QED
    BY <2>1, <2>3, <2>4, <2>5, <2>6
       DEF IInv, ClockIsTrue, HandsAreTrue, CycleIsComplete, Reached
<1>6. CASE AcceptReturns
  <2> DEFINE p == [poll EXCEPT !.pc = "process", !.item = NoEvent]
  <2>1. /\ poll' = p /\ poll.pc = "accept" /\ Pipe!Return(Poller)
        /\ failed' = IF call[Poller].answer = "error" THEN failed \cup {poll.item}
                                                       ELSE failed
        /\ UNCHANGED <<now, confirmed, started, crashes>>
    BY <1>6 DEF AcceptReturns
  <2>2. /\ p \in Cycle /\ p.pc = "process" /\ p.item = NoEvent /\ p.batch = poll.batch
        /\ p.since = poll.since /\ p.start = poll.start
    BY <1>1 DEF Cycle
  <2>3. PipeOK' /\ stored' = stored
    BY <1>1, <2>1, Leaves
  <2>4. poll.item \in stored \cup Malformed \/ call[Poller].answer = "error"
    <3>1. /\ call[Poller].pc = "answered" /\ call[Poller] \in Pipe!Call
          /\ CallOK(call[Poller], stored) /\ call[Poller].event = poll.item
      BY <2>1, Ranges, PollingAssumption DEF Pipe!Return, IInv, CallIsTrue
    <3>2. QED
      BY <3>1 DEF CallOK, Pipe!Call, Pipe!Answers
  <2>5. \A f \in Due : f \in InHand => f \in InHand'
    BY <1>1, <2>1, <2>2, <2>3, <2>4 DEF InHand, Due, WellFormed
  <2> HIDE DEF p
  <2>6. failed \subseteq failed' /\ failed' \subseteq Events
    BY <1>1, <2>1
  <2>7. QED
    BY <1>1, <2>1, <2>2, <2>3, <2>5, <2>6, HandsMove DEF InCycle
<1>7. QED
  BY <1>2, <1>3, <1>4, <1>5, <1>6
\* An alert that is listed now was confirmed after every watermark there is.
LEMMA ListMoves ==
  ASSUME IInv, NEW e \in Events, List(e)
  PROVE  IInv'
<1>1. PICK t \in (now - Lag)..now : confirmed' = [confirmed EXCEPT ![e] = t]
  BY DEF List
<1>2. /\ now \in Nat /\ Lag \in Nat /\ Overlap \in Nat /\ Lag < Overlap /\ Interval \in Nat
      /\ Overlap < now
  BY Ranges, PollingAssumption DEF IInv, ClockIsTrue, Epoch
<1>3. t \in Nat /\ t > now - Overlap
  BY <1>2
<1>4. TypeOK' /\ poll' = poll /\ InHand' = InHand /\ started' = started
  BY <1>1, <1>3 DEF IInv, TypeOK, Pipe!TypeOK, List, pipelineVars, InHand
<1>5. confirmed'[e] = t /\ \A f \in Events : f # e => confirmed'[f] = confirmed[f]
  BY <1>1 DEF IInv, TypeOK
<1>6. t > poll.since - Overlap /\ t > poll.start - Overlap
  BY <1>2, <1>3, Ranges DEF IInv, ClockIsTrue
<1>7. \A f \in Due' : f # e => f \in Due
  BY <1>5 DEF Due, Listed
<1>8. ClockIsTrue' /\ HandsAreTrue' /\ CallIsTrue'
  BY <1>4 DEF IInv, ClockIsTrue, HandsAreTrue, CallIsTrue, List, pipelineVars
<1>9. Due' \subseteq Events
  BY DEF Due, Listed
<1>10. CycleIsComplete'
  <2>1. ASSUME poll.pc \in InCycle, NEW f \in Due', confirmed'[f] > poll.since - Overlap,
               confirmed'[f] <= poll.start - Overlap
        PROVE  f \in InHand
    <3>1. f # e
      BY <1>2, <1>3, <1>5, <1>6, <2>1, Ranges
    <3>2. QED
      BY <1>5, <1>7, <1>9, <2>1, <3>1 DEF IInv, CycleIsComplete
  <2>2. QED
    BY <1>4, <2>1 DEF CycleIsComplete
<1>11. (\A f \in Due : Reached(f))'
  <2>1. ASSUME NEW f \in Due'
        PROVE  Reached(f)'
    <3>1. CASE f = e
      BY <1>4, <1>5, <1>6, <3>1 DEF Reached
    <3>2. CASE f # e
      BY <1>4, <1>5, <1>7, <1>9, <3>2 DEF IInv, Reached
    <3>3. QED
      BY <3>1, <3>2
  <2>2. QED
    BY <2>1
<1>12. QED
  BY <1>4, <1>8, <1>10, <1>11 DEF IInv

\* Time passes; a cycle starts, or its fetch fails.
LEMMA QuietMoves ==
  ASSUME IInv, Tick \/ StartCycle \/ FetchFails
  PROVE  IInv'
<1>1. PipeOK' /\ UNCHANGED <<pipelineVars, confirmed, started, failed, crashes>>
  BY Ranges DEF Tick, StartCycle, FetchFails, pipelineVars, PipeOK, Pipe!TypeOK
<1>2. Due' = Due
  BY <1>1 DEF Due, Listed
<1>3. CASE Tick
  <2>1. now' \in Nat /\ now <= now' /\ poll' = poll
    BY <1>3, Ranges DEF Tick
  <2>2. TypeOK' /\ ClockIsTrue'
    BY <1>1, <2>1, Ranges DEF IInv, TypeOK, PipeOK, ClockIsTrue, Epoch
  <2>3. QED
    BY <1>1, <1>2, <2>1, <2>2
       DEF IInv, HandsAreTrue, CallIsTrue, CycleIsComplete, Reached, InHand, pipelineVars
<1>4. CASE StartCycle
  <2> DEFINE p == [poll EXCEPT !.pc = "fetch", !.start = now]
  <2>1. poll' = p /\ now' = now /\ poll.pc = "wait"
    BY <1>4 DEF StartCycle
  <2>2. /\ p \in Cycle /\ p.pc = "fetch" /\ p.start = now /\ p.since = poll.since
        /\ p.batch = poll.batch /\ p.item = poll.item
    BY Ranges DEF Cycle
  <2> HIDE DEF p
  <2>3. TypeOK' /\ ClockIsTrue'
    BY <1>1, <2>1, <2>2, Ranges DEF IInv, TypeOK, PipeOK, ClockIsTrue
  <2>4. HandsAreTrue' /\ CallIsTrue' /\ CycleIsComplete'
    BY <1>1, <2>1, <2>2
       DEF IInv, HandsAreTrue, CallIsTrue, CycleIsComplete, InCycle, pipelineVars
  <2>5. QED
    BY <1>1, <1>2, <2>1, <2>2, <2>3, <2>4 DEF IInv, Reached, InHand, pipelineVars
<1>5. CASE FetchFails
  <2> DEFINE p == [poll EXCEPT !.pc = "wait"]
  <2>1. poll' = p /\ now' = now /\ poll.pc = "fetch"
    BY <1>5 DEF FetchFails
  <2>2. /\ p \in Cycle /\ p.pc = "wait" /\ p.start = poll.start /\ p.since = poll.since
        /\ p.batch = poll.batch /\ p.item = poll.item
    BY Ranges DEF Cycle
  <2> HIDE DEF p
  <2>3. TypeOK' /\ ClockIsTrue'
    BY <1>1, <2>1, <2>2, Ranges DEF IInv, TypeOK, PipeOK, ClockIsTrue
  <2>4. HandsAreTrue' /\ CallIsTrue' /\ CycleIsComplete'
    BY <1>1, <2>1, <2>2
       DEF IInv, HandsAreTrue, CallIsTrue, CycleIsComplete, InCycle, pipelineVars
  <2>5. QED
    BY <1>1, <1>2, <2>1, <2>2, <2>3, <2>4 DEF IInv, Reached, InHand, pipelineVars
<1>6. QED
  BY <1>3, <1>4, <1>5

\* A fetch takes over what is listed after the watermark and its overlap.
LEMMA FetchMoves ==
  ASSUME IInv, FetchEvents
  PROVE  IInv'
<1> DEFINE p == [poll EXCEPT !.pc = "process", !.batch = Window]
<1>1. /\ poll' = p /\ poll.pc = "fetch"
      /\ UNCHANGED <<pipelineVars, now, confirmed, started, failed, crashes>>
  BY DEF FetchEvents
<1>2. /\ p \in Cycle /\ p.pc = "process" /\ p.start = poll.start /\ p.since = poll.since
      /\ p.batch = Window /\ p.item = poll.item
  BY Ranges DEF Cycle, Window, ListedAfter
<1> HIDE DEF p
<1>3. poll.batch = {} /\ poll.item = NoEvent /\ Due' = Due /\ PipeOK'
  BY <1>1, Ranges DEF IInv, HandsAreTrue, InCycle, Due, Listed, pipelineVars, PipeOK,
                      Pipe!TypeOK
<1>4. TypeOK' /\ ClockIsTrue'
  BY <1>1, <1>2, <1>3 DEF IInv, TypeOK, PipeOK, ClockIsTrue
<1>5. HandsAreTrue' /\ CallIsTrue'
  BY <1>1, <1>2, <1>3 DEF IInv, HandsAreTrue, CallIsTrue, InCycle, pipelineVars
<1>6. InHand \subseteq InHand'
  BY <1>1, <1>2, <1>3 DEF InHand, pipelineVars
<1>7. \A e \in Due : confirmed[e] > poll.since - Overlap => e \in Window
  BY DEF Due, Listed, Window, ListedAfter
<1>8. Window \subseteq InHand'
  BY <1>1, <1>2 DEF InHand
<1>9. CycleIsComplete'
  BY <1>1, <1>2, <1>3, <1>7, <1>8 DEF CycleIsComplete
<1>10. (\A e \in Due : Reached(e))'
  BY <1>1, <1>2, <1>3, <1>6 DEF IInv, Reached
<1>11. QED
  BY <1>4, <1>5, <1>9, <1>10 DEF IInv

\* The watermark moves to the start of a cycle that has nothing left in hand.
LEMMA EndMoves ==
  ASSUME IInv, EndCycle
  PROVE  IInv'
<1> DEFINE p == [poll EXCEPT !.pc = "wait", !.since = poll.start]
<1>1. /\ poll' = p /\ poll.pc = "process" /\ poll.batch = {}
      /\ UNCHANGED <<pipelineVars, now, confirmed, started, failed, crashes>>
  BY DEF EndCycle
<1>2. /\ p \in Cycle /\ p.pc = "wait" /\ p.start = poll.start /\ p.since = poll.start
      /\ p.batch = poll.batch /\ p.item = poll.item
  BY Ranges DEF Cycle
<1> HIDE DEF p
<1>3. poll.item = NoEvent /\ Due' = Due /\ PipeOK'
  BY <1>1, Ranges DEF IInv, HandsAreTrue, Due, Listed, pipelineVars, PipeOK, Pipe!TypeOK
<1>4. TypeOK' /\ ClockIsTrue'
  BY <1>1, <1>2, <1>3 DEF IInv, TypeOK, PipeOK, ClockIsTrue
<1>5. HandsAreTrue' /\ CallIsTrue' /\ CycleIsComplete'
  BY <1>1, <1>2, <1>3
     DEF IInv, HandsAreTrue, CallIsTrue, CycleIsComplete, InCycle, pipelineVars
<1>6. InHand' = InHand
  BY <1>1, <1>2, <1>3 DEF InHand, pipelineVars
<1>7. ASSUME NEW e \in Due
      PROVE  \/ e \in InHand \/ confirmed[e] > poll.start - Overlap
             \/ confirmed[e] <= started - Interval - Overlap
  <2>1. CASE confirmed[e] > poll.since - Overlap
    <3>1. \/ confirmed[e] > poll.start - Overlap \/ confirmed[e] <= poll.start - Overlap
      BY Ranges
    <3>2. QED
      BY <1>1, <2>1, <3>1 DEF IInv, CycleIsComplete, InCycle
  <2>2. CASE ~(confirmed[e] > poll.since - Overlap)
    BY <1>1, <2>2 DEF IInv, Reached
  <2>3. QED
    BY <2>1, <2>2
<1>8. (\A e \in Due : Reached(e))'
  BY <1>1, <1>2, <1>3, <1>6, <1>7 DEF Reached
<1>9. QED
  BY <1>4, <1>5, <1>8 DEF IInv

\* A process that dies leaves its events to the next one, which looks back.
LEMMA LifeMoves ==
  ASSUME IInv, Crash \/ Start
  PROVE  IInv'
<1>1. CASE Crash
  <2> DEFINE p == [poll EXCEPT !.pc = "down", !.batch = {}, !.item = NoEvent]
  <2>1. /\ poll' = p /\ Pipe!Restart /\ crashes' \in 0..MaxCrashes
        /\ UNCHANGED <<now, confirmed, started, failed>>
    BY <1>1, PollingAssumption DEF Crash, IInv, TypeOK
  <2>2. /\ p \in Cycle /\ p.pc = "down" /\ p.start = poll.start /\ p.since = poll.since
        /\ p.batch = {} /\ p.item = NoEvent
    BY Ranges DEF Cycle
  <2> HIDE DEF p
  <2>3. PipeOK'
    BY <2>1, Ranges, Leaves
  <2>4. TypeOK' /\ ClockIsTrue'
    BY <2>1, <2>2, <2>3 DEF IInv, TypeOK, PipeOK, ClockIsTrue
  <2>5. QED
    BY <2>1, <2>2, <2>3, <2>4
       DEF IInv, HandsAreTrue, CallIsTrue, CycleIsComplete, InCycle, PipeOK, Reached
<1>2. CASE Start
  <2>1. /\ poll' = Fresh(now) /\ started' = now
        /\ UNCHANGED <<pipelineVars, now, confirmed, failed, crashes>>
    BY <1>2 DEF Start
  <2>2. /\ now - Interval \in Nat /\ now - Interval <= now /\ Epoch <= now
    BY Ranges DEF IInv, ClockIsTrue, Epoch
  <2>3. /\ Fresh(now) \in Cycle /\ Fresh(now).pc = "wait" /\ Fresh(now).start = now
        /\ Fresh(now).since = now - Interval /\ Fresh(now).batch = {}
        /\ Fresh(now).item = NoEvent
    BY <2>2, Ranges DEF Fresh, Cycle
  <2>4. PipeOK' /\ Due' = Due
    BY <2>1, Ranges DEF pipelineVars, PipeOK, Pipe!TypeOK, Due, Listed
  <2>5. TypeOK' /\ ClockIsTrue'
    BY <2>1, <2>2, <2>3, <2>4, Ranges DEF IInv, TypeOK, PipeOK, ClockIsTrue
  <2>6. HandsAreTrue' /\ CallIsTrue' /\ CycleIsComplete'
    BY <2>1, <2>3, <2>4 DEF HandsAreTrue, CallIsTrue, CycleIsComplete, InCycle, PipeOK
  <2>7. \A e \in Due : \/ confirmed[e] > (now - Interval) - Overlap
                       \/ confirmed[e] <= now - Interval - Overlap
    BY Ranges
  <2>8. (\A e \in Due : Reached(e))'
    BY <2>1, <2>3, <2>4, <2>7 DEF Reached
  <2>9. QED
    BY <2>5, <2>6, <2>8 DEF IInv
<1>3. QED
  BY <1>1, <1>2
-----------------------------------------------------------------------------
(***************************************************************************)
(* Invariance.                                                             *)
(***************************************************************************)

\* Nothing is listed when the poller starts.
LEMMA InitialStates == Init => IInv
<1> SUFFICES ASSUME Init PROVE IInv
  OBVIOUS
<1>1. /\ Epoch \in Nat /\ Epoch - Interval \in Nat /\ Epoch - Interval <= Epoch
      /\ started = Epoch /\ now = Epoch /\ poll = Fresh(Epoch)
  BY PollingAssumption DEF Init, Epoch
<1>2. /\ Fresh(Epoch) \in Cycle /\ Fresh(Epoch).pc = "wait" /\ Fresh(Epoch).start = Epoch
      /\ Fresh(Epoch).since = Epoch - Interval /\ Fresh(Epoch).batch = {}
      /\ Fresh(Epoch).item = NoEvent
  BY <1>1 DEF Fresh, Cycle
<1>3. Pipe!TypeOK /\ CallOK(call[Poller], stored)
  <2>1. Pipe!FreeCall \in Pipe!Call /\ CallOK(Pipe!FreeCall, stored)
    BY DEF Pipe!FreeCall, Pipe!Call, Pipe!Answers, CallOK
  <2>2. [status |-> "new", buffer |-> <<>>] \in Pipe!Channel
    BY DEF Pipe!Channel
  <2>3. QED
    BY <2>1, <2>2, PollingAssumption DEF Init, Pipe!Init, Pipe!TypeOK
<1>4. TypeOK
  BY <1>1, <1>2, <1>3, PollingAssumption DEF Init, TypeOK, Unlisted
<1>5. ClockIsTrue /\ HandsAreTrue /\ CallIsTrue /\ CycleIsComplete
  BY <1>1, <1>2, <1>3 DEF ClockIsTrue, HandsAreTrue, CallIsTrue, CycleIsComplete, InCycle
<1>6. Due = {}
  BY DEF Init, Due, Listed
<1>7. QED
  BY <1>4, <1>5, <1>6 DEF IInv

\* Every step keeps the invariant.
LEMMA Steps == IInv /\ [Next]_vars => IInv'
<1> SUFFICES ASSUME IInv, [Next]_vars
             PROVE  IInv'
  OBVIOUS
<1>1. CASE UNCHANGED vars
  BY <1>1 DEF vars, pipelineVars, IInv, TypeOK, Pipe!TypeOK, ClockIsTrue, HandsAreTrue,
              CallIsTrue, CycleIsComplete, Reached, InHand, Due, Listed
<1>2. CASE Next
  BY <1>2, BatchMoves, ListMoves, QuietMoves, FetchMoves, EndMoves, LifeMoves
     DEF Next, PollerStep
<1>3. QED
  BY <1>1, <1>2

\* The inductive invariant holds throughout.
THEOREM Invariance == Spec => []IInv
BY InitialStates, Steps, PTL DEF Spec

\* The watermark leaves no gap behind it: a listed alert is stored, was refused
\* by Accept with an error, or is still in reach of the next fetch, if only the
\* overlap exceeds the delay of the listing (poller.go: cycle, since.Add).
THEOREM NoGap == Spec => []NoGapBehindWatermark
<1>1. IInv => NoGapBehindWatermark
  BY DEF IInv, Reached, InHand, Due, NoGapBehindWatermark, InReach
<1>2. QED
  BY <1>1, Invariance, PTL
=============================================================================
