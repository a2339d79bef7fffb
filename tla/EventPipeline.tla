---------------------------- MODULE EventPipeline ----------------------------
(***************************************************************************)
(* events.Service: the one pipeline every hazard event goes through,       *)
(* validate -> persist (idempotent) -> publish, and the live feed that     *)
(* StreamEvents hands to gRPC clients. Several goroutines run Accept at    *)
(* once, for the same event when its sender retries; the hazard_events     *)
(* table survives a restart of the connector, everything else does not.    *)
(***************************************************************************)
EXTENDS Naturals, Sequences, SequencesExt

CONSTANTS
  Events,      \* dedup keys of one source
  Malformed,   \* those whose event fails domain.HazardEvent.Validate
  NoEvent,
  Calls,       \* goroutines that may be inside Accept
  Streams,     \* StreamEvents calls; each subscribes once
  Buffer       \* capacity of a subscriber's channel (16)

ASSUME PipelineAssumption ==
  Malformed \subseteq Events /\ NoEvent \notin Events /\ Buffer \in Nat \ {0}

VARIABLES
  stored,      \* the rows of hazard_events, by dedup key
  call,        \* call[h]: the Accept call of goroutine h
  feed,        \* feed[s]: the channel of stream s
  seen,        \* seen[s]: what stream s has sent to its client
  published    \* events that went through publish

pipelineVars == <<stored, call, feed, seen, published>>

Answers == {"", "stored", "duplicate", "rejected", "error"}
Call == [pc: {"free", "insert", "publish", "answered"},
         event: Events \cup {NoEvent}, answer: Answers]
FreeCall == [pc |-> "free", event |-> NoEvent, answer |-> ""]
Channel == [status: {"new", "open", "closed"}, buffer: Seq(Events)]

Init ==
  /\ stored = {} /\ published = {}
  /\ call = [h \in Calls |-> FreeCall]
  /\ feed = [s \in Streams |-> [status |-> "new", buffer |-> <<>>]]
  /\ seen = [s \in Streams |-> <<>>]

Answered(h, answer) ==
  call' = [call EXCEPT ![h] = [@ EXCEPT !.pc = "answered", !.answer = answer]]
-----------------------------------------------------------------------------
(***************************************************************************)
(* Accept.                                                                 *)
(***************************************************************************)

\* A caller enters Accept. A malformed event is ErrRejected at once.
Accept(h, e) ==
  /\ call[h].pc = "free"
  /\ call' = [call EXCEPT ![h] =
       IF e \in Malformed
       THEN [pc |-> "answered", event |-> e, answer |-> "rejected"]
       ELSE [pc |-> "insert", event |-> e, answer |-> ""]]
  /\ UNCHANGED <<stored, feed, seen, published>>

\* Mutant: the duplicate check and the insert are two statements, and the
\* first one is trusted.
InsertHazardEventUnguarded(h) ==
  /\ call[h].pc = "insert"
  /\ stored' = stored \cup {call[h].event}
  /\ call' = [call EXCEPT ![h] = [@ EXCEPT !.pc = "publish"]]
  /\ UNCHANGED <<feed, seen, published>>

\* INSERT ... ON CONFLICT (source, dedup_key) DO NOTHING: the first insert
\* wins, any other is a duplicate and publishes nothing.
InsertHazardEvent(h) ==
  /\ call[h].pc = "insert"
  /\ IF call[h].event \in stored
     THEN Answered(h, "duplicate") /\ UNCHANGED stored
     ELSE /\ stored' = stored \cup {call[h].event}
          /\ call' = [call EXCEPT ![h] = [@ EXCEPT !.pc = "publish"]]
  /\ UNCHANGED <<feed, seen, published>>

\* Mutant: any failed statement is taken for a unique violation.
InsertFailsAsDuplicate(h, committed) ==
  /\ call[h].pc = "insert"
  /\ stored' = IF committed THEN stored \cup {call[h].event} ELSE stored
  /\ Answered(h, "duplicate")
  /\ UNCHANGED <<feed, seen, published>>

\* The statement returns an error: it never ran, or the connection (or the
\* request's context) ended before its outcome came back.
InsertFails(h, committed) ==
  /\ call[h].pc = "insert"
  /\ stored' = IF committed THEN stored \cup {call[h].event} ELSE stored
  /\ Answered(h, "error")
  /\ UNCHANGED <<feed, seen, published>>

\* Mutant: a plain send on the subscriber's channel, without the default case.
PublishBlocking(h) ==
  LET e == call[h].event
  IN /\ call[h].pc = "publish"
     /\ \A s \in Streams : feed[s].status = "open" => Len(feed[s].buffer) < Buffer
     /\ feed' = [s \in Streams |->
          IF feed[s].status = "open"
          THEN [feed[s] EXCEPT !.buffer = Append(@, e)] ELSE feed[s]]
     /\ published' = published \cup {e}
     /\ Answered(h, "stored")
     /\ UNCHANGED <<stored, seen>>

\* Mutant: the fan-out appends to a slice nobody bounds.
PublishUnbounded(h) ==
  LET e == call[h].event
  IN /\ call[h].pc = "publish"
     /\ feed' = [s \in Streams |->
          IF feed[s].status = "open"
          THEN [feed[s] EXCEPT !.buffer = Append(@, e)] ELSE feed[s]]
     /\ published' = published \cup {e}
     /\ Answered(h, "stored")
     /\ UNCHANGED <<stored, seen>>

\* publish, under the mutex: every open channel with room gets the event, a
\* full one is skipped.
Publish(h) ==
  LET e == call[h].event
  IN /\ call[h].pc = "publish"
     /\ feed' = [s \in Streams |->
          IF feed[s].status = "open" /\ Len(feed[s].buffer) < Buffer
          THEN [feed[s] EXCEPT !.buffer = Append(@, e)] ELSE feed[s]]
     /\ published' = published \cup {e}
     /\ Answered(h, "stored")
     /\ UNCHANGED <<stored, seen>>

\* The caller takes Accept's result and leaves.
Return(h) ==
  /\ call[h].pc = "answered"
  /\ call' = [call EXCEPT ![h] = FreeCall]
  /\ UNCHANGED <<stored, feed, seen, published>>
-----------------------------------------------------------------------------
(***************************************************************************)
(* StreamEvents and the connector's life.                                  *)
(***************************************************************************)
Subscribe(s) ==
  /\ feed[s].status = "new"
  /\ feed' = [feed EXCEPT ![s] = [@ EXCEPT !.status = "open"]]
  /\ UNCHANGED <<stored, call, seen, published>>

\* stream.Send of the oldest buffered event.
Send(s) ==
  /\ feed[s].status = "open" /\ feed[s].buffer # <<>>
  /\ seen' = [seen EXCEPT ![s] = Append(@, Head(feed[s].buffer))]
  /\ feed' = [feed EXCEPT ![s].buffer = Tail(@)]
  /\ UNCHANGED <<stored, call, published>>

\* The client goes away, or Send fails: the channel is released.
Cancel(s) ==
  /\ feed[s].status = "open"
  /\ feed' = [feed EXCEPT ![s] = [status |-> "closed", buffer |-> <<>>]]
  /\ UNCHANGED <<stored, call, seen, published>>

\* The connector dies and starts again: calls and streams are gone.
Restart ==
  /\ call' = [h \in Calls |-> FreeCall]
  /\ feed' = [s \in Streams |-> IF feed[s].status = "open"
                THEN [status |-> "closed", buffer |-> <<>>] ELSE feed[s]]
  /\ UNCHANGED <<stored, seen, published>>

\* What a call does on its own once its caller has entered Accept.
CallStep(h) ==
  \/ InsertHazardEvent(h) \/ Publish(h)
  \/ \E committed \in BOOLEAN : InsertFails(h, committed)

StreamStep(s) == Subscribe(s) \/ Send(s) \/ Cancel(s)

Next ==
  \/ \E h \in Calls : \/ \E e \in Events : Accept(h, e)
                      \/ CallStep(h) \/ Return(h)
  \/ \E s \in Streams : StreamStep(s)
  \/ Restart

\* Statements return and the mutex is free in the end (publish holds it for a
\* bounded, non-blocking loop). No stream is obliged to drain its channel.
Fairness == \A h \in Calls : WF_pipelineVars(CallStep(h))

Spec == Init /\ [][Next]_pipelineVars /\ Fairness
-----------------------------------------------------------------------------
(***************************************************************************)
(* Properties.                                                             *)
(***************************************************************************)

TypeOK ==
  /\ stored \subseteq Events /\ published \subseteq Events
  /\ call \in [Calls -> Call]
  /\ feed \in [Streams -> Channel]
  /\ \A s \in Streams : Len(feed[s].buffer) <= Buffer
  /\ seen \in [Streams -> Seq(Events)]

\* What a stream has sent or still holds for its client.
Streamed(s) == seen[s] \o feed[s].buffer

\* No stream carries an event twice, or one that a later query of hazard_events
\* would miss, over senders that retry, overlapping calls for one event, failed
\* statements and restarts.
StreamIsSound ==
  \A s \in Streams :
    IsInjective(Streamed(s)) /\ ToSet(Streamed(s)) \subseteq stored

\* A sender is told "accepted" (as new or as a duplicate) only of an event
\* that is in the table, and "rejected" only of one that never will be: it is
\* safe for it to stop sending. "New" also says that the live feed had the
\* event; "duplicate" does not: the first copy may still be on its way there,
\* or have been cut off after its insert.
AnswerIsFinal ==
  \A h \in Calls :
    /\ call[h].answer = "stored" => call[h].event \in published
    /\ call[h].answer \in {"stored", "duplicate"} => call[h].event \in stored
    /\ call[h].answer = "rejected" => call[h].event \notin stored

\* A subscriber that stops draining never stalls ingestion: every call is
\* answered, even if no stream ever reads.
EveryCallIsAnswered ==
  \A h \in Calls :
    call[h].pc \in {"insert", "publish"} ~> call[h].pc \in {"answered", "free"}
=============================================================================
