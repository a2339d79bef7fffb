---------------------------- MODULE WebhookIntake ----------------------------
(***************************************************************************)
(* webhook.Handler.BetaGrid: deliveries of the push provider, which sends  *)
(* a delivery again until it gets a success (and sometimes once more), go  *)
(* through authenticate -> parse -> window -> dedup -> process, for one    *)
(* delivery possibly in several handlers at once. The dedup gate           *)
(* (webhook_deliveries), the event and device tables and the dead letters  *)
(* survive a restart of the connector.                                     *)
(***************************************************************************)
EXTENDS Naturals, Sequences, FiniteSets

CONSTANTS
  Events, Malformed, NoEvent, Calls, Streams, Buffer,   \* of EventPipeline
  Heartbeats,   \* deliveries of kind heartbeat; the Events are of kind hazard
  Garbage,      \* signed deliveries betagrid.Parse refuses
  NoDelivery

Deliveries == Events \cup Heartbeats \cup Garbage

ASSUME WebhookAssumption ==
  /\ Malformed \subseteq Events /\ NoEvent \notin Events /\ Buffer \in Nat \ {0}
  /\ Events \cap Heartbeats = {}
  /\ Garbage \cap (Events \cup Heartbeats) = {}
  /\ NoDelivery \notin Deliveries

VARIABLES
  stored, call, feed, seen, published,   \* of EventPipeline
  hook,        \* hook[h]: the webhook request in handler h
  gate,        \* rows of webhook_deliveries, by delivery id
  dead,        \* deliveries with a dead-letter row
  touched,     \* heartbeats whose device row is up to date
  sender,      \* sender[d]: "unsent", "open" until a success arrives, "closed"
  admitted,    \* admitted[d]: how many handlers passed the gate with d
  interrupted  \* deliveries whose processing failed, or died with a restart

pipelineVars == <<stored, call, feed, seen, published>>
tables == <<gate, dead, touched>>
vars   == <<pipelineVars, hook, tables, sender, admitted, interrupted>>

Pipe == INSTANCE EventPipeline

Hook == [pc: {"free", "received", "gate", "resolve", "accept", "touch", "answered"},
         msg: Deliveries \cup {NoDelivery}, code: {"", "2xx", "4xx", "5xx"}]
FreeHook == [pc |-> "free", msg |-> NoDelivery, code |-> ""]

Init ==
  /\ Pipe!Init
  /\ hook = [h \in Calls |-> FreeHook]
  /\ gate = {} /\ dead = {} /\ touched = {} /\ interrupted = {}
  /\ sender = [d \in Deliveries |-> "unsent"]
  /\ admitted = [d \in Deliveries |-> 0]

Goto(h, pc) == hook' = [hook EXCEPT ![h] = [@ EXCEPT !.pc = pc]]
Respond(h, code) ==
  hook' = [hook EXCEPT ![h] = [@ EXCEPT !.pc = "answered", !.code = code]]
-----------------------------------------------------------------------------
(***************************************************************************)
(* The provider.                                                           *)
(***************************************************************************)

\* A first delivery, a retry, or a duplicate of one already answered. (A
\* request that is lost on its way is a Deliver that does not happen.)
Deliver(h, d) ==
  /\ hook[h].pc = "free"
  /\ hook' = [hook EXCEPT ![h] = [pc |-> "received", msg |-> d, code |-> ""]]
  /\ sender' = [sender EXCEPT ![d] = IF @ = "unsent" THEN "open" ELSE @]
  /\ UNCHANGED <<pipelineVars, tables, admitted, interrupted>>

\* The response arrives, or is lost; only a success ends the retries.
Answer(h, lost) ==
  LET d == hook[h].msg
  IN /\ hook[h].pc = "answered"
     /\ sender' = IF hook[h].code = "2xx" /\ ~lost
                  THEN [sender EXCEPT ![d] = "closed"] ELSE sender
     /\ hook' = [hook EXCEPT ![h] = FreeHook]
     /\ UNCHANGED <<pipelineVars, tables, admitted, interrupted>>
-----------------------------------------------------------------------------
(***************************************************************************)
(* The handler, up to the gate.                                            *)
(***************************************************************************)

\* No secret is configured (503), or the body is unreadable, too large, or one
\* the signature does not match (4xx).
Refuse(h) ==
  /\ hook[h].pc = "received"
  /\ \E code \in {"4xx", "5xx"} : Respond(h, code)
  /\ UNCHANGED <<pipelineVars, tables, sender, admitted, interrupted>>

\* betagrid.Parse knows the kind, the vocabulary, and finds every identifier
\* and time stamp.
Parses(d) == d \notin Garbage

\* DeadLetter: a row for what can never be processed; if it cannot be written,
\* the error is only logged.
DeadLetter(d, written) == dead' = IF written THEN dead \cup {d} ELSE dead

\* Parse fails: a dead letter and 400.
DeadLetterGarbage(h, written) ==
  /\ hook[h].pc = "received" /\ ~Parses(hook[h].msg)
  /\ DeadLetter(hook[h].msg, written)
  /\ Respond(h, "4xx")
  /\ UNCHANGED <<pipelineVars, gate, touched, sender, admitted, interrupted>>

\* The timestamp window: a delivery may be out of it and, by a clock that runs
\* ahead, in it later.
CheckWindow(h, outside) ==
  /\ hook[h].pc = "received" /\ Parses(hook[h].msg)
  /\ IF outside THEN Respond(h, "4xx") ELSE Goto(h, "gate")
  /\ UNCHANGED <<pipelineVars, tables, sender, admitted, interrupted>>

\* Mutant: every delivery is processed as a heartbeat.
EnterAnyKind(h) == Goto(h, "touch")

\* Where step 6 starts.
Enter(h) == Goto(h, IF hook[h].msg \in Events THEN "resolve" ELSE "touch")

\* Mutant: the gate is a SELECT, and the row is written after processing.
PassGateUnrecorded(h) ==
  LET d == hook[h].msg
  IN /\ hook[h].pc = "gate"
     /\ IF d \in gate
        THEN Respond(h, "2xx") /\ UNCHANGED admitted
        ELSE Enter(h) /\ admitted' = [admitted EXCEPT ![d] = @ + 1]
     /\ gate' = {x \in Deliveries : x \in gate \/ x \in stored \cup touched}
     /\ UNCHANGED <<pipelineVars, dead, touched, sender, interrupted>>

\* RecordWebhookDelivery: the first insert wins and goes on, a repeat is
\* answered 200 at once.
PassGate(h) ==
  LET d == hook[h].msg
  IN /\ hook[h].pc = "gate"
     /\ IF d \in gate
        THEN Respond(h, "2xx") /\ UNCHANGED <<gate, admitted>>
        ELSE /\ gate' = gate \cup {d}
             /\ admitted' = [admitted EXCEPT ![d] = @ + 1]
             /\ Enter(h)
     /\ UNCHANGED <<pipelineVars, dead, touched, sender, interrupted>>

\* Mutant: any failed insert is taken for a duplicate.
GateFailsAsDuplicate(h, committed) ==
  /\ hook[h].pc = "gate"
  /\ gate' = IF committed THEN gate \cup {hook[h].msg} ELSE gate
  /\ interrupted' = IF committed /\ hook[h].msg \notin gate
                    THEN interrupted \cup {hook[h].msg} ELSE interrupted
  /\ Respond(h, "2xx")
  /\ UNCHANGED <<pipelineVars, dead, touched, sender, admitted>>

\* The statement fails, and may have committed: then nobody will process the
\* delivery any more.
GateFails(h, committed) ==
  /\ hook[h].pc = "gate"
  /\ gate' = IF committed THEN gate \cup {hook[h].msg} ELSE gate
  /\ interrupted' = IF committed /\ hook[h].msg \notin gate
                    THEN interrupted \cup {hook[h].msg} ELSE interrupted
  /\ Respond(h, "5xx")
  /\ UNCHANGED <<pipelineVars, dead, touched, sender, admitted>>
-----------------------------------------------------------------------------
(***************************************************************************)
(* The handler behind the gate.                                            *)
(***************************************************************************)

\* AcceptFromProvider resolves the device, then enters the pipeline.
ResolveDevice(h) ==
  /\ hook[h].pc = "resolve"
  /\ Pipe!Accept(h, hook[h].msg)
  /\ Goto(h, "accept")
  /\ UNCHANGED <<tables, sender, admitted, interrupted>>

\* UpsertDevice or TouchDevice fails: 500.
ProcessingFails(h) ==
  /\ hook[h].pc \in {"resolve", "touch"}
  /\ Respond(h, "5xx")
  /\ interrupted' = interrupted \cup {hook[h].msg}
  /\ UNCHANGED <<pipelineVars, tables, sender, admitted>>

\* Accept returns: a rejected event is a dead letter and 400, an error 500.
AcceptReturns(h, written) ==
  LET d == hook[h].msg
  IN /\ hook[h].pc = "accept"
     /\ Pipe!Return(h)
     /\ CASE call[h].answer = "rejected" -> Respond(h, "4xx")
          [] call[h].answer = "error"    -> Respond(h, "5xx")
          [] OTHER                       -> Respond(h, "2xx")
     /\ DeadLetter(d, written /\ call[h].answer = "rejected")
     /\ interrupted' = IF call[h].answer = "error"
                       THEN interrupted \cup {d} ELSE interrupted
     /\ UNCHANGED <<gate, touched, sender, admitted>>

\* A heartbeat: UpsertDevice, then TouchDevice.
TouchDevice(h) ==
  /\ hook[h].pc = "touch"
  /\ touched' = touched \cup {hook[h].msg}
  /\ Respond(h, "2xx")
  /\ UNCHANGED <<pipelineVars, gate, dead, sender, admitted, interrupted>>

\* The pipeline's own steps inside Accept. (Streams come and go in EventPipeline;
\* nothing here depends on them.)
PipelineStep ==
  /\ \E h \in Calls : Pipe!CallStep(h)
  /\ UNCHANGED <<hook, tables, sender, admitted, interrupted>>

\* The connector dies with everything it was processing, and starts again.
Restart ==
  /\ Pipe!Restart
  /\ interrupted' = interrupted \cup
       {hook[h].msg : h \in {x \in Calls : hook[x].pc \in {"resolve", "accept", "touch"}}}
  /\ hook' = [h \in Calls |-> FreeHook]
  /\ UNCHANGED <<tables, sender, admitted>>

HandlerStep(h) ==
  \/ Refuse(h) \/ PassGate(h) \/ ResolveDevice(h)
  \/ ProcessingFails(h) \/ TouchDevice(h)
  \/ \E b \in BOOLEAN : \/ DeadLetterGarbage(h, b) \/ CheckWindow(h, b)
                        \/ GateFails(h, b) \/ AcceptReturns(h, b)
                        \/ Answer(h, b)

Next ==
  \/ \E h \in Calls : HandlerStep(h) \/ \E d \in Deliveries : Deliver(h, d)
  \/ PipelineStep \/ Restart

Spec == Init /\ [][Next]_vars
-----------------------------------------------------------------------------
(***************************************************************************)
(* Properties.                                                             *)
(***************************************************************************)

TypeOK ==
  /\ Pipe!TypeOK
  /\ hook \in [Calls -> Hook]
  /\ gate \subseteq Deliveries /\ dead \subseteq Deliveries
  /\ touched \subseteq Heartbeats
  /\ interrupted \subseteq Deliveries
  /\ sender \in [Deliveries -> {"unsent", "open", "closed"}]
  /\ admitted \in [Deliveries -> Nat]

\* A delivery is processed by at most one handler ever, whatever the sender
\* repeats, however the copies overlap and whenever the connector restarts.
ProcessedAtMostOnce == \A d \in Deliveries : admitted[d] <= 1

Processing(d) ==
  \E h \in Calls : hook[h].msg = d /\ hook[h].pc \in {"resolve", "accept", "touch"}

\* What a delivery was sent for: the event in the table, the device's state.
Effect(d) == d \in stored \cup touched

\* A delivery that passed the gate, and so any that its sender has done with
\* (nothing turned away before the gate is answered as a success), takes
\* effect, or is under way, unless its one processing failed or died with a
\* restart, or the event is invalid.
LossNeedsInterruption ==
  \A d \in Deliveries :
    /\ sender[d] = "closed" => d \in gate
    /\ d \in gate => Effect(d) \/ Processing(d) \/ d \in interrupted \cup Malformed
-----------------------------------------------------------------------------
(***************************************************************************)
(* A claim of the documentation that the code does not keep.               *)
(***************************************************************************)

\* "Redelivery and retry are therefore *always* safe" (README.md:90), "dedup
\* makes their redelivery safe" (INTERVIEW_DOCUMENTATION.md:176): what the
\* sender was told is done has taken effect, or is being processed. Refuted: a
\* delivery whose processing failed or died, or whose gate row committed in a
\* statement that failed, stays behind the gate; its retry is answered 200 as a
\* duplicate, the sender stops, and nobody processes it any more.
AcknowledgedIsProcessed ==
  \A d \in (Events \ Malformed) \cup Heartbeats :
    sender[d] = "closed" => Effect(d) \/ Processing(d)
=============================================================================
