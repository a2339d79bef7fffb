------------------------- MODULE WebhookIntakeProofs -------------------------
(***************************************************************************)
(* Proofs about WebhookIntake, for any deliveries, any number of handlers  *)
(* at once, and whatever listens to the pipeline.                          *)
(***************************************************************************)
EXTENDS WebhookIntake, TLAPS

-----------------------------------------------------------------------------
(***************************************************************************)
(* The inductive invariant.                                                *)
(***************************************************************************)

\* The domains the proof needs.
Domains ==
  /\ hook \in [Calls -> Hook] /\ call \in [Calls -> Pipe!Call]
  /\ gate \subseteq Deliveries /\ admitted \in [Deliveries -> Nat]
  /\ sender \in [Deliveries -> {"unsent", "open", "closed"}]

Working == {"resolve", "accept", "touch"}

\* A handler behind the gate, and one that answers with a success, has a
\* delivery that is in the gate; one inside Accept is there for its event.
HookOK(k, c, passed) ==
  /\ k.pc # "free" => k.msg \in Deliveries
  /\ k.pc \in {"resolve", "accept"} => k.msg \in Events
  /\ k.pc \in Working \/ k.code = "2xx" => k.msg \in passed
  /\ k.pc = "accept" => c.event = k.msg

\* What Accept answers is true of the table.
CallOK(c, rows) ==
  /\ c.pc = "publish" \/ c.answer \in {"stored", "duplicate"} => c.event \in rows
  /\ c.answer = "rejected" => c.event \in Malformed
  /\ c.pc = "answered" => c.answer # ""

HooksAreTrue == \A h \in Calls : HookOK(hook[h], call[h], gate)

CallsAreTrue == \A h \in Calls : CallOK(call[h], stored)

\* The primary key of webhook_deliveries: who passes the gate is the first.
OnePasses == \A d \in Deliveries : admitted[d] <= 1 /\ (d \notin gate => admitted[d] = 0)

IInv == Domains /\ HooksAreTrue /\ CallsAreTrue /\ OnePasses /\ LossNeedsInterruption
-----------------------------------------------------------------------------
(***************************************************************************)
(* The steps.                                                              *)
(***************************************************************************)

\* What becomes of a delivery whose one handler goes on from k to n.
Passes(k, n) ==
  k.pc \in Working =>
    \/ n.pc \in Working /\ n.msg = k.msg
    \/ k.msg \in stored' \cup touched' \cup interrupted' \cup Malformed

\* A free handler, outside Accept, owes nothing.
LEMMA FreeIsOK ==
  ASSUME NEW c, NEW passed, NEW rows
  PROVE  /\ FreeHook \in Hook /\ HookOK(FreeHook, c, passed)
         /\ Pipe!FreeCall \in Pipe!Call /\ CallOK(Pipe!FreeCall, rows)
<1>1. /\ FreeHook \in Hook
      /\ FreeHook.pc = "free" /\ FreeHook.code = ""
  BY DEF FreeHook, Hook
<1>2. /\ Pipe!FreeCall \in Pipe!Call
      /\ Pipe!FreeCall.pc = "free" /\ Pipe!FreeCall.answer = ""
  BY DEF Pipe!FreeCall, Pipe!Call, Pipe!Answers
<1>3. QED
  BY <1>1, <1>2 DEF HookOK, CallOK, Working

\* A handler that moves keeps the invariant if its delivery takes effect, is
\* still under way, or counts as interrupted, and if the sender stops for a
\* delivery in the gate only.
LEMMA HookMoves ==
  ASSUME IInv, NEW h \in Calls, NEW n \in Hook, NEW c \in Pipe!Call,
         hook' = [hook EXCEPT ![h] = n], call' = [call EXCEPT ![h] = c],
         HookOK(n, c, gate'), CallOK(c, stored), Passes(hook[h], n),
         UNCHANGED stored, touched \subseteq touched', interrupted \subseteq interrupted',
         gate \subseteq gate', gate' \subseteq Deliveries,
         \A d \in gate' \ gate : d \in interrupted' \/ (n.pc \in Working /\ n.msg = d),
         sender' \in [Deliveries -> {"unsent", "open", "closed"}],
         \A d \in Deliveries : sender'[d] = "closed" => sender[d] = "closed" \/ d \in gate,
         admitted' \in [Deliveries -> Nat], OnePasses'
  PROVE  IInv'
<1>1. /\ hook'[h] = n /\ \A g \in Calls : g # h => hook'[g] = hook[g]
      /\ call'[h] = c /\ \A g \in Calls : g # h => call'[g] = call[g]
  BY DEF IInv, Domains
<1>2. Domains'
  BY DEF IInv, Domains
<1>3. HooksAreTrue'
  <2>1. ASSUME NEW g \in Calls, g # h
        PROVE  HookOK(hook'[g], call'[g], gate')
    <3>1. HookOK(hook[g], call[g], gate)
      BY DEF IInv, HooksAreTrue
    <3>2. QED
      BY <1>1, <2>1, <3>1 DEF HookOK
  <2>2. QED
    BY <1>1, <2>1 DEF HooksAreTrue
<1>4. CallsAreTrue'
  <2>1. \A g \in Calls : CallOK(call'[g], stored)
    BY <1>1 DEF IInv, CallsAreTrue
  <2>2. QED
    BY <2>1 DEF CallsAreTrue, CallOK
<1>5. LossNeedsInterruption'
  <2>1. ASSUME NEW d \in Deliveries, sender'[d] = "closed"
        PROVE  d \in gate'
    BY <2>1 DEF IInv, LossNeedsInterruption
  <2>2. ASSUME NEW d \in Deliveries, d \in gate
        PROVE  Effect(d)' \/ Processing(d)' \/ d \in interrupted' \cup Malformed
    <3>1. CASE Effect(d) \/ d \in interrupted \cup Malformed
      BY <3>1 DEF Effect
    <3>2. CASE Processing(d)
      <4>1. PICK g \in Calls : hook[g].msg = d /\ hook[g].pc \in Working
        BY <3>2 DEF Processing, Working
      <4>2. CASE g # h
        BY <1>1, <4>1, <4>2 DEF Processing, Working
      <4>3. CASE g = h
        BY <1>1, <4>1, <4>3 DEF Passes, Processing, Effect, Working
      <4>4. QED
        BY <4>2, <4>3
    <3>3. QED
      BY <2>2, <3>1, <3>2 DEF IInv, LossNeedsInterruption
  <2>3. ASSUME NEW d \in Deliveries, d \in gate' \ gate
        PROVE  Processing(d)' \/ d \in interrupted'
    BY <1>1, <2>3 DEF Processing, Working
  <2>4. QED
    BY <2>1, <2>2, <2>3 DEF LossNeedsInterruption
<1>6. QED
  BY <1>2, <1>3, <1>4, <1>5 DEF IInv

\* A handler that moves while gate, calls and sender stay.
LEMMA HookMovesAlone ==
  ASSUME IInv, NEW h \in Calls, NEW n \in Hook, hook' = [hook EXCEPT ![h] = n],
         UNCHANGED <<stored, call, gate, sender, admitted>>,
         touched \subseteq touched', interrupted \subseteq interrupted',
         HookOK(n, call[h], gate), Passes(hook[h], n)
  PROVE  IInv'
<1>1. /\ call' = [call EXCEPT ![h] = call[h]] /\ call[h] \in Pipe!Call
      /\ CallOK(call[h], stored)
  BY DEF IInv, Domains, CallsAreTrue
<1>2. /\ gate' \subseteq Deliveries /\ admitted' \in [Deliveries -> Nat]
      /\ sender' \in [Deliveries -> {"unsent", "open", "closed"}]
      /\ \A d \in Deliveries : sender'[d] = "closed" => sender[d] = "closed" \/ d \in gate
  BY DEF IInv, Domains
<1>3. OnePasses'
  BY DEF IInv, OnePasses
<1>4. QED
  BY <1>1, <1>2, <1>3, HookMoves

\* Before the gate, and an answer of any kind but a success.
LEMMA Refusals ==
  ASSUME IInv, NEW h \in Calls,
         \/ Refuse(h) \/ ProcessingFails(h)
         \/ \E b \in BOOLEAN : DeadLetterGarbage(h, b) \/ CheckWindow(h, b)
  PROVE  IInv'
<1>a. hook[h] \in Hook /\ HookOK(hook[h], call[h], gate)
  BY DEF IInv, Domains, HooksAreTrue
<1> DEFINE refused == [hook[h] EXCEPT !.pc = "answered", !.code = "4xx"]
           failed  == [hook[h] EXCEPT !.pc = "answered", !.code = "5xx"]
           passed  == [hook[h] EXCEPT !.pc = "gate"]
<1>1. /\ {refused, failed, passed} \subseteq Hook
      /\ hook[h].pc = "received" => /\ HookOK(refused, call[h], gate)
                                    /\ HookOK(passed, call[h], gate)
                                    /\ Passes(hook[h], refused) /\ Passes(hook[h], passed)
      /\ hook[h].pc # "free" => HookOK(failed, call[h], gate)
  BY <1>a DEF Hook, HookOK, Working, Passes
<1>2. CASE ProcessingFails(h)
  <2>1. hook' = [hook EXCEPT ![h] = failed] /\ Passes(hook[h], failed)
    BY <1>2 DEF ProcessingFails, Respond, Passes
  <2>2. QED
    BY <1>1, <1>2, <2>1, HookMovesAlone DEF ProcessingFails, pipelineVars, tables
<1>3. CASE Refuse(h) \/ \E b \in BOOLEAN : DeadLetterGarbage(h, b) \/ CheckWindow(h, b)
  <2>1. /\ hook[h].pc = "received"
        /\ UNCHANGED <<pipelineVars, gate, touched, sender, admitted, interrupted>>
        /\ \/ hook' = [hook EXCEPT ![h] = refused] \/ hook' = [hook EXCEPT ![h] = failed]
           \/ hook' = [hook EXCEPT ![h] = passed]
    BY <1>3 DEF Refuse, DeadLetterGarbage, CheckWindow, Respond, Goto, tables
  <2>2. CASE hook' = [hook EXCEPT ![h] = refused]
    BY <1>1, <2>1, <2>2, HookMovesAlone DEF pipelineVars
  <2>3. CASE hook' = [hook EXCEPT ![h] = passed]
    BY <1>1, <2>1, <2>3, HookMovesAlone DEF pipelineVars
  <2>4. CASE hook' = [hook EXCEPT ![h] = failed]
    <3>1. HookOK(failed, call[h], gate) /\ Passes(hook[h], failed)
      BY <1>1, <2>1 DEF Passes
    <3>2. QED
      BY <1>1, <2>1, <2>4, <3>1, HookMovesAlone DEF pipelineVars
  <2>5. QED
    BY <2>1, <2>2, <2>3, <2>4
<1>4. QED
  BY <1>2, <1>3

\* A request arrives, or its response leaves.
LEMMA Requests ==
  ASSUME IInv, NEW h \in Calls,
         \/ \E d \in Deliveries : Deliver(h, d)
         \/ \E lost \in BOOLEAN : Answer(h, lost)
  PROVE  IInv'
<1>a. /\ hook[h] \in Hook /\ HookOK(hook[h], call[h], gate)
      /\ CallOK(call[h], stored) /\ call[h] \in Pipe!Call
      /\ call' = call => call' = [call EXCEPT ![h] = call[h]]
      /\ gate \subseteq Deliveries /\ admitted \in [Deliveries -> Nat] /\ OnePasses
      /\ sender \in [Deliveries -> {"unsent", "open", "closed"}]
  BY DEF IInv, Domains, HooksAreTrue, CallsAreTrue
<1>1. ASSUME NEW d \in Deliveries, Deliver(h, d)
      PROVE  IInv'
  <2> DEFINE n == [pc |-> "received", msg |-> d, code |-> ""]
  <2>1. n \in Hook /\ HookOK(n, call[h], gate) /\ Passes(hook[h], n)
    BY <1>1 DEF Deliver, Hook, HookOK, Working, Passes
  <2>2. /\ hook' = [hook EXCEPT ![h] = n]
        /\ UNCHANGED <<pipelineVars, tables, admitted, interrupted>>
        /\ sender' = [sender EXCEPT ![d] = IF @ = "unsent" THEN "open" ELSE @]
    BY <1>1 DEF Deliver
  <2> HIDE DEF n
  <2>3. /\ sender' \in [Deliveries -> {"unsent", "open", "closed"}]
        /\ \A e \in Deliveries : sender'[e] = "closed" => sender[e] = "closed"
    BY <1>a, <2>2
  <2>4. OnePasses'
    BY <1>a, <2>2 DEF OnePasses, tables
  <2>5. QED
    BY <1>a, <2>1, <2>2, <2>3, <2>4, HookMoves DEF pipelineVars, tables
<1>2. ASSUME NEW lost \in BOOLEAN, Answer(h, lost)
      PROVE  IInv'
  <2>1. FreeHook \in Hook /\ HookOK(FreeHook, call[h], gate) /\ Passes(hook[h], FreeHook)
    BY <1>2 DEF Answer, FreeHook, Hook, HookOK, Working, Passes
  <2>2. /\ hook' = [hook EXCEPT ![h] = FreeHook]
        /\ UNCHANGED <<pipelineVars, tables, admitted, interrupted>>
    BY <1>2 DEF Answer
  <2>3. /\ sender' \in [Deliveries -> {"unsent", "open", "closed"}]
        /\ \A e \in Deliveries : sender'[e] = "closed" => sender[e] = "closed" \/ e \in gate
    <3>1. CASE sender' = sender
      BY <1>a, <3>1
    <3>2. CASE /\ sender' = [sender EXCEPT ![hook[h].msg] = "closed"]
               /\ hook[h].code = "2xx"
      BY <1>a, <3>2 DEF HookOK
    <3>3. QED
      BY <1>2, <3>1, <3>2 DEF Answer
  <2>4. OnePasses'
    BY <1>a, <2>2 DEF OnePasses, tables
  <2>5. QED
    BY <1>a, <2>1, <2>2, <2>3, <2>4, HookMoves DEF pipelineVars, tables
<1>3. QED
  BY <1>1, <1>2

\* The insert into webhook_deliveries, in every outcome.
LEMMA GateMoves ==
  ASSUME IInv, NEW h \in Calls,
         PassGate(h) \/ \E committed \in BOOLEAN : GateFails(h, committed)
  PROVE  IInv'
<1> DEFINE d == hook[h].msg
           known   == [hook[h] EXCEPT !.pc = "answered", !.code = "2xx"]
           entered == [hook[h] EXCEPT !.pc = IF d \in Events THEN "resolve" ELSE "touch"]
           failed  == [hook[h] EXCEPT !.pc = "answered", !.code = "5xx"]
<1>a. /\ hook[h] \in Hook /\ HookOK(hook[h], call[h], gate)
      /\ CallOK(call[h], stored) /\ call[h] \in Pipe!Call
      /\ call' = call => call' = [call EXCEPT ![h] = call[h]]
      /\ gate \subseteq Deliveries /\ admitted \in [Deliveries -> Nat] /\ OnePasses
      /\ sender \in [Deliveries -> {"unsent", "open", "closed"}]
      /\ hook[h].pc = "gate" /\ d \in Deliveries
  BY DEF IInv, Domains, HooksAreTrue, CallsAreTrue, HookOK, PassGate, GateFails
<1>1. /\ {known, entered, failed} \subseteq Hook
      /\ \A n \in {known, entered, failed} : Passes(hook[h], n)
      /\ d \in gate => HookOK(known, call[h], gate)
      /\ HookOK(entered, call[h], gate \cup {d})
      /\ HookOK(failed, call[h], gate) /\ HookOK(failed, call[h], gate \cup {d})
      /\ entered.pc \in Working /\ entered.msg = d
  <2>1. known \in Hook /\ known.pc = "answered" /\ known.code = "2xx" /\ known.msg = d
    BY <1>a DEF Hook
  <2>2. failed \in Hook /\ failed.pc = "answered" /\ failed.code = "5xx" /\ failed.msg = d
    BY <1>a DEF Hook
  <2>3. /\ entered \in Hook /\ entered.code = hook[h].code /\ entered.msg = d
        /\ entered.pc = IF d \in Events THEN "resolve" ELSE "touch"
    BY <1>a DEF Hook
  <2> HIDE DEF known, failed, entered
  <2>4. \A n \in {known, entered, failed} : Passes(hook[h], n)
    BY <1>a DEF Passes, Working
  <2>5. /\ d \in gate => HookOK(known, call[h], gate)
        /\ HookOK(failed, call[h], gate) /\ HookOK(failed, call[h], gate \cup {d})
    BY <1>a, <2>1, <2>2 DEF HookOK, Working
  <2>6. HookOK(entered, call[h], gate \cup {d}) /\ entered.pc \in Working
    BY <1>a, <2>3 DEF HookOK, Working
  <2>7. QED
    BY <2>1, <2>2, <2>3, <2>4, <2>5, <2>6
<1>2. CASE PassGate(h) /\ d \in gate
  <2>1. /\ hook' = [hook EXCEPT ![h] = known]
        /\ UNCHANGED <<pipelineVars, tables, sender, admitted, interrupted>>
    BY <1>2 DEF PassGate, Respond, tables
  <2> HIDE DEF known
  <2>2. QED
    BY <1>1, <1>2, <2>1, HookMovesAlone DEF pipelineVars, tables
<1>3. CASE PassGate(h) /\ d \notin gate
  <2>1. /\ hook' = [hook EXCEPT ![h] = entered]
        /\ gate' = gate \cup {d} /\ admitted' = [admitted EXCEPT ![d] = @ + 1]
        /\ UNCHANGED <<pipelineVars, dead, touched, sender, interrupted>>
    BY <1>3 DEF PassGate, Enter, Goto
  <2> HIDE DEF entered
  <2>2. admitted' \in [Deliveries -> Nat] /\ OnePasses'
    BY <1>3, <1>a, <2>1 DEF OnePasses
  <2>3. QED
    BY <1>1, <1>a, <2>1, <2>2, HookMoves DEF pipelineVars
<1>4. ASSUME NEW committed \in BOOLEAN, GateFails(h, committed)
      PROVE  IInv'
  <2>1. /\ hook' = [hook EXCEPT ![h] = failed]
        /\ UNCHANGED <<pipelineVars, dead, touched, sender, admitted>>
        /\ \/ UNCHANGED <<gate, interrupted>>
           \/ gate' = gate \cup {d} /\ interrupted' = interrupted \cup {d}
           \/ gate' = gate \cup {d} /\ d \in gate /\ UNCHANGED interrupted
    <3>1. /\ hook' = [hook EXCEPT ![h] = failed]
          /\ UNCHANGED <<pipelineVars, dead, touched, sender, admitted>>
          /\ gate' = IF committed THEN gate \cup {d} ELSE gate
          /\ interrupted' = IF committed /\ d \notin gate
                            THEN interrupted \cup {d} ELSE interrupted
      BY <1>4 DEF GateFails, Respond
    <3> HIDE DEF failed
    <3>2. CASE ~committed
      BY <3>1, <3>2
    <3>3. CASE committed
      BY <3>1, <3>3
    <3>4. QED
      BY <3>2, <3>3
  <2> HIDE DEF failed
  <2>2. OnePasses'
    BY <1>a, <2>1 DEF OnePasses
  <2>3. /\ gate \subseteq gate' /\ gate' \subseteq Deliveries
        /\ interrupted \subseteq interrupted'
        /\ \A e \in gate' \ gate : e \in interrupted'
        /\ HookOK(failed, call[h], gate')
    BY <1>1, <1>a, <2>1
  <2>4. QED
    BY <1>1, <1>a, <2>1, <2>2, <2>3, HookMoves DEF pipelineVars
<1>5. QED
  BY <1>2, <1>3, <1>4

\* Behind the gate: the device, the event's way through Accept, the heartbeat.
LEMMA HandlerMoves ==
  ASSUME IInv, NEW h \in Calls,
         \/ ResolveDevice(h) \/ TouchDevice(h)
         \/ \E written \in BOOLEAN : AcceptReturns(h, written)
  PROVE  IInv'
<1> DEFINE d == hook[h].msg
           answer(code) == [hook[h] EXCEPT !.pc = "answered", !.code = code]
<1>a. /\ hook[h] \in Hook /\ HookOK(hook[h], call[h], gate)
      /\ CallOK(call[h], stored) /\ call[h] \in Pipe!Call
      /\ gate \subseteq Deliveries /\ admitted \in [Deliveries -> Nat] /\ OnePasses
      /\ sender \in [Deliveries -> {"unsent", "open", "closed"}]
  BY DEF IInv, Domains, HooksAreTrue, CallsAreTrue
<1>1. CASE ResolveDevice(h)
  <2> DEFINE n == [hook[h] EXCEPT !.pc = "accept"]
             c == IF d \in Malformed
                  THEN [pc |-> "answered", event |-> d, answer |-> "rejected"]
                  ELSE [pc |-> "insert", event |-> d, answer |-> ""]
  <2>1. /\ hook[h].pc = "resolve" /\ d \in Events
        /\ call' = [call EXCEPT ![h] = c] /\ hook' = [hook EXCEPT ![h] = n]
        /\ UNCHANGED <<stored, tables, sender, admitted, interrupted>>
    BY <1>1, <1>a DEF ResolveDevice, Goto, HookOK, Pipe!Accept
  <2>2. c \in Pipe!Call /\ CallOK(c, stored) /\ c.event = d
    BY <2>1 DEF Pipe!Call, Pipe!Answers, CallOK
  <2>3. n \in Hook /\ n.pc = "accept" /\ n.msg = d /\ n.code = hook[h].code
    BY <1>a DEF Hook
  <2>4. Passes(hook[h], n) /\ HookOK(n, c, gate)
    BY <1>a, <2>1, <2>2, <2>3 DEF Passes, HookOK, Working
  <2> HIDE DEF n, c
  <2>5. OnePasses'
    BY <1>a, <2>1 DEF OnePasses, tables
  <2>6. QED
    BY <1>a, <2>1, <2>2, <2>3, <2>4, <2>5, HookMoves DEF tables
<1>2. CASE TouchDevice(h)
  <2> DEFINE n == answer("2xx")
  <2>1. /\ hook[h].pc = "touch" /\ hook' = [hook EXCEPT ![h] = n]
        /\ touched' = touched \cup {d}
        /\ UNCHANGED <<pipelineVars, gate, dead, sender, admitted, interrupted>>
    BY <1>2 DEF TouchDevice, Respond
  <2>2. n \in Hook /\ HookOK(n, call[h], gate) /\ Passes(hook[h], n)
    BY <1>a, <2>1 DEF Hook, HookOK, Working, Passes
  <2> HIDE DEF n
  <2>3. QED
    BY <2>1, <2>2, HookMovesAlone DEF pipelineVars
<1>3. ASSUME NEW written \in BOOLEAN, AcceptReturns(h, written)
      PROVE  IInv'
  <2>1. /\ hook[h].pc = "accept" /\ d \in Deliveries /\ d \in gate
        /\ call[h].pc = "answered" /\ call[h].event = d
        /\ call' = [call EXCEPT ![h] = Pipe!FreeCall]
        /\ UNCHANGED <<stored, gate, touched, sender, admitted>>
    BY <1>3, <1>a DEF AcceptReturns, HookOK, Working, Pipe!Return
  <2>2. PICK code \in {"2xx", "4xx", "5xx"} : hook' = [hook EXCEPT ![h] = answer(code)]
    BY <1>3 DEF AcceptReturns, Respond
  <2>3. /\ interrupted \subseteq interrupted'
        /\ call[h].answer = "error" => d \in interrupted'
    BY <1>3 DEF AcceptReturns
  <2>4. d \in stored \cup interrupted' \cup Malformed
    BY <1>a, <2>1, <2>3 DEF CallOK, Pipe!Call, Pipe!Answers
  <2> DEFINE n == answer(code)
  <2>5. n \in Hook /\ n.pc = "answered" /\ n.msg = d
    BY <1>a DEF Hook
  <2> HIDE DEF n
  <2>6. HookOK(n, Pipe!FreeCall, gate) /\ Passes(hook[h], n)
    BY <2>1, <2>4, <2>5 DEF HookOK, Passes, Working
  <2>7. Pipe!FreeCall \in Pipe!Call /\ CallOK(Pipe!FreeCall, stored)
    BY DEF Pipe!FreeCall, Pipe!Call, Pipe!Answers, CallOK
  <2>8. OnePasses'
    BY <1>a, <2>1 DEF OnePasses
  <2>9. QED
    BY <1>a, <2>1, <2>2, <2>3, <2>5, <2>6, <2>7, <2>8, HookMoves DEF n
<1>4. QED
  BY <1>1, <1>2, <1>3

\* Inside Accept: the insert, in every outcome, and publish.
LEMMA PipelineMoves ==
  ASSUME IInv, PipelineStep
  PROVE  IInv'
<1>1. PICK h \in Calls : Pipe!CallStep(h)
  BY DEF PipelineStep
<1>a. call \in [Calls -> Pipe!Call] /\ call[h] \in Pipe!Call /\ CallOK(call[h], stored)
  BY DEF IInv, Domains, CallsAreTrue
<1>2. PICK c \in Pipe!Call : /\ call' = [call EXCEPT ![h] = c] /\ c.event = call[h].event
                             /\ CallOK(c, stored') /\ stored \subseteq stored'
  <2> DEFINE answered(a) == [call[h] EXCEPT !.pc = "answered", !.answer = a]
             inserted == [call[h] EXCEPT !.pc = "publish"]
             e == call[h].event
  <2>1. /\ \A a \in Pipe!Answers \ {"", "rejected"} :
             /\ answered(a) \in Pipe!Call /\ answered(a).event = e
             /\ answered(a).pc = "answered" /\ answered(a).answer = a
        /\ inserted \in Pipe!Call /\ inserted.event = e
        /\ inserted.pc = "publish" /\ inserted.answer = call[h].answer
    BY <1>a DEF Pipe!Call, Pipe!Answers
  <2>2. {"stored", "duplicate", "error"} \subseteq Pipe!Answers \ {"", "rejected"}
    BY DEF Pipe!Answers
  <2>3. CASE Pipe!InsertHazardEvent(h) /\ e \in stored
    <3>1. call' = [call EXCEPT ![h] = answered("duplicate")] /\ stored' = stored
      BY <2>3 DEF Pipe!InsertHazardEvent, Pipe!Answered
    <3> HIDE DEF answered
    <3>2. QED
      BY <2>1, <2>2, <2>3, <3>1 DEF CallOK
  <2>4. CASE Pipe!InsertHazardEvent(h) /\ e \notin stored
    <3>1. call' = [call EXCEPT ![h] = inserted] /\ stored' = stored \cup {e}
      BY <2>4 DEF Pipe!InsertHazardEvent
    <3> HIDE DEF inserted
    <3>2. QED
      BY <1>a, <2>1, <3>1 DEF CallOK
  <2>5. CASE Pipe!Publish(h)
    <3>1. /\ call' = [call EXCEPT ![h] = answered("stored")] /\ stored' = stored
          /\ e \in stored
      BY <1>a, <2>5 DEF Pipe!Publish, Pipe!Answered, CallOK
    <3> HIDE DEF answered
    <3>2. QED
      BY <2>1, <2>2, <3>1 DEF CallOK
  <2>6. ASSUME NEW committed \in BOOLEAN, Pipe!InsertFails(h, committed)
        PROVE  call' = [call EXCEPT ![h] = answered("error")] /\ stored \subseteq stored'
    BY <2>6 DEF Pipe!InsertFails, Pipe!Answered
  <2>7. CASE \E committed \in BOOLEAN : Pipe!InsertFails(h, committed)
    <3>1. call' = [call EXCEPT ![h] = answered("error")] /\ stored \subseteq stored'
      BY <2>6, <2>7
    <3> HIDE DEF answered
    <3>2. QED
      BY <2>1, <2>2, <3>1 DEF CallOK
  <2>8. QED
    BY <1>1, <2>3, <2>4, <2>5, <2>7 DEF Pipe!CallStep
<1>3. UNCHANGED <<hook, gate, dead, touched, sender, admitted, interrupted>>
  BY DEF PipelineStep, tables
<1>4. call'[h] = c /\ \A g \in Calls : g # h => call'[g] = call[g]
  BY <1>a, <1>2
<1>5. Domains' /\ OnePasses'
  BY <1>2, <1>3 DEF IInv, Domains, OnePasses
<1>6. HooksAreTrue'
  <2>1. \A g \in Calls : call'[g].event = call[g].event
    BY <1>2, <1>4
  <2>2. QED
    BY <1>3, <2>1 DEF IInv, HooksAreTrue, HookOK
<1>7. CallsAreTrue'
  <2>1. ASSUME NEW g \in Calls, g # h
        PROVE  CallOK(call'[g], stored')
    <3>1. CallOK(call[g], stored)
      BY DEF IInv, CallsAreTrue
    <3>2. QED
      BY <1>2, <1>4, <2>1, <3>1 DEF CallOK
  <2>2. QED
    BY <1>2, <1>4, <2>1 DEF CallsAreTrue
<1>8. LossNeedsInterruption'
  BY <1>2, <1>3 DEF IInv, LossNeedsInterruption, Effect, Processing
<1>9. QED
  BY <1>5, <1>6, <1>7, <1>8 DEF IInv

\* The connector starts again: what was under way counts as interrupted.
LEMMA RestartMoves ==
  ASSUME IInv, Restart
  PROVE  IInv'
<1>1. /\ \A h \in Calls : hook'[h] = FreeHook /\ call'[h] = Pipe!FreeCall
      /\ UNCHANGED <<stored, gate, dead, touched, sender, admitted>>
      /\ \A d \in Deliveries : Processing(d) => d \in interrupted'
      /\ interrupted \subseteq interrupted'
  BY DEF Restart, Pipe!Restart, tables, Processing
<1>2. Domains' /\ OnePasses'
  BY <1>1, FreeIsOK DEF Restart, Pipe!Restart, IInv, Domains, OnePasses
<1>3. HooksAreTrue' /\ CallsAreTrue'
  BY <1>1, FreeIsOK DEF HooksAreTrue, CallsAreTrue
<1>4. LossNeedsInterruption'
  BY <1>1 DEF IInv, LossNeedsInterruption, Effect
<1>5. QED
  BY <1>2, <1>3, <1>4 DEF IInv
-----------------------------------------------------------------------------
(***************************************************************************)
(* Invariance.                                                             *)
(***************************************************************************)

\* Nothing has been sent.
LEMMA InitialStates == Init => IInv
<1> SUFFICES ASSUME Init
             PROVE  IInv
  OBVIOUS
<1>1. \A h \in Calls : hook[h] = FreeHook /\ call[h] = Pipe!FreeCall
  BY DEF Init, Pipe!Init
<1>2. Domains /\ OnePasses
  BY FreeIsOK DEF Init, Pipe!Init, Domains, OnePasses
<1>3. HooksAreTrue /\ CallsAreTrue
  BY <1>1, FreeIsOK DEF HooksAreTrue, CallsAreTrue
<1>4. LossNeedsInterruption
  BY DEF Init, LossNeedsInterruption
<1>5. QED
  BY <1>2, <1>3, <1>4 DEF IInv

\* Every step keeps the invariant.
LEMMA Steps == IInv /\ [Next]_vars => IInv'
<1> SUFFICES ASSUME IInv, [Next]_vars
             PROVE  IInv'
  OBVIOUS
<1>1. CASE UNCHANGED vars
  <2>1. UNCHANGED <<stored, call, hook, gate, touched, sender, admitted, interrupted>>
    BY <1>1 DEF vars, pipelineVars, tables
  <2>2. QED
    BY <2>1 DEF IInv, Domains, HooksAreTrue, CallsAreTrue, OnePasses,
                LossNeedsInterruption, Effect, Processing
<1>2. CASE Next
  BY <1>2, Requests, Refusals, GateMoves, HandlerMoves, PipelineMoves, RestartMoves
     DEF Next, HandlerStep
<1>3. QED
  BY <1>1, <1>2

\* The inductive invariant holds throughout.
THEOREM Invariance == Spec => []IInv
BY InitialStates, Steps, PTL DEF Spec

\* Whatever the provider repeats, however the copies overlap and whenever the
\* connector restarts, one handler at most processes a delivery (webhook.go:107).
THEOREM OneProcessing == Spec => []ProcessedAtMostOnce
<1>1. IInv => ProcessedAtMostOnce
  BY DEF IInv, OnePasses, ProcessedAtMostOnce
<1>2. QED
  BY <1>1, Invariance, PTL

\* Nothing turned away is acknowledged, and a delivery behind the gate takes
\* effect unless its one processing was interrupted (webhook.go:119).
THEOREM LossIsInterruption == Spec => []LossNeedsInterruption
<1>1. IInv => LossNeedsInterruption
  BY DEF IInv
<1>2. QED
  BY <1>1, Invariance, PTL
-----------------------------------------------------------------------------
(***************************************************************************)
(* Types: each kind of delivery goes the way of its kind.                  *)
(***************************************************************************)

\* The tables' domains that the invariant leaves open.
TablesOK ==
  /\ stored \subseteq Events /\ published \subseteq Events
  /\ dead \subseteq Deliveries /\ touched \subseteq Heartbeats
  /\ interrupted \subseteq Deliveries

\* The live feed.
FeedOK ==
  /\ feed \in [Streams -> Pipe!Channel]
  /\ \A s \in Streams : Len(feed[s].buffer) <= Buffer
  /\ seen \in [Streams -> Seq(Events)]

\* What cannot be parsed never gets to the gate, and only a heartbeat is
\* processed as one.
RightWay(k) ==
  /\ k.pc = "gate" => k.msg \in Events \cup Heartbeats
  /\ k.pc = "touch" => k.msg \in Heartbeats

\* Accept works on an event.
OnEvent(c) == c.pc \in {"insert", "publish"} => c.event \in Events

KindsOK ==
  /\ TablesOK /\ FeedOK
  /\ \A h \in Calls : RightWay(hook[h]) /\ OnEvent(call[h])

\* Before the gate, and answers.
LEMMA KindsOutside ==
  ASSUME IInv, KindsOK, NEW h \in Calls,
         \/ Refuse(h) \/ ProcessingFails(h)
         \/ \E d \in Deliveries : Deliver(h, d)
         \/ \E b \in BOOLEAN : DeadLetterGarbage(h, b) \/ CheckWindow(h, b) \/ Answer(h, b)
  PROVE  KindsOK'
<1>a. /\ hook \in [Calls -> Hook] /\ HookOK(hook[h], call[h], gate)
      /\ \A g \in Calls : RightWay(hook[g])
  BY DEF IInv, Domains, HooksAreTrue, KindsOK
<1>1. PICK n : hook' = [hook EXCEPT ![h] = n] /\ RightWay(n)
  <2>1. CASE Refuse(h) \/ ProcessingFails(h) \/ \E b \in BOOLEAN : DeadLetterGarbage(h, b)
    <3>1. PICK code \in {"4xx", "5xx"} : Respond(h, code)
      BY <2>1 DEF Refuse, ProcessingFails, DeadLetterGarbage
    <3> DEFINE n == [hook[h] EXCEPT !.pc = "answered", !.code = code]
    <3>2. n.pc = "answered" /\ hook' = [hook EXCEPT ![h] = n]
      BY <1>a, <3>1 DEF Hook, Respond
    <3> HIDE DEF n
    <3>3. RightWay(n)
      BY <3>2 DEF RightWay
    <3>4. QED
      BY <3>2, <3>3
  <2>2. ASSUME NEW d \in Deliveries, Deliver(h, d)
        PROVE  \E n : hook' = [hook EXCEPT ![h] = n] /\ RightWay(n)
    <3> DEFINE n == [pc |-> "received", msg |-> d, code |-> ""]
    <3>1. hook' = [hook EXCEPT ![h] = n] /\ RightWay(n)
      BY <2>2 DEF Deliver, RightWay
    <3> HIDE DEF n
    <3>2. QED
      BY <3>1
  <2>3. ASSUME NEW b \in BOOLEAN, CheckWindow(h, b)
        PROVE  \E n : hook' = [hook EXCEPT ![h] = n] /\ RightWay(n)
    <3> DEFINE refused == [hook[h] EXCEPT !.pc = "answered", !.code = "4xx"]
               passed  == [hook[h] EXCEPT !.pc = "gate"]
    <3>1. hook' = [hook EXCEPT ![h] = refused] \/ hook' = [hook EXCEPT ![h] = passed]
      BY <2>3 DEF CheckWindow, Respond, Goto
    <3>2. /\ refused.pc = "answered" /\ passed.pc = "gate" /\ passed.msg = hook[h].msg
          /\ hook[h].msg \in Events \cup Heartbeats
      BY <1>a, <2>3 DEF Hook, CheckWindow, Parses, HookOK, Deliveries
    <3> HIDE DEF refused, passed
    <3>3. RightWay(refused) /\ RightWay(passed)
      BY <3>2 DEF RightWay
    <3>4. QED
      BY <3>1, <3>3
  <2>4. ASSUME NEW b \in BOOLEAN, Answer(h, b)
        PROVE  \E n : hook' = [hook EXCEPT ![h] = n] /\ RightWay(n)
    <3>1. hook' = [hook EXCEPT ![h] = FreeHook]
      BY <2>4 DEF Answer
    <3>2. RightWay(FreeHook)
      BY DEF RightWay, FreeHook
    <3>3. QED
      BY <3>1, <3>2
  <2>5. QED
    BY <2>1, <2>2, <2>3, <2>4
<1>2. \A g \in Calls : RightWay(hook'[g])
  BY <1>a, <1>1
<1>3. UNCHANGED pipelineVars /\ touched' = touched
  BY DEF Refuse, ProcessingFails, Deliver, DeadLetterGarbage, CheckWindow, Answer, tables
<1>4. dead' \subseteq Deliveries /\ interrupted' \subseteq Deliveries
  <2>1. hook[h].pc # "free" => hook[h].msg \in Deliveries
    BY <1>a DEF HookOK
  <2>2. QED
    BY <2>1 DEF KindsOK, TablesOK, Refuse, ProcessingFails, Deliver, DeadLetterGarbage,
                CheckWindow, Answer, DeadLetter, tables
<1>5. TablesOK' /\ FeedOK' /\ \A g \in Calls : OnEvent(call'[g])
  BY <1>3, <1>4 DEF KindsOK, TablesOK, FeedOK, pipelineVars
<1>6. QED
  BY <1>2, <1>5 DEF KindsOK

\* The gate sends every kind its way.
LEMMA KindsAtTheGate ==
  ASSUME IInv, KindsOK, NEW h \in Calls,
         PassGate(h) \/ \E committed \in BOOLEAN : GateFails(h, committed)
  PROVE  KindsOK'
<1> DEFINE d == hook[h].msg
<1>a. /\ hook \in [Calls -> Hook] /\ hook[h].pc = "gate" /\ d \in Events \cup Heartbeats
      /\ \A g \in Calls : RightWay(hook[g])
  BY DEF IInv, Domains, KindsOK, RightWay, PassGate, GateFails
<1>1. PICK n : hook' = [hook EXCEPT ![h] = n] /\ RightWay(n)
  <2>1. ASSUME NEW code, Respond(h, code)
        PROVE  \E n : hook' = [hook EXCEPT ![h] = n] /\ RightWay(n)
    <3> DEFINE n == [hook[h] EXCEPT !.pc = "answered", !.code = code]
    <3>1. n.pc = "answered" /\ hook' = [hook EXCEPT ![h] = n]
      BY <1>a, <2>1 DEF Hook, Respond
    <3> HIDE DEF n
    <3>2. RightWay(n)
      BY <3>1 DEF RightWay
    <3>3. QED
      BY <3>1, <3>2
  <2>2. CASE Enter(h)
    <3> DEFINE n == [hook[h] EXCEPT !.pc = IF d \in Events THEN "resolve" ELSE "touch"]
    <3>1. /\ hook' = [hook EXCEPT ![h] = n] /\ n.msg = d
          /\ n.pc = IF d \in Events THEN "resolve" ELSE "touch"
      BY <1>a, <2>2 DEF Hook, Enter, Goto
    <3> HIDE DEF n
    <3>2. RightWay(n)
      BY <1>a, <3>1 DEF RightWay
    <3>3. QED
      BY <3>1, <3>2
  <2>3. QED
    BY <2>1, <2>2 DEF PassGate, GateFails
<1>2. \A g \in Calls : RightWay(hook'[g])
  BY <1>a, <1>1
<1>3. /\ UNCHANGED <<pipelineVars, dead, touched>>
      /\ interrupted' = interrupted \/ interrupted' = interrupted \cup {d}
  BY DEF PassGate, GateFails
<1>4. d \in Deliveries
  BY <1>a DEF Deliveries
<1>5. TablesOK' /\ FeedOK' /\ \A g \in Calls : OnEvent(call'[g])
  BY <1>3, <1>4 DEF KindsOK, TablesOK, FeedOK, pipelineVars
<1>6. QED
  BY <1>2, <1>5 DEF KindsOK

\* Behind the gate an event goes to Accept, a heartbeat to the devices.
LEMMA KindsBehindTheGate ==
  ASSUME IInv, KindsOK, NEW h \in Calls,
         \/ ResolveDevice(h) \/ TouchDevice(h)
         \/ \E written \in BOOLEAN : AcceptReturns(h, written)
  PROVE  KindsOK'
<1> DEFINE d == hook[h].msg
<1>a. /\ hook \in [Calls -> Hook] /\ call \in [Calls -> Pipe!Call]
      /\ HookOK(hook[h], call[h], gate) /\ hook[h].pc \in Working /\ d \in Deliveries
      /\ hook[h].pc = "resolve" => d \in Events
      /\ hook[h].pc = "touch" => d \in Heartbeats
      /\ \A g \in Calls : RightWay(hook[g]) /\ OnEvent(call[g])
  BY DEF IInv, Domains, HooksAreTrue, HookOK, KindsOK, RightWay, ResolveDevice,
         TouchDevice, AcceptReturns, Working
<1>1. \A g \in Calls : RightWay(hook'[g])
  <2>1. ASSUME NEW code, Respond(h, code)
        PROVE  \A g \in Calls : RightWay(hook'[g])
    <3> DEFINE n == [hook[h] EXCEPT !.pc = "answered", !.code = code]
    <3>1. n.pc = "answered" /\ hook' = [hook EXCEPT ![h] = n]
      BY <1>a, <2>1 DEF Hook, Respond
    <3>2. RightWay(n)
      BY <3>1 DEF RightWay
    <3> HIDE DEF n
    <3>3. QED
      BY <1>a, <3>1, <3>2
  <2>2. CASE Goto(h, "accept")
    <3> DEFINE n == [hook[h] EXCEPT !.pc = "accept"]
    <3>1. n.pc = "accept" /\ hook' = [hook EXCEPT ![h] = n]
      BY <1>a, <2>2 DEF Hook, Goto
    <3>2. RightWay(n)
      BY <3>1 DEF RightWay
    <3> HIDE DEF n
    <3>3. QED
      BY <1>a, <3>1, <3>2
  <2>3. QED
    BY <2>1, <2>2 DEF ResolveDevice, TouchDevice, AcceptReturns
<1>2. \A g \in Calls : OnEvent(call'[g])
  <2>1. CASE ResolveDevice(h)
    <3> DEFINE c == IF d \in Malformed
                    THEN [pc |-> "answered", event |-> d, answer |-> "rejected"]
                    ELSE [pc |-> "insert", event |-> d, answer |-> ""]
    <3>1. call' = [call EXCEPT ![h] = c] /\ c.event = d
      BY <2>1 DEF ResolveDevice, Pipe!Accept
    <3> HIDE DEF c
    <3>2. OnEvent(c)
      BY <1>a, <2>1, <3>1 DEF OnEvent, ResolveDevice
    <3>3. QED
      BY <1>a, <3>1, <3>2
  <2>2. CASE TouchDevice(h)
    BY <1>a, <2>2 DEF TouchDevice, pipelineVars
  <2>3. CASE \E written \in BOOLEAN : AcceptReturns(h, written)
    <3>1. call' = [call EXCEPT ![h] = Pipe!FreeCall]
      BY <2>3 DEF AcceptReturns, Pipe!Return
    <3>2. OnEvent(Pipe!FreeCall)
      BY DEF OnEvent, Pipe!FreeCall
    <3>3. QED
      BY <1>a, <3>1, <3>2
  <2>4. QED
    BY <2>1, <2>2, <2>3
<1>3. UNCHANGED <<stored, published, feed, seen>>
  BY DEF ResolveDevice, TouchDevice, AcceptReturns, Pipe!Accept, Pipe!Return, pipelineVars
<1>4. /\ touched' \subseteq Heartbeats /\ dead' \subseteq Deliveries
      /\ interrupted' \subseteq Deliveries
  BY <1>a DEF ResolveDevice, TouchDevice, AcceptReturns, DeadLetter, KindsOK, TablesOK,
              tables
<1>5. QED
  BY <1>1, <1>2, <1>3, <1>4 DEF KindsOK, TablesOK, FeedOK

\* A step of Accept.
LEMMA KindsInAccept ==
  ASSUME IInv, KindsOK, PipelineStep
  PROVE  KindsOK'
<1>1. PICK h \in Calls : Pipe!CallStep(h)
  BY DEF PipelineStep
<1> DEFINE e == call[h].event
<1>a. /\ call \in [Calls -> Pipe!Call] /\ call[h] \in Pipe!Call
      /\ call[h].pc \in {"insert", "publish"} /\ e \in Events
      /\ \A g \in Calls : OnEvent(call[g])
  BY <1>1 DEF IInv, Domains, KindsOK, OnEvent, Pipe!CallStep, Pipe!InsertHazardEvent,
              Pipe!Publish, Pipe!InsertFails
<1>2. UNCHANGED <<hook, dead, touched, interrupted>>
  BY DEF PipelineStep, tables
<1>3. \A g \in Calls : OnEvent(call'[g])
  <2>1. ASSUME NEW answer, Pipe!Answered(h, answer)
        PROVE  \A g \in Calls : OnEvent(call'[g])
    <3> DEFINE c == [call[h] EXCEPT !.pc = "answered", !.answer = answer]
    <3>1. c.event = e /\ call' = [call EXCEPT ![h] = c]
      BY <1>a, <2>1 DEF Pipe!Call, Pipe!Answered
    <3>2. OnEvent(c)
      BY <1>a, <3>1 DEF OnEvent
    <3> HIDE DEF c
    <3>3. QED
      BY <1>a, <3>1, <3>2
  <2>2. CASE Pipe!InsertHazardEvent(h) /\ e \notin stored
    <3> DEFINE c == [call[h] EXCEPT !.pc = "publish"]
    <3>1. c.event = e /\ call' = [call EXCEPT ![h] = c]
      BY <1>a, <2>2 DEF Pipe!Call, Pipe!InsertHazardEvent
    <3>2. OnEvent(c)
      BY <1>a, <3>1 DEF OnEvent
    <3> HIDE DEF c
    <3>3. QED
      BY <1>a, <3>1, <3>2
  <2>3. QED
    BY <1>1, <2>1, <2>2 DEF Pipe!CallStep, Pipe!InsertHazardEvent, Pipe!Publish,
                            Pipe!InsertFails
<1>4. stored' \subseteq Events /\ published' \subseteq Events /\ seen' = seen
  BY <1>1, <1>a DEF KindsOK, TablesOK, Pipe!CallStep, Pipe!InsertHazardEvent,
                    Pipe!Publish, Pipe!InsertFails
<1>5. FeedOK'
  <2>1. CASE feed' = feed
    BY <1>4, <2>1 DEF KindsOK, FeedOK
  <2>2. CASE Pipe!Publish(h)
    <3>1. ASSUME NEW s \in Streams
          PROVE  feed'[s] \in Pipe!Channel /\ Len(feed'[s].buffer) <= Buffer
      <4>1. /\ feed[s] \in Pipe!Channel /\ feed[s].buffer \in Seq(Events)
            /\ Len(feed[s].buffer) <= Buffer
        BY DEF KindsOK, FeedOK, Pipe!Channel
      <4>2. CASE Len(feed[s].buffer) < Buffer
                   /\ feed'[s] = [feed[s] EXCEPT !.buffer = Append(feed[s].buffer, e)]
        <5>1. /\ Append(feed[s].buffer, e) \in Seq(Events)
              /\ Len(Append(feed[s].buffer, e)) = Len(feed[s].buffer) + 1
          BY <1>a, <4>1
        <5>2. /\ feed'[s] \in Pipe!Channel
              /\ feed'[s].buffer = Append(feed[s].buffer, e)
          BY <4>1, <4>2, <5>1 DEF Pipe!Channel
        <5>3. Len(feed[s].buffer) \in Nat /\ Buffer \in Nat
          BY <4>1, WebhookAssumption
        <5>4. QED
          BY <4>2, <5>1, <5>2, <5>3
      <4>3. CASE feed'[s] = feed[s]
        BY <4>1, <4>3
      <4>4. QED
        BY <2>2, <4>2, <4>3 DEF Pipe!Publish
    <3>2. feed' = [s \in Streams |-> feed'[s]]
      BY <2>2 DEF Pipe!Publish
    <3>3. QED
      BY <1>4, <3>1, <3>2 DEF KindsOK, FeedOK
  <2>3. QED
    BY <1>1, <2>1, <2>2 DEF Pipe!CallStep, Pipe!InsertHazardEvent, Pipe!InsertFails
<1>6. QED
  BY <1>2, <1>3, <1>4, <1>5 DEF KindsOK, TablesOK

\* The connector starts again.
LEMMA KindsAfterRestart ==
  ASSUME IInv, KindsOK, Restart
  PROVE  KindsOK'
<1>1. \A h \in Calls : RightWay(hook'[h]) /\ OnEvent(call'[h])
  BY DEF Restart, Pipe!Restart, RightWay, OnEvent, FreeHook, Pipe!FreeCall
<1>2. interrupted' \subseteq Deliveries
  <2>1. \A h \in Calls : hook[h].pc \in Working => hook[h].msg \in Deliveries
    BY DEF IInv, HooksAreTrue, HookOK, Working
  <2>2. QED
    BY <2>1 DEF Restart, KindsOK, TablesOK, Working
<1>3. FeedOK'
  <2>1. [status |-> "closed", buffer |-> <<>>] \in Pipe!Channel /\ Len(<<>>) <= Buffer
    BY WebhookAssumption DEF Pipe!Channel
  <2>2. \A s \in Streams : feed'[s] = feed[s]
                            \/ feed'[s] = [status |-> "closed", buffer |-> <<>>]
    BY DEF Restart, Pipe!Restart
  <2>3. feed' = [s \in Streams |-> feed'[s]] /\ seen' = seen
    BY DEF Restart, Pipe!Restart
  <2>4. \A s \in Streams : feed'[s] \in Pipe!Channel /\ Len(feed'[s].buffer) <= Buffer
    BY <2>1, <2>2 DEF KindsOK, FeedOK
  <2>5. QED
    BY <2>3, <2>4 DEF KindsOK, FeedOK
<1>4. TablesOK'
  BY <1>2 DEF Restart, Pipe!Restart, KindsOK, TablesOK, tables
<1>5. QED
  BY <1>1, <1>3, <1>4 DEF KindsOK

\* Every value stays in its domain: the event table holds events, and only a
\* heartbeat touches a device as one (webhook.go:119).
THEOREM TypeCorrectness == Spec => []TypeOK
<1>1. Init => KindsOK
  <2> SUFFICES ASSUME Init
               PROVE  KindsOK
    OBVIOUS
  <2>1. TablesOK
    BY DEF Init, Pipe!Init, TablesOK
  <2>2. [status |-> "new", buffer |-> <<>>] \in Pipe!Channel /\ Len(<<>>) <= Buffer
    BY WebhookAssumption DEF Pipe!Channel
  <2>3. FeedOK
    BY <2>2 DEF Init, Pipe!Init, FeedOK
  <2>4. \A h \in Calls : RightWay(hook[h]) /\ OnEvent(call[h])
    BY DEF Init, Pipe!Init, RightWay, OnEvent, FreeHook, Pipe!FreeCall
  <2>5. QED
    BY <2>1, <2>3, <2>4 DEF KindsOK
<1>2. IInv /\ KindsOK /\ [Next]_vars => KindsOK'
  <2> SUFFICES ASSUME IInv, KindsOK, [Next]_vars
               PROVE  KindsOK'
    OBVIOUS
  <2>1. CASE UNCHANGED vars
    BY <2>1 DEF vars, pipelineVars, tables, KindsOK, TablesOK, FeedOK, RightWay, OnEvent
  <2>2. CASE Next
    BY <2>2, KindsOutside, KindsAtTheGate, KindsBehindTheGate, KindsInAccept,
       KindsAfterRestart DEF Next, HandlerStep
  <2>3. QED
    BY <2>1, <2>2
<1>3. IInv /\ KindsOK => TypeOK
  BY DEF IInv, Domains, KindsOK, TablesOK, FeedOK, TypeOK, Pipe!TypeOK
<1>4. QED
  BY <1>1, <1>2, <1>3, Invariance, PTL DEF Spec
=============================================================================
