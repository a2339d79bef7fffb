-------------------------- MODULE EdgeDeliveryProofs --------------------------
(***************************************************************************)
(* Proofs about EdgeDelivery, for any events and snapshots, any capacity   *)
(* of the reporter's queue, any numbers of attempts and any number of      *)
(* requests in the connector at once.                                      *)
(***************************************************************************)
EXTENDS EdgeDelivery, SequenceTheorems, FiniteSetTheorems, TLAPS

-----------------------------------------------------------------------------
(***************************************************************************)
(* The inductive invariant.                                                *)
(***************************************************************************)

\* A queue without repetitions, in the order of the reports.
Ordered(q, b) ==
  IsInjective(q) /\ \A j, k \in DOMAIN q : j < k => q[j] \in b[q[k]]

QueueIsOrdered == Ordered(queue, before)

\* The worker waits for the request it made.
WorkerOK(w, requests) ==
  /\ w.pc = "idle" <=> w.item = NoItem
  /\ w.pc = "waiting" =>
       w.on \in Calls /\ (requests[w.on].pc # "free" => requests[w.on].item = w.item)

\* The report i is in the connector's tables.
InTables(i, s, r) == IF i \in Events THEN i \in s ELSE r[i] > 0

\* A request has a report; one inside Accept is there for its event; one that is
\* answered with a success has left its report in the tables.
RequestOK(q, c, s, r) ==
  /\ q.pc # "free" => q.item \in Items
  /\ q.pc = "accept" /\ q.item \in Events => c.event = q.item
  /\ q.code = "2xx" => q.pc = "answered" /\ InTables(q.item, s, r)

\* What Accept answers is true of the table.
CallOK(c, s) ==
  /\ c.pc = "publish" \/ c.answer \in {"stored", "duplicate"} => c.event \in s
  /\ c.pc = "answered" => c.answer # ""

RequestsAreTrue == \A h \in Calls : RequestOK(http[h], call[h], stored, rows)
CallsAreTrue    == \A h \in Calls : CallOK(call[h], stored)

IInv ==
  /\ PathTypeOK /\ call \in [Calls -> Call]
  /\ QueueIsOrdered /\ FreshestSurvive
  /\ PendingIsHeld /\ AcceptedIsStored
  /\ WorkerOK(worker, http) /\ RequestsAreTrue /\ CallsAreTrue

\* The phone's half.
PhoneOK ==
  /\ before \in [Items -> SUBSET Items] /\ queue \in Seq(Items) /\ Len(queue) <= Capacity
  /\ fate \in [Items -> Fates] /\ worker \in Worker
  /\ QueueIsOrdered /\ FreshestSurvive /\ PendingIsHeld
-----------------------------------------------------------------------------
(***************************************************************************)
(* Queues.                                                                 *)
(***************************************************************************)

\* The elements of a sequence that one is appended to.
LEMMA SetOfAppend ==
  ASSUME NEW q \in Seq(Items), NEW e \in Items
  PROVE  ToSet(Append(q, e)) = ToSet(q) \cup {e}
<1>1. /\ Append(q, e) \in Seq(Items) /\ Len(Append(q, e)) = Len(q) + 1
      /\ \A i \in 1..Len(q) : Append(q, e)[i] = q[i]
      /\ Append(q, e)[Len(q) + 1] = e
  BY AppendProperties
<1> DEFINE more == Append(q, e)
<1>2. /\ DOMAIN more = 1..(Len(q) + 1) /\ DOMAIN q = 1..Len(q) /\ Len(q) \in Nat
  BY <1>1
<1>3. 1..(Len(q) + 1) = 1..Len(q) \cup {Len(q) + 1}
  BY <1>2
<1> HIDE DEF more
<1>4. ToSet(more) = {more[i] : i \in 1..Len(q)} \cup {more[Len(q) + 1]}
  BY <1>2, <1>3 DEF ToSet
<1>5. {more[i] : i \in 1..Len(q)} = ToSet(q)
  BY <1>1, <1>2 DEF ToSet, more
<1>6. QED
  BY <1>1, <1>4, <1>5 DEF more

\* A new report at the end of an ordered queue, which was all made before it.
LEMMA AppendOrdered ==
  ASSUME NEW b, NEW c, NEW q \in Seq(Items), NEW e \in Items,
         Ordered(q, b), e \notin ToSet(q), ToSet(q) \subseteq c[e],
         \A x \in ToSet(q) : c[x] = b[x]
  PROVE  Ordered(Append(q, e), c)
<1> DEFINE more == Append(q, e)
<1>1. /\ more \in Seq(Items) /\ Len(more) = Len(q) + 1
      /\ \A i \in 1..Len(q) : more[i] = q[i]
      /\ more[Len(q) + 1] = e
  BY AppendProperties
<1>2. /\ DOMAIN more = 1..(Len(q) + 1) /\ DOMAIN q = 1..Len(q) /\ Len(q) \in Nat
  BY <1>1
<1> HIDE DEF more
<1>3. \A i \in 1..Len(q) : q[i] # e /\ q[i] \in ToSet(q)
  BY <1>2 DEF ToSet
<1>4. \A i \in DOMAIN more : i \in 1..Len(q) \/ i = Len(q) + 1
  BY <1>2
<1>5. IsInjective(more)
  BY <1>1, <1>2, <1>3, <1>4 DEF Ordered, IsInjective
<1>6. ASSUME NEW j \in DOMAIN more, NEW k \in DOMAIN more, j < k
      PROVE  more[j] \in c[more[k]]
  <2>1. j \in 1..Len(q) /\ more[j] \in ToSet(q)
    BY <1>1, <1>2, <1>3, <1>6
  <2>2. CASE k \in 1..Len(q)
    <3>1. q[j] \in b[q[k]] /\ c[q[k]] = b[q[k]]
      BY <1>2, <1>3, <1>6, <2>1, <2>2 DEF Ordered
    <3>2. QED
      BY <1>1, <2>1, <2>2, <3>1
  <2>3. CASE k = Len(q) + 1
    BY <1>1, <2>1, <2>3
  <2>4. QED
    BY <1>4, <2>2, <2>3
<1>7. QED
  BY <1>5, <1>6 DEF Ordered, more

\* The queue without its oldest report.
LEMMA TailOrdered ==
  ASSUME NEW b, NEW q \in Seq(Items), q # <<>>, Ordered(q, b)
  PROVE  /\ Head(q) \in ToSet(q) /\ Tail(q) \in Seq(Items)
         /\ ToSet(Tail(q)) = ToSet(q) \ {Head(q)}
         /\ Ordered(Tail(q), b)
         /\ \A y \in ToSet(Tail(q)) : Head(q) \in b[y]
<1> DEFINE t == Tail(q)
<1>1. /\ t \in Seq(Items) /\ Len(t) = Len(q) - 1 /\ Head(q) = q[1]
      /\ \A i \in 1..Len(t) : t[i] = q[i + 1]
      /\ Len(q) \in Nat \ {0} /\ Len(t) \in Nat
  BY HeadTailProperties
<1>2. DOMAIN t = 1..Len(t) /\ DOMAIN q = 1..Len(q)
  BY <1>1
<1> HIDE DEF t
<1>3. /\ \A i \in DOMAIN t : i + 1 \in DOMAIN q /\ i + 1 # 1 /\ t[i] = q[i + 1]
      /\ 1 \in DOMAIN q
      /\ \A k \in DOMAIN q : k = 1 \/ (k - 1 \in DOMAIN t /\ t[k - 1] = q[k])
  <2>1. \A i \in DOMAIN t : i + 1 \in DOMAIN q /\ i + 1 # 1
    BY <1>1, <1>2
  <2>2. \A k \in DOMAIN q : k # 1 => k - 1 \in DOMAIN t /\ (k - 1) + 1 = k
    BY <1>1, <1>2
  <2>3. \A k \in DOMAIN q : k # 1 => t[k - 1] = q[k]
    BY <1>1, <1>2, <2>2
  <2>4. QED
    BY <1>1, <1>2, <2>1, <2>2, <2>3
<1>4. \A j, k \in DOMAIN q : q[j] = q[k] => j = k
  BY DEF Ordered, IsInjective
<1>5. Head(q) \in ToSet(q)
  BY <1>1, <1>3 DEF ToSet
<1>6. ToSet(t) = ToSet(q) \ {Head(q)}
  <2>1. ASSUME NEW i \in DOMAIN t
        PROVE  t[i] \in ToSet(q) \ {Head(q)}
    <3>1. t[i] = q[i + 1] /\ i + 1 \in DOMAIN q /\ i + 1 # 1 /\ Head(q) = q[1]
      BY <1>1, <1>3
    <3>2. q[i + 1] # q[1]
      BY <1>3, <1>4, <3>1
    <3>3. QED
      BY <3>1, <3>2 DEF ToSet
  <2>2. ASSUME NEW k \in DOMAIN q, q[k] # Head(q)
        PROVE  q[k] \in ToSet(t)
    <3>1. k # 1
      BY <1>1, <2>2
    <3>2. QED
      BY <1>3, <3>1 DEF ToSet
  <2>3. QED
    BY <2>1, <2>2 DEF ToSet
<1>7. IsInjective(t)
  <2>1. ASSUME NEW i \in DOMAIN t, NEW j \in DOMAIN t, t[i] = t[j]
        PROVE  i = j
    <3>1. i + 1 = j + 1
      BY <1>3, <1>4, <2>1
    <3>2. QED
      BY <1>1, <1>2, <3>1
  <2>2. QED
    BY <2>1 DEF IsInjective
<1>8. ASSUME NEW j \in DOMAIN t, NEW k \in DOMAIN t, j < k
      PROVE  t[j] \in b[t[k]]
  <2>1. j + 1 < k + 1
    BY <1>1, <1>2, <1>8
  <2>2. QED
    BY <1>3, <2>1 DEF Ordered
<1>9. \A y \in ToSet(t) : Head(q) \in b[y]
  <2>1. ASSUME NEW i \in DOMAIN t
        PROVE  Head(q) \in b[t[i]]
    <3>1. 1 < i + 1 /\ i + 1 \in DOMAIN q /\ 1 \in DOMAIN q /\ t[i] = q[i + 1]
      BY <1>1, <1>2, <1>3
    <3>2. q[1] \in b[q[i + 1]]
      BY <3>1 DEF Ordered
    <3>3. QED
      BY <1>1, <3>1, <3>2
  <2>2. QED
    BY <2>1 DEF ToSet
<1>10. QED
  BY <1>1, <1>5, <1>6, <1>7, <1>8, <1>9 DEF Ordered, t
-----------------------------------------------------------------------------
(***************************************************************************)
(* The phone.                                                              *)
(***************************************************************************)

\* What the phone's steps rely on.
LEMMA PhoneState ==
  ASSUME IInv
  PROVE  /\ PhoneOK /\ ToSet(queue) \subseteq Items
         /\ \A i \in ToSet(queue) : fate[i] = "pending" /\ worker.item # i
         /\ worker.item \in Items => fate[worker.item] = "pending"
<1>1. PhoneOK
  BY DEF IInv, PathTypeOK, PhoneOK
<1>2. ToSet(queue) \subseteq Items
  BY <1>1 DEF PhoneOK, ToSet
<1>3. QED
  BY <1>1, <1>2 DEF PhoneOK, PendingIsHeld

\* A report into a queue that has room, or has just made some.
LEMMA Enqueued ==
  ASSUME PhoneOK, NEW i \in Items, fate[i] = "unreported",
         before' = [before EXCEPT ![i] = {j \in Items : fate[j] # "unreported"}],
         NEW q \in Seq(Items), Len(q) < Capacity, Ordered(q, before),
         ToSet(q) \subseteq ToSet(queue), queue' = Append(q, i), worker' = worker,
         fate' \in [Items -> Fates], fate'[i] = "pending",
         \A x \in Items \ {i} :
           \/ fate'[x] = fate[x] /\ (x \in ToSet(queue) => x \in ToSet(q))
           \/ /\ fate'[x] = "evicted" /\ fate[x] = "pending" /\ worker.item # x
              /\ x \notin ToSet(q) /\ \A y \in ToSet(q) : x \in before[y]
  PROVE  PhoneOK'
<1>1. i \notin ToSet(queue) /\ worker.item # i
  BY DEF PhoneOK, PendingIsHeld
<1>2. /\ queue' \in Seq(Items) /\ Len(queue') = Len(q) + 1 /\ Len(q) \in Nat
      /\ ToSet(queue') = ToSet(q) \cup {i} /\ ToSet(q) \subseteq Items
  BY AppendProperties, SetOfAppend DEF ToSet
<1>3. /\ before' \in [Items -> SUBSET Items]
      /\ before'[i] = {j \in Items : fate[j] # "unreported"}
      /\ \A x \in ToSet(q) : before'[x] = before[x]
  BY <1>1, <1>2 DEF PhoneOK
<1>4. Ordered(queue', before')
  <2>1. i \notin ToSet(q) /\ ToSet(q) \subseteq before'[i]
    BY <1>1, <1>2, <1>3 DEF PhoneOK, PendingIsHeld
  <2> DEFINE c == before'
  <2>2. ToSet(q) \subseteq c[i] /\ \A x \in ToSet(q) : c[x] = before[x]
    BY <1>3, <2>1
  <2> HIDE DEF c
  <2>3. Ordered(Append(q, i), c)
    BY <2>1, <2>2, AppendOrdered
  <2>4. QED
    BY <2>3 DEF c
<1>5. FreshestSurvive'
  <2>1. ASSUME NEW y \in ToSet(queue'), NEW x \in Items, fate'[x] = "evicted"
        PROVE  x \in before'[y]
    <3>1. x # i /\ fate[x] \in {"evicted", "pending"}
      BY <2>1
    <3>2. CASE y = i
      BY <1>3, <3>1, <3>2
    <3>3. CASE y \in ToSet(q)
      <4>1. x \in before[y]
        BY <2>1, <3>1, <3>3 DEF PhoneOK, FreshestSurvive
      <4>2. QED
        BY <1>3, <3>3, <4>1
    <3>4. QED
      BY <1>2, <3>2, <3>3
  <2>2. QED
    BY <2>1 DEF FreshestSurvive
<1>6. PendingIsHeld'
  <2>1. ASSUME NEW x \in Items
        PROVE  /\ fate'[x] = "pending" <=> x \in ToSet(queue') \/ worker.item = x
               /\ x \in ToSet(queue') => worker.item # x
    <3>1. CASE x = i
      BY <1>1, <1>2, <3>1
    <3>2. CASE x # i
      BY <1>2, <3>2 DEF PhoneOK, PendingIsHeld
    <3>3. QED
      BY <3>1, <3>2
  <2>2. QED
    BY <2>1 DEF PendingIsHeld
<1>7. Len(queue') <= Capacity
  BY <1>2, DeliveryAssumption
<1>8. QED
  BY <1>2, <1>3, <1>4, <1>5, <1>6, <1>7 DEF PhoneOK, QueueIsOrdered

\* reportEvent and reportTelemetry, whether the queue has room or not.
LEMMA Reports ==
  ASSUME PhoneOK, NEW i \in Items, Report(i)
  PROVE  PhoneOK' /\ fate'[i] = "pending"
         /\ \A x \in Items : fate'[x] = "accepted" => fate[x] = "accepted"
<1>1. /\ fate[i] = "unreported" /\ worker' = worker
      /\ before' = [before EXCEPT ![i] = {j \in Items : fate[j] # "unreported"}]
      /\ fate \in [Items -> Fates] /\ queue \in Seq(Items) /\ Len(queue) <= Capacity
      /\ Ordered(queue, before) /\ Len(queue) \in Nat
  BY DEF Report, PhoneOK, QueueIsOrdered
<1>2. CASE Len(queue) < Capacity
  <2>1. queue' = Append(queue, i) /\ fate' = [fate EXCEPT ![i] = "pending"]
    BY <1>2 DEF Report
  <2>2. /\ fate' \in [Items -> Fates] /\ fate'[i] = "pending"
        /\ \A x \in Items \ {i} : fate'[x] = fate[x]
    BY <1>1, <2>1 DEF Fates
  <2>3. PhoneOK'
    BY <1>1, <1>2, <2>1, <2>2, Enqueued
  <2>4. QED
    BY <2>2, <2>3
<1>3. CASE ~(Len(queue) < Capacity)
  <2>1. /\ queue' = Append(Tail(queue), i)
        /\ fate' = [fate EXCEPT ![i] = "pending", ![Head(queue)] = "evicted"]
    BY <1>3 DEF Report
  <2>2. queue # <<>> /\ Len(Tail(queue)) < Capacity
    BY <1>1, <1>3, DeliveryAssumption
  <2>3. /\ Head(queue) \in ToSet(queue) /\ Tail(queue) \in Seq(Items)
        /\ ToSet(Tail(queue)) = ToSet(queue) \ {Head(queue)}
        /\ Ordered(Tail(queue), before)
        /\ \A y \in ToSet(Tail(queue)) : Head(queue) \in before[y]
    BY <1>1, <2>2, TailOrdered
  <2>4. /\ Head(queue) \in Items /\ fate[Head(queue)] = "pending"
        /\ worker.item # Head(queue)
    BY <2>3 DEF PhoneOK, PendingIsHeld, ToSet
  <2>5. /\ fate' \in [Items -> Fates] /\ fate'[i] = "pending"
        /\ fate'[Head(queue)] = "evicted"
        /\ \A x \in Items \ {i, Head(queue)} : fate'[x] = fate[x]
    BY <1>1, <2>1, <2>4 DEF Fates
  <2>6. \A x \in Items \ {i} :
          \/ fate'[x] = fate[x] /\ (x \in ToSet(queue) => x \in ToSet(Tail(queue)))
          \/ /\ fate'[x] = "evicted" /\ fate[x] = "pending" /\ worker.item # x
             /\ x \notin ToSet(Tail(queue))
             /\ \A y \in ToSet(Tail(queue)) : x \in before[y]
    BY <2>3, <2>4, <2>5
  <2>7. PhoneOK'
    BY <1>1, <2>1, <2>2, <2>3, <2>5, <2>6, Enqueued
  <2>8. QED
    BY <2>5, <2>7
<1>4. QED
  BY <1>2, <1>3

\* The worker goes on with its report.
LEMMA GoesOn ==
  ASSUME PhoneOK, worker' \in Worker, worker'.item = worker.item,
         UNCHANGED <<before, fate, queue>>
  PROVE  PhoneOK'
BY DEF PhoneOK, QueueIsOrdered, FreshestSurvive, PendingIsHeld

\* A worker at rest.
LEMMA RestingIsWorker ==
  Resting \in Worker /\ Resting.pc = "idle" /\ Resting.item = NoItem
BY DEF Resting, Worker

\* A worker with a report.
LEMMA ReadyIsWorker ==
  ASSUME NEW i \in Items
  PROVE  LET w == [Resting EXCEPT !.pc = "ready", !.item = i]
         IN w \in Worker /\ w.pc = "ready" /\ w.item = i
BY DEF Resting, Worker

\* The worker is done with its report.
LEMMA Settles ==
  ASSUME PhoneOK, worker.item \in Items, NEW f \in {"accepted", "refused", "abandoned"},
         worker' = Resting, fate' = [fate EXCEPT ![worker.item] = f],
         UNCHANGED <<before, queue>>
  PROVE  PhoneOK'
<1>1. /\ fate' \in [Items -> Fates] /\ fate'[worker.item] = f
      /\ \A x \in Items : x # worker.item => fate'[x] = fate[x]
      /\ f \in Fates \ {"unreported", "pending", "evicted"}
  BY DEF PhoneOK, Fates
<1>2. fate[worker.item] = "pending"
  BY DEF PhoneOK, PendingIsHeld
<1>3. worker' \in Worker /\ worker'.item = NoItem
  BY RestingIsWorker
<1>4. FreshestSurvive'
  BY <1>1, <1>2 DEF PhoneOK, FreshestSurvive
<1>5. PendingIsHeld'
  BY <1>1, <1>3, DeliveryAssumption DEF PhoneOK, PendingIsHeld
<1>6. QED
  BY <1>1, <1>3, <1>4, <1>5 DEF PhoneOK, QueueIsOrdered

\* The worker takes the oldest report.
LEMMA Takes ==
  ASSUME PhoneOK, Take, worker.item = NoItem
  PROVE  PhoneOK' /\ worker'.pc = "ready" /\ worker'.item \in Items
<1>1. /\ queue # <<>> /\ queue' = Tail(queue) /\ fate' = fate
      /\ before' = [before EXCEPT ![Head(queue)] = {}]
      /\ worker' = [Resting EXCEPT !.pc = "ready", !.item = Head(queue)]
      /\ queue \in Seq(Items) /\ Ordered(queue, before)
      /\ before \in [Items -> SUBSET Items]
  BY DEF Take, PhoneOK, QueueIsOrdered
<1>2. /\ Head(queue) \in ToSet(queue) /\ queue' \in Seq(Items)
      /\ ToSet(queue') = ToSet(queue) \ {Head(queue)} /\ Ordered(queue', before)
  BY <1>1, TailOrdered
<1>3. Head(queue) \in Items /\ Len(queue') <= Capacity
  <2>1. Len(queue') = Len(queue) - 1 /\ Len(queue) \in Nat /\ Head(queue) \in Items
    BY <1>1, HeadTailProperties
  <2>2. QED
    BY <2>1, DeliveryAssumption DEF PhoneOK
<1>4. worker' \in Worker /\ worker'.pc = "ready" /\ worker'.item = Head(queue)
  BY <1>1, <1>3, ReadyIsWorker
<1>5. PendingIsHeld'
  <2>1. \A x \in Items : worker.item # x
    BY DeliveryAssumption
  <2>2. QED
    BY <1>1, <1>2, <1>4, <2>1 DEF PhoneOK, PendingIsHeld
<1>6. /\ before' \in [Items -> SUBSET Items] /\ ToSet(queue') \subseteq Items
      /\ \A x \in ToSet(queue') : before'[x] = before[x]
  <2>1. ToSet(queue) \subseteq Items
    BY <1>1 DEF ToSet
  <2>2. QED
    BY <1>1, <1>2, <1>3, <2>1
<1>7. Ordered(queue', before')
  BY <1>2, <1>6 DEF Ordered, ToSet
<1>8. FreshestSurvive'
  BY <1>1, <1>2, <1>6 DEF PhoneOK, FreshestSurvive
<1>9. QED
  BY <1>1, <1>2, <1>3, <1>4, <1>5, <1>6, <1>7, <1>8 DEF PhoneOK, QueueIsOrdered

\* The phone's process dies: what was pending is lost.
LEMMA Dies ==
  ASSUME PhoneOK, ProcessDies
  PROVE  PhoneOK' /\ worker' = Resting
         /\ \A x \in Items : fate'[x] = "accepted" => fate[x] = "accepted"
<1>1. /\ queue' = <<>> /\ worker' = Resting /\ before' = [i \in Items |-> {}]
      /\ fate' = [i \in Items |-> IF fate[i] = "pending" THEN "lost" ELSE fate[i]]
  BY DEF ProcessDies
<1>2. /\ fate' \in [Items -> Fates]
      /\ \A x \in Items : fate'[x] = IF fate[x] = "pending" THEN "lost" ELSE fate[x]
  BY <1>1 DEF PhoneOK, Fates
<1>3. queue' \in Seq(Items) /\ Len(queue') = 0 /\ ToSet(queue') = {} /\ Ordered(queue', before')
  BY <1>1 DEF ToSet, Ordered, IsInjective
<1>4. worker' \in Worker /\ worker'.item = NoItem
  BY <1>1, RestingIsWorker
<1>5. FreshestSurvive' /\ before' \in [Items -> SUBSET Items]
  BY <1>1, <1>3 DEF FreshestSurvive
<1>6. PendingIsHeld'
  BY <1>2, <1>3, <1>4, DeliveryAssumption DEF PendingIsHeld
<1>7. Len(queue') <= Capacity
  BY <1>3, DeliveryAssumption
<1>8. QED
  BY <1>1, <1>2, <1>3, <1>4, <1>5, <1>6, <1>7 DEF PhoneOK, QueueIsOrdered

\* A free request owes nothing.
LEMMA FreeIsOK ==
  /\ FreeRequest \in Request /\ FreeRequest.pc = "free" /\ FreeRequest.code = ""
  /\ \A c, s, r : RequestOK(FreeRequest, c, s, r)
<1>1. FreeRequest \in Request /\ FreeRequest.pc = "free" /\ FreeRequest.code = ""
  BY DEF FreeRequest, Request
<1>2. QED
  BY <1>1 DEF RequestOK

\* The phone moves, and at most one request with it.
LEMMA PhoneMoves ==
  ASSUME IInv, PhoneOK', UNCHANGED <<stored, call, rows>>,
         http' = http \/ \E h \in Calls, q \in Request :
                           /\ http' = [http EXCEPT ![h] = q]
                           /\ RequestOK(q, call[h], stored, rows),
         WorkerOK(worker', http'),
         \A x \in Items : fate'[x] = "accepted" =>
           fate[x] = "accepted" \/ InTables(x, stored, rows)
  PROVE  IInv'
<1>1. http' \in [Calls -> Request] /\ RequestsAreTrue'
  <2>1. CASE http' = http
    BY <2>1 DEF IInv, PathTypeOK, RequestsAreTrue
  <2>2. ASSUME NEW h \in Calls, NEW q \in Request, http' = [http EXCEPT ![h] = q],
               RequestOK(q, call[h], stored, rows)
        PROVE  http' \in [Calls -> Request] /\ RequestsAreTrue'
    <3>1. http'[h] = q /\ \A g \in Calls : g # h => http'[g] = http[g]
      BY <2>2 DEF IInv, PathTypeOK
    <3>2. http' \in [Calls -> Request]
      BY <2>2 DEF IInv, PathTypeOK
    <3>3. QED
      BY <2>2, <3>1, <3>2 DEF IInv, RequestsAreTrue
  <2>3. QED
    BY <2>1, <2>2
<1>2. PathTypeOK'
  BY <1>1 DEF IInv, PathTypeOK, PhoneOK
<1>3. CallsAreTrue' /\ call' \in [Calls -> Call]
  BY DEF IInv, CallsAreTrue
<1>4. AcceptedIsStored'
  BY DEF IInv, AcceptedIsStored, InTables
<1>5. QED
  BY <1>1, <1>2, <1>3, <1>4 DEF IInv, PhoneOK

\* A transient error: the worker tries again, or gives up.
LEMMA Transients ==
  ASSUME IInv, Transient, worker.pc \in {"ready", "waiting"}, UNCHANGED <<before, queue>>
  PROVE  /\ PhoneOK' /\ \A requests : WorkerOK(worker', requests)
         /\ \A x \in Items : fate'[x] = "accepted" => fate[x] = "accepted"
<1>1. /\ PhoneOK /\ worker \in Worker /\ worker.item \in Items
      /\ fate \in [Items -> Fates]
  BY PhoneState DEF IInv, WorkerOK, PhoneOK, Worker
<1>2. CASE Settle("abandoned")
  <2>1. worker' = Resting /\ fate' = [fate EXCEPT ![worker.item] = "abandoned"]
    BY <1>2 DEF Settle
  <2>2. PhoneOK'
    BY <1>1, <2>1, Settles
  <2>3. QED
    BY <1>1, <2>1, <2>2, RestingIsWorker DEF WorkerOK
<1>3. CASE /\ worker' = [worker EXCEPT !.pc = "backoff", !.on = NoItem,
                                       !.attempt = worker.attempt + 1]
           /\ fate' = fate
  <2> DEFINE n == worker.attempt + 1
  <2>0. n \in Nat
    BY <1>1 DEF Worker
  <2> HIDE DEF n
  <2>1. worker' \in Worker /\ worker'.pc = "backoff" /\ worker'.item = worker.item
    <3>1. worker' = [worker EXCEPT !.pc = "backoff", !.on = NoItem, !.attempt = n]
      BY <1>3 DEF n
    <3>2. QED
      BY <1>1, <2>0, <3>1 DEF Worker
  <2>2. PhoneOK'
    BY <1>1, <1>3, <2>1, GoesOn
  <2>3. worker'.item # NoItem
    BY <1>1, <2>1, DeliveryAssumption
  <2>4. QED
    BY <1>3, <2>1, <2>2, <2>3 DEF WorkerOK
<1>4. QED
  BY <1>2, <1>3 DEF Transient

\* Reports, and the steps of the worker that no answer is needed for.
LEMMA PhoneSteps ==
  ASSUME IInv,
         \/ \E i \in Items : Report(i)
         \/ Take \/ TimeOut \/ Misconfigured \/ BackoffEnds \/ ProcessDies
  PROVE  IInv'
<1>1. /\ PhoneOK /\ WorkerOK(worker, http) /\ worker \in Worker
  BY PhoneState DEF IInv, PhoneOK
<1>2. ASSUME NEW i \in Items, Report(i)
      PROVE  IInv'
  <2>1. UNCHANGED <<stored, call, rows, http, worker>>
    BY <1>2 DEF Report, pipelineVars
  <2>2. PhoneOK' /\ \A x \in Items : fate'[x] = "accepted" => fate[x] = "accepted"
    BY <1>1, <1>2, Reports
  <2>3. QED
    BY <1>1, <2>1, <2>2, PhoneMoves
<1>3. CASE Take
  <2>1. UNCHANGED <<stored, call, rows, http, fate>> /\ worker.item = NoItem
    BY <1>1, <1>3 DEF Take, pipelineVars, WorkerOK
  <2>2. PhoneOK' /\ worker'.pc = "ready" /\ worker'.item \in Items
    BY <1>1, <1>3, <2>1, Takes
  <2>3. WorkerOK(worker', http')
    BY <2>2, DeliveryAssumption DEF WorkerOK
  <2>4. QED
    BY <2>1, <2>2, <2>3, PhoneMoves
<1>4. CASE TimeOut
  <2>1. /\ UNCHANGED <<stored, call, rows, http, before, queue>> /\ Transient
        /\ worker.pc \in {"ready", "waiting"}
    BY <1>4 DEF TimeOut, pipelineVars
  <2>2. /\ PhoneOK' /\ WorkerOK(worker', http')
        /\ \A x \in Items : fate'[x] = "accepted" => fate[x] = "accepted"
    BY <2>1, Transients
  <2>3. QED
    BY <2>1, <2>2, PhoneMoves
<1>5. CASE BackoffEnds
  <2>1. /\ UNCHANGED <<stored, call, rows, http, before, fate, queue>>
        /\ worker.pc = "backoff" /\ worker' = [worker EXCEPT !.pc = "ready"]
    BY <1>5 DEF BackoffEnds, pipelineVars
  <2>2. worker' \in Worker /\ worker'.pc = "ready" /\ worker'.item = worker.item
    BY <1>1, <2>1 DEF Worker
  <2>3. PhoneOK' /\ WorkerOK(worker', http')
    BY <1>1, <2>1, <2>2, GoesOn DEF WorkerOK
  <2>4. QED
    BY <2>1, <2>3, PhoneMoves
<1>6. CASE ProcessDies
  <2>1. UNCHANGED <<stored, call, rows, http>>
    BY <1>6 DEF ProcessDies, pipelineVars
  <2>2. /\ PhoneOK' /\ WorkerOK(worker', http')
        /\ \A x \in Items : fate'[x] = "accepted" => fate[x] = "accepted"
    BY <1>1, <1>6, Dies, RestingIsWorker DEF WorkerOK
  <2>3. QED
    BY <2>1, <2>2, PhoneMoves
<1>7. CASE Misconfigured
  <2>1. /\ UNCHANGED <<stored, call, rows, http, before, queue>>
        /\ worker' = Resting /\ fate' = [fate EXCEPT ![worker.item] = "abandoned"]
        /\ worker.item \in Items /\ fate \in [Items -> Fates]
    BY <1>1, <1>7 DEF Misconfigured, Settle, pipelineVars, WorkerOK, Worker, PhoneOK
  <2>2. PhoneOK'
    BY <1>1, <2>1, Settles
  <2>3. QED
    BY <2>1, <2>2, RestingIsWorker, PhoneMoves DEF WorkerOK
<1>8. QED
  BY <1>2, <1>3, <1>4, <1>5, <1>6, <1>7

\* The worker makes a request.
LEMMA Posts ==
  ASSUME IInv, NEW h \in Calls, Post(h)
  PROVE  IInv'
<1> DEFINE q == [http[h] EXCEPT !.pc = "wire", !.item = worker.item]
           w == [worker EXCEPT !.pc = "waiting", !.on = h]
<1>1. /\ PhoneOK /\ worker \in Worker /\ worker.pc = "ready" /\ worker.item \in Items
      /\ http[h] \in Request /\ http[h].pc = "free"
      /\ RequestOK(http[h], call[h], stored, rows) /\ http \in [Calls -> Request]
  BY PhoneState DEF IInv, WorkerOK, PhoneOK, Worker, Post, PathTypeOK, RequestsAreTrue
<1>2. /\ worker' = w /\ http' = [http EXCEPT ![h] = q]
      /\ UNCHANGED <<stored, call, rows, before, fate, queue>>
  BY DEF Post, pipelineVars
<1>3. /\ q \in Request /\ q.pc = "wire" /\ q.item = worker.item /\ q.code = http[h].code
  BY <1>1 DEF Request
<1>4. w \in Worker /\ w.pc = "waiting" /\ w.item = worker.item /\ w.on = h
  BY <1>1 DEF Worker
<1> HIDE DEF q, w
<1>5. RequestOK(q, call[h], stored, rows)
  BY <1>1, <1>3 DEF RequestOK
<1>6. PhoneOK'
  BY <1>1, <1>2, <1>4, GoesOn
<1>7. WorkerOK(worker', http')
  <2>1. http'[h] = q
    BY <1>1, <1>2
  <2>2. QED
    BY <1>1, <1>2, <1>3, <1>4, <2>1, DeliveryAssumption DEF WorkerOK
<1>8. QED
  BY <1>2, <1>3, <1>5, <1>6, <1>7, PhoneMoves

\* An answer in time: what it accepts is in the tables.
LEMMA AnswersMove ==
  ASSUME IInv, NEW h \in Calls, Answer(h)
  PROVE  IInv'
<1>1. /\ PhoneOK /\ worker.pc = "waiting" /\ worker.item \in Items
      /\ http[h].pc = "answered" /\ http[h].item = worker.item
      /\ RequestOK(http[h], call[h], stored, rows) /\ fate \in [Items -> Fates]
  BY PhoneState DEF IInv, WorkerOK, PhoneOK, Worker, Answer, RequestsAreTrue
<1>2. /\ http' = [http EXCEPT ![h] = FreeRequest]
      /\ UNCHANGED <<stored, call, rows, before, queue>>
  BY DEF Answer, pipelineVars
<1>3. ASSUME NEW f \in {"accepted", "refused"}, Settle(f),
             f = "accepted" => http[h].code = "2xx"
      PROVE  IInv'
  <2>1. worker' = Resting /\ fate' = [fate EXCEPT ![worker.item] = f]
    BY <1>3 DEF Settle
  <2>2. PhoneOK'
    BY <1>1, <1>2, <2>1, Settles
  <2>3. WorkerOK(worker', http')
    BY <2>1, RestingIsWorker DEF WorkerOK
  <2>4. f = "accepted" => InTables(worker.item, stored, rows)
    BY <1>1, <1>3 DEF RequestOK
  <2>5. \A x \in Items : fate'[x] = "accepted" =>
          fate[x] = "accepted" \/ InTables(x, stored, rows)
    BY <1>1, <2>1, <2>4
  <2>6. QED
    BY <1>2, <2>2, <2>3, <2>5, FreeIsOK, PhoneMoves
<1>4. CASE Transient
  <2>1. /\ PhoneOK' /\ WorkerOK(worker', http')
        /\ \A x \in Items : fate'[x] = "accepted" => fate[x] = "accepted"
    BY <1>1, <1>2, <1>4, Transients
  <2>2. QED
    BY <1>2, <2>1, FreeIsOK, PhoneMoves
<1>5. QED
  BY <1>3, <1>4 DEF Answer
-----------------------------------------------------------------------------
(***************************************************************************)
(* The connector.                                                          *)
(***************************************************************************)

\* What a request's steps rely on.
LEMMA OneRequest ==
  ASSUME IInv, NEW h \in Calls
  PROVE  /\ http[h] \in Request /\ RequestOK(http[h], call[h], stored, rows)
         /\ call[h] \in Call /\ CallOK(call[h], stored)
         /\ call' = call => call' = [call EXCEPT ![h] = call[h]]
BY DEF IInv, PathTypeOK, RequestsAreTrue, CallsAreTrue

\* What is kept stays kept.
LEMMA KeptStays ==
  ASSUME NEW i \in Items, NEW s, NEW t, NEW r \in [Snapshots -> Nat],
         NEW u \in [Snapshots -> Nat], s \subseteq t,
         \A x \in Snapshots : r[x] > 0 => u[x] > 0, InTables(i, s, r)
  PROVE  InTables(i, t, u)
BY DEF InTables, Items

\* A request that moves in the connector, with its call and its row.
LEMMA RequestMoves ==
  ASSUME IInv, NEW h \in Calls, NEW q \in Request, NEW c \in Call,
         http' = [http EXCEPT ![h] = q], call' = [call EXCEPT ![h] = c],
         UNCHANGED <<stored, phoneVars>>, rows' \in [Snapshots -> Nat],
         \A t \in Snapshots : rows[t] > 0 => rows'[t] > 0,
         CallOK(c, stored), RequestOK(q, c, stored, rows'),
         http[h].pc # "free", q.pc # "free" => q.item = http[h].item
  PROVE  IInv'
<1>1. /\ http'[h] = q /\ \A g \in Calls : g # h => http'[g] = http[g]
      /\ call'[h] = c /\ \A g \in Calls : g # h => call'[g] = call[g]
      /\ http' \in [Calls -> Request] /\ call' \in [Calls -> Call]
  BY DEF IInv, PathTypeOK
<1>2. UNCHANGED <<stored, before, fate, queue, worker>> /\ rows \in [Snapshots -> Nat]
  BY DEF phoneVars, IInv, PathTypeOK
<1>3. PathTypeOK'
  BY <1>1, <1>2 DEF IInv, PathTypeOK
<1>4. QueueIsOrdered' /\ FreshestSurvive' /\ PendingIsHeld'
  BY <1>2 DEF IInv, QueueIsOrdered, FreshestSurvive, PendingIsHeld
<1>5. AcceptedIsStored'
  <2>1. ASSUME NEW i \in Items, fate[i] = "accepted"
        PROVE  InTables(i, stored, rows')
    <3>1. InTables(i, stored, rows)
      BY <2>1 DEF IInv, AcceptedIsStored, InTables
    <3>2. QED
      BY <1>2, <3>1, KeptStays
  <2>2. QED
    BY <1>2, <2>1 DEF AcceptedIsStored, InTables
<1>6. WorkerOK(worker', http')
  BY <1>1, <1>2 DEF IInv, WorkerOK
<1>7. RequestsAreTrue'
  <2>1. ASSUME NEW g \in Calls, g # h
        PROVE  RequestOK(http[g], call[g], stored, rows')
    <3>1. RequestOK(http[g], call[g], stored, rows)
      BY DEF IInv, RequestsAreTrue
    <3>2. http[g].code = "2xx" => InTables(http[g].item, stored, rows')
      BY <1>2, <3>1, KeptStays DEF RequestOK
    <3>3. QED
      BY <3>1, <3>2 DEF RequestOK
  <2>2. \A g \in Calls : RequestOK(http'[g], call'[g], stored, rows')
    BY <1>1, <2>1
  <2>3. QED
    BY <1>2, <2>2 DEF RequestsAreTrue
<1>8. CallsAreTrue'
  BY <1>1, <1>2 DEF IInv, CallsAreTrue
<1>9. QED
  BY <1>1, <1>3, <1>4, <1>5, <1>6, <1>7, <1>8 DEF IInv

\* A request is lost, refused, about to be resolved, fails, or ends.
LEMMA QuietRequests ==
  ASSUME IInv, NEW h \in Calls,
         Arrive(h) \/ LoseRequest(h) \/ ResolveFails(h) \/ DropResponse(h)
  PROVE  IInv'
<1> DEFINE answered(a) == [http[h] EXCEPT !.pc = "answered", !.code = a]
           resolved == [http[h] EXCEPT !.pc = "resolve"]
<1>1. /\ http[h] \in Request /\ RequestOK(http[h], call[h], stored, rows)
      /\ call[h] \in Call /\ CallOK(call[h], stored) /\ rows \in [Snapshots -> Nat]
  BY OneRequest DEF IInv, PathTypeOK
<1>2. /\ UNCHANGED <<stored, call, rows, phoneVars>> /\ http[h].pc # "free"
      /\ \/ http' = [http EXCEPT ![h] = FreeRequest]
         \/ http' = [http EXCEPT ![h] = answered("4xx")]
         \/ http' = [http EXCEPT ![h] = answered("5xx")]
         \/ http[h].pc = "wire" /\ http' = [http EXCEPT ![h] = resolved]
  BY DEF Arrive, LoseRequest, ResolveFails, DropResponse, Respond, pipelineVars
<1>3. call' = [call EXCEPT ![h] = call[h]] /\ \A t \in Snapshots : rows'[t] = rows[t]
  BY <1>2, OneRequest
<1>4. ASSUME NEW q \in Request, http' = [http EXCEPT ![h] = q],
             RequestOK(q, call[h], stored, rows), q.pc # "free" => q.item = http[h].item
      PROVE  IInv'
  BY <1>1, <1>2, <1>3, <1>4, RequestMoves
<1>5. CASE http' = [http EXCEPT ![h] = FreeRequest]
  BY <1>4, <1>5, FreeIsOK
<1>6. ASSUME NEW a \in {"4xx", "5xx"}, http' = [http EXCEPT ![h] = answered(a)]
      PROVE  IInv'
  <2>1. /\ answered(a) \in Request /\ answered(a).pc = "answered"
        /\ answered(a).item = http[h].item /\ answered(a).code = a
    BY <1>1 DEF Request
  <2> HIDE DEF answered
  <2>2. RequestOK(answered(a), call[h], stored, rows)
    BY <1>1, <1>2, <2>1 DEF RequestOK
  <2>3. QED
    BY <1>4, <1>6, <2>1, <2>2
<1>7. CASE http[h].pc = "wire" /\ http' = [http EXCEPT ![h] = resolved]
  <2>1. /\ resolved \in Request /\ resolved.pc = "resolve"
        /\ resolved.item = http[h].item /\ resolved.code = http[h].code
    BY <1>1 DEF Request
  <2> HIDE DEF resolved
  <2>2. RequestOK(resolved, call[h], stored, rows)
    BY <1>1, <1>7, <2>1 DEF RequestOK
  <2>3. QED
    BY <1>4, <1>7, <2>1, <2>2
<1>8. QED
  BY <1>2, <1>5, <1>6, <1>7

\* The device is resolved: an event enters the pipeline.
LEMMA ResolveMoves ==
  ASSUME IInv, NEW h \in Calls, ResolveDevice(h)
  PROVE  IInv'
<1> DEFINE q == [http[h] EXCEPT !.pc = "accept"]
           i == http[h].item
<1>1. /\ http[h] \in Request /\ RequestOK(http[h], call[h], stored, rows)
      /\ call[h] \in Call /\ CallOK(call[h], stored) /\ rows \in [Snapshots -> Nat]
  BY OneRequest DEF IInv, PathTypeOK
<1>2. /\ http[h].pc = "resolve" /\ http' = [http EXCEPT ![h] = q]
      /\ UNCHANGED <<phoneVars, rows>>
  BY DEF ResolveDevice
<1>3. /\ q \in Request /\ q.pc = "accept" /\ q.item = i /\ q.code = http[h].code
      /\ q.code # "2xx" /\ i \in Items
  BY <1>1, <1>2 DEF Request, RequestOK
<1> HIDE DEF q
<1>4. PICK c \in Call : /\ call' = [call EXCEPT ![h] = c] /\ stored' = stored
                             /\ CallOK(c, stored) /\ (i \in Events => c.event = i)
  <2>1. CASE i \in Events
    <3> DEFINE c == IF i \in Malformed
                    THEN [pc |-> "answered", event |-> i, answer |-> "rejected"]
                    ELSE [pc |-> "insert", event |-> i, answer |-> ""]
    <3>1. c \in Call /\ c.event = i /\ CallOK(c, stored)
      BY <2>1 DEF Call, Answers, CallOK
    <3>2. call' = [call EXCEPT ![h] = c] /\ stored' = stored
      BY <2>1 DEF ResolveDevice, Accept
    <3> HIDE DEF c
    <3>3. QED
      BY <3>1, <3>2
  <2>2. CASE i \notin Events
    BY <1>1, <2>2, OneRequest DEF ResolveDevice, pipelineVars
  <2>3. QED
    BY <2>1, <2>2
<1>5. RequestOK(q, c, stored, rows)
  BY <1>3, <1>4 DEF RequestOK
<1>6. QED
  BY <1>1, <1>2, <1>3, <1>4, <1>5, RequestMoves

\* The row of a snapshot is written, and its request answered.
LEMMA InsertMoves ==
  ASSUME IInv, NEW h \in Calls, NEW ok \in BOOLEAN, NEW committed \in BOOLEAN,
         InsertTelemetry(h, ok, committed)
  PROVE  IInv'
<1> DEFINE t == http[h].item
           a == IF ok THEN "2xx" ELSE "5xx"
           q == [http[h] EXCEPT !.pc = "answered", !.code = a]
           n == rows[t] + 1
<1>1. /\ http[h] \in Request /\ RequestOK(http[h], call[h], stored, rows)
      /\ call[h] \in Call /\ CallOK(call[h], stored) /\ rows \in [Snapshots -> Nat]
  BY OneRequest DEF IInv, PathTypeOK
<1>2. /\ http[h].pc = "accept" /\ t \in Snapshots /\ (ok => committed)
      /\ rows' = IF committed THEN [rows EXCEPT ![t] = n] ELSE rows
      /\ http' = [http EXCEPT ![h] = q] /\ UNCHANGED <<stored, call, phoneVars>>
  BY DEF InsertTelemetry, Respond, pipelineVars
<1>3. q \in Request /\ q.pc = "answered" /\ q.item = t /\ q.code = a
  BY <1>1 DEF Request
<1>4. n \in Nat /\ n > 0
  BY <1>1, <1>2
<1> HIDE DEF q, n
<1>5. /\ rows' \in [Snapshots -> Nat] /\ \A x \in Snapshots : rows[x] > 0 => rows'[x] > 0
      /\ committed => rows'[t] > 0
  BY <1>1, <1>2, <1>4
<1>6. t \in Items /\ t \notin Events
  BY <1>2, DeliveryAssumption DEF Items
<1>7. RequestOK(q, call[h], stored, rows')
  BY <1>2, <1>3, <1>5, <1>6 DEF RequestOK, InTables
<1>8. QED
  BY <1>1, <1>2, <1>3, <1>5, <1>7, OneRequest, RequestMoves

\* Accept's result becomes the answer: a success for what is stored.
LEMMA ReturnMoves ==
  ASSUME IInv, NEW h \in Calls, AcceptReturns(h)
  PROVE  IInv'
<1> DEFINE i == http[h].item
           a == CASE call[h].answer = "rejected" -> "4xx"
                  [] call[h].answer = "error"    -> "5xx"
                  [] OTHER                       -> "2xx"
           q == [http[h] EXCEPT !.pc = "answered", !.code = a]
<1>1. /\ http[h] \in Request /\ RequestOK(http[h], call[h], stored, rows)
      /\ call[h] \in Call /\ CallOK(call[h], stored) /\ rows \in [Snapshots -> Nat]
  BY OneRequest DEF IInv, PathTypeOK
<1>2. /\ http[h].pc = "accept" /\ i \in Events /\ call[h].pc = "answered"
      /\ call' = [call EXCEPT ![h] = FreeCall] /\ http' = [http EXCEPT ![h] = q]
      /\ UNCHANGED <<stored, rows, phoneVars>>
  BY DEF AcceptReturns, Respond, Return
<1>3. a \in {"4xx", "5xx", "2xx"} /\ (a = "2xx" => call[h].answer \notin {"rejected", "error"})
  OBVIOUS
<1> HIDE DEF a
<1>4. a = "2xx" => i \in stored
  <2>1. call[h].answer \in {"stored", "duplicate", "rejected", "error"} /\ call[h].event = i
    BY <1>1, <1>2 DEF CallOK, Call, Answers, RequestOK
  <2>2. QED
    BY <1>1, <1>3, <2>1 DEF CallOK
<1>5. q \in Request /\ q.pc = "answered" /\ q.item = i /\ q.code = a
  BY <1>1, <1>3 DEF Request
<1> HIDE DEF q
<1>6. RequestOK(q, FreeCall, stored, rows)
  BY <1>2, <1>4, <1>5 DEF RequestOK, InTables, Items
<1>7. FreeCall \in Call /\ CallOK(FreeCall, stored)
  BY DEF FreeCall, Call, Answers, CallOK
<1>8. QED
  BY <1>1, <1>2, <1>5, <1>6, <1>7, RequestMoves

\* Inside Accept.
LEMMA CallMoves ==
  ASSUME IInv, NEW h \in Calls, CallStep(h), UNCHANGED <<phoneVars, http, rows>>
  PROVE  IInv'
<1>a. call \in [Calls -> Call] /\ call[h] \in Call /\ CallOK(call[h], stored)
  BY OneRequest DEF IInv
<1>2. PICK c \in Call : /\ call' = [call EXCEPT ![h] = c] /\ c.event = call[h].event
                             /\ CallOK(c, stored') /\ stored \subseteq stored'
  <2> DEFINE answered(x) == [call[h] EXCEPT !.pc = "answered", !.answer = x]
             inserted == [call[h] EXCEPT !.pc = "publish"]
             e == call[h].event
  <2>1. /\ \A x \in {"stored", "duplicate", "error"} :
             /\ answered(x) \in Call /\ answered(x).event = e
             /\ answered(x).pc = "answered" /\ answered(x).answer = x
        /\ inserted \in Call /\ inserted.event = e
        /\ inserted.pc = "publish" /\ inserted.answer = call[h].answer
    BY <1>a DEF Call, Answers
  <2>2. CASE InsertHazardEvent(h) /\ e \in stored
    <3>1. call' = [call EXCEPT ![h] = answered("duplicate")] /\ stored' = stored
      BY <2>2 DEF InsertHazardEvent, Answered
    <3> HIDE DEF answered
    <3>2. QED
      BY <2>1, <2>2, <3>1 DEF CallOK
  <2>3. CASE InsertHazardEvent(h) /\ e \notin stored
    <3>1. call' = [call EXCEPT ![h] = inserted] /\ stored' = stored \cup {e}
      BY <2>3 DEF InsertHazardEvent
    <3> HIDE DEF inserted
    <3>2. QED
      BY <1>a, <2>1, <3>1 DEF CallOK
  <2>4. CASE Publish(h)
    <3>1. /\ call' = [call EXCEPT ![h] = answered("stored")] /\ stored' = stored
          /\ e \in stored
      BY <1>a, <2>4 DEF Publish, Answered, CallOK
    <3> HIDE DEF answered
    <3>2. QED
      BY <2>1, <3>1 DEF CallOK
  <2>5. CASE \E committed \in BOOLEAN : InsertFails(h, committed)
    <3>1. call' = [call EXCEPT ![h] = answered("error")] /\ stored \subseteq stored'
      BY <2>5 DEF InsertFails, Answered
    <3> HIDE DEF answered
    <3>2. QED
      BY <2>1, <3>1 DEF CallOK
  <2>6. QED
    BY <2>2, <2>3, <2>4, <2>5 DEF CallStep
<1>3. UNCHANGED <<before, fate, queue, worker, http, rows>>
  BY DEF phoneVars
<1>4. /\ call'[h] = c /\ \A g \in Calls : g # h => call'[g] = call[g]
      /\ call' \in [Calls -> Call] /\ rows \in [Snapshots -> Nat]
  BY <1>a, <1>2 DEF IInv, PathTypeOK
<1>5. /\ PathTypeOK' /\ QueueIsOrdered' /\ FreshestSurvive' /\ PendingIsHeld'
      /\ WorkerOK(worker', http')
  BY <1>3 DEF IInv, PathTypeOK, QueueIsOrdered, FreshestSurvive, PendingIsHeld
<1>6. AcceptedIsStored'
  BY <1>2, <1>3 DEF IInv, AcceptedIsStored
<1>7. RequestsAreTrue'
  <2>1. ASSUME NEW g \in Calls
        PROVE  RequestOK(http[g], call'[g], stored', rows)
    <3>1. RequestOK(http[g], call[g], stored, rows) /\ call'[g].event = call[g].event
      BY <1>2, <1>4 DEF IInv, RequestsAreTrue
    <3>2. QED
      BY <1>2, <3>1 DEF RequestOK, InTables
  <2>2. QED
    BY <1>3, <2>1 DEF RequestsAreTrue
<1>8. CallsAreTrue'
  <2>1. ASSUME NEW g \in Calls, g # h
        PROVE  CallOK(call[g], stored')
    BY <1>2 DEF IInv, CallsAreTrue, CallOK
  <2>2. QED
    BY <1>2, <1>4, <2>1 DEF CallsAreTrue
<1>9. QED
  BY <1>4, <1>5, <1>6, <1>7, <1>8 DEF IInv

\* A stream touches no request, no call and no table.
LEMMA StreamMoves ==
  ASSUME IInv, NEW s \in Streams, StreamStep(s), UNCHANGED <<phoneVars, http, rows>>
  PROVE  IInv'
BY DEF StreamStep, Subscribe, Send, Cancel, phoneVars, IInv, PathTypeOK, QueueIsOrdered,
       FreshestSurvive, PendingIsHeld, AcceptedIsStored, RequestsAreTrue, CallsAreTrue

\* The connector starts again, without requests and calls.
LEMMA RestartMoves ==
  ASSUME IInv, ConnectorRestarts
  PROVE  IInv'
<1>1. /\ \A h \in Calls : http'[h] = FreeRequest /\ call'[h] = FreeCall
      /\ http' \in [Calls -> Request] /\ call' \in [Calls -> Call]
      /\ UNCHANGED <<stored, before, fate, queue, worker, rows>>
  <2>1. FreeCall \in Call
    BY DEF FreeCall, Call, Answers
  <2>2. QED
    BY <2>1, FreeIsOK DEF ConnectorRestarts, Restart, phoneVars
<1>2. \A s : CallOK(FreeCall, s)
  BY DEF FreeCall, CallOK
<1>3. /\ PathTypeOK' /\ QueueIsOrdered' /\ FreshestSurvive' /\ PendingIsHeld'
      /\ AcceptedIsStored'
  BY <1>1 DEF IInv, PathTypeOK, QueueIsOrdered, FreshestSurvive, PendingIsHeld,
              AcceptedIsStored
<1>4. WorkerOK(worker', http')
  BY <1>1, FreeIsOK DEF IInv, WorkerOK
<1>5. RequestsAreTrue' /\ CallsAreTrue'
  BY <1>1, <1>2, FreeIsOK DEF RequestsAreTrue, CallsAreTrue
<1>6. QED
  BY <1>1, <1>3, <1>4, <1>5 DEF IInv
-----------------------------------------------------------------------------
(***************************************************************************)
(* Invariance.                                                             *)
(***************************************************************************)

\* Nothing is reported yet.
LEMMA InitialStates == PathInit => IInv
<1> SUFFICES ASSUME PathInit PROVE IInv
  OBVIOUS
<1>1. /\ before = [i \in Items |-> {}] /\ queue = <<>> /\ worker = Resting
      /\ fate = [i \in Items |-> "unreported"] /\ rows = [t \in Snapshots |-> 0]
      /\ \A h \in Calls : http[h] = FreeRequest /\ call[h] = FreeCall
  BY DEF PathInit, Init
<1>2. FreeCall \in Call /\ \A s : CallOK(FreeCall, s)
  BY DEF FreeCall, Call, Answers, CallOK
<1>3. http \in [Calls -> Request] /\ call \in [Calls -> Call]
  BY <1>2, FreeIsOK DEF PathInit, Init
<1>4. /\ before \in [Items -> SUBSET Items] /\ queue \in Seq(Items)
      /\ Len(queue) = 0 /\ ToSet(queue) = {} /\ Ordered(queue, before)
  BY <1>1 DEF ToSet, Ordered, IsInjective
<1>5. PathTypeOK
  <2>1. fate \in [Items -> Fates] /\ rows \in [Snapshots -> Nat]
    BY <1>1 DEF Fates
  <2>2. Len(queue) <= Capacity
    BY <1>4, DeliveryAssumption
  <2>3. worker \in Worker
    BY <1>1, RestingIsWorker
  <2>4. QED
    BY <1>3, <1>4, <2>1, <2>2, <2>3 DEF PathTypeOK
<1>6. FreshestSurvive /\ PendingIsHeld /\ AcceptedIsStored
  BY <1>1, <1>4, RestingIsWorker, DeliveryAssumption
     DEF FreshestSurvive, PendingIsHeld, AcceptedIsStored
<1>7. WorkerOK(worker, http) /\ RequestsAreTrue /\ CallsAreTrue
  <2>1. WorkerOK(worker, http)
    BY <1>1, RestingIsWorker DEF WorkerOK
  <2>2. RequestsAreTrue /\ CallsAreTrue
    BY <1>1, <1>2, FreeIsOK DEF RequestsAreTrue, CallsAreTrue
  <2>3. QED
    BY <2>1, <2>2
<1>8. QED
  BY <1>3, <1>4, <1>5, <1>6, <1>7 DEF IInv, QueueIsOrdered

\* Every step keeps the invariant.
LEMMA Steps == IInv /\ [PathNext]_vars => IInv'
<1> SUFFICES ASSUME IInv, [PathNext]_vars
             PROVE  IInv'
  OBVIOUS
<1>1. CASE UNCHANGED vars
  BY <1>1 DEF vars, pipelineVars, phoneVars, IInv, PathTypeOK, QueueIsOrdered, FreshestSurvive,
              PendingIsHeld, AcceptedIsStored, RequestsAreTrue, CallsAreTrue
<1>2. CASE PathNext
  BY <1>2, PhoneSteps, Posts, AnswersMove, QuietRequests, ResolveMoves, InsertMoves,
     ReturnMoves, CallMoves, StreamMoves, RestartMoves
     DEF PathNext, WorkerStep, RequestStep, PipelineStep
<1>3. QED
  BY <1>1, <1>2

\* The inductive invariant holds throughout.
THEOREM Invariance == PathSpec => []IInv
BY InitialStates, Steps, PTL DEF PathSpec

-----------------------------------------------------------------------------
(***************************************************************************)
(* The copies of a snapshot, counted on top of the invariant.              *)
(***************************************************************************)

UnderWay == {"wire", "resolve", "accept"}

\* Requests that may still write a row for t.
Carrying(t) == {h \in Calls : http[h].item = t /\ http[h].pc \in UnderWay}

\* Attempts the worker has made to deliver t, or may have made.
Made(t) ==
  IF worker.item = t
  THEN IF worker.pc = "waiting" THEN worker.attempt + 1 ELSE worker.attempt
  ELSE IF fate[t] \in {"unreported", "pending"} THEN 0 ELSE SnapshotAttempts

\* Every row, and every request that may write one, is an attempt.
CopiesOK(t) ==
  /\ IsFiniteSet(Carrying(t)) /\ rows[t] + Cardinality(Carrying(t)) <= Made(t)
  /\ worker.item = t => worker.attempt < SnapshotAttempts

CopiesAreCounted == \A t \in Snapshots : CopiesOK(t)

\* The numbers in it.
LEMMA Counts ==
  ASSUME IInv, NEW t \in Snapshots, CopiesOK(t)
  PROVE  /\ rows[t] \in Nat /\ Cardinality(Carrying(t)) \in Nat /\ Made(t) \in Nat
         /\ worker.attempt \in Nat /\ Made(t) <= SnapshotAttempts
         /\ SnapshotAttempts \in Nat \ {0}
<1>1. rows[t] \in Nat /\ worker.attempt \in Nat
  BY DEF IInv, PathTypeOK, Worker
<1>2. Cardinality(Carrying(t)) \in Nat
  BY FS_CardinalityType DEF CopiesOK
<1>3. SnapshotAttempts \in Nat \ {0}
  BY DeliveryAssumption
<1>4. Made(t) \in Nat /\ Made(t) <= SnapshotAttempts
  BY <1>1, <1>3 DEF Made, CopiesOK
<1>5. QED
  BY <1>1, <1>2, <1>3, <1>4

\* No request sets out, and no attempt is forgotten.
LEMMA CopiesStay ==
  ASSUME IInv, IInv', NEW t \in Snapshots, CopiesOK(t), Carrying(t)' \subseteq Carrying(t),
         rows'[t] = rows[t], Made(t) <= Made(t)', Made(t)' \in Nat,
         worker'.item = t => worker'.attempt < SnapshotAttempts
  PROVE  CopiesOK(t)'
<1>1. /\ IsFiniteSet(Carrying(t)') /\ Cardinality(Carrying(t)') <= Cardinality(Carrying(t))
      /\ Cardinality(Carrying(t)') \in Nat
  BY FS_Subset, FS_CardinalityType DEF CopiesOK
<1>2. rows[t] + Cardinality(Carrying(t)') <= Made(t)'
  BY <1>1, Counts DEF CopiesOK
<1>3. QED
  BY <1>1, <1>2 DEF CopiesOK

\* The connector's steps.
LEMMA ConnectorCopies ==
  ASSUME IInv, IInv', NEW t \in Snapshots, CopiesOK(t),
         (\E h \in Calls : RequestStep(h)) \/ PipelineStep \/ ConnectorRestarts
  PROVE  CopiesOK(t)'
<1>1. UNCHANGED <<fate, worker>>
  BY DEF RequestStep, Arrive, LoseRequest, ResolveDevice, ResolveFails, InsertTelemetry,
         AcceptReturns, DropResponse, PipelineStep, ConnectorRestarts, phoneVars
<1>2. Made(t)' = Made(t) /\ Made(t) \in Nat /\ Made(t) <= Made(t)'
  BY <1>1, Counts DEF Made
<1>3. ASSUME NEW h \in Calls, NEW ok \in BOOLEAN, NEW committed \in BOOLEAN,
             InsertTelemetry(h, ok, committed)
      PROVE  CopiesOK(t)'
  <2>1. /\ http[h].pc = "accept" /\ http[h].item \in Snapshots /\ http[h] \in Request
        /\ http'[h].pc = "answered" /\ \A g \in Calls : g # h => http'[g] = http[g]
    <3>1. http' = [http EXCEPT ![h] = [http[h] EXCEPT !.pc = "answered",
                                                      !.code = IF ok THEN "2xx" ELSE "5xx"]]
      BY <1>3 DEF InsertTelemetry, Respond
    <3>2. http[h] \in Request /\ http \in [Calls -> Request]
      BY DEF IInv, PathTypeOK
    <3>3. QED
      BY <1>3, <3>1, <3>2 DEF InsertTelemetry, Request
  <2>2. Carrying(t)' = Carrying(t) \ {h}
    BY <2>1 DEF Carrying, UnderWay
  <2>3. CASE http[h].item # t
    <3>1. rows'[t] = rows[t]
      BY <1>3, <2>3 DEF InsertTelemetry, IInv, PathTypeOK
    <3>2. QED
      BY <1>1, <1>2, <2>2, <3>1, CopiesStay DEF CopiesOK
  <2>4. CASE http[h].item = t
    <3>1. h \in Carrying(t)
      BY <2>1, <2>4 DEF Carrying, UnderWay
    <3>2. /\ IsFiniteSet(Carrying(t)')
          /\ Cardinality(Carrying(t)') = Cardinality(Carrying(t)) - 1
      BY <2>2, <3>1, FS_RemoveElement DEF CopiesOK
    <3>3. rows'[t] \in Nat /\ rows'[t] <= rows[t] + 1
      BY <1>3, <2>4, Counts DEF InsertTelemetry, IInv, PathTypeOK
    <3>4. rows'[t] + Cardinality(Carrying(t)') <= Made(t)'
      BY <1>2, <3>2, <3>3, Counts DEF CopiesOK
    <3>5. QED
      BY <1>1, <3>2, <3>4 DEF CopiesOK
  <2>5. QED
    BY <2>3, <2>4
<1>4. ASSUME rows' = rows, \A h \in Calls : \/ http'[h] = http[h] \/ http'[h].pc \notin UnderWay
                                           \/ /\ http[h].pc \in UnderWay
                                              /\ http'[h].item = http[h].item
      PROVE  CopiesOK(t)'
  <2>1. Carrying(t)' \subseteq Carrying(t)
    BY <1>4 DEF Carrying
  <2>2. QED
    BY <1>1, <1>2, <1>4, <2>1, CopiesStay DEF CopiesOK
<1>5. ASSUME NEW h \in Calls,
             \/ Arrive(h) \/ LoseRequest(h) \/ ResolveDevice(h) \/ ResolveFails(h)
             \/ AcceptReturns(h) \/ DropResponse(h)
      PROVE  CopiesOK(t)'
  <2>1. PICK q : /\ http' = [http EXCEPT ![h] = q]
                 /\ \/ q.pc \notin UnderWay
                    \/ http[h].pc \in UnderWay /\ q.item = http[h].item
    <3>1. http[h] \in Request
      BY DEF IInv, PathTypeOK
    <3>2. \A p \in {"resolve", "accept", "answered"} :
            [http[h] EXCEPT !.pc = p].item = http[h].item
      BY <3>1 DEF Request
    <3>3. \A code : [http[h] EXCEPT !.pc = "answered", !.code = code].pc = "answered"
      BY <3>1 DEF Request
    <3>4. \/ /\ http[h].pc \in UnderWay
             /\ \E p \in {"resolve", "accept"} :
                  http' = [http EXCEPT ![h] = [http[h] EXCEPT !.pc = p]]
          \/ http' = [http EXCEPT ![h] = FreeRequest]
          \/ \E code :
               http' = [http EXCEPT ![h] = [http[h] EXCEPT !.pc = "answered", !.code = code]]
      BY <1>5 DEF Arrive, LoseRequest, ResolveDevice, ResolveFails, AcceptReturns,
                  DropResponse, Respond, UnderWay
    <3>5. QED
      BY <3>2, <3>3, <3>4, FreeIsOK DEF UnderWay
  <2>2. rows' = rows
    BY <1>5 DEF Arrive, LoseRequest, ResolveDevice, ResolveFails, AcceptReturns, DropResponse
  <2>3. http'[h] = q /\ \A g \in Calls : g # h => http'[g] = http[g]
    BY <2>1 DEF IInv, PathTypeOK
  <2>4. QED
    BY <1>4, <2>1, <2>2, <2>3
<1>6. CASE PipelineStep
  BY <1>4, <1>6 DEF PipelineStep
<1>7. CASE ConnectorRestarts
  <2>1. rows' = rows /\ \A h \in Calls : http'[h].pc \notin UnderWay
    BY <1>7, FreeIsOK DEF ConnectorRestarts, UnderWay
  <2>2. QED
    BY <1>4, <2>1
<1>8. QED
  BY <1>3, <1>5, <1>6, <1>7 DEF RequestStep

\* A worker that goes on, or is done, with t, and a report whose fate changes.
LEMMA PhoneCopies ==
  ASSUME IInv, IInv', NEW t \in Snapshots, CopiesOK(t), rows' = rows,
         Carrying(t)' \subseteq Carrying(t),
         \/ /\ worker'.item # t /\ fate'[t] \notin {"unreported", "pending"}
         \/ /\ worker.item = t /\ worker'.item = t /\ worker'.attempt < SnapshotAttempts
            /\ worker'.attempt \in Nat
            /\ \/ worker'.attempt = worker.attempt + 1
               \/ worker'.attempt = worker.attempt /\ worker.pc # "waiting"
         \/ /\ worker.item # t /\ fate[t] \in {"unreported", "pending"}
            /\ worker'.item = t => worker'.attempt = 0
         \/ worker.item # t /\ worker'.item # t /\ fate'[t] = fate[t]
  PROVE  CopiesOK(t)'
<1>1. /\ Made(t) \in Nat /\ Made(t) <= SnapshotAttempts /\ SnapshotAttempts \in Nat \ {0}
      /\ worker.attempt \in Nat
  BY Counts
<1>2. worker'.item = t => worker'.attempt < SnapshotAttempts
  BY <1>1
<1>3. Made(t)' \in Nat /\ Made(t) <= Made(t)'
  <2>1. CASE worker'.item # t /\ fate'[t] \notin {"unreported", "pending"}
    BY <1>1, <2>1 DEF Made
  <2>2. CASE /\ worker.item = t /\ worker'.item = t /\ worker'.attempt \in Nat
             /\ worker'.attempt = worker.attempt + 1
    BY <1>1, <2>2 DEF Made
  <2>3. CASE /\ worker.item = t /\ worker'.item = t /\ worker'.attempt \in Nat
             /\ worker'.attempt = worker.attempt /\ worker.pc # "waiting"
    BY <1>1, <2>3 DEF Made
  <2>4. CASE /\ worker.item # t /\ fate[t] \in {"unreported", "pending"}
             /\ worker'.item = t => worker'.attempt = 0
    BY <1>1, <2>4 DEF Made
  <2>5. CASE worker.item # t /\ worker'.item # t /\ fate'[t] = fate[t]
    BY <1>1, <2>5 DEF Made
  <2>6. QED
    BY <2>1, <2>2, <2>3, <2>4, <2>5
<1>4. QED
  BY <1>2, <1>3, CopiesStay

\* A transient error counts the attempt.
LEMMA TransientCopies ==
  ASSUME IInv, IInv', NEW t \in Snapshots, CopiesOK(t), rows' = rows, Transient,
         worker.pc \in {"ready", "waiting"}, Carrying(t)' \subseteq Carrying(t)
  PROVE  CopiesOK(t)'
<1>1. /\ worker \in Worker /\ worker.attempt \in Nat /\ worker.item \in Items
      /\ fate \in [Items -> Fates] /\ t \in Items /\ t \notin Events
  BY DeliveryAssumption DEF IInv, PathTypeOK, WorkerOK, Worker, Items
<1>2. CASE Settle("abandoned")
  <2>1. worker'.item = NoItem /\ fate' = [fate EXCEPT ![worker.item] = "abandoned"]
    BY <1>2, RestingIsWorker DEF Settle
  <2>2. CASE worker.item = t
    BY <1>1, <2>1, <2>2, PhoneCopies, DeliveryAssumption
  <2>3. CASE worker.item # t
    BY <1>1, <2>1, <2>3, PhoneCopies, DeliveryAssumption
  <2>4. QED
    BY <2>2, <2>3
<1>3. CASE ~Settle("abandoned")
  <2> DEFINE n == worker.attempt + 1
  <2>1. /\ worker' = [worker EXCEPT !.pc = "backoff", !.on = NoItem, !.attempt = n]
        /\ fate' = fate
        /\ worker.item = t => ~(n >= SnapshotAttempts)
    BY <1>1, <1>3 DEF Transient
  <2>2. worker.item = t => n < SnapshotAttempts
    BY <1>1, <2>1, DeliveryAssumption
  <2>3. n \in Nat
    BY <1>1
  <2>4. worker'.item = worker.item /\ worker'.attempt = n
    <3> HIDE DEF n
    <3>1. QED
      BY <1>1, <2>1, <2>3 DEF Worker
  <2>5. QED
    BY <1>1, <2>1, <2>2, <2>3, <2>4, PhoneCopies
<1>4. QED
  BY <1>2, <1>3

\* The phone's steps.
LEMMA PhoneStepCopies ==
  ASSUME IInv, IInv', NEW t \in Snapshots, CopiesOK(t),
         (\E i \in Items : Report(i)) \/ WorkerStep \/ ProcessDies
  PROVE  CopiesOK(t)'
<1>1. /\ worker \in Worker /\ worker.attempt \in Nat /\ fate \in [Items -> Fates]
      /\ t \in Items /\ t # NoItem /\ http \in [Calls -> Request]
      /\ worker.item = t => worker.attempt < SnapshotAttempts
  BY DeliveryAssumption DEF IInv, PathTypeOK, Worker, Items, CopiesOK
<1>2. rows' = rows
  BY DEF Report, WorkerStep, Take, TimeOut, Misconfigured, BackoffEnds, Post, Answer, ProcessDies
<1>3. \A i \in Items : fate[i] = "pending" <=> i \in ToSet(queue) \/ worker.item = i
  BY DEF IInv, PendingIsHeld
<1>4. ASSUME NEW i \in Items, Report(i)
      PROVE  CopiesOK(t)'
  <2>1. /\ worker' = worker /\ Carrying(t)' = Carrying(t) /\ fate[i] = "unreported"
        /\ \/ fate' = [fate EXCEPT ![i] = "pending"]
           \/ fate' = [fate EXCEPT ![i] = "pending", ![Head(queue)] = "evicted"]
    BY <1>4 DEF Report, Carrying
  <2>2. CASE worker.item = t
    <3>1. CopiesOK(t)' <=> CopiesOK(t)
      BY <1>2, <2>1, <2>2 DEF CopiesOK, Made
    <3>2. QED
      BY <3>1
  <2>3. CASE worker.item # t
    BY <1>1, <1>2, <2>1, <2>3, PhoneCopies
  <2>4. QED
    BY <2>2, <2>3
<1>5. CASE Take
  <2>1. /\ worker' = [Resting EXCEPT !.pc = "ready", !.item = Head(queue)]
        /\ worker.pc = "idle" /\ UNCHANGED <<fate, http>> /\ queue # <<>>
        /\ queue \in Seq(Items)
    BY <1>5 DEF Take, IInv, PathTypeOK
  <2>2. /\ Head(queue) \in Items /\ worker.item # t /\ Carrying(t)' = Carrying(t)
        /\ Head(queue) \in ToSet(queue)
    BY <1>1, <2>1 DEF IInv, WorkerOK, Carrying, ToSet
  <2>3. worker'.item = Head(queue) /\ worker'.attempt = 0
    BY <2>1, <2>2 DEF Resting
  <2>4. CASE Head(queue) = t
    BY <1>1, <1>2, <1>3, <2>2, <2>3, <2>4, PhoneCopies
  <2>5. CASE Head(queue) # t
    BY <1>2, <2>1, <2>2, <2>3, <2>5, PhoneCopies
  <2>6. QED
    BY <2>4, <2>5
<1>6. CASE TimeOut
  BY <1>2, <1>6, TransientCopies DEF TimeOut, Carrying
<1>7. CASE BackoffEnds
  <2>1. /\ worker'.item = worker.item /\ worker'.attempt = worker.attempt
        /\ worker.pc = "backoff" /\ fate' = fate /\ Carrying(t)' = Carrying(t)
    BY <1>1, <1>7 DEF BackoffEnds, Worker, Carrying
  <2>2. QED
    BY <1>1, <1>2, <2>1, PhoneCopies
<1>8. ASSUME NEW h \in Calls, Post(h)
      PROVE  CopiesOK(t)'
  <2> DEFINE q == [http[h] EXCEPT !.pc = "wire", !.item = worker.item]
             w == [worker EXCEPT !.pc = "waiting", !.on = h]
  <2>1. /\ worker' = w /\ http' = [http EXCEPT ![h] = q] /\ fate' = fate
        /\ worker.pc = "ready" /\ http[h].pc = "free"
    BY <1>8 DEF Post
  <2>2. q.pc = "wire" /\ q.item = worker.item
    BY <1>1 DEF Request
  <2>3. w.pc = "waiting" /\ w.item = worker.item /\ w.attempt = worker.attempt
    BY <1>1 DEF Worker
  <2> HIDE DEF q, w
  <2>4. /\ http'[h] = q /\ \A g \in Calls : g # h => http'[g] = http[g]
    BY <1>1, <2>1
  <2>5. h \notin Carrying(t)
    BY <2>1 DEF Carrying, UnderWay
  <2>6. CASE worker.item = t
    <3>1. Carrying(t)' = Carrying(t) \cup {h}
      BY <2>2, <2>4, <2>5, <2>6 DEF Carrying, UnderWay
    <3>2. /\ IsFiniteSet(Carrying(t)')
          /\ Cardinality(Carrying(t)') = Cardinality(Carrying(t)) + 1
      BY <2>5, <3>1, FS_AddElement DEF CopiesOK
    <3>3. Made(t)' = worker.attempt + 1 /\ Made(t) = worker.attempt
      BY <2>1, <2>3, <2>6 DEF Made
    <3>4. rows[t] + Cardinality(Carrying(t)') <= Made(t)'
      BY <3>2, <3>3, Counts DEF CopiesOK
    <3>5. QED
      BY <1>1, <1>2, <2>1, <2>3, <3>2, <3>4 DEF CopiesOK
  <2>7. CASE worker.item # t
    <3>1. Carrying(t)' \subseteq Carrying(t)
      BY <2>2, <2>4, <2>7 DEF Carrying
    <3>2. QED
      BY <1>2, <2>1, <2>3, <2>7, <3>1, PhoneCopies
  <2>8. QED
    BY <2>6, <2>7
<1>9. ASSUME NEW h \in Calls, Answer(h)
      PROVE  CopiesOK(t)'
  <2>1. http' = [http EXCEPT ![h] = FreeRequest] /\ worker.pc = "waiting"
    BY <1>9 DEF Answer
  <2>2. /\ http'[h].pc \notin UnderWay /\ \A g \in Calls : g # h => http'[g] = http[g]
    BY <1>1, <2>1, FreeIsOK DEF UnderWay
  <2>3. Carrying(t)' \subseteq Carrying(t)
    BY <2>2 DEF Carrying
  <2>4. CASE Transient
    BY <1>2, <2>1, <2>3, <2>4, TransientCopies
  <2>5. ASSUME NEW f \in {"accepted", "refused"}, Settle(f)
        PROVE  CopiesOK(t)'
    <3>1. worker'.item = NoItem /\ fate' = [fate EXCEPT ![worker.item] = f]
      BY <2>5, RestingIsWorker DEF Settle
    <3>2. CASE worker.item = t
      BY <1>1, <1>2, <2>3, <3>1, <3>2, PhoneCopies
    <3>3. CASE worker.item # t
      BY <1>1, <1>2, <2>3, <3>1, <3>3, PhoneCopies
    <3>4. QED
      BY <3>2, <3>3
  <2>6. QED
    BY <1>9, <2>4, <2>5 DEF Answer
<1>10. CASE ProcessDies
  <2>1. /\ worker'.item = NoItem /\ Carrying(t)' = Carrying(t)
        /\ fate'[t] = IF fate[t] = "pending" THEN "lost" ELSE fate[t]
    BY <1>1, <1>10, RestingIsWorker DEF ProcessDies, Carrying
  <2>2. CASE fate[t] = "pending"
    BY <1>1, <1>2, <2>1, <2>2, PhoneCopies
  <2>3. CASE fate[t] # "pending"
    BY <1>1, <1>2, <1>3, <2>1, <2>3, PhoneCopies
  <2>4. QED
    BY <2>2, <2>3
<1>11. CASE Misconfigured
  <2>1. /\ worker'.item = NoItem /\ fate' = [fate EXCEPT ![worker.item] = "abandoned"]
        /\ Carrying(t)' = Carrying(t)
    BY <1>11, RestingIsWorker DEF Misconfigured, Settle, Carrying
  <2>2. QED
    BY <1>1, <1>2, <2>1, PhoneCopies
<1>12. QED
  BY <1>4, <1>5, <1>6, <1>7, <1>8, <1>9, <1>10, <1>11 DEF WorkerStep

\* No attempts, no rows.
LEMMA InitialCopies == PathInit => CopiesAreCounted
<1> SUFFICES ASSUME PathInit, NEW t \in Snapshots PROVE CopiesOK(t)
  BY DEF CopiesAreCounted
<1>1. Carrying(t) = {}
  BY FreeIsOK DEF PathInit, Carrying, UnderWay
<1>2. worker.item = NoItem /\ t \in Items /\ t # NoItem /\ fate[t] = "unreported" /\ rows[t] = 0
  BY RestingIsWorker, DeliveryAssumption DEF PathInit, Items
<1>3. QED
  BY <1>1, <1>2, FS_EmptySet DEF CopiesOK, Made

\* Every step keeps the count.
LEMMA CopiesSteps == IInv /\ IInv' /\ CopiesAreCounted /\ [PathNext]_vars => CopiesAreCounted'
<1> SUFFICES ASSUME IInv, IInv', [PathNext]_vars, NEW t \in Snapshots, CopiesOK(t)
             PROVE  CopiesOK(t)'
  BY DEF CopiesAreCounted
<1>1. CASE UNCHANGED vars
  BY <1>1 DEF vars, phoneVars, CopiesOK, Carrying, Made
<1>2. CASE PathNext
  BY <1>2, PhoneStepCopies, ConnectorCopies DEF PathNext
<1>3. QED
  BY <1>1, <1>2

\* The rows of a snapshot are no more than its attempts, and every value stays
\* in its domain: requests that outlive their timeouts and restarts make no
\* further copies (ingest.go: postTelemetry; QueueingCloudReporter: deliver).
THEOREM CopiesAreBounded == PathSpec => []AttemptsBoundRows
<1>1. IInv /\ CopiesAreCounted => AttemptsBoundRows
  <2>1. ASSUME IInv, CopiesAreCounted, NEW t \in Snapshots
        PROVE  rows[t] <= SnapshotAttempts
    BY <2>1, Counts DEF CopiesOK, CopiesAreCounted
  <2>2. QED
    BY <2>1 DEF IInv, AttemptsBoundRows
<1>2. QED
  BY <1>1, Invariance, InitialStates, InitialCopies, Steps, CopiesSteps, PTL DEF PathSpec

\* No report vanishes: what is pending is held once, in the queue or by the
\* worker, and what the phone was told is accepted is in the tables, through
\* overflow, timeouts, restarts and deaths (QueueingCloudReporter, postEvent).
THEOREM NoReportVanishes == PathSpec => []NothingVanishes
<1>1. IInv => NothingVanishes
  BY DEF IInv, NothingVanishes
<1>2. QED
  BY <1>1, Invariance, PTL

\* Overflow drops what is older than everything that stays queued
\* (QueueingCloudReporter: DROP_OLDEST).
THEOREM FreshestWin == PathSpec => []FreshestSurvive
<1>1. IInv => FreshestSurvive
  BY DEF IInv
<1>2. QED
  BY <1>1, Invariance, PTL

\* To the pipeline the path is one more caller.
LEMMA PipelineAlongPath ==
  /\ PathInit => Init
  /\ [PathNext]_vars => [Next]_pipelineVars
<1>1. PathInit => Init
  BY DEF PathInit
<1>2. ASSUME [PathNext]_vars
      PROVE  Next \/ UNCHANGED pipelineVars
  <2>1. CASE UNCHANGED vars
    BY <2>1 DEF vars
  <2>2. CASE PipelineStep \/ ConnectorRestarts
    BY <2>2 DEF PipelineStep, ConnectorRestarts, Next
  <2>3. CASE \/ WorkerStep \/ ProcessDies
             \/ \E i \in Items : Report(i)
    BY <2>3 DEF Report, WorkerStep, ProcessDies, Take, TimeOut, Misconfigured,
                BackoffEnds, Post, Answer
  <2>4. ASSUME NEW h \in Calls, RequestStep(h)
        PROVE  Next \/ UNCHANGED pipelineVars
    BY <2>4 DEF RequestStep, Arrive, LoseRequest, ResolveDevice, ResolveFails,
                InsertTelemetry, AcceptReturns, DropResponse, Next
  <2>5. QED
    BY <1>2, <2>1, <2>2, <2>3, <2>4 DEF PathNext
<1>3. QED
  BY <1>1, <1>2
-----------------------------------------------------------------------------
(***************************************************************************)
(* The pipeline by itself: its inductive invariant.                        *)
(***************************************************************************)

\* A call that is inside Accept is there for an event that may be stored; one
\* that is about to publish has stored it, and nobody has published it. (table
\* and done are what is stored and published.)
FeedCallOK(c, table, done) ==
  /\ c.pc \in {"insert", "publish"} => c.event \in Events \ Malformed /\ c.answer = ""
  /\ c.pc = "publish" => c.event \in table \ done
  /\ c.answer = "stored" => c.event \in done
  /\ c.answer = "duplicate" => c.event \in table
  /\ c.answer = "rejected" => c.event \in Malformed

FeedCallsAreTrue == \A h \in Calls : FeedCallOK(call[h], stored, published)

\* The unique constraint: of the calls for one event one publishes.
OnePublisher ==
  \A g, h \in Calls :
    /\ call[g].pc = "publish" /\ call[h].pc = "publish"
    /\ call[g].event = call[h].event
    => g = h

\* The feed trails the table.
PublishedIsStored == published \subseteq stored /\ stored \cap Malformed = {}

\* A stream carries what was published, once.
Carries(stream, events) == IsInjective(stream) /\ ToSet(stream) \subseteq events

StreamsAreTrue == \A s \in Streams : Carries(Streamed(s), published)

FeedIInv ==
  /\ TypeOK /\ FeedCallsAreTrue /\ OnePublisher
  /\ PublishedIsStored /\ StreamsAreTrue
-----------------------------------------------------------------------------
(***************************************************************************)
(* What a stream carries.                                                  *)
(***************************************************************************)

\* An event a sequence does not carry can be appended.
LEMMA CarriesOneMore ==
  ASSUME NEW q \in Seq(Events), NEW r \in Seq(Events), NEW E, NEW e \in Events \ E,
         Carries(q \o r, E)
  PROVE  Carries(q \o Append(r, e), E \cup {e})
<1> DEFINE more == Append(r, e)
           old == q \o r
           new == q \o more
<1>1. /\ Len(old) = Len(q) + Len(r) /\ old \in Seq(Events)
      /\ \A i \in 1..(Len(q) + Len(r)) :
            old[i] = IF i <= Len(q) THEN q[i] ELSE r[i - Len(q)]
  BY ConcatProperties
<1>2. /\ more \in Seq(Events) /\ Len(more) = Len(r) + 1
      /\ \A i \in 1..Len(r) : more[i] = r[i]
      /\ more[Len(r) + 1] = e
  BY AppendProperties
<1>3. /\ Len(new) = Len(q) + Len(more) /\ new \in Seq(Events)
      /\ \A i \in 1..(Len(q) + Len(more)) :
            new[i] = IF i <= Len(q) THEN q[i] ELSE more[i - Len(q)]
  BY <1>2, ConcatProperties
<1>4. Len(q) \in Nat /\ Len(r) \in Nat
  OBVIOUS
<1>5. /\ \A i \in 1..Len(old) : new[i] = old[i]
      /\ new[Len(old) + 1] = e
      /\ DOMAIN new = 1..(Len(old) + 1) /\ DOMAIN old = 1..Len(old)
      /\ Len(old) \in Nat
  <2> HIDE DEF more, old, new
  <2>1. Len(old) \in Nat /\ Len(new) = Len(old) + 1
    BY <1>1, <1>2, <1>3, <1>4
  <2>2. DOMAIN new = 1..Len(new) /\ DOMAIN old = 1..Len(old)
    BY <1>1, <1>3
  <2>3. ASSUME NEW i \in 1..Len(old)
        PROVE  new[i] = old[i]
    <3>1. CASE i <= Len(q)
      BY <1>1, <1>2, <1>3, <1>4, <3>1
    <3>2. CASE ~(i <= Len(q))
      <4>1. i - Len(q) \in 1..Len(r)
        BY <1>1, <1>4, <3>2
      <4>2. more[i - Len(q)] = r[i - Len(q)]
        BY <1>2, <4>1
      <4>3. QED
        BY <1>1, <1>2, <1>3, <1>4, <3>2, <4>2
    <3>3. QED
      BY <3>1, <3>2
  <2>4. new[Len(old) + 1] = e
    <3>1. /\ Len(old) + 1 \in 1..(Len(q) + Len(more))
          /\ ~(Len(old) + 1 <= Len(q)) /\ Len(old) + 1 - Len(q) = Len(r) + 1
      BY <1>1, <1>2, <1>4
    <3>2. QED
      BY <1>2, <1>3, <3>1
  <2>5. QED
    BY <2>1, <2>2, <2>3, <2>4
<1> HIDE DEF more, old, new
<1>6. /\ \A i, j \in 1..Len(old) : old[i] = old[j] => i = j
      /\ \A i \in 1..Len(old) : old[i] \in E
  BY <1>5 DEF Carries, IsInjective, ToSet, old
<1>7. IsInjective(new)
  BY <1>5, <1>6 DEF IsInjective
<1>8. ToSet(new) \subseteq E \cup {e}
  BY <1>5, <1>6 DEF ToSet
<1>9. QED
  BY <1>7, <1>8 DEF Carries, new, more

\* Sending the oldest event moves it, and changes nothing that is carried.
LEMMA SendMoves ==
  ASSUME NEW q \in Seq(Events), NEW r \in Seq(Events), r # <<>>
  PROVE  Append(q, Head(r)) \o Tail(r) = q \o r
OBVIOUS

\* What is left when the buffer is gone was carried before.
LEMMA CarriesLess ==
  ASSUME NEW q \in Seq(Events), NEW r \in Seq(Events), NEW E, Carries(q \o r, E)
  PROVE  Carries(q, E)
<1>1. /\ Len(q \o r) = Len(q) + Len(r)
      /\ \A i \in 1..Len(q) : (q \o r)[i] = q[i]
      /\ DOMAIN (q \o r) = 1..(Len(q) + Len(r))
      /\ DOMAIN q = 1..Len(q) /\ Len(q) \in Nat /\ Len(r) \in Nat
  BY ConcatProperties
<1>2. QED
  BY <1>1 DEF Carries, IsInjective, ToSet
-----------------------------------------------------------------------------
(***************************************************************************)
(* The steps of the pipeline.                                              *)
(***************************************************************************)

\* A call that moves, and a table that at most grows, keep the invariant if
\* the call it becomes fits the table and is no second publisher.
LEMMA OneFeedCall ==
  ASSUME FeedIInv, NEW h \in Calls, NEW c \in Call, call' = [call EXCEPT ![h] = c],
         stored \subseteq stored', stored' \subseteq Events \ Malformed,
         UNCHANGED <<feed, seen, published>>, FeedCallOK(c, stored', published),
         c.pc = "publish" =>
           \A g \in Calls : call[g].pc = "publish" /\ call[g].event = c.event => g = h
  PROVE  FeedIInv'
<1>1. TypeOK'
  BY DEF FeedIInv, TypeOK
<1>2. call'[h] = c /\ \A g \in Calls : g # h => call'[g] = call[g]
  BY DEF FeedIInv, TypeOK
<1>3. FeedCallsAreTrue'
  <2>1. ASSUME NEW g \in Calls, g # h
        PROVE  FeedCallOK(call'[g], stored', published)
    <3>1. FeedCallOK(call[g], stored, published)
      BY DEF FeedIInv, FeedCallsAreTrue
    <3>2. QED
      BY <1>2, <2>1, <3>1 DEF FeedCallOK
  <2>2. \A g \in Calls : FeedCallOK(call'[g], stored', published')
    BY <1>2, <2>1
  <2>3. QED
    BY <2>2 DEF FeedCallsAreTrue
<1>4. OnePublisher'
  BY <1>2 DEF FeedIInv, OnePublisher
<1>5. PublishedIsStored'
  BY DEF FeedIInv, PublishedIsStored
<1>6. StreamsAreTrue'
  BY DEF FeedIInv, StreamsAreTrue, Streamed
<1>7. QED
  BY <1>1, <1>3, <1>4, <1>5, <1>6 DEF FeedIInv

\* Accept, its statement in every outcome, and the return to the caller.
LEMMA FeedCalls ==
  ASSUME FeedIInv, NEW h \in Calls,
         \/ \E e \in Events : Accept(h, e)
         \/ InsertHazardEvent(h)
         \/ \E committed \in BOOLEAN : InsertFails(h, committed)
         \/ Return(h)
  PROVE  FeedIInv'
<1>a. /\ call[h] \in Call /\ FeedCallOK(call[h], stored, published)
      /\ stored \subseteq Events \ Malformed /\ published \subseteq stored
  BY DEF FeedIInv, TypeOK, FeedCallsAreTrue, PublishedIsStored
<1>b. \A g \in Calls : call[g].pc = "publish" => call[g].event \in stored
  BY DEF FeedIInv, FeedCallsAreTrue, FeedCallOK
<1>1. ASSUME NEW e \in Events, Accept(h, e)
      PROVE  FeedIInv'
  <2> DEFINE c == IF e \in Malformed
                  THEN [pc |-> "answered", event |-> e, answer |-> "rejected"]
                  ELSE [pc |-> "insert", event |-> e, answer |-> ""]
  <2>1. c \in Call /\ c.pc # "publish" /\ FeedCallOK(c, stored, published)
    BY DEF Call, FeedCallOK, Answers
  <2>2. QED
    BY <1>1, <1>a, <2>1, OneFeedCall DEF Accept
<1>2. CASE InsertHazardEvent(h) /\ call[h].event \in stored
  <2> DEFINE c == [call[h] EXCEPT !.pc = "answered", !.answer = "duplicate"]
  <2>1. c \in Call /\ c.pc # "publish" /\ FeedCallOK(c, stored, published)
    BY <1>2, <1>a DEF Call, FeedCallOK, Answers
  <2>2. QED
    BY <1>2, <1>a, <2>1, OneFeedCall DEF InsertHazardEvent, Answered
<1>3. CASE InsertHazardEvent(h) /\ call[h].event \notin stored
  <2> DEFINE c == [call[h] EXCEPT !.pc = "publish"]
  <2>1. /\ call[h].pc = "insert" /\ stored' = stored \cup {call[h].event}
        /\ call' = [call EXCEPT ![h] = c] /\ UNCHANGED <<feed, seen, published>>
    BY <1>3 DEF InsertHazardEvent
  <2>2. /\ c \in Call /\ c.event = call[h].event
        /\ FeedCallOK(c, stored', published) /\ stored' \subseteq Events \ Malformed
    BY <1>3, <1>a, <2>1 DEF Call, FeedCallOK
  <2>3. QED
    BY <1>3, <1>b, <2>1, <2>2, OneFeedCall
<1>4. ASSUME NEW committed \in BOOLEAN, InsertFails(h, committed)
      PROVE  FeedIInv'
  <2> DEFINE c == [call[h] EXCEPT !.pc = "answered", !.answer = "error"]
  <2>1. c \in Call /\ c.pc # "publish" /\ FeedCallOK(c, stored', published)
    BY <1>4, <1>a DEF InsertFails, Call, FeedCallOK, Answers
  <2>2. stored \subseteq stored' /\ stored' \subseteq Events \ Malformed
    BY <1>4, <1>a DEF InsertFails, FeedCallOK
  <2>3. QED
    BY <1>4, <2>1, <2>2, OneFeedCall DEF InsertFails, Answered
<1>5. CASE Return(h)
  <2>1. /\ FreeCall \in Call /\ FreeCall.pc # "publish"
      /\ FeedCallOK(FreeCall, stored, published)
    BY DEF FreeCall, Call, FeedCallOK, Answers
  <2>2. QED
    BY <1>5, <1>a, <2>1, OneFeedCall DEF Return
<1>6. QED
  BY <1>1, <1>2, <1>3, <1>4, <1>5

\* A publish, to the streams that have room for its event.
LEMMA FeedPublishes ==
  ASSUME FeedIInv, NEW h \in Calls, Publish(h)
  PROVE  FeedIInv'
<1> DEFINE e == call[h].event
           c == [call[h] EXCEPT !.pc = "answered", !.answer = "stored"]
<1>1. /\ call[h] \in Call /\ e \in Events \ published /\ e \in stored
      /\ call[h].pc = "publish"
  BY DEF FeedIInv, TypeOK, FeedCallsAreTrue, FeedCallOK, Publish
<1>2. /\ call'[h] = c /\ \A g \in Calls : g # h => call'[g] = call[g]
      /\ published' = published \cup {e} /\ UNCHANGED <<stored, seen>>
  BY DEF FeedIInv, TypeOK, Publish, Answered
<1>3. c \in Call /\ FeedCallOK(c, stored, published')
  BY <1>1, <1>2 DEF Call, FeedCallOK, Answers
<1>4. ASSUME NEW s \in Streams
      PROVE  /\ feed'[s] \in Channel /\ Len(feed'[s].buffer) <= Buffer
             /\ Carries(Streamed(s)', published')
  <2>1. /\ feed[s] \in Channel /\ feed[s].buffer \in Seq(Events)
        /\ Len(feed[s].buffer) <= Buffer
        /\ seen[s] \in Seq(Events) /\ Carries(seen[s] \o feed[s].buffer, published)
    BY DEF FeedIInv, TypeOK, Channel, StreamsAreTrue, Streamed
  <2>2. CASE feed'[s] = feed[s]
    BY <1>2, <2>1, <2>2 DEF Streamed, Carries
  <2>3. CASE /\ feed'[s] = [feed[s] EXCEPT !.buffer = Append(@, e)]
             /\ Len(feed[s].buffer) < Buffer
    <3> DEFINE more == Append(feed[s].buffer, e)
    <3>a. more \in Seq(Events)
      BY <1>1, <2>1, AppendProperties
    <3>1. feed'[s].buffer = more /\ feed'[s] \in Channel
      <4>1. feed'[s] = [feed[s] EXCEPT !.buffer = more]
        BY <2>3
      <4> HIDE DEF more
      <4>2. QED
        BY <2>1, <3>a, <4>1 DEF Channel
    <3>2. Len(feed'[s].buffer) <= Buffer
      BY <1>1, <2>1, <2>3, <3>1, PipelineAssumption
    <3>3. Carries(seen[s] \o Append(feed[s].buffer, e), published \cup {e})
      BY <1>1, <2>1, CarriesOneMore
    <3>4. QED
      BY <1>2, <3>1, <3>2, <3>3 DEF Streamed
  <2>4. QED
    BY <2>2, <2>3 DEF Publish
<1>5. TypeOK'
  <2>1. call' \in [Calls -> Call] /\ feed' \in [Streams -> Channel]
    BY <1>3, <1>4 DEF FeedIInv, TypeOK, Publish, Answered
  <2>2. QED
    BY <1>1, <1>2, <1>4, <2>1 DEF FeedIInv, TypeOK
<1>6. FeedCallsAreTrue'
  <2>1. \A g \in Calls : g # h /\ call[g].pc = "publish" => call[g].event # e
    BY <1>1 DEF FeedIInv, OnePublisher
  <2>2. QED
    BY <1>2, <1>3, <2>1 DEF FeedIInv, FeedCallsAreTrue, FeedCallOK
<1>7. OnePublisher'
  <2>1. call'[h].pc # "publish"
    BY <1>1, <1>2 DEF Call
  <2>2. QED
    BY <1>2, <2>1 DEF FeedIInv, OnePublisher
<1>8. PublishedIsStored'
  BY <1>1, <1>2 DEF FeedIInv, PublishedIsStored
<1>9. StreamsAreTrue'
  BY <1>4 DEF StreamsAreTrue
<1>10. QED
  BY <1>5, <1>6, <1>7, <1>8, <1>9 DEF FeedIInv

\* Streams that move without a publish.
LEMMA StreamsMove ==
  ASSUME FeedIInv, UNCHANGED <<stored, call, published>>,
         feed' \in [Streams -> Channel], seen' \in [Streams -> Seq(Events)],
         \A s \in Streams : /\ Len(feed'[s].buffer) <= Buffer
                            /\ Carries(seen'[s] \o feed'[s].buffer, published)
  PROVE  FeedIInv'
<1>1. TypeOK'
  BY DEF FeedIInv, TypeOK
<1>2. FeedCallsAreTrue' /\ OnePublisher' /\ PublishedIsStored'
  BY DEF FeedIInv, FeedCallsAreTrue, OnePublisher, PublishedIsStored
<1>3. StreamsAreTrue'
  BY DEF StreamsAreTrue, Streamed, Carries
<1>4. QED
  BY <1>1, <1>2, <1>3 DEF FeedIInv

\* A stream opens, sends or ends.
LEMMA FeedStreams ==
  ASSUME FeedIInv, NEW s \in Streams, StreamStep(s)
  PROVE  FeedIInv'
<1>a. /\ feed \in [Streams -> Channel] /\ seen \in [Streams -> Seq(Events)]
      /\ \A t \in Streams : /\ feed[t].buffer \in Seq(Events)
                            /\ Len(feed[t].buffer) <= Buffer
                            /\ Carries(seen[t] \o feed[t].buffer, published)
  BY DEF FeedIInv, TypeOK, Channel, StreamsAreTrue, Streamed
<1>1. CASE Subscribe(s)
  <2>1. feed' \in [Streams -> Channel] /\ seen' = seen
    BY <1>1, <1>a DEF Subscribe, Channel
  <2>2. \A t \in Streams : feed'[t].buffer = feed[t].buffer
    BY <1>1, <1>a DEF Subscribe, Channel
  <2>3. QED
    BY <1>1, <1>a, <2>1, <2>2, StreamsMove DEF Subscribe
<1>2. CASE Send(s)
  <2> DEFINE q == seen[s]
             r == feed[s].buffer
  <2>1. q \in Seq(Events) /\ r \in Seq(Events) /\ r # <<>>
    BY <1>2, <1>a DEF Send
  <2>2. Head(r) \in Events /\ Tail(r) \in Seq(Events) /\ Len(Tail(r)) = Len(r) - 1
    BY <2>1, HeadTailProperties
  <2>3. /\ seen'[s] = Append(q, Head(r)) /\ feed'[s].buffer = Tail(r)
        /\ \A t \in Streams : t # s => seen'[t] = seen[t] /\ feed'[t] = feed[t]
    <3>1. feed'[s] = [feed[s] EXCEPT !.buffer = Tail(r)]
      BY <1>2, <1>a DEF Send
    <3>2. feed[s] \in Channel
      BY <1>a
    <3>3. feed'[s].buffer = Tail(r)
      BY <3>1, <3>2 DEF Channel
    <3>4. /\ seen'[s] = Append(q, Head(r))
          /\ \A t \in Streams : t # s => seen'[t] = seen[t] /\ feed'[t] = feed[t]
      BY <1>2, <1>a DEF Send
    <3>5. QED
      BY <3>3, <3>4
  <2>4. feed' \in [Streams -> Channel] /\ seen' \in [Streams -> Seq(Events)]
    <3> DEFINE rest == Tail(r)
               sent == Append(q, Head(r))
    <3>1. rest \in Seq(Events) /\ sent \in Seq(Events)
      BY <2>1, <2>2, AppendProperties
    <3>2. /\ feed' = [feed EXCEPT ![s] = [feed[s] EXCEPT !.buffer = rest]]
          /\ seen' = [seen EXCEPT ![s] = sent]
      BY <1>2 DEF Send
    <3> HIDE DEF rest, sent
    <3>3. [feed[s] EXCEPT !.buffer = rest] \in Channel
      BY <1>a, <3>1 DEF Channel
    <3>4. QED
      BY <1>a, <3>1, <3>2, <3>3
  <2>5. seen'[s] \o feed'[s].buffer = q \o r
    BY <2>1, <2>3, SendMoves
  <2>6. Len(feed'[s].buffer) <= Buffer
    BY <1>a, <2>1, <2>2, <2>3, PipelineAssumption
  <2>7. \A t \in Streams : /\ Len(feed'[t].buffer) <= Buffer
                           /\ Carries(seen'[t] \o feed'[t].buffer, published)
    BY <1>a, <2>3, <2>5, <2>6
  <2>8. QED
    BY <1>2, <2>4, <2>7, StreamsMove DEF Send
<1>3. CASE Cancel(s)
  <2>1. /\ feed' \in [Streams -> Channel] /\ seen' = seen
        /\ feed'[s].buffer = <<>>
        /\ \A t \in Streams : t # s => feed'[t] = feed[t]
    BY <1>3, <1>a DEF Cancel, Channel
  <2>2. Carries(seen[s], published) /\ seen[s] \o <<>> = seen[s]
    BY <1>a, CarriesLess, ConcatEmptySeq
  <2>3. \A t \in Streams : /\ Len(feed'[t].buffer) <= Buffer
                           /\ Carries(seen'[t] \o feed'[t].buffer, published)
    <3>1. Len(feed'[s].buffer) <= Buffer /\ Carries(seen'[s] \o feed'[s].buffer, published)
      BY <2>1, <2>2, PipelineAssumption
    <3>2. \A t \in Streams : t # s => seen'[t] = seen[t] /\ feed'[t] = feed[t]
      BY <2>1
    <3>3. QED
      BY <1>a, <3>1, <3>2
  <2>4. QED
    BY <1>3, <1>a, <2>1, <2>3, StreamsMove DEF Cancel
<1>4. QED
  BY <1>1, <1>2, <1>3 DEF StreamStep

\* A restart forgets calls and buffers, and neither table nor clients.
LEMMA FeedRestarts ==
  ASSUME FeedIInv, Restart
  PROVE  FeedIInv'
<1>1. \A h \in Calls : call'[h] = FreeCall
  BY DEF Restart
<1>2. /\ FreeCall \in Call /\ FreeCall.pc # "publish"
      /\ FeedCallOK(FreeCall, stored, published)
  BY DEF FreeCall, Call, FeedCallOK, Answers
<1>3. ASSUME NEW s \in Streams
      PROVE  /\ feed'[s] \in Channel /\ Len(feed'[s].buffer) <= Buffer
             /\ Carries(seen[s] \o feed'[s].buffer, published)
  <2>1. /\ feed[s] \in Channel /\ feed[s].buffer \in Seq(Events)
        /\ Len(feed[s].buffer) <= Buffer
        /\ seen[s] \in Seq(Events) /\ Carries(seen[s] \o feed[s].buffer, published)
    BY DEF FeedIInv, TypeOK, Channel, StreamsAreTrue, Streamed
  <2>2. CASE feed'[s] = feed[s]
    BY <2>1, <2>2
  <2>3. CASE feed'[s] = [status |-> "closed", buffer |-> <<>>]
    <3>1. Carries(seen[s], published) /\ seen[s] \o <<>> = seen[s]
      BY <2>1, CarriesLess, ConcatEmptySeq
    <3>2. QED
      BY <2>3, <3>1, PipelineAssumption DEF Channel
  <2>4. QED
    BY <2>2, <2>3 DEF Restart
<1>4. TypeOK'
  BY <1>1, <1>2, <1>3 DEF FeedIInv, TypeOK, Restart
<1>5. FeedCallsAreTrue' /\ OnePublisher' /\ PublishedIsStored'
  BY <1>1, <1>2 DEF FeedIInv, FeedCallsAreTrue, OnePublisher, PublishedIsStored,
                    FeedCallOK, Restart
<1>6. StreamsAreTrue'
  BY <1>3 DEF StreamsAreTrue, Streamed, Carries, Restart
<1>7. QED
  BY <1>4, <1>5, <1>6 DEF FeedIInv
-----------------------------------------------------------------------------
(***************************************************************************)
(* What the pipeline keeps.                                                *)
(***************************************************************************)

\* Nothing has been stored, nobody is subscribed.
LEMMA FeedInitially == Init => FeedIInv
<1> SUFFICES ASSUME Init
             PROVE  FeedIInv
  OBVIOUS
<1>1. /\ FreeCall \in Call /\ FreeCall.pc # "publish"
      /\ FeedCallOK(FreeCall, {}, {})
  BY DEF FreeCall, Call, FeedCallOK, Answers
<1>2. TypeOK
  BY <1>1, PipelineAssumption DEF Init, TypeOK, Channel
<1>3. FeedCallsAreTrue /\ OnePublisher /\ PublishedIsStored
  BY <1>1 DEF Init, FeedCallsAreTrue, OnePublisher, PublishedIsStored
<1>4. StreamsAreTrue
  <2>1. Carries(<<>>, {}) /\ <<>> \o <<>> = <<>>
    BY DEF Carries, IsInjective, ToSet
  <2>2. QED
    BY <2>1 DEF Init, StreamsAreTrue, Streamed
<1>5. QED
  BY <1>2, <1>3, <1>4 DEF FeedIInv

\* Every step keeps the invariant.
LEMMA FeedSteps == FeedIInv /\ [Next]_pipelineVars => FeedIInv'
<1> SUFFICES ASSUME FeedIInv, [Next]_pipelineVars
             PROVE  FeedIInv'
  OBVIOUS
<1>1. CASE UNCHANGED pipelineVars
  BY <1>1 DEF pipelineVars, FeedIInv, TypeOK, FeedCallsAreTrue, FeedCallOK,
              OnePublisher, PublishedIsStored, StreamsAreTrue, Streamed, Carries
<1>2. CASE Next
  BY <1>2, FeedCalls, FeedPublishes, FeedStreams, FeedRestarts DEF Next, CallStep
<1>3. QED
  BY <1>1, <1>2

\* The inductive invariant holds throughout.
THEOREM FeedInvariance == Spec => []FeedIInv
BY FeedInitially, FeedSteps, PTL DEF Spec

\* Every value stays in its domain, and no channel holds more than its capacity.
THEOREM FeedTypes == Spec => []TypeOK
<1>1. FeedIInv => TypeOK
  BY DEF FeedIInv
<1>2. QED
  BY <1>1, FeedInvariance, PTL

\* The invariant implies what the pipeline promises.
LEMMA FeedKeepsPromises == FeedIInv => StreamIsSound /\ AnswerIsFinal
<1>1. FeedIInv => StreamIsSound
  BY DEF FeedIInv, StreamsAreTrue, Carries, PublishedIsStored, StreamIsSound
<1>2. FeedIInv => AnswerIsFinal
  BY DEF FeedIInv, FeedCallsAreTrue, FeedCallOK, PublishedIsStored, AnswerIsFinal
<1>3. QED
  BY <1>1, <1>2

\* However senders retry, statements fail, streams stall and the connector
\* restarts, no stream carries an event twice or one a query of hazard_events
\* would miss (events.go: persist, then publish what was inserted).
THEOREM SoundStreams == Spec => []StreamIsSound
BY FeedInvariance, FeedKeepsPromises, PTL

\* The answer of Accept lets its sender stop: "accepted" is in the table,
\* "rejected" never will be.
THEOREM FinalAnswers == Spec => []AnswerIsFinal
BY FeedInvariance, FeedKeepsPromises, PTL

\* What the pipeline promises of its callers holds of the whole path: however a
\* report is retried, overtaken by its own retry or cut off, its event reaches
\* no stream twice, and what a handler answered for it is final.
THEOREM PathIsSound == PathSpec => [](StreamIsSound /\ AnswerIsFinal)
<1>1. PathSpec => []FeedIInv
  BY PipelineAlongPath, FeedInitially, FeedSteps, PTL DEF PathSpec
<1>2. FeedIInv => StreamIsSound /\ AnswerIsFinal
  BY FeedKeepsPromises
<1>3. QED
  BY <1>1, <1>2, PTL
-----------------------------------------------------------------------------
(***************************************************************************)
(* Where what the connector holds comes from.                              *)
(***************************************************************************)

\* The reports that have left the queue to be delivered.
Taken ==
  {i \in Items : fate[i] \notin {"unreported", "evicted"} /\ i \notin ToSet(queue)}

\* A request carries a report the worker has taken, is past the handler's checks
\* only with one that passes them, and was told 4xx only of one that does not.
\* Its call runs while the handler waits for it. (taken is the set above.)
Traced(q, c, taken) ==
  /\ q.pc # "free" => q.item \in taken
  /\ q.pc \in {"resolve", "accept"} => q.item \notin Refused
  /\ q.code # "" => q.pc = "answered"
  /\ q.code = "4xx" => q.item \in Refused \cup Malformed
  /\ c.pc # "free" => q.pc = "accept" /\ q.item \in Events /\ c.event = q.item

RequestsAreTraced == \A h \in Calls : Traced(http[h], call[h], Taken)
TablesAreTraced   == \A i \in Items : InTables(i, stored, rows) => i \in Taken
PathTraced        == RequestsAreTraced /\ TablesAreTraced

\* What the worker concludes about its report.
LEMMA Concludes ==
  ASSUME IInv, PathTraced, WorkerStep
  PROVE  \/ fate' = fate
         \/ \E f \in {"accepted", "refused", "abandoned"} :
              /\ worker.item \in Items /\ fate' = [fate EXCEPT ![worker.item] = f]
              /\ f = "accepted" => InTables(worker.item, stored, rows)
              /\ f = "refused" => worker.item \in Refused \cup Malformed
<1>1. /\ WorkerOK(worker, http)
      /\ worker.pc # "idle" => worker.item \in Items
  BY DEF IInv, PathTypeOK, Worker, WorkerOK
<1>2. CASE Take \/ BackoffEnds \/ \E h \in Calls : Post(h)
  BY <1>2 DEF Take, BackoffEnds, Post
<1>3. CASE TimeOut \/ Misconfigured
  <2>1. worker.item \in Items /\ (Transient \/ Settle("abandoned"))
    BY <1>1, <1>3 DEF TimeOut, Misconfigured
  <2>2. QED
    BY <2>1 DEF Transient, Settle
<1>4. ASSUME NEW h \in Calls, Answer(h)
      PROVE  \/ fate' = fate
             \/ \E f \in {"accepted", "refused", "abandoned"} :
                  /\ worker.item \in Items /\ fate' = [fate EXCEPT ![worker.item] = f]
                  /\ f = "accepted" => InTables(worker.item, stored, rows)
                  /\ f = "refused" => worker.item \in Refused \cup Malformed
  <2>1. /\ worker.item \in Items /\ http[h].item = worker.item
        /\ http[h].code = "2xx" => InTables(worker.item, stored, rows)
        /\ http[h].code = "4xx" => worker.item \in Refused \cup Malformed
    BY <1>1, <1>4 DEF IInv, WorkerOK, RequestsAreTrue, RequestOK, PathTraced,
                      RequestsAreTraced, Traced, Answer
  <2>2. CASE http[h].code = "2xx" /\ Settle("accepted")
    BY <2>1, <2>2 DEF Settle
  <2>3. CASE http[h].code = "4xx" /\ Settle("refused")
    BY <2>1, <2>3 DEF Settle
  <2>4. CASE Transient
    BY <2>1, <2>4 DEF Transient, Settle
  <2>5. QED
    BY <1>4, <2>2, <2>3, <2>4 DEF Answer
<1>5. QED
  BY <1>2, <1>3, <1>4 DEF WorkerStep

\* The queue in a step of the path.
LEMMA QueueMoves ==
  ASSUME IInv, [PathNext]_vars
  PROVE  \/ UNCHANGED <<fate, queue>>
         \/ \E i \in Items : Report(i)
         \/ Take \/ ProcessDies
         \/ WorkerStep /\ queue' = queue
BY DEF PathNext, vars, phoneVars, WorkerStep, TimeOut, Misconfigured, BackoffEnds, Post,
       Answer, RequestStep, Arrive, LoseRequest, ResolveDevice, ResolveFails,
       InsertTelemetry, AcceptReturns, DropResponse, PipelineStep, ConnectorRestarts

\* A report that has left the queue does not come back.
LEMMA TakenStays ==
  ASSUME IInv, PathTraced, [PathNext]_vars, NEW x \in Taken
  PROVE  x \in Taken'
<1>1. /\ queue \in Seq(Items) /\ fate \in [Items -> Fates]
      /\ \A y \in Items : y \in ToSet(queue) => fate[y] = "pending" /\ worker.item # y
      /\ QueueIsOrdered /\ x \in Items
  BY DEF IInv, PathTypeOK, PendingIsHeld, Taken
<1>2. CASE UNCHANGED <<fate, queue>>
  BY <1>2 DEF Taken
<1>3. ASSUME NEW i \in Items, Report(i)
      PROVE  x \in Taken'
  <2>1. x # i /\ fate[i] = "unreported"
    BY <1>3 DEF Report, Taken
  <2>2. CASE Len(queue) < Capacity
    <3>1. queue' = Append(queue, i) /\ fate' = [fate EXCEPT ![i] = "pending"]
      BY <1>3, <2>2 DEF Report
    <3>2. ToSet(queue') = ToSet(queue) \cup {i}
      BY <1>1, <3>1, SetOfAppend
    <3>3. QED
      BY <2>1, <3>1, <3>2 DEF Taken
  <2>3. CASE ~(Len(queue) < Capacity)
    <3>1. /\ queue' = Append(Tail(queue), i)
          /\ fate' = [fate EXCEPT ![i] = "pending", ![Head(queue)] = "evicted"]
      BY <1>3, <2>3 DEF Report
    <3>2. queue # <<>>
      BY <1>1, <2>3, DeliveryAssumption
    <3>3. /\ Head(queue) \in ToSet(queue) /\ Tail(queue) \in Seq(Items)
          /\ ToSet(Tail(queue)) = ToSet(queue) \ {Head(queue)}
      BY <1>1, <3>2, TailOrdered DEF QueueIsOrdered
    <3>4. ToSet(queue') = ToSet(Tail(queue)) \cup {i}
      BY <3>1, <3>3, SetOfAppend
    <3>5. x # Head(queue) /\ x \notin ToSet(queue')
      BY <2>1, <3>3, <3>4 DEF Taken
    <3>6. fate'[x] = fate[x]
      BY <1>1, <2>1, <3>1, <3>5
    <3>7. QED
      BY <1>1, <3>5, <3>6 DEF Taken
  <2>4. QED
    BY <2>2, <2>3
<1>4. CASE Take
  <2>1. queue' = Tail(queue) /\ fate' = fate /\ queue # <<>>
    BY <1>4 DEF Take
  <2>2. ToSet(queue') = ToSet(queue) \ {Head(queue)}
    BY <1>1, <2>1, TailOrdered DEF QueueIsOrdered
  <2>3. QED
    BY <2>1, <2>2 DEF Taken
<1>5. CASE ProcessDies
  <2>1. /\ queue' = <<>>
        /\ fate' = [i \in Items |-> IF fate[i] = "pending" THEN "lost" ELSE fate[i]]
    BY <1>5 DEF ProcessDies
  <2>2. ToSet(queue') = {}
    BY <2>1 DEF ToSet
  <2>3. QED
    BY <2>1, <2>2 DEF Taken
<1>6. CASE WorkerStep /\ queue' = queue
  <2>1. fate'[x] = fate[x] \/ fate'[x] \in {"accepted", "refused", "abandoned"}
    BY <1>1, <1>6, Concludes
  <2>2. QED
    BY <1>6, <2>1 DEF Taken
<1>7. QED
  BY <1>2, <1>3, <1>4, <1>5, <1>6, QueueMoves


\* No request, no row.
LEMMA InitiallyTraced == PathInit => PathTraced
<1> SUFFICES ASSUME PathInit PROVE PathTraced
  OBVIOUS
<1>1. RequestsAreTraced
  BY FreeIsOK DEF PathInit, Init, FreeCall, RequestsAreTraced, Traced
<1>2. TablesAreTraced
  BY DEF PathInit, Init, TablesAreTraced, InTables, Items
<1>3. QED
  BY <1>1, <1>2 DEF PathTraced

\* A request and its call that move, or vanish, carry the report they carried.
LEMMA OneTraced ==
  ASSUME IInv, PathTraced, [PathNext]_vars, NEW h \in Calls, NEW q, NEW c,
         http' = [http EXCEPT ![h] = q], call' = [call EXCEPT ![h] = c],
         Traced(q, c, Taken)
  PROVE  RequestsAreTraced'
<1> DEFINE taken == Taken'
<1>1. /\ http'[h] = q /\ call'[h] = c
      /\ \A g \in Calls : g # h => http'[g] = http[g] /\ call'[g] = call[g]
  BY DEF IInv, PathTypeOK
<1>2. Taken \subseteq taken
  BY TakenStays
<1> HIDE DEF taken
<1>3. Traced(q, c, taken)
  BY <1>2 DEF Traced
<1>4. ASSUME NEW g \in Calls, g # h
      PROVE  Traced(http[g], call[g], taken)
  BY <1>2 DEF PathTraced, RequestsAreTraced, Traced
<1>5. \A g \in Calls : Traced(http'[g], call'[g], taken)
  BY <1>1, <1>3, <1>4
<1>6. QED
  BY <1>5 DEF RequestsAreTraced, taken

\* The requests and calls in a step of the path.
LEMMA RequestsMove ==
  ASSUME IInv, [PathNext]_vars
  PROVE  \/ UNCHANGED <<http, call>>
         \/ ConnectorRestarts
         \/ \E h \in Calls : \/ Post(h) \/ Answer(h) \/ RequestStep(h)
                             \/ CallStep(h) /\ http' = http
BY DEF PathNext, vars, phoneVars, pipelineVars, Report, ProcessDies, WorkerStep, Take,
       TimeOut, Misconfigured, BackoffEnds, PipelineStep, StreamStep, Subscribe, Send, Cancel

\* Every step keeps the traces of the requests.
LEMMA RequestsStayTraced ==
  ASSUME IInv, FeedIInv, PathTraced, [PathNext]_vars
  PROVE  RequestsAreTraced'
<1>1. /\ http \in [Calls -> Request] /\ call \in [Calls -> Call]
      /\ \A h \in Calls : /\ Traced(http[h], call[h], Taken)
                          /\ RequestOK(http[h], call[h], stored, rows)
                          /\ FeedCallOK(call[h], stored, published)
                          /\ http' = http => http' = [http EXCEPT ![h] = http[h]]
                          /\ call' = call => call' = [call EXCEPT ![h] = call[h]]
  BY DEF IInv, PathTypeOK, PathTraced, RequestsAreTraced, RequestsAreTrue, FeedIInv,
         FeedCallsAreTrue
<1>a. ASSUME NEW h \in Calls
      PROVE  http[h] \in Request /\ call[h] \in Call
  BY <1>1
<1>2. CASE UNCHANGED <<http, call>>
  <2> DEFINE taken == Taken'
  <2>1. Taken \subseteq taken
    BY TakenStays
  <2> HIDE DEF taken
  <2>2. \A h \in Calls : Traced(http'[h], call'[h], taken)
    BY <1>1, <1>2, <2>1 DEF Traced
  <2>3. QED
    BY <2>2 DEF RequestsAreTraced, taken
<1>3. CASE ConnectorRestarts
  <2> DEFINE taken == Taken'
  <2>1. \A h \in Calls : http'[h] = FreeRequest /\ call'[h] = FreeCall
    BY <1>3 DEF ConnectorRestarts, Restart
  <2> HIDE DEF taken
  <2>2. Traced(FreeRequest, FreeCall, taken)
    BY DEF Traced, FreeCall, FreeRequest
  <2>3. \A h \in Calls : Traced(http'[h], call'[h], taken)
    BY <2>1, <2>2
  <2>4. QED
    BY <2>3 DEF RequestsAreTraced, taken
<1>4. ASSUME NEW h \in Calls, Post(h)
      PROVE  RequestsAreTraced'
  <2> DEFINE q == [http[h] EXCEPT !.pc = "wire", !.item = worker.item]
  <2>1. /\ http' = [http EXCEPT ![h] = q] /\ call' = [call EXCEPT ![h] = call[h]]
        /\ http[h].pc = "free" /\ worker.pc = "ready"
    BY <1>1, <1>4 DEF Post, pipelineVars
  <2>2. q.pc = "wire" /\ q.item = worker.item /\ q.code = http[h].code
    BY <1>a DEF Request
  <2>3. worker.item \in Taken
    BY <2>1 DEF IInv, PathTypeOK, Worker, WorkerOK, PendingIsHeld, Taken
  <2> HIDE DEF q
  <2>4. Traced(q, call[h], Taken)
    BY <1>1, <2>1, <2>2, <2>3 DEF Traced
  <2>5. QED
    BY <2>1, <2>4, OneTraced
<1>5. ASSUME NEW h \in Calls, NEW q, http' = [http EXCEPT ![h] = q], call' = call,
             http[h].pc # "accept" \/ http[h].item \notin Events, q.pc # "accept" \/ http[h].pc = "resolve",
             q = FreeRequest \/ (q.item = http[h].item /\ http[h].pc # "free"),
             q.pc \in {"resolve", "accept"} => q.item \notin Refused,
             q.code # "" => q.pc = "answered",
             q.code = "4xx" => q.item \in Refused
      PROVE  RequestsAreTraced'
  <2>1. call[h].pc = "free"
    BY <1>1, <1>5 DEF Traced
  <2>2. Traced(q, call[h], Taken)
    BY <1>1, <1>5, <2>1, FreeIsOK DEF Traced
  <2>3. QED
    BY <1>1, <1>5, <2>2, OneTraced
<1>6. ASSUME NEW h \in Calls, Answer(h) \/ LoseRequest(h) \/ DropResponse(h)
      PROVE  RequestsAreTraced'
  <2>1. /\ http' = [http EXCEPT ![h] = FreeRequest] /\ call' = call
        /\ http[h].pc # "accept"
    BY <1>6 DEF Answer, LoseRequest, DropResponse, pipelineVars
  <2>2. QED
    BY <1>5, <2>1, FreeIsOK
<1>7. ASSUME NEW h \in Calls, Arrive(h) \/ ResolveFails(h)
      PROVE  RequestsAreTraced'
  <2> DEFINE answered(a) == [http[h] EXCEPT !.pc = "answered", !.code = a]
             resolved == [http[h] EXCEPT !.pc = "resolve"]
  <2>1. /\ call' = call /\ http[h].pc \in {"wire", "resolve"}
        /\ \/ http' = [http EXCEPT ![h] = answered("4xx")] /\ http[h].item \in Refused
           \/ http' = [http EXCEPT ![h] = answered("5xx")]
           \/ http' = [http EXCEPT ![h] = resolved] /\ http[h].item \notin Refused
    BY <1>7 DEF Arrive, ResolveFails, Respond, pipelineVars
  <2>2. /\ \A a : /\ answered(a).pc = "answered" /\ answered(a).code = a
                  /\ answered(a).item = http[h].item
        /\ resolved.pc = "resolve" /\ resolved.item = http[h].item
        /\ resolved.code = http[h].code
    BY <1>a DEF Request
  <2>3. http[h].code = ""
    BY <1>1, <2>1 DEF Traced
  <2> HIDE DEF answered, resolved
  <2>4. CASE http' = [http EXCEPT ![h] = answered("4xx")] /\ http[h].item \in Refused
    BY <1>5, <2>1, <2>2, <2>4
  <2>5. CASE http' = [http EXCEPT ![h] = answered("5xx")]
    BY <1>5, <2>1, <2>2, <2>5
  <2>6. CASE http' = [http EXCEPT ![h] = resolved] /\ http[h].item \notin Refused
    BY <1>5, <2>1, <2>2, <2>3, <2>6
  <2>7. QED
    BY <2>1, <2>4, <2>5, <2>6
<1>8. ASSUME NEW h \in Calls, ResolveDevice(h)
      PROVE  RequestsAreTraced'
  <2> DEFINE q == [http[h] EXCEPT !.pc = "accept"]
             e == http[h].item
             c == IF e \in Malformed
                  THEN [pc |-> "answered", event |-> e, answer |-> "rejected"]
                  ELSE [pc |-> "insert", event |-> e, answer |-> ""]
  <2>1. http' = [http EXCEPT ![h] = q] /\ http[h].pc = "resolve"
    BY <1>8 DEF ResolveDevice
  <2>2. q.pc = "accept" /\ q.item = e /\ q.code = http[h].code
    BY <1>a DEF Request
  <2>3. e \in Taken /\ e \notin Refused /\ http[h].code = ""
    BY <1>1, <2>1 DEF Traced
  <2> HIDE DEF q
  <2>4. CASE e \in Events
    <3>1. call' = [call EXCEPT ![h] = c]
      BY <1>8, <2>4 DEF ResolveDevice, Accept
    <3>2. c.event = e
      OBVIOUS
    <3> HIDE DEF c
    <3>3. Traced(q, c, Taken)
      BY <2>2, <2>3, <2>4, <3>2 DEF Traced
    <3>4. QED
      BY <2>1, <3>1, <3>3, OneTraced
  <2>5. CASE e \notin Events
    <3>1. call' = call
      BY <1>8, <2>5 DEF ResolveDevice, pipelineVars
    <3>2. QED
      BY <1>5, <2>1, <2>2, <2>3, <3>1
  <2>6. QED
    BY <2>4, <2>5
<1>9. ASSUME NEW h \in Calls, NEW ok \in BOOLEAN, NEW committed \in BOOLEAN,
             InsertTelemetry(h, ok, committed)
      PROVE  RequestsAreTraced'
  <2> DEFINE q == [http[h] EXCEPT !.pc = "answered", !.code = IF ok THEN "2xx" ELSE "5xx"]
  <2>1. /\ http' = [http EXCEPT ![h] = q] /\ call' = call
        /\ http[h].pc = "accept" /\ http[h].item \notin Events
    BY <1>9, DeliveryAssumption DEF InsertTelemetry, Respond, pipelineVars
  <2>2. q.pc = "answered" /\ q.item = http[h].item /\ q.code # "4xx"
    BY <1>a DEF Request
  <2> HIDE DEF q
  <2>3. QED
    BY <1>5, <2>1, <2>2
<1>10. ASSUME NEW h \in Calls, AcceptReturns(h)
       PROVE  RequestsAreTraced'
  <2> DEFINE answered(a) == [http[h] EXCEPT !.pc = "answered", !.code = a]
  <2>1. /\ call' = [call EXCEPT ![h] = FreeCall] /\ http[h].pc = "accept"
        /\ http[h].item \in Events
        /\ \/ http' = [http EXCEPT ![h] = answered("4xx")] /\ call[h].answer = "rejected"
           \/ \E a \in {"2xx", "5xx"} : http' = [http EXCEPT ![h] = answered(a)]
    BY <1>10 DEF AcceptReturns, Return, Respond
  <2>2. /\ \A a : /\ answered(a).pc = "answered" /\ answered(a).code = a
                  /\ answered(a).item = http[h].item
    BY <1>a DEF Request
  <2>3. call[h].answer = "rejected" => http[h].item \in Malformed
    BY <1>1, <2>1 DEF RequestOK, FeedCallOK
  <2> HIDE DEF answered
  <2>4. ASSUME NEW a \in {"2xx", "4xx", "5xx"}, http' = [http EXCEPT ![h] = answered(a)],
               a = "4xx" => http[h].item \in Malformed
        PROVE  RequestsAreTraced'
    <3>1. Traced(answered(a), FreeCall, Taken)
      BY <1>1, <2>1, <2>2, <2>4 DEF Traced, FreeCall
    <3>2. QED
      BY <2>1, <2>4, <3>1, OneTraced
  <2>5. QED
    BY <2>1, <2>3, <2>4
<1>11. ASSUME NEW h \in Calls, CallStep(h), http' = http
       PROVE  RequestsAreTraced'
  <2>1. PICK c : /\ call' = [call EXCEPT ![h] = c] /\ call[h].pc # "free"
                 /\ c.event = call[h].event
    <3>1. \/ \E a : call' = [call EXCEPT ![h] = [call[h] EXCEPT !.pc = "answered",
                                                              !.answer = a]]
          \/ call' = [call EXCEPT ![h] = [call[h] EXCEPT !.pc = "publish"]]
      BY <1>11 DEF CallStep, InsertHazardEvent, InsertFails, Publish, Answered
    <3>2. call[h].pc # "free"
      BY <1>11 DEF CallStep, InsertHazardEvent, InsertFails, Publish
    <3>3. /\ \A a : [call[h] EXCEPT !.pc = "answered", !.answer = a].event = call[h].event
          /\ [call[h] EXCEPT !.pc = "publish"].event = call[h].event
      BY <1>a DEF Call
    <3>4. QED
      BY <3>1, <3>2, <3>3
  <2>2. Traced(http[h], c, Taken)
    BY <1>1, <2>1 DEF Traced
  <2>3. QED
    BY <1>1, <1>11, <2>1, <2>2, OneTraced
<1>12. QED
  BY <1>2, <1>3, <1>4, <1>6, <1>7, <1>8, <1>9, <1>10, <1>11, RequestsMove DEF RequestStep


\* An INSERT of Accept that takes effect.
Inserts(h) ==
  /\ call[h].pc = "insert" /\ call[h].event \notin stored
  /\ stored' = stored \cup {call[h].event}

\* A plain INSERT of a snapshot that takes effect.
InsertsRow(h) ==
  /\ http[h].pc = "accept" /\ http[h].item \in Snapshots
  /\ rows' = [rows EXCEPT ![http[h].item] = @ + 1]

\* A step of the path moves what the phone knows, or the tables, or what a
\* client has seen.
LEMMA PathMoves ==
  ASSUME IInv, FeedIInv, [PathNext]_vars
  PROVE  \/ UNCHANGED <<fate, stored, rows, seen>>
         \/ /\ UNCHANGED <<stored, rows, seen>>
            /\ (\E i \in Items : Report(i)) \/ WorkerStep \/ ProcessDies
         \/ UNCHANGED <<fate, rows, seen>> /\ \E h \in Calls : Inserts(h)
         \/ UNCHANGED <<fate, stored, seen>> /\ \E h \in Calls : InsertsRow(h)
         \/ UNCHANGED <<fate, stored, rows>> /\ \E s \in Streams : Send(s)
<1>1. CASE UNCHANGED vars
  BY <1>1 DEF vars, phoneVars, pipelineVars
<1>2. CASE (\E i \in Items : Report(i)) \/ WorkerStep \/ ProcessDies
  <2>1. UNCHANGED <<stored, rows, seen>>
    BY <1>2 DEF Report, ProcessDies, WorkerStep, Take, TimeOut, Misconfigured, BackoffEnds,
                Post, Answer, pipelineVars
  <2>2. QED
    BY <1>2, <2>1
<1>3. ASSUME NEW h \in Calls, RequestStep(h)
      PROVE  \/ UNCHANGED <<fate, stored, rows, seen>>
             \/ UNCHANGED <<fate, stored, seen>> /\ InsertsRow(h)
  <2>1. CASE \E ok, committed \in BOOLEAN : InsertTelemetry(h, ok, committed)
    BY <2>1 DEF InsertTelemetry, InsertsRow, phoneVars, pipelineVars
  <2>2. CASE \/ Arrive(h) \/ LoseRequest(h) \/ ResolveFails(h)
             \/ ResolveDevice(h) \/ AcceptReturns(h) \/ DropResponse(h)
    BY <2>2 DEF Arrive, LoseRequest, ResolveFails, ResolveDevice, Accept, AcceptReturns,
                Return, DropResponse, phoneVars, pipelineVars
  <2>3. QED
    BY <1>3, <2>1, <2>2 DEF RequestStep
<1>4. ASSUME NEW h \in Calls, CallStep(h), UNCHANGED <<phoneVars, http, rows>>
      PROVE  \/ UNCHANGED <<fate, stored, rows, seen>>
             \/ UNCHANGED <<fate, rows, seen>> /\ Inserts(h)
  <2>1. UNCHANGED <<fate, rows>>
    BY <1>4 DEF phoneVars
  <2>2. CASE InsertHazardEvent(h)
    BY <2>1, <2>2 DEF InsertHazardEvent, Inserts
  <2>3. ASSUME NEW committed \in BOOLEAN, InsertFails(h, committed)
        PROVE  stored' = stored \/ Inserts(h)
    BY <2>3 DEF InsertFails, Inserts
  <2>4. CASE Publish(h)
    BY <2>1, <2>4 DEF Publish
  <2>5. (\E committed \in BOOLEAN : InsertFails(h, committed)) => seen' = seen
    BY DEF InsertFails
  <2>6. QED
    BY <1>4, <2>1, <2>2, <2>3, <2>4, <2>5 DEF CallStep
<1>5. ASSUME NEW s \in Streams, StreamStep(s), UNCHANGED <<phoneVars, http, rows>>
      PROVE  \/ UNCHANGED <<fate, stored, rows, seen>>
             \/ UNCHANGED <<fate, stored, rows>> /\ Send(s)
  BY <1>5 DEF StreamStep, Subscribe, Send, Cancel, phoneVars
<1>6. CASE ConnectorRestarts
  BY <1>6 DEF ConnectorRestarts, Restart, phoneVars
<1>7. QED
  BY <1>1, <1>2, <1>3, <1>4, <1>5, <1>6 DEF PathNext, PipelineStep

\* What reaches a table was taken, passes the checks, and is not there yet if
\* it is an event.
LEMMA InsertsAreTraced ==
  ASSUME IInv, FeedIInv, PathTraced, NEW h \in Calls
  PROVE  /\ Inserts(h) => /\ call[h].event \in Events \cap Taken
                          /\ call[h].event \notin Refused \cup Malformed
         /\ InsertsRow(h) => http[h].item \in Taken \ (Refused \cup Malformed)
<1>1. Traced(http[h], call[h], Taken) /\ FeedCallOK(call[h], stored, published)
  BY DEF PathTraced, RequestsAreTraced, FeedIInv, FeedCallsAreTrue
<1>2. Malformed \cap Snapshots = {}
  BY PipelineAssumption, DeliveryAssumption
<1>3. QED
  BY <1>1, <1>2 DEF Traced, FeedCallOK, Inserts, InsertsRow

\* Every step keeps the traces of the tables.
LEMMA TablesStayTraced ==
  ASSUME IInv, FeedIInv, PathTraced, [PathNext]_vars
  PROVE  TablesAreTraced'
<1>1. ASSUME NEW i \in Items, InTables(i, stored', rows')
      PROVE  i \in Taken
  <2>1. InTables(i, stored, rows) => i \in Taken
    BY DEF PathTraced, TablesAreTraced
  <2>2. CASE UNCHANGED <<stored, rows>>
    BY <1>1, <2>1, <2>2
  <2>3. ASSUME NEW h \in Calls, Inserts(h), rows' = rows
        PROVE  i \in Taken
    BY <1>1, <2>1, <2>3, InsertsAreTraced DEF InTables, Inserts
  <2>4. ASSUME NEW h \in Calls, InsertsRow(h), stored' = stored
        PROVE  i \in Taken
    <3>1. CASE i = http[h].item
      BY <2>4, <3>1, InsertsAreTraced
    <3>2. CASE i # http[h].item
      <4>1. i \notin Events => rows'[i] = rows[i]
        BY <2>4, <3>2 DEF InsertsRow, IInv, PathTypeOK, Items
      <4>2. QED
        BY <1>1, <2>1, <2>4, <4>1 DEF InTables
    <3>3. QED
      BY <3>1, <3>2
  <2>5. QED
    BY <2>2, <2>3, <2>4, PathMoves
<1> DEFINE taken == Taken'
<1>2. Taken \subseteq taken
  BY TakenStays
<1> HIDE DEF taken
<1>3. \A i \in Items : InTables(i, stored', rows') => i \in taken
  BY <1>1, <1>2
<1>4. QED
  BY <1>3 DEF TablesAreTraced, taken

LEMMA TracedSteps == IInv /\ FeedIInv /\ PathTraced /\ [PathNext]_vars => PathTraced'
BY RequestsStayTraced, TablesStayTraced DEF PathTraced

-----------------------------------------------------------------------------
(***************************************************************************)
(* The path implements the contract.                                       *)
(***************************************************************************)

\* What the contract sees of the tables.
KeptNow == [i \in Items |-> Kept(i)]

\* The numbers in it.
LEMMA KeptCounts ==
  ASSUME IInv, NEW i \in Items
  PROVE  Kept(i) \in Nat /\ (Kept(i) > 0 <=> InTables(i, stored, rows))
<1>1. i \notin Events => rows[i] \in Nat
  BY DEF IInv, PathTypeOK, Items
<1>2. QED
  BY <1>1 DEF Kept, InTables

\* A report: the one that may have to make room was not in any table.
LEMMA ReportIsMade ==
  ASSUME IInv, PathTraced, NEW i \in Items, Report(i), UNCHANGED <<KeptNow, seen>>
  PROVE  Contract!Make(i)
<1>1. /\ queue \in Seq(Items) /\ Len(queue) <= Capacity /\ fate[i] = "unreported"
      /\ fate \in [Items -> Fates]
  BY DEF IInv, PathTypeOK, Report
<1>2. CASE Len(queue) < Capacity
  BY <1>1, <1>2 DEF Report, KeptNow, Contract!Make, Contract!Items, Items
<1>3. CASE ~(Len(queue) < Capacity)
  <2>1. queue # <<>>
    BY <1>1, <1>3, DeliveryAssumption
  <2>2. Head(queue) \in ToSet(queue) /\ Head(queue) \in Items
    BY <1>1, <2>1, HeadTailProperties DEF ToSet
  <2>3. fate[Head(queue)] = "pending" /\ Kept(Head(queue)) = 0
    BY <2>2, KeptCounts DEF IInv, PendingIsHeld, PathTraced, TablesAreTraced, Taken
  <2>4. fate' = [fate EXCEPT ![i] = "pending", ![Head(queue)] = "evicted"]
    BY <1>3 DEF Report
  <2>5. KeptNow[Head(queue)] = 0
    BY <2>2, <2>3 DEF KeptNow
  <2>6. QED
    BY <1>1, <2>2, <2>3, <2>4, <2>5 DEF KeptNow, Contract!Make, Contract!Items, Items
<1>4. QED
  BY <1>2, <1>3

\* A report the worker is done with.
LEMMA ReportIsConcluded ==
  ASSUME IInv, PathTraced, WorkerStep, UNCHANGED <<KeptNow, seen>>
  PROVE  fate' = fate \/ \E i \in Items, f \in {"accepted", "refused", "abandoned"} :
                           Contract!Conclude(i, f)
<1>1. ASSUME NEW f \in {"accepted", "refused", "abandoned"}, worker.item \in Items,
             fate' = [fate EXCEPT ![worker.item] = f],
             f = "accepted" => InTables(worker.item, stored, rows),
             f = "refused" => worker.item \in Refused \cup Malformed
      PROVE  Contract!Conclude(worker.item, f)
  <2>1. fate[worker.item] = "pending"
    BY <1>1 DEF IInv, PendingIsHeld
  <2>2. f = "accepted" => KeptNow[worker.item] > 0
    BY <1>1, KeptCounts DEF KeptNow
  <2>3. QED
    BY <1>1, <2>1, <2>2 DEF Contract!Conclude, KeptNow
<1>2. QED
  BY <1>1, Concludes

\* A process that dies takes a report with it.
LEMMA ProcessLoses ==
  ASSUME IInv, ProcessDies, UNCHANGED <<KeptNow, seen>>
  PROVE  Contract!Lose
<1>1. /\ queue \in Seq(Items) /\ worker \in Worker /\ WorkerOK(worker, http)
      /\ queue # <<>> \/ worker.pc # "idle"
  BY DEF IInv, PathTypeOK, ProcessDies
<1>2. \E i \in Items : i \in ToSet(queue) \/ worker.item = i
  <2>1. CASE queue # <<>>
    BY <1>1, <2>1, HeadTailProperties DEF ToSet
  <2>2. CASE worker.pc # "idle"
    BY <1>1, <2>2 DEF Worker, WorkerOK
  <2>3. QED
    BY <1>1, <2>1, <2>2
<1>3. \E i \in Items : fate[i] = "pending"
  BY <1>2 DEF IInv, PendingIsHeld
<1>4. QED
  BY <1>3 DEF ProcessDies, Contract!Lose, Contract!Items, Items, KeptNow

\* A row that a report's request or call puts into its table.
LEMMA ReportIsKept ==
  ASSUME NEW i \in Items \cap Taken, i \notin Refused \cup Malformed,
         UNCHANGED <<fate, seen>>,
         \A j \in Items : Kept(j)' = IF j = i THEN Kept(j) + 1 ELSE Kept(j),
         Kept(i) < IF i \in Events THEN 1 ELSE SnapshotAttempts
  PROVE  Contract!Keep(i)
<1>1. KeptNow' = [KeptNow EXCEPT ![i] = @ + 1] /\ KeptNow[i] = Kept(i)
  BY DEF KeptNow
<1>2. QED
  BY <1>1 DEF Contract!Keep, Contract!Most, KeptNow, Taken

\* An INSERT of an event.
LEMMA EventIsKept ==
  ASSUME IInv, FeedIInv, PathTraced, NEW h \in Calls, Inserts(h),
         UNCHANGED <<fate, rows, seen>>
  PROVE  Contract!Keep(call[h].event)
<1> DEFINE e == call[h].event
<1>1. e \in Events \cap Taken /\ e \in Items /\ e \notin Refused \cup Malformed
  BY InsertsAreTraced DEF Items
<1>2. e \notin stored /\ stored' = stored \cup {e}
  BY DEF Inserts
<1> HIDE DEF e
<1>3. Kept(e) = 0 /\ \A i \in Items : Kept(i)' = IF i = e THEN 1 ELSE Kept(i)
  BY <1>1, <1>2 DEF Kept
<1>4. Contract!Keep(e)
  BY <1>1, <1>3, ReportIsKept
<1>5. QED
  BY <1>4 DEF e

\* An INSERT of a snapshot: no more than the attempts.
LEMMA SnapshotIsKept ==
  ASSUME IInv, FeedIInv, PathTraced, NEW h \in Calls, InsertsRow(h),
         AttemptsBoundRows', UNCHANGED <<fate, stored, seen>>
  PROVE  Contract!Keep(http[h].item)
<1> DEFINE t == http[h].item
<1>1. /\ t \in Snapshots /\ t \in Items \cap Taken /\ t \notin Refused \cup Malformed
      /\ t \notin Events
  BY InsertsAreTraced, DeliveryAssumption DEF Items, InsertsRow
<1>2. rows' = [rows EXCEPT ![t] = @ + 1] /\ rows \in [Snapshots -> Nat]
  BY DEF InsertsRow, IInv, PathTypeOK
<1> HIDE DEF t
<1>3. rows[t] < SnapshotAttempts
  <2>1. rows'[t] = rows[t] + 1 /\ rows[t] \in Nat /\ rows'[t] <= SnapshotAttempts
    BY <1>1, <1>2 DEF AttemptsBoundRows
  <2>2. QED
    BY <2>1, DeliveryAssumption
<1>4. Kept(t) = rows[t] /\ \A i \in Items : Kept(i)' = IF i = t THEN Kept(i) + 1 ELSE Kept(i)
  BY <1>1, <1>2 DEF Kept, Items
<1>5. Contract!Keep(t)
  BY <1>1, <1>3, <1>4, ReportIsKept
<1>6. QED
  BY <1>5 DEF t

\* A stream sends what is kept, once.
LEMMA EventIsShown ==
  ASSUME IInv, FeedIInv, NEW s \in Streams, Send(s), UNCHANGED <<fate, stored, rows>>
  PROVE  \E e \in Events : Contract!Show(s, e)
<1> DEFINE q == seen[s]
           r == feed[s].buffer
           e == Head(r)
<1>1. /\ q \in Seq(Events) /\ r \in Seq(Events) /\ r # <<>>
      /\ Carries(q \o r, published) /\ published \subseteq stored
  BY DEF FeedIInv, TypeOK, Channel, StreamsAreTrue, Streamed, PublishedIsStored, Send
<1>2. seen' = [seen EXCEPT ![s] = Append(q, e)]
  BY DEF Send
<1> HIDE DEF q, r
<1>3. /\ e \in Events /\ e = r[1] /\ Len(q) \in Nat /\ Len(r) \in Nat \ {0}
      /\ DOMAIN q = 1..Len(q)
  BY <1>1, HeadTailProperties
<1>4. /\ (q \o r)[Len(q) + 1] = e /\ \A n \in DOMAIN q : (q \o r)[n] = q[n]
      /\ DOMAIN (q \o r) = 1..(Len(q) + Len(r))
  BY <1>1, <1>3, ConcatProperties
<1>5. Len(q) + 1 \in DOMAIN (q \o r) /\ \A n \in DOMAIN q : n \in DOMAIN (q \o r) /\ n # Len(q) + 1
  BY <1>3, <1>4
<1>6. e \in stored /\ \A n \in DOMAIN q : q[n] # e
  BY <1>1, <1>4, <1>5 DEF Carries, IsInjective, ToSet
<1> HIDE DEF e
<1>7. KeptNow' = KeptNow
  BY DEF KeptNow, Kept
<1>8. KeptNow[e] > 0
  BY <1>3, <1>6 DEF KeptNow, Kept, Items
<1>9. Contract!Show(s, e)
  BY <1>2, <1>6, <1>7, <1>8 DEF Contract!Show, KeptNow, q
<1>10. QED
  BY <1>3, <1>9

\* Every step of the path is one of the contract's, or none.
LEMMA ContractSteps ==
  ASSUME IInv, FeedIInv, PathTraced, AttemptsBoundRows', [PathNext]_vars
  PROVE  Contract!Next \/ UNCHANGED <<fate, KeptNow, seen>>
<1>1. UNCHANGED <<stored, rows>> => KeptNow' = KeptNow
  BY DEF KeptNow, Kept
<1>2. CASE UNCHANGED <<fate, stored, rows, seen>>
  BY <1>1, <1>2
<1>3. CASE /\ UNCHANGED <<stored, rows, seen>>
           /\ (\E i \in Items : Report(i)) \/ WorkerStep \/ ProcessDies
  BY <1>1, <1>3, ReportIsMade, ReportIsConcluded, ProcessLoses
     DEF Contract!Next, Contract!Items, Items
<1>4. ASSUME NEW h \in Calls, UNCHANGED <<fate, rows, seen>>, Inserts(h)
      PROVE  Contract!Next
  BY <1>4, EventIsKept, InsertsAreTraced DEF Contract!Next, Contract!Items, Items
<1>5. ASSUME NEW h \in Calls, UNCHANGED <<fate, stored, seen>>, InsertsRow(h)
      PROVE  Contract!Next
  BY <1>5, SnapshotIsKept DEF Contract!Next, Contract!Items, Items, InsertsRow
<1>6. ASSUME NEW s \in Streams, UNCHANGED <<fate, stored, rows>>, Send(s)
      PROVE  Contract!Next
  BY <1>6, EventIsShown DEF Contract!Next
<1>7. QED
  BY <1>2, <1>3, <1>4, <1>5, <1>6, PathMoves

\* The path keeps its contract: through requests that outlive their timeouts next
\* to their own retries, overflow, deaths and restarts, what the phone concludes
\* is true, what it dropped from the queue or never made is in no table, what is
\* kept is bounded, and a client sees an event once and only if it is kept
\* (QueueingCloudReporter, HttpCloudGateway, ingest.go, events.Service).
THEOREM ContractKept == PathSpec => KeepsContract
<1>1. PathInit => Contract!Init
  BY DEF PathInit, Init, Contract!Init, Contract!Items, Items, Kept
<1>2. ASSUME IInv, FeedIInv, PathTraced, AttemptsBoundRows', [PathNext]_vars
      PROVE  [Contract!Next]_<<fate, [i \in Items |-> Kept(i)], seen>>
  BY <1>2, ContractSteps DEF KeptNow
<1>3. PathSpec => []FeedIInv
  BY PipelineAlongPath, FeedInitially, FeedSteps, PTL DEF PathSpec
<1>4. PathSpec => []PathTraced
  BY <1>3, Invariance, InitiallyTraced, TracedSteps, PTL DEF PathSpec
<1>5. QED
  BY <1>1, <1>2, <1>3, <1>4, Invariance, CopiesAreBounded, PTL
     DEF PathSpec, KeepsContract, Contract!Spec

=============================================================================
