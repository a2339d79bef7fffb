------------------------ MODULE ConnectorLifeProofs ------------------------
(***************************************************************************)
(* Proofs about ConnectorLife, for any number of pods, any migrations in   *)
(* their binaries, and any number of requests and streams.                 *)
(***************************************************************************)
EXTENDS ConnectorLife, TLAPS

-----------------------------------------------------------------------------
(***************************************************************************)
(* The inductive invariant.                                                *)
(***************************************************************************)

Migrating == {"check", "sql", "record", "commit"}
Running   == {"serve", "drain", "graceful", "join", "close"}
Stopped   == {"graceful", "join", "close"}

\* A pod that migrates has everything before its migration behind it, and
\* executes only what its binary embeds.
LoopOK(P, done, last) ==
  /\ P.main \in Migrating => P.mig # 0 /\ \A i \in 1..last : i < P.mig => i \in done
  /\ P.main \in {"sql", "record", "commit"} => P.mig <= last
  /\ P.main \in Running => 1..last \subseteq done

LoopsAreTrue == \A p \in Pods : LoopOK(pod[p], recorded, Embedded[p])

\* The primary key: a row that is inserted and not committed is the only one.
KeyIsHeld ==
  \A p \in Pods : At(p, "commit") =>
    /\ pod[p].mig \notin recorded
    /\ \A q \in Pods : At(q, "commit") /\ pod[q].mig = pod[p].mig => p = q

\* The record is that of a schema that went through a beginning of the list.
LogIsBeginning ==
  /\ log = [i \in 1..Len(log) |-> i]
  /\ recorded = 1..Len(log)

\* What is over stays over: once streams are waited for none is left or
\* opened, once requests are waited for none comes.
StopOK(P) ==
  /\ P.main \in {"join", "close"} => P.streams = 0
  /\ P.main \in Stopped => (P.requests > 0 => P.overdue)
  /\ P.main = "close" => \A g \in Goroutines : P.routine[g] = "done"

StopsAreOrderly == \A p \in Pods : StopOK(pod[p])

IInv == TypeOK /\ LoopsAreTrue /\ KeyIsHeld /\ LogIsBeginning /\ StopsAreOrderly
-----------------------------------------------------------------------------
(***************************************************************************)
(* One pod moves, and the schema stays: what the move owes the invariant   *)
(* is said of that pod alone.                                              *)
(***************************************************************************)

\* A pod that has become P may hold the key of its migration.
HoldsKey(p, P) ==
  P.main = "commit" =>
    /\ P.mig \notin recorded
    /\ \A q \in Pods : At(q, "commit") /\ pod[q].mig = P.mig => q = p

\* A move of one pod keeps the invariant if the pod it becomes fits it.
LEMMA OnePodMoves ==
  ASSUME IInv, NEW p \in Pods, NEW P \in Process,
         pod' = [pod EXCEPT ![p] = P], UNCHANGED <<env, db, schema>>,
         LoopOK(P, recorded, Embedded[p]), HoldsKey(p, P), StopOK(P)
  PROVE  IInv'
<1>1. TypeOK'
  BY DEF IInv, TypeOK, schema
<1>2. /\ pod'[p] = P
      /\ \A q \in Pods : q # p => pod'[q] = pod[q]
  BY DEF IInv, TypeOK
<1>3. LoopsAreTrue'
  BY <1>2 DEF IInv, LoopsAreTrue, schema
<1>4. KeyIsHeld'
  BY <1>2 DEF IInv, KeyIsHeld, HoldsKey, At, schema
<1>5. LogIsBeginning'
  BY DEF IInv, LogIsBeginning, schema
<1>6. StopsAreOrderly'
  BY <1>2 DEF IInv, StopsAreOrderly
<1>7. QED
  BY <1>1, <1>3, <1>4, <1>5, <1>6 DEF IInv

\* A process that has nothing open holds nothing.
LEMMA BareMoves ==
  ASSUME IInv, NEW p \in Pods, NEW main \in {"down", "load"}, NEW c \in BOOLEAN,
         pod' = [pod EXCEPT ![p] = Bare(main, c)], UNCHANGED <<env, db, schema>>
  PROVE  IInv'
<1> DEFINE P == Bare(main, c)
<1>1. P \in Process
  BY DEF Bare, Process, Mains, Opening, Goroutines
<1>2. LoopOK(P, recorded, Embedded[p]) /\ HoldsKey(p, P) /\ StopOK(P)
  BY DEF Bare, LoopOK, HoldsKey, StopOK, Migrating, Running, Stopped
<1>3. QED
  BY <1>1, <1>2, OnePodMoves

\* Waiting, and asking for the table, claims nothing of the schema.
LEMMA WaitingMoves ==
  ASSUME IInv, NEW p \in Pods, NEW main \in {"ping", "ensure", "sleep"},
         Goto(p, main), UNCHANGED <<env, db, schema>>
  PROVE  IInv'
<1> DEFINE P == [pod[p] EXCEPT !.main = main]
<1>1. pod[p] \in Process
  BY DEF IInv, TypeOK
<1>2. P \in Process /\ P.main = main
  BY <1>1 DEF Process, Mains, Opening
<1>3. LoopOK(P, recorded, Embedded[p]) /\ HoldsKey(p, P) /\ StopOK(P)
  BY <1>2 DEF LoopOK, HoldsKey, StopOK, Migrating, Running, Stopped
<1>4. pod' = [pod EXCEPT ![p] = P]
  BY DEF Goto
<1>5. QED
  BY <1>2, <1>3, <1>4, OnePodMoves

\* What some steps write at once into a process leaves it one.
LEMMA FieldTypes ==
  ASSUME NEW P \in Process
  PROVE  /\ \A g \in Goroutines, n \in Nat :
              [P EXCEPT !.routine[g] = "done", !.errs = n] \in Process
         /\ \A n \in Nat :
              /\ [P EXCEPT !.main = "drain", !.errs = n, !.cancelled = TRUE] \in Process
              /\ [P EXCEPT !.main = "check", !.mig = n] \in Process
         /\ \A b \in BOOLEAN :
              [P EXCEPT !.main = "graceful", !.overdue = b] \in Process
         /\ [P EXCEPT !.main = "sleep"] \in Process
BY DEF Process, Mains, Opening

\* Starting, except where several pods move or the schema does.
LEMMA StartupMoves ==
  ASSUME IInv, NEW p \in Pods, Start(p) \/ Load(p) \/ Ping(p) \/ Check(p) \/ Execute(p)
         \/ Record(p) \/ OpenFails(p) \/ Retry(p) \/ GiveUp(p) \/ Serve(p)
  PROVE  IInv'
<1>a. pod[p] \in Process /\ Embedded[p] \in Nat
  BY LifeAssumption DEF IInv, TypeOK
<1>b. LoopOK(pod[p], recorded, Embedded[p]) /\ HoldsKey(p, pod[p]) /\ StopOK(pod[p])
  BY DEF IInv, LoopsAreTrue, KeyIsHeld, StopsAreOrderly, HoldsKey, At
<1>1. CASE Start(p)
  BY <1>1, BareMoves DEF Start
<1>2. CASE Load(p)
  BY <1>2, BareMoves, WaitingMoves DEF Load, Exit
<1>3. CASE Ping(p) \/ OpenFails(p) \/ Retry(p)
  BY <1>3, WaitingMoves DEF Ping, OpenFails, Retry
<1>4. CASE GiveUp(p)
  BY <1>4, BareMoves DEF GiveUp, Exit
<1>5. CASE Check(p) /\ Applied(pod[p].mig)
  <2> DEFINE P == [pod[p] EXCEPT !.mig = @ + 1]
  <2>1. /\ P \in Process /\ pod' = [pod EXCEPT ![p] = P]
        /\ UNCHANGED <<env, db, schema>>
    BY <1>5, <1>a DEF Check, Process
  <2>2. LoopOK(P, recorded, Embedded[p]) /\ HoldsKey(p, P) /\ StopOK(P)
    BY <1>5, <1>a, <1>b
    DEF Check, At, Applied, Process, LoopOK, HoldsKey, StopOK, Migrating,
        Running, Stopped
  <2>3. QED
    BY <2>1, <2>2, OnePodMoves
<1>6. CASE Check(p) /\ ~Applied(pod[p].mig)
  <2> DEFINE P == [pod[p] EXCEPT !.main = "sql"]
  <2>1. /\ P \in Process /\ pod' = [pod EXCEPT ![p] = P]
        /\ UNCHANGED <<env, db, schema>>
    BY <1>6, <1>a DEF Check, At, Goto, Pending, Process, Mains, Opening
  <2>2. LoopOK(P, recorded, Embedded[p]) /\ HoldsKey(p, P) /\ StopOK(P)
    BY <1>6, <1>a, <1>b
    DEF Check, At, Goto, Pending, Process, LoopOK, HoldsKey, StopOK,
        Migrating, Running, Stopped
  <2>3. QED
    BY <2>1, <2>2, OnePodMoves
<1>7. CASE Execute(p)
  <2> DEFINE P == [pod[p] EXCEPT !.main = "record"]
  <2>1. /\ P \in Process /\ pod' = [pod EXCEPT ![p] = P]
        /\ UNCHANGED <<env, db, schema>>
    BY <1>7, <1>a DEF Execute, At, Goto, Process, Mains, Opening
  <2>2. LoopOK(P, recorded, Embedded[p]) /\ HoldsKey(p, P) /\ StopOK(P)
    BY <1>7, <1>a, <1>b
    DEF Execute, At, Goto, Process, LoopOK, HoldsKey, StopOK, Migrating,
        Running, Stopped
  <2>3. QED
    BY <2>1, <2>2, OnePodMoves
<1>8. CASE Record(p)
  <2> DEFINE P == [pod[p] EXCEPT !.main = "commit"]
  <2>1. /\ P \in Process /\ pod' = [pod EXCEPT ![p] = P]
        /\ UNCHANGED <<env, db, schema>>
    BY <1>8, <1>a
    DEF Record, At, Goto, Inserted, InsertRefused, Process, Mains, Opening
  <2>2. LoopOK(P, recorded, Embedded[p]) /\ HoldsKey(p, P) /\ StopOK(P)
    BY <1>8, <1>a, <1>b
    DEF Record, At, Goto, Inserted, InsertRefused, Process, LoopOK, HoldsKey,
        StopOK, Migrating, Running, Stopped
  <2>3. QED
    BY <2>1, <2>2, OnePodMoves
<1>9. CASE Serve(p)
  <2> DEFINE P == [pod[p] EXCEPT !.main = "serve",
               !.routine = [g \in Goroutines |->
                  IF g \notin Started(p) THEN "done"
                  ELSE IF g \in Servers THEN "starting" ELSE "serving"]]
  <2>1. /\ P \in Process /\ pod' = [pod EXCEPT ![p] = P]
        /\ UNCHANGED <<env, db, schema>>
    BY <1>9, <1>a DEF Serve, At, Pending, Process, Mains, Opening
  <2>2. LoopOK(P, recorded, Embedded[p]) /\ HoldsKey(p, P) /\ StopOK(P)
    BY <1>9, <1>a, <1>b
    DEF Serve, At, Pending, Process, LoopOK, HoldsKey, StopOK, Migrating,
        Running, Stopped
  <2>3. QED
    BY <2>1, <2>2, OnePodMoves
<1>10. QED
  BY <1>1, <1>2, <1>3, <1>4, <1>5, <1>6, <1>7, <1>8, <1>9

\* Serving leaves the place of run() alone, and what it must not reopen.
LEMMA ServingMoves ==
  ASSUME IInv, NEW p \in Pods, Traffic(p) \/ \E g \in Goroutines : Return(p, g)
  PROVE  IInv'
<1>a. pod[p] \in Process /\ Embedded[p] \in Nat
  BY LifeAssumption DEF IInv, TypeOK
<1>b. LoopOK(pod[p], recorded, Embedded[p]) /\ HoldsKey(p, pod[p]) /\ StopOK(pod[p])
  BY DEF IInv, LoopsAreTrue, KeyIsHeld, StopsAreOrderly, HoldsKey, At
<1>1. ASSUME NEW g \in Goroutines, Listen(p, g)
     PROVE  IInv'
  <2> DEFINE P == [pod[p] EXCEPT !.routine[g] = "serving"]
  <2>1. /\ P \in Process /\ pod' = [pod EXCEPT ![p] = P]
        /\ UNCHANGED <<env, db, schema>>
    BY <1>1, <1>a DEF Listen, Accepting, Routine, At, Process
  <2>2. LoopOK(P, recorded, Embedded[p]) /\ HoldsKey(p, P) /\ StopOK(P)
    BY <1>1, <1>a, <1>b
    DEF Listen, Accepting, Routine, At, Process, LoopOK, HoldsKey, StopOK,
        Migrating, Running, Stopped
  <2>3. QED
    BY <2>1, <2>2, OnePodMoves
<1>2. ASSUME NEW g \in Goroutines, ServerFails(p, g)
     PROVE  IInv'
  <2> DEFINE P == [pod[p] EXCEPT !.routine[g] = "done", !.errs = @ + 1]
  <2>1. P \in Process
    <3>1. pod[p].errs + 1 \in Nat
      BY <1>a DEF Process
    <3>2. QED
      BY <1>a, <3>1, FieldTypes
  <2>2. pod' = [pod EXCEPT ![p] = P] /\ UNCHANGED <<env, db, schema>>
    BY <1>2 DEF ServerFails
  <2>3. LoopOK(P, recorded, Embedded[p]) /\ HoldsKey(p, P) /\ StopOK(P)
    BY <1>2, <1>a, <1>b
    DEF ServerFails, Process, LoopOK, HoldsKey, StopOK, Migrating, Running,
        Stopped
  <2>4. QED
    BY <2>1, <2>2, <2>3, OnePodMoves
<1>3. ASSUME NEW g \in Goroutines, ServerEnds(p, g) \/ BackgroundEnds(p, g)
     PROVE  IInv'
  <2> DEFINE P == [pod[p] EXCEPT !.routine[g] = "done"]
  <2>1. /\ P \in Process /\ pod' = [pod EXCEPT ![p] = P]
        /\ UNCHANGED <<env, db, schema>>
    BY <1>3, <1>a DEF ServerEnds, BackgroundEnds, Process
  <2>2. LoopOK(P, recorded, Embedded[p]) /\ HoldsKey(p, P) /\ StopOK(P)
    BY <1>3, <1>a, <1>b
    DEF ServerEnds, BackgroundEnds, Process, LoopOK, HoldsKey, StopOK,
        Migrating, Running, Stopped
  <2>3. QED
    BY <2>1, <2>2, OnePodMoves
<1>4. CASE Request(p)
  <2> DEFINE P == [pod[p] EXCEPT !.requests = @ + 1]
  <2>1. /\ P \in Process /\ pod' = [pod EXCEPT ![p] = P]
        /\ UNCHANGED <<env, db, schema>>
    BY <1>4, <1>a DEF Request, At, Process, Mains, Opening
  <2>2. LoopOK(P, recorded, Embedded[p]) /\ HoldsKey(p, P) /\ StopOK(P)
    BY <1>4, <1>a, <1>b
    DEF Request, At, Process, LoopOK, HoldsKey, StopOK, Migrating, Running,
        Stopped
  <2>3. QED
    BY <2>1, <2>2, OnePodMoves
<1>5. CASE Reply(p)
  <2> DEFINE P == [pod[p] EXCEPT !.requests = @ - 1]
  <2>1. /\ P \in Process /\ pod' = [pod EXCEPT ![p] = P]
        /\ UNCHANGED <<env, db, schema>>
    BY <1>5, <1>a DEF Reply, Process, Mains, Opening
  <2>2. LoopOK(P, recorded, Embedded[p]) /\ HoldsKey(p, P) /\ StopOK(P)
    BY <1>5, <1>a, <1>b
    DEF Reply, Process, LoopOK, HoldsKey, StopOK, Migrating, Running, Stopped
  <2>3. QED
    BY <2>1, <2>2, OnePodMoves
<1>6. CASE OpenStream(p)
  <2> DEFINE P == [pod[p] EXCEPT !.streams = @ + 1]
  <2>1. /\ P \in Process /\ pod' = [pod EXCEPT ![p] = P]
        /\ UNCHANGED <<env, db, schema>>
    BY <1>6, <1>a DEF OpenStream, Accepting, At, Process, Mains, Opening
  <2>2. LoopOK(P, recorded, Embedded[p]) /\ HoldsKey(p, P) /\ StopOK(P)
    BY <1>6, <1>a, <1>b
    DEF OpenStream, Accepting, At, Process, LoopOK, HoldsKey, StopOK,
        Migrating, Running, Stopped
  <2>3. QED
    BY <2>1, <2>2, OnePodMoves
<1>7. CASE CloseStream(p)
  <2> DEFINE P == [pod[p] EXCEPT !.streams = @ - 1]
  <2>1. /\ P \in Process /\ pod' = [pod EXCEPT ![p] = P]
        /\ UNCHANGED <<env, db, schema>>
    BY <1>7, <1>a DEF CloseStream, Process, Mains, Opening
  <2>2. LoopOK(P, recorded, Embedded[p]) /\ HoldsKey(p, P) /\ StopOK(P)
    BY <1>7, <1>a, <1>b
    DEF CloseStream, Process, LoopOK, HoldsKey, StopOK, Migrating, Running,
        Stopped
  <2>3. QED
    BY <2>1, <2>2, OnePodMoves
<1>8. QED
  BY <1>1, <1>2, <1>3, <1>4, <1>5, <1>6, <1>7 DEF Traffic, Return, Goroutines

\* Stopping, in the order of run(), and every way a process is ended.
LEMMA ShutdownMoves ==
  ASSUME IInv, NEW p \in Pods, ShutdownStep(p) \/ Signal(p) \/ Kill(p)
  PROVE  IInv'
<1>a. pod[p] \in Process /\ Embedded[p] \in Nat
  BY LifeAssumption DEF IInv, TypeOK
<1>b. LoopOK(pod[p], recorded, Embedded[p]) /\ HoldsKey(p, pod[p]) /\ StopOK(pod[p])
  BY DEF IInv, LoopsAreTrue, KeyIsHeld, StopsAreOrderly, HoldsKey, At
<1>1. CASE StopOnSignal(p)
  <2> DEFINE P == [pod[p] EXCEPT !.main = "drain"]
  <2>1. /\ P \in Process /\ pod' = [pod EXCEPT ![p] = P]
        /\ UNCHANGED <<env, db, schema>>
    BY <1>1, <1>a DEF StopOnSignal, At, Goto, Process, Mains, Opening
  <2>2. LoopOK(P, recorded, Embedded[p]) /\ HoldsKey(p, P) /\ StopOK(P)
    BY <1>1, <1>a, <1>b
    DEF StopOnSignal, At, Goto, Process, LoopOK, HoldsKey, StopOK, Migrating,
        Running, Stopped
  <2>3. QED
    BY <2>1, <2>2, OnePodMoves
<1>2. CASE StopOnFailure(p)
  <2> DEFINE P == [pod[p] EXCEPT !.main = "drain", !.errs = @ - 1, !.cancelled = TRUE]
  <2>1. P \in Process
    <3>1. pod[p].errs - 1 \in Nat
      BY <1>2, <1>a DEF StopOnFailure, Process
    <3>2. QED
      BY <1>a, <3>1, FieldTypes
  <2>2. pod' = [pod EXCEPT ![p] = P] /\ UNCHANGED <<env, db, schema>>
    BY <1>2 DEF StopOnFailure, At
  <2>3. LoopOK(P, recorded, Embedded[p]) /\ HoldsKey(p, P) /\ StopOK(P)
    BY <1>2, <1>a, <1>b
    DEF StopOnFailure, At, Process, LoopOK, HoldsKey, StopOK, Migrating,
        Running, Stopped
  <2>4. QED
    BY <2>1, <2>2, <2>3, OnePodMoves
<1>3. CASE Drain(p)
  <2> DEFINE P == [pod[p] EXCEPT !.main = "graceful", !.overdue = pod[p].requests > 0]
  <2>1. P \in Process
    <3> DEFINE late == pod[p].requests > 0
    <3>1. late \in BOOLEAN
      OBVIOUS
    <3> HIDE DEF late
    <3>2. [pod[p] EXCEPT !.main = "graceful", !.overdue = late] \in Process
      BY <1>a, <3>1, FieldTypes
    <3>3. QED
      BY <3>2 DEF late
  <2>2. pod' = [pod EXCEPT ![p] = P] /\ UNCHANGED <<env, db, schema>>
    BY <1>3 DEF Drain, At
  <2>3. LoopOK(P, recorded, Embedded[p]) /\ HoldsKey(p, P) /\ StopOK(P)
    BY <1>3, <1>a, <1>b
    DEF Drain, At, Process, LoopOK, HoldsKey, StopOK, Migrating, Running,
        Stopped
  <2>4. QED
    BY <2>1, <2>2, <2>3, OnePodMoves
<1>4. CASE GracefulStop(p)
  <2> DEFINE P == [pod[p] EXCEPT !.main = "join"]
  <2>1. /\ P \in Process /\ pod' = [pod EXCEPT ![p] = P]
        /\ UNCHANGED <<env, db, schema>>
    BY <1>4, <1>a DEF GracefulStop, At, Goto, Process, Mains, Opening
  <2>2. LoopOK(P, recorded, Embedded[p]) /\ HoldsKey(p, P) /\ StopOK(P)
    BY <1>4, <1>a, <1>b
    DEF GracefulStop, At, Goto, Process, LoopOK, HoldsKey, StopOK, Migrating,
        Running, Stopped
  <2>3. QED
    BY <2>1, <2>2, OnePodMoves
<1>5. CASE Wait(p)
  <2> DEFINE P == [pod[p] EXCEPT !.main = "close"]
  <2>1. /\ P \in Process /\ pod' = [pod EXCEPT ![p] = P]
        /\ UNCHANGED <<env, db, schema>>
    BY <1>5, <1>a DEF Wait, At, Goto, Routine, Process, Mains, Opening
  <2>2. LoopOK(P, recorded, Embedded[p]) /\ HoldsKey(p, P) /\ StopOK(P)
    BY <1>5, <1>a, <1>b
    DEF Wait, At, Goto, Routine, Process, LoopOK, HoldsKey, StopOK, Migrating,
        Running, Stopped
  <2>3. QED
    BY <2>1, <2>2, OnePodMoves
<1>6. CASE Close(p) \/ Kill(p) \/ (Signal(p) /\ At(p, "load"))
  BY <1>6, BareMoves DEF Close, Kill, Signal, Exit
<1>7. CASE Signal(p) /\ ~At(p, "load")
  <2> DEFINE P == [pod[p] EXCEPT !.cancelled = TRUE]
  <2>1. /\ P \in Process /\ pod' = [pod EXCEPT ![p] = P]
        /\ UNCHANGED <<env, db, schema>>
    BY <1>7, <1>a DEF Signal, Process, Mains, Opening
  <2>2. LoopOK(P, recorded, Embedded[p]) /\ HoldsKey(p, P) /\ StopOK(P)
    BY <1>7, <1>a, <1>b
    DEF Signal, Process, LoopOK, HoldsKey, StopOK, Migrating, Running, Stopped
  <2>3. QED
    BY <2>1, <2>2, OnePodMoves
<1>8. QED
  BY <1>1, <1>2, <1>3, <1>4, <1>5, <1>6, <1>7 DEF ShutdownStep

\* Pods that are thrown back to waiting, or begin the loop, with the schema
\* as it was.
LEMMA SeveralMove ==
  ASSUME IInv, pod' \in [Pods -> Process], UNCHANGED <<env, log, recorded>>,
         db' \in BOOLEAN, table' \in BOOLEAN,
         \A q \in Pods : \/ pod'[q] = pod[q]
                         \/ pod'[q].main = "sleep"
                         \/ pod'[q].main = "check" /\ pod'[q].mig = 1
  PROVE  IInv'
<1>1. TypeOK'
  BY DEF IInv, TypeOK
<1>2. LoopsAreTrue'
  BY DEF IInv, LoopsAreTrue, LoopOK, Migrating, Running
<1>3. KeyIsHeld'
  BY DEF IInv, KeyIsHeld, At
<1>4. LogIsBeginning'
  BY DEF IInv, LogIsBeginning
<1>5. StopsAreOrderly'
  BY DEF IInv, StopsAreOrderly, StopOK, Stopped
<1>6. QED
  BY <1>1, <1>2, <1>3, <1>4, <1>5 DEF IInv

\* The database goes and comes, and Ensure throws back those it overtakes.
LEMMA DatabaseMoves ==
  ASSUME IInv, DatabaseFails \/ DatabaseReturns \/ \E p \in Pods : Ensure(p)
  PROVE  IInv'
<1>a. pod \in [Pods -> Process] /\ db \in BOOLEAN /\ table \in BOOLEAN
  BY DEF IInv, TypeOK
<1>1. CASE DatabaseFails
  <2>1. pod' \in [Pods -> Process]
    BY <1>1, <1>a DEF DatabaseFails, Process, Mains, Opening
  <2>2. \A q \in Pods : pod'[q] = pod[q] \/ pod'[q].main = "sleep"
    BY <1>1, <1>a DEF DatabaseFails, Process
  <2>3. QED
    BY <1>1, <1>a, <2>1, <2>2, SeveralMove DEF DatabaseFails, schema
<1>2. CASE DatabaseReturns
  BY <1>2, <1>a, SeveralMove DEF DatabaseReturns, schema
<1>3. ASSUME NEW p \in Pods, Ensure(p)
      PROVE  IInv'
  <2>1. \A q \in Pods : \/ pod'[q] = [pod[q] EXCEPT !.main = "check", !.mig = 1]
                        \/ pod'[q] = [pod[q] EXCEPT !.main = "sleep"]
                        \/ pod'[q] = pod[q]
    BY <1>3 DEF Ensure
  <2>2. pod' \in [Pods -> Process]
    <3>1. pod' = [q \in Pods |-> pod'[q]]
      BY <1>3 DEF Ensure
    <3>2. ASSUME NEW q \in Pods
          PROVE  pod'[q] \in Process
      <4>1. pod[q] \in Process /\ 1 \in Nat
        BY <1>a
      <4>2. [pod[q] EXCEPT !.main = "check", !.mig = 1] \in Process
        BY <4>1, FieldTypes, Zenon
      <4>3. [pod[q] EXCEPT !.main = "sleep"] \in Process
        BY <4>1, FieldTypes, Zenon
      <4>4. QED
        BY <2>1, <4>1, <4>2, <4>3, Zenon
    <3>3. QED
      BY <3>1, <3>2
  <2>3. \A q \in Pods : \/ pod'[q] = pod[q]
                        \/ pod'[q].main = "sleep"
                        \/ pod'[q].main = "check" /\ pod'[q].mig = 1
    BY <1>a, <2>1 DEF Process
  <2>4. QED
    BY <1>3, <1>a, <2>2, <2>3, SeveralMove DEF Ensure
<1>4. QED
  BY <1>1, <1>2, <1>3
-----------------------------------------------------------------------------
(***************************************************************************)
(* The commit.                                                             *)
(***************************************************************************)

\* The next migration makes a beginning of the list a longer one.
LEMMA BeginningGrows ==
  ASSUME NEW k \in Nat
  PROVE  /\ Len([i \in 1..k |-> i]) = k
         /\ Append([i \in 1..k |-> i], k + 1) = [i \in 1..(k + 1) |-> i]
OBVIOUS

\* A commit takes the schema to the next migration of the list, and to no other.
LEMMA CommitIsNext ==
  ASSUME IInv, NEW p \in Pods, Commit(p)
  PROVE  /\ pod[p].mig = Len(log) + 1 /\ Len(log) + 1 \in Versions
         /\ log' = [i \in 1..(Len(log) + 1) |-> i]
         /\ recorded' = 1..(Len(log) + 1)
<1> DEFINE n == pod[p].mig
<1>1. /\ n \in Nat \ {0} /\ Embedded[p] \in Nat /\ n <= Embedded[p]
      /\ n \notin recorded
      /\ \A i \in 1..Embedded[p] : i < n => i \in recorded
  BY LifeAssumption
  DEF IInv, TypeOK, Process, LoopsAreTrue, LoopOK, Migrating, KeyIsHeld, Commit, At
<1>2. Len(log) \in Nat /\ recorded = 1..Len(log) /\ log = [i \in 1..Len(log) |-> i]
  BY DEF IInv, TypeOK, LogIsBeginning
<1>3. n = Len(log) + 1
  <2>1. n > Len(log)
    BY <1>1, <1>2
  <2>2. ~(n > Len(log) + 1)
    BY <1>1, <1>2
  <2>3. QED
    BY <1>1, <1>2, <2>1, <2>2
<1>4. n \in Versions
  BY <1>1 DEF Versions
<1>5. log' = Append(log, n) /\ recorded' = recorded \cup {n}
  BY DEF Commit
<1>6. log' = [i \in 1..(Len(log) + 1) |-> i]
  BY <1>2, <1>3, <1>5, BeginningGrows
<1>7. recorded' = 1..(Len(log) + 1)
  BY <1>2, <1>3, <1>5
<1>8. QED
  BY <1>3, <1>4, <1>6, <1>7

\* A commit keeps the invariant, whether its answer arrives or not.
LEMMA CommitMoves ==
  ASSUME IInv, NEW p \in Pods, Commit(p)
  PROVE  IInv'
<1> DEFINE n == pod[p].mig
<1>1. /\ n = Len(log) + 1 /\ n \in Versions /\ n \in Nat
      /\ log' = [i \in 1..n |-> i] /\ recorded' = 1..n
      /\ log \in Seq(Versions) /\ recorded \subseteq Versions
  BY CommitIsNext DEF IInv, TypeOK
<1>2. log' = Append(log, n) /\ recorded' = recorded \cup {n}
  BY DEF Commit
<1>a. pod[p] \in Process
  BY DEF IInv, TypeOK
<1>3. /\ \/ pod'[p] = [pod[p] EXCEPT !.main = "check", !.mig = n + 1]
         \/ pod'[p] = [pod[p] EXCEPT !.main = "sleep"]
      /\ pod' = [pod EXCEPT ![p] = pod'[p]]
      /\ \A q \in Pods : q # p => pod'[q] = pod[q]
  BY DEF IInv, TypeOK, Commit, Goto
<1>4. pod'[p] \in Process
  <2>1. n + 1 \in Nat
    BY <1>1
  <2>2. [pod[p] EXCEPT !.main = "check", !.mig = n + 1] \in Process
    BY <1>a, <2>1, FieldTypes, Zenon
  <2>3. [pod[p] EXCEPT !.main = "sleep"] \in Process
    BY <1>a, FieldTypes, Zenon
  <2>4. QED
    BY <1>3, <2>2, <2>3, Zenon
<1>5. TypeOK'
  BY <1>1, <1>2, <1>3, <1>4 DEF IInv, TypeOK, Commit
<1>6. LoopOK(pod'[p], recorded', Embedded[p])
  <2>1. \/ pod'[p].main = "check" /\ pod'[p].mig = n + 1
        \/ pod'[p].main = "sleep"
    BY <1>3, <1>a DEF Process
  <2>2. Embedded[p] \in Nat /\ \A i \in 1..Embedded[p] : i < n + 1 => i \in recorded'
    BY <1>1, LifeAssumption
  <2>3. QED
    BY <1>1, <2>1, <2>2 DEF LoopOK, Migrating, Running
<1>7. LoopsAreTrue'
  BY <1>2, <1>3, <1>6 DEF IInv, LoopsAreTrue, LoopOK
<1>8. At(p, "commit") /\ ~At(p, "commit")'
  BY <1>3, <1>a DEF Commit, At, Process
<1>9. KeyIsHeld'
  BY <1>2, <1>3, <1>8 DEF IInv, KeyIsHeld, At
<1>10. LogIsBeginning'
  BY <1>1, BeginningGrows DEF LogIsBeginning
<1>11. StopOK(pod'[p])
  BY <1>3, <1>a DEF StopOK, Stopped, Process
<1>12. StopsAreOrderly'
  BY <1>3, <1>11 DEF IInv, StopsAreOrderly
<1>13. QED
  BY <1>5, <1>7, <1>9, <1>10, <1>12 DEF IInv
-----------------------------------------------------------------------------
(***************************************************************************)
(* Invariance.                                                             *)
(***************************************************************************)

\* A database that was migrated before, or never, and pods that are down.
LEMMA InitialStates == Init => IInv
<1> SUFFICES ASSUME Init
             PROVE  IInv
  OBVIOUS
<1>1. PICK k \in {0} \cup Versions :
        log = [i \in 1..k |-> i] /\ recorded = 1..k /\ table = (k > 0)
  BY DEF Init
<1>2. \A v \in Versions : v \in Nat /\ 1..v \subseteq Versions
  BY LifeAssumption DEF Versions
<1>3. k \in Nat /\ 1..k \subseteq Versions
  BY <1>2
<1>4. Len(log) = k /\ log \in Seq(Versions)
  BY <1>1, <1>3
<1>5. \A p \in Pods : pod[p] = Bare("down", FALSE)
  BY DEF Init
<1>6. TypeOK
  <2>1. pod \in [Pods -> Process]
    BY DEF Init, Bare, Process, Mains, Goroutines
  <2>2. table \in BOOLEAN
    BY <1>1
  <2>3. QED
    BY <1>1, <1>3, <1>4, <2>1, <2>2 DEF Init, TypeOK
<1>7. LoopsAreTrue /\ KeyIsHeld /\ StopsAreOrderly
  BY <1>5
  DEF LoopsAreTrue, LoopOK, KeyIsHeld, StopsAreOrderly, StopOK, Bare, At,
              Migrating, Running, Stopped
<1>8. LogIsBeginning
  BY <1>1, <1>4 DEF LogIsBeginning
<1>9. QED
  BY <1>6, <1>7, <1>8 DEF IInv

\* Every step keeps the invariant.
LEMMA Steps == IInv /\ [Next]_vars => IInv'
<1> SUFFICES ASSUME IInv, [Next]_vars
             PROVE  IInv'
  OBVIOUS
<1>1. ASSUME NEW p \in Pods, StartupStep(p)
      PROVE  IInv'
  BY <1>1, StartupMoves, CommitMoves, DatabaseMoves DEF StartupStep
<1>2. ASSUME NEW p \in Pods,
             \/ Start(p) \/ ShutdownStep(p) \/ Signal(p) \/ Kill(p) \/ Traffic(p)
             \/ \E g \in Goroutines : Return(p, g)
      PROVE  IInv'
  BY <1>2, StartupMoves, ServingMoves, ShutdownMoves
<1>3. CASE DatabaseFails \/ DatabaseReturns
  BY <1>3, DatabaseMoves
<1>4. CASE UNCHANGED vars
  BY <1>4
  DEF vars, schema, IInv, TypeOK, LoopsAreTrue, KeyIsHeld, LogIsBeginning,
              StopsAreOrderly, At
<1>5. QED
  BY <1>1, <1>2, <1>3, <1>4 DEF Next

\* The inductive invariant holds throughout.
THEOREM Invariance == Spec => []IInv
BY InitialStates, Steps, PTL DEF Spec

\* Every value stays in its domain.
THEOREM TypeCorrectness == Spec => []TypeOK
<1>1. IInv => TypeOK
  BY DEF IInv
<1>2. QED
  BY <1>1, Invariance, PTL

\* The schema never differs from its record, and a pod that serves has every
\* migration of its binary beneath it (storage.go:69-112), however many pods of
\* whatever versions migrate, fail and are killed at once.
THEOREM SchemaIsWhole == Spec => []WholeSchema
<1>1. IInv => WholeSchema
  <2> SUFFICES ASSUME IInv
               PROVE  WholeSchema
    OBVIOUS
  <2>1. recorded = Range(log)
    BY DEF IInv, TypeOK, LogIsBeginning, Range
  <2>2. QED
    BY <2>1 DEF IInv, LoopsAreTrue, LoopOK, Running, WholeSchema
<1>2. QED
  BY <1>1, Invariance, PTL

\* store.Close comes after everything that uses the store (main.go:69, 186-188),
\* except requests that Shutdown gave up on.
THEOREM PoolIsClosedLast == Spec => []PoolClosedLast
<1>1. IInv => PoolClosedLast
  BY DEF IInv, StopsAreOrderly, StopOK, Stopped, PoolClosedLast, At, Routine
<1>2. QED
  BY <1>1, Invariance, PTL
-----------------------------------------------------------------------------
(***************************************************************************)
(* The refinement of MigrationLog.                                         *)
(***************************************************************************)

\* Only a commit touches the schema's log or its record.
LEMMA OnlyCommits ==
  ASSUME IInv, [Next]_vars
  PROVE  UNCHANGED <<log, recorded>> \/ \E p \in Pods : Commit(p)
<1>1. ASSUME NEW p \in Pods, StartupStep(p), ~Commit(p)
      PROVE  UNCHANGED <<log, recorded>>
  BY <1>1
  DEF StartupStep, Load, Ping, Ensure, Check, Execute, Record, OpenFails,
              Retry, GiveUp, Serve, schema
<1>2. ASSUME NEW p \in Pods, Start(p) \/ ShutdownStep(p) \/ Signal(p) \/ Kill(p)
      PROVE  UNCHANGED <<log, recorded>>
  BY <1>2
  DEF Start, ShutdownStep, StopOnSignal, StopOnFailure, Drain, GracefulStop,
              Wait, Close, Signal, Kill, schema
<1>3. ASSUME NEW p \in Pods, Traffic(p) \/ \E g \in Goroutines : Return(p, g)
      PROVE  UNCHANGED <<log, recorded>>
  BY <1>3 DEF Traffic, Return, Listen, ServerFails, ServerEnds, BackgroundEnds,
              Request, Reply, OpenStream, CloseStream, schema
<1>4. CASE DatabaseFails \/ DatabaseReturns \/ UNCHANGED vars
  BY <1>4 DEF DatabaseFails, DatabaseReturns, vars, schema
<1>5. QED
  BY <1>1, <1>2, <1>3, <1>4 DEF Next

\* Pods that migrate at once take the schema through the migrations in order and
\* exactly once (storage.go:67): the initial states are those of MigrationLog, a
\* commit is its Apply, every other step a stutter.
THEOREM Refinement == Spec => MigratesInOrder
<1>1. Init => Migrations!Init
  BY DEF Init, Migrations!Init, Migrations!InOrder
<1>2. IInv /\ [Next]_vars => [Migrations!Apply]_(Migrations!vars)
  <2> SUFFICES ASSUME IInv, [Next]_vars
               PROVE  [Migrations!Apply]_(Migrations!vars)
    OBVIOUS
  <2>1. ASSUME NEW p \in Pods, Commit(p)
        PROVE  Migrations!Apply
    <3>1. recorded' = recorded \cup {Len(log) + 1}
      BY <2>1, CommitIsNext DEF Commit
    <3>2. QED
      BY <2>1, <3>1, CommitIsNext DEF Migrations!Apply, Migrations!InOrder
  <2>2. QED
    BY <2>1, OnlyCommits DEF Migrations!vars
<1>3. QED
  BY <1>1, <1>2, Invariance, PTL DEF Spec, MigratesInOrder, Migrations!Spec
=============================================================================
