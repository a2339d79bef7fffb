----------------------------- MODULE PhoneProofs -----------------------------
(***************************************************************************)
(* Proofs about the phone: MonitoringSession, for any number of screens    *)
(* and sessions, and HazardConfirmation, for any policy and any frames.    *)
(***************************************************************************)
EXTENDS MonitoringSession, HazardConfirmation, SequenceTheorems,
        WellFoundedInduction, TLAPS

-----------------------------------------------------------------------------
(***************************************************************************)
(* The session: its inductive invariant.                                   *)
(***************************************************************************)

\* A coroutine that was launched, goes on, and that nobody has cancelled.
Active(s) == job[s].pc \notin {"none", "ended"} /\ ~job[s].cancelled

\* Screens whose session is meant to go on: those that say so, but for the one
\* being stopped, and the one whose coroutine was just launched.
Kept(v) ==
  \/ main.op = "launched" /\ main.on = v
  \/ /\ Live(v) /\ screen[v].status = "Monitoring"
     /\ ~(main.op = "stopped" /\ main.on = v)

\* A session has a coroutine from its number on, and a screen a session that
\* was started.
SessionsAreCounted ==
  /\ \A s \in Sessions : s <= session <=> job[s].pc # "none"
  /\ \A s \in Sessions : s > session => ~job[s].cancelled
  /\ \A v \in Screens : screen[v].session <= session

\* What the main thread is in the middle of, it knows the screen of.
MainKnowsItsScreen ==
  /\ main.op = "free" <=> main.on = None
  /\ main.op = "launched" => Live(main.on) /\ screen[main.on].status = "Idle"
  /\ main.op = "stopped" =>
       screen[main.on].life = IF main.clearing THEN "cleared" ELSE "live"
  /\ main.op = "closing" => screen[main.on].life = "cleared"
  /\ \A v \in Screens : screen[v].life = "none" => screen[v].status = "Idle"

\* The coroutines that go on are those of the kept screens, one each.
KeptAreActive ==
  /\ \A v \in Screens :
       Kept(v) => screen[v].session \in Sessions /\ Active(screen[v].session)
  /\ \A u, v \in Screens :
       Kept(u) /\ Kept(v) /\ screen[u].session = screen[v].session => u = v
  /\ \A s \in Sessions : Active(s) => \E v \in Screens : Kept(v) /\ screen[v].session = s

\* While view models do not overlap the camera has one screen to follow.
OneAtATime ==
  ~crossed =>
    /\ \A u, v \in Screens : Live(u) /\ Live(v) => u = v
    /\ main.op # "free" => \A v \in Screens : Live(v) => v = main.on
    /\ running <=> \E v \in Screens : Kept(v)

\* The first half of LoadedStaysLoaded, from the write of the model on.
LoadedHasModel ==
  ~crossed =>
    \A v \in Screens : Live(v) /\ load[v] \in {"loaded", "ready"} => detector.model # None

\* Only the frame in a coroutine's hands can be late.
LateIsOne ==
  \A s \in Sessions :
    /\ job[s].late <= 1
    /\ ~job[s].cancelled \/ job[s].pc = "analyzing" => job[s].late = 0

ThreadsAgree ==
  /\ SessionsAreCounted /\ MainKnowsItsScreen /\ KeptAreActive
  /\ OneAtATime /\ LoadedHasModel /\ LateIsOne

IInv == TypeOK /\ ThreadsAgree

-----------------------------------------------------------------------------
(***************************************************************************)
(* Every value stays in its domain.                                        *)
(***************************************************************************)
JobPcs == {"none", "launched", "waiting", "analyzing", "confirming", "ended"}

\* What a step may do to a coroutine leaves it a coroutine.
LEMMA JobMoves ==
  ASSUME NEW j \in [Sessions -> Job], NEW s
  PROVE  /\ \A p \in JobPcs : [j EXCEPT ![s].pc = p] \in [Sessions -> Job]
         /\ [j EXCEPT ![s].cancelled = TRUE] \in [Sessions -> Job]
         /\ \A p \in JobPcs, n \in Nat :
              [j EXCEPT ![s].pc = p, ![s].late = n] \in [Sessions -> Job]
<1>1. ASSUME NEW k \in Job, NEW p \in JobPcs
      PROVE  [k EXCEPT !.pc = p] \in Job
  BY DEF Job, JobPcs
<1>2. ASSUME NEW k \in Job
      PROVE  [k EXCEPT !.cancelled = TRUE] \in Job
  BY DEF Job
<1>3. ASSUME NEW k \in Job, NEW p \in JobPcs, NEW n \in Nat
      PROVE  [k EXCEPT !.pc = p, !.late = n] \in Job
  BY DEF Job, JobPcs
<1>4. ASSUME NEW k \in Job
      PROVE  [j EXCEPT ![s] = k] \in [Sessions -> Job]
  OBVIOUS
<1>5. CASE s \in Sessions
  <2>1. j[s] \in Job
    BY <1>5
  <2>2. QED
    BY <1>1, <1>2, <1>3, <1>4, <2>1
<1>6. CASE s \notin Sessions
  BY <1>6
<1>7. QED
  BY <1>5, <1>6

\* The same of a view model.
LEMMA ScreenMoves ==
  ASSUME NEW w \in [Screens -> Screen], NEW v
  PROVE  /\ \A l \in {"none", "live", "cleared"} :
              [w EXCEPT ![v].life = l] \in [Screens -> Screen]
         /\ \A s \in Sessions : [w EXCEPT ![v].session = s] \in [Screens -> Screen]
         /\ [w EXCEPT ![v].status = "Monitoring"] \in [Screens -> Screen]
         /\ [w EXCEPT ![v].status = "Idle", ![v].session = None] \in [Screens -> Screen]
BY DEF Screen

LEMMA TypesInitially == Init => TypeOK
<1>1. /\ [pc |-> "none", cancelled |-> FALSE, late |-> 0] \in Job
      /\ [life |-> "none", status |-> "Idle", session |-> None] \in Screen
      /\ Free \in Main
      /\ [status |-> "NotProvisioned", model |-> None] \in Detector
  BY DEF Job, Screen, Main, Free, Detector
<1>2. 0 \in 0..MaxSessions
  BY SessionAssumption
<1>3. QED
  BY <1>1, <1>2 DEF Init, TypeOK

LEMMA MainTypes ==
  ASSUME TypeOK,
         \/ \E v \in Screens : \/ CreateViewModel(v) \/ Clear(v)
                              \/ StartMonitoring(v) \/ StopMonitoring(v)
         \/ MainStep
  PROVE  TypeOK'
<1> USE DEF TypeOK, camera, model
<1>1. ASSUME NEW v \in Screens, NEW op \in {"launched", "stopped", "closing"},
             NEW clearing \in BOOLEAN, Begin(op, v, clearing)
      PROVE  main' \in Main
  BY <1>1 DEF Begin, Main
<1>2. ASSUME NEW v \in Screens, CreateViewModel(v)
      PROVE  TypeOK'
  BY <1>2, ScreenMoves DEF CreateViewModel
<1>3. ASSUME NEW v \in Screens, Clear(v)
      PROVE  TypeOK'
  <2>1. screen' \in [Screens -> Screen]
    BY <1>3, ScreenMoves DEF Clear
  <2>2. main' \in Main
    BY <1>1, <1>3 DEF Clear
  <2>3. running' \in BOOLEAN /\ job' \in [Sessions -> Job]
    <3>1. CASE screen[v].status = "Monitoring"
      <4>1. running' = FALSE /\ CancelJob(v)
        BY <1>3, <3>1 DEF Clear
      <4>2. QED
        BY <4>1, JobMoves DEF CancelJob
    <3>2. CASE screen[v].status # "Monitoring"
      BY <1>3, <3>2 DEF Clear
    <3>3. QED
      BY <3>1, <3>2
  <2>4. QED
    BY <1>3, <2>1, <2>2, <2>3 DEF Clear
<1>4. ASSUME NEW v \in Screens, StartMonitoring(v)
      PROVE  TypeOK'
  <2>1. session + 1 \in Sessions /\ session' = session + 1 /\ session' \in 0..MaxSessions
    BY <1>4, SessionAssumption DEF StartMonitoring, Sessions
  <2>2. main' \in Main
    BY <1>1, <1>4 DEF StartMonitoring
  <2>3. screen' \in [Screens -> Screen]
    BY <1>4, <2>1, ScreenMoves DEF StartMonitoring
  <2>4. job' \in [Sessions -> Job]
    BY <1>4, JobMoves DEF StartMonitoring, JobPcs
  <2>5. QED
    BY <1>4, <2>1, <2>2, <2>3, <2>4 DEF StartMonitoring
<1>5. ASSUME NEW v \in Screens, StopMonitoring(v)
      PROVE  TypeOK'
  <2>1. main' \in Main
    BY <1>1, <1>5 DEF StopMonitoring
  <2>2. job' \in [Sessions -> Job]
    BY <1>5, JobMoves DEF StopMonitoring, CancelJob
  <2>3. QED
    BY <1>5, <2>1, <2>2 DEF StopMonitoring
<1>6. Free \in Main /\ [main EXCEPT !.op = "closing"] \in Main
  BY DEF Free, Main
<1>7. CASE ShowMonitoring
  BY <1>6, <1>7, ScreenMoves DEF ShowMonitoring
<1>8. CASE ShowIdle
  BY <1>6, <1>8, ScreenMoves DEF ShowIdle
<1>9. CASE CloseDetector
  BY <1>6, <1>9 DEF CloseDetector, Detector
<1> HIDE DEF TypeOK
<1>10. QED
  BY <1>2, <1>3, <1>4, <1>5, <1>7, <1>8, <1>9 DEF MainStep

LEMMA BackgroundTypes ==
  ASSUME TypeOK,
         \/ \E v \in Screens : LoadStep(v)
         \/ Capture \/ Emit
         \/ \E s \in Sessions : JobStep(s)
  PROVE  TypeOK'
<1> USE DEF TypeOK, camera, model
<1>1. ASSUME NEW v \in Screens, LoadStep(v)
      PROVE  TypeOK'
  BY <1>1 DEF LoadStep, LoadDropped, LoadBegins, LoadPublishesModel,
               LoadShowsReady, LoadFails, Detector
<1>2. CASE Capture \/ Emit
  <2>1. [s \in Sessions |-> slot[s] \/ Subscribed(s)] \in [Sessions -> BOOLEAN]
    BY DEF Subscribed
  <2>2. QED
    BY <1>2, <2>1 DEF Capture, Emit
<1>3. ASSUME NEW s \in Sessions, JobStep(s)
      PROVE  TypeOK'
  <2>1. UNCHANGED <<main, screen, crossed, load, detector, running, grabbed, session>>
    BY <1>3 DEF JobStep, Subscribe, Take, End, Analyze, Fail, Publish, Goto
  <2>2. slot' \in [Sessions -> BOOLEAN]
    BY <1>3 DEF JobStep, Subscribe, Take, End, Analyze, Fail, Publish, Goto
  <2>3. job' \in [Sessions -> Job]
    <3>1. CASE Analyze(s)
      <4> DEFINE n == IF job[s].cancelled THEN job[s].late + 1 ELSE job[s].late
      <4>1. n \in Nat
        BY DEF Job
      <4>2. job' = [job EXCEPT ![s].pc = "confirming", ![s].late = n]
        BY <3>1 DEF Analyze
      <4> HIDE DEF n
      <4>3. QED
        BY <4>1, <4>2, JobMoves DEF JobPcs
    <3>2. CASE Subscribe(s) \/ Take(s) \/ End(s) \/ Fail(s) \/ Publish(s)
      <4>1. PICK p \in JobPcs : Goto(s, p)
        BY <3>2 DEF Subscribe, Take, End, Fail, Publish, JobPcs
      <4>2. QED
        BY <4>1, JobMoves DEF Goto
    <3>3. QED
      BY <1>3, <3>1, <3>2 DEF JobStep
  <2>4. QED
    BY <2>1, <2>2, <2>3
<1> HIDE DEF TypeOK
<1>4. QED
  BY <1>1, <1>2, <1>3

LEMMA TypesKept == TypeOK /\ [Next]_vars => TypeOK'
<1> SUFFICES ASSUME TypeOK, [Next]_vars
             PROVE  TypeOK'
  OBVIOUS
<1>1. CASE UNCHANGED vars
  BY <1>1 DEF vars, model, camera, TypeOK
<1>2. CASE Next
  BY <1>2, MainTypes, BackgroundTypes DEF Next
<1>3. QED
  BY <1>1, <1>2
-----------------------------------------------------------------------------
(***************************************************************************)
(* The main thread.                                                        *)
(***************************************************************************)

\* A view model comes up: idle, and with its load before it.
LEMMA Creates ==
  ASSUME IInv, TypeOK', NEW v \in Screens, CreateViewModel(v)
  PROVE  IInv'
<1>a. /\ TypeOK /\ SessionsAreCounted /\ MainKnowsItsScreen /\ KeptAreActive
      /\ OneAtATime /\ LoadedHasModel /\ LateIsOne
  BY DEF IInv, ThreadsAgree
<1>1. /\ screen' = [screen EXCEPT ![v].life = "live"] /\ screen[v].life = "none"
      /\ screen'[v] = [screen[v] EXCEPT !.life = "live"]
      /\ \A u \in Screens : u # v => screen'[u] = screen[u]
      /\ load' = [load EXCEPT ![v] = "queued"] /\ load'[v] = "queued"
      /\ \A u \in Screens : u # v => load'[u] = load[u]
      /\ UNCHANGED <<main, detector, running, grabbed, session, job, slot>>
      /\ main.op = "free" /\ crossed' = (crossed \/ \E u \in Screens : Live(u))
  BY <1>a DEF CreateViewModel, TypeOK, camera
<1>2. \A u \in Screens : /\ screen'[u].status = screen[u].status
                         /\ screen'[u].session = screen[u].session
                         /\ screen'[u].life = IF u = v THEN "live" ELSE screen[u].life
  BY <1>a, <1>1 DEF TypeOK, Screen
<1>3. screen[v].status = "Idle"
  BY <1>a, <1>1 DEF MainKnowsItsScreen
<1>4. \A u \in Screens : Kept(u)' <=> Kept(u)
  BY <1>1, <1>2, <1>3 DEF Kept, Live
<1>5. SessionsAreCounted'
  BY <1>a, <1>1, <1>2 DEF SessionsAreCounted
<1>6. MainKnowsItsScreen'
  BY <1>a, <1>1, <1>2 DEF MainKnowsItsScreen
<1>7. KeptAreActive'
  BY <1>a, <1>1, <1>2, <1>4 DEF KeptAreActive, Active
<1>8. OneAtATime'
  <2> SUFFICES ASSUME ~crossed' PROVE OneAtATime'
    BY <1>a DEF OneAtATime
  <2>1. ~crossed /\ \A u \in Screens : ~Live(u)
    BY <1>1
  <2>2. \A u \in Screens : Live(u)' => u = v
    BY <1>2, <2>1 DEF Live
  <2>3. running' <=> \E u \in Screens : Kept(u)'
    BY <1>a, <1>1, <1>4, <2>1 DEF OneAtATime
  <2>4. QED
    BY <1>a, <1>1, <2>2, <2>3 DEF OneAtATime
<1>9. LoadedHasModel'
  BY <1>a, <1>1, <1>2 DEF LoadedHasModel, Live
<1>10. LateIsOne'
  BY <1>a, <1>1 DEF LateIsOne
<1>11. QED
  BY <1>5, <1>6, <1>7, <1>8, <1>9, <1>10 DEF IInv, ThreadsAgree

\* What a step does that neither starts nor cancels, on a screen that stays.
LEMMA ScreensRest ==
  ASSUME IInv, UNCHANGED <<main, screen, crossed, running, session>>,
         \A s \in Sessions : /\ job'[s].pc = "none" <=> job[s].pc = "none"
                             /\ job'[s].cancelled = job[s].cancelled
                             /\ Active(s)' <=> Active(s)
  PROVE  SessionsAreCounted' /\ MainKnowsItsScreen' /\ KeptAreActive' /\ OneAtATime'
<1>a. /\ TypeOK /\ SessionsAreCounted /\ MainKnowsItsScreen /\ KeptAreActive
      /\ OneAtATime /\ LoadedHasModel /\ LateIsOne
  BY DEF IInv, ThreadsAgree
<1>1. \A v \in Screens : (Kept(v)' <=> Kept(v)) /\ (Live(v)' <=> Live(v))
  BY DEF Kept, Live
<1>2. SessionsAreCounted'
  BY <1>a DEF SessionsAreCounted
<1>3. MainKnowsItsScreen'
  BY <1>a DEF MainKnowsItsScreen, Live
<1>4. KeptAreActive'
  BY <1>a, <1>1 DEF KeptAreActive
<1>5. OneAtATime'
  BY <1>a, <1>1 DEF OneAtATime
<1>6. QED
  BY <1>2, <1>3, <1>4, <1>5

\* A session starts: its number is new, and its screen is kept at once.
LEMMA Starts ==
  ASSUME IInv, TypeOK', NEW v \in Screens, StartMonitoring(v)
  PROVE  IInv'
<1>a. /\ TypeOK /\ SessionsAreCounted /\ MainKnowsItsScreen /\ KeptAreActive
      /\ OneAtATime /\ LoadedHasModel /\ LateIsOne
  BY DEF IInv, ThreadsAgree
<1> DEFINE n == session + 1
<1>1. /\ n \in Sessions /\ session' = n /\ n > session
      /\ session \in Nat /\ n \in Nat /\ ~(n <= session)
      /\ \A m \in Nat : m <= session => m # n /\ m <= n
      /\ \A s \in Sessions : s # n => (s <= n <=> s <= session)
      /\ \A s \in Sessions : s > n => s > session
  BY <1>a, SessionAssumption DEF StartMonitoring, TypeOK, Sessions
<1> HIDE DEF n
<1>2. /\ main.op = "free" /\ Live(v) /\ screen[v].status = "Idle"
      /\ running' = TRUE
      /\ main'.op = "launched" /\ main'.on = v /\ main'.clearing = FALSE
      /\ UNCHANGED <<crossed, load, detector>>
  BY DEF StartMonitoring, Begin, model
<1>3. \A u \in Screens :
        /\ screen'[u].life = screen[u].life /\ screen'[u].status = screen[u].status
        /\ screen'[u].session = IF u = v THEN n ELSE screen[u].session
  BY <1>a DEF StartMonitoring, TypeOK, Screen, n
<1>4. \A s \in Sessions :
        /\ job'[s].pc = IF s = n THEN "launched" ELSE job[s].pc
        /\ job'[s].cancelled = job[s].cancelled /\ job'[s].late = job[s].late
  BY <1>a DEF StartMonitoring, TypeOK, Job, n
<1>5. job[n].pc = "none" /\ ~job[n].cancelled
  BY <1>a, <1>1 DEF SessionsAreCounted
<1>6. \A u \in Screens : /\ screen[u].session \in Nat
                         /\ screen[u].session <= session
  BY <1>a DEF SessionsAreCounted, TypeOK, Screen, Sessions, None
<1>7. \A u \in Screens : /\ Live(u)' <=> Live(u)
                         /\ Kept(u)' <=> (u = v \/ Kept(u))
  BY <1>2, <1>3 DEF Kept, Live
<1>8. ~Kept(v) /\ v # None
  BY <1>2 DEF Kept, Screens, None
<1>9. SessionsAreCounted'
  BY <1>a, <1>1, <1>3, <1>4, <1>5, <1>6 DEF SessionsAreCounted
<1>10. MainKnowsItsScreen'
  BY <1>a, <1>2, <1>3, <1>7, <1>8 DEF MainKnowsItsScreen
<1>11. KeptAreActive'
  <2>1. \A s \in Sessions : Active(s)' <=> (s = n \/ Active(s))
    BY <1>4, <1>5 DEF Active
  <2>2. \A u \in Screens : u # v => screen'[u].session # n
    BY <1>1, <1>3, <1>6
  <2>3. \A u \in Screens : Kept(u) =>
          /\ u # v /\ screen'[u].session = screen[u].session
          /\ screen[u].session \in Sessions /\ Active(screen[u].session)
    BY <1>3, <1>8, <1>a DEF KeptAreActive
  <2>4. ASSUME NEW u \in Screens, Kept(u)'
        PROVE  screen'[u].session \in Sessions /\ Active(screen[u].session)'
    <3>1. CASE u = v
      BY <1>1, <1>3, <2>1, <3>1 DEF Active
    <3>2. CASE u # v
      BY <1>7, <2>1, <2>3, <2>4, <3>2 DEF Active
    <3>3. QED
      BY <3>1, <3>2
  <2>5. ASSUME NEW u \in Screens, NEW w \in Screens, Kept(u)', Kept(w)',
               screen'[u].session = screen'[w].session
        PROVE  u = w
    <3>1. CASE u = v \/ w = v
      BY <1>3, <2>2, <2>5, <3>1
    <3>2. CASE u # v /\ w # v
      BY <1>3, <1>7, <1>a, <2>5, <3>2 DEF KeptAreActive
    <3>3. QED
      BY <3>1, <3>2
  <2>6. ASSUME NEW s \in Sessions, Active(s)'
        PROVE  \E u \in Screens : Kept(u)' /\ screen'[u].session = s
    <3>1. CASE s = n
      BY <1>3, <1>7, <3>1
    <3>2. CASE s # n
      <4>1. PICK u \in Screens : Kept(u) /\ screen[u].session = s
        BY <1>a, <2>1, <2>6, <3>2 DEF KeptAreActive
      <4>2. QED
        BY <1>7, <2>3, <4>1
    <3>3. QED
      BY <3>1, <3>2
  <2>7. QED
    BY <2>4, <2>5, <2>6 DEF KeptAreActive
<1>12. OneAtATime'
  BY <1>a, <1>2, <1>7 DEF OneAtATime
<1>13. LoadedHasModel'
  BY <1>a, <1>2, <1>7 DEF LoadedHasModel
<1>14. LateIsOne'
  BY <1>a, <1>4, <1>5 DEF LateIsOne
<1>15. QED
  BY <1>9, <1>10, <1>11, <1>12, <1>13, <1>14 DEF IInv, ThreadsAgree

\* The session that was launched is shown.
LEMMA Shows ==
  ASSUME IInv, TypeOK', ShowMonitoring
  PROVE  IInv'
<1>a. /\ TypeOK /\ SessionsAreCounted /\ MainKnowsItsScreen /\ KeptAreActive
      /\ OneAtATime /\ LoadedHasModel /\ LateIsOne
  BY DEF IInv, ThreadsAgree
<1> DEFINE v == main.on
<1>1. /\ main.op = "launched" /\ Live(v) /\ screen[v].status = "Idle"
      /\ main'.op = "free" /\ main'.on = None
      /\ UNCHANGED <<crossed, load, detector, running, session, job>>
  BY <1>a DEF ShowMonitoring, Free, model, camera, MainKnowsItsScreen
<1>2. v \in Screens
  BY <1>a, <1>1 DEF TypeOK, Main, MainKnowsItsScreen
<1> HIDE DEF v
<1>3. \A u \in Screens :
        /\ screen'[u].life = screen[u].life
        /\ screen'[u].session = screen[u].session
        /\ screen'[u].status = IF u = v THEN "Monitoring" ELSE screen[u].status
  BY <1>a, <1>2 DEF ShowMonitoring, TypeOK, Screen, v
<1>4. \A u \in Screens : /\ Live(u)' <=> Live(u)
                         /\ Kept(u)' <=> Kept(u)
  BY <1>1, <1>3 DEF Kept, Live, v
<1>5. SessionsAreCounted'
  BY <1>a, <1>1, <1>3 DEF SessionsAreCounted
<1>6. MainKnowsItsScreen'
  BY <1>a, <1>1, <1>3 DEF MainKnowsItsScreen, Live
<1>7. KeptAreActive'
  BY <1>a, <1>1, <1>3, <1>4 DEF KeptAreActive, Active
<1>8. OneAtATime'
  BY <1>a, <1>1, <1>4 DEF OneAtATime
<1>9. LoadedHasModel'
  BY <1>a, <1>1, <1>4 DEF LoadedHasModel
<1>10. LateIsOne'
  BY <1>a, <1>1 DEF LateIsOne
<1>11. QED
  BY <1>5, <1>6, <1>7, <1>8, <1>9, <1>10 DEF IInv, ThreadsAgree

\* A session ends: its screen is kept no more, and nobody else had it.
LEMMA Stops ==
  ASSUME IInv, TypeOK', NEW v \in Screens, CancelJob(v), running' = FALSE,
         main.op = "free", Live(v), screen[v].status = "Monitoring",
         NEW clearing \in BOOLEAN, Begin("stopped", v, clearing),
         \A u \in Screens :
           /\ screen'[u].status = screen[u].status
           /\ screen'[u].session = screen[u].session
           /\ screen'[u].life = IF u = v /\ clearing THEN "cleared" ELSE screen[u].life,
         UNCHANGED <<crossed, load, detector, session>>
  PROVE  IInv'
<1>a. /\ TypeOK /\ SessionsAreCounted /\ MainKnowsItsScreen /\ KeptAreActive
      /\ OneAtATime /\ LoadedHasModel /\ LateIsOne
  BY DEF IInv, ThreadsAgree
<1> DEFINE n == screen[v].session
<1>1. Kept(v)
  BY DEF Kept
<1>2. n \in Sessions /\ Active(n)
  BY <1>a, <1>1 DEF KeptAreActive
<1> HIDE DEF n
<1>3. \A s \in Sessions :
        /\ job'[s].pc = job[s].pc /\ job'[s].late = job[s].late
        /\ job'[s].cancelled = IF s = n THEN TRUE ELSE job[s].cancelled
  BY <1>a DEF CancelJob, TypeOK, Job, n
<1>4. main'.op = "stopped" /\ main'.on = v /\ main'.clearing = clearing
  BY DEF Begin
<1>5. \A u \in Screens : Live(u)' <=> Live(u) /\ ~(u = v /\ clearing)
  BY DEF Live
<1>6. \A u \in Screens : Kept(u)' <=> (u # v /\ Kept(u))
  BY <1>4, <1>5 DEF Kept
<1>7. n <= session
  BY <1>a DEF SessionsAreCounted, n
<1>8. SessionsAreCounted'
  <2>1. \A s \in Sessions : s > session => s # n
    BY <1>2, <1>7, <1>a DEF TypeOK, Sessions
  <2>2. QED
    BY <1>a, <1>3, <2>1 DEF SessionsAreCounted
<1>9. MainKnowsItsScreen'
  BY <1>a, <1>4, <1>5 DEF MainKnowsItsScreen, Live, Screens, None
<1>10. KeptAreActive'
  <2>1. \A s \in Sessions : Active(s)' <=> (s # n /\ Active(s))
    BY <1>3 DEF Active
  <2>2. \A u \in Screens : u # v /\ Kept(u) => screen[u].session # n
    BY <1>a, <1>1 DEF KeptAreActive, n
  <2>3. \A s \in Sessions : s # n /\ Active(s) =>
          \E u \in Screens : u # v /\ Kept(u) /\ screen[u].session = s
    BY <1>a DEF KeptAreActive, n
  <2>4. QED
    BY <1>a, <1>6, <2>1, <2>2, <2>3 DEF KeptAreActive
<1>11. OneAtATime'
  BY <1>a, <1>4, <1>5, <1>6 DEF OneAtATime, Kept
<1>12. LoadedHasModel'
  BY <1>a, <1>5 DEF LoadedHasModel
<1>13. LateIsOne'
  BY <1>a, <1>3 DEF LateIsOne
<1>14. QED
  BY <1>8, <1>9, <1>10, <1>11, <1>12, <1>13 DEF IInv, ThreadsAgree

\* stopMonitoring is such an end, and so is onCleared of a screen that watches.
LEMMA StopsOrClears ==
  ASSUME IInv, TypeOK', NEW v \in Screens, StopMonitoring(v) \/ Clear(v)
  PROVE  IInv'
<1>a. /\ TypeOK /\ SessionsAreCounted /\ MainKnowsItsScreen /\ KeptAreActive
      /\ OneAtATime /\ LoadedHasModel /\ LateIsOne
  BY DEF IInv, ThreadsAgree
<1>1. CASE StopMonitoring(v)
  <2>1. \A u \in Screens :
           /\ screen'[u].status = screen[u].status
           /\ screen'[u].session = screen[u].session
           /\ screen'[u].life = IF u = v /\ FALSE THEN "cleared" ELSE screen[u].life
    BY <1>1 DEF StopMonitoring
  <2>2. /\ CancelJob(v) /\ running' = FALSE /\ Begin("stopped", v, FALSE)
        /\ main.op = "free" /\ Live(v) /\ screen[v].status = "Monitoring"
        /\ UNCHANGED <<crossed, load, detector, session>>
    BY <1>1 DEF StopMonitoring, model
  <2>3. QED
    BY <2>1, <2>2, Stops
<1>2. ASSUME Clear(v)
      PROVE  /\ \A u \in Screens :
                  /\ screen'[u].status = screen[u].status
                  /\ screen'[u].session = screen[u].session
                  /\ screen'[u].life = IF u = v /\ TRUE THEN "cleared" ELSE screen[u].life
             /\ main.op = "free" /\ Live(v)
             /\ UNCHANGED <<crossed, load, detector, session>>
  BY <1>2, <1>a DEF Clear, model, TypeOK, Screen
<1>3. CASE Clear(v) /\ screen[v].status = "Monitoring"
  <2>1. CancelJob(v) /\ running' = FALSE /\ Begin("stopped", v, TRUE)
    BY <1>3 DEF Clear
  <2>2. QED
    BY <1>2, <1>3, <2>1, Stops
<1>4. CASE Clear(v) /\ screen[v].status # "Monitoring"
  <2>1. /\ UNCHANGED <<running, job>>
        /\ main'.op = "closing" /\ main'.on = v
    BY <1>4 DEF Clear, Begin
  <2>2. /\ main.op = "free" /\ Live(v)
        /\ UNCHANGED <<crossed, load, detector, session>>
        /\ \A u \in Screens : /\ screen'[u].status = screen[u].status
                              /\ screen'[u].session = screen[u].session
                              /\ screen'[u].life = IF u = v THEN "cleared" ELSE screen[u].life
    BY <1>2, <1>4
  <2>3. \A u \in Screens : /\ Live(u)' <=> Live(u) /\ u # v
                           /\ Kept(u)' <=> Kept(u)
    BY <1>4, <2>1, <2>2 DEF Live, Kept
  <2>4. SessionsAreCounted'
    BY <1>a, <2>1, <2>2 DEF SessionsAreCounted
  <2>5. MainKnowsItsScreen'
    BY <1>a, <2>1, <2>2 DEF MainKnowsItsScreen, Screens, None
  <2>6. KeptAreActive'
    BY <1>a, <2>1, <2>2, <2>3 DEF KeptAreActive, Active
  <2>7. OneAtATime'
    BY <1>a, <2>1, <2>2, <2>3 DEF OneAtATime
  <2>8. LoadedHasModel'
    BY <1>a, <2>2, <2>3 DEF LoadedHasModel
  <2>9. LateIsOne'
    BY <1>a, <2>1 DEF LateIsOne
  <2>10. QED
    BY <2>4, <2>5, <2>6, <2>7, <2>8, <2>9 DEF IInv, ThreadsAgree
<1>5. QED
  BY <1>1, <1>3, <1>4

\* The screen of a session that has ended says so.
LEMMA ShowsTheEnd ==
  ASSUME IInv, TypeOK', ShowIdle
  PROVE  IInv'
<1>a. /\ TypeOK /\ SessionsAreCounted /\ MainKnowsItsScreen /\ KeptAreActive
      /\ OneAtATime /\ LoadedHasModel /\ LateIsOne
  BY DEF IInv, ThreadsAgree
<1> DEFINE v == main.on
<1>1. /\ main.op = "stopped"
      /\ screen[v].life = IF main.clearing THEN "cleared" ELSE "live"
      /\ UNCHANGED <<crossed, load, detector, running, session, job>>
  BY <1>a DEF ShowIdle, model, camera, MainKnowsItsScreen
<1>2. v \in Screens
  BY <1>1, <1>a DEF TypeOK, Main, MainKnowsItsScreen
<1>3. \/ main.clearing /\ main'.op = "closing" /\ main'.on = v
      \/ ~main.clearing /\ main'.op = "free" /\ main'.on = None
  BY <1>a DEF ShowIdle, Free, TypeOK, Main
<1> HIDE DEF v
<1>4. \A u \in Screens :
        /\ screen'[u].life = screen[u].life
        /\ screen'[u].session = IF u = v THEN None ELSE screen[u].session
        /\ screen'[u].status = IF u = v THEN "Idle" ELSE screen[u].status
  BY <1>2, <1>a DEF ShowIdle, TypeOK, Screen, v
<1>5. \A u \in Screens : /\ Live(u)' <=> Live(u)
                         /\ Kept(u)' <=> Kept(u)
                         /\ Kept(u) => u # v
  BY <1>1, <1>3, <1>4 DEF Kept, Live, v
<1>6. SessionsAreCounted'
  <2>1. None <= session
    BY <1>a DEF TypeOK, None
  <2>2. QED
    BY <1>1, <1>4, <1>a, <2>1 DEF SessionsAreCounted
<1>7. MainKnowsItsScreen'
  BY <1>1, <1>2, <1>3, <1>4, <1>a DEF MainKnowsItsScreen, Live, Screens, None
<1>8. KeptAreActive'
  BY <1>1, <1>4, <1>5, <1>a DEF KeptAreActive, Active
<1>9. OneAtATime'
  BY <1>1, <1>3, <1>5, <1>a DEF OneAtATime, v
<1>10. LoadedHasModel'
  BY <1>1, <1>5, <1>a DEF LoadedHasModel
<1>11. LateIsOne'
  BY <1>1, <1>a DEF LateIsOne
<1>12. QED
  BY <1>6, <1>7, <1>8, <1>9, <1>10, <1>11 DEF IInv, ThreadsAgree

\* The model goes: if view models do not overlap nobody is left to miss it.
LEMMA Closes ==
  ASSUME IInv, TypeOK', CloseDetector
  PROVE  IInv'
<1>a. /\ TypeOK /\ SessionsAreCounted /\ MainKnowsItsScreen /\ KeptAreActive
      /\ OneAtATime /\ LoadedHasModel /\ LateIsOne
  BY DEF IInv, ThreadsAgree
<1>1. /\ main.op = "closing" /\ main'.op = "free" /\ main'.on = None
      /\ UNCHANGED <<screen, crossed, running, session, job>>
  BY DEF CloseDetector, Free, camera
<1>2. \A u \in Screens : (Live(u)' <=> Live(u)) /\ (Kept(u)' <=> Kept(u))
  BY <1>1 DEF Live, Kept
<1>3. ~crossed => \A u \in Screens : ~Live(u)
  BY <1>1, <1>a DEF OneAtATime, MainKnowsItsScreen, Live
<1>4. SessionsAreCounted'
  BY <1>1, <1>a DEF SessionsAreCounted
<1>5. MainKnowsItsScreen'
  BY <1>1, <1>a DEF MainKnowsItsScreen
<1>6. KeptAreActive'
  BY <1>1, <1>2, <1>a DEF KeptAreActive, Active
<1>7. OneAtATime'
  BY <1>1, <1>2, <1>a DEF OneAtATime
<1>8. LoadedHasModel'
  BY <1>1, <1>2, <1>3 DEF LoadedHasModel
<1>9. LateIsOne'
  BY <1>1, <1>a DEF LateIsOne
<1>10. QED
  BY <1>4, <1>5, <1>6, <1>7, <1>8, <1>9 DEF IInv, ThreadsAgree
-----------------------------------------------------------------------------
(***************************************************************************)
(* The coroutines and the analysis thread.                                 *)
(***************************************************************************)

\* Only close takes a model away, and a load that gets past its own has one.
LEMMA Loads ==
  ASSUME IInv, TypeOK', NEW v \in Screens, LoadStep(v)
  PROVE  IInv'
<1>a. TypeOK /\ LoadedHasModel /\ LateIsOne
  BY DEF IInv, ThreadsAgree
<1>1. UNCHANGED <<main, screen, crossed, running, session, job>>
  BY DEF LoadStep, LoadDropped, LoadBegins, LoadPublishesModel, LoadShowsReady, LoadFails,
         camera
<1>2. SessionsAreCounted' /\ MainKnowsItsScreen' /\ KeptAreActive' /\ OneAtATime'
  BY <1>1, ScreensRest DEF Active
<1>3. LoadedHasModel'
  <2>1. CASE LoadPublishesModel(v)
    <3>1. detector'.model = v /\ v # None
      BY <1>a, <2>1 DEF LoadPublishesModel, TypeOK, Detector, Screens, None
    <3>2. QED
      BY <3>1 DEF LoadedHasModel
  <2>2. CASE ~LoadPublishesModel(v)
    <3>1. detector'.model = detector.model
      BY <1>a, <2>2 DEF LoadStep, LoadDropped, LoadBegins, LoadShowsReady, LoadFails,
                        TypeOK, Detector
    <3>2. \A u \in Screens :
             load'[u] \in {"loaded", "ready"} => load[u] \in {"loaded", "ready"}
      BY <1>a, <2>2 DEF LoadStep, LoadDropped, LoadBegins, LoadShowsReady, LoadFails, TypeOK
    <3>3. QED
      BY <1>1, <1>a, <3>1, <3>2 DEF LoadedHasModel, Live
  <2>3. QED
    BY <2>1, <2>2
<1>4. LateIsOne'
  BY <1>1, <1>a DEF LateIsOne
<1>5. QED
  BY <1>2, <1>3, <1>4 DEF IInv, ThreadsAgree

\* Frames come and go.
LEMMA Films ==
  ASSUME IInv, TypeOK', Capture \/ Emit
  PROVE  IInv'
<1>1. UNCHANGED <<main, screen, crossed, running, session, job, load, detector>>
  BY DEF Capture, Emit, model
<1>2. SessionsAreCounted' /\ MainKnowsItsScreen' /\ KeptAreActive' /\ OneAtATime'
  BY <1>1, ScreensRest DEF Active
<1>3. LoadedHasModel' /\ LateIsOne'
  BY <1>1 DEF IInv, ThreadsAgree, LoadedHasModel, LateIsOne, Live
<1>4. QED
  BY <1>2, <1>3 DEF IInv, ThreadsAgree

\* A session's coroutine moves on: it takes no frame once it is cancelled, so
\* the one it counts late is the one it had.
LEMMA Analyses ==
  ASSUME IInv, TypeOK', NEW s \in Sessions, JobStep(s)
  PROVE  IInv'
<1>a. TypeOK /\ LoadedHasModel /\ LateIsOne
  BY DEF IInv, ThreadsAgree
<1>1. /\ UNCHANGED <<main, screen, crossed, running, session, load, detector>>
      /\ \A r \in Sessions : r # s => job'[r] = job[r]
      /\ job'[s].cancelled = job[s].cancelled
      /\ job[s].pc # "none" /\ job'[s].pc # "none"
      /\ job[s].cancelled \/ (job[s].pc # "ended" /\ job'[s].pc # "ended")
  BY <1>a DEF JobStep, Subscribe, Take, End, Analyze, Fail, Publish, Goto, model, camera,
              TypeOK, Job
<1>2. SessionsAreCounted' /\ MainKnowsItsScreen' /\ KeptAreActive' /\ OneAtATime'
  BY <1>1, ScreensRest DEF Active
<1>3. LoadedHasModel'
  BY <1>1, <1>a DEF LoadedHasModel, Live
<1>4. LateIsOne'
  <2>1. job[s].late <= 1 /\ (~job[s].cancelled \/ job[s].pc = "analyzing" => job[s].late = 0)
    BY <1>a DEF LateIsOne
  <2>2. job'[s].late <= 1 /\ (~job'[s].cancelled \/ job'[s].pc = "analyzing" => job'[s].late = 0)
    <3>1. CASE Analyze(s)
      <4>1. /\ job[s].pc = "analyzing" /\ job'[s].pc = "confirming"
            /\ job'[s].late = IF job[s].cancelled THEN job[s].late + 1 ELSE job[s].late
        BY <1>a, <3>1 DEF Analyze, TypeOK, Job
      <4>2. QED
        BY <1>1, <2>1, <4>1
    <3>2. CASE Subscribe(s) \/ Take(s) \/ End(s) \/ Fail(s) \/ Publish(s)
      <4>1. job'[s].late = job[s].late
        BY <1>a, <3>2 DEF Subscribe, Take, End, Fail, Publish, Goto, TypeOK, Job
      <4>2. job'[s].pc = "analyzing" => ~job[s].cancelled
        BY <1>a, <3>2 DEF Subscribe, Take, End, Fail, Publish, Goto, TypeOK, Job
      <4>3. QED
        BY <1>1, <2>1, <4>1, <4>2
    <3>3. QED
      BY <3>1, <3>2 DEF JobStep
  <2>3. QED
    BY <1>1, <1>a, <2>2 DEF LateIsOne
<1>5. QED
  BY <1>2, <1>3, <1>4 DEF IInv, ThreadsAgree
-----------------------------------------------------------------------------
(***************************************************************************)
(* Theorems about the session.                                             *)
(***************************************************************************)
LEMMA SessionInitially == Init => IInv
<1> SUFFICES ASSUME Init
             PROVE  IInv
  OBVIOUS
<1>1. TypeOK
  BY TypesInitially
<1>2. /\ main.op = "free" /\ main.on = None /\ running = FALSE /\ session = 0
      /\ \A v \in Screens : /\ screen[v].life = "none" /\ screen[v].status = "Idle"
                            /\ screen[v].session = None
      /\ \A s \in Sessions : /\ job[s].pc = "none" /\ job[s].cancelled = FALSE
                             /\ job[s].late = 0
  BY DEF Init, Free
<1>3. \A v \in Screens : ~Live(v) /\ ~Kept(v)
  BY <1>2 DEF Live, Kept
<1>4. SessionsAreCounted
  BY <1>2 DEF SessionsAreCounted, Sessions, None
<1>5. MainKnowsItsScreen
  BY <1>2 DEF MainKnowsItsScreen
<1>6. KeptAreActive
  BY <1>2, <1>3 DEF KeptAreActive, Active
<1>7. OneAtATime /\ LoadedHasModel
  BY <1>2, <1>3 DEF OneAtATime, LoadedHasModel
<1>8. LateIsOne
  BY <1>2 DEF LateIsOne
<1>9. QED
  BY <1>1, <1>4, <1>5, <1>6, <1>7, <1>8 DEF IInv, ThreadsAgree

LEMMA SessionSteps == IInv /\ [Next]_vars => IInv'
<1> SUFFICES ASSUME IInv, [Next]_vars
             PROVE  IInv'
  OBVIOUS
<1>1. TypeOK'
  BY TypesKept DEF IInv
<1>2. CASE UNCHANGED vars
  <2>1. UNCHANGED <<main, screen, crossed, running, session, job, load, detector>>
    BY <1>2 DEF vars, model, camera
  <2>2. SessionsAreCounted' /\ MainKnowsItsScreen' /\ KeptAreActive' /\ OneAtATime'
    BY <2>1, ScreensRest DEF Active
  <2>3. LoadedHasModel' /\ LateIsOne'
    BY <2>1 DEF IInv, ThreadsAgree, LoadedHasModel, LateIsOne, Live
  <2>4. QED
    BY <1>1, <2>2, <2>3 DEF IInv, ThreadsAgree
<1>3. CASE Next
  BY <1>1, <1>3, Creates, Starts, Shows, StopsOrClears, ShowsTheEnd, Closes, Loads,
     Films, Analyses DEF Next, MainStep
<1>4. QED
  BY <1>2, <1>3

\* The inductive invariant holds throughout.
THEOREM SessionInvariance == Spec => []IInv
BY SessionInitially, SessionSteps, PTL DEF Spec

\* Whenever the main thread is done, the screens say what runs
\* (MonitoringViewModel.startMonitoring, stopMonitoring, onCleared).
THEOREM StatusTrue == Spec => []StatusIsTrue
<1>1. IInv => StatusIsTrue
  <2> SUFFICES ASSUME IInv, main.op = "free"
               PROVE  /\ {s \in Sessions : Active(s)} = {screen[v].session : v \in Watching}
                      /\ ~crossed => (running <=> Watching # {})
    BY DEF StatusIsTrue, Active
  <2>1. \A v \in Screens : v \in Watching <=> Kept(v)
    BY DEF Watching, Kept
  <2>2. Watching \subseteq Screens
    BY DEF Watching
  <2>3. QED
    BY <2>1, <2>2 DEF IInv, ThreadsAgree, KeptAreActive, OneAtATime
<1>2. QED
  BY <1>1, SessionInvariance, PTL

\* A screen whose load went through keeps a model while it lives, and close takes
\* none from a session that counts (FireSmokeDetector.initialize and close).
THEOREM LoadedLasts == Spec => []LoadedStaysLoaded
<1>1. IInv => LoadedStaysLoaded
  <2> SUFFICES ASSUME IInv, ~crossed
               PROVE  /\ \A v \in Screens : Live(v) /\ load[v] = "ready" => detector.model # None
                      /\ main.op = "closing" =>
                           \A s \in Sessions : job[s].pc = "analyzing" => job[s].cancelled
    BY DEF LoadedStaysLoaded
  <2>1. main.op = "closing" => \A v \in Screens : ~Kept(v)
    BY DEF IInv, ThreadsAgree, OneAtATime, MainKnowsItsScreen, Live, Kept
  <2>2. main.op = "closing" => \A s \in Sessions : ~Active(s)
    BY <2>1 DEF IInv, ThreadsAgree, KeptAreActive
  <2>3. QED
    BY <2>2 DEF IInv, ThreadsAgree, LoadedHasModel, Active
<1>2. QED
  BY <1>1, SessionInvariance, PTL

\* A cancelled session feeds at most one more frame to the engine (collect).
THEOREM OneLateFrame == Spec => []OneFrameAfterStop
<1>1. IInv => OneFrameAfterStop
  BY DEF IInv, ThreadsAgree, LateIsOne, OneFrameAfterStop
<1>2. QED
  BY <1>1, SessionInvariance, PTL

-----------------------------------------------------------------------------
(***************************************************************************)
(* The engine. Its helpers are recursive functions; what they compute is   *)
(* proved by induction, from the least element of a set of numbers.        *)
(***************************************************************************)

\* A set of numbers has a least one.
LEMMA LeastNumber ==
  ASSUME NEW T, T \subseteq Nat, T # {}
  PROVE  \E m \in T : \A n \in T : m <= n
<1> DEFINE Less == OpToRel(<, Nat)
<1>1. \A m, n \in Nat : <<m, n>> \in Less <=> m < n
  BY DEF OpToRel
<1>2. IsWellFoundedOn(Less, Nat)
  BY NatLessThanWellFounded
<1> HIDE DEF Less
<1>3. PICK m \in T : \A n \in T : ~(<<n, m>> \in Less)
  BY <1>2, WFMin
<1>4. \A n \in T : ~(n < m)
  BY <1>1, <1>3
<1>5. QED
  BY <1>4

\* Induction over the numbers, as a fact about sets of them.
LEMMA AllNumbers ==
  ASSUME NEW T, T \subseteq Nat, 0 \in T, \A n \in T : n + 1 \in T
  PROVE  T = Nat
<1> DEFINE Missing == Nat \ T
<1> SUFFICES ASSUME Missing # {}
             PROVE  FALSE
  OBVIOUS
<1>1. PICK least \in Missing : \A m \in Missing : least <= m
  <2>1. Missing \subseteq Nat
    OBVIOUS
  <2> HIDE DEF Missing
  <2>2. QED
    BY <2>1, LeastNumber
<1>2. least \in Nat /\ least # 0
  OBVIOUS
<1>3. least - 1 \in Nat /\ (least - 1) + 1 = least
  BY <1>2
<1>4. least - 1 \in Missing
  BY <1>2, <1>3
<1>5. QED
  BY <1>1, <1>2, <1>3, <1>4

\* What is computed step by step exists.
LEMMA Computable ==
  ASSUME NEW S, NEW first \in S, NEW L \in Nat, NEW step \in [1..L -> [S -> S]]
  PROVE  \E g \in [0..L -> S] :
           g[0] = first /\ \A n \in 1..L : g[n] = step[n][g[n - 1]]
<1> DEFINE Upto(g, m) == /\ g \in [0..m -> S] /\ g[0] = first
                         /\ \A n \in 1..m : g[n] = step[n][g[n - 1]]
           T == {m \in Nat : m <= L => \E g : Upto(g, m)}
<1>1. 0 \in T
  <2>1. Upto([n \in 0..0 |-> first], 0)
    OBVIOUS
  <2>2. QED
    BY <2>1
<1>2. ASSUME NEW m \in T
      PROVE  m + 1 \in T
  <2> SUFFICES ASSUME m + 1 <= L
               PROVE  \E g : Upto(g, m + 1)
    OBVIOUS
  <2>1. PICK g : Upto(g, m)
    BY <1>2
  <2> DEFINE more == [n \in 0..(m + 1) |-> IF n = m + 1 THEN step[m + 1][g[m]] ELSE g[n]]
  <2>2. step[m + 1] \in [S -> S] /\ g[m] \in S /\ m \in Nat
    BY <2>1
  <2>3. more \in [0..(m + 1) -> S] /\ more[0] = first
    BY <2>1, <2>2
  <2>4. ASSUME NEW n \in 1..(m + 1)
        PROVE  more[n] = step[n][more[n - 1]]
    <3>1. CASE n = m + 1
      BY <2>2, <3>1
    <3>2. CASE n # m + 1
      BY <2>1, <2>2, <3>2
    <3>3. QED
      BY <3>1, <3>2
  <2>5. Upto(more, m + 1)
    BY <2>3, <2>4
  <2>6. QED
    BY <2>5
<1>3. T = Nat
  <2> HIDE DEF T
  <2>1. T \subseteq Nat
    BY DEF T
  <2>2. QED
    BY <1>1, <1>2, <2>1, AllNumbers
<1>4. PICK g : Upto(g, L)
  BY <1>3
<1>5. QED
  BY <1>4

\* What Recent computes.
IsScan(g, hits, time, t) ==
  g = [n \in 0..Len(hits) |->
        IF n = 0 THEN <<>>
        ELSE IF InWindow(hits[n], time, t) THEN Append(g[n - 1], hits[n])
        ELSE g[n - 1]]

\* There is a full scan.
LEMMA ScanExists ==
  ASSUME NEW hits \in Seq(Hit), NEW time, NEW t
  PROVE  \E g : IsScan(g, hits, time, t)
<1> DEFINE L == Len(hits)
           S == Seq(Hit)
           first == <<>>
           step == [n \in 1..L |-> [r \in S |->
                      IF InWindow(hits[n], time, t) THEN Append(r, hits[n]) ELSE r]]
<1>1. L \in Nat /\ first \in S /\ step \in [1..L -> [S -> S]]
  OBVIOUS
<1>2. PICK g \in [0..L -> S] : g[0] = first /\ \A n \in 1..L : g[n] = step[n][g[n - 1]]
  <2> HIDE DEF step, L, S, first
  <2>1. QED
    BY <1>1, Computable
<1>3. ASSUME NEW n \in 1..L
      PROVE  g[n] = IF InWindow(hits[n], time, t) THEN Append(g[n - 1], hits[n])
                    ELSE g[n - 1]
  <2>1. g[n - 1] \in S
    OBVIOUS
  <2>2. step[n][g[n - 1]] = IF InWindow(hits[n], time, t) THEN Append(g[n - 1], hits[n])
                            ELSE g[n - 1]
    BY <2>1
  <2>3. QED
    BY <1>2, <2>2
<1>4. \A n \in 0..L : n = 0 \/ (n # 0 /\ n \in 1..L)
  OBVIOUS
<1>5. \A n \in 0..L : g[n] =
         IF n = 0 THEN <<>>
         ELSE IF InWindow(hits[n], time, t) THEN Append(g[n - 1], hits[n])
         ELSE g[n - 1]
  <2> HIDE DEF step, L
  <2>1. QED
    BY <1>2, <1>3, <1>4
<1>6. IsScan(g, hits, time, t)
  BY <1>2, <1>5 DEF IsScan
<1>7. QED
  BY <1>6

\* A full scan, one hit at a time.
LEMMA ScanSteps ==
  ASSUME NEW hits \in Seq(Hit), NEW time, NEW t
  PROVE  \E scan \in [0..Len(hits) -> Seq(Hit)] :
           /\ Recent(hits, time, t) = scan[Len(hits)]
           /\ scan[0] = <<>>
           /\ \A n \in 1..Len(hits) :
                scan[n] = IF InWindow(hits[n], time, t) THEN Append(scan[n - 1], hits[n])
                          ELSE scan[n - 1]
<1> DEFINE L == Len(hits)
           scan == CHOOSE g : IsScan(g, hits, time, t)
<1>1. L \in Nat
  OBVIOUS
<1>2. Recent(hits, time, t) = scan[L]
  BY DEF Recent, IsScan
<1>3. IsScan(scan, hits, time, t)
  BY ScanExists, Zenon
<1> HIDE DEF scan
<1>4. scan[0] = <<>>
  BY <1>1, <1>3 DEF IsScan
<1>5. \A n \in 1..L :
         scan[n] = IF InWindow(hits[n], time, t) THEN Append(scan[n - 1], hits[n])
                   ELSE scan[n - 1]
  <2>1. \A n \in 1..L : n \in 0..L /\ n # 0
    BY <1>1
  <2>2. QED
    BY <1>3, <2>1 DEF IsScan
<1> HIDE DEF L
<1> DEFINE T == {m \in Nat : m <= L => scan[m] \in Seq(Hit)}
<1>6. T = Nat
  <2>1. 0 \in T
    <3>1. scan[0] \in Seq(Hit)
      BY <1>4
    <3>2. QED
      BY <3>1
  <2>2. ASSUME NEW m \in T
        PROVE  m + 1 \in T
    <3> SUFFICES ASSUME m + 1 <= L
                 PROVE  scan[m + 1] \in Seq(Hit)
      OBVIOUS
    <3>1. scan[m] \in Seq(Hit) /\ m + 1 \in 1..L /\ (m + 1) - 1 = m
      BY <1>1
    <3>2. hits[m + 1] \in Hit
      BY <3>1 DEF L
    <3>3. scan[m + 1] = scan[m] \/ scan[m + 1] = Append(scan[m], hits[m + 1])
      BY <1>5, <3>1
    <3>4. Append(scan[m], hits[m + 1]) \in Seq(Hit)
      BY <3>1, <3>2, AppendProperties
    <3>5. QED
      BY <3>1, <3>3, <3>4
  <2> HIDE DEF T
  <2>3. T \subseteq Nat
    BY DEF T
  <2>4. QED
    BY <2>1, <2>2, <2>3, AllNumbers
<1>7. \A n \in 0..L : scan[n] \in Seq(Hit)
  BY <1>1, <1>6
<1>8. scan \in [0..L -> Seq(Hit)]
  BY <1>3, <1>7 DEF IsScan, L
<1>9. QED
  BY <1>2, <1>4, <1>5, <1>8 DEF L

\* A bounded set of numbers has a greatest one.
LEMMA GreatestNumber ==
  ASSUME NEW T, T \subseteq Nat, T # {}, NEW b \in Nat, \A n \in T : n <= b
  PROVE  \E m \in T : \A n \in T : m >= n
<1> DEFINE Above == {m \in Nat : \A n \in T : m >= n}
<1>1. PICK m \in Above : \A n \in Above : m <= n
  <2>1. Above \subseteq Nat /\ Above # {}
    OBVIOUS
  <2> HIDE DEF Above
  <2>2. QED
    BY <2>1, LeastNumber
<1>2. m \in T
  <2> SUFFICES ASSUME m \notin T
               PROVE  FALSE
    OBVIOUS
  <2>1. \A n \in T : n < m
    BY <1>1
  <2>2. m # 0 /\ m - 1 \in Nat
    <3>1. PICK n \in T : TRUE
      OBVIOUS
    <3>2. n \in Nat /\ n < m /\ m \in Nat
      BY <1>1, <2>1
    <3>3. QED
      BY <3>2
  <2>3. \A n \in T : m - 1 >= n
    BY <1>1, <2>1
  <2>4. m - 1 \in Above
    BY <2>2, <2>3
  <2>5. QED
    BY <1>1, <2>4
<1>3. QED
  BY <1>1, <1>2

\* What Min and Max choose.
LEMMA MinOfNumbers ==
  ASSUME NEW T, T \subseteq Nat, T # {}
  PROVE  Min(T) \in T /\ \A n \in T : Min(T) <= n
<1>1. \E m \in T : \A n \in T : m <= n
  BY LeastNumber
<1>2. QED
  BY <1>1 DEF Min

LEMMA MaxOfNumbers ==
  ASSUME NEW T, T \subseteq Nat, T # {}, NEW b \in Nat, \A n \in T : n <= b
  PROVE  Max(T) \in T
<1>1. \E m \in T : \A n \in T : m >= n
  BY GreatestNumber
<1>2. QED
  BY <1>1 DEF Max

\* The hits of a sequence do not exceed some number.
LEMMA HitsAreBounded ==
  ASSUME NEW hits \in Seq(Hit)
  PROVE  \E b \in Nat : \A i \in 1..Len(hits) : hits[i].confidence <= b
<1> DEFINE T == {m \in Nat : m <= Len(hits) =>
                    \E b \in Nat : \A i \in 1..m : hits[i].confidence <= b}
<1>0. \A i \in 1..Len(hits) : hits[i].confidence \in Nat
  <2>1. \A i \in 1..Len(hits) : hits[i] \in Hit
    OBVIOUS
  <2>2. \A h \in Hit : h.confidence \in Nat
    BY ConfirmationAssumption DEF Hit
  <2>3. QED
    BY <2>1, <2>2
<1>1. 0 \in T
  <2>1. \A i \in 1..0 : hits[i].confidence <= 0
    OBVIOUS
  <2>2. QED
    BY <2>1
<1>2. ASSUME NEW m \in T
      PROVE  m + 1 \in T
  <2> SUFFICES ASSUME m + 1 <= Len(hits)
               PROVE  \E b \in Nat : \A i \in 1..(m + 1) : hits[i].confidence <= b
    OBVIOUS
  <2>1. PICK b \in Nat : \A i \in 1..m : hits[i].confidence <= b
    <3>1. m \in Nat /\ Len(hits) \in Nat /\ m <= Len(hits)
      OBVIOUS
    <3>2. QED
      BY <3>1
  <2> DEFINE c == hits[m + 1].confidence
  <2>2. c \in Nat
    BY <1>0
  <2>3. \A i \in 1..(m + 1) : hits[i].confidence <= b + c
    BY <1>0, <2>1, <2>2
  <2>4. b + c \in Nat
    BY <2>2
  <2> HIDE DEF c
  <2>5. QED
    BY <2>3, <2>4
<1>3. T = Nat
  <2> HIDE DEF T
  <2>1. T \subseteq Nat
    BY DEF T
  <2>2. QED
    BY <1>1, <1>2, <2>1, AllNumbers
<1>4. Len(hits) \in T
  <2>1. Len(hits) \in Nat
    OBVIOUS
  <2> HIDE DEF T
  <2>2. QED
    BY <1>3, <2>1
<1>5. QED
  BY <1>4

\* When what is within the window is the end of a sequence, the scan finds
\* that end.
LEMMA ScanIsSuffix ==
  ASSUME NEW hits \in Seq(Hit), NEW time, NEW t, NEW k \in 0..Len(hits),
         \A i \in 1..Len(hits) : InWindow(hits[i], time, t) <=> i > k
  PROVE  Recent(hits, time, t) = SubSeq(hits, k + 1, Len(hits))
<1>1. PICK scan \in [0..Len(hits) -> Seq(Hit)] :
           /\ Recent(hits, time, t) = scan[Len(hits)]
           /\ scan[0] = <<>>
           /\ \A n \in 1..Len(hits) :
                scan[n] = IF InWindow(hits[n], time, t) THEN Append(scan[n - 1], hits[n])
                          ELSE scan[n - 1]
  BY ScanSteps
<1> DEFINE T == {m \in Nat : m <= Len(hits) => scan[m] = SubSeq(hits, k + 1, m)}
<1>2. 0 \in T
  <2>1. SubSeq(hits, k + 1, 0) = <<>>
    BY SubSeqEmpty
  <2>2. QED
    BY <1>1, <2>1
<1>3. ASSUME NEW m \in T
      PROVE  m + 1 \in T
  <2> SUFFICES ASSUME m + 1 <= Len(hits)
               PROVE  scan[m + 1] = SubSeq(hits, k + 1, m + 1)
    OBVIOUS
  <2>1. scan[m] = SubSeq(hits, k + 1, m) /\ m + 1 \in 1..Len(hits) /\ (m + 1) - 1 = m
    OBVIOUS
  <2>2. CASE m + 1 > k
    <3>1. scan[m + 1] = Append(scan[m], hits[m + 1])
      BY <1>1, <2>1, <2>2
    <3>2. SubSeq(hits, k + 1, m + 1) = SubSeq(hits, k + 1, m) \o <<hits[m + 1]>>
      <4>1. k + 1 \in 1..Len(hits) /\ m + 1 \in (k + 1)..Len(hits)
        BY <2>2
      <4>2. QED
        BY <2>1, <4>1, SubSeqRecursiveSecond
    <3>3. scan[m] \in Seq(Hit) /\ hits[m + 1] \in Hit
      BY <2>1
    <3>4. Append(scan[m], hits[m + 1]) = scan[m] \o <<hits[m + 1]>>
      BY <3>3, AppendIsConcat
    <3>5. QED
      BY <2>1, <3>1, <3>2, <3>4
  <2>3. CASE ~(m + 1 > k)
    <3>1. scan[m + 1] = scan[m]
      BY <1>1, <2>1, <2>3
    <3>2. SubSeq(hits, k + 1, m) = <<>> /\ SubSeq(hits, k + 1, m + 1) = <<>>
      BY <2>3, SubSeqEmpty
    <3>3. QED
      BY <2>1, <3>1, <3>2
  <2>4. QED
    BY <2>2, <2>3
<1>4. T = Nat
  <2> HIDE DEF T
  <2>1. T \subseteq Nat
    BY DEF T
  <2>2. QED
    BY <1>2, <1>3, <2>1, AllNumbers
<1>5. Len(hits) \in T
  <2>1. Len(hits) \in Nat
    OBVIOUS
  <2> HIDE DEF T
  <2>2. QED
    BY <1>4, <2>1
<1>6. QED
  BY <1>1, <1>5

-----------------------------------------------------------------------------
(***************************************************************************)
(* The queue is the end of the history that is within the window.          *)
(***************************************************************************)

\* A history is in the order of its times, which end at clock.
Ordered(hits, clock) ==
  \A i \in 1..Len(hits) :
    /\ 0 < hits[i].at /\ hits[i].at <= clock
    /\ \A j \in i..Len(hits) : hits[i].at <= hits[j].at

\* What was within the window at the last hit of a history is its end.
Slid(hits, queue, t) ==
  \E k \in 0..Len(hits) :
    /\ queue = SubSeq(hits, k + 1, Len(hits))
    /\ \A i \in 1..Len(hits) : InWindow(hits[i], hits[Len(hits)].at, t) <=> i > k

\* What Observe does to the queue: a hit is added and old ones go.
LEMMA EvictSlides ==
  ASSUME NEW t \in Guarded, NEW hits \in Seq(Hit), NEW queue, NEW clock \in Nat,
         NEW hit \in Hit, Ordered(hits, clock), Slid(hits, queue, t),
         hit.at = clock, clock > 0
  PROVE  LET all == Append(hits, hit)
             left == Evict(Append(queue, hit), clock, t)
         IN /\ all \in Seq(Hit) /\ Ordered(all, clock) /\ Slid(all, left, t)
            /\ all # <<>> /\ all[Len(all)] = hit
            /\ left \in Seq(Hit) /\ left # <<>>
<1> DEFINE n == Len(hits)
           all == Append(hits, hit)
           old == Append(queue, hit)
           W == WindowMs[t]
<1>1. PICK k \in 0..n :
        /\ queue = SubSeq(hits, k + 1, n)
        /\ \A i \in 1..n : InWindow(hits[i], hits[n].at, t) <=> i > k
  BY DEF Slid
<1>2. n \in Nat /\ all \in Seq(Hit) /\ Len(all) = n + 1 /\ all # <<>>
      /\ (\A i \in 1..n : all[i] = hits[i]) /\ all[n + 1] = hit
  BY AppendProperties
<1>3. \A i \in 1..n : hits[i].at \in Nat
  <2>1. \A i \in 1..n : hits[i] \in Hit
    OBVIOUS
  <2>2. QED
    BY <2>1 DEF Hit
<1>4. W \in Nat
  BY ConfirmationAssumption
<1>5. \A i \in 1..(n + 1) : all[i].at \in Nat /\ 0 < all[i].at /\ all[i].at <= clock
  <2>1. \A i \in 1..(n + 1) : i \in 1..n \/ i = n + 1
    BY <1>2
  <2>2. QED
    BY <1>2, <1>3, <2>1 DEF Ordered
<1>6. \A i, j \in 1..(n + 1) : i <= j => all[i].at <= all[j].at
  <2> SUFFICES ASSUME NEW i \in 1..(n + 1), NEW j \in 1..(n + 1), i <= j
               PROVE  all[i].at <= all[j].at
    OBVIOUS
  <2>1. CASE j = n + 1
    BY <1>2, <1>5, <2>1
  <2>2. CASE j # n + 1
    <3>1. i \in 1..n /\ j \in i..n /\ j \in 1..n
      BY <1>2, <2>2
    <3>2. QED
      BY <1>2, <3>1 DEF Ordered
  <2>3. QED
    BY <2>1, <2>2
<1>7. Ordered(all, clock)
  <2> HIDE DEF all
  <2>1. \A i \in 1..(n + 1) : \A j \in i..(n + 1) : j \in 1..(n + 1) /\ i <= j
    BY <1>2
  <2>2. QED
    BY <1>2, <1>5, <1>6, <2>1 DEF Ordered
<1> HIDE DEF all, W
<1>8. old = SubSeq(all, k + 1, n + 1)
  <2>1. SubSeq(all, k + 1, n + 1) = SubSeq(all, k + 1, n) \o <<hit>>
    <3>1. k + 1 \in 1..Len(all) /\ n + 1 \in (k + 1)..Len(all) /\ (n + 1) - 1 = n
      BY <1>2
    <3>2. QED
      BY <1>2, <3>1, SubSeqRecursiveSecond
  <2>2. queue = SubSeq(all, k + 1, n)
    BY <1>1, <1>2
  <2>3. queue \in Seq(Hit)
    <3>1. \A i \in (k + 1)..n : hits[i] \in Hit
      OBVIOUS
    <3>2. QED
      BY <1>1, <1>2, <3>1, SubSeqProperties
  <2>4. QED
    BY <2>1, <2>2, <2>3, AppendIsConcat
<1> HIDE DEF old
<1>9. /\ old \in Seq(Hit) /\ Len(old) = n + 1 - k /\ Len(old) \in Nat \ {0}
      /\ \A i \in 1..(n + 1 - k) : old[i] = all[k + i]
  <2>1. \A i \in (k + 1)..(n + 1) : all[i] \in Hit
    BY <1>2
  <2>2. k + 1 \in Int /\ n + 1 \in Int /\ k + 1 <= n + 1 /\ (n + 1) - (k + 1) + 1 = n + 1 - k
        /\ \A i \in 1..(n + 1 - k) : (k + 1) + i - 1 = k + i
    BY <1>2
  <2>3. /\ SubSeq(all, k + 1, n + 1) \in Seq(Hit)
        /\ Len(SubSeq(all, k + 1, n + 1)) = (n + 1) - (k + 1) + 1
        /\ \A i \in 1..((n + 1) - (k + 1) + 1) :
             SubSeq(all, k + 1, n + 1)[i] = all[(k + 1) + i - 1]
    BY <2>1, <2>2, SubSeqProperties
  <2>4. QED
    BY <1>8, <2>2, <2>3
<1> DEFINE young == {i \in DOMAIN old : InWindow(old[i], clock, t)}
           m == Min(young)
<1>10. young \subseteq 1..(n + 1 - k) /\ n + 1 - k \in young
  <2>1. DOMAIN old = 1..(n + 1 - k)
    BY <1>9
  <2>2. old[n + 1 - k] = hit
    <3>1. n + 1 - k \in 1..(n + 1 - k) /\ k + (n + 1 - k) = n + 1
      BY <1>2
    <3>2. QED
      BY <1>2, <1>9, <3>1
  <2>3. InWindow(hit, clock, t)
    BY <1>4 DEF InWindow, W
  <2>4. n + 1 - k \in 1..(n + 1 - k)
    BY <1>2
  <2>5. QED
    BY <2>1, <2>2, <2>3, <2>4
<1>11. m \in young /\ \A i \in young : m <= i
  <2>1. young \subseteq Nat /\ young # {}
    BY <1>10
  <2> HIDE DEF young
  <2>2. QED
    BY <2>1, MinOfNumbers
<1>12. m \in 1..(n + 1 - k) /\ InWindow(old[m], clock, t)
  BY <1>10, <1>11
<1> DEFINE left == Evict(old, clock, t)
<1>13. left = SubSeq(old, m, Len(old))
  <2>1. young # {}
    BY <1>10
  <2>2. QED
    BY <2>1 DEF Evict
<1>14. \A i \in 1..(n + 1 - k) : i < m => ~InWindow(old[i], clock, t)
  <2>1. \A i \in 1..(n + 1 - k) : InWindow(old[i], clock, t) => i \in young
    BY <1>9
  <2>2. m \in Nat
    BY <1>12
  <2> HIDE DEF young, m
  <2>3. QED
    BY <1>11, <2>1, <2>2
<1> HIDE DEF young, m
<1> DEFINE l == k + m - 1
<1>15. l \in 0..n /\ l + 1 = k + m
  BY <1>2, <1>12
<1>16. left = SubSeq(all, l + 1, n + 1)
  <2>1. k + 1 \in 1..Len(all) /\ n + 1 \in 1..Len(all)
        /\ m \in 1..((n + 1) - (k + 1) + 1) /\ n + 1 - k \in 1..((n + 1) - (k + 1) + 1)
        /\ (k + 1) + m - 1 = l + 1 /\ (k + 1) + (n + 1 - k) - 1 = n + 1
    BY <1>2, <1>12
  <2>2. SubSeq(SubSeq(all, k + 1, n + 1), m, n + 1 - k)
          = SubSeq(all, (k + 1) + m - 1, (k + 1) + (n + 1 - k) - 1)
    BY <1>2, <2>1, SubSeqOfSubSeq
  <2>3. QED
    BY <1>8, <1>9, <1>13, <2>1, <2>2
<1>17. ASSUME NEW i \in 1..(n + 1)
       PROVE  InWindow(all[i], clock, t) <=> i > l
  <2>1. CASE i <= k
    <3>1. i \in 1..n /\ n \in 1..n /\ ~(i > l)
      BY <1>2, <1>12, <2>1
    <3>2. ~InWindow(hits[i], hits[n].at, t)
      BY <1>1, <2>1, <3>1
    <3>3. hits[n].at <= clock /\ hits[n].at \in Nat /\ hits[i].at \in Nat
      BY <1>3, <3>1 DEF Ordered
    <3>4. ~InWindow(hits[i], clock, t)
      BY <1>4, <3>2, <3>3 DEF InWindow, W
    <3>5. QED
      BY <1>2, <3>1, <3>4
  <2>2. CASE k < i /\ i <= l
    <3>1. i - k \in 1..(n + 1 - k) /\ i - k < m /\ k + (i - k) = i /\ ~(i > l)
      BY <1>2, <1>12, <2>2
    <3>2. all[i] = old[i - k]
      BY <1>9, <3>1
    <3>3. QED
      BY <1>14, <3>1, <3>2
  <2>3. CASE l < i
    <3>1. old[m] = all[k + m] /\ k + m \in 1..(n + 1) /\ k + m <= i
      BY <1>2, <1>9, <1>12, <2>3
    <3>2. all[k + m].at <= all[i].at /\ all[k + m].at \in Nat /\ all[i].at \in Nat
      BY <1>5, <1>6, <3>1
    <3>3. InWindow(all[k + m], clock, t)
      BY <1>12, <3>1
    <3>4. InWindow(all[i], clock, t)
      BY <1>4, <3>2, <3>3 DEF InWindow, W
    <3>5. QED
      BY <2>3, <3>4
  <2>4. QED
    BY <1>15, <2>1, <2>2, <2>3
<1>18. Slid(all, left, t)
  <2>1. l \in 0..(n + 1)
    BY <1>2, <1>15
  <2>2. all[Len(all)].at = clock
    BY <1>2
  <2> HIDE DEF l, left
  <2>3. QED
    BY <1>2, <1>16, <1>17, <2>1, <2>2 DEF Slid
<1>19. left \in Seq(Hit) /\ left # <<>>
  <2>1. \A i \in m..Len(old) : old[i] \in Hit
    BY <1>9, <1>12
  <2>2. m \in Int /\ Len(old) \in Int /\ m <= Len(old) /\ Len(old) - m + 1 # 0
    BY <1>9, <1>12
  <2>3. /\ SubSeq(old, m, Len(old)) \in Seq(Hit)
        /\ Len(SubSeq(old, m, Len(old))) = Len(old) - m + 1
    BY <2>1, <2>2, SubSeqProperties
  <2> HIDE DEF left
  <2>4. left \in Seq(Hit) /\ Len(left) # 0
    BY <1>13, <2>2, <2>3
  <2>5. QED
    BY <2>4
<1>20. QED
  BY <1>2, <1>7, <1>18, <1>19 DEF all, old

-----------------------------------------------------------------------------
(***************************************************************************)
(* What one detection does to the stage of a type.                         *)
(***************************************************************************)

\* EventIsJustified, for one event.
Justified(a, t) ==
  LET hits == Recent(a.hits, a.at, t)
  IN a.at # NoTime =>
       /\ Len(hits) >= RequiredHits[t]
       /\ a.first = Head(hits).at
       /\ a.confidence = Max({hits[i].confidence : i \in DOMAIN hits})
       /\ a.prev # NoTime => a.at >= a.prev + CooldownMs[t]

\* The values of a stage.
Stages == [window: Seq(Hit), until: Nat, seen: Seq(Hit), alarm: Alarm]

\* What holds of the stage s of a type whose last frame was at clock: the queue
\* is the end of the history that is within the window, the cooldown is that of
\* the last event, that event was due, and a history left is not.
StageOK(s, clock, t) ==
  /\ s \in Stages
  /\ Ordered(s.seen, clock) /\ Slid(s.seen, s.window, t)
  /\ s.until = IF s.alarm.at = NoTime THEN NoTime ELSE s.alarm.at + CooldownMs[t]
  /\ Justified(s.alarm, t)
  /\ s.seen # <<>> /\ s.seen[Len(s.seen)].at = clock /\ clock >= s.until
       => Len(s.window) < RequiredHits[t]

\* Nothing seen is in order, and has no end within the window.
LEMMA NothingSeen ==
  ASSUME NEW clock, NEW t
  PROVE  Ordered(<<>>, clock) /\ Slid(<<>>, <<>>, t)
<1>1. SubSeq(<<>>, 1, 0) = <<>>
  BY SubSeqEmpty
<1>2. Len(<<>>) = 0
  OBVIOUS
<1>3. Ordered(<<>>, clock)
  BY <1>2 DEF Ordered
<1>4. 0 \in 0..0 /\ 0 + 1 = 1 /\ 1..0 = {}
  OBVIOUS
<1>5. Slid(<<>>, <<>>, t)
  BY <1>1, <1>2, <1>4 DEF Slid
<1>6. QED
  BY <1>3, <1>5

LEMMA NoAlarmOK ==
  ASSUME NEW t
  PROVE  NoAlarm \in Alarm /\ NoAlarm.at = NoTime /\ Justified(NoAlarm, t)
<1>1. Min(Confidences) \in Confidences
  BY ConfirmationAssumption, MinOfNumbers
<1>2. QED
  BY <1>1 DEF NoAlarm, Alarm, NoTime, Justified

\* A queue that is the window's end of a history is what a scan finds.
LEMMA SlidIsRecent ==
  ASSUME NEW hits \in Seq(Hit), hits # <<>>, NEW queue, NEW t, Slid(hits, queue, t)
  PROVE  queue = Recent(hits, hits[Len(hits)].at, t)
BY ScanIsSuffix DEF Slid

\* The event of a stage that is ready.
LEMMA ConfirmOK ==
  ASSUME NEW t \in Guarded, NEW clock \in Nat, clock > 0, NEW u \in Stages,
         u.seen # <<>>, u.seen[Len(u.seen)].at = clock, u.window # <<>>,
         Slid(u.seen, u.window, t),
         u.until = IF u.alarm.at = NoTime THEN NoTime ELSE u.alarm.at + CooldownMs[t],
         Ready(u, clock, t)
  PROVE  StageOK(Confirm(u, clock, t), clock, t)
<1> DEFINE a == Event(u, clock)
           c == Confirm(u, clock, t)
<1>1. u.window \in Seq(Hit) /\ u.seen \in Seq(Hit) /\ u.alarm \in Alarm /\ u.alarm.at \in Nat
  BY DEF Stages, Alarm
<1>2. u.window = Recent(u.seen, clock, t)
  BY <1>1, SlidIsRecent
<1>3. Head(u.window) \in Hit /\ Head(u.window).at \in Nat
  <2>1. Head(u.window) \in Hit
    BY <1>1, HeadTailProperties
  <2>2. QED
    BY <2>1 DEF Hit
<1> DEFINE C == {u.window[i].confidence : i \in DOMAIN u.window}
<1>4. Max(C) \in Confidences
  <2>1. PICK b \in Nat : \A i \in 1..Len(u.window) : u.window[i].confidence <= b
    BY <1>1, HitsAreBounded
  <2>2. DOMAIN u.window = 1..Len(u.window) /\ 1 \in 1..Len(u.window)
    BY <1>1
  <2>3. \A i \in 1..Len(u.window) : u.window[i].confidence \in Confidences
    <3>1. \A i \in 1..Len(u.window) : u.window[i] \in Hit
      BY <1>1
    <3>2. QED
      BY <3>1 DEF Hit
  <2>4. C \subseteq Confidences /\ C # {} /\ \A n \in C : n <= b
    BY <2>1, <2>2, <2>3
  <2>5. C \subseteq Nat
    BY <2>4, ConfirmationAssumption
  <2> HIDE DEF C
  <2>6. QED
    BY <2>4, <2>5, MaxOfNumbers
<1>5. /\ a.at = clock /\ a.first = Head(u.window).at /\ a.hits = u.seen
      /\ a.prev = u.alarm.at /\ a.confidence = Max(C)
  BY DEF Event
<1>6. a \in Alarm
  <2> HIDE DEF C
  <2>1. a = [at |-> clock, first |-> Head(u.window).at, hits |-> u.seen,
             prev |-> u.alarm.at, confidence |-> Max(C)]
    BY DEF Event, C
  <2> HIDE DEF a
  <2>2. QED
    BY <1>1, <1>3, <1>4, <2>1 DEF Alarm
<1>7. clock >= u.until /\ Len(u.window) >= RequiredHits[t]
  BY DEF Ready
<1>8. Justified(a, t)
  <2>1. Recent(a.hits, a.at, t) = u.window
    BY <1>2, <1>5
  <2>2. u.alarm.at # NoTime => clock >= u.alarm.at + CooldownMs[t]
    BY <1>7
  <2> HIDE DEF a
  <2>3. QED
    BY <1>5, <1>7, <2>1, <2>2 DEF Justified
<1>9. /\ c.window = <<>> /\ c.until = clock + CooldownMs[t] /\ c.seen = <<>> /\ c.alarm = a
  BY DEF Confirm
<1>10. CooldownMs[t] \in Nat
  BY ConfirmationAssumption
<1>11. c \in Stages
  <2> HIDE DEF a
  <2>1. c = [window |-> <<>>, until |-> clock + CooldownMs[t], seen |-> <<>>, alarm |-> a]
    BY DEF Confirm, a
  <2> HIDE DEF c
  <2>2. <<>> \in Seq(Hit) /\ clock + CooldownMs[t] \in Nat
    BY <1>10
  <2>3. QED
    BY <1>6, <2>1, <2>2 DEF Stages
<1> HIDE DEF a, c
<1>12. Ordered(c.seen, clock) /\ Slid(c.seen, c.window, t)
  BY <1>9, NothingSeen
<1>13. c.until = IF c.alarm.at = NoTime THEN NoTime ELSE c.alarm.at + CooldownMs[t]
  BY <1>5, <1>9 DEF NoTime
<1>14. QED
  BY <1>8, <1>9, <1>11, <1>12, <1>13 DEF StageOK, c

\* A detection leaves a stage that holds one that holds.
LEMMA ObserveOK ==
  ASSUME NEW t \in Guarded, NEW clock \in Nat, clock > 0, NEW d \in Detection,
         NEW s, StageOK(s, clock, t)
  PROVE  StageOK(Observe(s, d, clock, t), clock, t)
<1>1. CASE ~Qualifies(d, t)
  BY <1>1 DEF Observe
<1>2. CASE Qualifies(d, t)
  <2> DEFINE hit == [at |-> clock, confidence |-> d.confidence]
             u == [s EXCEPT !.window = Evict(Append(@, hit), clock, t),
                            !.seen = Append(@, hit)]
  <2>1. hit \in Hit /\ hit.at = clock
    BY DEF Hit, Detection
  <2>2. /\ s \in Stages /\ s.seen \in Seq(Hit) /\ s.until \in Nat
        /\ s.alarm \in Alarm /\ s.alarm.at \in Nat
    BY DEF StageOK, Stages, Alarm
  <2>3. /\ u.window = Evict(Append(s.window, hit), clock, t)
        /\ u.seen = Append(s.seen, hit)
        /\ u.until = s.until /\ u.alarm = s.alarm
    BY <2>2 DEF Stages
  <2>4. Observe(s, d, clock, t) = IF Ready(u, clock, t) THEN Confirm(u, clock, t) ELSE u
    BY <1>2 DEF Observe
  <2>5. /\ u = [s EXCEPT !.window = Evict(Append(s.window, hit), clock, t),
                       !.seen = Append(s.seen, hit)]
        /\ \A w, h \in Seq(Hit) : [s EXCEPT !.window = w, !.seen = h] \in Stages
    BY <2>2 DEF Stages
  <2> HIDE DEF hit, u
  <2>6. /\ u.seen \in Seq(Hit) /\ Ordered(u.seen, clock) /\ Slid(u.seen, u.window, t)
        /\ u.seen # <<>> /\ u.seen[Len(u.seen)] = hit
        /\ u.window \in Seq(Hit) /\ u.window # <<>>
    BY <2>1, <2>2, <2>3, EvictSlides DEF StageOK
  <2>7. u \in Stages
    BY <2>3, <2>5, <2>6
  <2>8. u.until = IF u.alarm.at = NoTime THEN NoTime ELSE u.alarm.at + CooldownMs[t]
    BY <2>3 DEF StageOK
  <2>9. CASE Ready(u, clock, t)
    <3>1. StageOK(Confirm(u, clock, t), clock, t)
      BY <2>1, <2>6, <2>7, <2>8, <2>9, ConfirmOK
    <3>2. QED
      BY <2>4, <2>9, <3>1
  <2>10. CASE ~Ready(u, clock, t)
    <3>1. clock >= u.until => Len(u.window) < RequiredHits[t]
      <4>1. Len(u.window) \in Nat /\ RequiredHits[t] \in Nat
        BY <2>6, ConfirmationAssumption
      <4>2. QED
        BY <2>10, <4>1 DEF Ready
    <3>2. Justified(u.alarm, t)
      BY <2>3 DEF StageOK
    <3>3. StageOK(u, clock, t)
      BY <2>6, <2>7, <2>8, <3>1, <3>2 DEF StageOK
    <3>4. QED
      BY <2>4, <2>10, <3>3
  <2>11. QED
    BY <2>9, <2>10
<1>3. QED
  BY <1>1, <1>2

-----------------------------------------------------------------------------
(***************************************************************************)
(* What a frame does, and the specification.                               *)
(***************************************************************************)

\* Time passes: what holds at one frame holds when the next one comes.
LEMMA StageWaits ==
  ASSUME NEW t, NEW clock \in Nat, NEW later \in Nat, clock < later, NEW s,
         StageOK(s, clock, t)
  PROVE  StageOK(s, later, t)
<1>1. s.seen \in Seq(Hit)
  BY DEF StageOK, Stages
<1>2. \A i \in 1..Len(s.seen) : s.seen[i].at \in Nat
  <2>1. \A i \in 1..Len(s.seen) : s.seen[i] \in Hit
    BY <1>1
  <2>2. QED
    BY <2>1 DEF Hit
<1>3. Ordered(s.seen, later)
  BY <1>2 DEF StageOK, Ordered
<1>4. s.seen # <<>> => s.seen[Len(s.seen)].at # later
  <2>1. s.seen # <<>> => Len(s.seen) \in 1..Len(s.seen)
    BY <1>1
  <2>2. QED
    BY <1>2, <2>1 DEF StageOK, Ordered
<1>5. QED
  BY <1>3, <1>4 DEF StageOK

\* What Observed computes, from the stage the frame finds.
IsStaging(g, first, detections, time, t) ==
  g = [n \in 0..Len(detections) |->
        IF n = 0 THEN first ELSE Observe(g[n - 1], detections[n], time, t)]

\* There is such a computation.
LEMMA StagingExists ==
  ASSUME NEW detections, NEW clock, NEW t, NEW S, NEW first \in S,
         Len(detections) \in Nat,
         \A n \in 1..Len(detections), s \in S : Observe(s, detections[n], clock, t) \in S
  PROVE  \E g : IsStaging(g, first, detections, clock, t)
<1> DEFINE L == Len(detections)
           step == [n \in 1..L |-> [s \in S |-> Observe(s, detections[n], clock, t)]]
<1>1. L \in Nat
  OBVIOUS
<1> HIDE DEF L
<1>2. step \in [1..L -> [S -> S]]
  BY DEF L
<1>3. PICK g \in [0..L -> S] : g[0] = first /\ \A n \in 1..L : g[n] = step[n][g[n - 1]]
  <2> HIDE DEF step
  <2>1. QED
    BY <1>1, <1>2, Computable
<1>4. ASSUME NEW n \in 1..L
      PROVE  g[n] = Observe(g[n - 1], detections[n], clock, t)
  <2>1. g[n - 1] \in S
    BY <1>1
  <2>2. step[n][g[n - 1]] = Observe(g[n - 1], detections[n], clock, t)
    BY <2>1
  <2>3. QED
    BY <1>3, <2>2
<1>5. \A n \in 0..L : n = 0 \/ (n # 0 /\ n \in 1..L)
  BY <1>1
<1> HIDE DEF step
<1>6. \A n \in 0..L : g[n] = IF n = 0 THEN first
                             ELSE Observe(g[n - 1], detections[n], clock, t)
  BY <1>3, <1>4, <1>5
<1>7. IsStaging(g, first, detections, clock, t)
  BY <1>3, <1>6 DEF IsStaging, L
<1>8. QED
  BY <1>7

\* A frame leaves a stage that holds.
LEMMA ObservedOK ==
  ASSUME NEW t \in Guarded, NEW clock \in Nat, clock > 0,
         NEW detections \in Seq(Detection), StageOK(Stage(t), clock, t)
  PROVE  StageOK(Observed(detections, clock, t), clock, t)
<1> DEFINE L == Len(detections)
           S == {s \in Stages : StageOK(s, clock, t)}
           first == Stage(t)
           stage == CHOOSE g : IsStaging(g, first, detections, clock, t)
<1>1. Observed(detections, clock, t) = stage[L]
  BY DEF Observed, IsStaging
<1>2. L \in Nat /\ \A n \in 1..L : detections[n] \in Detection
  OBVIOUS
<1>3. first \in S
  BY DEF StageOK
<1>4. \A n \in 1..L, s \in S : Observe(s, detections[n], clock, t) \in S
  <2>1. \A n \in 1..L, s \in S : StageOK(Observe(s, detections[n], clock, t), clock, t)
    BY <1>2, ObserveOK
  <2>2. QED
    BY <2>1 DEF StageOK
<1> HIDE DEF first, S, stage, L
<1>5. \E g : IsStaging(g, first, detections, clock, t)
  <2>1. \A n \in 1..Len(detections), s \in S : Observe(s, detections[n], clock, t) \in S
    BY <1>4 DEF L
  <2>2. QED
    BY <1>2, <1>3, <2>1, StagingExists DEF L
<1>6. IsStaging(stage, first, detections, clock, t)
  BY <1>5, Zenon DEF stage
<1>7. stage[0] = first
  BY <1>2, <1>6 DEF IsStaging, L
<1>8. \A n \in 1..L : stage[n] = Observe(stage[n - 1], detections[n], clock, t)
  <2>1. \A n \in 1..L : n \in 0..L /\ n # 0
    BY <1>2
  <2>2. QED
    BY <1>6, <2>1 DEF IsStaging, L
<1> DEFINE T == {m \in Nat : m <= L => stage[m] \in S}
<1>9. 0 \in T
  BY <1>3, <1>7
<1>10. ASSUME NEW m \in T
       PROVE  m + 1 \in T
  <2> SUFFICES ASSUME m + 1 <= L
               PROVE  stage[m + 1] \in S
    OBVIOUS
  <2>1. stage[m] \in S /\ m + 1 \in 1..L /\ (m + 1) - 1 = m
    BY <1>2
  <2>2. QED
    BY <1>4, <1>8, <2>1
<1>11. L \in T
  <2>1. T \subseteq Nat
    OBVIOUS
  <2> HIDE DEF T
  <2>2. T = Nat
    BY <1>9, <1>10, <2>1, AllNumbers
  <2>3. QED
    BY <1>2, <2>2
<1>12. stage[L] \in S
  BY <1>2, <1>11
<1>13. QED
  BY <1>1, <1>12 DEF S

\* The inductive invariant: every type's stage holds.
EngineIInv == EngineTypeOK /\ \A t \in Guarded : StageOK(Stage(t), now, t)

LEMMA EngineInitially == EngineInit => EngineIInv
<1> SUFFICES ASSUME EngineInit
             PROVE  EngineIInv
  OBVIOUS
<1>1. NoAlarm \in Alarm /\ NoTime \in Nat /\ <<>> \in Seq(Hit)
  BY NoAlarmOK DEF NoTime
<1>2. EngineTypeOK
  BY <1>1 DEF EngineInit, EngineTypeOK
<1>3. ASSUME NEW t \in Guarded
      PROVE  StageOK(Stage(t), now, t)
  <2>1. Stage(t) = [window |-> <<>>, until |-> NoTime, seen |-> <<>>, alarm |-> NoAlarm]
    BY DEF EngineInit, Stage
  <2>2. Stage(t) \in Stages
    BY <1>1, <2>1 DEF Stages
  <2>3. QED
    BY <2>1, <2>2, NothingSeen, NoAlarmOK DEF StageOK
<1>4. QED
  BY <1>2, <1>3 DEF EngineIInv

LEMMA ProcessKeeps ==
  ASSUME EngineIInv, NEW detections \in Frames, NEW time \in Nat,
         Process(detections, time)
  PROVE  EngineIInv'
<1> DEFINE after == [t \in Guarded |-> Observed(detections, time, t)]
<1>1. detections \in Seq(Detection)
  BY DEF Frames, BoundedSeq, SeqOf
<1>2. now \in Nat /\ time > now /\ now' = time
  BY DEF EngineIInv, EngineTypeOK, Process
<1>3. ASSUME NEW t \in Guarded
      PROVE  StageOK(after[t], time, t)
  <2>1. StageOK(Stage(t), time, t)
    BY <1>2, StageWaits DEF EngineIInv
  <2>2. StageOK(Observed(detections, time, t), time, t)
    BY <1>1, <1>2, <2>1, ObservedOK
  <2>3. QED
    BY <2>2
<1>4. /\ window' = [t \in Guarded |-> after[t].window]
      /\ cooldownUntil' = [t \in Guarded |-> after[t].until]
      /\ seen' = [t \in Guarded |-> after[t].seen]
      /\ alarm' = [t \in Guarded |-> after[t].alarm]
  BY DEF Process
<1> HIDE DEF after
<1>5. ASSUME NEW t \in Guarded
      PROVE  /\ after[t].window \in Seq(Hit) /\ after[t].until \in Nat
             /\ after[t].seen \in Seq(Hit) /\ after[t].alarm \in Alarm
             /\ Stage(t)' = after[t]
  <2>1. after[t] \in Stages
    BY <1>3 DEF StageOK
  <2>2. after[t] = [window |-> after[t].window, until |-> after[t].until,
                    seen |-> after[t].seen, alarm |-> after[t].alarm]
    BY <2>1 DEF Stages
  <2>3. Stage(t)' = [window |-> after[t].window, until |-> after[t].until,
                     seen |-> after[t].seen, alarm |-> after[t].alarm]
    BY <1>4 DEF Stage
  <2>4. QED
    BY <2>1, <2>2, <2>3 DEF Stages
<1>6. EngineTypeOK'
  BY <1>2, <1>4, <1>5 DEF EngineTypeOK
<1>7. QED
  BY <1>2, <1>3, <1>5, <1>6 DEF EngineIInv

LEMMA ResetKeeps ==
  ASSUME EngineIInv, Reset
  PROVE  EngineIInv'
<1>1. NoAlarm \in Alarm /\ NoTime \in Nat /\ <<>> \in Seq(Hit)
  BY NoAlarmOK DEF NoTime
<1>2. EngineTypeOK'
  BY <1>1 DEF EngineIInv, EngineTypeOK, Reset
<1>3. ASSUME NEW t \in Guarded
      PROVE  StageOK(Stage(t), now, t)'
  <2>1. Stage(t)' = [window |-> <<>>, until |-> NoTime, seen |-> <<>>, alarm |-> NoAlarm]
    BY DEF Reset, Stage
  <2>2. Stage(t)' \in Stages
    BY <1>1, <2>1 DEF Stages
  <2>3. StageOK(Stage(t)', now', t)
    BY <2>1, <2>2, NothingSeen, NoAlarmOK DEF StageOK
  <2>4. QED
    BY <2>3
<1>4. QED
  BY <1>2, <1>3 DEF EngineIInv

\* The engine keeps its invariant.
THEOREM EngineInvariance == EngineSpec => []EngineIInv
<1>1. EngineIInv /\ [EngineNext]_engineVars => EngineIInv'
  <2> SUFFICES ASSUME EngineIInv, [EngineNext]_engineVars
               PROVE  EngineIInv'
    OBVIOUS
  <2>1. CASE \E detections \in Frames, time \in 1..MaxTime : Process(detections, time)
    <3>1. 1..MaxTime \subseteq Nat
      BY ConfirmationAssumption
    <3>2. QED
      BY <2>1, <3>1, ProcessKeeps
  <2>2. CASE Reset
    BY <2>2, ResetKeeps
  <2>3. CASE UNCHANGED engineVars
    <3>1. ASSUME NEW t
          PROVE  Stage(t)' = Stage(t)
      BY <2>3 DEF engineVars, Stage
    <3>2. EngineTypeOK' /\ now' = now
      BY <2>3 DEF engineVars, EngineIInv, EngineTypeOK
    <3>3. QED
      BY <3>1, <3>2 DEF EngineIInv
  <2>4. QED
    BY <2>1, <2>2, <2>3 DEF EngineNext
<1>2. QED
  BY <1>1, EngineInitially, PTL DEF EngineSpec

\* The queue kept by evicting at the front is the window of the history.
THEOREM QueueIsWindow == EngineSpec => []WindowIsRecentHistory
<1>1. EngineIInv => WindowIsRecentHistory
  <2> SUFFICES ASSUME EngineIInv, NEW t \in Guarded
               PROVE  window[t] = IF seen[t] = <<>> THEN <<>>
                                  ELSE Recent(seen[t], Last(seen[t]).at, t)
    BY DEF EngineIInv, WindowIsRecentHistory
  <2>1. seen[t] \in Seq(Hit) /\ Slid(seen[t], window[t], t)
    BY DEF EngineIInv, EngineTypeOK, StageOK, Stage
  <2>2. CASE seen[t] = <<>>
    <3>1. PICK k \in 0..Len(seen[t]) : window[t] = SubSeq(seen[t], k + 1, Len(seen[t]))
      BY <2>1 DEF Slid
    <3>2. k = 0 /\ Len(seen[t]) = 0
      BY <2>2, <3>1
    <3>3. SubSeq(seen[t], 1, 0) = <<>>
      BY SubSeqEmpty
    <3>4. QED
      BY <2>2, <3>1, <3>2, <3>3
  <2>3. CASE seen[t] # <<>>
    BY <2>1, <2>3, SlidIsRecent DEF Last
  <2>4. QED
    BY <2>2, <2>3
<1>2. QED
  BY <1>1, EngineInvariance, PTL

\* An alarm is raised when, and only when, it is due.
THEOREM AlarmsDue == EngineSpec => []AlarmsAreExact
<1>1. EngineIInv => AlarmsAreExact
  <2> SUFFICES ASSUME EngineIInv
               PROVE  AlarmsAreExact
    OBVIOUS
  <2>1. ASSUME NEW t \in Guarded
        PROVE  StageOK(Stage(t), now, t)
    BY DEF EngineIInv
  <2>2. EventIsJustified
    <3>1. ASSUME NEW t \in Guarded
          PROVE  Justified(alarm[t], t)
      BY <2>1 DEF StageOK, Stage
    <3>2. QED
      BY <3>1 DEF EventIsJustified, Justified
  <2>3. NothingIsMissed
    <3> SUFFICES ASSUME NEW t \in Guarded, seen[t] # <<>>, Last(seen[t]).at = now,
                        alarm[t].at # NoTime => now >= alarm[t].at + CooldownMs[t]
                 PROVE  Len(Recent(seen[t], now, t)) < RequiredHits[t]
      BY DEF NothingIsMissed
    <3>1. /\ seen[t] \in Seq(Hit) /\ Slid(seen[t], window[t], t) /\ now \in Nat
          /\ cooldownUntil[t] = IF alarm[t].at = NoTime THEN NoTime
                                ELSE alarm[t].at + CooldownMs[t]
          /\ seen[t] # <<>> /\ seen[t][Len(seen[t])].at = now /\ now >= cooldownUntil[t]
               => Len(window[t]) < RequiredHits[t]
      BY <2>1 DEF EngineIInv, EngineTypeOK, StageOK, Stage
    <3>2. seen[t][Len(seen[t])].at = now
      BY DEF Last
    <3>3. now >= cooldownUntil[t]
      BY <3>1 DEF NoTime
    <3>4. window[t] = Recent(seen[t], now, t)
      BY <3>1, <3>2, SlidIsRecent
    <3>5. QED
      BY <3>1, <3>2, <3>3, <3>4
  <2>4. QED
    BY <2>2, <2>3 DEF AlarmsAreExact
<1>2. QED
  BY <1>1, EngineInvariance, PTL
=============================================================================
