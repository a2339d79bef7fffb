-------------------------- MODULE MonitoringSession --------------------------
(***************************************************************************)
(* MonitoringViewModel with its camera, detector and confirmation engine,  *)
(* which are singletons: the view model of one screen after another, or of *)
(* two at a time while the system replaces one, uses the same ones. The    *)
(* main thread creates and clears view models, starts and stops sessions;  *)
(* a coroutine per view model loads the model; the analysis thread emits   *)
(* frames; one coroutine per session takes the newest frame, analyses it   *)
(* and feeds the engine. Cancelling a coroutine does not wait for it: it   *)
(* goes on to where it suspends, next to whatever the main thread does.    *)
(* (What the engine makes of its frames is HazardConfirmation.)            *)
(***************************************************************************)
EXTENDS Naturals

CONSTANTS
  Provisioned,   \* whether the weights are among the app's assets
  MaxScreens, MaxSessions   \* bounds of the model

ASSUME SessionAssumption ==
  /\ Provisioned \in BOOLEAN
  /\ MaxScreens \in Nat /\ MaxSessions \in Nat

VARIABLES
  main,      \* what the main thread is doing, for which screen
  screen,    \* screen[v]: the v-th view model
  crossed,   \* history: a view model was created before the last was cleared
  load,      \* load[v]: its coroutine in initialize, and how that ended
  detector,  \* FireSmokeDetector: status and model; a model is named for the
             \* screen whose coroutine loaded it
  running,   \* CameraXFrameSource.running
  grabbed,   \* whether the analysis thread has a frame in its hands
  session,   \* sessions started so far
  job,       \* job[s]: the monitoring coroutine of session s
  slot       \* slot[s]: whether the shared flow holds a frame for it

model  == <<load, detector>>
camera == <<running, grabbed>>
vars   == <<main, screen, crossed, model, camera, session, job, slot>>

Screens  == 1..MaxScreens
Sessions == 1..MaxSessions
None     == 0

Main     == [op: {"free", "launched", "stopped", "closing"},
             on: Screens \cup {None}, clearing: BOOLEAN]
Free     == [op |-> "free", on |-> None, clearing |-> FALSE]

Screen   == [life: {"none", "live", "cleared"}, status: {"Idle", "Monitoring"},
             session: Sessions \cup {None}]
Detector == [status: {"NotProvisioned", "Loading", "Ready", "Error"},
             model: Screens \cup {None}]

\* late: history, how many frames reached the engine after the cancellation.
Job == [pc: {"none", "launched", "waiting", "analyzing", "confirming", "ended"},
        cancelled: BOOLEAN, late: Nat]

Init ==
  /\ main = Free /\ crossed = FALSE
  /\ screen = [v \in Screens |-> [life |-> "none", status |-> "Idle", session |-> None]]
  /\ load = [v \in Screens |-> "none"]
  /\ detector = [status |-> "NotProvisioned", model |-> None]
  /\ running = FALSE /\ grabbed = FALSE
  /\ session = 0
  /\ job = [s \in Sessions |-> [pc |-> "none", cancelled |-> FALSE, late |-> 0]]
  /\ slot = [s \in Sessions |-> FALSE]

Live(v) == screen[v].life = "live"
-----------------------------------------------------------------------------
(***************************************************************************)
(* The main thread.                                                        *)
(***************************************************************************)
Begin(op, v, clearing) == main' = [op |-> op, on |-> v, clearing |-> clearing]

\* A screen comes up and its view model is created.
CreateViewModel(v) ==
  /\ main.op = "free" /\ screen[v].life = "none"
  /\ v > 1 => screen[v - 1].life # "none"
  /\ crossed' = (crossed \/ \E u \in Screens : Live(u))
  /\ screen' = [screen EXCEPT ![v].life = "live"]
  /\ load' = [load EXCEPT ![v] = "queued"]
  /\ UNCHANGED <<main, detector, camera, session, job, slot>>

\* startMonitoring: the engine is reset, the camera started unless it runs,
\* the coroutine launched.
StartMonitoring(v) ==
  /\ main.op = "free" /\ Live(v) /\ screen[v].status = "Idle" /\ session < MaxSessions
  /\ running' = TRUE
  /\ session' = session + 1
  /\ job' = [job EXCEPT ![session + 1].pc = "launched"]
  /\ screen' = [screen EXCEPT ![v].session = session + 1]
  /\ Begin("launched", v, FALSE)
  /\ UNCHANGED <<crossed, model, grabbed, slot>>

ShowMonitoring ==
  /\ main.op = "launched"
  /\ screen' = [screen EXCEPT ![main.on].status = "Monitoring"]
  /\ main' = Free
  /\ UNCHANGED <<crossed, model, camera, session, job, slot>>

\* Cancels the coroutine of the session on screen v.
CancelJob(v) == job' = [job EXCEPT ![screen[v].session].cancelled = TRUE]

\* stopMonitoring: the coroutine is cancelled, the camera stopped, the engine
\* reset.
StopMonitoring(v) ==
  /\ main.op = "free" /\ Live(v) /\ screen[v].status = "Monitoring"
  /\ CancelJob(v)
  /\ running' = FALSE
  /\ Begin("stopped", v, FALSE)
  /\ UNCHANGED <<screen, crossed, model, grabbed, session, slot>>

ShowIdle ==
  /\ main.op = "stopped"
  /\ screen' = [screen EXCEPT ![main.on].status = "Idle", ![main.on].session = None]
  /\ main' = IF main.clearing THEN [main EXCEPT !.op = "closing"] ELSE Free
  /\ UNCHANGED <<crossed, model, camera, session, job, slot>>

\* Mutant: onCleared closes the detector without stopping the session.
ClearAtOnce(v) ==
  /\ main.op = "free" /\ Live(v)
  /\ screen' = [screen EXCEPT ![v].life = "cleared"]
  /\ Begin("closing", v, TRUE)
  /\ UNCHANGED <<crossed, model, camera, session, job, slot>>

\* The view model is cleared: its scope is cancelled, and onCleared stops
\* monitoring if it is on.
Clear(v) ==
  /\ main.op = "free" /\ Live(v)
  /\ screen' = [screen EXCEPT ![v].life = "cleared"]
  /\ IF screen[v].status = "Monitoring"
     THEN CancelJob(v) /\ running' = FALSE /\ Begin("stopped", v, TRUE)
     ELSE Begin("closing", v, TRUE) /\ UNCHANGED <<running, job>>
  /\ UNCHANGED <<crossed, model, grabbed, session, slot>>

\* onCleared goes on to detectionEngine.close: whatever model there is goes,
\* the status stays.
CloseDetector ==
  /\ main.op = "closing"
  /\ detector' = [detector EXCEPT !.model = None]
  /\ main' = Free
  /\ UNCHANGED <<screen, crossed, load, camera, session, job, slot>>
-----------------------------------------------------------------------------
(***************************************************************************)
(* initialize, on Dispatchers.Default. It never suspends: a coroutine that *)
(* has begun it ends it, cancelled or not.                                 *)
(***************************************************************************)

\* A coroutine cancelled before it is dispatched does nothing.
LoadDropped(v) ==
  /\ load[v] = "queued" /\ ~Live(v)
  /\ load' = [load EXCEPT ![v] = "dropped"]
  /\ UNCHANGED <<main, screen, crossed, detector, camera, session, job, slot>>

\* Mutant: a singleton that says Ready is not loaded again.
LoadBeginsOnce(v) ==
  /\ load[v] = "queued" /\ Live(v)
  /\ load' = [load EXCEPT ![v] = IF ~Provisioned THEN "unprovisioned"
                                 ELSE IF detector.status = "Ready" THEN "ready"
                                 ELSE "loading"]
  /\ UNCHANGED <<main, screen, crossed, detector, camera, session, job, slot>>

LoadBegins(v) ==
  /\ load[v] = "queued" /\ Live(v)
  /\ load' = [load EXCEPT ![v] = IF Provisioned THEN "loading" ELSE "unprovisioned"]
  /\ detector' = [detector EXCEPT !.status = IF Provisioned THEN "Loading" ELSE "NotProvisioned"]
  /\ UNCHANGED <<main, screen, crossed, camera, session, job, slot>>

\* The model is there, whatever was there before; its status comes later, and
\* nothing keeps the main thread from closing it in between.
LoadPublishesModel(v) ==
  /\ load[v] = "loading"
  /\ load' = [load EXCEPT ![v] = "loaded"]
  /\ detector' = [detector EXCEPT !.model = v]
  /\ UNCHANGED <<main, screen, crossed, camera, session, job, slot>>

\* The status is written without a look at the model.
LoadShowsReady(v) ==
  /\ load[v] = "loaded"
  /\ load' = [load EXCEPT ![v] = "ready"]
  /\ detector' = [detector EXCEPT !.status = "Ready"]
  /\ UNCHANGED <<main, screen, crossed, camera, session, job, slot>>

\* A missing or incompatible sidecar, or an interpreter that does not build.
LoadFails(v) ==
  /\ load[v] = "loading"
  /\ load' = [load EXCEPT ![v] = "failed"]
  /\ detector' = [detector EXCEPT !.status = "Error"]
  /\ UNCHANGED <<main, screen, crossed, camera, session, job, slot>>
-----------------------------------------------------------------------------
(***************************************************************************)
(* The camera's analysis thread.                                           *)
(***************************************************************************)

\* A frame passes the throttle. (Those that do not are dropped and counted.)
Capture ==
  /\ running /\ ~grabbed
  /\ grabbed' = TRUE
  /\ UNCHANGED <<main, screen, crossed, model, running, session, job, slot>>

Subscribed(s) ==
  job[s].pc \in {"waiting", "analyzing", "confirming"}

\* tryEmit, possibly after stop: every subscriber's slot holds the newest frame
\* only (DROP_OLDEST); without a subscriber the frame is gone.
Emit ==
  /\ grabbed
  /\ slot' = [s \in Sessions |-> slot[s] \/ Subscribed(s)]
  /\ grabbed' = FALSE
  /\ UNCHANGED <<main, screen, crossed, model, running, session, job>>
-----------------------------------------------------------------------------
(***************************************************************************)
(* The coroutine of session s.                                             *)
(***************************************************************************)
Goto(s, pc) == job' = [job EXCEPT ![s].pc = pc]

Subscribe(s) ==
  /\ job[s].pc = "launched" /\ ~job[s].cancelled
  /\ Goto(s, "waiting")
  /\ UNCHANGED <<main, screen, crossed, model, camera, session, slot>>

\* Mutant: collect does not look at the cancellation.
TakeRegardless(s) ==
  /\ job[s].pc = "waiting" /\ slot[s]
  /\ Goto(s, "analyzing")
  /\ slot' = [slot EXCEPT ![s] = FALSE]
  /\ UNCHANGED <<main, screen, crossed, model, camera, session>>

\* collect delivers the next frame to an active coroutine, which analyses it.
Take(s) ==
  /\ job[s].pc = "waiting" /\ ~job[s].cancelled /\ slot[s]
  /\ Goto(s, "analyzing")
  /\ slot' = [slot EXCEPT ![s] = FALSE]
  /\ UNCHANGED <<main, screen, crossed, model, camera, session>>

\* A cancelled coroutine ends where it would suspend.
End(s) ==
  /\ job[s].pc \in {"launched", "waiting"} /\ job[s].cancelled
  /\ Goto(s, "ended")
  /\ slot' = [slot EXCEPT ![s] = FALSE]
  /\ UNCHANGED <<main, screen, crossed, model, camera, session>>

\* analyze returns (nothing without a model, or when the model throws), and
\* eventEngine.process is entered.
Analyze(s) ==
  /\ job[s].pc = "analyzing"
  /\ job' = [job EXCEPT ![s].pc = "confirming",
                         ![s].late = IF job[s].cancelled THEN @ + 1 ELSE @]
  /\ UNCHANGED <<main, screen, crossed, model, camera, session, slot>>

\* Mutant: the exception ends the collection.
FailFatally(s) ==
  /\ job[s].pc \in {"analyzing", "confirming"}
  /\ Goto(s, "ended")
  /\ UNCHANGED <<main, screen, crossed, model, camera, session, slot>>

\* An Exception on the way is caught, and the frame skipped: if the alert
\* throws, its event with it. (An Error is not: it ends the coroutine and, with
\* no handler in its scope, the app.)
Fail(s) ==
  /\ job[s].pc \in {"analyzing", "confirming"}
  /\ Goto(s, "waiting")
  /\ UNCHANGED <<main, screen, crossed, model, camera, session, slot>>

\* process returns, an event is alerted and queued for the cloud, and the
\* frame's detections are shown, whatever the status is by now.
Publish(s) ==
  /\ job[s].pc = "confirming"
  /\ Goto(s, "waiting")
  /\ UNCHANGED <<main, screen, crossed, model, camera, session, slot>>
-----------------------------------------------------------------------------
JobStep(s) ==
  \/ Subscribe(s) \/ Take(s) \/ End(s) \/ Analyze(s)
  \/ Fail(s) \/ Publish(s)

LoadStep(v) ==
  \/ LoadDropped(v) \/ LoadBegins(v) \/ LoadPublishesModel(v)
  \/ LoadShowsReady(v) \/ LoadFails(v)

MainStep == ShowMonitoring \/ ShowIdle \/ CloseDetector

Next ==
  \/ \E v \in Screens : \/ CreateViewModel(v) \/ Clear(v) \/ LoadStep(v)
                        \/ StartMonitoring(v) \/ StopMonitoring(v)
  \/ MainStep
  \/ Capture \/ Emit
  \/ \E s \in Sessions : JobStep(s)

\* Dispatchers.Default runs every coroutine that can go on, and inference
\* returns or throws. Nobody is obliged to start, stop or point the camera.
Fairness == \A s \in Sessions : WF_vars(JobStep(s))

Spec == Init /\ [][Next]_vars /\ Fairness
-----------------------------------------------------------------------------
(***************************************************************************)
(* Properties.                                                             *)
(***************************************************************************)

TypeOK ==
  /\ main \in Main /\ screen \in [Screens -> Screen] /\ crossed \in BOOLEAN
  /\ load \in [Screens -> {"none", "queued", "loading", "loaded", "ready",
                           "failed", "unprovisioned", "dropped"}]
  /\ detector \in Detector
  /\ running \in BOOLEAN /\ grabbed \in BOOLEAN
  /\ session \in 0..MaxSessions
  /\ job \in [Sessions -> Job]
  /\ slot \in [Sessions -> BOOLEAN]

Watching == {v \in Screens : Live(v) /\ screen[v].status = "Monitoring"}

\* What the screens say is what happens: whenever the main thread is done, the
\* coroutines that are going on and not on their way out are those of the
\* sessions on the screens that say "Monitoring"; none has died uncancelled. The
\* camera is on exactly while there is one, as long as the system clears a view
\* model before it creates the next.
StatusIsTrue ==
  main.op = "free" =>
    /\ {s \in Sessions : job[s].pc \notin {"none", "ended"} /\ ~job[s].cancelled}
         = {screen[v].session : v \in Watching}
    /\ ~crossed => (running <=> Watching # {})

\* "Load the model once" (MonitoringViewModel.kt:76) into a singleton: a screen
\* whose own load went through has a model for as long as it lives, whatever
\* the loads and closes of screens cleared before it still do; and close takes
\* no model from a session that still counts. Both need view models that do not
\* overlap.
LoadedStaysLoaded ==
  ~crossed =>
    /\ \A v \in Screens : Live(v) /\ load[v] = "ready" => detector.model # None
    /\ main.op = "closing" =>
         \A s \in Sessions : job[s].pc = "analyzing" => job[s].cancelled

\* Stopping is prompt although it does not wait: a cancelled coroutine feeds
\* at most the frame it had in its hands to the engine. (Checked with the types.)
OneFrameAfterStop == TypeOK /\ \A s \in Sessions : job[s].late <= 1

\* "a single failure can never terminate monitoring" (MonitoringViewModel.kt:38):
\* while a session lasts, whatever frame waits for it is taken to be analysed.
\* (The same as slot[s] ~> ~slot[s] \/ job[s].cancelled.)
MonitoringGoesOn ==
  \A s \in Sessions : []<>(~slot[s] \/ job[s].cancelled)
=============================================================================
