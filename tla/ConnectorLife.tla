--------------------------- MODULE ConnectorLife ---------------------------
(***************************************************************************)
(* cmd/connector, storage.Open and config.Load: the life of the connector  *)
(* process, in every pod of a deployment that share one database. A pod    *)
(* loads its configuration, waits for the database, migrates it (beside    *)
(* other pods that do the same, possibly of another version), serves until *)
(* a signal or a failed server, and shuts down. It can be killed anywhere. *)
(***************************************************************************)
EXTENDS Naturals, Sequences, Functions

CONSTANTS
  Pods,
  Environments,  \* what the environment variables may hold: see Loads
  Embedded,      \* Embedded[p]: p's binary embeds the migrations 1..Embedded[p]
  Rerunnable,    \* migrations whose SQL also succeeds where it already ran
  Followed,      \* bound: the goroutines of each pod that are followed
  MaxRequests,   \* bound: HTTP requests at a time in a pod
  MaxStreams     \* bound: open StreamEvents calls in a pod

Servers    == {"http", "grpc"}
Background == {"poller", "reaper"}
Goroutines == Servers \cup Background

ASSUME LifeAssumption ==
  /\ Embedded \in [Pods -> Nat]
  /\ Environments \subseteq [databaseURL: BOOLEAN, key: {"unset", "valid", "bad"},
                             alphaURL: BOOLEAN, alphaCredentials: BOOLEAN]
  /\ Followed \in [Pods -> SUBSET Goroutines]
  /\ MaxRequests \in Nat /\ MaxStreams \in Nat

VARIABLES
  env,        \* the environment of this deployment
  db,         \* whether PostgreSQL answers
  table,      \* whether schema_migrations exists
  log,        \* the migrations whose SQL the schema went through, in order
  recorded,   \* the rows of schema_migrations
  pod         \* pod[p]: the process in pod p

vars   == <<env, db, table, log, recorded, pod>>
schema == <<table, log, recorded>>

Opening == {"ping", "ensure", "check", "sql", "record", "commit", "sleep"}
Mains   == Opening \cup {"down", "load", "serve", "drain", "graceful", "join", "close"}

Versions == UNION {1..Embedded[p] : p \in Pods}

Process == [main: Mains,                 \* where run() is
            mig: Nat,                    \* the migration it is at
            cancelled: BOOLEAN,          \* ctx is done; a dead process keeps
                                         \* TRUE if something ended it
            routine: [Goroutines -> {"starting", "serving", "done"}],
            errs: Nat,                   \* errors in errCh
            requests: Nat, streams: Nat,
            overdue: BOOLEAN]            \* Shutdown gave up on requests

\* A process without goroutines, connections or errors.
Bare(main, cancelled) ==
  [main |-> main, mig |-> 1, cancelled |-> cancelled,
   routine |-> [g \in Goroutines |-> "done"],
   errs |-> 0, requests |-> 0, streams |-> 0, overdue |-> FALSE]

Init ==
  /\ env \in Environments
  /\ db \in BOOLEAN
  /\ \E k \in {0} \cup Versions :
        /\ log = [i \in 1..k |-> i]
        /\ recorded = 1..k
        /\ table = (k > 0)
  /\ pod = [p \in Pods |-> Bare("down", FALSE)]

At(p, main) == pod[p].main = main
Goto(p, main) == pod' = [pod EXCEPT ![p].main = main]

\* The process ends, with whatever it still had open.
Exit(p, cancelled) == pod' = [pod EXCEPT ![p] = Bare("down", cancelled)]
-----------------------------------------------------------------------------
(***************************************************************************)
(* Starting: the configuration, and storage.Open tried until it succeeds.  *)
(***************************************************************************)

Start(p) ==
  /\ At(p, "down")
  /\ pod' = [pod EXCEPT ![p] = Bare("load", FALSE)]
  /\ UNCHANGED <<env, db, schema>>

\* The configurations config.Load accepts: nothing missing that is enabled.
Loads(e) == /\ e.databaseURL
            /\ e.key # "bad"
            /\ e.alphaURL => e.alphaCredentials

Load(p) ==
  /\ At(p, "load")
  /\ \/ Loads(env)  /\ Goto(p, "ping")
     \/ ~Loads(env) /\ Exit(p, FALSE)
  /\ UNCHANGED <<env, db, schema>>

\* A statement of p gets an answer: the database is up, ctx is not done.
Answers(p) == db /\ ~pod[p].cancelled

Ping(p) ==
  /\ At(p, "ping") /\ Answers(p)
  /\ Goto(p, "ensure")
  /\ UNCHANGED <<env, db, schema>>

\* CREATE TABLE IF NOT EXISTS schema_migrations. Among sessions that found no
\* table one creates it, and some of the others may fail on its catalog row.
Ensure(p) ==
  /\ At(p, "ensure") /\ Answers(p)
  /\ table' = TRUE
  /\ \E losers \in SUBSET {q \in Pods \ {p} : At(q, "ensure") /\ ~table} :
        pod' = [q \in Pods |->
                  IF q = p THEN [pod[q] EXCEPT !.main = "check", !.mig = 1]
                  ELSE IF q \in losers THEN [pod[q] EXCEPT !.main = "sleep"]
                  ELSE pod[q]]
  /\ UNCHANGED <<env, db, log, recorded>>

PendingOneMore(p) == pod[p].mig <= Embedded[p] + 1   \* mutant
Pending(p) == pod[p].mig <= Embedded[p]
Applied(n) == n \in recorded

\* The head of the loop of migrate: pass over what is recorded, begin the
\* transaction of what is not.
Check(p) ==
  /\ At(p, "check") /\ Pending(p) /\ Answers(p)
  /\ \/ Applied(pod[p].mig)  /\ pod' = [pod EXCEPT ![p].mig = @ + 1]
     \/ ~Applied(pod[p].mig) /\ Goto(p, "sql")
  /\ UNCHANGED <<env, db, schema>>

\* The other pods with migration n executed, and recorded, but not committed.
Executed(p, n) == {q \in Pods \ {p} : pod[q].mig = n /\ pod[q].main \in {"record", "commit"}}
Inserted(p, n) == {q \in Pods \ {p} : pod[q].mig = n /\ At(q, "commit")}

\* Migration n conflicts with its own effects in the schema, a row with the
\* primary key of schema_migrations. Either waits for an open transaction
\* that holds it to end.
SqlRefused(n)    == n \notin Rerunnable /\ n \in Range(log)
InsertNeverRefused(n) == FALSE   \* mutant: ON CONFLICT DO NOTHING
InsertRefused(n) == n \in recorded

Execute(p) ==
  LET n == pod[p].mig IN
  /\ At(p, "sql") /\ Answers(p)
  /\ n \notin Rerunnable => Executed(p, n) = {}
  /\ ~SqlRefused(n)
  /\ Goto(p, "record")
  /\ UNCHANGED <<env, db, schema>>

\* Mutant: the row is inserted through the pool, outside the transaction.
RecordAtOnce(p) ==
  LET n == pod[p].mig IN
  /\ At(p, "record") /\ Answers(p)
  /\ Inserted(p, n) = {}
  /\ ~InsertRefused(n)
  /\ recorded' = recorded \cup {n}
  /\ Goto(p, "commit")
  /\ UNCHANGED <<env, db, table, log>>

Record(p) ==
  LET n == pod[p].mig IN
  /\ At(p, "record") /\ Answers(p)
  /\ Inserted(p, n) = {}
  /\ ~InsertRefused(n)
  /\ Goto(p, "commit")
  /\ UNCHANGED <<env, db, schema>>

\* The database commits; p hears of it or only sees its connection fail.
Commit(p) ==
  LET n == pod[p].mig IN
  /\ At(p, "commit") /\ db
  /\ log' = Append(log, n)
  /\ recorded' = recorded \cup {n}
  /\ \/ ~pod[p].cancelled /\ pod' = [pod EXCEPT ![p].main = "check", ![p].mig = n + 1]
     \/ Goto(p, "sleep")
  /\ UNCHANGED <<env, db, table>>

\* A statement of Open fails: it rolls back, closes the pool, and run() waits.
Refused(p) ==
  \/ At(p, "sql")    /\ SqlRefused(pod[p].mig) /\ Executed(p, pod[p].mig) = {}
  \/ At(p, "record") /\ InsertRefused(pod[p].mig)
AsksDatabase(p) ==
  \/ pod[p].main \in {"ping", "ensure", "sql", "record", "commit"}
  \/ At(p, "check") /\ Pending(p)

\* Mutant: run() returns the error of Open instead of trying again.
OpenFailsForGood(p) ==
  /\ AsksDatabase(p)
  /\ ~Answers(p) \/ Refused(p)
  /\ Exit(p, pod[p].cancelled)
  /\ UNCHANGED <<env, db, schema>>

OpenFails(p) ==
  /\ AsksDatabase(p)
  /\ ~Answers(p) \/ Refused(p)
  /\ Goto(p, "sleep")
  /\ UNCHANGED <<env, db, schema>>

\* After 2 s run() tries again, unless ctx is done: then it returns its error.
Retry(p) ==
  /\ At(p, "sleep") /\ ~pod[p].cancelled
  /\ Goto(p, "ping")
  /\ UNCHANGED <<env, db, schema>>

GiveUp(p) ==
  /\ At(p, "sleep") /\ pod[p].cancelled
  /\ Exit(p, TRUE)
  /\ UNCHANGED <<env, db, schema>>

\* The store is open: the services are wired and the goroutines started. The
\* poller exists where AlphaSense is configured.
Started(p) == Followed[p] \ (IF env.alphaURL THEN {} ELSE {"poller"})

Serve(p) ==
  /\ At(p, "check") /\ ~Pending(p)
  /\ pod' = [pod EXCEPT ![p].main = "serve",
               ![p].routine = [g \in Goroutines |->
                  IF g \notin Started(p) THEN "done"
                  ELSE IF g \in Servers THEN "starting" ELSE "serving"]]
  /\ UNCHANGED <<env, db, schema>>
-----------------------------------------------------------------------------
(***************************************************************************)
(* Serving.                                                                *)
(***************************************************************************)

\* Whether the server g of p still takes connections: http.Shutdown comes
\* first, so gRPC takes them while HTTP is draining.
Accepting(p, g) == \/ At(p, "serve")
                   \/ g = "grpc" /\ At(p, "drain")

Routine(p, g, is) == pod[p].routine[g] = is

Listen(p, g) ==
  /\ Routine(p, g, "starting") /\ Accepting(p, g)
  /\ pod' = [pod EXCEPT ![p].routine[g] = "serving"]
  /\ UNCHANGED <<env, db, schema>>

\* errCh has room for three errors; a goroutine that finds it full blocks.
CanSendToSelect(p) == At(p, "serve") /\ pod[p].errs = 0   \* mutant: no buffer
CanSend(p) == pod[p].errs < 3

\* A server returns an error to errCh: its address is taken, Accept failed,
\* or gRPC is asked to serve when it has already been stopped.
ServerFails(p, g) ==
  /\ \/ pod[p].routine[g] \in {"starting", "serving"} /\ Accepting(p, g)
     \/ g = "grpc" /\ Routine(p, g, "starting") /\ pod[p].main \in {"graceful", "join"}
  /\ CanSend(p)
  /\ pod' = [pod EXCEPT ![p].routine[g] = "done", ![p].errs = @ + 1]
  /\ UNCHANGED <<env, db, schema>>

\* A server returns because it was shut down: ErrServerClosed at once for
\* HTTP (at ListenAndServe too), nil for gRPC when GracefulStop is through.
ServerEnds(p, g) ==
  /\ \/ g = "http" /\ ~Routine(p, g, "done") /\ ~Accepting(p, g)
     \/ g = "grpc" /\ Routine(p, g, "serving") /\ At(p, "join")
  /\ pod' = [pod EXCEPT ![p].routine[g] = "done"]
  /\ UNCHANGED <<env, db, schema>>

\* The poller and the reaper return when their ctx is done.
BackgroundEnds(p, g) ==
  /\ Routine(p, g, "serving") /\ pod[p].cancelled
  /\ pod' = [pod EXCEPT ![p].routine[g] = "done"]
  /\ UNCHANGED <<env, db, schema>>

\* An HTTP request, under the middleware that bounds its time, and its end.
Request(p) ==
  /\ Routine(p, "http", "serving") /\ At(p, "serve")
  /\ pod[p].requests < MaxRequests
  /\ pod' = [pod EXCEPT ![p].requests = @ + 1]
  /\ UNCHANGED <<env, db, schema>>

Reply(p) ==
  /\ pod[p].requests > 0
  /\ pod' = [pod EXCEPT ![p].requests = @ - 1]
  /\ UNCHANGED <<env, db, schema>>

\* A StreamEvents call lasts until its client ends it.
OpenStream(p) ==
  /\ Routine(p, "grpc", "serving") /\ Accepting(p, "grpc")
  /\ pod[p].streams < MaxStreams
  /\ pod' = [pod EXCEPT ![p].streams = @ + 1]
  /\ UNCHANGED <<env, db, schema>>

CloseStream(p) ==
  /\ pod[p].streams > 0
  /\ pod' = [pod EXCEPT ![p].streams = @ - 1]
  /\ UNCHANGED <<env, db, schema>>
-----------------------------------------------------------------------------
(***************************************************************************)
(* Stopping: select, Shutdown, GracefulStop, Wait, the deferred Close.     *)
(***************************************************************************)

\* SIGTERM ends the process before NotifyContext, and ctx afterwards.
Signal(p) ==
  /\ ~At(p, "down")
  /\ \/ At(p, "load") /\ Exit(p, TRUE)
     \/ ~At(p, "load") /\ pod' = [pod EXCEPT ![p].cancelled = TRUE]
  /\ UNCHANGED <<env, db, schema>>

StopOnSignal(p) ==
  /\ At(p, "serve") /\ pod[p].cancelled
  /\ Goto(p, "drain")
  /\ UNCHANGED <<env, db, schema>>

StopOnFailure(p) ==
  /\ At(p, "serve") /\ pod[p].errs > 0
  /\ pod' = [pod EXCEPT ![p].main = "drain", ![p].errs = @ - 1, ![p].cancelled = TRUE]
  /\ UNCHANGED <<env, db, schema>>

\* Shutdown returns when no request is left, or after its 10 s.
Drain(p) ==
  /\ At(p, "drain")
  /\ pod' = [pod EXCEPT ![p].main = "graceful", ![p].overdue = pod[p].requests > 0]
  /\ UNCHANGED <<env, db, schema>>

GracefulStop(p) ==
  /\ At(p, "graceful") /\ pod[p].streams = 0
  /\ Goto(p, "join")
  /\ UNCHANGED <<env, db, schema>>

\* Mutant: run() does not wait for its goroutines.
WaitForNone(p) ==
  /\ At(p, "join")
  /\ Goto(p, "close")
  /\ UNCHANGED <<env, db, schema>>

Wait(p) ==
  /\ At(p, "join")
  /\ \A g \in Goroutines : Routine(p, g, "done")
  /\ Goto(p, "close")
  /\ UNCHANGED <<env, db, schema>>

Close(p) ==
  /\ At(p, "close")
  /\ Exit(p, TRUE)
  /\ UNCHANGED <<env, db, schema>>

\* SIGKILL, a crash, or a kubelet that lost its patience with the probes.
Kill(p) ==
  /\ ~At(p, "down")
  /\ Exit(p, TRUE)
  /\ UNCHANGED <<env, db, schema>>
-----------------------------------------------------------------------------
(***************************************************************************)
(* The database. Open transactions die with their connections.             *)
(***************************************************************************)

DatabaseFails ==
  /\ db
  /\ db' = FALSE
  /\ pod' = [p \in Pods |-> IF pod[p].main \in {"sql", "record", "commit"}
                            THEN [pod[p] EXCEPT !.main = "sleep"] ELSE pod[p]]
  /\ UNCHANGED <<env, schema>>

DatabaseReturns ==
  /\ ~db
  /\ db' = TRUE
  /\ UNCHANGED <<env, schema, pod>>

StartupStep(p) ==
  \/ Load(p) \/ Ping(p) \/ Ensure(p) \/ Check(p) \/ Execute(p) \/ Record(p)
  \/ Commit(p) \/ OpenFails(p) \/ Retry(p) \/ GiveUp(p) \/ Serve(p)

ShutdownStep(p) ==
  \/ StopOnSignal(p) \/ StopOnFailure(p) \/ Drain(p) \/ GracefulStop(p)
  \/ Wait(p) \/ Close(p)

\* A goroutine that was told to return does.
Return(p, g) ==
  \/ g \in Servers /\ ~Accepting(p, g) /\ (ServerFails(p, g) \/ ServerEnds(p, g))
  \/ g \in Background /\ BackgroundEnds(p, g)

Traffic(p) ==
  \/ \E g \in Servers : Listen(p, g) \/ ServerFails(p, g)
  \/ Request(p) \/ Reply(p) \/ OpenStream(p) \/ CloseStream(p)

Next ==
  \/ \E p \in Pods : \/ Start(p) \/ StartupStep(p) \/ ShutdownStep(p)
                     \/ Signal(p) \/ Kill(p) \/ Traffic(p)
                     \/ \E g \in Goroutines : Return(p, g)
  \/ DatabaseFails \/ DatabaseReturns

\* What the code schedules: run() goes on when it can, and so does a goroutine
\* that has to return; PostgreSQL grants a lock to whoever waits for it first,
\* so a pod is not passed over by others that keep coming. Nothing is assumed
\* of signals, kills, clients, the starting of pods or the database.
Fairness ==
  \A p \in Pods :
    /\ WF_vars(StartupStep(p))
    /\ SF_vars(Execute(p)) /\ SF_vars(Record(p))
    /\ WF_vars(ShutdownStep(p))
    /\ \A g \in Goroutines : WF_vars(Return(p, g))

Spec == Init /\ [][Next]_vars /\ Fairness
-----------------------------------------------------------------------------
(***************************************************************************)
(* Properties.                                                             *)
(***************************************************************************)

\* Every value stays in its domain.
TypeOK ==
  /\ env \in Environments
  /\ db \in BOOLEAN /\ table \in BOOLEAN
  /\ log \in Seq(Versions)
  /\ recorded \subseteq Versions
  /\ pod \in [Pods -> Process]

\* The schema never differs from its record (storage.go:69-112: the SQL and
\* the row in one transaction), and a pod that serves, or still has a client,
\* has every migration of its binary beneath it.
WholeSchema ==
  /\ recorded = Range(log)
  /\ \A p \in Pods :
        pod[p].main \in {"serve", "drain", "graceful", "join", "close"}
          => 1..Embedded[p] \subseteq recorded

\* Pods of any version that start, fail and start again at once take the
\* schema through every migration in order and exactly once.
Migrations == INSTANCE MigrationLog WITH Known <- Versions
MigratesInOrder == Migrations!Spec

\* store.Close comes after everything that uses the store (main.go:69,
\* 186-188): no goroutine and no stream outlives it, and a request only if
\* Shutdown had given up on it.
PoolClosedLast ==
  \A p \in Pods : At(p, "close") =>
    /\ \A g \in Goroutines : Routine(p, g, "done")
    /\ pod[p].streams = 0
    /\ pod[p].requests > 0 => pod[p].overdue

\* With a database that is back for good, every pod that waits for it or
\* migrates it comes to serve, unless it is told to stop or killed
\* (main.go:54-55); pods that migrate at once cannot lock each other out.
EveryPodStarts ==
  <>[]db => \A p \in Pods :
    pod[p].main \in Opening ~> (At(p, "serve") \/ pod[p].cancelled)

\* A pod that was told to stop, or lost a server, comes to its end, however
\* its goroutines were caught, unless its clients keep streams open: main.go
\* waits for those (line 187) without a limit.
Stopping(p) == \/ pod[p].main \in {"drain", "graceful", "join", "close"}
               \/ At(p, "serve") /\ (pod[p].cancelled \/ pod[p].errs > 0)
ShutdownEnds ==
  \A p \in Pods :
    []<>(At(p, "graceful") => pod[p].streams = 0) => (Stopping(p) ~> At(p, "down"))
=============================================================================
