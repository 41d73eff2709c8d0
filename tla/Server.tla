------------------------------- MODULE Server -------------------------------
(***************************************************************************)
(* The server process (cmd/protoradar-server, internal/app/bootstrap): it  *)
(* starts, serves HTTP requests and runs the outbox publisher on one pool  *)
(* of database connections and one metrics registry, and stops on a signal *)
(* or when it can no longer listen.                                        *)
(*                                                                         *)
(* What requests share is the pool and the metrics' mutex.  A request is   *)
(* the sequence of what it needs of them:                                  *)
(*   plain        one statement after the other, a connection each         *)
(*   transaction  one connection from Begin to Commit                      *)
(*   metadata     the rows of one query, and inside their loop a query on  *)
(*                a second connection (DescriptorMetadataRepository)       *)
(*   readiness    a ping, without authentication                           *)
(*   metrics      the mutex for as long as the answer is being written     *)
(* each after authentication's statements and before RecordHTTPRequest.    *)
(***************************************************************************)
EXTENDS Config, Integers, FiniteSets, FiniteSetsExt

CONSTANTS
  Requests,    \* requests that may arrive
  Mixes,       \* what they may need: functions from Requests to Needs
  MaxConns     \* pool_max_conns

Needs == {"plain", "transaction", "metadata", "readiness", "metrics"}

ServerConstants ==
  /\ IsFiniteSet(Requests) /\ {"publisher", "free"} \cap Requests = {}
  /\ Mixes \subseteq [Requests -> Needs]
  /\ MaxConns \in Nat \ {0}
ASSUME ServerAssumption == ServerConstants

VARIABLES
  config,      \* while the server is put together: its configuration and environment
  main,        \* where run and runServer are
  code,        \* the exit code so far
  signalled,   \* the signal context is cancelled
  pool,        \* "none", "open", "closing" (Close waits) or "closed"
  held,        \* connections held by each request and by the publisher
  mutex,       \* who holds metrics.mu
  need,        \* what each request needs
  req,         \* where it is
  here,        \* its client is still connected
  publisher,   \* where the publisher's goroutine is
  timedOut     \* waits given up: "shutdown", "publisher"

serverVars == <<config, main, code, signalled, pool, held, mutex, need, req, here, publisher, timedOut>>
requests == <<need, req, here>>
NoConfig == [config |-> <<>>, env |-> <<>>]

Users == Requests \cup {"publisher"}
InUse == MapThenSumSet(LAMBDA u : held[u], Users)

ServerInit ==
  /\ config = NoConfig
  /\ main = "config"
  /\ code = 0
  /\ signalled = FALSE
  /\ pool = "none"
  /\ held = [u \in Users |-> 0]
  /\ mutex = "free"
  /\ need = [r \in Requests |-> "none"]
  /\ req = [r \in Requests |-> "unsent"]
  /\ here = [r \in Requests |-> TRUE]
  /\ publisher = "none"
  /\ timedOut = {}

Exit(c) == main' = "exited" /\ code' = c

-----------------------------------------------------------------------------
(* Starting. *)

\* run: the configuration is loaded before the signals are caught.
LoadConfig(yaml, env) ==
  LET loaded == LoadFile(yaml, env)
      runtime == Runtime(loaded.config) IN
  /\ main = "config"
  /\ IF loaded.err \/ runtime.err THEN Exit(1) /\ UNCHANGED config
     ELSE /\ main' = "database"
          /\ config' = [config |-> runtime.config, env |-> env]
          /\ UNCHANGED code
  /\ UNCHANGED <<signalled, pool, held, mutex, requests, publisher, timedOut>>

Configure == main = "config" /\ \E yaml \in Files, env \in ProcessEnvironments : LoadConfig(yaml, env)

\* openDatabase: connect, ping, migrate; on failure the pool is closed again.
\* A cancelled context fails the ping or the migrations.
OpenDatabase ==
  /\ main = "database"
  /\ \/ ~ signalled /\ main' = "wiring" /\ pool' = "open" /\ UNCHANGED code
     \/ Exit(1) /\ pool' \in {"none", "closed"}
  /\ UNCHANGED <<config, signalled, held, mutex, requests, publisher, timedOut>>

\* NewServer: the logger, the object store, the handlers or the publisher
\* cannot be made.
WiringFails ==
  /\ main = "wiring"
  /\ Exit(1)
  /\ pool' = "closed"
  /\ UNCHANGED <<config, signalled, held, mutex, requests, publisher, timedOut>>

\* NewServer succeeds; startOutboxPublisher starts the goroutine if enabled.
\* From here on every component has its own settings.
Serve ==
  /\ main = "wiring"
  /\ main' = "serving"
  /\ publisher' = IF config.config["outbox_publisher.enabled"] = "true" THEN "idle" ELSE "none"
  /\ config' = NoConfig
  /\ need' \in Mixes
  /\ UNCHANGED <<code, signalled, pool, held, mutex, req, here, timedOut>>

Signal ==
  /\ ~ signalled
  /\ main \notin {"config", "exited"}
  /\ signalled' = TRUE
  /\ UNCHANGED <<config, main, code, pool, held, mutex, requests, publisher, timedOut>>

-----------------------------------------------------------------------------
(* The pool (external: pgxpool) and the mutex. *)

Closed == pool \in {"closing", "closed"}
Free == InUse < MaxConns

\* An acquire waits until a connection is free; on a closed pool it fails once
\* one would be, and it fails when its context is cancelled.
CanAcquire == Free /\ ~ Closed
AcquireFails(cancelled) == cancelled \/ (Free /\ Closed)
Take(u) == held' = [held EXCEPT ![u] = @ + 1]
GiveAll(u) == held' = [held EXCEPT ![u] = 0]

-----------------------------------------------------------------------------
(* Requests. *)

Goto(r, to) == req' = [req EXCEPT ![r] = to]

\* withHTTPMetrics, withRequestID and the mux: the handler behind them.
Arrive(r) ==
  /\ main = "serving"
  /\ req[r] = "unsent"
  /\ Goto(r, IF need[r] \in {"readiness", "metrics"} THEN "want" ELSE "auth")
  /\ UNCHANGED <<config, main, code, signalled, pool, held, mutex, need, here, publisher, timedOut>>

\* GetByHash and MarkUsed, a connection for each in turn.  Without a connection
\* the request is refused.
Authenticate(r) ==
  /\ req[r] = "auth"
  /\ \/ CanAcquire /\ Goto(r, "want")
     \/ AcquireFails(~ here[r]) /\ Goto(r, "record")
  /\ UNCHANGED <<config, main, code, signalled, pool, held, mutex, need, here, publisher, timedOut>>

\* The first connection of the handler: a statement, Begin or a ping.
Acquire(r) ==
  /\ req[r] = "want"
  /\ need[r] # "metrics"
  /\ \/ CanAcquire /\ Take(r) /\ Goto(r, "using")
     \/ AcquireFails(~ here[r]) /\ Goto(r, "record") /\ UNCHANGED held
  /\ UNCHANGED <<config, main, code, signalled, pool, mutex, need, here, publisher, timedOut>>

\* A statement of a transaction runs on the pool instead.
NeedsSecond_Transaction(r) == need[r] \in {"metadata", "transaction"}
\* loadProtoMessages and loadProtoEnums query inside the loop over their rows.
\* A transaction's statements, and transactions opened inside it, run on its
\* own connection (executor, WithinTransaction).
NeedsSecond(r) == need[r] = "metadata"

\* loadProtoFields, loadProtoEnumValues: the rows stay open meanwhile.
AcquireSecond(r) ==
  /\ req[r] = "using"
  /\ NeedsSecond(r)
  /\ \/ CanAcquire /\ Take(r) /\ Goto(r, "both")
     \/ AcquireFails(~ here[r]) /\ GiveAll(r) /\ Goto(r, "record")
  /\ UNCHANGED <<config, main, code, signalled, pool, mutex, need, here, publisher, timedOut>>

\* The statement, the transaction or the loop ends, well or not: rows are
\* closed, the transaction is committed or rolled back.
Release(r) ==
  /\ \/ req[r] = "using" /\ ~ NeedsSecond(r)
     \/ req[r] = "both"
  /\ GiveAll(r)
  /\ Goto(r, "record")
  /\ UNCHANGED <<config, main, code, signalled, pool, mutex, need, here, publisher, timedOut>>

\* WritePrometheus holds the mutex while it writes to the client ...
LockMetrics(r) ==
  /\ req[r] = "want"
  /\ need[r] = "metrics"
  /\ mutex = "free"
  /\ mutex' = r
  /\ Goto(r, "writing")
  /\ UNCHANGED <<config, main, code, signalled, pool, held, need, here, publisher, timedOut>>

\* ... which may read slowly: no step of the server makes it go on.  A client
\* that leaves, or the write timeout, fails the write.
MetricsWritten(r) ==
  /\ req[r] = "writing"
  /\ mutex' = "free"
  /\ Goto(r, "record")
  /\ UNCHANGED <<config, main, code, signalled, pool, held, need, here, publisher, timedOut>>

\* RecordHTTPRequest, then the deferred DecInFlight; the answer is complete.
Record(r) ==
  /\ req[r] = "record"
  /\ mutex = "free"
  /\ Goto(r, "done")
  /\ UNCHANGED <<config, main, code, signalled, pool, held, mutex, need, here, publisher, timedOut>>

\* The client hangs up or times out; net/http cancels the request's context.
ClientLeaves(r) ==
  /\ here[r]
  /\ req[r] \notin {"unsent", "done"}
  /\ here' = [here EXCEPT ![r] = FALSE]
  /\ UNCHANGED <<config, main, code, signalled, pool, held, mutex, need, req, publisher, timedOut>>

Begun(r) == req[r] \notin {"unsent", "done"}

-----------------------------------------------------------------------------
(* The publisher: its statements take connections, its observer the mutex.   *)
(* Its context ends with the signal or with outboxCancel.                    *)

Cancelled == signalled \/ main \in {"stopping", "pool"}
PublisherGoto(to) ==
  /\ publisher' = to
  /\ UNCHANGED <<config, main, code, signalled, pool, mutex, requests, timedOut>>

\* Run: a tick begins an iteration, the end of the context ends the loop.
Tick == publisher = "idle" /\ ~ Cancelled /\ PublisherGoto("want") /\ UNCHANGED held
Stop == publisher = "idle" /\ Cancelled /\ PublisherGoto("done") /\ UNCHANGED held

\* ClaimPending, Stats, MarkPublished, MarkFailed.
PublisherAcquire ==
  /\ publisher = "want"
  /\ \/ CanAcquire /\ Take("publisher") /\ PublisherGoto("using")
     \/ AcquireFails(Cancelled) /\ PublisherGoto("failed") /\ UNCHANGED held
PublisherRelease == publisher = "using" /\ GiveAll("publisher") /\ PublisherGoto("observe")

\* RecordClaimed, RecordStats, RecordDispatch; then the next record or none.
PublisherObserve ==
  /\ publisher = "observe"
  /\ mutex = "free"
  /\ PublisherGoto("dispatch") \/ PublisherGoto("idle")
  /\ UNCHANGED held
\* RecordError, and the iteration returns its error.
PublisherFails == publisher = "failed" /\ mutex = "free" /\ PublisherGoto("idle") /\ UNCHANGED held

\* The dispatcher may take any time; after a failed dispatch under a cancelled
\* context the iteration returns without marking the record.
Dispatched ==
  /\ publisher = "dispatch"
  /\ PublisherGoto("want") \/ (Cancelled /\ PublisherGoto("idle"))
  /\ UNCHANGED held

-----------------------------------------------------------------------------
(* Stopping. *)

\* runServer: the signal, or an error of ListenAndServe, whichever it sees.
BeginShutdown ==
  /\ main = "serving" /\ signalled
  /\ main' = "draining"
  /\ UNCHANGED <<config, code, signalled, pool, held, mutex, requests, publisher, timedOut>>
ListenFails ==
  /\ main = "serving"
  /\ main' = "stopping"
  /\ code' = 1
  /\ UNCHANGED <<config, signalled, pool, held, mutex, requests, publisher, timedOut>>

\* Shutdown accepts nothing more and returns when every request has been
\* answered ...
Drained ==
  /\ main = "draining"
  /\ \A r \in Requests : ~ Begun(r)
  /\ main' = "stopping"
  /\ UNCHANGED <<config, code, signalled, pool, held, mutex, requests, publisher, timedOut>>
\* ... or with an error after ten seconds; the requests go on.
DrainTimeout ==
  /\ main = "draining"
  /\ main' = "stopping"
  /\ code' = 1
  /\ timedOut' = timedOut \cup {"shutdown"}
  /\ UNCHANGED <<config, signalled, pool, held, mutex, requests, publisher>>

\* Server.Close: the publisher is cancelled and waited for, then the pool is
\* closed, which waits until every connection is returned.
PublisherStopped ==
  /\ main = "stopping"
  /\ publisher \in {"none", "done"}
  /\ main' = "pool"
  /\ pool' = "closing"
  /\ UNCHANGED <<config, code, signalled, held, mutex, requests, publisher, timedOut>>
\* The wait has no end.
PublisherWaitTimeout_Never ==
  /\ FALSE
  /\ UNCHANGED serverVars
\* The pool is closed under a publisher that does not stop.
PublisherWaitTimeout_Closes ==
  /\ main = "stopping"
  /\ main' = "pool"
  /\ code' = 1
  /\ pool' = "closing"
  /\ UNCHANGED <<config, signalled, held, mutex, requests, publisher, timedOut>>
\* waitOutboxShutdown gives up after five seconds and Close returns its error
\* with the pool still open.
PublisherWaitTimeout ==
  /\ main = "stopping"
  /\ publisher # "none"
  /\ Exit(1)
  /\ timedOut' = timedOut \cup {"publisher"}
  /\ UNCHANGED <<config, signalled, pool, held, mutex, requests, publisher>>

PoolClosed ==
  /\ main = "pool"
  /\ InUse = 0
  /\ pool' = "closed"
  /\ Exit(code)
  /\ UNCHANGED <<config, signalled, held, mutex, requests, publisher, timedOut>>

Done == main = "exited" /\ UNCHANGED serverVars

-----------------------------------------------------------------------------
\* The process's goroutines end with it.
Running == main # "exited"

ServerNext ==
  \/ Configure
  \/ OpenDatabase \/ WiringFails \/ Serve \/ Signal
  \/ /\ Running
     /\ \/ \E r \in Requests :
             \/ Arrive(r) \/ Authenticate(r) \/ Acquire(r) \/ AcquireSecond(r) \/ Release(r)
             \/ LockMetrics(r) \/ MetricsWritten(r) \/ Record(r) \/ ClientLeaves(r)
        \/ Tick \/ Stop \/ PublisherAcquire \/ PublisherRelease \/ PublisherObserve
        \/ PublisherFails \/ Dispatched
  \/ BeginShutdown \/ ListenFails \/ Drained \/ DrainTimeout
  \/ PublisherStopped \/ PublisherWaitTimeout \/ PoolClosed
  \/ Done

\* Goroutines run; the pool and the mutex serve those who wait in turn; the
\* timers of main fire.  Nothing makes clients read, send or leave, nor a
\* dispatcher return.
Fairness ==
  /\ WF_serverVars(OpenDatabase) /\ WF_serverVars(WiringFails \/ Serve)
  /\ \A r \in Requests :
       /\ SF_serverVars(Running /\ (Authenticate(r) \/ Acquire(r) \/ AcquireSecond(r)))
       /\ SF_serverVars(Running /\ (LockMetrics(r) \/ Record(r)))
       /\ WF_serverVars(Running /\ Release(r))
       /\ WF_serverVars(Running /\ MetricsWritten(r) /\ ~ here[r])
  /\ WF_serverVars(Running /\ (Tick \/ Stop \/ PublisherRelease))
  /\ SF_serverVars(Running /\ (PublisherAcquire \/ PublisherObserve \/ PublisherFails))
  /\ WF_serverVars(BeginShutdown) /\ WF_serverVars(Drained \/ DrainTimeout)
  /\ WF_serverVars(PublisherStopped \/ PublisherWaitTimeout) /\ WF_serverVars(PoolClosed)

\* Clients give up in the end (the CLI's has a timeout).
ClientsLeave == \A r \in Requests : WF_serverVars(Running /\ ClientLeaves(r))

ServerSpec == ServerInit /\ [][ServerNext]_serverVars /\ Fairness

-----------------------------------------------------------------------------
(* Properties. *)

\* What an operator configured is what runs: the configuration a server is put
\* together with is left alone by the defaults of the publisher, of buf and of
\* the web server (but for a path "/", which the web server replaces), the
\* environment has the last word, and the API is served unless the pages are
\* put at "/".
ConfigKept ==
  main \in {"database", "wiring"} =>
    LET c == config.config IN
    /\ NormalizePublisherOptions(c) = c
    /\ NewWorkflow(c) = c
    /\ "/" \notin {c["ui.base_path"], c["ui.static_path"]} => NewWebServer(c) = c /\ ApiMounted(c)
    /\ \A p \in DOMAIN config.env \cap Settings : NormalizePath(config.env[p]) = c[p]

ServerTypeOK ==
  /\ main \in {"config", "database", "wiring", "serving", "draining", "stopping", "pool", "exited"}
  /\ code \in {0, 1}
  /\ pool \in {"none", "open", "closing", "closed"}
  /\ mutex \in {"free"} \cup {r \in Requests : req[r] = "writing"}
  /\ InUse <= MaxConns
  /\ \A r \in Requests :
       held[r] = CASE req[r] = "using" -> 1 [] req[r] = "both" -> 2 [] OTHER -> 0
  /\ held["publisher"] = IF publisher = "using" THEN 1 ELSE 0
  /\ timedOut \subseteq {"shutdown", "publisher"}

\* The publisher never loses the pool it writes its results to: the pool is
\* closed when the publisher's goroutine has ended (or never began).
PublisherNotCutOff == Closed => publisher \in {"none", "done"}

\* Exit code 0 means a clean stop: every request that was begun has been
\* answered, the publisher has stopped, the pool is closed and has all its
\* connections back, and no wait was given up.
ExitZeroClean ==
  main = "exited" /\ code = 0 =>
    /\ \A r \in Requests : ~ Begun(r)
    /\ publisher \in {"none", "done"}
    /\ pool = "closed" /\ InUse = 0
    /\ timedOut = {}

\* The pool is open at exit only after an unfinished publisher.
PoolClosedAtExit ==
  main = "exited" => pool \in {"none", "closed"} \/ "publisher" \in timedOut

\* However requests, publisher, signal and the timeouts of the shutdown interleave,
\* the process takes its parts down in order and its exit code says how it went.
OrderlyStop == PublisherNotCutOff /\ PoolClosedAtExit /\ ExitZeroClean

\* A signal ends the process, provided clients give up in the end: closing the
\* pool waits for requests that outlived the drain.
ShutdownEnds == ClientsLeave => (signalled ~> main = "exited")

\* As many metadata readers as connections, each holding one and wanting another.
PoolStarved ==
  /\ InUse = MaxConns
  /\ \A u \in Users : held[u] > 0 => u \in Requests /\ req[u] = "using" /\ need[u] = "metadata"
\* A client that never reads the metrics holds up everybody's counters for good.
MetricsStalled == <>[](mutex # "free")

\* A request is answered unless the process ends first, metadata readers have
\* the pool among themselves, or a client stalls the metrics for good: a scrape that
\* ends only delays the others.
ServedUnlessStarved ==
  ~ MetricsStalled =>
    \A r \in Requests : Begun(r) ~> (req[r] = "done" \/ main = "exited" \/ PoolStarved)
=============================================================================
