------------------------------ MODULE Exporter ------------------------------
(***************************************************************************)
(* The exporter as a process: run of cmd/rmq-exporter/main.go, which reads *)
(* its settings (module Config), starts the admin client, the worker pool, *)
(* the cron, the health prober and the HTTP server one after the other,    *)
(* waits for a signal, and stops them by its deferred calls.               *)
(*                                                                         *)
(* The parts are seen through what their order matters to: who is inside a *)
(* call of the admin client, and whether a part is up.  Modules            *)
(* RemotingClient, WorkerPool and Prober have their insides; that          *)
(* WorkerPool.Shutdown returns only when the queue is drained and          *)
(* Prober.Shutdown only when its loops have exited is checked there.       *)
(***************************************************************************)
EXTENDS Sequences, Config

CONSTANTS Job,        \* the cron jobs
          MaxQueue,   \* bound: the tasks in the pool's queue
          Givens      \* what the process may be given: see module Config

ASSUME MaxQueueAssumption == MaxQueue \in Nat

VARIABLES
  given,     \* the command line, the environment and the file
  cfg,       \* the settings
  main,      \* "config", the next part to start, "wait", "unwind" or "exited"
  defers,    \* the deferred calls, the last one first
  signalled, \* ctx is done
  admin, pool, sched, prober, http,  \* "off", "up", "stopping" or "down"; the
                                     \* server "failed" if it cannot serve
  job,       \* of a cron job: "idle", "run" or "call" (inside the client)
  queue,     \* tasks in the pool's queue
  worker,    \* the pool's workers: "idle" or "call"
  refresh,   \* the prober's refreshLoop: "off", "select", "call" or "exited"
  request    \* an HTTP request is being served

parts == <<admin, pool, sched, prober, http>>
work == <<job, queue, worker, refresh, request>>
settings == <<given, cfg>>
vars == <<settings, main, defers, signalled, parts, work>>

Init ==
  /\ given \in Givens
  /\ cfg = Default
  /\ main = "config"
  /\ defers = <<>>
  /\ signalled = FALSE
  /\ admin = "off" /\ pool = "off" /\ sched = "off"
  /\ prober = "off" /\ http = "off"
  /\ job = [j \in Job |-> "idle"]
  /\ queue = 0
  /\ worker = "idle"
  /\ refresh = "off"
  /\ request = FALSE

Defer(f) == defers' = <<f>> \o defers

\* Until signal.NotifyContext is called, a signal ends the process.
Signal ==
  /\ ~ signalled
  /\ signalled' = TRUE
  /\ main' = IF main = "config" THEN "exited" ELSE main
  /\ UNCHANGED <<settings, defers, parts, work>>

-----------------------------------------------------------------------------
(* run, from the top to the wait.                                          *)

LoadConfig ==
  /\ main = "config"
  /\ LET load == Load(given)
     IN  /\ cfg' = load.cfg
         /\ \/ load.outcome = "go on" /\ main' = "admin"
            \/ load.outcome = "return" /\ main' = "unwind"
            \/ load.outcome = "exit" /\ main' = "exited"
  /\ UNCHANGED <<given, defers, signalled, parts, work>>

\* What is given, and the settings handed over so far, are not looked at
\* again.
StartAdmin ==
  /\ main = "admin"
  /\ given' = Given
  /\ cfg' = [cfg EXCEPT !.cacheTTL = Default.cacheTTL,
                        !.goMemLimit = Default.goMemLimit]
  /\ admin' = "up"
  /\ Defer("admin")
  /\ main' = "pool"
  /\ UNCHANGED <<signalled, pool, sched, prober, http, work>>

StartPool ==
  /\ main = "pool"
  /\ pool' = "up"
  /\ Defer("pool")
  /\ main' = "sched"
  /\ UNCHANGED <<settings, signalled, admin, sched, prober, http, work>>

\* Mutant of RegisterError: the process exits where it stands.
RegisterErrorExit ==
  /\ main = "sched"
  /\ cfg.cron # "six"
  /\ main' = "exited"
  /\ UNCHANGED <<settings, defers, signalled, parts, work>>

\* registerJobs: the scheduler rejects a cron expression without seconds.
RegisterError ==
  /\ main = "sched"
  /\ cfg.cron # "six"
  /\ main' = "unwind"
  /\ UNCHANGED <<settings, defers, signalled, parts, work>>

StartSched ==
  /\ main = "sched"
  /\ cfg.cron = "six"
  /\ sched' = "up"
  /\ Defer("sched")
  /\ main' = IF cfg.enabled = "true" THEN "prober" ELSE "http"
  /\ UNCHANGED <<settings, signalled, admin, pool, prober, http, work>>

\* NewAdapter or the producer of Prober.Start fails.
ProberError ==
  /\ main = "prober"
  /\ main' = "unwind"
  /\ UNCHANGED <<settings, defers, signalled, parts, work>>

StartProber ==
  /\ main = "prober"
  /\ prober' = "up"
  /\ refresh' = "select"
  /\ Defer("prober")
  /\ main' = "http"
  /\ UNCHANGED <<settings, signalled, admin, pool, sched, http, job, queue, worker,
                 request>>

\* Mutant of StartHttp: ListenAndServe is called by run itself.
StartHttpInLine ==
  /\ main = "http"
  /\ http' = "up"
  /\ Defer("http")
  /\ main' = "serving"
  /\ UNCHANGED <<settings, signalled, admin, pool, sched, prober, work>>

\* A goroutine calls ListenAndServe.
StartHttp ==
  /\ main = "http"
  /\ http' = "up"
  /\ Defer("http")
  /\ main' = "wait"
  /\ UNCHANGED <<settings, signalled, admin, pool, sched, prober, work>>

Wait ==
  /\ main = "wait"
  /\ signalled
  /\ main' = "unwind"
  /\ UNCHANGED <<settings, defers, signalled, parts, work>>

-----------------------------------------------------------------------------
(* The deferred calls.                                                     *)

Unwinding(f) == main = "unwind" /\ defers # <<>> /\ Head(defers) = f

\* srv.Shutdown closes the listener, then waits for the requests, with a
\* context that is never done.
HttpShutdown ==
  /\ Unwinding("http")
  /\ http \in {"up", "failed"}
  /\ http' = "stopping"
  /\ UNCHANGED <<settings, main, defers, signalled, admin, pool, sched, prober, work>>

HttpShutdownReturn ==
  /\ Unwinding("http")
  /\ http = "stopping"
  /\ ~ request
  /\ http' = "down"
  /\ defers' = Tail(defers)
  /\ UNCHANGED <<settings, main, signalled, admin, pool, sched, prober, work>>

\* Prober.Shutdown cancels rootCtx, then waits for its loops.
ProberShutdown ==
  /\ Unwinding("prober")
  /\ prober = "up"
  /\ prober' = "stopping"
  /\ UNCHANGED <<settings, main, defers, signalled, admin, pool, sched, http, work>>

ProberShutdownReturn ==
  /\ Unwinding("prober")
  /\ prober = "stopping"
  /\ refresh = "exited"
  /\ prober' = "down"
  /\ defers' = Tail(defers)
  /\ UNCHANGED <<settings, main, signalled, admin, pool, sched, http, work>>

\* sched.Stop: no further firing.  The context it returns, done when the
\* running jobs are, is dropped.
SchedStop ==
  /\ Unwinding("sched")
  /\ sched' = "down"
  /\ defers' = Tail(defers)
  /\ UNCHANGED <<settings, main, signalled, admin, pool, prober, http, work>>

\* Mutant of PoolShutdown: it does not wait for the workers.
PoolShutdownNoWait ==
  /\ Unwinding("pool")
  /\ pool = "up"
  /\ pool' = "down"
  /\ defers' = Tail(defers)
  /\ UNCHANGED <<settings, main, signalled, admin, sched, prober, http, work>>

\* WorkerPool.Shutdown refuses new tasks, then waits for the workers.
PoolShutdown ==
  /\ Unwinding("pool")
  /\ pool = "up"
  /\ pool' = "stopping"
  /\ UNCHANGED <<settings, main, defers, signalled, admin, sched, prober, http, work>>

PoolShutdownReturn ==
  /\ Unwinding("pool")
  /\ pool = "stopping"
  /\ queue = 0
  /\ worker = "idle"
  /\ pool' = "down"
  /\ defers' = Tail(defers)
  /\ UNCHANGED <<settings, main, signalled, admin, sched, prober, http, work>>

AdminShutdown ==
  /\ Unwinding("admin")
  /\ admin' = "down"
  /\ defers' = Tail(defers)
  /\ UNCHANGED <<settings, main, signalled, pool, sched, prober, http, work>>

Exit ==
  /\ main = "unwind"
  /\ defers = <<>>
  /\ main' = "exited"
  /\ UNCHANGED <<settings, defers, signalled, parts, work>>

-----------------------------------------------------------------------------
(* The goroutines.  They end with the process.                             *)

\* The cron fires: every firing is a goroutine; one of them stands for all
\* the rounds of a job.
Fire(j) ==
  /\ sched = "up" /\ main # "exited"
  /\ job[j] = "idle"
  /\ job' = [job EXCEPT ![j] = "run"]
  /\ UNCHANGED <<settings, main, defers, signalled, parts, queue, worker,
                 refresh, request>>

JobCall(j) ==
  /\ main # "exited"
  /\ job[j] = "run"
  /\ job' = [job EXCEPT ![j] = "call"]
  /\ UNCHANGED <<settings, main, defers, signalled, parts, queue, worker,
                 refresh, request>>

JobCallReturn(j) ==
  /\ main # "exited"
  /\ job[j] = "call"
  /\ job' = [job EXCEPT ![j] = "run"]
  /\ UNCHANGED <<settings, main, defers, signalled, parts, queue, worker,
                 refresh, request>>

JobEnd(j) ==
  /\ main # "exited"
  /\ job[j] = "run"
  /\ job' = [job EXCEPT ![j] = "idle"]
  /\ UNCHANGED <<settings, main, defers, signalled, parts, queue, worker,
                 refresh, request>>

\* Pool.Submit: a full queue loses its oldest task for the new one, which
\* changes nothing here; a stopped pool takes none.
JobSubmit(j) ==
  /\ main # "exited"
  /\ job[j] = "run"
  /\ pool = "up"
  /\ queue < MaxQueue
  /\ queue' = queue + 1
  /\ UNCHANGED <<settings, main, defers, signalled, parts, job, worker, refresh, request>>

\* The call that a task makes for one of the group's clients.
WorkerTake ==
  /\ main # "exited"
  /\ queue > 0 /\ worker = "idle"
  /\ queue' = queue - 1
  /\ worker' = "call"
  /\ UNCHANGED <<settings, main, defers, signalled, parts, job, refresh, request>>

WorkerReturn ==
  /\ main # "exited"
  /\ worker = "call"
  /\ worker' = "idle"
  /\ UNCHANGED <<settings, main, defers, signalled, parts, job, queue, refresh, request>>

\* A tick of refreshLoop: discoverClusters.  It may win the select over a
\* rootCtx that is done as well.
RefreshCall ==
  /\ prober \in {"up", "stopping"} /\ main # "exited"
  /\ refresh = "select"
  /\ refresh' = "call"
  /\ UNCHANGED <<settings, main, defers, signalled, parts, job, queue, worker, request>>

RefreshReturn ==
  /\ main # "exited"
  /\ refresh = "call"
  /\ refresh' = "select"
  /\ UNCHANGED <<settings, main, defers, signalled, parts, job, queue, worker, request>>

\* rootCtx is done: by the signal, or by Prober.Shutdown.
RefreshExit ==
  /\ main # "exited"
  /\ refresh = "select"
  /\ signalled \/ prober = "stopping"
  /\ refresh' = "exited"
  /\ UNCHANGED <<settings, main, defers, signalled, parts, job, queue, worker, request>>

\* ListenAndServe fails, at the start or later: that is logged, and the
\* process goes on without taking requests.
ServeError ==
  /\ http = "up" /\ main # "exited"
  /\ http' = "failed"
  /\ UNCHANGED <<settings, main, defers, signalled, admin, pool, sched, prober, work>>

Request ==
  /\ http = "up" /\ main # "exited"
  /\ ~ request
  /\ request' = TRUE
  /\ UNCHANGED <<settings, main, defers, signalled, parts, job, queue, worker,
                 refresh>>

RequestDone ==
  /\ main # "exited"
  /\ request
  /\ request' = FALSE
  /\ UNCHANGED <<settings, main, defers, signalled, parts, job, queue, worker,
                 refresh>>

-----------------------------------------------------------------------------
Main ==
  \/ LoadConfig \/ StartAdmin \/ StartPool \/ RegisterError \/ StartSched
  \/ ProberError \/ StartProber \/ StartHttp \/ Wait
  \/ HttpShutdown \/ HttpShutdownReturn
  \/ ProberShutdown \/ ProberShutdownReturn
  \/ SchedStop \/ PoolShutdown \/ PoolShutdownReturn
  \/ AdminShutdown \/ Exit

Worker == WorkerTake \/ WorkerReturn

Next ==
  \/ Signal \/ Main \/ Worker
  \/ \E j \in Job : Fire(j) \/ JobCall(j) \/ JobCallReturn(j) \/ JobEnd(j)
                    \/ JobSubmit(j)
  \/ RefreshCall \/ RefreshReturn \/ RefreshExit
  \/ ServeError \/ Request \/ RequestDone

Spec == Init /\ [][Next]_vars

\* main and the workers are scheduled and every call of the client ends
\* (module RemotingClient).  A select with both cases ready takes either at
\* random, so refreshLoop does not miss a done context for ever.  A request
\* may take for ever: the server has no timeouts.
FairSpec ==
  /\ Spec
  /\ WF_vars(Main) /\ WF_vars(Worker)
  /\ \A j \in Job : WF_vars(JobCallReturn(j))
  /\ WF_vars(RefreshReturn) /\ SF_vars(RefreshExit)

-----------------------------------------------------------------------------
\* The variables have their types.
TypeOK ==
  /\ cfg \in [Setting -> UNION {Texts[s] : s \in Setting}]
  /\ main \in {"config", "admin", "pool", "sched", "prober", "http", "wait", "unwind",
               "exited"}
  /\ defers \in Seq({"admin", "pool", "sched", "prober", "http"})
  /\ signalled \in BOOLEAN /\ request \in BOOLEAN
  /\ {admin, pool, sched, prober, http}
       \subseteq {"off", "up", "failed", "stopping", "down"}
  /\ job \in [Job -> {"idle", "run", "call"}]
  /\ queue \in 0 .. MaxQueue
  /\ worker \in {"idle", "call"}
  /\ refresh \in {"off", "select", "call", "exited"}

\* The order of the deferred calls: when the client's connections are
\* closed, no client-metric task is queued or running and the prober no
\* longer asks for clusters.  Only a cron job may still be calling.
ClientOutlivesItsUsers ==
  admin = "down" => queue = 0 /\ worker = "idle" /\ refresh # "call"

\* On every way out of run, by a signal or by an error half way through the
\* start, each part that was started is stopped.
EveryPartStopped ==
  main = "exited" =>
    \A part \in {admin, pool, sched, prober, http} : part \in {"off", "down"}

\* Every setting that the parts are started with has the text of its best
\* source, wherever else it is given, and one that can be used: a text that
\* cannot be parsed stops the process before anything is started, or is
\* passed over.
BestSourceWins ==
  main = "admin" =>
    \A s \in Setting : cfg[s] = Best(s, given) /\ cfg[s] # "x"

\* A signal ends the process, whatever the parts are doing, with one
\* exception: run waits in srv.Shutdown as long as a request is not done,
\* for ever if need be.  Neither a call of a cron job, nor the tasks in the
\* queue, nor the prober can hold it.
ExitsAfterSignal ==
  signalled ~> (main = "exited" \/ [](http = "stopping" /\ request))

=============================================================================
