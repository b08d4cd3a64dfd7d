----------------------------- MODULE WorkerPool -----------------------------
(***************************************************************************)
(* The bounded worker pool of internal/task/workerpool.go, on which the    *)
(* consumer-offset job runs the per-group client metric tasks.             *)
(*                                                                         *)
(* Every critical section under p.mu is one action.  A worker is "ready"   *)
(* when its next step is to take the mutex at the top of its loop (or to   *)
(* take it again inside cond.Wait after it was woken): both re-evaluate    *)
(* the loop condition.  A "parked" worker is on the notify list of the     *)
(* condition variable, which cond.Wait joins before it unlocks.            *)
(*                                                                         *)
(* A task is named by its rank among the accepted submissions, so that the *)
(* fate of each task can be followed by the history variables.             *)
(***************************************************************************)
EXTENDS Integers, Sequences, FiniteSets

CONSTANTS workers,    \* first argument of New
          queue,      \* second argument of New
          MaxSubmits  \* bound: how many submissions are accepted

ASSUME ArgsAssumption == workers \in Int /\ queue \in Int

ASSUME BoundAssumption == MaxSubmits \in Nat

VARIABLES
  buf,        \* WorkerPool.buf: the pending tasks, oldest first
  stopped,    \* WorkerPool.stopped
  pc,         \* where each worker goroutine is
  cur,        \* the task each worker runs, 0 when it runs none
  caller,     \* the goroutine that owns the pool (main)
  accepted,   \* history: number of submissions that entered buf
  discarded,  \* history: tasks dropped unrun because buf was full
  finished    \* history: tasks whose t() returned

vars == <<buf, stopped, pc, cur, caller, accepted, discarded, finished>>

\* New replaces an argument below 1 by 1.
AtLeastOne(n) == IF n < 1 THEN 1 ELSE n

NWorkers == AtLeastOne(workers)
Cap == AtLeastOne(queue)
Worker == 1..NWorkers

At(state) == {w \in Worker : pc[w] = state}

\* WorkerPool.wg: the goroutines Start counted and that are not Done.
InFlight == {w \in Worker : pc[w] \notin {"unborn", "exited"}}

QueueLen == Len(buf)

Init ==
  /\ buf = <<>>
  /\ stopped = FALSE
  /\ pc = [w \in Worker |-> "unborn"]
  /\ cur = [w \in Worker |-> 0]
  /\ caller = "created"
  /\ accepted = 0
  /\ discarded = {}
  /\ finished = {}

\* The whole spawning loop is one step: a goroutine that is spawned but has
\* not run yet cannot be told from one that is about to be spawned.
Start ==
  /\ caller = "created"
  /\ caller' = "started"
  /\ pc' = [w \in Worker |-> "ready"]
  /\ UNCHANGED <<buf, stopped, cur, accepted, discarded, finished>>

-----------------------------------------------------------------------------
(* One iteration of the loop of worker().                                  *)

\* !stopped && len(buf) == 0: cond.Wait.
Park(w) ==
  /\ pc[w] = "ready"
  /\ ~stopped
  /\ buf = <<>>
  /\ pc' = [pc EXCEPT ![w] = "parked"]
  /\ UNCHANGED <<buf, stopped, cur, caller, accepted, discarded, finished>>

\* Mutation: a stopped worker leaves without looking at the buffer.
ExitUndrained(w) ==
  /\ pc[w] = "ready"
  /\ stopped
  /\ pc' = [pc EXCEPT ![w] = "exited"]
  /\ UNCHANGED <<buf, stopped, cur, caller, accepted, discarded, finished>>

\* Stopped and drained: return, and wg.Done by the deferred call.
Exit(w) ==
  /\ pc[w] = "ready"
  /\ stopped
  /\ buf = <<>>
  /\ pc' = [pc EXCEPT ![w] = "exited"]
  /\ UNCHANGED <<buf, stopped, cur, caller, accepted, discarded, finished>>

\* Mutation: the head is read but not removed.
TakeNoPop(w) ==
  /\ pc[w] = "ready"
  /\ buf # <<>>
  /\ cur' = [cur EXCEPT ![w] = Head(buf)]
  /\ pc' = [pc EXCEPT ![w] = "run"]
  /\ UNCHANGED <<buf, stopped, caller, accepted, discarded, finished>>

\* Mutation: the newest task is served first.
TakeLast(w) ==
  /\ pc[w] = "ready"
  /\ buf # <<>>
  /\ cur' = [cur EXCEPT ![w] = buf[Len(buf)]]
  /\ buf' = SubSeq(buf, 1, Len(buf) - 1)
  /\ pc' = [pc EXCEPT ![w] = "run"]
  /\ UNCHANGED <<stopped, caller, accepted, discarded, finished>>

Take(w) ==
  /\ pc[w] = "ready"
  /\ buf # <<>>
  /\ cur' = [cur EXCEPT ![w] = Head(buf)]
  /\ buf' = Tail(buf)
  /\ pc' = [pc EXCEPT ![w] = "run"]
  /\ UNCHANGED <<stopped, caller, accepted, discarded, finished>>

\* t() returns and the worker goes back to the top of its loop.
Finish(w) ==
  /\ pc[w] = "run"
  /\ finished' = finished \cup {cur[w]}
  /\ cur' = [cur EXCEPT ![w] = 0]
  /\ pc' = [pc EXCEPT ![w] = "ready"]
  /\ UNCHANGED <<buf, stopped, caller, accepted, discarded>>

WorkerStep(w) == Park(w) \/ Exit(w) \/ Take(w) \/ Finish(w)

-----------------------------------------------------------------------------
(* The callers of the pool.                                                *)

\* cond.Signal: one parked worker, if there is any.
Signal ==
  \/ /\ At("parked") = {}
     /\ UNCHANGED pc
  \/ \E w \in At("parked") : pc' = [pc EXCEPT ![w] = "ready"]

\* cond.Broadcast: all of them.
Broadcast == pc' = [w \in Worker |-> IF pc[w] = "parked" THEN "ready" ELSE pc[w]]

\* Mutation: the newest pending task makes room, not the oldest.
EnqueueDropNewest ==
  IF QueueLen >= Cap
  THEN /\ discarded' = discarded \cup {buf[QueueLen]}
       /\ buf' = Append(SubSeq(buf, 1, QueueLen - 1), accepted + 1)
  ELSE /\ buf' = Append(buf, accepted + 1)
       /\ UNCHANGED discarded

\* The drop of the head when buf is full, and the append.
Enqueue ==
  IF QueueLen >= Cap
  THEN /\ discarded' = discarded \cup {Head(buf)}
       /\ buf' = Append(Tail(buf), accepted + 1)
  ELSE /\ buf' = Append(buf, accepted + 1)
       /\ UNCHANGED discarded

\* Mutation: a worker is woken only when the buffer was empty.
SubmitSignalIfEmpty ==
  \/ /\ ~stopped
     /\ accepted < MaxSubmits
     /\ accepted' = accepted + 1
     /\ Enqueue
     /\ IF buf = <<>> THEN Signal ELSE UNCHANGED pc
     /\ UNCHANGED <<stopped, cur, caller, finished>>
  \/ /\ stopped
     /\ UNCHANGED vars

\* Mutation: no worker is woken.
SubmitNoSignal ==
  \/ /\ ~stopped
     /\ accepted < MaxSubmits
     /\ accepted' = accepted + 1
     /\ Enqueue
     /\ UNCHANGED <<stopped, pc, cur, caller, finished>>
  \/ /\ stopped
     /\ UNCHANGED vars

\* A submission to a stopped pool is dropped without a trace.
Submit ==
  \/ /\ ~stopped
     /\ accepted < MaxSubmits
     /\ accepted' = accepted + 1
     /\ Enqueue
     /\ Signal
     /\ UNCHANGED <<stopped, cur, caller, finished>>
  \/ /\ stopped
     /\ UNCHANGED vars

\* Mutation: one worker is told of the stop, not all.
StopSignal ==
  /\ caller = "started"
  /\ caller' = "waiting"
  /\ stopped' = TRUE
  /\ Signal
  /\ UNCHANGED <<buf, cur, accepted, discarded, finished>>

\* The critical section of Shutdown.
Stop ==
  /\ caller = "started"
  /\ caller' = "waiting"
  /\ stopped' = TRUE
  /\ Broadcast
  /\ UNCHANGED <<buf, cur, accepted, discarded, finished>>

\* wg.Wait returns, and Shutdown with it.
WgWait ==
  /\ caller = "waiting"
  /\ InFlight = {}
  /\ caller' = "returned"
  /\ UNCHANGED <<buf, stopped, pc, cur, accepted, discarded, finished>>

Next ==
  \/ Start
  \/ \E w \in Worker : WorkerStep(w)
  \/ Submit
  \/ Stop
  \/ WgWait

Spec == Init /\ [][Next]_vars

(***************************************************************************)
(* The owner runs Start, and wg.Wait once it is in Shutdown; a goroutine   *)
(* that can run is scheduled; a task comes to its end (its RPCs have       *)
(* deadlines).  Nothing makes anybody submit a task or stop the pool.      *)
(***************************************************************************)
Fairness ==
  /\ WF_vars(Start)
  /\ WF_vars(WgWait)
  /\ \A w \in Worker : WF_vars(WorkerStep(w))

FairSpec == Spec /\ Fairness

-----------------------------------------------------------------------------
(* Properties.                                                             *)

WorkerState == {"unborn", "ready", "parked", "run", "exited"}
CallerState == {"created", "started", "waiting", "returned"}

\* The state has its types, and buf never holds more than cap tasks.
TypeOK ==
  /\ buf \in Seq(1..accepted)
  /\ Len(buf) <= Cap
  /\ stopped \in BOOLEAN
  /\ pc \in [Worker -> WorkerState]
  /\ cur \in [Worker -> 0..accepted]
  /\ caller \in CallerState
  /\ accepted \in 0..MaxSubmits
  /\ discarded \subseteq 1..accepted
  /\ finished \subseteq 1..accepted

\* The discard-oldest policy of Submit: what is pending is exactly the
\* newest accepted tasks, in the order of their submission, whatever was
\* taken and dropped before.
NewestKeptInOrder ==
  \A i \in 1..Len(buf) : buf[i] = accepted - Len(buf) + i

Running == {cur[w] : w \in At("run")}
Pending == {buf[i] : i \in 1..Len(buf)}

\* Between the pop in worker() and the drop in Submit no task is lost or
\* run twice: each accepted task is pending, or with exactly one worker,
\* or finished, or discarded.
OneFate ==
  /\ Pending \cup Running \cup finished \cup discarded = 1..accepted
  /\ \A t \in Pending : t \notin Running \cup finished \cup discarded
  /\ \A w \in At("run") : cur[w] \notin finished \cup discarded
  /\ finished \cap discarded = {}
  /\ \A v, w \in At("run") : cur[v] = cur[w] => v = w

\* One Signal per Submit is enough although woken workers and workers that
\* come back from a task race for the same tasks: while some worker is
\* parked there are at least as many workers on their way to the buffer as
\* there are tasks in it.
NoIdleWithWork ==
  At("parked") # {} => QueueLen <= Cardinality(At("ready"))

\* Shutdown reaches the workers that sleep: after the stop no worker is
\* parked, and none parks again, so wg.Wait cannot hang on a sleeper.
NoneParkedAfterStop == stopped => At("parked") = {}

\* "lets workers drain the remaining buffer, and waits for all in-flight
\* tasks to finish": once Shutdown returned every accepted task finished or
\* was discarded for a newer one, and no worker is left.
DrainedOnReturn ==
  caller = "returned" =>
    /\ finished \cup discarded = 1..accepted
    /\ InFlight = {}

\* How the goroutines follow the owner: workers exist from Start on, a worker
\* leaves only a pool that is stopped and drained for good, and a worker
\* holds a task exactly while it runs it.
Lifecycle ==
  /\ stopped <=> caller \in {"waiting", "returned"}
  /\ \A w \in Worker :
       /\ pc[w] = "unborn" <=> caller = "created"
       /\ pc[w] = "exited" => stopped /\ buf = <<>>
       /\ pc[w] = "run" <=> cur[w] # 0

Executor == INSTANCE DiscardOldestExecutor WITH
  Parallelism <- NWorkers,
  Capacity <- Cap,
  queue <- buf,
  active <- Running,
  done <- finished,
  evicted <- discarded,
  submitted <- accepted,
  closed <- stopped,
  returned <- caller = "returned"

\* The pool with its mutex, its condition variable and its goroutines does
\* nothing that a discard-oldest executor of this size would not do.
ImplementsExecutor == Executor!Spec

\* No accepted task starves: it is run to its end or makes room for a newer
\* one, without any help of later submissions.
TaskSettled ==
  \A t \in 1..MaxSubmits :
    t <= accepted ~> t \in finished \cup discarded

\* Shutdown returns, however its broadcast and the workers' waits and tasks
\* interleave.
ShutdownReturns == caller = "waiting" ~> caller = "returned"
=============================================================================
