----------------------- MODULE DiscardOldestExecutor -----------------------
(***************************************************************************)
(* What a bounded executor with the discard-oldest policy promises its     *)
(* callers, without threads, locks or condition variables.  Tasks are      *)
(* numbered in the order in which they are accepted.                       *)
(*                                                                         *)
(* The worker pool of internal/task (module WorkerPool) implements this    *)
(* specification.                                                          *)
(***************************************************************************)
EXTENDS Integers, Sequences, FiniteSets

CONSTANTS Parallelism,  \* how many tasks may be in flight at once
          Capacity      \* how many tasks may be waiting at once

VARIABLES queue,      \* the waiting tasks, oldest first
          active,     \* the tasks in flight
          done,       \* the tasks that ran to their end
          evicted,    \* the tasks that were discarded unrun
          submitted,  \* the number of tasks accepted so far
          closed,     \* no task is accepted any more
          returned    \* the caller of the shutdown has its answer

execVars == <<queue, active, done, evicted, submitted, closed, returned>>

Init ==
  /\ queue = <<>>
  /\ active = {}
  /\ done = {}
  /\ evicted = {}
  /\ submitted = 0
  /\ closed = FALSE
  /\ returned = FALSE

\* A task finds room.
Enqueue ==
  /\ ~closed
  /\ Len(queue) < Capacity
  /\ submitted' = submitted + 1
  /\ queue' = Append(queue, submitted + 1)
  /\ UNCHANGED <<active, done, evicted, closed, returned>>

\* A task finds no room and takes the place of the oldest one.
Displace ==
  /\ ~closed
  /\ Len(queue) = Capacity
  /\ submitted' = submitted + 1
  /\ queue' = Append(Tail(queue), submitted + 1)
  /\ evicted' = evicted \cup {Head(queue)}
  /\ UNCHANGED <<active, done, closed, returned>>

\* The oldest waiting task is started, if the parallelism allows it.
Begin ==
  /\ queue # <<>>
  /\ Cardinality(active) < Parallelism
  /\ active' = active \cup {Head(queue)}
  /\ queue' = Tail(queue)
  /\ UNCHANGED <<done, evicted, submitted, closed, returned>>

End(t) ==
  /\ t \in active
  /\ active' = active \ {t}
  /\ done' = done \cup {t}
  /\ UNCHANGED <<queue, evicted, submitted, closed, returned>>

Close ==
  /\ ~closed
  /\ closed' = TRUE
  /\ UNCHANGED <<queue, active, done, evicted, submitted, returned>>

\* The shutdown returns only once nothing waits and nothing is in flight.
Return ==
  /\ closed
  /\ queue = <<>>
  /\ active = {}
  /\ returned' = TRUE
  /\ UNCHANGED <<queue, active, done, evicted, submitted, closed>>

Next ==
  \/ Enqueue
  \/ Displace
  \/ Begin
  \/ \E t \in active : End(t)
  \/ Close
  \/ Return

Spec == Init /\ [][Next]_execVars
=============================================================================
