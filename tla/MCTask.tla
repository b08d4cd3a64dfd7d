------------------------------- MODULE MCTask -------------------------------
(***************************************************************************)
(* The concurrency of package internal/task for TLC: the worker pool and   *)
(* one round of the job that feeds it.  A behaviour is one of the pool or  *)
(* one of the round, since the pool sees no more of the round than its     *)
(* submissions, and its own Submit may happen at any time.                 *)
(***************************************************************************)
EXTENDS WorkerPool, ConsumerOffsetJob

VARIABLE part  \* "pool" or "round"

taskVars == <<part, vars, jobVars>>

TaskInit == part \in {"pool", "round"} /\ Init /\ JobInit

InPool(A) == part = "pool" /\ A /\ UNCHANGED <<part, jobVars>>

InRound(A) == part = "round" /\ A /\ UNCHANGED <<part, vars>>

TaskNext == InPool(Next) \/ InRound(JobNext)

\* The fairness of the two modules, each for its part.
TaskSpec ==
  /\ TaskInit
  /\ [][TaskNext]_taskVars
  /\ WF_taskVars(InPool(Start))
  /\ WF_taskVars(InPool(WgWait))
  /\ \A w \in Worker : WF_taskVars(InPool(WorkerStep(w)))
  /\ WF_taskVars(InRound(Main))
  /\ \A i \in Item : WF_taskVars(InRound(ReleaseSem(i) \/ WgDone(i)))
  /\ \A t \in Topic : WF_taskVars(InRound(TopicStep(t)))
  /\ \A p \in Pair : WF_taskVars(InRound(PairStep(p)))

=============================================================================
