\* Two jobs, a queue of two tasks; no symmetry, as liveness is checked.
CONSTANTS
  Job = {j1, j2}
  MaxQueue = 2
  Givens <- MCGivens
SPECIFICATION FairSpec
INVARIANTS
  ClientOutlivesItsUsers
  EveryPartStopped
  BestSourceWins
PROPERTY ExitsAfterSignal
\* The process exits.
CHECK_DEADLOCK FALSE
