\* One cluster, one callback, and time enough for a success to lapse and for
\* a later one.  Time runs out in a state where goroutines still run.
CONSTANTS
  Cluster = {east}
  Callback = {b1}
  Recency = 2
  MaxTime = 3
SPECIFICATION Spec
INVARIANTS
  OkIsEarned
  OverallAgrees
  ProduceMirrored
