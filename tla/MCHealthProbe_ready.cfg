\* One healthy cluster, and one whose probe was just added.
CONSTANTS
  Cluster = {east, west}
  Callback = {b1}
  Recency = 1
  MaxTime = 1
SPECIFICATION Spec
INVARIANT
  ReadyOnlyAfterFirstProbe
