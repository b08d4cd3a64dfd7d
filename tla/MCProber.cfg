\* Two clusters and two probes under way: a cluster can vanish and come back,
\* and the signal can find refreshLoop anywhere inside addProbe or removeProbe.
\* The exporter stops in the end.
CONSTANTS
  Cluster = {east, west}
  Probe = {p1, p2}
  Watched = {west}
  None = None
SPECIFICATION FairSpec
CHECK_DEADLOCK FALSE
INVARIANT
  NoStrayConsumer
PROPERTIES
  NoGhostStatus
  NotWipedByFlap
  ShutdownReturns
  SelfHeal
