\* The instance of MCProber.cfg.
CONSTANTS
  Cluster = {east, west}
  Probe = {p1, p2}
  Watched = {west}
  None = None
SPECIFICATION Spec
CHECK_DEADLOCK FALSE
INVARIANT
  NoGhostSamples
