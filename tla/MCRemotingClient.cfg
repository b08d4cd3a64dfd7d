\* Two callers, one address, a pool of one connection and three calls, so
\* that two callers meet at one pooled connection; no symmetry, as liveness is
\* checked.  One Shutdown, hence at most two channels for the address.  The
\* requests run out, so that every behaviour stops.
CONSTANTS
  Caller = {c1, c2}
  Addr = {a1}
  Conn = {k1, k2, k3, k4}
  Chan = {h1, h2}
  Req = {r1, r2, r3}
  PoolSize = 1
  None = None
SPECIFICATION FairSpec
CHECK_DEADLOCK FALSE
INVARIANTS
  OneOwner
  OpenIffOwned
  NoCrossTalk
  AtMostOneRetry
PROPERTY EveryCallReturns
