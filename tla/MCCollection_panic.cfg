\* A broker whose disk is full writes its free space in bytes.
CONSTANTS
  k1 = k1
  k2 = k2
  v1 = v1
  v2 = v2
  Key = {k1, k2}
  Value = {v1, v2}
  Series <- SeriesOne
  Process = {p1}
  TTL = 1
  MaxTime = 1
  None = None
  Round = {r1}
  Period = 1
  MaxCycle = 1
  BrokerName = {east, west}
  Addr = {a1, a2}
  FreeUnit <- FreeUnitFull
  MaxLog = 2
  MaxMoves = 1
  MaxRounds = 2
  Broker = {b1, b2}
  Queue = {q1, q2}
  Client = {c1}
  Unnamed = {}
  Now = 2
  Stamp <- StampOdd
  MaxOffset = 2
  MaxEvents = 2
SPECIFICATION CollectionSpec
INVARIANT NoPanic
CHECK_DEADLOCK FALSE
