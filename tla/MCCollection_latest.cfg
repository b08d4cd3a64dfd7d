\* The TTL is the period, and a round takes less: as shipped.
CONSTANTS
  k1 = k1
  k2 = k2
  v1 = v1
  v2 = v2
  Key = {k1, k2}
  Value = {v1, v2}
  Series <- SeriesOne
  Process = {p1}
  TTL = 2
  MaxTime = 6
  None = None
  Round = {r1}
  Period = 2
  MaxCycle = 1
  BrokerName = {east, west}
  Addr = {a1, a2}
  FreeUnit <- FreeUnitRoom
  MaxLog = 2
  MaxMoves = 1
  MaxRounds = 2
  Broker = {b1, b2}
  Queue = {q1, q2}
  Client = {c1}
  Unnamed = {}
  Now = 2
  Stamp <- StampOdd
  MaxOffset = 2
  MaxEvents = 2
SPECIFICATION CollectionSpec
INVARIANT ShowsLatest
CHECK_DEADLOCK FALSE
