\* The TTL is the period, as shipped, and a round may take as long, so that
\* rounds overlap; one goroutine is in a scrape or a sweep.
\* Two brokers between two addresses, one change of the cluster, two rounds.
\* Two queues on any of two brokers, a client with an id and one without, two events during the work.
CONSTANTS
  k1 = k1
  k2 = k2
  v1 = v1
  v2 = v2
  Key = {k1, k2}
  Value = {v1, v2}
  Series <- SeriesTwo
  Process = {p1}
  TTL = 1
  MaxTime = 3
  None = None
  Round = {r1, r2}
  Period = 1
  MaxCycle = 1
  BrokerName = {east, west}
  Addr = {a1, a2}
  FreeUnit <- FreeUnitRoom
  MaxLog = 2
  MaxMoves = 1
  MaxRounds = 2
  Broker = {b1, b2}
  Queue = {q1, q2}
  Client = {c1, c2}
  Unnamed = {c2}
  Now = 2
  Stamp <- StampOdd
  MaxOffset = 2
  MaxEvents = 2
SPECIFICATION CollectionSpec
SYMMETRY Symmetry
INVARIANTS
  NothingLiveLost
  FreshSamples
  DiffCoversLag
  OneSamplePerSeries
  CountsClientsOnce
  TotalsInWindow
  
PROPERTY SnapshotInWindow
\* The clock stops at its bound, and the work ends.
CHECK_DEADLOCK FALSE
