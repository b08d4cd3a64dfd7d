\* The pool: three workers, a buffer of two and five submissions, so that the
\* buffer overflows while workers are parked, on their way and busy.
\* The round: two topics and a dead-letter topic, two groups that may subscribe
\* to each of them, two goroutines at a time.
CONSTANTS
  workers = 3
  queue = 2
  MaxSubmits = 5
  Topic = {t1, t2, d1}
  DLQ = {d1}
  Group = {g1, g2}
  Concurrency = 2
SPECIFICATION TaskSpec
INVARIANTS
  NewestKeptInOrder
  OneFate
  NoIdleWithWork
  DrainedOnReturn
  BoundedFanOut
  EveryPairProcessed
  SubmittedOnce
PROPERTIES
  ImplementsExecutor
  TaskSettled
  ShutdownReturns
  RoundEnds
\* The round is over.
CHECK_DEADLOCK FALSE
