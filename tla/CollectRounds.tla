---------------------------- MODULE CollectRounds ---------------------------
(***************************************************************************)
(* The rounds of one collection job and the metric family they write: the  *)
(* cron of cmd/rmq-exporter/main.go, the Collect methods of                *)
(* internal/task/collect.go, the Add methods of                            *)
(* internal/collector/collector.go, and the store of module TtlCache.      *)
(*                                                                         *)
(* The cron starts a round in a goroutine of its own at every firing,      *)
(* whether or not the last round is over.  A round reads what the brokers  *)
(* say, and later puts it into the family's cache: one series stands for   *)
(* all of a family, and its key is what the store identifies it by.  For   *)
(* rocketmq_group_diff, for instance, the key has the number of consumers  *)
(* online, which changes under way.  What a scrape would show at a moment  *)
(* is Gather; a scrape takes a snapshot in the steps of module TtlCache    *)
(* while rounds are under way.  Sweep, which nothing in the exporter calls *)
(* yet, may run at any time too.                                           *)
(***************************************************************************)
EXTENDS TtlCache

CONSTANTS Series,     \* what the brokers may say: a key and a value
          Round,      \* bound: the rounds open at a time
          Period,     \* the time from one firing to the next
          MaxCycle    \* the longest time a round takes

ASSUME SeriesAssumption == Series \subseteq Key \X Value

ASSUME PeriodAssumption == Period \in Nat \ {0}

ASSUME MaxCycleAssumption == MaxCycle \in Nat

VARIABLES
  world,    \* what the brokers say of the series now
  due,      \* the next firing
  stage,    \* of a round: "idle", "read" or "put"
  began,    \* when the round was fired
  saw,      \* what it read
  said,     \* history: when the brokers last said so, Never if they did not
  latest    \* history: what the last round put, None after a failure

roundVars == <<world, due, stage, began, saw, said, latest>>

allVars == <<vars, roundVars>>

Never == -1

RInit ==
  /\ Init
  /\ world \in Series
  /\ due = 0
  /\ stage = [r \in Round |-> "idle"]
  /\ began = [r \in Round |-> 0]
  /\ saw = [r \in Round |-> None]
  /\ said = [s \in Series |-> IF s = world THEN 0 ELSE Never]
  /\ latest = None

\* The clock goes on, but not past a firing nor past the end of a round.
RTick ==
  /\ clk < due
  /\ \A r \in Round : stage[r] # "idle" => clk - began[r] < MaxCycle
  /\ Tick
  /\ said' = [said EXCEPT ![world] = clk + 1]
  /\ UNCHANGED <<world, due, stage, began, saw, latest>>

Change ==
  /\ world' \in Series \ {world}
  /\ said' = [said EXCEPT ![world'] = clk]
  /\ UNCHANGED <<vars, due, stage, began, saw, latest>>

-----------------------------------------------------------------------------
Fire(r) ==
  /\ clk = due
  /\ stage[r] = "idle"
  /\ due' = due + Period
  /\ stage' = [stage EXCEPT ![r] = "read"]
  /\ began' = [began EXCEPT ![r] = clk]
  /\ UNCHANGED <<vars, world, saw, said, latest>>

Read(r) ==
  /\ stage[r] = "read"
  /\ stage' = [stage EXCEPT ![r] = "put"]
  /\ saw' = [saw EXCEPT ![r] = world]
  /\ UNCHANGED <<vars, world, due, began, said, latest>>

Finish(r) ==
  /\ stage' = [stage EXCEPT ![r] = "idle"]
  /\ began' = [began EXCEPT ![r] = 0]
  /\ saw' = [saw EXCEPT ![r] = None]

\* Mutant of ReadError: a round that fails keeps alive what is there.
ReadErrorRenew(r) ==
  /\ stage[r] = "read"
  /\ m' = [k \in Key |-> IF m[k] = None THEN None ELSE [m[k] EXCEPT !.writtenAt = clk]]
  /\ last' = m'
  /\ Finish(r)
  /\ latest' = None
  /\ UNCHANGED <<clk, pc, now, out, world, due, said>>

\* A call fails: the round is logged and given up.
ReadError(r) ==
  /\ stage[r] = "read"
  /\ Finish(r)
  /\ latest' = None
  /\ UNCHANGED <<vars, world, due, said>>

Store(r) ==
  /\ stage[r] = "put"
  /\ Put(saw[r][1], saw[r][2])
  /\ latest' = saw[r]
  /\ Finish(r)
  /\ UNCHANGED <<clk, pc, now, out, world, due, said>>

\* A scrape, or a sweep, goes on while rounds do.
Scrape ==
  /\ \E p \in Process : \/ SnapshotNow(p) \/ Snapshot(p)
                        \/ SweepNow(p) \/ Sweep(p)
  /\ UNCHANGED roundVars

RNext ==
  \/ RTick
  \/ Change
  \/ Scrape
  \/ \E r \in Round : Fire(r) \/ Read(r) \/ ReadError(r) \/ Store(r)

RSpec == RInit /\ [][RNext]_allVars

-----------------------------------------------------------------------------
(* What a scrape shows.                                                    *)

\* A sample has its labels from the key of the entry; where the code takes
\* some of them from the value, the key is understood to have them too.
Sample(k) == <<k, m[k].value>>

Gather == {Sample(k) : k \in Live(clk)}

\* No scrape shows what has long ceased to be true: every sample is what the
\* brokers said at some time in the last TTL and the length of a round, with
\* rounds that overlap, fail, or put after a later one did.
FreshSamples ==
  \A s \in Gather : said[s] # Never /\ clk - said[s] <= TTL + MaxCycle

\* "so a /metrics scrape reflects the most recent successful collection
\* round" (ttlCache): until a round fails, a scrape shows it.
ShowsLatest == latest # None => latest \in Gather

=============================================================================
