------------------------- MODULE Collection_proofs --------------------------
(***************************************************************************)
(* Proofs about the store, the rounds and the jobs that go over the        *)
(* brokers, and that a behaviour of module Collection is one of each of    *)
(* its parts: what is shown here of the store, of the rounds and of the    *)
(* broker jobs, and in RouteJobs_proofs of the work on a topic or a pair,  *)
(* holds of it.                                                            *)
(*                                                                         *)
(* The store: the map has the last put of every key, or nothing at all,    *)
(* and the latter only once that put has expired (CacheInv).  A sweep      *)
(* keeps it because the clock it read is never ahead of the clock: what it *)
(* takes for expired is expired.                                           *)
(*                                                                         *)
(* The rounds: what was last put of a key is what the brokers said no      *)
(* longer than a round before (RoundInv), however rounds overlap, fail or  *)
(* put out of order; so what is live was true a TTL and a round ago or     *)
(* later.                                                                  *)
(*                                                                         *)
(* The broker jobs: a round knows the master of every broker that has had  *)
(* one master only, what it put of such a broker is under that master's    *)
(* address, and what it has fetched so far of a slave and then of its      *)
(* master differs by no less than the slave lacked (BrokerInv).            *)
(***************************************************************************)
EXTENDS Collection, TLAPS

-----------------------------------------------------------------------------
(* The store.                                                              *)

\* The clock a snapshot or a sweep has read is not ahead of the clock.
NowPassed == \A p \in Process : now[p] <= clk

\* The entry of a key is its last put; it is missing only if the key was
\* never put or that put has expired.
LastOrExpired ==
  \A k \in Key :
    \/ m[k] = last[k]
    \/ m[k] = None /\ last[k] # None /\ Expired(last[k], clk)

\* The inductive invariant of the cache.
CacheInv == TypeOK /\ NowPassed /\ LastOrExpired

USE DEF Entry

\* The initial state satisfies the invariant.
LEMMA InitCacheInv == Init => CacheInv
  BY MaxTimeAssumption DEF Init, CacheInv, TypeOK, NowPassed, LastOrExpired

\* A put keeps the invariant.
LEMMA PutCacheInv ==
  ASSUME CacheInv, PutStep
  PROVE  CacheInv'
<1>1. PICK k \in Key, v \in Value : Put(k, v)
  BY Zenon DEF PutStep
<1> DEFINE e == [value |-> v, writtenAt |-> clk]
<1>2. e \in Entry
  BY Zenon DEF CacheInv, TypeOK
<1>3. m' = [m EXCEPT ![k] = e] /\ last' = [last EXCEPT ![k] = e]
  BY <1>1, Zenon DEF Put
<1>4. UNCHANGED <<clk, pc, now, out>>
  BY Zenon DEF PutStep
<1> HIDE DEF e
<1>5. TypeOK'
  BY <1>2, <1>3, <1>4, Zenon DEF CacheInv, TypeOK
<1>6. NowPassed'
  BY <1>4, Zenon DEF CacheInv, NowPassed
<1>7. LastOrExpired'
  BY <1>3, <1>4, Zenon DEF CacheInv, LastOrExpired, TypeOK, Expired
<1> QED
  BY <1>5, <1>6, <1>7, Zenon DEF CacheInv

\* A snapshot or a sweep that returns has no clock.
LEMMA ReturnInv ==
  ASSUME CacheInv, NEW p \in Process, Return(p), UNCHANGED clk
  PROVE  /\ pc' \in [Process -> {"idle", "snapshot", "sweep"}]
         /\ now' \in [Process -> 0 .. MaxTime]
         /\ NowPassed'
<1>1. clk \in Nat /\ 0 \in 0 .. MaxTime
  BY MaxTimeAssumption DEF CacheInv, TypeOK
<1>2. /\ pc' \in [Process -> {"idle", "snapshot", "sweep"}]
      /\ now' \in [Process -> 0 .. MaxTime]
  BY <1>1, Zenon DEF Return, CacheInv, TypeOK
<1>3. \A q \in Process : now'[q] = now[q] \/ now'[q] = 0
  BY Zenon DEF Return, CacheInv, TypeOK
<1>4. 0 <= clk
  BY <1>1
<1>5. NowPassed'
  BY <1>3, <1>4, Zenon DEF NowPassed, CacheInv
<1> QED
  BY <1>2, <1>5, Zenon

\* A sweep keeps the invariant: an entry expired at the time it read has
\* expired.
LEMMA SweepCacheInv ==
  ASSUME CacheInv, NEW p \in Process, Sweep(p)
  PROVE  CacheInv'
<1>1. /\ m' = [k \in Key |-> IF k \in Live(now[p]) THEN m[k] ELSE None]
      /\ Return(p)
      /\ UNCHANGED <<clk, out, last>>
  BY Zenon DEF Sweep
<1>2. TypeOK' /\ NowPassed'
  BY <1>1, ReturnInv, Zenon DEF CacheInv, TypeOK
<1>4. ASSUME NEW k \in Key
      PROVE  \/ m'[k] = last'[k]
             \/ m'[k] = None /\ last'[k] # None /\ Expired(last'[k], clk')
  <2>1. CASE k \in Live(now[p]) \/ m[k] = None
    BY <1>1, <2>1, Zenon DEF CacheInv, LastOrExpired, Live
  <2>2. CASE k \notin Live(now[p]) /\ m[k] # None
    <3>1. m[k] = last[k] /\ last[k] \in Entry
      BY <2>2, Zenon DEF CacheInv, LastOrExpired, TypeOK
    <3>2. Expired(last[k], now[p])
      BY <2>2, <3>1, Zenon DEF Live
    <3>3. Expired(last[k], clk)
      BY <3>1, <3>2, TTLAssumption, MaxTimeAssumption
      DEF Expired, CacheInv, TypeOK, NowPassed
    <3> QED
      BY <1>1, <2>2, <3>1, <3>3, NoneAssumption, Zenon
  <2> QED
    BY <2>1, <2>2, Zenon
<1>5. LastOrExpired'
  BY <1>4, Zenon DEF LastOrExpired, Expired
<1> QED
  BY <1>2, <1>5, Zenon DEF CacheInv

\* Every step keeps the invariant.
LEMMA NextCacheInv == CacheInv /\ [Next]_vars => CacheInv'
<1> SUFFICES ASSUME CacheInv, [Next]_vars
             PROVE  CacheInv'
  BY Zenon
<1>1. CASE Tick
  <2>1. TypeOK' /\ NowPassed'
    BY <1>1, MaxTimeAssumption DEF Tick, CacheInv, TypeOK, NowPassed
  <2>2. LastOrExpired'
    BY <1>1, MaxTimeAssumption, TTLAssumption, NoneAssumption
    DEF Tick, CacheInv, TypeOK, LastOrExpired, Expired
  <2> QED
    BY <2>1, <2>2, Zenon DEF CacheInv
<1>2. CASE PutStep
  BY <1>2, PutCacheInv, Zenon
<1>3. ASSUME NEW p \in Process, SnapshotNow(p) \/ SweepNow(p)
      PROVE  CacheInv'
  BY <1>3, MaxTimeAssumption
  DEF SnapshotNow, SweepNow, ReadClock, CacheInv, TypeOK, NowPassed, LastOrExpired,
      Expired
<1>4. ASSUME NEW p \in Process, Snapshot(p)
      PROVE  CacheInv'
  <2>1. \A k \in Live(now[p]) : <<k, m[k].value>> \in Key \X Value
    BY Zenon DEF Live, CacheInv, TypeOK
  <2>2. {<<k, m[k].value>> : k \in Live(now[p])} \in SUBSET (Key \X Value)
    BY <2>1, Zenon
  <2>3. TypeOK' /\ NowPassed'
    BY <1>4, <2>2, ReturnInv, Zenon DEF Snapshot, CacheInv, TypeOK
  <2>4. LastOrExpired'
    BY <1>4, Zenon DEF Snapshot, CacheInv, LastOrExpired, Expired
  <2> QED
    BY <2>3, <2>4, Zenon DEF CacheInv
<1>5. ASSUME NEW p \in Process, Sweep(p)
      PROVE  CacheInv'
  BY <1>5, SweepCacheInv, Zenon
<1>6. CASE UNCHANGED vars
  BY <1>6, Zenon DEF vars, CacheInv, TypeOK, NowPassed, LastOrExpired, Expired
<1> QED
  BY <1>1, <1>2, <1>3, <1>4, <1>5, <1>6, Zenon DEF Next

\* The invariant holds in every reachable state, for every set of keys,
\* values and goroutines and every TTL.
THEOREM CacheInvariant == Spec => []CacheInv
  BY InitCacheInv, NextCacheInv, PTL DEF Spec

\* Type correctness of ttlCache.
THEOREM CacheTypeOK == Spec => []TypeOK
<1>1. CacheInv => TypeOK
  BY Zenon DEF CacheInv
<1> QED
  BY <1>1, CacheInvariant, PTL

\* No put of ttlCache is lost while it is live, whatever sweeps run.
THEOREM CacheNothingLiveLost == Spec => []NothingLiveLost
<1>1. CacheInv => NothingLiveLost
  BY Zenon DEF CacheInv, LastOrExpired, NothingLiveLost
<1> QED
  BY <1>1, CacheInvariant, PTL

\* A snapshot of ttlCache returns exactly the keys live between the clock
\* it read and the lock it took, at their last value.
THEOREM CacheSnapshotInWindow == Spec => SnapshotInWindow
<1> DEFINE live(t) == {<<k, last[k].value>> :
                         k \in {j \in Key : last[j] # None
                                            /\ ~ Expired(last[j], t)}}
<1>1. ASSUME CacheInv, NEW p \in Process, Snapshot(p)
      PROVE  live(clk) \subseteq out'[p] /\ out'[p] \subseteq live(now[p])
  <2>1. out'[p] = {<<k, m[k].value>> : k \in Live(now[p])}
    BY <1>1, Zenon DEF Snapshot, CacheInv, TypeOK
  <2>2. ASSUME NEW k \in Key, last[k] # None, ~ Expired(last[k], clk)
        PROVE  k \in Live(now[p]) /\ m[k] = last[k]
    <3>1. m[k] = last[k]
      BY <1>1, <2>2, Zenon DEF CacheInv, LastOrExpired
    <3>2. ~ Expired(m[k], now[p])
      BY <1>1, <2>2, <3>1, TTLAssumption, MaxTimeAssumption
      DEF Expired, CacheInv, TypeOK, NowPassed
    <3> QED
      BY <2>2, <3>1, <3>2, Zenon DEF Live
  <2>3. ASSUME NEW k \in Live(now[p])
        PROVE  k \in Key /\ m[k] = last[k] /\ last[k] # None
               /\ ~ Expired(last[k], now[p])
    BY <1>1, Zenon DEF Live, CacheInv, LastOrExpired
  <2>4. live(clk) \subseteq out'[p]
    BY <2>1, <2>2, Zenon
  <2>5. out'[p] \subseteq live(now[p])
    BY <2>1, <2>3, Zenon
  <2> QED
    BY <2>4, <2>5, Zenon
<1>2. CacheInv /\ [Next]_vars =>
        [\A p \in Process : Snapshot(p) =>
           live(clk) \subseteq out'[p] /\ out'[p] \subseteq live(now[p])]_vars
  BY <1>1, Zenon
<1> QED
  BY <1>2, CacheInvariant, PTL DEF Spec, SnapshotInWindow

-----------------------------------------------------------------------------
(* The rounds.                                                             *)

\* A round is under way.
Open(r) == stage[r] # "idle"

\* Types.
RoundTypes ==
  /\ world \in Series /\ due \in Nat
  /\ stage \in [Round -> {"idle", "read", "put"}]
  /\ began \in [Round -> Nat]
  /\ saw \in [Round -> Series \cup {None}]
  /\ said \in [Series -> Int]
  /\ \A r \in Round : stage[r] = "put" => saw[r] \in Series

\* What the brokers say now they say now, and nothing is yet to be said.
SaidSoFar == said[world] = clk /\ \A s \in Series : said[s] <= clk

\* A round takes no longer than MaxCycle, and what it has read was said after
\* it was fired.
InTime ==
  \A r \in Round : Open(r) =>
    /\ began[r] <= clk /\ clk <= began[r] + MaxCycle
    /\ stage[r] = "put" => began[r] <= said[saw[r]]

\* The last put of key k was said, no longer than a round before it was put.
Recent(k) ==
  last[k] # None =>
    LET s == <<k, last[k].value>>
    IN  s \in Series /\ 0 <= said[s] /\ last[k].writtenAt <= said[s] + MaxCycle

\* The inductive invariant of the rounds.
RoundInv ==
  /\ CacheInv /\ RoundTypes
  /\ SaidSoFar /\ InTime /\ \A k \in Key : Recent(k)

\* The clock, a scrape and a sweep, as steps of the cache.
LEMMA RoundsUseCache ==
  ASSUME RoundTypes, [RNext]_allVars
  PROVE  [Next]_vars
<1>1. CASE RTick
  BY <1>1, Zenon DEF RTick, Next
<1>2. CASE Change
  BY <1>2, Zenon DEF Change
<1>3. CASE Scrape
  BY <1>3, Zenon DEF Scrape, Next
<1>4. ASSUME NEW r \in Round, Fire(r) \/ Read(r) \/ ReadError(r)
      PROVE  UNCHANGED vars
  BY <1>4, Zenon DEF Fire, Read, ReadError
<1>5. ASSUME NEW r \in Round, Store(r)
      PROVE  Next
  <2>1. saw[r] \in Key \X Value
    BY <1>5, SeriesAssumption, Zenon DEF Store, RoundTypes
  <2>2. saw[r][1] \in Key /\ saw[r][2] \in Value
    BY <2>1, Zenon
  <2>3. PutStep
    BY <1>5, <2>2, Zenon DEF Store, PutStep
  <2> QED
    BY <2>3, Zenon DEF Next
<1>6. CASE UNCHANGED allVars
  BY <1>6, Zenon DEF allVars
<1> QED
  BY <1>1, <1>2, <1>3, <1>4, <1>5, <1>6, Zenon DEF RNext

\* The types of the rounds are kept.
LEMMA RoundTypesKept ==
  ASSUME CacheInv, RoundTypes, [RNext]_allVars
  PROVE  RoundTypes'
<1>0. clk \in Nat /\ Period \in Nat
  BY MaxTimeAssumption, PeriodAssumption DEF CacheInv, TypeOK
<1>1. CASE RTick
  <2>1. clk + 1 \in Int
    BY <1>0
  <2> QED
    BY <1>1, <2>1, Zenon DEF RTick, RoundTypes
<1>2. CASE Change
  <2>1. clk \in Int
    BY <1>0
  <2> QED
    BY <1>2, <2>1, Zenon DEF Change, RoundTypes
<1>3. CASE Scrape \/ UNCHANGED allVars
  BY <1>3, Zenon DEF Scrape, allVars, roundVars, RoundTypes
<1>4. ASSUME NEW r \in Round, Fire(r)
      PROVE  RoundTypes'
  BY <1>0, <1>4 DEF Fire, RoundTypes
<1>5. ASSUME NEW r \in Round, Read(r)
      PROVE  RoundTypes'
  BY <1>5 DEF Read, RoundTypes
<1>6. ASSUME NEW r \in Round, ReadError(r) \/ Store(r)
      PROVE  RoundTypes'
  <2>1. Finish(r) /\ UNCHANGED <<world, due, said>>
    BY <1>6, Zenon DEF ReadError, Store
  <2> QED
    BY <2>1, Zenon DEF Finish, RoundTypes
<1> QED
  BY <1>1, <1>2, <1>3, <1>4, <1>5, <1>6, Zenon DEF RNext

\* The rounds begin in the invariant.
LEMMA RoundInitInv == RInit => RoundInv
<1> SUFFICES ASSUME RInit PROVE RoundInv
  BY Zenon
<1>1. CacheInv
  BY InitCacheInv, Zenon DEF RInit
<1>2. /\ said \in [Series -> Int] /\ said[world] = 0 /\ clk = 0 /\ world \in Series
      /\ \A s \in Series : said[s] <= 0
  BY DEF RInit, Init, Never
<1>3. RoundTypes
  BY <1>2 DEF RInit, RoundTypes
<1>4. SaidSoFar
  BY <1>2, Zenon DEF SaidSoFar
<1>5. InTime /\ \A k \in Key : Recent(k)
  BY Zenon DEF RInit, Init, InTime, Recent, Open
<1> QED
  BY <1>1, <1>3, <1>4, <1>5, Zenon DEF RoundInv

\* What was said is kept when it is said again.
LEMMA SaidLater ==
  ASSUME RoundInv, RoundTypes', UNCHANGED <<stage, began, saw, last>>,
         clk' \in Nat, clk <= clk', SaidSoFar',
         \A s \in Series : said'[s] = said[s] \/ said'[s] = clk',
         \A r \in Round : Open(r) => clk' <= began[r] + MaxCycle
  PROVE  InTime' /\ \A k \in Key : Recent(k)'
<1>1. \A s \in Series : said[s] \in Int /\ said'[s] \in Int /\ said[s] <= said'[s]
  <2>1. clk \in Nat /\ \A s \in Series : said[s] \in Int /\ said[s] <= clk
    BY MaxTimeAssumption DEF RoundInv, CacheInv, TypeOK, RoundTypes, SaidSoFar
  <2> QED
    BY <2>1
<1>2. clk \in Nat /\ \A r \in Round : began[r] \in Nat
  BY MaxTimeAssumption DEF RoundInv, CacheInv, TypeOK, RoundTypes
<1>3. ASSUME NEW r \in Round, Open(r)
      PROVE  /\ began[r] <= clk' /\ clk' <= began[r] + MaxCycle
             /\ stage[r] = "put" => began[r] <= said'[saw[r]]
  <2>1. began[r] <= clk /\ (stage[r] = "put" => began[r] <= said[saw[r]])
    BY <1>3, Zenon DEF RoundInv, InTime
  <2>2. stage[r] = "put" => saw[r] \in Series
    BY Zenon DEF RoundInv, RoundTypes
  <2>3. began[r] <= clk'
    BY <1>2, <2>1
  <2>4. ASSUME stage[r] = "put" PROVE began[r] <= said'[saw[r]]
    <3> DEFINE x == said[saw[r]]
               y == said'[saw[r]]
    <3>1. x \in Int /\ y \in Int /\ x <= y /\ began[r] <= x /\ began[r] \in Nat
      BY <1>1, <1>2, <2>1, <2>2, <2>4, Zenon
    <3> HIDE DEF x, y
    <3>2. began[r] <= y
      BY <3>1
    <3> QED
      BY <3>2, Zenon DEF y
  <2> QED
    BY <1>3, <2>3, <2>4, Zenon
<1>4. InTime'
  BY <1>3, Zenon DEF InTime, Open
<1>5. ASSUME NEW k \in Key PROVE Recent(k)'
  <2> SUFFICES ASSUME last[k] # None
               PROVE  LET s == <<k, last[k].value>>
                      IN  /\ s \in Series /\ 0 <= said'[s]
                          /\ last[k].writtenAt <= said'[s] + MaxCycle
    BY Zenon DEF Recent
  <2> DEFINE s == <<k, last[k].value>>
             w == last[k].writtenAt
  <2>1. s \in Series /\ 0 <= said[s] /\ w <= said[s] + MaxCycle
    BY Zenon DEF RoundInv, Recent
  <2>2. w \in Nat
    BY MaxTimeAssumption DEF RoundInv, CacheInv, TypeOK
  <2> HIDE DEF s, w
  <2>3. 0 <= said'[s] /\ w <= said'[s] + MaxCycle
    BY <1>1, <2>1, <2>2, MaxCycleAssumption
  <2> QED
    BY <2>1, <2>3, Zenon DEF s, w
<1> QED
  BY <1>4, <1>5, Zenon

\* The clock, the brokers and the readers of the cache keep it.
LEMMA AroundRounds ==
  ASSUME RoundInv, RoundTypes', RTick \/ Change \/ Scrape
  PROVE  SaidSoFar' /\ InTime' /\ \A k \in Key : Recent(k)'
<1>1. /\ clk \in Nat /\ world \in Series /\ said \in [Series -> Int]
      /\ \A r \in Round : began[r] \in Nat
  BY MaxTimeAssumption DEF RoundInv, CacheInv, TypeOK, RoundTypes
<1>2. SaidSoFar /\ \A r \in Round : Open(r) => clk <= began[r] + MaxCycle
  BY Zenon DEF RoundInv, InTime
<1>3. UNCHANGED <<stage, began, saw, last>>
  BY Zenon DEF RTick, Tick, Change, Scrape, vars, roundVars, SnapshotNow, Snapshot,
         SweepNow, Sweep, ReadClock
<1>4. CASE RTick
  <2>1. /\ clk' = clk + 1 /\ world' = world
        /\ said' = [said EXCEPT ![world] = clk + 1]
        /\ \A r \in Round : Open(r) => clk - began[r] < MaxCycle
    BY <1>4, Zenon DEF RTick, Tick, Open
  <2>2. SaidSoFar'
    BY <1>1, <1>2, <2>1 DEF SaidSoFar
  <2>3. /\ clk' \in Nat /\ clk <= clk'
        /\ \A r \in Round : Open(r) => clk' <= began[r] + MaxCycle
    BY <1>1, <2>1, MaxCycleAssumption
  <2>4. \A s \in Series : said'[s] = said[s] \/ said'[s] = clk'
    BY <1>1, <2>1, Zenon
  <2> QED
    BY <1>3, <2>2, <2>3, <2>4, SaidLater, Zenon
<1>5. CASE Change
  <2>1. clk' = clk /\ world' \in Series /\ said' = [said EXCEPT ![world'] = clk]
    BY <1>5, Zenon DEF Change, vars
  <2>2. clk <= clk'
    BY <1>1, <2>1
  <2>3. \A s \in Series : said'[s] = said[s] \/ said'[s] = clk'
    BY <1>1, <2>1, Zenon
  <2>4. SaidSoFar'
    BY <1>1, <1>2, <2>1 DEF SaidSoFar
  <2> QED
    BY <1>1, <1>2, <1>3, <2>1, <2>2, <2>3, <2>4, SaidLater, Zenon
<1>6. CASE Scrape
  <2>1. clk' = clk /\ world' = world /\ said' = said
    BY <1>6, Zenon DEF Scrape, roundVars, SnapshotNow, Snapshot, SweepNow, Sweep, ReadClock
  <2>2. clk <= clk'
    BY <1>1, <2>1
  <2>3. SaidSoFar'
    BY <1>2, <2>1, Zenon DEF SaidSoFar
  <2> QED
    BY <1>1, <1>2, <1>3, <2>1, <2>2, <2>3, SaidLater, Zenon
<1> QED
  BY <1>4, <1>5, <1>6, Zenon

\* A round that is fired, reads, or gives up keeps it: nothing is put.
LEMMA UnputInv ==
  ASSUME RoundInv, RoundTypes', NEW r \in Round, Fire(r) \/ Read(r) \/ ReadError(r)
  PROVE  SaidSoFar' /\ InTime' /\ \A k \in Key : Recent(k)'
<1>1. UNCHANGED <<clk, world, said, last>>
  BY Zenon DEF Fire, Read, ReadError, vars
<1>2. SaidSoFar' /\ \A k \in Key : Recent(k)'
  BY <1>1, Zenon DEF RoundInv, SaidSoFar, Recent
<1>3. /\ clk \in Nat /\ MaxCycle \in Nat /\ world \in Series /\ said[world] = clk
      /\ stage \in [Round -> {"idle", "read", "put"}]
      /\ began \in [Round -> Nat] /\ saw \in [Round -> Series \cup {None}]
  BY MaxTimeAssumption, MaxCycleAssumption
  DEF RoundInv, CacheInv, TypeOK, RoundTypes, SaidSoFar
<1>4. \A s \in Round : s # r =>
        stage'[s] = stage[s] /\ began'[s] = began[s] /\ saw'[s] = saw[s]
  BY <1>3, Zenon DEF Fire, Read, ReadError, Finish
<1>5. stage'[r] # "idle" =>
        /\ began'[r] <= clk /\ clk <= began'[r] + MaxCycle
        /\ stage'[r] = "put" => began'[r] <= said[saw'[r]]
  <2>1. CASE Fire(r)
    <3>1. stage'[r] = "read" /\ began'[r] = clk
      BY <1>3, <2>1, Zenon DEF Fire
    <3> QED
      BY <1>3, <3>1
  <2>2. CASE Read(r)
    <3>1. stage[r] = "read" /\ began' = began /\ saw'[r] = world
      BY <1>3, <2>2, Zenon DEF Read
    <3>2. began[r] <= clk /\ clk <= began[r] + MaxCycle
      BY <3>1, Zenon DEF RoundInv, InTime, Open
    <3> QED
      BY <1>3, <3>1, <3>2, Zenon
  <2>3. CASE ReadError(r)
    BY <1>3, <2>3, Zenon DEF ReadError, Finish
  <2> QED
    BY <2>1, <2>2, <2>3, Zenon
<1>6. InTime'
  BY <1>1, <1>4, <1>5, Zenon DEF RoundInv, InTime, Open
<1> QED
  BY <1>2, <1>6, Zenon

\* A round that puts what it read keeps it: it was said since the round was
\* fired.
LEMMA StoreInv ==
  ASSUME RoundInv, RoundTypes', NEW r \in Round, Store(r)
  PROVE  SaidSoFar' /\ InTime' /\ \A k \in Key : Recent(k)'
<1> DEFINE k == saw[r][1]
           v == saw[r][2]
           e == [value |-> v, writtenAt |-> clk]
<1>1. /\ stage[r] = "put" /\ Finish(r) /\ last' = [last EXCEPT ![k] = e]
      /\ UNCHANGED <<clk, world, said>>
  BY Zenon DEF Store, Put
<1>2. saw[r] \in Series /\ saw[r] \in Key \X Value
  BY <1>1, SeriesAssumption, Zenon DEF RoundInv, RoundTypes
<1>3. k \in Key /\ v \in Value /\ saw[r] = <<k, v>>
  BY <1>2
<1>4. SaidSoFar'
  BY <1>1, Zenon DEF RoundInv, SaidSoFar
<1>5. InTime'
  <2>1. \A s \in Round : stage'[s] # "idle" =>
          stage'[s] = stage[s] /\ began'[s] = began[s] /\ saw'[s] = saw[s]
    BY <1>1, Zenon DEF Finish, RoundInv, RoundTypes
  <2> QED
    BY <1>1, <2>1, Zenon DEF RoundInv, InTime, Open
<1>6. 0 <= said[saw[r]] /\ clk <= said[saw[r]] + MaxCycle
  <2>1. clk <= began[r] + MaxCycle /\ began[r] <= said[saw[r]]
    BY <1>1, Zenon DEF RoundInv, InTime, Open
  <2>2. began[r] \in Nat /\ clk \in Nat /\ said[saw[r]] \in Int
    BY <1>2, MaxTimeAssumption DEF RoundInv, CacheInv, TypeOK, RoundTypes
  <2> QED
    BY <2>1, <2>2, MaxCycleAssumption
<1>7. e.value = v /\ e.writtenAt = clk
  BY Zenon
<1> HIDE DEF e, k, v
<1>8. last'[k] = e /\ \A j \in Key : j # k => last'[j] = last[j]
  BY <1>1, <1>3, Zenon DEF RoundInv, CacheInv, TypeOK
<1>9. ASSUME NEW j \in Key PROVE Recent(j)'
  <2>1. CASE j = k
    BY <1>1, <1>2, <1>3, <1>6, <1>7, <1>8, <2>1, Zenon DEF Recent
  <2>2. CASE j # k
    BY <1>1, <1>8, <2>2, Zenon DEF RoundInv, Recent
  <2> QED
    BY <2>1, <2>2, Zenon
<1> QED
  BY <1>4, <1>5, <1>9, Zenon

\* Every step of the rounds, the clock, the scrapes and the sweeps keeps it.
LEMMA RoundNextInv == RoundInv /\ [RNext]_allVars => RoundInv'
<1> SUFFICES ASSUME RoundInv, [RNext]_allVars
             PROVE  RoundInv'
  BY Zenon
<1>1. CacheInv' /\ RoundTypes'
  BY RoundsUseCache, NextCacheInv, RoundTypesKept, Zenon DEF RoundInv
<1>2. CASE RTick \/ Change \/ Scrape
  BY <1>1, <1>2, AroundRounds, Zenon DEF RoundInv
<1>3. ASSUME NEW r \in Round, Fire(r) \/ Read(r) \/ ReadError(r) \/ Store(r)
      PROVE  RoundInv'
  BY <1>1, <1>3, UnputInv, StoreInv, Zenon DEF RoundInv
<1>4. CASE UNCHANGED allVars
  <2>1. UNCHANGED <<clk, last, world, stage, began, saw, said>>
    BY <1>4, Zenon DEF allVars, vars, roundVars
  <2> QED
    BY <1>1, <2>1, Zenon DEF RoundInv, SaidSoFar, InTime, Recent, Open
<1> QED
  BY <1>2, <1>3, <1>4, Zenon DEF RNext

\* What is live was put no longer than a TTL ago.
LEMMA LiveIsFresh == RoundInv => FreshSamples
<1> SUFFICES ASSUME RoundInv, NEW k \in Live(clk)
             PROVE  LET s == Sample(k)
                    IN  said[s] # Never /\ clk - said[s] <= TTL + MaxCycle
  BY Zenon DEF FreshSamples, Gather
<1> DEFINE s == Sample(k)
           w == last[k].writtenAt
<1>1. k \in Key /\ m[k] # None /\ m[k] = last[k] /\ ~ Expired(last[k], clk)
  BY Zenon DEF Live, RoundInv, CacheInv, LastOrExpired
<1>2. s \in Series /\ 0 <= said[s] /\ w <= said[s] + MaxCycle
  BY <1>1, Zenon DEF RoundInv, Recent, Sample
<1>3. clk \in Nat /\ w \in Nat /\ said[s] \in Int
  BY <1>1, <1>2, MaxTimeAssumption DEF RoundInv, CacheInv, TypeOK, RoundTypes
<1>4. ~ (clk - w > TTL)
  BY <1>1, Zenon DEF Expired
<1> HIDE DEF s, w
<1>5. said[s] # Never /\ clk - said[s] <= TTL + MaxCycle
  BY <1>2, <1>3, <1>4, TTLAssumption, MaxCycleAssumption DEF Never
<1> QED
  BY <1>5, Zenon DEF s

\* Every sample of a family is what the brokers said within the TTL and the
\* length of a round, for every TTL, period and number of rounds that overlap.
THEOREM RoundsFreshSamples == RSpec => []FreshSamples
  BY RoundInitInv, RoundNextInv, LiveIsFresh, PTL DEF RSpec

\* The rounds, the scrapes and the sweeps use the store only through put,
\* snapshot and sweep: whatever holds of the cache holds of the family.
THEOREM RoundsImplementCache == RSpec => Spec
<1> DEFINE Inv == CacheInv /\ RoundTypes
<1>1. RInit => Inv /\ Init
  BY RoundInitInv, Zenon DEF RInit, RoundInv
<1>2. Inv /\ [RNext]_allVars => Inv' /\ [Next]_vars
  BY RoundsUseCache, RoundTypesKept, NextCacheInv, Zenon
<1> QED
  BY <1>1, <1>2, PTL DEF RSpec, Spec

-----------------------------------------------------------------------------
(* The jobs that go over the brokers.                                      *)

\* The round has the addresses and goes over the brokers.
Asking == round.at \in {"route", "broker", "group"}

\* A round.
RoundRecord ==
  [job : Jobs, no : Nat,
   at : {"info", "route", "broker", "group", "end", "panic"},
   left : SUBSET BrokerName, cur : SUBSET BrokerName,
   ci : Tables \cup {<<>>}, route : Tables \cup {<<>>},
   got : Seq(SUBSET Nat), lag : Int]

\* Types.  A round that goes over the brokers has read both tables.
BrokerTypes ==
  /\ cluster \in [addrs : Tables, log : [Addr -> Nat], moves : Nat]
  /\ round \in RoundRecord
  /\ moved \in SUBSET BrokerName
  /\ Asking => round.ci \in Tables /\ round.route \in Tables

\* A round knows the master of a broker that has had one master only.
SameMaster ==
  Asking =>
    \A b \in BrokerName \ moved :
      /\ round.ci[b][0] = cluster.addrs[b][0]
      /\ round.route[b][0] = cluster.addrs[b][0]

\* The put rates of such a broker are stored under the address of its master.
KeyedByMaster ==
  \A x \in DOMAIN store :
    /\ x = <<x[1], x[2]>>
    /\ x[1] = "topicPutNums" =>
         /\ store[x].name \in BrokerName
         /\ store[x].name \notin moved => x[2] = cluster.addrs[store[x].name][0]

\* What has been fetched of the broker the round is in the middle of.
Fetched ==
  Asking /\ round.job = "groupStats" =>
    /\ round.route = round.ci
    /\ round.cur = {} => round.got = <<>>
    /\ \A b \in round.cur :
         /\ Len(round.got) \in 1 .. 2
         /\ \A s \in round.got[1] :
              /\ round.got[1] = {s}
              /\ round.ci[b][0] # NoAddr =>
                   round.lag <= cluster.log[round.ci[b][0]] - s
         /\ Len(round.got) = 2 =>
              \A w \in round.got[2] :
                round.got[2] = {w} /\ \A s \in round.got[1] : round.lag <= w - s

\* A round has fetched nothing before it has read the addresses, and only one
\* job asks for the route.
Fresh ==
  /\ round.at = "info" => round.cur = {} /\ round.got = <<>>
  /\ round.at = "route" => round.job = "topicStats"

\* The inductive invariant of the broker jobs.
BrokerInv ==
  /\ BrokerTypes /\ Fresh /\ SameMaster /\ KeyedByMaster /\ Fetched
  /\ DiffCoversLag

USE DEF RoundRecord

\* What a put adds to the store.
LEMMA PutAllStores ==
  ASSUME NEW S, NEW v, PutAll(S, v)
  PROVE  /\ DOMAIN store' = S \cup DOMAIN store
         /\ \A x \in S : store'[x] = v
         /\ \A x \in DOMAIN store \ S : store'[x] = store[x]
  BY Zenon DEF PutAll

\* The addresses of a broker in a table: the slave's is not the master's.
LEMMA TableType ==
  ASSUME NEW t \in Tables, NEW b \in BrokerName
  PROVE  /\ t[b][0] \in Addr \cup {NoAddr} /\ t[b][1] \in Addr \cup {NoAddr}
         /\ t[b][1] # NoAddr => t[b][0] # t[b][1]
  BY DEF Tables

\* The broker jobs begin in the invariant.
LEMMA BrokerInitInv ==
  ASSUME NEW T \in SUBSET Tables, NEW J \in SUBSET Jobs, BrokerInit(T, J)
  PROVE  BrokerInv
<1>1. PICK t \in T : cluster = [addrs |-> t, log |-> [a \in Addr |-> 0], moves |-> 0]
  BY Zenon DEF BrokerInit
<1>2. PICK j \in J : round = Firing(j, 1)
  BY Zenon DEF BrokerInit
<1>3. BrokerTypes
  BY <1>1, <1>2 DEF BrokerInit, BrokerTypes, Firing, Asking
<1>4. ~ Asking /\ Fresh
  BY <1>2, Zenon DEF Firing, Asking, Fresh
<1>5. KeyedByMaster /\ DiffCoversLag
  BY DEF BrokerInit, KeyedByMaster, DiffCoversLag
<1> QED
  BY <1>3, <1>4, <1>5, Zenon DEF BrokerInv, SameMaster, Fetched

\* A step that leaves the store and the brokers alone.
LEMMA FrameKept ==
  ASSUME BrokerInv, UNCHANGED <<cluster, store, moved>>
  PROVE  KeyedByMaster' /\ DiffCoversLag'
  BY Zenon DEF BrokerInv, KeyedByMaster, DiffCoversLag

\* Brokers that register with other addresses keep it: what was stored under a
\* master that is no longer the master is of a broker that has moved.
LEMMA MoveInv ==
  ASSUME BrokerInv, NEW t \in Tables, Move(t)
  PROVE  BrokerInv'
<1>1. /\ cluster' = [cluster EXCEPT !.addrs = t, !.moves = @ + 1]
      /\ moved' = moved \cup {b \in BrokerName : t[b][0] # cluster.addrs[b][0]}
      /\ round' = round /\ store' = store
  BY Zenon DEF Move
<1>2. /\ cluster'.addrs = t /\ cluster'.log = cluster.log
      /\ cluster' \in [addrs : Tables, log : [Addr -> Nat], moves : Nat]
  <2>1. cluster \in [addrs : Tables, log : [Addr -> Nat], moves : Nat]
    BY Zenon DEF BrokerInv, BrokerTypes
  <2>2. cluster' = [addrs |-> t, log |-> cluster.log, moves |-> cluster.moves + 1]
    BY <1>1, <2>1, Zenon
  <2> QED
    BY <2>1, <2>2
<1>3. BrokerTypes'
  BY <1>1, <1>2, Zenon DEF BrokerInv, BrokerTypes, Asking
<1>4. \A b \in BrokerName \ moved' : b \notin moved /\ t[b][0] = cluster.addrs[b][0]
  BY <1>1, Zenon
<1>5. SameMaster'
  BY <1>1, <1>2, <1>4, Zenon DEF BrokerInv, SameMaster, Asking
<1>6. KeyedByMaster'
  BY <1>1, <1>2, <1>4, Zenon DEF BrokerInv, KeyedByMaster
<1>7. Fetched' /\ DiffCoversLag' /\ Fresh'
  BY <1>1, <1>2, Zenon DEF Fresh, BrokerInv, Fetched, Asking, DiffCoversLag
<1> QED
  BY <1>3, <1>5, <1>6, <1>7, Zenon DEF BrokerInv

\* A write at a broker keeps it: a lag that was read before is no larger than
\* the one of a later reading of the master.
LEMMA WriteInv ==
  ASSUME BrokerInv, NEW a \in Addr, Write(a)
  PROVE  BrokerInv'
<1>1. /\ cluster' = [cluster EXCEPT !.log[a] = @ + 1]
      /\ round' = round /\ store' = store /\ moved' = moved
  BY Zenon DEF Write
<1>2. /\ cluster'.addrs = cluster.addrs
      /\ \A c \in Addr : cluster'.log[c] >= cluster.log[c] /\ cluster.log[c] \in Nat
                         /\ cluster'.log[c] \in Nat
      /\ cluster' \in [addrs : Tables, log : [Addr -> Nat], moves : Nat]
  <2>1. cluster \in [addrs : Tables, log : [Addr -> Nat], moves : Nat]
    BY Zenon DEF BrokerInv, BrokerTypes
  <2> QED
    BY <1>1, <2>1
<1>3. BrokerTypes'
  BY <1>1, <1>2, Zenon DEF BrokerInv, BrokerTypes, Asking
<1>4. SameMaster' /\ KeyedByMaster' /\ DiffCoversLag' /\ Fresh'
  BY <1>1, <1>2, Zenon DEF Fresh, BrokerInv, SameMaster, Asking, KeyedByMaster, DiffCoversLag
<1>5. Fetched'
  <2> SUFFICES ASSUME Asking, round.job = "groupStats",
                      NEW b \in round.cur, NEW s \in round.got[1],
                      round.ci[b][0] # NoAddr
               PROVE  round.lag <= cluster'.log[round.ci[b][0]] - s
    BY <1>1, Zenon DEF BrokerInv, Fetched, Asking
  <2>1. b \in BrokerName /\ round.ci \in Tables /\ round.lag \in Int
    BY Zenon DEF BrokerInv, BrokerTypes
  <2>2. round.ci[b][0] \in Addr
    BY <2>1, TableType, Zenon
  <2>3. Len(round.got) \in 1 .. 2 /\ round.lag <= cluster.log[round.ci[b][0]] - s
    BY Zenon DEF BrokerInv, Fetched
  <2>4. round.got[1] \in SUBSET Nat
    BY <2>3 DEF BrokerInv, BrokerTypes
  <2> QED
    BY <1>2, <2>1, <2>2, <2>3, <2>4
<1> QED
  BY <1>3, <1>4, <1>5, Zenon DEF BrokerInv

\* The steps of the frame of a round: they read the addresses, or end it.
LEMMA FrameInv ==
  ASSUME BrokerInv,
         InfoError \/ Info \/ Route \/ RouteError \/ FireAgain
           \/ QueryTopicConsumeByWho
  PROVE  BrokerInv'
<1>1. UNCHANGED <<cluster, store, moved>>
  BY Zenon DEF InfoError, Info, Route, RouteError, FireAgain, QueryTopicConsumeByWho
<1>2. KeyedByMaster' /\ DiffCoversLag'
  BY <1>1, FrameKept, Zenon
<1>3. ASSUME round' = [round EXCEPT !.at = "end"]
      PROVE  BrokerTypes' /\ ~ Asking' /\ Fresh'
  BY <1>1, <1>3, Zenon DEF BrokerInv, BrokerTypes, Asking, Fresh
<1>4. CASE InfoError \/ RouteError
  BY <1>1, <1>2, <1>3, <1>4, Zenon
  DEF InfoError, RouteError, BrokerInv, SameMaster, Fetched
<1>5. CASE Info
  <2>1. Registered(cluster.addrs) \in SUBSET BrokerName
    BY Zenon DEF Registered
  <2>2. BrokerTypes'
    BY <1>1, <1>5, <2>1, Zenon DEF Info, BrokerInv, BrokerTypes, Asking
  <2>3. round'.ci = cluster.addrs /\ round'.route = cluster.addrs
    BY <1>5, Zenon DEF Info, BrokerInv, BrokerTypes
  <2>4. round'.cur = round.cur /\ round'.got = round.got
    BY <1>5, Zenon DEF Info, BrokerInv, BrokerTypes
  <2>5. round.cur = {} /\ round.got = <<>>
    BY <1>5, Zenon DEF Info, BrokerInv, Fresh
  <2>6. round'.at # "info" /\ (round'.at = "route" => round'.job = "topicStats")
    BY <1>5, Zenon DEF Info, BrokerInv, BrokerTypes
  <2>7. SameMaster' /\ Fetched' /\ Fresh'
    BY <1>1, <2>3, <2>4, <2>5, <2>6, Zenon DEF SameMaster, Fetched, Fresh
  <2> QED
    BY <1>2, <2>2, <2>7, Zenon DEF BrokerInv
<1>6. CASE Route
  <2>1. Registered(cluster.addrs) \in SUBSET BrokerName
    BY Zenon DEF Registered
  <2>2. round.at = "route"
    BY <1>6, Zenon DEF Route
  <2>3. /\ round'.ci = round.ci /\ round'.route = cluster.addrs
        /\ round'.job = round.job /\ round'.at = "broker"
    BY <1>6, Zenon DEF Route, BrokerInv, BrokerTypes
  <2>4. BrokerTypes'
    BY <1>1, <1>6, <2>1, Zenon DEF Route, BrokerInv, BrokerTypes, Asking
  <2>5. SameMaster' 
    BY <1>1, <2>2, <2>3, Zenon DEF SameMaster, BrokerInv, Asking
  <2>6. Fetched'
    BY <2>2, <2>3, Zenon DEF Fetched, BrokerInv, Fresh
  <2>7. Fresh'
    BY <2>3, Zenon DEF Fresh
  <2> QED
    BY <1>2, <2>4, <2>5, <2>6, <2>7, Zenon DEF BrokerInv
<1>7. CASE FireAgain
  <2>1. round' = Firing(round.job, round.no + 1)
    BY <1>7, Zenon DEF FireAgain
  <2>2. BrokerTypes' /\ ~ Asking'
    BY <1>1, <2>1 DEF Firing, BrokerInv, BrokerTypes, Asking
  <2>3. Fresh'
    BY <2>1, Zenon DEF Firing, Fresh
  <2> QED
    BY <1>2, <2>2, <2>3, Zenon DEF BrokerInv, SameMaster, Fetched
<1>8. CASE QueryTopicConsumeByWho
  <2>1. round.job = "topicStats" /\ round.at = "broker"
    BY <1>8, Zenon DEF QueryTopicConsumeByWho
  <2>2. CASE round' = [round EXCEPT !.at = "end"]
    BY <1>1, <1>2, <1>3, <2>2, Zenon DEF BrokerInv, SameMaster, Fetched
  <2>3. CASE round' = [round EXCEPT !.at = "group", !.left = Registered(round.route)]
    <3>1. Registered(round.route) \in SUBSET BrokerName
      BY Zenon DEF Registered
    <3>2. BrokerTypes'
      BY <1>1, <2>1, <2>3, <3>1, Zenon DEF BrokerInv, BrokerTypes, Asking
    <3>3. /\ round'.ci = round.ci /\ round'.route = round.route
          /\ round'.job = round.job /\ round'.at = "group"
      BY <2>3, Zenon DEF BrokerInv, BrokerTypes
    <3>4. SameMaster' /\ Fetched' /\ Fresh'
      BY <1>1, <2>1, <3>3, Zenon DEF BrokerInv, SameMaster, Fetched, Fresh, Asking
    <3> QED
      BY <1>2, <3>2, <3>4, Zenon DEF BrokerInv
  <2> QED
    BY <1>8, <2>2, <2>3, Zenon DEF QueryTopicConsumeByWho
<1> QED
  BY <1>4, <1>5, <1>6, <1>7, <1>8, Zenon

\* A broker is done with: the round goes on to the next.
LEMMA NextBrokerInv ==
  ASSUME BrokerInv, NEW b \in BrokerName, NEW j, At(b, j),
         round' = NextBroker(b), UNCHANGED <<cluster, moved>>
  PROVE  BrokerTypes' /\ Fresh' /\ SameMaster' /\ Fetched'
<1>1. /\ round'.ci = round.ci /\ round'.route = round.route
      /\ round'.at = round.at /\ round'.job = round.job
      /\ round'.cur = {} /\ round'.got = <<>>
  BY Zenon DEF NextBroker, BrokerInv, BrokerTypes
<1>2. BrokerTypes'
  <2>1. round' = [round EXCEPT !.left = @ \ {b}, !.cur = {}, !.got = <<>>, !.lag = 0]
    BY Zenon DEF NextBroker
  <2>2. round'.lag = 0 /\ round'.left = round.left \ {b} /\ round'.no = round.no
    BY <2>1, Zenon DEF BrokerInv, BrokerTypes
  <2>3. <<>> \in Seq(SUBSET Nat)
    OBVIOUS
  <2>4. round \in RoundRecord
    BY Zenon DEF BrokerInv, BrokerTypes
  <2>5. round' \in RoundRecord
    <3>1. round' = [job |-> round.job, no |-> round.no, at |-> round.at,
                    left |-> round.left \ {b}, cur |-> {}, ci |-> round.ci,
                    route |-> round.route, got |-> <<>>, lag |-> 0]
      BY <2>1, <2>4, Zenon
    <3>2. /\ round.job \in Jobs /\ round.no \in Nat /\ round.left \ {b} \in SUBSET BrokerName
          /\ round.at \in {"info", "route", "broker", "group", "end", "panic"}
          /\ round.ci \in Tables \cup {<<>>} /\ round.route \in Tables \cup {<<>>}
      BY <2>4, Zenon
    <3> QED
      BY <2>3, <3>1, <3>2
  <2> QED
    BY <1>1, <2>5, Zenon DEF BrokerInv, BrokerTypes, Asking
<1>3. round.at \in {"broker", "group"}
  BY Zenon DEF At
<1>4. Fresh' /\ SameMaster' /\ Fetched'
  BY <1>1, <1>3, Zenon DEF BrokerInv, Fresh, SameMaster, Fetched, Asking
<1> QED
  BY <1>2, <1>4, Zenon

\* A panic ends the process.
LEMMA PanicInv ==
  ASSUME BrokerInv, round' = [round EXCEPT !.at = "panic"], UNCHANGED <<cluster, moved>>
  PROVE  BrokerTypes' /\ Fresh' /\ SameMaster' /\ Fetched'
<1>1. BrokerTypes' /\ round'.at = "panic"
  BY Zenon DEF BrokerInv, BrokerTypes, Asking
<1> QED
  BY <1>1, Zenon DEF Fresh, SameMaster, Fetched, Asking

\* Samples of broker b are put under one key.
LEMMA PutInv ==
  ASSUME BrokerInv, NEW b \in BrokerName, NEW F, NEW k,
         PutAll(F \X {k}, [name |-> b]), UNCHANGED <<cluster, moved>>,
         "brokerCommitLogDiff" \notin F,
         "topicPutNums" \in F /\ b \notin moved => k = cluster.addrs[b][0]
  PROVE  KeyedByMaster' /\ DiffCoversLag'
<1> DEFINE S == F \X {k}
           v == [name |-> b]
<1>1. /\ DOMAIN store' = S \cup DOMAIN store
      /\ \A x \in S : store'[x] = v
      /\ \A x \in DOMAIN store \ S : store'[x] = store[x]
  BY PutAllStores
<1>2. \A x \in S : x = <<x[1], x[2]>> /\ x[1] \in F /\ x[2] = k
  OBVIOUS
<1>3. v.name = b
  BY Zenon
<1> HIDE DEF S, v
<1>4. KeyedByMaster'
  <2> SUFFICES ASSUME NEW x \in DOMAIN store'
               PROVE  /\ x = <<x[1], x[2]>>
                      /\ x[1] = "topicPutNums" =>
                           /\ store'[x].name \in BrokerName
                           /\ store'[x].name \notin moved =>
                                x[2] = cluster.addrs[store'[x].name][0]
    BY Zenon DEF KeyedByMaster
  <2>1. CASE x \in S
    BY <1>1, <1>2, <1>3, <2>1, Zenon
  <2>2. CASE x \notin S
    BY <1>1, <2>2, Zenon DEF BrokerInv, KeyedByMaster
  <2> QED
    BY <2>1, <2>2, Zenon
<1>5. DiffCoversLag'
  BY <1>1, <1>2, Zenon DEF BrokerInv, DiffCoversLag
<1> QED
  BY <1>4, <1>5, Zenon

\* CollectProducer keeps it.
LEMMA CollectProducerInv ==
  ASSUME BrokerInv, NEW b \in BrokerName, CollectProducer(b)
  PROVE  BrokerInv'
<1>1. BrokerTypes' /\ Fresh' /\ SameMaster' /\ Fetched'
  BY NextBrokerInv, Zenon DEF CollectProducer
<1>2. PICK F \in SUBSET {"producerCounts"} : PutAll(F \X {b}, [name |-> b])
  BY Zenon DEF CollectProducer
<1>3. KeyedByMaster' /\ DiffCoversLag'
  BY <1>2, PutInv, Zenon DEF CollectProducer
<1> QED
  BY <1>1, <1>3, Zenon DEF BrokerInv

\* CollectBrokerStats keeps it.
LEMMA CollectBrokerStatsInv ==
  ASSUME BrokerInv, NEW b \in BrokerName, CollectBrokerStats(b)
  PROVE  BrokerInv'
<1>1. BrokerTypes' /\ Fresh' /\ SameMaster' /\ Fetched'
  BY NextBrokerInv, Zenon DEF CollectBrokerStats
<1>2. PICK F \in SUBSET {"brokerPutNums", "brokerGetNums"} :
        PutAll(F \X {master(b)}, [name |-> b])
  BY Zenon DEF CollectBrokerStats
<1>3. KeyedByMaster' /\ DiffCoversLag'
  BY <1>2, PutInv, Zenon DEF CollectBrokerStats
<1> QED
  BY <1>1, <1>3, Zenon DEF BrokerInv

\* The put rates of a topic are stored under the master's address.
LEMMA CollectBrokerStatsTopicInv ==
  ASSUME BrokerInv, NEW b \in BrokerName, CollectBrokerStatsTopic(b)
  PROVE  BrokerInv'
<1>1. BrokerTypes' /\ Fresh' /\ SameMaster' /\ Fetched'
  BY NextBrokerInv, Zenon DEF CollectBrokerStatsTopic
<1>2. Asking
  BY Zenon DEF CollectBrokerStatsTopic, At, Asking
<1>3. b \notin moved => brokerIP(b) = cluster.addrs[b][0]
  BY <1>2, Zenon DEF brokerIP, master, BrokerInv, SameMaster
<1> DEFINE key == IF round.at = "broker" THEN brokerIP(b) ELSE b
<1>4. PICK F \in SUBSET {IF round.at = "broker" THEN "topicPutNums"
                                              ELSE "groupGetNums"} :
        PutAll(F \X {key}, [name |-> b])
  BY Zenon DEF CollectBrokerStatsTopic
<1>5. "topicPutNums" \in F => key = brokerIP(b)
  BY Zenon
<1>6. "brokerCommitLogDiff" \notin F
  BY Zenon
<1> HIDE DEF key
<1>7. KeyedByMaster' /\ DiffCoversLag'
  BY <1>3, <1>4, <1>5, <1>6, PutInv, Zenon DEF CollectBrokerStatsTopic
<1> QED
  BY <1>1, <1>7, Zenon DEF BrokerInv

\* CollectBrokerRuntimeStats keeps it, also where it panics.
LEMMA CollectBrokerRuntimeStatsInv ==
  ASSUME BrokerInv, NEW b \in BrokerName, CollectBrokerRuntimeStats(b)
  PROVE  BrokerInv'
<1>1. PICK f \in FetchBrokerRuntimeStats :
        LET ok == master(b) # NoAddr /\ f.result = "ok"
            F == {"runtime"} \cup IF f.distributed THEN {"distribute"} ELSE {}
        IN  /\ PutAll(IF ok THEN F \X {master(b)} ELSE {}, [name |-> b])
            /\ round' = IF master(b) # NoAddr /\ f.result = "panic"
                        THEN [round EXCEPT !.at = "panic"] ELSE NextBroker(b)
  BY Zenon DEF CollectBrokerRuntimeStats
<1>2. UNCHANGED <<cluster, moved>> /\ At(b, "runtime")
  BY Zenon DEF CollectBrokerRuntimeStats
<1>3. BrokerTypes' /\ Fresh' /\ SameMaster' /\ Fetched'
  <2>1. CASE round' = NextBroker(b)
    BY <1>2, <2>1, NextBrokerInv, Zenon
  <2>2. CASE round' = [round EXCEPT !.at = "panic"]
    BY <1>2, <2>2, PanicInv, Zenon
  <2> QED
    BY <1>1, <2>1, <2>2, Zenon
<1>4. PICK F \in SUBSET {"runtime", "distribute"} : PutAll(F \X {master(b)}, [name |-> b])
  <2> DEFINE F == {"runtime"} \cup IF f.distributed THEN {"distribute"} ELSE {}
             ok == master(b) # NoAddr /\ f.result = "ok"
  <2>1. F \in SUBSET {"runtime", "distribute"}
    BY Zenon
  <2>2. PutAll(IF ok THEN F \X {master(b)} ELSE {}, [name |-> b])
    BY <1>1, Zenon
  <2> HIDE DEF F, ok
  <2>3. CASE ok
    BY <2>1, <2>2, <2>3, Zenon
  <2>4. CASE ~ ok
    <3>1. {} \X {master(b)} = {}
      BY Zenon
    <3> QED
      BY <2>2, <2>4, <3>1, Zenon
  <2> QED
    BY <2>3, <2>4, Zenon
<1>5. KeyedByMaster' /\ DiffCoversLag'
  BY <1>2, <1>4, PutInv, Zenon
<1> QED
  BY <1>3, <1>5, Zenon DEF BrokerInv

\* One more offset of the slave or of the master.
LEMMA fetchRuntimeInv ==
  ASSUME BrokerInv, NEW b \in BrokerName, fetchRuntime(b)
  PROVE  BrokerInv'
<1> DEFINE a == FetchOrder(b)[Len(round.got) + 1]
           slave == round.ci[b][1]
<1>1. /\ UNCHANGED <<cluster, store, moved>> /\ At(b, "groupStats")
      /\ slave # NoAddr /\ Len(round.got) < 2
  BY Zenon DEF fetchRuntime
<1>2. KeyedByMaster' /\ DiffCoversLag'
  BY <1>1, FrameKept, Zenon
<1>3. PICK f \in FetchBrokerRuntimeStats :
        round' =
          IF a # NoAddr /\ f.result = "panic" THEN [round EXCEPT !.at = "panic"]
          ELSE [round EXCEPT
                  !.cur = {b},
                  !.got = Append(@, IF a # NoAddr /\ f.result = "ok"
                                    THEN {cluster.log[a]} ELSE {}),
                  !.lag = IF a = slave /\ master(b) # NoAddr
                          THEN cluster.log[master(b)] - cluster.log[a] ELSE @]
  BY Zenon DEF fetchRuntime
<1>4. CASE round' = [round EXCEPT !.at = "panic"]
  BY <1>1, <1>2, <1>4, PanicInv, Zenon DEF BrokerInv
<1>5. CASE round' # [round EXCEPT !.at = "panic"]
  <2> DEFINE o == IF a # NoAddr /\ f.result = "ok" THEN {cluster.log[a]} ELSE {}
             l == IF a = slave /\ master(b) # NoAddr
                  THEN cluster.log[master(b)] - cluster.log[a] ELSE round.lag
  <2>1. round' = [round EXCEPT !.cur = {b}, !.got = Append(@, o), !.lag = l]
    BY <1>3, <1>5, Zenon
  <2>2. /\ round \in RoundRecord
        /\ cluster.log \in [Addr -> Nat]
    BY Zenon DEF BrokerInv, BrokerTypes
  <2>3. Asking /\ round.job = "groupStats" /\ round.cur \subseteq {b}
        /\ round.at \in {"broker", "group"}
    BY <1>1, Zenon DEF At, Asking
  <2>4. round.ci \in Tables /\ round.route = round.ci
    BY <2>3, Zenon DEF BrokerInv, BrokerTypes, Fetched
  <2>5. /\ slave \in Addr /\ master(b) \in Addr \cup {NoAddr}
        /\ master(b) # slave /\ master(b) = round.ci[b][0]
    BY <1>1, <2>4, TableType, Zenon DEF master
  <2>6. FetchOrder(b)[1] = slave /\ FetchOrder(b)[2] = master(b)
    BY Zenon DEF FetchOrder
  <2>7. round.got \in Seq(SUBSET Nat) /\ Len(round.got) \in {0, 1}
    <3>1. round.got \in Seq(SUBSET Nat)
      BY <2>2, Zenon
    <3>2. Len(round.got) \in Nat
      BY <3>1
    <3>3. Len(round.got) < 2
      BY <1>1, Zenon
    <3>4. \A n \in Nat : n < 2 => n \in {0, 1}
      OBVIOUS
    <3> QED
      BY <3>1, <3>2, <3>3, <3>4, Zenon
  <2>8. a \in Addr \cup {NoAddr}
    <3>1. CASE Len(round.got) = 0
      <4>1. a = FetchOrder(b)[1]
        BY <3>1
      <4> QED
        BY <2>5, <2>6, <4>1, Zenon
    <3>2. CASE Len(round.got) = 1
      <4>1. a = FetchOrder(b)[2]
        BY <3>2
      <4> QED
        BY <2>5, <2>6, <4>1, Zenon
    <3> QED
      BY <2>7, <3>1, <3>2, Zenon
  <2>9. o \in SUBSET Nat /\ l \in Int
    BY <2>2, <2>5, <2>8
  <2> HIDE DEF o, l, a, slave
  <2>10. /\ Append(round.got, o) \in Seq(SUBSET Nat)
         /\ Len(Append(round.got, o)) = Len(round.got) + 1
         /\ Append(round.got, o)[Len(round.got) + 1] = o
         /\ Len(round.got) = 1 => Append(round.got, o)[1] = round.got[1]
    BY <2>7, <2>9
  <2>11. /\ round'.cur = {b} /\ round'.got = Append(round.got, o) /\ round'.lag = l
         /\ round'.ci = round.ci /\ round'.route = round.route
         /\ round'.at = round.at /\ round'.job = round.job
    BY <2>1, <2>2, Zenon
  <2>12. BrokerTypes'
    <3>1. round' \in RoundRecord
      BY <2>1, <2>2, <2>9, <2>10, Zenon
    <3> QED
      BY <1>1, <2>11, <3>1, Zenon DEF BrokerInv, BrokerTypes, Asking
  <2>13. Fresh' /\ SameMaster'
    BY <1>1, <2>3, <2>11, Zenon DEF Fresh, SameMaster, Asking, BrokerInv
  <2>14. CASE Len(round.got) = 0
    <3>1. a = slave /\ Len(round'.got) = 1 /\ round'.got[1] = o
      BY <2>6, <2>10, <2>11, <2>14 DEF a
    <3>2. \A s \in o : o = {s} /\ s = cluster.log[slave]
      BY <3>1, Zenon DEF o
    <3>3. master(b) # NoAddr => l = cluster.log[master(b)] - cluster.log[slave]
      BY <3>1, Zenon DEF l
    <3>4. cluster.log[slave] \in Nat /\ (master(b) # NoAddr => cluster.log[master(b)] \in Nat)
      BY <2>2, <2>5, Zenon
    <3>5. master(b) # NoAddr => l <= cluster.log[master(b)] - cluster.log[slave]
      BY <3>3, <3>4
    <3>6. Fetched'
      BY <1>1, <2>4, <2>5, <2>11, <3>1, <3>2, <3>5 DEF Fetched
    <3> QED
      BY <1>2, <2>12, <2>13, <3>6, Zenon DEF BrokerInv
  <2>15. CASE Len(round.got) = 1
    <3>1. /\ a = master(b) /\ Len(round'.got) = 2
          /\ round'.got[1] = round.got[1] /\ round'.got[2] = o
      BY <2>6, <2>10, <2>11, <2>15 DEF a
    <3>2. b \in round.cur
      <4>1. round.got # <<>>
        BY <2>15
      <4> QED
        BY <2>3, <4>1, Zenon DEF BrokerInv, Fetched
    <3>3. l = round.lag
      BY <2>5, <3>1, Zenon DEF l
    <3>4. /\ \A w \in o : o = {w} /\ w = cluster.log[master(b)] /\ master(b) # NoAddr
      BY <3>1, Zenon DEF o
    <3>5. \A s \in round.got[1] :
            /\ round.got[1] = {s}
            /\ master(b) # NoAddr => round.lag <= cluster.log[master(b)] - s
      BY <2>3, <2>5, <3>2, Zenon DEF BrokerInv, Fetched
    <3>6. Fetched'
      BY <1>1, <2>4, <2>5, <2>11, <3>1, <3>3, <3>4, <3>5 DEF Fetched
    <3> QED
      BY <1>2, <2>12, <2>13, <3>6, Zenon DEF BrokerInv
  <2> QED
    BY <2>7, <2>14, <2>15, Zenon
<1> QED
  BY <1>4, <1>5, Zenon

\* The difference that is stored covers the lag: the slave was asked before the
\* master.
LEMMA CollectBrokerGroupStatsInv ==
  ASSUME BrokerInv, NEW b \in BrokerName, CollectBrokerGroupStats(b)
  PROVE  BrokerInv'
<1> DEFINE slave == round.ci[b][1]
<1>1. /\ UNCHANGED <<cluster, moved>> /\ At(b, "groupStats")
      /\ round' = NextBroker(b)
  BY DEF CollectBrokerGroupStats
<1>2. BrokerTypes' /\ Fresh' /\ SameMaster' /\ Fetched'
  BY <1>1, NextBrokerInv, Zenon
<1>3. CASE slave = NoAddr
  BY <1>1, <1>2, <1>3, FrameKept DEF CollectBrokerGroupStats, BrokerInv
<1>4. CASE slave # NoAddr
  <2> DEFINE whole == {} \notin {round.got[1], round.got[2]}
             num == CHOOSE n \in {w - s : w \in Offset(b, master(b)),
                                          s \in Offset(b, slave)} : TRUE
             v == [name |-> b, num |-> IF whole THEN num ELSE 0,
                   whole |-> whole, lag |-> round.lag]
             key == <<"brokerCommitLogDiff", slave>>
  <2>1. Len(round.got) = 2 /\ PutAll({key}, v)
    BY <1>4 DEF CollectBrokerGroupStats
  <2>2. Asking /\ round.job = "groupStats" /\ round.cur \subseteq {b}
    BY <1>1, Zenon DEF At, Asking
  <2>3. b \in round.cur
    <3>1. round.got # <<>>
      BY <2>1
    <3> QED
      BY <2>2, <3>1, Zenon DEF BrokerInv, Fetched
  <2>4. /\ \A s \in round.got[1] : round.got[1] = {s}
        /\ \A w \in round.got[2] :
             round.got[2] = {w} /\ \A s \in round.got[1] : round.lag <= w - s
    BY <2>1, <2>2, <2>3, Zenon DEF BrokerInv, Fetched
  <2>5. round.ci \in Tables /\ round.route = round.ci
    BY <2>2, Zenon DEF BrokerInv, BrokerTypes, Fetched
  <2>6. master(b) # slave
    BY <1>4, <2>5, TableType, Zenon DEF master
  <2>7. Offset(b, slave) = round.got[1] /\ Offset(b, master(b)) = round.got[2]
    <3>1. /\ {j \in 1 .. 2 : FetchOrder(b)[j] = slave} = {1}
          /\ {j \in 1 .. 2 : FetchOrder(b)[j] = master(b)} = {2}
      BY <2>6 DEF FetchOrder
    <3>2. Offset(b, slave) = CHOOSE o \in {round.got[1]} : TRUE
      BY <3>1, Zenon DEF Offset
    <3>3. Offset(b, master(b)) = CHOOSE o \in {round.got[2]} : TRUE
      BY <3>1, Zenon DEF Offset
    <3> QED
      BY <3>2, <3>3, Zenon
  <2>8. whole => num >= round.lag
    <3> SUFFICES ASSUME whole PROVE num >= round.lag
      OBVIOUS
    <3>1. PICK s \in round.got[1], w \in round.got[2] : TRUE
      BY Zenon
    <3>2. round.got[1] = {s} /\ round.got[2] = {w} /\ round.lag <= w - s
      BY <2>4, <3>1, Zenon
    <3>3. {u - t : u \in {w}, t \in {s}} = {w - s}
      OBVIOUS
    <3>4. num = w - s
      BY <2>7, <3>2, <3>3
    <3>5. w \in Nat /\ s \in Nat /\ round.lag \in Int
      <4>1. round.got \in Seq(SUBSET Nat) /\ round.lag \in Int
        BY Zenon DEF BrokerInv, BrokerTypes
      <4>2. round.got[1] \in SUBSET Nat /\ round.got[2] \in SUBSET Nat
        BY <2>1, <4>1
      <4> QED
        BY <3>1, <4>1, <4>2, Zenon
    <3> HIDE DEF num, whole
    <3> QED
      BY <3>2, <3>4, <3>5, Zenon
  <2>9. /\ v.whole = whole /\ v.num = (IF whole THEN num ELSE 0) /\ v.lag = round.lag
        /\ key[1] = "brokerCommitLogDiff" /\ key = <<key[1], key[2]>>
    OBVIOUS
  <2> HIDE DEF whole, num, v, key, slave
  <2>10. /\ DOMAIN store' = {key} \cup DOMAIN store
         /\ store'[key] = v
         /\ \A x \in DOMAIN store \ {key} : store'[x] = store[x]
    <3>1. PutAll({key}, v)
      BY <2>1, Zenon
    <3> QED
      BY <3>1, PutAllStores, Zenon
  <2>11. KeyedByMaster'
    BY <1>1, <2>9, <2>10, Zenon DEF BrokerInv, KeyedByMaster
  <2>12. DiffCoversLag'
    <3>1. IF store'[key].whole THEN store'[key].num >= store'[key].lag
          ELSE store'[key].num = 0
      BY <2>8, <2>9, <2>10, Zenon
    <3> QED
      BY <2>10, <3>1, Zenon DEF BrokerInv, DiffCoversLag
  <2> QED
    BY <1>2, <2>11, <2>12, Zenon DEF BrokerInv
<1> QED
  BY <1>3, <1>4, Zenon

\* Every step of the broker jobs and of the brokers keeps the invariant.
LEMMA BrokerNextInv == BrokerInv /\ [BrokerNext]_brokerVars => BrokerInv'
<1> SUFFICES ASSUME BrokerInv, [BrokerNext]_brokerVars
             PROVE  BrokerInv'
  BY Zenon
<1>1. CASE InfoError \/ Info \/ Route \/ RouteError \/ FireAgain
           \/ QueryTopicConsumeByWho
  BY <1>1, FrameInv, Zenon
<1>2. ASSUME NEW b \in BrokerName,
             \/ CollectProducer(b) \/ CollectBrokerStats(b)
             \/ CollectBrokerStatsTopic(b)
             \/ fetchRuntime(b) \/ CollectBrokerGroupStats(b)
             \/ CollectBrokerRuntimeStats(b)
      PROVE  BrokerInv'
  BY <1>2, CollectProducerInv, CollectBrokerStatsInv, CollectBrokerStatsTopicInv, Zenon,
     fetchRuntimeInv, CollectBrokerGroupStatsInv, CollectBrokerRuntimeStatsInv
<1>3. ASSUME NEW t \in Tables, Move(t)
      PROVE  BrokerInv'
  BY <1>3, MoveInv, Zenon
<1>4. ASSUME NEW a \in Addr, Write(a)
      PROVE  BrokerInv'
  BY <1>4, WriteInv, Zenon
<1>5. CASE UNCHANGED brokerVars
  BY <1>5, Zenon DEF brokerVars, BrokerInv, BrokerTypes, Fresh, SameMaster, KeyedByMaster,
              Fetched, DiffCoversLag, Asking
<1> QED
  BY <1>1, <1>2, <1>3, <1>4, <1>5, Zenon DEF BrokerNext

\* One sample per series: a broker that has had one master only has its put
\* rates under one key.
LEMMA KeyedOnce == BrokerInv => OneSamplePerSeries
<1> SUFFICES ASSUME BrokerInv, NEW x \in DOMAIN store, NEW y \in DOMAIN store,
                    x # y, x[1] = y[1], SampleLabels(x) = SampleLabels(y)
             PROVE  x[1] = "topicPutNums" /\ store[x].name \in moved
  BY Zenon DEF OneSamplePerSeries
<1>1. x = <<x[1], x[2]>> /\ y = <<y[1], y[2]>>
  BY Zenon DEF BrokerInv, KeyedByMaster
<1>2. x[2] # y[2]
  BY <1>1, Zenon
<1>3. x[1] = "topicPutNums"
  BY <1>2, Zenon DEF SampleLabels
<1>4. store[x].name = store[y].name
  BY <1>3, Zenon DEF SampleLabels
<1> QED
  BY <1>2, <1>3, <1>4, Zenon DEF BrokerInv, KeyedByMaster

\* The invariant of the jobs that go over the brokers.
THEOREM BrokerInvariant == BrokerSpec => []BrokerInv
<1>1. BrokerInit(Tables, Jobs) => BrokerInv
  BY BrokerInitInv, Zenon
<1> QED
  BY <1>1, BrokerNextInv, PTL DEF BrokerSpec

\* A stored difference of the commit logs covers what the slave lacked when it
\* was asked, whatever is written between the two questions.
THEOREM BrokerDiffCoversLag == BrokerSpec => []DiffCoversLag
<1>1. BrokerInv => DiffCoversLag
  BY Zenon DEF BrokerInv
<1> QED
  BY <1>1, BrokerInvariant, PTL

\* No two samples of the broker jobs have the same labels, put rates of a broker
\* that has changed its master aside.
THEOREM BrokerOneSamplePerSeries == BrokerSpec => []OneSamplePerSeries
<1>1. BrokerInv => OneSamplePerSeries
  BY KeyedOnce, Zenon
<1> QED
  BY <1>1, BrokerInvariant, PTL

-----------------------------------------------------------------------------
(* The composition.                                                        *)

\* AnyOf chooses from what there is.
LEMMA AnyOfIn ==
  ASSUME NEW S, S # {}
  PROVE  AnyOf(S) \in SUBSET S
  BY Zenon DEF AnyOf

\* There is a table of addresses.
LEMMA TablesExist == Tables # {}
<1>1. [b \in BrokerName |-> [i \in 0 .. 1 |-> NoAddr]] \in Tables
  BY Zenon DEF Tables
<1> QED
  BY <1>1, Zenon

\* There are brokers that a topic may be at.
LEMMA TopicNetsExist == TopicNets # {}
<1>1. PICK f \in [Queue -> Broker] : TRUE
  <2>1. CASE Queue = {}
    <3>1. [q \in Queue |-> 0] \in [Queue -> Broker]
      BY <2>1, Zenon
    <3> QED
      BY <3>1, Zenon
  <2>2. CASE Queue # {}
    <3>1. PICK b \in Broker : TRUE
      BY <2>2, PlacedAssumption, Zenon
    <3>2. [q \in Queue |-> b] \in [Queue -> Broker]
      BY Zenon
    <3> QED
      BY <3>2, Zenon
  <2> QED
    BY <2>1, <2>2, Zenon
<1> DEFINE zero == [q \in Queue |-> 0]
           nobody == [b \in Broker |-> {}]
           nowhere == [b \in Broker |-> "none"]
           x == [brokerOf |-> f, conns |-> nobody, route |-> nowhere,
                 brokerAddrs |-> {}, min |-> zero, max |-> zero, con |-> zero,
                 events |-> 0]
<1>2. /\ zero \in [Queue -> {0}] /\ zero \in [Queue -> 0 .. 1]
      /\ nobody \in [Broker -> SUBSET Client]
      /\ nowhere \in [Broker -> {"master", "slave", "none"}]
  OBVIOUS
<1> HIDE DEF zero, nowhere
<1>3. x \in Nets
  <2> HIDE DEF nobody
  <2> QED
    BY <1>2, Zenon DEF Nets
<1>4. x.conns = [b \in Broker |-> {}] /\ x.brokerAddrs = {}
  BY Zenon
<1> HIDE DEF x
<1>5. x \in TopicNets
  BY <1>3, <1>4, Zenon DEF TopicNets, NoClients
<1> QED
  BY <1>5, Zenon

\* Every part starts as its own specification says, also one at rest.
LEMMA CollectionInits ==
  ASSUME CollectionInit
  PROVE  RInit /\ BrokerInit(Tables, Jobs) /\ RouteInit(Nets, Fns)
<1>1. AnyOf(Tables) \in SUBSET Tables /\ AnyOf(Jobs) \in SUBSET Jobs
  <2>1. Tables # {}
    BY TablesExist, Zenon
  <2>2. Jobs # {}
    BY Zenon DEF Jobs
  <2> QED
    BY <2>1, <2>2, AnyOfIn, Zenon
<1>2. AnyOf(TopicNets) \in SUBSET Nets /\ TopicNets \in SUBSET Nets /\ PairNets \in SUBSET Nets
  <2>1. TopicNets \in SUBSET Nets /\ PairNets \in SUBSET Nets
    BY Zenon DEF TopicNets, PairNets
  <2>2. AnyOf(TopicNets) \in SUBSET TopicNets
    BY TopicNetsExist, AnyOfIn, Zenon
  <2> QED
    BY <2>1, <2>2, Zenon
<1>3. RInit
  BY Zenon DEF CollectionInit
<1>4. BrokersAtRest => BrokerInit(Tables, Jobs)
  BY <1>1, Zenon DEF BrokersAtRest, BrokerInit
<1>5. {"topic"} \in SUBSET Fns /\ {"pair"} \in SUBSET Fns
  BY Zenon DEF Fns
<1>6. ASSUME NEW N \in SUBSET Nets, NEW F \in SUBSET Fns, RouteInit(N, F)
      PROVE  RouteInit(Nets, Fns)
  BY <1>6, Zenon DEF RouteInit
<1>7. RouteAtRest => RouteInit(Nets, Fns)
  BY <1>2, <1>5, <1>6, Zenon DEF RouteAtRest
<1>8. RouteInit(TopicNets, {"topic"}) \/ RouteInit(PairNets, {"pair"}) => RouteInit(Nets, Fns)
  BY <1>2, <1>5, <1>6, Zenon
<1> QED
  BY <1>3, <1>4, <1>7, <1>8, Zenon DEF CollectionInit

\* A step is one of one part, the others at rest.
LEMMA CollectionSteps ==
  ASSUME [CollectionNext]_collectionVars
  PROVE  [RNext]_allVars /\ [BrokerNext]_brokerVars /\ [RouteNext]_routeVars
  BY Zenon DEF CollectionNext, collectionVars

\* A behaviour of the composition is one of the rounds.
LEMMA CollectionImplementsRounds == CollectionSpec => RSpec
<1>1. CollectionInit => RInit
  BY CollectionInits, Zenon
<1>2. [CollectionNext]_collectionVars => [RNext]_allVars
  BY CollectionSteps, Zenon
<1> QED
  BY <1>1, <1>2, PTL DEF CollectionSpec, RSpec

\* Every sample that was put and is not expired is there, whatever the rounds,
\* the scrapes and the sweeps do at the same time.
THEOREM CollectionNothingLiveLost == CollectionSpec => []NothingLiveLost
  BY CollectionImplementsRounds, RoundsImplementCache, CacheNothingLiveLost, PTL

\* A snapshot has what is live at the moment it is taken, judged by the time it
\* read before.
THEOREM CollectionSnapshotInWindow == CollectionSpec => SnapshotInWindow
  BY CollectionImplementsRounds, RoundsImplementCache, CacheSnapshotInWindow, PTL

\* No scrape shows what the brokers have not said for longer than the TTL and a
\* round.
THEOREM CollectionFreshSamples == CollectionSpec => []FreshSamples
  BY CollectionImplementsRounds, RoundsFreshSamples, PTL

\* It is one of the broker jobs: what is shown of BrokerSpec holds here.
LEMMA CollectionImplementsBroker == CollectionSpec => BrokerSpec
<1>1. CollectionInit => BrokerInit(Tables, Jobs)
  BY CollectionInits, Zenon
<1>2. [CollectionNext]_collectionVars => [BrokerNext]_brokerVars
  BY CollectionSteps, Zenon
<1> QED
  BY <1>1, <1>2, PTL DEF CollectionSpec, BrokerSpec

\* So the difference of the commit logs that a scrape can see covers what the
\* slave lacked.
THEOREM CollectionDiffCoversLag == CollectionSpec => []DiffCoversLag
  BY CollectionImplementsBroker, BrokerDiffCoversLag, PTL

\* And no two samples of the broker jobs that a scrape can see are the same
\* series, put rates of a broker that has changed its master aside.
THEOREM CollectionOneSamplePerSeries == CollectionSpec => []OneSamplePerSeries
  BY CollectionImplementsBroker, BrokerOneSamplePerSeries, PTL

\* It is one of the work on a topic or on a pair: what module RouteJobs_proofs
\* shows of RouteSpec holds here.
LEMMA CollectionImplementsRoute == CollectionSpec => RouteSpec
<1>1. CollectionInit => RouteInit(Nets, Fns)
  BY CollectionInits, Zenon
<1>2. [CollectionNext]_collectionVars => [RouteNext]_routeVars
  BY CollectionSteps, Zenon
<1> QED
  BY <1>1, <1>2, PTL DEF CollectionSpec, RouteSpec

=============================================================================
