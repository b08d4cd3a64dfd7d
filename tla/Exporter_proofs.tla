-------------------------- MODULE Exporter_proofs ---------------------------
(***************************************************************************)
(* Proofs about Exporter, for any settings, jobs and queue.  run builds a  *)
(* stack of deferred calls, and at any moment the parts that are on it are *)
(* those that are up.  The client is at its bottom: when it is shut down,  *)
(* the pool and the prober, whose calls return only when their goroutines  *)
(* are done, have been.                                                    *)
(***************************************************************************)
EXTENDS Exporter, SequenceTheorems, TLAPS

\* The stacks that run goes through, without and with the prober.
Call == {"admin", "pool", "sched", "prober", "http"}
D0 == <<>>
D1 == <<"admin">>
D2 == <<"pool", "admin">>
D3 == <<"sched", "pool", "admin">>
D4 == <<"prober", "sched", "pool", "admin">>
H3 == <<"http", "sched", "pool", "admin">>
H4 == <<"http", "prober", "sched", "pool", "admin">>

\* Where run is, the stack is that of the parts it has started.
Stack ==
  /\ defers \in {D0, D1, D2, D3, D4, H3, H4}
  /\ main \in {"config", "admin", "exited"} => defers = D0
  /\ main = "pool" => defers = D1
  /\ main = "sched" => defers = D2
  /\ main = "prober" => defers = D3
  /\ main = "http" => defers \in {D3, D4}
  /\ main = "wait" => defers \in {H3, H4}

\* A part is up if and only if its call is on the stack.
OnStack ==
  /\ admin \in IF defers = D0 THEN {"off", "down"} ELSE {"up"}
  /\ pool \in IF defers \in {D0, D1} THEN {"off", "down"} ELSE {"up", "stopping"}
  /\ sched \in IF defers \in {D0, D1, D2} THEN {"off", "down"} ELSE {"up"}
  /\ prober \in IF defers \in {D4, H4} THEN {"up", "stopping"} ELSE {"off", "down"}
  /\ http \in IF defers \in {H3, H4} THEN {"up", "failed", "stopping"} ELSE {"off", "down"}

\* The goroutines of a part that is not up are not inside the client.
Users ==
  /\ queue \in Nat
  /\ pool \in {"off", "down"} => queue = 0 /\ worker = "idle"
  /\ prober \in {"off", "down"} => refresh \in {"off", "exited"}

IInv == Stack /\ OnStack /\ Users

-----------------------------------------------------------------------------
\* What putting a call in front of a stack makes.
LEMMA Cons ==
  ASSUME NEW S, NEW f \in S, NEW s \in Seq(S), NEW t \in Seq(S),
         Len(t) = Len(s) + 1, t[1] = f,
         \A i \in 1 .. Len(s) : t[i + 1] = s[i]
  PROVE  <<f>> \o s = t
<1> DEFINE c == <<f>>
           r == c \o s
<1>0. c \in Seq(S) /\ Len(s) \in Nat
  OBVIOUS
<1>a. Len(c) = 1
  BY Zenon
<1>b. c[1] = f
  BY Zenon
<1>1. c \in Seq(S) /\ Len(c) = 1 /\ c[1] = f /\ Len(s) \in Nat
  BY <1>0, <1>a, <1>b, Zenon
<1> HIDE DEF c
<1>2. /\ r \in Seq(S)
      /\ Len(r) = Len(c) + Len(s)
      /\ \A i \in 1 .. Len(c) + Len(s) :
           r[i] = IF i <= Len(c) THEN c[i] ELSE s[i - Len(c)]
  BY <1>1, ConcatProperties, Zenon
<1> HIDE DEF r
<1>3. Len(r) = Len(t)
  BY <1>1, <1>2
<1>4. ASSUME NEW i \in 1 .. Len(r) PROVE r[i] = t[i]
  <2>1. CASE i = 1
    BY <2>1, <1>1, <1>2
  <2>2. CASE i # 1
    <3>1. i - 1 \in 1 .. Len(s) /\ (i - 1) + 1 = i
      BY <2>2, <1>1, <1>2
    <3>2. r[i] = s[i - 1]
      BY <2>2, <1>1, <1>2
    <3>3. t[(i - 1) + 1] = s[i - 1]
      BY <3>1, Zenon
    <3> QED
      BY <3>1, <3>2, <3>3, Zenon
  <2> QED
    BY <2>1, <2>2, Zenon
<1>5. r = t
  BY <1>2, <1>3, <1>4, SeqEqual, Zenon
<1> QED
  BY <1>5, Zenon DEF r, c

\* The stacks are different.
LEMMA Different ==
  /\ D0 \notin {D1, D2, D3, D4, H3, H4} /\ D1 \notin {D2, D3, D4, H3, H4}
  /\ D2 \notin {D3, D4, H3, H4} /\ D3 \notin {D4, H3, H4}
  /\ D4 \notin {H3, H4} /\ H3 # H4
  BY Zenon DEF D0, D1, D2, D3, D4, H3, H4

\* What a return of a deferred call leaves.
LEMMA Pops ==
  /\ Head(D1) = "admin" /\ Tail(D1) = D0
  /\ Head(D2) = "pool" /\ Tail(D2) = D1
  /\ Head(D3) = "sched" /\ Tail(D3) = D2
  /\ Head(D4) = "prober" /\ Tail(D4) = D3
  /\ Head(H3) = "http" /\ Tail(H3) = D3
  /\ Head(H4) = "http" /\ Tail(H4) = D4
  BY DEF D0, D1, D2, D3, D4, H3, H4

\* What a defer statement makes.
LEMMA Pushes ==
  /\ <<"admin">> \o D0 = D1 /\ <<"pool">> \o D1 = D2 /\ <<"sched">> \o D2 = D3
  /\ <<"prober">> \o D3 = D4 /\ <<"http">> \o D3 = H3 /\ <<"http">> \o D4 = H4
<1> "admin" \in Call /\ "pool" \in Call /\ "sched" \in Call /\ "prober" \in Call /\ "http" \in Call
  BY Zenon DEF Call
<1> USE DEF D0, D1, D2, D3, D4, H3, H4
<1>1. <<"admin">> \o D0 = D1
  OBVIOUS
<1>2. <<"pool">> \o D1 = D2
  <2>1. D1 \in Seq(Call) /\ D2 \in Seq(Call)
    OBVIOUS
  <2>2. Len(D2) = Len(D1) + 1 /\ D2[1] = "pool"
    OBVIOUS
  <2>3. \A i \in 1 .. Len(D1) : D2[i + 1] = D1[i]
    OBVIOUS
  <2> HIDE DEF D1, D2
  <2> QED
    BY <2>1, <2>2, <2>3, Cons, Zenon
<1>3. <<"sched">> \o D2 = D3
  <2>1. D2 \in Seq(Call) /\ D3 \in Seq(Call)
    OBVIOUS
  <2>2. Len(D3) = Len(D2) + 1 /\ D3[1] = "sched"
    OBVIOUS
  <2>3. \A i \in 1 .. Len(D2) : D3[i + 1] = D2[i]
    OBVIOUS
  <2> HIDE DEF D2, D3
  <2> QED
    BY <2>1, <2>2, <2>3, Cons, Zenon
<1>4. <<"prober">> \o D3 = D4
  <2>1. D3 \in Seq(Call) /\ D4 \in Seq(Call)
    OBVIOUS
  <2>2. Len(D4) = Len(D3) + 1 /\ D4[1] = "prober"
    OBVIOUS
  <2>3. \A i \in 1 .. Len(D3) : D4[i + 1] = D3[i]
    OBVIOUS
  <2> HIDE DEF D3, D4
  <2> QED
    BY <2>1, <2>2, <2>3, Cons, Zenon
<1>5. <<"http">> \o D3 = H3
  <2>1. D3 \in Seq(Call) /\ H3 \in Seq(Call)
    OBVIOUS
  <2>2. Len(H3) = Len(D3) + 1 /\ H3[1] = "http"
    OBVIOUS
  <2>3. \A i \in 1 .. Len(D3) : H3[i + 1] = D3[i]
    OBVIOUS
  <2> HIDE DEF D3, H3
  <2> QED
    BY <2>1, <2>2, <2>3, Cons, Zenon
<1>6. <<"http">> \o D4 = H4
  <2>1. D4 \in Seq(Call) /\ H4 \in Seq(Call)
    OBVIOUS
  <2>2. Len(H4) = Len(D4) + 1 /\ H4[1] = "http"
    OBVIOUS
  <2>3. \A i \in 1 .. Len(D4) : H4[i + 1] = D4[i]
    OBVIOUS
  <2> HIDE DEF D4, H4
  <2> QED
    BY <2>1, <2>2, <2>3, Cons, Zenon
<1> QED
  BY <1>1, <1>2, <1>3, <1>4, <1>5, <1>6, Zenon

-----------------------------------------------------------------------------
\* What the stack shows of the call that is to be made next.
LEMMA Top ==
  ASSUME Stack
  PROVE  /\ Unwinding("admin") => defers = D1 /\ Tail(defers) = D0
         /\ Unwinding("pool") => defers = D2 /\ Tail(defers) = D1
         /\ Unwinding("sched") => defers = D3 /\ Tail(defers) = D2
         /\ Unwinding("prober") => defers = D4 /\ Tail(defers) = D3
         /\ Unwinding("http") =>
              \/ defers = H3 /\ Tail(defers) = D3
              \/ defers = H4 /\ Tail(defers) = D4
<1>1. D0 = <<>>
  BY Zenon DEF D0
<1> QED
  BY <1>1, Pops, Zenon DEF Stack, Unwinding

\* The invariant holds initially: run has started nothing.
LEMMA InitIInv == Init => IInv
<1> SUFFICES ASSUME Init PROVE IInv
  BY Zenon
<1>1. defers = D0 /\ main = "config"
  BY Zenon DEF Init, D0
<1>2. /\ admin = "off" /\ pool = "off" /\ sched = "off" /\ prober = "off" /\ http = "off"
      /\ queue = 0 /\ worker = "idle" /\ refresh = "off"
  BY Zenon DEF Init
<1>3. Stack
  BY <1>1, Different, Zenon DEF Stack
<1>4. OnStack
  BY <1>1, <1>2, Different, Zenon DEF OnStack
<1>5. Users
  BY <1>2, Zenon DEF Users
<1> QED
  BY <1>3, <1>4, <1>5, Zenon DEF IInv

\* run starts a part and defers its stop, or turns back.
LEMMA StartIInv ==
  ASSUME IInv,
         LoadConfig \/ StartAdmin \/ StartPool \/ RegisterError \/ StartSched
         \/ ProberError \/ StartProber \/ StartHttp \/ Wait
  PROVE  IInv'
<1> USE DEF IInv, parts, work
<1>1. CASE LoadConfig
  <2>1. /\ main = "config" /\ main' \in {"admin", "unwind", "exited"}
        /\ UNCHANGED <<defers, parts, work>>
    BY <1>1, Zenon DEF LoadConfig
  <2> QED
    BY <2>1, Different, Zenon DEF Stack, OnStack, Users
<1>2. CASE StartAdmin
  <2>1. /\ main = "admin" /\ main' = "pool" /\ admin' = "up" /\ defers' = <<"admin">> \o defers
        /\ UNCHANGED <<pool, sched, prober, http, work>>
    BY <1>2, Zenon DEF StartAdmin, Defer
  <2>2. defers = D0 /\ defers' = D1
    BY <2>1, Pushes, Zenon DEF Stack
  <2> QED
    BY <2>1, <2>2, Different, Zenon DEF Stack, OnStack, Users
<1>3. CASE StartPool
  <2>1. defers = D1 /\ defers' = D2
    BY <1>3, Pushes, Zenon DEF StartPool, Defer, Stack
  <2> QED
    BY <1>3, <2>1, Different, Zenon DEF StartPool, Stack, OnStack, Users
<1>4. CASE RegisterError
  BY <1>4, Different, Zenon DEF RegisterError, Stack, OnStack, Users
<1>5. CASE StartSched
  <2>1. defers = D2 /\ defers' = D3
    BY <1>5, Pushes, Zenon DEF StartSched, Defer, Stack
  <2>2. /\ main' \in {"prober", "http"} /\ sched' = "up"
        /\ UNCHANGED <<admin, pool, prober, http, work>>
    BY <1>5, Zenon DEF StartSched
  <2> QED
    BY <2>1, <2>2, Different, Zenon DEF Stack, OnStack, Users
<1>6. CASE ProberError
  BY <1>6, Different, Zenon DEF ProberError, Stack, OnStack, Users
<1>7. CASE StartProber
  <2>1. defers = D3 /\ defers' = D4
    BY <1>7, Pushes, Zenon DEF StartProber, Defer, Stack
  <2> QED
    BY <1>7, <2>1, Different, Zenon DEF StartProber, Stack, OnStack, Users
<1>8. CASE StartHttp
  <2>1. \/ defers = D3 /\ defers' = H3
        \/ defers = D4 /\ defers' = H4
    BY <1>8, Pushes, Zenon DEF StartHttp, Defer, Stack
  <2> QED
    BY <1>8, <2>1, Different, Zenon DEF StartHttp, Stack, OnStack, Users
<1>9. CASE Wait
  BY <1>9, Different, Zenon DEF Wait, Stack, OnStack, Users
<1> QED
  BY <1>1, <1>2, <1>3, <1>4, <1>5, <1>6, <1>7, <1>8, <1>9, Zenon

\* A deferred call returns when the part is stopped, and leaves the stack.
LEMMA UnwindIInv ==
  ASSUME IInv,
         HttpShutdown \/ HttpShutdownReturn \/ ProberShutdown \/ ProberShutdownReturn
         \/ SchedStop \/ PoolShutdown \/ PoolShutdownReturn \/ AdminShutdown \/ Exit
  PROVE  IInv'
<1> USE Top, Different DEF IInv, parts, work
<1>1. CASE HttpShutdown
  <2>1. main = "unwind" /\ defers \in {H3, H4}
    BY <1>1, Zenon DEF HttpShutdown, Unwinding
  <2> QED
    BY <1>1, <2>1, Zenon DEF HttpShutdown, Stack, OnStack, Users
<1>2. CASE HttpShutdownReturn
  <2>1. main = "unwind"
    BY <1>2, Zenon DEF HttpShutdownReturn, Unwinding
  <2>2. \/ defers = H3 /\ defers' = D3
        \/ defers = H4 /\ defers' = D4
    BY <1>2, Zenon DEF HttpShutdownReturn
  <2> QED
    BY <1>2, <2>1, <2>2, Zenon DEF HttpShutdownReturn, Stack, OnStack, Users
<1>3. CASE ProberShutdown
  <2>1. main = "unwind" /\ defers = D4
    BY <1>3, Zenon DEF ProberShutdown, Unwinding
  <2> QED
    BY <1>3, <2>1, Zenon DEF ProberShutdown, Stack, OnStack, Users
<1>4. CASE ProberShutdownReturn
  <2>1. main = "unwind" /\ defers = D4 /\ defers' = D3
    BY <1>4, Zenon DEF ProberShutdownReturn, Unwinding
  <2> QED
    BY <1>4, <2>1, Zenon DEF ProberShutdownReturn, Stack, OnStack, Users
<1>5. CASE SchedStop
  <2>1. main = "unwind" /\ defers = D3 /\ defers' = D2
    BY <1>5, Zenon DEF SchedStop, Unwinding
  <2> QED
    BY <1>5, <2>1, Zenon DEF SchedStop, Stack, OnStack, Users
<1>6. CASE PoolShutdown
  <2>1. main = "unwind" /\ defers = D2
    BY <1>6, Zenon DEF PoolShutdown, Unwinding
  <2> QED
    BY <1>6, <2>1, Zenon DEF PoolShutdown, Stack, OnStack, Users
<1>7. CASE PoolShutdownReturn
  <2>1. main = "unwind" /\ defers = D2 /\ defers' = D1
    BY <1>7, Zenon DEF PoolShutdownReturn, Unwinding
  <2> QED
    BY <1>7, <2>1, Zenon DEF PoolShutdownReturn, Stack, OnStack, Users
<1>8. CASE AdminShutdown
  <2>1. main = "unwind" /\ defers = D1 /\ defers' = D0
    BY <1>8, Zenon DEF AdminShutdown, Unwinding
  <2> QED
    BY <1>8, <2>1, Zenon DEF AdminShutdown, Stack, OnStack, Users
<1>9. CASE Exit
  <2>1. defers = D0 /\ defers' = D0 /\ main' = "exited"
    BY <1>9, Zenon DEF Exit, D0
  <2> QED
    BY <1>9, <2>1, Zenon DEF Exit, Stack, OnStack, Users
<1> QED
  BY <1>1, <1>2, <1>3, <1>4, <1>5, <1>6, <1>7, <1>8, <1>9, Zenon

\* The goroutines run beside it.
LEMMA WorkIInv ==
  ASSUME IInv,
         \/ Worker \/ RefreshCall \/ RefreshReturn \/ RefreshExit
         \/ Request \/ RequestDone
         \/ \E j \in Job : Fire(j) \/ JobCall(j) \/ JobCallReturn(j) \/ JobEnd(j)
                           \/ JobSubmit(j)
  PROVE  IInv'
<1> USE DEF IInv, parts
<1>1. UNCHANGED <<main, defers, parts>>
  BY Zenon DEF Worker, WorkerTake, WorkerReturn, RefreshCall, RefreshReturn, RefreshExit,
         Request, RequestDone, Fire, JobCall, JobCallReturn, JobEnd, JobSubmit
<1>2. Stack' /\ OnStack'
  BY <1>1, Zenon DEF Stack, OnStack
<1>3. \/ UNCHANGED <<queue, worker>>
      \/ queue > 0 /\ queue' = queue - 1
      \/ pool = "up" /\ queue' = queue + 1
      \/ worker = "call" /\ queue' = queue
  <2>1. CASE Worker
    BY <2>1, Zenon DEF Worker, WorkerTake, WorkerReturn
  <2>2. CASE \E j \in Job : JobSubmit(j)
    BY <2>2, Zenon DEF JobSubmit
  <2>3. CASE \/ RefreshCall \/ RefreshReturn \/ RefreshExit \/ Request \/ RequestDone
             \/ \E j \in Job : Fire(j) \/ JobCall(j) \/ JobCallReturn(j) \/ JobEnd(j)
    BY <2>3, Zenon DEF RefreshCall, RefreshReturn, RefreshExit, Request, RequestDone, Fire,
                JobCall, JobCallReturn, JobEnd
  <2> QED
    BY <2>1, <2>2, <2>3, Zenon
<1>4. refresh' = refresh \/ refresh' = "exited" \/ refresh \in {"select", "call"}
  BY Zenon DEF Worker, WorkerTake, WorkerReturn, RefreshCall, RefreshReturn, RefreshExit,
         Request, RequestDone, Fire, JobCall, JobCallReturn, JobEnd, JobSubmit
<1>5. Users'
  <2>1. queue' \in Nat /\ (pool \in {"off", "down"} => queue' = 0 /\ worker' = "idle")
    BY <1>3 DEF Users
  <2>2. prober \in {"off", "down"} => refresh' \in {"off", "exited"}
    BY <1>4, Zenon DEF Users
  <2> QED
    BY <1>1, <2>1, <2>2, Zenon DEF Users
<1> QED
  BY <1>2, <1>5, Zenon

\* IInv is inductive.
THEOREM ExporterInvariant == Spec => []IInv
<1>1. IInv /\ [Next]_vars => IInv'
  <2> SUFFICES ASSUME IInv, [Next]_vars PROVE IInv'
    BY Zenon
  <2>1. CASE Signal
    <3>1. UNCHANGED <<defers, parts, work>> /\ main' \in {main, "exited"}
          /\ (main' = "exited" => main \in {"config", "exited"})
      BY <2>1, Zenon DEF Signal
    <3> QED
      BY <3>1, Zenon DEF IInv, Stack, OnStack, Users, parts, work
  <2>2. CASE Main
    BY <2>2, StartIInv, UnwindIInv, Zenon DEF Main
  <2>4. CASE ServeError
    <3>1. /\ http = "up" /\ http' = "failed"
          /\ UNCHANGED <<main, defers, admin, pool, sched, prober, work>>
      BY <2>4, Zenon DEF ServeError
    <3> QED
      BY <3>1, Zenon DEF IInv, Stack, OnStack, Users, work
  <2>3. CASE UNCHANGED vars
    BY <2>3, Zenon DEF vars, parts, work, IInv, Stack, OnStack, Users
  <2> QED
    BY <2>1, <2>2, <2>3, <2>4, WorkIInv, Zenon DEF Next
<1> QED
  BY <1>1, InitIInv, PTL DEF Spec

\* However run ends, by a signal or by an error half way through the start,
\* the parts that it had started are stopped when the process exits.
THEOREM ExporterEveryPartStopped == Spec => []EveryPartStopped
<1>1. IInv => EveryPartStopped
  BY Different, Zenon DEF IInv, Stack, OnStack, EveryPartStopped
<1> QED
  BY <1>1, ExporterInvariant, PTL

\* The connections of the client are closed after its users in the pool and
\* in the prober have gone.
THEOREM ExporterClientOutlives == Spec => []ClientOutlivesItsUsers
<1>1. IInv => ClientOutlivesItsUsers
  BY Different, Zenon DEF IInv, Stack, OnStack, Users, ClientOutlivesItsUsers
<1> QED
  BY <1>1, ExporterInvariant, PTL

-----------------------------------------------------------------------------
(* The settings.                                                           *)

\* The places of the four sources.
LEMMA Places ==
  /\ 1 \in 1 .. 4 /\ 2 \in 1 .. 4 /\ 3 \in 1 .. 4 /\ 4 \in 1 .. 4
  /\ \A k \in 1 .. 4 : k = 1 \/ k = 2 \/ k = 3 \/ k = 4
  /\ \A k \in 1 .. 4 : ~ (k < 1)
  /\ \A k \in 1 .. 4 : k < 2 => k = 1
  /\ \A k \in 1 .. 4 : k < 3 => k = 1 \/ k = 2
  /\ \A k \in 1 .. 4 : k < 4 => k = 1 \/ k = 2 \/ k = 3
  OBVIOUS

\* A source that counts, before which none does, is the best.
LEMMA BestIs ==
  ASSUME NEW g, NEW s, NEW n \in 1 .. 4, Counts(n, s, g),
         \A k \in 1 .. 4 : k < n => ~ Counts(k, s, g)
  PROVE  Best(s, g) = Sources(g)[n][s]
<1> DEFINE IsBest(m) == /\ Counts(m, s, g)
                        /\ \A k \in 1 .. 4 : k < m => ~ Counts(k, s, g)
           best == CHOOSE m \in 1 .. 4 : IsBest(m)
<1>1. IsBest(n)
  BY Zenon
<1>2. best \in 1 .. 4 /\ IsBest(best)
  BY <1>1, Zenon
<1>3. ~ (best < n) /\ ~ (n < best)
  BY <1>1, <1>2, Zenon
<1>4. best = n
  <2> HIDE DEF best
  <2> QED
    BY <1>2, <1>3
<1>5. Best(s, g) = Sources(g)[best][s]
  BY Zenon DEF Best
<1> QED
  BY <1>4, <1>5, Zenon

\* The four sources by their places.
LEMMA SourceOf ==
  ASSUME NEW g
  PROVE  /\ Sources(g)[1] = g.flag /\ Sources(g)[2] = g.env
         /\ Sources(g)[3] = g.file /\ Sources(g)[4] = Default
  BY Zenon DEF Sources

\* Whether a source counts.
LEMMA CountsOf ==
  ASSUME NEW g, NEW s \in Setting
  PROVE  /\ Counts(1, s, g) <=> s \in DOMAIN g.flag
         /\ Counts(2, s, g) <=> s \in DOMAIN g.env /\ Parses(s, g.env[s])
         /\ Counts(3, s, g) <=> s \in DOMAIN g.file /\ FindConfigPath(g)
         /\ Counts(4, s, g)
<1>1. s \in DOMAIN Default
  BY DEF Default, Setting
<1>2. 1 # 2 /\ 1 # 3 /\ 2 # 3 /\ 4 # 2 /\ 4 # 3
  OBVIOUS
<1> QED
  BY <1>1, <1>2, SourceOf, Zenon DEF Counts

\* What Or has for a key of one of its functions.
LEMMA OrAt ==
  ASSUME NEW f, NEW h, NEW s
  PROVE  /\ DOMAIN Or(f, h) = DOMAIN f \cup DOMAIN h
         /\ s \in DOMAIN f => Or(f, h)[s] = f[s]
         /\ s \in DOMAIN h \ DOMAIN f => Or(f, h)[s] = h[s]
  BY Zenon DEF Or

\* The settings that run goes on with are those of the best sources.
LEMMA LoadIsBest ==
  ASSUME NEW g, NEW s \in Setting
  PROVE  Load(g).cfg[s] = Best(s, g)
<1> DEFINE base == IF FindConfigPath(g) THEN Overlay(Default, g.file) ELSE Default
           usable == {t \in DOMAIN g.env : Parses(t, g.env[t])}
           env == [t \in usable |-> g.env[t]]
           c == Or(g.flag, Or(env, base))
<1>1. Load(g).cfg = c
  BY Zenon DEF Load, RegisterFlags
<1>2. s \in DOMAIN Default
  BY Zenon DEF Default, Setting
<1>3. s \in DOMAIN base
  BY <1>2, OrAt, Zenon DEF Overlay
<1>4. DOMAIN env = usable /\ (s \in usable => env[s] = g.env[s])
  BY Zenon
<1>5. s \in usable <=> s \in DOMAIN g.env /\ Parses(s, g.env[s])
  BY Zenon
<1> HIDE DEF env, usable
<1>6. s \in DOMAIN g.file /\ FindConfigPath(g) => base[s] = g.file[s]
  BY Zenon DEF Overlay, Or
<1>7. ~ (s \in DOMAIN g.file /\ FindConfigPath(g)) => base[s] = Default[s]
  BY <1>2, Zenon DEF Overlay, Or
<1> HIDE DEF base
<1>8. s \in DOMAIN Or(env, base) /\ (s \in usable => Or(env, base)[s] = g.env[s])
      /\ (s \notin usable => Or(env, base)[s] = base[s])
  BY <1>3, <1>4, Zenon DEF Or
<1> DEFINE d == Or(env, base)
<1> HIDE DEF d
<1>9. (s \in DOMAIN g.flag => c[s] = g.flag[s]) /\ (s \notin DOMAIN g.flag => c[s] = d[s])
  BY <1>8, Zenon DEF d, Or
<1>10. (s \in usable => d[s] = g.env[s]) /\ (s \notin usable => d[s] = base[s])
  BY <1>8, Zenon DEF d
<1> HIDE DEF c
<1>a. CASE Counts(1, s, g)
  <2>1. c[s] = g.flag[s]
    BY <1>a, <1>9, CountsOf, Zenon
  <2>2. Best(s, g) = Sources(g)[1][s]
    BY <1>a, BestIs, Places, Zenon
  <2> QED
    BY <2>1, <2>2, <1>1, SourceOf, Zenon
<1>b. CASE ~ Counts(1, s, g) /\ Counts(2, s, g)
  <2>1. c[s] = g.env[s]
    BY <1>b, <1>5, <1>9, <1>10, CountsOf, Zenon
  <2>2. Best(s, g) = Sources(g)[2][s]
    BY <1>b, BestIs, Places, Zenon
  <2> QED
    BY <2>1, <2>2, <1>1, SourceOf, Zenon
<1>c. CASE ~ Counts(1, s, g) /\ ~ Counts(2, s, g) /\ Counts(3, s, g)
  <2>1. c[s] = g.file[s]
    BY <1>c, <1>5, <1>6, <1>9, <1>10, CountsOf, Zenon
  <2>2. Best(s, g) = Sources(g)[3][s]
    BY <1>c, BestIs, Places, Zenon
  <2> QED
    BY <2>1, <2>2, <1>1, SourceOf, Zenon
<1>d. CASE ~ Counts(1, s, g) /\ ~ Counts(2, s, g) /\ ~ Counts(3, s, g)
  <2>1. c[s] = Default[s]
    BY <1>d, <1>5, <1>7, <1>9, <1>10, CountsOf, Zenon
  <2>2. Best(s, g) = Sources(g)[4][s]
    <3>1. Counts(4, s, g)
      BY CountsOf, Zenon
    <3> QED
      BY <1>d, <3>1, BestIs, Places, Zenon
  <2> QED
    BY <2>1, <2>2, <1>1, SourceOf, Zenon
<1> QED
  BY <1>a, <1>b, <1>c, <1>d, Zenon

\* If run goes on, every setting has a text that can be used.
LEMMA LoadIsUsable ==
  ASSUME NEW g, Load(g).outcome = "go on", NEW s \in Setting
  PROVE  Load(g).cfg[s] # "x"
<1>1. /\ ~ (FindConfigPath(g) /\ OverlayFileError(g))
      /\ ~ FlagError(g)
      /\ ValidateCron(Load(g).cfg.cron) /\ ParseMemLimit(Load(g).cfg.goMemLimit)
  BY Zenon DEF Load
<1>2. CASE IsString(s)
  BY <1>1, <1>2, Zenon DEF IsString, ValidateCron, ParseMemLimit
<1>3. CASE ~ IsString(s)
  <2>1. s \in {"enabled", "cacheTTL"}
    BY <1>3, Zenon DEF IsString, Setting
  <2>2. s \in DOMAIN g.flag => g.flag[s] # "x"
    BY <1>1, <1>3, Zenon DEF FlagError, Parses
  <2>3. s \in DOMAIN g.env /\ Parses(s, g.env[s]) => g.env[s] # "x"
    BY <1>3, Zenon DEF Parses
  <2>4. s \in DOMAIN g.file /\ FindConfigPath(g) => g.file[s] # "x"
    BY <1>1, <1>3, <2>1, Zenon DEF OverlayFileError, LoadYAML, OverlayError, Parses
  <2>5. Default[s] # "x"
    <3>1. Default.enabled = "true" /\ Default.cacheTTL = "60s"
      BY Zenon DEF Default
    <3> QED
      BY <3>1, <2>1, Zenon
  <2>6. \E n \in 1 .. 4 : Counts(n, s, g) /\ Best(s, g) = Sources(g)[n][s]
    <3> DEFINE first(n) == Counts(n, s, g) /\ \A k \in 1 .. 4 : k < n => ~ Counts(k, s, g)
    <3>3. first(1) \/ first(2) \/ first(3) \/ first(4)
      BY Places, CountsOf, Zenon
    <3>4. \E n \in 1 .. 4 : first(n)
      BY Places, <3>3, Zenon
    <3> QED
      BY <3>4, BestIs, Zenon
  <2>7. PICK n \in 1 .. 4 : Counts(n, s, g) /\ Best(s, g) = Sources(g)[n][s]
    BY <2>6, Zenon
  <2>8. n = 1 \/ n = 2 \/ n = 3 \/ n = 4
    BY Places, Zenon
  <2>9. Best(s, g) # "x"
    BY <2>2, <2>3, <2>4, <2>5, <2>7, <2>8, CountsOf, SourceOf, Zenon
  <2> QED
    BY <2>9, LoadIsBest, Zenon
<1> QED
  BY <1>2, <1>3, Zenon

\* Until the first part is started, the settings are those that were loaded.
Loaded == main = "admin" => cfg = Load(given).cfg /\ Load(given).outcome = "go on"

\* Each setting that the parts are started with has the text of its best source,
\* and one that can be used, whatever the process is given.
THEOREM ExporterBestSourceWins == Spec => []BestSourceWins
<1>1. Init => Loaded
  BY Zenon DEF Init, Loaded
<1>2. Loaded /\ [Next]_vars => Loaded'
  <2> SUFFICES ASSUME Loaded, [Next]_vars, main' = "admin"
               PROVE  cfg' = Load(given').cfg /\ Load(given').outcome = "go on"
    BY Zenon DEF Loaded
  <2>1. CASE LoadConfig
    BY <2>1, Zenon DEF LoadConfig
  <2>2. CASE ~ LoadConfig
    <3>1. UNCHANGED <<given, cfg, main>>
      <4>1. CASE Main
        BY <4>1, <2>2, Zenon DEF Main, settings, StartAdmin, StartPool, RegisterError,
              StartSched, ProberError, StartProber, StartHttp, Wait, HttpShutdown,
              HttpShutdownReturn, ProberShutdown, ProberShutdownReturn, SchedStop,
              PoolShutdown, PoolShutdownReturn, AdminShutdown, Exit
      <4>2. CASE Signal
        BY <4>2, Zenon DEF Signal, settings
      <4>3. CASE UNCHANGED vars
        BY <4>3, Zenon DEF vars, settings
      <4>4. CASE \/ Worker \/ RefreshCall \/ RefreshReturn \/ RefreshExit
                 \/ ServeError \/ Request \/ RequestDone
                 \/ \E j \in Job : Fire(j) \/ JobCall(j) \/ JobCallReturn(j) \/ JobEnd(j)
                                   \/ JobSubmit(j)
        BY <4>4, Zenon DEF settings, Worker, WorkerTake, WorkerReturn, RefreshCall,
              RefreshReturn, RefreshExit, ServeError, Request, RequestDone, Fire, JobCall,
              JobCallReturn, JobEnd, JobSubmit
      <4> QED
        BY <4>1, <4>2, <4>3, <4>4, Zenon DEF Next
    <3> QED
      BY <3>1, Zenon DEF Loaded
  <2> QED
    BY <2>1, <2>2, Zenon
<1>3. Loaded => BestSourceWins
  BY LoadIsBest, LoadIsUsable, Zenon DEF Loaded, BestSourceWins
<1> QED
  BY <1>1, <1>2, <1>3, PTL DEF Spec

=============================================================================
