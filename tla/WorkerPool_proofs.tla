-------------------------- MODULE WorkerPool_proofs --------------------------
(***************************************************************************)
(* The safety properties of the worker pool for every number of workers,   *)
(* every buffer size and every number of submissions.                      *)
(***************************************************************************)
EXTENDS WorkerPool, FiniteSetTheorems, TLAPS

\* The inductive invariant: no conjunct but TypeOK and Lifecycle is inductive
\* by itself.
IInv ==
  /\ TypeOK
  /\ Lifecycle
  /\ NewestKeptInOrder
  /\ OneFate
  /\ NoneParkedAfterStop
  /\ NoIdleWithWork
  /\ DrainedOnReturn

-----------------------------------------------------------------------------
(* Facts about the operators.                                              *)

\* New leaves both sizes positive.
LEMMA Sizes == NWorkers \in Nat /\ NWorkers >= 1 /\ Cap \in Nat /\ Cap >= 1
  BY ArgsAssumption DEF NWorkers, Cap, AtLeastOne

\* A set of workers is finite.
LEMMA WorkersFinite ==
  ASSUME NEW S \in SUBSET Worker
  PROVE  IsFiniteSet(S) /\ Cardinality(S) \in Nat
<1>1. IsFiniteSet(Worker)
  BY Sizes, FS_Interval DEF Worker
<1> QED
  BY <1>1, FS_Subset, FS_CardinalityType, Zenon

\* A sequence that counts up to n holds an interval that ends with n.
LEMMA CountingSeqIsInterval ==
  ASSUME NEW n \in Nat, NEW s, Len(s) \in Nat,
         \A i \in 1..Len(s) : s[i] = n - Len(s) + i
  PROVE  {s[i] : i \in 1..Len(s)} = (n - Len(s) + 1)..n
<1>1. ASSUME NEW t \in {s[i] : i \in 1..Len(s)}
      PROVE  t \in (n - Len(s) + 1)..n
  OBVIOUS
<1>2. ASSUME NEW t \in (n - Len(s) + 1)..n
      PROVE  t \in {s[i] : i \in 1..Len(s)}
  <2>1. t - (n - Len(s)) \in 1..Len(s)
    OBVIOUS
  <2>2. s[t - (n - Len(s))] = t
    BY <2>1
  <2> QED
    BY <2>1, <2>2, Zenon
<1> QED
  BY <1>1, <1>2, Zenon

-----------------------------------------------------------------------------
(* The types.                                                              *)

LEMMA TypeInit == Init => TypeOK
<1> SUFFICES ASSUME Init PROVE TypeOK
  BY Zenon
<1>1. buf \in Seq(1..accepted) /\ Len(buf) <= Cap
  BY Sizes DEF Init
<1>2. accepted \in 0..MaxSubmits
  BY BoundAssumption DEF Init
<1>3. pc \in [Worker -> WorkerState] /\ cur \in [Worker -> 0..accepted]
  BY DEF Init, WorkerState
<1> QED
  BY <1>1, <1>2, <1>3, Zenon DEF Init, TypeOK, CallerState

\* What Submit does to the buffer when it accepts a task.
LEMMA EnqueueType ==
  ASSUME TypeOK, Enqueue, accepted' = accepted + 1, accepted < MaxSubmits
  PROVE  /\ buf' \in Seq(1..accepted')
         /\ Len(buf') <= Cap
         /\ discarded' \subseteq 1..accepted'
<1>1. accepted \in Nat /\ buf \in Seq(1..accepted) /\ Len(buf) <= Cap /\ Len(buf) \in Nat
  BY BoundAssumption DEF TypeOK
<1>2. buf \in Seq(1..accepted')
  BY <1>1
<1>3. CASE QueueLen >= Cap
  <2>1. buf # <<>> /\ Len(buf) >= 1
    BY <1>1, <1>3, Sizes DEF QueueLen
  <2>2. Tail(buf) \in Seq(1..accepted') /\ Len(Tail(buf)) = Len(buf) - 1 /\ Head(buf) \in 1..accepted'
    BY <1>2, <2>1
  <2>3. buf' = Append(Tail(buf), accepted + 1) /\ discarded' = discarded \cup {Head(buf)}
    BY <1>3, Zenon DEF Enqueue
  <2>4. discarded' \subseteq 1..accepted'
    <3>1. discarded \subseteq 1..accepted'
      BY <1>1 DEF TypeOK
    <3> QED
      BY <2>2, <2>3, <3>1, Zenon
  <2>5. buf' \in Seq(1..accepted') /\ Len(buf') = Len(buf)
    BY <2>2, <2>3, <1>1
  <2> QED
    BY <1>1, <2>4, <2>5, Zenon
<1>4. CASE ~(QueueLen >= Cap)
  <2>1. buf' = Append(buf, accepted + 1) /\ discarded' = discarded
    BY <1>4, Zenon DEF Enqueue
  <2>2. buf' \in Seq(1..accepted') /\ Len(buf') = Len(buf) + 1
    BY <2>1, <1>1, <1>2
  <2>3. discarded' \subseteq 1..accepted'
    BY <2>1, <1>1 DEF TypeOK
  <2> QED
    BY <2>2, <2>3, <1>1, <1>4, Sizes DEF QueueLen
<1> QED
  BY <1>3, <1>4, Zenon

LEMMA TypeNext == TypeOK /\ Lifecycle /\ [Next]_vars => TypeOK'
<1> SUFFICES ASSUME TypeOK, Lifecycle, [Next]_vars PROVE TypeOK'
  BY Zenon
<1>1. CASE Start
  BY <1>1, Zenon DEF Start, TypeOK, WorkerState, CallerState
<1>2. ASSUME NEW w \in Worker, Park(w) \/ Exit(w) PROVE TypeOK'
  BY <1>2, Zenon DEF Park, Exit, TypeOK, WorkerState
<1>3. ASSUME NEW w \in Worker, Take(w) PROVE TypeOK'
  <2>1. /\ Head(buf) \in 1..accepted
        /\ Tail(buf) \in Seq(1..accepted)
        /\ Len(Tail(buf)) = Len(buf) - 1
    BY <1>3 DEF Take, TypeOK
  <2>2. Len(Tail(buf)) <= Cap
    BY <2>1, Sizes DEF TypeOK
  <2>3. cur' \in [Worker -> 0..accepted']
    BY <1>3, <2>1 DEF Take, TypeOK
  <2>4. pc' \in [Worker -> WorkerState]
    BY <1>3, Zenon DEF Take, TypeOK, WorkerState
  <2> QED
    BY <1>3, <2>1, <2>2, <2>3, <2>4, Zenon DEF Take, TypeOK
<1>4. ASSUME NEW w \in Worker, Finish(w) PROVE TypeOK'
  <2>1. cur[w] \in 1..accepted
    BY <1>4, BoundAssumption DEF Finish, TypeOK, Lifecycle
  <2>2. finished' \subseteq 1..accepted'
    BY <1>4, <2>1, Zenon DEF Finish, TypeOK
  <2>3. pc' \in [Worker -> WorkerState] /\ cur' \in [Worker -> 0..accepted']
    BY <1>4, BoundAssumption DEF Finish, TypeOK, WorkerState
  <2> QED
    BY <1>4, <2>2, <2>3, Zenon DEF Finish, TypeOK
<1>5. CASE Submit
  <2>1. CASE stopped
    BY <1>5, <2>1, Zenon DEF Submit, TypeOK, vars
  <2>2. CASE ~stopped
    <3>1. /\ accepted < MaxSubmits /\ accepted' = accepted + 1 /\ Enqueue /\ Signal
          /\ UNCHANGED <<stopped, cur, caller, finished>>
      BY <1>5, <2>2, Zenon DEF Submit
    <3>2. pc' \in [Worker -> WorkerState]
      BY <3>1, Zenon DEF Signal, At, TypeOK, WorkerState
    <3>3. accepted' \in 0..MaxSubmits
      BY <3>1, BoundAssumption DEF TypeOK
    <3>4. cur' \in [Worker -> 0..accepted'] /\ finished' \subseteq 1..accepted'
      BY <3>1, BoundAssumption DEF TypeOK
    <3> QED
      BY <3>1, <3>2, <3>3, <3>4, EnqueueType, Zenon DEF TypeOK
  <2> QED
    BY <2>1, <2>2, Zenon
<1>6. CASE Stop
  <2>1. pc' \in [Worker -> WorkerState]
    BY <1>6, Zenon DEF Stop, Broadcast, TypeOK, WorkerState
  <2> QED
    BY <1>6, <2>1, Zenon DEF Stop, TypeOK, CallerState
<1>7. CASE WgWait
  BY <1>7, Zenon DEF WgWait, TypeOK, CallerState
<1>8. CASE UNCHANGED vars
  BY <1>8, Zenon DEF vars, TypeOK
<1> QED
  BY <1>1, <1>2, <1>3, <1>4, <1>5, <1>6, <1>7, <1>8, Zenon DEF Next, WorkerStep

-----------------------------------------------------------------------------
(* The life of the pool.                                                   *)

LEMMA LifecycleNext == TypeOK /\ Lifecycle /\ [Next]_vars => Lifecycle'
<1> SUFFICES ASSUME TypeOK, Lifecycle, [Next]_vars PROVE Lifecycle'
  BY Zenon
<1>1. CASE Start
  BY <1>1, Sizes, Zenon DEF Start, TypeOK, Lifecycle, Worker
<1>2. ASSUME NEW w \in Worker, Park(w) PROVE Lifecycle'
  BY <1>2, Zenon DEF Park, TypeOK, Lifecycle
<1>3. ASSUME NEW w \in Worker, Exit(w) PROVE Lifecycle'
  BY <1>3, Zenon DEF Exit, TypeOK, Lifecycle
<1>4. ASSUME NEW w \in Worker, Take(w) PROVE Lifecycle'
  <2>1. Head(buf) \in 1..accepted
    BY <1>4 DEF Take, TypeOK
  <2> QED
    BY <1>4, <2>1, BoundAssumption DEF Take, TypeOK, Lifecycle
<1>5. ASSUME NEW w \in Worker, Finish(w) PROVE Lifecycle'
  BY <1>5, BoundAssumption, Zenon DEF Finish, TypeOK, Lifecycle
<1>6. CASE Submit
  <2>1. CASE stopped
    BY <1>6, <2>1, Zenon DEF Submit, Lifecycle, vars
  <2>2. CASE ~stopped
    <3>1. Signal /\ UNCHANGED <<stopped, cur, caller>>
      BY <1>6, <2>2, Zenon DEF Submit
    <3> QED
      BY <3>1, <2>2, Zenon DEF Signal, At, TypeOK, Lifecycle
  <2> QED
    BY <2>1, <2>2, Zenon
<1>7. CASE Stop
  BY <1>7, Zenon DEF Stop, Broadcast, TypeOK, Lifecycle
<1>8. CASE WgWait
  BY <1>8, Zenon DEF WgWait, Lifecycle
<1>9. CASE UNCHANGED vars
  BY <1>9, Zenon DEF vars, Lifecycle
<1> QED
  BY <1>1, <1>2, <1>3, <1>4, <1>5, <1>6, <1>7, <1>8, <1>9, Zenon DEF Next, WorkerStep

-----------------------------------------------------------------------------
(* The discard-oldest policy.                                              *)

LEMMA NewestNext ==
  ASSUME TypeOK, NewestKeptInOrder, [Next]_vars
  PROVE  NewestKeptInOrder'
<1>1. accepted \in Nat /\ buf \in Seq(1..accepted) /\ Len(buf) \in Nat
  BY BoundAssumption DEF TypeOK
<1>2. CASE UNCHANGED <<buf, accepted>>
  BY <1>2, Zenon DEF NewestKeptInOrder
<1>3. ASSUME NEW w \in Worker, Take(w) PROVE NewestKeptInOrder'
  <2>1. buf # <<>> /\ buf' = Tail(buf) /\ accepted' = accepted
    BY <1>3, Zenon DEF Take
  <2>2. /\ Len(buf') = Len(buf) - 1
        /\ \A i \in 1..Len(buf') : buf'[i] = buf[i + 1]
    BY <1>1, <2>1
  <2> QED
    BY <1>1, <2>1, <2>2 DEF NewestKeptInOrder
<1>4. CASE Submit /\ ~stopped
  <2>1. Enqueue /\ accepted' = accepted + 1
    BY <1>4, Zenon DEF Submit
  <2>2. CASE QueueLen >= Cap
    <3>1. buf # <<>> /\ Len(buf) >= 1 /\ buf' = Append(Tail(buf), accepted + 1)
      BY <1>1, <2>1, <2>2, Sizes DEF Enqueue, QueueLen
    <3>2. /\ Tail(buf) \in Seq(1..accepted)
          /\ Len(Tail(buf)) = Len(buf) - 1
          /\ \A i \in 1..(Len(buf) - 1) : Tail(buf)[i] = buf[i + 1]
      BY <1>1, <3>1
    <3>3. /\ Len(buf') = Len(buf)
          /\ buf'[Len(buf)] = accepted + 1
          /\ \A i \in 1..(Len(buf) - 1) : buf'[i] = buf[i + 1]
      BY <1>1, <3>1, <3>2
    <3>4. ASSUME NEW i \in 1..Len(buf') PROVE buf'[i] = accepted' - Len(buf') + i
      <4>1. CASE i = Len(buf)
        BY <1>1, <2>1, <3>3, <4>1
      <4>2. CASE i \in 1..(Len(buf) - 1)
        <5>1. buf[i + 1] = accepted - Len(buf) + (i + 1)
          BY <1>1, <4>2 DEF NewestKeptInOrder
        <5> QED
          BY <1>1, <2>1, <3>3, <4>2, <5>1
      <4> QED
        BY <1>1, <3>3, <4>1, <4>2
    <3> QED
      BY <3>4, Zenon DEF NewestKeptInOrder
  <2>3. CASE ~(QueueLen >= Cap)
    <3>1. buf' = Append(buf, accepted + 1)
      BY <2>1, <2>3, Zenon DEF Enqueue
    <3>2. /\ Len(buf') = Len(buf) + 1
          /\ buf'[Len(buf) + 1] = accepted + 1
          /\ \A i \in 1..Len(buf) : buf'[i] = buf[i]
      BY <1>1, <3>1
    <3>3. ASSUME NEW i \in 1..Len(buf') PROVE buf'[i] = accepted' - Len(buf') + i
      BY <1>1, <2>1, <3>2 DEF NewestKeptInOrder
    <3> QED
      BY <3>3, Zenon DEF NewestKeptInOrder
  <2> QED
    BY <2>2, <2>3, Zenon
<1> QED
  BY <1>2, <1>3, <1>4, Zenon
     DEF Next, WorkerStep, Start, Park, Exit, Finish, Submit, Stop, WgWait, vars

-----------------------------------------------------------------------------
(* The fate of every task.                                                 *)

\* A step that moves no task keeps every task where it is.
LEMMA FateUnmoved ==
  ASSUME OneFate, UNCHANGED <<buf, cur, accepted, discarded, finished>>,
         At("run")' = At("run")
  PROVE  OneFate'
<1>1. Pending' = Pending /\ Running' = Running
  BY Zenon DEF Pending, Running
<1> QED
  BY <1>1, Zenon DEF OneFate

LEMMA FateNext ==
  ASSUME TypeOK, Lifecycle, NewestKeptInOrder, OneFate, [Next]_vars
  PROVE  OneFate'
<1>1. TypeOK' /\ NewestKeptInOrder'
  BY TypeNext, NewestNext, Zenon
<1>2. /\ Pending = (accepted - Len(buf) + 1)..accepted
      /\ Pending' = (accepted' - Len(buf') + 1)..accepted'
  <2>1. accepted \in Nat /\ Len(buf) \in Nat /\ accepted' \in Nat /\ Len(buf') \in Nat
    BY <1>1, BoundAssumption DEF TypeOK
  <2>2. Pending = (accepted - Len(buf) + 1)..accepted
    BY <2>1, CountingSeqIsInterval, Zenon DEF Pending, NewestKeptInOrder
  <2>3. Pending' = (accepted' - Len(buf') + 1)..accepted'
    BY <1>1, <2>1, CountingSeqIsInterval, Zenon DEF Pending, NewestKeptInOrder
  <2> QED
    BY <2>2, <2>3, Zenon
<1>3. accepted \in Nat /\ Len(buf) \in Nat /\ buf \in Seq(1..accepted)
  BY BoundAssumption DEF TypeOK
<1>4. CASE Start
  <2>1. At("run") = {} /\ At("run")' = {}
    BY <1>4, Zenon DEF Start, At, Lifecycle, TypeOK
  <2> QED
    BY <1>4, <2>1, FateUnmoved, Zenon DEF Start
<1>5. ASSUME NEW w \in Worker, Park(w) \/ Exit(w) PROVE OneFate'
  <2>1. At("run")' = At("run")
    BY <1>5, Zenon DEF Park, Exit, At, TypeOK
  <2> QED
    BY <1>5, <2>1, FateUnmoved, Zenon DEF Park, Exit
<1>6. ASSUME NEW w \in Worker, Take(w) PROVE OneFate'
  <2>1. /\ buf # <<>> /\ buf' = Tail(buf) /\ cur' = [cur EXCEPT ![w] = Head(buf)]
        /\ UNCHANGED <<accepted, discarded, finished>>
    BY <1>6, Zenon DEF Take
  <2>2. w \notin At("run") /\ At("run")' = At("run") \cup {w}
    BY <1>6, Zenon DEF Take, At, TypeOK
  <2>3. Running' = Running \cup {Head(buf)}
    BY <2>1, <2>2, Zenon DEF Running, At, TypeOK
  <2>4. Head(buf) = accepted - Len(buf) + 1 /\ Len(buf') = Len(buf) - 1 /\ Len(buf) >= 1
    BY <1>3, <2>1 DEF NewestKeptInOrder
  <2>5. Head(buf) \in Pending /\ Pending' = Pending \ {Head(buf)}
    BY <1>2, <1>3, <2>1, <2>4
  <2>6. Head(buf) \notin Running \cup finished \cup discarded
    BY <2>5, Zenon DEF OneFate
  <2>7. Pending' \cup Running' \cup finished' \cup discarded' = 1..accepted'
    BY <2>1, <2>3, <2>5, Zenon DEF OneFate
  <2>8. \A t \in Pending' : t \notin Running' \cup finished' \cup discarded'
    BY <2>1, <2>3, <2>5, Zenon DEF OneFate
  <2>9. \A v \in At("run")' : cur'[v] \notin finished' \cup discarded'
    BY <2>1, <2>2, <2>6, Zenon DEF OneFate, At, TypeOK
  <2>10. \A u, v \in At("run")' : cur'[u] = cur'[v] => u = v
    <3>1. \A v \in At("run") : cur'[v] = cur[v] /\ cur[v] # Head(buf)
      BY <2>1, <2>2, <2>6, Zenon DEF Running, At, TypeOK
    <3>2. cur'[w] = Head(buf)
      BY <2>1, Zenon DEF TypeOK
    <3> QED
      BY <2>2, <3>1, <3>2, Zenon DEF OneFate
  <2> QED
    BY <2>1, <2>7, <2>8, <2>9, <2>10, Zenon DEF OneFate
<1>7. ASSUME NEW w \in Worker, Finish(w) PROVE OneFate'
  <2>1. /\ UNCHANGED <<buf, accepted, discarded>>
        /\ finished' = finished \cup {cur[w]}
        /\ cur' = [cur EXCEPT ![w] = 0]
    BY <1>7, Zenon DEF Finish
  <2>2. w \in At("run") /\ At("run")' = At("run") \ {w}
    BY <1>7, Zenon DEF Finish, At, TypeOK
  <2>3. Pending' = Pending
    BY <2>1, Zenon DEF Pending
  <2>4. \A v \in At("run")' : cur'[v] = cur[v] /\ cur[v] # cur[w]
    BY <2>1, <2>2, Zenon DEF OneFate, At, TypeOK
  <2>5. Running' = Running \ {cur[w]} /\ cur[w] \in Running
    BY <2>1, <2>2, <2>4, Zenon DEF Running
  <2>6. Pending' \cup Running' \cup finished' \cup discarded' = 1..accepted'
    BY <2>1, <2>3, <2>5, Zenon DEF OneFate
  <2>7. \A t \in Pending' : t \notin Running' \cup finished' \cup discarded'
    BY <2>1, <2>3, <2>5, Zenon DEF OneFate
  <2>8. \A v \in At("run")' : cur'[v] \notin finished' \cup discarded'
    BY <2>1, <2>2, <2>4 DEF OneFate
  <2>9. finished' \cap discarded' = {}
    BY <2>1, <2>2, Zenon DEF OneFate
  <2>10. \A u, v \in At("run")' : cur'[u] = cur'[v] => u = v
    BY <2>2, <2>4, Zenon DEF OneFate
  <2> QED
    BY <2>6, <2>7, <2>8, <2>9, <2>10, Zenon DEF OneFate
<1>8. CASE Submit
  <2>1. CASE stopped
    BY <1>8, <2>1, FateUnmoved, Zenon DEF Submit, vars, At
  <2>2. CASE ~stopped
    <3>1. Enqueue /\ Signal /\ accepted' = accepted + 1 /\ UNCHANGED <<cur, finished>>
      BY <1>8, <2>2, Zenon DEF Submit
    <3>2. At("run")' = At("run") /\ Running' = Running
      <4>1. At("run")' = At("run")
        BY <3>1, Zenon DEF Signal, At, TypeOK
      <4> QED
        BY <3>1, <4>1, Zenon DEF Running
    <3>3. accepted' \notin Running \cup finished \cup discarded
      BY <1>3, <3>1 DEF OneFate
    <3>4. 1..accepted' = 1..accepted \cup {accepted'}
      BY <1>3, <3>1
    <3>5. CASE QueueLen >= Cap
      <4>1. /\ buf # <<>> /\ Len(buf) >= 1
            /\ discarded' = discarded \cup {Head(buf)}
            /\ buf' = Append(Tail(buf), accepted + 1)
        BY <1>3, <3>1, <3>5, Sizes DEF Enqueue, QueueLen
      <4>2. Head(buf) = accepted - Len(buf) + 1 /\ Len(buf') = Len(buf)
        BY <1>3, <4>1 DEF NewestKeptInOrder
      <4>3. Head(buf) \in Pending /\ Pending' = (Pending \ {Head(buf)}) \cup {accepted'}
        BY <1>2, <1>3, <3>1, <4>1, <4>2
      <4>4. Head(buf) \notin Running \cup finished \cup discarded /\ Head(buf) # accepted'
        BY <1>2, <1>3, <3>1, <4>3 DEF OneFate
      <4>5. Pending' \cup Running' \cup finished' \cup discarded' = 1..accepted'
        BY <3>1, <3>2, <3>4, <4>1, <4>3 DEF OneFate
      <4>6. \A t \in Pending' : t \notin Running' \cup finished' \cup discarded'
        BY <3>1, <3>2, <3>3, <4>1, <4>3, <4>4, SMTT(30) DEF OneFate
      <4>7. \A v \in At("run")' : cur'[v] \notin finished' \cup discarded'
        BY <3>1, <3>2, <4>1, <4>4, Zenon DEF OneFate, Running
      <4>8. finished' \cap discarded' = {}
        BY <3>1, <4>1, <4>4, Zenon DEF OneFate
      <4> QED
        BY <3>1, <3>2, <4>5, <4>6, <4>7, <4>8 DEF OneFate
    <3>6. CASE ~(QueueLen >= Cap)
      <4>1. discarded' = discarded /\ buf' = Append(buf, accepted + 1)
        BY <3>1, <3>6, Zenon DEF Enqueue
      <4>2. Pending' = Pending \cup {accepted'}
        <5>1. Len(buf') = Len(buf) + 1
          BY <1>3, <4>1
        <5> QED
          BY <1>2, <1>3, <3>1, <5>1
      <4>3. Pending' \cup Running' \cup finished' \cup discarded' = 1..accepted'
        BY <3>1, <3>2, <3>4, <4>1, <4>2, SMTT(30) DEF OneFate
      <4>4. \A t \in Pending' : t \notin Running' \cup finished' \cup discarded'
        BY <3>1, <3>2, <3>3, <4>1, <4>2, Zenon DEF OneFate
      <4> QED
        BY <3>1, <3>2, <4>1, <4>3, <4>4 DEF OneFate
    <3> QED
      BY <3>5, <3>6, Zenon
  <2> QED
    BY <2>1, <2>2, Zenon
<1>9. CASE Stop
  <2>1. At("run")' = At("run")
    BY <1>9, Zenon DEF Stop, Broadcast, At, TypeOK
  <2> QED
    BY <1>9, <2>1, FateUnmoved, Zenon DEF Stop
<1>10. CASE WgWait \/ UNCHANGED vars
  BY <1>10, FateUnmoved, Zenon DEF WgWait, vars, At
<1> QED
  BY <1>4, <1>5, <1>6, <1>7, <1>8, <1>9, <1>10, Zenon DEF Next, WorkerStep

-----------------------------------------------------------------------------
(* Waking and sleeping.                                                    *)

LEMMA NoneParkedNext ==
  ASSUME TypeOK, NoneParkedAfterStop, [Next]_vars
  PROVE  NoneParkedAfterStop'
<1>1. CASE Start
  BY <1>1, Zenon DEF Start, NoneParkedAfterStop, At
<1>2. ASSUME NEW w \in Worker, WorkerStep(w) PROVE NoneParkedAfterStop'
  BY <1>2, Zenon DEF WorkerStep, Park, Exit, Take, Finish, NoneParkedAfterStop, At, TypeOK
<1>3. CASE Submit
  BY <1>3, Zenon DEF Submit, vars, NoneParkedAfterStop, At
<1>4. CASE Stop
  BY <1>4, Zenon DEF Stop, Broadcast, NoneParkedAfterStop, At
<1>5. CASE WgWait \/ UNCHANGED vars
  BY <1>5, Zenon DEF WgWait, vars, NoneParkedAfterStop, At
<1> QED
  BY <1>1, <1>2, <1>3, <1>4, <1>5, Zenon DEF Next

\* One worker more, or one less, on its way to the buffer.
LEMMA CountWorkers ==
  ASSUME NEW S \in SUBSET Worker, NEW w \in Worker
  PROVE  /\ Cardinality(S) \in Nat
         /\ w \notin S => Cardinality(S \cup {w}) = Cardinality(S) + 1
         /\ w \in S => Cardinality(S \ {w}) = Cardinality(S) - 1
  BY WorkersFinite, FS_AddElement, FS_RemoveElement, Zenon

LEMMA NoIdleNext ==
  ASSUME TypeOK, Lifecycle, NoneParkedAfterStop, NoIdleWithWork, [Next]_vars
  PROVE  NoIdleWithWork'
<1> DEFINE R == At("ready")
           P == At("parked")
<1>1. /\ R \in SUBSET Worker /\ Cardinality(R) \in Nat
      /\ Len(buf) \in Nat /\ buf \in Seq(1..accepted)
  BY WorkersFinite DEF At, TypeOK
<1>2. CASE Start
  BY <1>2, Zenon DEF Start, NoIdleWithWork, At
<1>3. ASSUME NEW w \in Worker, Park(w) PROVE NoIdleWithWork'
  <2>1. Len(buf') = 0
    BY <1>3, Zenon DEF Park
  <2>2. Cardinality(R') \in Nat
    BY WorkersFinite, Zenon DEF At
  <2> QED
    BY <2>1, <2>2 DEF NoIdleWithWork, QueueLen
<1>4. ASSUME NEW w \in Worker, Exit(w) PROVE NoIdleWithWork'
  BY <1>4, SMTT(30) DEF Exit, NoneParkedAfterStop, NoIdleWithWork, At, TypeOK
<1>5. ASSUME NEW w \in Worker, Take(w) PROVE NoIdleWithWork'
  <2>1. w \in R /\ R' = R \ {w} /\ P' = P
    BY <1>5, Zenon DEF Take, At, TypeOK
  <2>2. Len(buf') = Len(buf) - 1
    BY <1>1, <1>5 DEF Take
  <2> QED
    BY <1>1, <2>1, <2>2, CountWorkers DEF NoIdleWithWork, QueueLen
<1>6. ASSUME NEW w \in Worker, Finish(w) PROVE NoIdleWithWork'
  <2>1. w \notin R /\ R' = R \cup {w} /\ P' = P
    BY <1>6, Zenon DEF Finish, At, TypeOK
  <2>2. Len(buf') = Len(buf)
    BY <1>6, Zenon DEF Finish
  <2> QED
    BY <1>1, <2>1, <2>2, CountWorkers, SMTT(30) DEF NoIdleWithWork, QueueLen
<1>7. CASE Submit /\ ~stopped
  <2>1. Enqueue /\ Signal
    BY <1>7, Zenon DEF Submit
  <2>2. Len(buf') <= Len(buf) + 1 /\ Len(buf') \in Nat
    <3>1. Cap >= 1 /\ Cap \in Nat
      BY Sizes, Zenon
    <3>2. CASE QueueLen >= Cap
      <4>1. Len(Tail(buf)) = Len(buf) - 1 /\ Tail(buf) \in Seq(1..accepted)
        BY <1>1, <3>1, <3>2 DEF QueueLen
      <4>2. buf' = Append(Tail(buf), accepted + 1)
        BY <2>1, <3>2, Zenon DEF Enqueue
      <4> QED
        BY <1>1, <4>1, <4>2
    <3>3. CASE ~(QueueLen >= Cap)
      BY <1>1, <2>1, <3>3 DEF Enqueue
    <3> QED
      BY <3>2, <3>3, Zenon
  <2>3. CASE P = {}
    BY <2>1, <2>3, Zenon DEF Signal, NoIdleWithWork, At
  <2>4. CASE P # {}
    <3>1. PICK w \in P : pc' = [pc EXCEPT ![w] = "ready"]
      BY <2>1, <2>4, Zenon DEF Signal
    <3>2. w \in Worker /\ w \notin R /\ R' = R \cup {w}
      BY <3>1, Zenon DEF At, TypeOK
    <3>3. Cardinality(R') = Cardinality(R) + 1
      BY <1>1, <3>2, CountWorkers, Zenon
    <3>4. Len(buf) <= Cardinality(R)
      BY <2>4, Zenon DEF NoIdleWithWork, QueueLen
    <3> QED
      BY <1>1, <2>2, <3>3, <3>4 DEF NoIdleWithWork, QueueLen
  <2> QED
    BY <2>3, <2>4, Zenon
<1>8. CASE Stop
  BY <1>8, Zenon DEF Stop, Broadcast, NoIdleWithWork, At
<1>9. CASE WgWait \/ UNCHANGED vars
  BY <1>9, Zenon DEF WgWait, vars, NoIdleWithWork, QueueLen, At
<1> QED
  BY <1>2, <1>3, <1>4, <1>5, <1>6, <1>7, <1>8, <1>9, Zenon DEF Next, WorkerStep, Submit

-----------------------------------------------------------------------------
(* The shutdown.                                                           *)

LEMMA DrainedNext ==
  ASSUME TypeOK, Lifecycle, OneFate, DrainedOnReturn, [Next]_vars
  PROVE  DrainedOnReturn'
<1>1. CASE caller = "returned"
  <2>1. \A w \in Worker : pc[w] = "exited"
    BY <1>1, Zenon DEF DrainedOnReturn, InFlight, Lifecycle
  <2>2. stopped
    BY <1>1, Zenon DEF Lifecycle
  <2>3. UNCHANGED vars
    BY <1>1, <2>1, <2>2, Zenon
       DEF Next, WorkerStep, Start, Park, Exit, Take, Finish, Submit, Stop, WgWait
  <2> QED
    BY <2>3, Zenon DEF vars, DrainedOnReturn, InFlight
<1>2. CASE caller # "returned" /\ caller' = "returned"
  <2>1. /\ caller = "waiting" /\ InFlight = {}
        /\ UNCHANGED <<buf, pc, accepted, discarded, finished>>
    BY <1>2, Zenon DEF Next, WorkerStep, Start, Park, Exit, Take, Finish, Submit, Stop,
                WgWait, vars
  <2>2. \A w \in Worker : pc[w] = "exited"
    BY <2>1, Zenon DEF InFlight, Lifecycle
  <2>3. 1 \in Worker
    BY Sizes DEF Worker
  <2>4. buf = <<>>
    BY <2>2, <2>3, Zenon DEF Lifecycle
  <2>5. Pending = {} /\ Running = {}
    BY <2>2, <2>4 DEF Pending, Running, At
  <2>6. finished \cup discarded = 1..accepted
    BY <2>5, Zenon DEF OneFate
  <2> QED
    BY <2>1, <2>6, Zenon DEF DrainedOnReturn, InFlight
<1>3. CASE caller' # "returned"
  BY <1>3, Zenon DEF DrainedOnReturn
<1> QED
  BY <1>1, <1>2, <1>3, Zenon

-----------------------------------------------------------------------------
(* The theorems.                                                           *)

LEMMA InvInit == Init => IInv
<1> SUFFICES ASSUME Init PROVE IInv
  BY Zenon
<1>1. TypeOK
  BY TypeInit, Zenon
<1>2. Lifecycle
  BY Zenon DEF Init, Lifecycle
<1>3. NewestKeptInOrder
  BY DEF Init, NewestKeptInOrder
<1>4. OneFate
  <2>1. At("run") = {} /\ Pending = {} /\ Running = {}
    BY DEF Init, At, Pending, Running
  <2> QED
    BY <2>1 DEF Init, OneFate
<1>5. NoneParkedAfterStop /\ NoIdleWithWork /\ DrainedOnReturn
  BY Zenon DEF Init, NoneParkedAfterStop, NoIdleWithWork, DrainedOnReturn, At
<1> QED
  BY <1>1, <1>2, <1>3, <1>4, <1>5, Zenon DEF IInv

\* The inductive invariant holds in every state the pool can reach.
THEOREM PoolInvariant == Spec => []IInv
<1>1. IInv /\ [Next]_vars => IInv'
  BY TypeNext, LifecycleNext, NewestNext, FateNext, NoneParkedNext, NoIdleNext, Zenon,
     DrainedNext DEF IInv
<1> QED
  BY InvInit, <1>1, PTL DEF Spec

\* The state of WorkerPool keeps its types and buf its capacity.
THEOREM PoolTypeOK == Spec => []TypeOK
<1>1. IInv => TypeOK
  BY Zenon DEF IInv
<1> QED
  BY <1>1, PoolInvariant, PTL

\* Submit drops the oldest task, for any capacity and any history.
THEOREM PoolNewestKeptInOrder == Spec => []NewestKeptInOrder
<1>1. IInv => NewestKeptInOrder
  BY Zenon DEF IInv
<1> QED
  BY <1>1, PoolInvariant, PTL

\* No task is lost or run twice, for any number of workers.
THEOREM PoolOneFate == Spec => []OneFate
<1>1. IInv => OneFate
  BY Zenon DEF IInv
<1> QED
  BY <1>1, PoolInvariant, PTL

\* One Signal per Submit keeps enough workers awake, for any number of them.
THEOREM PoolNoIdleWithWork == Spec => []NoIdleWithWork
<1>1. IInv => NoIdleWithWork
  BY Zenon DEF IInv
<1> QED
  BY <1>1, PoolInvariant, PTL

\* Shutdown leaves no task behind when it returns.
THEOREM PoolDrainedOnReturn == Spec => []DrainedOnReturn
<1>1. IInv => DrainedOnReturn
  BY Zenon DEF IInv
<1> QED
  BY <1>1, PoolInvariant, PTL

-----------------------------------------------------------------------------
(* The refinement.                                                         *)

\* A worker that is not running leaves room for one more task in flight.
LEMMA RoomForOne ==
  ASSUME TypeOK, NEW w \in Worker, pc[w] # "run"
  PROVE  Cardinality(Running) \in Nat /\ Cardinality(Running) < NWorkers
<1>1. At("run") \subseteq Worker \ {w}
  BY Zenon DEF At
<1>2. IsFiniteSet(Worker) /\ Cardinality(Worker) = NWorkers
  BY Sizes, FS_Interval DEF Worker
<1>3. IsFiniteSet(Worker \ {w}) /\ Cardinality(Worker \ {w}) = NWorkers - 1
  BY <1>2, FS_RemoveElement, Zenon
<1>4. IsFiniteSet(At("run")) /\ Cardinality(At("run")) <= NWorkers - 1
  BY <1>1, <1>3, FS_Subset
<1>5. IsFiniteSet(Running) /\ Cardinality(Running) <= Cardinality(At("run"))
  <2> DEFINE f == [v \in At("run") |-> cur[v]]
  <2>1. f \in Surjection(At("run"), Running)
    BY Zenon DEF Surjection, Running
  <2> QED
    BY <1>4, <2>1, FS_Surjection, Zenon
<1>6. Cardinality(Running) \in Nat /\ Cardinality(At("run")) \in Nat
  BY <1>4, <1>5, FS_CardinalityType, SMTT(30)
<1> QED
  BY <1>4, <1>5, <1>6, Sizes

LEMMA StepSimulation ==
  ASSUME IInv, IInv', [Next]_vars
  PROVE  [Executor!Next]_Executor!execVars
<1> USE DEF IInv
<1>1. Cap \in Nat /\ Len(buf) \in Nat /\ Len(buf) <= Cap /\ Cap >= 1
  BY Sizes DEF TypeOK
<1>2. CASE Start
  <2>1. Running' = Running
    <3>1. At("run") = {} /\ At("run")' = {}
      BY <1>2, Zenon DEF Start, At, Lifecycle
    <3> QED
      BY <3>1, Zenon DEF Running
  <2> QED
    BY <1>2, <2>1, Zenon DEF Start, Executor!execVars
<1>3. ASSUME NEW w \in Worker, Park(w) \/ Exit(w)
      PROVE  UNCHANGED Executor!execVars
  <2>1. At("run")' = At("run") /\ UNCHANGED <<buf, stopped, cur, caller, accepted, discarded, finished>>
    BY <1>3, Zenon DEF Park, Exit, At, TypeOK
  <2>2. Running' = Running
    BY <2>1, Zenon DEF Running
  <2> QED
    BY <2>1, <2>2, Zenon DEF Executor!execVars
<1>4. ASSUME NEW w \in Worker, Take(w) PROVE Executor!Begin
  <2>1. Running' = Running \cup {Head(buf)}
    <3>1. cur' = [cur EXCEPT ![w] = Head(buf)] /\ w \notin At("run") /\ At("run")' = At("run") \cup {w}
      BY <1>4, Zenon DEF Take, At, TypeOK
    <3> QED
      BY <3>1, SMTT(30) DEF Running, At, TypeOK
  <2>2. Cardinality(Running) < NWorkers
    BY <1>4, RoomForOne, Zenon DEF Take
  <2>3. Executor!Cardinality(Running) = Cardinality(Running)
    BY Zenon DEF Executor!Cardinality, Cardinality
  <2> QED
    BY <1>4, <2>1, <2>2, <2>3, SMTT(30) DEF Take, Executor!Begin
<1>5. ASSUME NEW w \in Worker, Finish(w) PROVE Executor!End(cur[w]) /\ cur[w] \in Running
  <2>1. /\ w \in At("run") /\ At("run")' = At("run") \ {w}
        /\ cur' = [cur EXCEPT ![w] = 0]
    BY <1>5, SMTT(30) DEF Finish, At, TypeOK
  <2>2. \A v \in At("run")' : cur'[v] = cur[v] /\ cur[v] # cur[w]
    BY <2>1, SMTT(30) DEF OneFate, At, TypeOK
  <2>3. Running' = Running \ {cur[w]} /\ cur[w] \in Running
    BY <2>1, <2>2, Zenon DEF Running
  <2> QED
    BY <1>5, <2>3, SMTT(30) DEF Finish, Executor!End
<1>6. CASE Submit /\ ~stopped
  <2>1. /\ Enqueue /\ Signal /\ accepted' = accepted + 1
        /\ UNCHANGED <<stopped, cur, caller, finished>>
    BY <1>6, SMTT(30) DEF Submit
  <2>2. Running' = Running
    <3>1. At("run")' = At("run")
      BY <2>1, Zenon DEF Signal, At, TypeOK
    <3> QED
      BY <2>1, <3>1, SMTT(30) DEF Running
  <2>3. CASE QueueLen >= Cap
    <3>1. Len(buf) = Cap
      BY <1>1, <2>3 DEF QueueLen
    <3> QED
      BY <1>6, <2>1, <2>2, <2>3, <3>1, SMTT(30) DEF Enqueue, Executor!Displace, Executor!Next
  <2>4. CASE ~(QueueLen >= Cap)
    <3>1. Len(buf) < Cap
      BY <1>1, <2>4 DEF QueueLen
    <3> QED
      BY <1>6, <2>1, <2>2, <2>4, <3>1, SMTT(30) DEF Enqueue, Executor!Enqueue, Executor!Next
  <2> QED
    BY <2>3, <2>4, Zenon
<1>7. CASE Stop
  <2>1. Running' = Running
    <3>1. At("run")' = At("run")
      BY <1>7, SMTT(30) DEF Stop, Broadcast, At, TypeOK
    <3> QED
      BY <1>7, <3>1, SMTT(30) DEF Stop, Running
  <2>2. ~stopped
    BY <1>7, Zenon DEF Stop, Lifecycle
  <2> QED
    BY <1>7, <2>1, <2>2, Zenon DEF Stop, Executor!Close, Executor!Next
<1>8. CASE WgWait
  <2>1. stopped /\ \A w \in Worker : pc[w] = "exited"
    BY <1>8, Zenon DEF WgWait, InFlight, Lifecycle
  <2>2. 1 \in Worker
    BY Sizes, SMTT(30) DEF Worker
  <2>3. buf = <<>> /\ Running = {} /\ Running' = Running
    BY <1>8, <2>1, <2>2, Zenon DEF WgWait, Lifecycle, Running, At
  <2> QED
    BY <1>8, <2>1, <2>3, SMTT(30) DEF WgWait, Executor!Return, Executor!Next
<1>9. CASE UNCHANGED vars
  <2>1. Running' = Running
    BY <1>9, Zenon DEF vars, Running, At
  <2> QED
    BY <1>9, <2>1, Zenon DEF vars, Executor!execVars, Executor!Next
<1> QED
  BY <1>2, <1>3, <1>4, <1>5, <1>6, <1>7, <1>8, <1>9, SMTT(30)
     DEF Next, WorkerStep, Submit, Executor!Next

\* The pool implements the discard-oldest executor of its size.
THEOREM PoolImplementsExecutor == Spec => ImplementsExecutor
<1>1. Init => Executor!Init
  <2> SUFFICES ASSUME Init PROVE Executor!Init
    BY Zenon
  <2>1. Running = {}
    BY Zenon DEF Init, Running, At
  <2> QED
    BY <2>1, Zenon DEF Init, Executor!Init
<1>2. IInv /\ IInv' /\ [Next]_vars => [Executor!Next]_Executor!execVars
  BY StepSimulation, Zenon
<1> QED
  BY <1>1, <1>2, PoolInvariant, PTL DEF Spec, ImplementsExecutor, Executor!Spec
=============================================================================
