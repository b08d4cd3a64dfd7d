---------------------------- MODULE Prober_proofs ----------------------------
(***************************************************************************)
(* Proofs about Prober, for any clusters and probes.  A probe object is in *)
(* the map, or is the one that removeProbe is at work on, or does not      *)
(* exist; only an object that exists is evaluated or counts what it sends; *)
(* and removeProbe lets go of it when its two loops, its consumer and the  *)
(* evaluation are known to be done with it.  Callbacks that outlive the    *)
(* consumer's Shutdown are no part of the invariant.                       *)
(***************************************************************************)
EXTENDS Prober, TLAPS

\* The map and the objects: a probe that exists is in the map under its
\* cluster's name, or is being removed.
Map ==
  /\ \A c \in Cluster : probes[c] # None => owner[probes[c]] = c
  /\ \A i \in Probe :
       owner[i] # None => probes[owner[i]] = i \/ (op \in Removing /\ cur = i)
  /\ op \in Removing =>
       /\ cur \in Probe /\ owner[cur] # None
       /\ probes[owner[cur]] = None
  /\ op = "tryStart" =>
       /\ cur \in Probe /\ owner[cur] # None
       /\ probes[owner[cur]] = cur
       /\ retry[cur] = "none"

\* Nothing runs for an object that does not exist.
Nobody ==
  \A i \in Probe :
    owner[i] = None =>
      /\ loop[i] = "none" /\ retry[i] = "none"
      /\ cons[i] = "none" /\ i \notin evalSet

\* A consumer that runs is known to the probe, or is about to be.
Known ==
  \A i \in Probe : cons[i] = "running" => started[i] \/ retry[i] = "set"

\* What removeProbe has waited for.
Waited ==
  op = "clear" => loop[cur] = "exited" /\ retry[cur] = "exited" /\ cons[cur] # "running"

\* evalTick holds evalMu for as long as it has probes to evaluate.
Locked ==
  /\ eval = "pass" <=> evalMu
  /\ eval # "pass" => evalSet = {}

\* Every status is that of a probe that exists.
Sampled == \A c \in rated : \E i \in Probe : owner[i] = c

\* What is left to add and to remove, and whose work it is.
Work ==
  /\ \A c \in toAdd : probes[c] = None
  /\ \A c \in toRemove : probes[c] # None
  /\ main # "remove" => \A c \in toRemove : listed # {} /\ c \notin listed

Turns ==
  /\ main \in {"begin", "start", "failed"} <=> refresh = "none"
  /\ refresh = "select" => Idle
  /\ main \in {"up", "wait"} /\ refresh = "exited" => Idle
  /\ main \in {"remove", "done"} =>
       /\ refresh = "exited" /\ toAdd = {}
       /\ \A c \in Cluster : probes[c] # None => c \in toRemove
  /\ main = "done" => Idle
  /\ main = "begin" => Idle
  /\ main \in {"begin", "start", "failed"} => eval = "none"

IInv ==
  TypeOK /\ Map /\ Nobody /\ Known /\ Waited /\ Locked /\ Sampled /\ Work /\ Turns

-----------------------------------------------------------------------------
\* Nothing exists before Start.
LEMMA InitIInv == Init => IInv
<1> SUFFICES ASSUME Init PROVE IInv
  BY Zenon
<1> USE DEF Init
<1>1. TypeOK
  <2>1. rootDone \in BOOLEAN /\ evalMu \in BOOLEAN
    BY Zenon
  <2>2. cancelled \in [Probe -> BOOLEAN] /\ started \in [Probe -> BOOLEAN]
    BY Zenon
  <2> QED
    BY <2>1, <2>2, Zenon DEF TypeOK
<1>2. Map /\ Nobody /\ Known /\ Waited
  BY Zenon DEF Map, Nobody, Known, Waited, Removing
<1>3. Locked
  BY Zenon DEF Locked
<1>4. Sampled /\ Work
  BY Zenon DEF Sampled, Work
<1>5. Turns
  BY Zenon DEF Turns, Idle
<1> QED
  BY <1>1, <1>2, <1>3, <1>4, <1>5, Zenon DEF IInv

\* The steps of main and of refreshLoop outside addProbe and removeProbe.
MainStep ==
  \/ StartError \/ StartReturn \/ Signal
  \/ Shutdown \/ ShutdownRemove \/ ShutdownReturn
  \/ RefreshDone \/ RefreshExit
  \/ \E D \in SUBSET Cluster : Start(D) \/ RefreshTick(D)

\* They decide what is to be added and removed, and by whom.
LEMMA MainIInv ==
  ASSUME IInv, MainStep
  PROVE  IInv'
<1> USE DEF proberVars, evalVars, opVars, consVars, storeVars
<1>0. TypeOK /\ Map /\ Nobody /\ Known /\ Waited /\ Locked /\ Sampled /\ Work /\ Turns
  BY Zenon DEF IInv
<1>1. UNCHANGED <<probes, evalMu, evalSet, op, cur, owner, loop, retry, started, cons,
                  calls, counted, rated>>
  BY Zenon DEF MainStep, StartError, StartReturn, Signal, Shutdown, ShutdownRemove,
         ShutdownReturn, RefreshDone, RefreshExit, Start, RefreshTick, Reconcile
<1>2. Map' /\ Nobody' /\ Known' /\ Waited'
  BY <1>0, <1>1, Zenon DEF Map, Nobody, Known, Waited
<1>3. Sampled'
  BY <1>0, <1>1, Zenon DEF Sampled
<1>4. ASSUME StartError \/ Signal \/ Shutdown \/ RefreshExit PROVE IInv'
  <2>1. /\ UNCHANGED <<eval, listed, toAdd, toRemove>>
    BY <1>4, Zenon DEF StartError, Signal, Shutdown, RefreshExit
  <2>2. TypeOK'
    <3>1. rootDone' \in BOOLEAN /\ UNCHANGED cancelled
      BY <1>0, <1>4, Zenon DEF StartError, Signal, Shutdown, RefreshExit, TypeOK
    <3>2. main' \in {main, "failed", "wait"} /\ refresh' \in {refresh, "exited"}
      BY <1>4, Zenon DEF StartError, Signal, Shutdown, RefreshExit
    <3> QED
      BY <1>0, <1>1, <2>1, <3>1, <3>2 DEF TypeOK
  <2>3. Locked'
    BY <1>0, <1>1, <2>1, Zenon DEF Locked
  <2>4. Work'
    BY <1>0, <1>1, <1>4, <2>1, Zenon DEF StartError, Signal, Shutdown, RefreshExit, Work
  <2>5. Turns'
    BY <1>0, <1>1, <1>4, <2>1, Zenon DEF StartError, Signal, Shutdown, RefreshExit, Turns, Idle
  <2> QED
    BY <1>2, <1>3, <2>2, <2>3, <2>4, <2>5, Zenon DEF IInv
<1>5. ASSUME StartReturn PROVE IInv'
  <2>1. TypeOK'
    BY <1>0, <1>5, Zenon DEF StartReturn, TypeOK
  <2>2. Locked'
    BY <1>0, <1>1, <1>5 DEF StartReturn, Locked, Turns
  <2>3. Work'
    BY <1>0, <1>1, <1>5, Zenon DEF StartReturn, Work, Idle
  <2>4. Turns'
    BY <1>0, <1>1, <1>5, Zenon DEF StartReturn, Turns, Idle
  <2> QED
    BY <1>2, <1>3, <2>1, <2>2, <2>3, <2>4, Zenon DEF IInv
<1>6. ASSUME ShutdownRemove \/ ShutdownReturn PROVE IInv'
  <2>1. UNCHANGED <<eval, listed, toAdd, refresh, rootDone, cancelled>>
    BY <1>6, Zenon DEF ShutdownRemove, ShutdownReturn
  <2>2. TypeOK'
    BY <1>0, <1>1, <1>6, <2>1 DEF ShutdownRemove, ShutdownReturn, TypeOK, Existing
  <2>3. Locked'
    BY <1>0, <1>1, <2>1, Zenon DEF Locked
  <2>4. Work'
    BY <1>0, <1>1, <1>6, <2>1, Zenon DEF ShutdownRemove, ShutdownReturn, Work, Existing, Idle
  <2>5. Turns'
    BY <1>0, <1>1, <1>6, <2>1, Zenon DEF ShutdownRemove, ShutdownReturn, Turns, Idle, Existing
  <2> QED
    BY <1>2, <1>3, <2>2, <2>3, <2>4, <2>5, Zenon DEF IInv
<1>7. ASSUME RefreshDone PROVE IInv'
  <2>1. TypeOK'
    BY <1>0, <1>7 DEF RefreshDone, TypeOK
  <2>2. Locked'
    BY <1>0, <1>1, <1>7 DEF RefreshDone, Locked
  <2>3. Work'
    BY <1>0, <1>1, <1>7, Zenon DEF RefreshDone, Work, Idle
  <2>4. Turns'
    BY <1>0, <1>1, <1>7, Zenon DEF RefreshDone, Turns, Idle
  <2> QED
    BY <1>2, <1>3, <2>1, <2>2, <2>3, <2>4, Zenon DEF IInv
<1>8. ASSUME NEW D \in SUBSET Cluster, Start(D) \/ RefreshTick(D) PROVE IInv'
  <2>1. /\ UNCHANGED <<eval, rootDone, cancelled>>
        /\ listed' = D /\ toAdd' = D \ Existing
        /\ toRemove' = IF D = {} THEN {} ELSE Existing \ D
    BY <1>8, Zenon DEF Start, RefreshTick, Reconcile
  <2>2. TypeOK'
    BY <1>0, <1>1, <1>8, <2>1 DEF Start, RefreshTick, TypeOK, Existing
  <2>3. Locked'
    BY <1>0, <1>1, <2>1, Zenon DEF Locked
  <2>4. Work'
    BY <1>0, <1>1, <2>1, Zenon DEF Work, Existing
  <2>5. Turns'
    BY <1>0, <1>1, <1>8, <2>1, Zenon DEF Start, RefreshTick, Turns, Idle
  <2> QED
    BY <1>2, <1>3, <2>2, <2>3, <2>4, <2>5, Zenon DEF IInv
<1> QED
  BY <1>4, <1>5, <1>6, <1>7, <1>8, Zenon DEF MainStep

\* The steps of a probe's loops and of its consumer.
LoopStep(i) == ProduceLoop(i) \/ ConsumerRetryLoop(i) \/ Deliver(i)

\* They happen only for an object that exists, and name its own cluster.
LEMMA LoopIInv ==
  ASSUME NEW i \in Probe, IInv, LoopStep(i)
  PROVE  IInv'
<1> USE DEF proberVars, evalVars, opVars, consVars, storeVars
<1>0. TypeOK /\ Map /\ Nobody /\ Known /\ Waited /\ Locked /\ Sampled /\ Work /\ Turns
  BY Zenon DEF IInv
<1>1. UNCHANGED <<probes, rootDone, main, refresh, evalMu, eval, evalSet, listed, toAdd,
                  toRemove, op, cur, owner, cancelled, rated>>
  BY Zenon DEF LoopStep, ProduceLoop, SendOne, ProduceExit, ConsumerRetryLoop,
         RetryExit, RetryError, RetryStart, RetrySetStarted, Deliver, vars
<1>2. Locked' /\ Work' /\ Turns'
  BY <1>0, <1>1, Zenon DEF Locked, Work, Turns, Idle
<1>3. Sampled'
  BY <1>0, <1>1, Zenon DEF Sampled
<1>4. ASSUME ProduceLoop(i) PROVE IInv'
  <2>1. /\ UNCHANGED <<retry, started, cons, calls>>
        /\ counted' \in {counted, counted \cup ({owner[i]} \cap Watched)}
        /\ loop' = loop \/ loop' = [loop EXCEPT ![i] = "exited"]
        /\ loop[i] = "select"
    BY <1>4, Zenon DEF ProduceLoop, SendOne, ProduceExit
  <2>2. TypeOK'
    <3>1. counted' \subseteq Cluster
      BY <1>0, <2>1, WatchedAssumption, Zenon DEF TypeOK
    <3>2. loop' \in [Probe -> {"none", "select", "exited"}]
      BY <1>0, <2>1, Zenon DEF TypeOK
    <3> QED
      BY <1>0, <1>1, <2>1, <3>1, <3>2 DEF TypeOK
  <2>3. Map' /\ Known'
    BY <1>0, <1>1, <2>1, Zenon DEF Map, Known
  <2>4. Nobody'
    BY <1>0, <1>1, <2>1, Zenon DEF Nobody, TypeOK
  <2>5. Waited'
    <3>1. op = "clear" => cur \in Probe /\ cur # i
      BY <1>0, <2>1, Zenon DEF Waited, Map, Removing
    <3>2. op = "clear" => loop'[cur] = loop[cur]
      BY <1>0, <2>1, <3>1, Zenon DEF TypeOK
    <3> QED
      BY <1>0, <1>1, <2>1, <3>2, Zenon DEF Waited
  <2> QED
    BY <1>2, <1>3, <2>2, <2>3, <2>4, <2>5, Zenon DEF IInv
<1>5. ASSUME ConsumerRetryLoop(i) PROVE IInv'
  <2>1. /\ UNCHANGED <<loop, calls, counted>>
        /\ retry[i] \in {"select", "set"}
    BY <1>5, Zenon DEF ConsumerRetryLoop, RetryExit, RetryError, RetryStart,
                RetrySetStarted, vars
  <2>2. CASE RetryError(i)
    <3>1. UNCHANGED <<retry, started, cons>>
      BY <2>2, Zenon DEF RetryError, vars
    <3> QED
      BY <1>0, <1>1, <1>2, <2>1, <3>1 DEF IInv, TypeOK, Map, Nobody, Known, Waited, Sampled
  <2>3. ASSUME RetryExit(i) \/ RetryStart(i) \/ RetrySetStarted(i)
        PROVE  IInv'
    <3>1. \E r \in {"select", "set", "exited"} : retry' = [retry EXCEPT ![i] = r]
      BY <2>3, Zenon DEF RetryExit, RetryStart, RetrySetStarted
    <3>2. \/ UNCHANGED started
          \/ started' = [started EXCEPT ![i] = TRUE]
      BY <2>3, Zenon DEF RetryExit, RetryStart, RetrySetStarted
    <3>3. \/ UNCHANGED cons
          \/ cons' = [cons EXCEPT ![i] = "running"]
      BY <2>3, Zenon DEF RetryExit, RetryStart, RetrySetStarted
    <3>4. started' \in [Probe -> BOOLEAN]
      BY <1>0, <3>2, Zenon DEF TypeOK
    <3>5. TypeOK'
      <4>1. retry' \in [Probe -> {"none", "select", "set", "exited"}]
        BY <1>0, <3>1, Zenon DEF TypeOK
      <4>2. cons' \in [Probe -> {"none", "running", "stopped"}]
        BY <1>0, <3>3, Zenon DEF TypeOK
      <4> QED
        BY <1>0, <1>1, <2>1, <3>4, <4>1, <4>2 DEF TypeOK
    <3>6. Map'
      BY <1>0, <1>1, <2>1, <3>1, Zenon DEF Map, TypeOK
    <3>7. Nobody'
      BY <1>0, <1>1, <2>1, <3>1, <3>3, Zenon DEF Nobody, TypeOK
    <3>8. Known'
      <4>1. CASE RetryExit(i)
        <5>1. retry' = [retry EXCEPT ![i] = "exited"] /\ retry[i] = "select"
              /\ UNCHANGED <<started, cons>>
          BY <4>1, Zenon DEF RetryExit
        <5> QED
          BY <1>0, <5>1, Zenon DEF Known, TypeOK
      <4>2. CASE RetryStart(i)
        BY <1>0, <4>2, Zenon DEF Known, TypeOK, RetryStart
      <4>3. CASE RetrySetStarted(i)
        BY <1>0, <4>3, Zenon DEF Known, TypeOK, RetrySetStarted
      <4> QED
        BY <2>3, <4>1, <4>2, <4>3, Zenon
    <3>9. Waited'
      <4>1. op = "clear" => cur \in Probe /\ cur # i
        BY <1>0, <2>1, Zenon DEF Waited, Map, Removing
      <4>2. op = "clear" => retry'[cur] = retry[cur] /\ cons'[cur] = cons[cur]
        BY <1>0, <3>1, <3>3, <4>1, Zenon DEF TypeOK
      <4> QED
        BY <1>0, <1>1, <2>1, <4>2, Zenon DEF Waited
    <3> QED
      BY <1>2, <1>3, <3>5, <3>6, <3>7, <3>8, <3>9, Zenon DEF IInv
  <2> QED
    BY <1>5, <2>2, <2>3, Zenon DEF ConsumerRetryLoop
<1>6. ASSUME Deliver(i) PROVE IInv'
  <2>1. /\ UNCHANGED <<loop, retry, started, cons, counted>>
        /\ owner[i] \in Watched /\ calls' = calls \cup {owner[i]}
    BY <1>6, Zenon DEF Deliver
  <2>2. calls' \subseteq Cluster
    BY <1>0, <2>1, WatchedAssumption, Zenon DEF TypeOK
  <2>3. TypeOK'
    BY <1>0, <1>1, <2>1, <2>2 DEF TypeOK
  <2>4. Map' /\ Known' /\ Nobody' /\ Waited'
    BY <1>0, <1>1, <2>1, Zenon DEF Map, Known, Nobody, Waited
  <2> QED
    BY <1>2, <1>3, <2>3, <2>4, Zenon DEF IInv
<1> QED
  BY <1>4, <1>5, <1>6, Zenon DEF LoopStep

\* A callback, whose probe may be long gone, only counts.
LEMMA CallIInv ==
  ASSUME NEW c \in calls, IInv, HandleMessage(c)
  PROVE  IInv'
<1> USE DEF proberVars, evalVars, opVars, consVars, storeVars
<1>0. TypeOK /\ Map /\ Nobody /\ Known /\ Waited /\ Locked /\ Sampled /\ Work /\ Turns
  BY Zenon DEF IInv
<1>1. /\ UNCHANGED <<probes, rootDone, main, refresh, evalMu, eval, evalSet, listed, toAdd,
                     toRemove, op, cur, owner, cancelled, loop, retry, started, cons, rated>>
      /\ calls' \in {calls, calls \ {c}} /\ counted' = counted \cup {c}
  BY Zenon DEF HandleMessage
<1>2. calls' \subseteq Cluster /\ counted' \subseteq Cluster
  BY <1>0, <1>1, Zenon DEF TypeOK
<1>3. TypeOK'
  BY <1>0, <1>1, <1>2 DEF TypeOK
<1>4. Map' /\ Nobody' /\ Known' /\ Waited'
  BY <1>0, <1>1, Zenon DEF Map, Nobody, Known, Waited
<1>5. Locked' /\ Sampled' /\ Work' /\ Turns'
  BY <1>0, <1>1, Zenon DEF Locked, Sampled, Work, Turns, Idle
<1> QED
  BY <1>3, <1>4, <1>5, Zenon DEF IInv

\* evalLoop copies the map under evalMu, and every probe of the copy outlives
\* the pass: removeProbe clears only when evalMu is free.
LEMMA EvalIInv ==
  ASSUME IInv, EvalLoop
  PROVE  IInv'
<1> USE DEF proberVars, evalVars, opVars, consVars, storeVars
<1>0. TypeOK /\ Map /\ Nobody /\ Known /\ Waited /\ Locked /\ Sampled /\ Work /\ Turns
  BY Zenon DEF IInv
<1>1. UNCHANGED <<probes, rootDone, main, refresh, listed, toAdd, toRemove, op, cur,
                  owner, cancelled, loop, retry, started, cons, calls, counted>>
  BY Zenon DEF EvalLoop, EvalTick, EvalOnce, EvalUnlock, EvalExit
<1>2. Map' /\ Known' /\ Waited' /\ Work'
  BY <1>0, <1>1, Zenon DEF Map, Known, Waited, Work
<1>3. Turns'
  BY <1>0, <1>1, Zenon DEF EvalLoop, EvalTick, EvalOnce, EvalUnlock, EvalExit, Turns, Idle
<1>4. ASSUME EvalTick PROVE IInv'
  <2>1. /\ evalMu' = TRUE
        /\ evalMu' \in BOOLEAN
    BY <1>4, Zenon DEF EvalTick
  <2>2. /\ eval' = "pass"
        /\ evalSet' = {probes[c] : c \in Existing \cap Watched}
        /\ UNCHANGED rated
    BY <1>4, Zenon DEF EvalTick
  <2>3. \A i \in evalSet' : i \in Probe /\ owner[i] # None
    BY <1>0, <2>2, NoneAssumption DEF Map, TypeOK, Existing
  <2>4. TypeOK'
    BY <1>0, <1>1, <2>1, <2>2, <2>3, Zenon DEF TypeOK
  <2>5. Nobody'
    BY <1>0, <1>1, <2>3, Zenon DEF Nobody
  <2>6. Locked'
    BY <2>1, <2>2, Zenon DEF Locked
  <2>7. Sampled'
    BY <1>0, <1>1, <2>2, Zenon DEF Sampled
  <2> QED
    BY <1>2, <1>3, <2>4, <2>5, <2>6, <2>7, Zenon DEF IInv
<1>5. ASSUME NEW i \in evalSet, EvalOnce(i) PROVE IInv'
  <2>1. /\ UNCHANGED <<evalMu, eval>>
        /\ eval = "pass"
        /\ evalSet' = evalSet \ {i}
        /\ rated' = rated \cup ({owner[i]} \cap Watched)
    BY <1>5, Zenon DEF EvalOnce
  <2>2. i \in Probe /\ owner[i] \in Cluster
    BY <1>0, <1>5, Zenon DEF Nobody, TypeOK
  <2>3. TypeOK'
    BY <1>0, <1>1, <2>1, <2>2 DEF TypeOK
  <2>4. Nobody'
    BY <1>0, <1>1, <2>1, Zenon DEF Nobody
  <2>5. Locked'
    BY <1>0, <2>1, Zenon DEF Locked
  <2>6. Sampled'
    BY <1>0, <1>1, <2>1, <2>2, Zenon DEF Sampled
  <2> QED
    BY <1>2, <1>3, <2>3, <2>4, <2>5, <2>6, Zenon DEF IInv
<1>6. ASSUME EvalUnlock PROVE IInv'
  <2>1. /\ evalMu' = FALSE
        /\ evalMu' \in BOOLEAN
    BY <1>6, Zenon DEF EvalUnlock
  <2>2. /\ eval' = "select"
        /\ evalSet = {}
        /\ UNCHANGED <<evalSet, rated>>
    BY <1>6, Zenon DEF EvalUnlock
  <2>3. TypeOK'
    BY <1>0, <1>1, <2>1, <2>2, Zenon DEF TypeOK
  <2>4. Nobody'
    BY <1>0, <1>1, <2>2, Zenon DEF Nobody
  <2>5. Locked'
    BY <2>1, <2>2, Zenon DEF Locked
  <2>6. Sampled'
    BY <1>0, <1>1, <2>2, Zenon DEF Sampled
  <2> QED
    BY <1>2, <1>3, <2>3, <2>4, <2>5, <2>6, Zenon DEF IInv
<1>7. ASSUME EvalExit PROVE IInv'
  <2>1. /\ eval = "select" /\ eval' = "exited"
        /\ UNCHANGED <<evalMu, evalSet, rated>>
    BY <1>7, Zenon DEF EvalExit
  <2>2. TypeOK'
    BY <1>0, <1>1, <2>1 DEF TypeOK
  <2>3. Nobody'
    BY <1>0, <1>1, <2>1, Zenon DEF Nobody
  <2>4. Locked'
    BY <1>0, <2>1, Zenon DEF Locked
  <2>5. Sampled'
    BY <1>0, <1>1, <2>1, Zenon DEF Sampled
  <2> QED
    BY <1>2, <1>3, <2>2, <2>3, <2>4, <2>5, Zenon DEF IInv
<1> QED
  BY <1>4, <1>5, <1>6, <1>7, Zenon DEF EvalLoop

\* addProbe: the new object is entered under a name that has none.
LEMMA AddProbeIInv ==
  ASSUME IInv, NEW c \in toAdd, AddProbe(c)
  PROVE  IInv'
<1> USE DEF proberVars, evalVars, opVars, consVars, storeVars
<1> DEFINE i == CHOOSE j \in Unmade : TRUE
<1>0. TypeOK /\ Map /\ Nobody /\ Known /\ Waited /\ Locked /\ Sampled /\ Work /\ Turns
  BY Zenon DEF IInv
<1>1. i \in Probe /\ owner[i] = None
  BY Zenon DEF AddProbe, Unmade
<1>2. /\ op = "none" /\ op' = "tryStart" /\ cur' = i
      /\ toAdd' = toAdd \ {c}
      /\ owner' = [owner EXCEPT ![i] = c]
      /\ probes' = [probes EXCEPT ![c] = i]
      /\ loop' = [loop EXCEPT ![i] = "select"]
      /\ UNCHANGED <<rootDone, main, refresh, evalMu, eval, evalSet, listed, toRemove,
                     cancelled, retry, started, cons, calls, counted, rated>>
  BY Zenon DEF AddProbe
<1> HIDE DEF i
<1>3. c \in Cluster /\ c # None /\ i # None /\ probes[c] = None
  BY <1>0, <1>1, NoneAssumption, Zenon DEF TypeOK, Work
<1>4. TypeOK'
  BY <1>0, <1>1, <1>2, <1>3, Zenon DEF TypeOK
<1>5. Map'
  BY <1>0, <1>1, <1>2, <1>3, NoneAssumption, SMTT(30) DEF Map, TypeOK, Nobody, Removing
<1>6. Nobody'
  BY <1>0, <1>1, <1>2, <1>3, Zenon DEF Nobody, TypeOK
<1>7. Known' /\ Waited'
  BY <1>0, <1>2, Zenon DEF Known, Waited
<1>8. Locked'
  BY <1>0, <1>2, Zenon DEF Locked
<1>9. Sampled'
  <2> SUFFICES ASSUME NEW d \in rated PROVE \E j \in Probe : owner'[j] = d
    BY <1>2, Zenon DEF Sampled
  <2>1. PICK j \in Probe : owner[j] = d
    BY <1>0, Zenon DEF Sampled
  <2>2. j # i
    BY <1>0, <1>1, <2>1, NoneAssumption, Zenon DEF TypeOK
  <2> QED
    BY <1>0, <1>1, <1>2, <2>1, <2>2, Zenon DEF TypeOK
<1>10. Work'
  BY <1>0, <1>2, <1>3, Zenon DEF Work, TypeOK
<1>11. Turns'
  BY <1>0, <1>2, Zenon DEF Turns, Idle
<1> QED
  BY <1>4, <1>5, <1>6, <1>7, <1>8, <1>9, <1>10, <1>11, Zenon DEF IInv

\* addProbe, on: the consumer is started or not, and the retry loop is begun.
LEMMA AddIInv ==
  ASSUME IInv, AddTryError \/ AddTryStart
  PROVE  IInv'
<1> USE DEF proberVars, evalVars, opVars, consVars, storeVars
<1>0. TypeOK /\ Map /\ Nobody /\ Known /\ Waited /\ Locked /\ Sampled /\ Work /\ Turns
  BY Zenon DEF IInv
<1>1. /\ UNCHANGED <<probes, rootDone, main, refresh, evalMu, eval, evalSet, listed, toAdd,
                     toRemove, owner, cancelled, loop, calls, counted, rated>>
      /\ op = "tryStart" /\ op' = "none" /\ cur' = None
  BY Zenon DEF AddTryError, AddTryStart
<1>2. cur \in Probe /\ owner[cur] # None /\ probes[owner[cur]] = cur
  BY <1>0, <1>1, Zenon DEF Map
<1>3. Locked' /\ Sampled' /\ Work'
  BY <1>0, <1>1, Zenon DEF Locked, Sampled, Work
<1>4. Turns'
  BY <1>0, <1>1, Zenon DEF Turns, Idle
<1>5. Waited'
  BY <1>1, Zenon DEF Waited
<1>6. started' \in [Probe -> BOOLEAN]
  BY <1>0, <1>2, Zenon DEF TypeOK, AddTryError, AddTryStart
<1>7. /\ retry' \in [Probe -> {"none", "select", "set", "exited"}]
      /\ cons' \in [Probe -> {"none", "running", "stopped"}]
  BY <1>0, <1>2, Zenon DEF TypeOK, AddTryError, AddTryStart
<1>8. TypeOK'
  BY <1>0, <1>1, <1>6, <1>7 DEF TypeOK
<1>9. Map'
  BY <1>0, <1>1, <1>2, Zenon DEF Map, Removing, AddTryError, AddTryStart
<1>10. Nobody'
  BY <1>0, <1>1, <1>2, Zenon DEF Nobody, TypeOK, AddTryError, AddTryStart
<1>11. Known'
  BY <1>0, <1>1, <1>2, SMTT(30) DEF Known, Map, TypeOK, AddTryError, AddTryStart
<1> QED
  BY <1>3, <1>4, <1>5, <1>8, <1>9, <1>10, <1>11, Zenon DEF IInv

\* removeProbe: the probe leaves the map and becomes the one at work on.
LEMMA RemoveProbeIInv ==
  ASSUME IInv, NEW c \in toRemove, RemoveProbe(c)
  PROVE  IInv'
<1> USE DEF proberVars, evalVars, opVars, consVars, storeVars
<1>0. TypeOK /\ Map /\ Nobody /\ Known /\ Waited /\ Locked /\ Sampled /\ Work /\ Turns
  BY Zenon DEF IInv
<1>1. /\ op = "none" /\ op' = "wait" /\ cur' = probes[c]
      /\ toAdd = {} /\ toRemove' = toRemove \ {c}
      /\ probes' = [probes EXCEPT ![c] = None]
      /\ UNCHANGED <<rootDone, main, refresh, evalMu, eval, evalSet, listed, toAdd, owner,
                     loop, retry, started, cons, calls, counted, rated>>
  BY Zenon DEF RemoveProbe
<1>2. /\ c \in Cluster /\ c # None
      /\ probes[c] \in Probe /\ owner[probes[c]] = c
  BY <1>0, NoneAssumption DEF TypeOK, Work, Map
<1>3. cancelled' \in [Probe -> BOOLEAN]
  BY <1>0, <1>2, Zenon DEF TypeOK, RemoveProbe
<1>4. TypeOK'
  BY <1>0, <1>1, <1>2, <1>3, Zenon DEF TypeOK, Removing
<1>5. Map'
  BY <1>0, <1>1, <1>2, NoneAssumption DEF Map, TypeOK, Removing
<1>6. Nobody' /\ Waited' /\ Sampled'
  BY <1>0, <1>1, Zenon DEF Nobody, Waited, Sampled
<1>7. Known'
  BY <1>0, <1>1, Zenon DEF Known
<1>8. Locked'
  BY <1>0, <1>1, Zenon DEF Locked
<1>9. Work'
  BY <1>0, <1>1, <1>2, Zenon DEF Work, TypeOK
<1>10. Turns'
  BY <1>0, <1>1, <1>2, Zenon DEF Turns, Idle, TypeOK
<1> QED
  BY <1>4, <1>5, <1>6, <1>7, <1>8, <1>9, <1>10, Zenon DEF IInv

\* removeProbe, on: it waits for the two loops and shuts the consumer down.
LEMMA RemoveIInv ==
  ASSUME IInv, RemoveShutdown
  PROVE  IInv'
<1> USE DEF proberVars, evalVars, opVars, consVars, storeVars
<1>0. TypeOK /\ Map /\ Nobody /\ Known /\ Waited /\ Locked /\ Sampled /\ Work /\ Turns
  BY Zenon DEF IInv
<1>1. /\ UNCHANGED <<probes, rootDone, main, refresh, evalMu, eval, evalSet, listed, toAdd,
                     toRemove, cur, owner, cancelled, loop, retry, started, calls, counted,
                     rated>>
      /\ op = "wait" /\ op' = "clear" /\ loop[cur] = "exited" /\ retry[cur] = "exited"
      /\ cons' = [cons EXCEPT ![cur] = IF started[cur] THEN "stopped" ELSE cons[cur]]
  BY Zenon DEF RemoveShutdown
<1>2. cur \in Probe /\ owner[cur] # None
  BY <1>0, <1>1, Zenon DEF Map, Removing
<1>3. Locked' /\ Sampled' /\ Work' /\ Turns'
  BY <1>0, <1>1, Zenon DEF Locked, Sampled, Work, Turns, Idle
<1>4. cons' \in [Probe -> {"none", "running", "stopped"}]
  BY <1>0, <1>1, <1>2, Zenon DEF TypeOK
<1>5. TypeOK'
  BY <1>0, <1>1, <1>4 DEF TypeOK, Removing
<1>6. Map'
  BY <1>0, <1>1, Zenon DEF Map, Removing
<1>7. Nobody'
  BY <1>0, <1>1, <1>2, Zenon DEF Nobody, TypeOK
<1>8. Known'
  BY <1>0, <1>1, <1>2, Zenon DEF Known, TypeOK
<1>9. Waited'
  <2>1. cons[cur] = "running" => started[cur]
    BY <1>0, <1>1, <1>2, Zenon DEF Known
  <2>2. cons'[cur] # "running"
    BY <1>0, <1>1, <1>2, <2>1, Zenon DEF TypeOK
  <2> QED
    BY <1>1, <2>2, Zenon DEF Waited
<1> QED
  BY <1>3, <1>5, <1>6, <1>7, <1>8, <1>9, Zenon DEF IInv

\* removeProbe, last: what it clears is the cluster of the object it has
\* waited for, so that nothing is left that could write it again.
LEMMA ClearIInv ==
  ASSUME IInv, RemoveClear
  PROVE  IInv'
<1> USE DEF proberVars, evalVars, opVars, consVars, storeVars
<1>0. TypeOK /\ Map /\ Nobody /\ Known /\ Waited /\ Locked /\ Sampled /\ Work /\ Turns
  BY Zenon DEF IInv
<1>1. /\ op = "clear" /\ op' = "none" /\ cur' = None
      /\ counted' = counted \ {owner[cur]} /\ rated' = rated \ {owner[cur]}
      /\ UNCHANGED <<probes, rootDone, main, refresh, eval, evalSet, listed, toAdd, toRemove,
                     calls>>
  BY Zenon DEF RemoveClear, ClearHealthCluster
<1>2. ~evalMu /\ UNCHANGED evalMu
  BY Zenon DEF RemoveClear
<1>3. evalSet = {}
  BY <1>0, <1>2, Zenon DEF Locked
<1>4. cur \in Probe /\ owner[cur] # None /\ probes[owner[cur]] = None
  BY <1>0, <1>1, Zenon DEF Map, Removing
<1>5. loop[cur] = "exited" /\ retry[cur] = "exited" /\ cons[cur] # "running"
  BY <1>0, <1>1, Zenon DEF Waited
<1>6. /\ owner' = [owner EXCEPT ![cur] = None]
      /\ loop' = [loop EXCEPT ![cur] = "none"]
      /\ retry' = [retry EXCEPT ![cur] = "none"]
      /\ cons' = [cons EXCEPT ![cur] = "none"]
  BY <1>5, Zenon DEF RemoveClear, Forget
<1>7. /\ cancelled' = [cancelled EXCEPT ![cur] = FALSE]
      /\ started' = [started EXCEPT ![cur] = FALSE]
  BY <1>5, Zenon DEF RemoveClear, Forget
<1>8. cancelled' \in [Probe -> BOOLEAN] /\ started' \in [Probe -> BOOLEAN]
  BY <1>0, <1>7, Zenon DEF TypeOK
<1>9. TypeOK'
  BY <1>0, <1>1, <1>2, <1>6, <1>8, Zenon DEF TypeOK
<1>10. Map'
  BY <1>0, <1>1, <1>4, <1>6, NoneAssumption, SMTT(30) DEF Map, TypeOK, Removing
<1>11. Nobody'
  BY <1>0, <1>1, <1>3, <1>4, <1>5, <1>6, Zenon DEF Nobody, TypeOK
<1>12. Known'
  <2> SUFFICES ASSUME NEW j \in Probe, cons'[j] = "running"
               PROVE  started'[j] \/ retry'[j] = "set"
    BY Zenon DEF Known
  <2>1. j # cur /\ cons[j] = "running"
    BY <1>0, <1>4, <1>6, Zenon DEF TypeOK
  <2>2. started[j] \/ retry[j] = "set"
    BY <1>0, <1>1, <2>1, Zenon DEF Known
  <2>3. started'[j] = started[j]
    BY <1>0, <1>7, <2>1, Zenon DEF TypeOK
  <2>4. retry'[j] = retry[j]
    BY <1>0, <1>6, <2>1, Zenon DEF TypeOK
  <2> QED
    BY <2>2, <2>3, <2>4, Zenon
<1>13. Waited' /\ Work'
  BY <1>0, <1>1, Zenon DEF Waited, Work
<1>14. Locked'
  BY <1>0, <1>1, <1>2, Zenon DEF Locked
<1>15. Sampled'
  BY <1>0, <1>1, <1>4, <1>6, Zenon DEF Sampled, TypeOK
<1>16. Turns'
  BY <1>0, <1>1, Zenon DEF Turns, Idle
<1> QED
  BY <1>9, <1>10, <1>11, <1>12, <1>13, <1>14, <1>15, <1>16, Zenon DEF IInv

-----------------------------------------------------------------------------
\* Every step preserves the invariant.
LEMMA NextIInv ==
  ASSUME IInv, [Next]_vars
  PROVE  IInv'
<1>1. CASE MainStep
  BY <1>1, MainIInv, Zenon
<1>2. CASE \E i \in Probe : LoopStep(i)
  BY <1>2, LoopIInv, Zenon
<1>c. CASE \E c \in calls : HandleMessage(c)
  BY <1>c, CallIInv, Zenon
<1>3. CASE EvalLoop
  BY <1>3, EvalIInv, Zenon
<1>4. CASE \E c \in toAdd : AddProbe(c)
  BY <1>4, AddProbeIInv, Zenon
<1>5. CASE AddTryError \/ AddTryStart
  BY <1>5, AddIInv, Zenon
<1>6. CASE \E c \in toRemove : RemoveProbe(c)
  BY <1>6, RemoveProbeIInv, Zenon
<1>7. CASE RemoveShutdown
  BY <1>7, RemoveIInv, Zenon
<1>8. CASE RemoveClear
  BY <1>8, ClearIInv, Zenon
<1>9. CASE UNCHANGED vars
  <2> USE <1>9 DEF vars, proberVars, evalVars, opVars, consVars, storeVars
  <2>1. TypeOK'
    BY SMTT(30) DEF IInv, TypeOK
  <2>2. Map' /\ Nobody'
    BY Zenon DEF IInv, Map, Nobody
  <2>3. Known' /\ Waited'
    BY Zenon DEF IInv, Known, Waited
  <2>4. Locked' /\ Sampled'
    BY Zenon DEF IInv, Locked, Sampled
  <2>5. Work' /\ Turns'
    BY Zenon DEF IInv, Work, Turns, Idle
  <2> QED
    BY <2>1, <2>2, <2>3, <2>4, <2>5, Zenon DEF IInv
<1> QED
  BY <1>1, <1>2, <1>c, <1>3, <1>4, <1>5, <1>6, <1>7, <1>8, <1>9, Zenon
  DEF Next, Manage, MainStep, LoopStep

\* The invariant of the probes' lives, for any clusters and probes.
THEOREM ProberInvariant == Spec => []IInv
<1>1. Init => IInv
  BY InitIInv, Zenon
<1>2. IInv /\ [Next]_vars => IInv'
  BY NextIInv, Zenon
<1> QED
  BY <1>1, <1>2, PTL DEF Spec

\* No step but a callback's counts for a cluster that is gone.
LEMMA GoneCounts ==
  ASSUME IInv, Next, NEW c \in Cluster, Gone(c)', c \in counted'
  PROVE  c \in calls \/ (Gone(c) /\ c \in counted)
<1> USE DEF proberVars, evalVars, opVars, consVars, storeVars
<1>0. TypeOK /\ Map /\ Nobody
  BY Zenon DEF IInv
<1>1. CASE UNCHANGED <<probes, op, cur, owner, counted>>
  BY <1>1, Zenon DEF Gone
<1>2. ASSUME NEW i \in Probe, SendOne(i) PROVE Gone(c) /\ c \in counted
  <2>1. /\ loop[i] = "select" /\ counted' = counted \cup ({owner[i]} \cap Watched)
        /\ UNCHANGED <<probes, op, cur, owner>>
    BY <1>2, Zenon DEF SendOne
  <2>2. Gone(c)
    BY <2>1, Zenon DEF Gone
  <2>3. c # owner[i]
    BY <1>0, <2>1, <2>2, NoneAssumption DEF Gone, Map, Nobody, TypeOK
  <2> QED
    BY <2>1, <2>2, <2>3, Zenon
<1>3. ASSUME NEW d \in calls, HandleMessage(d) PROVE c \in calls \/ (Gone(c) /\ c \in counted)
  <2>1. counted' = counted \cup {d} /\ UNCHANGED <<probes, op, cur, owner>>
    BY <1>3, Zenon DEF HandleMessage
  <2> QED
    BY <2>1, Zenon DEF Gone
<1>4. ASSUME NEW d \in toAdd, AddProbe(d) PROVE Gone(c) /\ c \in counted
  <2>1. /\ op = "none" /\ UNCHANGED counted
        /\ probes' = [probes EXCEPT ![d] = CHOOSE j \in Unmade : TRUE]
        /\ (CHOOSE j \in Unmade : TRUE) \in Probe
    BY <1>4, Zenon DEF AddProbe, Unmade
  <2>2. probes[c] = None
    BY <1>0, <2>1, NoneAssumption, Zenon DEF Gone, TypeOK
  <2> QED
    BY <2>1, <2>2, Zenon DEF Gone, Removing
<1>5. ASSUME NEW d \in toRemove, RemoveProbe(d) PROVE Gone(c) /\ c \in counted
  <2>1. /\ op = "none" /\ op' = "wait" /\ cur' = probes[d] /\ UNCHANGED <<owner, counted>>
        /\ probes' = [probes EXCEPT ![d] = None]
    BY <1>5, Zenon DEF RemoveProbe
  <2>2. d \in Cluster /\ owner[probes[d]] = d
    BY Zenon DEF IInv, TypeOK, Map, Work
  <2>3. probes[c] = None
    BY <1>0, <2>1, <2>2, Zenon DEF Gone, Removing, TypeOK
  <2> QED
    BY <2>1, <2>3, Zenon DEF Gone, Removing
<1>6. CASE AddTryError \/ AddTryStart
  <2>1. op = "tryStart" /\ UNCHANGED <<probes, counted>>
    BY <1>6, Zenon DEF AddTryError, AddTryStart
  <2> QED
    BY <2>1, Zenon DEF Gone, Removing
<1>7. CASE RemoveShutdown
  <2>1. op \in Removing /\ op' \in Removing /\ UNCHANGED <<probes, cur, owner, counted>>
    BY <1>7, Zenon DEF RemoveShutdown, Removing
  <2> QED
    BY <2>1, Zenon DEF Gone
<1>8. CASE RemoveClear
  <2>1. counted' = counted \ {owner[cur]} /\ UNCHANGED probes
    BY <1>8, Zenon DEF RemoveClear, ClearHealthCluster
  <2> QED
    BY <2>1, Zenon DEF Gone
<1>9. CASE \/ MainStep \/ EvalLoop
           \/ \E i \in Probe : ProduceExit(i) \/ ConsumerRetryLoop(i) \/ Deliver(i)
  <2>1. UNCHANGED <<probes, op, cur, owner, counted>>
    BY <1>9, Zenon DEF MainStep, StartError, StartReturn, Signal, Shutdown,
       ShutdownRemove, ShutdownReturn, RefreshDone, RefreshExit, Start, RefreshTick,
       Reconcile, EvalLoop, EvalTick, EvalOnce, EvalUnlock, EvalExit, ProduceExit,
       ConsumerRetryLoop, RetryExit, RetryError, RetryStart, RetrySetStarted, Deliver, vars
  <2> QED
    BY <1>1, <2>1, Zenon
<1> QED
  BY <1>2, <1>3, <1>4, <1>5, <1>6, <1>7, <1>8, <1>9, Zenon
  DEF Next, Manage, MainStep, ProduceLoop

\* evalMu and the wait for produceLoop do what they are for: a cluster whose
\* probe was removed has no status in the health store, although evalTick
\* works on a copy of the map, and is counted again only by a callback that
\* outlived the consumer's Shutdown.
THEOREM ProberNoGhostStatus == Spec => NoGhostStatus
<1>1. ASSUME IInv, NEW c \in Cluster, Gone(c) PROVE c \notin rated
  <2> SUFFICES ASSUME c \in rated PROVE FALSE
    BY Zenon
  <2>1. PICK i \in Probe : owner[i] = c
    BY <1>1, Zenon DEF IInv, Sampled
  <2> QED
    BY <1>1, <2>1, NoneAssumption, Zenon DEF IInv, Map, Gone
<1> DEFINE Clean == \A c \in Cluster : Gone(c) => c \notin rated
<1>2. IInv => Clean
  BY <1>1, Zenon
<1>3. ASSUME IInv, Clean', [Next]_vars
      PROVE  [\A c \in Cluster : Gone(c)' =>
                /\ c \notin rated'
                /\ c \in counted' => c \in calls \/ (Gone(c) /\ c \in counted)]_vars
  BY <1>3, GoneCounts, Zenon
<1> HIDE DEF Clean
<1> QED
  BY <1>2, <1>3, ProberInvariant, PTL DEF Spec, NoGhostStatus

\* A running consumer is that of the map or of the removal under way, and
\* Shutdown leaves neither consumer nor goroutine.
THEOREM ProberNoStrayConsumer == Spec => []NoStrayConsumer
<1>1. IInv => NoStrayConsumer
  <2> SUFFICES ASSUME IInv PROVE NoStrayConsumer
    BY Zenon
  <2>1. ASSUME NEW i \in Probe, cons[i] = "running"
        PROVE  probes[owner[i]] = i \/ (op \in Removing /\ cur = i)
    BY <2>1, Zenon DEF IInv, Nobody, Map
  <2>2. ASSUME main = "done"
        PROVE  Existing = {} /\ \A i \in Probe : owner[i] = None
    <3>1. /\ op = "none"
          /\ \A c \in Cluster : probes[c] = None
      BY <2>2, Zenon DEF IInv, Turns, Idle
    <3> QED
      BY <3>1, NoneAssumption DEF IInv, Map, TypeOK, Existing, Removing
  <2> QED
    BY <2>1, <2>2, Zenon DEF NoStrayConsumer, IInv, Nobody
<1> QED
  BY <1>1, ProberInvariant, PTL

\* "probes are never wiped by a transient namesrv failure": a cluster loses
\* its probe to a list that names others or to Shutdown, its counts later.
THEOREM ProberNotWipedByFlap == Spec => NotWipedByFlap
<1> USE DEF proberVars, evalVars, opVars, consVars, storeVars
<1>1. ASSUME IInv, Next, NEW c \in Cluster, probes[c] # None, probes'[c] # probes[c]
      PROVE  main = "remove" \/ (listed # {} /\ c \notin listed)
  <2>1. \/ \E d \in toAdd : AddProbe(d)
        \/ \E d \in toRemove : RemoveProbe(d)
    BY <1>1, Zenon DEF Next, Manage, EvalLoop, EvalTick, EvalOnce, EvalUnlock, EvalExit,
       ProduceLoop, SendOne, ProduceExit, ConsumerRetryLoop, RetryExit, RetryError, RetryStart, RetrySetStarted,
       Deliver, HandleMessage, StartError, StartReturn, Signal, Shutdown, ShutdownRemove,
       ShutdownReturn, RefreshDone, RefreshExit, Start, RefreshTick, AddTryError,
       AddTryStart, RemoveShutdown, RemoveClear, vars
  <2>2. ASSUME NEW d \in toAdd, AddProbe(d) PROVE FALSE
    BY <1>1, <2>2, Zenon DEF AddProbe, IInv, Work, TypeOK
  <2>3. ASSUME NEW d \in toRemove, RemoveProbe(d) PROVE c \in toRemove
    BY <1>1, <2>3, Zenon DEF RemoveProbe, IInv, TypeOK
  <2> QED
    BY <1>1, <2>1, <2>2, <2>3, Zenon DEF IInv, Work
<1>2. ASSUME IInv, Next, NEW c \in Cluster, c \in counted, c \notin counted'
      PROVE  probes[c] = None
  <2>1. RemoveClear
    BY <1>2, Zenon DEF Next, Manage, EvalLoop, EvalTick, EvalOnce, EvalUnlock, EvalExit,
       ProduceLoop, SendOne, ProduceExit, ConsumerRetryLoop, RetryExit, RetryError, RetryStart, RetrySetStarted,
       Deliver, HandleMessage, StartError, StartReturn, Signal, Shutdown, ShutdownRemove,
       ShutdownReturn, RefreshDone, RefreshExit, Start, RefreshTick, AddProbe, AddTryError,
       AddTryStart, RemoveProbe, RemoveShutdown, vars
  <2> QED
    BY <1>2, <2>1, Zenon DEF RemoveClear, ClearHealthCluster, IInv, Map, Removing
<1>3. ASSUME IInv, [Next]_vars
      PROVE  [\A c \in Cluster :
                /\ probes[c] # None /\ probes'[c] # probes[c] =>
                     main = "remove" \/ (listed # {} /\ c \notin listed)
                /\ c \in counted /\ c \notin counted' => probes[c] = None]_vars
  BY <1>1, <1>2, <1>3, Zenon
<1> QED
  BY <1>3, ProberInvariant, PTL DEF Spec, NotWipedByFlap

=============================================================================
