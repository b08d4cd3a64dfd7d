------------------------------- MODULE Prober -------------------------------
(***************************************************************************)
(* The life of the health probes: internal/health/lifecycle.go and the     *)
(* Prober half of internal/health/probe.go.                                *)
(*                                                                         *)
(* The goroutines are main (Start, later Shutdown), evalLoop, refreshLoop, *)
(* and for each probe its produceLoop, its consumerRetryLoop and the       *)
(* callbacks of its push consumer.  Probes are added and removed by main   *)
(* in Start, then by refreshLoop, then by main in Shutdown: one goroutine  *)
(* at a time, whose place inside addProbe or removeProbe is op.            *)
(*                                                                         *)
(* The health store of the collector is seen through what it holds of each *)
(* cluster; module HealthProbe has its values and its times.  The push     *)
(* consumer is external: it runs callbacks in goroutines of its own, and   *)
(* its Shutdown ends the deliveries without waiting for them, which the    *)
(* Consumer interface of the code does not ask for either.                 *)
(***************************************************************************)
EXTENDS FiniteSets, Integers

CONSTANTS Cluster,  \* the clusters the name server may list
          Probe,    \* bound: the clusterProbe objects alive at a time
          Watched,  \* bound: the clusters whose callbacks and samples are followed
          None

ASSUME WatchedAssumption == Watched \subseteq Cluster

ASSUME NoneAssumption == None \notin Cluster \cup Probe

VARIABLES
  \* Prober
  probes,     \* p.probes: by cluster, None where there is no probe
  rootDone,   \* rootCtx is cancelled
  evalMu,     \* evalTick holds p.evalMu
  main,       \* "begin", "start", "up", "wait", "remove", "done" or "failed"
  eval,       \* evalLoop: "none", "select", "pass", "exited"
  evalSet,    \* the probes evalTick has still to evaluate
  refresh,    \* refreshLoop: "none", "select", "reconcile", "exited"
  \* reconcileClusters, addProbe and removeProbe
  listed,     \* discoveredSet
  toAdd,
  toRemove,
  op,
  cur,        \* the probe being added or removed
  \* clusterProbe
  owner,      \* its cluster, None: no such object
  cancelled,  \* cp.cancel was called
  loop,       \* produceLoop: "none", "select", "exited"
  retry,      \* consumerRetryLoop: "none", "select", "set", "exited"
  started,    \* consumerStarted, set together with consumer
  \* the push consumer
  cons,       \* "none", "running" or "stopped"
  calls,      \* the clusters that handleMessage calls in flight are for
  \* the health store
  counted,    \* the clusters in produceCount or consumeCount
  rated       \* the clusters in status

proberVars == <<probes, rootDone, main, refresh>>
evalVars == <<evalMu, eval, evalSet>>
opVars == <<listed, toAdd, toRemove, op, cur>>
consVars == <<retry, started, cons>>
storeVars == <<counted, rated>>
vars == <<proberVars, evalVars, opVars, owner, cancelled, loop, consVars,
          calls, storeVars>>

Init ==
  /\ probes = [c \in Cluster |-> None]
  /\ rootDone = FALSE
  /\ evalMu = FALSE
  /\ main = "begin"
  /\ eval = "none"
  /\ evalSet = {}
  /\ refresh = "none"
  /\ listed = {}
  /\ toAdd = {}
  /\ toRemove = {}
  /\ op = "none"
  /\ cur = None
  /\ owner = [i \in Probe |-> None]
  /\ cancelled = [i \in Probe |-> FALSE]
  /\ loop = [i \in Probe |-> "none"]
  /\ retry = [i \in Probe |-> "none"]
  /\ started = [i \in Probe |-> FALSE]
  /\ cons = [i \in Probe |-> "none"]
  /\ calls = {}
  /\ counted = {}
  /\ rated = {}

Existing == {c \in Cluster : probes[c] # None}
Unmade == {i \in Probe : owner[i] = None}
Done(i) == cancelled[i] \/ rootDone

-----------------------------------------------------------------------------
(* Start, the signal, and Shutdown.                                        *)

\* prod.Start fails, and run returns.
StartError ==
  /\ main = "begin"
  /\ main' = "failed"
  /\ UNCHANGED <<probes, rootDone, refresh, evalVars, opVars, owner, cancelled,
                 loop, consVars, calls, storeVars>>

\* reconcileClusters up to its first loop.  An empty list changes nothing,
\* and so does a failed discovery, for which D = {} stands here as well.
Reconcile(D) ==
  /\ Cardinality(D \ Existing) <= Cardinality(Unmade)  \* bound
  /\ listed' = D
  /\ toAdd' = D \ Existing
  /\ toRemove' = IF D = {} THEN {} ELSE Existing \ D
  /\ UNCHANGED <<op, cur>>

Start(D) ==
  /\ main = "begin"
  /\ main' = "start"
  /\ Reconcile(D)
  /\ UNCHANGED <<probes, rootDone, refresh, evalVars, owner, cancelled, loop,
                 consVars, calls, storeVars>>

Idle == op = "none" /\ toAdd = {} /\ toRemove = {}

StartReturn ==
  /\ main = "start"
  /\ Idle
  /\ main' = "up"
  /\ eval' = "select"
  /\ refresh' = "select"
  /\ listed' = {}
  /\ UNCHANGED <<probes, rootDone, evalMu, evalSet, toAdd, toRemove, op, cur, owner, cancelled, loop,
                 consVars, calls, storeVars>>

\* The context of main, from which rootCtx is derived.
Signal ==
  /\ ~rootDone
  /\ rootDone' = TRUE
  /\ UNCHANGED <<probes, main, refresh, evalVars, opVars, owner, cancelled, loop,
                 consVars, calls, storeVars>>

Shutdown ==
  /\ main = "up"
  /\ rootDone
  /\ main' = "wait"
  /\ UNCHANGED <<probes, rootDone, refresh, evalVars, opVars, owner, cancelled,
                 loop, consVars, calls, storeVars>>

\* p.wg.Wait() returns; names is the whole map.
ShutdownRemove ==
  /\ main = "wait"
  /\ eval = "exited"
  /\ refresh = "exited"
  /\ main' = "remove"
  /\ toRemove' = Existing
  /\ UNCHANGED <<probes, rootDone, refresh, evalVars, listed, toAdd, op, cur, owner,
                 cancelled, loop, consVars, calls, storeVars>>

ShutdownReturn ==
  /\ main = "remove"
  /\ Idle
  /\ main' = "done"
  /\ UNCHANGED <<probes, rootDone, refresh, evalVars, opVars, owner, cancelled,
                 loop, consVars, calls, storeVars>>

-----------------------------------------------------------------------------
(* refreshLoop.                                                            *)

\* Mutation: an empty list is taken at its word.
RefreshTickEmpty(D) ==
  /\ refresh = "select"
  /\ refresh' = "reconcile"
  /\ Cardinality(D \ Existing) <= Cardinality(Unmade)
  /\ listed' = D
  /\ toAdd' = D \ Existing
  /\ toRemove' = Existing \ D
  /\ UNCHANGED <<probes, rootDone, main, evalVars, op, cur, owner, cancelled, loop,
                 consVars, calls, storeVars>>

RefreshTick(D) ==
  /\ refresh = "select"
  /\ refresh' = "reconcile"
  /\ Reconcile(D)
  /\ UNCHANGED <<probes, rootDone, main, evalVars, owner, cancelled, loop, consVars,
                 calls, storeVars>>

RefreshDone ==
  /\ refresh = "reconcile"
  /\ Idle
  /\ refresh' = "select"
  /\ listed' = {}
  /\ UNCHANGED <<probes, rootDone, main, evalVars, toAdd, toRemove, op, cur, owner, cancelled, loop,
                 consVars, calls, storeVars>>

RefreshExit ==
  /\ refresh = "select"
  /\ rootDone
  /\ refresh' = "exited"
  /\ UNCHANGED <<probes, rootDone, main, evalVars, opVars, owner, cancelled, loop,
                 consVars, calls, storeVars>>

-----------------------------------------------------------------------------
(* addProbe.                                                               *)

AddProbe(c) ==
  LET i == CHOOSE j \in Unmade : TRUE IN
    /\ Unmade # {}  \* bound
    /\ op = "none"
    /\ op' = "tryStart"
    /\ cur' = i
    /\ toAdd' = toAdd \ {c}
    /\ owner' = [owner EXCEPT ![i] = c]
    /\ probes' = [probes EXCEPT ![c] = i]
    /\ loop' = [loop EXCEPT ![i] = "select"]
    /\ UNCHANGED <<rootDone, main, refresh, evalVars, listed, toRemove, cancelled,
                   consVars, calls, storeVars>>

\* tryStartConsumer fails (factory, Subscribe or Start returned an error), and
\* consumerRetryLoop is started.
AddTryError ==
  /\ op = "tryStart"
  /\ op' = "none"
  /\ cur' = None
  /\ retry' = [retry EXCEPT ![cur] = "select"]
  /\ UNCHANGED <<proberVars, evalVars, listed, toAdd, toRemove, owner, cancelled, loop,
                 started, cons, calls, storeVars>>

\* Mutation: no retry loop for a consumer that has started.
AddTryStartOnly ==
  /\ op = "tryStart"
  /\ op' = "none"
  /\ cur' = None
  /\ cons' = [cons EXCEPT ![cur] = "running"]
  /\ started' = [started EXCEPT ![cur] = TRUE]
  /\ UNCHANGED <<proberVars, evalVars, listed, toAdd, toRemove, owner, cancelled, loop,
                 retry, calls, storeVars>>

\* tryStartConsumer succeeds: consumer and consumerStarted are set, and
\* consumerRetryLoop is started, sees it and returns.
AddTryStart ==
  /\ op = "tryStart"
  /\ op' = "none"
  /\ cur' = None
  /\ cons' = [cons EXCEPT ![cur] = "running"]
  /\ started' = [started EXCEPT ![cur] = TRUE]
  /\ retry' = [retry EXCEPT ![cur] = "exited"]
  /\ UNCHANGED <<proberVars, evalVars, listed, toAdd, toRemove, owner, cancelled, loop,
                 calls, storeVars>>

-----------------------------------------------------------------------------
(* removeProbe.                                                            *)

\* The probe leaves the map and its loops are cancelled.
RemoveProbe(c) ==
  /\ op = "none"
  /\ toAdd = {}
  /\ op' = "wait"
  /\ cur' = probes[c]
  /\ toRemove' = toRemove \ {c}
  /\ probes' = [probes EXCEPT ![c] = None]
  /\ cancelled' = [cancelled EXCEPT ![probes[c]] = TRUE]
  /\ UNCHANGED <<rootDone, main, refresh, evalVars, listed, toAdd, owner, loop,
                 consVars, calls, storeVars>>

\* Mutation: the retry loop is not waited for.
RemoveShutdownNoWait ==
  /\ op = "wait"
  /\ loop[cur] = "exited"
  /\ op' = "clear"
  /\ cons' = [cons EXCEPT ![cur] = IF started[cur] THEN "stopped" ELSE @]
  /\ UNCHANGED <<proberVars, evalVars, listed, toAdd, toRemove, cur, owner, cancelled,
                 loop, retry, started, calls, storeVars>>

\* <-cp.done and <-cp.consumerRetryDone, then cons.Shutdown if the consumer
\* ever started.
RemoveShutdown ==
  /\ op = "wait"
  /\ loop[cur] = "exited"
  /\ retry[cur] = "exited"
  /\ op' = "clear"
  /\ cons' = [cons EXCEPT ![cur] = IF started[cur] THEN "stopped" ELSE @]
  /\ UNCHANGED <<proberVars, evalVars, listed, toAdd, toRemove, cur, owner, cancelled,
                 loop, retry, started, calls, storeVars>>

ClearHealthCluster(c) ==
  /\ counted' = counted \ {c}
  /\ rated' = rated \ {c}

\* A removed probe is garbage once its loops and its consumer have ended, and
\* its name is free; a callback in flight only writes to its cluster.
Forget(i) ==
  IF loop[i] = "exited" /\ retry[i] = "exited" /\ cons[i] # "running"
  THEN /\ owner' = [owner EXCEPT ![i] = None]
       /\ cancelled' = [cancelled EXCEPT ![i] = FALSE]
       /\ loop' = [loop EXCEPT ![i] = "none"]
       /\ retry' = [retry EXCEPT ![i] = "none"]
       /\ started' = [started EXCEPT ![i] = FALSE]
       /\ cons' = [cons EXCEPT ![i] = "none"]
  ELSE UNCHANGED <<owner, cancelled, loop, consVars>>

\* Mutation: the clear is not serialised with evalTick.
RemoveClearNoLock ==
  /\ op = "clear"
  /\ op' = "none"
  /\ cur' = None
  /\ ClearHealthCluster(owner[cur])
  /\ UNCHANGED <<proberVars, evalVars, listed, toAdd, toRemove, owner, cancelled, loop,
                 consVars, calls>>

RemoveClear ==
  /\ op = "clear"
  /\ ~evalMu
  /\ op' = "none"
  /\ cur' = None
  /\ ClearHealthCluster(owner[cur])
  /\ Forget(cur)
  /\ UNCHANGED <<proberVars, evalVars, listed, toAdd, toRemove, calls>>

-----------------------------------------------------------------------------
(* produceLoop and sendOne.                                                *)

\* A tick: SendSync fails or succeeds, and sendOne counts either.  While it
\* is under way the loop only defers its exit, as one at its select may.
SendOne(i) ==
  /\ loop[i] = "select"
  /\ counted' = counted \cup ({owner[i]} \cap Watched)
  /\ UNCHANGED <<proberVars, evalVars, opVars, owner, cancelled, loop, consVars,
                 calls, rated>>

ProduceExit(i) ==
  /\ loop[i] = "select"
  /\ Done(i)
  /\ loop' = [loop EXCEPT ![i] = "exited"]
  /\ UNCHANGED <<proberVars, evalVars, opVars, owner, cancelled, consVars,
                 calls, storeVars>>

ProduceLoop(i) == SendOne(i) \/ ProduceExit(i)

-----------------------------------------------------------------------------
(* consumerRetryLoop and tryStartConsumer.                                 *)

RetryExit(i) ==
  /\ retry[i] = "select"
  /\ Done(i)
  /\ retry' = [retry EXCEPT ![i] = "exited"]
  /\ UNCHANGED <<proberVars, evalVars, opVars, owner, cancelled, loop, started, cons,
                 calls, storeVars>>

\* Mutation: the loop gives up after an error.
RetryErrorGiveUp(i) ==
  /\ retry[i] = "select"
  /\ retry' = [retry EXCEPT ![i] = "exited"]
  /\ UNCHANGED <<proberVars, evalVars, opVars, owner, cancelled, loop, started, cons,
                 calls, storeVars>>

\* A tick on which tryStartConsumer fails leaves nothing behind.
RetryError(i) ==
  /\ retry[i] = "select"
  /\ UNCHANGED vars

\* A tick on which cons.Start succeeds.
RetryStart(i) ==
  /\ retry[i] = "select"
  /\ retry' = [retry EXCEPT ![i] = "set"]
  /\ cons' = [cons EXCEPT ![i] = "running"]
  /\ UNCHANGED <<proberVars, evalVars, opVars, owner, cancelled, loop, started,
                 calls, storeVars>>

RetrySetStarted(i) ==
  /\ retry[i] = "set"
  /\ retry' = [retry EXCEPT ![i] = "exited"]
  /\ started' = [started EXCEPT ![i] = TRUE]
  /\ UNCHANGED <<proberVars, evalVars, opVars, owner, cancelled, loop, cons,
                 calls, storeVars>>

ConsumerRetryLoop(i) ==
  \/ RetryExit(i)
  \/ RetryError(i)
  \/ RetryStart(i)
  \/ RetrySetStarted(i)

-----------------------------------------------------------------------------
(* handleMessage.                                                          *)

\* The push consumer calls it in a goroutine of its own.
Deliver(i) ==
  /\ cons[i] = "running"
  /\ owner[i] \in Watched  \* bound
  /\ calls' = calls \cup {owner[i]}
  /\ UNCHANGED <<proberVars, evalVars, opVars, owner, cancelled, loop, consVars,
                 storeVars>>

\* One of the calls for the cluster counts its messages, and may be the last.
HandleMessage(c) ==
  /\ calls' \in {calls, calls \ {c}}
  /\ counted' = counted \cup {c}
  /\ UNCHANGED <<proberVars, evalVars, opVars, owner, cancelled, loop, consVars,
                 rated>>

-----------------------------------------------------------------------------
(* evalLoop and evalTick.                                                  *)

\* evalMu is locked and the map is copied under p.mu.  What happens between
\* the two only decides what the copy holds.
EvalTick ==
  /\ eval = "select"
  /\ eval' = "pass"
  /\ evalMu' = TRUE
  /\ evalSet' = {probes[c] : c \in Existing \cap Watched}  \* bound
  /\ UNCHANGED <<proberVars, opVars, owner, cancelled, loop, consVars, calls,
                 storeVars>>

\* evalOnce: the three checks get a status, whatever it is.
EvalOnce(i) ==
  /\ eval = "pass"
  /\ evalSet' = evalSet \ {i}
  /\ rated' = rated \cup ({owner[i]} \cap Watched)
  /\ UNCHANGED <<proberVars, evalMu, eval, opVars, owner, cancelled, loop, consVars,
                 calls, counted>>

EvalUnlock ==
  /\ eval = "pass"
  /\ evalSet = {}
  /\ eval' = "select"
  /\ evalMu' = FALSE
  /\ UNCHANGED <<proberVars, evalSet, opVars, owner, cancelled, loop, consVars,
                 calls, storeVars>>

EvalExit ==
  /\ eval = "select"
  /\ rootDone
  /\ eval' = "exited"
  /\ UNCHANGED <<proberVars, evalMu, evalSet, opVars, owner, cancelled, loop,
                 consVars, calls, storeVars>>

EvalLoop ==
  \/ EvalTick
  \/ \E i \in evalSet : EvalOnce(i)
  \/ EvalUnlock
  \/ EvalExit

-----------------------------------------------------------------------------

\* What the goroutine that adds and removes probes does.
Manage ==
  \/ StartReturn
  \/ Shutdown
  \/ ShutdownRemove
  \/ ShutdownReturn
  \/ RefreshDone
  \/ \E c \in toAdd : AddProbe(c)
  \/ AddTryError
  \/ AddTryStart
  \/ \E c \in toRemove : RemoveProbe(c)
  \/ RemoveShutdown
  \/ RemoveClear

Next ==
  \/ StartError
  \/ \E D \in SUBSET Cluster : Start(D) \/ RefreshTick(D)
  \/ RefreshExit
  \/ Signal
  \/ Manage
  \/ EvalLoop
  \/ \E i \in Probe : ProduceLoop(i) \/ ConsumerRetryLoop(i) \/ Deliver(i)
  \/ \E c \in calls : HandleMessage(c)

Spec == Init /\ [][Next]_vars

(***************************************************************************)
(* Goroutines that can run do, and SendSync, Start and Shutdown return.  A *)
(* select with several ready cases picks one at random, so that a done     *)
(* loop does not take its ticker for ever, and a Go mutex is not refused   *)
(* for ever: hence strong fairness of the exits that a tick disables and   *)
(* of the clear.  A consumer whose start is tried again and again starts   *)
(* once, since the topic is created in the end: a RetryError is no step    *)
(* that the fairness of its loop counts.  Nothing forces a signal or a     *)
(* refresh.                                                                *)
(***************************************************************************)
Fairness ==
  /\ WF_vars(Manage)
  /\ SF_vars(RemoveClear)
  /\ WF_vars(EvalLoop)
  /\ SF_vars(EvalExit)
  /\ SF_vars(RefreshExit)
  /\ \A i \in Probe : WF_vars(ProduceExit(i)) /\ WF_vars(ConsumerRetryLoop(i))

FairSpec == Spec /\ Fairness

-----------------------------------------------------------------------------
(* Properties.                                                             *)

Removing == {"wait", "clear"}

\* The state has its types.
TypeOK ==
  /\ probes \in [Cluster -> Probe \cup {None}]
  /\ rootDone \in BOOLEAN
  /\ evalMu \in BOOLEAN
  /\ main \in {"begin", "start", "up", "wait", "remove", "done", "failed"}
  /\ eval \in {"none", "select", "pass", "exited"}
  /\ evalSet \subseteq Probe
  /\ refresh \in {"none", "select", "reconcile", "exited"}
  /\ listed \subseteq Cluster
  /\ toAdd \subseteq Cluster
  /\ toRemove \subseteq Cluster
  /\ op \in {"none", "tryStart"} \cup Removing
  /\ cur \in Probe \cup {None}
  /\ owner \in [Probe -> Cluster \cup {None}]
  /\ cancelled \in [Probe -> BOOLEAN]
  /\ loop \in [Probe -> {"none", "select", "exited"}]
  /\ retry \in [Probe -> {"none", "select", "set", "exited"}]
  /\ started \in [Probe -> BOOLEAN]
  /\ cons \in [Probe -> {"none", "running", "stopped"}]
  /\ calls \subseteq Cluster
  /\ counted \subseteq Cluster
  /\ rated \subseteq Cluster

\* A cluster that has no probe, nor one that is being removed.
Gone(c) == probes[c] = None /\ ~(op \in Removing /\ owner[cur] = c)

\* What ClearHealthCluster is for: "called when a cluster disappears at
\* refresh time, so no ghost samples linger".
NoGhostSamples ==
  main = "up" => \A c \in Cluster : Gone(c) => c \notin counted \cup rated

\* The reason for evalMu, and for waiting for produceLoop before the clear: a
\* cluster that is gone has no status, so that evalTick left none behind, and
\* gets no count either, except from a callback that its consumer had in
\* flight when it was shut down.
NoGhostStatus ==
  [][\A c \in Cluster : Gone(c)' =>
       /\ c \notin rated'
       /\ c \in counted' => c \in calls \/ (Gone(c) /\ c \in counted)]_vars

\* removeProbe "never races a mid-flight Start": a running consumer belongs
\* to a probe of the map or to the one being removed, so that a cluster never
\* has two consumers in its group; and Shutdown leaves no consumer, no
\* goroutine and no probe.
NoStrayConsumer ==
  /\ \A i \in Probe :
       cons[i] = "running" => probes[owner[i]] = i \/ (op \in Removing /\ cur = i)
  /\ main = "done" =>
       /\ Existing = {}
       /\ \A i \in Probe : /\ loop[i] \in {"none", "exited"}
                           /\ retry[i] \in {"none", "exited"}
                           /\ cons[i] # "running"

\* "probes are never wiped by a transient namesrv failure", and their
\* cumulative counters are not reset: a cluster loses its probe only to a
\* list that names other clusters, or to Shutdown, and its counts only after
\* its probe.
NotWipedByFlap ==
  [][\A c \in Cluster :
       /\ probes[c] # None /\ probes'[c] # probes[c] =>
            main = "remove" \/ (listed # {} /\ c \notin listed)
       /\ c \in counted /\ c \notin counted' => probes[c] = None]_vars

\* Shutdown returns, whatever the loops and the consumers are doing.
ShutdownReturns == main = "wait" ~> main = "done"

\* "natural failure + self-heal": a probe whose consumer could not start has
\* it started in the end, unless it is cancelled.
SelfHeal == \A i \in Probe : loop[i] # "none" ~> started[i] \/ Done(i)
=============================================================================
