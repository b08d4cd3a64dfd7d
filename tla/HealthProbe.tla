----------------------------- MODULE HealthProbe -----------------------------
(***************************************************************************)
(* What the health probes measure and what /healthz makes of it: sendOne,  *)
(* handleMessage, evalTick and evalOnce of internal/health/probe.go over   *)
(* the health store of internal/collector/health.go.                       *)
(*                                                                         *)
(* For each cluster one goroutine sends, any number of consumer callbacks  *)
(* handle messages, and one goroutine evaluates all the clusters in turn.  *)
(* They meet in the recency times of the probe, under the probe's mutex,   *)
(* and in the maps of the store, whose mutex is taken anew for each write: *)
(* every write is a step of its own.                                       *)
(*                                                                         *)
(* Time is a counter that may advance at any moment; 0 is the zero time,   *)
(* and also what a reader of the store gets where a map has no entry.  Of  *)
(* a latency only matters whether it was measured or cleared.              *)
(***************************************************************************)
EXTENDS Integers

CONSTANTS Cluster,
          Callback,  \* bound: the callbacks of one consumer that may run at once
          Recency,   \* cfg.Recency, in units of time
          MaxTime    \* bound

ASSUME ClusterAssumption == Cluster # {}

ASSUME RecencyAssumption == Recency \in Nat \ {0}

ASSUME MaxTimeAssumption == MaxTime \in Nat \ {0}

Check == {"produce", "consume", "overall"}

VARIABLES
  now,
  probed,        \* the clusters in p.probes
  \* clusterProbe
  lastProduceSuccess,
  lastConsume,
  \* the health store
  counted,       \* the clusters in produceCount or consumeCount
  status,        \* by cluster and check: "absent", "fail" or "ok"
  latency,       \* by cluster and check: "zero" or "measured"
  lastSuccess,   \* by cluster and check
  lastError,     \* by cluster and check: "none", "rpc" or "recency"
  \* sendOne, by cluster
  send,          \* its place: "idle", "sending", ...
  sendNow,
  \* handleMessage, by cluster and callback
  handle,
  handleNow,
  \* evalTick
  evalLeft,      \* the clusters of the snapshot not evaluated yet
  evalCur,       \* the cluster in evalOnce, if eval # "idle"
  eval,
  evalNow,
  produceOK,
  consumeOK,
  \* history
  sentAt,        \* the start of the last send that succeeded
  gotAt,         \* the latest start of a callback that ended
  ratedAt        \* by cluster and check: the now of the status

probeVars == <<lastProduceSuccess, lastConsume>>
storeVars == <<counted, status, latency, lastSuccess, lastError>>
sendVars == <<send, sendNow>>
handleVars == <<handle, handleNow>>
evalVars == <<evalLeft, evalCur, eval, evalNow, produceOK, consumeOK>>
histVars == <<sentAt, gotAt, ratedAt>>
vars == <<now, probed, probeVars, storeVars, sendVars, handleVars, evalVars, histVars>>

Init ==
  /\ now = 1
  /\ probed = {}
  /\ lastProduceSuccess = [c \in Cluster |-> 0]
  /\ lastConsume = [c \in Cluster |-> 0]
  /\ counted = {}
  /\ status = [c \in Cluster |-> [k \in Check |-> "absent"]]
  /\ latency = [c \in Cluster |-> [k \in Check |-> "zero"]]
  /\ lastSuccess = [c \in Cluster |-> [k \in Check |-> 0]]
  /\ lastError = [c \in Cluster |-> [k \in Check |-> "none"]]
  /\ send = [c \in Cluster |-> "idle"]
  /\ sendNow = [c \in Cluster |-> 0]
  /\ handle = [c \in Cluster |-> [b \in Callback |-> "idle"]]
  /\ handleNow = [c \in Cluster |-> [b \in Callback |-> 0]]
  /\ evalLeft = {}
  /\ evalCur = CHOOSE c \in Cluster : TRUE
  /\ eval = "idle"
  /\ evalNow = 0
  /\ produceOK = FALSE
  /\ consumeOK = FALSE
  /\ sentAt = [c \in Cluster |-> 0]
  /\ gotAt = [c \in Cluster |-> 0]
  /\ ratedAt = [c \in Cluster |-> [k \in Check |-> 0]]

Tick ==
  /\ now < MaxTime
  /\ now' = now + 1
  /\ UNCHANGED <<probed, probeVars, storeVars, sendVars, handleVars, evalVars, histVars>>

\* addProbe enters the probe in the map and starts its loops.
AddProbe(c) ==
  /\ c \notin probed
  /\ probed' = probed \cup {c}
  /\ UNCHANGED <<now, probeVars, storeVars, sendVars, handleVars, evalVars, histVars>>

-----------------------------------------------------------------------------
(* The writes to the store.                                                *)

SetHealthStatus(c, k, v) == status' = [status EXCEPT ![c][k] = v]
SetHealthLatency(c, k, v) == latency' = [latency EXCEPT ![c][k] = v]
SetHealthLastSuccess(c, k, t) == lastSuccess' = [lastSuccess EXCEPT ![c][k] = t]
SetHealthLastError(c, k, e) == lastError' = [lastError EXCEPT ![c][k] = e]

okFail(b) == IF b THEN "ok" ELSE "fail"

-----------------------------------------------------------------------------
(* sendOne.                                                                *)

SendGoto(c, from, to) ==
  /\ send[c] = from
  /\ send' = [send EXCEPT ![c] = to]

\* The clock is read before SendSync is called.
SendOne(c) ==
  /\ c \in probed
  /\ SendGoto(c, "idle", "sending")
  /\ sendNow' = [sendNow EXCEPT ![c] = now]
  /\ UNCHANGED <<now, probed, probeVars, storeVars, handleVars, evalVars, histVars>>

\* SendSync fails; AddHealthProduce(cluster, "failure").
SendError(c) ==
  /\ SendGoto(c, "sending", "setError")
  /\ counted' = counted \cup {c}
  /\ UNCHANGED <<now, probed, probeVars, status, latency, lastSuccess,
                 lastError, sendNow, handleVars, evalVars, histVars>>

SendSetError(c) ==
  /\ SendGoto(c, "setError", "idle")
  /\ SetHealthLastError(c, "produce", "rpc")
  /\ sendNow' = [sendNow EXCEPT ![c] = 0]
  /\ UNCHANGED <<now, probed, probeVars, counted, status, latency,
                 lastSuccess, handleVars, evalVars, histVars>>

\* SendSync succeeds; AddHealthProduce(cluster, "success").
SendSuccess(c) ==
  /\ SendGoto(c, "sending", "setLatency")
  /\ counted' = counted \cup {c}
  /\ UNCHANGED <<now, probed, probeVars, status, latency, lastSuccess,
                 lastError, sendNow, handleVars, evalVars, histVars>>

SendSetLatency(c) ==
  /\ SendGoto(c, "setLatency", "setLastSuccess")
  /\ SetHealthLatency(c, "produce", "measured")
  /\ UNCHANGED <<now, probed, probeVars, counted, status, lastSuccess,
                 lastError, sendNow, handleVars, evalVars, histVars>>

\* Mutation: the gauge gets the time of the answer.
SendSetLastSuccessLate(c) ==
  /\ SendGoto(c, "setLastSuccess", "clearError")
  /\ SetHealthLastSuccess(c, "produce", now)
  /\ UNCHANGED <<now, probed, probeVars, counted, status, latency,
                 lastError, sendNow, handleVars, evalVars, histVars>>

SendSetLastSuccess(c) ==
  /\ SendGoto(c, "setLastSuccess", "clearError")
  /\ SetHealthLastSuccess(c, "produce", sendNow[c])
  /\ UNCHANGED <<now, probed, probeVars, counted, status, latency,
                 lastError, sendNow, handleVars, evalVars, histVars>>

SendClearError(c) ==
  /\ SendGoto(c, "clearError", "record")
  /\ SetHealthLastError(c, "produce", "none")
  /\ UNCHANGED <<now, probed, probeVars, counted, status, latency,
                 lastSuccess, sendNow, handleVars, evalVars, histVars>>

\* Under p.mu.
SendRecord(c) ==
  /\ SendGoto(c, "record", "idle")
  /\ lastProduceSuccess' = [lastProduceSuccess EXCEPT ![c] = sendNow[c]]
  /\ sentAt' = [sentAt EXCEPT ![c] = sendNow[c]]
  /\ sendNow' = [sendNow EXCEPT ![c] = 0]
  /\ UNCHANGED <<now, probed, lastConsume, storeVars, handleVars, evalVars, gotAt, ratedAt>>

Send(c) ==
  \/ SendOne(c)
  \/ SendError(c)
  \/ SendSetError(c)
  \/ SendSuccess(c)
  \/ SendSetLatency(c)
  \/ SendSetLastSuccess(c)
  \/ SendClearError(c)
  \/ SendRecord(c)

-----------------------------------------------------------------------------
(* handleMessage, for a batch of one message.                              *)

HandleGoto(c, b, from, to) ==
  /\ handle[c][b] = from
  /\ handle' = [handle EXCEPT ![c][b] = to]

\* The clock is read; AddHealthConsume.
HandleMessage(c, b) ==
  /\ c \in probed
  /\ HandleGoto(c, b, "idle", "setLatency")
  /\ handleNow' = [handleNow EXCEPT ![c][b] = now]
  /\ counted' = counted \cup {c}
  /\ UNCHANGED <<now, probed, probeVars, status, latency, lastSuccess,
                 lastError, sendVars, evalVars, histVars>>

\* parseBodyTs gives a time, or it does not.
HandleSetLatency(c, b) ==
  /\ HandleGoto(c, b, "setLatency", "setLastSuccess")
  /\ \/ SetHealthLatency(c, "consume", "measured")
     \/ UNCHANGED latency
  /\ UNCHANGED <<now, probed, probeVars, counted, status, lastSuccess,
                 lastError, sendVars, handleNow, evalVars, histVars>>

HandleSetLastSuccess(c, b) ==
  /\ HandleGoto(c, b, "setLastSuccess", "record")
  /\ SetHealthLastSuccess(c, "consume", handleNow[c][b])
  /\ UNCHANGED <<now, probed, probeVars, counted, status, latency,
                 lastError, sendVars, handleNow, evalVars, histVars>>

\* Under p.mu.
HandleRecord(c, b) ==
  /\ HandleGoto(c, b, "record", "idle")
  /\ lastConsume' = [lastConsume EXCEPT ![c] = handleNow[c][b]]
  /\ gotAt' = [gotAt EXCEPT ![c] = IF handleNow[c][b] > @ THEN handleNow[c][b] ELSE @]
  /\ handleNow' = [handleNow EXCEPT ![c][b] = 0]
  /\ UNCHANGED <<now, probed, lastProduceSuccess, storeVars, sendVars, evalVars, sentAt,
                 ratedAt>>

Handle(c, b) ==
  \/ HandleMessage(c, b)
  \/ HandleSetLatency(c, b)
  \/ HandleSetLastSuccess(c, b)
  \/ HandleRecord(c, b)

-----------------------------------------------------------------------------
(* evalTick and evalOnce.                                                  *)

EvalGoto(from, to) ==
  /\ eval = from
  /\ eval' = to

\* The clock is read and the map is copied.
EvalTick ==
  /\ eval = "idle"
  /\ evalLeft = {}
  /\ probed # {}
  /\ evalLeft' = probed
  /\ evalNow' = now
  /\ UNCHANGED <<now, probed, probeVars, storeVars, sendVars, handleVars, evalCur, eval,
                 produceOK, consumeOK, histVars>>

Recent(t) == t # 0 /\ evalNow - t < Recency

\* Mutation: the zero time counts as a success.
EvalOnceZero(c) ==
  /\ EvalGoto("idle", "produce")
  /\ evalLeft' = evalLeft \ {c}
  /\ evalCur' = c
  /\ produceOK' = (evalNow - lastProduceSuccess[c] < Recency)
  /\ consumeOK' = (evalNow - lastConsume[c] < Recency)
  /\ UNCHANGED <<now, probed, probeVars, storeVars, sendVars, handleVars, evalNow, histVars>>

\* The two times are read under p.mu.
EvalOnce(c) ==
  /\ EvalGoto("idle", "produce")
  /\ evalLeft' = evalLeft \ {c}
  /\ evalCur' = c
  /\ produceOK' = Recent(lastProduceSuccess[c])
  /\ consumeOK' = Recent(lastConsume[c])
  /\ UNCHANGED <<now, probed, probeVars, storeVars, sendVars, handleVars, evalNow, histVars>>

EvalStatus(from, to, k, ok) ==
  /\ EvalGoto(from, to)
  /\ SetHealthStatus(evalCur, k, okFail(ok))
  /\ ratedAt' = [ratedAt EXCEPT ![evalCur][k] = evalNow]
  /\ UNCHANGED <<now, probed, probeVars, counted, latency, lastSuccess,
                 lastError, sendVars, handleVars, evalLeft, evalCur, evalNow, produceOK,
                 consumeOK, sentAt, gotAt>>

EvalProduce == EvalStatus("produce", "consume", "produce", produceOK)
EvalConsume == EvalStatus("consume", "overall", "consume", consumeOK)

\* Mutation: overall looks at the times again.
EvalOverallReread ==
  EvalStatus("overall", "setError", "overall",
             Recent(lastProduceSuccess[evalCur]) /\ Recent(lastConsume[evalCur]))

EvalOverall == EvalStatus("overall", "setError", "overall", produceOK /\ consumeOK)

EvalSetError ==
  /\ EvalGoto("setError", "clearProduce")
  /\ SetHealthLastError(evalCur, "consume", IF consumeOK THEN "none" ELSE "recency")
  /\ UNCHANGED <<now, probed, probeVars, counted, status, latency,
                 lastSuccess, sendVars, handleVars, evalLeft, evalCur, evalNow, produceOK,
                 consumeOK, histVars>>

\* The latency of an unhealthy check is cleared.
EvalClearLatency(from, to, k, ok) ==
  /\ EvalGoto(from, to)
  /\ IF ok THEN UNCHANGED latency ELSE SetHealthLatency(evalCur, k, "zero")
  /\ UNCHANGED <<now, probed, probeVars, counted, status, lastSuccess,
                 lastError, sendVars, handleVars, evalLeft, evalCur, evalNow, produceOK,
                 consumeOK, histVars>>

EvalClearProduce == EvalClearLatency("clearProduce", "clearConsume", "produce", produceOK)
EvalClearConsume == EvalClearLatency("clearConsume", "lastSuccess", "consume", consumeOK)

EvalLastSuccess ==
  /\ EvalGoto("lastSuccess", "idle")
  /\ IF produceOK /\ consumeOK
     THEN SetHealthLastSuccess(evalCur, "overall", evalNow)
     ELSE UNCHANGED lastSuccess
  /\ produceOK' = FALSE
  /\ consumeOK' = FALSE
  /\ evalNow' = IF evalLeft = {} THEN 0 ELSE evalNow
  /\ UNCHANGED <<now, probed, probeVars, counted, status, latency,
                 lastError, sendVars, handleVars, evalLeft, evalCur, histVars>>

Eval ==
  \/ EvalTick
  \/ \E c \in evalLeft : EvalOnce(c)
  \/ EvalProduce
  \/ EvalConsume
  \/ EvalOverall
  \/ EvalSetError
  \/ EvalClearProduce
  \/ EvalClearConsume
  \/ EvalLastSuccess

Next ==
  \/ Tick
  \/ \E c \in Cluster : AddProbe(c) \/ Send(c)
  \/ \E c \in Cluster, b \in Callback : Handle(c, b)
  \/ Eval

Spec == Init /\ [][Next]_vars

-----------------------------------------------------------------------------
(* /healthz: HealthDetail under the store's read lock, one state.          *)

\* The clusters that HealthDetail lists.
clusterSet == counted \cup {c \in Cluster : \E k \in Check : status[c][k] # "absent"}

\* Its overall verdict.
HealthDetail ==
  IF clusterSet # {} /\ \A c \in clusterSet : status[c]["overall"] = "ok"
  THEN "ok" ELSE "fail"

\* The status of the answer to a GET.
HealthzHandler == IF HealthDetail # "ok" THEN 503 ELSE 200

-----------------------------------------------------------------------------
(* Properties.                                                             *)

Time == 0..MaxTime

\* The state has its types.
TypeOK ==
  /\ now \in 1..MaxTime
  /\ probed \subseteq Cluster
  /\ lastProduceSuccess \in [Cluster -> Time]
  /\ lastConsume \in [Cluster -> Time]
  /\ counted \subseteq Cluster
  /\ status \in [Cluster -> [Check -> {"absent", "fail", "ok"}]]
  /\ latency \in [Cluster -> [Check -> {"zero", "measured"}]]
  /\ lastSuccess \in [Cluster -> [Check -> Time]]
  /\ lastError \in [Cluster -> [Check -> {"none", "rpc", "recency"}]]
  /\ send \in [Cluster -> {"idle", "sending", "setError", "setLatency", "setLastSuccess",
                           "clearError", "record"}]
  /\ sendNow \in [Cluster -> Time]
  /\ handle \in [Cluster -> [Callback -> {"idle", "setLatency", "setLastSuccess", "record"}]]
  /\ handleNow \in [Cluster -> [Callback -> Time]]
  /\ evalLeft \subseteq Cluster
  /\ evalCur \in Cluster
  /\ eval \in {"idle", "produce", "consume", "overall", "setError", "clearProduce",
               "clearConsume", "lastSuccess"}
  /\ evalNow \in Time
  /\ produceOK \in BOOLEAN
  /\ consumeOK \in BOOLEAN
  /\ sentAt \in [Cluster -> Time]
  /\ gotAt \in [Cluster -> Time]
  /\ ratedAt \in [Cluster -> [Check -> Time]]

\* No check is called healthy that is not: when a status ok was computed, a
\* send that succeeded had begun less than Recency before, and likewise a
\* message; overall needs both.  Sends and callbacks go on between the
\* reading of the times and the three writes.
OkIsEarned ==
  \A c \in Cluster :
    /\ \A k \in {"produce", "overall"} :
         status[c][k] = "ok" => sentAt[c] > 0 /\ ratedAt[c][k] - sentAt[c] < Recency
    /\ \A k \in {"consume", "overall"} :
         status[c][k] = "ok" => gotAt[c] > 0 /\ ratedAt[c][k] - gotAt[c] < Recency

\* Outside evalOnce, overall is the conjunction of the two checks.
OverallAgrees ==
  \A c \in Cluster :
    eval = "idle" \/ evalCur # c =>
      (status[c]["overall"] = "ok"
         <=> status[c]["produce"] = "ok" /\ status[c]["consume"] = "ok")

\* "the collector mirrors them as Prometheus metrics": between sends the
\* gauge of the last success is the time that drives the status.
ProduceMirrored ==
  \A c \in Cluster : send[c] = "idle" => lastSuccess[c]["produce"] = lastProduceSuccess[c]

\* "503 when any cluster is unhealthy or no probe has completed yet"; in the
\* words of the README, any cluster that is unhealthy or has not completed
\* its first probe makes it 503.
ReadyOnlyAfterFirstProbe ==
  HealthzHandler = 200 => \A c \in probed : status[c]["overall"] # "absent"
=============================================================================
