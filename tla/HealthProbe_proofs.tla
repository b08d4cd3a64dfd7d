------------------------- MODULE HealthProbe_proofs -------------------------
(***************************************************************************)
(* Proofs about HealthProbe, for any clusters, any number of callbacks at  *)
(* once and any window.  The clock does not go back, and a cluster has one *)
(* send at a time, so the time of its last success only grows; that of its *)
(* last message may go back, but never beyond the latest that was got.     *)
(* What a verdict of evalOnce rests on therefore stays true until it is    *)
(* written, whatever happens in between.                                   *)
(***************************************************************************)
EXTENDS HealthProbe, TLAPS

\* The time of a send or of a callback was read from the clock; a send began
\* after the last success was recorded.
Times ==
  \A c \in Cluster :
    /\ sentAt[c] <= now /\ sendNow[c] <= now
    /\ send[c] # "idle" => sentAt[c] <= sendNow[c]
    /\ lastProduceSuccess[c] = sentAt[c]
    /\ lastConsume[c] <= gotAt[c]

\* A success less than Recency before t.
Sent(c, t) == sentAt[c] > 0 /\ t - sentAt[c] < Recency

Got(c, t) == gotAt[c] > 0 /\ t - gotAt[c] < Recency

\* A verdict that is on its way to the store is as good as one that is there.
Verdict ==
  /\ produceOK => Sent(evalCur, evalNow)
  /\ consumeOK => Got(evalCur, evalNow)
  /\ eval = "idle" => ~ produceOK /\ ~ consumeOK

Earned ==
  \A c \in Cluster :
    /\ \A k \in {"produce", "overall"} : status[c][k] = "ok" => Sent(c, ratedAt[c][k])
    /\ \A k \in {"consume", "overall"} : status[c][k] = "ok" => Got(c, ratedAt[c][k])

Agrees(c) ==
  status[c]["overall"] = "ok"
    <=> status[c]["produce"] = "ok" /\ status[c]["consume"] = "ok"

\* How far evalOnce has come with the statuses of its cluster.
Rated ==
  /\ \A c \in Cluster : c # evalCur => Agrees(c)
  /\ eval \notin {"produce", "consume", "overall"} => Agrees(evalCur)
  /\ eval \in {"consume", "overall"} =>
       status[evalCur]["produce"] = okFail(produceOK)
  /\ eval = "overall" => status[evalCur]["consume"] = okFail(consumeOK)

\* The gauge and the time differ only while sendOne is between the two.
Mirror ==
  \A c \in Cluster :
    lastSuccess[c]["produce"] =
      IF send[c] \in {"clearError", "record"} THEN sendNow[c]
      ELSE lastProduceSuccess[c]

IInv == TypeOK /\ Times /\ Verdict /\ Earned /\ Rated /\ Mirror

-----------------------------------------------------------------------------
\* The initial state satisfies the invariant.
LEMMA InitIInv == Init => IInv
<1> SUFFICES ASSUME Init PROVE IInv
  BY Zenon
<1>1. TypeOK
  <2>1. evalCur \in Cluster
    BY ClusterAssumption, Zenon DEF Init
  <2>2. 1 \in 1 .. MaxTime /\ 0 \in Time
    BY MaxTimeAssumption DEF Time
  <2>3. produceOK \in BOOLEAN /\ consumeOK \in BOOLEAN
    BY Zenon DEF Init
  <2> QED
    BY <2>1, <2>2, <2>3, Zenon DEF Init, TypeOK
<1>2. Times
  <2>1. /\ now = 1
        /\ \A c \in Cluster :
             /\ sentAt[c] = 0 /\ sendNow[c] = 0 /\ lastProduceSuccess[c] = 0
             /\ lastConsume[c] = 0 /\ gotAt[c] = 0
    BY Zenon DEF Init
  <2>2. 0 <= 1 /\ 0 <= 0
    OBVIOUS
  <2> QED
    BY <2>1, <2>2, Zenon DEF Times
<1>3. Verdict
  BY Zenon DEF Init, Verdict
<1>4. \A c \in Cluster, k \in Check :
        status[c][k] = "absent" /\ lastSuccess[c][k] = 0
  BY Zenon DEF Init
<1>5. {"produce", "consume", "overall"} \subseteq Check /\ evalCur \in Cluster
  BY <1>1, Zenon DEF Check, TypeOK
<1>6. Earned /\ Rated /\ Mirror
  BY <1>4, <1>5, Zenon DEF Init, Earned, Rated, Mirror, Agrees
<1> QED
  BY <1>1, <1>2, <1>3, <1>6, Zenon DEF IInv

\* What a write to the store does to the type of its map.
LEMMA SetTypes ==
  ASSUME TypeOK, NEW c \in Cluster, NEW k \in Check
  PROVE  /\ \A v \in {"zero", "measured"} : SetHealthLatency(c, k, v) =>
              latency' \in [Cluster -> [Check -> {"zero", "measured"}]]
         /\ \A e \in {"none", "rpc", "recency"} : SetHealthLastError(c, k, e) =>
              lastError' \in [Cluster -> [Check -> {"none", "rpc", "recency"}]]
         /\ \A t \in Time : SetHealthLastSuccess(c, k, t) =>
              /\ lastSuccess' \in [Cluster -> [Check -> Time]]
              /\ k # "produce" => \A d \in Cluster :
                   lastSuccess'[d]["produce"] = lastSuccess[d]["produce"]
<1>1. ASSUME NEW v \in {"zero", "measured"}, SetHealthLatency(c, k, v)
      PROVE  latency' \in [Cluster -> [Check -> {"zero", "measured"}]]
  BY <1>1, Zenon DEF SetHealthLatency, TypeOK
<1>2. ASSUME NEW e \in {"none", "rpc", "recency"}, SetHealthLastError(c, k, e)
      PROVE  lastError' \in [Cluster -> [Check -> {"none", "rpc", "recency"}]]
  BY <1>2, Zenon DEF SetHealthLastError, TypeOK
<1>3. ASSUME NEW t \in Time, SetHealthLastSuccess(c, k, t)
      PROVE  /\ lastSuccess' \in [Cluster -> [Check -> Time]]
             /\ k # "produce" => \A d \in Cluster :
                  lastSuccess'[d]["produce"] = lastSuccess[d]["produce"]
  BY <1>3 DEF SetHealthLastSuccess, TypeOK, Check
<1> QED
  BY <1>1, <1>2, <1>3, Zenon

\* The verdicts and the statuses stand where neither evaluation nor the
\* history of successes takes a step.
LEMMA StatusFrame ==
  ASSUME IInv, UNCHANGED <<status, evalVars, histVars>>
  PROVE  Verdict' /\ Earned' /\ Rated'
  BY Zenon DEF IInv, evalVars, histVars, Verdict, Earned, Rated, Agrees, Sent, Got

\* The times and the mirror stand where neither the clock nor a send nor a
\* callback takes a step, and the gauge of the last send is left alone.
LEMMA TimesFrame ==
  ASSUME IInv, UNCHANGED <<now, probeVars, sendVars, sentAt, gotAt>>,
         \A c \in Cluster : lastSuccess'[c]["produce"] = lastSuccess[c]["produce"]
  PROVE  Times' /\ Mirror'
  BY Zenon DEF IInv, probeVars, sendVars, Times, Mirror

\* Later successes only make a status better earned.
LEMMA EarnedGrows ==
  ASSUME IInv, NEW c \in Cluster, UNCHANGED <<status, evalVars, ratedAt>>,
         sentAt' \in [Cluster -> Time], gotAt' \in [Cluster -> Time],
         \A d \in Cluster : sentAt[d] <= sentAt'[d] /\ gotAt[d] <= gotAt'[d]
  PROVE  Verdict' /\ Earned' /\ Rated'
<1> \A d \in Cluster : /\ sentAt[d] \in Int /\ sentAt'[d] \in Int
                       /\ gotAt[d] \in Int /\ gotAt'[d] \in Int
                       /\ \A k \in Check : ratedAt[d][k] \in Int
  BY MaxTimeAssumption DEF IInv, TypeOK, Time
<1> evalCur \in Cluster /\ evalNow \in Int /\ Recency \in Int
  BY MaxTimeAssumption, RecencyAssumption DEF IInv, TypeOK, Time
<1>1. \A d \in Cluster, t \in Int : /\ Sent(d, t) => Sent(d, t)'
                                    /\ Got(d, t) => Got(d, t)'
  BY DEF Sent, Got
<1>2. Verdict'
  BY <1>1, Zenon DEF IInv, Verdict, evalVars
<1>3. Earned'
  BY <1>1, Zenon DEF IInv, Earned, Check
<1>4. Rated'
  BY Zenon DEF IInv, Rated, Agrees, evalVars
<1> QED
  BY <1>2, <1>3, <1>4, Zenon

\* The clock and a new probe.
LEMMA TickIInv ==
  ASSUME IInv, Tick \/ \E c \in Cluster : AddProbe(c)
  PROVE  IInv'
<1>1. /\ now' \in 1 .. MaxTime /\ now <= now' /\ probed' \subseteq Cluster
      /\ UNCHANGED <<probeVars, storeVars, sendVars, handleVars, evalVars,
                     histVars>>
  BY MaxTimeAssumption DEF Tick, AddProbe, IInv, TypeOK
<1>2. TypeOK'
  BY <1>1, Zenon DEF IInv, TypeOK, probeVars, storeVars, sendVars, handleVars,
              evalVars, histVars
<1>3. Times' /\ Mirror'
  BY <1>1, MaxTimeAssumption
  DEF IInv, TypeOK, Time, Times, Mirror, probeVars, storeVars, sendVars, histVars
<1>4. Verdict' /\ Earned' /\ Rated'
  BY <1>1, StatusFrame, Zenon DEF storeVars
<1> QED
  BY <1>2, <1>3, <1>4, Zenon DEF IInv

\* sendOne: the times it touches are its own, and it records a success that
\* began after the last one.
LEMMA SendIInv ==
  ASSUME IInv, NEW c \in Cluster, Send(c)
  PROVE  IInv'
<1> USE DEF probeVars, storeVars, sendVars, handleVars, evalVars, histVars,
            SendGoto, Check
<1> \A d \in Cluster : /\ sendNow[d] \in Int /\ sentAt[d] \in Int
                       /\ now \in Int /\ gotAt[d] \in Int
  BY MaxTimeAssumption DEF IInv, TypeOK, Time
<1>1. CASE SendOne(c)
  <2>1. TypeOK'
    BY <1>1, MaxTimeAssumption DEF SendOne, IInv, TypeOK, Time
  <2>2. Times' /\ Mirror'
    BY <1>1 DEF SendOne, IInv, TypeOK, Times, Mirror
  <2> QED
    BY <1>1, <2>1, <2>2, StatusFrame, Zenon DEF SendOne, IInv
<1>2. CASE SendError(c) \/ SendSuccess(c)
  <2>1. TypeOK'
    BY <1>2, Zenon DEF SendError, SendSuccess, IInv, TypeOK
  <2>2. Times' /\ Mirror'
    BY <1>2 DEF SendError, SendSuccess, IInv, TypeOK, Times, Mirror
  <2> QED
    BY <1>2, <2>1, <2>2, StatusFrame, Zenon DEF SendError, SendSuccess, IInv
<1>3. CASE SendSetError(c)
  <2>1. TypeOK'
    BY <1>3, MaxTimeAssumption
    DEF SendSetError, SetHealthLastError, IInv, TypeOK, Time
  <2>2. Times' /\ Mirror'
    BY <1>3, MaxTimeAssumption DEF SendSetError, IInv, TypeOK, Times, Mirror
  <2> QED
    BY <1>3, <2>1, <2>2, StatusFrame, Zenon DEF SendSetError, IInv
<1>4. CASE SendSetLatency(c)
  <2>1. TypeOK'
    BY <1>4, Zenon DEF SendSetLatency, SetHealthLatency, IInv, TypeOK
  <2>2. Times' /\ Mirror'
    BY <1>4, Zenon DEF SendSetLatency, IInv, TypeOK, Times, Mirror
  <2> QED
    BY <1>4, <2>1, <2>2, StatusFrame, Zenon DEF SendSetLatency, IInv
<1>5. CASE SendClearError(c)
  <2>1. TypeOK'
    BY <1>5, Zenon DEF SendClearError, SetHealthLastError, IInv, TypeOK
  <2>2. Times' /\ Mirror'
    BY <1>5, Zenon DEF SendClearError, IInv, TypeOK, Times, Mirror
  <2> QED
    BY <1>5, <2>1, <2>2, StatusFrame, Zenon DEF SendClearError, IInv
<1>6. CASE SendSetLastSuccess(c)
  <2>1. TypeOK'
    BY <1>6, Zenon DEF SendSetLastSuccess, SetHealthLastSuccess, IInv, TypeOK
  <2>2. Times' /\ Mirror'
    BY <1>6 DEF SendSetLastSuccess, SetHealthLastSuccess, IInv, TypeOK, Times,
                Mirror
  <2> QED
    BY <1>6, <2>1, <2>2, StatusFrame, Zenon DEF SendSetLastSuccess, IInv
<1>7. CASE SendRecord(c)
  <2>1. TypeOK'
    BY <1>7, MaxTimeAssumption DEF SendRecord, IInv, TypeOK, Time
  <2>2. Times' /\ Mirror'
    BY <1>7, MaxTimeAssumption DEF SendRecord, IInv, TypeOK, Times, Mirror
  <2>3. \A d \in Cluster : sentAt[d] <= sentAt'[d] /\ gotAt[d] <= gotAt'[d]
    BY <1>7 DEF SendRecord, IInv, TypeOK, Times
  <2>4. Verdict' /\ Earned' /\ Rated'
    BY <1>7, <2>1, <2>3, EarnedGrows, Zenon DEF SendRecord, TypeOK
  <2> QED
    BY <2>1, <2>2, <2>4, Zenon DEF IInv
<1> QED
  BY <1>1, <1>2, <1>3, <1>4, <1>5, <1>6, <1>7, Zenon DEF Send

\* handleMessage: the latest message it has got only grows.
LEMMA HandleIInv ==
  ASSUME IInv, NEW c \in Cluster, NEW b \in Callback, Handle(c, b)
  PROVE  IInv'
<1> USE DEF probeVars, storeVars, sendVars, handleVars, evalVars, histVars,
            HandleGoto, Check
<1> \A d \in Cluster : /\ lastConsume[d] \in Int /\ gotAt[d] \in Int
                       /\ sentAt[d] \in Int
                       /\ \A e \in Callback : handleNow[d][e] \in Int
  BY MaxTimeAssumption DEF IInv, TypeOK, Time
<1>1. CASE HandleMessage(c, b)
  <2>1. TypeOK'
    BY <1>1, MaxTimeAssumption DEF HandleMessage, IInv, TypeOK, Time
  <2> QED
    BY <1>1, <2>1, StatusFrame, TimesFrame, Zenon DEF HandleMessage, IInv
<1>2. CASE HandleSetLatency(c, b)
  <2>1. latency' \in [Cluster -> [Check -> {"zero", "measured"}]]
    <3>1. CASE SetHealthLatency(c, "consume", "measured")
      BY <3>1, SetTypes, Zenon DEF IInv
    <3>2. CASE UNCHANGED latency
      BY <3>2, Zenon DEF IInv, TypeOK
    <3> QED
      BY <1>2, <3>1, <3>2, Zenon DEF HandleSetLatency
  <2>2. TypeOK'
    BY <1>2, <2>1, Zenon DEF HandleSetLatency, IInv, TypeOK
  <2> QED
    BY <1>2, <2>2, StatusFrame, TimesFrame, Zenon DEF HandleSetLatency, IInv
<1>3. CASE HandleSetLastSuccess(c, b)
  <2>1. TypeOK'
    BY <1>3 DEF HandleSetLastSuccess, SetHealthLastSuccess, IInv, TypeOK
  <2>2. \A d \in Cluster : lastSuccess'[d]["produce"] = lastSuccess[d]["produce"]
    BY <1>3 DEF HandleSetLastSuccess, SetHealthLastSuccess, IInv, TypeOK
  <2> QED
    BY <1>3, <2>1, <2>2, StatusFrame, TimesFrame, Zenon DEF HandleSetLastSuccess, IInv
<1>4. CASE HandleRecord(c, b)
  <2>1. TypeOK'
    BY <1>4, MaxTimeAssumption DEF HandleRecord, IInv, TypeOK, Time
  <2>2. \A d \in Cluster : sentAt[d] <= sentAt'[d] /\ gotAt[d] <= gotAt'[d]
    BY <1>4 DEF HandleRecord, IInv, TypeOK
  <2>3. Times' /\ Mirror'
    BY <1>4 DEF HandleRecord, IInv, TypeOK, Times, Mirror
  <2>4. Verdict' /\ Earned' /\ Rated'
    BY <1>4, <2>1, <2>2, EarnedGrows, Zenon DEF HandleRecord, TypeOK
  <2> QED
    BY <2>1, <2>3, <2>4, Zenon DEF IInv
<1> QED
  BY <1>1, <1>2, <1>3, <1>4, Zenon DEF Handle

\* evalTick takes a copy of the probes while no verdict is open.
LEMMA EvalTickIInv ==
  ASSUME IInv, EvalTick
  PROVE  IInv'
<1> USE DEF probeVars, storeVars, sendVars, handleVars, evalVars, histVars
<1>1. TypeOK'
  BY MaxTimeAssumption DEF EvalTick, IInv, TypeOK, Time
<1>2. Verdict'
  BY Zenon DEF EvalTick, IInv, Verdict
<1>3. Earned' /\ Rated'
  BY Zenon DEF EvalTick, IInv, Earned, Rated, Agrees, Sent, Got
<1>4. Times' /\ Mirror'
  BY TimesFrame, Zenon DEF EvalTick
<1> QED
  BY <1>1, <1>2, <1>3, <1>4, Zenon DEF IInv

\* evalOnce begins: its two verdicts rest on times that were recorded.
LEMMA EvalOnceIInv ==
  ASSUME IInv, NEW c \in evalLeft, EvalOnce(c)
  PROVE  IInv'
<1> USE DEF probeVars, storeVars, sendVars, handleVars, evalVars, histVars,
            EvalGoto
<1>1. c \in Cluster
  BY Zenon DEF IInv, TypeOK
<1>2. /\ lastProduceSuccess[c] \in Nat /\ lastConsume[c] \in Nat
      /\ sentAt[c] \in Nat /\ gotAt[c] \in Nat
      /\ evalNow \in Int /\ Recency \in Int
  BY <1>1, MaxTimeAssumption, RecencyAssumption DEF IInv, TypeOK, Time
<1>3. /\ Recent(lastProduceSuccess[c]) => Sent(c, evalNow)
      /\ Recent(lastConsume[c]) => Got(c, evalNow)
  BY <1>1, <1>2 DEF IInv, Times, Recent, Sent, Got
<1>4. produceOK' \in BOOLEAN /\ consumeOK' \in BOOLEAN
  BY Zenon DEF EvalOnce, Recent
<1>5. TypeOK'
  BY <1>1, <1>4, Zenon DEF EvalOnce, IInv, TypeOK
<1>6. Verdict'
  BY <1>3, Zenon DEF EvalOnce, Verdict, Sent, Got
<1>7. Earned'
  BY Zenon DEF EvalOnce, IInv, Earned, Sent, Got
<1>8. Rated'
  BY <1>1, Zenon DEF EvalOnce, IInv, TypeOK, Rated, Agrees
<1>9. Times' /\ Mirror'
  BY TimesFrame, Zenon DEF EvalOnce
<1> QED
  BY <1>5, <1>6, <1>7, <1>8, <1>9, Zenon DEF IInv

\* The three statuses are written with the verdicts, and the third agrees
\* with the first two.
LEMMA EvalStatusIInv ==
  ASSUME IInv, EvalProduce \/ EvalConsume \/ EvalOverall
  PROVE  IInv'
<1> USE DEF probeVars, storeVars, sendVars, handleVars, evalVars, histVars,
            EvalGoto
<1>1. PICK k \in Check, ok \in {produceOK, consumeOK, produceOK /\ consumeOK} :
        /\ status' = [status EXCEPT ![evalCur][k] = okFail(ok)]
        /\ ratedAt' = [ratedAt EXCEPT ![evalCur][k] = evalNow]
        /\ UNCHANGED <<now, probeVars, sendVars, handleVars, probed, counted,
                       latency, lastSuccess, lastError, evalLeft, evalCur,
                       evalNow, produceOK, consumeOK, sentAt, gotAt>>
        /\ \/ k = "produce" /\ ok = produceOK /\ eval = "produce"
              /\ eval' = "consume"
           \/ k = "consume" /\ ok = consumeOK /\ eval = "consume"
              /\ eval' = "overall"
           \/ k = "overall" /\ ok = (produceOK /\ consumeOK) /\ eval = "overall"
              /\ eval' = "setError"
  BY Zenon DEF EvalProduce, EvalConsume, EvalOverall, EvalStatus, SetHealthStatus,
         Check
<1>2. okFail(ok) \in {"ok", "fail"} /\ (okFail(ok) = "ok" => ok)
  BY Zenon DEF okFail
<1>3. TypeOK'
  BY <1>1, <1>2, Zenon DEF IInv, TypeOK
<1>4. Verdict'
  BY <1>1, Zenon DEF IInv, Verdict, Sent, Got
<1>5. Earned'
  BY <1>1, <1>2 DEF IInv, TypeOK, Check, Verdict, Earned, Sent, Got
<1>6. Rated'
  BY <1>1, <1>2 DEF IInv, TypeOK, Check, Rated, Agrees, okFail
<1>7. Times' /\ Mirror'
  BY <1>1, TimesFrame, Zenon
<1> QED
  BY <1>3, <1>4, <1>5, <1>6, <1>7, Zenon DEF IInv

\* The errors and the latencies say nothing about the statuses.
LEMMA EvalClearIInv ==
  ASSUME IInv, EvalSetError \/ EvalClearProduce \/ EvalClearConsume
  PROVE  IInv'
<1> USE DEF probeVars, storeVars, sendVars, handleVars, evalVars, histVars,
            EvalGoto
<1>1. /\ eval \in {"setError", "clearProduce", "clearConsume"}
      /\ eval' \in {"clearProduce", "clearConsume", "lastSuccess"}
      /\ UNCHANGED <<now, probeVars, sendVars, handleVars, probed, counted,
                     status, lastSuccess, evalLeft, evalCur, evalNow, produceOK,
                     consumeOK, histVars>>
  BY Zenon DEF EvalSetError, EvalClearProduce, EvalClearConsume, EvalClearLatency
<1> evalCur \in Cluster /\ {"produce", "consume"} \subseteq Check
  BY Zenon DEF IInv, TypeOK, Check
<1>2. latency' \in [Cluster -> [Check -> {"zero", "measured"}]]
  <2>1. \/ UNCHANGED latency
        \/ \E k \in {"produce", "consume"} : SetHealthLatency(evalCur, k, "zero")
    BY Zenon DEF EvalSetError, EvalClearProduce, EvalClearConsume, EvalClearLatency
  <2>2. CASE UNCHANGED latency
    BY <2>2, Zenon DEF IInv, TypeOK
  <2>3. CASE \E k \in {"produce", "consume"} : SetHealthLatency(evalCur, k, "zero")
    BY <2>3, SetTypes, Zenon DEF IInv
  <2> QED
    BY <2>1, <2>2, <2>3, Zenon
<1>3. lastError' \in [Cluster -> [Check -> {"none", "rpc", "recency"}]]
  <2>1. \/ UNCHANGED lastError
        \/ \E e \in {"none", "recency"} : SetHealthLastError(evalCur, "consume", e)
    BY Zenon DEF EvalSetError, EvalClearProduce, EvalClearConsume, EvalClearLatency
  <2>2. CASE UNCHANGED lastError
    BY <2>2, Zenon DEF IInv, TypeOK
  <2>3. CASE \E e \in {"none", "recency"} :
                SetHealthLastError(evalCur, "consume", e)
    BY <2>3, SetTypes, Zenon DEF IInv
  <2> QED
    BY <2>1, <2>2, <2>3, Zenon
<1>4. TypeOK'
  BY <1>1, <1>2, <1>3, Zenon DEF IInv, TypeOK
<1>5. Verdict' /\ Earned' /\ Rated'
  BY <1>1, Zenon DEF IInv, Verdict, Earned, Rated, Agrees, Sent, Got
<1>6. Times' /\ Mirror'
  BY <1>1, TimesFrame, Zenon
<1> QED
  BY <1>4, <1>5, <1>6, Zenon DEF IInv

\* evalOnce ends and its verdicts with it.
LEMMA EvalLastSuccessIInv ==
  ASSUME IInv, EvalLastSuccess
  PROVE  IInv'
<1> USE DEF probeVars, storeVars, sendVars, handleVars, evalVars, histVars,
            EvalGoto
<1>1. /\ lastSuccess' \in [Cluster -> [Check -> Time]]
      /\ \A c \in Cluster : lastSuccess'[c]["produce"] = lastSuccess[c]["produce"]
  <2>1. CASE UNCHANGED lastSuccess
    BY <2>1, Zenon DEF IInv, TypeOK
  <2>2. CASE SetHealthLastSuccess(evalCur, "overall", evalNow)
    <3>1. evalCur \in Cluster /\ "overall" \in Check /\ evalNow \in Time
      BY Zenon DEF IInv, TypeOK, Check
    <3> QED
      BY <2>2, <3>1, SetTypes, Zenon DEF IInv
  <2> QED
    BY <2>1, <2>2, Zenon DEF EvalLastSuccess
<1>2. evalNow' \in Time
  BY MaxTimeAssumption DEF EvalLastSuccess, IInv, TypeOK, Time
<1>3. ~ produceOK' /\ ~ consumeOK' /\ produceOK' \in BOOLEAN /\ consumeOK' \in BOOLEAN
  BY Zenon DEF EvalLastSuccess
<1>4. TypeOK'
  BY <1>1, <1>2, <1>3, Zenon DEF EvalLastSuccess, IInv, TypeOK
<1>5. Verdict'
  BY <1>3, Zenon DEF Verdict
<1>6. Earned' /\ Rated'
  BY Zenon DEF EvalLastSuccess, IInv, Earned, Rated, Agrees, Sent, Got
<1>7. Times' /\ Mirror'
  BY <1>1, TimesFrame, Zenon DEF EvalLastSuccess
<1> QED
  BY <1>4, <1>5, <1>6, <1>7, Zenon DEF IInv

-----------------------------------------------------------------------------
\* The invariant holds in every state, for any number of clusters that are
\* probed and of messages that are handled at once.
THEOREM HealthInvariant == Spec => []IInv
<1>1. ASSUME IInv, [Next]_vars PROVE IInv'
  <2>1. CASE Tick \/ \E c \in Cluster : AddProbe(c)
    BY <1>1, <2>1, TickIInv, Zenon
  <2>2. CASE \E c \in Cluster : Send(c)
    BY <1>1, <2>2, SendIInv, Zenon
  <2>3. CASE \E c \in Cluster, b \in Callback : Handle(c, b)
    BY <1>1, <2>3, HandleIInv, Zenon
  <2>4. CASE Eval
    BY <1>1, <2>4, EvalTickIInv, EvalOnceIInv, EvalStatusIInv, EvalClearIInv, Zenon,
       EvalLastSuccessIInv DEF Eval
  <2>5. CASE UNCHANGED vars
    <3> USE <2>5 DEF vars, probeVars, storeVars, sendVars, handleVars, evalVars,
                     histVars
    <3>1. TypeOK'
      BY <1>1, Zenon DEF IInv, TypeOK
    <3>2. Verdict' /\ Earned' /\ Rated'
      BY <1>1, StatusFrame, Zenon
    <3>3. Times' /\ Mirror'
      BY <1>1, TimesFrame, Zenon
    <3> QED
      BY <3>1, <3>2, <3>3, Zenon DEF IInv
  <2> QED
    BY <1>1, <2>1, <2>2, <2>3, <2>4, <2>5, Zenon DEF Next
<1> QED
  BY <1>1, InitIInv, PTL DEF Spec

\* No check is shown healthy without a success in the window: sends and
\* callbacks that end between evalOnce's reading of the times and its writes
\* cannot make a verdict wrong.
THEOREM HealthOkIsEarned == Spec => []OkIsEarned
<1>1. IInv => OkIsEarned
  BY Zenon DEF IInv, Earned, OkIsEarned, Sent, Got
<1> QED
  BY <1>1, HealthInvariant, PTL

\* A reader that does not look into the middle of evalOnce sees an overall
\* status that is the conjunction of the other two.
THEOREM HealthOverallAgrees == Spec => []OverallAgrees
<1>1. IInv => OverallAgrees
  BY Zenon DEF IInv, Rated, Agrees, OverallAgrees
<1> QED
  BY <1>1, HealthInvariant, PTL

\* Between two sends the gauge of the last success is the time that the
\* evaluation uses.
THEOREM HealthProduceMirrored == Spec => []ProduceMirrored
<1>1. IInv => ProduceMirrored
  BY Zenon DEF IInv, Mirror, ProduceMirrored
<1> QED
  BY <1>1, HealthInvariant, PTL

=============================================================================
