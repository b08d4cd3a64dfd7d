----------------------------- MODULE BrokerJobs -----------------------------
(***************************************************************************)
(* The collection jobs that go over the brokers of the cluster info, one   *)
(* after the other: CollectProducer, CollectBrokerStatsTopic (for a        *)
(* topic), CollectBrokerStats, CollectBrokerGroupStats and                 *)
(* CollectBrokerRuntimeStats of internal/task/collect.go, with the key and *)
(* the labels that internal/collector gives to each of their samples.      *)
(*                                                                         *)
(* Meanwhile brokers fail over: an address changes hands, and a round goes *)
(* on with the addresses it read.  The jobs share no state, so a behaviour *)
(* is some rounds of one of them.                                          *)
(***************************************************************************)
EXTENDS RuntimeStats

CONSTANTS BrokerName, Addr,
          MaxLog,      \* bound: the commit log of an address
          MaxMoves,    \* bound: changes of the cluster during the rounds
          MaxRounds    \* bound: the rounds

ASSUME BoundAssumption == {MaxLog, MaxMoves, MaxRounds} \subseteq Nat

(* cluster, the brokers:
     addrs    BrokerAddrTable: by broker name and id, "" where there is none
     log      CommitLogMaxOffset of an address
     moves    how often addrs has changed
   round, of the job:
     job, at, left    its name, its place and the brokers still to come
     ci, route        the addresses it read: those of a topic's route are
                      read after those of the cluster info
     cur, got         the broker it is in the middle of, and the commit-log
                      offsets it has of it: {} for a failed fetch
     lag              history: how far the slave was behind when it was read
   store: what is put, by family and key
   moved: history, the brokers whose master was not always the same          *)
VARIABLES cluster, round, store, moved

brokerVars == <<cluster, round, store, moved>>

\* The address of a broker that has no entry under an id.
NoAddr == ""

\* Every address belongs to one broker, under one id.
Tables ==
  {t \in [BrokerName -> [0 .. 1 -> Addr \cup {NoAddr}]] :
     \A b, c \in BrokerName, i, j \in 0 .. 1 :
       t[b][i] = t[c][j] /\ t[b][i] # NoAddr => b = c /\ i = j}

Jobs == {"producer", "topicStats", "stats", "groupStats", "runtime"}

Firing(j, n) ==
  [job |-> j, no |-> n, at |-> "info", left |-> {}, ci |-> <<>>,
   route |-> <<>>, cur |-> {}, got |-> <<>>, lag |-> 0]

BrokerInit(T, J) ==
  /\ \E t \in T : cluster = [addrs |-> t, log |-> [a \in Addr |-> 0], moves |-> 0]
  /\ \E j \in J : round = Firing(j, 1)
  /\ store = <<>>
  /\ moved = {}

-----------------------------------------------------------------------------
(* At the brokers.                                                         *)

\* A broker is started, stopped, promoted or given another address.
Move(t) ==
  /\ cluster.moves < MaxMoves
  /\ t # cluster.addrs
  /\ cluster' = [cluster EXCEPT !.addrs = t, !.moves = @ + 1]
  /\ moved' = moved \cup {b \in BrokerName : t[b][0] # cluster.addrs[b][0]}
  /\ UNCHANGED <<round, store>>

\* The commit log of an address only grows; one job looks at it.
Write(a) ==
  /\ round.job = "groupStats"
  /\ cluster.log[a] < MaxLog
  /\ cluster' = [cluster EXCEPT !.log[a] = @ + 1]
  /\ UNCHANGED <<round, store, moved>>

-----------------------------------------------------------------------------
(* The frame of a round.                                                   *)

Registered(t) == {b \in BrokerName : t[b] # [i \in 0 .. 1 |-> NoAddr]}

\* Collection is off, the topic list is empty or a call fails.
InfoError ==
  /\ round.at = "info"
  /\ round' = [round EXCEPT !.at = "end"]
  /\ UNCHANGED <<cluster, store, moved>>

\* ExamineBrokerClusterInfo; its addresses are used to the end of the round.
Info ==
  /\ round.at = "info"
  /\ round' = [round EXCEPT !.ci = cluster.addrs, !.route = cluster.addrs,
                            !.left = Registered(cluster.addrs),
                            !.at = IF round.job = "topicStats" THEN "route"
                                                               ELSE "broker"]
  /\ UNCHANGED <<cluster, store, moved>>

\* ExamineTopicRouteInfo, later, or its error.
Route ==
  /\ round.at = "route"
  /\ round' = [round EXCEPT !.route = cluster.addrs, !.at = "broker",
                            !.left = Registered(cluster.addrs)]
  /\ UNCHANGED <<cluster, store, moved>>

RouteError ==
  /\ round.at = "route"
  /\ round' = [round EXCEPT !.at = "end"]
  /\ UNCHANGED <<cluster, store, moved>>

At(b, j) ==
  /\ round.at \in {"broker", "group"} /\ round.job = j
  /\ b \in round.left /\ round.cur \subseteq {b}

NextBroker(b) == [round EXCEPT !.left = @ \ {b}, !.cur = {}, !.got = <<>>,
                               !.lag = 0]

\* The next firing of the cron.
FireAgain ==
  /\ \/ round.at = "end"
     \/ round.at = "broker" /\ round.left = {} /\ round.job # "topicStats"
     \/ round.at = "group" /\ round.left = {}
  /\ round.no < MaxRounds
  /\ round' = Firing(round.job, round.no + 1)
  /\ UNCHANGED <<cluster, store, moved>>

master(b) == round.route[b][0]

\* The samples S, by family and key, are put with the value v.
PutAll(S, v) ==
  store' = [x \in S \cup DOMAIN store |-> IF x \in S THEN v ELSE store[x]]

-----------------------------------------------------------------------------
(* One broker.  Each of its calls may fail by itself, and then leaves what *)
(* the store had.                                                          *)

\* An answer without producers puts nothing; "" cannot be called.
CollectProducer(b) ==
  /\ At(b, "producer")
  /\ \E F \in SUBSET {"producerCounts"} :
       /\ F = {} \/ master(b) # NoAddr
       /\ PutAll(F \X {b}, [name |-> b])
  /\ round' = NextBroker(b)
  /\ UNCHANGED <<cluster, moved>>

CollectBrokerStats(b) ==
  /\ At(b, "stats")
  /\ \E F \in SUBSET {"brokerPutNums", "brokerGetNums"} :
       /\ F = {} \/ master(b) # NoAddr
       /\ PutAll(F \X {master(b)}, [name |-> b])
  /\ round' = NextBroker(b)
  /\ UNCHANGED <<cluster, moved>>

\* Mutant of brokerIP: the address of the slave, if there is one.
brokerIPSlave(b) == IF round.ci[b][1] # NoAddr THEN round.ci[b][1] ELSE master(b)

\* The master of the cluster info, or of the route if there is none.
brokerIP(b) == IF round.ci[b][0] # NoAddr THEN round.ci[b][0] ELSE master(b)

\* ViewBrokerStatsData of every broker of the route, for the topic and then
\* for its groups.  topicPutNums stands for topicPutSize too, groupGetNums
\* for groupGetSize and sendBackNums: they have the same keys.
CollectBrokerStatsTopic(b) ==
  /\ At(b, "topicStats")
  /\ \E F \in SUBSET {IF round.at = "broker" THEN "topicPutNums"
                                             ELSE "groupGetNums"} :
       /\ F = {} \/ master(b) # NoAddr
       /\ PutAll(F \X {IF round.at = "broker" THEN brokerIP(b) ELSE b},
                 [name |-> b])
  /\ round' = NextBroker(b)
  /\ UNCHANGED <<cluster, moved>>

\* QueryTopicConsumeByWho fails or knows no group, or the groups come next.
QueryTopicConsumeByWho ==
  /\ round.job = "topicStats" /\ round.at = "broker"
  /\ round.left = {}
  /\ \/ round' = [round EXCEPT !.at = "end"]
     \/ round' = [round EXCEPT !.at = "group", !.left = Registered(round.route)]
  /\ UNCHANGED <<cluster, store, moved>>

-----------------------------------------------------------------------------
(* CollectBrokerGroupStats and CollectBrokerRuntimeStats.                  *)

\* Mutant of FetchOrder: the master first.
FetchMasterFirst(b) == <<master(b), round.ci[b][1]>>

\* The slave first, so that what the master writes meanwhile adds to the
\* difference.
FetchOrder(b) == <<round.ci[b][1], master(b)>>

Offset(b, a) ==
  CHOOSE o \in {round.got[i] : i \in {j \in 1 .. 2 : FetchOrder(b)[j] = a}} : TRUE

\* fetchRuntime of the slave or the master.  A panic in it is not recovered
\* and ends the process.
fetchRuntime(b) ==
  /\ At(b, "groupStats")
  /\ round.ci[b][1] # NoAddr
  /\ Len(round.got) < 2
  /\ LET a == FetchOrder(b)[Len(round.got) + 1]
     IN  \E f \in FetchBrokerRuntimeStats :
           round' =
             IF a # NoAddr /\ f.result = "panic" THEN [round EXCEPT !.at = "panic"]
             ELSE [round EXCEPT
                     !.cur = {b},
                     !.got = Append(@, IF a # NoAddr /\ f.result = "ok"
                                       THEN {cluster.log[a]} ELSE {}),
                     !.lag = IF a = round.ci[b][1] /\ master(b) # NoAddr
                             THEN cluster.log[master(b)] - cluster.log[a] ELSE @]
  /\ UNCHANGED <<cluster, store, moved>>

\* AddBrokerCommitLogDiffMetric: 0 unless both were fetched.
CollectBrokerGroupStats(b) ==
  /\ At(b, "groupStats")
  /\ IF round.ci[b][1] = NoAddr THEN UNCHANGED store
     ELSE /\ Len(round.got) = 2
          /\ LET whole == {} \notin {round.got[1], round.got[2]}
                 num == CHOOSE n \in {w - s : w \in Offset(b, master(b)),
                                             s \in Offset(b, round.ci[b][1])} :
                          TRUE
             IN  PutAll({<<"brokerCommitLogDiff", round.ci[b][1]>>},
                        [name |-> b, num |-> IF whole THEN num ELSE 0,
                         whole |-> whole, lag |-> round.lag])
  /\ round' = NextBroker(b)
  /\ UNCHANGED <<cluster, moved>>

\* FetchBrokerRuntimeStats and AddBrokerRuntimeStatsMetric: the gauges, and
\* those of the distribution if there is one.
CollectBrokerRuntimeStats(b) ==
  /\ At(b, "runtime")
  /\ \E f \in FetchBrokerRuntimeStats :
       LET ok == master(b) # NoAddr /\ f.result = "ok"
           F == {"runtime"} \cup IF f.distributed THEN {"distribute"} ELSE {}
       IN  /\ PutAll(IF ok THEN F \X {master(b)} ELSE {}, [name |-> b])
           /\ round' = IF master(b) # NoAddr /\ f.result = "panic"
                       THEN [round EXCEPT !.at = "panic"] ELSE NextBroker(b)
  /\ UNCHANGED <<cluster, moved>>

-----------------------------------------------------------------------------
BrokerNext ==
  \/ InfoError \/ Info \/ Route \/ RouteError \/ FireAgain
  \/ QueryTopicConsumeByWho
  \/ \E b \in BrokerName :
       \/ CollectProducer(b) \/ CollectBrokerStats(b)
       \/ CollectBrokerStatsTopic(b)
       \/ fetchRuntime(b) \/ CollectBrokerGroupStats(b)
       \/ CollectBrokerRuntimeStats(b)
  \/ \E t \in Tables : Move(t)
  \/ \E a \in Addr : Write(a)

BrokerSpec == BrokerInit(Tables, Jobs) /\ [][BrokerNext]_brokerVars

-----------------------------------------------------------------------------
(* What the samples say.                                                   *)

\* A stored commit-log difference is never less than what the slave was
\* behind when it was read: it does not come out negative or zero because
\* the two are read one after the other, and it is 0 only for a slave that
\* had caught up or because a fetch failed.
DiffCoversLag ==
  \A x \in DOMAIN store :
    x[1] = "brokerCommitLogDiff" =>
      IF store[x].whole THEN store[x].num >= store[x].lag ELSE store[x].num = 0

\* The labels that tell the samples of a family apart: topicPutSamples
\* leaves the address out, brokerSamples and runtimeSamples do not.
SampleLabels(x) ==
  IF x[1] = "topicPutNums" THEN store[x].name ELSE x[2]

\* A family has one sample for each set of labels, with one exception: the
\* put rates of a broker that has changed its master's address, which are
\* exposed once for each address.
OneSamplePerSeries ==
  \A x, y \in DOMAIN store :
    x # y /\ x[1] = y[1] /\ SampleLabels(x) = SampleLabels(y) =>
      x[1] = "topicPutNums" /\ store[x].name \in moved

\* No answer of a broker makes the exporter panic: a table that cannot be
\* read is an error of that broker.
NoPanic == round.at # "panic"

=============================================================================
