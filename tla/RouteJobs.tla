----------------------------- MODULE RouteJobs ------------------------------
(***************************************************************************)
(* The work that a goroutine of CollectTopicOffset does for a topic, and   *)
(* one of CollectConsumerOffset for a (topic, group) pair, with the data   *)
(* that module ConsumerOffsetJob leaves out: internal/task/collect.go over *)
(* internal/service/route.go and pull.go.                                  *)
(*                                                                         *)
(* Both ask the brokers of a route one after the other and merge what they *)
(* say; meanwhile messages are stored, consumed and deleted.  A pair then  *)
(* pulls one message of every queue to find out how long the oldest unread *)
(* one has waited.                                                         *)
(***************************************************************************)
EXTENDS Integers, Sequences, FiniteSetsExt, Functions

CONSTANTS Broker, Queue, Client,
          Unnamed,      \* the clients whose ClientId is empty
          Now,          \* time.Now() of the exporter
          Stamp,        \* of a queue: the store timestamps, by offset
          MaxOffset,    \* bound: the messages of a queue
          MaxEvents     \* bound: what happens at the brokers during the work

ASSUME OffsetAssumption == {Now, MaxEvents} \subseteq Nat /\ MaxOffset \in Nat \ {0}

\* A broker stores the messages of a queue one after the other.
ASSUME StampAssumption ==
  /\ Stamp \in [Queue -> [0 .. MaxOffset -> Nat \ {0}]]
  /\ \A q \in Queue : \A i, j \in 0 .. MaxOffset : i <= j => Stamp[q][i] <= Stamp[q][j]

ASSUME FiniteAssumption == IsFiniteSet(Queue) /\ IsFiniteSet(Client)

\* A queue is at a broker.
ASSUME PlacedAssumption == Queue # {} => Broker # {}

(* net, the brokers:
     brokerOf, conns   the broker of a queue, the group's clients at a broker
     route             the best address a broker has in the topic's route
     brokerAddrs       the brokers with a master in the cluster info
     min, max, con     of a queue: oldest message, next one, committed one
     events            how much has happened
   go, the goroutine:
     fn                "topic" or "pair"
     at                "conn", "stats", "pull" or "end"
     left              the brokers to ask, or the queues to pull
     merged, table     ConnectionSet and OffsetTable of the answers; a
                       connection is <<client, broker>>
     minOffset         the second pull to make: {<<queue, offset>>} or {}
     latencyMap        by broker
   sample, the store: count, diff (a value, or none yet), and by broker the
     total (topicOffset or groupBrokerTotalOffset) and the latency
   hist, history: the offsets began when they were first asked for, the
     brokers answered at each stage, and the queues whose last pull missed
     what is there or was answered with no message that can be read          *)
VARIABLES net, go, sample, hist

routeVars == <<net, go, sample, hist>>

Nets ==
  [brokerOf : [Queue -> Broker], conns : [Broker -> SUBSET Client],
   route : [Broker -> {"master", "slave", "none"}],
   brokerAddrs : SUBSET Broker,
   min : [Queue -> {0}], max : [Queue -> 0 .. 1], con : [Queue -> {0}],
   events : {0}]

Fns == {"topic", "pair"}

RouteInit(N, F) ==
  /\ net \in N
  /\ \E f \in F :
       go = [fn |-> f, at |-> IF f = "topic" THEN "stats" ELSE "conn",
             left |-> Broker, merged |-> <<>>, table |-> <<>>,
             minOffset |-> {}, latencyMap |-> <<>>]
  /\ sample = [count |-> {}, diff |-> {}, total |-> <<>>, latency |-> <<>>]
  /\ hist = [began |-> net, conn |-> {}, stats |-> {}, missed |-> {}, blank |-> {}]

-----------------------------------------------------------------------------
(* At the brokers.                                                         *)

Happens(n) ==
  /\ net.events < MaxEvents
  /\ net' = [n EXCEPT !.events = @ + 1]
  /\ UNCHANGED <<go, sample, hist>>

Produce(q) == net.max[q] < MaxOffset /\ Happens([net EXCEPT !.max[q] = @ + 1])

Consume(q) == net.con[q] < net.max[q] /\ Happens([net EXCEPT !.con[q] = @ + 1])

\* Messages expire whether or not they were read.
Expire(q) == net.min[q] < net.max[q] /\ Happens([net EXCEPT !.min[q] = @ + 1])

\* What a broker says of a queue; a slave may miss the last message.
OffsetsAt(q, behind) ==
  [max |-> Max({net.max[q] - behind, 0}), con |-> Max({net.con[q] - behind, 0})]

\* The answer to a pull: its code, and the store timestamp or minOffset.
PullAnswer(q, o) ==
  IF o < net.min[q] THEN <<21, net.min[q]>>
  ELSE IF o < net.max[q] THEN <<0, Stamp[q][o]>>
  ELSE <<19>>

\* A broker may also send it without a message, or a minOffset, that can be
\* read, put it off, or answer with an error.
PullAnswers(q, o) == {PullAnswer(q, o), <<PullAnswer(q, o)[1]>>, <<20>>, <<1>>}

OfBroker(b) == {q \in Queue : net.brokerOf[q] = b}

-----------------------------------------------------------------------------
(* ExamineConsumerConnectionInfo, then ExamineTopicStats or                *)
(* ExamineConsumeStats: each asks the brokers of the route in turn.        *)

\* AddGroupCountMetric; the offsets of the brokers are asked for next.
PutCount(n) ==
  /\ sample' = [sample EXCEPT !.count = {n}]
  /\ go' = [go EXCEPT !.at = "stats", !.left = Broker]
  /\ hist' = [hist EXCEPT !.began = net]
  /\ UNCHANGED net

\* ExamineTopicRouteInfo fails for the connections: none is online.
ConnRouteError == go.at = "conn" /\ go.left = Broker /\ PutCount(0)

\* It fails for the offsets, or Entries cannot parse them: the work ends.
StatsError ==
  /\ go.at = "stats"
  /\ go.left \in {Broker, {}}
  /\ go' = [go EXCEPT !.at = "end"]
  /\ UNCHANGED <<net, sample, hist>>

\* A broker that has no address, or whose call fails, is passed over.
AskNothing(b) ==
  /\ go.at \in {"conn", "stats"}
  /\ b \in go.left
  /\ go' = [go EXCEPT !.left = @ \ {b}]
  /\ UNCHANGED <<net, sample, hist>>

\* selectBrokerAddr finds an address: the master's, else a slave's.
Askable(b) == b \in go.left /\ net.route[b] # "none"

\* The connections of the group at a broker, which lists them in whatever
\* order.
Connections(b) == net.conns[b] \X {b}

Listings(S) == Bijection(1 .. Cardinality(S), S)

ExamineConsumerConnectionInfoOnBroker(b) ==
  /\ go.at = "conn"
  /\ Askable(b)
  /\ \E list \in Listings(Connections(b)) :
       go' = [go EXCEPT !.left = @ \ {b}, !.merged = @ \o list]
  /\ hist' = [hist EXCEPT !.conn = @ \cup {b}]
  /\ UNCHANGED <<net, sample>>

\* The answers are merged by queue.
ExamineStatsOnBroker(b) ==
  /\ go.at = "stats"
  /\ Askable(b)
  /\ \E behind \in IF net.route[b] = "master" THEN {0} ELSE {0, 1} :
       go' = [go EXCEPT !.left = @ \ {b},
                !.table = [q \in OfBroker(b) \cup DOMAIN @ |->
                             IF q \in OfBroker(b) THEN OffsetsAt(q, behind) ELSE @[q]]]
  /\ hist' = [hist EXCEPT !.stats = @ \cup {b}]
  /\ UNCHANGED <<net, sample>>

\* The ClientId of x is not empty and that of one in out.
Seen(x, out) == x[1] \notin Unnamed /\ \E i \in DOMAIN out : out[i][1] = x[1]

\* Mutant of dedupConnectionsByClientId: an empty ClientId is one like another.
dedupEmptyToo(s) ==
  LET kept[n \in 0 .. Len(s)] ==
        IF n = 0 THEN <<>>
        ELSE IF \E i \in DOMAIN kept[n - 1] :
                  kept[n - 1][i][1] = s[n][1] \/ {kept[n - 1][i][1], s[n][1]} \subseteq Unnamed
             THEN kept[n - 1]
             ELSE Append(kept[n - 1], s[n])
  IN  kept[Len(s)]

dedupConnectionsByClientId(s) ==
  LET kept[n \in 0 .. Len(s)] ==
        IF n = 0 THEN <<>>
        ELSE IF Seen(s[n], kept[n - 1]) THEN kept[n - 1]
             ELSE Append(kept[n - 1], s[n])
  IN  kept[Len(s)]

CountOnline ==
  /\ go.at = "conn"
  /\ go.left = {}
  /\ PutCount(Len(dedupConnectionsByClientId(go.merged)))

-----------------------------------------------------------------------------
(* What is made of the offsets.                                            *)

\* The queues that Entries returns, and the brokers they are of.
Entries == DOMAIN go.table

EntryBrokers == {net.brokerOf[q] : q \in Entries}

\* Mutant of SumAt: the last entry of a broker counts.
LastAt(f, b) == f[CHOOSE q \in Entries \cap OfBroker(b) : TRUE]

SumAt(f, b) == SumFunctionOnSet(f, Entries \cap OfBroker(b))

\* One sample for every broker with an entry: AddTopicOffsetMetric.
PutTopicOffsets ==
  /\ go.fn = "topic" /\ go.at = "stats"
  /\ go.left = {}
  /\ sample' = [sample EXCEPT !.total =
                  [b \in EntryBrokers |->
                     SumAt([q \in Entries |-> go.table[q].max], b)]]
  /\ go' = [go EXCEPT !.at = "end"]
  /\ UNCHANGED <<net, hist>>

\* AddGroupDiffMetric of ComputeTotalDiff and AddGroupBrokerTotalOffsetMetric,
\* if there is an entry; then the pulls, where a master is known.
PutConsumerOffsets ==
  /\ go.fn = "pair" /\ go.at = "stats"
  /\ go.left = {}
  /\ IF Entries = {}
     THEN go' = [go EXCEPT !.at = "end"] /\ UNCHANGED sample
     ELSE /\ sample' = [sample EXCEPT
               !.diff = {SumFunction([q \in Entries |->
                                        go.table[q].max - go.table[q].con])},
               !.total = [b \in EntryBrokers |->
                            SumAt([q \in Entries |-> go.table[q].con], b)]]
          /\ go' = [go EXCEPT !.at = "pull", !.left =
                      {q \in Entries : net.brokerOf[q] \in net.brokerAddrs}]
  /\ UNCHANGED <<net, hist>>

-----------------------------------------------------------------------------
(* The latency: one pull of every queue whose broker has a master.         *)

\* The latency of broker b is set to t.
WithLatency(b, t) ==
  [c \in {b} \cup DOMAIN go.latencyMap |-> IF c = b THEN t ELSE go.latencyMap[c]]

\* Mutant of Raised: a later queue of a broker replaces an earlier one.
RaisedLast(b, lag) == WithLatency(b, Max({lag, 0}))

\* The first queue of a broker seeds the map, the others only raise it.
Raised(b, lag) ==
  LET cur == IF b \in DOMAIN go.latencyMap THEN go.latencyMap[b] ELSE 0
  IN  WithLatency(b, Max({lag, cur}))

pullStatusFromCode(code) ==
  CASE code = 0  -> "FOUND"
    [] code = 19 -> "NO_NEW_MSG"
    [] code = 20 -> "NO_MATCHED_MSG"
    [] code = 21 -> "OFFSET_ILLEGAL"
    [] OTHER     -> "UNKNOWN"

\* An answer with an error code is a result as well.  What it does not have
\* or cannot be read is 0: the store timestamp (firstStoreTimestamp) of a
\* body that is empty or too short, a minOffset (respExtInt64) that is no
\* number.
QueryMsgByOffset(answer) ==
  [status |-> pullStatusFromCode(answer[1]),
   value |-> IF Len(answer) = 2 THEN answer[2] ELSE 0]

\* The queue is done with, as the last pull says.
Pulled(q, res, lag) ==
  /\ go' = [go EXCEPT !.left = @ \ {q}, !.minOffset = {},
                      !.latencyMap = Raised(net.brokerOf[q], lag)]
  /\ hist' = [hist EXCEPT
       !.missed = IF res.status \in {"FOUND", "NO_NEW_MSG"} THEN @ ELSE @ \cup {q},
       !.blank = IF res.status = "FOUND" /\ res.value = 0 THEN @ \cup {q} ELSE @]

\* The first pull, at the offset the group has committed.
Pull(q) ==
  /\ go.at = "pull"
  /\ q \in go.left
  /\ go.minOffset = {}
  /\ \E a \in PullAnswers(q, go.table[q].con) :
       LET res == QueryMsgByOffset(a)
           e == go.table[q]
       IN  IF res.status = "OFFSET_ILLEGAL"
           THEN go' = [go EXCEPT !.minOffset = {<<q, res.value>>}] /\ UNCHANGED hist
           ELSE Pulled(q, res, IF res.status = "FOUND" /\ e.max # e.con
                               THEN Now - res.value ELSE 0)
  /\ UNCHANGED <<net, sample>>

\* The second pull, at the offset the broker named.
PullAgain(q) ==
  /\ go.at = "pull"
  /\ \E m \in go.minOffset : m[1] = q /\
       \E a \in PullAnswers(q, m[2]) :
         LET res == QueryMsgByOffset(a)
         IN  Pulled(q, res, IF res.status = "FOUND" THEN Now - res.value ELSE 0)
  /\ UNCHANGED <<net, sample>>

\* Either pull fails: no latency of the pair is stored.
PullError ==
  /\ go.at = "pull"
  /\ go.left # {}
  /\ go' = [go EXCEPT !.at = "end"]
  /\ UNCHANGED <<net, sample, hist>>

\* AddGroupGetLatencyByStoreTimeMetric for every broker in the map.
PutLatency ==
  /\ go.at = "pull"
  /\ go.left = {}
  /\ sample' = [sample EXCEPT !.latency = go.latencyMap]
  /\ go' = [go EXCEPT !.at = "end"]
  /\ UNCHANGED <<net, hist>>

-----------------------------------------------------------------------------
RouteNext ==
  \/ ConnRouteError \/ StatsError
  \/ \E b \in Broker :
       \/ AskNothing(b)
       \/ ExamineConsumerConnectionInfoOnBroker(b)
       \/ ExamineStatsOnBroker(b)
  \/ CountOnline \/ PutTopicOffsets \/ PutConsumerOffsets
  \/ \E q \in Queue : Pull(q) \/ PullAgain(q)
  \/ PullError \/ PutLatency
  \/ go.at # "end" /\ \E q \in Queue : Produce(q) \/ Consume(q) \/ Expire(q)

RouteSpec == RouteInit(Nets, Fns) /\ [][RouteNext]_routeVars

-----------------------------------------------------------------------------
(* What the samples say.                                                   *)

\* Who a connection is of: a client, or an unknown one.
Identity(x) == IF x[1] \in Unnamed THEN x ELSE <<x[1]>>

\* The online count of a group is the number of its clients that the
\* brokers that answered have between them: a client connected to every
\* broker counts once, and one broker that fails hides only the clients
\* that it alone has.  A connection without a ClientId counts by itself
\* (dedupConnectionsByClientId keeps it as it is), so that a client without
\* one counts at every broker.
CountsClientsOnce ==
  sample.count \subseteq
    {Cardinality({Identity(x) : x \in UNION {Connections(b) : b \in hist.conn}})}

\* The stored offset of a topic, or of a group, at a broker is one the
\* broker had between the first question and the answer: the sum over all
\* its queues, never a part of it, whatever is stored or consumed meanwhile
\* and whichever other broker fails.  The stored lag of a group is in the
\* same way that of the brokers that answered.  A slave that answers may be
\* behind.
TotalsInWindow ==
  LET total(n, Q) ==
        SumFunctionOnSet(IF go.fn = "topic" THEN n.max ELSE n.con, Q)
      lag(n, o) ==
        SumFunctionOnSet([q \in Queue |-> n.max[q] - o.con[q]],
                         UNION {OfBroker(b) : b \in hist.stats})
  IN  /\ \A b \in DOMAIN sample.total :
           net.route[b] = "master" =>
             sample.total[b] \in
               total(hist.began, OfBroker(b)) .. total(net, OfBroker(b))
      /\ (\A b \in hist.stats : net.route[b] = "master") =>
           sample.diff \subseteq lag(hist.began, net) .. lag(net, hist.began)

\* The oldest message that was there at n and that the group had not read.
Oldest(n, q) == Max({n.con[q], n.min[q]})

\* The longest that one of these, stored before last, has waited; 0 if there
\* is none or the clocks disagree.
Longest(n, last, Q) ==
  Max({0} \cup {Now - Stamp[q][Oldest(n, q)] : q \in {r \in Q : Oldest(n, r) < last[r]}})

\* The latency stored for a broker is how long the oldest unread message of
\* all its queues has waited, also where the group's offset has been deleted,
\* and 0 where all is read or the clocks disagree.  The order of the pulls,
\* which is that of a map, does not show.  With messages stored, consumed and
\* deleted meanwhile, it is no longer than that of the message that was the
\* oldest at first, unless a pull is answered with no message that can be
\* read, and no shorter than that of the one that is now, except for the
\* queues whose pull was put off, was refused, or found the message deleted
\* between the two pulls.
\* It is stored for every broker that has an entry and a known master or, if
\* a pull fails, for none.
LatencyOfOldest ==
  /\ DOMAIN sample.latency \in {{}, EntryBrokers \cap net.brokerAddrs}
  /\ \A b \in DOMAIN sample.latency : net.route[b] = "master" =>
       /\ Longest(net, hist.began.max, OfBroker(b) \ hist.missed) <= sample.latency[b]
       /\ OfBroker(b) \cap hist.blank = {} =>
            sample.latency[b] <= Longest(hist.began, net.max, OfBroker(b))

=============================================================================
