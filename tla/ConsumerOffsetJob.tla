-------------------------- MODULE ConsumerOffsetJob -------------------------
(***************************************************************************)
(* One round of the heaviest collection job, CollectConsumerOffset of      *)
(* internal/task/collect.go, with the bounded fan-out it is built on,      *)
(* parallel.                                                               *)
(*                                                                         *)
(* The job enumerates the (topic, group) pairs, one goroutine per topic,   *)
(* then works on each pair in a goroutine of its own: the connections of   *)
(* the group, the submission of its client metrics to the worker pool, and *)
(* its consume stats and latency, which touch nothing that goroutines      *)
(* share: module RouteJobs has them.  Every call to a broker may fail.     *)
(***************************************************************************)
EXTENDS Integers, FiniteSets

CONSTANTS Topic,
          DLQ,           \* the topics with the dead-letter prefix
          Group,
          Concurrency    \* collectionConcurrency

ASSUME DLQAssumption == DLQ \subseteq Topic

ASSUME ConcurrencyAssumption == Concurrency \in Nat \ {0}

Pair == Topic \X Group

Item == Topic \cup Pair

\* A topic is not a pair.
ASSUME ItemAssumption == Topic \cap Pair = {}

VARIABLES
  job,        \* "begin", "pass1", "pass2" or "done"
  \* parallel
  todo,       \* the items without a goroutine yet
  sem,        \* tokens in the semaphore channel
  wg,         \* the counter of the wait group
  gpc,        \* of an item's goroutine; "none" where there is none
  \* locals of CollectConsumerOffset
  pairs,
  groupCollected,
  \* what the round did
  asked,      \* history: the pairs QueryTopicConsumeByWho named
  sawOnline,  \* history: the pairs whose group had a connection
  submitted,  \* client-metric tasks submitted, by group
  counted     \* pairs that went through AddGroupCountMetric

fanVars == <<todo, sem, wg>>
outVars == <<asked, sawOnline, submitted, counted>>
jobVars == <<job, fanVars, gpc, pairs, groupCollected, outVars>>

JobInit ==
  /\ job = "begin"
  /\ todo = {} /\ sem = 0 /\ wg = 0
  /\ gpc = [i \in Item |-> "none"]
  /\ pairs = {}
  /\ groupCollected = {}
  /\ asked = {}
  /\ sawOnline = {}
  /\ submitted = [g \in Group |-> 0]
  /\ counted = {}

-----------------------------------------------------------------------------
\* FetchAllTopicList, cluster and brokerAddrTable: any of them may fail.
BeginError ==
  /\ job = "begin"
  /\ job' = "done"
  /\ UNCHANGED <<fanVars, gpc, pairs, groupCollected, outVars>>

Begin ==
  /\ job = "begin"
  /\ job' = "pass1"
  /\ todo' = Topic
  /\ UNCHANGED <<sem, wg, gpc, pairs, groupCollected, outVars>>

\* Mutant of Spawn: no token is put into the semaphore.
SpawnNoToken(i) ==
  /\ i \in todo
  /\ todo' = todo \ {i}
  /\ wg' = wg + 1
  /\ gpc' = [gpc EXCEPT ![i] = IF job = "pass1" THEN "query" ELSE "conn"]
  /\ UNCHANGED <<job, sem, pairs, groupCollected, outVars>>

\* The loop of parallel: wg.Add, a token, and the goroutine at the first
\* call of fn.
Spawn(i) ==
  /\ i \in todo
  /\ sem < Concurrency
  /\ todo' = todo \ {i}
  /\ sem' = sem + 1
  /\ wg' = wg + 1
  /\ gpc' = [gpc EXCEPT ![i] = IF job = "pass1" THEN "query" ELSE "conn"]
  /\ UNCHANGED <<job, pairs, groupCollected, outVars>>

\* Mutant of ReleaseSem: the token is kept.
ReleaseSemLeak(i) ==
  /\ gpc[i] = "release"
  /\ gpc' = [gpc EXCEPT ![i] = "wgdone"]
  /\ UNCHANGED <<job, fanVars, pairs, groupCollected, outVars>>

\* The deferred calls, the token first.
ReleaseSem(i) ==
  /\ gpc[i] = "release"
  /\ sem' = sem - 1
  /\ gpc' = [gpc EXCEPT ![i] = "wgdone"]
  /\ UNCHANGED <<job, todo, wg, pairs, groupCollected, outVars>>

WgDone(i) ==
  /\ gpc[i] = "wgdone"
  /\ wg' = wg - 1
  /\ gpc' = [gpc EXCEPT ![i] = "none"]
  /\ UNCHANGED <<job, todo, sem, pairs, groupCollected, outVars>>

\* Mutant of ParallelReturn: the wait is for the loop, not the goroutines.
ParallelReturnNoWait ==
  /\ job \in {"pass1", "pass2"}
  /\ todo = {}
  /\ job' = IF job = "pass1" THEN "pass2" ELSE "done"
  /\ todo' = IF job = "pass1" THEN pairs ELSE {}
  /\ UNCHANGED <<sem, wg, gpc, pairs, groupCollected, outVars>>

\* wg.Wait: pass 2 begins, or the round is over.
ParallelReturn ==
  /\ job \in {"pass1", "pass2"}
  /\ todo = {}
  /\ wg = 0
  /\ job' = IF job = "pass1" THEN "pass2" ELSE "done"
  /\ todo' = IF job = "pass1" THEN pairs ELSE {}
  /\ UNCHANGED <<sem, wg, gpc, pairs, groupCollected, outVars>>

Goto(i, l) == gpc' = [gpc EXCEPT ![i] = l]

-----------------------------------------------------------------------------
(* Pass 1.                                                                 *)

\* Nothing to append: a dead-letter topic, an error or no groups.
QueryNothing(t) ==
  /\ gpc[t] = "query"
  /\ Goto(t, "release")
  /\ UNCHANGED <<job, fanVars, pairs, groupCollected, outVars>>

\* QueryTopicConsumeByWho names the groups of the topic.
QueryPairs(t) ==
  /\ gpc[t] = "query"
  /\ t \notin DLQ
  /\ \E G \in SUBSET Group \ {{}} : asked' = asked \cup ({t} \X G)
  /\ Goto(t, "append")
  /\ UNCHANGED <<job, fanVars, pairs, groupCollected, sawOnline, submitted,
                 counted>>

AppendPairs(t) ==
  /\ gpc[t] = "append"
  /\ pairs' = pairs \cup {p \in asked : p[1] = t}
  /\ Goto(t, "release")
  /\ UNCHANGED <<job, fanVars, groupCollected, outVars>>

-----------------------------------------------------------------------------
(* Pass 2.                                                                 *)

\* ExamineConsumerConnectionInfo fails or finds no connection.
ConnNone(p) ==
  /\ gpc[p] = "conn"
  /\ counted' = counted \cup {p}
  /\ Goto(p, "stats")
  /\ UNCHANGED <<job, fanVars, pairs, groupCollected, asked, sawOnline,
                 submitted>>

ConnOnline(p) ==
  /\ gpc[p] = "conn"
  /\ counted' = counted \cup {p}
  /\ sawOnline' = sawOnline \cup {p}
  /\ Goto(p, "guard")
  /\ UNCHANGED <<job, fanVars, pairs, groupCollected, asked, submitted>>

\* Mutant of Guard: the group is marked only once it is submitted.
GuardLate(p) ==
  /\ gpc[p] = "guard"
  /\ Goto(p, IF p[2] \in groupCollected THEN "stats" ELSE "submit")
  /\ groupCollected' = {g \in Group : submitted[g] > 0}
  /\ UNCHANGED <<job, fanVars, pairs, outVars>>

\* Under groupCollectedMu: the first pair of a group marks it.
Guard(p) ==
  /\ gpc[p] = "guard"
  /\ Goto(p, IF p[2] \in groupCollected THEN "stats" ELSE "submit")
  /\ groupCollected' = groupCollected \cup {p[2]}
  /\ UNCHANGED <<job, fanVars, pairs, outVars>>

SubmitGroup(p) ==
  /\ gpc[p] = "submit"
  /\ submitted' = [submitted EXCEPT ![p[2]] = @ + 1]
  /\ Goto(p, "stats")
  /\ UNCHANGED <<job, fanVars, pairs, groupCollected, asked, sawOnline,
                 counted>>

\* The rest of a pair: its early returns and its end.
Stats(p) ==
  /\ gpc[p] = "stats"
  /\ Goto(p, "release")
  /\ UNCHANGED <<job, fanVars, pairs, groupCollected, outVars>>

-----------------------------------------------------------------------------
PairStep(p) ==
  ConnNone(p) \/ ConnOnline(p) \/ Guard(p) \/ SubmitGroup(p) \/ Stats(p)

TopicStep(t) == QueryNothing(t) \/ QueryPairs(t) \/ AppendPairs(t)

Main == BeginError \/ Begin \/ ParallelReturn \/ \E i \in todo : Spawn(i)

JobNext ==
  \/ Main
  \/ \E i \in Item : ReleaseSem(i) \/ WgDone(i)
  \/ \E t \in Topic : TopicStep(t)
  \/ \E p \in Pair : PairStep(p)

JobSpec == JobInit /\ [][JobNext]_jobVars

\* The Go scheduler runs every goroutine, and every call to a broker ends
\* (module RemotingClient).
FairJobSpec ==
  /\ JobSpec
  /\ WF_jobVars(Main)
  /\ \A i \in Item : WF_jobVars(ReleaseSem(i) \/ WgDone(i))
  /\ \A t \in Topic : WF_jobVars(TopicStep(t))
  /\ \A p \in Pair : WF_jobVars(PairStep(p))

-----------------------------------------------------------------------------
(* What the round promises.                                                *)

Labels == {"none", "query", "append", "conn", "guard", "submit", "stats",
           "release", "wgdone"}

\* The variables have their types.
JobTypeOK ==
  /\ job \in {"begin", "pass1", "pass2", "done"}
  /\ todo \subseteq Item
  /\ sem \in Int /\ wg \in Int
  /\ gpc \in [Item -> Labels]
  /\ pairs \subseteq Pair /\ asked \subseteq Pair /\ sawOnline \subseteq Pair
  /\ counted \subseteq Pair
  /\ groupCollected \subseteq Group
  /\ submitted \in [Group -> Nat]

\* At most collectionConcurrency goroutines of a round are inside fn.
BoundedFanOut ==
  Cardinality({i \in Item : gpc[i] \notin {"none", "wgdone"}}) <= Concurrency

\* When the round is over, every pair a topic's query named went through
\* pass 2, no goroutine is left, and nothing holds the semaphore: pass 2
\* never starts from a list that pass 1 is still appending to.
EveryPairProcessed ==
  job = "done" =>
    /\ counted = asked
    /\ \A i \in Item : gpc[i] = "none"
    /\ sem = 0

\* The client metrics of a group that subscribes to several topics are
\* submitted at most once in a round, and when the round is over exactly
\* once if any pair of the group saw a connection.
SubmittedOnce ==
  \A g \in Group :
    /\ submitted[g] <= 1
    /\ job = "done" =>
         (submitted[g] = 1 <=> \E p \in sawOnline : p[2] = g)

\* A round that has its topics ends, whichever calls fail and in whatever
\* order its goroutines get their tokens.
RoundEnds == job \in {"pass1", "pass2"} ~> job = "done"

=============================================================================
