------------------------- MODULE RouteJobs_proofs ---------------------------
(***************************************************************************)
(* Proofs about CollectConsumerOffset and the work on one topic or pair:   *)
(* modules ConsumerOffsetJob and RouteJobs.                                *)
(*                                                                         *)
(* The passes, for any number of topics, groups and tokens: the semaphore  *)
(* holds one token for every goroutine inside fn, the wait group one for   *)
(* every goroutine there is.  So when the wait is over no goroutine is     *)
(* left, which separates the two passes; a pair that was named is on the   *)
(* list, in its goroutine or done; and a group that is marked has been     *)
(* submitted or is about to be, by one pair (IInv).                        *)
(*                                                                         *)
(* What the work on a topic or on a pair stores, for every number of       *)
(* brokers, queues and clients: that RouteInv, with CountsClientsOnce,     *)
(* TotalsInWindow and LatencyOfOldest, holds when it begins and is kept by *)
(* every step.                                                             *)
(***************************************************************************)
EXTENDS RouteJobs, ConsumerOffsetJob, FiniteSetTheorems, TLAPS

-----------------------------------------------------------------------------
(* The passes of CollectConsumerOffset.                                    *)

\* The goroutines inside fn, and all of them.
Inside == {i \in Item : gpc[i] \notin {"none", "wgdone"}}

Alive == {i \in Item : gpc[i] # "none"}

\* The tokens and the wait group count the goroutines.
Counts ==
  /\ IsFiniteSet(Inside) /\ sem = Cardinality(Inside)
  /\ IsFiniteSet(Alive) /\ wg = Cardinality(Alive)
  /\ sem <= Concurrency

\* A pass has goroutines of its own items only, one for each at most.
Passes ==
  /\ \A i \in todo : gpc[i] = "none"
  /\ \A t \in Topic :
       /\ gpc[t] \in {"none", "query", "append", "release", "wgdone"}
       /\ job # "pass1" => gpc[t] = "none"
  /\ \A p \in Pair :
       /\ gpc[p] \in {"none", "conn", "guard", "submit", "stats", "release",
                     "wgdone"}
       /\ job # "pass2" => gpc[p] = "none"
  /\ job = "pass1" => todo \subseteq Topic
  /\ job = "pass2" => todo \subseteq pairs
  /\ job \in {"begin", "done"} => todo = {}

\* A pair that was named is appended by its topic's goroutine, and then
\* waits, is asked for its connections or has been counted.
Progress ==
  /\ pairs \subseteq asked /\ counted \subseteq pairs
  /\ \A p \in asked : p \in pairs \/ gpc[p[1]] = "append"
  /\ job \in {"begin", "pass1"} => counted = {}
  /\ job = "begin" => asked = {}
  /\ job \in {"pass2", "done"} =>
       \A p \in pairs : p \in todo \/ gpc[p] = "conn" \/ p \in counted
  /\ \A p \in Pair : gpc[p] # "none" => p \in pairs

\* A marked group has been submitted, or one pair is about to do it.
Marks ==
  /\ \A p \in Pair : gpc[p] = "submit" =>
       p[2] \in groupCollected /\ submitted[p[2]] = 0
  /\ \A p, q \in Pair :
       gpc[p] = "submit" /\ gpc[q] = "submit" /\ p[2] = q[2] => p = q
  /\ \A g \in Group :
       /\ submitted[g] \in {0, 1}
       /\ submitted[g] = 1 => g \in groupCollected
       /\ g \in groupCollected =>
            /\ submitted[g] = 1 \/ \E p \in Pair : gpc[p] = "submit" /\ p[2] = g
            /\ \E p \in sawOnline : p[2] = g
  /\ \A p \in sawOnline : gpc[p] = "guard" \/ p[2] \in groupCollected
  /\ \A p \in Pair : gpc[p] = "guard" => p \in sawOnline

IInv == JobTypeOK /\ Counts /\ Passes /\ Progress /\ Marks

-----------------------------------------------------------------------------
\* What is known of the items.
LEMMA Items ==
  /\ Topic \subseteq Item /\ Pair \subseteq Item
  /\ \A i \in Item : i \in Topic \/ i \in Pair
  /\ \A t \in Topic : t \notin Pair
  /\ \A p \in Pair : p[1] \in Topic /\ p[2] \in Group
  BY ItemAssumption, Zenon DEF Item, Pair

\* The initial state satisfies the invariant.
LEMMA InitIInv == JobInit => IInv
<1> SUFFICES ASSUME JobInit PROVE IInv
  BY Zenon
<1>1. JobTypeOK
  BY DEF JobInit, JobTypeOK, Labels
<1>2. Inside = {} /\ Alive = {}
  BY Zenon DEF JobInit, Inside, Alive
<1>3. Counts
  BY <1>2, FS_EmptySet, ConcurrencyAssumption DEF JobInit, Counts
<1>4. Passes /\ Progress /\ Marks
  BY Items DEF JobInit, Passes, Progress, Marks
<1> QED
  BY <1>1, <1>3, <1>4, Zenon DEF IInv

\* A step inside fn leaves the counts alone.
LEMMA InsideCounts ==
  ASSUME IInv, NEW i \in Item, NEW l \in Labels \ {"none", "wgdone"},
         gpc[i] \notin {"none", "wgdone"}, Goto(i, l), UNCHANGED <<sem, wg>>
  PROVE  Counts'
<1>1. Inside' = Inside /\ Alive' = Alive
  BY Zenon DEF IInv, JobTypeOK, Goto, Inside, Alive
<1> QED
  BY <1>1, Zenon DEF IInv, Counts

\* A new goroutine has a token and is waited for.
LEMMA SpawnIInv ==
  ASSUME IInv, NEW i \in todo, Spawn(i)
  PROVE  IInv'
<1> DEFINE l == IF job = "pass1" THEN "query" ELSE "conn"
<1>1. /\ i \in Item /\ gpc[i] = "none" /\ job \in {"pass1", "pass2"}
      /\ job = "pass1" => i \in Topic /\ i \notin Pair
      /\ job = "pass2" => i \in Pair /\ i \notin Topic /\ i \in pairs
  BY Items, Zenon DEF IInv, JobTypeOK, Passes
<1>2. /\ gpc' = [gpc EXCEPT ![i] = l] /\ sem < Concurrency
      /\ todo' = todo \ {i} /\ sem' = sem + 1 /\ wg' = wg + 1
      /\ UNCHANGED <<job, pairs, groupCollected, asked, sawOnline, submitted,
                     counted>>
  BY Zenon DEF Spawn, outVars
<1>3. JobTypeOK'
  BY <1>1, <1>2 DEF IInv, JobTypeOK, Labels
<1>4. Counts'
  <2>1. Inside' = Inside \cup {i} /\ i \notin Inside
    BY <1>1, <1>2, Zenon DEF IInv, JobTypeOK, Inside
  <2>2. Alive' = Alive \cup {i} /\ i \notin Alive
    BY <1>1, <1>2, Zenon DEF IInv, JobTypeOK, Alive
  <2>3. /\ IsFiniteSet(Inside') /\ Cardinality(Inside') = Cardinality(Inside) + 1
        /\ IsFiniteSet(Alive') /\ Cardinality(Alive') = Cardinality(Alive) + 1
    BY <2>1, <2>2, FS_AddElement, Zenon DEF IInv, Counts
  <2> QED
    BY <1>2, <2>3, ConcurrencyAssumption DEF IInv, Counts, JobTypeOK
<1>5. Passes'
  BY <1>1, <1>2, Items DEF IInv, JobTypeOK, Passes
<1>6. Progress'
  BY <1>1, <1>2, Items DEF IInv, JobTypeOK, Passes, Progress
<1>7. Marks'
  BY <1>1, <1>2, Items DEF IInv, JobTypeOK, Marks
<1> QED
  BY <1>3, <1>4, <1>5, <1>6, <1>7, Zenon DEF IInv

\* The token goes back when fn returns.
LEMMA ReleaseSemIInv ==
  ASSUME IInv, NEW i \in Item, ReleaseSem(i)
  PROVE  IInv'
<1>1. /\ gpc[i] = "release" /\ gpc' = [gpc EXCEPT ![i] = "wgdone"]
      /\ sem' = sem - 1
      /\ UNCHANGED <<job, todo, wg, pairs, groupCollected, asked, sawOnline,
                     submitted, counted>>
  BY Zenon DEF ReleaseSem, outVars
<1>2. JobTypeOK'
  BY <1>1 DEF IInv, JobTypeOK, Labels
<1>3. Counts'
  <2>1. Inside' = Inside \ {i} /\ i \in Inside /\ Alive' = Alive
    BY <1>1, Zenon DEF IInv, JobTypeOK, Inside, Alive
  <2>2. IsFiniteSet(Inside') /\ Cardinality(Inside') = Cardinality(Inside) - 1
    BY <2>1, FS_RemoveElement, Zenon DEF IInv, Counts
  <2> QED
    BY <1>1, <2>1, <2>2, ConcurrencyAssumption DEF IInv, Counts, JobTypeOK
<1>4. Passes'
  BY <1>1, Items, Zenon DEF IInv, JobTypeOK, Passes
<1>5. Progress'
  BY <1>1, Items DEF IInv, JobTypeOK, Passes, Progress
<1>6. Marks'
  BY <1>1, Items DEF IInv, JobTypeOK, Marks
<1> QED
  BY <1>2, <1>3, <1>4, <1>5, <1>6, Zenon DEF IInv

\* A goroutine that is over is no longer waited for.
LEMMA WgDoneIInv ==
  ASSUME IInv, NEW i \in Item, WgDone(i)
  PROVE  IInv'
<1>1. /\ gpc[i] = "wgdone" /\ gpc' = [gpc EXCEPT ![i] = "none"]
      /\ wg' = wg - 1
      /\ UNCHANGED <<job, todo, sem, pairs, groupCollected, asked, sawOnline,
                     submitted, counted>>
  BY Zenon DEF WgDone, outVars
<1>2. JobTypeOK'
  BY <1>1 DEF IInv, JobTypeOK, Labels
<1>3. Counts'
  <2>1. Alive' = Alive \ {i} /\ i \in Alive /\ Inside' = Inside
    BY <1>1, Zenon DEF IInv, JobTypeOK, Inside, Alive
  <2>2. IsFiniteSet(Alive') /\ Cardinality(Alive') = Cardinality(Alive) - 1
    BY <2>1, FS_RemoveElement, Zenon DEF IInv, Counts
  <2> QED
    BY <1>1, <2>1, <2>2, Zenon DEF IInv, Counts, JobTypeOK
<1>4. Passes'
  BY <1>1, Items, Zenon DEF IInv, JobTypeOK, Passes
<1>5. Progress'
  BY <1>1, Items DEF IInv, JobTypeOK, Passes, Progress
<1>6. Marks'
  BY <1>1, Items DEF IInv, JobTypeOK, Marks
<1> QED
  BY <1>2, <1>3, <1>4, <1>5, <1>6, Zenon DEF IInv

\* The frame of a step of the job itself: no goroutine changes.
LEMMA MainIInv ==
  ASSUME IInv, BeginError \/ Begin \/ ParallelReturn
  PROVE  IInv'
<1>1. /\ UNCHANGED <<sem, wg, gpc, pairs, groupCollected, asked, sawOnline,
                     submitted, counted>>
      /\ job' \in {"pass1", "pass2", "done"}
      /\ \/ job = "begin" /\ job' = "done" /\ todo' = todo
         \/ job = "begin" /\ job' = "pass1" /\ todo' = Topic
         \/ job = "pass1" /\ job' = "pass2" /\ todo' = pairs /\ todo = {}
         \/ job = "pass2" /\ job' = "done" /\ todo' = {} /\ todo = {}
      /\ job # "begin" => wg = 0
  BY Zenon DEF BeginError, Begin, ParallelReturn, outVars, fanVars
<1>2. Inside' = Inside /\ Alive' = Alive
  BY <1>1, Zenon DEF Inside, Alive
<1>3. \A i \in Item : gpc[i] = "none"
  <2>1. CASE job = "begin"
    BY <2>1, Items, Zenon DEF IInv, Passes
  <2>2. CASE job # "begin"
    <3>1. Alive = {}
      BY <1>1, <2>2, FS_EmptySet, Zenon DEF IInv, Counts
    <3> QED
      BY <3>1, Zenon DEF Alive
  <2> QED
    BY <2>1, <2>2, Zenon
<1>4. pairs \subseteq Item /\ pairs = asked
  <2>1. pairs \subseteq Item
    BY Items, Zenon DEF IInv, JobTypeOK
  <2>2. pairs = asked
    <3>1. \A p \in asked : p[1] \in Item
      BY Items, Zenon DEF IInv, JobTypeOK
    <3>2. \A p \in asked : p \in pairs
      BY <1>3, <3>1, Zenon DEF IInv, Progress
    <3> QED
      BY <3>2, Zenon DEF IInv, Progress
  <2> QED
    BY <2>1, <2>2, Zenon
<1>5. JobTypeOK'
  BY <1>1, <1>4, Items, Zenon DEF IInv, JobTypeOK
<1>6. Counts'
  BY <1>1, <1>2, Zenon DEF IInv, Counts
<1>7. Passes'
  BY <1>1, <1>3, <1>4, Items, Zenon DEF IInv, Passes
<1>8. Progress'
  BY <1>1, <1>3, <1>4, Items, Zenon DEF IInv, Passes, Progress
<1>9. Marks'
  BY <1>1, Zenon DEF IInv, Marks
<1> QED
  BY <1>5, <1>6, <1>7, <1>8, <1>9, Zenon DEF IInv

\* Pass 1: a topic's goroutine names its pairs and appends them.
LEMMA TopicStepIInv ==
  ASSUME IInv, NEW t \in Topic, TopicStep(t)
  PROVE  IInv'
<1>1. PICK l \in {"append", "release"} :
        /\ gpc' = [gpc EXCEPT ![t] = l]
        /\ gpc[t] \in {"query", "append"}
        /\ UNCHANGED <<job, todo, sem, wg, groupCollected, sawOnline, submitted,
                       counted>>
        /\ \/ gpc[t] = "query" /\ l = "release" /\ UNCHANGED <<asked, pairs>>
           \/ /\ gpc[t] = "query" /\ l = "append" /\ UNCHANGED pairs
              /\ \E G \in SUBSET Group \ {{}} : asked' = asked \cup ({t} \X G)
           \/ /\ gpc[t] = "append" /\ l = "release" /\ UNCHANGED asked
              /\ pairs' = pairs \cup {p \in asked : p[1] = t}
  BY Zenon DEF TopicStep, QueryNothing, QueryPairs, AppendPairs, Goto, outVars, fanVars
<1>2. t \in Item /\ t \notin Pair /\ job = "pass1" /\ t \notin todo
  BY <1>1, Items, Zenon DEF IInv, Passes
<1>3. /\ asked \subseteq asked' /\ asked' \subseteq Pair
      /\ pairs \subseteq pairs' /\ pairs' \subseteq asked'
      /\ \A p \in asked' : p \in asked \/ (p[1] = t /\ l = "append")
  <2>1. \A G \in SUBSET Group : \A p \in {t} \X G : p \in Pair /\ p[1] = t
    BY Zenon DEF Pair
  <2> QED
    BY <1>1, <2>1, Zenon DEF IInv, JobTypeOK, Progress
<1>4. JobTypeOK'
  BY <1>1, <1>2, <1>3, Zenon DEF IInv, JobTypeOK, Labels
<1>5. Counts'
  BY <1>1, <1>2, InsideCounts, Zenon DEF Labels, Goto
<1>6. Passes'
  BY <1>1, <1>2, Items DEF IInv, JobTypeOK, Passes
<1>7. Progress'
  <2>1. \A p \in asked' : p \in pairs' \/ gpc'[p[1]] = "append"
    <3> SUFFICES ASSUME NEW p \in asked'
                 PROVE  p \in pairs' \/ gpc'[p[1]] = "append"
      BY Zenon
    <3>1. p[1] \in Item
      BY <1>3, Items, Zenon
    <3>2. CASE p \in asked
      BY <1>1, <1>2, <1>3, <3>1, <3>2, Zenon DEF IInv, JobTypeOK, Progress
    <3>3. CASE p[1] = t /\ l = "append"
      BY <1>1, <1>2, <3>1, <3>3, Zenon DEF IInv, JobTypeOK
    <3> QED
      BY <1>3, <3>2, <3>3, Zenon
  <2> QED
    BY <1>1, <1>2, <1>3, <2>1, Items, Zenon DEF IInv, JobTypeOK, Progress
<1>8. Marks'
  <2>1. \A p \in Pair : gpc'[p] = gpc[p]
    BY <1>1, <1>2, Items, Zenon DEF IInv, JobTypeOK
  <2> QED
    BY <1>1, <2>1, Items DEF IInv, JobTypeOK, Marks
<1> QED
  BY <1>4, <1>5, <1>6, <1>7, <1>8, Zenon DEF IInv

\* Pass 2: what a step of a pair's goroutine leaves alone.
LEMMA PairFrame ==
  ASSUME IInv, NEW p \in Pair, NEW l \in {"guard", "submit", "stats", "release"},
         gpc[p] \in {"conn", "guard", "submit", "stats"}, Goto(p, l),
         UNCHANGED <<job, todo, sem, wg, pairs, asked>>,
         counted' = IF gpc[p] = "conn" THEN counted \cup {p} ELSE counted
  PROVE  Counts' /\ Passes' /\ Progress'
<1>1. /\ p \in Item /\ p \notin Topic /\ job = "pass2" /\ p \notin todo
      /\ p \in pairs
  BY Items, Zenon DEF IInv, Passes, Progress
<1>2. Counts'
  BY <1>1, InsideCounts, Zenon DEF Labels
<1>3. Passes'
  BY <1>1, Items, Zenon DEF IInv, JobTypeOK, Passes, Goto
<1>4. Progress'
  BY <1>1, Items, Zenon DEF IInv, JobTypeOK, Progress, Goto
<1> QED
  BY <1>2, <1>3, <1>4, Zenon

\* A group is marked by the pair that will submit it, and submitted once.
LEMMA PairStepIInv ==
  ASSUME IInv, NEW p \in Pair, PairStep(p)
  PROVE  IInv'
<1> p \in Item /\ p[1] \in Topic /\ p[2] \in Group /\ gpc \in [Item -> Labels]
  BY Items, Zenon DEF IInv, JobTypeOK
<1> \A q \in Pair : q \in Item /\ q[2] \in Group
  BY Items, Zenon
<1>1. CASE ConnNone(p)
  <2>1. Counts' /\ Passes' /\ Progress'
    BY <1>1, PairFrame, Zenon DEF ConnNone, fanVars
  <2>2. JobTypeOK'
    BY <1>1, Zenon DEF ConnNone, Goto, fanVars, IInv, JobTypeOK, Labels
  <2>3. Marks'
    BY <1>1, Zenon DEF ConnNone, Goto, IInv, JobTypeOK, Marks
  <2> QED
    BY <2>1, <2>2, <2>3, Zenon DEF IInv
<1>2. CASE ConnOnline(p)
  <2>1. Counts' /\ Passes' /\ Progress'
    BY <1>2, PairFrame, Zenon DEF ConnOnline, fanVars
  <2>2. JobTypeOK'
    BY <1>2, Zenon DEF ConnOnline, Goto, fanVars, IInv, JobTypeOK, Labels
  <2>3. Marks'
    BY <1>2 DEF ConnOnline, Goto, IInv, JobTypeOK, Marks
  <2> QED
    BY <2>1, <2>2, <2>3, Zenon DEF IInv
<1>3. CASE Guard(p)
  <2>1. Counts' /\ Passes' /\ Progress'
    BY <1>3, PairFrame, Zenon DEF Guard, fanVars, outVars
  <2>2. JobTypeOK'
    BY <1>3, Zenon DEF Guard, Goto, fanVars, outVars, IInv, JobTypeOK, Labels
  <2>3. Marks'
    <3>1. CASE p[2] \in groupCollected
      BY <1>3, <3>1 DEF Guard, Goto, outVars, IInv, JobTypeOK, Marks
    <3>2. CASE p[2] \notin groupCollected
      BY <1>3, <3>2 DEF Guard, Goto, outVars, IInv, JobTypeOK, Marks
    <3> QED
      BY <3>1, <3>2, Zenon
  <2> QED
    BY <2>1, <2>2, <2>3, Zenon DEF IInv
<1>4. CASE SubmitGroup(p)
  <2>1. Counts' /\ Passes' /\ Progress'
    BY <1>4, PairFrame, Zenon DEF SubmitGroup, fanVars
  <2>2. JobTypeOK'
    BY <1>4 DEF SubmitGroup, Goto, fanVars, IInv, JobTypeOK, Labels
  <2>3. Marks'
    BY <1>4 DEF SubmitGroup, Goto, IInv, JobTypeOK, Marks
  <2> QED
    BY <2>1, <2>2, <2>3, Zenon DEF IInv
<1>5. CASE Stats(p)
  <2>1. Counts' /\ Passes' /\ Progress'
    BY <1>5, PairFrame, Zenon DEF Stats, fanVars, outVars
  <2>2. JobTypeOK'
    BY <1>5, Zenon DEF Stats, Goto, fanVars, outVars, IInv, JobTypeOK, Labels
  <2>3. Marks'
    BY <1>5 DEF Stats, Goto, outVars, IInv, JobTypeOK, Marks
  <2> QED
    BY <2>1, <2>2, <2>3, Zenon DEF IInv
<1> QED
  BY <1>1, <1>2, <1>3, <1>4, <1>5, Zenon DEF PairStep

-----------------------------------------------------------------------------
\* The invariant holds in every state of a round, whatever the calls to the
\* brokers answer and however the goroutines interleave.
THEOREM JobInvariant == JobSpec => []IInv
<1>1. ASSUME IInv, [JobNext]_jobVars PROVE IInv'
  <2>1. CASE Main
    BY <1>1, <2>1, MainIInv, SpawnIInv, Zenon DEF Main
  <2>2. CASE \E i \in Item : ReleaseSem(i) \/ WgDone(i)
    BY <1>1, <2>2, ReleaseSemIInv, WgDoneIInv, Zenon
  <2>3. CASE \E t \in Topic : TopicStep(t)
    BY <1>1, <2>3, TopicStepIInv, Zenon
  <2>4. CASE \E p \in Pair : PairStep(p)
    BY <1>1, <2>4, PairStepIInv, Zenon
  <2>5. CASE UNCHANGED jobVars
    <3>1. UNCHANGED <<job, todo, sem, wg, gpc, pairs, groupCollected, asked,
                      sawOnline, submitted, counted>>
      BY <2>5, Zenon DEF jobVars, fanVars, outVars
    <3>2. Inside' = Inside /\ Alive' = Alive
      BY <3>1, Zenon DEF Inside, Alive
    <3> QED
      BY <1>1, <3>1, <3>2
      DEF IInv, JobTypeOK, Counts, Passes, Progress, Marks
  <2> QED
    BY <1>1, <2>1, <2>2, <2>3, <2>4, <2>5, Zenon DEF JobNext
<1> QED
  BY <1>1, InitIInv, PTL DEF JobSpec

\* No more than collectionConcurrency goroutines are inside fn: a token is
\* put before the go statement of parallel and taken back by its defer.
THEOREM JobBoundedFanOut == JobSpec => []BoundedFanOut
<1>1. IInv => BoundedFanOut
  BY Zenon DEF IInv, Counts, BoundedFanOut, Inside
<1> QED
  BY <1>1, JobInvariant, PTL

\* A round that is over has processed every pair that was named, and has
\* left no goroutine and no token behind.
THEOREM JobEveryPairProcessed == JobSpec => []EveryPairProcessed
<1>1. IInv => EveryPairProcessed
  <2> SUFFICES ASSUME IInv, job = "done" PROVE
        counted = asked /\ (\A i \in Item : gpc[i] = "none") /\ sem = 0
    BY Zenon DEF EveryPairProcessed
  <2>1. \A i \in Item : gpc[i] = "none"
    BY Items, Zenon DEF IInv, Passes
  <2>2. Inside = {}
    BY <2>1, Zenon DEF Inside
  <2>3. sem = 0
    BY <2>2, FS_EmptySet, Zenon DEF IInv, Counts
  <2>4. counted = asked
    <3>1. \A p \in asked : p \in pairs
      BY <2>1, Items, Zenon DEF IInv, JobTypeOK, Progress
    <3>2. todo = {}
      BY Zenon DEF IInv, Passes
    <3>3. \A p \in pairs : p \in counted
      BY <2>1, <3>2, Items, Zenon DEF IInv, JobTypeOK, Progress
    <3>4. counted \subseteq asked
      BY Zenon DEF IInv, Progress
    <3> QED
      BY <3>1, <3>3, <3>4, Zenon
  <2> QED
    BY <2>1, <2>3, <2>4, Zenon
<1> QED
  BY <1>1, JobInvariant, PTL

\* The client metrics of a group are submitted at most once in a round, and
\* exactly once if one of its pairs saw a connection, although its pairs
\* meet at groupCollected in any order.
THEOREM JobSubmittedOnce == JobSpec => []SubmittedOnce
<1>1. IInv => SubmittedOnce
  <2> SUFFICES ASSUME IInv, NEW g \in Group
               PROVE  /\ submitted[g] <= 1
                      /\ job = "done" =>
                           (submitted[g] = 1 <=> \E p \in sawOnline : p[2] = g)
    BY Zenon DEF SubmittedOnce
  <2>1. submitted[g] \in {0, 1}
    BY Zenon DEF IInv, Marks
  <2>2. ASSUME job = "done"
        PROVE  submitted[g] = 1 <=> \E p \in sawOnline : p[2] = g
    <3>1. \A p \in Pair : gpc[p] = "none"
      BY <2>2, Zenon DEF IInv, Passes
    <3> QED
      BY <3>1, Zenon DEF IInv, JobTypeOK, Marks
  <2> QED
    BY <2>1, <2>2
<1> QED
  BY <1>1, JobInvariant, PTL


-----------------------------------------------------------------------------
(* Recursion and induction over the subsets of a finite set, which the sums *)
(* and the folds of the library go through.                                *)

\* A nonempty set of natural numbers has a least member.
LEMMA NatMin ==
  ASSUME NEW T \in SUBSET Nat, T # {}
  PROVE  \E n \in T : \A k \in T : n <= k
<1> DEFINE F == {1 .. n : n \in T}
<1>1. F \subseteq FiniteSubsetsOf(Nat)
  BY FS_Interval DEF FiniteSubsetsOf
<1>2. F # {}
  BY Zenon
<1>3. PICK x \in F : \A y \in F : <<y, x>> \notin StrictSubsetOrdering(Nat)
  BY <1>1, <1>2, FS_StrictSubsetOrderingWellFounded, WFMin, Zenon
<1>4. PICK n \in T : x = 1 .. n
  BY <1>3, Zenon
<1>5. ASSUME NEW k \in T, k < n PROVE FALSE
  <2>1. n \in 1 .. n /\ n \notin 1 .. k /\ 1 .. k \subseteq 1 .. n
    BY <1>5
  <2>2. <<1 .. k, 1 .. n>> \in StrictSubsetOrdering(Nat)
    BY <2>1 DEF StrictSubsetOrdering
  <2> QED
    BY <1>3, <1>4, <2>2, Zenon
<1> QED
  BY <1>5

\* A nonempty family of subsets of a finite set has a smallest member.
LEMMA SubsetMin ==
  ASSUME NEW S, IsFiniteSet(S), NEW T \in SUBSET SUBSET S, T # {}
  PROVE  \E x \in T : \A y \in T : y \subseteq x => y = x
<1>1. IsWellFoundedOn(StrictSubsetOrdering(S), SUBSET S)
  BY FS_FiniteSubsetsOfFinite, FS_StrictSubsetOrderingWellFounded, Zenon
<1>2. PICK x \in T : \A y \in T : <<y, x>> \notin StrictSubsetOrdering(S)
  BY <1>1, WFMin, Zenon
<1> QED
  BY <1>2, Zenon DEF StrictSubsetOrdering

\* What a fold is given, and what it is.
Foldable(S, V, base, pick, step) ==
  /\ IsFiniteSet(S) /\ base \in V
  /\ \A s \in SUBSET S : s # {} => pick[s] \in s
  /\ step \in [S -> [V -> V]]

IsFold(g, S, base, pick, step) ==
  \A s \in SUBSET S :
    g[s] = IF s = {} THEN base ELSE step[pick[s]][g[s \ {pick[s]}]]

\* Recursion over the subsets of a finite set, an element at a time.
LEMMA FoldExists ==
  ASSUME NEW S, NEW V, NEW base, NEW pick, NEW step, Foldable(S, V, base, pick, step)
  PROVE  \E g \in [SUBSET S -> V] : IsFold(g, S, base, pick, step)
<1> USE DEF Foldable
<1> DEFINE Low(n) == {s \in SUBSET S : Cardinality(s) <= n}
           Rec(g, s) == g[s] = IF s = {} THEN base ELSE step[pick[s]][g[s \ {pick[s]}]]
           Good(n) == \E g \in [Low(n) -> V] : \A s \in Low(n) : Rec(g, s)
           Bad == {n \in Nat : ~ Good(n)}
<1>1. \A s \in SUBSET S : IsFiniteSet(s) /\ Cardinality(s) \in Nat
  BY FS_Subset, FS_CardinalityType, Zenon
<1>2. ASSUME NEW s \in SUBSET S, s # {}
      PROVE  /\ s \ {pick[s]} \in SUBSET S
             /\ Cardinality(s \ {pick[s]}) = Cardinality(s) - 1
             /\ Cardinality(s) # 0
  BY <1>1, <1>2, FS_EmptySet, FS_RemoveElement, Zenon
<1>3. ASSUME NEW n \in Bad, \A k \in Bad : n <= k PROVE FALSE
  <2>1. CASE n = 0
    <3>1. \A s \in Low(0) : s = {}
      BY <1>1, FS_EmptySet
    <3>2. \A s \in Low(0) : Rec([t \in Low(0) |-> base], s)
      BY <3>1, Zenon
    <3>3. [t \in Low(0) |-> base] \in [Low(0) -> V]
      BY Zenon
    <3>4. Good(0)
      BY <3>2, <3>3, Zenon
    <3> QED
      BY <2>1, <3>4, Zenon
  <2>2. CASE n # 0
    <3>1. n - 1 \in Nat /\ n - 1 \notin Bad
      <4>1. Bad \subseteq Nat
        BY Zenon
      <4> HIDE DEF Bad
      <4> QED
        BY <1>3, <2>2, <4>1
    <3>2. PICK g \in [Low(n - 1) -> V] : \A s \in Low(n - 1) : Rec(g, s)
      BY <3>1, Zenon
    <3> DEFINE h == [s \in Low(n) |-> IF s \in Low(n - 1) THEN g[s]
                                      ELSE step[pick[s]][g[s \ {pick[s]}]]]
    <3>3. \A s \in Low(n) : s # {} => s \ {pick[s]} \in Low(n - 1)
      BY <1>1, <1>2
    <3>4. {} \in Low(n - 1) /\ Low(n - 1) \subseteq Low(n)
      BY <1>1, <3>1, FS_EmptySet
    <3>5. Low(n) \subseteq SUBSET S
      BY Zenon
    <3> HIDE DEF Low
    <3>6. h \in [Low(n) -> V]
      <4>1. ASSUME NEW s \in Low(n), s \notin Low(n - 1)
            PROVE  step[pick[s]][g[s \ {pick[s]}]] \in V
        <5>1. s # {} /\ s \in SUBSET S
          BY <3>4, <3>5, <4>1, Zenon
        <5>2. pick[s] \in S /\ g[s \ {pick[s]}] \in V
          BY <3>2, <3>3, <5>1, Zenon
        <5>3. step[pick[s]] \in [V -> V]
          BY <5>2, Zenon
        <5> QED
          BY <5>2, <5>3, Zenon
      <4> QED
        BY <3>2, <4>1, Zenon
    <3>7. ASSUME NEW s \in Low(n)
          PROVE  Rec(h, s)
      <4>1. s # {} => h[s \ {pick[s]}] = g[s \ {pick[s]}]
        BY <3>3, <3>4, Zenon
      <4> QED
        BY <3>2, <3>4, <4>1, Zenon
    <3> HIDE DEF h, Rec
    <3>8. Good(n)
      BY <3>6, <3>7, Zenon
    <3> QED
      BY <3>8, Zenon
  <2> QED
    BY <2>1, <2>2, Zenon
<1>4. Good(Cardinality(S))
  <2>1. Bad \in SUBSET Nat
    BY Zenon
  <2>2. Bad = {}
    <3> HIDE DEF Bad
    <3> QED
      BY <1>3, <2>1, NatMin, Zenon
  <2> HIDE DEF Good
  <2> QED
    BY <1>1, <2>2, Zenon
<1>5. Low(Cardinality(S)) = SUBSET S
  BY FS_Subset, Zenon
<1> QED
  BY <1>4, <1>5, Zenon DEF IsFold

-----------------------------------------------------------------------------
(* Sums.                                                                   *)

\* The element that a library sum takes out of a set first.
One(s) == CHOOSE x \in s : TRUE

\* What the library's recursion says of the sum of f over the subsets of S.
IsSum(g, f, S) ==
  g = [s \in SUBSET S |-> IF s = {} THEN 0 ELSE f[One(s)] + g[s \ {One(s)}]]

\* SumFunctionOnSet is what that recursion gives for all of S.
LEMMA SumDef ==
  ASSUME NEW S, NEW f
  PROVE  SumFunctionOnSet(f, S) = (CHOOSE g : IsSum(g, f, S))[S]
  BY Zenon DEF SumFunctionOnSet, FoldFunctionOnSet, MapThenFoldSet, IsSum, One

\* The recursion has a solution, for integers over a finite set.
LEMMA SumExists ==
  ASSUME NEW S, IsFiniteSet(S), NEW f, \A x \in S : f[x] \in Int
  PROVE  \E g : IsSum(g, f, S)
<1> DEFINE pick == [s \in SUBSET S |-> One(s)]
           step == [x \in S |-> [v \in Int |-> f[x] + v]]
<1>1. \A s \in SUBSET S : s # {} => pick[s] \in s
  BY Zenon DEF One
<1>2. step \in [S -> [Int -> Int]]
  OBVIOUS
<1>3. \A x \in S, v \in Int : step[x][v] = f[x] + v
  BY Zenon
<1>4. \A s \in SUBSET S : pick[s] = One(s)
  BY Zenon
<1> HIDE DEF pick, step
<1>5. PICK g \in [SUBSET S -> Int] : IsFold(g, S, 0, pick, step)
  <2>1. Foldable(S, Int, 0, pick, step)
    BY <1>1, <1>2 DEF Foldable
  <2> QED
    BY <2>1, FoldExists, Zenon
<1>6. ASSUME NEW s \in SUBSET S
      PROVE  g[s] = IF s = {} THEN 0 ELSE f[One(s)] + g[s \ {One(s)}]
  <2>1. CASE s = {}
    BY <1>5, <2>1, Zenon DEF IsFold
  <2>2. CASE s # {}
    <3>1. One(s) \in S /\ s \ {One(s)} \in SUBSET S
      BY <1>1, <1>4, <2>2, Zenon
    <3>2. g[s] = step[One(s)][g[s \ {One(s)}]]
      BY <1>4, <1>5, <2>2, Zenon DEF IsFold
    <3> QED
      BY <1>3, <1>5, <2>2, <3>1, <3>2, Zenon
  <2> QED
    BY <2>1, <2>2, Zenon
<1>7. g = [s \in SUBSET S |-> g[s]]
  BY <1>5, Zenon
<1>8. g = [s \in SUBSET S |-> IF s = {} THEN 0 ELSE f[One(s)] + g[s \ {One(s)}]]
  BY <1>6, <1>7, Zenon
<1> QED
  BY <1>8, Zenon DEF IsSum

\* The sum of integers over a finite set is an integer, and a larger summand
\* makes no smaller sum.  TotalsInWindow compares sums in this way.
LEMMA SumMonotone ==
  ASSUME NEW S, IsFiniteSet(S), NEW f, NEW h,
         \A x \in S : f[x] \in Int /\ h[x] \in Int /\ f[x] <= h[x]
  PROVE  /\ SumFunctionOnSet(f, S) \in Int /\ SumFunctionOnSet(h, S) \in Int
         /\ SumFunctionOnSet(f, S) <= SumFunctionOnSet(h, S)
<1> DEFINE F == CHOOSE g : IsSum(g, f, S)
           H == CHOOSE g : IsSum(g, h, S)
           Good(s) == F[s] \in Int /\ H[s] \in Int /\ F[s] <= H[s]
           Bad == {s \in SUBSET S : ~ Good(s)}
<1>1. IsSum(F, f, S) /\ IsSum(H, h, S)
  <2>1. \E g : IsSum(g, f, S)
    BY SumExists, Zenon
  <2>2. \E g : IsSum(g, h, S)
    BY SumExists, Zenon
  <2> QED
    BY <2>1, <2>2, Zenon
<1> HIDE DEF F, H
<1>2. ASSUME NEW s \in SUBSET S
      PROVE  /\ F[s] = IF s = {} THEN 0 ELSE f[One(s)] + F[s \ {One(s)}]
             /\ H[s] = IF s = {} THEN 0 ELSE h[One(s)] + H[s \ {One(s)}]
  <2>1. F = [t \in SUBSET S |-> IF t = {} THEN 0 ELSE f[One(t)] + F[t \ {One(t)}]]
    BY <1>1, Zenon DEF IsSum
  <2>2. H = [t \in SUBSET S |-> IF t = {} THEN 0 ELSE h[One(t)] + H[t \ {One(t)}]]
    BY <1>1, Zenon DEF IsSum
  <2>3. F[s] = IF s = {} THEN 0 ELSE f[One(s)] + F[s \ {One(s)}]
    BY <2>1, Zenon
  <2>4. H[s] = IF s = {} THEN 0 ELSE h[One(s)] + H[s \ {One(s)}]
    BY <2>2, Zenon
  <2> QED
    BY <2>3, <2>4, Zenon
<1>3. ASSUME NEW s \in Bad, \A t \in Bad : t \subseteq s => t = s
      PROVE  FALSE
  <2>1. CASE s = {}
    <3>1. F[s] = 0 /\ H[s] = 0
      BY <1>2, <2>1, Zenon
    <3> QED
      BY <1>3, <3>1
  <2>2. CASE s # {}
    <3>1. One(s) \in s /\ s \ {One(s)} \in SUBSET S
      BY <2>2, Zenon DEF One
    <3>2. Good(s \ {One(s)})
      BY <1>3, <3>1, Zenon
    <3>3. f[One(s)] \in Int /\ h[One(s)] \in Int /\ f[One(s)] <= h[One(s)]
      BY <3>1, Zenon
    <3>4. F[s] = f[One(s)] + F[s \ {One(s)}] /\ H[s] = h[One(s)] + H[s \ {One(s)}]
      BY <1>2, <2>2, Zenon
    <3> QED
      BY <3>2, <3>3, <3>4
  <2> QED
    BY <2>1, <2>2, Zenon
<1>4. Bad = {}
  <2>1. Bad \in SUBSET SUBSET S
    BY Zenon
  <2> HIDE DEF Bad
  <2>2. Bad # {} => \E s \in Bad : \A t \in Bad : t \subseteq s => t = s
    BY <2>1, SubsetMin
  <2> QED
    BY <1>3, <2>2, Zenon
<1>5. Good(S)
  BY <1>4, Zenon
<1> QED
  BY <1>5, SumDef, Zenon DEF F, H

\* SumFunction sums over the domain.
LEMMA SumAll ==
  ASSUME NEW f
  PROVE  SumFunction(f) = SumFunctionOnSet(f, DOMAIN f)
  BY Zenon DEF SumFunction, FoldFunction, SumFunctionOnSet, FoldFunctionOnSet

-----------------------------------------------------------------------------
(* Sequences without duplicates.                                           *)

\* No element comes twice.
Distinct(s) == \A i, j \in 1 .. Len(s) : s[i] = s[j] => i = j

\* The length of a sequence without duplicates counts its elements.
LEMMA DistinctCount ==
  ASSUME NEW C, NEW s \in Seq(C), Distinct(s)
  PROVE  Len(s) = Cardinality(Range(s))
<1>1. s \in Bijection(1 .. Len(s), Range(s))
  BY DEF Bijection, Injection, Surjection, IsInjective, Distinct, Range
<1>2. IsFiniteSet(1 .. Len(s)) /\ Cardinality(1 .. Len(s)) = Len(s)
  <2>1. Len(s) \in Nat
    OBVIOUS
  <2>2. IsFiniteSet(1 .. Len(s))
        /\ Cardinality(1 .. Len(s)) = IF 1 > Len(s) THEN 0 ELSE Len(s) - 1 + 1
    BY <2>1, FS_Interval
  <2> QED
    BY <2>1, <2>2
<1> QED
  BY <1>1, <1>2, FS_Bijection, Zenon DEF ExistsBijection

\* Who the connections of a sequence are of, and that no two are of the same.
Identities(s) == {Identity(x) : x \in Range(s)}

Apart(s) == \A i, j \in 1 .. Len(s) : Identity(s[i]) = Identity(s[j]) => i = j

\* Two connections are of the same client, or the same connection of none.
LEMMA IdentityIs ==
  ASSUME NEW x, NEW y
  PROVE  Identity(x) = Identity(y) <=>
           \/ x[1] \in Unnamed /\ y[1] \in Unnamed /\ x = y
           \/ x[1] \notin Unnamed /\ y[1] \notin Unnamed /\ x[1] = y[1]
<1>1. \A a, b : <<a>> = <<b>> <=> a = b
  OBVIOUS
<1>2. \A a, z : z = <<a>> => z[1] = a
  OBVIOUS
<1>3. CASE x[1] \in Unnamed /\ y[1] \in Unnamed
  BY <1>3, Zenon DEF Identity
<1>4. CASE x[1] \notin Unnamed /\ y[1] \notin Unnamed
  BY <1>1, <1>4, Zenon DEF Identity
<1>5. CASE x[1] \in Unnamed /\ y[1] \notin Unnamed
  BY <1>2, <1>5, Zenon DEF Identity
<1>6. CASE x[1] \notin Unnamed /\ y[1] \in Unnamed
  BY <1>2, <1>6, Zenon DEF Identity
<1> QED
  BY <1>3, <1>4, <1>5, <1>6, Zenon

\* The length of such a sequence counts who they are of.
LEMMA ApartCount ==
  ASSUME NEW C, NEW s \in Seq(C), Apart(s)
  PROVE  Len(s) = Cardinality(Identities(s))
<1> DEFINE u == [i \in 1 .. Len(s) |-> Identity(s[i])]
<1>1. Len(s) \in Nat /\ DOMAIN s = 1 .. Len(s)
  OBVIOUS
<1>2. u \in Seq(Identities(s)) /\ Len(u) = Len(s) /\ DOMAIN u = 1 .. Len(s)
  <2>1. \A i \in 1 .. Len(s) : Identity(s[i]) \in Identities(s)
    BY <1>1, Zenon DEF Identities, Range
  <2>2. u \in [1 .. Len(s) -> Identities(s)]
    BY <2>1, Zenon
  <2> HIDE DEF u
  <2> QED
    BY <1>1, <2>2
<1>3. \A i \in 1 .. Len(s) : u[i] = Identity(s[i])
  BY Zenon
<1> HIDE DEF u
<1>4. Distinct(u)
  BY <1>2, <1>3, Zenon DEF Distinct, Apart
<1>5. Range(u) = Identities(s)
  BY <1>1, <1>2, <1>3, Zenon DEF Range, Identities
<1>6. Len(u) = Cardinality(Range(u))
  BY <1>2, <1>4, DistinctCount, Zenon
<1> QED
  BY <1>2, <1>5, <1>6, Zenon

\* One turn of the loop of dedupConnectionsByClientId.
Added(seen, c) == IF Seen(c, seen) THEN seen ELSE Append(seen, c)

\* next has what seen has and the client of c, once each.
OneMore(seen, next, c, C) ==
  /\ next \in Seq(C) /\ Apart(next)
  /\ Range(next) \subseteq Range(seen) \cup {c}
  /\ Identities(next) = Identities(seen) \cup {Identity(c)}

\* A turn adds the client, and adds it once.
LEMMA AppendNew ==
  ASSUME NEW C, NEW seen \in Seq(C), Apart(seen), NEW c \in C, c \notin Range(seen)
  PROVE  OneMore(seen, Added(seen, c), c, C)
<1> DEFINE next == Added(seen, c)
<1>1. DOMAIN seen = 1 .. Len(seen)
  OBVIOUS
<1>2. CASE Seen(c, seen)
  <2>1. PICK i \in DOMAIN seen : seen[i][1] = c[1] /\ c[1] \notin Unnamed
    BY <1>2, Zenon DEF Seen
  <2>2. Identity(seen[i]) = Identity(c)
    BY <2>1, IdentityIs, Zenon
  <2>3. Identity(c) \in Identities(seen)
    BY <2>1, <2>2, Zenon DEF Identities, Range
  <2> QED
    BY <1>2, <2>3, Zenon DEF Added, OneMore
<1>3. CASE ~ Seen(c, seen)
  <2>1. /\ next \in Seq(C) /\ Len(next) = Len(seen) + 1 /\ Len(seen) \in Nat
        /\ \A i \in 1 .. Len(seen) : next[i] = seen[i]
        /\ next[Len(seen) + 1] = c
        /\ DOMAIN next = 1 .. Len(next)
    BY <1>3 DEF Added
  <2> HIDE DEF next
  <2>2. \A i \in 1 .. Len(seen) : Identity(seen[i]) # Identity(c)
    <3> SUFFICES ASSUME NEW i \in 1 .. Len(seen), Identity(seen[i]) = Identity(c)
                 PROVE  FALSE
      BY Zenon
    <3>1. seen[i] # c
      BY <1>1, Zenon DEF Range
    <3>2. c[1] \notin Unnamed /\ seen[i][1] = c[1]
      BY <3>1, IdentityIs, Zenon
    <3> QED
      BY <1>1, <1>3, <3>2, Zenon DEF Seen
  <2>3. Apart(next)
    <3> DEFINE I(x) == Identity(x)
    <3>1. /\ \A i, j \in 1 .. Len(seen) : I(seen[i]) = I(seen[j]) => i = j
          /\ \A i \in 1 .. Len(seen) : I(seen[i]) # I(c)
      BY <2>2, Zenon DEF Apart
    <3>2. \A i, j \in 1 .. Len(next) : I(next[i]) = I(next[j]) => i = j
      <4> HIDE DEF I
      <4> SUFFICES ASSUME NEW i \in 1 .. Len(next), NEW j \in 1 .. Len(next),
                          I(next[i]) = I(next[j])
                   PROVE  i = j
        BY Zenon
      <4>1. /\ i \in 1 .. Len(seen) \/ i = Len(seen) + 1
            /\ j \in 1 .. Len(seen) \/ j = Len(seen) + 1
        BY <2>1
      <4> QED
        BY <2>1, <3>1, <4>1, Zenon
    <3> QED
      BY <3>2, Zenon DEF Apart
  <2>4. Range(next) = Range(seen) \cup {c}
    <3>1. \A i \in 1 .. Len(next) : i \in 1 .. Len(seen) \/ i = Len(seen) + 1
      BY <2>1
    <3>2. \A i \in 1 .. Len(seen) : i \in 1 .. Len(next)
      BY <2>1
    <3>3. Len(seen) + 1 \in 1 .. Len(next)
      BY <2>1
    <3> QED
      BY <1>1, <2>1, <3>1, <3>2, <3>3, Zenon DEF Range
  <2>5. Identities(next) = Identities(seen) \cup {Identity(c)}
    BY <2>4, Zenon DEF Identities
  <2>6. OneMore(seen, next, c, C)
    BY <2>1, <2>3, <2>4, <2>5, Zenon DEF OneMore
  <2> QED
    BY <2>6, Zenon DEF next
<1> QED
  BY <1>2, <1>3, Zenon

\* What the recursion of dedupConnectionsByClientId says.
IsDedup(g, s) ==
  g = [n \in 0 .. Len(s) |-> IF n = 0 THEN <<>>
                             ELSE IF Seen(s[n], g[n - 1]) THEN g[n - 1]
                                  ELSE Append(g[n - 1], s[n])]

\* dedupConnectionsByClientId is what that recursion gives at the end.
LEMMA DedupDef ==
  ASSUME NEW s
  PROVE  dedupConnectionsByClientId(s) = (CHOOSE g : IsDedup(g, s))[Len(s)]
  BY Zenon DEF dedupConnectionsByClientId, IsDedup

\* The loop of dedupConnectionsByClientId as far as its n-th turn.
UpTo(g, n, s) ==
  \A i \in 0 .. n : g[i] = IF i = 0 THEN <<>> ELSE Added(g[i - 1], s[i])

\* The recursion has a solution for every sequence of connections.
LEMMA DedupExists ==
  ASSUME NEW C, NEW s \in Seq(C)
  PROVE  \E g : IsDedup(g, s)
<1> DEFINE Good(n) == \E g : g = [i \in 0 .. n |-> g[i]] /\ UpTo(g, n, s)
           Bad == {n \in 0 .. Len(s) : ~ Good(n)}
<1>1. Len(s) \in Nat
  OBVIOUS
<1>2. ASSUME NEW n \in Bad, \A k \in Bad : n <= k PROVE FALSE
  <2>1. n \in 0 .. Len(s) /\ n \in Nat
    BY <1>1
  <2>2. CASE n = 0
    <3> DEFINE g == [i \in 0 .. 0 |-> <<>>]
    <3>1. g = [i \in 0 .. 0 |-> g[i]] /\ UpTo(g, 0, s)
      BY DEF UpTo
    <3> HIDE DEF g
    <3> QED
      BY <2>2, <3>1, Zenon
  <2>3. CASE n # 0
    <3>1. n - 1 \in 0 .. Len(s) /\ n - 1 \notin Bad
      <4>1. n - 1 \in 0 .. Len(s) /\ ~ (n <= n - 1)
        BY <1>1, <2>1, <2>3
      <4> HIDE DEF Bad
      <4> QED
        BY <1>2, <4>1, Zenon
    <3>2. PICK g : g = [i \in 0 .. n - 1 |-> g[i]] /\ UpTo(g, n - 1, s)
      BY <3>1, Zenon
    <3> DEFINE h == [i \in 0 .. n |-> IF i = n THEN Added(g[n - 1], s[n]) ELSE g[i]]
    <3>3. h = [i \in 0 .. n |-> h[i]] /\ h[n] = Added(g[n - 1], s[n])
          /\ (\A i \in 0 .. n : i # n => h[i] = g[i])
      BY <2>1
    <3> HIDE DEF h
    <3>4. ASSUME NEW i \in 0 .. n
          PROVE  h[i] = IF i = 0 THEN <<>> ELSE Added(h[i - 1], s[i])
      <4>1. CASE i = n
        <5>1. n - 1 \in 0 .. n /\ n - 1 # n
          BY <2>1, <2>3
        <5>2. h[n - 1] = g[n - 1]
          BY <3>3, <5>1, Zenon
        <5> QED
          BY <2>3, <3>3, <4>1, <5>2, Zenon
      <4>2. CASE i # n
        <5>1. i \in 0 .. n - 1 /\ h[i] = g[i]
          BY <2>1, <3>3, <4>2
        <5>2. CASE i = 0
          BY <3>2, <5>1, <5>2, Zenon DEF UpTo
        <5>3. CASE i # 0
          <6>1. i - 1 \in 0 .. n /\ i - 1 # n
            BY <2>1, <5>3
          <6>2. h[i - 1] = g[i - 1]
            BY <3>3, <6>1, Zenon
          <6> QED
            BY <3>2, <5>1, <5>3, <6>2, Zenon DEF UpTo
        <5> QED
          BY <5>2, <5>3, Zenon
      <4> QED
        BY <4>1, <4>2, Zenon
    <3>5. UpTo(h, n, s)
      BY <3>4, Zenon DEF UpTo
    <3>6. Good(n)
      BY <3>3, <3>5, Zenon
    <3> QED
      BY <3>6, Zenon
  <2> QED
    BY <2>2, <2>3, Zenon
<1>3. Good(Len(s))
  <2>1. Bad \in SUBSET Nat
    BY <1>1
  <2>2. Bad = {}
    <3> HIDE DEF Bad
    <3> QED
      BY <1>2, <2>1, NatMin, Zenon
  <2>3. Len(s) \in 0 .. Len(s)
    BY <1>1
  <2> HIDE DEF Good
  <2> QED
    BY <2>2, <2>3, Zenon
<1>4. PICK g : g = [i \in 0 .. Len(s) |-> g[i]] /\ UpTo(g, Len(s), s)
  BY <1>3, Zenon
<1>5. \A i \in 0 .. Len(s) : g[i] = IF i = 0 THEN <<>>
                                    ELSE IF Seen(s[i], g[i - 1]) THEN g[i - 1]
                                         ELSE Append(g[i - 1], s[i])
  BY <1>4, Zenon DEF UpTo, Added
<1>6. g = [n \in 0 .. Len(s) |-> IF n = 0 THEN <<>>
                                 ELSE IF Seen(s[n], g[n - 1]) THEN g[n - 1]
                                      ELSE Append(g[n - 1], s[n])]
  BY <1>4, <1>5, Zenon
<1> QED
  BY <1>6, Zenon DEF IsDedup

\* dedupConnectionsByClientId, of different connections, leaves one of every
\* client and those of unknown ones: its length is the number of them.
LEMMA Dedup ==
  ASSUME NEW C, NEW s \in Seq(C), Distinct(s)
  PROVE  /\ Len(dedupConnectionsByClientId(s)) = Cardinality(Identities(s))
         /\ Len(dedupConnectionsByClientId(s)) \in Nat
<1> DEFINE G == CHOOSE g : IsDedup(g, s)
           First(n) == {s[i] : i \in 1 .. n}
           Good(n) == /\ G[n] \in Seq(C) /\ Apart(G[n]) /\ Range(G[n]) \subseteq First(n)
                      /\ Identities(G[n]) = {Identity(x) : x \in First(n)}
           Bad == {n \in 0 .. Len(s) : ~ Good(n)}
<1>1. IsDedup(G, s)
  <2>1. \E g : IsDedup(g, s)
    BY DedupExists, Zenon
  <2> QED
    BY <2>1, Zenon
<1> HIDE DEF G
<1>2. Len(s) \in Nat /\ \A i \in 1 .. Len(s) : s[i] \in C
  OBVIOUS
<1>3. ASSUME NEW n \in 0 .. Len(s)
      PROVE  G[n] = IF n = 0 THEN <<>> ELSE Added(G[n - 1], s[n])
  <2>1. G = [k \in 0 .. Len(s) |-> IF k = 0 THEN <<>>
                                   ELSE IF Seen(s[k], G[k - 1]) THEN G[k - 1]
                                        ELSE Append(G[k - 1], s[k])]
    BY <1>1, Zenon DEF IsDedup
  <2> QED
    BY <2>1, Zenon DEF Added
<1>4. ASSUME NEW n \in Bad, \A k \in Bad : n <= k PROVE FALSE
  <2>1. n \in 0 .. Len(s) /\ n \in Nat
    BY <1>2
  <2>2. CASE n = 0
    <3>1. G[n] = <<>>
      BY <1>3, <2>1, <2>2, Zenon
    <3>2. First(n) = {} /\ Range(G[n]) = {} /\ Len(G[n]) = 0 /\ G[n] \in Seq(C)
      BY <2>2, <3>1 DEF Range
    <3>3. Apart(G[n])
      BY <3>2 DEF Apart
    <3>4. Good(n)
      BY <3>2, <3>3, Zenon DEF Identities
    <3> QED
      BY <3>4, Zenon
  <2>3. CASE n # 0
    <3> DEFINE seen == G[n - 1]
    <3>1. n - 1 \in 0 .. Len(s) /\ ~ (n <= n - 1) /\ n \in 1 .. Len(s)
      BY <1>2, <2>1, <2>3
    <3>2. Good(n - 1)
      <4>1. n - 1 \notin Bad
        <5> HIDE DEF Bad
        <5> QED
          BY <1>4, <3>1, Zenon
      <4> QED
        BY <3>1, <4>1, Zenon
    <3>3. G[n] = Added(seen, s[n])
      BY <1>3, <2>1, <2>3, Zenon
    <3>4. seen \in Seq(C) /\ Apart(seen) /\ s[n] \in C /\ Range(seen) \subseteq First(n - 1)
      BY <1>2, <3>1, <3>2, Zenon
    <3>5. First(n) = First(n - 1) \cup {s[n]}
      <4>1. \A i \in 1 .. n : i \in 1 .. n - 1 \/ i = n
        BY <2>1
      <4>2. \A i \in 1 .. n - 1 : i \in 1 .. n
        BY <2>1
      <4>3. n \in 1 .. n
        BY <2>1, <2>3
      <4> QED
        BY <4>1, <4>2, <4>3, Zenon
    <3>6. s[n] \notin Range(seen)
      <4>1. \A i \in 1 .. n - 1 : i \in 1 .. Len(s) /\ i # n
        BY <1>2, <2>1, <3>1
      <4>2. \A i \in 1 .. n - 1 : s[i] # s[n]
        BY <3>1, <4>1, Zenon DEF Distinct
      <4> QED
        BY <3>4, <4>2, Zenon
    <3>7. Identities(seen) = {Identity(x) : x \in First(n - 1)}
      BY <3>2, Zenon
    <3> HIDE DEF seen, First
    <3>8. /\ G[n] \in Seq(C) /\ Apart(G[n]) /\ Range(G[n]) \subseteq Range(seen) \cup {s[n]}
          /\ Identities(G[n]) = Identities(seen) \cup {Identity(s[n])}
      <4>1. OneMore(seen, Added(seen, s[n]), s[n], C)
        BY <3>4, <3>6, AppendNew, Zenon
      <4>2. OneMore(seen, G[n], s[n], C)
        BY <3>3, <4>1, Zenon
      <4> QED
        BY <4>2, Zenon DEF OneMore
    <3>9. Range(G[n]) \subseteq First(n)
      BY <3>4, <3>5, <3>8, Zenon
    <3>10. Identities(G[n]) = {Identity(x) : x \in First(n)}
      BY <3>5, <3>7, <3>8, Zenon
    <3>11. Good(n)
      BY <3>8, <3>9, <3>10, Zenon
    <3> QED
      BY <3>11, Zenon
  <2> QED
    BY <2>2, <2>3, Zenon
<1>5. Bad = {}
  <2>1. Bad \in SUBSET Nat
    BY <1>2
  <2> HIDE DEF Bad
  <2> QED
    BY <1>4, <2>1, NatMin, Zenon
<1>6. Good(Len(s))
  <2>1. Len(s) \in 0 .. Len(s)
    BY <1>2
  <2> HIDE DEF Good
  <2> QED
    BY <1>5, <2>1, Zenon
<1>7. Identities(G[Len(s)]) = Identities(s)
  <2>1. DOMAIN s = 1 .. Len(s)
    OBVIOUS
  <2>2. Range(s) = First(Len(s))
    BY <2>1, Zenon DEF Range
  <2> HIDE DEF First
  <2> QED
    BY <1>6, <2>2, Zenon DEF Identities
<1>8. dedupConnectionsByClientId(s) = G[Len(s)]
  BY DedupDef, Zenon DEF G
<1>9. \A t \in Seq(C) : Len(t) \in Nat
  OBVIOUS
<1> QED
  BY <1>6, <1>7, <1>8, <1>9, ApartCount, Zenon

\* A broker lists what it has.
LEMMA Listed ==
  ASSUME NEW S, IsFiniteSet(S), NEW s \in Listings(S)
  PROVE  s \in Seq(S) /\ Range(s) = S /\ Distinct(s)
<1>1. Cardinality(S) \in Nat
  BY FS_CardinalityType, Zenon
<1>2. s \in [1 .. Cardinality(S) -> S] /\ \A x \in S : \E i \in 1 .. Cardinality(S) : s[i] = x
  BY Zenon DEF Listings, Bijection, Injection, Surjection
<1>3. \A i, j \in 1 .. Cardinality(S) : s[i] = s[j] => i = j
  BY Zenon DEF Listings, Bijection, Injection, IsInjective
<1>4. s \in Seq(S) /\ DOMAIN s = 1 .. Cardinality(S) /\ Len(s) = Cardinality(S)
  BY <1>1, <1>2
<1>5. Range(s) = S
  <2>1. \A i \in DOMAIN s : s[i] \in S
    BY <1>2, <1>4, Zenon
  <2>2. \A x \in S : \E i \in DOMAIN s : s[i] = x
    BY <1>2, <1>4, Zenon
  <2> QED
    BY <2>1, <2>2, Zenon DEF Range
<1>6. Distinct(s)
  BY <1>3, <1>4, Zenon DEF Distinct
<1> QED
  BY <1>4, <1>5, <1>6, Zenon

-----------------------------------------------------------------------------
(* The inductive invariant.                                                *)

\* The maps from some of S to T.
Partial(S, T) == UNION {[D -> T] : D \in SUBSET S}

\* The offsets that a broker gives for a queue.
Offsets == [max : Nat, con : Nat]

\* The brokers, the goroutine, the store and the history.
NetRecord ==
  [brokerOf : [Queue -> Broker], conns : [Broker -> SUBSET Client],
   route : [Broker -> {"master", "slave", "none"}],
   brokerAddrs : SUBSET Broker,
   min : [Queue -> Nat], max : [Queue -> Nat], con : [Queue -> Nat],
   events : Nat]

GoRecord ==
  [fn : Fns, at : {"conn", "stats", "pull", "end"},
   left : SUBSET (Broker \cup Queue),
   merged : Seq(Client \X Broker), table : Partial(Queue, Offsets),
   minOffset : SUBSET (Queue \X Nat), latencyMap : Partial(Broker, Int)]

SampleRecord ==
  [count : SUBSET Nat, diff : SUBSET Int, total : Partial(Broker, Int),
   latency : Partial(Broker, Int)]

HistRecord ==
  [began : NetRecord, conn : SUBSET Broker, stats : SUBSET Broker,
   missed : SUBSET Queue, blank : SUBSET Queue]

\* Types.
RouteTypes ==
  /\ net \in NetRecord /\ go \in GoRecord
  /\ sample \in SampleRecord /\ hist \in HistRecord
  /\ \A q \in Queue : net.max[q] <= MaxOffset

\* From n to o no offset of a queue went back.
Grown(n, o) ==
  \A q \in Queue : n.max[q] <= o.max[q] /\ n.con[q] <= o.con[q] /\ n.min[q] <= o.min[q]

\* The route of the topic has the broker's master.
Master(b) == net.route[b] = "master"

\* The connections of the brokers that answered.
Online == UNION {Connections(b) : b \in hist.conn}

\* While the brokers are asked for connections, merged has those of the ones
\* that answered, each once, and nothing else has begun.
Connected ==
  go.at = "conn" =>
    /\ sample.count = {} /\ hist.stats = {}
    /\ hist.conn \cap go.left = {}
    /\ Range(go.merged) = Online /\ Distinct(go.merged)

\* What the table has of a queue whose master was asked lies between what was
\* there when the offsets were first asked for and what is there now.
InWindow(q) ==
  Master(net.brokerOf[q]) =>
    /\ hist.began.max[q] <= go.table[q].max /\ go.table[q].max <= net.max[q]
    /\ hist.began.con[q] <= go.table[q].con /\ go.table[q].con <= net.con[q]

\* The table has all the queues of the brokers that answered, and no others;
\* no total is stored before the last broker was asked.
Asked ==
  /\ Entries = UNION {OfBroker(b) : b \in hist.stats}
  /\ go.at \in {"conn", "stats"} => sample.diff = {} /\ DOMAIN sample.total = {}
  /\ \A q \in Entries : InWindow(q)

\* The queues to be pulled.
Pullable == {q \in Entries : net.brokerOf[q] \in net.brokerAddrs}

\* The second pull is due at the oldest message or before, the group's offset
\* being gone.
Illegal(x) == go.table[x[1]].con < net.min[x[1]] /\ x[2] <= net.min[x[1]]

\* v is no shorter than the wait of the message of q that is the oldest now,
\* and no longer than that of the one that was at first.
AtLeast(q, v) ==
  Oldest(net, q) < hist.began.max[q] => Now - Stamp[q][Oldest(net, q)] <= v

AtMost(q, v) ==
  Oldest(hist.began, q) < net.max[q] /\ v <= Now - Stamp[q][Oldest(hist.began, q)]

\* The latency of a broker is the longest wait of its queues pulled so far.
SoFar(b) ==
  Master(b) =>
    /\ 0 <= go.latencyMap[b]
    /\ \A q \in Pullable \ go.left :
         net.brokerOf[q] = b /\ q \notin hist.missed => AtLeast(q, go.latencyMap[b])
    /\ OfBroker(b) \cap hist.blank = {} /\ go.latencyMap[b] # 0 =>
         \E q \in OfBroker(b) : AtMost(q, go.latencyMap[b])

\* The brokers with a latency are those of the queues pulled so far.
Pulls ==
  /\ go.at \in {"conn", "stats"} => DOMAIN go.latencyMap = {} /\ go.minOffset = {}
  /\ go.at # "end" => DOMAIN sample.latency = {}
  /\ go.at = "pull" =>
       /\ go.left \subseteq Pullable
       /\ DOMAIN go.latencyMap = {net.brokerOf[q] : q \in Pullable \ go.left}
       /\ \A x \in go.minOffset : x[1] \in go.left /\ Illegal(x)
       /\ \A b \in DOMAIN go.latencyMap : SoFar(b)

\* What LatencyOfOldest says of the latency v of broker b.
Oldests(b, v) ==
  /\ Longest(net, hist.began.max, OfBroker(b) \ hist.missed) <= v
  /\ OfBroker(b) \cap hist.blank = {} => v <= Longest(hist.began, net.max, OfBroker(b))

\* The inductive invariant.
RouteInv ==
  /\ RouteTypes /\ Grown(hist.began, net)
  /\ Connected /\ Asked /\ Pulls
  /\ CountsClientsOnce /\ TotalsInWindow /\ LatencyOfOldest

-----------------------------------------------------------------------------
(* Facts about the operators.                                              *)

\* The largest member of a set of integers is its Max.
LEMMA MaxIs ==
  ASSUME NEW S \in SUBSET Int, NEW v \in S, \A x \in S : x <= v
  PROVE  Max(S) = v
<1>1. Max(S) \in S /\ \A y \in S : Max(S) >= y
  <2>1. \E x \in S : \A y \in S : x >= y
    BY Zenon
  <2> QED
    BY <2>1, Zenon DEF Max
<1>2. Max(S) \in Int /\ v \in Int /\ Max(S) >= v /\ Max(S) <= v
  BY <1>1, Zenon
<1> QED
  BY <1>2

\* Max of two integers.
LEMMA MaxOfTwo ==
  ASSUME NEW a \in Int, NEW b \in Int
  PROVE  Max({a, b}) = IF a < b THEN b ELSE a
<1>1. CASE a < b
  BY <1>1, MaxIs
<1>2. CASE ~ a < b
  BY <1>2, MaxIs
<1> QED
  BY <1>1, <1>2, Zenon

\* A set of integers with a bound has a Max, and the bound is one of it.
LEMMA MaxBounded ==
  ASSUME NEW S \in SUBSET Int, S # {}, NEW v \in Int, \A x \in S : x <= v
  PROVE  Max(S) \in S /\ Max(S) <= v /\ \A x \in S : x <= Max(S)
<1> DEFINE D == {v - x : x \in S}
<1>1. D \in SUBSET Nat /\ D # {}
  <2>1. \A x \in S : v - x \in Nat
    OBVIOUS
  <2> QED
    BY <2>1, Zenon
<1>2. PICK d \in D : \A k \in D : d <= k
  <2> HIDE DEF D
  <2> QED
    BY <1>1, NatMin, Zenon
<1>3. PICK w \in S : d = v - w
  BY <1>2, Zenon
<1>4. \A x \in S : x <= w
  <2> SUFFICES ASSUME NEW x \in S PROVE x <= w
    BY Zenon
  <2>1. v - x \in D
    BY Zenon
  <2>2. v - w <= v - x
    BY <1>2, <1>3, <2>1, Zenon
  <2> QED
    BY <2>2
<1>5. Max(S) = w
  BY <1>4, MaxIs, Zenon
<1> QED
  BY <1>3, <1>4, <1>5, Zenon

\* Oldest with its Max written out.
LEMMA OldestIs ==
  ASSUME NEW n \in NetRecord, NEW q \in Queue
  PROVE  /\ n.con[q] \in Nat /\ n.min[q] \in Nat /\ n.max[q] \in Nat
         /\ Oldest(n, q) \in Nat
         /\ Oldest(n, q) = IF n.con[q] < n.min[q] THEN n.min[q] ELSE n.con[q]
<1>1. n.con[q] \in Nat /\ n.min[q] \in Nat /\ n.max[q] \in Nat
  BY Zenon DEF NetRecord
<1>2. Oldest(n, q) = IF n.con[q] < n.min[q] THEN n.min[q] ELSE n.con[q]
  BY <1>1, MaxOfTwo DEF Oldest
<1> QED
  BY <1>1, <1>2, Zenon

\* A later message is not stored earlier.
LEMMA StampsAre ==
  ASSUME NEW q \in Queue, NEW i \in Nat, NEW j \in Nat, i <= j, j <= MaxOffset
  PROVE  /\ Stamp[q][i] \in Nat /\ Stamp[q][j] \in Nat /\ Stamp[q][i] # 0
         /\ Stamp[q][i] <= Stamp[q][j]
<1>1. i \in 0 .. MaxOffset /\ j \in 0 .. MaxOffset
  BY OffsetAssumption
<1>2. Stamp[q] \in [0 .. MaxOffset -> Nat \ {0}] /\ Stamp[q][i] <= Stamp[q][j]
  BY <1>1, StampAssumption, Zenon
<1>3. Stamp[q][i] \in Nat \ {0} /\ Stamp[q][j] \in Nat \ {0}
  BY <1>1, <1>2, Zenon
<1> QED
  BY <1>2, <1>3, Zenon

\* The brokers the work starts with have the type.
LEMMA NetsType == Nets \subseteq NetRecord
<1>1. 0 .. 1 \subseteq Nat /\ {0} \subseteq Nat
  OBVIOUS
<1> HIDE <1>1
<1> SUFFICES ASSUME NEW n \in Nets PROVE n \in NetRecord
  BY Zenon
<1>2. /\ n.min \in [Queue -> Nat] /\ n.max \in [Queue -> Nat]
      /\ n.con \in [Queue -> Nat] /\ n.events \in Nat
  BY DEF Nets
<1> QED
  BY <1>2, Zenon DEF Nets, NetRecord

\* The empty map and the empty sequence have the types.
LEMMA EmptyTypes ==
  /\ DOMAIN <<>> = {}
  /\ \A C : <<>> \in Seq(C) /\ Range(<<>>) = {}
  /\ \A S, T : <<>> \in Partial(S, T)
<1>1. DOMAIN <<>> = {}
  OBVIOUS
<1>2. ASSUME NEW S, NEW T PROVE <<>> \in Partial(S, T)
  <2>1. <<>> \in [{} -> T]
    OBVIOUS
  <2>2. {} \in SUBSET S
    BY Zenon
  <2> QED
    BY <2>1, <2>2, Zenon DEF Partial
<1>3. ASSUME NEW C PROVE <<>> \in Seq(C) /\ Range(<<>>) = {}
  BY DEF Range
<1> QED
  BY <1>1, <1>2, <1>3, Zenon

\* What a broker says of a queue, and what a master says.
LEMMA OffsetsAre ==
  ASSUME net \in NetRecord, NEW q \in Queue, NEW behind \in {0, 1}
  PROVE  /\ OffsetsAt(q, behind) \in Offsets
         /\ behind = 0 => /\ OffsetsAt(q, behind).max = net.max[q]
                          /\ OffsetsAt(q, behind).con = net.con[q]
<1>1. net.max[q] \in Nat /\ net.con[q] \in Nat
  BY Zenon DEF NetRecord
<1>2. /\ Max({net.max[q] - behind, 0}) \in Nat /\ Max({net.con[q] - behind, 0}) \in Nat
      /\ behind = 0 => /\ Max({net.max[q] - behind, 0}) = net.max[q]
                       /\ Max({net.con[q] - behind, 0}) = net.con[q]
  BY <1>1, MaxOfTwo
<1> QED
  BY <1>2, Zenon DEF OffsetsAt, Offsets

\* Partial by the domain and the values.
LEMMA PartialFunction ==
  ASSUME NEW S, NEW T, NEW f
  PROVE  /\ f \in Partial(S, T) => DOMAIN f \subseteq S /\ \A x \in DOMAIN f : f[x] \in T
         /\ DOMAIN f \subseteq S /\ f \in [DOMAIN f -> T] => f \in Partial(S, T)
  BY Zenon DEF Partial

-----------------------------------------------------------------------------
(* The brokers are asked.                                                  *)

\* The work begins in the invariant.
LEMMA RouteInitInv ==
  ASSUME NEW N \in SUBSET Nets, NEW F \in SUBSET Fns, RouteInit(N, F)
  PROVE  RouteInv
<1> DEFINE none == <<>>
<1>1. /\ DOMAIN none = {} /\ none \in Seq(Client \X Broker) /\ Range(none) = {}
      /\ none \in Partial(Queue, Offsets) /\ none \in Partial(Broker, Int)
  BY EmptyTypes, Zenon
<1>2. PICK f \in F :
        go = [fn |-> f, at |-> IF f = "topic" THEN "stats" ELSE "conn",
              left |-> Broker, merged |-> none, table |-> none,
              minOffset |-> {}, latencyMap |-> none]
  BY Zenon DEF RouteInit
<1>3. /\ net \in NetRecord
      /\ sample = [count |-> {}, diff |-> {}, total |-> none, latency |-> none]
      /\ hist = [began |-> net, conn |-> {}, stats |-> {}, missed |-> {},
                 blank |-> {}]
  BY NetsType, Zenon DEF RouteInit
<1>0. Distinct(none)
  BY DEF Distinct
<1>12. \A q \in Queue : net.max[q] <= MaxOffset
  BY OffsetAssumption DEF RouteInit, Nets
<1> HIDE DEF none
<1>4. /\ go \in GoRecord /\ go.at \in {"stats", "conn"} /\ go.left = Broker
      /\ go.merged = none /\ go.table = none /\ go.minOffset = {}
      /\ go.latencyMap = none
  BY <1>1, <1>2, Zenon DEF GoRecord, Fns
<1>5. sample \in SampleRecord
  BY <1>1, <1>3, Zenon DEF SampleRecord
<1>6. hist \in HistRecord
  BY <1>3, Zenon DEF HistRecord
<1>7. Grown(hist.began, net)
  BY <1>3 DEF Grown, NetRecord
<1>8. Connected
  BY <1>0, <1>1, <1>3, <1>4, Zenon DEF Connected, Online
<1>9. Asked
  BY <1>1, <1>3, <1>4, Zenon DEF Asked, Entries
<1>10. Pulls
  BY <1>1, <1>3, <1>4, Zenon DEF Pulls
<1>11. CountsClientsOnce /\ TotalsInWindow /\ LatencyOfOldest
  BY <1>1, <1>3, Zenon DEF CountsClientsOnce, TotalsInWindow, LatencyOfOldest
<1> QED
  BY <1>3, <1>4, <1>5, <1>6, <1>7, <1>8, <1>9, <1>10, <1>11, <1>12, Zenon
  DEF RouteInv, RouteTypes

\* What only moves the goroutine on, the table aside, keeps the samples right.
LEMMA SamplesKept ==
  ASSUME RouteInv, UNCHANGED <<net, sample, hist>>,
         go'.fn = go.fn, go'.table = go.table
  PROVE  /\ (CountsClientsOnce /\ TotalsInWindow /\ LatencyOfOldest)'
         /\ Entries' = Entries /\ (\A b : OfBroker(b)' = OfBroker(b))
         /\ Pullable' = Pullable /\ (\A q : InWindow(q)' = InWindow(q))
         /\ Grown(hist.began, net)'
<1>1. Entries' = Entries /\ (\A b : OfBroker(b)' = OfBroker(b))
  BY Zenon DEF Entries, OfBroker
<1>2. Pullable' = Pullable
  BY <1>1, Zenon DEF Pullable
<1>3. \A q : InWindow(q)' = InWindow(q)
  BY Zenon DEF InWindow, Master
<1>4. CountsClientsOnce' /\ Grown(hist.began, net)'
  BY Zenon DEF CountsClientsOnce, Connections, Grown, RouteInv
<1>5. TotalsInWindow'
  <2>1. TotalsInWindow
    BY Zenon DEF RouteInv
  <2>2. net' = net /\ sample' = sample /\ hist' = hist
    BY Zenon
  <2> QED
    BY <1>1, <2>1, <2>2 DEF TotalsInWindow
<1>6. LatencyOfOldest'
  <2>1. LatencyOfOldest
    BY Zenon DEF RouteInv
  <2>2. EntryBrokers' = EntryBrokers
    BY <1>1, Zenon DEF EntryBrokers
  <2>3. \A b, v : Oldests(b, v)' = Oldests(b, v)
    BY Zenon DEF Oldests, Longest, Oldest, OfBroker
  <2>4. \A b \in DOMAIN sample.latency : net.route[b] = "master" => Oldests(b, sample.latency[b])
    BY <2>1, Zenon DEF LatencyOfOldest, Oldests
  <2>5. \A b \in DOMAIN sample'.latency : net'.route[b] = "master" =>
          \A v : v = sample'.latency[b] => Oldests(b, v)'
    BY <2>3, <2>4, Zenon
  <2>6. DOMAIN sample'.latency \in {{}, EntryBrokers' \cap net'.brokerAddrs}
    BY <2>1, <2>2, Zenon DEF LatencyOfOldest
  <2> QED
    BY <2>5, <2>6, Zenon DEF LatencyOfOldest, Oldests
<1> QED
  BY <1>1, <1>2, <1>3, <1>4, <1>5, <1>6, Zenon

\* To give up keeps the invariant: StatsError, PullError, and a pair without
\* an entry.
LEMMA EndInv ==
  ASSUME RouteInv, go' = [go EXCEPT !.at = "end"], UNCHANGED <<net, sample, hist>>
  PROVE  RouteInv'
<1>1. RouteTypes
  BY Zenon DEF RouteInv
<1>2. /\ go' \in GoRecord /\ go'.at = "end" /\ go'.fn = go.fn /\ go'.table = go.table
  BY <1>1, Zenon DEF RouteTypes, GoRecord
<1>3. RouteTypes'
  BY <1>1, <1>2, Zenon DEF RouteTypes
<1>4. Connected' /\ Pulls'
  BY <1>2, Zenon DEF Connected, Pulls
<1>5. Asked'
  BY <1>2, SamplesKept, Zenon DEF RouteInv, Asked
<1> QED
  BY <1>2, <1>3, <1>4, <1>5, SamplesKept, Zenon DEF RouteInv

\* A broker that is passed over keeps the invariant.
LEMMA AskNothingInv ==
  ASSUME RouteInv, NEW b \in Broker, AskNothing(b)
  PROVE  RouteInv'
<1>1. RouteTypes /\ UNCHANGED <<net, sample, hist>> /\ go.at \in {"conn", "stats"}
  BY Zenon DEF RouteInv, AskNothing
<1>2. /\ go' \in GoRecord /\ go'.at = go.at /\ go'.fn = go.fn /\ go'.table = go.table
      /\ go'.left = go.left \ {b} /\ go'.merged = go.merged
      /\ go'.minOffset = go.minOffset /\ go'.latencyMap = go.latencyMap
  BY <1>1, Zenon DEF RouteTypes, GoRecord, AskNothing
<1>3. RouteTypes'
  BY <1>1, <1>2, Zenon DEF RouteTypes
<1>4. Connected'
  BY <1>1, <1>2, Zenon DEF Connected, Online, Connections, RouteInv
<1>5. Asked'
  BY <1>1, <1>2, SamplesKept, Zenon DEF RouteInv, Asked
<1>6. Pulls'
  BY <1>1, <1>2, Zenon DEF RouteInv, Pulls
<1> QED
  BY <1>1, <1>2, <1>3, <1>4, <1>5, <1>6, SamplesKept, Zenon DEF RouteInv

\* AddGroupCountMetric keeps it, if n is the number of the clients.
LEMMA PutCountInv ==
  ASSUME RouteInv, go.at = "conn", NEW n \in Nat, PutCount(n),
         n = Cardinality({Identity(x) : x \in Online})
  PROVE  RouteInv'
<1>1. RouteTypes /\ UNCHANGED net
  BY Zenon DEF RouteInv, PutCount
<1>2. /\ go' \in GoRecord /\ go'.at = "stats" /\ go'.fn = go.fn /\ go'.table = go.table
      /\ go'.minOffset = go.minOffset /\ go'.latencyMap = go.latencyMap
  BY <1>1, Zenon DEF RouteTypes, GoRecord, PutCount
<1>3. /\ sample' \in SampleRecord /\ sample'.count = {n} /\ sample'.diff = sample.diff
      /\ sample'.total = sample.total /\ sample'.latency = sample.latency
  BY <1>1, Zenon DEF RouteTypes, SampleRecord, PutCount
<1>4. /\ hist' \in HistRecord /\ hist'.began = net /\ hist'.conn = hist.conn
      /\ hist'.stats = hist.stats
  BY <1>1, Zenon DEF RouteTypes, HistRecord, PutCount
<1>5. RouteTypes'
  BY <1>1, <1>2, <1>3, <1>4, Zenon DEF RouteTypes
<1>6. Grown(hist.began, net)'
  BY <1>1, <1>4 DEF Grown, RouteTypes, NetRecord
<1>7. hist.stats = {} /\ Entries = {}
  BY Zenon DEF RouteInv, Connected, Asked
<1>8. Entries' = {} /\ sample.diff = {} /\ DOMAIN sample.total = {}
      /\ DOMAIN sample.latency = {} /\ DOMAIN go.latencyMap = {} /\ go.minOffset = {}
  BY <1>2, <1>7, Zenon DEF RouteInv, Asked, Pulls, Entries
<1>9. Connected'
  BY <1>2, Zenon DEF Connected
<1>10. Asked'
  BY <1>2, <1>3, <1>4, <1>7, <1>8, Zenon DEF Asked
<1>11. Pulls'
  BY <1>2, <1>3, <1>8, Zenon DEF Pulls
<1>12. CountsClientsOnce'
  BY <1>1, <1>3, <1>4, Zenon DEF CountsClientsOnce, Online, Connections
<1>13. TotalsInWindow'
  BY <1>3, <1>8, Zenon DEF TotalsInWindow
<1>14. LatencyOfOldest'
  BY <1>3, <1>8, Zenon DEF LatencyOfOldest
<1> QED
  BY <1>5, <1>6, <1>9, <1>10, <1>11, <1>12, <1>13, <1>14, Zenon DEF RouteInv

\* Without a route no broker has answered, and 0 is the number.
LEMMA ConnRouteErrorInv ==
  ASSUME RouteInv, ConnRouteError
  PROVE  RouteInv'
<1>1. hist.conn = {}
  BY Zenon DEF RouteInv, RouteTypes, HistRecord, Connected, ConnRouteError
<1>2. {Identity(x) : x \in Online} = {}
  BY <1>1, Zenon DEF Online
<1>3. Cardinality({Identity(x) : x \in Online}) = 0
  BY <1>2, FS_EmptySet, Zenon
<1> QED
  BY <1>3, PutCountInv DEF ConnRouteError

\* The merged clients without duplicates are the clients of the brokers that
\* answered.
LEMMA CountOnlineInv ==
  ASSUME RouteInv, CountOnline
  PROVE  RouteInv'
<1>1. go.merged \in Seq(Client \X Broker) /\ Distinct(go.merged) /\ Range(go.merged) = Online
  BY Zenon DEF RouteInv, RouteTypes, GoRecord, Connected, CountOnline
<1>2. Len(dedupConnectionsByClientId(go.merged)) = Cardinality({Identity(x) : x \in Online})
  BY <1>1, Dedup, Zenon DEF Identities
<1>3. Len(dedupConnectionsByClientId(go.merged)) \in Nat
  BY <1>1, Dedup, Zenon
<1> QED
  BY <1>2, <1>3, PutCountInv, Zenon DEF CountOnline

\* A broker's connections are merged.
LEMMA ConnectionInv ==
  ASSUME RouteInv, NEW b \in Broker, ExamineConsumerConnectionInfoOnBroker(b)
  PROVE  RouteInv'
<1>1. /\ RouteTypes /\ UNCHANGED <<net, sample>> /\ go.at = "conn" /\ b \in go.left
      /\ hist' = [hist EXCEPT !.conn = @ \cup {b}]
  BY Zenon DEF RouteInv, ExamineConsumerConnectionInfoOnBroker, Askable
<1>0. PICK s \in Listings(Connections(b)) :
        go' = [go EXCEPT !.left = @ \ {b}, !.merged = @ \o s]
  BY Zenon DEF ExamineConsumerConnectionInfoOnBroker
<1>2. Connections(b) \subseteq Client \X Broker /\ IsFiniteSet(Connections(b))
  <2>1. net.conns[b] \subseteq Client
    BY <1>1, Zenon DEF RouteTypes, NetRecord
  <2>2. IsFiniteSet(net.conns[b])
    BY <2>1, FS_Subset, FiniteAssumption, Zenon
  <2>3. IsFiniteSet({b})
    BY FS_Singleton, Zenon
  <2>4. IsFiniteSet(Connections(b))
    BY <2>2, <2>3, FS_Product, Zenon DEF Connections
  <2> QED
    BY <2>1, <2>4 DEF Connections
<1>3. s \in Seq(Connections(b)) /\ Range(s) = Connections(b) /\ Distinct(s)
  BY <1>2, Listed, Zenon
<1>4. s \in Seq(Client \X Broker)
  BY <1>2, <1>3
<1>5. go.merged \in Seq(Client \X Broker) /\ Distinct(go.merged) /\ Range(go.merged) = Online
  BY <1>1, Zenon DEF RouteInv, RouteTypes, GoRecord, Connected
<1>17. Range(go.merged) \cap Range(s) = {}
  <2>1. b \notin hist.conn
    BY <1>1, Zenon DEF RouteInv, Connected
  <2>2. \A x \in Connections(b) : x[2] = b
    BY DEF Connections
  <2>3. \A c : \A x \in Connections(c) : x[2] = c
    BY DEF Connections
  <2>4. \A x \in Online : x[2] # b
    BY <2>1, <2>3, Zenon DEF Online
  <2> QED
    BY <1>3, <1>5, <2>2, <2>4, Zenon
<1>6. /\ go.merged \o s \in Seq(Client \X Broker)
      /\ Range(go.merged \o s) = Range(go.merged) \cup Range(s)
      /\ Distinct(go.merged \o s)
  <2> DEFINE t == go.merged
             C == Client \X Broker
  <2>1. t \in Seq(C) /\ s \in Seq(C) /\ Distinct(t) /\ Distinct(s) /\ Range(t) \cap Range(s) = {}
    BY <1>3, <1>4, <1>5, <1>17, Zenon
  <2> HIDE DEF t, C
  <2>0. DOMAIN t = 1 .. Len(t) /\ DOMAIN s = 1 .. Len(s)
    BY <2>1
  <2>2. /\ t \o s \in Seq(C) /\ Len(t \o s) = Len(t) + Len(s)
        /\ Len(t) \in Nat /\ Len(s) \in Nat
        /\ \A i \in 1 .. Len(t) : (t \o s)[i] = t[i]
        /\ \A i \in 1 .. Len(s) : (t \o s)[Len(t) + i] = s[i]
    BY <2>1
  <2> DEFINE u == t \o s
  <2>3. /\ u \in Seq(C) /\ Len(u) = Len(t) + Len(s) /\ DOMAIN u = 1 .. Len(u)
        /\ Len(t) \in Nat /\ Len(s) \in Nat
        /\ \A i \in 1 .. Len(t) : u[i] = t[i]
        /\ \A i \in 1 .. Len(s) : u[Len(t) + i] = s[i]
    BY <2>2
  <2> HIDE DEF u
  <2>4. Range(u) \subseteq Range(t) \cup Range(s)
    <3> SUFFICES ASSUME NEW i \in 1 .. Len(u)
                 PROVE  u[i] \in Range(t) \cup Range(s)
      BY <2>3, Zenon DEF Range
    <3>1. CASE i \in 1 .. Len(t)
      BY <2>0, <2>3, <3>1, Zenon DEF Range
    <3>2. CASE i \notin 1 .. Len(t)
      <4>1. i - Len(t) \in 1 .. Len(s) /\ i = Len(t) + (i - Len(t))
        BY <2>3, <3>2
      <4>2. u[i] = s[i - Len(t)]
        BY <2>3, <4>1, Zenon
      <4> QED
        BY <2>0, <4>1, <4>2, Zenon DEF Range
    <3> QED
      BY <3>1, <3>2, Zenon
  <2>5. Range(t) \subseteq Range(u)
    <3>1. \A i \in 1 .. Len(t) : i \in 1 .. Len(u)
      BY <2>3
    <3> QED
      BY <2>0, <2>3, <3>1, Zenon DEF Range
  <2>6. Range(s) \subseteq Range(u)
    <3>1. \A i \in 1 .. Len(s) : Len(t) + i \in 1 .. Len(u)
      BY <2>3
    <3> QED
      BY <2>0, <2>3, <3>1, Zenon DEF Range
  <2>7. Distinct(u)
    <3>1. \A i \in 1 .. Len(t) : u[i] = t[i] /\ u[i] \in Range(t)
      BY <2>0, <2>3, Zenon DEF Range
    <3>2. \A i \in 1 .. Len(u) : i \notin 1 .. Len(t) =>
            i - Len(t) \in 1 .. Len(s) /\ i = Len(t) + (i - Len(t))
      BY <2>3
    <3>3. \A i \in 1 .. Len(u) : i \notin 1 .. Len(t) =>
            /\ i - Len(t) \in 1 .. Len(s) /\ u[i] = s[i - Len(t)] /\ u[i] \in Range(s)
      BY <2>0, <2>3, <3>2, Zenon DEF Range
    <3> SUFFICES ASSUME NEW i \in 1 .. Len(u), NEW j \in 1 .. Len(u), u[i] = u[j]
                 PROVE  i = j
      BY Zenon DEF Distinct
    <3>4. CASE i \in 1 .. Len(t)
      <4>1. j \in 1 .. Len(t)
        BY <2>1, <3>1, <3>3, <3>4, Zenon
      <4> QED
        BY <2>1, <3>1, <3>4, <4>1, Zenon DEF Distinct
    <3>5. CASE i \notin 1 .. Len(t)
      <4>1. j \notin 1 .. Len(t)
        BY <2>1, <3>1, <3>3, <3>5, Zenon
      <4>2. i - Len(t) = j - Len(t)
        BY <2>1, <3>3, <3>5, <4>1, Zenon DEF Distinct
      <4> QED
        BY <2>3, <4>2
    <3> QED
      BY <3>4, <3>5, Zenon
  <2> QED
    BY <2>3, <2>4, <2>5, <2>6, <2>7, Zenon DEF t, u, C
<1> HIDE <1>6
<1>7. /\ go' \in GoRecord /\ go'.at = "conn" /\ go'.fn = go.fn /\ go'.table = go.table
      /\ go'.left = go.left \ {b} /\ go'.merged = go.merged \o s
      /\ go'.minOffset = go.minOffset /\ go'.latencyMap = go.latencyMap
  BY <1>0, <1>1, <1>6, Zenon DEF RouteTypes, GoRecord
<1>8. /\ hist' \in HistRecord /\ hist'.began = hist.began /\ hist'.conn = hist.conn \cup {b}
      /\ hist'.stats = hist.stats
  BY <1>1, Zenon DEF RouteTypes, HistRecord
<1>9. RouteTypes'
  BY <1>1, <1>7, <1>8, Zenon DEF RouteTypes
<1>10. Connected'
  <2>1. hist'.conn \cap go'.left = {}
    BY <1>1, <1>7, <1>8, Zenon DEF RouteInv, Connected
  <2>2. Online' = Online \cup Connections(b)
    <3>1. \A c : Connections(c)' = Connections(c)
      BY <1>1, Zenon DEF Connections
    <3>2. Online' = UNION {Connections(c) : c \in hist'.conn}
      BY <3>1, Zenon DEF Online
    <3> QED
      BY <1>8, <3>2, Zenon DEF Online
  <2>3. Range(go'.merged) = Online' /\ Distinct(go'.merged)
    BY <1>3, <1>5, <1>6, <1>7, <2>2, Zenon
  <2> QED
    BY <1>1, <1>8, <2>1, <2>3 DEF RouteInv, Connected
<1>11. Entries' = Entries /\ (\A c : OfBroker(c)' = OfBroker(c)) /\ hist.stats = {}
       /\ Entries = {}
  BY <1>1, <1>7 DEF Entries, OfBroker, RouteInv, Connected, Asked
<1>12. Asked'
  BY <1>1, <1>8, <1>11 DEF RouteInv, Asked
<1>13. Pulls'
  BY <1>1, <1>7, Zenon DEF RouteInv, Pulls
<1>14. DOMAIN sample.total = {} /\ DOMAIN sample.latency = {} /\ sample.diff = {}
       /\ sample.count = {}
  BY <1>1, Zenon DEF RouteInv, Asked, Pulls, Connected
<1>15. CountsClientsOnce' /\ TotalsInWindow' /\ LatencyOfOldest'
  BY <1>1, <1>14, Zenon DEF CountsClientsOnce, TotalsInWindow, LatencyOfOldest
<1>16. Grown(hist.began, net)'
  BY <1>1, <1>8, Zenon DEF RouteInv, Grown
<1> QED
  BY <1>9, <1>10, <1>12, <1>13, <1>15, <1>16, Zenon DEF RouteInv

\* A broker's offsets are merged: the window holds for its queues, and for the
\* others as before.
LEMMA StatsInv ==
  ASSUME RouteInv, NEW b \in Broker, ExamineStatsOnBroker(b)
  PROVE  RouteInv'
<1>1. RouteTypes /\ UNCHANGED <<net, sample>> /\ go.at = "stats" /\ b \in go.left
      /\ hist' = [hist EXCEPT !.stats = @ \cup {b}]
  BY Zenon DEF RouteInv, ExamineStatsOnBroker, Askable
<1>2. PICK behind \in (IF net.route[b] = "master" THEN {0} ELSE {0, 1}) :
        go' = [go EXCEPT !.left = @ \ {b},
                 !.table = [q \in OfBroker(b) \cup DOMAIN @ |->
                              IF q \in OfBroker(b) THEN OffsetsAt(q, behind) ELSE @[q]]]
  BY Zenon DEF ExamineStatsOnBroker
<1>3. behind \in {0, 1} /\ (Master(b) => behind = 0)
  BY Zenon DEF Master
<1> DEFINE T == [q \in OfBroker(b) \cup Entries |->
                   IF q \in OfBroker(b) THEN OffsetsAt(q, behind) ELSE go.table[q]]
<1>4. OfBroker(b) \subseteq Queue /\ \A q \in OfBroker(b) : OffsetsAt(q, behind) \in Offsets
  BY <1>1, <1>3, OffsetsAre, Zenon DEF RouteTypes, OfBroker
<1>5. Entries \subseteq Queue /\ \A q \in Entries : go.table[q] \in Offsets
  <2>1. go.table \in Partial(Queue, Offsets)
    BY <1>1, Zenon DEF RouteTypes, GoRecord
  <2> QED
    BY <2>1, PartialFunction, Zenon DEF Entries
<1>6. T \in Partial(Queue, Offsets)
  <2>1. T \in [OfBroker(b) \cup Entries -> Offsets]
    BY <1>4, <1>5, Zenon
  <2>2. OfBroker(b) \cup Entries \in SUBSET Queue
    BY <1>4, <1>5, Zenon
  <2> QED
    BY <2>1, <2>2, Zenon DEF Partial
<1>7. go' = [go EXCEPT !.left = @ \ {b}, !.table = T]
  BY <1>1, <1>2, Zenon DEF RouteTypes, GoRecord, Entries
<1>8. /\ DOMAIN T = OfBroker(b) \cup Entries
      /\ \A q \in OfBroker(b) : T[q] = OffsetsAt(q, behind)
      /\ \A q \in Entries \ OfBroker(b) : T[q] = go.table[q]
  BY Zenon
<1> HIDE DEF T
<1>9. /\ go' \in GoRecord /\ go'.at = "stats" /\ go'.fn = go.fn /\ go'.table = T
      /\ go'.left = go.left \ {b} /\ go'.merged = go.merged
      /\ go'.minOffset = go.minOffset /\ go'.latencyMap = go.latencyMap
  BY <1>1, <1>6, <1>7, Zenon DEF RouteTypes, GoRecord
<1>10. /\ hist' \in HistRecord /\ hist'.began = hist.began /\ hist'.conn = hist.conn
       /\ hist'.stats = hist.stats \cup {b}
  BY <1>1, Zenon DEF RouteTypes, HistRecord
<1>11. RouteTypes'
  BY <1>1, <1>9, <1>10, Zenon DEF RouteTypes
<1>12. Grown(hist.began, net)'
  BY <1>1, <1>10, Zenon DEF RouteInv, Grown
<1>13. Connected'
  BY <1>9, Zenon DEF Connected
<1>14. Entries' = OfBroker(b) \cup Entries /\ (\A c : OfBroker(c)' = OfBroker(c))
  BY <1>1, <1>8, <1>9, Zenon DEF Entries, OfBroker
<1>15. ASSUME NEW q \in Entries' PROVE InWindow(q)'
  <2>1. CASE q \in OfBroker(b)
    <3>1. q \in Queue /\ net.brokerOf[q] = b
      BY <2>1, Zenon DEF OfBroker
    <3>2. Master(b) => T[q].max = net.max[q] /\ T[q].con = net.con[q]
      BY <1>1, <1>3, <1>8, <2>1, <3>1, OffsetsAre DEF RouteTypes
    <3>3. /\ hist.began.max[q] <= net.max[q] /\ hist.began.con[q] <= net.con[q]
          /\ net.max[q] \in Nat /\ net.con[q] \in Nat
      BY <1>1, <3>1, Zenon DEF RouteInv, Grown, RouteTypes, NetRecord
    <3> QED
      BY <1>1, <1>9, <1>10, <3>1, <3>2, <3>3 DEF InWindow, Master
  <2>2. CASE q \notin OfBroker(b)
    <3>1. q \in Entries /\ T[q] = go.table[q]
      BY <1>8, <1>14, <2>2, Zenon
    <3>2. InWindow(q)
      BY <3>1, Zenon DEF RouteInv, Asked
    <3> QED
      BY <1>1, <1>9, <1>10, <3>1, <3>2, Zenon DEF InWindow, Master
  <2> QED
    BY <2>1, <2>2, Zenon
<1>16. Asked'
  <2>1. Entries' = UNION {OfBroker(c) : c \in hist'.stats}
    BY <1>10, <1>14, Zenon DEF RouteInv, Asked
  <2> QED
    BY <1>1, <1>14, <1>15, <2>1, Zenon DEF RouteInv, Asked
<1>17. Pulls'
  BY <1>1, <1>9, Zenon DEF RouteInv, Pulls
<1>18. DOMAIN sample.total = {} /\ DOMAIN sample.latency = {} /\ sample.diff = {}
  BY <1>1, Zenon DEF RouteInv, Asked, Pulls
<1>19. CountsClientsOnce'
  BY <1>1, <1>10, Zenon DEF RouteInv, CountsClientsOnce, Connections
<1>20. TotalsInWindow' /\ LatencyOfOldest'
  BY <1>1, <1>18, Zenon DEF TotalsInWindow, LatencyOfOldest
<1> QED
  BY <1>11, <1>12, <1>13, <1>16, <1>17, <1>19, <1>20, Zenon DEF RouteInv

-----------------------------------------------------------------------------
(* The totals.                                                             *)

\* The queues that are summed: the table has all or none of a broker's.
LEMMA OfAnswered ==
  ASSUME RouteInv
  PROVE  /\ \A b : IsFiniteSet(OfBroker(b)) /\ OfBroker(b) \subseteq Queue
         /\ Entries \subseteq Queue /\ IsFiniteSet(Entries)
         /\ \A q \in Entries : /\ net.brokerOf[q] \in hist.stats
                               /\ go.table[q].max \in Nat /\ go.table[q].con \in Nat
         /\ \A b \in EntryBrokers : b \in Broker /\ OfBroker(b) \subseteq Entries
         /\ \A q \in Queue : /\ net.max[q] \in Nat /\ hist.began.max[q] \in Nat
                             /\ net.con[q] \in Nat /\ hist.began.con[q] \in Nat
<1>1. RouteTypes /\ Asked
  BY Zenon DEF RouteInv
<1>2. \A b : OfBroker(b) \in SUBSET Queue
  BY Zenon DEF OfBroker
<1>3. go.table \in Partial(Queue, Offsets)
  BY <1>1, Zenon DEF RouteTypes, GoRecord
<1>4. Entries \in SUBSET Queue /\ \A q \in Entries : go.table[q] \in Offsets
  BY <1>3, PartialFunction DEF Entries
<1>5. \A q \in Entries : net.brokerOf[q] \in hist.stats
  BY <1>1, Zenon DEF Asked, OfBroker
<1>6. \A b \in hist.stats : OfBroker(b) \subseteq Entries /\ b \in Broker
  BY <1>1, Zenon DEF Asked, RouteTypes, HistRecord
<1>7. \A b \in EntryBrokers : b \in Broker /\ OfBroker(b) \subseteq Entries
  BY <1>5, <1>6, Zenon DEF EntryBrokers
<1>8. \A q \in Queue : /\ net.max[q] \in Nat /\ hist.began.max[q] \in Nat
                       /\ net.con[q] \in Nat /\ hist.began.con[q] \in Nat
  BY <1>1, Zenon DEF RouteTypes, HistRecord, NetRecord
<1>9. IsFiniteSet(Entries) /\ \A b : IsFiniteSet(OfBroker(b))
  BY <1>2, <1>4, FS_Subset, FiniteAssumption, Zenon
<1> QED
  BY <1>2, <1>4, <1>5, <1>7, <1>8, <1>9, Zenon DEF Offsets

\* What SumAt puts for a broker with a master is in the window of its queues.
LEMMA TotalIs ==
  ASSUME RouteInv, NEW b \in EntryBrokers, NEW f, NEW lo, NEW hi,
         \A q \in Entries : f[q] \in Int,
         \A q \in Queue : lo[q] \in Int /\ hi[q] \in Int,
         \A q \in Entries : net.brokerOf[q] = b /\ Master(b) => lo[q] <= f[q] /\ f[q] <= hi[q]
  PROVE  /\ SumAt(f, b) \in Int
         /\ Master(b) => SumAt(f, b) \in
              SumFunctionOnSet(lo, OfBroker(b)) .. SumFunctionOnSet(hi, OfBroker(b))
<1> DEFINE Q == OfBroker(b)
<1>1. IsFiniteSet(Q) /\ Q \subseteq Entries /\ Q \subseteq Queue
  BY OfAnswered, Zenon
<1>2. SumAt(f, b) = SumFunctionOnSet(f, Q)
  <2>1. Entries \cap Q = Q
    BY <1>1, Zenon
  <2> QED
    BY <2>1, Zenon DEF SumAt
<1>3. \A q \in Q : net.brokerOf[q] = b
  BY Zenon DEF OfBroker
<1> HIDE DEF Q
<1>4. \A q \in Q : f[q] \in Int /\ lo[q] \in Int /\ hi[q] \in Int
  BY <1>1, Zenon
<1>5. SumFunctionOnSet(f, Q) \in Int
  <2>1. \A q \in Q : f[q] \in Int /\ f[q] <= f[q]
    BY <1>4
  <2> QED
    BY <1>1, <2>1, SumMonotone, Zenon
<1>6. ASSUME Master(b)
      PROVE  /\ SumFunctionOnSet(lo, Q) \in Int /\ SumFunctionOnSet(hi, Q) \in Int
             /\ SumFunctionOnSet(lo, Q) <= SumFunctionOnSet(f, Q)
             /\ SumFunctionOnSet(f, Q) <= SumFunctionOnSet(hi, Q)
  <2>1. \A q \in Q : lo[q] <= f[q] /\ f[q] <= hi[q]
    BY <1>1, <1>3, <1>6, Zenon
  <2>2. \A q \in Q : lo[q] \in Int /\ f[q] \in Int /\ lo[q] <= f[q]
    BY <1>4, <2>1, Zenon
  <2>3. \A q \in Q : f[q] \in Int /\ hi[q] \in Int /\ f[q] <= hi[q]
    BY <1>4, <2>1, Zenon
  <2>4. SumFunctionOnSet(lo, Q) \in Int /\ SumFunctionOnSet(lo, Q) <= SumFunctionOnSet(f, Q)
    BY <1>1, <2>2, SumMonotone, Zenon
  <2>5. SumFunctionOnSet(hi, Q) \in Int /\ SumFunctionOnSet(f, Q) <= SumFunctionOnSet(hi, Q)
    BY <1>1, <2>3, SumMonotone, Zenon
  <2> QED
    BY <2>4, <2>5, Zenon
<1> QED
  BY <1>2, <1>5, <1>6 DEF Q

\* That of a topic: the sum of the maximum offsets.
LEMMA TopicTotals ==
  ASSUME RouteInv, NEW b \in EntryBrokers
  PROVE  LET v == SumAt([q \in Entries |-> go.table[q].max], b)
         IN  /\ v \in Int
             /\ Master(b) => v \in SumFunctionOnSet(hist.began.max, OfBroker(b))
                                     .. SumFunctionOnSet(net.max, OfBroker(b))
<1> DEFINE f == [q \in Entries |-> go.table[q].max]
           lo == hist.began.max
           hi == net.max
<1>1. \A q \in Entries : f[q] \in Int
  BY OfAnswered
<1>2. \A q \in Queue : lo[q] \in Int /\ hi[q] \in Int
  BY OfAnswered
<1>3. \A q \in Entries : net.brokerOf[q] = b /\ Master(b) => lo[q] <= f[q] /\ f[q] <= hi[q]
  BY Zenon DEF RouteInv, Asked, InWindow
<1> HIDE DEF f, lo, hi
<1>4. /\ SumAt(f, b) \in Int
      /\ Master(b) => SumAt(f, b) \in
           SumFunctionOnSet(lo, OfBroker(b)) .. SumFunctionOnSet(hi, OfBroker(b))
  BY <1>1, <1>2, <1>3, TotalIs, Zenon
<1> QED
  BY <1>4, Zenon DEF f, lo, hi

\* That of a group: the sum of the consumer offsets.
LEMMA GroupTotals ==
  ASSUME RouteInv, NEW b \in EntryBrokers
  PROVE  LET v == SumAt([q \in Entries |-> go.table[q].con], b)
         IN  /\ v \in Int
             /\ Master(b) => v \in SumFunctionOnSet(hist.began.con, OfBroker(b))
                                     .. SumFunctionOnSet(net.con, OfBroker(b))
<1> DEFINE f == [q \in Entries |-> go.table[q].con]
           lo == hist.began.con
           hi == net.con
<1>1. \A q \in Entries : f[q] \in Int
  BY OfAnswered
<1>2. \A q \in Queue : lo[q] \in Int /\ hi[q] \in Int
  BY OfAnswered
<1>3. \A q \in Entries : net.brokerOf[q] = b /\ Master(b) => lo[q] <= f[q] /\ f[q] <= hi[q]
  BY Zenon DEF RouteInv, Asked, InWindow
<1> HIDE DEF f, lo, hi
<1>4. /\ SumAt(f, b) \in Int
      /\ Master(b) => SumAt(f, b) \in
           SumFunctionOnSet(lo, OfBroker(b)) .. SumFunctionOnSet(hi, OfBroker(b))
  BY <1>1, <1>2, <1>3, TotalIs, Zenon
<1> QED
  BY <1>4, Zenon DEF f, lo, hi

\* The lag of the brokers that answered, from the maxima of n and the consumer
\* offsets of o.
Lag(n, o) ==
  SumFunctionOnSet([q \in Queue |-> n.max[q] - o.con[q]],
                   UNION {OfBroker(b) : b \in hist.stats})

\* ComputeTotalDiff is in the window of the lag.
LEMMA DiffIs ==
  ASSUME RouteInv
  PROVE  LET d == SumFunction([q \in Entries |-> go.table[q].max - go.table[q].con])
         IN  /\ d \in Int
             /\ (\A b \in hist.stats : Master(b)) =>
                  d \in Lag(hist.began, net) .. Lag(net, hist.began)
<1> DEFINE f == [q \in Entries |-> go.table[q].max - go.table[q].con]
           lo == [q \in Queue |-> hist.began.max[q] - net.con[q]]
           hi == [q \in Queue |-> net.max[q] - hist.began.con[q]]
<1>1. IsFiniteSet(Entries) /\ Entries \subseteq Queue
  BY OfAnswered, Zenon
<1>2. DOMAIN f = Entries
  BY Zenon
<1>3. \A q \in Entries : f[q] \in Int
  BY OfAnswered
<1>4. \A q \in Entries : lo[q] \in Int /\ hi[q] \in Int
  BY OfAnswered
<1>5. ASSUME \A b \in hist.stats : Master(b), NEW q \in Entries
      PROVE  lo[q] <= f[q] /\ f[q] <= hi[q]
  <2>1. Master(net.brokerOf[q]) /\ InWindow(q)
    BY <1>5, OfAnswered, Zenon DEF RouteInv, Asked
  <2>2. /\ q \in Queue /\ go.table[q].max \in Nat /\ go.table[q].con \in Nat
        /\ net.max[q] \in Nat /\ hist.began.max[q] \in Nat
        /\ net.con[q] \in Nat /\ hist.began.con[q] \in Nat
    BY OfAnswered, Zenon
  <2>3. /\ hist.began.max[q] <= go.table[q].max /\ go.table[q].max <= net.max[q]
        /\ hist.began.con[q] <= go.table[q].con /\ go.table[q].con <= net.con[q]
    BY <2>1, Zenon DEF InWindow
  <2> QED
    BY <2>2, <2>3
<1>6. /\ Lag(hist.began, net) = SumFunctionOnSet(lo, Entries)
      /\ Lag(net, hist.began) = SumFunctionOnSet(hi, Entries)
  BY Zenon DEF Lag, RouteInv, Asked
<1> HIDE DEF f, lo, hi
<1>7. SumFunction(f) = SumFunctionOnSet(f, Entries)
  BY <1>2, SumAll, Zenon
<1>8. SumFunctionOnSet(f, Entries) \in Int
  <2>1. \A q \in Entries : f[q] \in Int /\ f[q] <= f[q]
    BY <1>3
  <2> QED
    BY <1>1, <2>1, SumMonotone, Zenon
<1>9. ASSUME \A b \in hist.stats : Master(b)
      PROVE  SumFunctionOnSet(f, Entries) \in
               SumFunctionOnSet(lo, Entries) .. SumFunctionOnSet(hi, Entries)
  <2>1. \A q \in Entries : lo[q] \in Int /\ f[q] \in Int /\ lo[q] <= f[q]
    BY <1>3, <1>4, <1>5, <1>9, Zenon
  <2>2. \A q \in Entries : f[q] \in Int /\ hi[q] \in Int /\ f[q] <= hi[q]
    BY <1>3, <1>4, <1>5, <1>9, Zenon
  <2>3. /\ SumFunctionOnSet(lo, Entries) \in Int
        /\ SumFunctionOnSet(lo, Entries) <= SumFunctionOnSet(f, Entries)
    BY <1>1, <2>1, SumMonotone, Zenon
  <2>4. /\ SumFunctionOnSet(hi, Entries) \in Int
        /\ SumFunctionOnSet(f, Entries) <= SumFunctionOnSet(hi, Entries)
    BY <1>1, <2>2, SumMonotone, Zenon
  <2> QED
    BY <1>8, <2>3, <2>4
<1> QED
  BY <1>6, <1>7, <1>8, <1>9, Zenon DEF f

\* TotalsInWindow with its parts named.
LEMMA TotalsAre ==
  TotalsInWindow <=>
    /\ \A b \in DOMAIN sample.total :
         Master(b) =>
           sample.total[b] \in
             SumFunctionOnSet(IF go.fn = "topic" THEN hist.began.max ELSE hist.began.con,
                              OfBroker(b))
             .. SumFunctionOnSet(IF go.fn = "topic" THEN net.max ELSE net.con, OfBroker(b))
    /\ (\A b \in hist.stats : Master(b)) =>
         sample.diff \subseteq Lag(hist.began, net) .. Lag(net, hist.began)
  BY Zenon DEF TotalsInWindow, Master, Lag

\* AddTopicOffsetMetric keeps the invariant.
LEMMA PutTopicOffsetsInv ==
  ASSUME RouteInv, PutTopicOffsets
  PROVE  RouteInv'
<1> DEFINE T == [b \in EntryBrokers |-> SumAt([q \in Entries |-> go.table[q].max], b)]
<1>1. /\ RouteTypes /\ UNCHANGED <<net, hist>> /\ go.at = "stats" /\ go.fn = "topic"
      /\ sample' = [sample EXCEPT !.total = T] /\ go' = [go EXCEPT !.at = "end"]
  BY Zenon DEF RouteInv, PutTopicOffsets
<1>2. ASSUME NEW b \in EntryBrokers
      PROVE  /\ T[b] \in Int
             /\ Master(b) => T[b] \in SumFunctionOnSet(hist.began.max, OfBroker(b))
                                     .. SumFunctionOnSet(net.max, OfBroker(b))
  BY TopicTotals, Zenon
<1>3. DOMAIN T = EntryBrokers /\ T \in Partial(Broker, Int)
  <2>1. T \in [EntryBrokers -> Int]
    BY <1>2, Zenon
  <2>2. EntryBrokers \in SUBSET Broker
    BY OfAnswered, Zenon
  <2> QED
    BY <2>1, <2>2, Zenon DEF Partial
<1> HIDE DEF T
<1>4. /\ go' \in GoRecord /\ go'.at = "end" /\ go'.fn = "topic" /\ go'.table = go.table
  BY <1>1, Zenon DEF RouteTypes, GoRecord
<1>5. /\ sample' \in SampleRecord /\ sample'.count = sample.count
      /\ sample'.diff = sample.diff /\ sample'.total = T
      /\ sample'.latency = sample.latency
  BY <1>1, <1>3, Zenon DEF RouteTypes, SampleRecord
<1>6. RouteTypes' /\ Grown(hist.began, net)'
  BY <1>1, <1>4, <1>5, Zenon DEF RouteInv, RouteTypes, Grown
<1>7. Connected' /\ Pulls'
  BY <1>4, Zenon DEF Connected, Pulls
<1>8. Entries' = Entries /\ (\A b : OfBroker(b)' = OfBroker(b))
      /\ (\A b : Master(b)' = Master(b)) /\ sample.diff = {} /\ DOMAIN sample.latency = {}
  BY <1>1, <1>4, Zenon DEF RouteInv, Asked, Pulls, Entries, OfBroker, Master
<1>9. Asked'
  <2>1. \A q \in Entries : InWindow(q)'
    BY <1>1, <1>4 DEF RouteInv, Asked, InWindow, Master
  <2> QED
    BY <1>1, <1>4, <1>8, <2>1, Zenon DEF RouteInv, Asked
<1>10. CountsClientsOnce'
  BY <1>1, <1>5, Zenon DEF RouteInv, CountsClientsOnce, Connections
<1>11. TotalsInWindow'
  BY <1>1, <1>2, <1>3, <1>4, <1>5, <1>8, Zenon DEF TotalsInWindow, Master
<1>12. LatencyOfOldest'
  BY <1>5, <1>8, Zenon DEF LatencyOfOldest
<1> QED
  BY <1>6, <1>7, <1>9, <1>10, <1>11, <1>12, Zenon DEF RouteInv

\* AddGroupDiffMetric and AddGroupBrokerTotalOffsetMetric keep it.
LEMMA PutConsumerOffsetsInv ==
  ASSUME RouteInv, PutConsumerOffsets
  PROVE  RouteInv'
<1> DEFINE T == [b \in EntryBrokers |-> SumAt([q \in Entries |-> go.table[q].con], b)]
           d == SumFunction([q \in Entries |-> go.table[q].max - go.table[q].con])
<1>1. CASE Entries = {}
  BY <1>1, EndInv, Zenon DEF PutConsumerOffsets
<1>2. CASE Entries # {}
  <2>1. /\ RouteTypes /\ UNCHANGED <<net, hist>> /\ go.at = "stats" /\ go.fn = "pair"
        /\ sample' = [sample EXCEPT !.diff = {d}, !.total = T]
        /\ go' = [go EXCEPT !.at = "pull", !.left = Pullable]
    BY <1>2, Zenon DEF RouteInv, PutConsumerOffsets, Pullable
  <2>2. ASSUME NEW b \in EntryBrokers
        PROVE  /\ T[b] \in Int
               /\ Master(b) => T[b] \in SumFunctionOnSet(hist.began.con, OfBroker(b))
                                       .. SumFunctionOnSet(net.con, OfBroker(b))
    BY GroupTotals, Zenon
  <2>3. DOMAIN T = EntryBrokers /\ T \in Partial(Broker, Int)
    <3>1. T \in [EntryBrokers -> Int]
      BY <2>2, Zenon
    <3>2. EntryBrokers \in SUBSET Broker
      BY OfAnswered, Zenon
    <3> QED
      BY <3>1, <3>2, Zenon DEF Partial
  <2>4. /\ d \in Int
        /\ (\A b \in hist.stats : Master(b)) =>
             d \in Lag(hist.began, net) .. Lag(net, hist.began)
    BY DiffIs, Zenon
  <2> HIDE DEF T, d
  <2>5. Pullable \in SUBSET Queue
    BY OfAnswered, Zenon DEF Pullable
  <2>6. /\ go' \in GoRecord /\ go'.at = "pull" /\ go'.fn = "pair" /\ go'.table = go.table
        /\ go'.left = Pullable /\ go'.minOffset = go.minOffset
        /\ go'.latencyMap = go.latencyMap
    BY <2>1, <2>5, Zenon DEF RouteTypes, GoRecord
  <2>7. /\ sample' \in SampleRecord /\ sample'.count = sample.count
        /\ sample'.diff = {d} /\ sample'.total = T
        /\ sample'.latency = sample.latency
    BY <2>1, <2>3, <2>4, Zenon DEF RouteTypes, SampleRecord
  <2>8. RouteTypes' /\ Grown(hist.began, net)'
    BY <2>1, <2>6, <2>7, Zenon DEF RouteInv, RouteTypes, Grown
  <2>9. Connected'
    BY <2>6, Zenon DEF Connected
  <2>10. /\ Entries' = Entries /\ (\A b : OfBroker(b)' = OfBroker(b))
         /\ (\A b : Master(b)' = Master(b)) /\ DOMAIN sample.latency = {}
         /\ DOMAIN go.latencyMap = {} /\ go.minOffset = {}
    BY <2>1, <2>6, Zenon DEF RouteInv, Pulls, Entries, OfBroker, Master
  <2>11. Pullable' = Pullable
    BY <2>1, <2>10, Zenon DEF Pullable
  <2>12. Asked'
    <3>1. \A q \in Entries : InWindow(q)'
      BY <2>1, <2>6 DEF RouteInv, Asked, InWindow, Master
    <3> QED
      BY <2>1, <2>6, <2>10, <3>1, Zenon DEF RouteInv, Asked
  <2>13. Pulls'
    <3>1. {net.brokerOf[q] : q \in Pullable \ Pullable} = {}
      BY Zenon
    <3> QED
      BY <2>1, <2>6, <2>7, <2>10, <2>11, <3>1, Zenon DEF Pulls
  <2>14. CountsClientsOnce'
    BY <2>1, <2>7, Zenon DEF RouteInv, CountsClientsOnce, Connections
  <2>15. TotalsInWindow'
    <3>1. Lag(hist.began, net)' = Lag(hist.began, net)
          /\ Lag(net, hist.began)' = Lag(net, hist.began)
      BY <2>1, <2>10, Zenon DEF Lag
    <3>2. \A b \in DOMAIN sample'.total : Master(b) =>
            sample'.total[b] \in SumFunctionOnSet(hist'.began.con, OfBroker(b)')
                                   .. SumFunctionOnSet(net'.con, OfBroker(b)')
      BY <2>1, <2>2, <2>3, <2>7, <2>10, Zenon
    <3>3. (\A b \in hist.stats : Master(b)) => sample'.diff \subseteq
            Lag(hist.began, net)' .. Lag(net, hist.began)'
      BY <2>4, <2>7, <3>1, Zenon
    <3> QED
      BY <2>1, <2>6, <2>10, <3>2, <3>3, Zenon DEF TotalsInWindow, Master, Lag
  <2>16. LatencyOfOldest'
    BY <2>7, <2>10, Zenon DEF LatencyOfOldest
  <2> QED
    BY <2>8, <2>9, <2>12, <2>13, <2>14, <2>15, <2>16, Zenon DEF RouteInv
<1> QED
  BY <1>1, <1>2, Zenon

-----------------------------------------------------------------------------
(* The pulls.                                                              *)

\* A pull leaves what is stored, and what it rests on, as it is.
LEMMA PullKept ==
  ASSUME RouteInv, go.at = "pull", go'.at = "pull", UNCHANGED <<net, sample>>,
         go'.fn = go.fn, go'.table = go.table,
         hist'.began = hist.began, hist'.conn = hist.conn, hist'.stats = hist.stats
  PROVE  /\ Grown(hist.began, net)' /\ Connected' /\ Asked'
         /\ CountsClientsOnce' /\ TotalsInWindow' /\ LatencyOfOldest'
         /\ Pullable' = Pullable /\ (\A b : OfBroker(b)' = OfBroker(b))
         /\ (\A b : Master(b)' = Master(b))
         /\ (\A q, v : AtLeast(q, v)' = AtLeast(q, v) /\ AtMost(q, v)' = AtMost(q, v))
         /\ DOMAIN sample'.latency = {}
<1>1. Grown(hist.began, net)' /\ Connected' /\ CountsClientsOnce'
  BY Zenon DEF RouteInv, Grown, Connected, CountsClientsOnce, Connections
<1>2. Entries' = Entries /\ (\A b : OfBroker(b)' = OfBroker(b))
      /\ (\A b : Master(b)' = Master(b))
  BY Zenon DEF Entries, OfBroker, Master
<1>3. Pullable' = Pullable
  BY <1>2, Zenon DEF Pullable
<1>4. \A q \in Entries : InWindow(q)'
  BY DEF RouteInv, Asked, InWindow, Master
<1>5. Asked'
  BY <1>2, <1>4, Zenon DEF RouteInv, Asked
<1>6. DOMAIN sample'.latency = {}
  BY Zenon DEF RouteInv, Pulls
<1>7. LatencyOfOldest'
  BY <1>6, Zenon DEF LatencyOfOldest
<1>8. TotalsInWindow'
  <2>1. TotalsInWindow
    BY Zenon DEF RouteInv
  <2>2. Lag(hist.began, net)' = Lag(hist.began, net)
        /\ Lag(net, hist.began)' = Lag(net, hist.began)
    BY <1>2, Zenon DEF Lag
  <2> QED
    BY <1>2, <2>1, <2>2, Zenon DEF TotalsInWindow, Lag
<1>9. \A q : Oldest(net, q)' = Oldest(net, q) /\ Oldest(hist.began, q)' = Oldest(hist.began, q)
  BY Zenon DEF Oldest
<1>10. \A q, v : AtLeast(q, v)' = AtLeast(q, v)
  BY <1>9, Zenon DEF AtLeast
<1>11. \A q, v : AtMost(q, v)' = AtMost(q, v)
  BY <1>9, Zenon DEF AtMost
<1> QED
  BY <1>1, <1>2, <1>3, <1>5, <1>6, <1>7, <1>8, <1>10, <1>11, Zenon

\* The latency that a broker has in the map so far.
Current(b) == IF b \in DOMAIN go.latencyMap THEN go.latencyMap[b] ELSE 0

\* What Raised leaves in the map.
RaisedTo(L, b, lag) ==
  /\ DOMAIN L = {b} \cup DOMAIN go.latencyMap
  /\ L \in [DOMAIN L -> Int]
  /\ L[b] = IF lag < Current(b) THEN Current(b) ELSE lag
  /\ \A c \in DOMAIN go.latencyMap : c # b => L[c] = go.latencyMap[c]

\* Raised sets one broker's latency to the larger of two and keeps the others.
LEMMA RaisedIs ==
  ASSUME NEW b, NEW lag \in Int, \A c \in DOMAIN go.latencyMap : go.latencyMap[c] \in Int
  PROVE  RaisedTo(Raised(b, lag), b, lag)
<1> DEFINE cur == Current(b)
           v == Max({lag, cur})
           L == Raised(b, lag)
<1>1. cur \in Int
  BY DEF Current
<1> HIDE DEF cur
<1>2. v = IF lag < cur THEN cur ELSE lag
  BY <1>1, MaxOfTwo, Zenon
<1>3. v \in Int
  BY <1>1, <1>2, Zenon
<1>4. L = [c \in {b} \cup DOMAIN go.latencyMap |-> IF c = b THEN v ELSE go.latencyMap[c]]
  BY Zenon DEF Raised, WithLatency, cur, Current
<1> HIDE DEF v, L
<1>5. /\ DOMAIN L = {b} \cup DOMAIN go.latencyMap
      /\ L[b] = v
      /\ \A c \in DOMAIN go.latencyMap : c # b => L[c] = go.latencyMap[c]
      /\ L = [c \in DOMAIN L |-> L[c]]
  BY <1>4, Zenon
<1>6. \A c \in DOMAIN L : L[c] \in Int
  BY <1>3, <1>5, Zenon
<1>7. L \in [DOMAIN L -> Int]
  BY <1>5, <1>6, Zenon
<1> QED
  BY <1>2, <1>5, <1>7, Zenon DEF L, cur, RaisedTo

\* A larger latency is no shorter either.
LEMMA AtLeastMore ==
  ASSUME RouteTypes, Grown(hist.began, net), NEW q \in Queue, NEW v \in Int, NEW w \in Int,
         v <= w, AtLeast(q, v)
  PROVE  AtLeast(q, w)
<1> SUFFICES ASSUME Oldest(net, q) < hist.began.max[q]
             PROVE  Now - Stamp[q][Oldest(net, q)] <= w
  BY Zenon DEF AtLeast
<1> DEFINE o == Oldest(net, q)
           t == Stamp[q][o]
<1>1. /\ o \in Nat /\ net.max[q] \in Nat /\ hist.began.max[q] \in Nat
      /\ hist.began.max[q] <= net.max[q] /\ net.max[q] <= MaxOffset
  BY OldestIs, Zenon DEF RouteTypes, HistRecord, Grown
<1> HIDE DEF o
<1>2. o <= o /\ o <= MaxOffset
  BY <1>1, OffsetAssumption DEF o
<1>3. t \in Nat
  BY <1>1, <1>2, StampsAre, Zenon
<1>4. Now - t <= v
  BY Zenon DEF AtLeast, o
<1> HIDE DEF t
<1>5. Now \in Nat
  BY OffsetAssumption, Zenon
<1>6. Now - t <= w
  BY <1>3, <1>4, <1>5
<1> QED
  BY <1>6, Zenon DEF o, t

\* What the last pull of a queue makes of its lag.
Fits(q, res, lag) ==
  Master(net.brokerOf[q]) =>
    /\ res.status \in {"FOUND", "NO_NEW_MSG"} => AtLeast(q, lag)
    /\ ~ (res.status = "FOUND" /\ res.value = 0) /\ 0 < lag => AtMost(q, lag)

\* A queue that is done with keeps the invariant, if the lag it was given fits.
LEMMA PulledInv ==
  ASSUME RouteInv, go.at = "pull", NEW q \in go.left, NEW lag \in Int, NEW res,
         Pulled(q, res, lag), UNCHANGED <<net, sample>>, Fits(q, res, lag)
  PROVE  RouteInv'
<1> DEFINE b == net.brokerOf[q]
           L == Raised(b, lag)
           M == go.latencyMap
           cur == Current(b)
           ok == res.status \in {"FOUND", "NO_NEW_MSG"}
           void == res.status = "FOUND" /\ res.value = 0
<1>1. /\ RouteTypes /\ go' = [go EXCEPT !.left = @ \ {q}, !.minOffset = {}, !.latencyMap = L]
      /\ hist' = [hist EXCEPT !.missed = IF ok THEN @ ELSE @ \cup {q},
                              !.blank = IF void THEN @ \cup {q} ELSE @]
  BY Zenon DEF RouteInv, Pulled
<1>2. /\ go.left \subseteq Pullable
      /\ DOMAIN M = {net.brokerOf[r] : r \in Pullable \ go.left}
      /\ \A c \in DOMAIN M : SoFar(c)
  BY Zenon DEF RouteInv, Pulls
<1>3. q \in Queue /\ q \in Pullable /\ b \in Broker
  <2>1. q \in Pullable
    BY <1>2, Zenon
  <2>2. q \in Queue
    BY <2>1, OfAnswered, Zenon DEF Pullable
  <2> QED
    BY <1>1, <2>1, <2>2, Zenon DEF RouteTypes, NetRecord
<1>4. DOMAIN M \subseteq Broker /\ \A c \in DOMAIN M : M[c] \in Int
  <2>1. M \in Partial(Broker, Int)
    BY <1>1, Zenon DEF RouteTypes, GoRecord
  <2> QED
    BY <2>1, PartialFunction, Zenon
<1>5. /\ DOMAIN L = {b} \cup DOMAIN M
      /\ L \in [DOMAIN L -> Int]
      /\ L[b] = IF lag < cur THEN cur ELSE lag
      /\ \A c \in DOMAIN M : c # b => L[c] = M[c]
  <2> HIDE DEF b
  <2>1. \A c \in DOMAIN go.latencyMap : go.latencyMap[c] \in Int
    BY <1>4, Zenon
  <2>2. RaisedTo(Raised(b, lag), b, lag)
    BY <2>1, RaisedIs, Zenon
  <2> QED
    BY <2>2, Zenon DEF RaisedTo
<1> HIDE DEF L
<1>6. L \in Partial(Broker, Int)
  <2>1. DOMAIN L \subseteq Broker
    BY <1>3, <1>4, <1>5, Zenon
  <2> QED
    BY <1>5, <2>1, PartialFunction, Zenon
<1>7. /\ go' \in GoRecord /\ go'.at = "pull" /\ go'.fn = go.fn /\ go'.table = go.table
      /\ go'.left = go.left \ {q} /\ go'.minOffset = {} /\ go'.latencyMap = L
  BY <1>1, <1>6, Zenon DEF RouteTypes, GoRecord
<1>8. /\ hist' \in HistRecord /\ hist'.began = hist.began /\ hist'.conn = hist.conn
      /\ hist'.stats = hist.stats
      /\ hist.missed \subseteq hist'.missed /\ hist.blank \subseteq hist'.blank
      /\ q \notin hist'.missed => ok
      /\ q \notin hist'.blank => ~ void
  <2> HIDE DEF ok, void
  <2> DEFINE A == IF ok THEN hist.missed ELSE hist.missed \cup {q}
             B == IF void THEN hist.blank \cup {q} ELSE hist.blank
  <2>1. hist' = [hist EXCEPT !.missed = A, !.blank = B]
    BY <1>1, Zenon
  <2>2. /\ A \in SUBSET Queue /\ B \in SUBSET Queue
        /\ hist.missed \subseteq A /\ hist.blank \subseteq B
        /\ q \notin A => ok
        /\ q \notin B => ~ void
    BY <1>1, <1>3, Zenon DEF RouteTypes, HistRecord
  <2> HIDE DEF A, B
  <2>3. /\ hist' \in HistRecord /\ hist'.began = hist.began /\ hist'.conn = hist.conn
        /\ hist'.stats = hist.stats /\ hist'.missed = A /\ hist'.blank = B
    BY <1>1, <2>1, <2>2, Zenon DEF RouteTypes, HistRecord
  <2> QED
    BY <2>2, <2>3, Zenon
<1>9. Master(b) => (ok => AtLeast(q, lag)) /\ (~ void /\ 0 < lag => AtMost(q, lag))
  BY Zenon DEF Fits
<1> HIDE DEF ok, void
<1>10. /\ Grown(hist.began, net)' /\ Connected' /\ Asked'
       /\ CountsClientsOnce' /\ TotalsInWindow' /\ LatencyOfOldest'
       /\ Pullable' = Pullable /\ (\A c : OfBroker(c)' = OfBroker(c))
       /\ (\A c : Master(c)' = Master(c))
       /\ (\A r, v : AtLeast(r, v)' = AtLeast(r, v) /\ AtMost(r, v)' = AtMost(r, v))
       /\ DOMAIN sample'.latency = {}
  BY <1>7, <1>8, PullKept, Zenon
<1>11. RouteTypes'
  BY <1>1, <1>7, <1>8, Zenon DEF RouteTypes
<1>12. DOMAIN L = {net.brokerOf[r] : r \in Pullable \ (go.left \ {q})}
  BY <1>2, <1>3, <1>5, Zenon
<1>13. ASSUME NEW c \in DOMAIN L, Master(c)
       PROVE  /\ 0 <= L[c]
              /\ \A r \in Pullable \ (go.left \ {q}) :
                   net.brokerOf[r] = c /\ r \notin hist'.missed => AtLeast(r, L[c])
              /\ OfBroker(c) \cap hist'.blank = {} /\ L[c] # 0 =>
                   \E r \in OfBroker(c) : AtMost(r, L[c])
  <2>1. CASE c # b
    <3>1. c \in DOMAIN M /\ L[c] = M[c] /\ SoFar(c)
      BY <1>2, <1>5, <2>1, Zenon
    <3>2. \A r \in Pullable \ (go.left \ {q}) : net.brokerOf[r] = c => r \in Pullable \ go.left
      BY <2>1, Zenon
    <3>3. OfBroker(c) \cap hist'.blank = {} => OfBroker(c) \cap hist.blank = {}
      BY <1>8, Zenon
    <3> QED
      BY <1>8, <1>13, <3>1, <3>2, <3>3, Zenon DEF SoFar
  <2>2. CASE c = b
    <3>1. q \in OfBroker(b) /\ Master(b)
      BY <1>3, <1>13, <2>2, Zenon DEF OfBroker
    <3>2. /\ cur \in Int /\ 0 <= cur
          /\ OfBroker(b) \cap hist.blank = {} /\ cur # 0 =>
               \E r \in OfBroker(b) : AtMost(r, cur)
      <4>1. CASE b \in DOMAIN M
        BY <1>2, <1>4, <3>1, <4>1, Zenon DEF SoFar, Current
      <4>2. CASE b \notin DOMAIN M
        BY <4>2 DEF Current
      <4> QED
        BY <4>1, <4>2, Zenon
    <3>3. ASSUME NEW r \in Pullable \ go.left, net.brokerOf[r] = b, r \notin hist.missed
          PROVE  AtLeast(r, cur)
      <4>1. b \in DOMAIN M
        BY <1>2, <3>3, Zenon
      <4>2. SoFar(b)
        BY <1>2, <4>1, Zenon
      <4> QED
        BY <3>1, <3>3, <4>1, <4>2, Zenon DEF SoFar, Current
    <3> HIDE DEF cur, b
    <3>4. /\ 0 <= L[b] /\ lag <= L[b] /\ cur <= L[b] /\ L[b] \in Int
          /\ L[b] # 0 => (L[b] = lag /\ 0 < lag) \/ (L[b] = cur /\ cur # 0)
      BY <1>5, <3>2
    <3>5. ASSUME NEW r \in Pullable \ (go.left \ {q}), net.brokerOf[r] = b,
                 r \notin hist'.missed
          PROVE  AtLeast(r, L[b])
      <4>0. Grown(hist.began, net) /\ r \in Queue
        BY OfAnswered, Zenon DEF RouteInv, Pullable
      <4>1. CASE r = q
        <5>1. AtLeast(q, lag)
          BY <1>8, <1>9, <3>1, <3>5, <4>1, Zenon
        <5> QED
          BY <1>1, <3>4, <4>0, <4>1, <5>1, AtLeastMore, Zenon
      <4>2. CASE r # q
        <5>1. AtLeast(r, cur)
          BY <1>8, <3>3, <3>5, <4>2, Zenon
        <5> QED
          BY <1>1, <3>2, <3>4, <4>0, <5>1, AtLeastMore, Zenon
      <4> QED
        BY <4>1, <4>2, Zenon
    <3>6. ASSUME OfBroker(b) \cap hist'.blank = {}, L[b] # 0
          PROVE  \E r \in OfBroker(b) : AtMost(r, L[b])
      <4>1. CASE L[b] = lag /\ 0 < lag
        BY <1>8, <1>9, <3>1, <3>6, <4>1, Zenon
      <4>2. CASE L[b] = cur /\ cur # 0
        BY <1>8, <3>2, <3>6, <4>2, Zenon
      <4> QED
        BY <3>4, <3>6, <4>1, <4>2, Zenon
    <3> QED
      BY <2>2, <3>4, <3>5, <3>6, Zenon
  <2> QED
    BY <2>1, <2>2, Zenon
<1>14. \A c \in DOMAIN L : SoFar(c)'
  BY <1>7, <1>8, <1>10, <1>13, Zenon DEF SoFar
<1>15. Pulls'
  BY <1>2, <1>7, <1>10, <1>12, <1>14, Zenon DEF Pulls
<1> QED
  BY <1>10, <1>11, <1>15, Zenon DEF RouteInv

\* What a pull at offset o gives.
Given(q, o, res) ==
  /\ res.value \in Nat
  /\ res.status = "OFFSET_ILLEGAL" => o < net.min[q] /\ res.value <= net.min[q]
  /\ res.status = "FOUND" => /\ net.min[q] <= o /\ o < net.max[q]
                             /\ res.value = 0 \/ res.value = Stamp[q][o]
  /\ res.status = "NO_NEW_MSG" => net.min[q] <= o /\ net.max[q] <= o

\* Whatever the broker answers.
LEMMA AnswerIs ==
  ASSUME RouteTypes, NEW q \in Queue, NEW o \in Nat, NEW a \in PullAnswers(q, o)
  PROVE  Given(q, o, QueryMsgByOffset(a))
<1> DEFINE res == QueryMsgByOffset(a)
           t == Stamp[q][o]
<1>1. net.min[q] \in Nat /\ net.max[q] \in Nat /\ net.max[q] <= MaxOffset
  BY Zenon DEF RouteTypes, NetRecord
<1>2. /\ pullStatusFromCode(0) = "FOUND" /\ pullStatusFromCode(19) = "NO_NEW_MSG"
      /\ pullStatusFromCode(20) = "NO_MATCHED_MSG"
      /\ pullStatusFromCode(21) = "OFFSET_ILLEGAL" /\ pullStatusFromCode(1) = "UNKNOWN"
  BY DEF pullStatusFromCode
<1>3. /\ res.status = pullStatusFromCode(a[1])
      /\ res.value = IF Len(a) = 2 THEN a[2] ELSE 0
  BY Zenon DEF QueryMsgByOffset
<1> HIDE DEF res
<1>4. CASE o < net.min[q]
  <2>1. a \in {<<21, net.min[q]>>, <<21>>, <<20>>, <<1>>}
    BY <1>4 DEF PullAnswers, PullAnswer
  <2>2. res.status \in {"OFFSET_ILLEGAL", "NO_MATCHED_MSG", "UNKNOWN"} /\ res.value \in {0, net.min[q]}
    BY <1>2, <1>3, <2>1
  <2> QED
    BY <1>1, <1>4, <2>2 DEF Given, res
<1>5. CASE ~ o < net.min[q] /\ o < net.max[q]
  <2>1. t \in Nat
    BY <1>1, <1>5, StampsAre, OffsetAssumption
  <2> HIDE DEF t
  <2>2. PullAnswer(q, o) = <<0, t>>
    BY <1>5, Zenon DEF PullAnswer, t
  <2>3. a \in {<<0, t>>, <<0>>, <<20>>, <<1>>}
    BY <2>2 DEF PullAnswers
  <2>4. res.status \in {"FOUND", "NO_MATCHED_MSG", "UNKNOWN"} /\ res.value \in {0, t}
    BY <1>2, <1>3, <2>3
  <2>5. net.min[q] <= o
    BY <1>1, <1>5
  <2> QED
    BY <1>5, <2>1, <2>4, <2>5 DEF Given, res, t
<1>6. CASE ~ o < net.min[q] /\ ~ o < net.max[q]
  <2>1. PullAnswer(q, o) = <<19>>
    BY <1>6, Zenon DEF PullAnswer
  <2>2. a \in {<<19>>, <<20>>, <<1>>}
    BY <2>1 DEF PullAnswers
  <2>3. res.status \in {"NO_NEW_MSG", "NO_MATCHED_MSG", "UNKNOWN"} /\ res.value = 0
    BY <1>2, <1>3, <2>2
  <2>4. net.min[q] <= o /\ net.max[q] <= o
    BY <1>1, <1>6
  <2> QED
    BY <2>3, <2>4 DEF Given, res
<1> QED
  BY <1>4, <1>5, <1>6, Zenon

\* The window of a queue whose master was asked, and the oldest messages.
Window(q) ==
  LET e == go.table[q]
      n == hist.began
  IN  /\ e.max \in Nat /\ e.con \in Nat
      /\ net.max[q] \in Nat /\ net.con[q] \in Nat /\ net.min[q] \in Nat
      /\ n.max[q] \in Nat /\ n.con[q] \in Nat /\ n.min[q] \in Nat
      /\ n.max[q] <= net.max[q] /\ n.min[q] <= net.min[q] /\ net.max[q] <= MaxOffset
      /\ Oldest(net, q) = IF net.con[q] < net.min[q] THEN net.min[q] ELSE net.con[q]
      /\ Oldest(n, q) = IF n.con[q] < n.min[q] THEN n.min[q] ELSE n.con[q]
      /\ Master(net.brokerOf[q]) => /\ n.max[q] <= e.max /\ e.max <= net.max[q]
                                    /\ n.con[q] <= e.con /\ e.con <= net.con[q]

\* It holds of every entry.
LEMMA WindowIs ==
  ASSUME RouteInv, NEW q \in Entries
  PROVE  q \in Queue /\ Window(q)
<1>1. q \in Queue /\ go.table[q].max \in Nat /\ go.table[q].con \in Nat
  BY OfAnswered, Zenon
<1>2. net \in NetRecord /\ hist.began \in NetRecord /\ net.max[q] <= MaxOffset
  BY <1>1, Zenon DEF RouteInv, RouteTypes, HistRecord
<1>3. hist.began.max[q] <= net.max[q] /\ hist.began.min[q] <= net.min[q]
  BY <1>1, Zenon DEF RouteInv, Grown
<1>4. InWindow(q)
  BY Zenon DEF RouteInv, Asked
<1> QED
  BY <1>1, <1>2, <1>3, <1>4, OldestIs, Zenon DEF Window, InWindow

\* The oldest unread message now is not before the offset of an entry, and the
\* one at first was not behind it.
LEMMA OldestWithin ==
  ASSUME NEW q, Window(q), Master(net.brokerOf[q])
  PROVE  /\ Oldest(net, q) \in Nat /\ Oldest(hist.began, q) \in Nat
         /\ net.min[q] <= Oldest(net, q) /\ go.table[q].con <= Oldest(net, q)
         /\ \A o \in Nat : net.min[q] <= o /\ go.table[q].con <= o =>
              Oldest(hist.began, q) <= o
<1> DEFINE min == net.min[q]
           con == net.con[q]
           min0 == hist.began.min[q]
           con0 == hist.began.con[q]
           mid == go.table[q].con
           p == Oldest(net, q)
           r == Oldest(hist.began, q)
<1>1. /\ {min, con, min0, con0, mid} \subseteq Nat
      /\ min0 <= min /\ con0 <= mid /\ mid <= con
      /\ p = IF con < min THEN min ELSE con
      /\ r = IF con0 < min0 THEN min0 ELSE con0
  BY Zenon DEF Window
<1> HIDE DEF min, con, min0, con0, mid, p, r
<1>2. /\ p \in Nat /\ r \in Nat /\ min <= p /\ mid <= p
      /\ \A o \in Nat : min <= o /\ mid <= o => r <= o
  BY <1>1
<1> QED
  BY <1>2, Zenon DEF min, mid, p, r

\* The wait of the message that was pulled fits: it is not older than the oldest
\* at first, nor younger than the oldest now.
LEMMA FoundFits ==
  ASSUME NEW q \in Queue, Window(q), Master(net.brokerOf[q]), NEW o \in Nat,
         net.min[q] <= o, go.table[q].con <= o, o < net.max[q],
         o = go.table[q].con \/ o = net.min[q]
  PROVE  AtLeast(q, Now - Stamp[q][o]) /\ AtMost(q, Now - Stamp[q][o])
<1> DEFINE p == Oldest(net, q)
           r == Oldest(hist.began, q)
<1>1. /\ p \in Nat /\ r \in Nat /\ o <= p /\ r <= o
      /\ o <= MaxOffset /\ hist.began.max[q] <= MaxOffset /\ r < net.max[q]
  <2>1. /\ p \in Nat /\ r \in Nat /\ o <= p /\ r <= o
    BY OldestWithin, Zenon
  <2> DEFINE max == net.max[q]
             max0 == hist.began.max[q]
  <2>2. /\ max \in Nat /\ max0 \in Nat /\ MaxOffset \in Nat
        /\ o < max /\ max0 <= max /\ max <= MaxOffset
    BY OffsetAssumption, Zenon DEF Window
  <2> HIDE DEF p, r, max, max0
  <2>3. o <= MaxOffset /\ max0 <= MaxOffset /\ r < max
    BY <2>1, <2>2
  <2> QED
    BY <2>1, <2>3, Zenon DEF max, max0
<1>2. hist.began.max[q] \in Nat
  BY Zenon DEF Window
<1>3. Now \in Nat /\ MaxOffset \in Nat
  BY OffsetAssumption
<1> HIDE DEF p, r
<1>4. AtMost(q, Now - Stamp[q][o])
  <2>1. Stamp[q][r] \in Nat /\ Stamp[q][o] \in Nat /\ Stamp[q][r] <= Stamp[q][o]
    BY <1>1, StampsAre
  <2>2. Now - Stamp[q][o] <= Now - Stamp[q][r]
    BY <1>3, <2>1
  <2> QED
    BY <1>1, <2>2, Zenon DEF AtMost, r
<1>5. AtLeast(q, Now - Stamp[q][o])
  <2>1. ASSUME p < hist.began.max[q]
        PROVE  Now - Stamp[q][p] <= Now - Stamp[q][o]
    <3>1. p <= MaxOffset
      BY <1>1, <1>2, <1>3, <2>1
    <3>2. Stamp[q][p] \in Nat /\ Stamp[q][o] \in Nat /\ Stamp[q][o] <= Stamp[q][p]
      BY <1>1, <3>1, StampsAre
    <3> QED
      BY <1>3, <3>2
  <2> QED
    BY <2>1, Zenon DEF AtLeast, p
<1> QED
  BY <1>4, <1>5, Zenon

\* A message without a store timestamp waits the longest.
LEMMA BlankFits ==
  ASSUME NEW q \in Queue, Window(q)
  PROVE  AtLeast(q, Now)
<1> DEFINE p == Oldest(net, q)
<1>1. p \in Nat /\ hist.began.max[q] \in Nat /\ hist.began.max[q] <= MaxOffset
  BY OffsetAssumption DEF Window
<1>2. Now \in Nat /\ MaxOffset \in Nat
  BY OffsetAssumption
<1> HIDE DEF p
<1>3. ASSUME p < hist.began.max[q] PROVE Now - Stamp[q][p] <= Now
  <2>1. p <= MaxOffset /\ p <= p
    BY <1>1, <1>2, <1>3
  <2>2. Stamp[q][p] \in Nat
    BY <1>1, <2>1, StampsAre, Zenon
  <2> QED
    BY <1>2, <2>2
<1> QED
  BY <1>3, Zenon DEF AtLeast, p

\* The first pull keeps it.
LEMMA PullInv ==
  ASSUME RouteInv, NEW q \in Queue, Pull(q)
  PROVE  RouteInv'
<1> DEFINE e == go.table[q]
<1>1. RouteTypes /\ go.at = "pull" /\ q \in go.left /\ UNCHANGED <<net, sample>>
  BY Zenon DEF RouteInv, Pull
<1>2. q \in Pullable /\ q \in Entries /\ e.max \in Nat /\ e.con \in Nat
  <2>1. q \in Pullable
    BY <1>1, Zenon DEF RouteInv, Pulls
  <2> QED
    BY <2>1, OfAnswered, Zenon DEF Pullable
<1>3. PICK a \in PullAnswers(q, e.con) :
        LET res == QueryMsgByOffset(a)
        IN  IF res.status = "OFFSET_ILLEGAL"
            THEN go' = [go EXCEPT !.minOffset = {<<q, res.value>>}] /\ UNCHANGED hist
            ELSE Pulled(q, res, IF res.status = "FOUND" /\ e.max # e.con
                                THEN Now - res.value ELSE 0)
  BY Zenon DEF Pull
<1> DEFINE res == QueryMsgByOffset(a)
           lag == IF res.status = "FOUND" /\ e.max # e.con THEN Now - res.value ELSE 0
<1>4. Given(q, e.con, res)
  BY <1>1, <1>2, AnswerIs, Zenon
<1>5. Window(q)
  BY <1>2, WindowIs, Zenon
<1>6. Now \in Nat
  BY OffsetAssumption, Zenon
<1>7. CASE res.status # "OFFSET_ILLEGAL"
  <2>1. Pulled(q, res, lag)
    BY <1>3, <1>7, Zenon
  <2> HIDE DEF res
  <2>2. lag \in Int
    BY <1>4, <1>6 DEF Given
  <2>3. ASSUME Master(net.brokerOf[q]), res.status = "FOUND", e.max # e.con
        PROVE  Fits(q, res, lag)
    <3>1. net.min[q] <= e.con /\ e.con < net.max[q] /\ lag = Now - res.value
          /\ (res.value = 0 \/ res.value = Stamp[q][e.con])
      BY <1>4, <2>3, Zenon DEF Given
    <3>2. e.con <= e.con
      BY <1>2
    <3>3. AtLeast(q, Now - Stamp[q][e.con]) /\ AtMost(q, Now - Stamp[q][e.con])
      BY <1>2, <1>5, <2>3, <3>1, <3>2, FoundFits, Zenon
    <3>4. CASE res.value = 0
      <4>1. lag = Now
        BY <1>6, <3>1, <3>4
      <4> QED
        BY <1>5, <2>3, <3>4, <4>1, BlankFits, Zenon DEF Fits
    <3>5. CASE res.value = Stamp[q][e.con]
      BY <3>1, <3>3, <3>5, Zenon DEF Fits
    <3> QED
      BY <3>1, <3>4, <3>5, Zenon
  <2>4. ASSUME Master(net.brokerOf[q]), ~ (res.status = "FOUND" /\ e.max # e.con)
        PROVE  Fits(q, res, lag)
    <3>1. lag = 0 /\ ~ 0 < lag
      BY <2>4
    <3>2. ASSUME res.status \in {"FOUND", "NO_NEW_MSG"}
          PROVE  ~ Oldest(net, q) < hist.began.max[q]
      <4>1. e.max = e.con \/ net.max[q] <= e.con
        BY <1>4, <2>4, <3>2, Zenon DEF Given
      <4> DEFINE p == Oldest(net, q)
                 max == net.max[q]
                 max0 == hist.began.max[q]
      <4>2. p \in Nat /\ e.con <= p
        BY <1>5, <2>4, OldestWithin, Zenon
      <4>3. /\ max \in Nat /\ max0 \in Nat /\ e.max \in Nat /\ e.con \in Nat
            /\ max0 <= max /\ max0 <= e.max
        BY <1>5, <2>4, Zenon DEF Window
      <4> HIDE DEF p, max0
      <4>4. ~ p < max0
        BY <4>1, <4>2, <4>3
      <4> QED
        BY <4>4, Zenon DEF p, max0
    <3> QED
      BY <3>1, <3>2, Zenon DEF Fits, AtLeast
  <2>5. Fits(q, res, lag)
    BY <2>3, <2>4, Zenon DEF Fits
  <2> HIDE DEF lag
  <2> QED
    BY <1>1, <2>1, <2>2, <2>5, PulledInv, Zenon
<1>8. CASE res.status = "OFFSET_ILLEGAL"
  <2> DEFINE x == <<q, res.value>>
  <2>1. go' = [go EXCEPT !.minOffset = {x}] /\ UNCHANGED hist
    BY <1>3, <1>8, Zenon
  <2>2. /\ {x} \in SUBSET (Queue \X Nat) /\ x[1] = q /\ x[2] <= net.min[q]
        /\ e.con < net.min[q]
    <3>1. res.value \in Nat /\ e.con < net.min[q] /\ res.value <= net.min[q]
      BY <1>4, <1>8, Zenon DEF Given
    <3> HIDE DEF res
    <3> QED
      BY <3>1
  <2> HIDE DEF x, res
  <2>3. /\ go' \in GoRecord /\ go'.at = "pull" /\ go'.fn = go.fn /\ go'.table = go.table
        /\ go'.left = go.left /\ go'.minOffset = {x} /\ go'.latencyMap = go.latencyMap
    BY <1>1, <2>1, <2>2, Zenon DEF RouteTypes, GoRecord
  <2>4. /\ Grown(hist.began, net)' /\ Connected' /\ Asked'
        /\ CountsClientsOnce' /\ TotalsInWindow' /\ LatencyOfOldest'
        /\ Pullable' = Pullable /\ (\A c : OfBroker(c)' = OfBroker(c))
        /\ (\A c : Master(c)' = Master(c))
        /\ (\A r, v : AtLeast(r, v)' = AtLeast(r, v) /\ AtMost(r, v)' = AtMost(r, v))
        /\ DOMAIN sample'.latency = {}
    BY <1>1, <2>1, <2>3, PullKept, Zenon
  <2>5. RouteTypes'
    BY <1>1, <2>1, <2>3, Zenon DEF RouteTypes
  <2>6. Illegal(x)'
    BY <1>1, <2>2, <2>3, Zenon DEF Illegal
  <2>7. \A b \in DOMAIN go.latencyMap : SoFar(b)'
    <3>1. \A b \in DOMAIN go.latencyMap : SoFar(b)
      BY <1>1, Zenon DEF RouteInv, Pulls
    <3>2. ASSUME NEW b \in DOMAIN go.latencyMap, SoFar(b) PROVE SoFar(b)'
      BY <1>1, <2>1, <2>3, <2>4, <3>2, Zenon DEF SoFar
    <3> QED
      BY <3>1, <3>2, Zenon
  <2>8. Pulls'
    BY <1>1, <2>2, <2>3, <2>4, <2>6, <2>7, Zenon DEF RouteInv, Pulls
  <2> QED
    BY <2>4, <2>5, <2>8, Zenon DEF RouteInv
<1> QED
  BY <1>7, <1>8, Zenon

\* The second pull keeps it.
LEMMA PullAgainInv ==
  ASSUME RouteInv, NEW q \in Queue, PullAgain(q)
  PROVE  RouteInv'
<1>1. RouteTypes /\ go.at = "pull" /\ UNCHANGED <<net, sample>>
  BY Zenon DEF RouteInv, PullAgain
<1>2. PICK x \in go.minOffset : x[1] = q /\
        \E a \in PullAnswers(q, x[2]) :
          LET res == QueryMsgByOffset(a)
          IN  Pulled(q, res, IF res.status = "FOUND" THEN Now - res.value ELSE 0)
  BY Zenon DEF PullAgain
<1>3. PICK a \in PullAnswers(q, x[2]) :
          LET res == QueryMsgByOffset(a)
          IN  Pulled(q, res, IF res.status = "FOUND" THEN Now - res.value ELSE 0)
  BY <1>2, Zenon
<1> DEFINE res == QueryMsgByOffset(a)
           o == x[2]
           lag == IF res.status = "FOUND" THEN Now - res.value ELSE 0
<1>4. o \in Nat /\ q \in go.left /\ go.table[q].con < net.min[q] /\ o <= net.min[q]
  <2>1. go.minOffset \in SUBSET (Queue \X Nat)
    BY <1>1, Zenon DEF RouteTypes, GoRecord
  <2>2. x \in Queue \X Nat
    BY <2>1, Zenon
  <2>3. x[2] \in Nat
    BY <2>2, Zenon
  <2> QED
    BY <1>1, <1>2, <2>3, Zenon DEF RouteInv, Pulls, Illegal
<1>5. Given(q, o, res)
  BY <1>1, <1>4, AnswerIs, Zenon
<1>6. Window(q)
  <2>1. q \in Entries
    BY <1>1, <1>4, Zenon DEF RouteInv, Pulls, Pullable
  <2> QED
    BY <2>1, WindowIs, Zenon
<1>7. Now \in Nat
  BY OffsetAssumption, Zenon
<1>8. Pulled(q, res, lag)
  BY <1>3, Zenon
<1> HIDE DEF res, o
<1>9. lag \in Int
  BY <1>5, <1>7 DEF Given
<1>10. ASSUME Master(net.brokerOf[q]), res.status = "FOUND"
       PROVE  Fits(q, res, lag)
  <2>1. net.min[q] <= o /\ o < net.max[q] /\ lag = Now - res.value
        /\ (res.value = 0 \/ res.value = Stamp[q][o])
    BY <1>5, <1>10, Zenon DEF Given
  <2>2. o = net.min[q] /\ go.table[q].con <= o
    <3>1. net.min[q] \in Nat /\ go.table[q].con \in Nat
      BY <1>6, Zenon DEF Window
    <3> QED
      BY <1>4, <2>1, <3>1
  <2>3. AtLeast(q, Now - Stamp[q][o]) /\ AtMost(q, Now - Stamp[q][o])
    BY <1>4, <1>6, <1>10, <2>1, <2>2, FoundFits, Zenon
  <2>4. CASE res.value = 0
    <3>1. lag = Now
      BY <1>7, <2>1, <2>4
    <3> QED
      BY <1>6, <1>10, <2>4, <3>1, BlankFits, Zenon DEF Fits
  <2>5. CASE res.value = Stamp[q][o]
    BY <2>1, <2>3, <2>5, Zenon DEF Fits
  <2> QED
    BY <2>1, <2>4, <2>5, Zenon
<1>11. ASSUME Master(net.brokerOf[q]), res.status # "FOUND"
       PROVE  Fits(q, res, lag)
  <2>1. lag = 0 /\ ~ 0 < lag
    BY <1>11
  <2>2. ASSUME res.status \in {"FOUND", "NO_NEW_MSG"}
        PROVE  ~ Oldest(net, q) < hist.began.max[q]
    <3>1. net.min[q] <= o /\ net.max[q] <= o
      BY <1>5, <1>11, <2>2, Zenon DEF Given
    <3> DEFINE p == Oldest(net, q)
               max == net.max[q]
               max0 == hist.began.max[q]
               min == net.min[q]
    <3>2. p \in Nat /\ min <= p
      BY <1>6, <1>11, OldestWithin, Zenon
    <3>3. max \in Nat /\ max0 \in Nat /\ min \in Nat /\ max0 <= max /\ max <= o /\ o <= min
      BY <1>4, <1>6, <3>1, Zenon DEF Window
    <3> HIDE DEF p, max, max0, min
    <3>4. ~ p < max0
      BY <1>4, <3>2, <3>3
    <3> QED
      BY <3>4, Zenon DEF p, max0
  <2> QED
    BY <2>1, <2>2, Zenon DEF Fits, AtLeast
<1>12. Fits(q, res, lag)
  BY <1>10, <1>11, Zenon DEF Fits
<1> HIDE DEF lag
<1> QED
  BY <1>1, <1>4, <1>8, <1>9, <1>12, PulledInv, Zenon

\* AddGroupGetLatencyByStoreTimeMetric keeps it: with no queue left, the longest
\* wait so far is that of all the queues of the broker.
LEMMA PutLatencyInv ==
  ASSUME RouteInv, PutLatency
  PROVE  RouteInv'
<1>1. /\ RouteTypes /\ go.at = "pull" /\ go.left = {} /\ UNCHANGED <<net, hist>>
      /\ sample' = [sample EXCEPT !.latency = go.latencyMap]
      /\ go' = [go EXCEPT !.at = "end"]
  BY Zenon DEF RouteInv, PutLatency
<1>2. go'.at = "end" /\ go'.fn = go.fn /\ go'.table = go.table /\ go' \in GoRecord
  BY <1>1, Zenon DEF RouteTypes, GoRecord
<1>3. /\ sample'.count = sample.count /\ sample'.diff = sample.diff
      /\ sample'.total = sample.total /\ sample'.latency = go.latencyMap
      /\ sample' \in SampleRecord
  BY <1>1, Zenon DEF RouteTypes, SampleRecord, GoRecord
<1>4. RouteTypes' /\ Grown(hist.began, net)'
  BY <1>1, <1>2, <1>3, Zenon DEF RouteInv, RouteTypes, Grown
<1>5. Connected' /\ Pulls'
  BY <1>2, Zenon DEF Connected, Pulls
<1>6. /\ Entries' = Entries /\ (\A b : OfBroker(b)' = OfBroker(b))
      /\ EntryBrokers' = EntryBrokers
  BY <1>1, <1>2, Zenon DEF Entries, OfBroker, EntryBrokers
<1>7. Asked'
  <2>1. \A q \in Entries : InWindow(q)'
    BY <1>1, <1>2 DEF RouteInv, Asked, InWindow, Master
  <2> QED
    BY <1>1, <1>2, <1>6, <2>1, Zenon DEF RouteInv, Asked
<1>8. CountsClientsOnce'
  BY <1>1, <1>3, Zenon DEF RouteInv, CountsClientsOnce, Connections
<1>9. TotalsInWindow'
  <2>1. TotalsInWindow
    BY Zenon DEF RouteInv
  <2>2. Lag(hist.began, net)' = Lag(hist.began, net)
        /\ Lag(net, hist.began)' = Lag(net, hist.began)
    BY <1>1, <1>6, Zenon DEF Lag
  <2> QED
    BY <1>1, <1>2, <1>3, <1>6, <2>1, <2>2, Zenon DEF TotalsInWindow, Lag
<1>10. DOMAIN go.latencyMap = EntryBrokers \cap net.brokerAddrs
  <2>1. DOMAIN go.latencyMap = {net.brokerOf[q] : q \in Pullable}
    BY <1>1, Zenon DEF RouteInv, Pulls
  <2> QED
    BY <2>1, Zenon DEF Pullable, EntryBrokers
<1>11. ASSUME NEW b \in DOMAIN go.latencyMap, Master(b)
       PROVE  Oldests(b, go.latencyMap[b])
  <2> DEFINE v == go.latencyMap[b]
             n == hist.began
             Q == {q \in OfBroker(b) \ hist.missed : Oldest(net, q) < n.max[q]}
             R == {q \in OfBroker(b) : Oldest(n, q) < net.max[q]}
             W == {0} \cup {Now - Stamp[q][Oldest(net, q)] : q \in Q}
             X == {0} \cup {Now - Stamp[q][Oldest(n, q)] : q \in R}
  <2>1. SoFar(b)
    BY <1>1, Zenon DEF RouteInv, Pulls
  <2>2. OfBroker(b) \subseteq Pullable /\ OfBroker(b) \subseteq Queue
    BY <1>10, OfAnswered, Zenon DEF Pullable, OfBroker
  <2>3. v \in Int /\ Now \in Int /\ 0 <= Now /\ Now \in Nat
    <3>1. go.latencyMap \in Partial(Broker, Int)
      BY <1>1, Zenon DEF RouteTypes, GoRecord
    <3>2. go.latencyMap[b] \in Int
      BY <3>1, PartialFunction, Zenon
    <3> QED
      BY <3>2, OffsetAssumption
  <2>4. ASSUME NEW q \in Queue, NEW m \in {net, n}, NEW k \in {net, n},
               Oldest(m, q) < k.max[q]
        PROVE  Stamp[q][Oldest(m, q)] \in Nat
    <3>1. net \in NetRecord /\ n \in NetRecord
      BY <1>1, Zenon DEF RouteTypes, HistRecord
    <3>2. Oldest(m, q) \in Nat /\ k.max[q] \in Nat /\ net.max[q] \in Nat
      BY <3>1, OldestIs, Zenon
    <3>3. net.max[q] <= MaxOffset /\ n.max[q] <= net.max[q] /\ n.max[q] \in Nat
      BY <1>1, <3>1, OldestIs, Zenon DEF RouteInv, RouteTypes, Grown
    <3> DEFINE o == Oldest(m, q)
               l == k.max[q]
    <3>4. l = net.max[q] \/ l = n.max[q]
      BY Zenon
    <3> HIDE DEF n, o, l
    <3>5. o <= o /\ o <= MaxOffset
      BY <2>4, <3>2, <3>3, <3>4, OffsetAssumption DEF o, l
    <3> QED
      BY <3>2, <3>5, StampsAre, Zenon DEF o
  <2>5. W \in SUBSET Int /\ W # {} /\ X \in SUBSET Int /\ X # {} /\ 0 \in X
    <3>1. \A q \in Q : Stamp[q][Oldest(net, q)] \in Nat
      BY <2>2, <2>4, Zenon
    <3>2. \A q \in R : Stamp[q][Oldest(n, q)] \in Nat
      BY <2>2, <2>4, Zenon
    <3> HIDE DEF Q, R, n
    <3> QED
      BY <2>3, <3>1, <3>2
  <2>6. \A x \in W : x <= v
    <3>1. \A q \in Q : Now - Stamp[q][Oldest(net, q)] <= v
      BY <1>1, <1>11, <2>1, <2>2, Zenon DEF SoFar, OfBroker, AtLeast
    <3>2. 0 <= v
      BY <1>11, <2>1, Zenon DEF SoFar
    <3> HIDE DEF Q, v
    <3> QED
      BY <3>1, <3>2, Zenon
  <2>7. \A x \in X : x <= Now
    <3>1. \A q \in R : Stamp[q][Oldest(n, q)] \in Nat
      BY <2>2, <2>4, Zenon
    <3>2. \A q \in R : Now - Stamp[q][Oldest(n, q)] <= Now
      <4> HIDE DEF R, n
      <4> QED
        BY <2>3, <3>1
    <3> HIDE DEF R, n
    <3> QED
      BY <2>3, <3>2, Zenon
  <2>8. OfBroker(b) \cap hist.blank = {} => \E x \in X : v <= x
    <3> SUFFICES ASSUME OfBroker(b) \cap hist.blank = {} PROVE \E x \in X : v <= x
      BY Zenon
    <3>1. CASE v = 0
      BY <2>3, <2>5, <3>1
    <3>2. CASE v # 0
      <4>1. PICK q \in OfBroker(b) : AtMost(q, v)
        BY <1>11, <2>1, <3>2, Zenon DEF SoFar
      <4>2. q \in R /\ v <= Now - Stamp[q][Oldest(n, q)]
        BY <4>1, Zenon DEF AtMost
      <4> QED
        BY <4>2, Zenon
    <3> QED
      BY <3>1, <3>2, Zenon
  <2>9. /\ Longest(net, n.max, OfBroker(b) \ hist.missed) = Max(W)
        /\ Longest(n, net.max, OfBroker(b)) = Max(X)
    BY Zenon DEF Longest
  <2> HIDE DEF v, n, Q, R, W, X
  <2>10. Max(W) <= v
    BY <2>3, <2>5, <2>6, MaxBounded, Zenon
  <2>11. Max(X) \in X /\ \A x \in X : x <= Max(X)
    BY <2>3, <2>5, <2>7, MaxBounded, Zenon
  <2>12. OfBroker(b) \cap hist.blank = {} => v <= Max(X)
    <3> SUFFICES ASSUME OfBroker(b) \cap hist.blank = {} PROVE v <= Max(X)
      BY Zenon
    <3>1. PICK x \in X : v <= x
      BY <2>8, Zenon
    <3>2. x \in Int /\ Max(X) \in Int /\ x <= Max(X)
      BY <2>5, <2>11, Zenon
    <3> QED
      BY <2>3, <3>1, <3>2
  <2> QED
    BY <2>9, <2>10, <2>12, Zenon DEF Oldests, n, v
<1>12. LatencyOfOldest'
  <2>1. \A b, v : Oldests(b, v)' = Oldests(b, v)
    BY <1>1, Zenon DEF Oldests, Longest, Oldest, OfBroker
  <2>2. \A b \in DOMAIN sample'.latency : net'.route[b] = "master" =>
          \A v : v = sample'.latency[b] => Oldests(b, v)'
    BY <1>1, <1>3, <1>11, <2>1, Zenon DEF Master
  <2>3. DOMAIN sample'.latency \in {{}, EntryBrokers' \cap net'.brokerAddrs}
    BY <1>1, <1>3, <1>6, <1>10, Zenon
  <2> QED
    BY <2>2, <2>3, Zenon DEF LatencyOfOldest, Oldests
<1> QED
  BY <1>4, <1>5, <1>7, <1>8, <1>9, <1>12, Zenon DEF RouteInv

-----------------------------------------------------------------------------
(* At the brokers.                                                         *)

\* Only the offsets of the brokers change.
SameBrokers ==
  /\ net' \in NetRecord
  /\ net'.brokerOf = net.brokerOf /\ net'.conns = net.conns
  /\ net'.route = net.route /\ net'.brokerAddrs = net.brokerAddrs
  /\ \A q \in Queue : net'.max[q] <= MaxOffset

\* What happens at the brokers keeps the invariant: offsets only grow, so a
\* stored total stays in its window, and the oldest message gets no older.
LEMMA HappensInv ==
  ASSUME RouteInv, go.at # "end", SameBrokers, Grown(net, net'),
         UNCHANGED <<go, sample, hist>>
  PROVE  RouteInv'
<1>1. RouteTypes
  BY Zenon DEF RouteInv
<1>2. /\ hist' \in HistRecord /\ hist'.began = hist.began /\ hist'.conn = hist.conn
      /\ hist'.stats = hist.stats
  BY <1>1, Zenon DEF RouteTypes, HistRecord
<1>3. RouteTypes'
  BY <1>1, <1>2, Zenon DEF RouteTypes, SameBrokers
<1>4. \A q \in Queue : /\ hist.began.max[q] \in Nat /\ hist.began.con[q] \in Nat
                       /\ net.max[q] \in Nat /\ net.con[q] \in Nat
                       /\ net'.max[q] \in Nat /\ net'.con[q] \in Nat
                       /\ net.max[q] <= net'.max[q] /\ net.con[q] <= net'.con[q]
                       /\ hist.began.max[q] <= net.max[q]
                       /\ hist.began.con[q] <= net.con[q]
                       /\ hist.began.min[q] \in Nat /\ hist.began.min[q] <= net.min[q]
                       /\ net.min[q] \in Nat /\ net'.min[q] \in Nat
                       /\ net.min[q] <= net'.min[q]
  BY <1>1, Zenon DEF RouteInv, RouteTypes, HistRecord, NetRecord, SameBrokers, Grown
<1>5. Grown(hist.began, net)'
  <2> SUFFICES ASSUME NEW q \in Queue
               PROVE  /\ hist.began.max[q] <= net'.max[q] /\ hist.began.con[q] <= net'.con[q]
                      /\ hist.began.min[q] <= net'.min[q]
    BY <1>2, Zenon DEF Grown
  <2> QED
    BY <1>4
<1>6. /\ Entries' = Entries /\ (\A b : OfBroker(b)' = OfBroker(b))
      /\ (\A b : Master(b)' = Master(b)) /\ Pullable' = Pullable
  BY Zenon DEF SameBrokers, Entries, OfBroker, Master, Pullable
<1>7. Connected'
  BY <1>2, Zenon DEF RouteInv, Connected, Online, Connections, SameBrokers
<1>8. ASSUME NEW q \in Entries PROVE InWindow(q)'
  <2>1. /\ q \in Queue /\ go.table[q].max \in Nat /\ go.table[q].con \in Nat
    BY OfAnswered, Zenon
  <2>2. InWindow(q)
    BY Zenon DEF RouteInv, Asked
  <2>3. Master(net.brokerOf[q]) => go.table[q].max <= net'.max[q] /\ go.table[q].con <= net'.con[q]
    BY <1>4, <2>1, <2>2 DEF InWindow
  <2> QED
    BY <1>2, <1>6, <2>2, <2>3, Zenon DEF InWindow, SameBrokers
<1>9. Asked'
  BY <1>2, <1>6, <1>8, Zenon DEF RouteInv, Asked
<1>10. Pulls'
  <2>1. ASSUME NEW x \in go.minOffset, Illegal(x), go.at = "pull", x[1] \in go.left
        PROVE  Illegal(x)'
    <3>1. x \in Queue \X Nat /\ x[1] \in Entries
      BY <1>1, <2>1, Zenon DEF RouteInv, RouteTypes, GoRecord, Pulls, Pullable
    <3>2. x[1] \in Queue /\ x[2] \in Nat /\ go.table[x[1]].con \in Nat
      BY <3>1, OfAnswered, Zenon
    <3> DEFINE q == x[1]
               k == x[2]
               c == go.table[q].con
    <3>3. q \in Queue /\ k \in Nat /\ c \in Nat /\ c < net.min[q] /\ k <= net.min[q]
      BY <2>1, <3>2, Zenon DEF Illegal
    <3> HIDE DEF q, k, c
    <3>4. c < net'.min[q] /\ k <= net'.min[q]
      BY <1>4, <3>3
    <3> QED
      BY <3>4, Zenon DEF Illegal, q, k, c
  <2>2. ASSUME NEW q \in Queue, NEW v \in Int, AtLeast(q, v) PROVE AtLeast(q, v)'
    <3> DEFINE o == Oldest(net, q)
               p == Oldest(net', q)
               m == hist.began.max[q]
    <3>1. net \in NetRecord /\ net' \in NetRecord
      BY <1>1, Zenon DEF RouteTypes, SameBrokers
    <3>2. /\ o \in Nat /\ o = IF net.con[q] < net.min[q] THEN net.min[q] ELSE net.con[q]
          /\ p \in Nat /\ p = IF net'.con[q] < net'.min[q] THEN net'.min[q] ELSE net'.con[q]
      BY <3>1, OldestIs, Zenon
    <3> HIDE DEF o, p
    <3>3. o <= p /\ m \in Nat /\ m <= net.max[q]
      BY <1>4, <3>2
    <3>4. net.max[q] <= MaxOffset /\ net.max[q] \in Nat
      BY <1>1, <1>4, Zenon DEF RouteTypes
    <3>5. ASSUME p < m PROVE Now - Stamp[q][p] <= v
      <4> HIDE DEF m
      <4>1. o < m /\ p <= MaxOffset
        BY <3>2, <3>3, <3>4, <3>5, OffsetAssumption
      <4>2. Now - Stamp[q][o] <= v
        BY <2>2, <4>1, Zenon DEF AtLeast, o, m
      <4>3. Stamp[q][o] \in Nat /\ Stamp[q][p] \in Nat /\ Stamp[q][o] <= Stamp[q][p]
        BY <3>2, <3>3, <4>1, StampsAre, Zenon
      <4>4. Now \in Nat
        BY OffsetAssumption, Zenon
      <4> QED
        BY <4>2, <4>3, <4>4
    <3>6. Oldest(net, q)' = p
      BY Zenon DEF p, Oldest
    <3> QED
      BY <1>2, <3>5, <3>6, Zenon DEF AtLeast, p, m
  <2>3. ASSUME NEW q \in Queue, NEW v \in Int, AtMost(q, v) PROVE AtMost(q, v)'
    <3> DEFINE o == Oldest(hist.began, q)
    <3>1. hist.began \in NetRecord
      BY <1>1, Zenon DEF RouteTypes, HistRecord
    <3>2. o \in Nat
      BY <3>1, OldestIs, Zenon
    <3>3. o < net.max[q] /\ v <= Now - Stamp[q][o]
      BY <2>3, Zenon DEF AtMost
    <3>4. Oldest(hist.began, q)' = o
      BY Zenon DEF Oldest
    <3> HIDE DEF o
    <3>5. o < net'.max[q]
      BY <1>4, <3>2, <3>3
    <3> QED
      BY <3>3, <3>4, <3>5, Zenon DEF AtMost, o
  <2>4. ASSUME NEW b \in DOMAIN go.latencyMap, SoFar(b) PROVE SoFar(b)'
    <3>1. go.latencyMap \in Partial(Broker, Int)
      BY <1>1, Zenon DEF RouteTypes, GoRecord
    <3>2. go.latencyMap[b] \in Int
      BY <3>1, PartialFunction, Zenon
    <3>3. Pullable \subseteq Queue /\ OfBroker(b) \subseteq Queue
      BY OfAnswered, Zenon DEF Pullable, OfBroker
    <3> QED
      BY <1>6, <2>2, <2>3, <2>4, <3>2, <3>3, Zenon DEF SoFar, SameBrokers
  <2> QED
    BY <1>6, <2>1, <2>4, Zenon DEF RouteInv, Pulls, SameBrokers
<1>11. CountsClientsOnce'
  BY <1>2, Zenon DEF RouteInv, CountsClientsOnce, Connections, SameBrokers
<1>12. LatencyOfOldest'
  <2>1. DOMAIN sample.latency = {}
    BY Zenon DEF RouteInv, Pulls
  <2> QED
    BY <2>1, Zenon DEF LatencyOfOldest
<1>13. TotalsInWindow'
  <2>1. TotalsInWindow
    BY Zenon DEF RouteInv
  <2>2. ASSUME NEW b
        PROVE  /\ SumFunctionOnSet(net.max, OfBroker(b)) \in Int
               /\ SumFunctionOnSet(net'.max, OfBroker(b)) \in Int
               /\ SumFunctionOnSet(net.max, OfBroker(b)) <= SumFunctionOnSet(net'.max, OfBroker(b))
    <3>1. IsFiniteSet(OfBroker(b)) /\ OfBroker(b) \subseteq Queue
      BY OfAnswered, Zenon
    <3>2. \A q \in OfBroker(b) : /\ net.max[q] \in Int /\ net'.max[q] \in Int
                                 /\ net.max[q] <= net'.max[q]
      BY <1>4, <3>1
    <3> QED
      BY <3>1, <3>2, SumMonotone, Zenon
  <2>3. ASSUME NEW b
        PROVE  /\ SumFunctionOnSet(net.con, OfBroker(b)) \in Int
               /\ SumFunctionOnSet(net'.con, OfBroker(b)) \in Int
               /\ SumFunctionOnSet(net.con, OfBroker(b)) <= SumFunctionOnSet(net'.con, OfBroker(b))
    <3>1. IsFiniteSet(OfBroker(b)) /\ OfBroker(b) \subseteq Queue
      BY OfAnswered, Zenon
    <3>2. \A q \in OfBroker(b) : /\ net.con[q] \in Int /\ net'.con[q] \in Int
                                 /\ net.con[q] <= net'.con[q]
      BY <1>4, <3>1
    <3> QED
      BY <3>1, <3>2, SumMonotone, Zenon
  <2>4. /\ Lag(hist.began, net) \in Int /\ Lag(hist.began, net)' \in Int
        /\ Lag(hist.began, net)' <= Lag(hist.began, net)
    <3> DEFINE f == [q \in Queue |-> hist.began.max[q] - net'.con[q]]
               h == [q \in Queue |-> hist.began.max[q] - net.con[q]]
               S == UNION {OfBroker(b) : b \in hist.stats}
    <3>1. IsFiniteSet(S) /\ S \subseteq Queue
      <4>1. S = Entries
        BY Zenon DEF RouteInv, Asked
      <4> HIDE DEF S
      <4> QED
        BY <4>1, OfAnswered, Zenon
    <3>2. /\ Lag(hist.began, net)' = SumFunctionOnSet(f, S)
          /\ Lag(hist.began, net) = SumFunctionOnSet(h, S)
      <4>1. S' = S
        BY <1>2, <1>6, Zenon
      <4>2. Lag(hist.began, net)' =
              SumFunctionOnSet([q \in Queue |-> hist'.began.max[q] - net'.con[q]], S')
        BY Zenon DEF Lag
      <4>3. [q \in Queue |-> hist'.began.max[q] - net'.con[q]] = f
        BY <1>2
      <4>4. Lag(hist.began, net) = SumFunctionOnSet(h, S)
        BY Zenon DEF Lag
      <4> QED
        BY <4>1, <4>2, <4>3, <4>4, Zenon
    <3>3. \A q \in S : f[q] \in Int /\ h[q] \in Int /\ f[q] <= h[q]
      BY <1>4, <3>1
    <3> HIDE DEF f, h, S
    <3> QED
      BY <3>1, <3>2, <3>3, SumMonotone, Zenon
  <2>5. /\ Lag(net, hist.began) \in Int /\ Lag(net, hist.began)' \in Int
        /\ Lag(net, hist.began) <= Lag(net, hist.began)'
    <3> DEFINE f == [q \in Queue |-> net.max[q] - hist.began.con[q]]
               h == [q \in Queue |-> net'.max[q] - hist.began.con[q]]
               S == UNION {OfBroker(b) : b \in hist.stats}
    <3>1. IsFiniteSet(S) /\ S \subseteq Queue
      <4>1. S = Entries
        BY Zenon DEF RouteInv, Asked
      <4> HIDE DEF S
      <4> QED
        BY <4>1, OfAnswered, Zenon
    <3>2. /\ Lag(net, hist.began) = SumFunctionOnSet(f, S)
          /\ Lag(net, hist.began)' = SumFunctionOnSet(h, S)
      <4>1. S' = S
        BY <1>2, <1>6, Zenon
      <4>2. Lag(net, hist.began)' =
              SumFunctionOnSet([q \in Queue |-> net'.max[q] - hist'.began.con[q]], S')
        BY Zenon DEF Lag
      <4>3. [q \in Queue |-> net'.max[q] - hist'.began.con[q]] = h
        BY <1>2
      <4>4. Lag(net, hist.began) = SumFunctionOnSet(f, S)
        BY Zenon DEF Lag
      <4> QED
        BY <4>1, <4>2, <4>3, <4>4, Zenon
    <3>3. \A q \in S : f[q] \in Int /\ h[q] \in Int /\ f[q] <= h[q]
      BY <1>4, <3>1
    <3> HIDE DEF f, h, S
    <3> QED
      BY <3>1, <3>2, <3>3, SumMonotone, Zenon
  <2>6. ASSUME NEW b \in DOMAIN sample.total, Master(b)
        PROVE  sample.total[b] \in
                 SumFunctionOnSet(IF go.fn = "topic" THEN hist.began.max ELSE hist.began.con,
                                  OfBroker(b))
                 .. SumFunctionOnSet(IF go.fn = "topic" THEN net'.max ELSE net'.con, OfBroker(b))
    <3>1. sample.total[b] \in
            SumFunctionOnSet(IF go.fn = "topic" THEN hist.began.max ELSE hist.began.con,
                             OfBroker(b))
            .. SumFunctionOnSet(IF go.fn = "topic" THEN net.max ELSE net.con, OfBroker(b))
      BY <2>1, <2>6, TotalsAre, Zenon
    <3>2. CASE go.fn = "topic"
      BY <2>2, <3>1, <3>2
    <3>3. CASE go.fn # "topic"
      BY <2>3, <3>1, <3>3
    <3> QED
      BY <3>2, <3>3, Zenon
  <2>7. (\A b \in hist.stats : Master(b)) =>
          sample.diff \subseteq Lag(hist.began, net)' .. Lag(net, hist.began)'
    <3> SUFFICES ASSUME \A b \in hist.stats : Master(b), NEW d \in sample.diff
                 PROVE  d \in Lag(hist.began, net)' .. Lag(net, hist.began)'
      BY Zenon
    <3>1. d \in Lag(hist.began, net) .. Lag(net, hist.began)
      BY <2>1, TotalsAre, Zenon
    <3> QED
      BY <2>4, <2>5, <3>1
  <2>8. /\ \A b \in DOMAIN sample.total : Master(b)' =>
             sample.total[b] \in
                 SumFunctionOnSet(IF go.fn = "topic" THEN hist'.began.max ELSE hist'.began.con,
                                  OfBroker(b)')
                 .. SumFunctionOnSet(IF go.fn = "topic" THEN net'.max ELSE net'.con, OfBroker(b)')
        /\ (\A b \in hist'.stats : Master(b)') =>
             sample.diff \subseteq Lag(hist.began, net)' .. Lag(net, hist.began)'
    BY <1>2, <1>6, <2>6, <2>7, Zenon
  <2> QED
    BY <2>8, Zenon DEF TotalsInWindow, Master, Lag
<1> QED
  BY <1>3, <1>5, <1>7, <1>9, <1>10, <1>11, <1>12, <1>13, Zenon DEF RouteInv

\* A message stored, consumed or deleted is such a change.
LEMMA NetMoves ==
  ASSUME RouteInv, NEW q \in Queue, Produce(q) \/ Consume(q) \/ Expire(q)
  PROVE  SameBrokers /\ Grown(net, net')
<1>1. /\ net \in NetRecord /\ net.max \in [Queue -> Nat] /\ net.con \in [Queue -> Nat]
      /\ net.min \in [Queue -> Nat] /\ net.events \in Nat
      /\ \A r \in Queue : net.max[r] <= MaxOffset
  BY Zenon DEF RouteInv, RouteTypes, NetRecord
<1>2. CASE Produce(q)
  <2> DEFINE f == [net.max EXCEPT ![q] = @ + 1]
  <2>0. net.max[q] < MaxOffset
    BY <1>2, Zenon DEF Produce
  <2>1. f \in [Queue -> Nat] /\ \A r \in Queue : net.max[r] <= f[r] /\ f[r] <= MaxOffset
    BY <1>1, <2>0, OffsetAssumption
  <2>2. net' = [net EXCEPT !.max = f, !.events = @ + 1]
    BY <1>1, <1>2, Zenon DEF Produce, Happens, NetRecord
  <2> HIDE DEF f
  <2>3. net' = [brokerOf |-> net.brokerOf, conns |-> net.conns, route |-> net.route,
                brokerAddrs |-> net.brokerAddrs, min |-> net.min, max |-> f, con |-> net.con,
                events |-> net.events + 1]
    BY <1>1, <2>2, Zenon DEF NetRecord
  <2>4. /\ net'.brokerOf = net.brokerOf /\ net'.conns = net.conns
        /\ net'.route = net.route /\ net'.brokerAddrs = net.brokerAddrs
        /\ net'.max = f /\ net'.min = net.min /\ net'.con = net.con
    BY <2>3, Zenon
  <2>5. net' \in NetRecord
    BY <1>1, <2>1, <2>3 DEF NetRecord
  <2> QED
    BY <1>1, <2>1, <2>4, <2>5 DEF SameBrokers, Grown
<1>3. CASE Consume(q)
  <2> DEFINE f == [net.con EXCEPT ![q] = @ + 1]
  <2>1. f \in [Queue -> Nat] /\ \A r \in Queue : net.con[r] <= f[r]
    BY <1>1
  <2>2. net' = [net EXCEPT !.con = f, !.events = @ + 1]
    BY <1>1, <1>3, Zenon DEF Consume, Happens, NetRecord
  <2> HIDE DEF f
  <2>3. net' = [brokerOf |-> net.brokerOf, conns |-> net.conns, route |-> net.route,
                brokerAddrs |-> net.brokerAddrs, min |-> net.min, max |-> net.max, con |-> f,
                events |-> net.events + 1]
    BY <1>1, <2>2, Zenon DEF NetRecord
  <2>4. /\ net'.brokerOf = net.brokerOf /\ net'.conns = net.conns
        /\ net'.route = net.route /\ net'.brokerAddrs = net.brokerAddrs
        /\ net'.con = f /\ net'.min = net.min /\ net'.max = net.max
    BY <2>3, Zenon
  <2>5. net' \in NetRecord
    BY <1>1, <2>1, <2>3 DEF NetRecord
  <2> QED
    BY <1>1, <2>1, <2>4, <2>5 DEF SameBrokers, Grown
<1>4. CASE Expire(q)
  <2> DEFINE f == [net.min EXCEPT ![q] = @ + 1]
  <2>1. f \in [Queue -> Nat] /\ \A r \in Queue : net.min[r] <= f[r]
    BY <1>1
  <2>2. net' = [net EXCEPT !.min = f, !.events = @ + 1]
    BY <1>1, <1>4, Zenon DEF Expire, Happens, NetRecord
  <2> HIDE DEF f
  <2>3. net' = [brokerOf |-> net.brokerOf, conns |-> net.conns, route |-> net.route,
                brokerAddrs |-> net.brokerAddrs, min |-> f, max |-> net.max, con |-> net.con,
                events |-> net.events + 1]
    BY <1>1, <2>2, Zenon DEF NetRecord
  <2>4. /\ net'.brokerOf = net.brokerOf /\ net'.conns = net.conns
        /\ net'.route = net.route /\ net'.brokerAddrs = net.brokerAddrs
        /\ net'.min = f /\ net'.max = net.max /\ net'.con = net.con
    BY <2>3, Zenon
  <2>5. net' \in NetRecord
    BY <1>1, <2>1, <2>3 DEF NetRecord
  <2> QED
    BY <1>1, <2>1, <2>4, <2>5 DEF SameBrokers, Grown
<1> QED
  BY <1>2, <1>3, <1>4, Zenon

\* Every step of the work and of the brokers keeps the invariant.
LEMMA RouteNextInv == RouteInv /\ [RouteNext]_routeVars => RouteInv'
<1> SUFFICES ASSUME RouteInv, [RouteNext]_routeVars PROVE RouteInv'
  BY Zenon
<1>1. CASE UNCHANGED routeVars
  <2>1. UNCHANGED <<net, go, sample, hist>>
    BY <1>1, Zenon DEF routeVars
  <2>2. go' \in GoRecord /\ RouteTypes' /\ Connected'
    BY <2>1, Zenon DEF RouteInv, RouteTypes, Connected, Online, Connections
  <2>3. Asked'
    BY <2>1, SamplesKept, Zenon DEF RouteInv, Asked
  <2>4. Pulls'
    <3>1. Pullable' = Pullable /\ (\A x : Illegal(x)' = Illegal(x))
      BY <2>1, Zenon DEF Pullable, Entries, Illegal, Master
    <3>2. \A b : SoFar(b)' = SoFar(b)
      BY <2>1, <3>1, Zenon DEF SoFar, OfBroker, AtLeast, AtMost, Oldest, Master
    <3> QED
      BY <2>1, <3>1, <3>2, Zenon DEF RouteInv, Pulls
  <2> QED
    BY <2>1, <2>2, <2>3, <2>4, SamplesKept, Zenon DEF RouteInv
<1>2. CASE ConnRouteError
  BY <1>2, ConnRouteErrorInv, Zenon
<1>3. CASE StatsError
  BY <1>3, EndInv, Zenon DEF StatsError
<1>4. ASSUME NEW b \in Broker, AskNothing(b) PROVE RouteInv'
  BY <1>4, AskNothingInv, Zenon
<1>5. ASSUME NEW b \in Broker, ExamineConsumerConnectionInfoOnBroker(b) PROVE RouteInv'
  BY <1>5, ConnectionInv, Zenon
<1>6. ASSUME NEW b \in Broker, ExamineStatsOnBroker(b) PROVE RouteInv'
  BY <1>6, StatsInv, Zenon
<1>7. CASE CountOnline
  BY <1>7, CountOnlineInv, Zenon
<1>8. CASE PutTopicOffsets
  BY <1>8, PutTopicOffsetsInv, Zenon
<1>9. CASE PutConsumerOffsets
  BY <1>9, PutConsumerOffsetsInv, Zenon
<1>10. ASSUME NEW q \in Queue, Pull(q) PROVE RouteInv'
  BY <1>10, PullInv, Zenon
<1>11. ASSUME NEW q \in Queue, PullAgain(q) PROVE RouteInv'
  BY <1>11, PullAgainInv, Zenon
<1>12. CASE PullError
  BY <1>12, EndInv, Zenon DEF PullError
<1>13. CASE PutLatency
  BY <1>13, PutLatencyInv, Zenon
<1>14. ASSUME go.at # "end", NEW q \in Queue, Produce(q) \/ Consume(q) \/ Expire(q)
       PROVE  RouteInv'
  <2>1. UNCHANGED <<go, sample, hist>>
    BY <1>14, Zenon DEF Produce, Consume, Expire, Happens
  <2> QED
    BY <1>14, <2>1, NetMoves, HappensInv, Zenon
<1> QED
  BY <1>1, <1>2, <1>3, <1>4, <1>5, <1>6, <1>7, <1>8, <1>9, <1>10, <1>11, <1>12, <1>13, Zenon,
     <1>14 DEF RouteNext

-----------------------------------------------------------------------------
(* The theorems.                                                           *)

\* The invariant of the work on topics and pairs.
THEOREM RouteInvariant == RouteSpec => []RouteInv
<1>1. RouteInit(Nets, Fns) => RouteInv
  BY RouteInitInv, Zenon
<1> QED
  BY <1>1, RouteNextInv, PTL DEF RouteSpec

\* The online count stored for a group is the number of the clients of the
\* brokers that answered: one with a ClientId counts once, however many brokers
\* list it and in whatever order, and every connection without one counts.
THEOREM RouteCountsClientsOnce == RouteSpec => []CountsClientsOnce
<1>1. RouteInv => CountsClientsOnce
  BY Zenon DEF RouteInv
<1> QED
  BY <1>1, RouteInvariant, PTL

\* A stored total of the offsets of a broker, and a stored lag of a group, is one
\* that was there between the first question and the answer, whatever is produced
\* and consumed meanwhile and whichever other broker fails.
THEOREM RouteTotalsInWindow == RouteSpec => []TotalsInWindow
<1>1. RouteInv => TotalsInWindow
  BY Zenon DEF RouteInv
<1> QED
  BY <1>1, RouteInvariant, PTL

\* The stored latency of a broker is that of the oldest unread message of its
\* queues, in whatever order they are pulled, whether or not the first pull finds
\* the group's offset deleted, and up to what is stored, consumed and deleted
\* meanwhile.
THEOREM RouteLatencyOfOldest == RouteSpec => []LatencyOfOldest
<1>1. RouteInv => LatencyOfOldest
  BY Zenon DEF RouteInv
<1> QED
  BY <1>1, RouteInvariant, PTL

=============================================================================
