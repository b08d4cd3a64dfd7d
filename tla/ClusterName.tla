---------------------------- MODULE ClusterName -----------------------------
(***************************************************************************)
(* The cluster name that the collection jobs share: CollectTask.cluster of *)
(* internal/task/collect.go.                                               *)
(*                                                                         *)
(* The cron fires the jobs in goroutines of their own, and by default at   *)
(* the same second; cluster reads and writes t.clusterName without a lock. *)
(* A Go string is two words, its data pointer and its length, loaded and   *)
(* stored one at a time, in an order the compiler chooses; each word is    *)
(* modelled by the name it belongs to, None for the empty string.          *)
(***************************************************************************)
CONSTANTS Job,    \* the jobs that call cluster
          Name,   \* the names in ClusterAddrTable
          None

Words == {"ptr", "len"}

Empty == [w \in Words |-> None]

VARIABLES
  clusterName,  \* the words of t.clusterName
  pc,           \* "idle", "check", "fetch", "store" or "return"
  words,        \* the words the job has still to store or to load
  name          \* what it stores, or has loaded

vars == <<clusterName, pc, words, name>>

Init ==
  /\ clusterName = Empty
  /\ pc = [j \in Job |-> "idle"]
  /\ words = [j \in Job |-> {}]
  /\ name = [j \in Job |-> Empty]

Goto(j, l, W) ==
  /\ pc' = [pc EXCEPT ![j] = l]
  /\ words' = [words EXCEPT ![j] = W]

\* A job is fired and calls cluster; its last result is forgotten.
Call(j) ==
  /\ pc[j] = "idle"
  /\ Goto(j, "check", {})
  /\ name' = [name EXCEPT ![j] = Empty]
  /\ UNCHANGED clusterName

\* t.clusterName != "" compares the length.
Check(j) ==
  /\ pc[j] = "check"
  /\ IF clusterName["len"] # None
     THEN Goto(j, "return", Words)
     ELSE Goto(j, "fetch", {})
  /\ UNCHANGED <<clusterName, name>>

\* The call fails: cluster returns the error.
FetchError(j) ==
  /\ pc[j] = "fetch"
  /\ Goto(j, "idle", {})
  /\ UNCHANGED <<clusterName, name>>

\* The name server lists no cluster: nothing is stored.
FetchEmpty(j) ==
  /\ pc[j] = "fetch"
  /\ Goto(j, "return", Words)
  /\ UNCHANGED <<clusterName, name>>

\* The first name of the map, in an order that is random in Go.
Fetch(j) ==
  /\ pc[j] = "fetch"
  /\ \E n \in Name : name' = [name EXCEPT ![j] = [w \in Words |-> n]]
  /\ Goto(j, "store", Words)
  /\ UNCHANGED clusterName

\* t.clusterName = name, a word at a time.
Store(j) ==
  /\ pc[j] = "store"
  /\ \E w \in words[j] :
       /\ clusterName' = [clusterName EXCEPT ![w] = name[j][w]]
       /\ IF words[j] = {w} THEN Goto(j, "return", Words)
                            ELSE Goto(j, "store", words[j] \ {w})
  /\ UNCHANGED name

\* return t.clusterName, a word at a time.
Return(j) ==
  /\ pc[j] = "return"
  /\ \E w \in words[j] :
       /\ name' = [name EXCEPT ![j][w] = clusterName[w]]
       /\ IF words[j] = {w} THEN Goto(j, "idle", {})
                            ELSE Goto(j, "return", words[j] \ {w})
  /\ UNCHANGED clusterName

Step(j) ==
  \/ Check(j) \/ FetchError(j) \/ FetchEmpty(j) \/ Fetch(j)
  \/ Store(j) \/ Return(j)

Next == \E j \in Job : Call(j) \/ Step(j)

Spec == Init /\ [][Next]_vars

-----------------------------------------------------------------------------
\* What cluster returns is the name of a cluster, or empty.
ReturnsAName ==
  \A j \in Job : pc[j] = "idle" => name[j]["ptr"] = name[j]["len"]

=============================================================================
