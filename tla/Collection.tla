----------------------------- MODULE Collection -----------------------------
(***************************************************************************)
(* What the collection jobs put into the store and what a scrape shows of  *)
(* it: the rounds of a job against the clock and the store (CollectRounds  *)
(* over TtlCache), the jobs that go over the brokers (BrokerJobs) and the  *)
(* work on a topic or on a pair (RouteJobs).                               *)
(*                                                                         *)
(* The three write different families and share no state, so a behaviour   *)
(* is one of them, the other two at rest.                                  *)
(***************************************************************************)
EXTENDS CollectRounds, BrokerJobs, RouteJobs

VARIABLE part   \* "rounds", "broker" or "route"

collectionVars == <<part, allVars, brokerVars, routeVars>>

AnyOf(S) == {CHOOSE x \in S : TRUE}

\* A topic looks at no connection and pulls nothing.  A pair looks at the
\* connections first and never again: they are of interest when there is no
\* message, and with messages there need be none.
NoClients(n) == n.conns = [b \in Broker |-> {}]

TopicNets == {n \in Nets : NoClients(n) /\ n.brokerAddrs = {}}

PairNets ==
  {n \in Nets : \/ NoClients(n)
                \/ /\ n.max = n.min /\ n.brokerAddrs = {}
                   /\ n.brokerOf \in AnyOf([Queue -> Broker])}

BrokersAtRest == BrokerInit(AnyOf(Tables), AnyOf(Jobs))

RouteAtRest == RouteInit(AnyOf(TopicNets), {"topic"})

CollectionInit ==
  \/ /\ part = "rounds"
     /\ RInit /\ BrokersAtRest /\ RouteAtRest
  \/ /\ part = "broker"
     /\ RInit /\ world \in AnyOf(Series)
     /\ BrokerInit(Tables, Jobs) /\ RouteAtRest
  \/ /\ part = "route"
     /\ RInit /\ world \in AnyOf(Series)
     /\ BrokersAtRest
     /\ RouteInit(TopicNets, {"topic"}) \/ RouteInit(PairNets, {"pair"})

CollectionNext ==
  \/ part = "rounds" /\ RNext /\ UNCHANGED <<part, brokerVars, routeVars>>
  \/ part = "broker" /\ BrokerNext /\ UNCHANGED <<part, allVars, routeVars>>
  \/ part = "route" /\ RouteNext /\ UNCHANGED <<part, allVars, brokerVars>>

CollectionSpec == CollectionInit /\ [][CollectionNext]_collectionVars

=============================================================================
