---------------------------- MODULE MCCollection ----------------------------
(* Instances of Collection for TLC.                                        *)
EXTENDS Collection, TLC

CONSTANTS k1, k2, v1, v2

\* Two series of a family, one key each.
SeriesTwo == {<<k1, v1>>, <<k2, v2>>}

\* A series that keeps its key and its value.
SeriesOne == {<<k1, v1>>}

\* Brokers with room on the disk write the free space in one of the larger
\* units, with a full stop after it.
FreeUnitRoom == {<<"G", "iB.">>}

\* A broker whose disk is full writes "0 B.".
FreeUnitFull == FreeUnitRoom \cup {<<"B", ".">>}

\* The second message of a queue is stored when the exporter's clock has not
\* come so far.
StampOdd == [q \in Queue |-> [o \in 0 .. MaxOffset |-> 2 * o + 1]]

Symmetry ==
  Permutations(Broker) \cup Permutations(Queue)
    \cup Permutations(BrokerName) \cup Permutations(Addr)

=============================================================================
