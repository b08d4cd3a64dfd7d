------------------------------ MODULE TtlCache ------------------------------
(***************************************************************************)
(* One metric family's store, ttlCache of internal/collector/store.go: a   *)
(* map under an RWMutex whose entries expire a fixed time after their last *)
(* write.                                                                  *)
(*                                                                         *)
(* put reads the clock with the lock held.  snapshot and sweep read it     *)
(* before they take the lock, so puts and the passage of time come between *)
(* the two: each is two steps.  get and len, which nothing in the exporter *)
(* calls, are left out.                                                    *)
(***************************************************************************)
EXTENDS Integers

CONSTANTS Key, Value,
          Process,   \* the goroutines inside snapshot or sweep
          TTL,       \* ttl
          MaxTime,   \* bound: the last instant of the clock
          None

ASSUME TTLAssumption == TTL \in Nat

ASSUME MaxTimeAssumption == MaxTime \in Nat

Entry == [value : Value, writtenAt : 0 .. MaxTime]

ASSUME NoneAssumption == None \notin Entry

VARIABLES
  clk,   \* the clock
  m,     \* the map, None where there is no entry
  pc,    \* "idle", "snapshot" or "sweep": before the lock is taken
  now,   \* the local now of snapshot or sweep
  out,   \* the live pairs of the last snapshot
  last   \* history: the last put of each key, None before the first

vars == <<clk, m, pc, now, out, last>>

Init ==
  /\ clk = 0
  /\ m = [k \in Key |-> None]
  /\ pc = [p \in Process |-> "idle"]
  /\ now = [p \in Process |-> 0]
  /\ out = [p \in Process |-> {}]
  /\ last = [k \in Key |-> None]

\* now.Sub(e.writtenAt) > c.ttl
Expired(e, t) == t - e.writtenAt > TTL

\* As the clock goes on.
Tick ==
  /\ clk < MaxTime
  /\ clk' = clk + 1
  /\ UNCHANGED <<m, pc, now, out, last>>

-----------------------------------------------------------------------------
Put(k, v) ==
  LET e == [value |-> v, writtenAt |-> clk]
  IN  /\ m' = [m EXCEPT ![k] = e]
      /\ last' = [last EXCEPT ![k] = e]

PutStep ==
  /\ \E k \in Key, v \in Value : Put(k, v)
  /\ UNCHANGED <<clk, pc, now, out>>

\* The clock is read and the lock is asked for.
ReadClock(p, op) ==
  /\ pc[p] = "idle"
  /\ pc' = [pc EXCEPT ![p] = op]
  /\ now' = [now EXCEPT ![p] = clk]
  /\ out' = [out EXCEPT ![p] = {}]
  /\ UNCHANGED <<clk, m, last>>

SnapshotNow(p) == ReadClock(p, "snapshot")

Return(p) ==
  /\ pc' = [pc EXCEPT ![p] = "idle"]
  /\ now' = [now EXCEPT ![p] = 0]

Live(t) == {k \in Key : m[k] # None /\ ~ Expired(m[k], t)}

\* Mutant of Snapshot: what has expired and is not yet swept is returned.
SnapshotUnswept(p) ==
  /\ pc[p] = "snapshot"
  /\ out' = [out EXCEPT ![p] = {<<k, m[k].value>> : k \in {j \in Key : m[j] # None}}]
  /\ Return(p)
  /\ UNCHANGED <<clk, m, last>>

Snapshot(p) ==
  /\ pc[p] = "snapshot"
  /\ out' = [out EXCEPT ![p] = {<<k, m[k].value>> : k \in Live(now[p])}]
  /\ Return(p)
  /\ UNCHANGED <<clk, m, last>>

SweepNow(p) == ReadClock(p, "sweep")

\* Mutant of Sweep: an entry exactly TTL old is taken for expired.
SweepAtTTL(p) ==
  /\ pc[p] = "sweep"
  /\ m' = [k \in Key |-> IF m[k] # None /\ now[p] - m[k].writtenAt >= TTL
                         THEN None ELSE m[k]]
  /\ Return(p)
  /\ UNCHANGED <<clk, out, last>>

Sweep(p) ==
  /\ pc[p] = "sweep"
  /\ m' = [k \in Key |-> IF k \in Live(now[p]) THEN m[k] ELSE None]
  /\ Return(p)
  /\ UNCHANGED <<clk, out, last>>

Next ==
  \/ Tick
  \/ PutStep
  \/ \E p \in Process : SnapshotNow(p) \/ Snapshot(p)
  \/ \E p \in Process : SweepNow(p) \/ Sweep(p)

Spec == Init /\ [][Next]_vars

-----------------------------------------------------------------------------
(* What the cache promises.                                                *)

\* The variables have their types.
TypeOK ==
  /\ clk \in 0 .. MaxTime
  /\ m \in [Key -> Entry \cup {None}]
  /\ pc \in [Process -> {"idle", "snapshot", "sweep"}]
  /\ now \in [Process -> 0 .. MaxTime]
  /\ out \in [Process -> SUBSET (Key \X Value)]
  /\ last \in [Key -> Entry \cup {None}]

\* What was put and has not expired is there, as it was last put: a sweep
\* that read the clock before the entry was written again removes nothing
\* that is live now.
NothingLiveLost ==
  \A k \in Key :
    last[k] # None /\ ~ Expired(last[k], clk) => m[k] = last[k]

\* A snapshot has the last value put of every key live when it took the
\* lock, and nothing that had expired when it was called: the entries that
\* expire in between may be in it, no other.
SnapshotInWindow ==
  [][\A p \in Process : Snapshot(p) =>
       LET live(t) == {<<k, last[k].value>> :
                         k \in {j \in Key : last[j] # None
                                            /\ ~ Expired(last[j], t)}}
       IN  live(clk) \subseteq out'[p] /\ out'[p] \subseteq live(now[p])]_vars

=============================================================================
