---------------------------- MODULE RuntimeStats ----------------------------
(***************************************************************************)
(* How the runtime table of a broker is read: NewBrokerRuntimeStats of     *)
(* internal/model/broker_runtime_stats.go and MachineReadableByteCount of  *)
(* internal/util/utils.go.                                                 *)
(*                                                                         *)
(* A table of strings becomes a record of numbers or an error.  A string   *)
(* is seen as the tokens it splits into, and a token as what strconv makes *)
(* of it: "num", or "bad", which an absent key counts as where the key is  *)
(* required.  What matters is which fault gives an error, which is passed  *)
(* over, and which panics.                                                 *)
(***************************************************************************)
EXTENDS Integers, Sequences

CONSTANT FreeUnit   \* the units in which brokers write the free space

\* getString, parseInt64, parseInt, parseFloat64 and their variants.
Parse(v) == IF v = "num" THEN "ok" ELSE "error"

\* The text "null" and pairs without a colon are passed over.
loadPutMessageDistributeTime(pairs) ==
  IF \E i \in DOMAIN pairs : pairs[i] = "notint" THEN "error" ELSE "ok"

\* An absent value leaves zeroes, and so does an empty first token; tokens
\* after the third are not looked at.
loadTps(arr) ==
  IF \A i \in DOMAIN arr \cap 1 .. 3 : arr[i] = "num" \/ (i = 1 /\ arr[i] = "")
  THEN "ok" ELSE "error"

\* A unit is its first byte and the rest.
MachineReadableByteCount(base, unit) ==
  IF base = "num" /\ (unit = <<"B", "">>
                      \/ unit[1] \in {"K", "M", "G", "T", "P", "E"})
  THEN "ok" ELSE "panic"

\* First of a sequence of results that is not "ok", else "ok".
FirstFault(results) ==
  LET faults == SelectSeq(results, LAMBDA r : r # "ok")
  IN  IF faults = <<>> THEN "ok" ELSE Head(faults)

\* "Total : 926.3 GiB, Free : 750.9 GiB." has eight words.
loadCommitLogDirCapacity(c) ==
  IF c.words < 8 THEN "error"
  ELSE FirstFault(<<MachineReadableByteCount(c.total, <<"G", "iB">>),
                    MachineReadableByteCount(c.free, c.unit)>>)

\* The loaders in the order of the code; the first fault decides.
NewBrokerRuntimeStats(kv) ==
  FirstFault(<<Parse(kv.msgPutTotalTodayNow),
               loadPutMessageDistributeTime(kv.putMessageDistributeTime),
               loadTps(kv.tps),
               loadCommitLogDirCapacity(kv.commitLogDirCapacity),
               Parse(kv.rest)>>)

\* PutMessageDistributeTimeMap has an entry.
Distributed(kv) ==
  \E i \in DOMAIN kv.putMessageDistributeTime :
    kv.putMessageDistributeTime[i] = "pair"

\* The tables a broker may answer with.  One number stands for all that are
\* read the same way: tps for the five rates, rest for what follows the
\* capacity.
KVTable ==
  [msgPutTotalTodayNow : {"num", "bad"},
   putMessageDistributeTime : {<<>>, <<"nocolon">>, <<"pair", "notint">>,
                               <<"pair", "pair">>},
   tps : {<<>>, <<"num", "num", "num">>, <<"", "num">>, <<"num", "">>},
   commitLogDirCapacity : [words : {1, 8}, total : {"num"}, free : {"num"},
                           unit : FreeUnit],
   rest : {"num", "bad"}]

\* What FetchBrokerRuntimeStats may come to: the call fails, or the table is
\* read.
FetchBrokerRuntimeStats ==
  {[result |-> "error", distributed |-> FALSE]}
    \cup {[result |-> NewBrokerRuntimeStats(kv), distributed |-> Distributed(kv)] :
            kv \in KVTable}

=============================================================================
