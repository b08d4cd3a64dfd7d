----------------------------- MODULE BrokerJson -----------------------------
(***************************************************************************)
(* What a broker writes as the body of an answer, and the same document in *)
(* standard JSON: fastjson leaves the keys of a Map<Long, V> and of a      *)
(* Map<MessageQueue, V> without quotes.  A document is a record of the     *)
(* bytes of the two, raw and std.                                          *)
(***************************************************************************)
EXTENDS NormalizeKeys, SequencesExt

Verbatim(s) == [raw |-> s, std |-> s]

Joined(ds, open, close) ==
  LET all(f(_)) ==
        <<open>> \o FlattenSeq([j \in 1 .. Len(ds) |->
                      IF j = 1 THEN f(ds[j]) ELSE <<",">> \o f(ds[j])]) \o <<close>>
  IN  [raw |-> all(LAMBDA d : d.raw), std |-> all(LAMBDA d : d.std)]

Array(ds) == Joined(ds, "[", "]")

Object(members) == Joined(members, "{", "}")

Member(k, v) == [raw |-> k.raw \o <<":">> \o v.raw, std |-> k.std \o <<":">> \o v.std]

\* A key without quotes is, in standard JSON, the string literal that
\* decodes to the bytes of the key.
BareKey(d) ==
  [raw |-> d.raw,
   std |-> Quoted(FlattenSeq([j \in 1 .. Len(d.raw) |->
             IF d.raw[j] \in {"\"", "\\"} THEN <<"\\", d.raw[j]>> ELSE <<d.raw[j]>>]))]

=============================================================================
