---------------------------- MODULE RemotingCodec ---------------------------
(***************************************************************************)
(* A command and its frame on the wire: internal/rmqremote/codec.go, with  *)
(* the signature of acl.go.                                                *)
(*                                                                         *)
(* A frame is a sequence of bytes.  Numbers are written in bytes below     *)
(* Base; a byte of a text is any value, and a JSON header, which the JSON  *)
(* library writes and reads, is a single one.  A key of the ext fields is  *)
(* one byte, its place in the lexicographic order of the keys.  A result   *)
(* that may be an error is a set: empty, or of the one value.              *)
(***************************************************************************)
EXTENDS Integers, Sequences, FiniteSetsExt

CONSTANT Base   \* of a byte: 256 in the code

ASSUME BaseAssumption == Base \in Nat \ {0, 1}

JsonCodecs == 0
RocketMQCodecs == 1

Go == 9
Unknown == 127 % Base

AccessKey == 1
SecurityToken == 2
Signature == 3

\* The weights of the bytes of a number, the last one first; that of a fifth
\* is the first number that four bytes cannot hold.
Weight == <<1, Base, Base * Base, Base * Base * Base, Base * Base * Base * Base>>

\* binary.BigEndian, of w bytes, for signed numbers.
PutInt(n, w) == [k \in 1 .. w |-> (n \div Weight[w - k + 1]) % Base]

Unsigned(s) ==
  LET U[k \in 0 .. Len(s)] == IF k = 0 THEN 0 ELSE U[k - 1] * Base + s[k]
  IN  U[Len(s)]

Signed(s) ==
  LET u == Unsigned(s)
      all == Weight[Len(s) + 1]
  IN  IF 2 * u >= all THEN u - all ELSE u

\* The fields of a map in any order, and in that of their keys.
Orders(S) == Bijection(1 .. Cardinality(S), S)

Sorted(S) ==
  CHOOSE order \in Orders(S) :
    \A j, k \in 1 .. Cardinality(S) : j < k => order[j] < order[k]

\* f of the keys in order, one after the other.
Concat(f, order) ==
  LET C[k \in 0 .. Len(order)] == IF k = 0 THEN <<>> ELSE C[k - 1] \o f[order[k]]
  IN  C[Len(order)]

\* ext[key] = value
Put(ext, key, value) ==
  [k \in {key} \cup DOMAIN ext |-> IF k = key THEN value ELSE ext[k]]

-----------------------------------------------------------------------------
(* The signature.                                                          *)

\* A signature is known by the secret and the text it is of.
calculateSignature(data, secretKey) == << <<"HMAC", secretKey, data>> >>

Attach(cmd, accessKey, signature) ==
  [cmd EXCEPT !.ext = Put(Put(@, Signature, signature), AccessKey, accessKey)]

\* Mutant of SignACL: the access key is attached after the text is signed.
SignThenAttach(cmd, accessKey, secretKey) ==
  LET order == Sorted(DOMAIN cmd.ext \ {AccessKey, Signature})
      text == Concat(cmd.ext, order) \o cmd.body
  IN  Attach(cmd, accessKey, calculateSignature(text, secretKey))

\* The values in the order of their keys, and the body.
SignACL(cmd, accessKey, secretKey) ==
  LET fields == Put(cmd.ext, AccessKey, accessKey)
      order == Sorted(DOMAIN fields \ {Signature})
      text == Concat(fields, order) \o cmd.body
  IN  Attach(cmd, accessKey, calculateSignature(text, secretKey))

-----------------------------------------------------------------------------
(* The header of RocketMQ's own protocol.                                  *)

\* A field of a map: the key and the value with their lengths.
Field(key, value) == PutInt(1, 2) \o <<key>> \o PutInt(Len(value), 4) \o value

\* The order of the fields is that in which the map is ranged over.
encodeMaps(ext, order) == Concat([k \in DOMAIN ext |-> Field(k, ext[k])], order)

encodeRocketMQ(cmd, order) ==
  LET ext == encodeMaps(cmd.ext, order)
  IN  PutInt(cmd.code, 2) \o <<Go % Base>> \o PutInt(cmd.version, 2)
        \o PutInt(cmd.opaque, 4) \o PutInt(cmd.flag, 4)
        \o PutInt(Len(cmd.remark), 4) \o cmd.remark
        \o PutInt(Len(ext), 4) \o ext

\* One turn of the loop over the fields: s has the next byte and the map.
\* No sender writes a negative length, on which the code would panic.
decodeField(data, s) ==
  LET vAt == s.at + 2 + Unsigned(SubSeq(data, s.at, s.at + 1))
      next == vAt + 4 + Unsigned(SubSeq(data, vAt, vAt + 3))
  IN  IF Len(data) < s.at + 1 \/ Len(data) < vAt + 3 \/ Len(data) < next - 1 THEN {}
      ELSE {[at |-> next,
             ext |-> Put(s.ext, data[s.at + 2], SubSeq(data, vAt + 4, next - 1))]}

\* The maps that the bytes of data say, one if they are whole.
decodeMaps(data) ==
  LET Turn[n \in 0 .. Len(data)] ==
        IF n = 0 THEN {[at |-> 1, ext |-> <<>>]}
        ELSE UNION {IF s.at > Len(data) THEN {s} ELSE decodeField(data, s) : s \in Turn[n - 1]}
  IN  {s.ext : s \in Turn[Len(data)]}

\* A text or a map whose length is 0 or less is not there.
decodeRocketMQ(data) ==
  LET length(at) == Signed(SubSeq(data, at, at + 3))
      len(at) == IF length(at) > 0 THEN length(at) ELSE 0
      eAt == 18 + len(14)
      end == eAt + 3 + len(eAt)
  IN  IF Len(data) < 17 \/ Len(data) < eAt + 3 \/ Len(data) < end THEN {}
      ELSE {[code |-> Signed(SubSeq(data, 1, 2)), language |-> data[3],
             version |-> Signed(SubSeq(data, 4, 5)),
             opaque |-> Signed(SubSeq(data, 6, 9)),
             flag |-> Signed(SubSeq(data, 10, 13)),
             remark |-> SubSeq(data, 18, eAt - 1), ext |-> ext, body |-> <<>>] :
              ext \in decodeMaps(SubSeq(data, eAt + 4, end))}

-----------------------------------------------------------------------------
(* The JSON header.  MarshalJSON writes GO as the language; UnmarshalJSON   *)
(* knows no other.                                                         *)

encodeJSON(cmd) == << [cmd EXCEPT !.language = "GO", !.body = <<>>] >>

decodeJSON(data) ==
  {[h EXCEPT !.language = IF @ = "GO" THEN Go ELSE Unknown] : h \in Range(data)}

-----------------------------------------------------------------------------
(* The frame.                                                              *)

markProtocolType(type, n) == <<type>> \o PutInt(n, 3)

encodeHeader(cmd, type, order) ==
  IF type = JsonCodecs THEN encodeJSON(cmd) ELSE encodeRocketMQ(cmd, order)

encode(cmd, type, order) ==
  LET header == encodeHeader(cmd, type, order)
  IN  PutInt(4 + Len(header) + Len(cmd.body), 4)
        \o markProtocolType(type, Len(header)) \o header \o cmd.body

\* The frame without its size.
decode(data) ==
  LET end == 4 + Unsigned(SubSeq(data, 2, 4))
      header == SubSeq(data, 5, end)
  IN  IF Len(data) < 4 \/ Len(data) < end THEN {}
      ELSE {[cmd EXCEPT !.body = SubSeq(data, end + 1, Len(data))] : cmd \in
              CASE data[1] = JsonCodecs     -> decodeJSON(header)
                [] data[1] = RocketMQCodecs -> decodeRocketMQ(header)
                [] OTHER                    -> {}}

\* Mutant of ReadFrame: what has arrived is taken for the payload.
ReadAvailable(stream) ==
  LET length == Signed(SubSeq(stream, 1, 4))
  IN  IF Len(stream) < 5 \/ length <= 0 THEN [resp |-> {}, rest |-> <<>>]
      ELSE [resp |-> decode(SubSeq(stream, 5, Min({4 + length, Len(stream)}))),
            rest |-> SubSeq(stream, 5 + length, Len(stream))]

\* invokeOnConn reads a frame from what the connection delivers before it
\* ends or the deadline passes.
ReadFrame(stream) ==
  LET length == Signed(SubSeq(stream, 1, 4))
  IN  IF Len(stream) < 4 \/ length <= 0 \/ Len(stream) < 4 + length
      THEN [resp |-> {}, rest |-> <<>>]
      ELSE [resp |-> decode(SubSeq(stream, 5, 4 + length)),
            rest |-> SubSeq(stream, 5 + length, Len(stream))]

=============================================================================
