------------------------------ MODULE MCRpcCall -----------------------------
(* Requests with and without fields, one of them with a token; answers with *)
(* every kind of header.  The bodies are about 8000 documents two           *)
(* containers deep inside a container, with keys of every kind, and every   *)
(* body of at most three bytes.                                             *)
EXTENDS RpcCall, BrokerJson

MCText == {Verbatim(Quoted(s)) : s \in {<<>>, <<"k">>, <<"{">>, <<"\\", "\"">>,
                                       <<"\\", "\\">>, <<",", "1", ":">>}}

MCScalar == {Verbatim(<<"-", "1", "+", "0">>), Verbatim(<<"t", "k">>),
             Verbatim(<<" ", "0">>)} \cup MCText

\* A queue as a key: an object whose values are texts and numbers.
MCQueue ==
  {Object(<<Member(Verbatim(Quoted(<<"k">>)), v)>>) : v \in MCScalar}
    \cup {Object(<<Member(Verbatim(Quoted(<<"n">>)), Verbatim(<<"1">>)),
                   Member(Verbatim(Quoted(<<"k">>)), v)>>) : v \in MCText}

MCKey ==
  {Verbatim(Quoted(<<"k">>)), Verbatim(Quoted(<<"\\", "\"", "{">>)),
   BareKey(Verbatim(<<"0">>)), BareKey(Verbatim(<<"-", "1", "0">>))}
    \cup {BareKey(q) : q \in MCQueue}
    \cup {BareKey(Array(<<q>>)) : q \in MCText}

\* Objects and arrays of scalars.
MCFlat ==
  {Object(<<>>), Array(<<>>)}
    \cup {Array(<<v, w>>) : v \in MCScalar, w \in MCText}
    \cup {Object(<<Member(k, v)>>) : k \in MCKey, v \in MCScalar}

MCDocument ==
  {Object(<<Member(k, v)>>) : k \in MCKey, v \in MCFlat}
    \cup {Object(<<Member(k, Verbatim(<<"1">>)), Member(l, v)>>) :
            k \in {BareKey(Verbatim(<<"0">>)), Verbatim(Quoted(<<"k">>))},
            l \in MCKey, v \in {Object(<<>>), Array(<<>>)} \cup MCText}
    \cup {Array(<<v, w, Verbatim(<<"0">>)>>) : v \in MCFlat, w \in {Array(<<>>), Verbatim(<<"1">>)}}

MCByte == {"{", "}", "[", "]", ":", ",", "\"", "\\", "1", "t", " ", "+"}

MCGarbage == UNION {[1 .. n -> MCByte] : n \in 0 .. 3}

-----------------------------------------------------------------------------

MCRequest ==
  {[type |-> t, code |-> c, ext |-> e] :
     t \in {JsonCodecs, RocketMQCodecs}, c \in {1, 7},
     e \in {<<>>, 0 :> <<"g">>, 5 :> <<>>, (5 :> <<"t", "u">>) @@ (4 :> <<"g">>),
            (SecurityToken :> <<"t">>) @@ (7 :> <<"o">>),
            (AccessKey :> <<"x">>) @@ (Signature :> <<"y">>)}}

MCReplyHeader ==
  {[type |-> t, code |-> c, remark |-> r, ext |-> e, body |-> d, std |-> <<>>] :
     t \in {JsonCodecs, RocketMQCodecs}, c \in {0, 1}, r \in {<<>>, <<"n", "o">>},
     e \in {<<>>, 5 :> <<>>, (5 :> <<"x">>) @@ (6 :> <<"y", "z">>)},
     d \in {<<>>, <<"t">>}}

MCReplyBody ==
  {[type |-> JsonCodecs, code |-> 0, remark |-> <<>>, ext |-> <<>>,
    body |-> d.raw, std |-> d.std] :
     d \in MCDocument \cup {[raw |-> g, std |-> <<>>] : g \in MCGarbage}}

MCReply == MCReplyHeader \cup MCReplyBody

\* The counter at its start and at the end of its range.
MCOpaque == {0, 7, Base^4 \div 2 - 1}

MCCredential == {[accessKey |-> <<"a">>, secretKey |-> "secret"]}

=============================================================================
