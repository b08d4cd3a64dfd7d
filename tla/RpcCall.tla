------------------------------- MODULE RpcCall ------------------------------
(***************************************************************************)
(* One call of the admin client from the request to the parsed answer:     *)
(* invokeSyncNamesrv and invokeSyncBroker of internal/service/admin.go     *)
(* over RemotingCodec and, for the body of the answer, NormalizeKeys.      *)
(*                                                                         *)
(* The call is signed and encoded; the server decodes it and answers; the  *)
(* client reads as much of the answer as arrives.  Connections, deadlines  *)
(* and retries are those of module RemotingClient.                         *)
(***************************************************************************)
EXTENDS RemotingCodec, NormalizeKeys

CONSTANTS Request,    \* [type, code, ext]: the commands the client sends
          Reply,      \* [type, code, remark, ext, body, std]: the answers
          Opaque,     \* values of the counter before the call
          Credential  \* {} or {[accessKey, secretKey]}

VARIABLES
  phase,    \* "call", "sent", "received", "answer", "read", "decoded", "body"
            \* or "end"
  cmd,      \* the command at the side that has it, {} for none
  meant,    \* history: what the sender of the last frame meant, and its body
            \* in standard JSON
  wire      \* the bytes on the connection

callVars == <<phase, cmd, meant, wire>>

scanVars == vars

Command(code, opaque, flag, remark, ext, body) ==
  [code |-> code, language |-> Go, version |-> 317 % Base, opaque |-> opaque,
   flag |-> flag, remark |-> remark, ext |-> ext, body |-> body]

CallInit ==
  /\ phase = "call"
  /\ cmd = {} /\ meant = <<>> /\ wire = <<>>
  /\ Init /\ b = <<>> /\ standard = <<>>

\* The next value of the counter: it wraps as an int32.
NextOpaque(n) == Signed(PutInt(n + 1, 4))

NewRemotingCommand(r, n) == Command(r.code, NextOpaque(n), 0, <<>>, r.ext, <<>>)

signIfACL(c) ==
  IF Credential = {} THEN c
  ELSE LET a == CHOOSE a \in Credential : TRUE
       IN  SignACL(c, a.accessKey, a.secretKey)

\* The command that answers.
NewResponse(r) == Command(r.code, 1, 1, r.remark, r.ext, r.body)

-----------------------------------------------------------------------------
(* What a frame can hold.  The code checks none of it: a code is an int16   *)
(* by its type, and the commands of the client and the answers that a      *)
(* server frames are far from the limits of a length.                      *)

\* A signed number of w bytes.
Fits(n, w) == n \in Int /\ - Weight[w + 1] <= 2 * n /\ 2 * n < Weight[w + 1]

IsText(s) == Len(s) \in Nat /\ s = [k \in 1 .. Len(s) |-> s[k]]

\* A map from keys to texts.
IsMap(ext) ==
  /\ IsFiniteSet(DOMAIN ext) /\ DOMAIN ext \subseteq Int
  /\ ext = [k \in DOMAIN ext |-> ext[k]]
  /\ \A k \in DOMAIN ext : IsText(ext[k])

\* The header has a length of three bytes, the frame one of four that is
\* not negative, and a code in RocketMQ's own protocol one of two.
Sendable(c, type) ==
  /\ type \in {JsonCodecs, RocketMQCodecs}
  /\ IsMap(c.ext) /\ IsText(c.remark) /\ IsText(c.body)
  /\ type = RocketMQCodecs => Fits(c.code, 2)
  /\ \A order \in Orders(DOMAIN c.ext) :
       LET header == encodeHeader(c, type, order)
       IN  /\ Len(header) < Weight[4]
           /\ 2 * (4 + Len(header) + Len(c.body)) < Weight[5]

ASSUME SendableAssumption ==
  /\ Opaque \subseteq Int
  /\ \A r \in Request, n \in Opaque :
       /\ IsMap(r.ext)
       /\ Sendable(signIfACL(NewRemotingCommand(r, n)), r.type)
  /\ \A r \in Reply : Sendable(NewResponse(r), r.type)

\* A client has the credentials of one user, or none.
ASSUME CredentialAssumption == \A a, c \in Credential : a = c

-----------------------------------------------------------------------------
Invoke(r, n) ==
  /\ LET c == NewRemotingCommand(r, n)
     IN  /\ meant' = c
         /\ \E order \in Orders(DOMAIN signIfACL(c).ext) :
              wire' = encode(signIfACL(c), r.type, order)
  /\ phase' = "sent"
  /\ UNCHANGED <<scanVars, cmd>>

\* The server has the whole frame.
Receive ==
  /\ phase = "sent"
  /\ cmd' = ReadFrame(wire).resp
  /\ wire' = ReadFrame(wire).rest
  /\ phase' = "received"
  /\ UNCHANGED <<scanVars, meant>>

\* It does what the command says.
Handle ==
  /\ phase = "received"
  /\ cmd' = {} /\ meant' = <<>> /\ wire' = <<>>
  /\ phase' = "answer"
  /\ UNCHANGED scanVars

Answer(r) ==
  /\ LET c == NewResponse(r)
     IN  /\ meant' = Put(c, "std", r.std)
         /\ \E order \in Orders(DOMAIN c.ext) : wire' = encode(c, r.type, order)
  /\ phase' = "read"
  /\ UNCHANGED <<scanVars, cmd>>

\* Any number of bytes arrive.
InvokeSync ==
  /\ phase = "read"
  /\ \E n \in 0 .. Len(wire) :
       LET read == ReadFrame(SubSeq(wire, 1, n))
       IN  cmd' = read.resp /\ wire' = read.rest
  /\ phase' = "decoded"
  /\ UNCHANGED <<scanVars, meant>>

\* An error, a code that is not ResponseSuccess, an empty body, or a body
\* to unmarshal.
Unmarshal ==
  /\ phase = "decoded"
  /\ LET bodies == {c.body : c \in {d \in cmd : d.code = 0 /\ d.body # <<>>}}
     IN  IF bodies = {} THEN phase' = "end" /\ UNCHANGED <<b, standard>>
         ELSE phase' = "body" /\ b' \in bodies /\ standard' = meant.std
  /\ cmd' = {} /\ meant' = <<>>
  /\ UNCHANGED <<wire, i, out, stack, st, inString, escaped, returned>>

UnmarshalJSON == phase = "body" /\ Next /\ UNCHANGED callVars

\* The caller has its answer, or the error.
Ended == phase = "end" /\ UNCHANGED <<scanVars, callVars>>

CallNext ==
  \/ phase = "call" /\ \E r \in Request, n \in Opaque : Invoke(r, n)
  \/ Receive \/ Handle
  \/ phase = "answer" /\ \E r \in Reply : Answer(r)
  \/ InvokeSync \/ Unmarshal
  \/ UnmarshalJSON
  \/ Ended

CallSpec == CallInit /\ [][CallNext]_<<scanVars, callVars>>

-----------------------------------------------------------------------------
(* What a call promises.                                                   *)

\* What a server with access control looks at: the signature is that of all
\* the other fields it received, in order, and of the body.
Verifies(c, a) ==
  LET text == Concat(c.ext, Sorted(DOMAIN c.ext \ {Signature})) \o c.body
  IN  /\ AccessKey \in DOMAIN c.ext /\ c.ext[AccessKey] = a.accessKey
      /\ Signature \in DOMAIN c.ext
      /\ c.ext[Signature] = calculateSignature(text, a.secretKey)

\* The server gets the command that the caller meant, in either protocol
\* and for every value of the counter; if the client has credentials, the
\* signature that came with it is that of what was received.
RequestUnderstood ==
  phase = "received" =>
    \E c \in cmd :
      /\ \A f \in {"code", "opaque", "flag", "remark", "body"} : c[f] = meant[f]
      /\ \A k \in DOMAIN meant.ext \ {AccessKey, Signature} :
           k \in DOMAIN c.ext /\ c.ext[k] = meant.ext[k]
      /\ \A a \in Credential : Verifies(c, a)

\* A call ends with an error or with the whole answer of the server, its
\* code and remark included, wherever the connection ends; and an answer
\* leaves nothing on the connection for the next call to read.
AnswerWholeOrError ==
  phase = "decoded" =>
    \A c \in cmd :
      /\ wire = <<>>
      /\ \A f \in {"code", "opaque", "flag", "remark", "ext", "body"} :
           c[f] = meant[f]

=============================================================================
