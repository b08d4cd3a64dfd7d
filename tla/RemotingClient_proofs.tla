------------------------ MODULE RemotingClient_proofs ------------------------
(***************************************************************************)
(* The connection pool hands a connection to one caller at a time and      *)
(* never mixes answers up, for any number of callers, addresses,           *)
(* connections and requests, and with a Shutdown at any moment.            *)
(*                                                                         *)
(* The inductive invariant and its induction in three parts: the types and *)
(* the locals of the calls; that every step keeps a connection with one    *)
(* owner at most, open exactly while it has one, and with callers and      *)
(* channels of its own address; and the streams.                           *)
(***************************************************************************)
EXTENDS RemotingClient, TLAPS

\* Which locals of InvokeSync are set where, and which channel belongs to
\* which address.
Locals ==
  /\ \A c \in Caller :
       /\ pc[c] = "idle" <=> req[c] = None
       /\ pc[c] = "idle" <=> addr[c] = None
       /\ pc[c] \in {"receive", "send"} <=> ch[c] # None
       /\ pc[c] \in {"write", "read", "put", "send"} <=> conn[c] # None
       /\ pc[c] \in {"put", "send"} => resp[c] = req[c]
       /\ ch[c] # None => chanAddr[ch[c]] = addr[c]
  /\ \A a \in Addr : pools[a] # None => chanAddr[pools[a]] = a
  /\ \A h \in Chan : chanAddr[h] = None => chan[h] = <<>>

\* The answers and the state of the streams that give them.
Streams == QuietUnlessReading /\ NoCrossTalk

IInv == TypeOK /\ Locals /\ OneOwner /\ OpenIffOwned /\ RightPeer /\ Streams

-----------------------------------------------------------------------------
(* Facts about channels.                                                   *)

LEMMA FreshIsMember ==
  ASSUME NEW S, S # {}
  PROVE  Fresh(S) \in S
  BY Zenon DEF Fresh

\* A receive removes the head and nothing else.
LEMMA ReceiveElems ==
  ASSUME NEW S, NEW s \in Seq(S), s # <<>>, Distinct(s)
  PROVE  /\ Head(s) \in S
         /\ Tail(s) \in Seq(S)
         /\ Len(Tail(s)) < Len(s)
         /\ Head(s) \in Elems(s)
         /\ Elems(Tail(s)) = Elems(s) \ {Head(s)}
         /\ Distinct(Tail(s))
<1>1. /\ Len(s) \in Nat /\ Len(s) >= 1
      /\ Head(s) = s[1] /\ Head(s) \in S
      /\ Tail(s) \in Seq(S)
      /\ Len(Tail(s)) = Len(s) - 1
      /\ \A i \in 1..(Len(s) - 1) : Tail(s)[i] = s[i + 1]
  OBVIOUS
<1>2. ASSUME NEW x \in Elems(Tail(s)) PROVE x \in Elems(s) \ {Head(s)}
  <2>1. PICK i \in 1..(Len(s) - 1) : x = s[i + 1]
    BY <1>1, <1>2, Zenon DEF Elems
  <2>2. i + 1 \in 1..Len(s) /\ 1 \in 1..Len(s) /\ i + 1 # 1
    BY <1>1
  <2>3. x # Head(s)
    BY <1>1, <2>1, <2>2, Zenon DEF Distinct
  <2> QED
    BY <2>1, <2>2, <2>3, Zenon DEF Elems
<1>3. ASSUME NEW x \in Elems(s) \ {Head(s)} PROVE x \in Elems(Tail(s))
  <2>1. PICK i \in 1..Len(s) : x = s[i]
    BY <1>3, Zenon DEF Elems
  <2>2. i - 1 \in 1..(Len(s) - 1) /\ (i - 1) + 1 = i
    BY <1>1, <1>3, <2>1
  <2>3. Tail(s)[i - 1] = s[i]
    BY <1>1, <2>2, Zenon
  <2> QED
    BY <1>1, <2>1, <2>2, <2>3, Zenon DEF Elems
<1>4. Distinct(Tail(s))
  <2> SUFFICES ASSUME NEW i \in 1..(Len(s) - 1), NEW j \in 1..(Len(s) - 1), s[i + 1] = s[j + 1]
               PROVE  i = j
    BY <1>1, Zenon DEF Distinct
  <2>1. i + 1 \in 1..Len(s) /\ j + 1 \in 1..Len(s)
    BY <1>1
  <2>2. i + 1 = j + 1
    BY <2>1, Zenon DEF Distinct
  <2> QED
    BY <1>1, <2>2
<1>5. Head(s) \in Elems(s)
  BY <1>1 DEF Elems
<1> QED
  BY <1>1, <1>2, <1>3, <1>4, <1>5

\* A send adds one connection that was not in the channel.
LEMMA SendElems ==
  ASSUME NEW S, NEW s \in Seq(S), NEW x \in S, x \notin Elems(s), Distinct(s)
  PROVE  /\ Append(s, x) \in Seq(S)
         /\ Len(Append(s, x)) = Len(s) + 1
         /\ Elems(Append(s, x)) = Elems(s) \cup {x}
         /\ Distinct(Append(s, x))
<1>1. /\ Len(s) \in Nat
      /\ Append(s, x) \in Seq(S)
      /\ Len(Append(s, x)) = Len(s) + 1
      /\ \A i \in 1..Len(s) : Append(s, x)[i] = s[i]
      /\ Append(s, x)[Len(s) + 1] = x
  OBVIOUS
<1>2. 1..(Len(s) + 1) = 1..Len(s) \cup {Len(s) + 1}
  BY <1>1
<1>3. Elems(Append(s, x)) = Elems(s) \cup {x}
  <2>1. ASSUME NEW y \in Elems(Append(s, x)) PROVE y \in Elems(s) \cup {x}
    <3>1. PICK i \in 1..(Len(s) + 1) : y = Append(s, x)[i]
      BY <1>1, <2>1, Zenon DEF Elems
    <3> QED
      BY <1>1, <1>2, <3>1, Zenon DEF Elems
  <2>2. ASSUME NEW y \in Elems(s) \cup {x} PROVE y \in Elems(Append(s, x))
    <3>1. Len(s) + 1 \in 1..(Len(s) + 1)
      BY <1>1
    <3> QED
      BY <1>1, <1>2, <2>2, <3>1, Zenon DEF Elems
  <2> QED
    BY <2>1, <2>2, Zenon
<1>4. Distinct(Append(s, x))
  <2> SUFFICES ASSUME NEW i \in 1..(Len(s) + 1), NEW j \in 1..(Len(s) + 1),
                      Append(s, x)[i] = Append(s, x)[j]
               PROVE  i = j
    BY <1>1, Zenon DEF Distinct
  <2>1. \A l \in 1..Len(s) : s[l] # x
    BY Zenon DEF Elems
  <2> QED
    BY <1>1, <1>2, <2>1, Zenon DEF Distinct
<1> QED
  BY <1>1, <1>3, <1>4, Zenon

-----------------------------------------------------------------------------
(* Initially.                                                              *)

LEMMA InvInit == Init => IInv
<1> SUFFICES ASSUME Init PROVE IInv
  BY Zenon
<1>1. TypeOK
  <2>1. /\ chan \in [Chan -> Seq(Conn)] /\ wire \in [Conn -> Seq(Req)]
        /\ writes \in [Req -> Seq({"pooled", "fresh"})]
    BY DEF Init
  <2>2. \A h \in Chan : Len(chan[h]) <= PoolSize
    BY PoolSizeAssumption DEF Init
  <2> QED
    BY <2>1, <2>2, Zenon DEF Init, TypeOK, Step
<1>2. Locals
  BY NoneAssumption, Zenon DEF Init, Locals
<1>3. \A h \in Chan : Elems(chan[h]) = {} /\ Distinct(chan[h])
  BY DEF Init, Elems, Distinct
<1>4. OneOwner /\ OpenIffOwned /\ RightPeer
  BY <1>3, NoneAssumption, Zenon DEF Init, OneOwner, OpenIffOwned, RightPeer
<1>5. Streams
  BY Zenon DEF Init, Streams, QuietUnlessReading, NoCrossTalk
<1> QED
  BY <1>1, <1>2, <1>4, <1>5, Zenon DEF IInv

-----------------------------------------------------------------------------
(* The types.                                                              *)

\* A caller that is at a channel has one, and one that is about to send a
\* connection has it.
LEMMA AtChannel ==
  ASSUME IInv, NEW c \in Caller, pc[c] \in {"receive", "send"}
  PROVE  /\ ch[c] \in Chan /\ Distinct(chan[ch[c]]) /\ chan[ch[c]] \in Seq(Conn)
         /\ pc[c] = "send" => conn[c] \in Conn /\ conn[c] \notin Elems(chan[ch[c]])
<1>1. ch[c] \in Chan
  BY Zenon DEF IInv, TypeOK, Locals
<1>2. chan[ch[c]] \in Seq(Conn)
  BY <1>1, Zenon DEF IInv, TypeOK
<1>3. pc[c] = "send" => conn[c] \in Conn
  BY Zenon DEF IInv, TypeOK, Locals
<1>4. Distinct(chan[ch[c]]) /\ conn[c] \notin Elems(chan[ch[c]])
  BY <1>1, Zenon DEF IInv, OneOwner
<1> QED
  BY <1>1, <1>2, <1>3, <1>4, Zenon

\* What poolFor returns is a channel that was made for the address.
LEMMA PoolForChannel ==
  ASSUME TypeOK, Locals, NEW c \in Caller, addr[c] \in Addr, PoolFor(c)
  PROVE  /\ pools' \in [Addr -> Chan \cup {None}]
         /\ chanAddr' \in [Chan -> Addr \cup {None}]
         /\ ch' \in [Caller -> Chan \cup {None}]
         /\ ch'[c] \in Chan /\ chanAddr'[ch'[c]] = addr[c]
         /\ \A d \in Caller \ {c} : ch'[d] = ch[d]
         /\ \A h \in Chan : chanAddr[h] # None => chanAddr'[h] = chanAddr[h]
         /\ \A a \in Addr : pools'[a] # None => chanAddr'[pools'[a]] = a
         /\ chan' = chan /\ mu' = mu
<1>1. CASE pools[addr[c]] # None
  <2>1. /\ ch' = [ch EXCEPT ![c] = pools[addr[c]]]
        /\ UNCHANGED <<pools, chanAddr, mu, chan>>
    BY <1>1, Zenon DEF PoolFor
  <2>2. pools[addr[c]] \in Chan /\ chanAddr[pools[addr[c]]] = addr[c]
    BY <1>1 DEF TypeOK, Locals
  <2>3. ch' \in [Caller -> Chan \cup {None}] /\ ch'[c] = pools[addr[c]]
    BY <2>1, <2>2, Zenon DEF TypeOK
  <2>4. \A d \in Caller \ {c} : ch'[d] = ch[d]
    BY <2>1, Zenon DEF TypeOK
  <2>5. \A a \in Addr : pools'[a] # None => chanAddr'[pools'[a]] = a
    BY <2>1, Zenon DEF Locals
  <2> QED
    BY <2>1, <2>2, <2>3, <2>4, <2>5, Zenon DEF TypeOK
<1>2. CASE pools[addr[c]] = None
  <2> DEFINE f == Fresh(Unmade)
  <2>1. /\ Unmade # {}
        /\ chanAddr' = [chanAddr EXCEPT ![f] = addr[c]]
        /\ pools' = [pools EXCEPT ![addr[c]] = f]
        /\ ch' = [ch EXCEPT ![c] = f]
        /\ mu' = mu /\ chan' = chan
    BY <1>2, Zenon DEF PoolFor
  <2>2. f \in Chan /\ chanAddr[f] = None
    BY <2>1, FreshIsMember, Zenon DEF Unmade
  <2> HIDE DEF f
  <2>3. \A a \in Addr : pools'[a] # None => chanAddr'[pools'[a]] = a
    <3> SUFFICES ASSUME NEW a \in Addr, pools'[a] # None PROVE chanAddr'[pools'[a]] = a
      BY Zenon
    <3>1. CASE a = addr[c]
      BY <2>1, <2>2, <3>1, Zenon DEF TypeOK
    <3>2. CASE a # addr[c]
      <4>1. pools'[a] = pools[a] /\ pools[a] \in Chan /\ chanAddr[pools[a]] = a
        BY <2>1, <3>2, Zenon DEF TypeOK, Locals
      <4>2. pools[a] # f
        BY <2>2, <4>1, NoneAssumption, Zenon
      <4> QED
        BY <2>1, <4>1, <4>2, Zenon DEF TypeOK
    <3> QED
      BY <3>1, <3>2, Zenon
  <2> QED
    BY <2>1, <2>2, <2>3 DEF TypeOK
<1> QED
  BY <1>1, <1>2, Zenon

LEMMA TypeNext ==
  ASSUME IInv, [Next]_vars
  PROVE  TypeOK'
<1> USE DEF poolVars, connVars, callVars, downVars, histVars
<1>0. TypeOK /\ Locals
  BY Zenon DEF IInv
<1>1. ASSUME NEW c \in Caller, NEW a \in Addr, Invoke(c, a) PROVE TypeOK'
  <2>1. Fresh(Unused) \in Req
    BY <1>1, FreshIsMember, Zenon DEF Invoke, Unused
  <2> QED
    BY <1>0, <1>1, <2>1, Zenon DEF Invoke, Goto, TypeOK, Step
<1>2. ASSUME NEW c \in Caller, InvokeEncodeError(c) PROVE TypeOK'
  BY <1>0, <1>2, Zenon DEF InvokeEncodeError, TypeOK
<1>3. ASSUME NEW c \in Caller, TakePoolFor(c) \/ PutPoolFor(c) PROVE TypeOK'
  <2>1. pc[c] # "idle" /\ PoolFor(c)
    BY <1>3, Zenon DEF TakePoolFor, PutPoolFor, Goto
  <2>0. addr[c] \in Addr
    BY <1>0, <2>1, Zenon DEF TypeOK, Locals
  <2>2. pc' \in [Caller -> Step]
    <3>1. \/ pc' = [pc EXCEPT ![c] = "receive"]
          \/ pc' = [pc EXCEPT ![c] = "send"]
      BY <1>3, Zenon DEF TakePoolFor, PutPoolFor, Goto
    <3> QED
      BY <1>0, <3>1, Zenon DEF TypeOK, Step
  <2>3. UNCHANGED <<connVars, addr, req, conn, pooled, resp, downVars, histVars>>
    BY <1>3, Zenon DEF TakePoolFor, PutPoolFor
  <2> QED
    BY <1>0, <2>0, <2>1, <2>2, <2>3, PoolForChannel, Zenon DEF TypeOK
<1>4. ASSUME NEW c \in Caller, TakeReceive(c) PROVE TypeOK'
  <2>1. ch[c] \in Chan /\ Distinct(chan[ch[c]]) /\ chan[ch[c]] \in Seq(Conn)
    BY <1>4, AtChannel, Zenon DEF TakeReceive
  <2>2. /\ Head(chan[ch[c]]) \in Conn /\ Tail(chan[ch[c]]) \in Seq(Conn)
        /\ Len(Tail(chan[ch[c]])) <= PoolSize
    <3>1. Len(Tail(chan[ch[c]])) < Len(chan[ch[c]]) /\ Len(chan[ch[c]]) <= PoolSize
      BY <1>0, <1>4, <2>1, ReceiveElems, Zenon DEF TakeReceive, TypeOK
    <3>2. Head(chan[ch[c]]) \in Conn /\ Tail(chan[ch[c]]) \in Seq(Conn)
      BY <1>4, <2>1, ReceiveElems, Zenon DEF TakeReceive
    <3> QED
      BY <2>1, <3>1, <3>2, PoolSizeAssumption
  <2>3. chan' \in [Chan -> Seq(Conn)] /\ \A h \in Chan : Len(chan'[h]) <= PoolSize
    BY <1>0, <1>4, <2>1, <2>2, Zenon DEF TakeReceive, TypeOK
  <2>4. conn' \in [Caller -> Conn \cup {None}]
    BY <1>0, <1>4, <2>2, Zenon DEF TakeReceive, TypeOK
  <2> QED
    BY <1>0, <1>4, <2>3, <2>4, Zenon DEF TakeReceive, Goto, TypeOK, Step
<1>5. ASSUME NEW c \in Caller, TakeNone(c) PROVE TypeOK'
  BY <1>0, <1>5, Zenon DEF TakeNone, Goto, TypeOK, Step
<1>6. ASSUME NEW c \in Caller, Dial(c) PROVE TypeOK'
  <2>1. Fresh(Undialled) \in Conn
    BY <1>6, FreshIsMember, Zenon DEF Dial, Undialled
  <2> QED
    BY <1>0, <1>6, <2>1, Zenon DEF Dial, Goto, TypeOK, Step
<1>7. ASSUME NEW c \in Caller, DialError(c) PROVE TypeOK'
  BY <1>0, <1>7, Zenon DEF DialError, Return, Goto, TypeOK, Step
<1>8. ASSUME NEW c \in Caller, Write(c) PROVE TypeOK'
  <2>1. conn[c] \in Conn /\ req[c] \in Req
    BY <1>0, <1>8, Zenon DEF Write, Goto, TypeOK, Locals
  <2>2. wire' \in [Conn -> Seq(Req)]
    BY <1>0, <1>8, <2>1 DEF Write, TypeOK
  <2> DEFINE kind == IF pooled[c] THEN "pooled" ELSE "fresh"
  <2>3. kind \in {"pooled", "fresh"}
    BY Zenon
  <2>4. writes' = [writes EXCEPT ![req[c]] = Append(writes[req[c]], kind)]
    BY <1>0, <1>8, <2>1, Zenon DEF Write, TypeOK
  <2> HIDE DEF kind
  <2>5. writes' \in [Req -> Seq({"pooled", "fresh"})]
    BY <1>0, <2>1, <2>3, <2>4 DEF TypeOK
  <2> QED
    BY <1>0, <1>8, <2>2, <2>5, Zenon DEF Write, Goto, TypeOK, Step
<1>9. ASSUME NEW c \in Caller, Read(c) PROVE TypeOK'
  <2>1. conn[c] \in Conn /\ req[c] \in Req
    BY <1>0, <1>9, Zenon DEF Read, Goto, TypeOK, Locals
  <2>2. wire[conn[c]] \in Seq(Req) /\ wire[conn[c]] # <<>>
    BY <1>0, <1>9, <2>1 DEF Read, Goto, TypeOK, IInv, Streams, QuietUnlessReading
  <2>3. Head(wire[conn[c]]) \in Req /\ Tail(wire[conn[c]]) \in Seq(Req)
    BY <2>2
  <2> QED
    BY <1>0, <1>9, <2>1, <2>3, Zenon DEF Read, Goto, TypeOK, Step
<1>10. ASSUME NEW c \in Caller, InvokeErrorPooled(c) PROVE TypeOK'
  BY <1>0, <1>10, Zenon DEF InvokeErrorPooled, TypeOK, Step
<1>11. ASSUME NEW c \in Caller, InvokeErrorFresh(c) PROVE TypeOK'
  BY <1>0, <1>11, Zenon DEF InvokeErrorFresh, Return, Goto, TypeOK, Step
<1>12. ASSUME NEW c \in Caller, PutSend(c) PROVE TypeOK'
  <2>1. /\ ch[c] \in Chan /\ Distinct(chan[ch[c]]) /\ chan[ch[c]] \in Seq(Conn)
        /\ conn[c] \in Conn /\ conn[c] \notin Elems(chan[ch[c]])
    BY <1>12, AtChannel, Zenon DEF PutSend
  <2>2. Append(chan[ch[c]], conn[c]) \in Seq(Conn) /\ Len(Append(chan[ch[c]], conn[c])) <= PoolSize
    <3>1. Len(chan[ch[c]]) < PoolSize /\ Len(chan[ch[c]]) \in Nat
      BY <1>12, <2>1 DEF PutSend
    <3>2. /\ Append(chan[ch[c]], conn[c]) \in Seq(Conn)
          /\ Len(Append(chan[ch[c]], conn[c])) = Len(chan[ch[c]]) + 1
      BY <2>1
    <3> QED
      BY <3>1, <3>2, PoolSizeAssumption
  <2>3. chan' \in [Chan -> Seq(Conn)] /\ \A h \in Chan : Len(chan'[h]) <= PoolSize
    BY <1>0, <1>12, <2>1, <2>2, Zenon DEF PutSend, TypeOK
  <2>4. req[c] \in Req /\ resp[c] \in Req \cup {None}
    BY <1>0, <1>12, Zenon DEF PutSend, TypeOK, Locals
  <2> QED
    BY <1>0, <1>12, <2>3, <2>4, Zenon DEF PutSend, Return, Goto, TypeOK, Step
<1>13. ASSUME NEW c \in Caller, PutFull(c) PROVE TypeOK'
  BY <1>0, <1>13, Zenon DEF PutFull, Return, Goto, TypeOK, Step
<1>14. CASE ShutdownLock
  BY <1>0, <1>14 DEF ShutdownLock, TypeOK
<1>15. ASSUME NEW h \in toDrain, DrainConn(h) PROVE TypeOK'
  <2>1. h \in Chan /\ chan[h] \in Seq(Conn) /\ Distinct(chan[h]) /\ chan[h] # <<>>
    BY <1>0, <1>15, Zenon DEF DrainConn, TypeOK, IInv, OneOwner
  <2>2. /\ Head(chan[h]) \in Conn /\ Tail(chan[h]) \in Seq(Conn)
        /\ Len(Tail(chan[h])) < Len(chan[h])
    BY <2>1, ReceiveElems, Zenon
  <2>3. Len(Tail(chan[h])) <= PoolSize
    <3>1. Len(chan[h]) <= PoolSize
      BY <1>0, <2>1, Zenon DEF TypeOK
    <3> QED
      BY <2>1, <2>2, <3>1, PoolSizeAssumption
  <2> QED
    BY <1>0, <1>15, <2>1, <2>2, <2>3, Zenon DEF DrainConn, TypeOK
<1>16. ASSUME NEW h \in toDrain, Drained(h) PROVE TypeOK'
  BY <1>0, <1>16, Zenon DEF Drained, TypeOK
<1>17. CASE ShutdownUnlock
  BY <1>0, <1>17, Zenon DEF ShutdownUnlock, TypeOK
<1>18. CASE UNCHANGED vars
  BY <1>0, <1>18, Zenon DEF vars, TypeOK
<1> QED
  BY <1>1, <1>2, <1>3, <1>4, <1>5, <1>6, <1>7, <1>8, <1>9, <1>10, <1>11, <1>12, Zenon,
     <1>13, <1>14, <1>15, <1>16, <1>17, <1>18 DEF Next, Attempt, Shutdown

-----------------------------------------------------------------------------
(* The locals of the calls.                                                *)

LEMMA LocalsNext ==
  ASSUME IInv, [Next]_vars
  PROVE  Locals'
<1> USE DEF poolVars, connVars, callVars, downVars, histVars
<1>0. TypeOK /\ Locals
  BY Zenon DEF IInv
<1>1. ASSUME NEW c \in Caller, NEW a \in Addr, Invoke(c, a) PROVE Locals'
  <2>1. Fresh(Unused) \in Req
    BY <1>1, FreshIsMember, Zenon DEF Invoke, Unused
  <2> QED
    BY <1>0, <1>1, <2>1, NoneAssumption DEF Invoke, Goto, TypeOK, Locals
<1>2. ASSUME NEW c \in Caller, InvokeEncodeError(c) PROVE Locals'
  BY <1>0, <1>2, Zenon DEF InvokeEncodeError, Locals
<1>3. ASSUME NEW c \in Caller, TakePoolFor(c) \/ PutPoolFor(c) PROVE Locals'
  <2>1. addr[c] \in Addr /\ PoolFor(c) /\ UNCHANGED <<addr, req, conn, resp>>
    BY <1>0, <1>3, Zenon DEF TakePoolFor, PutPoolFor, Goto, TypeOK, Locals
  <2>2. /\ ch'[c] \in Chan /\ chanAddr'[ch'[c]] = addr[c]
        /\ \A d \in Caller \ {c} : ch'[d] = ch[d]
        /\ \A h \in Chan : chanAddr[h] # None => chanAddr'[h] = chanAddr[h]
        /\ \A a \in Addr : pools'[a] # None => chanAddr'[pools'[a]] = a
        /\ chan' = chan
    BY <1>0, <2>1, PoolForChannel, Zenon
  <2>3. \A h \in Chan : chanAddr'[h] = None => chan'[h] = <<>>
    BY <1>0, <2>2, Zenon DEF Locals
  <2>4. ASSUME NEW d \in Caller \ {c}
        PROVE  /\ pc'[d] = pc[d]
               /\ ch'[d] # None => chanAddr'[ch'[d]] = addr'[d]
    <3>1. pc'[d] = pc[d]
      BY <1>0, <1>3, Zenon DEF TakePoolFor, PutPoolFor, Goto, TypeOK
    <3>2. ASSUME ch[d] # None PROVE chanAddr'[ch[d]] = addr[d]
      <4>0. pc[d] \in {"receive", "send"} /\ chanAddr[ch[d]] = addr[d]
        BY <1>0, <3>2, Zenon DEF Locals
      <4>1. ch[d] \in Chan /\ chanAddr[ch[d]] = addr[d] /\ pc[d] # "idle"
        BY <1>0, <3>2, <4>0, Zenon DEF TypeOK
      <4>2. addr[d] # None
        BY <1>0, <4>1, Zenon DEF Locals
      <4> QED
        BY <2>2, <4>1, <4>2, Zenon
    <3> QED
      BY <2>1, <2>2, <3>1, <3>2, Zenon
  <2>5. \/ pc[c] = "take" /\ pc'[c] = "receive"
        \/ pc[c] = "put" /\ pc'[c] = "send"
    <3>1. CASE TakePoolFor(c)
      BY <1>0, <3>1, Zenon DEF TakePoolFor, Goto, TypeOK
    <3>2. CASE PutPoolFor(c)
      BY <1>0, <3>2, Zenon DEF PutPoolFor, Goto, TypeOK
    <3> QED
      BY <1>3, <3>1, <3>2, Zenon
  <2>6. ch'[c] # None
    BY <2>2, NoneAssumption, Zenon
  <2> QED
    BY <1>0, <2>1, <2>2, <2>3, <2>4, <2>5, <2>6 DEF Locals
<1>4. ASSUME NEW c \in Caller, TakeReceive(c) PROVE Locals'
  <2>1. ch[c] \in Chan /\ Distinct(chan[ch[c]]) /\ chan[ch[c]] \in Seq(Conn) /\ chan[ch[c]] # <<>>
    BY <1>4, AtChannel, Zenon DEF TakeReceive
  <2>2. Head(chan[ch[c]]) \in Conn
    BY <2>1, ReceiveElems, Zenon
  <2>3. chanAddr[ch[c]] # None
    BY <1>0, <2>1, Zenon DEF Locals
  <2>4. \A h \in Chan : chanAddr'[h] = None => chan'[h] = <<>>
    BY <1>0, <1>4, <2>1, <2>3 DEF TakeReceive, TypeOK, Locals
  <2> QED
    BY <1>0, <1>4, <2>2, <2>4, NoneAssumption DEF TakeReceive, Goto, TypeOK, Locals
<1>5. ASSUME NEW c \in Caller, TakeNone(c) PROVE Locals'
  BY <1>0, <1>5 DEF TakeNone, Goto, TypeOK, Locals
<1>6. ASSUME NEW c \in Caller, Dial(c) PROVE Locals'
  <2>1. Fresh(Undialled) \in Conn
    BY <1>6, FreshIsMember, Zenon DEF Dial, Undialled
  <2> QED
    BY <1>0, <1>6, <2>1, NoneAssumption DEF Dial, Goto, TypeOK, Locals
<1>7. ASSUME NEW c \in Caller, DialError(c) \/ InvokeErrorFresh(c) \/ PutFull(c)
      PROVE  Locals'
  <2>1. /\ pc' = [pc EXCEPT ![c] = "idle"]
        /\ addr' = [addr EXCEPT ![c] = None]
        /\ req' = [req EXCEPT ![c] = None]
        /\ ch' = [ch EXCEPT ![c] = None]
        /\ conn' = [conn EXCEPT ![c] = None]
        /\ resp' = [resp EXCEPT ![c] = None]
        /\ UNCHANGED <<pools, chan, chanAddr>>
    BY <1>7, Zenon DEF DialError, InvokeErrorFresh, PutFull, Return, Goto
  <2>2. \A d \in Caller \ {c} :
          /\ pc'[d] = pc[d] /\ addr'[d] = addr[d] /\ req'[d] = req[d]
          /\ ch'[d] = ch[d] /\ conn'[d] = conn[d] /\ resp'[d] = resp[d]
    BY <1>0, <2>1, Zenon DEF TypeOK
  <2>3. /\ pc'[c] = "idle" /\ addr'[c] = None /\ req'[c] = None
        /\ ch'[c] = None /\ conn'[c] = None
    BY <1>0, <2>1, Zenon DEF TypeOK
  <2> QED
    BY <1>0, <2>1, <2>2, <2>3 DEF Locals
<1>8. ASSUME NEW c \in Caller, Write(c) PROVE Locals'
  BY <1>0, <1>8, Zenon DEF Write, Goto, TypeOK, Locals
<1>9. ASSUME NEW c \in Caller, Read(c) PROVE Locals'
  <2>1. Head(wire[conn[c]]) = req[c]
    <3>1. wire[conn[c]] = <<req[c]>>
      BY <1>9, Zenon DEF Read, Goto, IInv, Streams, QuietUnlessReading
    <3> QED
      BY <3>1
  <2> QED
    BY <1>0, <1>9, <2>1, Zenon DEF Read, Goto, TypeOK, Locals
<1>10. ASSUME NEW c \in Caller, InvokeErrorPooled(c) PROVE Locals'
  BY <1>0, <1>10 DEF InvokeErrorPooled, TypeOK, Locals
<1>11. ASSUME NEW c \in Caller, PutSend(c) PROVE Locals'
  <2>1. ch[c] \in Chan /\ chanAddr[ch[c]] # None
    BY <1>0, <1>11, Zenon DEF PutSend, TypeOK, Locals
  <2>2. \A h \in Chan : chanAddr'[h] = None => chan'[h] = <<>>
    BY <1>0, <1>11, <2>1 DEF PutSend, TypeOK, Locals
  <2> QED
    BY <1>0, <1>11, <2>2 DEF PutSend, Return, Goto, TypeOK, Locals
<1>12. ASSUME NEW h \in toDrain, DrainConn(h) PROVE Locals'
  <2>1. \A g \in Chan : chan[g] = <<>> => chan'[g] = <<>>
    BY <1>0, <1>12, Zenon DEF DrainConn, TypeOK
  <2> QED
    BY <1>0, <1>12, <2>1, Zenon DEF DrainConn, Locals
<1>13. ASSUME NEW h \in toDrain, Drained(h) PROVE Locals'
  BY <1>0, <1>13, Zenon DEF Drained, Locals
<1>14. CASE ShutdownLock \/ ShutdownUnlock \/ UNCHANGED vars
  BY <1>0, <1>14 DEF ShutdownLock, ShutdownUnlock, vars, Locals
<1> QED
  BY <1>1, <1>2, <1>3, <1>4, <1>5, <1>6, <1>7, <1>8, <1>9, <1>10, <1>11, <1>12, Zenon,
     <1>13, <1>14 DEF Next, Attempt, Shutdown

-----------------------------------------------------------------------------
(* The owners.                                                             *)

Owners == OneOwner /\ OpenIffOwned /\ RightPeer

\* A step that moves no connection.
LEMMA OwnersUnmoved ==
  ASSUME IInv, UNCHANGED <<chan, conn, connState, connAddr>>,
         \A c \in Caller : conn[c] # None => addr'[c] = addr[c],
         \A h \in Chan : chanAddr[h] # None => chanAddr'[h] = chanAddr[h]
  PROVE  Owners'
<1>1. OneOwner' /\ OpenIffOwned'
  BY Zenon DEF IInv, OneOwner, OpenIffOwned
<1>2. ASSUME NEW h \in Chan, NEW k \in Elems(chan[h])
      PROVE  connAddr[k] = chanAddr'[h]
  <2>1. chan[h] # <<>>
    BY <1>2 DEF Elems
  <2>2. chanAddr'[h] = chanAddr[h]
    BY <2>1, Zenon DEF IInv, Locals
  <2> QED
    BY <1>2, <2>2, Zenon DEF IInv, RightPeer
<1>3. RightPeer'
  BY <1>2, Zenon DEF IInv, RightPeer
<1> QED
  BY <1>1, <1>3, Zenon DEF Owners

\* A caller closes the connection it owns.
LEMMA OwnersClose ==
  ASSUME IInv, NEW c \in Caller, conn[c] \in Conn,
         conn' = [conn EXCEPT ![c] = None],
         connState' = [connState EXCEPT ![conn[c]] = "closed"],
         UNCHANGED <<chan, connAddr, chanAddr>>,
         \A d \in Caller \ {c} : addr'[d] = addr[d]
  PROVE  Owners'
<1>1. conn'[c] = None /\ \A d \in Caller \ {c} : conn'[d] = conn[d] /\ conn[d] # conn[c]
  BY NoneAssumption DEF IInv, TypeOK, OneOwner
<1>2. \A h \in Chan : conn[c] \notin Elems(chan[h]) /\ None \notin Elems(chan[h])
  <2>1. ASSUME NEW h \in Chan, None \in Elems(chan[h]) PROVE FALSE
    <3>1. PICK i \in 1..Len(chan[h]) : chan[h][i] = None
      BY <2>1, Zenon DEF Elems
    <3>2. chan[h] \in Seq(Conn)
      BY Zenon DEF IInv, TypeOK
    <3> QED
      BY <3>1, <3>2, NoneAssumption
  <2> QED
    BY <2>1, Zenon DEF IInv, OneOwner
<1>3. OneOwner'
  <2>1. \A d, e \in Caller : conn'[d] # None /\ conn'[d] = conn'[e] => d = e
    BY <1>1 DEF IInv, OneOwner
  <2>2. \A d \in Caller, h \in Chan : conn'[d] \notin Elems(chan'[h])
    BY <1>1, <1>2 DEF IInv, OneOwner
  <2> QED
    BY <2>1, <2>2, Zenon DEF IInv, OneOwner
<1>4. OpenIffOwned'
  <2> SUFFICES ASSUME NEW k \in Conn
               PROVE  connState'[k] = "open" <=> \/ \E d \in Caller : conn'[d] = k
                                                \/ \E h \in Chan : k \in Elems(chan[h])
    BY Zenon DEF OpenIffOwned
  <2>1. CASE k = conn[c]
    BY <1>1, <1>2, <2>1, NoneAssumption, Zenon DEF IInv, TypeOK
  <2>2. CASE k # conn[c]
    <3>1. connState'[k] = connState[k]
      BY <2>2, Zenon DEF IInv, TypeOK
    <3>2. (\E d \in Caller : conn'[d] = k) <=> (\E d \in Caller : conn[d] = k)
      BY <1>1, <2>2, NoneAssumption, Zenon
    <3> QED
      BY <3>1, <3>2, Zenon DEF IInv, OpenIffOwned
  <2> QED
    BY <2>1, <2>2, Zenon
<1>5. RightPeer'
  BY <1>1, Zenon DEF IInv, RightPeer
<1> QED
  BY <1>3, <1>4, <1>5, Zenon DEF Owners

LEMMA OwnersReceive ==
  ASSUME IInv, NEW c \in Caller, TakeReceive(c)
  PROVE  Owners'
<1> DEFINE h == ch[c]
           k == Head(chan[h])
<1>1. /\ h \in Chan /\ chan[h] # <<>> /\ chan[h] \in Seq(Conn) /\ Distinct(chan[h])
      /\ conn[c] = None
  <2>1. pc[c] = "receive" /\ chan[h] # <<>>
    BY Zenon DEF TakeReceive
  <2>2. h # None /\ conn[c] = None
    BY <2>1, Zenon DEF IInv, Locals
  <2>3. h \in Chan
    BY <2>2, Zenon DEF IInv, TypeOK
  <2> QED
    BY <2>1, <2>2, <2>3, Zenon DEF IInv, TypeOK, OneOwner
<1>2. /\ k \in Conn /\ k \in Elems(chan[h])
      /\ Elems(Tail(chan[h])) = Elems(chan[h]) \ {k}
      /\ Distinct(Tail(chan[h]))
  BY <1>1, ReceiveElems, Zenon
<1>3. /\ conn' = [conn EXCEPT ![c] = k]
      /\ chan' = [chan EXCEPT ![h] = Tail(chan[h])]
      /\ UNCHANGED <<connState, connAddr, chanAddr, addr>>
  BY Zenon DEF TakeReceive, connVars
<1>4. chanAddr[h] = addr[c]
  BY <1>1, NoneAssumption, Zenon DEF IInv, Locals
<1> HIDE DEF h, k
<1>5. /\ Elems(chan'[h]) = Elems(chan[h]) \ {k}
      /\ Distinct(chan'[h])
      /\ \A g \in Chan \ {h} : chan'[g] = chan[g]
  BY <1>1, <1>2, <1>3, Zenon DEF IInv, TypeOK
<1>6. /\ conn'[c] = k
      /\ \A d \in Caller \ {c} : conn'[d] = conn[d] /\ conn[d] # k
  BY <1>1, <1>2, <1>3 DEF IInv, TypeOK, OneOwner
<1>7. \A g \in Chan : k \notin Elems(chan'[g])
  BY <1>1, <1>2, <1>5, Zenon DEF IInv, OneOwner
<1>8. OneOwner'
  <2>1. \A d, e \in Caller : conn'[d] # None /\ conn'[d] = conn'[e] => d = e
    BY <1>6, Zenon DEF IInv, OneOwner
  <2>2. \A d \in Caller, g \in Chan : conn'[d] \notin Elems(chan'[g])
    BY <1>1, <1>5, <1>6, <1>7, Zenon DEF IInv, OneOwner
  <2>3. \A g \in Chan : Distinct(chan'[g])
    BY <1>5, Zenon DEF IInv, OneOwner
  <2>4. \A f, g \in Chan : f # g => Elems(chan'[f]) \cap Elems(chan'[g]) = {}
    BY <1>1, <1>5, Zenon DEF IInv, OneOwner
  <2> QED
    BY <2>1, <2>2, <2>3, <2>4, Zenon DEF OneOwner
<1>9. OpenIffOwned'
  <2> SUFFICES ASSUME NEW l \in Conn
               PROVE  connState[l] = "open" <=> \/ \E d \in Caller : conn'[d] = l
                                               \/ \E g \in Chan : l \in Elems(chan'[g])
    BY <1>3, Zenon DEF OpenIffOwned
  <2>1. CASE l = k
    BY <1>1, <1>2, <1>6, <2>1, Zenon DEF IInv, OpenIffOwned
  <2>2. CASE l # k
    <3>1. (\E d \in Caller : conn'[d] = l) <=> (\E d \in Caller : conn[d] = l)
      BY <1>1, <1>6, <2>2, NoneAssumption, Zenon
    <3>2. (\E g \in Chan : l \in Elems(chan'[g])) <=> (\E g \in Chan : l \in Elems(chan[g]))
      BY <1>1, <1>5, <2>2, Zenon
    <3> QED
      BY <3>1, <3>2, Zenon DEF IInv, OpenIffOwned
  <2> QED
    BY <2>1, <2>2, Zenon
<1>10. RightPeer'
  <2>1. connAddr[k] = addr[c]
    BY <1>1, <1>2, <1>4, Zenon DEF IInv, RightPeer
  <2>2. \A d \in Caller : conn'[d] # None => connAddr'[conn'[d]] = addr'[d]
    BY <1>3, <1>6, <2>1, Zenon DEF IInv, RightPeer
  <2>3. \A g \in Chan : \A l \in Elems(chan'[g]) : connAddr'[l] = chanAddr'[g]
    BY <1>1, <1>3, <1>5, Zenon DEF IInv, RightPeer
  <2> QED
    BY <2>2, <2>3, Zenon DEF RightPeer
<1> QED
  BY <1>8, <1>9, <1>10, Zenon DEF Owners

LEMMA OwnersDial ==
  ASSUME IInv, NEW c \in Caller, Dial(c)
  PROVE  Owners'
<1> DEFINE k == Fresh(Undialled)
<1>1. k \in Conn /\ connState[k] = "none"
  BY FreshIsMember, Zenon DEF Dial, Undialled
<1>2. /\ conn' = [conn EXCEPT ![c] = k]
      /\ connState' = [connState EXCEPT ![k] = "open"]
      /\ connAddr' = [connAddr EXCEPT ![k] = addr[c]]
      /\ UNCHANGED <<chan, chanAddr, addr>>
      /\ conn[c] = None
  BY Zenon DEF Dial, poolVars, Goto, IInv, Locals
<1> HIDE DEF k
<1>3. /\ \A d \in Caller : conn[d] # k
      /\ \A h \in Chan : k \notin Elems(chan[h])
  BY <1>1, Zenon DEF IInv, OpenIffOwned
<1>4. conn'[c] = k /\ \A d \in Caller \ {c} : conn'[d] = conn[d]
  BY <1>2, Zenon DEF IInv, TypeOK
<1>5. OneOwner'
  <2>1. OneOwner
    BY Zenon DEF IInv
  <2>2. ASSUME NEW a \in Caller, NEW d \in Caller, conn'[a] # None, conn'[a] = conn'[d]
        PROVE  a = d
    <3>1. CASE a = c
      BY <1>3, <1>4, <2>2, <3>1, Zenon
    <3>2. CASE a # c /\ d = c
      BY <1>3, <1>4, <2>2, <3>2, Zenon
    <3>3. CASE a # c /\ d # c
      BY <1>4, <2>1, <2>2, <3>3, Zenon DEF OneOwner
    <3> QED
      BY <3>1, <3>2, <3>3, Zenon
  <2>3. ASSUME NEW a \in Caller, NEW h \in Chan PROVE conn'[a] \notin Elems(chan[h])
    <3>1. CASE a = c
      BY <1>3, <1>4, <3>1, Zenon
    <3>2. CASE a # c
      BY <1>4, <2>1, <3>2, Zenon DEF OneOwner
    <3> QED
      BY <3>1, <3>2, Zenon
  <2>4. chan' = chan
    BY <1>2, Zenon
  <2>5. /\ \A h \in Chan : Distinct(chan[h])
        /\ \A g, h \in Chan : g # h => Elems(chan[g]) \cap Elems(chan[h]) = {}
    BY <2>1, Zenon DEF OneOwner
  <2> QED
    BY <2>2, <2>3, <2>4, <2>5, Zenon DEF OneOwner
<1>6. OpenIffOwned'
  <2> SUFFICES ASSUME NEW l \in Conn
               PROVE  connState'[l] = "open" <=> \/ \E d \in Caller : conn'[d] = l
                                                \/ \E g \in Chan : l \in Elems(chan[g])
    BY <1>2, Zenon DEF OpenIffOwned
  <2>1. CASE l = k
    BY <1>1, <1>2, <1>4, <2>1, Zenon DEF IInv, TypeOK
  <2>2. CASE l # k
    <3>1. (\E d \in Caller : conn'[d] = l) <=> (\E d \in Caller : conn[d] = l)
      BY <1>2, <1>4, <2>2, NoneAssumption, Zenon
    <3>2. connState'[l] = connState[l]
      BY <1>2, <2>2, Zenon DEF IInv, TypeOK
    <3> QED
      BY <3>1, <3>2, Zenon DEF IInv, OpenIffOwned
  <2> QED
    BY <2>1, <2>2, Zenon
<1>7. RightPeer'
  <2> connAddr \in [Conn -> Addr \cup {None}] /\ addr \in [Caller -> Addr \cup {None}]
    BY Zenon DEF IInv, TypeOK
  <2>1. \A l \in Conn \ {k} : connAddr'[l] = connAddr[l]
    BY <1>2, Zenon
  <2>2. connAddr'[k] = addr[c]
    BY <1>1, <1>2, Zenon
  <2>3. \A d \in Caller : conn'[d] # None => connAddr'[conn'[d]] = addr'[d]
    BY <1>2, <1>3, <1>4, <2>1, <2>2 DEF IInv, RightPeer, TypeOK
  <2>4. ASSUME NEW g \in Chan, NEW l \in Elems(chan[g]) PROVE connAddr'[l] = chanAddr[g]
    <3>1. l \in Conn /\ l # k
      BY <1>3, <2>4 DEF Elems, IInv, TypeOK
    <3> QED
      BY <2>1, <2>4, <3>1, Zenon DEF IInv, RightPeer
  <2> QED
    BY <1>2, <2>3, <2>4, Zenon DEF RightPeer
<1> QED
  BY <1>5, <1>6, <1>7, Zenon DEF Owners

LEMMA OwnersSend ==
  ASSUME IInv, NEW c \in Caller, PutSend(c)
  PROVE  Owners'
<1> DEFINE h == ch[c]
           k == conn[c]
<1>1. /\ h \in Chan /\ chan[h] \in Seq(Conn) /\ Distinct(chan[h])
      /\ k \in Conn /\ k \notin Elems(chan[h])
  BY AtChannel, Zenon DEF PutSend
<1>2. /\ Elems(Append(chan[h], k)) = Elems(chan[h]) \cup {k}
      /\ Distinct(Append(chan[h], k))
  BY <1>1, SendElems
<1>3. /\ conn' = [conn EXCEPT ![c] = None]
      /\ chan' = [chan EXCEPT ![h] = Append(chan[h], k)]
      /\ UNCHANGED <<connState, connAddr, chanAddr>>
      /\ addr' = [addr EXCEPT ![c] = None]
  BY Zenon DEF PutSend, Return, connVars
<1>4. chanAddr[h] = addr[c]
  BY <1>1, NoneAssumption, Zenon DEF IInv, Locals
<1> HIDE DEF h, k
<1>5. /\ Elems(chan'[h]) = Elems(chan[h]) \cup {k}
      /\ Distinct(chan'[h])
      /\ \A g \in Chan \ {h} : chan'[g] = chan[g]
  BY <1>1, <1>2, <1>3, Zenon DEF IInv, TypeOK
<1>6. /\ conn'[c] = None
      /\ \A d \in Caller \ {c} : conn'[d] = conn[d] /\ conn[d] # k /\ addr'[d] = addr[d]
  BY <1>1, <1>3, NoneAssumption DEF IInv, TypeOK, OneOwner, k
<1>7. \A g \in Chan : None \notin Elems(chan'[g]) /\ k \notin Elems(chan[g])
  <2>1. ASSUME NEW g \in Chan, None \in Elems(chan[g]) PROVE FALSE
    <3>1. PICK i \in 1..Len(chan[g]) : chan[g][i] = None
      BY <2>1, Zenon DEF Elems
    <3>2. chan[g] \in Seq(Conn)
      BY Zenon DEF IInv, TypeOK
    <3> QED
      BY <3>1, <3>2, NoneAssumption
  <2>2. \A g \in Chan : k \notin Elems(chan[g])
    BY Zenon DEF IInv, OneOwner, k
  <2>3. None # k
    BY <1>1, NoneAssumption, Zenon
  <2>4. ASSUME NEW g \in Chan PROVE None \notin Elems(chan'[g])
    <3>1. CASE g = h
      BY <1>5, <2>1, <2>3, <3>1, Zenon
    <3>2. CASE g # h
      BY <1>5, <2>1, <3>2, Zenon
    <3> QED
      BY <3>1, <3>2, Zenon
  <2> QED
    BY <2>2, <2>4, Zenon
<1>8. OneOwner'
  <2>1. \A d, e \in Caller : conn'[d] # None /\ conn'[d] = conn'[e] => d = e
    BY <1>6, Zenon DEF IInv, OneOwner
  <2>2. ASSUME NEW d \in Caller, NEW g \in Chan PROVE conn'[d] \notin Elems(chan'[g])
    <3>1. CASE d = c
      BY <1>6, <1>7, <3>1, Zenon
    <3>2. CASE d # c
      <4>1. conn'[d] = conn[d] /\ conn[d] # k /\ conn[d] \notin Elems(chan[g])
        BY <1>6, <3>2, Zenon DEF IInv, OneOwner
      <4> QED
        BY <1>5, <4>1, Zenon
    <3> QED
      BY <3>1, <3>2, Zenon
  <2>3. \A g \in Chan : Distinct(chan'[g])
    BY <1>5, Zenon DEF IInv, OneOwner
  <2>4. ASSUME NEW f \in Chan, NEW g \in Chan, f # g
        PROVE  Elems(chan'[f]) \cap Elems(chan'[g]) = {}
    <3>1. Elems(chan[f]) \cap Elems(chan[g]) = {}
      BY <2>4, Zenon DEF IInv, OneOwner
    <3>2. CASE f = h
      BY <1>5, <1>7, <2>4, <3>1, <3>2, Zenon
    <3>3. CASE g = h
      BY <1>5, <1>7, <2>4, <3>1, <3>3, Zenon
    <3>4. CASE f # h /\ g # h
      BY <1>5, <3>1, <3>4
    <3> QED
      BY <3>2, <3>3, <3>4, Zenon
  <2> QED
    BY <2>1, <2>2, <2>3, <2>4, Zenon DEF OneOwner
<1>9. OpenIffOwned'
  <2> SUFFICES ASSUME NEW l \in Conn
               PROVE  connState[l] = "open" <=> \/ \E d \in Caller : conn'[d] = l
                                               \/ \E g \in Chan : l \in Elems(chan'[g])
    BY <1>3, Zenon DEF OpenIffOwned
  <2>1. CASE l = k
    BY <1>1, <1>5, <2>1, Zenon DEF IInv, OpenIffOwned, k
  <2>2. CASE l # k
    <3>1. (\E d \in Caller : conn'[d] = l) <=> (\E d \in Caller : conn[d] = l)
      BY <1>1, <1>6, <2>2, NoneAssumption, Zenon DEF k
    <3>2. (\E g \in Chan : l \in Elems(chan'[g])) <=> (\E g \in Chan : l \in Elems(chan[g]))
      BY <1>1, <1>5, <2>2, Zenon
    <3> QED
      BY <3>1, <3>2, Zenon DEF IInv, OpenIffOwned
  <2> QED
    BY <2>1, <2>2, Zenon
<1>10. RightPeer'
  <2>1. connAddr[k] = addr[c]
    BY <1>1, NoneAssumption, Zenon DEF IInv, RightPeer, k
  <2>2. \A d \in Caller : conn'[d] # None => connAddr'[conn'[d]] = addr'[d]
    BY <1>3, <1>6, Zenon DEF IInv, RightPeer
  <2>3. \A g \in Chan : \A l \in Elems(chan'[g]) : connAddr'[l] = chanAddr'[g]
    BY <1>1, <1>3, <1>4, <1>5, <2>1, Zenon DEF IInv, RightPeer
  <2> QED
    BY <2>2, <2>3, Zenon DEF RightPeer
<1> QED
  BY <1>8, <1>9, <1>10, Zenon DEF Owners

LEMMA OwnersDrain ==
  ASSUME IInv, NEW h \in toDrain, DrainConn(h)
  PROVE  Owners'
<1> DEFINE k == Head(chan[h])
<1>1. h \in Chan /\ chan[h] # <<>> /\ chan[h] \in Seq(Conn) /\ Distinct(chan[h])
  BY Zenon DEF IInv, TypeOK, OneOwner, DrainConn
<1>2. /\ k \in Conn /\ k \in Elems(chan[h])
      /\ Elems(Tail(chan[h])) = Elems(chan[h]) \ {k}
      /\ Distinct(Tail(chan[h]))
  BY <1>1, ReceiveElems, Zenon
<1>3. /\ chan' = [chan EXCEPT ![h] = Tail(chan[h])]
      /\ connState' = [connState EXCEPT ![k] = "closed"]
      /\ UNCHANGED <<conn, connAddr, chanAddr, addr>>
  BY Zenon DEF DrainConn, callVars
<1> HIDE DEF k
<1>4. /\ Elems(chan'[h]) = Elems(chan[h]) \ {k}
      /\ Distinct(chan'[h])
      /\ \A g \in Chan \ {h} : chan'[g] = chan[g]
  BY <1>1, <1>2, <1>3, Zenon DEF IInv, TypeOK
<1>5. /\ \A g \in Chan : k \notin Elems(chan'[g])
      /\ \A d \in Caller : conn[d] # k
  BY <1>1, <1>2, <1>4, Zenon DEF IInv, OneOwner
<1>6. OneOwner'
  <2>1. \A d \in Caller, g \in Chan : conn[d] \notin Elems(chan'[g])
    BY <1>1, <1>4, Zenon DEF IInv, OneOwner
  <2>2. \A g \in Chan : Distinct(chan'[g])
    BY <1>4, Zenon DEF IInv, OneOwner
  <2>3. \A f, g \in Chan : f # g => Elems(chan'[f]) \cap Elems(chan'[g]) = {}
    BY <1>1, <1>4, Zenon DEF IInv, OneOwner
  <2> QED
    BY <1>3, <2>1, <2>2, <2>3, Zenon DEF IInv, OneOwner
<1>7. OpenIffOwned'
  <2> SUFFICES ASSUME NEW l \in Conn
               PROVE  connState'[l] = "open" <=> \/ \E d \in Caller : conn[d] = l
                                                \/ \E g \in Chan : l \in Elems(chan'[g])
    BY <1>3, Zenon DEF OpenIffOwned
  <2>1. CASE l = k
    BY <1>2, <1>3, <1>5, <2>1, Zenon DEF IInv, TypeOK
  <2>2. CASE l # k
    <3>1. (\E g \in Chan : l \in Elems(chan'[g])) <=> (\E g \in Chan : l \in Elems(chan[g]))
      BY <1>1, <1>4, <2>2, Zenon
    <3>2. connState'[l] = connState[l]
      BY <1>3, <2>2, Zenon DEF IInv, TypeOK
    <3> QED
      BY <3>1, <3>2, Zenon DEF IInv, OpenIffOwned
  <2> QED
    BY <2>1, <2>2, Zenon
<1>8. RightPeer'
  <2>1. \A g \in Chan : \A l \in Elems(chan'[g]) : connAddr'[l] = chanAddr'[g]
    BY <1>1, <1>3, <1>4, Zenon DEF IInv, RightPeer
  <2> QED
    BY <1>3, <2>1, Zenon DEF IInv, RightPeer
<1> QED
  BY <1>6, <1>7, <1>8, Zenon DEF Owners

LEMMA OwnersNext ==
  ASSUME IInv, [Next]_vars
  PROVE  Owners'
<1> USE DEF poolVars, connVars, callVars, downVars, histVars
<1>0. TypeOK /\ Locals
  BY Zenon DEF IInv
<1>1. ASSUME NEW c \in Caller, NEW a \in Addr, Invoke(c, a) PROVE Owners'
  <2>0. conn[c] = None
    BY <1>0, <1>1, Zenon DEF Invoke, Goto, Locals
  <2>1. \A d \in Caller : conn[d] # None => addr'[d] = addr[d]
    BY <1>0, <1>1, <2>0, Zenon DEF Invoke, TypeOK
  <2> QED
    BY <1>1, <2>1, OwnersUnmoved, Zenon DEF Invoke
<1>2. ASSUME NEW c \in Caller, InvokeEncodeError(c) PROVE Owners'
  BY <1>2, OwnersUnmoved, Zenon DEF InvokeEncodeError
<1>3. ASSUME NEW c \in Caller, TakePoolFor(c) \/ PutPoolFor(c) PROVE Owners'
  <2>1. /\ addr[c] \in Addr /\ PoolFor(c)
        /\ UNCHANGED <<addr, conn, connState, connAddr>>
    BY <1>0, <1>3, Zenon DEF TakePoolFor, PutPoolFor, Goto, TypeOK, Locals
  <2>2. chan' = chan /\ \A h \in Chan : chanAddr[h] # None => chanAddr'[h] = chanAddr[h]
    BY <1>0, <2>1, PoolForChannel, Zenon
  <2> QED
    BY <2>1, <2>2, OwnersUnmoved, Zenon
<1>4. ASSUME NEW c \in Caller, TakeReceive(c) PROVE Owners'
  BY <1>4, OwnersReceive, Zenon
<1>5. ASSUME NEW c \in Caller, TakeNone(c) \/ Write(c) \/ Read(c) PROVE Owners'
  BY <1>5, OwnersUnmoved, Zenon DEF TakeNone, Write, Read
<1>6. ASSUME NEW c \in Caller, Dial(c) PROVE Owners'
  BY <1>6, OwnersDial, Zenon
<1>7. ASSUME NEW c \in Caller, DialError(c) PROVE Owners'
  <2>1. conn[c] = None
    BY <1>0, <1>7, Zenon DEF DialError, Return, Goto, Locals
  <2>2. conn' = conn /\ \A d \in Caller : conn[d] # None => addr'[d] = addr[d]
    BY <1>0, <1>7, <2>1, Zenon DEF DialError, Return, TypeOK
  <2> QED
    BY <1>7, <2>2, OwnersUnmoved, Zenon DEF DialError
<1>8. ASSUME NEW c \in Caller, InvokeErrorPooled(c) \/ InvokeErrorFresh(c) \/ PutFull(c)
      PROVE  Owners'
  <2>1. conn[c] \in Conn
    BY <1>0, <1>8, Zenon DEF InvokeErrorPooled, InvokeErrorFresh, PutFull, TypeOK, Locals
  <2>2. /\ conn' = [conn EXCEPT ![c] = None]
        /\ connState' = [connState EXCEPT ![conn[c]] = "closed"]
        /\ UNCHANGED <<chan, connAddr, chanAddr>>
    BY <1>8, Zenon DEF InvokeErrorPooled, InvokeErrorFresh, PutFull, Return
  <2>3. \A d \in Caller \ {c} : addr'[d] = addr[d]
    BY <1>0, <1>8, Zenon DEF InvokeErrorPooled, InvokeErrorFresh, PutFull, Return, TypeOK
  <2> QED
    BY <2>1, <2>2, <2>3, OwnersClose, Zenon
<1>9. ASSUME NEW c \in Caller, PutSend(c) PROVE Owners'
  BY <1>9, OwnersSend, Zenon
<1>10. ASSUME NEW h \in toDrain, DrainConn(h) PROVE Owners'
  BY <1>10, OwnersDrain, Zenon
<1>11. ASSUME NEW h \in toDrain, Drained(h) PROVE Owners'
  BY <1>11, OwnersUnmoved, Zenon DEF Drained
<1>12. CASE ShutdownLock \/ ShutdownUnlock \/ UNCHANGED vars
  BY <1>12, OwnersUnmoved, Zenon DEF ShutdownLock, ShutdownUnlock, vars
<1> QED
  BY <1>1, <1>2, <1>3, <1>4, <1>5, <1>6, <1>7, <1>8, <1>9, <1>10, <1>11, <1>12, Zenon
     DEF Next, Attempt, Shutdown

-----------------------------------------------------------------------------
(* The streams.                                                            *)

\* Steps that neither write nor read, and take no caller out of a read.
LEMMA QuietUnmoved ==
  ASSUME QuietUnlessReading,
         wire' = wire,
         \A d \in Caller : pc'[d] = "read" <=> pc[d] = "read",
         \A d \in Caller : pc[d] = "read" => conn'[d] = conn[d] /\ req'[d] = req[d],
         \A k \in Conn : connState'[k] # "closed" => connState[k] # "closed"
  PROVE  QuietUnlessReading'
<1>1. ASSUME NEW d \in Caller, pc'[d] = "read" PROVE wire'[conn'[d]] = <<req'[d]>>
  <2>1. pc[d] = "read"
    BY <1>1, Zenon
  <2>2. conn'[d] = conn[d] /\ req'[d] = req[d] /\ wire[conn[d]] = <<req[d]>>
    BY <2>1, Zenon DEF QuietUnlessReading
  <2> QED
    BY <2>2, Zenon
<1>2. ASSUME NEW k \in Conn, connState'[k] # "closed", wire'[k] # <<>>
      PROVE  \E d \in Caller : conn'[d] = k /\ pc'[d] = "read"
  <2>1. PICK d \in Caller : conn[d] = k /\ pc[d] = "read"
    BY <1>2, Zenon DEF QuietUnlessReading
  <2> QED
    BY <2>1, Zenon
<1> QED
  BY <1>1, <1>2, Zenon DEF QuietUnlessReading

LEMMA QuietError ==
  ASSUME IInv, NEW c \in Caller,
         conn[c] \in Conn,
         pc' = [pc EXCEPT ![c] = "idle"] \/ pc' = [pc EXCEPT ![c] = "dial"],
         conn' = [conn EXCEPT ![c] = None],
         connState' = [connState EXCEPT ![conn[c]] = "closed"],
         \A d \in Caller \ {c} : req'[d] = req[d],
         wire' = wire
  PROVE  QuietUnlessReading'
<1>1. /\ pc'[c] # "read"
      /\ \A d \in Caller \ {c} : pc'[d] = pc[d] /\ conn'[d] = conn[d]
      /\ connState'[conn[c]] = "closed"
      /\ \A k \in Conn : k # conn[c] => connState'[k] = connState[k]
  BY Zenon DEF IInv, TypeOK
<1>2. ASSUME NEW d \in Caller, pc'[d] = "read" PROVE wire'[conn'[d]] = <<req'[d]>>
  <2>1. d \in Caller \ {c}
    BY <1>1, <1>2, Zenon
  <2>2. pc[d] = "read" /\ conn'[d] = conn[d] /\ req'[d] = req[d]
    BY <1>1, <1>2, <2>1, Zenon
  <2>3. wire[conn[d]] = <<req[d]>>
    BY <2>2, Zenon DEF IInv, Streams, QuietUnlessReading
  <2> QED
    BY <2>2, <2>3, Zenon
<1>3. ASSUME NEW k \in Conn, connState'[k] # "closed", wire'[k] # <<>>
      PROVE  \E d \in Caller : conn'[d] = k /\ pc'[d] = "read"
  <2>1. k # conn[c] /\ connState[k] # "closed" /\ wire[k] # <<>>
    BY <1>1, <1>3, Zenon
  <2>2. PICK d \in Caller : conn[d] = k /\ pc[d] = "read"
    BY <2>1, Zenon DEF IInv, Streams, QuietUnlessReading
  <2> QED
    BY <1>1, <2>1, <2>2, Zenon
<1> QED
  BY <1>2, <1>3, Zenon DEF QuietUnlessReading

\* The caller that writes is the only owner, and the stream is empty.
LEMMA QuietWrite ==
  ASSUME IInv, NEW c \in Caller, Write(c)
  PROVE  QuietUnlessReading'
<1>1. /\ pc[c] = "write" /\ conn[c] \in Conn /\ req[c] \in Req
      /\ pc' = [pc EXCEPT ![c] = "read"]
      /\ wire' = [wire EXCEPT ![conn[c]] = Append(wire[conn[c]], req[c])]
      /\ UNCHANGED <<conn, req, connState>>
  BY NoneAssumption DEF IInv, TypeOK, Locals, Write, Goto
<1>2. wire[conn[c]] = <<>>
  <2>1. connState[conn[c]] = "open"
    BY <1>1, Zenon DEF IInv, OpenIffOwned
  <2>2. ASSUME NEW d \in Caller, conn[d] = conn[c], pc[d] = "read" PROVE FALSE
    <3>1. d = c
      BY <1>1, <2>2, NoneAssumption, Zenon DEF IInv, OneOwner
    <3> QED
      BY <1>1, <2>2, <3>1, Zenon
  <2> QED
    BY <1>1, <2>1, <2>2, Zenon DEF IInv, Streams, QuietUnlessReading
<1>3. Append(wire[conn[c]], req[c]) = <<req[c]>>
  BY <1>2
<1>4. /\ wire'[conn[c]] = <<req[c]>>
      /\ \A k \in Conn : k # conn[c] => wire'[k] = wire[k]
      /\ pc'[c] = "read"
      /\ \A d \in Caller \ {c} : pc'[d] = pc[d] /\ conn[d] # conn[c]
  <2>1. /\ wire \in [Conn -> Seq(Req)] /\ pc \in [Caller -> Step]
        /\ \A d \in Caller \ {c} : conn[d] # conn[c]
    BY <1>1, NoneAssumption, Zenon DEF IInv, TypeOK, OneOwner
  <2> QED
    BY <1>1, <1>3, <2>1, Zenon
<1>5. ASSUME NEW d \in Caller, pc'[d] = "read" PROVE wire'[conn[d]] = <<req[d]>>
  <2>1. CASE d = c
    BY <1>4, <2>1, Zenon
  <2>2. CASE d # c
    <3>1. pc[d] = "read" /\ conn[d] \in Conn /\ conn[d] # conn[c]
      BY <1>4, <1>5, <2>2 DEF IInv, TypeOK, Locals
    <3> QED
      BY <1>4, <3>1, Zenon DEF IInv, Streams, QuietUnlessReading
  <2> QED
    BY <2>1, <2>2, Zenon
<1>6. ASSUME NEW k \in Conn, connState[k] # "closed", wire'[k] # <<>>
      PROVE  \E d \in Caller : conn[d] = k /\ pc'[d] = "read"
  <2>1. CASE k = conn[c]
    BY <1>4, <2>1, Zenon
  <2>2. CASE k # conn[c]
    <3>1. PICK d \in Caller : conn[d] = k /\ pc[d] = "read"
      BY <1>4, <1>6, <2>2, Zenon DEF IInv, Streams, QuietUnlessReading
    <3> QED
      BY <1>4, <2>2, <3>1, Zenon
  <2> QED
    BY <2>1, <2>2, Zenon
<1> QED
  BY <1>1, <1>5, <1>6, Zenon DEF QuietUnlessReading

\* The one answer in the stream is read.
LEMMA QuietRead ==
  ASSUME IInv, NEW c \in Caller, Read(c)
  PROVE  QuietUnlessReading'
<1>1. /\ pc[c] = "read" /\ conn[c] \in Conn
      /\ wire[conn[c]] = <<req[c]>>
      /\ pc' = [pc EXCEPT ![c] = "put"]
      /\ wire' = [wire EXCEPT ![conn[c]] = Tail(wire[conn[c]])]
      /\ UNCHANGED <<conn, req, connState>>
  BY DEF IInv, TypeOK, Locals, Read, Goto, Streams, QuietUnlessReading
<1>2. Tail(wire[conn[c]]) = <<>>
  BY <1>1
<1>3. /\ wire'[conn[c]] = <<>>
      /\ \A k \in Conn : k # conn[c] => wire'[k] = wire[k]
      /\ pc'[c] = "put"
      /\ \A d \in Caller \ {c} : pc'[d] = pc[d] /\ conn[d] # conn[c]
  BY <1>1, <1>2, NoneAssumption DEF IInv, TypeOK, OneOwner
<1>4. ASSUME NEW d \in Caller, pc'[d] = "read" PROVE wire'[conn[d]] = <<req[d]>>
  <2>1. d # c /\ pc[d] = "read" /\ conn[d] \in Conn /\ conn[d] # conn[c]
    BY <1>3, <1>4 DEF IInv, TypeOK, Locals
  <2> QED
    BY <1>3, <2>1, Zenon DEF IInv, Streams, QuietUnlessReading
<1>5. ASSUME NEW k \in Conn, connState[k] # "closed", wire'[k] # <<>>
      PROVE  \E d \in Caller : conn[d] = k /\ pc'[d] = "read"
  <2>1. k # conn[c] /\ wire[k] # <<>>
    BY <1>3, <1>5, Zenon
  <2>2. PICK d \in Caller : conn[d] = k /\ pc[d] = "read"
    BY <1>5, <2>1, Zenon DEF IInv, Streams, QuietUnlessReading
  <2> QED
    BY <1>3, <2>1, <2>2, Zenon
<1> QED
  BY <1>1, <1>4, <1>5, Zenon DEF QuietUnlessReading

LEMMA QuietNext ==
  ASSUME IInv, [Next]_vars
  PROVE  QuietUnlessReading'
<1> USE DEF poolVars, connVars, callVars, downVars, histVars
<1>0. TypeOK /\ Locals /\ QuietUnlessReading
  BY Zenon DEF IInv, Streams
<1>1. ASSUME NEW c \in Caller, NEW a \in Addr, Invoke(c, a) PROVE QuietUnlessReading'
  BY <1>0, <1>1, QuietUnmoved, Zenon DEF Invoke, Goto, TypeOK
<1>2. ASSUME NEW c \in Caller, InvokeEncodeError(c) PROVE QuietUnlessReading'
  BY <1>0, <1>2, QuietUnmoved, Zenon DEF InvokeEncodeError
<1>3. ASSUME NEW c \in Caller, TakePoolFor(c) \/ PutPoolFor(c) \/ TakeNone(c)
      PROVE  QuietUnlessReading'
  BY <1>0, <1>3, QuietUnmoved, Zenon DEF TakePoolFor, PutPoolFor, TakeNone, Goto, TypeOK
<1>4. ASSUME NEW c \in Caller, TakeReceive(c) PROVE QuietUnlessReading'
  BY <1>0, <1>4, QuietUnmoved, Zenon DEF TakeReceive, Goto, TypeOK
<1>5. ASSUME NEW c \in Caller, Dial(c) PROVE QuietUnlessReading'
  <2>1. Fresh(Undialled) \in Conn /\ connState[Fresh(Undialled)] = "none"
    BY <1>5, FreshIsMember, Zenon DEF Dial, Undialled
  <2>2. \A k \in Conn : connState'[k] # "closed" => connState[k] # "closed"
    BY <1>0, <1>5, <2>1, Zenon DEF Dial, TypeOK
  <2> QED
    BY <1>0, <1>5, <2>2, QuietUnmoved, Zenon DEF Dial, Goto, TypeOK
<1>6. ASSUME NEW c \in Caller, DialError(c) PROVE QuietUnlessReading'
  BY <1>0, <1>6, QuietUnmoved, Zenon DEF DialError, Return, Goto, TypeOK
<1>7. ASSUME NEW c \in Caller, PutSend(c) PROVE QuietUnlessReading'
  BY <1>0, <1>7, QuietUnmoved, Zenon DEF PutSend, Return, Goto, TypeOK
<1>8. ASSUME NEW c \in Caller, InvokeErrorPooled(c) \/ InvokeErrorFresh(c) \/ PutFull(c)
      PROVE  QuietUnlessReading'
  <2>1. conn[c] \in Conn
    BY <1>0, <1>8, Zenon DEF InvokeErrorPooled, InvokeErrorFresh, PutFull, TypeOK, Locals
  <2>2. /\ pc' = [pc EXCEPT ![c] = "idle"] \/ pc' = [pc EXCEPT ![c] = "dial"]
        /\ conn' = [conn EXCEPT ![c] = None]
        /\ connState' = [connState EXCEPT ![conn[c]] = "closed"]
        /\ wire' = wire
    BY <1>8, Zenon DEF InvokeErrorPooled, InvokeErrorFresh, PutFull, Return, Goto
  <2>3. \A d \in Caller \ {c} : req'[d] = req[d]
    BY <1>0, <1>8, Zenon DEF InvokeErrorPooled, InvokeErrorFresh, PutFull, Return, TypeOK
  <2> QED
    BY <2>1, <2>2, <2>3, QuietError, Zenon
<1>9. ASSUME NEW c \in Caller, Write(c) PROVE QuietUnlessReading'
  BY <1>9, QuietWrite, Zenon
<1>10. ASSUME NEW c \in Caller, Read(c) PROVE QuietUnlessReading'
  BY <1>10, QuietRead, Zenon
<1>11. ASSUME NEW h \in toDrain, DrainConn(h) PROVE QuietUnlessReading'
  <2>1. \A k \in Conn : connState'[k] # "closed" => connState[k] # "closed"
    BY <1>0, <1>11, Zenon DEF DrainConn, TypeOK
  <2> QED
    BY <1>0, <1>11, <2>1, QuietUnmoved, Zenon DEF DrainConn
<1>12. ASSUME NEW h \in toDrain, Drained(h) PROVE QuietUnlessReading'
  BY <1>0, <1>12, QuietUnmoved, Zenon DEF Drained
<1>13. CASE ShutdownLock \/ ShutdownUnlock \/ UNCHANGED vars
  BY <1>0, <1>13, QuietUnmoved, Zenon DEF ShutdownLock, ShutdownUnlock, vars
<1> QED
  BY <1>1, <1>2, <1>3, <1>4, <1>5, <1>6, <1>7, <1>8, <1>9, <1>10, <1>11, <1>12, <1>13, Zenon
     DEF Next, Attempt, Shutdown

LEMMA CrossTalkNext ==
  ASSUME IInv, [Next]_vars
  PROVE  NoCrossTalk'
<1> USE DEF poolVars, connVars, callVars, downVars, histVars
<1>0. TypeOK /\ Locals /\ NoCrossTalk
  BY Zenon DEF IInv, Streams
<1>1. CASE answer' = answer
  BY <1>0, <1>1, Zenon DEF NoCrossTalk
<1>2. ASSUME NEW r \in Req, NEW v \in {"failed", r}, answer' = [answer EXCEPT ![r] = v]
      PROVE  NoCrossTalk'
  BY <1>0, <1>2, Zenon DEF NoCrossTalk, TypeOK
<1>3. ASSUME NEW c \in Caller, InvokeEncodeError(c) PROVE NoCrossTalk'
  <2>1. Fresh(Unused) \in Req
    BY <1>3, FreshIsMember, Zenon DEF InvokeEncodeError, Unused
  <2> QED
    BY <1>2, <1>3, <2>1, Zenon DEF InvokeEncodeError
<1>4. ASSUME NEW c \in Caller, DialError(c) \/ InvokeErrorFresh(c) PROVE NoCrossTalk'
  <2>1. req[c] \in Req /\ answer' = [answer EXCEPT ![req[c]] = "failed"]
    <3>1. pc[c] \in {"dial", "write", "read"} /\ answer' = [answer EXCEPT ![req[c]] = "failed"]
      BY <1>4, Zenon DEF DialError, InvokeErrorFresh, Return, Goto
    <3> QED
      BY <1>0, <3>1, Zenon DEF TypeOK, Locals
  <2> QED
    BY <1>2, <2>1, Zenon
<1>5. ASSUME NEW c \in Caller, PutSend(c) \/ PutFull(c) PROVE NoCrossTalk'
  <2>1. req[c] \in Req /\ answer' = [answer EXCEPT ![req[c]] = req[c]]
    BY <1>0, <1>5, Zenon DEF PutSend, PutFull, Return, TypeOK, Locals
  <2> QED
    BY <1>2, <2>1, Zenon
<1>6. ASSUME NEW c \in Caller, NEW a \in Addr, Invoke(c, a) PROVE NoCrossTalk'
  BY <1>1, <1>6, Zenon DEF Invoke
<1>7. ASSUME NEW c \in Caller,
             \/ TakePoolFor(c) \/ TakeReceive(c) \/ TakeNone(c) \/ Dial(c) \/ Write(c)
             \/ Read(c) \/ InvokeErrorPooled(c) \/ PutPoolFor(c)
      PROVE  NoCrossTalk'
  BY <1>1, <1>7, Zenon DEF TakePoolFor, TakeReceive, TakeNone, Dial, Write, Read,
                    InvokeErrorPooled, PutPoolFor
<1>8. ASSUME NEW h \in toDrain, DrainConn(h) \/ Drained(h) PROVE NoCrossTalk'
  BY <1>1, <1>8, Zenon DEF DrainConn, Drained
<1>9. CASE ShutdownLock \/ ShutdownUnlock \/ UNCHANGED vars
  BY <1>1, <1>9, Zenon DEF ShutdownLock, ShutdownUnlock, vars
<1> QED
  BY <1>3, <1>4, <1>5, <1>6, <1>7, <1>8, <1>9, Zenon DEF Next, Attempt, Shutdown

-----------------------------------------------------------------------------
(* The theorems.                                                           *)

\* The inductive invariant: ownership and quiet streams need each other.  A
\* write finds its stream empty because no other caller owns the connection,
\* and a connection goes back to the pool with an empty stream because its
\* one owner read the answer it waited for.
THEOREM ClientInvariant == Spec => []IInv
<1>1. Init => IInv
  BY InvInit, Zenon
<1>2. IInv /\ [Next]_vars => IInv'
  <2> SUFFICES ASSUME IInv, [Next]_vars PROVE IInv'
    BY Zenon
  <2>1. TypeOK'
    BY TypeNext, Zenon
  <2>2. Locals'
    BY LocalsNext, Zenon
  <2>3. Owners'
    BY OwnersNext, Zenon
  <2>4. QuietUnlessReading' /\ NoCrossTalk'
    BY QuietNext, CrossTalkNext, Zenon
  <2> QED
    BY <2>1, <2>2, <2>3, <2>4, Zenon DEF IInv, Owners, Streams
<1> QED
  BY <1>1, <1>2, PTL DEF Spec

\* The types of the client's state, and the capacity of every channel.
THEOREM ClientTypeOK == Spec => []TypeOK
<1>1. IInv => TypeOK
  BY Zenon DEF IInv
<1> QED
  BY <1>1, ClientInvariant, PTL

\* takeConn and putConn hand a connection to one InvokeSync at a time.
THEOREM ClientOneOwner == Spec => []OneOwner
<1>1. IInv => OneOwner
  BY Zenon DEF IInv
<1> QED
  BY <1>1, ClientInvariant, PTL

\* No connection leaks and no closed connection is handed out.
THEOREM ClientOpenIffOwned == Spec => []OpenIffOwned
<1>1. IInv => OpenIffOwned
  BY Zenon DEF IInv
<1> QED
  BY <1>1, ClientInvariant, PTL

\* InvokeSync returns the answer to its own request or an error.
THEOREM ClientNoCrossTalk == Spec => []NoCrossTalk
<1>1. IInv => NoCrossTalk
  BY Zenon DEF IInv, Streams
<1> QED
  BY <1>1, ClientInvariant, PTL

\* Nothing is left to read on a connection that is free.
THEOREM ClientQuietUnlessReading == Spec => []QuietUnlessReading
<1>1. IInv => QuietUnlessReading
  BY Zenon DEF IInv, Streams
<1> QED
  BY <1>1, ClientInvariant, PTL

\* A connection is only used for the address it was dialled to.
THEOREM ClientRightPeer == Spec => []RightPeer
<1>1. IInv => RightPeer
  BY Zenon DEF IInv
<1> QED
  BY <1>1, ClientInvariant, PTL

-----------------------------------------------------------------------------
(* How often a request is written.                                         *)

\* A request that may be written again, and one as the peers may see it.
Retryable(s) == s = <<>> \/ (Len(s) = 1 /\ s[1] = "pooled")
Tried(s) == Len(s) <= 2 /\ (Len(s) = 2 => s[1] = "pooled" /\ s[2] = "fresh")

LEMMA TriedAppend ==
  ASSUME NEW s \in Seq({"pooled", "fresh"}), NEW k \in {"pooled", "fresh"},
         Retryable(s), k = "pooled" => s = <<>>
  PROVE  /\ Tried(Append(s, k))
         /\ k = "pooled" => Retryable(Append(s, k))
<1> DEFINE t == Append(s, k)
<1>1. /\ Len(s) \in Nat /\ Len(t) = Len(s) + 1 /\ t[Len(s) + 1] = k
      /\ \A i \in 1..Len(s) : t[i] = s[i]
  OBVIOUS
<1>2. Len(<<>>) = 0
  OBVIOUS
<1> HIDE DEF t
<1>3. CASE s = <<>>
  BY <1>1, <1>2, <1>3 DEF Retryable, Tried, t
<1>4. CASE s # <<>>
  <2>1. Len(s) = 1 /\ s[1] = "pooled" /\ k = "fresh"
    BY <1>4, Zenon DEF Retryable
  <2>2. Len(t) = 2 /\ t[1] = "pooled" /\ t[2] = "fresh"
    BY <1>1, <2>1
  <2> QED
    BY <2>1, <2>2 DEF Tried, t
<1> QED
  BY <1>3, <1>4, Zenon

\* What a call has written where it stands: nothing before its connection
\* is chosen, once before a dial, and once more on a fresh connection.
Written(c) ==
  /\ pc[c] \in {"take", "receive"} => writes[req[c]] = <<>>
  /\ pc[c] = "dial" => Retryable(writes[req[c]])
  /\ pc[c] = "write" /\ pooled[c] => writes[req[c]] = <<>>
  /\ pc[c] = "write" => Retryable(writes[req[c]])
  /\ pc[c] = "read" /\ pooled[c] => Retryable(writes[req[c]])

\* A request belongs to one call, and is written by nobody else.
Counted ==
  /\ \A r \in Req : Tried(writes[r])
  /\ \A r \in Unused : writes[r] = <<>>
  /\ \A c, d \in Caller : req[c] # None /\ req[c] = req[d] => c = d
  /\ \A c \in Caller : pc[c] # "idle" => Written(c)

\* A call that ends uses its request up.
LEMMA CountedReturn ==
  ASSUME IInv, Counted, NEW c \in Caller, NEW from, from # "idle",
         NEW result \in Req \cup {"failed"},
         Return(c, from, result), writes' = writes
  PROVE  Counted'
<1>1. /\ pc[c] = from /\ req[c] \in Req
      /\ pc' = [pc EXCEPT ![c] = "idle"] /\ req' = [req EXCEPT ![c] = None]
      /\ answer' = [answer EXCEPT ![req[c]] = result]
      /\ pooled' = [pooled EXCEPT ![c] = FALSE]
  BY Zenon DEF Return, Goto, IInv, TypeOK, Locals
<1>2. result # None
  BY NoneAssumption, Zenon
<1>3. Unused' \subseteq Unused
  <2> SUFFICES ASSUME NEW r \in Unused' PROVE r \in Unused
    BY Zenon
  <2>1. r \in Req /\ answer'[r] = None /\ \A d \in Caller : req'[d] # r
    BY Zenon DEF Unused
  <2>2. r # req[c]
    BY <1>1, <1>2, <2>1, Zenon DEF IInv, TypeOK
  <2> QED
    BY <1>1, <2>1, <2>2, Zenon DEF Unused, IInv, TypeOK
<1>4. \A d, e \in Caller : req'[d] # None /\ req'[d] = req'[e] => d = e
  BY <1>1, Zenon DEF Counted, IInv, TypeOK
<1>5. ASSUME NEW d \in Caller, pc'[d] # "idle" PROVE Written(d)'
  <2>1. d # c /\ pc'[d] = pc[d] /\ req'[d] = req[d] /\ pooled'[d] = pooled[d]
    BY <1>1, <1>5, Zenon DEF IInv, TypeOK
  <2> QED
    BY <1>5, <2>1, Zenon DEF Counted, Written
<1> QED
  BY <1>3, <1>4, <1>5, Zenon DEF Counted

\* A call goes on without writing.
LEMMA CountedGoto ==
  ASSUME IInv, Counted, NEW c \in Caller, pc[c] # "idle",
         \A d \in Caller \ {c} : pc'[d] = pc[d] /\ pooled'[d] = pooled[d],
         Written(c)', UNCHANGED <<req, histVars>>
  PROVE  Counted'
<1>1. Unused' = Unused
  BY Zenon DEF Unused, histVars
<1>2. ASSUME NEW d \in Caller, pc'[d] # "idle" PROVE Written(d)'
  <2>1. CASE d = c
    BY <2>1, Zenon
  <2>2. CASE d # c
    BY <1>2, <2>2, Zenon DEF Counted, Written, histVars
  <2> QED
    BY <2>1, <2>2, Zenon
<1> QED
  BY <1>1, <1>2, Zenon DEF Counted, histVars

\* A call writes its own request.
LEMMA CountedWrite ==
  ASSUME IInv, Counted, NEW c \in Caller, Write(c)
  PROVE  Counted'
<1> DEFINE kind == IF pooled[c] THEN "pooled" ELSE "fresh"
<1>1. /\ pc[c] = "write" /\ req[c] \in Req /\ pc' = [pc EXCEPT ![c] = "read"]
      /\ writes' = [writes EXCEPT ![req[c]] = Append(writes[req[c]], kind)]
      /\ UNCHANGED <<req, pooled, answer>>
  BY Zenon DEF Write, Goto, IInv, TypeOK, Locals
<1> /\ writes \in [Req -> Seq({"pooled", "fresh"})] /\ pc \in [Caller -> Step]
    /\ pooled \in [Caller -> BOOLEAN] /\ req \in [Caller -> Req \cup {None}]
  BY Zenon DEF IInv, TypeOK
<1>2. /\ Retryable(writes[req[c]])
      /\ pooled[c] => writes[req[c]] = <<>>
  BY <1>1, Zenon DEF Counted, Written
<1>3. /\ writes'[req[c]] = Append(writes[req[c]], kind)
      /\ \A r \in Req \ {req[c]} : writes'[r] = writes[r]
  BY <1>1, Zenon
<1>a. /\ Tried(Append(writes[req[c]], kind))
      /\ pooled[c] => Retryable(Append(writes[req[c]], kind))
  <2>1. /\ writes[req[c]] \in Seq({"pooled", "fresh"}) /\ kind \in {"pooled", "fresh"}
        /\ kind = "pooled" => writes[req[c]] = <<>>
        /\ pooled[c] => kind = "pooled"
    BY <1>1, <1>2, Zenon
  <2> QED
    BY <1>2, <2>1, TriedAppend, Zenon
<1> HIDE DEF kind
<1>4. \A r \in Req : Tried(writes'[r])
  BY <1>3, <1>a, Zenon DEF Counted
<1>5. \A r \in Unused' : writes'[r] = <<>>
  BY <1>1, <1>3, Zenon DEF Counted, Unused
<1>6. ASSUME NEW d \in Caller, pc'[d] # "idle" PROVE Written(d)'
  <2>1. CASE d = c
    BY <1>1, <1>3, <1>a, <2>1, Zenon DEF Written
  <2>2. CASE d # c
    <3>1. pc'[d] = pc[d] /\ pc[d] # "idle"
      BY <1>1, <1>6, <2>2, Zenon
    <3>2. req[d] \in Req \ {req[c]}
      BY <1>1, <2>2, <3>1, Zenon DEF Counted, IInv, TypeOK, Locals
    <3> QED
      BY <1>1, <1>3, <3>1, <3>2, Zenon DEF Counted, Written
  <2> QED
    BY <2>1, <2>2, Zenon
<1> QED
  BY <1>1, <1>4, <1>5, <1>6, Zenon DEF Counted

\* No step writes a request more often than it may.
LEMMA CountedNext ==
  ASSUME IInv, Counted, [Next]_vars
  PROVE  Counted'
<1> USE DEF poolVars, connVars, callVars, downVars
<1>0. TypeOK /\ Locals
  BY Zenon DEF IInv
<1>1. ASSUME NEW c \in Caller, NEW a \in Addr, Invoke(c, a) PROVE Counted'
  <2> DEFINE r == Fresh(Unused)
  <2>1. /\ r \in Unused /\ pc[c] = "idle" /\ pc' = [pc EXCEPT ![c] = "take"]
        /\ req' = [req EXCEPT ![c] = r] /\ UNCHANGED <<pooled, histVars>>
    BY <1>1, FreshIsMember, Zenon DEF Invoke, Goto
  <2> HIDE DEF r
  <2>2. r \in Req /\ writes[r] = <<>> /\ (\A d \in Caller : req[d] # r)
    BY <2>1, Zenon DEF Unused, Counted
  <2>3. req[c] = None
    BY <1>0, <2>1, Zenon DEF Locals
  <2>4. Unused' \subseteq Unused
    <3> SUFFICES ASSUME NEW q \in Unused' PROVE q \in Unused
      BY Zenon
    <3> QED
      BY <1>0, <2>1, <2>3, NoneAssumption DEF Unused, TypeOK, histVars
  <2>5. \A d, e \in Caller : req'[d] # None /\ req'[d] = req'[e] => d = e
    BY <1>0, <2>1, <2>2, Zenon DEF Counted, TypeOK
  <2>6. ASSUME NEW d \in Caller, pc'[d] # "idle" PROVE Written(d)'
    <3>1. CASE d = c
      BY <1>0, <2>1, <2>2, <3>1, Zenon DEF Written, TypeOK, histVars
    <3>2. CASE d # c
      BY <1>0, <2>1, <2>6, <3>2, Zenon DEF Written, Counted, TypeOK, histVars
    <3> QED
      BY <3>1, <3>2, Zenon
  <2> QED
    BY <2>1, <2>4, <2>5, <2>6, Zenon DEF Counted, histVars
<1>2. ASSUME NEW c \in Caller, InvokeEncodeError(c) PROVE Counted'
  <2>1. /\ answer' = [answer EXCEPT ![Fresh(Unused)] = "failed"]
        /\ UNCHANGED <<pc, req, pooled, writes>>
    BY <1>2, Zenon DEF InvokeEncodeError
  <2>2. Unused' \subseteq Unused
    BY <1>0, <2>1, NoneAssumption, Zenon DEF Unused, TypeOK
  <2> QED
    BY <2>1, <2>2, Zenon DEF Counted, Written
<1>3. ASSUME NEW c \in Caller, TakePoolFor(c) \/ TakeReceive(c) \/ TakeNone(c) \/ Dial(c)
      PROVE  Counted'
  <2>1. pc[c] # "idle" /\ UNCHANGED <<req, histVars>>
    BY <1>3, Zenon DEF TakePoolFor, TakeReceive, TakeNone, Dial, Goto
  <2>2. \A d \in Caller \ {c} : pc'[d] = pc[d] /\ pooled'[d] = pooled[d]
    BY <1>0, <1>3, Zenon DEF TakePoolFor, TakeReceive, TakeNone, Dial, Goto, TypeOK
  <2>3. Written(c)'
    <3>1. Written(c) /\ req[c] \in Req
      BY <1>0, <2>1, Zenon DEF Counted, TypeOK, Locals
    <3>2. CASE TakePoolFor(c)
      BY <1>0, <2>1, <3>1, <3>2, Zenon DEF TakePoolFor, Goto, Written, TypeOK, histVars
    <3>3. CASE TakeReceive(c)
      BY <1>0, <2>1, <3>1, <3>3, Zenon DEF TakeReceive, Goto, Written, Retryable, TypeOK, histVars
    <3>4. CASE TakeNone(c)
      BY <1>0, <2>1, <3>1, <3>4, Zenon DEF TakeNone, Goto, Written, Retryable, TypeOK, histVars
    <3>5. CASE Dial(c)
      <4>1. pc'[c] = "write" /\ pc[c] = "dial" /\ writes' = writes /\ req' = req
        BY <1>0, <3>5, Zenon DEF Dial, Goto, TypeOK, histVars
      <4>2. pooled'[c] = FALSE
        BY <1>0, <3>5, Zenon DEF Dial, TypeOK
      <4> QED
        BY <3>1, <4>1, <4>2, Zenon DEF Written
    <3> QED
      BY <1>3, <3>2, <3>3, <3>4, <3>5, Zenon
  <2> QED
    BY <2>1, <2>2, <2>3, CountedGoto, Zenon
<1>4. ASSUME NEW c \in Caller, Read(c) \/ InvokeErrorPooled(c) \/ PutPoolFor(c)
      PROVE  Counted'
  <2>1. pc[c] # "idle" /\ UNCHANGED <<req, pooled, histVars>>
    BY <1>4, Zenon DEF Read, InvokeErrorPooled, PutPoolFor, Goto
  <2>2. \A d \in Caller \ {c} : pc'[d] = pc[d]
    BY <1>0, <1>4, Zenon DEF Read, InvokeErrorPooled, PutPoolFor, Goto, TypeOK
  <2>3. Written(c)'
    <3>1. Written(c) /\ req[c] \in Req
      BY <1>0, <2>1, Zenon DEF Counted, TypeOK, Locals
    <3>2. CASE Read(c) \/ PutPoolFor(c)
      <4>1. pc'[c] \in {"put", "send"}
        BY <1>0, <3>2, Zenon DEF Read, PutPoolFor, Goto, TypeOK
      <4> QED
        BY <4>1, Zenon DEF Written
    <3>3. CASE InvokeErrorPooled(c)
      <4>1. pc'[c] = "dial" /\ pooled[c] /\ pc[c] \in {"write", "read"}
        BY <1>0, <3>3, Zenon DEF InvokeErrorPooled, TypeOK
      <4>2. Retryable(writes[req[c]])
        BY <3>1, <4>1, Zenon DEF Written
      <4> QED
        BY <2>1, <4>1, <4>2, Zenon DEF Written, histVars
    <3> QED
      BY <1>4, <3>2, <3>3, Zenon
  <2> QED
    BY <2>1, <2>2, <2>3, CountedGoto, Zenon
<1>5. ASSUME NEW c \in Caller,
             DialError(c) \/ InvokeErrorFresh(c) \/ PutSend(c) \/ PutFull(c)
      PROVE  Counted'
  <2>1. CASE DialError(c) \/ InvokeErrorFresh(c)
    <3>1. \E from \in {"dial", "write", "read"} : Return(c, from, "failed")
      BY <2>1, Zenon DEF DialError, InvokeErrorFresh
    <3>2. writes' = writes
      BY <2>1, Zenon DEF DialError, InvokeErrorFresh
    <3> QED
      BY <3>1, <3>2, CountedReturn, Zenon
  <2>2. CASE PutSend(c) \/ PutFull(c)
    <3>1. Return(c, "send", resp[c]) /\ writes' = writes /\ pc[c] = "send"
      BY <2>2, Zenon DEF PutSend, PutFull
    <3>2. resp[c] \in Req
      BY <1>0, <3>1, NoneAssumption, Zenon DEF Locals, TypeOK
    <3> QED
      BY <3>1, <3>2, CountedReturn, Zenon
  <2> QED
    BY <1>5, <2>1, <2>2, Zenon
<1>6. CASE ShutdownLock \/ Shutdown \/ UNCHANGED vars
  <2>1. UNCHANGED <<pc, req, pooled, histVars>>
    BY <1>6, Zenon DEF ShutdownLock, Shutdown, DrainConn, Drained, ShutdownUnlock, vars
  <2> QED
    BY <2>1, Zenon DEF Counted, Written, Unused, histVars
<1> QED
  BY <1>1, <1>2, <1>3, <1>4, <1>5, <1>6, CountedWrite, Zenon DEF Next, Attempt

\* A call holds an answer only between its read and its return.
Unanswered == \A c \in Caller : pc[c] \notin {"put", "send"} => resp[c] = None

LEMMA UnansweredNext ==
  ASSUME TypeOK, Unanswered, [Next]_vars
  PROVE  Unanswered'
<1> USE DEF callVars, Unanswered, TypeOK, Goto
<1>1. ASSUME NEW c \in Caller, NEW a \in Addr, Invoke(c, a) PROVE Unanswered'
  BY <1>1, Zenon DEF Invoke
<1>2. ASSUME NEW c \in Caller, InvokeEncodeError(c) PROVE Unanswered'
  BY <1>2, Zenon DEF InvokeEncodeError
<1>3. ASSUME NEW c \in Caller,
             TakePoolFor(c) \/ TakeReceive(c) \/ TakeNone(c) \/ Dial(c) \/ Write(c)
      PROVE  Unanswered'
  BY <1>3, Zenon DEF TakePoolFor, TakeReceive, TakeNone, Dial, Write
<1>4. ASSUME NEW c \in Caller, Read(c) \/ InvokeErrorPooled(c) \/ PutPoolFor(c)
      PROVE  Unanswered'
  BY <1>4, Zenon DEF Read, InvokeErrorPooled, PutPoolFor
<1>5. ASSUME NEW c \in Caller,
             DialError(c) \/ InvokeErrorFresh(c) \/ PutSend(c) \/ PutFull(c)
      PROVE  Unanswered'
  BY <1>5, Zenon DEF DialError, InvokeErrorFresh, PutSend, PutFull, Return
<1>6. CASE ShutdownLock \/ Shutdown \/ UNCHANGED vars
  BY <1>6, Zenon DEF ShutdownLock, Shutdown, DrainConn, Drained, ShutdownUnlock, vars
<1> QED
  BY <1>1, <1>2, <1>3, <1>4, <1>5, <1>6, Zenon DEF Next, Attempt

\* A request reaches the peers a second time only on a fresh connection,
\* after a try on a pooled one and before an answer was read, for any number
\* of callers, addresses and pooled connections.
THEOREM ClientAtMostOneRetry == Spec => []AtMostOneRetry
<1>1. Init => Counted /\ Unanswered
  BY DEF Init, Counted, Unused, Tried, Unanswered
<1>2. IInv /\ Counted /\ Unanswered /\ [Next]_vars => Counted' /\ Unanswered'
  BY CountedNext, UnansweredNext, Zenon DEF IInv
<1>3. Counted /\ Unanswered => AtMostOneRetry
  BY Zenon DEF Counted, Tried, Unanswered, AtMostOneRetry
<1> QED
  BY <1>1, <1>2, <1>3, ClientInvariant, PTL DEF Spec

==============================================================================
