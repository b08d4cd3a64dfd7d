--------------------------- MODULE RemotingClient ---------------------------
(***************************************************************************)
(* The connection pool of internal/rmqremote/remote_client.go.             *)
(*                                                                         *)
(* Any number of goroutines call InvokeSync.  The mutex c.mu guards the    *)
(* map of pools only: the channel that poolFor returns is received from or *)
(* sent to after the mutex is released, so that each takeConn and each     *)
(* putConn is two steps, between which other callers, and Shutdown, run.   *)
(*                                                                         *)
(* The network is external: a write or a read may fail at any time (a      *)
(* deadline, a peer that closed the connection, a frame that does not      *)
(* decode).  wire[k] holds the requests written on connection k whose      *)
(* answers were not read from it: the peer answers in order, and an answer *)
(* that comes after the deadline stays in the stream.                      *)
(***************************************************************************)
EXTENDS Integers, Sequences

CONSTANTS Caller,    \* the goroutines that call InvokeSync
          Addr,      \* the addresses of brokers and name servers
          Conn,      \* bound: the connections that may be dialled
          Chan,      \* bound: the channels that may be made
          Req,       \* bound: the requests, one for each call
          PoolSize,  \* connPoolSizePerAddr
          None       \* nil, or nothing yet

ASSUME PoolSizeAssumption == PoolSize \in Nat \ {0}

ASSUME NoneAssumption ==
  None \notin Caller \cup Addr \cup Conn \cup Chan \cup Req \cup {"failed"}

VARIABLES
  \* RemotingClient
  pools,      \* c.pools: the channel of an address, None when it has none
  mu,         \* c.mu is held by Shutdown
  \* the objects
  chan,       \* the connections in each channel, in order
  chanAddr,   \* the address a channel was made for, None: not made
  connState,  \* "none" (not dialled), "open" or "closed"
  connAddr,   \* the address a connection was dialled to
  wire,       \* the requests written on a connection and not answered on it
  \* the locals of each call of InvokeSync
  pc,
  addr,
  req,
  ch,         \* what poolFor returned
  conn,       \* the connection the call owns
  pooled,     \* conn was taken from a pool
  resp,       \* the request whose answer was read
  \* Shutdown
  toDrain,    \* the channels that its loop still has to empty
  closing,    \* "no", "draining", "done"
  \* history
  answer,     \* by request: whose answer InvokeSync returned, or "failed"
  writes      \* by request: the kinds of connection it was written on, in order

poolVars == <<pools, mu, chan, chanAddr>>
connVars == <<connState, connAddr, wire>>
callVars == <<pc, addr, req, ch, conn, pooled, resp>>
downVars == <<toDrain, closing>>
histVars == <<answer, writes>>
vars == <<poolVars, connVars, callVars, downVars, histVars>>

Init ==
  /\ pools = [a \in Addr |-> None]
  /\ mu = FALSE
  /\ chan = [h \in Chan |-> <<>>]
  /\ chanAddr = [h \in Chan |-> None]
  /\ connState = [k \in Conn |-> "none"]
  /\ connAddr = [k \in Conn |-> None]
  /\ wire = [k \in Conn |-> <<>>]
  /\ pc = [c \in Caller |-> "idle"]
  /\ addr = [c \in Caller |-> None]
  /\ req = [c \in Caller |-> None]
  /\ ch = [c \in Caller |-> None]
  /\ conn = [c \in Caller |-> None]
  /\ pooled = [c \in Caller |-> FALSE]
  /\ resp = [c \in Caller |-> None]
  /\ toDrain = {}
  /\ closing = "no"
  /\ answer = [r \in Req |-> None]
  /\ writes = [r \in Req |-> <<>>]

-----------------------------------------------------------------------------
(* Fresh objects.  Which name a new object gets makes no difference.       *)

Unused == {r \in Req : answer[r] = None /\ \A d \in Caller : req[d] # r}
Undialled == {k \in Conn : connState[k] = "none"}
Unmade == {h \in Chan : chanAddr[h] = None}

Fresh(S) == CHOOSE x \in S : TRUE

-----------------------------------------------------------------------------
(* InvokeSync.                                                             *)

Goto(c, from, to) ==
  /\ pc[c] = from
  /\ pc' = [pc EXCEPT ![c] = to]

\* The call ends: its locals are gone.
Return(c, from, result) ==
  /\ Goto(c, from, "idle")
  /\ answer' = [answer EXCEPT ![req[c]] = result]
  /\ addr' = [addr EXCEPT ![c] = None]
  /\ req' = [req EXCEPT ![c] = None]
  /\ ch' = [ch EXCEPT ![c] = None]
  /\ conn' = [conn EXCEPT ![c] = None]
  /\ pooled' = [pooled EXCEPT ![c] = FALSE]
  /\ resp' = [resp EXCEPT ![c] = None]

\* The call begins with a request that encode accepts.
Invoke(c, a) ==
  /\ Unused # {}
  /\ Goto(c, "idle", "take")
  /\ addr' = [addr EXCEPT ![c] = a]
  /\ req' = [req EXCEPT ![c] = Fresh(Unused)]
  /\ UNCHANGED <<poolVars, connVars, ch, conn, pooled, resp, downVars, histVars>>

\* encode fails: the call returns before it touches a connection.
InvokeEncodeError(c) ==
  /\ Unused # {}
  /\ pc[c] = "idle"
  /\ answer' = [answer EXCEPT ![Fresh(Unused)] = "failed"]
  /\ UNCHANGED <<poolVars, connVars, callVars, downVars, writes>>

\* poolFor under c.mu: the channel of the address, made on first use.
PoolFor(c) ==
  /\ ~mu
  /\ IF pools[addr[c]] # None
     THEN /\ ch' = [ch EXCEPT ![c] = pools[addr[c]]]
          /\ UNCHANGED <<pools, chanAddr>>
     ELSE /\ Unmade # {}
          /\ chanAddr' = [chanAddr EXCEPT ![Fresh(Unmade)] = addr[c]]
          /\ pools' = [pools EXCEPT ![addr[c]] = Fresh(Unmade)]
          /\ ch' = [ch EXCEPT ![c] = Fresh(Unmade)]
  /\ UNCHANGED <<mu, chan>>

TakePoolFor(c) ==
  /\ Goto(c, "take", "receive")
  /\ PoolFor(c)
  /\ UNCHANGED <<connVars, addr, req, conn, pooled, resp, downVars, histVars>>

\* Mutation: the connection is looked at, not received.
TakeReceivePeek(c) ==
  /\ pc[c] = "receive"
  /\ chan[ch[c]] # <<>>
  /\ Goto(c, "receive", "write")
  /\ conn' = [conn EXCEPT ![c] = Head(chan[ch[c]])]
  /\ pooled' = [pooled EXCEPT ![c] = TRUE]
  /\ ch' = [ch EXCEPT ![c] = None]
  /\ UNCHANGED <<poolVars, connVars, addr, req, resp, downVars,
                 histVars>>

\* takeConn: a connection was free.
TakeReceive(c) ==
  /\ pc[c] = "receive"
  /\ chan[ch[c]] # <<>>
  /\ Goto(c, "receive", "write")
  /\ conn' = [conn EXCEPT ![c] = Head(chan[ch[c]])]
  /\ chan' = [chan EXCEPT ![ch[c]] = Tail(@)]
  /\ pooled' = [pooled EXCEPT ![c] = TRUE]
  /\ ch' = [ch EXCEPT ![c] = None]
  /\ UNCHANGED <<pools, mu, chanAddr, connVars, addr, req, resp, downVars,
                 histVars>>

\* takeConn: the default case of the select.
TakeNone(c) ==
  /\ pc[c] = "receive"
  /\ chan[ch[c]] = <<>>
  /\ Goto(c, "receive", "dial")
  /\ ch' = [ch EXCEPT ![c] = None]
  /\ UNCHANGED <<poolVars, connVars, addr, req, conn, pooled, resp, downVars, histVars>>

Dial(c) ==
  /\ Undialled # {}
  /\ Goto(c, "dial", "write")
  /\ connState' = [connState EXCEPT ![Fresh(Undialled)] = "open"]
  /\ connAddr' = [connAddr EXCEPT ![Fresh(Undialled)] = addr[c]]
  /\ conn' = [conn EXCEPT ![c] = Fresh(Undialled)]
  /\ pooled' = [pooled EXCEPT ![c] = FALSE]
  /\ UNCHANGED <<poolVars, wire, addr, req, ch, resp, downVars, histVars>>

DialError(c) ==
  /\ Return(c, "dial", "failed")
  /\ UNCHANGED <<poolVars, connVars, downVars, writes>>

\* conn.Write in invokeOnConn.
Write(c) ==
  /\ Goto(c, "write", "read")
  /\ wire' = [wire EXCEPT ![conn[c]] = Append(@, req[c])]
  /\ writes' = [writes EXCEPT ![req[c]] =
                   Append(@, IF pooled[c] THEN "pooled" ELSE "fresh")]
  /\ UNCHANGED <<poolVars, connState, connAddr, addr, req, ch, conn, pooled,
                 resp, downVars, answer>>

\* One response frame is read and decoded.
Read(c) ==
  /\ Goto(c, "read", "put")
  /\ resp' = [resp EXCEPT ![c] = Head(wire[conn[c]])]
  /\ wire' = [wire EXCEPT ![conn[c]] = Tail(@)]
  /\ UNCHANGED <<poolVars, connState, connAddr, addr, req, ch, conn, pooled,
                 downVars, histVars>>

\* Mutation: after an error on a pooled connection the call goes back to
\* the pool.
InvokeErrorPooledRetake(c) ==
  /\ pc[c] \in {"write", "read"}
  /\ pooled[c]
  /\ pc' = [pc EXCEPT ![c] = "take"]
  /\ connState' = [connState EXCEPT ![conn[c]] = "closed"]
  /\ conn' = [conn EXCEPT ![c] = None]
  /\ UNCHANGED <<poolVars, connAddr, wire, addr, req, ch, pooled, resp, downVars,
                 histVars>>

\* invokeOnConn fails on a pooled connection: close it and dial afresh.
InvokeErrorPooled(c) ==
  /\ pc[c] \in {"write", "read"}
  /\ pooled[c]
  /\ pc' = [pc EXCEPT ![c] = "dial"]
  /\ connState' = [connState EXCEPT ![conn[c]] = "closed"]
  /\ conn' = [conn EXCEPT ![c] = None]
  /\ UNCHANGED <<poolVars, connAddr, wire, addr, req, ch, pooled, resp, downVars,
                 histVars>>

\* Mutation: the connection of a call that failed is kept for the next one.
InvokeErrorFreshKeep(c) ==
  /\ pc[c] \in {"write", "read"}
  /\ ~pooled[c]
  /\ pools[addr[c]] # None
  /\ chan' = [chan EXCEPT ![pools[addr[c]]] = Append(@, conn[c])]
  /\ Return(c, pc[c], "failed")
  /\ UNCHANGED <<pools, mu, chanAddr, connState, connAddr, wire, downVars, writes>>

\* invokeOnConn fails on a fresh connection: close it and give up.
InvokeErrorFresh(c) ==
  /\ pc[c] \in {"write", "read"}
  /\ ~pooled[c]
  /\ connState' = [connState EXCEPT ![conn[c]] = "closed"]
  /\ Return(c, pc[c], "failed")
  /\ UNCHANGED <<poolVars, connAddr, wire, downVars, writes>>

\* putConn, first half.
PutPoolFor(c) ==
  /\ Goto(c, "put", "send")
  /\ PoolFor(c)
  /\ UNCHANGED <<connVars, addr, req, conn, pooled, resp, downVars, histVars>>

\* putConn: the channel has room, and InvokeSync returns the response.
PutSend(c) ==
  /\ pc[c] = "send"
  /\ Len(chan[ch[c]]) < PoolSize
  /\ Return(c, "send", resp[c])
  /\ chan' = [chan EXCEPT ![ch[c]] = Append(@, conn[c])]
  /\ UNCHANGED <<pools, mu, chanAddr, connVars, downVars, writes>>

\* Mutation: a connection that finds no room is forgotten.
PutFullForget(c) ==
  /\ pc[c] = "send"
  /\ Len(chan[ch[c]]) >= PoolSize
  /\ Return(c, "send", resp[c])
  /\ UNCHANGED <<poolVars, connVars, downVars, writes>>

\* putConn: the pool is full, the connection is closed.
PutFull(c) ==
  /\ pc[c] = "send"
  /\ Len(chan[ch[c]]) >= PoolSize
  /\ Return(c, "send", resp[c])
  /\ connState' = [connState EXCEPT ![conn[c]] = "closed"]
  /\ UNCHANGED <<poolVars, connAddr, wire, downVars, writes>>

Attempt(c) ==
  \/ TakePoolFor(c)
  \/ TakeReceive(c)
  \/ TakeNone(c)
  \/ Dial(c)
  \/ DialError(c)
  \/ Write(c)
  \/ Read(c)
  \/ InvokeErrorPooled(c)
  \/ InvokeErrorFresh(c)
  \/ PutPoolFor(c)
  \/ PutSend(c)
  \/ PutFull(c)

-----------------------------------------------------------------------------
(* Shutdown, which holds c.mu from its first to its last step.  The loop   *)
(* over the pools empties one channel after the other; no step on one      *)
(* channel depends on another, so the order is left open.                  *)

ShutdownLock ==
  /\ closing = "no"
  /\ mu' = TRUE
  /\ closing' = "draining"
  /\ toDrain' = {pools[a] : a \in Addr} \ {None}
  /\ UNCHANGED <<pools, chan, chanAddr, connVars, callVars, histVars>>

\* case conn := <-ch
DrainConn(h) ==
  /\ chan[h] # <<>>
  /\ connState' = [connState EXCEPT ![Head(chan[h])] = "closed"]
  /\ chan' = [chan EXCEPT ![h] = Tail(@)]
  /\ UNCHANGED <<pools, mu, chanAddr, connAddr, wire, callVars, downVars, histVars>>

\* default: goto drained
Drained(h) ==
  /\ chan[h] = <<>>
  /\ toDrain' = toDrain \ {h}
  /\ UNCHANGED <<poolVars, connVars, callVars, closing, histVars>>

\* Mutation: the mutex is not released.
ShutdownKeepLock ==
  /\ closing = "draining"
  /\ toDrain = {}
  /\ pools' = [a \in Addr |-> None]
  /\ closing' = "done"
  /\ UNCHANGED <<mu, chan, chanAddr, connVars, callVars, toDrain, histVars>>

ShutdownUnlock ==
  /\ closing = "draining"
  /\ toDrain = {}
  /\ pools' = [a \in Addr |-> None]
  /\ mu' = FALSE
  /\ closing' = "done"
  /\ UNCHANGED <<chan, chanAddr, connVars, callVars, toDrain, histVars>>

Shutdown ==
  \/ \E h \in toDrain : DrainConn(h) \/ Drained(h)
  \/ ShutdownUnlock

Next ==
  \/ \E c \in Caller, a \in Addr : Invoke(c, a)
  \/ \E c \in Caller : InvokeEncodeError(c)
  \/ \E c \in Caller : Attempt(c)
  \/ ShutdownLock
  \/ Shutdown

Spec == Init /\ [][Next]_vars

(***************************************************************************)
(* A goroutine that can run is scheduled, and a blocked read or write ends *)
(* at its deadline; nothing forces a call or a Shutdown to begin.          *)
(***************************************************************************)
Fairness ==
  /\ \A c \in Caller : WF_vars(Attempt(c))
  /\ WF_vars(Shutdown)

FairSpec == Spec /\ Fairness

-----------------------------------------------------------------------------
(* Properties.                                                             *)

Step == {"idle", "take", "receive", "dial", "write", "read", "put", "send"}

\* The state has its types, and no channel holds more than PoolSize
\* connections.
TypeOK ==
  /\ pools \in [Addr -> Chan \cup {None}]
  /\ mu \in BOOLEAN
  /\ chan \in [Chan -> Seq(Conn)]
  /\ \A h \in Chan : Len(chan[h]) <= PoolSize
  /\ chanAddr \in [Chan -> Addr \cup {None}]
  /\ connState \in [Conn -> {"none", "open", "closed"}]
  /\ connAddr \in [Conn -> Addr \cup {None}]
  /\ wire \in [Conn -> Seq(Req)]
  /\ pc \in [Caller -> Step]
  /\ addr \in [Caller -> Addr \cup {None}]
  /\ req \in [Caller -> Req \cup {None}]
  /\ ch \in [Caller -> Chan \cup {None}]
  /\ conn \in [Caller -> Conn \cup {None}]
  /\ pooled \in [Caller -> BOOLEAN]
  /\ resp \in [Caller -> Req \cup {None}]
  /\ toDrain \subseteq Chan
  /\ closing \in {"no", "draining", "done"}
  /\ answer \in [Req -> Req \cup {None, "failed"}]
  /\ writes \in [Req -> Seq({"pooled", "fresh"})]

Elems(s) == {s[i] : i \in 1..Len(s)}
Distinct(s) == \A i, j \in 1..Len(s) : s[i] = s[j] => i = j

\* "handing each cached connection to at most one InvokeSync caller at a
\* time": a connection is with one caller, or once in one channel, or
\* nowhere, although receive and send happen outside the mutex and Shutdown
\* drains channels that callers still hold.
OneOwner ==
  /\ \A c, d \in Caller : conn[c] # None /\ conn[c] = conn[d] => c = d
  /\ \A c \in Caller, h \in Chan : conn[c] \notin Elems(chan[h])
  /\ \A h \in Chan : Distinct(chan[h])
  /\ \A g, h \in Chan : g # h => Elems(chan[g]) \cap Elems(chan[h]) = {}

\* A broken connection "must not be put back", and none is dropped without
\* being closed: the open connections are exactly those that some caller
\* owns or some channel holds.
OpenIffOwned ==
  \A k \in Conn :
    connState[k] = "open" <=> \/ \E c \in Caller : conn[c] = k
                             \/ \E h \in Chan : k \in Elems(chan[h])

\* "request/response frames cannot interleave or desync": the answer that
\* InvokeSync returns is the answer to its own request, also after deadlines
\* that left answers unread and although no opaque is compared.
NoCrossTalk == \A r \in Req : answer[r] \in {None, "failed", r}

\* A connection is only used for the address it was dialled to.
RightPeer ==
  /\ \A c \in Caller : conn[c] # None => connAddr[conn[c]] = addr[c]
  /\ \A h \in Chan : \A k \in Elems(chan[h]) : connAddr[k] = chanAddr[h]

\* What makes a connection fit for reuse: nothing is left to read on a
\* connection that is free, or that a call is about to use or to free.
QuietUnlessReading ==
  /\ \A c \in Caller : pc[c] = "read" => wire[conn[c]] = <<req[c]>>
  /\ \A k \in Conn :
       connState[k] # "closed" /\ wire[k] # <<>> =>
         \E c \in Caller : conn[c] = k /\ pc[c] = "read"

\* "transparently retries once with a fresh dial": a request is written a
\* second time only after a try on a pooled connection, on a fresh one, and
\* before any answer to it was read; a request whose first try was on a fresh
\* connection is never written again.
AtMostOneRetry ==
  /\ \A r \in Req :
       /\ Len(writes[r]) <= 2
       /\ Len(writes[r]) = 2 => writes[r][1] = "pooled" /\ writes[r][2] = "fresh"
  /\ \A c \in Caller : pc[c] \in {"dial", "write"} => resp[c] = None

\* Every call returns, whatever the peers and Shutdown do.  Shutdown cannot
\* be kept busy by callers that put connections back into the channel it
\* drains: it holds the mutex, so that each of them can do it only once.
EveryCallReturns ==
  /\ \A c \in Caller : pc[c] # "idle" ~> pc[c] = "idle"
  /\ closing = "draining" ~> closing = "done"

=============================================================================
