------------------------------- MODULE Tunnel -------------------------------
(***************************************************************************)
(* internal/tunnel: the life of one proxied TCP connection from the moment *)
(* a front end has put it on the tunnel's queue until the goroutine        *)
(* handleTCPConn has run its deferred calls, together with the parts of    *)
(* internal/statistic and internal/conf that goroutine touches.            *)
(*                                                                         *)
(* Every connection is served by its own goroutine; pc says which          *)
(* statement of it comes next.  conf.App.Mode is read afresh at five       *)
(* statements of handleTCPConn, and each of those reads is a step of its   *)
(* own here, because a reload of the configuration may come in between.    *)
(***************************************************************************)
EXTENDS Integers, FiniteSets, Sequences

CONSTANTS
  Conns,      \* the incoming TCP connections
  TLSEnable   \* conf.App.TLS.Enable

ASSUME ConnsAssumption == IsFiniteSet(Conns)
ASSUME TLSAssumption   == TLSEnable \in BOOLEAN

VARIABLES
  mode,     \* conf.App.Mode
  pc,       \* pc[c]: next statement of the goroutine that serves c
  kind,     \* kind[c]: Metadata.Type, "tunnel" for what server.handle queues
  src,      \* src[c]: the accepted socket, TCPContext.Conn
  dest,     \* dest[c]: the dialled socket, destConn
  wire,     \* wire[c]: how destConn is used, see WireType
  granted,  \* connections whose client got the success reply of PreFn
  tracked,  \* statistic.DefaultManager.connections
  wg,       \* counter of the listener's sync.WaitGroup
  outcome   \* outcome[c]: how serving c ended or is about to end

tunnelVars == <<mode, pc, kind, src, dest, wire, granted, tracked, wg, outcome>>

-----------------------------------------------------------------------------
(* Types *)

Modes == {"direct", "client", "server"}

\* HTTP has a rewritten request (Line) and no PreFn; CONNECT, SOCKS4 and SOCKS5
\* have a PreFn and no Line; a connection of the server command has neither.
Kinds   == {"http", "connect", "socks4", "socks5", "tunnel"}
HasLine(c)  == kind[c] = "http"
HasPreFn(c) == kind[c] \in {"connect", "socks4", "socks5"}

Sockets == {"none", "open", "closed"}

\* What handleTCPConn writes to destConn itself: the target address as a frame,
\* the HTTP request as a frame, the HTTP request as it is.
Preambles == {"addrFrame", "lineFrame", "line"}

WireType == [target  : {"none", "origin", "server"},  \* whom destConn reaches
             secure  : BOOLEAN,                       \* dialled with TLS
             sent    : Seq(Preambles),                \* written before the relay
             relay   : {"none", "direct", "proxy"},   \* copied raw or framed
             swapped : BOOLEAN]                       \* src, dest = destConn, ctx.Conn

NoWire == [target |-> "none", secure |-> FALSE, sent |-> << >>,
           relay |-> "none", swapped |-> FALSE]

Outcomes == {"none", "denied", "frontErr", "udp", "resolveErr", "dialErr",
             "headerErr", "lineErr", "relayed"}

\* Statements of the listener's goroutines, then those of handleTCPConn.
FrontStages  == {"new", "accepted", "peek", "handshake", "udp", "readFull", "queued"}
TunnelStages == {"resolve", "dial", "header", "lineFrame", "preFn", "branch",
                 "swap", "join", "relay", "relayDest", "relaySrc", "post", "closeDest", "closeSrc"}
Stages       == FrontStages \cup TunnelStages \cup {"done"}

\* The types of this module's variables.
TunnelTypeOK ==
  /\ mode    \in Modes
  /\ pc      \in [Conns -> Stages]
  /\ kind    \in [Conns -> Kinds \cup {"none"}]
  /\ src     \in [Conns -> Sockets]
  /\ dest    \in [Conns -> Sockets]
  /\ wire    \in [Conns -> WireType]
  /\ granted \subseteq Conns
  /\ tracked \subseteq Conns
  /\ wg      \in Nat
  /\ outcome \in [Conns -> Outcomes]

-----------------------------------------------------------------------------
(* Helpers *)

\* The goroutine of c goes from one statement to another.
Goto(c, from, to) ==
  /\ pc[c] = from
  /\ pc' = [pc EXCEPT ![c] = to]

\* The goroutine of c gives up at statement `from': the deferred calls registered
\* so far start at `to'.
Fail(c, from, to, why) ==
  /\ Goto(c, from, to)
  /\ outcome' = [outcome EXCEPT ![c] = why]

\* The socket the tracker of c wraps: it is the relay's Dest.
Wrapped(c) == IF wire[c].swapped THEN src ELSE dest

\* Fault: Close forgets to leave the manager.
Leave_Forgotten(c) == UNCHANGED tracked

\* TcpTracker.Close first leaves the manager ...
Leave(c) == tracked' = tracked \ {c}

\* ... and then closes the wrapped socket.  Closing a socket again only returns an error,
\* which every caller drops.
CloseWrapped(c) ==
  IF wire[c].swapped
    THEN src'  = [src  EXCEPT ![c] = "closed"] /\ UNCHANGED dest
    ELSE dest' = [dest EXCEPT ![c] = "closed"] /\ UNCHANGED src

-----------------------------------------------------------------------------
(* handleTCPConn, statement by statement *)

\* Fault: the success reply is sent before the target has been dialled.
Dequeue_EarlyReply(c) ==
  /\ Goto(c, "queued", "resolve")
  /\ granted' = IF HasPreFn(c) THEN granted \cup {c} ELSE granted
  /\ UNCHANGED <<mode, kind, src, dest, wire, tracked, wg, outcome>>

\* A worker of processTCP takes c from the queue and starts its goroutine.
Dequeue(c) ==
  /\ Goto(c, "queued", "resolve")
  /\ UNCHANGED <<mode, kind, src, dest, wire, granted, tracked, wg, outcome>>

\* The first read of the mode picks the host to resolve: in client mode the
\* lightsocks server of the configuration, otherwise the requested target.
Resolve(c) ==
  /\ wire' = [wire EXCEPT ![c].target = IF mode = "client" THEN "server" ELSE "origin"]
  /\ \/ Goto(c, "resolve", "dial") /\ UNCHANGED outcome
     \/ Fail(c, "resolve", "closeSrc", "resolveErr")
  /\ UNCHANGED <<mode, kind, src, dest, granted, tracked, wg>>

\* The second read decides between tls.DialWithDialer and a plain dial.
DialOk(c) ==
  /\ Goto(c, "dial", "header")
  /\ wire' = [wire EXCEPT ![c].secure = TLSEnable /\ mode = "client"]
  /\ dest' = [dest EXCEPT ![c] = "open"]
  /\ UNCHANGED <<mode, kind, src, granted, tracked, wg, outcome>>

\* Fault: a failed dial is tried again without end.
DialErr_Retry(c) ==
  /\ Goto(c, "dial", "resolve")
  /\ UNCHANGED <<mode, kind, src, dest, wire, granted, tracked, wg, outcome>>

DialErr(c) ==
  /\ Fail(c, "dial", "closeSrc", "dialErr")
  /\ UNCHANGED <<mode, kind, src, dest, wire, granted, tracked, wg>>

\* Fault: the deferred Close of destConn is registered after the frames are written.
Header_LateDefer(c) ==
  /\ IF mode # "client"
       THEN Goto(c, "header", "preFn") /\ UNCHANGED <<wire, outcome>>
       ELSE \/ /\ Goto(c, "header", IF HasLine(c) THEN "lineFrame" ELSE "preFn")
               /\ wire' = [wire EXCEPT ![c].sent = Append(@, "addrFrame")]
               /\ UNCHANGED outcome
            \/ Fail(c, "header", "closeSrc", "headerErr") /\ UNCHANGED wire
  /\ UNCHANGED <<mode, kind, src, dest, granted, tracked, wg>>

\* The third read: a client announces the target address to its server in a frame.
Header(c) ==
  /\ IF mode # "client"
       THEN Goto(c, "header", "preFn") /\ UNCHANGED <<wire, outcome>>
       ELSE \/ /\ Goto(c, "header", IF HasLine(c) THEN "lineFrame" ELSE "preFn")
               /\ wire' = [wire EXCEPT ![c].sent = Append(@, "addrFrame")]
               /\ UNCHANGED outcome
            \/ Fail(c, "header", "closeDest", "headerErr") /\ UNCHANGED wire
  /\ UNCHANGED <<mode, kind, src, dest, granted, tracked, wg>>

\* The rewritten HTTP request follows in a second frame.
LineFrame(c) ==
  /\ \/ /\ Goto(c, "lineFrame", "preFn")
        /\ wire' = [wire EXCEPT ![c].sent = Append(@, "lineFrame")]
        /\ UNCHANGED outcome
     \/ Fail(c, "lineFrame", "closeDest", "headerErr") /\ UNCHANGED wire
  /\ UNCHANGED <<mode, kind, src, dest, granted, tracked, wg>>

\* PreFn tells the client that its request is granted; a failed write is only
\* logged.  From here on the deferred PostFn is registered.
PreFn(c) ==
  /\ Goto(c, "preFn", "branch")
  /\ granted' = IF HasPreFn(c) THEN granted \cup {c} ELSE granted
  /\ UNCHANGED <<mode, kind, src, dest, wire, tracked, wg, outcome>>

\* The fourth read chooses the relay; in direct mode the HTTP request is sent on
\* first, and a failed write returns through PostFn.
Branch(c) ==
  /\ IF mode # "direct"
       THEN /\ Goto(c, "branch", "swap")
            /\ wire' = [wire EXCEPT ![c].relay = "proxy"]
            /\ UNCHANGED outcome
       ELSE \/ /\ Goto(c, "branch", "join")
               /\ wire' = [wire EXCEPT ![c].relay = "direct",
                                       ![c].sent  = IF HasLine(c) THEN Append(@, "line") ELSE @]
               /\ UNCHANGED outcome
            \/ /\ HasLine(c)
               /\ Fail(c, "branch", "post", "lineErr")
               /\ UNCHANGED wire
  /\ UNCHANGED <<mode, kind, src, dest, granted, tracked, wg>>

\* Fault: a server swaps the ends like a client.
Swap_AnyProxy(c) ==
  /\ Goto(c, "swap", "join")
  /\ wire' = [wire EXCEPT ![c].swapped = (mode # "direct")]
  /\ UNCHANGED <<mode, kind, src, dest, granted, tracked, wg, outcome>>

\* The fifth read: a client has the framed side on destConn, so the ends change places.
Swap(c) ==
  /\ Goto(c, "swap", "join")
  /\ wire' = [wire EXCEPT ![c].swapped = (mode = "client")]
  /\ UNCHANGED <<mode, kind, src, dest, granted, tracked, wg, outcome>>

\* NewTCPTracker wraps the relay's Dest and enters the manager's registry.
Join(c) ==
  /\ Goto(c, "join", "relay")
  /\ tracked' = tracked \cup {c}
  /\ UNCHANGED <<mode, kind, src, dest, wire, granted, wg, outcome>>

\* Both copying goroutines have returned (either peer ended, or a socket was closed
\* under them) and the relay's deferred function closes Dest, which is the tracker: it
\* leaves the manager ...
RelayEnd(c) ==
  /\ Goto(c, "relay", "relayDest")
  /\ Leave(c)
  /\ UNCHANGED <<mode, kind, src, dest, wire, granted, wg, outcome>>

\* ... and closes its socket ...
RelayCloseDest(c) ==
  /\ Goto(c, "relayDest", "relaySrc")
  /\ CloseWrapped(c)
  /\ UNCHANGED <<mode, kind, wire, granted, tracked, wg, outcome>>

\* ... and then Src.
RelayCloseSrc(c) ==
  /\ Goto(c, "relaySrc", "post")
  /\ IF wire[c].swapped
       THEN dest' = [dest EXCEPT ![c] = "closed"] /\ UNCHANGED src
       ELSE src'  = [src  EXCEPT ![c] = "closed"] /\ UNCHANGED dest
  /\ outcome' = [outcome EXCEPT ![c] = "relayed"]
  /\ UNCHANGED <<mode, kind, wire, granted, tracked, wg>>

\* Fault: PostFn does not call wg.Done.
PostFn_NoDone(c) ==
  /\ Goto(c, "post", "closeDest")
  /\ UNCHANGED <<mode, kind, src, dest, wire, granted, tracked, wg, outcome>>

\* The deferred calls of handleTCPConn, last registered first: PostFn is the
\* listener's wg.Done, then destConn.Close, then ctx.Conn.Close.
PostFn(c) ==
  /\ Goto(c, "post", "closeDest")
  /\ wg' = wg - 1
  /\ UNCHANGED <<mode, kind, src, dest, wire, granted, tracked, outcome>>

CloseDest(c) ==
  /\ Goto(c, "closeDest", "closeSrc")
  /\ dest' = [dest EXCEPT ![c] = "closed"]
  /\ UNCHANGED <<mode, kind, src, wire, granted, tracked, wg, outcome>>

CloseSrc(c) ==
  /\ Goto(c, "closeSrc", "done")
  /\ src' = [src EXCEPT ![c] = "closed"]
  /\ UNCHANGED <<mode, kind, dest, wire, granted, tracked, wg, outcome>>

\* Everything the goroutine does by itself ...
Step(c) ==
  \/ Dequeue(c)  \/ Resolve(c) \/ DialOk(c) \/ DialErr(c) \/ Header(c) \/ LineFrame(c)
  \/ PreFn(c)    \/ Branch(c)  \/ Swap(c)   \/ Join(c)
  \/ RelayCloseDest(c) \/ RelayCloseSrc(c) \/ PostFn(c) \/ CloseDest(c) \/ CloseSrc(c)

\* ... and the end of the relay, which waits for a peer or for a closed socket.
TunnelNext(c) == Step(c) \/ RelayEnd(c)
=============================================================================
