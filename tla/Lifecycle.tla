------------------------------ MODULE Lifecycle ------------------------------
(***************************************************************************)
(* One lightsocks process: the accept loop and the front-end goroutines of *)
(* internal/mixed (commands direct and client) and of internal/server      *)
(* (command server), the tunnel's goroutines (module Tunnel), the signal   *)
(* handler of cmd with ShutdownWithTimeout, the connection routes of       *)
(* internal/api, and the configuration watcher of internal/conf.           *)
(*                                                                         *)
(* The process starts in the state ListenAndServe is in once the listener  *)
(* is open.  What the three front-end parsers accept is left open here: a  *)
(* handshake succeeds or fails.                                            *)
(***************************************************************************)
EXTENDS Tunnel

CONSTANT Reloads   \* may the configuration file be rewritten while we run?

ASSUME ReloadsAssumption == Reloads \in BOOLEAN

VARIABLES
  command,   \* the cobra command; the client command without a server is "direct"
  lis,       \* Listener.tcp and .udp: "open", "closed", or "nil" after shutdown
  sig,       \* where the signal handler is
  waitDone,  \* the goroutine of ShutdownWithTimeout has returned from wg.Wait()
  proc,      \* "up", "exited" or "panicked"
  snap,      \* trackers some API request has in its snapshot and is going to close
  closing    \* trackers an API request has taken off the manager and not closed yet

vars == <<tunnelVars, command, lis, sig, waitDone, proc, snap, closing>>

ctlVars == <<command, lis, sig, waitDone, proc, snap, closing>>

\* Types; wg \in Nat says that sync.WaitGroup never panics on a negative counter
\* (mixed.go 138, server/tcp.go 109, 120, 151): no path of a connection calls Done twice.
TypeOK ==
  /\ TunnelTypeOK
  /\ command  \in Modes
  /\ lis      \in {"open", "closed", "nil"}
  /\ sig      \in {"running", "waiting", "drained", "timedOut"}
  /\ waitDone \in BOOLEAN
  /\ proc     \in {"up", "exited", "panicked"}
  /\ snap     \subseteq Conns
  /\ closing  \subseteq Conns

Init ==
  /\ command \in Modes
  /\ mode     = command
  /\ pc       = [c \in Conns |-> "new"]
  /\ kind     = [c \in Conns |-> "none"]
  /\ src      = [c \in Conns |-> "none"]
  /\ dest     = [c \in Conns |-> "none"]
  /\ wire     = [c \in Conns |-> NoWire]
  /\ granted  = {}
  /\ tracked  = {}
  /\ wg       = 0
  /\ outcome  = [c \in Conns |-> "none"]
  /\ lis      = "open"
  /\ sig      = "running"
  /\ waitDone = FALSE
  /\ proc     = "up"
  /\ snap     = {}
  /\ closing  = {}

-----------------------------------------------------------------------------
(* The accept loop of either ListenAndServe *)

\* ln.Accept returns a connection.  The loop is sequential: the previous one has
\* been denied or admitted before.
Accept(c) ==
  /\ lis = "open"
  /\ \A d \in Conns : pc[d] # "accepted"
  /\ Goto(c, "new", "accepted")
  /\ src' = [src EXCEPT ![c] = "open"]
  /\ UNCHANGED <<mode, kind, dest, wire, granted, tracked, wg, outcome>>
  /\ UNCHANGED ctlVars

\* auth.VerifyIP refuses the address.
Deny(c) ==
  /\ Fail(c, "accepted", "done", "denied")
  /\ src' = [src EXCEPT ![c] = "closed"]
  /\ UNCHANGED <<mode, kind, dest, wire, granted, tracked, wg>>
  /\ UNCHANGED ctlVars

\* Fault: wg.Add is left to the new goroutine, which has not run yet.
Admit_LateAdd(c) ==
  /\ Goto(c, "accepted", IF command = "server" THEN "readFull" ELSE "peek")
  /\ UNCHANGED <<mode, kind, src, dest, wire, granted, tracked, wg, outcome>>
  /\ UNCHANGED ctlVars

\* wg.Add(1) and a goroutine of its own.  Nothing here looks at a shutdown that
\* may have begun since Accept returned.
Admit(c) ==
  /\ Goto(c, "accepted", IF command = "server" THEN "readFull" ELSE "peek")
  /\ wg' = wg + 1
  /\ UNCHANGED <<mode, kind, src, dest, wire, granted, tracked, outcome>>
  /\ UNCHANGED ctlVars

-----------------------------------------------------------------------------
(* mixed.Listener.handle *)

\* The front end gives up: handle closes the connection and returns, and nobody
\* calls wg.Done for it.
FrontErr(c, from) ==
  /\ Fail(c, from, "done", "frontErr")
  /\ src' = [src EXCEPT ![c] = "closed"]
  /\ UNCHANGED <<mode, kind, dest, wire, granted, tracked, wg>>
  /\ UNCHANGED ctlVars

PeekErr(c) == FrontErr(c, "peek")

\* The first byte selects the proxy.  SOCKS5 also asks the UDP socket for its
\* address: a nil dereference once ShutdownWithTimeout has set it to nil.
Peek(c) ==
  /\ pc[c] = "peek"
  /\ \E k \in Kinds \ {"tunnel"} :
       IF k = "socks5" /\ lis = "nil"
         THEN proc' = "panicked" /\ UNCHANGED <<pc, kind>>
         ELSE /\ pc'   = [pc   EXCEPT ![c] = "handshake"]
              /\ kind' = [kind EXCEPT ![c] = k]
              /\ UNCHANGED proc
  /\ UNCHANGED <<mode, src, dest, wire, granted, tracked, wg, outcome>>
  /\ UNCHANGED <<command, lis, sig, waitDone, snap, closing>>

HandshakeErr(c) == FrontErr(c, "handshake")

\* The request is understood and put on tunnel.TCPIn.
HandshakeOk(c) ==
  /\ Goto(c, "handshake", "queued")
  /\ UNCHANGED <<mode, kind, src, dest, wire, granted, tracked, wg, outcome>>
  /\ UNCHANGED ctlVars

\* SOCKS5 UDP ASSOCIATE: the goroutine stays with the TCP connection ...
UdpAssociate(c) ==
  /\ kind[c] = "socks5"
  /\ Goto(c, "handshake", "udp")
  /\ UNCHANGED <<mode, kind, src, dest, wire, granted, tracked, wg, outcome>>
  /\ UNCHANGED ctlVars

\* ... until reading from it fails, closes it and returns, again without wg.Done.
UdpEnd(c) ==
  /\ Fail(c, "udp", "done", "udp")
  /\ src' = [src EXCEPT ![c] = "closed"]
  /\ UNCHANGED <<mode, kind, dest, wire, granted, tracked, wg>>
  /\ UNCHANGED ctlVars

-----------------------------------------------------------------------------
(* server.Listener.handle *)

\* Fault: the error path falls through to the tunnel, whose PostFn calls wg.Done again.
ReadFullErr_NoReturn(c) ==
  /\ Goto(c, "readFull", "queued")
  /\ wg' = wg - 1
  /\ UNCHANGED <<mode, kind, src, dest, wire, granted, tracked, outcome>>
  /\ UNCHANGED ctlVars

\* The first frame cannot be read: wg.Done, then the connection is closed.
ReadFullErr(c) ==
  /\ Fail(c, "readFull", "closeSrc", "frontErr")
  /\ wg' = wg - 1
  /\ UNCHANGED <<mode, kind, src, dest, wire, granted, tracked>>
  /\ UNCHANGED ctlVars

\* The first frame holds the target address.
ReadFullOk(c) ==
  /\ Goto(c, "readFull", "queued")
  /\ kind' = [kind EXCEPT ![c] = "tunnel"]
  /\ UNCHANGED <<mode, src, dest, wire, granted, tracked, wg, outcome>>
  /\ UNCHANGED ctlVars

-----------------------------------------------------------------------------
(* registerSignalHandlers and ShutdownWithTimeout *)

\* Fault: close() clears the fields while connections are still served.
Signal_ClearsFields ==
  /\ sig = "running"
  /\ sig' = "waiting"
  /\ lis' = "nil"
  /\ UNCHANGED <<tunnelVars, command, waitDone, proc, snap, closing>>

\* A signal arrives: the listener is closed, the wait for wg and its timer start.
Signal ==
  /\ sig = "running"
  /\ sig' = "waiting"
  /\ lis' = "closed"
  /\ UNCHANGED <<tunnelVars, command, waitDone, proc, snap, closing>>

\* l.wg.Wait() returns in the goroutine that closes the channel.
WaitReturn ==
  /\ sig = "waiting"
  /\ ~waitDone
  /\ wg = 0
  /\ waitDone' = TRUE
  /\ UNCHANGED <<tunnelVars, command, lis, sig, proc, snap, closing>>

\* The select takes either ready case; the deferred function clears the fields.
ShutdownReturn(how) ==
  /\ sig = "waiting"
  /\ sig' = how
  /\ lis' = "nil"
  /\ UNCHANGED <<tunnelVars, command, waitDone, proc, snap, closing>>

\* Fault: the timeout is only looked at once wg.Wait has returned.
ShutdownTimeout_AfterWait == waitDone /\ ShutdownReturn("timedOut")

ShutdownDrained == waitDone /\ ShutdownReturn("drained")
ShutdownTimeout == ShutdownReturn("timedOut")

\* os.Exit(0)
Exit ==
  /\ sig \in {"drained", "timedOut"}
  /\ proc' = "exited"
  /\ UNCHANGED <<tunnelVars, command, lis, sig, waitDone, snap, closing>>

-----------------------------------------------------------------------------
(* The API's connection routes and the configuration watcher *)

\* DELETE /connections/{id} finds c in its snapshot of the manager ...
CloseConnection(c) ==
  /\ c \in tracked
  /\ snap' = snap \cup {c}
  /\ UNCHANGED <<tunnelVars, command, lis, sig, waitDone, proc, closing>>

\* ... DELETE /connections takes them all ...
CloseAllConnections ==
  /\ tracked # {}
  /\ snap' = snap \cup tracked
  /\ UNCHANGED <<tunnelVars, command, lis, sig, waitDone, proc, closing>>

\* ... and closes a tracker that may have ended by itself meanwhile: first the manager ...
ApiLeave(c) ==
  /\ c \in snap
  /\ snap' = snap \ {c}
  /\ closing' = closing \cup {c}
  /\ Leave(c)
  /\ UNCHANGED <<mode, pc, kind, src, dest, wire, granted, wg, outcome>>
  /\ UNCHANGED <<command, lis, sig, waitDone, proc>>

\* ... and then the socket, under a relay that may still be running.
ApiClose(c) ==
  /\ c \in closing
  /\ closing' = closing \ {c}
  /\ CloseWrapped(c)
  /\ UNCHANGED <<mode, pc, kind, wire, granted, tracked, wg, outcome>>
  /\ UNCHANGED <<command, lis, sig, waitDone, proc, snap>>

\* A write to the configuration file: viperLoadConf replaces conf.App by a fresh
\* Config, whose Mode is DirectMode.
Reload ==
  /\ Reloads
  /\ mode' = "direct"
  /\ UNCHANGED <<pc, kind, src, dest, wire, granted, tracked, wg, outcome>>
  /\ UNCHANGED ctlVars

-----------------------------------------------------------------------------
(* The specification *)

\* What the goroutines that serve c do.
Front(c) ==
  \/ Accept(c)  \/ Deny(c) \/ Admit(c)
  \/ PeekErr(c) \/ Peek(c) \/ HandshakeErr(c) \/ HandshakeOk(c)
  \/ UdpAssociate(c) \/ UdpEnd(c)
  \/ ReadFullErr(c)  \/ ReadFullOk(c)

Tunnelled(c) == TunnelNext(c) /\ UNCHANGED ctlVars

Control ==
  \/ Signal \/ WaitReturn \/ ShutdownDrained \/ ShutdownTimeout \/ Exit
  \/ CloseAllConnections \/ Reload
  \/ \E c \in Conns : CloseConnection(c) \/ ApiLeave(c) \/ ApiClose(c)

\* An ended process does nothing.
Terminated == proc # "up" /\ UNCHANGED vars

Next ==
  \/ /\ proc = "up"
     /\ \/ \E c \in Conns : Front(c) \/ Tunnelled(c)
        \/ Control
  \/ Terminated

Spec == Init /\ [][Next]_vars

\* Goroutines that do not wait for a peer are scheduled; lookups and dials end, by
\* DefaultDNSTimeout and the configured Timeout at the latest; the shutdown timer fires;
\* the handler exits.
OwnStep(c) == proc = "up" /\ Step(c) /\ UNCHANGED ctlVars

Fairness ==
  /\ \A c \in Conns : WF_vars(OwnStep(c))
  /\ WF_vars(proc = "up" /\ (ShutdownDrained \/ ShutdownTimeout))
  /\ WF_vars(proc = "up" /\ Exit)

FairSpec == Spec /\ Fairness

-----------------------------------------------------------------------------
(* Properties *)

\* Outcomes after which the WaitGroup is never decremented for the connection: the
\* goroutine returned before the deferred PostFn existed, or, in internal/mixed, the
\* connection never got to the tunnel.
LeakingOutcomes ==
  {"resolveErr", "dialErr", "headerErr"} \cup
  (IF command = "server" THEN {} ELSE {"frontErr", "udp"})

\* The connections wg.Add was called for and wg.Done was not.
Held ==
  {c \in Conns :
     \/ pc[c] \in Stages \ {"new", "accepted", "closeDest", "closeSrc", "done"}
     \/ pc[c] \in {"closeDest", "closeSrc", "done"} /\ outcome[c] \in LeakingOutcomes}

\* The WaitGroup counts exactly the connections in service plus the ones that ended in
\* one of the leaking outcomes: it is never decremented twice for a connection, and
\* which error paths of handleTCPConn and handle forget wg.Done is stated precisely.
WgAccounting == wg = Cardinality(Held)

\* When wg.Wait returns, no admitted connection is still being served: each of them is
\* at most running its last deferred closes.
DrainMeansIdle ==
  [][~waitDone /\ waitDone' =>
       \A c \in Conns : pc[c] \in {"new", "accepted", "closeDest", "closeSrc", "done"}]_vars

\* The manager lists a connection exactly while its relay runs on an open wrapped socket,
\* but for the moment in which an API request that closes it stands between the two
\* statements of TcpTracker.Close: whichever of the relay and the requests comes first, no
\* running relay gets lost to the API and no ended one stays listed (tracker.go 50-53).
RegistryFaithful ==
  tracked = {c \in Conns : pc[c] = "relay" /\ Wrapped(c)[c] = "open" /\ c \notin closing}

\* However a connection ended, both of its sockets are closed and it left the manager.
SocketsReleased ==
  \A c \in Conns : pc[c] = "done" =>
    /\ src[c] = "closed"
    /\ dest[c] # "open"
    /\ c \notin tracked

\* A client that was told its request is granted has a dialled connection behind it,
\* and nothing but the end of the relay ends it.
GrantedMeansRelayed ==
  \A c \in granted : dest[c] # "none" /\ outcome[c] \in {"none", "relayed"}

\* How the command says a connection of kind k must look on destConn: a client sends
\* the target, and an HTTP request after it, in frames to the server over the configured
\* transport and relays frames with the ends swapped; a server relays frames to the
\* origin; direct mode relays raw bytes to the origin.
Expected(k) ==
  CASE command = "client" ->
         [target |-> "server", secure |-> TLSEnable,
          sent |-> IF k = "http" THEN <<"addrFrame", "lineFrame">> ELSE <<"addrFrame">>,
          relay |-> "proxy", swapped |-> TRUE]
    [] command = "server" ->
         [target |-> "origin", secure |-> FALSE, sent |-> << >>,
          relay |-> "proxy", swapped |-> FALSE]
    [] command = "direct" ->
         [target |-> "origin", secure |-> FALSE,
          sent |-> IF k = "http" THEN <<"line">> ELSE << >>,
          relay |-> "direct", swapped |-> FALSE]

\* Every connection that reaches its relay speaks the protocol of the command the
\* process was started with, although the mode is read at five separate statements.
SpeaksCommandProtocol ==
  \A c \in Conns : pc[c] \in {"relay", "relayDest", "relaySrc"} => wire[c] = Expected(kind[c])

\* The nil UDP socket brings the process down only after a shutdown has returned.
PanicOnlyAfterShutdown == proc = "panicked" => sig \in {"drained", "timedOut"}

\* A process that got a signal ends, leaked WaitGroup counts and silent peers or not.
ShutdownEnds == sig # "running" ~> proc # "up"

\* A queued connection gets to its relay or to its end; no error path of
\* handleTCPConn leaves it in between.
TunnelSettles ==
  \A c \in Conns : pc[c] = "queued" ~> (pc[c] \in {"relay", "done"} \/ proc # "up")

-----------------------------------------------------------------------------
(* The inductive invariant behind the safety properties *)

\* Stages before a socket to the target exists, and stages of a running relay or later.
Undialled == {"accepted", "peek", "handshake", "udp", "readFull", "queued", "resolve", "dial"}
Dialled   == {"header", "lineFrame", "preFn", "branch", "swap", "join"}
Late      == {"relay", "relayDest", "relaySrc", "post", "closeDest", "closeSrc", "done"}

\* Which sockets of a connection are open at each statement of its goroutine, whoever
\* closes the tracker in between: up to the dial only the accepted one, up to the relay
\* both, and every path to "closeSrc" has closed or never opened the dialled one.
SocketInv(c) ==
  /\ pc[c] = "new"       => src[c] = "none" /\ dest[c] = "none"
  /\ pc[c] \in Undialled => src[c] = "open" /\ dest[c] = "none"
  /\ pc[c] \in Dialled   => src[c] = "open" /\ dest[c] = "open"
  /\ pc[c] \in {"relay", "relayDest", "relaySrc", "post", "closeDest"} => dest[c] # "none"
  /\ pc[c] \in {"closeSrc", "done"} => dest[c] # "open"
  /\ pc[c] = "done"      => src[c] = "closed"

\* What is known about how the goroutine got to a statement.
OutcomeInv(c) ==
  /\ pc[c] \in {"peek", "handshake", "udp"} => command # "server"
  /\ pc[c] = "readFull" => command = "server"
  /\ pc[c] = "post" => outcome[c] \in {"relayed", "lineErr"}
  /\ outcome[c] \notin {"none", "relayed"} => pc[c] \in {"post", "closeDest", "closeSrc", "done"}

GrantInv(c) ==
  c \in granted =>
    /\ HasPreFn(c)
    /\ pc[c] \in Late \cup {"branch", "swap", "join"}
    /\ dest[c] # "none"
    /\ outcome[c] \in {"none", "relayed"}

\* The nil fields and the end of the process come after the shutdown.
ShutdownInv ==
  /\ lis = "nil" => sig \in {"drained", "timedOut"}
  /\ proc = "panicked" => sig \in {"drained", "timedOut"}

\* Each goroutine is where its sockets, its outcome and its grant say it is, and only
\* relays that have begun are in the hands of an API request.
StageInv ==
  /\ \A c \in Conns : SocketInv(c) /\ OutcomeInv(c) /\ GrantInv(c)
  /\ snap \cup closing \subseteq {c \in Conns : pc[c] \in Late}

IndInv == TypeOK /\ StageInv /\ RegistryFaithful /\ ShutdownInv /\ WgAccounting

\* No reload can change the mode: none comes, or what it sets is the command's own mode.
ModeFixed == ~Reloads \/ command = "direct"

\* What handleTCPConn has written to destConn before PreFn.
Announced(k) == IF command = "client" THEN Expected(k).sent ELSE << >>

\* The statements before handleTCPConn resolves, dials, writes to destConn and chooses its
\* relay, and those that follow.
Unresolved == FrontStages \cup {"resolve"}
Unsecured  == Unresolved \cup {"dial"}
Silent     == Unsecured \cup {"header"}
Unchosen   == Silent \cup {"lineFrame", "preFn", "branch"}
Chosen     == {"swap", "join", "relay", "relayDest", "relaySrc"}

\* How far the use w of destConn by a connection of kind k has got at the statement p of
\* handleTCPConn, when the five reads of the mode all return the command's.
WireAt(p, k, w) ==
  LET Live == Unchosen \cup Chosen
  IN  /\ p = "lineFrame" => command = "client" /\ k = "http"
      /\ p = "swap"      => command # "direct"
      /\ p \in Unresolved           => w.target = "none"
      /\ p \in Live \ Unresolved    => w.target = Expected(k).target
      /\ p \in Unsecured            => w.secure = FALSE
      /\ p \in Live \ Unsecured     => w.secure = Expected(k).secure
      /\ p \in Silent               => w.sent = << >>
      /\ p = "lineFrame"            => w.sent = <<"addrFrame">>
      /\ p \in {"preFn", "branch"}  => w.sent = Announced(k)
      /\ p \in Chosen               => w.sent = Expected(k).sent
      /\ p \in Unchosen             => w.relay = "none"
      /\ p \in Chosen               => w.relay = Expected(k).relay
      /\ p \in Unchosen \cup {"swap"} => w.swapped = FALSE
      /\ p \in Chosen \ {"swap"}      => w.swapped = Expected(k).swapped

WireInv(c) == WireAt(pc[c], kind[c], wire[c])

ProtocolInv == ModeFixed => mode = command /\ \A c \in Conns : WireInv(c)
=============================================================================
