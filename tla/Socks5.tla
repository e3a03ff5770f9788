------------------------------- MODULE Socks5 -------------------------------
(***************************************************************************)
(* internal/socks5: the greeting, the credentials and the request of a     *)
(* SOCKS5 client.  The sizes are those of the code.                        *)
(***************************************************************************)
EXTENDS FrontEnd

CmdConnect == 1
CmdBind    == 2
CmdUdp     == 3

\* Fault: the rest is asked for even when there is none.
Greeting_Always ==
  /\ Filled("greeting")
  /\ IF n > At(1) + 3 THEN Crash
     ELSE Continue("methods", [min |-> At(1) + 3, cap |-> At(1) + 3])

\* handshake: the number of methods is the second byte, which may not have arrived; unless
\* the greeting is complete, ReadFull(buf[n:l+2+1]) asks for one byte more than it has.
Greeting ==
  /\ Filled("greeting")
  /\ LET l == At(1)
     IN  CASE n = l + 2 -> Continue("methods", want)
           [] n > l + 3 -> Crash
           [] OTHER     -> Continue("methods", [min |-> l + 3, cap |-> l + 3])

\* Fault: a client that offers to go on without credentials may.
Methods_Lenient ==
  /\ Filled("methods")
  /\ replies' = Append(replies, "noAuth")
  /\ NewBuffer("request", [min |-> 10, cap |-> 258])
  /\ UNCHANGED <<clientVars, conn, verified, ctx, crashed>>

\* handshake: without users no credentials are asked for, otherwise the client must have
\* offered them.
Methods ==
  /\ Filled("methods")
  /\ CASE ~Enable(conf.users) ->
            /\ replies' = Append(replies, "noAuth")
            /\ NewBuffer("request", [min |-> 10, cap |-> 258])
            /\ UNCHANGED <<clientVars, conn, verified, ctx, crashed>>
       [] Enable(conf.users) /\ \E i \in 2 .. n - 1 : At(i) = 2 ->
            /\ replies' = Append(replies, "password")
            /\ NewBuffer("credentials", [min |-> 2, cap |-> 32])
            /\ UNCHANGED <<clientVars, conn, verified, ctx, crashed>>
       [] OTHER ->
            /\ replies' = Append(replies, "noMethod")
            /\ GiveUp

\* passwordAuth: the version and the length of the name ...
Credentials ==
  /\ Filled("credentials")
  /\ IF At(0) # 1 THEN GiveUp /\ UNCHANGED replies
     ELSE Continue("username", [min |-> 2 + At(1), cap |-> 32])

\* Fault: the buffer is one byte short.
Username_Short ==
  /\ Filled("username")
  /\ LET p1 == 2 + At(1)
     IN  IF p1 >= 31 THEN Crash
         ELSE Continue("password", [min |-> p1 + 1 + At(p1), cap |-> 32])

\* ... the name, and the length of the password, which may not have arrived ...
Username ==
  /\ Filled("username")
  /\ LET p1 == 2 + At(1)
     IN  IF p1 = 32 THEN Crash
         ELSE Continue("password", [min |-> p1 + 1 + At(p1), cap |-> 32])

\* ... and the password.
Password ==
  /\ Filled("password")
  /\ LET p1   == 2 + At(1)
         user == Slice(2, p1)
         pass == Slice(p1 + 1, want.min)
     IN  IF Verify(conf.users, user, pass, script.addr)
           THEN /\ verified' = {[name |-> user, pass |-> pass]}
                /\ replies' = Append(replies, "accepted")
                /\ NewBuffer("request", [min |-> 10, cap |-> 258])
                /\ UNCHANGED <<clientVars, conn, ctx, crashed>>
           ELSE /\ replies' = Append(replies, "refused")
                /\ GiveUp

\* The length of the address, by its type.
hlen == CASE At(3) = 1 -> 4
          [] At(3) = 3 -> At(4) + 1
          [] At(3) = 4 -> 16
          [] OTHER     -> 0

\* Fault: the two bytes of the port are not waited for.
Request_NoPort ==
  /\ Filled("request")
  /\ IF At(0) # 5 THEN GiveUp /\ UNCHANGED replies
     ELSE IF 6 + hlen > 258 THEN Crash
     ELSE Continue("address", [min |-> 4 + hlen, cap |-> 258])

\* processRequest: the version, and how much of the address is missing.
Request ==
  /\ Filled("request")
  /\ IF At(0) # 5 THEN GiveUp /\ UNCHANGED replies
     ELSE IF 6 + hlen > 258 THEN Crash
     ELSE Continue("address", [min |-> 6 + hlen, cap |-> 6 + hlen])

\* processRequest: the command.  CONNECT and BIND are queued alike.
Address ==
  /\ Filled("address")
  /\ LET msglen == 6 + hlen
         port   == Slice(msglen - 2, msglen)
         target == IF At(3) = 3 THEN Dest(Slice(5, 4 + hlen), port, ByteText)
                   ELSE Slice(4, 4 + hlen) \o port
     IN  CASE At(1) \in {CmdConnect, CmdBind} -> Enqueue([target |-> target, line |-> << >>], verified)
           [] At(1) = CmdUdp ->
                \/ /\ replies' = Append(replies, "udp")
                   /\ NewBuffer("udp", [min |-> 100, cap |-> 100])
                   /\ UNCHANGED <<clientVars, conn, verified, ctx, crashed>>
                \/ gone /\ GiveUp /\ UNCHANGED replies
           [] OTHER -> GiveUp /\ UNCHANGED replies

\* handleUdpCmd reads and drops what comes on the connection of an association ...
UdpDiscard ==
  /\ Filled("udp")
  /\ NewBuffer("udp", want)
  /\ UNCHANGED <<clientVars, conn, replies, verified, ctx, crashed>>

\* ... and closes it when that fails.
UdpEnd ==
  /\ stage = "udp"
  /\ gone
  /\ sent = base + n
  /\ stage' = "closed"
  /\ conn' = "closed"
  /\ UNCHANGED <<clientVars, base, n, want, replies, verified, ctx, crashed>>

Socks5Next ==
  \/ Greeting \/ Methods \/ Credentials \/ Username \/ Password
  \/ Request \/ Address \/ UdpDiscard \/ UdpEnd
=============================================================================
