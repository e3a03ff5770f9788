-------------------------------- MODULE Mixed --------------------------------
(***************************************************************************)
(* internal/mixed for one client: the accept loop, the goroutine handle    *)
(* with its choice of a front end, the three front ends and the UDP relay, *)
(* which the client uses once its association is granted.                  *)
(***************************************************************************)
EXTENDS Socks5, Socks4, HttpProxy, UdpRelay

VARIABLE wg   \* counter of the listener's sync.WaitGroup

mixedVars == <<frontVars, udpVars, wg>>

MixedInit ==
  /\ conf \in Configs /\ inForce = {}
  /\ script \in Scripts
  /\ whole \in IF Len(Bytes) > PieceBound THEN {TRUE} ELSE BOOLEAN
  /\ sent = 0 /\ gone = FALSE
  /\ conn = "none" /\ stage = "new"
  /\ base = 0 /\ n = 0 /\ want = [min |-> 0, cap |-> 0]
  /\ replies = << >>
  /\ verified = {} /\ ctx = Nil
  /\ crashed = FALSE
  /\ UdpInit
  /\ wg = 0

-----------------------------------------------------------------------------
(* ListenAndServe and handle *)

MixedAccept ==
  /\ stage = "new"
  /\ stage' = "accepted"
  /\ conn' = "open"
  /\ inForce' = {conf}
  /\ UNCHANGED <<conf, script, whole, sent, gone, base, n, want, replies, verified, ctx, crashed, wg>>

\* auth.VerifyIP, then wg.Add and a goroutine, or Close.
MixedAdmit ==
  /\ stage = "accepted"
  /\ IF VerifyIP(script.addr, conf.cidr)
       THEN stage' = "peek" /\ wg' = wg + 1 /\ UNCHANGED conn
       ELSE stage' = "denied" /\ conn' = "closed" /\ UNCHANGED wg
  /\ UNCHANGED <<clientVars, base, n, want, replies, verified, ctx, crashed>>

\* The first byte selects the front end, whose first read follows.
MixedPeek ==
  /\ stage = "peek"
  /\ sent > 0
  /\ CASE HeadByte = 4 -> Continue("socks4", [min |-> 8, cap |-> Socks4Buf])
       [] HeadByte = 5 -> Continue("greeting", [min |-> 1, cap |-> 4096])
       [] OTHER         -> Continue("http", [min |-> 1, cap |-> HttpBuf])
  /\ UNCHANGED wg

MixedPeekErr ==
  /\ stage = "peek"
  /\ sent = 0
  /\ gone
  /\ stage' = "failed"
  /\ conn' = "closed"
  /\ UNCHANGED <<clientVars, base, n, want, replies, verified, ctx, crashed, wg>>

\* Fault: handle returns without closing the connection.
HandleErr_NoClose ==
  /\ stage = "error"
  /\ stage' = "failed"
  /\ UNCHANGED <<clientVars, conn, base, n, want, replies, verified, ctx, crashed, wg>>

\* proxy.Handle has returned an error: the connection is closed, and wg stays as it is.
HandleErr ==
  /\ stage = "error"
  /\ stage' = "failed"
  /\ conn' = "closed"
  /\ UNCHANGED <<clientVars, base, n, want, replies, verified, ctx, crashed, wg>>

\* The watcher of internal/conf replaces conf.App.  The front ends read it where they need
\* it: VerifyIP, Enable and Verify of one client may each see another configuration.
ReloadConf ==
  /\ conf' \in Configs
  /\ inForce' = IF stage \in Ended \cup {"new", "udp"} THEN inForce ELSE inForce \cup {conf'}
  /\ UNCHANGED <<script, whole, sent, gone, conn, stage, base, n, want, replies, verified, ctx, crashed, wg>>

-----------------------------------------------------------------------------
(* The specification *)

\* The goroutine that serves the client; Parse is what it does when a read has returned.
Parse ==
  /\ Socks5Next \/ Socks4Request \/ Socks4Auth \/ HttpRequest \/ HttpAuth
  /\ UNCHANGED wg

Handle ==
  \/ MixedAdmit \/ MixedPeek \/ MixedPeekErr \/ HandleErr \/ Parse
  \/ (Read \/ ReadErr) /\ UNCHANGED wg

Running == ~crashed /\ fatal = "no"

MixedNext ==
  /\ Running
  /\ \/ (MixedAccept \/ Handle \/ ReloadConf) /\ UNCHANGED udpVars
     \/ (ClientSend \/ ClientClose) /\ UNCHANGED <<udpVars, wg>>
     \/ /\ stage \in {"udp", "closed"}
        /\ \/ UdpNext
           \/ stage = "udp" /\ \E p \in Packets : SendPacket(p)
        /\ UNCHANGED <<frontVars, wg>>

MixedSpec == MixedInit /\ [][MixedNext]_mixedVars

\* Connections are accepted and goroutines scheduled, a read that can return does, and so
\* does a UDP read at its deadline.  The client sends what it has to.  Each of these steps
\* gets something done that is not undone, and there is an end to it, so that none can be
\* put off for ever by the others: it is enough that one of them is taken while there are any.
MixedFairness ==
  WF_mixedVars(
    /\ Running
    /\ \/ (MixedAccept \/ Handle) /\ UNCHANGED udpVars
       \/ ClientSend /\ UNCHANGED <<udpVars, wg>>
       \/ /\ \E p \in Packets : PacketStep(p) \/ deleteRemoteConn(p) \/ ReaderStep(p)
          /\ UNCHANGED <<frontVars, wg>>)

MixedFairSpec == MixedSpec /\ MixedFairness

-----------------------------------------------------------------------------
(* Properties *)

MixedTypeOK ==
  /\ UdpTypeOK
  /\ sent \in 0 .. Len(Bytes)
  /\ whole \in BOOLEAN /\ gone \in BOOLEAN /\ crashed \in BOOLEAN
  /\ conn \in {"none", "open", "closed"}
  /\ base \in Nat /\ n \in Nat /\ base + n <= sent
  /\ want \in [min : Nat, cap : Nat]
  /\ wg \in 0 .. 1

RequestMessage == Message(IF script.login THEN 3 ELSE 2)

\* The credentials or the name of the host do not fit into the buffers of internal/socks5,
\* or the name of the user into that of internal/socks4.
Overlong ==
  \/ /\ script.kind = "socks5"
     /\ \/ script.login /\ (Len(Message(2)) > 32 \/ Message(2)[2] >= 30)
        \/ Len(RequestMessage) > 258
  \/ script.kind = "socks4" /\ Len(script.user) > Socks4Buf - 9

\* An HTTP client.
Web == script.kind \in {"connect", "http"}

\* A CONNECT without a port, or a request without a target.
Targetless ==
  /\ Web
  /\ \/ Bytes[1][1] = "connect" /\ ~Has(Bytes[1][2], {Colon})
     \/ Bytes[1][1] = "get" /\ Bytes[1][2] = << >>

\* The parser has had the whole message: SOCKS4 and HTTP parse what one read returns.
ReadInOne ==
  \/ script.kind = "socks5"
  \/ whole /\ Len(Bytes) <= IF script.kind = "socks4" THEN Socks4Buf ELSE HttpBuf

\* The targets that internal/http takes as they are meant.  A host has none of the marks,
\* so it is no IPv6 literal and has no user information before it; a port is a number.
Marks     == {Colon, Slash, Slash2, <<"[">>, <<"]">>, <<"@">>}
IsPort(x) == x[1] = "num" /\ x = Num(x[2]) /\ x[2] \in 0 .. Uint16 - 1

\* host:port
PlainConnect(t) ==
  /\ Len(t) > 2 /\ t[Len(t) - 1] = Colon /\ IsPort(t[Len(t)])
  /\ \A i \in 1 .. Len(t) - 2 : t[i] \notin Marks

\* scheme://host, and then an end, a path, or a port and either; the "//" is token a of t
\* and the last token of the host is h.
PlainUrl(t, a, h) ==
  /\ a < h
  /\ t[a] = Slash2 /\ \A i \in 1 .. a - 1 : t[i] \notin {Slash, Slash2}
  /\ \A i \in a + 1 .. h : t[i] \notin Marks
  /\ \/ h = Len(t)
     \/ h < Len(t) /\ t[h + 1] \in {Slash, Slash2}
     \/ /\ h + 1 < Len(t) /\ t[h + 1] = Colon /\ IsPort(t[h + 2])
        /\ h + 2 < Len(t) => t[h + 3] \in {Slash, Slash2}

\* The request line req has such a target.
Plain(req) ==
  \/ req[1] = "connect" /\ PlainConnect(req[2])
  \/ req[1] = "get" /\ \E a, h \in DOMAIN req[2] : PlainUrl(req[2], a, h)

\* However the client's bytes are cut up on the way, a request that is queued is the one the
\* client has made: its target, and for HTTP its text without the proxy's headers, with the
\* zero bytes of a buffer that it does not fill behind it.  Only the name of a SOCKS4a host
\* and the text of an HTTP request may be cut off where the read ended (socks4/tcp.go
\* 105-118, http/tcp.go 239-246), and an HTTP target that is not plain may be another one:
\* the literal [::1]:443 becomes no host and port 0, a port is taken modulo 65536, and a
\* path alone is a host (http/tcp.go 104-107, 109-128, 187).  The relay begins where the
\* request of a patient client ends: nothing of it is left behind and nothing that follows
\* is taken (socks5/tcp.go 84, 206).
QueuedAsAsked ==
  stage = "queued" /\ (Web => Plain(Bytes[1])) =>
    LET asked == script.asked.target
        host  == SubSeq(asked, 1, Len(asked) - 2)
        port  == SubSeq(asked, Len(asked) - 1, Len(asked))
        rest  == IF Len(Bytes) < HttpBuf THEN <<NUL, CRLF>> ELSE <<CRLF>>
    IN  /\ \/ ctx.target = asked
           \/ /\ script.kind = "socks4" /\ ~ReadInOne
              /\ \E k \in 0 .. Len(host) : ctx.target = SubSeq(host, 1, k) \o port
        /\ ReadInOne => ctx.line = script.asked.line \o
                                   (IF script.kind = "http" THEN rest ELSE << >>)
        /\ script.patient /\ ReadInOne => base + n = Len(Bytes)

\* What was verified is what the client gave.  In pieces a SOCKS4 name may be cut off, and
\* a SOCKS5 password be taken for empty when its length has not arrived with the name
\* (socks5/tcp.go 149).
VerifiedAsGiven ==
  \A v \in verified :
    /\ \/ v.name = script.user
       \/ ~ReadInOne /\ script.kind = "socks4" /\ IsPrefix(v.name, script.user)
    /\ \/ v.pass = script.pass
       \/ ~whole /\ script.kind = "socks5" /\ v.pass = << >>

\* Both: of the bytes of a well-formed client, however they arrive, each parser takes the
\* credentials and the request that are in them, up to the cuts named above.  (Of a SOCKS5
\* client that does not wait, the beginning of a request may be read with the credentials and
\* the rest of it be a request, too: socks5/tcp.go 138-162.  The scripts have no such one.)
TakenAsGiven == QueuedAsAsked /\ VerifiedAsGiven

\* Whoever is served, by whichever front end and after however many reads, is entitled to it
\* by a configuration that was in force between its accept and that moment: there were no
\* users, or credentials that it gave pass auth.Verify.  However the configuration is
\* replaced between Enable, Verify and the request, no mixture of an old and a new one
\* admits a client that neither of them would (socks5/tcp.go 92, 165, socks4/tcp.go 82,
\* http/tcp.go 82).  A client greeted before there were users is served when there are.
ServedAsVerified ==
  stage \in {"queued", "udp"} =>
    \E c \in inForce :
      \/ ~Enable(c.users)
      \/ \E v \in verified : Verify(c.users, v.name, v.pass, script.addr)

\* No cut of a client's messages makes an index or a slice of the three parsers go out of
\* range, but for these: a SOCKS5 client that does not wait for the answers, messages that
\* do not fit into the buffers (socks5/tcp.go 84, 149, 206, socks4/tcp.go 117), and an HTTP
\* request without a port or without a target (http/tcp.go 106, 110).
CrashOnlyWhen ==
  crashed => \/ script.kind = "socks5" /\ ~script.patient
             \/ Overlong
             \/ Targetless

\* localDestCon, which has no lock, is used by two goroutines at once only after a Write
\* has failed: otherwise only the reader deletes from it (udp.go 143-160, 214).
MapShared == fatal = "map" => unwritten # {}

\* What the configuration and the protocol make of the script.  A SOCKS5 client sends its
\* credentials where it expects to be asked for them.
Granted ==
  IF Enable(conf.users)
    THEN /\ script.kind = "socks5" => script.login /\ Contains(Message(1), 2)
         /\ Verify(conf.users, script.user, script.pass, script.addr)
    ELSE ~script.login

\* A patient client whose messages fit, and whose request has the ten bytes that
\* processRequest waits for, gets what it asks for when each message comes in one piece and
\* the configuration stays as it is.
ServedWhenWhole ==
  (/\ stage = "accepted" /\ whole /\ script.patient /\ ~Overlong /\ ~Targetless
   /\ script.asked # Nil /\ Granted /\ VerifyIP(script.addr, conf.cidr)
   /\ script.kind = "socks5" => Len(RequestMessage) >= 10)
  ~> (stage = "queued" \/ stage = "udp" \/ gone \/ Cardinality(inForce) > 1)

\* When a client leaves, its goroutine ends; only credentials larger than their buffer
\* keep it in a loop of empty reads (socks5/tcp.go 138-162).
EndsWhenGone ==
  gone ~> \/ stage \in {"denied", "failed", "queued", "closed"}
          \/ ~Running
          \/ stage \in {"username", "password"} /\ n = 32

\* Every socket dialled for a datagram is closed again once its destination falls silent, by
\* the deadline of its reader (udp.go 143-160): the sweep over SrcUdpMap does not see it.
\* Each answer renews the deadline (udp.go 143), so it is MaxAnswers, the bound on the
\* answers, that makes every destination fall silent; one that goes on forever would keep
\* its socket open, as it should.
UdpSocketsClosed ==
  \A p \in Packets : remote[p] = "open" ~> (remote[p] = "closed" \/ ~Running)

\* Lifecycle leaves open what the front ends accept.  Their parsers implement it: for
\* every script and every cut the connection goes through the states of Lifecycle, is
\* closed on every error path and is counted once.  (A crash is the end of the steps.)
L == INSTANCE Lifecycle WITH
  Conns     <- {"c"},
  TLSEnable <- FALSE,
  Reloads   <- FALSE,
  mode      <- "direct",
  command   <- "direct",
  pc        <- [c \in {"c"} |->
                  CASE stage \in {"new", "accepted", "peek", "udp", "queued"} -> stage
                    [] stage \in {"denied", "failed", "closed"} -> "done"
                    [] OTHER -> "handshake"],
  kind      <- [c \in {"c"} |-> IF sent = 0 \/ stage = "peek" THEN "none" ELSE script.kind],
  src       <- [c \in {"c"} |-> conn],
  dest      <- [c \in {"c"} |-> "none"],
  wire      <- [c \in {"c"} |-> [target |-> "none", secure |-> FALSE, sent |-> << >>,
                                 relay |-> "none", swapped |-> FALSE]],
  granted   <- {},
  tracked   <- {},
  outcome   <- [c \in {"c"} |-> CASE stage = "denied" -> "denied"
                                  [] stage = "failed" -> "frontErr"
                                  [] stage = "closed" -> "udp"
                                  [] OTHER            -> "none"],
  lis       <- "open",
  sig       <- "running",
  waitDone  <- FALSE,
  proc      <- "up",
  snap      <- {},
  closing   <- {}

ImplementsLifecycle == L!Spec

-----------------------------------------------------------------------------
(* Well-formed clients: what the parsers can be relied on to understand *)

\* Message k of script s.
Part(s, k) == SubSeq(s.bytes, IF k = 1 THEN 1 ELSE s.ends[k - 1] + 1, s.ends[k])

\* Text that has none of the control codes.
Printable(str) == \A i \in DOMAIN str : str[i] >= 32

\* The methods 0, 1 and 2 are the ones in use.
GreetingFormed(m) ==
  Len(m) > 2 /\ Len(m) = 2 + m[2] /\ \A i \in 3 .. Len(m) : m[i] \in 0 .. 2

\* A name of 30 bytes and more does not fit, see Overlong.
CredentialsFormed(m, user, pass) ==
  /\ Len(user) \in 1 .. 31 /\ Printable(user) /\ Printable(pass)
  /\ DOMAIN user = 1 .. Len(user) /\ DOMAIN pass = 1 .. Len(pass) /\ Len(pass) \in Nat
  /\ Len(m) = 3 + Len(user) + Len(pass)
  /\ m[1] = 1 /\ m[2] = Len(user) /\ m[3 + Len(user)] = Len(pass)
  /\ user = SubSeq(m, 3, 2 + Len(user)) /\ pass = SubSeq(m, 4 + Len(user), Len(m))

\* The type of the address is one that processRequest knows, and a name has no brackets.
RequestFormed(m, asked) ==
  LET port == SubSeq(m, Len(m) - 1, Len(m))
      host == SubSeq(m, IF m[4] = 3 THEN 6 ELSE 5, Len(m) - 2)
  IN  /\ Len(m) > 5 /\ m[1] = 5 /\ m[2] < 32
      /\ \/ m[4] = 1 /\ Len(m) = 10
         \/ m[4] = 3 /\ Len(m) = 7 + m[5]
         \/ m[4] = 4 /\ Len(m) = 22
      /\ m[4] = 3 => ~Has(host, {ByteText.open, ByteText.close})
      /\ m[2] \in {CmdConnect, CmdBind} => asked.target = host \o port /\ asked.line = << >>

\* After CONNECT or BIND nothing is sent that is for the proxy.
Socks5Formed(s) ==
  LET last == IF s.login THEN 3 ELSE 2
  IN  /\ last <= Len(s.ends) /\ \A k \in 2 .. last : s.ends[k - 1] < s.ends[k]
      /\ GreetingFormed(Part(s, 1))
      /\ s.login => CredentialsFormed(Part(s, 2), s.user, s.pass)
      /\ RequestFormed(Part(s, last), s.asked)
      /\ Part(s, last)[2] \in {CmdConnect, CmdBind} => s.ends[last] = Len(s.bytes)

\* One message: the name ends at the first zero byte, and the host of a SOCKS4a request,
\* which has no brackets, at the last byte.
Socks4Formed(s) ==
  LET b     == s.bytes
      nul   == 9 + Len(s.user)
      named == b[5] = 0 /\ b[6] = 0 /\ b[7] = 0 /\ b[8] # 0
      host  == IF named THEN SubSeq(b, nul + 1, Len(b) - 1) ELSE SubSeq(b, 5, 8)
  IN  /\ s.ends = <<Len(b)>> /\ \A i \in DOMAIN b : b[i] \in 0 .. 255
      /\ Len(s.user) \in Nat /\ DOMAIN s.user = 1 .. Len(s.user) /\ s.pass = << >>
      /\ IF named THEN nul < Len(b) ELSE nul = Len(b)
      /\ b[nul] = 0 /\ b[Len(b)] = 0 /\ s.user = SubSeq(b, 9, nul - 1)
      /\ \A i \in (9 .. Len(b) - 1) \ {nul} : b[i] # 0
      /\ named => ~Has(host, {ByteText.open, ByteText.close})
      /\ b[2] = CmdConnect => s.asked = [target |-> host \o SubSeq(b, 3, 4), line |-> << >>]

\* What a plain target asks for: the host and the port of a CONNECT; or those of a URL, and
\* in the request line that the origin is to get its path.
ConnectAsks(t, asked) ==
  asked = [target |-> SubSeq(t, 1, Len(t) - 2) \o <<t[Len(t)]>>, line |-> << >>]

UrlAsks(t, a, h, asked) ==
  LET port == h < Len(t) /\ t[h + 1] = Colon
      path == IF port THEN h + 3 ELSE h + 1
  IN  /\ asked.target = SubSeq(t, a + 1, h) \o <<IF port THEN t[h + 2] ELSE Num(80)>>
      /\ asked.line[1] = <<"get", IF path <= Len(t) THEN SubSeq(t, path, Len(t)) ELSE <<Slash>> >>

\* One message: a request line, and at most one line with credentials, which is not last.
\* A request asks for the lines after the first as the origin is to get them.
HttpFormed(s) ==
  LET b    == s.bytes
      auth == {i \in DOMAIN b : b[i][1] = "auth"}
  IN  /\ s.ends = <<Len(b)>> /\ b[1][1] \in {"connect", "get", "short"}
      /\ s.kind = "connect" <=> b[1][1] = "connect"
      /\ \A i \in DOMAIN b : b[i] # NUL
      /\ \A i \in auth : /\ auth = {i} /\ i + 2 < Len(b)
                         /\ b[i + 1] = <<"base64", s.user, s.pass>> /\ b[i + 2] = CRLF
      /\ b[1][1] \in {"connect", "get"} =>
           DOMAIN b[1][2] = 1 .. Len(b[1][2]) /\ Len(b[1][2]) \in Nat
      /\ b[1][1] = "connect" /\ PlainConnect(b[1][2]) => ConnectAsks(b[1][2], s.asked)
      /\ b[1][1] = "get" => \A a, h \in DOMAIN b[1][2] :
           PlainUrl(b[1][2], a, h) =>
             /\ UrlAsks(b[1][2], a, h, s.asked)
             /\ LET c == [b EXCEPT ![1] = s.asked.line[1]]
                IN  IF auth = {} THEN s.asked.line = [k \in 1 .. Len(b) |-> Shown(c[k])]
                    ELSE \A i \in auth :
                           s.asked.line = [k \in 1 .. Len(b) - 3 |-> Shown(c[IF k < i THEN k ELSE k + 3])]

WellFormed(s) ==
  /\ s.kind = "socks5" => Socks5Formed(s)
  /\ s.kind = "socks4" => Socks4Formed(s)
  /\ s.kind \in {"connect", "http"} => HttpFormed(s)

\* The configured users have names.
Named(users) ==
  Enable(users) => \A i \in DOMAIN users : users[i].name # << >> /\ Printable(users[i].name)

-----------------------------------------------------------------------------
(* The inductive invariant *)

\* The statements of the SOCKS5 front end, with and without an accepted client, those of the
\* others, and all those at which the client's first byte is known.
Greetings == {"greeting", "methods", "credentials", "username", "password"}
Accepted  == {"request", "address", "udp"}
OneRead   == {"socks4", "socks4Auth", "http", "httpAuth"}
Begun     == Greetings \cup Accepted \cup OneRead \cup {"error", "queued", "closed"}
Places    == {"new", "accepted", "denied", "peek", "failed"} \cup Begun

\* What the front ends answer.
Replies == {"noAuth", "password", "noMethod", "accepted", "refused", "udp",
            "identdMismatch", "authFailed", "404"}

\* Where the goroutine is says what it knows of the client, what it has read and in which
\* state the connection is.
PlaceInv ==
  /\ script \in Scripts /\ stage \in Places /\ replies \in Seq(Replies)
  /\ stage \in {"new", "accepted"} => sent = 0 /\ wg = 0
  /\ stage \in {"new", "accepted", "peek"} => base = 0 /\ n = 0 /\ want.min = 0
  /\ stage = "denied" => sent = 0
  /\ stage \in Begun => sent > 0
  /\ stage \in Greetings \cup Accepted \cup {"closed"} => script.kind = "socks5"
  /\ conn = IF stage = "new" THEN "none"
            ELSE IF stage \in {"denied", "failed", "closed"} THEN "closed" ELSE "open"

MixedInv == MixedTypeOK /\ PlaceInv

\* An accepted SOCKS5 client and a queued one of any kind are entitled to it, and what is in
\* force now is among what was in force.
AuthInv ==
  /\ stage \notin Ended \cup {"new", "udp"} => conf \in inForce
  /\ stage \in Accepted \cup {"queued"} =>
       \E c \in inForce :
         \/ ~Enable(c.users)
         \/ \E v \in verified : Verify(c.users, v.name, v.pass, script.addr)

\* A client with one message: a parser's buffer holds what it has sent from the beginning.
\* It is the whole message, or what a reset has left of it.
OneMessage == script.kind \in {"socks4", "connect", "http"}

OneInv ==
  /\ base = 0
  /\ stage \in {"socks4", "socks4Auth"} =>
       script.kind = "socks4" /\ want = [min |-> 8, cap |-> Socks4Buf] /\ n <= Socks4Buf
  /\ stage \in {"http", "httpAuth"} =>
       script.kind # "socks4" /\ want = [min |-> 1, cap |-> HttpBuf]
  /\ stage = "socks4Auth" => n >= 8 /\ At(1) = 1
  /\ stage = "httpAuth" => n >= 1 /\ Has(Text, {CRLF})
  /\ ReadInOne => /\ sent \in {0, 1, Len(Bytes)}
                  /\ stage \in OneRead => n \in {0, 1, Len(Bytes)}

\* A SOCKS5 client that waits for the answers: its messages, and its last one for the proxy.
Waits   == script.kind = "socks5" /\ script.patient
RequestNo == IF script.login THEN 3 ELSE 2
Ends(k) == script.ends[k]

Opening == {"new", "accepted", "denied", "peek", "greeting", "methods"}
Asking  == {"credentials", "username", "password"}

\* The greeting is read from its first byte.  If only that byte has come first, the parser
\* goes on with three bytes, and otherwise with all of them or not at all.
OpeningInv ==
  /\ replies = << >> /\ base = 0 /\ sent <= Ends(1) /\ want.min <= want.cap
  /\ stage = "greeting" => want = [min |-> 1, cap |-> 4096]
  /\ stage = "methods" => \/ n = Ends(1) \/ want.min > Ends(1)
                          \/ want = [min |-> 3, cap |-> 3] /\ n <= 3
  /\ whole => /\ sent \in {0, Ends(1)} \/ (gone /\ sent <= 1)
              /\ stage = "greeting" => n \in {0, sent}
              /\ stage = "methods" => n = Ends(1) \/ (gone /\ sent = 1 /\ want.min = 3)

\* The credentials are read from their first byte, or from within a greeting of which three
\* bytes were taken; then there is no user of the name found.
AskingInv ==
  LET size == Bytes[base + 2]
      full == 3 + size + Len(script.pass)
  IN  /\ Len(replies) = 1 /\ sent <= Ends(2) /\ want.cap = 32 /\ n <= 32
      /\ base = Ends(1) \/ (base = 3 /\ 3 < Ends(1))
      /\ IF stage = "credentials" THEN want.min = 2 ELSE n >= 2 /\ Bytes[base + 1] = 1
      /\ stage = "username" => want.min = 2 + size
      /\ stage = "password" =>
           /\ n >= 2 + size /\ want.min >= 3 + size
           /\ base = Ends(1) => want.min = full \/ (~whole /\ want.min = 3 + size)
      /\ whole => /\ base = Ends(1)
                  /\ \/ n = 0 /\ sent \in {Ends(1), Ends(2)}
                     \/ n = Min({32, Ends(2) - Ends(1)})

\* The request is read from its first byte, or else refused: no greeting, no password and
\* no credentials that were not asked for have a byte that could be its version.
RequestInv ==
  /\ Len(replies) \in 1 .. RequestNo - 1 /\ sent <= Ends(RequestNo) /\ want.min <= want.cap
  /\ \/ base = Ends(RequestNo - 1)
     \/ stage = "request" /\ base < Ends(RequestNo - 1) /\ Bytes[base + 1] # 5
  /\ stage = "request" => want.min = 10
  /\ stage = "address" => n >= 10 /\ want.min = Ends(RequestNo) - Ends(RequestNo - 1)

WaitsInv ==
  /\ stage \in Opening => OpeningInv
  /\ stage \in Asking => AskingInv
  /\ stage \in {"request", "address"} => RequestInv

ParserInv ==
  /\ conf \in Configs
  /\ stage \in OneRead => OneMessage
  /\ OneMessage => OneInv /\ TakenAsGiven
  /\ Waits => WaitsInv /\ TakenAsGiven
  /\ CrashOnlyWhen
=============================================================================
