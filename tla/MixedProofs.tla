----------------------------- MODULE MixedProofs -----------------------------
(***************************************************************************)
(* Proofs about Mixed: for any well-formed scripts and configurations, any *)
(* buffer size and any set of datagrams.                                   *)
(***************************************************************************)
EXTENDS Mixed, TLAPS

\* The state functions a step leaves alone.
USE DEF clientVars, frontVars, udpVars

-----------------------------------------------------------------------------
(* The UDP relay *)

\* Each goroutine of the relay keeps the accounts of its packet and leaves the others alone.
LEMMA UdpStepInv ==
  ASSUME UdpInv, UdpNext \/ \E p \in Packets : SendPacket(p)
  PROVE  UdpInv'
<1> USE UdpAssumption DEF UdpInv, UdpTypeOK, Deleting
<1>1. CASE CloseListener
  BY <1>1 DEF CloseListener
<1>2. ASSUME NEW p \in Packets, SendPacket(p)
      PROVE  UdpInv'
  BY <1>2 DEF SendPacket
<1>3. ASSUME NEW p \in Packets, Answer(p)
      PROVE  UdpInv'
  BY <1>3 DEF Answer
<1>4. ASSUME NEW p \in Packets, ReadFromUDP(p) \/ ShortPacket(p) \/ DropPacket(p)
      PROVE  UdpInv'
  BY <1>4 DEF ReadFromUDP, ShortPacket, DropPacket
<1>5. ASSUME NEW p \in Packets, DialRemote(p)
      PROVE  UdpInv'
  BY <1>5 DEF DialRemote
<1>6. ASSUME NEW p \in Packets, WriteRemote(p)
      PROVE  UdpInv'
  BY <1>6 DEF WriteRemote
<1>7. ASSUME NEW p \in Packets, ReadRemote(p)
      PROVE  UdpInv'
  BY <1>7 DEF ReadRemote
<1>8. ASSUME NEW p \in Packets, Forward(p)
      PROVE  UdpInv'
  BY <1>8 DEF Forward
<1>9. ASSUME NEW p \in Packets, ReadRemoteErr(p)
      PROVE  UdpInv'
  BY <1>9 DEF ReadRemoteErr
<1>10. ASSUME NEW p \in Packets, deleteRemoteConn(p)
       PROVE  UdpInv'
  BY <1>10 DEF deleteRemoteConn, DeleteStep
<1>11. ASSUME NEW p \in Packets, ConcurrentMapUse(p)
       PROVE  UdpInv'
  BY <1>11 DEF ConcurrentMapUse
<1> QED
  BY <1>1, <1>2, <1>3, <1>4, <1>5, <1>6, <1>7, <1>8, <1>9, <1>10, <1>11
     DEF UdpNext, PacketStep, ReaderStep
-----------------------------------------------------------------------------
(* Reading from the client *)

\* The smaller and the larger of two numbers.
LEMMA MinMaxTwo ==
  ASSUME NEW a \in Int, NEW b \in Int
  PROVE  /\ Min({a, b}) = IF a <= b THEN a ELSE b
         /\ Max({a, b}) = IF a >= b THEN a ELSE b
<1>1. \E x \in {a, b} : \A y \in {a, b} : x <= y
  <2>1. CASE a <= b
    BY <2>1
  <2>2. CASE b <= a
    BY <2>2
  <2> QED
    BY <2>1, <2>2
<1>2. \E x \in {a, b} : \A y \in {a, b} : x >= y
  <2>1. CASE a <= b
    BY <2>1
  <2>2. CASE b <= a
    BY <2>2
  <2> QED
    BY <2>1, <2>2
<1>3. Min({a, b}) \in {a, b} /\ \A y \in {a, b} : Min({a, b}) <= y
  BY <1>1 DEF Min
<1>4. Max({a, b}) \in {a, b} /\ \A y \in {a, b} : Max({a, b}) >= y
  BY <1>2 DEF Max
<1> QED
  BY <1>3, <1>4

\* A byte of a SOCKS5 client's buffer.
LEMMA ByteAt ==
  ASSUME MixedInv, script.kind = "socks5", NEW i \in Nat
  PROVE  At(i) \in 0 .. 255
<1>1. CASE i < n
  <2>1. /\ script \in Scripts /\ base \in Nat /\ n \in Nat /\ base + n <= Len(script.bytes)
        /\ Len(script.bytes) \in Nat
    BY ScriptAssumption DEF MixedInv, MixedTypeOK, PlaceInv, Bytes
  <2>2. base + i + 1 \in DOMAIN script.bytes
    BY <1>1, <2>1, ScriptAssumption
  <2> QED
    BY <1>1, <2>1, <2>2, ScriptAssumption DEF At, Bytes
<1>2. CASE ~(i < n)
  BY <1>2 DEF At
<1> QED
  BY <1>1, <1>2

\* The length of the address of a SOCKS5 request.
LEMMA HlenNat ==
  ASSUME MixedInv, script.kind = "socks5"
  PROVE  hlen \in Nat
<1>1. At(4) \in Nat
  BY ByteAt
<1> QED
  BY <1>1 DEF hlen

\* What a client may have sent after its next message is part of its script.
LEMMA UpToBytes ==
  ASSUME script \in Scripts, NEW k \in Nat \ {0}
  PROVE  UpTo(k) \in 1 .. Len(Bytes)
<1>1. Len(script.ends) \in Nat \ {0}
  BY ScriptAssumption
<1>2. Min({k, Len(script.ends)}) \in DOMAIN script.ends
  BY <1>1, MinMaxTwo, ScriptAssumption
<1>3. /\ \A e \in DOMAIN script.ends : script.ends[e] \in DOMAIN script.bytes
      /\ DOMAIN script.bytes = 1 .. Len(script.bytes)
  BY ScriptAssumption
<1>4. UpTo(k) \in DOMAIN script.bytes
  BY ONLY <1>2, <1>3, ZenonT(30) DEF UpTo
<1> QED
  BY ONLY <1>3, <1>4 DEF Bytes

\* The client keeps the invariant.
LEMMA ClientInv ==
  ASSUME MixedInv, ClientSend \/ ClientClose, UNCHANGED <<udpVars, wg>>
  PROVE  MixedInv'
<1>0. /\ MixedTypeOK /\ PlaceInv /\ Bytes' = Bytes /\ script' = script
      /\ UNCHANGED <<whole, conn, stage, base, n, want, replies, crashed, wg>>
      /\ UdpTypeOK'
  BY DEF MixedInv, MixedTypeOK, ClientSend, ClientClose, Bytes, UdpTypeOK, Deleting
<1>1. /\ Len(Bytes) \in Nat \ {0} /\ sent \in 0 .. Len(Bytes) /\ base \in Nat /\ n \in Nat
      /\ base + n <= sent
  BY <1>0, ScriptAssumption DEF MixedTypeOK, PlaceInv, Bytes
<1>2. /\ gone' \in BOOLEAN
      /\ sent' \in 0 .. Len(Bytes) /\ base + n <= sent'
      /\ stage \in {"new", "accepted", "denied"} => sent' = 0
      /\ stage \in Begun => sent' > 0
  <2>1. CASE ClientSend
    <3>1. Len(replies) + 1 \in Nat \ {0}
      BY <1>0 DEF PlaceInv
    <3>2. sent' \in 1 .. Len(Bytes) /\ sent < sent'
      <4>1. sent < sent' /\ (sent' = UpTo(Len(replies) + 1) \/ sent' = Len(Bytes))
        BY <2>1 DEF ClientSend
      <4>2. UpTo(Len(replies) + 1) \in 1 .. Len(Bytes)
        BY <1>0, <3>1, UpToBytes DEF PlaceInv
      <4> QED
        BY <1>1, <4>1, <4>2
    <3>3. stage \notin {"new", "accepted", "denied"} /\ gone' = gone
      BY <2>1 DEF ClientSend, Ended
    <3> QED
      BY <1>0, <1>1, <3>2, <3>3 DEF MixedTypeOK
  <2>2. CASE ClientClose
    <3>1. CASE sent' = sent
      BY <1>0, <1>1, <2>2, <3>1 DEF ClientClose, PlaceInv
    <3>2. CASE stage \in {"accepted", "peek"} /\ sent' = 0
      BY <1>0, <1>1, <2>2, <3>2 DEF ClientClose, PlaceInv, Begun, Greetings, Accepted, OneRead
    <3>3. CASE stage \notin {"accepted", "peek"} \cup Ended /\ sent' = Max({base + n, 1})
      <4>1. sent' = IF base + n >= 1 THEN base + n ELSE 1
        <5>1. base + n \in Int /\ sent' = Max({base + n, 1})
          BY <1>1, <3>3
        <5>2. Max({base + n, 1}) = IF base + n >= 1 THEN base + n ELSE 1
          BY <5>1, MinMaxTwo
        <5> QED
          BY <5>1, <5>2
      <4>2. stage \notin {"new", "accepted", "denied"}
        BY <2>2, <3>3 DEF ClientClose, Ended
      <4> QED
        BY <1>1, <2>2, <4>1, <4>2 DEF ClientClose
    <3> QED
      BY <2>2, <3>1, <3>2, <3>3 DEF ClientClose
  <2> QED
    BY <2>1, <2>2
<1>3. MixedTypeOK'
  BY <1>0, <1>1, <1>2 DEF MixedTypeOK
<1>4. PlaceInv'
  BY <1>0, <1>1, <1>2 DEF PlaceInv
<1> QED
  BY <1>3, <1>4 DEF MixedInv

\* What the statements of the front ends have in common: the bytes before and in the buffer
\* stay those that were sent, and the connection stays open.
LEMMA StatementInv ==
  ASSUME MixedInv, stage \in Begun \cup {"peek"}, stage \notin {"closed"}, sent > 0,
         stage' \in Begun \ {"closed"},
         stage' \in Greetings \cup Accepted => script.kind = "socks5",
         base' \in Nat, n' \in Nat, base' + n' <= sent,
         want' \in [min : Nat, cap : Nat], replies' \in Seq(Replies), crashed' \in BOOLEAN,
         UNCHANGED <<clientVars, conn, wg, udpVars>>
  PROVE  MixedInv'
<1>1. UdpTypeOK' /\ Bytes' = Bytes
  BY DEF MixedInv, MixedTypeOK, UdpTypeOK, Deleting, Bytes
<1>2. MixedTypeOK'
  BY <1>1 DEF MixedInv, MixedTypeOK
<1>3. /\ stage' \in Places /\ stage' \notin {"new", "accepted", "peek", "denied", "failed", "closed"}
      /\ stage \notin {"new", "denied", "failed", "closed"}
  BY DEF Begun, Greetings, Accepted, OneRead, Places
<1>4. conn = "open" /\ script \in Scripts
  BY <1>3 DEF MixedInv, PlaceInv
<1>5. PlaceInv'
  BY <1>3, <1>4 DEF PlaceInv
<1> QED
  BY <1>2, <1>5 DEF MixedInv
\* One Read returns no more than there is.
LEMMA ReadBound ==
  ASSUME MixedInv, Read
  PROVE  n' \in Nat /\ base + n' <= sent
<1>1. /\ base \in Nat /\ n \in Nat /\ base + n <= sent /\ sent \in Nat
      /\ want.cap \in Nat /\ want.min \in Nat
  BY ScriptAssumption DEF MixedInv, MixedTypeOK, PlaceInv, Bytes
<1> DEFINE a    == want.cap - n
           b    == sent - (base + n)
           most == Min({a, b})
<1>2. most \in Int /\ most <= sent - (base + n) /\ 0 <= n + most
  <2>1. most = IF a <= b THEN a ELSE b
    BY <1>1, MinMaxTwo
  <2>2. a \in Int /\ b \in Int /\ 0 <= n + a /\ 0 <= n + b
    BY <1>1
  <2> HIDE DEF most, a, b
  <2>3. most \in Int /\ most <= b /\ 0 <= n + most
    BY <1>1, <2>1, <2>2
  <2> QED
    BY <2>3 DEF b
<1>3. n' \in IF whole THEN {n + most} \ {n} ELSE n + 1 .. n + most
  BY DEF Read
<1> HIDE DEF most
<1>4. n' \in Int /\ 0 <= n' /\ n' <= n + most
  <2>1. CASE whole
    BY <1>1, <1>2, <1>3, <2>1
  <2>2. CASE ~whole
    BY <1>1, <1>2, <1>3, <2>2
  <2> QED
    BY <2>1, <2>2
<1>5. ASSUME NEW x \in Int, NEW m \in Int, NEW s \in Int, NEW o \in Int, NEW k \in Int,
             m <= s - (o + k), x <= k + m
      PROVE  o + x <= s
  BY <1>5
<1>6. base \in Int /\ n \in Int /\ sent \in Int /\ n' \in Nat
  BY <1>1, <1>4
<1> QED
  BY <1>2, <1>4, <1>5, <1>6

\* The statements of the SOCKS4 and HTTP front ends crash, give up, go on to auth.Verify or
\* queue the request; the request of a client without accepted credentials only if there are
\* no users at the time.
LEMMA OneReadLeaves ==
  ASSUME Socks4Request \/ Socks4Auth \/ HttpRequest \/ HttpAuth
  PROVE  /\ stage \in OneRead
         /\ \/ Crash
            \/ /\ GiveUp
               /\ \/ UNCHANGED replies
                  \/ replies' \in {Append(replies, x) : x \in {"identdMismatch", "authFailed", "404"}}
            \/ \E s \in {"socks4Auth", "httpAuth"} : Continue(s, want)
            \/ \E x, creds :
                 /\ Enqueue(x, creds)
                 /\ \/ ~Enable(conf.users)
                    \/ \E v \in creds : Verify(conf.users, v.name, v.pass, script.addr)
<1> DEFINE May(creds) == \/ ~Enable(conf.users)
                         \/ \E v \in creds : Verify(conf.users, v.name, v.pass, script.addr)
           Goal == \/ Crash
                   \/ /\ GiveUp
                      /\ \/ UNCHANGED replies
                         \/ replies' \in {Append(replies, x) : x \in {"identdMismatch", "authFailed", "404"}}
                   \/ \E s \in {"socks4Auth", "httpAuth"} : Continue(s, want)
                   \/ \E x, creds : Enqueue(x, creds) /\ May(creds)
<1>1. ASSUME NEW creds, May(creds), Socks4Serve(creds)
      PROVE  Goal
  <2>1. Crash \/ \E x : Enqueue(x, creds)
    BY <1>1 DEF Socks4Serve
  <2> HIDE DEF May
  <2> QED
    BY <1>1, <2>1
<1>2. ASSUME NEW creds, May(creds), NEW t, HttpServe(t, creds)
      PROVE  Goal
  <2>1. \/ Crash \/ \E x : Enqueue(x, creds)
        \/ GiveUp /\ (UNCHANGED replies \/ replies' = Append(replies, "404"))
    BY <1>2 DEF HttpServe
  <2> HIDE DEF May
  <2> QED
    BY <1>2, <2>1
<1>3. stage \in OneRead
  BY DEF Socks4Request, Socks4Auth, HttpRequest, HttpAuth, Filled, OneRead
<1>4. CASE Socks4Request
  <2>1. \/ GiveUp /\ UNCHANGED replies
        \/ Continue("socks4Auth", want)
        \/ ~Enable(conf.users) /\ Socks4Serve({})
    BY <1>4 DEF Socks4Request
  <2> QED
    BY <1>1, <1>3, <2>1
<1>5. CASE Socks4Auth
  <2> DEFINE cred == [name |-> readUntilNull(8), pass |-> << >>]
  <2>1. \/ GiveUp /\ replies' = Append(replies, "identdMismatch")
        \/ Verify(conf.users, cred.name, cred.pass, script.addr) /\ Socks4Serve({cred})
    BY <1>5 DEF Socks4Auth
  <2> HIDE DEF cred
  <2> QED
    BY <1>1, <1>3, <2>1
<1>6. CASE HttpRequest
  <2>1. \/ GiveUp /\ UNCHANGED replies
        \/ Continue("httpAuth", want)
        \/ ~Enable(conf.users) /\ HttpServe(Text, {})
    BY <1>6 DEF HttpRequest
  <2> QED
    BY <1>2, <1>3, <2>1
<1>7. CASE HttpAuth
  <2> DEFINE cred == HttpCredentials(Text)
  <2>1. \/ GiveUp /\ replies' = Append(replies, "authFailed")
        \/ Verify(conf.users, cred.name, cred.pass, script.addr) /\ HttpServe(Text, {cred})
    BY <1>7 DEF HttpAuth
  <2> HIDE DEF cred
  <2> QED
    BY <1>2, <1>3, <2>1
<1> QED
  BY <1>4, <1>5, <1>6, <1>7

\* The parsers keep the invariant: what they make of the client's bytes is a number of
\* bytes to read, and each of their buffers begins where the one before it ended.
LEMMA ParseInv ==
  ASSUME MixedInv, Parse, UNCHANGED udpVars
  PROVE  MixedInv'
<1>0. /\ script \in Scripts /\ replies \in Seq(Replies) /\ crashed \in BOOLEAN
      /\ base \in Nat /\ n \in Nat /\ base + n <= sent /\ want \in [min : Nat, cap : Nat]
      /\ stage \in Begun => sent > 0
      /\ stage \in Greetings \cup Accepted \cup {"closed"} => script.kind = "socks5"
      /\ UNCHANGED wg
  BY DEF MixedInv, MixedTypeOK, PlaceInv, Parse
<1> DEFINE Counts == [min : Nat, cap : Nat]
<1>1. ASSUME NEW s \in Begun \ {"closed"}, NEW w \in Counts, Continue(s, w), stage \in Begun \ {"closed"},
             s \in Greetings \cup Accepted => script.kind = "socks5"
      PROVE  MixedInv'
  BY <1>0, <1>1, StatementInv DEF Continue
<1>2. ASSUME NEW s \in Begun \ {"closed"}, NEW w \in Counts, NewBuffer(s, w), stage \in Begun \ {"closed"},
             s \in Greetings \cup Accepted => script.kind = "socks5",
             replies' \in Seq(Replies), UNCHANGED <<clientVars, conn, crashed>>
      PROVE  MixedInv'
  <2>1. stage' = s /\ want' = w /\ base' = base + n /\ n' = 0
    BY <1>2 DEF NewBuffer
  <2>2. base' \in Nat /\ n' \in Nat /\ base' + n' <= sent
    BY <1>0, <2>1
  <2> QED
    BY <1>0, <1>2, <2>1, <2>2, StatementInv
<1>3. ASSUME GiveUp, replies' \in Seq(Replies), stage \in Begun \ {"closed"}
      PROVE  MixedInv'
  BY <1>0, <1>3, StatementInv DEF GiveUp, Begun, Greetings, Accepted
<1>4. ASSUME Crash, stage \in Begun \ {"closed"}
      PROVE  MixedInv'
  BY <1>0, <1>4, StatementInv DEF Crash
<1>5. ASSUME \/ UNCHANGED replies
             \/ \E x \in Replies : replies' = Append(replies, x)
      PROVE  replies' \in Seq(Replies)
  BY <1>0, <1>5
<1>6. ASSUME script.kind = "socks5", NEW i \in Nat
      PROVE  At(i) \in Nat
  BY <1>6, ByteAt
<1>7. CASE Greeting
  <2>1. stage = "greeting" /\ stage \in Begun \ {"closed"} /\ script.kind = "socks5"
    BY <1>0, <1>7 DEF Greeting, Filled, Begun, Greetings
  <2>2. At(1) \in Nat
    BY <1>6, <2>1
  <2>3. Crash \/ \E w \in Counts : Continue("methods", w)
    <3> DEFINE w == [min |-> At(1) + 3, cap |-> At(1) + 3]
    <3>1. w \in Counts
      BY <2>2
    <3>2. Crash \/ Continue("methods", want) \/ Continue("methods", w)
      BY <1>0, <1>7, <2>2 DEF Greeting
    <3> QED
      BY <1>0, <3>1, <3>2
  <2> QED
    BY <1>1, <1>4, <2>1, <2>3 DEF Begun, Greetings
<1>8. CASE Methods
  <2>1. stage = "methods" /\ stage \in Begun \ {"closed"} /\ script.kind = "socks5"
    BY <1>0, <1>8 DEF Methods, Filled, Begun, Greetings
  <2>2. replies' \in Seq(Replies)
    <3>1. replies' \in {Append(replies, x) : x \in {"noAuth", "password", "noMethod"}}
      BY <1>8 DEF Methods
    <3> QED
      BY <1>5, <3>1 DEF Replies
  <2>3. \/ GiveUp
        \/ /\ \E s \in {"request", "credentials"}, w \in Counts : NewBuffer(s, w)
           /\ UNCHANGED <<clientVars, conn, crashed>>
    BY <1>8 DEF Methods
  <2> QED
    BY <1>2, <1>3, <2>1, <2>2, <2>3 DEF Begun, Greetings, Accepted
<1>9. CASE Credentials
  <2>1. stage = "credentials" /\ stage \in Begun \ {"closed"} /\ script.kind = "socks5"
    BY <1>0, <1>9 DEF Credentials, Filled, Begun, Greetings
  <2>2. At(1) \in Nat
    BY <1>6, <2>1
  <2>3. (GiveUp /\ UNCHANGED replies) \/ \E w \in Counts : Continue("username", w)
    BY <1>9, <2>2 DEF Credentials
  <2> QED
    BY <1>0, <1>1, <1>3, <2>1, <2>3 DEF Begun, Greetings
<1>10. CASE Username
  <2>1. stage = "username" /\ stage \in Begun \ {"closed"} /\ script.kind = "socks5"
    BY <1>0, <1>10 DEF Username, Filled, Begun, Greetings
  <2>2. At(1) \in Nat /\ At(2 + At(1)) \in Nat
    BY <1>6, <2>1
  <2> DEFINE w == [min |-> 2 + At(1) + 1 + At(2 + At(1)), cap |-> 32]
  <2>3. Crash \/ Continue("password", w)
    BY <1>10 DEF Username
  <2>4. w \in Counts
    BY <2>2
  <2> HIDE DEF w
  <2> QED
    BY <1>1, <1>4, <2>1, <2>3, <2>4 DEF Begun, Greetings
<1>11. CASE Password
  <2>1. stage = "password" /\ stage \in Begun \ {"closed"} /\ script.kind = "socks5"
    BY <1>0, <1>11 DEF Password, Filled, Begun, Greetings
  <2>2. replies' \in Seq(Replies)
    <3>1. replies' \in {Append(replies, x) : x \in {"accepted", "refused"}}
      BY <1>11 DEF Password
    <3> QED
      BY <1>5, <3>1 DEF Replies
  <2>3. \/ GiveUp
        \/ /\ \E w \in Counts : NewBuffer("request", w)
           /\ UNCHANGED <<clientVars, conn, crashed>>
    BY <1>11 DEF Password
  <2> QED
    BY <1>2, <1>3, <2>1, <2>2, <2>3 DEF Begun, Greetings, Accepted
<1>12. CASE Request
  <2>1. stage = "request" /\ stage \in Begun \ {"closed"} /\ script.kind = "socks5"
    BY <1>0, <1>12 DEF Request, Filled, Begun, Accepted
  <2>2. hlen \in Nat
    BY <2>1, HlenNat
  <2> DEFINE w == [min |-> 6 + hlen, cap |-> 6 + hlen]
  <2>3. (GiveUp /\ UNCHANGED replies) \/ Crash \/ Continue("address", w)
    BY <1>12 DEF Request
  <2>4. w \in Counts
    BY <2>2
  <2> HIDE DEF w
  <2> QED
    BY <1>0, <1>1, <1>3, <1>4, <2>1, <2>3, <2>4 DEF Begun, Accepted
<1>13. CASE Address
  <2>1. stage = "address" /\ stage \in Begun \ {"closed"} /\ script.kind = "socks5"
    BY <1>0, <1>13 DEF Address, Filled, Begun, Accepted
  <2>2. \/ \E x : Enqueue(x, verified)
        \/ /\ replies' = Append(replies, "udp") /\ NewBuffer("udp", [min |-> 100, cap |-> 100])
           /\ UNCHANGED <<clientVars, conn, crashed>>
        \/ GiveUp /\ UNCHANGED replies
    BY <1>13 DEF Address
  <2>3. CASE \E x : Enqueue(x, verified)
    BY <1>0, <2>1, <2>3, StatementInv DEF Enqueue, Begun, Greetings, Accepted
  <2>4. CASE GiveUp /\ UNCHANGED replies
    BY <1>0, <1>3, <2>1, <2>4
  <2>5. CASE /\ replies' = Append(replies, "udp") /\ NewBuffer("udp", [min |-> 100, cap |-> 100])
             /\ UNCHANGED <<clientVars, conn, crashed>>
    <3>1. replies' \in Seq(Replies) /\ "udp" \in Begun \ {"closed"}
      BY <1>5, <2>5 DEF Begun, Accepted, Replies
    <3> QED
      BY <1>2, <2>1, <2>5, <3>1
  <2> QED
    BY <2>2, <2>3, <2>4, <2>5
<1>14. CASE UdpDiscard
  <2>1. stage = "udp" /\ stage \in Begun \ {"closed"} /\ script.kind = "socks5"
    BY <1>0, <1>14 DEF UdpDiscard, Filled, Begun, Accepted
  <2> QED
    BY <1>0, <1>2, <1>14, <2>1 DEF UdpDiscard, Begun, Accepted
<1>15. CASE UdpEnd
  <2>1. /\ stage = "udp" /\ stage' = "closed" /\ conn' = "closed" /\ script.kind = "socks5" /\ sent > 0
        /\ UNCHANGED <<clientVars, base, n, want, replies, crashed>>
    BY <1>0, <1>15 DEF UdpEnd, Begun, Accepted
  <2>2. Bytes' = Bytes /\ UdpTypeOK'
    BY <2>1 DEF Bytes, MixedInv, MixedTypeOK, UdpTypeOK, Deleting
  <2>3. MixedTypeOK'
    BY <1>0, <2>1, <2>2 DEF MixedInv, MixedTypeOK
  <2>4. PlaceInv'
    BY <1>0, <2>1 DEF PlaceInv, Places, Begun
  <2> QED
    BY <2>3, <2>4 DEF MixedInv
<1>16. CASE Socks4Request \/ Socks4Auth \/ HttpRequest \/ HttpAuth
  <2>1. stage \in Begun \ {"closed"}
    BY <1>16, OneReadLeaves DEF Begun, OneRead
  <2>2. CASE Crash
    BY <1>4, <2>1, <2>2
  <2>3. CASE /\ GiveUp
             /\ \/ UNCHANGED replies
                \/ replies' \in {Append(replies, x) : x \in {"identdMismatch", "authFailed", "404"}}
    <3>1. replies' \in Seq(Replies)
      BY <1>5, <2>3 DEF Replies
    <3> QED
      BY <1>3, <2>1, <2>3, <3>1
  <2>4. CASE \E s \in {"socks4Auth", "httpAuth"} : Continue(s, want)
    BY <1>0, <1>1, <2>1, <2>4 DEF Begun, OneRead, Greetings, Accepted
  <2>5. CASE \E x, creds : Enqueue(x, creds)
    BY <1>0, <2>1, <2>5, StatementInv DEF Enqueue, Begun, Greetings, Accepted
  <2> QED
    BY <1>16, <2>2, <2>3, <2>4, <2>5, OneReadLeaves
<1> QED
  BY <1>7, <1>8, <1>9, <1>10, <1>11, <1>12, <1>13, <1>14, <1>15, <1>16 DEF Parse, Socks5Next

\* The goroutine that serves the client keeps the invariant: the accept loop ...
LEMMA HandleInv ==
  ASSUME MixedInv, MixedAccept \/ Handle, UNCHANGED udpVars
  PROVE  MixedInv'
<1>0. /\ UdpTypeOK' /\ script \in Scripts /\ replies \in Seq(Replies) /\ crashed \in BOOLEAN
      /\ base \in Nat /\ n \in Nat /\ base + n <= sent /\ want \in [min : Nat, cap : Nat]
      /\ stage \in Begun => sent > 0
      /\ stage \in Greetings \cup Accepted \cup {"closed"} => script.kind = "socks5"
  BY DEF MixedInv, MixedTypeOK, PlaceInv, UdpTypeOK, Deleting
<1>1. CASE MixedAccept \/ MixedAdmit \/ MixedPeekErr \/ HandleErr
  <2>1. Bytes' = Bytes /\ script' = script
    BY <1>1 DEF MixedAccept, MixedAdmit, MixedPeekErr, HandleErr, Bytes
  <2>2. wg' \in 0 .. 1 /\ conn' \in {"none", "open", "closed"}
    BY <1>0, <1>1
       DEF MixedInv, MixedTypeOK, PlaceInv, MixedAccept, MixedAdmit, MixedPeekErr, HandleErr
  <2>3. MixedTypeOK'
    BY <1>0, <1>1, <2>1, <2>2
       DEF MixedInv, MixedTypeOK, MixedAccept, MixedAdmit, MixedPeekErr, HandleErr
  <2>4. PlaceInv'
    BY <1>0, <1>1, <2>1
       DEF MixedInv, PlaceInv, MixedAccept, MixedAdmit, MixedPeekErr, HandleErr,
           Places, Begun, Greetings, Accepted, OneRead
  <2> QED
    BY <2>3, <2>4 DEF MixedInv
<1>2. CASE MixedPeek
  <2>1. HeadByte = 5 => script.kind = "socks5"
    BY <1>0, ScriptAssumption DEF HeadByte, Bytes
  <2>2. \E s \in {"socks4", "greeting", "http"}, w \in [min : Nat, cap : Nat] :
           Continue(s, w) /\ (s = "greeting" => script.kind = "socks5")
    <3>1. CASE HeadByte = 4
      BY <1>2, <3>1, Socks4BufAssumption DEF MixedPeek
    <3>2. CASE HeadByte = 5
      BY <1>2, <2>1, <3>2 DEF MixedPeek
    <3>3. CASE HeadByte # 4 /\ HeadByte # 5
      BY <1>2, <3>3, HttpBufAssumption DEF MixedPeek
    <3> QED
      BY <3>1, <3>2, <3>3
  <2>3. /\ stage' \in {"socks4", "greeting", "http"} /\ want' \in [min : Nat, cap : Nat]
        /\ stage' = "greeting" => script.kind = "socks5"
        /\ stage = "peek" /\ sent > 0
        /\ UNCHANGED <<clientVars, conn, base, n, replies, crashed, wg>>
    BY <1>2, <2>2 DEF MixedPeek, Continue
  <2> QED
    BY <1>0, <2>3, StatementInv DEF Begun, Greetings, Accepted, OneRead
<1>3. CASE Read /\ UNCHANGED wg
  <2>1. stage \in Begun /\ stage \notin {"closed"}
    <3>1. stage \notin Ended /\ n < want.min /\ stage \in Places
      BY <1>3 DEF Read, MixedInv, PlaceInv
    <3>2. stage \notin {"new", "accepted", "peek"}
      BY <1>0, <3>1 DEF MixedInv, PlaceInv
    <3> QED
      BY <3>1, <3>2 DEF Ended, Places, Begun, Greetings, Accepted
  <2>2. UNCHANGED <<clientVars, conn, stage, base, want, replies, crashed, wg>>
    BY <1>3 DEF Read
  <2> QED
    BY <1>0, <1>3, <2>1, <2>2, ReadBound, StatementInv
<1>4. CASE ReadErr /\ UNCHANGED wg
  <2>1. stage \in Begun /\ stage \notin {"closed"}
    <3>1. stage \notin Ended /\ n < want.min /\ stage \in Places
      BY <1>4 DEF ReadErr, MixedInv, PlaceInv
    <3>2. stage \notin {"new", "accepted", "peek"}
      BY <1>0, <3>1 DEF MixedInv, PlaceInv
    <3> QED
      BY <3>1, <3>2 DEF Ended, Places, Begun, Greetings, Accepted
  <2>2. stage' = "error" /\ UNCHANGED <<clientVars, conn, base, n, want, replies, crashed, wg>>
    BY <1>4 DEF ReadErr, GiveUp
  <2> QED
    BY <1>0, <2>1, <2>2, StatementInv DEF Begun, Greetings, Accepted
<1> QED
  BY <1>1, <1>2, <1>3, <1>4, ParseInv DEF Handle

-----------------------------------------------------------------------------
(* The invariant, and what follows from it *)

\* A client is entitled to be served by a configuration that was in force.
Entitled ==
  \E c \in inForce :
    \/ ~Enable(c.users)
    \/ \E v \in verified : Verify(c.users, v.name, v.pass, script.addr)

\* The front ends keep to the credentials: a statement that serves the client is reached from
\* one that has seen a configuration without users or has verified it.
LEMMA ParseAuth ==
  ASSUME AuthInv, Parse
  PROVE  AuthInv'
<1> DEFINE Served == stage \in Accepted \cup {"queued"}
           Reads  == stage \notin Ended \cup {"new", "udp"}
<1>0. (Reads => conf \in inForce) /\ (Served => Entitled)
  BY DEF AuthInv, Entitled
<1>1. UNCHANGED <<conf, inForce, script>>
  BY OneReadLeaves DEF Parse, Socks5Next, Greeting, Methods, Credentials, Username, Password, Request,
      Address, UdpDiscard, UdpEnd, Continue, GiveUp, Crash, Enqueue
<1>2. Reads' => Reads
  <2>1. CASE UdpDiscard \/ UdpEnd
    BY <2>1 DEF UdpDiscard, UdpEnd, Filled, NewBuffer, Ended
  <2>2. CASE ~(UdpDiscard \/ UdpEnd)
    BY <2>2, OneReadLeaves
       DEF Parse, Socks5Next, Greeting, Methods, Credentials, Username, Password, Request, Address,
           Filled, Ended, OneRead
  <2> QED
    BY <2>1, <2>2
<1>3. ASSUME Served' => Entitled'
      PROVE  AuthInv'
  BY <1>0, <1>1, <1>2, <1>3 DEF AuthInv, Entitled
<1>4. ASSUME Reads, ~Enable(conf.users)
      PROVE  Entitled'
  BY <1>0, <1>1, <1>4 DEF Entitled
<1>5. ASSUME Reads, NEW v \in verified', Verify(conf.users, v.name, v.pass, script.addr)
      PROVE  Entitled'
  BY <1>0, <1>1, <1>5 DEF Entitled
<1>6. ASSUME Served, UNCHANGED verified
      PROVE  Entitled'
  BY <1>0, <1>1, <1>6 DEF Entitled
<1> HIDE DEF Served, Reads
<1>7. CASE Greeting \/ Credentials \/ Username
  <2>1. ~Served'
    BY <1>7 DEF Served, Greeting, Credentials, Username, Filled, Crash, Continue, GiveUp, Accepted
  <2> QED
    BY <1>3, <2>1
<1>8. CASE Methods
  <2>1. Reads /\ (stage' \in {"error", "credentials"} \/ ~Enable(conf.users))
    BY <1>8 DEF Methods, NewBuffer, GiveUp, Filled, Reads, Ended
  <2> QED
    BY <1>3, <1>4, <2>1 DEF Served, Accepted
<1>9. CASE Password
  <2> DEFINE user == Slice(2, 2 + At(1))
             pass == Slice(2 + At(1) + 1, want.min)
             cred == [name |-> user, pass |-> pass]
  <2>1. Reads /\ (stage' = "error" \/ (Verify(conf.users, user, pass, script.addr) /\ verified' = {cred}))
    BY <1>9 DEF Password, NewBuffer, GiveUp, Filled, Reads, Ended
  <2>2. cred.name = user /\ cred.pass = pass
    OBVIOUS
  <2> HIDE DEF cred, user, pass
  <2> QED
    BY <1>3, <1>5, <2>1, <2>2 DEF Served, Accepted
<1>10. CASE Request \/ Address \/ UdpDiscard \/ UdpEnd
  <2>1. Served
    BY <1>10 DEF Served, Request, Address, UdpDiscard, UdpEnd, Filled, Accepted
  <2>2. UNCHANGED verified
    BY <1>10 DEF Request, Address, UdpDiscard, UdpEnd, Continue, GiveUp, Crash, Enqueue
  <2> QED
    BY <1>3, <1>6, <2>1, <2>2
<1>11. CASE Socks4Request \/ Socks4Auth \/ HttpRequest \/ HttpAuth
  <2>1. Reads
    BY <1>11, OneReadLeaves DEF Reads, OneRead, Ended
  <2>2. CASE Crash \/ GiveUp \/ \E s \in {"socks4Auth", "httpAuth"} : Continue(s, want)
    <3>1. stage' = stage \/ stage' \in {"error", "socks4Auth", "httpAuth"}
      BY <2>2 DEF Crash, GiveUp, Continue
    <3> QED
      BY <1>3, <1>11, <3>1, OneReadLeaves DEF Served, Accepted, OneRead
  <2>3. ASSUME NEW x, NEW creds, Enqueue(x, creds),
               \/ ~Enable(conf.users)
               \/ \E v \in creds : Verify(conf.users, v.name, v.pass, script.addr)
        PROVE  AuthInv'
    <3>1. verified' = creds
      BY <2>3 DEF Enqueue
    <3> QED
      BY <1>3, <1>4, <1>5, <2>1, <2>3, <3>1
  <2> QED
    BY <1>11, <2>2, <2>3, OneReadLeaves
<1> QED
  BY <1>7, <1>8, <1>9, <1>10, <1>11 DEF Parse, Socks5Next

\* The parts of the invariant, together.
MixedInvs == MixedInv /\ UdpInv /\ AuthInv

\* Every step keeps the invariant.
LEMMA MixedStep ==
  ASSUME MixedInvs, [MixedNext]_mixedVars
  PROVE  MixedInvs'
<1> USE DEF MixedInvs
<1>1. CASE MixedAccept /\ UNCHANGED udpVars
  <2>1. MixedInv' /\ UdpInv'
    BY <1>1, HandleInv DEF UdpInv, UdpTypeOK
  <2>2. stage' = "accepted" /\ conf' \in inForce'
    BY <1>1 DEF MixedAccept
  <2> QED
    BY <2>1, <2>2 DEF AuthInv, Accepted
<1>2. CASE Handle /\ UNCHANGED udpVars
  <2>1. MixedInv'
    BY <1>2, HandleInv
  <2>2. UdpInv'
    BY <1>2 DEF UdpInv, UdpTypeOK
  <2>3. AuthInv'
    <3>1. CASE MixedAdmit \/ MixedPeek \/ MixedPeekErr \/ HandleErr
      <4>1. stage' \notin Accepted \cup {"queued"} /\ UNCHANGED <<conf, inForce>>
        BY <3>1 DEF MixedAdmit, MixedPeek, MixedPeekErr, HandleErr, Continue, Accepted
      <4>2. stage' \in Ended \/ stage \in {"accepted", "peek"}
        BY <3>1 DEF MixedAdmit, MixedPeek, MixedPeekErr, HandleErr, Ended
      <4> QED
        BY <4>1, <4>2 DEF AuthInv, Ended
    <3>2. CASE Read \/ ReadErr
      <4>1. UNCHANGED <<conf, inForce, script, verified>> /\ (stage' = stage \/ stage' = "error")
        BY <3>2 DEF Read, ReadErr, GiveUp
      <4> QED
        BY <4>1 DEF AuthInv, Accepted, Ended
    <3> QED
      BY <1>2, <3>1, <3>2, ParseAuth DEF Handle
  <2> QED
    BY <2>1, <2>2, <2>3
<1>3. CASE (ClientSend \/ ClientClose) /\ UNCHANGED <<udpVars, wg>>
  <2>1. MixedInv'
    BY <1>3, ClientInv
  <2>2. UdpInv'
    BY <1>3 DEF UdpInv, UdpTypeOK
  <2>3. UNCHANGED <<conf, inForce, script, verified, stage>>
    BY <1>3 DEF ClientSend, ClientClose
  <2> QED
    BY <2>1, <2>2, <2>3 DEF AuthInv
<1>4. CASE (UdpNext \/ \E p \in Packets : SendPacket(p)) /\ UNCHANGED <<frontVars, wg>>
  <2>1. UdpInv'
    BY <1>4, UdpStepInv
  <2>2. MixedInv'
    BY <1>4, <2>1 DEF MixedInv, MixedTypeOK, PlaceInv, UdpInv, Bytes
  <2> QED
    BY <1>4, <2>1, <2>2 DEF AuthInv
<1>5. CASE ReloadConf /\ UNCHANGED udpVars
  <2>1. /\ UNCHANGED <<script, whole, sent, gone, conn, stage, base, n, want, replies, verified, crashed, wg>>
        /\ IF stage \in Ended \cup {"new", "udp"} THEN inForce' = inForce
           ELSE inForce' = inForce \cup {conf'}
    BY <1>5 DEF ReloadConf
  <2>2. MixedInv' /\ UdpInv'
    BY <1>5, <2>1 DEF MixedInv, MixedTypeOK, PlaceInv, UdpInv, UdpTypeOK, Bytes
  <2>3. AuthInv'
    BY <2>1 DEF AuthInv
  <2> QED
    BY <2>2, <2>3
<1>6. CASE UNCHANGED mixedVars
  BY <1>6 DEF mixedVars, MixedInv, MixedTypeOK, PlaceInv, UdpInv, UdpTypeOK, Bytes, AuthInv
<1> QED
  BY <1>1, <1>2, <1>3, <1>4, <1>5, <1>6 DEF MixedNext

\* The invariant holds in every reachable state.
THEOREM MixedInvariance == MixedSpec => []MixedInvs
<1>1. MixedInit => MixedInvs
  <2> SUFFICES ASSUME MixedInit PROVE MixedInvs
    OBVIOUS
  <2>1. UdpInv
    <3>0. UdpInit
      BY DEF MixedInit
    <3>1. fatal \in {"no", "map", "slice"} /\ usock \in {"open", "closed"}
      BY <3>0 DEF UdpInit
    <3>2. \A f \in {inbox, answers, forwarded} : f \in [Packets -> 0 .. MaxAnswers]
      BY <3>0, UdpAssumption DEF UdpInit
    <3>3. UdpTypeOK
      BY <3>0, <3>1, <3>2 DEF UdpInit, UdpTypeOK, Deleting
    <3> QED
      BY <3>0, <3>3 DEF UdpInit, UdpInv, Deleting
  <2>2. MixedTypeOK
    <3>1. whole \in BOOLEAN /\ gone \in BOOLEAN /\ crashed \in BOOLEAN
      BY DEF MixedInit
    <3>2. script \in Scripts /\ Len(Bytes) \in Nat
      BY ScriptAssumption DEF MixedInit, Bytes
    <3>3. /\ sent = 0 /\ base = 0 /\ n = 0 /\ wg = 0 /\ conn = "none"
          /\ want = [min |-> 0, cap |-> 0]
      BY DEF MixedInit
    <3> QED
      BY <2>1, <3>1, <3>2, <3>3 DEF MixedTypeOK, UdpInv
  <2>3. PlaceInv /\ AuthInv
    BY ScriptAssumption DEF MixedInit, PlaceInv, AuthInv, Places, Begun, Greetings, Accepted, OneRead
  <2> QED
    BY <2>1, <2>2, <2>3 DEF MixedInvs, MixedInv
<1> QED
  BY <1>1, MixedStep, PTL DEF MixedSpec

\* Whatever the scripts, their cuts and the datagrams, the state of a mixed port has its
\* type: no parser reads past what was sent (socks5/tcp.go, socks4/tcp.go, http/tcp.go).
THEOREM MixedTypes == MixedSpec => []MixedTypeOK
<1>1. MixedInvs => MixedTypeOK
  BY DEF MixedInvs, MixedInv
<1> QED
  BY <1>1, MixedInvariance, PTL

\* However the configuration is replaced while a client is greeted, verified and served, it
\* is entitled to what it gets by one that was in force since its accept: no mixture of two
\* tables of users lets somebody in whom neither of them would (socks5/tcp.go 92, 165,
\* socks4/tcp.go 82, http/tcp.go 82), for every table, every script and every cut of it.
THEOREM OnlyVerifiedServed == MixedSpec => []ServedAsVerified
<1>1. MixedInvs => ServedAsVerified
  BY DEF MixedInvs, AuthInv, ServedAsVerified, Accepted
<1> QED
  BY <1>1, MixedInvariance, PTL

\* The map without a lock is used by two goroutines at once only after a Write has failed.
THEOREM MapSharedOnlyAfterFailure == MixedSpec => []MapShared
<1>1. MixedInvs => MapShared
  BY DEF MixedInvs, UdpInv, MapShared
<1> QED
  BY <1>1, MixedInvariance, PTL

-----------------------------------------------------------------------------
(* The front ends implement Lifecycle *)

\* The statement, the kind and the outcome that Lifecycle sees.
AtStage  == CASE stage \in {"new", "accepted", "peek", "udp", "queued"} -> stage
              [] stage \in {"denied", "failed", "closed"} -> "done"
              [] OTHER -> "handshake"
OfKind   == IF sent = 0 \/ stage = "peek" THEN "none" ELSE script.kind
EndedAs  == CASE stage = "denied" -> "denied"
              [] stage = "failed" -> "frontErr"
              [] stage = "closed" -> "udp"
              [] OTHER            -> "none"

\* A step that changes none of what Lifecycle sees is a stuttering step of it.
LEMMA Stutters ==
  ASSUME UNCHANGED <<AtStage, OfKind, EndedAs, conn, wg>>
  PROVE  UNCHANGED L!vars
BY DEF L!vars, L!tunnelVars, AtStage, OfKind, EndedAs

\* The accept loop and the goroutine's ends are steps of Lifecycle.
LEMMA ImplementsFront ==
  ASSUME MixedInv, MixedAccept \/ MixedAdmit \/ MixedPeekErr \/ HandleErr
  PROVE  L!Front("c")
<1> USE DEF L!Front, L!Goto, L!Fail, L!ctlVars
<1>1. CASE MixedAccept
  BY <1>1 DEF MixedInv, PlaceInv, MixedAccept, L!Accept
<1>2. CASE MixedAdmit
  BY <1>2 DEF MixedInv, PlaceInv, MixedAdmit, L!Admit, L!Deny
<1>3. CASE MixedPeekErr
  BY <1>3 DEF MixedInv, PlaceInv, MixedPeekErr, L!PeekErr, L!FrontErr
<1>4. CASE HandleErr
  BY <1>4 DEF MixedInv, PlaceInv, HandleErr, L!HandshakeErr, L!FrontErr
<1> QED
  BY <1>1, <1>2, <1>3, <1>4

\* What Peek selects is the kind of the client's script.
LEMMA ImplementsPeek ==
  ASSUME MixedInv, MixedPeek
  PROVE  L!Front("c")
<1>1. /\ stage = "peek" /\ sent > 0 /\ stage' \in {"socks4", "greeting", "http"}
      /\ UNCHANGED <<script, sent, conn, wg>>
  BY DEF MixedPeek, Continue
<1>2. script.kind \in L!Kinds \ {"tunnel"}
  BY ScriptAssumption DEF MixedInv, PlaceInv, L!Kinds
<1>3. sent # 0
  BY <1>1
<1>4. L!Peek("c")
  BY <1>1, <1>2, <1>3 DEF L!Peek
<1> QED
  BY <1>4 DEF L!Front

\* A statement of a parser leaves the handshake at most for the queue or an association.
LEMMA ImplementsParse ==
  ASSUME MixedInv, Parse
  PROVE  L!Front("c") \/ UNCHANGED L!vars
<1> DEFINE Shaking == (Greetings \cup Accepted \cup OneRead \cup {"error"}) \ {"udp"}
<1>1. CASE UdpEnd
  <2>1. /\ stage = "udp" /\ stage' = "closed" /\ conn' = "closed" /\ sent > 0
        /\ UNCHANGED <<script, sent, wg>>
    BY <1>1 DEF UdpEnd, Parse, MixedInv, PlaceInv, Begun, Accepted
  <2>2. L!UdpEnd("c")
    BY <2>1 DEF L!UdpEnd, L!Goto, L!Fail, L!ctlVars
  <2> QED
    BY <2>2 DEF L!Front
<1>2. CASE UdpDiscard
  <2>1. stage' = stage /\ UNCHANGED <<script, sent, conn, wg>>
    BY <1>2 DEF UdpDiscard, Filled, NewBuffer, Parse
  <2> QED
    BY <2>1, Stutters DEF AtStage, OfKind, EndedAs
<1>3. CASE ~UdpEnd /\ ~UdpDiscard
  <2>0. UNCHANGED wg
    BY DEF Parse
  <2>1. stage \in Shaking /\ stage # "error"
    BY <1>3, OneReadLeaves
       DEF Parse, Socks5Next, Greeting, Methods, Credentials, Username, Password, Request,
           Address, Filled, Greetings, Accepted, OneRead
  <2>2. UNCHANGED <<script, sent, conn, wg>>
    BY <1>3, <2>0, OneReadLeaves
       DEF Parse, Socks5Next, Greeting, Methods, Credentials, Username, Password, Request,
           Address, Continue, GiveUp, Crash, Enqueue
  <2>3. stage' \in Shaking \cup {"queued"} \/ (stage = "address" /\ stage' = "udp")
    <3>1. CASE Greeting \/ Methods \/ Credentials \/ Username \/ Password
      BY <2>1, <3>1 DEF Greeting, Methods, Credentials, Username, Password,
                        Continue, GiveUp, Crash, NewBuffer, Greetings, Accepted
    <3>2. CASE Request \/ Address
      BY <2>1, <3>2 DEF Request, Address, Filled,
                        Continue, GiveUp, Crash, NewBuffer, Enqueue, Greetings, Accepted
    <3>3. CASE Socks4Request \/ Socks4Auth \/ HttpRequest \/ HttpAuth
      BY <2>1, <3>3, OneReadLeaves DEF Continue, GiveUp, Crash, Enqueue, OneRead
    <3> QED
      BY <1>3, <3>1, <3>2, <3>3 DEF Parse, Socks5Next
  <2>4. sent > 0 /\ (stage = "address" => script.kind = "socks5")
    BY <2>1 DEF MixedInv, PlaceInv, Begun, Accepted
  <2>5. CASE stage' \in Shaking
    BY <2>1, <2>2, <2>5, Stutters DEF AtStage, OfKind, EndedAs, Greetings, Accepted, OneRead
  <2>6. CASE stage' = "queued"
    <3>1. L!HandshakeOk("c")
      BY <2>1, <2>2, <2>6 DEF L!HandshakeOk, L!Goto, L!ctlVars, Greetings, Accepted, OneRead
    <3> QED
      BY <3>1 DEF L!Front
  <2>7. CASE stage = "address" /\ stage' = "udp"
    <3>1. L!UdpAssociate("c")
      BY <2>2, <2>4, <2>7 DEF L!UdpAssociate, L!Goto, L!ctlVars
    <3> QED
      BY <3>1 DEF L!Front
  <2> QED
    BY <2>3, <2>5, <2>6, <2>7
<1> QED
  BY <1>1, <1>2, <1>3

\* Every step of the mixed port is a step of Lifecycle or leaves what it sees alone.
LEMMA ImplementsStep ==
  ASSUME MixedInv, [MixedNext]_mixedVars
  PROVE  [L!Next]_L!vars
<1>1. CASE (MixedAccept \/ Handle) /\ UNCHANGED udpVars
  <2>1. CASE (Read \/ ReadErr) /\ UNCHANGED wg
    <3>1. UNCHANGED <<script, sent, conn, wg>>
      BY <2>1 DEF Read, ReadErr, GiveUp
    <3>2. stage' = stage \/ (stage' = "error" /\ stage \notin Ended \cup {"udp", "new", "accepted", "peek"})
      <4>1. CASE Read
        BY <4>1 DEF Read
      <4>2. CASE ReadErr
        BY <4>2 DEF ReadErr, GiveUp, MixedInv, MixedTypeOK, PlaceInv
      <4> QED
        BY <2>1, <4>1, <4>2
    <3> QED
      BY <3>1, <3>2, Stutters DEF AtStage, OfKind, EndedAs, Ended
  <2> QED
    BY <1>1, <2>1, ImplementsFront, ImplementsPeek, ImplementsParse DEF Handle, L!Next
<1>2. CASE (ClientSend \/ ClientClose) /\ UNCHANGED <<udpVars, wg>>
  <2>1. UNCHANGED <<script, conn, stage, wg>>
    BY <1>2 DEF ClientSend, ClientClose
  <2>2. MixedInv'
    BY <1>2, ClientInv
  <2>3. (stage \in Begun => sent # 0 /\ sent' # 0) /\ (stage \in {"new", "accepted", "denied"} => sent = 0 /\ sent' = 0)
    BY <2>1, <2>2 DEF MixedInv, PlaceInv
  <2>4. stage = "failed" => sent' = sent
    BY <1>2 DEF ClientSend, ClientClose, Ended
  <2>5. UNCHANGED OfKind
    BY <2>1, <2>3, <2>4 DEF OfKind, MixedInv, PlaceInv, Places
  <2> QED
    BY <2>1, <2>5, Stutters DEF AtStage, EndedAs
<1>3. CASE UNCHANGED <<script, sent, conn, stage, wg>>
  BY <1>3, Stutters DEF AtStage, OfKind, EndedAs
<1> QED
  BY <1>1, <1>2, <1>3 DEF MixedNext, mixedVars, ReloadConf

\* The mixed port implements Lifecycle: whatever the client sends and however it is cut,
\* its connection goes through the states of Lifecycle, is closed on every error path of
\* handle and is counted once (mixed.go 88-150).
THEOREM FrontEndsImplementLifecycle == MixedSpec => ImplementsLifecycle
<1>1. MixedInit => L!Init
  BY DEF MixedInit, L!Init, L!Modes, L!NoWire
<1>2. MixedInvs => MixedInv
  BY DEF MixedInvs
<1> QED
  BY <1>1, <1>2, ImplementsStep, MixedInvariance, PTL DEF MixedSpec, ImplementsLifecycle, L!Spec
=============================================================================
