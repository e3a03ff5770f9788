-------------------------------- MODULE Relay --------------------------------
(***************************************************************************)
(* internal/net Relay with SecureTCPConn, and internal/protocol: the two   *)
(* copying goroutines of a relay, the read deadlines with which one stops  *)
(* the other, and the closing of the sockets.                              *)
(*                                                                         *)
(* One hop is a direct relay between an application and an origin.  Two    *)
(* hops are a client and a server process with a framed link between:      *)
(*                                                                         *)
(*    application --1-- relay 1 --2-- relay 2 --3-- origin                 *)
(*                                                                         *)
(* Link l has a left end <<l, "L">> and a right end <<l, "R">>.  TCP is    *)
(* external: a bounded queue per direction, in which data may be left      *)
(* unread when an end is closed.                                           *)
(***************************************************************************)
EXTENDS Integers, Sequences, FiniteSetsExt, SequencesExt

CONSTANTS
  Setups,    \* the connections to look at, see SetupAssumption
  Cap,       \* bound on the units one direction of a TCP connection holds
  BufSize    \* bound on the units one Read returns (the pooled buffers)

Dirs    == {"down", "up"}   \* to the origin, to the application
MaxHops == 2

\* The relays on the way, a bound on what the sender of each direction writes, and whether
\* the application and the origin read whatever arrives.
ASSUME SetupAssumption ==
  \A s \in Setups : s.hops \in 1 .. MaxHops /\ s.max \in [Dirs -> Nat] /\ s.readers \in BOOLEAN
ASSUME SizeAssumption == Cap \in Nat \ {0} /\ BufSize \in Nat \ {0}

VARIABLE setup   \* the member of Setups this is about; it does not change

Hops    == setup.hops
Relays  == 1 .. Hops
Links   == 1 .. Hops + 1
Ends    == Links \X {"L", "R"}
Copiers == Relays \X Dirs

Other(e)  == <<e[1], IF e[2] = "L" THEN "R" ELSE "L">>
Framed(e) == Hops = 2 /\ e[1] = 2

\* The socket a copier reads from and the one it writes to.
In(x)  == IF x[2] = "down" THEN <<x[1], "R">> ELSE <<x[1] + 1, "L">>
Out(x) == IF x[2] = "down" THEN <<x[1] + 1, "L">> ELSE <<x[1], "R">>

\* Relay.Dest is the tracker: the accepted socket in a client, which swapped the ends,
\* and the dialled one otherwise.  Relay.Src is the other socket.
DestEnd(r) == IF Hops = 2 /\ r = 1 THEN <<1, "R">> ELSE <<r + 1, "L">>
SrcEnd(r)  == IF Hops = 2 /\ r = 1 THEN <<2, "L">> ELSE <<r, "R">>

\* The outermost ends.
SendEnd(d) == IF d = "down" THEN <<1, "L">> ELSE <<Hops + 1, "R">>
RecvEnd(d) == IF d = "down" THEN <<Hops + 1, "R">> ELSE <<1, "L">>

VARIABLES
  q,        \* q[e]: units that can be read at end e
  shut,     \* ends whose owner has sent FIN and still reads
  closed,   \* ends whose owner has closed them
  expired,  \* ends whose read deadline has passed
  st,       \* st[x]: what copier x is doing
  buf,      \* buf[x]: what it holds: a frame not yet complete, or what it has to write
  rel,      \* rel[r]: how far the relay function is
  killed,   \* relays whose tracker the API has closed
  sent, got \* what the outer ends have written and read, per direction

rvars == <<setup, q, shut, closed, expired, st, buf, rel, killed, sent, got>>

-----------------------------------------------------------------------------
(* Frames *)

\* A unit is a plain byte, an encrypted byte or a frame header with the body's length.
\* The payload number stands for the byte; compression is left out.
Raw(n) == <<"raw", n>>
Enc(n) == <<"enc", n>>
Hdr(k) == <<"hdr", k>>

\* protocol.Encode: header, then the body.
Encode(chunk) == <<Hdr(Len(chunk))>> \o [k \in DOMAIN chunk |-> Enc(chunk[k][2])]

\* protocol.ReadFull: how many units its io.ReadFull still waits for ...
Missing(part) == IF part = << >> THEN 1 ELSE 1 + part[1][2] - Len(part)

\* Fault: the header is taken for payload; the last byte is forgotten.
Decode_WithHeader(frame) == [k \in 1 .. Len(frame) |-> Raw(frame[k][2])]
Decode_OneShort(frame)   == [k \in 1 .. Len(frame) - 2 |-> Raw(frame[k + 1][2])]

\* ... and the payload of a whole frame.
Decode(frame) == [k \in 1 .. Len(frame) - 1 |-> Raw(frame[k + 1][2])]

-----------------------------------------------------------------------------
(* A copying goroutine: EncodeCopy, the ReadFull loop, or io.Copy *)

\* Fault: a frame is read with Read instead of io.ReadFull.
Limit_Greedy(x) == BufSize

\* What the caller of Read has room for: the rest of a header or body, or its buffer.
Limit(x) == IF Framed(In(x)) THEN Missing(buf[x]) ELSE BufSize

\* A Read returns what is there, up to what was asked for.  Past its deadline a socket
\* returns an error at once; only the bufio.Reader of an accepted one may still hold data.
Read(x) ==
  LET e == In(x)
  IN  /\ st[x] = "read"
      /\ e \notin closed
      /\ e \notin expired \/ e[2] = "R"
      /\ \E n \in 1 .. Min({Limit(x), Len(q[e])}) :
           LET chunk == SubSeq(q[e], 1, n)
               part  == buf[x] \o chunk
               whole == ~Framed(e) \/ Missing(part) = 0
           IN  /\ q' = [q EXCEPT ![e] = SubSeq(@, n + 1, Len(@))]
               /\ buf' = [buf EXCEPT ![x] = CASE ~whole -> part
                                              [] whole /\ Framed(e) -> Decode(part)
                                              [] ~Framed(e) /\ Framed(Out(x)) -> Encode(chunk)
                                              [] OTHER -> chunk]
               /\ st' = [st EXCEPT ![x] = IF whole THEN "write" ELSE "read"]
      /\ UNCHANGED <<setup, shut, closed, expired, rel, killed, sent, got>>

\* Fault: the end of the stream is reported ahead of the data before it.
StreamEnded_Eager(e) == Other(e) \in closed \cup shut

\* What the peer of e can do to a reader of e: end the stream, or reset it by closing
\* while something sent to it is unread.
StreamEnded(e) ==
  \/ Other(e) \in closed /\ (q[e] = << >> \/ q[Other(e)] # << >>)
  \/ Other(e) \in shut /\ q[e] = << >>

\* Read fails or reports EOF; a frame that is not complete is dropped.
ReadEnd(x) ==
  /\ st[x] = "read"
  /\ In(x) \in closed \cup expired \/ StreamEnded(In(x))
  /\ st' = [st EXCEPT ![x] = "poke"]
  /\ buf' = [buf EXCEPT ![x] = << >>]
  /\ UNCHANGED <<setup, q, shut, closed, expired, rel, killed, sent, got>>

\* Fault: the part of a write that did not fit is forgotten.
Write_Short(x) ==
  LET e == Other(Out(x))
      n == Min({Len(buf[x]), Cap - Len(q[e])})
  IN  /\ st[x] = "write"
      /\ Out(x) \notin closed
      /\ n > 0
      /\ q' = [q EXCEPT ![e] = @ \o SubSeq(buf[x], 1, n)]
      /\ buf' = [buf EXCEPT ![x] = << >>]
      /\ st' = [st EXCEPT ![x] = "read"]
      /\ UNCHANGED <<setup, shut, closed, expired, rel, killed, sent, got>>

\* Fault: writes are queued without waiting for room.
Write_Unbounded(x) ==
  /\ st[x] = "write"
  /\ Out(x) \notin closed
  /\ q' = [q EXCEPT ![Other(Out(x))] = @ \o buf[x]]
  /\ buf' = [buf EXCEPT ![x] = << >>]
  /\ st' = [st EXCEPT ![x] = "read"]
  /\ UNCHANGED <<setup, shut, closed, expired, rel, killed, sent, got>>

\* Write hands over what fits and blocks for the rest.
Write(x) ==
  LET e == Other(Out(x))
      n == Min({Len(buf[x]), Cap - Len(q[e])})
  IN  /\ st[x] = "write"
      /\ Out(x) \notin closed
      /\ n > 0
      /\ q' = [q EXCEPT ![e] = @ \o SubSeq(buf[x], 1, n)]
      /\ buf' = [buf EXCEPT ![x] = SubSeq(@, n + 1, Len(@))]
      /\ st' = [st EXCEPT ![x] = IF n = Len(buf[x]) THEN "read" ELSE "write"]
      /\ UNCHANGED <<setup, shut, closed, expired, rel, killed, sent, got>>

WriteEnd(x) ==
  /\ st[x] = "write"
  /\ Out(x) \in closed \/ Other(Out(x)) \in closed
  /\ st' = [st EXCEPT ![x] = "poke"]
  /\ buf' = [buf EXCEPT ![x] = << >>]
  /\ UNCHANGED <<setup, q, shut, closed, expired, rel, killed, sent, got>>

\* Fault: the deadline is set on the socket the copier itself has read.
Poke_OwnSocket(x) ==
  /\ st[x] = "poke"
  /\ st' = [st EXCEPT ![x] = "done"]
  /\ expired' = expired \cup {In(x)}
  /\ UNCHANGED <<setup, q, shut, closed, buf, rel, killed, sent, got>>

\* The last statement before wg.Done: SetReadDeadline(time.Now()) on the socket it wrote
\* to, which is the one the other copier of the relay reads.
Poke(x) ==
  /\ st[x] = "poke"
  /\ st' = [st EXCEPT ![x] = "done"]
  /\ expired' = expired \cup {Out(x)}
  /\ UNCHANGED <<setup, q, shut, closed, buf, rel, killed, sent, got>>

-----------------------------------------------------------------------------
(* The relay function *)

\* wg.Wait returns; the deferred function closes Dest ...
CloseDest(r) ==
  /\ rel[r] = "relay"
  /\ \A d \in Dirs : st[<<r, d>>] = "done"
  /\ rel' = [rel EXCEPT ![r] = "closeSrc"]
  /\ closed' = closed \cup {DestEnd(r)}
  /\ UNCHANGED <<setup, q, shut, expired, st, buf, killed, sent, got>>

\* ... and Src.
CloseSrc(r) ==
  /\ rel[r] = "closeSrc"
  /\ rel' = [rel EXCEPT ![r] = "closed"]
  /\ closed' = closed \cup {SrcEnd(r)}
  /\ UNCHANGED <<setup, q, shut, expired, st, buf, killed, sent, got>>

\* The API closes the tracker of a running relay.
ApiClose(r) ==
  /\ rel[r] = "relay"
  /\ DestEnd(r) \notin closed
  /\ closed' = closed \cup {DestEnd(r)}
  /\ killed' = killed \cup {r}
  /\ UNCHANGED <<setup, q, shut, expired, st, buf, rel, sent, got>>

-----------------------------------------------------------------------------
(* The application and the origin (external) *)

PeerSend(d) ==
  LET e == SendEnd(d)
      n == Len(sent[d]) + 1
  IN  /\ e \notin closed \cup shut
      /\ n <= setup.max[d]
      /\ Len(q[Other(e)]) < Cap
      /\ sent' = [sent EXCEPT ![d] = Append(@, n)]
      /\ q' = [q EXCEPT ![Other(e)] = Append(@, Raw(n))]
      /\ UNCHANGED <<setup, shut, closed, expired, st, buf, rel, killed, got>>

PeerRecv(d) ==
  LET e == RecvEnd(d)
  IN  /\ e \notin closed
      /\ q[e] # << >>
      /\ got' = [got EXCEPT ![d] = Append(@, Head(q[e])[2])]
      /\ q' = [q EXCEPT ![e] = Tail(@)]
      /\ UNCHANGED <<setup, shut, closed, expired, st, buf, rel, killed, sent>>

PeerShut(d) ==
  /\ SendEnd(d) \notin closed \cup shut
  /\ shut' = shut \cup {SendEnd(d)}
  /\ UNCHANGED <<setup, q, closed, expired, st, buf, rel, killed, sent, got>>

PeerClose(d) ==
  /\ SendEnd(d) \notin closed
  /\ closed' = closed \cup {SendEnd(d)}
  /\ UNCHANGED <<setup, q, shut, expired, st, buf, rel, killed, sent, got>>

-----------------------------------------------------------------------------
(* The specification *)

RelayInit ==
  /\ setup \in Setups
  /\ q = [e \in Ends |-> << >>]
  /\ shut = {} /\ closed = {} /\ expired = {}
  /\ st = [x \in Copiers |-> "read"]
  /\ buf = [x \in Copiers |-> << >>]
  /\ rel = [r \in Relays |-> "relay"]
  /\ killed = {}
  /\ sent = [d \in Dirs |-> << >>]
  /\ got = [d \in Dirs |-> << >>]

Copy(x) == Read(x) \/ ReadEnd(x) \/ Write(x) \/ WriteEnd(x) \/ Poke(x)

RelayNext ==
  \/ \E x \in Copiers : Copy(x)
  \/ \E r \in Relays : CloseDest(r) \/ CloseSrc(r) \/ ApiClose(r)
  \/ \E d \in Dirs : PeerSend(d) \/ PeerRecv(d) \/ PeerShut(d) \/ PeerClose(d)

RelaySpec == RelayInit /\ [][RelayNext]_rvars

\* The goroutines are scheduled and a socket call that can return does.  Nothing is
\* assumed of the application and the origin, unless the setup says that they read.  Every
\* step takes data or the end of a connection further, of which there is only so much: it is
\* enough that one of these steps is taken while there are any.
RelayFairness ==
  WF_rvars(\/ \E x \in Copiers : Copy(x)
           \/ \E r \in Relays : CloseDest(r) \/ CloseSrc(r)
           \/ setup.readers /\ \E d \in Dirs : PeerRecv(d))

RelayFairSpec == RelaySpec /\ RelayFairness

-----------------------------------------------------------------------------
(* Properties *)

Unit == {"raw", "enc", "hdr"} \X Nat

\* Types; no socket buffer holds more than Cap: a relay blocks in Write (relay.go 41, 49,
\* 86, securetcp.go 39) and queues nothing of its own.
RelayTypeOK ==
  /\ setup \in Setups
  /\ q \in [Ends -> Seq(Unit)] /\ \A e \in Ends : Len(q[e]) <= Cap
  /\ shut \subseteq Ends /\ closed \subseteq Ends /\ expired \subseteq Ends
  /\ st \in [Copiers -> {"read", "write", "poke", "done"}]
  /\ buf \in [Copiers -> Seq(Unit)]
  /\ rel \in [Relays -> {"relay", "closeSrc", "closed"}]
  /\ killed \subseteq Relays
  /\ sent \in [Dirs -> Seq(Nat)] /\ got \in [Dirs -> Seq(Nat)]

\* Through one relay or two, with reads of any size, frames cut anywhere by full buffers,
\* deadlines, resets and closes, each end gets a prefix of what the other end sent.
P == INSTANCE Pipe WITH Bytes <- UNION {UNION {1 .. s.max[d] : d \in Dirs} : s \in Setups}
DeliversInOrder == P!PipeSpec

\* Partial writes and partial reads keep both ends of a framed link in step: ReadFull
\* always finds a header where a frame begins, and never part of another frame behind it;
\* no header and no encrypted byte gets out of the tunnel, no plain byte into it.
FramesAligned ==
  /\ \A x \in Copiers :
       (Framed(In(x)) /\ st[x] = "read" /\ buf[x] # << >>) =>
         /\ buf[x][1][1] = "hdr"
         /\ Missing(buf[x]) > 0
         /\ \A k \in 2 .. Len(buf[x]) : buf[x][k][1] = "enc"
  /\ \A e \in Ends : \A k \in DOMAIN q[e] : Framed(e) <=> q[e][k][1] # "raw"

\* The payload of a queue or buffer.
Payload(s) ==
  LET upTo[k \in 0 .. Len(s)] ==
        IF k = 0 THEN << >>
        ELSE IF s[k][1] = "hdr" THEN upTo[k - 1] ELSE Append(upTo[k - 1], s[k][2])
  IN  upTo[Len(s)]

\* Everything on the way in direction d, what was sent last at the end.
OnTheWay(d) ==
  LET hop(r) == Payload(buf[<<r, d>>]) \o Payload(q[In(<<r, d>>)])
  IN  Payload(q[RecvEnd(d)]) \o
      (IF Hops = 1 THEN hop(1) ELSE IF d = "down" THEN hop(2) \o hop(1) ELSE hop(1) \o hop(2))

\* While the copiers of a direction run, nothing of it is lost: what was sent is what was
\* received and what is in the buffers of the relays and of the sockets.
NothingLostWhileCopying ==
  \A d \in Dirs :
    (\A r \in Relays : st[<<r, d>>] \in {"read", "write"}) => got[d] \o OnTheWay(d) = sent[d]

\* When one copier of a relay has ended, for whatever reason, the deadline it sets brings
\* down the other one and both sockets are closed, unless the other is stuck in a Write
\* to a peer that does not read, which a read deadline does not end.
WindsDown ==
  \A r \in 1 .. MaxHops :
    (r \in Relays /\ \E d \in Dirs : st[<<r, d>>] = "done") ~>
      (/\ r \in Relays
       /\ \/ rel[r] = "closed"
          \/ \E o \in Dirs : st[<<r, o>>] = "write" /\ Len(q[Other(Out(<<r, o>>))]) = Cap)

\* Both peers read: then a relay that one copier, or the API, has begun to end does end,
\* and so does every relay behind it.
AllWindDown ==
  (/\ setup.readers
   /\ \E r \in Relays : DestEnd(r) \in closed \/ \E d \in Dirs : st[<<r, d>>] = "done")
  ~> (\A r \in Relays : rel[r] = "closed")

\* Somebody other than the sender of direction d has ended the connection, or there is
\* data the other way, which a close may meet unread.
Disturbed(d) ==
  \/ \E o \in Dirs \ {d} : SendEnd(o) \in shut \cup closed \/ sent[o] # << >>
  \/ killed # {}

\* A sender that has nothing coming back may close as soon as it has sent: what it sent
\* is still delivered, all of it.
FlushesOnClose ==
  \A d \in Dirs :
    (setup.readers /\ SendEnd(d) \in shut \cup closed) ~> (got[d] = sent[d] \/ Disturbed(d))

\* While nobody ends the connection and the peers read, everything sent arrives, although
\* both directions are busy and a copier holds a chunk while the socket it writes to is full
\* (securetcp.go 39, relay.go 86): neither direction waits for the other.
NoStall ==
  \A d \in Dirs :
    (setup.readers /\ got[d] # sent[d]) ~> (got[d] = sent[d] \/ shut # {} \/ closed # {})

-----------------------------------------------------------------------------
(* The inductive invariant behind FramesAligned and DeliversInOrder *)

\* The first and the last copier of a direction; copiers that have not failed.
FirstCopier(d) == IF d = "down" THEN <<1, d>> ELSE <<Hops, d>>
LastCopier(d)  == IF d = "down" THEN <<Hops, d>> ELSE <<1, d>>
Alive    == {"read", "write"}

Counted(s)     == \A k \in 1 .. Len(s) : s[k] = k
Numbered(s, m) == \A k \in 1 .. Len(s) : s[k] = Raw(m + k)
AllRaw(s)      == \A k \in 1 .. Len(s) : s[k][1] = "raw"
AllFramed(s)   == \A k \in 1 .. Len(s) : s[k][1] # "raw"

\* The units t are frames; the last may be cut off.  They begin at the places p, where
\* b[p] bytes of the stream come before, and hold bytes low + 1 to at most n of it.
Frames(t, low, n, p, b) ==
  /\ 1 \in p /\ b[1] = low
  /\ \A i \in p : i <= Len(t) =>
       LET len == t[i][2]
       IN  /\ t[i] = Hdr(len) /\ len \in Nat /\ b[i] + len <= n
           /\ \A k \in 1 .. len : i + k <= Len(t) => t[i + k] = Enc(b[i] + k)
           /\ i + len <= Len(t) => i + len + 1 \in p /\ b[i + len + 1] = b[i] + len

\* They are whole frames, and end with byte m of the stream.
WholeFrames(t, p, b, m) ==
  /\ Len(t) + 1 \in p /\ b[Len(t) + 1] = m
  /\ \A i \in p : i <= Len(t) => i + t[i][2] <= Len(t)

\* What a copier in state s has sent: whole frames as long as it runs.
FrameStream(t, low, n, s, m) ==
  \E p \in SUBSET (1 .. Len(t) + 1) :
    \E b \in [p -> 0 .. n] : Frames(t, low, n, p, b) /\ (s \in Alive => WholeFrames(t, p, b, m))

\* One direction: of n bytes sent, g have been received and some are in the last socket,
\* the queue out.  Behind them come, while the copiers run, what is in their buffers and in
\* the queues before them, without a gap.
Delivering(out, g, n) == Numbered(out, g) /\ g + Len(out) <= n
Taking(in, s, n)      == AllRaw(in) /\ (s \in Alive => Len(in) <= n /\ Numbered(in, n - Len(in)))

OneHop(in, s, b, out, g, n) ==
  /\ Delivering(out, g, n) /\ Taking(in, s, n)
  /\ s # "write" => b = << >>
  /\ s \in Alive => Numbered(b, g + Len(out)) /\ g + Len(out) + Len(b) + Len(in) = n

TwoHops(in, s1, b1, mid, s2, b2, out, g, n) ==
  /\ Delivering(out, g, n) /\ Taking(in, s1, n)
  /\ AllFramed(mid) /\ AllFramed(b1)
  /\ s1 # "write" => b1 = << >>
  /\ s2 \notin Alive => b2 = << >>
  /\ s2 = "read" =>
       /\ b2 # << >> => Len(b2) <= b2[1][2]
       /\ FrameStream((b2 \o mid) \o b1, g + Len(out), n, s1, n - Len(in))
  /\ s2 = "write" =>
       /\ Numbered(b2, g + Len(out)) /\ g + Len(out) + Len(b2) <= n
       /\ FrameStream(mid \o b1, g + Len(out) + Len(b2), n, s1, n - Len(in))

DirInv(d) ==
  LET x == FirstCopier(d)
      y == LastCopier(d)
      g == Len(got[d])
      n == Len(sent[d])
  IN  /\ Counted(sent[d]) /\ Counted(got[d])
      /\ Hops = 1 => OneHop(q[In(x)], st[x], buf[x], q[RecvEnd(d)], g, n)
      /\ Hops = 2 => TwoHops(q[In(x)], st[x], buf[x], q[In(y)], st[y], buf[y], q[RecvEnd(d)], g, n)

RelayInv == RelayTypeOK /\ \A d \in Dirs : DirInv(d)
=============================================================================
