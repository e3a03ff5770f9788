------------------------------ MODULE FrontEnd ------------------------------
(***************************************************************************)
(* What the three front ends of internal/mixed have in common: a goroutine *)
(* that reads from one client into a buffer, parses, answers, and puts the *)
(* request on the tunnel's queue or gives up.  The client is external.     *)
(*                                                                         *)
(* The client's bytes are fixed by its script; how many of them a Read     *)
(* returns is left open.  The buffer of the current parser holds bytes     *)
(* base + 1 .. base + n of the stream.                                     *)
(***************************************************************************)
EXTENDS Integers, Sequences, SequencesExt, FiniteSetsExt, Auth

CONSTANTS
  Scripts,     \* what clients may send
  Configs,     \* contents of the configuration: users and cidr
  PieceBound   \* the messages of a script longer than this arrive in one piece

\* A script is a record: bytes, all that the client has to send; ends, where each of its
\* messages ends; patient, whether it sends a message only when the one before it has been
\* answered; addr, where it comes from; kind, the protocol; asked, the context it asks for,
\* or Nil; user and pass, its credentials; login, whether it sends them as a SOCKS5 message.
ASSUME ScriptAssumption ==
  \A s \in Scripts :
    /\ Len(s.bytes) \in Nat \ {0} /\ DOMAIN s.bytes = 1 .. Len(s.bytes)
    /\ Len(s.ends) \in Nat \ {0}  /\ DOMAIN s.ends = 1 .. Len(s.ends)
    /\ \A k \in DOMAIN s.ends : s.ends[k] \in DOMAIN s.bytes
    /\ s.kind \in {"connect", "http", "socks4", "socks5"}
    /\ s.kind = "socks4" => s.bytes[1] = 4
    /\ s.kind = "socks5" => s.bytes[1] = 5 /\ \A k \in DOMAIN s.bytes : s.bytes[k] \in 0 .. 255

VARIABLES
  conf,      \* conf.App.Users and conf.App.CIDR
  inForce,   \* what they were at any time since the client was accepted, until it was
             \* served or refused
  script,    \* the client's script
  whole,     \* messages arrive in one piece: a Read returns what was sent
  sent,      \* how many bytes the client has sent
  gone,      \* the client has closed its connection
  conn,      \* the accepted socket: "none", "open" or "closed"
  stage,     \* the statement the goroutine is at
  base, n,   \* the bytes before the buffer, and in it
  want,      \* what the current read asks for: at least min bytes, at most cap
  replies,   \* what the front end has answered
  verified,  \* the credentials auth.Verify has accepted, if any
  ctx,       \* what was put on tunnel.TCPIn: target and Line
  crashed    \* a slice or index out of range has ended the process

clientVars == <<conf, inForce, script, whole, sent, gone>>
frontVars  == <<clientVars, conn, stage, base, n, want, replies, verified, ctx, crashed>>

Bytes == script.bytes

\* Where message k of the script ends, and the message.
UpTo(k)    == script.ends[Min({k, Len(script.ends)})]
Message(k) == SubSeq(Bytes, IF k = 1 THEN 1 ELSE UpTo(k - 1) + 1, UpTo(k))

\* The first byte: the version of SOCKS, or a letter.
HeadByte == IF script.kind \in {"socks4", "socks5"} THEN Bytes[1] ELSE 71

\* Byte i of the buffer, counted from 0 as the code does; what was not read is zero.
At(i) == IF i < n THEN Bytes[base + i + 1] ELSE 0

\* buf[i:j]
Slice(i, j) == [k \in 1 .. j - i |-> At(i + k - 1)]

Ended == {"denied", "error", "failed", "queued", "closed"}

\* One of the characters or tokens xs occurs in t.  (As a bound variable t is evaluated once.)
Has(t, xs) == \E s \in {t} : \E i \in DOMAIN s : s[i] \in xs

\* How the bytes of SOCKS write the characters that matter to an address, and port 0.
ByteText == [open |-> 91, close |-> 93, colon |-> 58, zero |-> <<0, 0>>]

\* The target of a request is joined to one string, by net.JoinHostPort or Sprintf, which
\* net.SplitHostPort takes apart again: brackets around a name come off, and any other
\* bracket is an error, which is dropped with the host and the port.
Dest(host, port, text) ==
  LET brackets == {text.open, text.close}
      inner    == SubSeq(host, 2, Len(host) - 1)
  IN  IF ~Has(host, brackets) THEN host \o port
      ELSE IF /\ host = <<text.open>> \o inner \o <<text.close>>
              /\ ~Has(inner, brackets \cup {text.colon})
        THEN inner \o port
        ELSE text.zero

-----------------------------------------------------------------------------
(* The client *)

\* The client sends its next message, or all of them.
ClientSend ==
  /\ ~gone
  /\ stage \notin Ended \cup {"new", "accepted"}
  /\ LET limit == IF script.patient THEN UpTo(Len(replies) + 1) ELSE Len(Bytes)
     IN  sent < limit /\ sent' = limit
  /\ UNCHANGED <<conf, inForce, script, whole, gone, conn, stage, base, n, want, replies, verified, ctx, crashed>>

\* The client closes.  A reset may take what has not been read with it, but not the byte
\* that Peek has put into the bufio.Reader.
ClientClose ==
  /\ ~gone
  /\ stage # "new"
  /\ gone' = TRUE
  /\ \/ UNCHANGED sent
     \/ stage \in {"accepted", "peek"} /\ sent' = 0
     \/ stage \notin {"accepted", "peek"} \cup Ended /\ sent' = Max({base + n, 1})
  /\ UNCHANGED <<conf, inForce, script, whole, conn, stage, base, n, want, replies, verified, ctx, crashed>>

-----------------------------------------------------------------------------
(* Reading *)

\* Fault: a Read that returns less is taken for a full one.
Read_Full ==
  /\ stage \notin Ended
  /\ n < want.min
  /\ sent > base + n
  /\ n' = want.min
  /\ UNCHANGED <<clientVars, conn, stage, base, want, replies, verified, ctx, crashed>>

\* One Read of io.ReadAtLeast, io.ReadFull or a loop around Read.
Read ==
  /\ stage \notin Ended
  /\ n < want.min
  /\ LET most == Min({want.cap - n, sent - (base + n)})
     IN  n' \in IF whole THEN {n + most} \ {n} ELSE n + 1 .. n + most
  /\ UNCHANGED <<clientVars, conn, stage, base, want, replies, verified, ctx, crashed>>

\* The read has what it asked for.
Filled(s) == stage = s /\ n >= want.min

-----------------------------------------------------------------------------
(* Leaving a statement *)

\* The next statement reads on into the same buffer, ...
Continue(s, w) ==
  /\ stage' = s
  /\ want' = w
  /\ UNCHANGED <<clientVars, conn, base, n, replies, verified, ctx, crashed>>

\* ... or the next one has a buffer of its own: what the old one has too much is dropped.
NewBuffer(s, w) ==
  /\ stage' = s
  /\ want' = w
  /\ base' = base + n
  /\ n' = 0

\* Handle returns an error.
GiveUp ==
  /\ stage' = "error"
  /\ UNCHANGED <<clientVars, conn, base, n, want, verified, ctx, crashed>>

\* Fault: the end of the stream is noticed only where a message begins.
ReadErr_Fresh ==
  /\ stage \notin Ended \cup {"udp"}
  /\ n = 0
  /\ n < want.min
  /\ gone
  /\ sent = base
  /\ GiveUp
  /\ UNCHANGED replies

\* Reading fails: the client has gone and there is nothing left.  A Read into a buffer
\* that is full returns 0 bytes and no error.
ReadErr ==
  /\ stage \notin Ended \cup {"udp"}
  /\ n < want.min
  /\ n < want.cap
  /\ gone
  /\ sent = base + n
  /\ GiveUp
  /\ UNCHANGED replies

\* tcpIn <- the context of the request, of a client with the given accepted credentials.
Enqueue(c, creds) ==
  /\ stage' = "queued"
  /\ ctx' = c
  /\ verified' = creds
  /\ want' = [min |-> 0, cap |-> 0]
  /\ UNCHANGED <<clientVars, conn, base, n, replies, crashed>>

Crash ==
  /\ crashed' = TRUE
  /\ UNCHANGED <<clientVars, conn, stage, base, n, want, replies, verified, ctx>>
=============================================================================
