------------------------------- MODULE Socks4 -------------------------------
(***************************************************************************)
(* internal/socks4: the one message of a SOCKS4 or SOCKS4a client.  The    *)
(* code parses what its first read of at least eight bytes has returned:   *)
(* a name that goes on after it ends there.                                *)
(***************************************************************************)
EXTENDS FrontEnd

CONSTANT Socks4Buf   \* the size of the buffer: 4096 bytes

ASSUME Socks4BufAssumption == Socks4Buf \in Nat /\ Socks4Buf > 8

\* Where the string that begins at byte i ends: at its NUL, or where the buffer does.
StringEnd(i) ==
  LET nul == {j \in i .. n - 1 : At(j) = 0}
  IN  IF nul = {} THEN Max({i, n}) ELSE Min(nul)

readUntilNull(i) == Slice(i, StringEnd(i))

\* SOCKS4a: the address 0.0.0.x stands for the name after the user's.
IsSocks4a == At(4) = 0 /\ At(5) = 0 /\ At(6) = 0 /\ At(7) # 0

\* The target: the four bytes of the address, or the name, and the port.
Socks4Target ==
  IF IsSocks4a THEN Dest(readUntilNull(StringEnd(8) + 1), Slice(2, 4), ByteText)
  ELSE Slice(4, 8) \o Slice(2, 4)

\* The rest of handshake, and processRequest.  When the user's name fills the buffer, the
\* name of the host would begin behind it, and slicing it is out of range.
Socks4Serve(creds) ==
  IF IsSocks4a /\ StringEnd(8) = Socks4Buf THEN Crash
  ELSE Enqueue([target |-> Socks4Target, line |-> << >>], creds)

\* handshake up to auth.Enable.  Only CONNECT is known.
Socks4Request ==
  /\ Filled("socks4")
  /\ CASE At(1) # 1 -> GiveUp /\ UNCHANGED replies
       [] At(1) = 1 /\ Enable(conf.users) -> Continue("socks4Auth", want)
       [] At(1) = 1 /\ ~Enable(conf.users) -> Socks4Serve({})

\* handshake from auth.Verify on, which reads the users again.  A user has no password.
Socks4Auth ==
  /\ Filled("socks4Auth")
  /\ LET user == readUntilNull(8)
     IN  IF Verify(conf.users, user, << >>, script.addr)
           THEN Socks4Serve({[name |-> user, pass |-> << >>]})
           ELSE GiveUp /\ replies' = Append(replies, "identdMismatch")
=============================================================================
