------------------------------ MODULE UdpRelay ------------------------------
(***************************************************************************)
(* internal/udp: the datagrams of SOCKS5 associations.  Every datagram has *)
(* a goroutine of its own.  SrcUdpMap.get never stores what it makes, so   *)
(* each of them gets a SrcUdpInfo of its own as well, dials a socket of    *)
(* its own and has a goroutine that reads the answers; the sweep of        *)
(* SrcUdpMap.timeout finds nothing.                                        *)
(*                                                                         *)
(* Both goroutines end with deleteRemoteConn: a look into the map          *)
(* localDestCon, Close, and delete, with no lock.                          *)
(***************************************************************************)
EXTENDS Integers

CONSTANTS
  Packets,     \* the datagrams the client sends
  Fragments,   \* those with FRAG # 0
  Truncated,   \* those that end within the header, behind FRAG
  MaxAnswers   \* bound on the answers to one of them

ASSUME UdpAssumption == Fragments \cup Truncated \subseteq Packets /\ MaxAnswers \in Nat

VARIABLES
  usock,     \* the listener's UDP socket
  pk,        \* pk[p]: the goroutine of handleUdpPacket
  rd,        \* rd[p]: the goroutine of handleRemoteRead
  remote,    \* remote[p]: the dialled socket
  known,     \* packets whose socket is in localDestCon
  inbox,     \* inbox[p]: answers at the socket
  answers,   \* answers[p]: how many answers the destination has sent
  forwarded, \* forwarded[p]: how many the client was sent
  unwritten, \* packets whose Write has failed
  fatal      \* what has ended the process: "no", a "map" used concurrently, or a "slice"

udpVars == <<usock, pk, rd, remote, known, inbox, answers, forwarded, unwritten, fatal>>

Deleting == {"lookup", "close", "delete"}

UdpTypeOK ==
  /\ usock \in {"open", "closed"}
  /\ pk \in [Packets -> {"unsent", "arrived", "handle", "write", "done"} \cup Deleting]
  /\ rd \in [Packets -> {"none", "read", "forward", "done"} \cup Deleting]
  /\ remote \in [Packets -> {"none", "open", "closed"}]
  /\ known \subseteq Packets /\ unwritten \subseteq Packets
  /\ \A f \in {inbox, answers, forwarded} : f \in [Packets -> 0 .. MaxAnswers]
  /\ fatal \in {"no", "map", "slice"}

UdpInit ==
  /\ usock = "open"
  /\ pk = [p \in Packets |-> "unsent"]
  /\ rd = [p \in Packets |-> "none"]
  /\ remote = [p \in Packets |-> "none"]
  /\ known = {} /\ unwritten = {}
  /\ inbox = [p \in Packets |-> 0]
  /\ answers = [p \in Packets |-> 0]
  /\ forwarded = [p \in Packets |-> 0]
  /\ fatal = "no"

-----------------------------------------------------------------------------
(* The client and the destinations (external) *)

SendPacket(p) ==
  /\ pk[p] = "unsent"
  /\ usock = "open"
  /\ pk' = [pk EXCEPT ![p] = "arrived"]
  /\ UNCHANGED <<usock, rd, remote, known, inbox, answers, forwarded, unwritten, fatal>>

\* The destination has got the datagram and answers.
Answer(p) ==
  /\ pk[p] = "done"
  /\ remote[p] = "open"
  /\ p \notin unwritten
  /\ answers[p] < MaxAnswers
  /\ answers' = [answers EXCEPT ![p] = @ + 1]
  /\ inbox' = [inbox EXCEPT ![p] = @ + 1]
  /\ UNCHANGED <<usock, pk, rd, remote, known, forwarded, unwritten, fatal>>

-----------------------------------------------------------------------------
(* Listen and the goroutine of a packet *)

\* The shutdown closes the listener's socket; Listen returns.
CloseListener ==
  /\ usock = "open"
  /\ usock' = "closed"
  /\ UNCHANGED <<pk, rd, remote, known, inbox, answers, forwarded, unwritten, fatal>>

\* Listen: ReadFromUDP, and a goroutine.
ReadFromUDP(p) ==
  /\ pk[p] = "arrived"
  /\ usock = "open"
  /\ pk' = [pk EXCEPT ![p] = "handle"]
  /\ UNCHANGED <<usock, rd, remote, known, inbox, answers, forwarded, unwritten, fatal>>

\* handleUdpPacket: the header is taken apart without a look at the length, and nobody
\* recovers from a panic of the goroutine.
ShortPacket(p) ==
  /\ pk[p] = "handle"
  /\ p \in Truncated \ Fragments
  /\ fatal' = "slice"
  /\ UNCHANGED <<usock, pk, rd, remote, known, inbox, answers, forwarded, unwritten>>

\* handleUdpPacket: a fragment is dropped, and so is a packet that cannot be dialled.
DropPacket(p) ==
  /\ pk[p] = "handle"
  /\ p \notin Truncated \ Fragments
  /\ pk' = [pk EXCEPT ![p] = "done"]
  /\ UNCHANGED <<usock, rd, remote, known, inbox, answers, forwarded, unwritten, fatal>>

\* handleUdpPacket2: the socket is dialled, remembered and given a reader.
DialRemote(p) ==
  /\ pk[p] = "handle"
  /\ p \notin Fragments \cup Truncated
  /\ remote' = [remote EXCEPT ![p] = "open"]
  /\ known' = known \cup {p}
  /\ rd' = [rd EXCEPT ![p] = "read"]
  /\ pk' = [pk EXCEPT ![p] = "write"]
  /\ UNCHANGED <<usock, inbox, answers, forwarded, unwritten, fatal>>

\* Fault: deleteRemoteConn is deferred.
WriteRemote_Defer(p) ==
  /\ pk[p] = "write"
  /\ pk' = [pk EXCEPT ![p] = "lookup"]
  /\ UNCHANGED <<usock, rd, remote, known, inbox, answers, forwarded, unwritten, fatal>>

\* handleUdpPacket2: the datagram goes out, or deleteRemoteConn is next.  Writing to a
\* socket that the reader has closed fails.
WriteRemote(p) ==
  /\ pk[p] = "write"
  /\ \/ /\ remote[p] = "open"
        /\ pk' = [pk EXCEPT ![p] = "done"]
        /\ UNCHANGED unwritten
     \/ /\ pk' = [pk EXCEPT ![p] = "lookup"]
        /\ unwritten' = unwritten \cup {p}
  /\ UNCHANGED <<usock, rd, remote, known, inbox, answers, forwarded, fatal>>

-----------------------------------------------------------------------------
(* The goroutine that reads the answers *)

\* handleRemoteRead: an answer ...
ReadRemote(p) ==
  /\ rd[p] = "read"
  /\ remote[p] = "open"
  /\ inbox[p] > 0
  /\ inbox' = [inbox EXCEPT ![p] = @ - 1]
  /\ rd' = [rd EXCEPT ![p] = "forward"]
  /\ UNCHANGED <<usock, pk, remote, known, answers, forwarded, unwritten, fatal>>

\* ... goes to the client, unless the listener's socket is closed, which is only logged.
Forward(p) ==
  /\ rd[p] = "forward"
  /\ rd' = [rd EXCEPT ![p] = "read"]
  /\ forwarded' = [forwarded EXCEPT ![p] = IF usock = "open" THEN @ + 1 ELSE @]
  /\ UNCHANGED <<usock, pk, remote, known, inbox, answers, unwritten, fatal>>

\* Fault: only a socket closed under it ends the reader.
ReadRemoteErr_NoDeadline(p) ==
  /\ rd[p] = "read"
  /\ remote[p] = "closed"
  /\ rd' = [rd EXCEPT ![p] = "lookup"]
  /\ UNCHANGED <<usock, pk, remote, known, inbox, answers, forwarded, unwritten, fatal>>

\* handleRemoteRead: 100 s without an answer, a destination that refuses, or a socket
\* closed under it.
ReadRemoteErr(p) ==
  /\ rd[p] = "read"
  /\ remote[p] = "closed" \/ inbox[p] = 0
  /\ rd' = [rd EXCEPT ![p] = "lookup"]
  /\ UNCHANGED <<usock, pk, remote, known, inbox, answers, forwarded, unwritten, fatal>>

-----------------------------------------------------------------------------
(* deleteRemoteConn, in either goroutine *)

\* One statement of it; st is pk or rd.
DeleteStep(p, st, next) ==
  \/ /\ st[p] = "lookup"
     /\ next = IF p \in known THEN "close" ELSE "done"
     /\ UNCHANGED <<remote, known>>
  \/ /\ st[p] = "close"
     /\ next = "delete"
     /\ remote' = [remote EXCEPT ![p] = "closed"]
     /\ UNCHANGED known
  \/ /\ st[p] = "delete"
     /\ next = "done"
     /\ known' = known \ {p}
     /\ UNCHANGED remote

deleteRemoteConn(p) ==
  /\ \E next \in {"close", "delete", "done"} :
       \/ DeleteStep(p, pk, next) /\ pk' = [pk EXCEPT ![p] = next] /\ UNCHANGED rd
       \/ DeleteStep(p, rd, next) /\ rd' = [rd EXCEPT ![p] = next] /\ UNCHANGED pk
  /\ UNCHANGED <<usock, inbox, answers, forwarded, unwritten, fatal>>

\* The runtime's check that a map is not written while it is used: it may catch a delete
\* that overlaps the other goroutine's lookup or delete, and then ends the process.
ConcurrentMapUse(p) ==
  /\ \/ pk[p] = "delete" /\ rd[p] \in {"lookup", "delete"}
     \/ rd[p] = "delete" /\ pk[p] \in {"lookup", "delete"}
  /\ fatal' = "map"
  /\ UNCHANGED <<usock, pk, rd, remote, known, inbox, answers, forwarded, unwritten>>

-----------------------------------------------------------------------------

PacketStep(p) ==
  ReadFromUDP(p) \/ ShortPacket(p) \/ DropPacket(p) \/ DialRemote(p) \/ WriteRemote(p)
ReaderStep(p) == ReadRemote(p) \/ Forward(p) \/ ReadRemoteErr(p)

UdpNext ==
  \/ CloseListener
  \/ \E p \in Packets :
       \/ Answer(p) \/ PacketStep(p) \/ ReaderStep(p)
       \/ deleteRemoteConn(p) \/ ConcurrentMapUse(p)

-----------------------------------------------------------------------------
(* The inductive invariant *)

\* The goroutine of a packet calls deleteRemoteConn only after its Write has failed; no
\* answer is read or forwarded twice.
UdpInv ==
  /\ UdpTypeOK
  /\ \A p \in Packets :
       /\ pk[p] \in Deleting => p \in unwritten
       /\ inbox[p] + forwarded[p] + (IF rd[p] = "forward" THEN 1 ELSE 0) <= answers[p]
  /\ fatal = "map" => unwritten # {}
=============================================================================
