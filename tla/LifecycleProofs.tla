--------------------------- MODULE LifecycleProofs ---------------------------
(***************************************************************************)
(* Proofs about Lifecycle, for any finite set of connections.              *)
(***************************************************************************)
EXTENDS Lifecycle, FiniteSetTheorems, SequenceTheorems, TLAPS

\* The state functions a step of the connection goroutines can change.
USE DEF ctlVars, tunnelVars

\* The front-end goroutines keep every connection where its sockets, outcome and grant
\* say it is.
LEMMA StageFront ==
  ASSUME TypeOK, StageInv, NEW c \in Conns, Front(c)
  PROVE  StageInv'
<1> USE DEF TypeOK, TunnelTypeOK, StageInv, SocketInv, OutcomeInv, GrantInv, HasPreFn,
            Undialled, Dialled, Late, Goto, Fail
<1>1. CASE Accept(c)
  BY <1>1 DEF Accept
<1>2. CASE Deny(c)
  BY <1>2 DEF Deny
<1>3. CASE Admit(c)
  BY <1>3 DEF Admit
<1>4. CASE PeekErr(c)
  BY <1>4 DEF PeekErr, FrontErr
<1>5. CASE Peek(c)
  BY <1>5 DEF Peek
<1>6. CASE HandshakeErr(c)
  BY <1>6 DEF HandshakeErr, FrontErr
<1>7. CASE HandshakeOk(c)
  BY <1>7 DEF HandshakeOk
<1>8. CASE UdpAssociate(c)
  BY <1>8 DEF UdpAssociate
<1>9. CASE UdpEnd(c)
  BY <1>9 DEF UdpEnd
<1>10. CASE ReadFullErr(c)
  BY <1>10 DEF ReadFullErr
<1>11. CASE ReadFullOk(c)
  BY <1>11 DEF ReadFullOk
<1> QED
  BY <1>1, <1>2, <1>3, <1>4, <1>5, <1>6, <1>7, <1>8, <1>9, <1>10, <1>11 DEF Front

\* So do the statements of handleTCPConn ...
LEMMA StageTunnel ==
  ASSUME TypeOK, StageInv, NEW c \in Conns, Tunnelled(c)
  PROVE  StageInv'
<1> USE DEF TypeOK, TunnelTypeOK, StageInv, SocketInv, OutcomeInv, GrantInv, HasPreFn, HasLine,
            Undialled, Dialled, Late, Goto, Fail
<1>0. UNCHANGED ctlVars
  BY DEF Tunnelled
<1>1. CASE Dequeue(c)
  BY <1>0, <1>1 DEF Dequeue
<1>2. CASE Resolve(c)
  BY <1>0, <1>2 DEF Resolve
<1>3. CASE DialOk(c)
  BY <1>0, <1>3 DEF DialOk
<1>4. CASE DialErr(c)
  BY <1>0, <1>4 DEF DialErr
<1>5. CASE Header(c)
  BY <1>0, <1>5 DEF Header
<1>6. CASE LineFrame(c)
  BY <1>0, <1>6 DEF LineFrame
<1>7. CASE PreFn(c)
  BY <1>0, <1>7 DEF PreFn
<1>8. CASE Branch(c)
  BY <1>0, <1>8 DEF Branch
<1>9. CASE Swap(c)
  BY <1>0, <1>9 DEF Swap
<1>10. CASE Join(c)
  BY <1>0, <1>10 DEF Join
<1>11. CASE RelayCloseSrc(c)
  BY <1>0, <1>11 DEF RelayCloseSrc
<1>12. CASE PostFn(c)
  BY <1>0, <1>12 DEF PostFn
<1>13. CASE CloseDest(c)
  BY <1>0, <1>13 DEF CloseDest
<1>14. CASE CloseSrc(c)
  BY <1>0, <1>14 DEF CloseSrc
<1>15. CASE RelayEnd(c)
  BY <1>0, <1>15 DEF RelayEnd, Leave
<1>16. CASE RelayCloseDest(c)
  BY <1>0, <1>16 DEF RelayCloseDest, CloseWrapped
<1> QED
  BY <1>1, <1>2, <1>3, <1>4, <1>5, <1>6, <1>7, <1>8, <1>9, <1>10, <1>11, <1>12, <1>13, <1>14, <1>15, <1>16
     DEF Tunnelled, TunnelNext, Step

\* ... the signal handler, the API and the configuration watcher.
LEMMA StageControl ==
  ASSUME TypeOK, StageInv, RegistryFaithful, Control
  PROVE  StageInv'
<1> USE DEF TypeOK, TunnelTypeOK, StageInv, SocketInv, OutcomeInv, GrantInv, HasPreFn,
            Undialled, Dialled, Late
<1>1. CASE Signal \/ WaitReturn \/ ShutdownDrained \/ ShutdownTimeout \/ Exit
  BY <1>1 DEF Signal, WaitReturn, ShutdownDrained, ShutdownTimeout, ShutdownReturn, Exit
<1>2. CASE CloseAllConnections
  BY <1>2 DEF CloseAllConnections, RegistryFaithful
<1>3. CASE Reload
  BY <1>3 DEF Reload
<1>4. ASSUME NEW c \in Conns, CloseConnection(c)
      PROVE  StageInv'
  BY <1>4 DEF CloseConnection, RegistryFaithful
<1>5. ASSUME NEW c \in Conns, ApiClose(c)
      PROVE  StageInv'
  BY <1>5 DEF ApiClose, CloseWrapped
<1>6. ASSUME NEW c \in Conns, ApiLeave(c)
      PROVE  StageInv'
  BY <1>6 DEF ApiLeave, Leave
<1> QED
  BY <1>1, <1>2, <1>3, <1>4, <1>5, <1>6 DEF Control

-----------------------------------------------------------------------------
\* What a step does to the sets of the registry: a tracker enters when its relay
\* starts and leaves with the first statement of whichever Close comes first.
LEMMA RegistryStep ==
  ASSUME IndInv, NEW c \in Conns, Front(c) \/ Tunnelled(c) \/ ApiLeave(c) \/ ApiClose(c)
  PROVE  RegistryFaithful'
<1> USE DEF IndInv, TypeOK, TunnelTypeOK, RegistryFaithful, StageInv, SocketInv, Wrapped,
            Dialled, Late, Goto, Fail
<1>1. CASE Front(c)
  <2>1. CASE Accept(c) \/ Deny(c)
    BY <2>1 DEF Accept, Deny
  <2>2. CASE Admit(c)
    BY <2>2 DEF Admit
  <2>3. CASE PeekErr(c)
    BY <2>3 DEF PeekErr, FrontErr
  <2>4. CASE Peek(c)
    BY <2>4 DEF Peek
  <2>5. CASE HandshakeErr(c)
    BY <2>5 DEF HandshakeErr, FrontErr
  <2>6. CASE HandshakeOk(c)
    BY <2>6 DEF HandshakeOk
  <2>7. CASE UdpAssociate(c)
    BY <2>7 DEF UdpAssociate
  <2>8. CASE UdpEnd(c)
    BY <2>8 DEF UdpEnd
  <2>9. CASE ReadFullErr(c)
    BY <2>9 DEF ReadFullErr, FrontErr
  <2>10. CASE ReadFullOk(c)
    BY <2>10 DEF ReadFullOk
  <2> QED
    BY <1>1, <2>1, <2>2, <2>3, <2>4, <2>5, <2>6, <2>7, <2>8, <2>9, <2>10 DEF Front
<1>2. CASE ApiLeave(c)
  BY <1>2 DEF ApiLeave, Leave
<1>4. CASE ApiClose(c)
  BY <1>4 DEF ApiClose, CloseWrapped
<1>3. CASE Tunnelled(c)
  <2>0. closing' = closing
    BY <1>3 DEF Tunnelled
  <2>1. CASE Dequeue(c) \/ DialErr(c) \/ PreFn(c) \/ PostFn(c)
    BY <2>0, <2>1 DEF Dequeue, DialErr, PreFn, PostFn
  <2>2. CASE Resolve(c)
    BY <2>0, <2>2 DEF Resolve
  <2>3. CASE DialOk(c)
    BY <2>0, <2>3 DEF DialOk
  <2>4. CASE Header(c)
    BY <2>0, <2>4 DEF Header
  <2>5. CASE LineFrame(c)
    BY <2>0, <2>5 DEF LineFrame
  <2>6. CASE Branch(c)
    BY <2>0, <2>6 DEF Branch
  <2>7. CASE Swap(c)
    BY <2>0, <2>7 DEF Swap
  <2>8. CASE Join(c)
    BY <2>0, <2>8 DEF Join
  <2>9. CASE RelayCloseSrc(c)
    BY <2>0, <2>9 DEF RelayCloseSrc
  <2>10. CASE CloseDest(c)
    BY <2>0, <2>10 DEF CloseDest
  <2>11. CASE CloseSrc(c)
    BY <2>0, <2>11 DEF CloseSrc
  <2>12. CASE RelayEnd(c)
    BY <2>0, <2>12 DEF RelayEnd, Leave
  <2>13. CASE RelayCloseDest(c)
    BY <2>0, <2>13 DEF RelayCloseDest, CloseWrapped
  <2> QED
    BY <1>3, <2>1, <2>2, <2>3, <2>4, <2>5, <2>6, <2>7, <2>8, <2>9, <2>10, <2>11, <2>12, <2>13
       DEF Tunnelled, TunnelNext, Step
<1> QED
  BY <1>1, <1>2, <1>3, <1>4

-----------------------------------------------------------------------------
\* The three things a step can do to the WaitGroup and to the set it counts.
HeldSame    == Held' = Held /\ wg' = wg
HeldAdd(c)  == c \notin Held /\ Held' = Held \cup {c} /\ wg' = wg + 1
HeldDrop(c) == c \in Held /\ Held' = Held \ {c} /\ wg' = wg - 1

\* wg.Add in the accept loop, wg.Done in server.handle, nothing else in the front end.
LEMMA HeldFront ==
  ASSUME IndInv, NEW c \in Conns, Front(c)
  PROVE  HeldSame \/ HeldAdd(c) \/ HeldDrop(c)
<1> USE DEF IndInv, TypeOK, TunnelTypeOK, StageInv, OutcomeInv, Held, LeakingOutcomes,
            Stages, FrontStages, TunnelStages, Goto, Fail
<1>1. CASE Admit(c)
  <2>1. HeldAdd(c)
    BY <1>1 DEF Admit, HeldAdd
  <2> QED
    BY <2>1
<1>2. CASE ReadFullErr(c)
  <2>1. HeldDrop(c)
    BY <1>2 DEF ReadFullErr, HeldDrop
  <2> QED
    BY <2>1
<1>3. CASE Accept(c) \/ HandshakeOk(c) \/ UdpAssociate(c) \/ ReadFullOk(c)
  <2>1. HeldSame
    BY <1>3 DEF Accept, HandshakeOk, UdpAssociate, ReadFullOk, HeldSame
  <2> QED
    BY <2>1
<1>4. CASE Deny(c) \/ PeekErr(c) \/ HandshakeErr(c) \/ UdpEnd(c)
  <2>1. HeldSame
    BY <1>4 DEF Deny, PeekErr, HandshakeErr, FrontErr, UdpEnd, HeldSame
  <2> QED
    BY <2>1
<1>5. CASE Peek(c)
  <2>1. HeldSame
    BY <1>5 DEF Peek, HeldSame
  <2> QED
    BY <2>1
<1> QED
  BY <1>1, <1>2, <1>3, <1>4, <1>5 DEF Front

\* In the tunnel only PostFn calls wg.Done, and no error path that skips PostFn
\* gets a connection out of the set.
LEMMA HeldTunnel ==
  ASSUME IndInv, NEW c \in Conns, Tunnelled(c)
  PROVE  HeldSame \/ HeldDrop(c)
<1> USE DEF IndInv, TypeOK, TunnelTypeOK, StageInv, OutcomeInv, Held, LeakingOutcomes,
            Stages, FrontStages, TunnelStages, Goto, Fail
<1>0. command' = command
  BY DEF Tunnelled
<1>1. CASE PostFn(c)
  <2>1. HeldDrop(c)
    BY <1>0, <1>1 DEF PostFn, HeldDrop
  <2> QED
    BY <2>1
<1>2. CASE Dequeue(c) \/ DialOk(c) \/ PreFn(c) \/ Swap(c) \/ Join(c) \/ RelayEnd(c)
  <2>1. HeldSame
    BY <1>0, <1>2 DEF Dequeue, DialOk, PreFn, Swap, Join, RelayEnd, HeldSame
  <2> QED
    BY <2>1
<1>3. CASE Resolve(c) \/ DialErr(c) \/ Header(c) \/ LineFrame(c)
  <2>1. HeldSame
    BY <1>0, <1>3 DEF Resolve, DialErr, Header, LineFrame, HeldSame
  <2> QED
    BY <2>1
<1>4. CASE Branch(c)
  <2>1. HeldSame
    BY <1>0, <1>4 DEF Branch, HeldSame
  <2> QED
    BY <2>1
<1>5. CASE RelayCloseDest(c) \/ RelayCloseSrc(c) \/ CloseDest(c) \/ CloseSrc(c)
  <2>1. HeldSame
    BY <1>0, <1>5 DEF RelayCloseDest, RelayCloseSrc, CloseDest, CloseSrc, HeldSame
  <2> QED
    BY <2>1
<1> QED
  BY <1>1, <1>2, <1>3, <1>4, <1>5 DEF Tunnelled, TunnelNext, Step

\* The counter follows the set.
LEMMA WgFollows ==
  ASSUME IndInv, NEW c \in Conns, HeldSame \/ HeldAdd(c) \/ HeldDrop(c)
  PROVE  WgAccounting' /\ wg' \in Nat
<1>1. IsFiniteSet(Held) /\ Cardinality(Held) \in Nat
  BY ConnsAssumption, FS_Subset, FS_CardinalityType DEF Held
<1>2. CASE HeldSame
  BY <1>1, <1>2 DEF HeldSame, IndInv, WgAccounting
<1>3. CASE HeldAdd(c)
  <2>1. Cardinality(Held \cup {c}) = Cardinality(Held) + 1
    BY <1>1, <1>3, FS_AddElement DEF HeldAdd
  <2> QED
    BY <1>1, <1>3, <2>1 DEF HeldAdd, IndInv, WgAccounting
<1>4. CASE HeldDrop(c)
  <2>1. /\ IsFiniteSet(Held \ {c})
        /\ Cardinality(Held \ {c}) = Cardinality(Held) - 1
    BY <1>1, <1>4, FS_RemoveElement DEF HeldDrop
  <2>2. Cardinality(Held \ {c}) \in Nat
    BY <2>1, FS_CardinalityType
  <2> QED
    BY <1>4, <2>1, <2>2 DEF HeldDrop, IndInv, WgAccounting
<1> QED
  BY <1>2, <1>3, <1>4

-----------------------------------------------------------------------------
\* handleTCPConn leaves a well-formed record of how destConn is used.
LEMMA WireType_Step ==
  ASSUME TypeOK, NEW c \in Conns, Tunnelled(c)
  PROVE  wire' \in [Conns -> WireType]
<1> USE TLSAssumption DEF TypeOK, TunnelTypeOK
<1>1. wire[c] \in WireType
  OBVIOUS
<1>2. CASE Resolve(c)
  <2>1. [wire[c] EXCEPT !.target = IF mode = "client" THEN "server" ELSE "origin"] \in WireType
    BY <1>1 DEF WireType
  <2> QED
    BY <1>2, <2>1 DEF Resolve
<1>3. CASE DialOk(c)
  <2>1. [wire[c] EXCEPT !.secure = TLSEnable /\ mode = "client"] \in WireType
    BY <1>1 DEF WireType
  <2> QED
    BY <1>3, <2>1 DEF DialOk
<1>4. ASSUME NEW p \in Preambles
      PROVE  /\ Append(wire[c].sent, p) \in Seq(Preambles)
             /\ [wire[c] EXCEPT !.sent = Append(@, p)] \in WireType
  <2>1. wire[c].sent \in Seq(Preambles)
    BY <1>1 DEF WireType
  <2>2. Append(wire[c].sent, p) \in Seq(Preambles)
    BY <2>1
  <2> HIDE DEF TypeOK, TunnelTypeOK
  <2>3. ASSUME NEW s \in Seq(Preambles)
        PROVE  [wire[c] EXCEPT !.sent = s] \in WireType
    BY <1>1 DEF WireType
  <2> QED
    BY <2>2, <2>3
<1>5. CASE Header(c) \/ LineFrame(c)
  BY <1>4, <1>5 DEF Header, LineFrame, Preambles
<1>6. CASE Branch(c)
  <2>1. [wire[c] EXCEPT !.relay = "proxy"] \in WireType
    BY <1>1 DEF WireType
  <2>2. [wire[c] EXCEPT !.relay = "direct",
                        !.sent = IF HasLine(c) THEN Append(@, "line") ELSE @] \in WireType
    <3>1. wire[c].sent \in Seq(Preambles)
      BY <1>1 DEF WireType
    <3>2. (IF HasLine(c) THEN Append(wire[c].sent, "line") ELSE wire[c].sent) \in Seq(Preambles)
      BY <1>4, <3>1 DEF Preambles
    <3>3. ASSUME NEW s \in Seq(Preambles)
          PROVE  [wire[c] EXCEPT !.relay = "direct", !.sent = s] \in WireType
      BY <1>1 DEF WireType
    <3> QED
      BY <3>2, <3>3
  <2> QED
    BY <1>6, <2>1, <2>2 DEF Branch
<1>7. CASE Swap(c)
  <2>1. [wire[c] EXCEPT !.swapped = (mode = "client")] \in WireType
    BY <1>1 DEF WireType
  <2> QED
    BY <1>7, <2>1 DEF Swap
<1>8. CASE UNCHANGED wire
  BY <1>8
<1> QED
  BY <1>2, <1>3, <1>5, <1>6, <1>7, <1>8
     DEF Tunnelled, TunnelNext, Step, Dequeue, DialErr, PreFn, Join, RelayCloseDest, RelayCloseSrc,
         PostFn, CloseDest, CloseSrc, RelayEnd

\* The remaining variables keep their types; wg is WgFollows' business.
TypeButWg ==
  /\ mode \in Modes /\ pc \in [Conns -> Stages] /\ kind \in [Conns -> Kinds \cup {"none"}]
  /\ src \in [Conns -> Sockets] /\ dest \in [Conns -> Sockets] /\ wire \in [Conns -> WireType]
  /\ granted \subseteq Conns /\ tracked \subseteq Conns /\ outcome \in [Conns -> Outcomes]
  /\ command \in Modes /\ lis \in {"open", "closed", "nil"}
  /\ sig \in {"running", "waiting", "drained", "timedOut"} /\ waitDone \in BOOLEAN
  /\ proc \in {"up", "exited", "panicked"} /\ snap \subseteq Conns
  /\ closing \subseteq Conns

\* The front end keeps the types ...
LEMMA TypeFront ==
  ASSUME TypeOK, NEW c \in Conns, Front(c)
  PROVE  TypeButWg'
<1> USE DEF TypeOK, TunnelTypeOK, TypeButWg, Stages, FrontStages, TunnelStages, Sockets,
            Outcomes, Kinds, Goto, Fail
<1>1. CASE Accept(c) \/ Deny(c) \/ Admit(c)
  BY <1>1 DEF Accept, Deny, Admit
<1>2. CASE PeekErr(c) \/ HandshakeErr(c) \/ UdpEnd(c)
  BY <1>2 DEF PeekErr, HandshakeErr, FrontErr, UdpEnd
<1>3. CASE Peek(c)
  BY <1>3 DEF Peek
<1>4. CASE HandshakeOk(c) \/ UdpAssociate(c) \/ ReadFullErr(c) \/ ReadFullOk(c)
  BY <1>4 DEF HandshakeOk, UdpAssociate, ReadFullErr, ReadFullOk
<1> QED
  BY <1>1, <1>2, <1>3, <1>4 DEF Front

\* ... so does the tunnel ...
LEMMA TypeTunnel ==
  ASSUME TypeOK, NEW c \in Conns, Tunnelled(c)
  PROVE  TypeButWg'
<1>1. wire' \in [Conns -> WireType]
  BY WireType_Step
<1>2. UNCHANGED ctlVars
  BY DEF Tunnelled
<1> USE <1>1, <1>2 DEF TypeOK, TunnelTypeOK, TypeButWg, Stages, FrontStages, TunnelStages,
                       Sockets, Outcomes, Goto, Fail
<1>3. CASE Dequeue(c) \/ Resolve(c) \/ DialOk(c) \/ DialErr(c)
  BY <1>3 DEF Dequeue, Resolve, DialOk, DialErr
<1>4. CASE Header(c) \/ LineFrame(c) \/ PreFn(c)
  BY <1>4 DEF Header, LineFrame, PreFn
<1>5. CASE Branch(c) \/ Swap(c) \/ Join(c)
  BY <1>5 DEF Branch, Swap, Join
<1>6. CASE RelayEnd(c) \/ RelayCloseDest(c) \/ RelayCloseSrc(c)
  BY <1>6 DEF RelayEnd, RelayCloseDest, RelayCloseSrc, Leave, CloseWrapped
<1>7. CASE PostFn(c) \/ CloseDest(c) \/ CloseSrc(c)
  BY <1>7 DEF PostFn, CloseDest, CloseSrc
<1> QED
  BY <1>3, <1>4, <1>5, <1>6, <1>7 DEF Tunnelled, TunnelNext, Step

\* ... and everything else.
LEMMA TypeControl ==
  ASSUME TypeOK, Control
  PROVE  TypeButWg'
<1> USE DEF TypeOK, TunnelTypeOK, TypeButWg, Modes, Sockets
<1>1. CASE Signal \/ WaitReturn \/ ShutdownDrained \/ ShutdownTimeout \/ Exit
  <2>1. CASE Signal \/ WaitReturn
    BY <2>1 DEF Signal, WaitReturn
  <2>2. CASE ShutdownDrained
    BY <2>2 DEF ShutdownDrained, ShutdownReturn
  <2>3. CASE ShutdownTimeout
    BY <2>3 DEF ShutdownTimeout, ShutdownReturn
  <2>4. CASE Exit
    BY <2>4 DEF Exit
  <2> QED
    BY <1>1, <2>1, <2>2, <2>3, <2>4
<1>2. CASE CloseAllConnections \/ Reload
  BY <1>2 DEF CloseAllConnections, Reload
<1>3. ASSUME NEW c \in Conns, CloseConnection(c) \/ ApiLeave(c) \/ ApiClose(c)
      PROVE  TypeButWg'
  BY <1>3 DEF CloseConnection, ApiLeave, ApiClose, Leave, CloseWrapped
<1> QED
  BY <1>1, <1>2, <1>3 DEF Control

-----------------------------------------------------------------------------
\* One step of the process keeps the inductive invariant.
LEMMA IndInvStep ==
  ASSUME IndInv, Next
  PROVE  IndInv'
<1>1. ASSUME NEW c \in Conns, Front(c)
      PROVE  IndInv'
  <2>1. TypeButWg'
    BY <1>1, TypeFront DEF IndInv
  <2>2. StageInv'
    BY <1>1, StageFront DEF IndInv
  <2>3. RegistryFaithful'
    BY <1>1, RegistryStep
  <2>4. WgAccounting' /\ wg' \in Nat
    BY <1>1, HeldFront, WgFollows
  <2>5. ShutdownInv'
    BY <1>1 DEF IndInv, ShutdownInv, Front, Accept, Deny, Admit, PeekErr, HandshakeErr, FrontErr,
                Peek, HandshakeOk, UdpAssociate, UdpEnd, ReadFullErr, ReadFullOk
  <2> QED
    BY <2>1, <2>2, <2>3, <2>4, <2>5 DEF IndInv, TypeOK, TunnelTypeOK, TypeButWg
<1>2. ASSUME NEW c \in Conns, Tunnelled(c)
      PROVE  IndInv'
  <2>1. TypeButWg'
    BY <1>2, TypeTunnel DEF IndInv
  <2>2. StageInv'
    BY <1>2, StageTunnel DEF IndInv
  <2>3. RegistryFaithful'
    BY <1>2, RegistryStep
  <2>4. WgAccounting' /\ wg' \in Nat
    BY <1>2, HeldTunnel, WgFollows
  <2>5. ShutdownInv'
    BY <1>2 DEF IndInv, ShutdownInv, Tunnelled
  <2> QED
    BY <2>1, <2>2, <2>3, <2>4, <2>5 DEF IndInv, TypeOK, TunnelTypeOK, TypeButWg
<1>3. ASSUME Control
      PROVE  IndInv'
  <2>1. TypeButWg'
    BY <1>3, TypeControl DEF IndInv
  <2>2. StageInv'
    BY <1>3, StageControl DEF IndInv
  <2> USE <1>3 DEF Control, Signal, WaitReturn, ShutdownDrained, ShutdownTimeout, ShutdownReturn,
                   Exit, CloseAllConnections, Reload, CloseConnection, ApiLeave, ApiClose
  <2>3. RegistryFaithful'
    <3>1. CASE \E c \in Conns : ApiLeave(c) \/ ApiClose(c)
      BY <3>1, RegistryStep
    <3>2. CASE UNCHANGED <<tracked, pc, wire, src, dest, closing>>
      BY <3>2 DEF IndInv, RegistryFaithful, Wrapped
    <3> QED
      BY <3>1, <3>2
  <2>4. WgAccounting' /\ wg' \in Nat
    <3>1. UNCHANGED <<wg, pc, outcome, command>>
      OBVIOUS
    <3> QED
      BY <3>1 DEF IndInv, TypeOK, TunnelTypeOK, WgAccounting, Held, LeakingOutcomes
  <2>5. ShutdownInv'
    BY DEF IndInv, ShutdownInv
  <2> QED
    BY <2>1, <2>2, <2>3, <2>4, <2>5 DEF IndInv, TypeOK, TunnelTypeOK, TypeButWg
<1>4. CASE Terminated
  BY <1>4 DEF Terminated, vars, IndInv, TypeOK, TunnelTypeOK, StageInv, SocketInv, OutcomeInv, GrantInv,
              HasPreFn, RegistryFaithful, Wrapped, ShutdownInv, WgAccounting, Held, LeakingOutcomes
<1> QED
  BY <1>1, <1>2, <1>3, <1>4 DEF Next

\* A process that has just begun to listen satisfies the inductive invariant.
LEMMA IndInvInit == Init => IndInv
<1> SUFFICES ASSUME Init
             PROVE  IndInv
  OBVIOUS
<1>1. NoWire \in WireType
  BY DEF NoWire, WireType
<1>2. TypeOK
  BY <1>1 DEF Init, TypeOK, TunnelTypeOK, Modes, Stages, FrontStages, Sockets, Outcomes
<1>3. StageInv /\ RegistryFaithful /\ ShutdownInv
  BY DEF Init, StageInv, SocketInv, OutcomeInv, GrantInv, Undialled, Dialled, Late,
         RegistryFaithful, ShutdownInv
<1>4. Held = {}
  BY DEF Init, Held, LeakingOutcomes
<1>5. WgAccounting
  BY <1>4, FS_EmptySet DEF Init, WgAccounting
<1> QED
  BY <1>2, <1>3, <1>5 DEF IndInv

\* The inductive invariant holds in every behaviour of the process, whatever the
\* number of connections, whether or not its configuration is rewritten.
THEOREM Invariance == Spec => []IndInv
<1>1. IndInv /\ [Next]_vars => IndInv'
  <2>1. IndInv /\ UNCHANGED vars => IndInv'
    BY DEF vars, IndInv, TypeOK, TunnelTypeOK, StageInv, SocketInv, OutcomeInv, GrantInv,
           HasPreFn, RegistryFaithful, Wrapped, ShutdownInv, WgAccounting, Held, LeakingOutcomes
  <2> QED
    BY <2>1, IndInvStep
<1> QED
  BY <1>1, IndInvInit, PTL DEF Spec

\* Every variable keeps its type; in particular the counter of the WaitGroup never gets
\* negative, which would be a panic of sync.WaitGroup.
THEOREM TypeCorrect == Spec => []TypeOK
<1>1. IndInv => TypeOK
  BY DEF IndInv
<1> QED
  BY <1>1, Invariance, PTL

\* The WaitGroup counts the connections in service and the ones whose error path
\* forgets wg.Done, and no others.
THEOREM WgCounts == Spec => []WgAccounting
<1>1. IndInv => WgAccounting
  BY DEF IndInv
<1> QED
  BY <1>1, Invariance, PTL

\* The manager's registry holds exactly the relays on an open socket that no request of the
\* API has begun to close, although leaving the manager and closing the socket are two steps.
THEOREM RegistryCorrect == Spec => []RegistryFaithful
<1>1. IndInv => RegistryFaithful
  BY DEF IndInv
<1> QED
  BY <1>1, Invariance, PTL

\* No way a connection ends leaves a socket open or a tracker registered.
THEOREM NoSocketLeak == Spec => []SocketsReleased
<1>1. IndInv => SocketsReleased
  BY DEF IndInv, StageInv, SocketInv, RegistryFaithful, SocketsReleased
<1> QED
  BY <1>1, Invariance, PTL

\* The success reply of PreFn is never followed by a failure other than the relay's end.
THEOREM GrantKept == Spec => []GrantedMeansRelayed
<1>1. IndInv => GrantedMeansRelayed
  BY DEF IndInv, TypeOK, TunnelTypeOK, StageInv, GrantInv, GrantedMeansRelayed
<1> QED
  BY <1>1, Invariance, PTL

\* The nil UDP socket can only be met after ShutdownWithTimeout has returned.
THEOREM PanicLate == Spec => []PanicOnlyAfterShutdown
<1>1. IndInv => PanicOnlyAfterShutdown
  BY DEF IndInv, ShutdownInv, PanicOnlyAfterShutdown
<1> QED
  BY <1>1, Invariance, PTL

\* wg.Wait of a shutdown returns only when no admitted connection is being served.
THEOREM DrainIsIdle == Spec => DrainMeansIdle
<1> DEFINE Idle == \A c \in Conns : pc[c] \in {"new", "accepted", "closeDest", "closeSrc", "done"}
<1>1. ASSUME IndInv, [Next]_vars, ~waitDone, waitDone'
      PROVE  Idle
  <2>1. wg = 0
    BY <1>1 DEF Next, vars, Terminated, Tunnelled, Front, Accept, Deny, Admit, PeekErr, HandshakeErr,
       FrontErr, Peek, HandshakeOk, UdpAssociate, UdpEnd, ReadFullErr, ReadFullOk, Control, Signal,
       WaitReturn, ShutdownDrained, ShutdownTimeout, ShutdownReturn, Exit, CloseAllConnections,
       Reload, CloseConnection, ApiLeave, ApiClose
  <2>2. Held = {}
    <3>1. IsFiniteSet(Held) /\ Cardinality(Held) = 0
      BY <1>1, <2>1, ConnsAssumption, FS_Subset DEF IndInv, WgAccounting, Held
    <3> QED
      BY <3>1, FS_EmptySet
  <2> QED
    BY <1>1, <2>2 DEF Held, IndInv, TypeOK, TunnelTypeOK
<1>2. IndInv /\ [Next]_vars => [~waitDone /\ waitDone' => Idle]_vars
  BY <1>1
<1> QED
  BY <1>2, Invariance, PTL DEF Spec, DrainMeansIdle

-----------------------------------------------------------------------------
(* The protocol of the command *)

\* A step that leaves the goroutine of d, its kind and its wire alone leaves its place in
\* the protocol alone.
LEMMA WireSame ==
  ASSUME NEW d, WireInv(d), pc'[d] = pc[d], kind'[d] = kind[d], wire'[d] = wire[d],
         command' = command
  PROVE  WireInv(d)'
<1>1. ASSUME NEW k, NEW w, NEW p
      PROVE  WireAt(p, k, w)' <=> WireAt(p, k, w)
  <2>1. Expected(k)' = Expected(k)
    BY DEF Expected
  <2>2. Announced(k)' = Announced(k)
    BY <2>1 DEF Announced
  <2> QED
    BY <2>1, <2>2 DEF WireAt
<1> QED
  BY <1>1 DEF WireInv

\* What each command expects, field by field.
LEMMA ExpectedOf ==
  ASSUME NEW k, command \in Modes
  PROVE  LET e == Expected(k)
         IN  /\ e.target = IF command = "client" THEN "server" ELSE "origin"
             /\ e.secure = (TLSEnable /\ command = "client")
             /\ command = "client" /\ k = "http" => e.sent = <<"addrFrame", "lineFrame">>
             /\ command = "client" /\ k # "http" => e.sent = <<"addrFrame">>
             /\ command = "server" => e.sent = << >>
             /\ command = "direct" /\ k = "http" => e.sent = <<"line">>
             /\ command = "direct" /\ k # "http" => e.sent = << >>
             /\ e.relay = IF command = "direct" THEN "direct" ELSE "proxy"
             /\ e.swapped = (command = "client")
<1>1. CASE command = "client"
  BY <1>1, TLSAssumption DEF Expected
<1>2. CASE command = "server"
  BY <1>2, TLSAssumption DEF Expected
<1>3. CASE command = "direct"
  BY <1>3, TLSAssumption DEF Expected
<1> QED
  BY <1>1, <1>2, <1>3 DEF Modes

\* The preambles of a client, written one after the other.
LEMMA Preamble ==
  /\ Append(<< >>, "addrFrame") = <<"addrFrame">>
  /\ Append(<< >>, "line") = <<"line">>
  /\ Append(<<"addrFrame">>, "lineFrame") = <<"addrFrame", "lineFrame">>
<1>1. <<"addrFrame">> \in Seq({"addrFrame", "lineFrame"})
  OBVIOUS
<1>2. <<"addrFrame", "lineFrame">> \in Seq({"addrFrame", "lineFrame"})
  OBVIOUS
<1> DEFINE a == Append(<<"addrFrame">>, "lineFrame")
<1>3. a \in Seq({"addrFrame", "lineFrame"}) /\ Len(a) = 2 /\ a[1] = "addrFrame" /\ a[2] = "lineFrame"
  BY <1>1
<1>4. a = <<"addrFrame", "lineFrame">>
  <2> HIDE DEF a
  <2> QED
    BY <1>2, <1>3, SeqEqual
<1> QED
  BY <1>4

\* How the fields of the record change when one of them is assigned.
LEMMA WireFields ==
  ASSUME NEW w \in WireType, NEW x
  PROVE  /\ LET v == [w EXCEPT !.target = x]
            IN  v.target = x /\ v.secure = w.secure /\ v.sent = w.sent /\ v.relay = w.relay
                /\ v.swapped = w.swapped
         /\ LET v == [w EXCEPT !.secure = x]
            IN  v.target = w.target /\ v.secure = x /\ v.sent = w.sent /\ v.relay = w.relay
                /\ v.swapped = w.swapped
         /\ LET v == [w EXCEPT !.sent = x]
            IN  v.target = w.target /\ v.secure = w.secure /\ v.sent = x /\ v.relay = w.relay
                /\ v.swapped = w.swapped
         /\ LET v == [w EXCEPT !.relay = x]
            IN  v.target = w.target /\ v.secure = w.secure /\ v.sent = w.sent /\ v.relay = x
                /\ v.swapped = w.swapped
         /\ LET v == [w EXCEPT !.swapped = x]
            IN  v.target = w.target /\ v.secure = w.secure /\ v.sent = w.sent /\ v.relay = w.relay
                /\ v.swapped = x
BY DEF WireType

\* From one statement of handleTCPConn to the next the record keeps up with what the command
\* expects.  Statements that leave it alone need nothing of it ...
LEMMA WireIdle ==
  ASSUME command \in Modes, NEW k, NEW w, NEW p, NEW q, WireAt(p, k, w),
         <<p, q>> \in {<<"queued", "resolve">>, <<"preFn", "branch">>, <<"join", "relay">>,
                       <<"relay", "relayDest">>, <<"relayDest", "relaySrc">>}
  PROVE  WireAt(q, k, w)
BY ExpectedOf, Preamble
   DEF WireAt, Modes, Announced, FrontStages, Unresolved, Unsecured, Silent, Unchosen, Chosen

\* ... the first read of the mode names the peer ...
LEMMA WireResolve ==
  ASSUME command \in Modes, NEW k, NEW w, NEW v, WireAt("resolve", k, w),
         v.target = (IF command = "client" THEN "server" ELSE "origin"),
         v.secure = w.secure, v.sent = w.sent, v.relay = w.relay, v.swapped = w.swapped
  PROVE  WireAt("dial", k, v)
BY ExpectedOf, Preamble
   DEF WireAt, Modes, Announced, FrontStages, Unresolved, Unsecured, Silent, Unchosen, Chosen

\* ... the second its transport ...
LEMMA WireDial ==
  ASSUME command \in Modes, NEW k, NEW w, NEW v, WireAt("dial", k, w),
         v.secure = (TLSEnable /\ command = "client"),
         v.target = w.target, v.sent = w.sent, v.relay = w.relay, v.swapped = w.swapped
  PROVE  WireAt("header", k, v)
BY ExpectedOf, Preamble
   DEF WireAt, Modes, Announced, FrontStages, Unresolved, Unsecured, Silent, Unchosen, Chosen

\* ... the third whether anything is announced ...
LEMMA WireNoHeader ==
  ASSUME command \in Modes, NEW k, NEW w, command # "client", WireAt("header", k, w)
  PROVE  WireAt("preFn", k, w)
BY ExpectedOf, Preamble
   DEF WireAt, Modes, Announced, FrontStages, Unresolved, Unsecured, Silent, Unchosen, Chosen

\* ... which is the target address ...
LEMMA WireHeader ==
  ASSUME command \in Modes, NEW k, NEW w, NEW v, command = "client", WireAt("header", k, w),
         v.sent = Append(w.sent, "addrFrame"),
         v.target = w.target, v.secure = w.secure, v.relay = w.relay, v.swapped = w.swapped
  PROVE  WireAt(IF k = "http" THEN "lineFrame" ELSE "preFn", k, v)
<1> USE ExpectedOf, Preamble
    DEF WireAt, Modes, Announced, FrontStages, Unresolved, Unsecured, Silent, Unchosen, Chosen
<1>1. CASE k = "http"
  BY <1>1, ZenonT(30)
<1>2. CASE k # "http"
  BY <1>2, SMTT(30)
<1> QED
  BY ONLY <1>1, <1>2

\* ... and the HTTP request after it ...
LEMMA WireLine ==
  ASSUME command \in Modes, NEW k, NEW w, NEW v, WireAt("lineFrame", k, w),
         v.sent = Append(w.sent, "lineFrame"),
         v.target = w.target, v.secure = w.secure, v.relay = w.relay, v.swapped = w.swapped
  PROVE  WireAt("preFn", k, v)
BY ExpectedOf, Preamble
   DEF WireAt, Modes, Announced, FrontStages, Unresolved, Unsecured, Silent, Unchosen, Chosen

\* ... the fourth read picks the framed relay ...
LEMMA WireProxy ==
  ASSUME command \in Modes, NEW k, NEW w, NEW v, command # "direct", WireAt("branch", k, w), v.relay = "proxy",
         v.target = w.target, v.secure = w.secure, v.sent = w.sent, v.swapped = w.swapped
  PROVE  WireAt("swap", k, v)
BY ExpectedOf, Preamble
   DEF WireAt, Modes, Announced, FrontStages, Unresolved, Unsecured, Silent, Unchosen, Chosen

\* ... or the raw one, which a bare HTTP request precedes ...
LEMMA WireDirect ==
  ASSUME command \in Modes, NEW k, NEW w, NEW v, command = "direct", WireAt("branch", k, w), v.relay = "direct",
         v.sent = (IF k = "http" THEN Append(w.sent, "line") ELSE w.sent),
         v.target = w.target, v.secure = w.secure, v.swapped = w.swapped
  PROVE  WireAt("join", k, v)
<1> USE ExpectedOf, Preamble
    DEF WireAt, Modes, Announced, FrontStages, Unresolved, Unsecured, Silent, Unchosen, Chosen
<1>1. w.sent = << >>
  OBVIOUS
<1>2. v.sent = Expected(k).sent
  BY <1>1
<1>3. v.target = Expected(k).target /\ v.secure = Expected(k).secure
  OBVIOUS
<1>4. v.relay = Expected(k).relay
  OBVIOUS
<1>5. v.swapped = Expected(k).swapped
  BY ONLY WireAt("branch", k, w), command = "direct", v.swapped = w.swapped
     DEF Expected, WireAt, FrontStages, Unresolved, Unsecured, Silent, Unchosen, Chosen
<1> QED
  BY ONLY <1>2, <1>3, <1>4, <1>5, command = "direct"
     DEF WireAt, FrontStages, Unresolved, Unsecured, Silent, Unchosen, Chosen

\* ... and the fifth which end is framed.
LEMMA WireSwap ==
  ASSUME command \in Modes, NEW k, NEW w, NEW v, WireAt("swap", k, w), v.swapped = (command = "client"),
         v.target = w.target, v.secure = w.secure, v.sent = w.sent, v.relay = w.relay
  PROVE  WireAt("join", k, v)
BY ExpectedOf, Preamble
   DEF WireAt, Modes, Announced, FrontStages, Unresolved, Unsecured, Silent, Unchosen, Chosen

\* Neither the listener's goroutines ...
LEMMA WireFront ==
  ASSUME TypeOK, NEW c \in Conns, Front(c), NEW d \in Conns, WireInv(d)
  PROVE  WireInv(d)'
<1> USE DEF TypeOK, TunnelTypeOK, Goto, Fail
<1>0. command' = command /\ wire' = wire
  BY DEF Front, Accept, Deny, Admit, PeekErr, FrontErr, Peek, HandshakeErr, HandshakeOk,
         UdpAssociate, UdpEnd, ReadFullErr, ReadFullOk
<1>1. CASE d # c
  <2>1. pc'[d] = pc[d] /\ kind'[d] = kind[d]
    BY <1>1 DEF Front, Accept, Deny, Admit, PeekErr, FrontErr, Peek, HandshakeErr, HandshakeOk,
         UdpAssociate, UdpEnd, ReadFullErr, ReadFullOk
  <2> QED
    BY <1>0, <2>1, WireSame
<1>2. CASE d = c
  <2>1. \/ pc[c] \in FrontStages /\ pc'[c] \in FrontStages \cup {"closeSrc", "done"}
        \/ pc'[c] = pc[c] /\ kind'[c] = kind[c]
    BY DEF Front, Accept, Deny, Admit, PeekErr, FrontErr, Peek, HandshakeErr, HandshakeOk,
         UdpAssociate, UdpEnd, ReadFullErr, ReadFullOk, FrontStages
  <2>2. CASE pc[c] \in FrontStages /\ pc'[c] \in FrontStages \cup {"closeSrc", "done"}
    BY <1>0, <1>2, <2>2 DEF WireInv, WireAt, FrontStages, Unresolved, Unsecured, Silent, Unchosen, Chosen
  <2>3. CASE pc'[c] = pc[c] /\ kind'[c] = kind[c]
    BY <1>0, <1>2, <2>3, WireSame
  <2> QED
    BY <2>1, <2>2, <2>3
<1> QED
  BY <1>1, <1>2

\* ... nor the statements of handleTCPConn leave the protocol, as long as they all read the
\* command's mode.
LEMMA WireTunnel ==
  ASSUME TypeOK, mode = command, NEW c \in Conns, Tunnelled(c), NEW d \in Conns, WireInv(d)
  PROVE  WireInv(d)'
<1>0. command' = command /\ kind' = kind
  BY DEF Tunnelled, TunnelNext, Step, Dequeue, Resolve, DialOk, DialErr, Header, LineFrame, PreFn,
         Branch, Swap, Join, RelayCloseDest, RelayCloseSrc, PostFn, CloseDest, CloseSrc, RelayEnd
<1>1. CASE d # c
  <2>1. pc'[d] = pc[d] /\ wire'[d] = wire[d]
    BY <1>1 DEF TypeOK, TunnelTypeOK, Goto, Fail, Tunnelled, TunnelNext, Step, Dequeue, Resolve,
         DialOk, DialErr, Header, LineFrame, PreFn, Branch, Swap, Join, RelayCloseDest, RelayCloseSrc, PostFn,
         CloseDest, CloseSrc, RelayEnd
  <2> QED
    BY <1>0, <2>1, WireSame
<1>2. CASE d = c
  <2> DEFINE k == kind[c]
             w == wire[c]
             v == wire'[c]
             p == pc'[c]
  <2>0. /\ w \in WireType /\ command \in Modes /\ pc \in [Conns -> Stages]
        /\ wire \in [Conns -> WireType] /\ WireAt(pc[c], k, w)
    BY <1>2 DEF TypeOK, TunnelTypeOK, WireInv
  <2>1. SUFFICES WireAt(p, k, v)
    <3>1. ASSUME NEW q, NEW j, NEW u
          PROVE  WireAt(q, j, u)' <=> WireAt(q, j, u)
      <4>1. Expected(j)' = Expected(j)
        BY <1>0 DEF Expected
      <4>2. Announced(j)' = Announced(j)
        BY <1>0, <4>1 DEF Announced
      <4> QED
        BY <1>0, <4>1, <4>2 DEF WireAt
    <3> QED
      BY <1>0, <1>2, <3>1 DEF WireInv
  <2>2. ASSUME p \in {"post", "closeDest", "closeSrc", "done"}
        PROVE  WireAt(p, k, v)
    BY <2>2 DEF WireAt, FrontStages, Unresolved, Unsecured, Silent, Unchosen, Chosen
  <2>3. CASE Dequeue(c) \/ DialErr(c) \/ PreFn(c) \/ Join(c)
    <3>1. /\ v = w
          /\ \/ pc[c] = "queued" /\ p = "resolve"
             \/ pc[c] = "preFn" /\ p = "branch"
             \/ pc[c] = "join" /\ p = "relay"
             \/ p = "closeSrc"
      BY <2>0, <2>3 DEF Goto, Fail, Dequeue, DialErr, PreFn, Join
    <3> QED
      BY <2>0, <2>2, <3>1, WireIdle
  <2>4. CASE \/ RelayEnd(c) \/ RelayCloseDest(c) \/ RelayCloseSrc(c)
             \/ PostFn(c) \/ CloseDest(c) \/ CloseSrc(c)
    <3>1. /\ v = w
          /\ \/ pc[c] = "relay" /\ p = "relayDest"
             \/ pc[c] = "relayDest" /\ p = "relaySrc"
             \/ p \in {"post", "closeDest", "closeSrc", "done"}
      BY <2>0, <2>4 DEF Goto, RelayEnd, RelayCloseDest, RelayCloseSrc, PostFn, CloseDest, CloseSrc
    <3> QED
      BY <2>0, <2>2, <3>1, WireIdle
  <2>5. CASE Resolve(c)
    <3> DEFINE t == IF command = "client" THEN "server" ELSE "origin"
    <3>1. pc[c] = "resolve" /\ (p = "dial" \/ p = "closeSrc")
      BY <2>0, <2>5 DEF Goto, Fail, Resolve
    <3>2. v = [w EXCEPT !.target = t]
      BY <2>0, <2>5 DEF Resolve
    <3>3. /\ v.target = t /\ v.secure = w.secure /\ v.sent = w.sent /\ v.relay = w.relay
          /\ v.swapped = w.swapped
      BY <2>0, <3>2, WireFields
    <3>4. WireAt("resolve", k, w)
      BY <2>0, <3>1
    <3>5. WireAt("dial", k, v)
      BY ONLY <2>0, <3>3, <3>4, WireResolve
    <3> QED
      BY <2>2, <3>1, <3>5
  <2>6. CASE DialOk(c)
    <3> DEFINE t == TLSEnable /\ command = "client"
    <3>1. pc[c] = "dial" /\ p = "header"
      BY <2>0, <2>6 DEF Goto, DialOk
    <3>2. v = [w EXCEPT !.secure = t]
      BY <2>0, <2>6 DEF DialOk
    <3>3. /\ v.target = w.target /\ v.secure = t /\ v.sent = w.sent /\ v.relay = w.relay
          /\ v.swapped = w.swapped
      BY <2>0, <3>2, WireFields
    <3>4. WireAt("dial", k, w)
      BY <2>0, <3>1
    <3>5. WireAt("header", k, v)
      BY ONLY <2>0, <3>3, <3>4, WireDial
    <3> QED
      BY <3>1, <3>5
  <2>7. CASE Header(c)
    <3>1. CASE command # "client"
      BY <2>0, <2>7, <3>1, WireNoHeader DEF Goto, Header
    <3>2. CASE command = "client" /\ p = "closeDest"
      BY <2>2, <3>2
    <3>3. CASE command = "client" /\ p # "closeDest"
      <4> DEFINE t == Append(w.sent, "addrFrame")
      <4>1. pc[c] = "header" /\ p = IF k = "http" THEN "lineFrame" ELSE "preFn"
        BY <2>0, <2>7, <3>3 DEF Goto, Fail, Header, HasLine
      <4>2. v = [w EXCEPT !.sent = t]
        BY <2>0, <2>7, <3>3 DEF Goto, Fail, Header
      <4>3. /\ v.target = w.target /\ v.secure = w.secure /\ v.sent = t /\ v.relay = w.relay
            /\ v.swapped = w.swapped
        BY <2>0, <4>2, WireFields
      <4>4. WireAt("header", k, w)
        BY <2>0, <4>1
      <4>5. WireAt(IF k = "http" THEN "lineFrame" ELSE "preFn", k, v)
        BY ONLY <2>0, <3>3, <4>3, <4>4, WireHeader
      <4> QED
        BY <4>1, <4>5
    <3> QED
      BY <3>1, <3>2, <3>3
  <2>8. CASE LineFrame(c)
    <3>1. CASE p = "closeDest"
      BY <2>2, <3>1
    <3>2. CASE p # "closeDest"
      <4> DEFINE t == Append(w.sent, "lineFrame")
      <4>1. pc[c] = "lineFrame" /\ p = "preFn"
        BY <2>0, <2>8, <3>2 DEF Goto, Fail, LineFrame
      <4>2. v = [w EXCEPT !.sent = t]
        BY <2>0, <2>8, <3>2 DEF Goto, Fail, LineFrame
      <4>3. /\ v.target = w.target /\ v.secure = w.secure /\ v.sent = t /\ v.relay = w.relay
            /\ v.swapped = w.swapped
        BY <2>0, <4>2, WireFields
      <4>4. WireAt("lineFrame", k, w)
        BY <2>0, <4>1
      <4>5. WireAt("preFn", k, v)
        BY ONLY <2>0, <4>3, <4>4, WireLine
      <4> QED
        BY <4>1, <4>5
    <3> QED
      BY <3>1, <3>2
  <2>9. CASE Branch(c)
    <3>1. CASE command # "direct"
      <4>1. pc[c] = "branch" /\ p = "swap"
        BY <2>0, <2>9, <3>1 DEF Goto, Branch
      <4>2. v = [w EXCEPT !.relay = "proxy"]
        BY <2>0, <2>9, <3>1 DEF Branch
      <4>3. /\ v.target = w.target /\ v.secure = w.secure /\ v.sent = w.sent /\ v.relay = "proxy"
            /\ v.swapped = w.swapped
        BY <2>0, <4>2, WireFields
      <4>4. WireAt("branch", k, w)
        BY <2>0, <4>1
      <4>5. WireAt("swap", k, v)
        BY ONLY <2>0, <3>1, <4>3, <4>4, WireProxy
      <4> QED
        BY <4>1, <4>5
    <3>2. CASE command = "direct" /\ p = "post"
      BY <2>2, <3>2
    <3>3. CASE command = "direct" /\ p # "post"
      <4> DEFINE t == IF k = "http" THEN Append(w.sent, "line") ELSE w.sent
      <4>1. pc[c] = "branch" /\ p = "join"
        BY <2>0, <2>9, <3>3 DEF Goto, Fail, Branch
      <4>2. v = [w EXCEPT !.relay = "direct", !.sent = t]
        BY <2>0, <2>9, <3>3 DEF Goto, Fail, Branch, HasLine
      <4>3. /\ v.target = w.target /\ v.secure = w.secure /\ v.sent = t /\ v.relay = "direct"
            /\ v.swapped = w.swapped
        <5> HIDE DEF t
        <5> QED
          BY <2>0, <4>2 DEF WireType
      <4>4. WireAt("branch", k, w)
        BY <2>0, <4>1
      <4>5. WireAt("join", k, v)
        BY ONLY <2>0, <3>3, <4>3, <4>4, WireDirect
      <4> QED
        BY <4>1, <4>5
    <3> QED
      BY <3>1, <3>2, <3>3
  <2>10. CASE Swap(c)
    <3> DEFINE t == command = "client"
    <3>1. pc[c] = "swap" /\ p = "join"
      BY <2>0, <2>10 DEF Goto, Swap
    <3>2. v = [w EXCEPT !.swapped = t]
      BY <2>0, <2>10 DEF Swap
    <3>3. /\ v.target = w.target /\ v.secure = w.secure /\ v.sent = w.sent /\ v.relay = w.relay
          /\ v.swapped = t
      BY <2>0, <3>2, WireFields
    <3>4. WireAt("swap", k, w)
      BY <2>0, <3>1
    <3>5. WireAt("join", k, v)
      BY ONLY <2>0, <3>3, <3>4, WireSwap
    <3> QED
      BY <3>1, <3>5
  <2> QED
    BY <2>3, <2>4, <2>5, <2>6, <2>7, <2>8, <2>9, <2>10 DEF Tunnelled, TunnelNext, Step
<1> QED
  BY <1>1, <1>2

\* The five reads of the mode agree with the command: unless a reload can change the mode
\* of the process, every connection that is relayed speaks the protocol of the command.
THEOREM ProtocolSpoken == Spec => [](ModeFixed => SpeaksCommandProtocol)
<1>1. Init => ProtocolInv
  BY DEF Init, ProtocolInv, WireInv, WireAt, NoWire, FrontStages, Unresolved, Unsecured, Silent,
         Unchosen, Chosen
<1>2. TypeOK /\ ProtocolInv /\ [Next]_vars => ProtocolInv'
  <2> SUFFICES ASSUME TypeOK, ProtocolInv, [Next]_vars, ModeFixed'
               PROVE  mode' = command' /\ \A d \in Conns : WireInv(d)'
    BY DEF ProtocolInv
  <2>1. command' = command
    BY DEF Next, vars, Terminated, Tunnelled, Front, Accept, Deny, Admit, PeekErr, HandshakeErr,
       FrontErr, Peek, HandshakeOk, UdpAssociate, UdpEnd, ReadFullErr, ReadFullOk, Control, Signal,
       WaitReturn, ShutdownDrained, ShutdownTimeout, ShutdownReturn, Exit, CloseAllConnections,
       Reload, CloseConnection, ApiLeave, ApiClose
  <2>2. mode = command /\ \A d \in Conns : WireInv(d)
    BY <2>1 DEF ModeFixed, ProtocolInv
  <2>3. ASSUME NEW c \in Conns, Front(c)
        PROVE  mode' = command' /\ \A d \in Conns : WireInv(d)'
    <3>1. mode' = mode
      BY <2>3 DEF Front, Accept, Deny, Admit, PeekErr, FrontErr, Peek, HandshakeErr, HandshakeOk,
         UdpAssociate, UdpEnd, ReadFullErr, ReadFullOk
    <3> QED
      BY <2>1, <2>2, <2>3, <3>1, WireFront
  <2>4. ASSUME NEW c \in Conns, Tunnelled(c)
        PROVE  mode' = command' /\ \A d \in Conns : WireInv(d)'
    <3>1. mode' = mode
      BY <2>4 DEF Tunnelled, TunnelNext, Step, Dequeue, Resolve, DialOk, DialErr, Header, LineFrame,
         PreFn, Branch, Swap, Join, RelayCloseDest, RelayCloseSrc, PostFn, CloseDest, CloseSrc, RelayEnd
    <3> QED
      BY <2>1, <2>2, <2>4, <3>1, WireTunnel
  <2>5. CASE Control \/ Terminated \/ UNCHANGED vars
    <3>1. UNCHANGED <<pc, kind, wire>>
      BY <2>5 DEF vars, Terminated, Control, Signal, WaitReturn, ShutdownDrained, ShutdownTimeout,
         ShutdownReturn, Exit, CloseAllConnections, Reload, CloseConnection, ApiLeave, ApiClose
    <3>2. mode' = mode \/ (Reloads /\ mode' = "direct")
      BY <2>5 DEF vars, Terminated, Control, Signal, WaitReturn, ShutdownDrained, ShutdownTimeout,
         ShutdownReturn, Exit, CloseAllConnections, Reload, CloseConnection, ApiLeave, ApiClose
    <3> QED
      BY <2>1, <2>2, <3>1, <3>2, WireSame DEF ModeFixed
  <2> QED
    BY <2>3, <2>4, <2>5 DEF Next
<1>3. TypeOK /\ ProtocolInv => (ModeFixed => SpeaksCommandProtocol)
  <2> SUFFICES ASSUME TypeOK, ProtocolInv, ModeFixed, NEW c \in Conns,
                      pc[c] \in {"relay", "relayDest", "relaySrc"}
               PROVE  wire[c] = Expected(kind[c])
    BY DEF SpeaksCommandProtocol
  <2> DEFINE w == wire[c]
             e == Expected(kind[c])
  <2>1. w \in WireType /\ command \in Modes
    BY DEF TypeOK, TunnelTypeOK
  <2>2. /\ w.target = e.target /\ w.secure = e.secure /\ w.sent = e.sent /\ w.relay = e.relay
        /\ w.swapped = e.swapped
    BY DEF ProtocolInv, WireInv, WireAt, FrontStages, Unresolved, Unsecured, Silent, Unchosen, Chosen
  <2>3. w = [target |-> w.target, secure |-> w.secure, sent |-> w.sent, relay |-> w.relay,
             swapped |-> w.swapped]
    BY <2>1 DEF WireType
  <2>4. e = [target |-> e.target, secure |-> e.secure, sent |-> e.sent, relay |-> e.relay,
             swapped |-> e.swapped]
    BY <2>1 DEF Expected, Modes
  <2> QED
    BY ONLY <2>2, <2>3, <2>4
<1> QED
  BY <1>1, <1>2, <1>3, TypeCorrect, PTL DEF Spec
=============================================================================
