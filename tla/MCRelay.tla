------------------------------- MODULE MCRelay -------------------------------
(***************************************************************************)
(* Relay for TLC.                                                          *)
(***************************************************************************)
EXTENDS Relay

Setup(h, down, up, r) ==
  [hops |-> h, max |-> [d \in Dirs |-> IF d = "down" THEN down ELSE up], readers |-> r]

\* Both directions busy through a client and a server, and through one relay.
MCBusy == {Setup(2, 2, 1, FALSE), Setup(1, 3, 2, FALSE)}

\* One relay whose peers may stop reading.  Peers that read: both of them send at once as
\* much as all buffers of a relay hold, or a frame each through a client and a server, which
\* does not fit into the link; one of them sends two frames through both.
MCLive == { Setup(1, 2, 1, FALSE), Setup(1, 3, 3, TRUE), Setup(2, 1, 1, TRUE), Setup(2, 2, 0, TRUE) }
=============================================================================
