-------------------------------- MODULE Pipe --------------------------------
(***************************************************************************)
(* What a proxied connection promises to its two ends, per direction: the  *)
(* receiver gets the bytes of the sender, in order, each of them once and  *)
(* unchanged.  The connection may end anywhere; it then delivers nothing   *)
(* further, which is stuttering here.                                      *)
(***************************************************************************)
EXTENDS Integers, Sequences

CONSTANTS
  Dirs,            \* the two directions
  Bytes            \* what can be sent

VARIABLES
  sent,            \* sent[d]: what the sender of direction d has written
  got              \* got[d]: what its receiver has read

pipeVars == <<sent, got>>

PipeInit ==
  /\ sent = [d \in Dirs |-> << >>]
  /\ got  = [d \in Dirs |-> << >>]

Send(d) ==
  /\ \E v \in Bytes : sent' = [sent EXCEPT ![d] = Append(@, v)]
  /\ UNCHANGED got

Deliver(d) ==
  /\ Len(got[d]) < Len(sent[d])
  /\ got' = [got EXCEPT ![d] = Append(@, sent[d][Len(@) + 1])]
  /\ UNCHANGED sent

PipeNext == \E d \in Dirs : Send(d) \/ Deliver(d)

PipeSpec == PipeInit /\ [][PipeNext]_pipeVars
=============================================================================
