-------------------------------- MODULE Auth --------------------------------
(***************************************************************************)
(* internal/auth: who may use the proxy.  A user is a record of            *)
(* conf.App.Users; an entry of a CIDR list is the set of addresses it      *)
(* matches, {} when it is neither an address nor a network.                *)
(*                                                                         *)
(* Every operator stands for one read of conf.App, which may have been     *)
(* replaced since the read before.                                         *)
(***************************************************************************)
EXTENDS Integers, Sequences, FiniteSetsExt

CONSTANT Nil   \* nil: no users configured, no list of networks

\* verifyCIDR
verifyCIDR(addr, cidr) == \E i \in DOMAIN cidr : addr \in cidr[i]

\* VerifyIP: an empty list lets everybody in.
VerifyIP(addr, cidr) == cidr = << >> \/ verifyCIDR(addr, cidr)

\* Auth.Enable
Enable(users) == users # Nil

\* Auth.Verify: nobody is known without users; the last user of the name decides, and an
\* empty password is not compared.
Verify(users, name, pass, addr) ==
  /\ Enable(users)
  /\ LET same == {i \in DOMAIN users : users[i].name = name}
         res  == users[Max(same)]
     IN  /\ same # {}
         /\ pass = << >> \/ pass = res.pass
         /\ res.cidr = Nil \/ verifyCIDR(addr, res.cidr)
=============================================================================
