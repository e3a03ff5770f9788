------------------------------ MODULE LookupIP ------------------------------
(***************************************************************************)
(* Resolver.LookupIP and ResolveIP of internal/dns, as a tunnel reaches    *)
(* them through internal/resolver: one call of lookupIP for the A record,  *)
(* and a goroutine that makes one for the AAAA record and hands it over on *)
(* a channel with room for one.  lookupIP ignores its context, so that the *)
(* deferred cancel of LookupIP changes nothing.                            *)
(*                                                                         *)
(* What Exchange does inside is in DnsResolver; here a call of it returns, *)
(* as CallsReturn promises, one of the results that DnsResolver allows.    *)
(* A behaviour has calls of ExchangeContext in full (host = "none") or a   *)
(* LookupIP.                                                               *)
(***************************************************************************)
EXTENDS DnsResolver

VARIABLES
  host,    \* a name, the text of an address, or "none"
  main,    \* LookupIP
  six,     \* its goroutine
  ch,      \* the channel: whether it holds addresses
  found,   \* found[t]: what lookupIP returned, by the kind of the record
  given    \* what LookupIP returned

lookupVars == <<host, main, six, ch, found, given>>
dnsVars    == <<allVars, lookupVars>>
Lookups    == {"A", "AAAA"}

LookupInit ==
  /\ ResolverInit
  /\ host \in {"none", "name", "v4", "v6"}
  /\ main = (IF host = "none" THEN "done" ELSE "start")
  /\ six = "none"
  /\ ch = "empty"
  /\ found = [t \in Lookups |-> "none"]
  /\ given = "none"

-----------------------------------------------------------------------------
(* lookupIP *)

\* What lookupIP may return: for the text of an address that address, if it is of the
\* version asked for; for a name its addresses when Exchange has an answer and no error,
\* and an error when Exchange has one or when the answer holds no address.
lookupIP(t, r) ==
  \/ host = "v4" /\ r = IF t = "A" THEN "ips" ELSE "error"
  \/ host = "v6" /\ r = IF t = "AAAA" THEN "ips" ELSE "error"
  \/ host = "name"

-----------------------------------------------------------------------------
(* LookupIP *)

\* The goroutine is started.
Spawn ==
  /\ main = "start"
  /\ main' = "lookup"
  /\ six' = "lookup"
  /\ UNCHANGED <<allVars, host, ch, found, given>>

\* The A record is the result, or else the channel is.
MainReturns(r) ==
  /\ main = "lookup"
  /\ lookupIP("A", r)
  /\ found' = [found EXCEPT !["A"] = r]
  /\ main' = IF r = "ips" THEN "done" ELSE "receive"
  /\ given' = IF r = "ips" THEN "v4" ELSE given
  /\ UNCHANGED <<allVars, host, six, ch>>

SixReturns(r) ==
  /\ six = "lookup"
  /\ lookupIP("AAAA", r)
  /\ found' = [found EXCEPT !["AAAA"] = r]
  /\ six' = IF r = "ips" THEN "send" ELSE "close"
  /\ UNCHANGED <<allVars, host, main, ch, given>>

\* Fault: a channel without a buffer.
Send_Unbuffered ==
  /\ six = "send"
  /\ main = "receive"
  /\ six' = "close"
  /\ ch' = "ips"
  /\ UNCHANGED <<allVars, host, main, found, given>>

Send ==
  /\ six = "send"
  /\ ch = "empty"
  /\ six' = "close"
  /\ ch' = "ips"
  /\ UNCHANGED <<allVars, host, main, found, given>>

\* The deferred close.
CloseCh ==
  /\ six = "close"
  /\ six' = "ended"
  /\ UNCHANGED <<allVars, host, main, ch, found, given>>

\* Fault: LookupIP looks into the channel and does not wait.
Receive_NoWait ==
  /\ main = "receive"
  /\ main' = "done"
  /\ given' = IF ch = "ips" THEN "v6" ELSE "error"
  /\ UNCHANGED <<allVars, host, six, ch, found>>

\* LookupIP waits for addresses or for the close.
Receive ==
  /\ main = "receive"
  /\ ch = "ips" \/ six = "ended"
  /\ main' = "done"
  /\ given' = IF ch = "ips" THEN "v6" ELSE "error"
  /\ UNCHANGED <<allVars, host, six, ch, found>>

LookupStep ==
  \/ Spawn
  \/ \E r \in {"ips", "error"} : MainReturns(r) \/ SixReturns(r)
  \/ Send \/ CloseCh \/ Receive

-----------------------------------------------------------------------------
(* The specification *)

LookupNext ==
  \/ LookupStep
  \/ host = "none" /\ ResolverNext /\ UNCHANGED lookupVars
  \/ host # "none" /\ main = "done" /\ six = "ended" /\ UNCHANGED dnsVars

LookupSpec == LookupInit /\ [][LookupNext]_dnsVars

\* As in DnsResolver; and the two goroutines of LookupIP run.
LookupFairSpec ==
  /\ LookupSpec
  /\ WF_dnsVars(Runs /\ UNCHANGED lookupVars)
  /\ WF_dnsVars(LookupStep)

-----------------------------------------------------------------------------
(* Properties *)

\* Types, those of the resolver included.
LookupTypeOK ==
  /\ ResolverTypeOK
  /\ host \in {"none", "name", "v4", "v6"}
  /\ main \in {"start", "lookup", "receive", "done"}
  /\ six \in {"none", "lookup", "send", "close", "ended"}
  /\ ch \in {"empty", "ips"}
  /\ found \in [Lookups -> {"none", "ips", "error"}]
  /\ given \in {"none", "v4", "v6", "error"}

\* resolver.go 34 "priority return TypeA": whichever lookup is first, LookupIP returns the
\* A records when there are any, the AAAA records only when the A lookup has failed, and
\* an error only when both have.
PrefersA ==
  given # "none" =>
    \/ found["A"] = "ips" /\ given = "v4"
    \/ found["A"] = "error" /\ found["AAAA"] = "ips" /\ given = "v6"
    \/ found["A"] = "error" /\ found["AAAA"] = "error" /\ given = "error"

\* resolver.go 35-61, 112-136: every call that is made returns, every goroutine that
\* renews an answer ends, and so do LookupIP and its goroutine, whatever the servers do
\* and whichever lookup is first.
LookupsReturn ==
  /\ CallsReturn
  /\ <>[](main = "done" /\ six \in {"none", "ended"})

-----------------------------------------------------------------------------
(* The inductive invariant behind PrefersA *)

\* Where LookupIP and its goroutine are says what the two lookups have returned and
\* whether the channel holds addresses.
HandOver ==
  /\ main = "start" => six = "none"
  /\ main \in {"start", "lookup"} => found["A"] = "none" /\ given = "none"
  /\ main = "receive" => found["A"] = "error" /\ given = "none"
  /\ main = "done" /\ given = "v4" => found["A"] = "ips"
  /\ main = "done" /\ given \in {"v6", "error"} => found["A"] = "error"
  /\ given = "v6" => ch = "ips"
  /\ given = "error" => ch = "empty" /\ six = "ended"
  /\ six \in {"none", "lookup"} => found["AAAA"] = "none" /\ ch = "empty"
  /\ six = "send" => found["AAAA"] = "ips" /\ ch = "empty"
  /\ six \in {"close", "ended"} => found["AAAA"] = IF ch = "ips" THEN "ips" ELSE "error"

LookupInv == LookupTypeOK /\ ResolverInv /\ HandOver
=============================================================================
