------------------------------- MODULE Picker -------------------------------
(***************************************************************************)
(* internal/picker, and the DNS clients of internal/dns that run in it:    *)
(* one question sent to every name server at once, the first good answer   *)
(* wins and cancels the rest.                                              *)
(*                                                                         *)
(* A group is one call of batchExchange.  Its task for server s is         *)
(* client.ExchangeContext inside picker.Go: it dials, starts a goroutine   *)
(* that talks to the server, and selects between that goroutine's channel  *)
(* and the context.  The goroutine may outlive the task.                   *)
(***************************************************************************)
EXTENDS Naturals, FiniteSets

CONSTANTS
  Groups,   \* calls of batchExchange
  Servers,  \* the configured name servers, Resolver.main
  Nil

ASSUME ServersAssumption == IsFiniteSet(Servers) /\ Nil \notin Servers

VARIABLES
  ctx,     \* ctx[g]: the context handed to batchExchange by its caller
  stop,    \* stop[g]: why the group's own context is done, if it is
  task,    \* task[g][s]: the goroutine of picker.Go for server s
  peer,    \* peer[g][s]: the goroutine that talks to s is busy, or has put a
           \* good or a bad result into its channel
  result   \* result[g]: Picker.result, the server whose answer won

pickerVars == <<ctx, stop, task, peer, result>>

\* A task ends "ok", "failed" (no address, no connection, no answer, or an
\* answer SERVFAIL or REFUSED) or "cancelled" (ctx.Done).
Ended == {"ok", "failed", "cancelled"}

\* The types of this module's variables.
PickerTypeOK ==
  /\ ctx    \in [Groups -> {"live", "cancelled"}]
  /\ stop   \in [Groups -> {"no", "timeout", "won"}]
  /\ task   \in [Groups -> [Servers -> {"none", "dial", "select"} \cup Ended]]
  /\ peer   \in [Groups -> [Servers -> {"none", "busy", "good", "bad"}]]
  /\ result \in [Groups -> Servers \cup {Nil}]

PickerInit ==
  /\ ctx    = [g \in Groups |-> "live"]
  /\ stop   = [g \in Groups |-> "no"]
  /\ task   = [g \in Groups |-> [s \in Servers |-> "none"]]
  /\ peer   = [g \in Groups |-> [s \in Servers |-> "none"]]
  /\ result = [g \in Groups |-> Nil]

-----------------------------------------------------------------------------

CtxDone(g) == ctx[g] = "cancelled" \/ stop[g] # "no"

\* batchExchange: WithTimeout, WithContext, and one Go per server.
Go(g) ==
  /\ task' = [task EXCEPT ![g] = [s \in Servers |-> "dial"]]
  /\ UNCHANGED <<ctx, stop, peer, result>>

\* The host is not an address, or DialContext fails by itself.
DialFails(g, s) ==
  /\ task[g][s] = "dial"
  /\ task' = [task EXCEPT ![g][s] = "failed"]
  /\ UNCHANGED <<ctx, stop, peer, result>>

\* DialContext on a context that is done.
DialCancelled(g, s) ==
  /\ task[g][s] = "dial"
  /\ CtxDone(g)
  /\ task' = [task EXCEPT ![g][s] = "cancelled"]
  /\ UNCHANGED <<ctx, stop, peer, result>>

\* Connected: the goroutine is started, the task waits in select.
DialOk(g, s) ==
  /\ task[g][s] = "dial"
  /\ ~CtxDone(g)
  /\ task' = [task EXCEPT ![g][s] = "select"]
  /\ peer' = [peer EXCEPT ![g][s] = "busy"]
  /\ UNCHANGED <<ctx, stop, result>>

\* Fault: the channel has no room: the goroutine sends only to a task that receives.
PeerEnds_Unbuffered(g, s, r) ==
  /\ peer[g][s] = "busy"
  /\ task[g][s] = "select"
  /\ peer' = [peer EXCEPT ![g][s] = r]
  /\ UNCHANGED <<ctx, stop, task, result>>

\* ExchangeWithConn has returned and its result is in the channel, which has
\* room for it.  A server that never answers, or the task's deferred Close of
\* the connection, ends it with an error, "bad".  When the task has gone, nobody
\* looks into the channel again.
PeerEnds(g, s, r) ==
  /\ peer[g][s] = "busy"
  /\ peer' = [peer EXCEPT ![g][s] = IF task[g][s] = "select" THEN r ELSE "none"]
  /\ UNCHANGED <<ctx, stop, task, result>>

\* Fault: the error of one server cancels the others, as in errgroup.
SelectBad_CancelsGroup(g, s) ==
  /\ task[g][s] = "select"
  /\ peer[g][s] = "bad"
  /\ task' = [task EXCEPT ![g][s] = "failed"]
  /\ stop' = [stop EXCEPT ![g] = "won"]
  /\ peer' = [peer EXCEPT ![g][s] = "none"]
  /\ UNCHANGED <<ctx, result>>

\* select takes the error, or the answer SERVFAIL or REFUSED.
SelectBad(g, s) ==
  /\ task[g][s] = "select"
  /\ peer[g][s] = "bad"
  /\ task' = [task EXCEPT ![g][s] = "failed"]
  /\ peer' = [peer EXCEPT ![g][s] = "none"]
  /\ UNCHANGED <<ctx, stop, result>>

\* select takes a good answer; once.Do keeps the first of them and cancels.
SelectGood(g, s) ==
  /\ task[g][s] = "select"
  /\ peer[g][s] = "good"
  /\ task' = [task EXCEPT ![g][s] = "ok"]
  /\ result' = [result EXCEPT ![g] = IF @ = Nil THEN s ELSE @]
  /\ stop' = [stop EXCEPT ![g] = IF @ = "no" THEN "won" ELSE @]
  /\ peer' = [peer EXCEPT ![g][s] = "none"]
  /\ UNCHANGED ctx

\* select takes ctx.Done, whether or not an answer is there.
SelectCancelled(g, s) ==
  /\ task[g][s] = "select"
  /\ CtxDone(g)
  /\ task' = [task EXCEPT ![g][s] = "cancelled"]
  /\ peer' = [peer EXCEPT ![g][s] = IF @ = "busy" THEN @ ELSE "none"]
  /\ UNCHANGED <<ctx, stop, result>>

\* DefaultDNSTimeout after batchExchange began.
Timeout(g) ==
  /\ \E s \in Servers : task[g][s] \in {"dial", "select"}
  /\ stop[g] = "no"
  /\ stop' = [stop EXCEPT ![g] = "timeout"]
  /\ UNCHANGED <<ctx, task, peer, result>>

\* Fault: Wait returns with the first answer.
AllEnded_First(g) == result[g] # Nil \/ \A s \in Servers : task[g][s] \in Ended

\* wg.Wait in Picker.Wait may return.
AllEnded(g) == \A s \in Servers : task[g][s] \in Ended

TaskStep(g, s) ==
  \/ DialFails(g, s) \/ DialCancelled(g, s) \/ DialOk(g, s)
  \/ \E r \in {"good", "bad"} : PeerEnds(g, s, r)
  \/ SelectBad(g, s) \/ SelectGood(g, s) \/ SelectCancelled(g, s)
=============================================================================
