---------------------------- MODULE DnsResolver -----------------------------
(***************************************************************************)
(* internal/dns: Resolver.ExchangeContext, with its cache and its single   *)
(* flight, called by tunnels (Exchange, with the background context) and   *)
(* by the query of the RESTful API (with a context of its own, cancelled   *)
(* when the query returns).                                                *)
(*                                                                         *)
(* A caller makes one call.  It leads at most one flight, itself or        *)
(* through the goroutine that renews a stale answer, so that flights, and  *)
(* the groups of Picker they run, are named after the caller leading them. *)
(*                                                                         *)
(* GetWithExpire is one step here: what can happen inside it is in module  *)
(* LruCache.  The time to live of an answer is only fresh or stale.        *)
(***************************************************************************)
EXTENDS Picker

CONSTANTS
  Api,        \* the groups led by queryDNS; the others are led by tunnels
  Questions

ASSUME ApiAssumption == Api \subseteq Groups
ASSUME QuestionsAssumption == Nil \notin Questions /\ Nil \notin Groups

VARIABLES
  cached,    \* cached[q]: the entry of lruCache for q
  flight,    \* flight[q]: the leader of the call of group.Do under way, or Nil
  phase,     \* phase[c]: the flight led by c
  question,  \* question[c]: what c asks
  pc,        \* pc[c]: ExchangeContext
  renewal,   \* renewal[c]: the goroutine c starts on a stale answer
  awaits,    \* awaits[c]: the leader whose flight c, or its renewal, waits for
  err,       \* err[c]: the named result err of ExchangeContext is an error
  out        \* out[c]: what ExchangeContext returned

resolverVars == <<cached, flight, phase, question, pc, renewal, awaits, err, out>>
allVars      == <<pickerVars, resolverVars>>

Callers == Groups

\* Types; what ExchangeContext returns is an answer or an error, never the bare result of
\* group.Do (resolver.go 160-165).
ResolverTypeOK ==
  /\ PickerTypeOK
  /\ cached   \in [Questions -> {"none", "fresh", "stale"}]
  /\ flight   \in [Questions -> Callers \cup {Nil}]
  /\ phase    \in [Callers -> {"none", "running", "stored", "over"}]
  /\ question \in [Callers -> Questions \cup {Nil}]
  /\ pc       \in [Callers -> {"idle", "fresh", "stale", "miss", "wait", "done"}]
  /\ renewal  \in [Callers -> {"none", "start", "wait", "ended"}]
  /\ awaits   \in [Callers -> Callers \cup {Nil}]
  /\ err      \in [Callers -> BOOLEAN]
  /\ out      \in [Callers -> {"none", "answer", "error", "answerAndError"}]

\* Earlier calls may have filled the cache; Expire makes the answer stale.
ResolverInit ==
  /\ PickerInit
  /\ cached   \in [Questions -> {"none", "fresh"}]
  /\ flight   = [q \in Questions |-> Nil]
  /\ phase    = [c \in Callers |-> "none"]
  /\ question = [c \in Callers |-> Nil]
  /\ pc       = [c \in Callers |-> "idle"]
  /\ renewal  = [c \in Callers |-> "none"]
  /\ awaits   = [c \in Callers |-> Nil]
  /\ err      = [c \in Callers |-> FALSE]
  /\ out      = [c \in Callers |-> "none"]

-----------------------------------------------------------------------------
(* ExchangeContext *)

\* GetWithExpire, and what is decided from it.  A stale answer starts a
\* goroutine that fetches a new one.
Lookup(c, q) ==
  /\ pc[c] = "idle"
  /\ question' = [question EXCEPT ![c] = q]
  /\ pc' = [pc EXCEPT ![c] = IF cached[q] = "none" THEN "miss" ELSE cached[q]]
  /\ renewal' = [renewal EXCEPT ![c] = IF cached[q] = "stale" THEN "start" ELSE @]
  /\ UNCHANGED <<pickerVars, cached, flight, phase, awaits, err, out>>

\* A hit returns a copy of the cached answer, and the named result err.
ReturnHit(c) ==
  /\ pc[c] \in {"fresh", "stale"}
  /\ pc' = [pc EXCEPT ![c] = "done"]
  /\ out' = [out EXCEPT ![c] = IF err[c] THEN "answerAndError" ELSE "answer"]
  /\ UNCHANGED <<pickerVars, cached, flight, phase, question, renewal, awaits, err>>

\* group.Do is entered for c's question: c leads a flight, or joins one.
EnterFlight(c) ==
  LET q == question[c]
  IN \/ /\ flight[q] = Nil
        /\ flight' = [flight EXCEPT ![q] = c]
        /\ phase'  = [phase EXCEPT ![c] = "running"]
        /\ awaits' = [awaits EXCEPT ![c] = c]
        /\ Go(c)
     \/ /\ flight[q] # Nil
        /\ awaits' = [awaits EXCEPT ![c] = flight[q]]
        /\ UNCHANGED <<pickerVars, flight, phase>>

Fetch(c) ==
  /\ pc[c] = "miss"
  /\ pc' = [pc EXCEPT ![c] = "wait"]
  /\ EnterFlight(c)
  /\ UNCHANGED <<cached, question, renewal, err, out>>

Renew(c) ==
  /\ renewal[c] = "start"
  /\ renewal' = [renewal EXCEPT ![c] = "wait"]
  /\ EnterFlight(c)
  /\ UNCHANGED <<cached, question, pc, err, out>>

\* batchExchange has an answer: putMsgToCache stores it, fresh, or stale at
\* once when its time to live is zero; an answer without records, and that of an
\* ACME challenge, is not stored.
Store(c, as) ==
  LET q == question[c]
  IN /\ phase[c] = "running"
     /\ AllEnded(c)
     /\ result[c] # Nil
     /\ cached' = [cached EXCEPT ![q] = IF as = "none" THEN @ ELSE as]
     /\ phase'  = [phase EXCEPT ![c] = "stored"]
     /\ UNCHANGED <<pickerVars, flight, question, pc, renewal, awaits, err, out>>

\* All DNS requests failed: nothing is stored.
GiveUp(c) ==
  /\ phase[c] = "running"
  /\ AllEnded(c)
  /\ result[c] = Nil
  /\ phase' = [phase EXCEPT ![c] = "stored"]
  /\ UNCHANGED <<pickerVars, cached, flight, question, pc, renewal, awaits, err, out>>

\* group.Do forgets the flight and wakes those who wait for it.
Land(c) ==
  /\ phase[c] = "stored"
  /\ phase'  = [phase EXCEPT ![c] = "over"]
  /\ flight' = [flight EXCEPT ![question[c]] = Nil]
  /\ UNCHANGED <<pickerVars, cached, question, pc, renewal, awaits, err, out>>

Landed(c) == awaits[c] # Nil /\ phase[awaits[c]] = "over"

\* exchangeWithoutCache after group.Do: the answer, or the error, of the flight.
ReturnFetched(c) ==
  /\ pc[c] = "wait"
  /\ Landed(c)
  /\ pc'  = [pc EXCEPT ![c] = "done"]
  /\ out' = [out EXCEPT ![c] = IF result[awaits[c]] = Nil THEN "error" ELSE "answer"]
  /\ UNCHANGED <<pickerVars, cached, flight, phase, question, renewal, awaits, err>>

\* The goroutine assigns the err of the function that started it.
Renewed(c) ==
  /\ renewal[c] = "wait"
  /\ Landed(c)
  /\ renewal' = [renewal EXCEPT ![c] = "ended"]
  /\ err' = [err EXCEPT ![c] = (result[awaits[c]] = Nil)]
  /\ UNCHANGED <<pickerVars, cached, flight, phase, question, pc, awaits, out>>

-----------------------------------------------------------------------------
(* The surroundings *)

\* queryDNS: its context is done after DefaultDNSTimeout, and, by the deferred
\* cancel, when it returns.
CancelQuery(c) ==
  /\ c \in Api
  /\ pc[c] # "idle"
  /\ ctx[c] = "live"
  /\ ctx' = [ctx EXCEPT ![c] = "cancelled"]
  /\ UNCHANGED <<stop, task, peer, result, resolverVars>>

\* Time passes.
Expire(q) ==
  /\ cached[q] = "fresh"
  /\ cached' = [cached EXCEPT ![q] = "stale"]
  /\ UNCHANGED <<pickerVars, flight, phase, question, pc, renewal, awaits, err, out>>

\* Other questions push the entry out of the cache.
Evict(q) ==
  /\ cached[q] # "none"
  /\ cached' = [cached EXCEPT ![q] = "none"]
  /\ UNCHANGED <<pickerVars, flight, phase, question, pc, renewal, awaits, err, out>>

Exchanging(c) ==
  /\ Timeout(c) \/ \E s \in Servers : TaskStep(c, s)
  /\ UNCHANGED resolverVars

CallStep(c) ==
  \/ ReturnHit(c) \/ Fetch(c) \/ Renew(c)
  \/ \E as \in {"fresh", "stale", "none"} : Store(c, as)
  \/ GiveUp(c) \/ Land(c) \/ ReturnFetched(c) \/ Renewed(c)

Settled ==
  /\ \A c \in Callers : pc[c] = "done" /\ renewal[c] \in {"none", "ended"}
  /\ \A c \in Callers, s \in Servers : peer[c][s] # "busy"
  /\ UNCHANGED allVars

ResolverNext ==
  \/ \E c \in Callers, q \in Questions : Lookup(c, q)
  \/ \E c \in Callers : CallStep(c) \/ Exchanging(c) \/ CancelQuery(c)
  \/ \E q \in Questions : Expire(q) \/ Evict(q)
  \/ Settled

ResolverSpec == ResolverInit /\ [][ResolverNext]_allVars

\* What happens by itself: goroutines run, the timers of a flight and of an
\* exchange with a server go off.  No server need answer, no caller need call.
Runs ==
  \E c \in Callers :
    \/ CallStep(c)
    \/ /\ \/ Timeout(c)
          \/ \E s \in Servers :
               \/ PeerEnds(c, s, "bad")
               \/ DialCancelled(c, s)
               \/ SelectBad(c, s) \/ SelectGood(c, s) \/ SelectCancelled(c, s)
       /\ UNCHANGED resolverVars

\* A caller makes one call, so no goroutine can keep another from its turn
\* forever and fairness of the whole is enough.
ResolverFairSpec == ResolverSpec /\ WF_allVars(Runs)

-----------------------------------------------------------------------------
(* Properties *)

\* picker.go 44-45, 60-61, util.go 109-116: the first success cancels the other
\* servers, an error does not: "all DNS requests failed" is said only when each
\* server failed for itself, ran out of time or was cancelled by the caller.
FailsOnlyWhenAllFailed ==
  \A c \in Callers : phase[c] \in {"stored", "over"} /\ result[c] = Nil =>
    \A s \in Servers :
      \/ task[c][s] = "failed"
      \/ task[c][s] = "cancelled" /\ (stop[c] = "timeout" \/ ctx[c] = "cancelled")

\* resolver.go 142, picker.go 46-47: however many callers ask a question, and
\* however their flights and renewals overlap, a server has at most one task
\* waiting for its answer to it.
OneExchangePerServer ==
  \A c, d \in Callers, s \in Servers :
    /\ question[c] = question[d]
    /\ task[c][s] = "select"
    /\ task[d][s] = "select"
    => c = d

\* resolver.go 112-136: every call that is made returns, and every goroutine
\* that renews an answer ends, whatever the servers do.  (A caller makes one
\* call, so that this can be said of all of them at once.)
CallsReturn ==
  <>[](\A c \in Callers : pc[c] \in {"idle", "done"} /\ renewal[c] \in {"none", "ended"})

\* client.go 64-78: the goroutine that talks to a server ends, even when its
\* task has left the select before there was an answer.
ExchangesEnd == <>[](\A c \in Callers, s \in Servers : peer[c][s] # "busy")

\* lrucache.go 45 "WithStale decide whether Stale return is enabled": the
\* resolver enables it, and a call that finds an answer, fresh or stale,
\* returns it without an error.
HitsNeverFail == \A c \in Callers : out[c] # "answerAndError"

-----------------------------------------------------------------------------
(* The inductive invariant behind the safety properties *)

\* A call has nothing before it has asked, and enters group.Do at most once, by itself or
\* through the goroutine that renews; a flight under way is the one of its question.
CallInv(c) ==
  /\ pc[c] \in {"idle", "miss", "wait"} => renewal[c] = "none"
  /\ pc[c] \in {"idle", "miss"} \/ renewal[c] = "start" => phase[c] = "none"
  /\ pc[c] = "idle" \/ question[c] \in Questions
  /\ phase[c] \in {"running", "stored"} => pc[c] # "idle" /\ flight[question[c]] = c

\* The tasks of a flight run while it does and have ended before it is over; what ended
\* them is remembered.
TaskInv(c) ==
  /\ phase[c] = "none" => \A s \in Servers : task[c][s] = "none"
  /\ phase[c] \in {"stored", "over"} => AllEnded(c)
  /\ stop[c] = "won" => result[c] # Nil
  /\ \A s \in Servers :
       /\ task[c][s] = "ok" => result[c] # Nil
       /\ task[c][s] = "cancelled" => CtxDone(c)

ResolverInv == ResolverTypeOK /\ \A c \in Callers : CallInv(c) /\ TaskInv(c)
=============================================================================
