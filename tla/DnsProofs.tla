------------------------------ MODULE DnsProofs ------------------------------
(***************************************************************************)
(* Proofs about DnsResolver and LookupIP, for any callers, questions and   *)
(* name servers.                                                           *)
(***************************************************************************)
EXTENDS LookupIP, TLAPS

\* The state functions a step leaves alone.
USE DEF pickerVars, resolverVars, allVars, lookupVars, Callers

-----------------------------------------------------------------------------
(* Types *)

\* A task of the picker, and the goroutine it started, keep the types.
LEMMA TaskType ==
  ASSUME PickerTypeOK, NEW g \in Groups, NEW s \in Servers, TaskStep(g, s)
  PROVE  PickerTypeOK'
<1> DEFINE TaskStates == {"none", "dial", "select"} \cup Ended
           PeerStates == {"none", "busy", "good", "bad"}
<1>1. ASSUME NEW x \in TaskStates
      PROVE  [task EXCEPT ![g][s] = x] \in [Groups -> [Servers -> TaskStates]]
  BY <1>1 DEF PickerTypeOK
<1>2. ASSUME NEW x \in PeerStates
      PROVE  [peer EXCEPT ![g][s] = x] \in [Groups -> [Servers -> PeerStates]]
  BY <1>2 DEF PickerTypeOK
<1>3. CASE DialFails(g, s) \/ DialCancelled(g, s)
  <2>1. \E x \in {"failed", "cancelled"} : task' = [task EXCEPT ![g][s] = x]
    BY <1>3 DEF DialFails, DialCancelled
  <2>2. task' \in [Groups -> [Servers -> TaskStates]]
    BY <1>1, <2>1 DEF Ended
  <2> QED
    BY <1>3, <2>2 DEF DialFails, DialCancelled, PickerTypeOK
<1>4. CASE DialOk(g, s)
  BY <1>1, <1>2, <1>4 DEF DialOk, PickerTypeOK
<1>5. ASSUME NEW r \in {"good", "bad"}, PeerEnds(g, s, r)
      PROVE  PickerTypeOK'
  BY <1>2, <1>5 DEF PeerEnds, PickerTypeOK
<1>6. CASE SelectBad(g, s)
  BY <1>1, <1>2, <1>6 DEF SelectBad, PickerTypeOK, Ended
<1>7. CASE SelectCancelled(g, s)
  <2>1. peer' = [peer EXCEPT ![g][s] = IF peer[g][s] = "busy" THEN "busy" ELSE "none"]
    BY <1>7 DEF SelectCancelled, PickerTypeOK
  <2> QED
    BY <1>1, <1>2, <1>7, <2>1 DEF SelectCancelled, PickerTypeOK, Ended
<1>8. CASE SelectGood(g, s)
  <2>1. result' \in [Groups -> Servers \cup {Nil}] /\ stop' \in [Groups -> {"no", "timeout", "won"}]
    BY <1>8 DEF SelectGood, PickerTypeOK
  <2> QED
    BY <1>1, <1>2, <1>8, <2>1 DEF SelectGood, PickerTypeOK, Ended
<1> QED
  BY <1>3, <1>4, <1>5, <1>6, <1>7, <1>8 DEF TaskStep

\* Entering group.Do keeps the types.
LEMMA EnterType ==
  ASSUME ResolverTypeOK, NEW c \in Callers, question[c] \in Questions, EnterFlight(c)
  PROVE  /\ PickerTypeOK' /\ flight' \in [Questions -> Callers \cup {Nil}]
         /\ phase' \in [Callers -> {"none", "running", "stored", "over"}]
         /\ awaits' \in [Callers -> Callers \cup {Nil}]
<1>1. CASE flight[question[c]] = Nil
  <2>1. Go(c) /\ flight' = [flight EXCEPT ![question[c]] = c]
        /\ phase' = [phase EXCEPT ![c] = "running"] /\ awaits' = [awaits EXCEPT ![c] = c]
    BY <1>1 DEF EnterFlight
  <2>2. task' \in [Groups -> [Servers -> {"none", "dial", "select"} \cup Ended]]
    BY <2>1 DEF Go, ResolverTypeOK, PickerTypeOK
  <2>3. PickerTypeOK'
    BY <2>1, <2>2 DEF Go, ResolverTypeOK, PickerTypeOK
  <2> QED
    BY <2>1, <2>3 DEF ResolverTypeOK
<1>2. CASE flight[question[c]] # Nil
  <2>1. UNCHANGED <<pickerVars, flight, phase>> /\ awaits' = [awaits EXCEPT ![c] = flight[question[c]]]
    BY <1>2 DEF EnterFlight
  <2> QED
    BY <2>1 DEF ResolverTypeOK, PickerTypeOK
<1> QED
  BY <1>1, <1>2

\* So do the statements of ExchangeContext.
LEMMA CallType ==
  ASSUME ResolverInv, NEW c \in Callers, CallStep(c)
  PROVE  ResolverTypeOK'
<1> USE DEF ResolverInv, ResolverTypeOK
<1>1. CASE ReturnHit(c)
  BY <1>1 DEF ReturnHit, PickerTypeOK
<1>2. CASE Fetch(c)
  BY <1>2, EnterType DEF Fetch, CallInv
<1>3. CASE Renew(c)
  BY <1>3, EnterType DEF Renew, CallInv
<1>4. ASSUME NEW as \in {"fresh", "stale", "none"}, Store(c, as)
      PROVE  ResolverTypeOK'
  BY <1>4 DEF Store, PickerTypeOK
<1>5. CASE GiveUp(c)
  BY <1>5 DEF GiveUp, PickerTypeOK
<1>6. CASE Land(c)
  BY <1>6 DEF Land, PickerTypeOK
<1>7. CASE ReturnFetched(c)
  BY <1>7 DEF ReturnFetched, PickerTypeOK
<1>8. CASE Renewed(c)
  BY <1>8 DEF Renewed, PickerTypeOK
<1> QED
  BY <1>1, <1>2, <1>3, <1>4, <1>5, <1>6, <1>7, <1>8 DEF CallStep

\* Every step of the resolver keeps the types.
LEMMA ResolverType ==
  ASSUME ResolverInv, ResolverNext
  PROVE  ResolverTypeOK'
<1>1. ASSUME NEW c \in Callers, NEW q \in Questions, Lookup(c, q)
      PROVE  ResolverTypeOK'
  BY <1>1 DEF Lookup, ResolverInv, ResolverTypeOK, PickerTypeOK
<1>2. ASSUME NEW c \in Callers, CallStep(c)
      PROVE  ResolverTypeOK'
  BY <1>2, CallType
<1>3. ASSUME NEW c \in Callers, Exchanging(c)
      PROVE  ResolverTypeOK'
  <2>1. PickerTypeOK'
    <3>1. CASE Timeout(c)
      BY <3>1 DEF Timeout, ResolverInv, ResolverTypeOK, PickerTypeOK
    <3>2. CASE \E s \in Servers : TaskStep(c, s)
      BY <3>2, TaskType DEF ResolverInv, ResolverTypeOK
    <3> QED
      BY <1>3, <3>1, <3>2 DEF Exchanging
  <2> QED
    BY <1>3, <2>1 DEF Exchanging, ResolverInv, ResolverTypeOK
<1>4. ASSUME NEW c \in Callers, CancelQuery(c)
      PROVE  ResolverTypeOK'
  BY <1>4 DEF CancelQuery, ResolverInv, ResolverTypeOK, PickerTypeOK
<1>5. ASSUME NEW q \in Questions, Expire(q) \/ Evict(q)
      PROVE  ResolverTypeOK'
  BY <1>5 DEF Expire, Evict, ResolverInv, ResolverTypeOK, PickerTypeOK
<1>6. CASE Settled
  BY <1>6 DEF Settled, ResolverInv, ResolverTypeOK, PickerTypeOK
<1> QED
  BY <1>1, <1>2, <1>3, <1>4, <1>5, <1>6 DEF ResolverNext
-----------------------------------------------------------------------------
(* Flights *)

\* A step that leaves the flight and the call of d alone keeps their invariant.
LEMMA CallSame ==
  ASSUME NEW d, CallInv(d),
         pc'[d] = pc[d], renewal'[d] = renewal[d], phase'[d] = phase[d], question'[d] = question[d],
         phase[d] \in {"running", "stored"} => flight'[question[d]] = flight[question[d]]
  PROVE  CallInv(d)'
BY DEF CallInv

\* A group whose tasks are left alone keeps its invariant; being done is never taken back.
LEMMA TaskSame ==
  ASSUME NEW d, TaskInv(d), phase'[d] = phase[d], result'[d] = result[d], task'[d] = task[d],
         stop'[d] = stop[d] \/ (stop[d] = "no" /\ stop'[d] = "timeout"),
         ctx'[d] = ctx[d] \/ ctx'[d] = "cancelled"
  PROVE  TaskInv(d)'
BY DEF TaskInv, AllEnded, CtxDone

\* Leading a flight, or joining one: the flights under way stay those of their questions.
LEMMA EnterInv ==
  ASSUME ResolverInv, NEW c \in Callers, phase[c] = "none", pc[c] # "idle", EnterFlight(c),
         pc'[c] # "idle", pc'[c] # "miss", renewal'[c] # "start",
         pc'[c] = "wait" => renewal'[c] = "none", UNCHANGED question,
         \A d \in Callers \ {c} : pc'[d] = pc[d] /\ renewal'[d] = renewal[d]
  PROVE  \A d \in Callers : CallInv(d)' /\ TaskInv(d)'
<1> DEFINE q == question[c]
<1>0. q \in Questions /\ ResolverTypeOK /\ \A d \in Callers : CallInv(d) /\ TaskInv(d)
  BY DEF ResolverInv, CallInv
<1>1. CASE flight[q] = Nil
  <2>1. /\ Go(c) /\ flight' = [flight EXCEPT ![q] = c] /\ phase' = [phase EXCEPT ![c] = "running"]
    BY <1>1 DEF EnterFlight
  <2>2. phase'[c] = "running" /\ flight'[q] = c
    BY <1>0, <2>1 DEF ResolverTypeOK
  <2>3. /\ \A s \in Servers : task'[c][s] = "dial"
        /\ UNCHANGED <<ctx, stop, peer, result>>
    BY <1>0, <2>1 DEF Go, ResolverTypeOK, PickerTypeOK
  <2>4. CallInv(c)'
    BY <1>0, <2>2 DEF CallInv
  <2>5. TaskInv(c)'
    BY <1>0, <2>2, <2>3 DEF TaskInv
  <2>6. ASSUME NEW d \in Callers \ {c}
        PROVE  CallInv(d)' /\ TaskInv(d)'
    <3>1. phase'[d] = phase[d] /\ task'[d] = task[d]
      BY <1>0, <2>1 DEF Go, ResolverTypeOK, PickerTypeOK
    <3>2. phase[d] \in {"running", "stored"} => question[d] # q
      BY <1>0, <1>1, QuestionsAssumption DEF CallInv
    <3>3. phase[d] \in {"running", "stored"} => flight'[question[d]] = flight[question[d]]
      BY <1>0, <2>1, <3>2 DEF ResolverTypeOK, CallInv
    <3> QED
      BY <1>0, <2>3, <3>1, <3>3, CallSame, TaskSame
  <2> QED
    BY <2>4, <2>5, <2>6
<1>2. CASE flight[q] # Nil
  <2>1. UNCHANGED <<ctx, stop, task, peer, result, flight, phase>>
    BY <1>2 DEF EnterFlight
  <2>2. CallInv(c)'
    BY <1>0, <2>1 DEF CallInv
  <2>3. TaskInv(c)'
    BY <1>0, <2>1, TaskSame
  <2>4. ASSUME NEW d \in Callers \ {c}
        PROVE  CallInv(d)' /\ TaskInv(d)'
    BY <1>0, <2>1, CallSame, TaskSame
  <2> QED
    BY <2>2, <2>3, <2>4
<1> QED
  BY <1>1, <1>2

\* The statements of ExchangeContext keep calls, flights and groups together.
LEMMA CallStepInv ==
  ASSUME ResolverInv, NEW c \in Callers, CallStep(c)
  PROVE  \A d \in Callers : CallInv(d)' /\ TaskInv(d)'
<1>0. ResolverTypeOK /\ \A d \in Callers : CallInv(d) /\ TaskInv(d)
  BY DEF ResolverInv
<1>1. CASE ReturnHit(c)
  BY <1>0, <1>1, TaskSame DEF ReturnHit, ResolverTypeOK, CallInv
<1>2. CASE Fetch(c)
  <2>1. /\ phase[c] = "none" /\ pc[c] # "idle" /\ EnterFlight(c) /\ pc'[c] = "wait"
        /\ renewal'[c] = "none" /\ UNCHANGED question
        /\ \A d \in Callers \ {c} : pc'[d] = pc[d] /\ renewal'[d] = renewal[d]
    BY <1>0, <1>2 DEF Fetch, ResolverTypeOK, CallInv
  <2> QED
    BY <2>1, EnterInv
<1>3. CASE Renew(c)
  <2>1. /\ phase[c] = "none" /\ pc[c] \notin {"idle", "miss", "wait"} /\ EnterFlight(c)
        /\ UNCHANGED <<pc, question>> /\ renewal'[c] = "wait"
        /\ \A d \in Callers \ {c} : renewal'[d] = renewal[d]
    BY <1>0, <1>3 DEF Renew, ResolverTypeOK, CallInv
  <2> QED
    BY <2>1, EnterInv
<1>4. CASE (\E as \in {"fresh", "stale", "none"} : Store(c, as)) \/ GiveUp(c)
  <2>1. /\ phase[c] = "running" /\ AllEnded(c) /\ phase' = [phase EXCEPT ![c] = "stored"]
        /\ UNCHANGED <<ctx, stop, task, peer, result, flight, question, pc, renewal>>
    BY <1>4 DEF Store, GiveUp
  <2>2. CallInv(c)' /\ TaskInv(c)'
    BY <1>0, <2>1 DEF ResolverTypeOK, CallInv, TaskInv, AllEnded, CtxDone
  <2>3. ASSUME NEW d \in Callers \ {c}
        PROVE  CallInv(d)' /\ TaskInv(d)'
    <3>1. phase'[d] = phase[d]
      BY <1>0, <2>1 DEF ResolverTypeOK
    <3> QED
      BY <1>0, <2>1, <3>1, CallSame, TaskSame
  <2> QED
    BY <2>2, <2>3
<1>5. CASE Land(c)
  <2>1. /\ phase[c] = "stored" /\ phase' = [phase EXCEPT ![c] = "over"]
        /\ flight' = [flight EXCEPT ![question[c]] = Nil]
        /\ UNCHANGED <<ctx, stop, task, peer, result, question, pc, renewal>>
    BY <1>5 DEF Land
  <2>2. CallInv(c)' /\ TaskInv(c)'
    BY <1>0, <2>1 DEF ResolverTypeOK, CallInv, TaskInv, AllEnded, CtxDone
  <2>3. ASSUME NEW d \in Callers \ {c}
        PROVE  CallInv(d)' /\ TaskInv(d)'
    <3>1. phase'[d] = phase[d]
      BY <1>0, <2>1 DEF ResolverTypeOK
    <3>2. phase[d] \in {"running", "stored"} => question[d] # question[c]
      BY <1>0, <2>1 DEF CallInv
    <3>3. phase[d] \in {"running", "stored"} => flight'[question[d]] = flight[question[d]]
      BY <1>0, <2>1, <3>2 DEF ResolverTypeOK, CallInv
    <3> QED
      BY <1>0, <2>1, <3>1, <3>3, CallSame, TaskSame
  <2> QED
    BY <2>2, <2>3
<1>6. CASE ReturnFetched(c)
  BY <1>0, <1>6, TaskSame DEF ReturnFetched, ResolverTypeOK, CallInv
<1>7. CASE Renewed(c)
  BY <1>0, <1>7, TaskSame DEF Renewed, ResolverTypeOK, CallInv
<1> QED
  BY <1>1, <1>2, <1>3, <1>4, <1>5, <1>6, <1>7 DEF CallStep
-----------------------------------------------------------------------------
(* Groups *)

\* A task only ever ends for a reason that its group remembers, and only while its flight
\* runs.
LEMMA TaskStepInv ==
  ASSUME ResolverInv, NEW c \in Callers, NEW s \in Servers, TaskStep(c, s),
         UNCHANGED resolverVars
  PROVE  \A d \in Callers : CallInv(d)' /\ TaskInv(d)'
<1>0. PickerTypeOK /\ \A d \in Callers : CallInv(d) /\ TaskInv(d)
  BY DEF ResolverInv, ResolverTypeOK
<1>1. \A d \in Callers : CallInv(d)'
  BY <1>0, CallSame
<1>2. ASSUME NEW d \in Callers \ {c}
      PROVE  TaskInv(d)'
  <2>1. /\ task'[d] = task[d] /\ stop'[d] = stop[d] /\ result'[d] = result[d] /\ ctx' = ctx
    BY <1>0 DEF TaskStep, DialFails, DialCancelled, DialOk, PeerEnds, SelectBad, SelectGood,
                SelectCancelled, PickerTypeOK
  <2> QED
    BY <1>0, <2>1, TaskSame
<1>3. TaskInv(c)'
  <2>1. CASE \E r \in {"good", "bad"} : PeerEnds(c, s, r)
    BY <1>0, <2>1, TaskSame DEF PeerEnds
  <2>2. CASE ~(\E r \in {"good", "bad"} : PeerEnds(c, s, r))
    <3>1. task[c][s] \in {"dial", "select"}
      BY <2>2 DEF TaskStep, DialFails, DialCancelled, DialOk, SelectBad, SelectGood, SelectCancelled
    <3>2. phase'[c] = phase[c] /\ phase[c] \notin {"none", "stored", "over"}
      BY <1>0, <3>1 DEF TaskInv, AllEnded, Ended
    <3>3. \A t \in Servers \ {s} : task'[c][t] = task[c][t]
      BY <1>0, <2>2 DEF TaskStep, DialFails, DialCancelled, DialOk, SelectBad, SelectGood,
                        SelectCancelled, PickerTypeOK
    <3>4. CASE DialFails(c, s) \/ SelectBad(c, s) \/ DialOk(c, s)
      <4>1. task'[c][s] \in {"failed", "select"} /\ UNCHANGED <<ctx, stop, result>>
        BY <1>0, <3>4 DEF DialFails, SelectBad, DialOk, PickerTypeOK
      <4> QED
        BY <1>0, <3>2, <3>3, <4>1 DEF TaskInv, CtxDone
    <3>5. CASE DialCancelled(c, s) \/ SelectCancelled(c, s)
      <4>1. task'[c][s] = "cancelled" /\ CtxDone(c) /\ UNCHANGED <<ctx, stop, result>>
        BY <1>0, <3>5 DEF DialCancelled, SelectCancelled, PickerTypeOK
      <4> QED
        BY <1>0, <3>2, <3>3, <4>1 DEF TaskInv, CtxDone
    <3>6. CASE SelectGood(c, s)
      <4>1. /\ task'[c][s] = "ok" /\ UNCHANGED ctx
            /\ result'[c] # Nil
            /\ stop'[c] = IF stop[c] = "no" THEN "won" ELSE stop[c]
        BY <1>0, <3>6, ServersAssumption DEF SelectGood, PickerTypeOK
      <4> QED
        BY <1>0, <3>2, <3>3, <4>1 DEF TaskInv, CtxDone
    <3> QED
      BY <2>2, <3>4, <3>5, <3>6 DEF TaskStep
  <2> QED
    BY <2>1, <2>2
<1> QED
  BY <1>1, <1>2, <1>3

\* Every step of the resolver keeps the invariant.
LEMMA ResolverStep ==
  ASSUME ResolverInv, ResolverNext
  PROVE  ResolverInv'
<1>0. ResolverTypeOK /\ \A d \in Callers : CallInv(d) /\ TaskInv(d)
  BY DEF ResolverInv
<1> SUFFICES \A d \in Callers : CallInv(d)' /\ TaskInv(d)'
  BY ResolverType DEF ResolverInv
<1>1. ASSUME NEW c \in Callers, NEW q \in Questions, Lookup(c, q)
      PROVE  \A d \in Callers : CallInv(d)' /\ TaskInv(d)'
  <2>1. \A d \in Callers : TaskInv(d)'
    BY <1>0, <1>1, TaskSame DEF Lookup
  <2>2. CallInv(c)'
    BY <1>0, <1>1 DEF Lookup, CallInv, ResolverTypeOK
  <2>3. ASSUME NEW d \in Callers \ {c}
        PROVE  CallInv(d)'
    <3>1. pc'[d] = pc[d] /\ renewal'[d] = renewal[d] /\ question'[d] = question[d]
      BY <1>0, <1>1 DEF Lookup, ResolverTypeOK
    <3> QED
      BY <1>0, <1>1, <3>1, CallSame DEF Lookup
  <2> QED
    BY <2>1, <2>2, <2>3
<1>2. ASSUME NEW c \in Callers, CallStep(c)
      PROVE  \A d \in Callers : CallInv(d)' /\ TaskInv(d)'
  BY <1>2, CallStepInv
<1>3. ASSUME NEW c \in Callers, Exchanging(c)
      PROVE  \A d \in Callers : CallInv(d)' /\ TaskInv(d)'
  <2>1. CASE Timeout(c)
    <3>1. UNCHANGED resolverVars /\ UNCHANGED <<ctx, task, result>>
          /\ \A d \in Callers : stop'[d] = stop[d] \/ (stop[d] = "no" /\ stop'[d] = "timeout")
      BY <1>0, <1>3, <2>1 DEF Exchanging, Timeout, ResolverTypeOK, PickerTypeOK
    <3> QED
      BY <1>0, <3>1, CallSame, TaskSame
  <2>2. CASE \E s \in Servers : TaskStep(c, s)
    BY <1>3, <2>2, TaskStepInv DEF Exchanging
  <2> QED
    BY <1>3, <2>1, <2>2 DEF Exchanging
<1>4. ASSUME NEW c \in Callers, CancelQuery(c)
      PROVE  \A d \in Callers : CallInv(d)' /\ TaskInv(d)'
  <2>1. UNCHANGED resolverVars /\ UNCHANGED <<stop, task, result>>
        /\ \A d \in Callers : ctx'[d] = ctx[d] \/ ctx'[d] = "cancelled"
    BY <1>0, <1>4 DEF CancelQuery, ResolverTypeOK, PickerTypeOK
  <2> QED
    BY <1>0, <2>1, CallSame, TaskSame
<1>5. CASE Settled \/ \E q \in Questions : Expire(q) \/ Evict(q)
  BY <1>0, <1>5, CallSame, TaskSame DEF Settled, Expire, Evict
<1> QED
  BY <1>1, <1>2, <1>3, <1>4, <1>5 DEF ResolverNext

-----------------------------------------------------------------------------
(* LookupIP *)

\* The two lookups of LookupIP and the channel between them.
LEMMA LookupStepInv ==
  ASSUME LookupInv, LookupStep
  PROVE  LookupInv'
<1>1. ResolverInv' /\ ResolverTypeOK'
  <2>1. UNCHANGED allVars
    BY DEF LookupStep, Spawn, MainReturns, SixReturns, Send, CloseCh, Receive
  <2> QED
    BY <2>1 DEF LookupInv, ResolverInv, ResolverTypeOK, PickerTypeOK, CallInv, TaskInv, AllEnded, CtxDone
<1> USE DEF LookupInv, LookupTypeOK, HandOver, Lookups
<1>2. CASE Spawn
  BY <1>1, <1>2 DEF Spawn
<1>3. ASSUME NEW r \in {"ips", "error"}, MainReturns(r)
      PROVE  LookupInv'
  BY <1>1, <1>3 DEF MainReturns
<1>4. ASSUME NEW r \in {"ips", "error"}, SixReturns(r)
      PROVE  LookupInv'
  BY <1>1, <1>4 DEF SixReturns
<1>5. CASE Send
  BY <1>1, <1>5 DEF Send
<1>6. CASE CloseCh
  BY <1>1, <1>6 DEF CloseCh
<1>7. CASE Receive
  BY <1>1, <1>7 DEF Receive
<1> QED
  BY <1>2, <1>3, <1>4, <1>5, <1>6, <1>7 DEF LookupStep

\* The invariant of the resolver and of LookupIP.
THEOREM DnsInvariance == LookupSpec => []LookupInv
<1>1. LookupInit => LookupInv
  BY QuestionsAssumption
     DEF LookupInit, ResolverInit, PickerInit, LookupInv, LookupTypeOK, ResolverTypeOK, PickerTypeOK,
         ResolverInv, CallInv, TaskInv, AllEnded, Ended, CtxDone, HandOver, Lookups
<1>2. LookupInv /\ [LookupNext]_dnsVars => LookupInv'
  <2> SUFFICES ASSUME LookupInv, [LookupNext]_dnsVars
               PROVE  LookupInv'
    OBVIOUS
  <2>1. CASE LookupStep
    BY <2>1, LookupStepInv
  <2>2. CASE ResolverNext /\ UNCHANGED lookupVars
    <3>1. ResolverInv' /\ ResolverTypeOK'
      BY <2>2, ResolverStep DEF LookupInv, ResolverInv
    <3> QED
      BY <2>2, <3>1 DEF LookupInv, LookupTypeOK, HandOver
  <2>3. CASE UNCHANGED dnsVars
    BY <2>3 DEF dnsVars, LookupInv, LookupTypeOK, ResolverInv, ResolverTypeOK, PickerTypeOK, CallInv,
                TaskInv, AllEnded, CtxDone, HandOver
  <2> QED
    BY <2>1, <2>2, <2>3 DEF LookupNext
<1> QED
  BY <1>1, <1>2, PTL DEF LookupSpec

\* The single flight of internal/dns: any number of callers and renewals of one question
\* have at most one task waiting for a server's answer to it.
THEOREM SingleFlight == LookupSpec => []OneExchangePerServer
<1>1. LookupInv => OneExchangePerServer
  <2> SUFFICES ASSUME LookupInv, NEW c \in Callers, NEW d \in Callers, NEW s \in Servers,
                      question[c] = question[d], task[c][s] = "select", task[d][s] = "select"
               PROVE  c = d
    BY DEF OneExchangePerServer
  <2>1. phase[c] = "running" /\ phase[d] = "running"
    BY DEF LookupInv, ResolverInv, ResolverTypeOK, TaskInv, AllEnded, Ended
  <2> QED
    BY <2>1 DEF LookupInv, ResolverInv, CallInv
<1> QED
  BY <1>1, DnsInvariance, PTL

\* "All DNS requests failed" is said only when every server failed, or ran out of the
\* group's time, or the caller went away.
THEOREM FailureIsEveryones == LookupSpec => []FailsOnlyWhenAllFailed
<1>1. LookupInv => FailsOnlyWhenAllFailed
  <2> SUFFICES ASSUME LookupInv, NEW c \in Callers, phase[c] \in {"stored", "over"}, result[c] = Nil,
                      NEW s \in Servers
               PROVE  \/ task[c][s] = "failed"
                      \/ task[c][s] = "cancelled" /\ (stop[c] = "timeout" \/ ctx[c] = "cancelled")
    BY DEF FailsOnlyWhenAllFailed
  <2>1. TaskInv(c) /\ stop[c] \in {"no", "timeout", "won"}
    BY DEF LookupInv, ResolverInv, ResolverTypeOK, PickerTypeOK
  <2> QED
    BY <2>1 DEF TaskInv, AllEnded, Ended, CtxDone
<1> QED
  BY <1>1, DnsInvariance, PTL

\* LookupIP prefers the A records, whichever lookup is first.
THEOREM PreferenceForA == LookupSpec => []PrefersA
<1>1. LookupInv => PrefersA
  BY DEF LookupInv, LookupTypeOK, HandOver, PrefersA
<1> QED
  BY <1>1, DnsInvariance, PTL
=============================================================================
