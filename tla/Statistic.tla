------------------------------ MODULE Statistic ------------------------------
(***************************************************************************)
(* internal/statistic: the traffic counters.  Each tracker is written by   *)
(* one goroutine of its relay and read by the other; both count what they  *)
(* moved in the manager and then in the tracker.  Once a second            *)
(* Manager.handle publishes what has been counted since the last time, by  *)
(* a load and a store of the same counter; GET /traffic reports what it    *)
(* published.  Every counter operation is atomic, and a step of its own.   *)
(***************************************************************************)
EXTENDS Integers, FiniteSets

CONSTANTS
  Trackers,   \* the connections being relayed
  Sizes,      \* what one Read or Write may move; a failed one moves 0 bytes
  MaxBytes    \* bound on what is moved in one direction of a connection

ASSUME StatisticAssumption == IsFiniteSet(Trackers) /\ Sizes \subseteq Nat /\ MaxBytes \in Nat

Up   == "up"      \* TcpTracker.Write
Down == "down"    \* TcpTracker.Read
Ways == {Up, Down}
Movers == Trackers \X Ways

VARIABLES
  at,      \* at[m]: the counter mover m adds to next, or "idle"
  size,    \* size[m]: what its Read or Write has moved
  own,     \* own[m]: UploadTotal or DownloadTotal of the tracker
  temp,    \* temp[w]: uploadTemp and downloadTemp
  total,   \* total[w]: uploadTotal and downloadTotal
  blip,    \* blip[w]: uploadBlip and downloadBlip
  tick,    \* where handle is: the direction, and what it does next
  loaded,  \* the value its Load has returned
  moved,   \* moved[m]: all that m has moved (history)
  added,   \* added[w]: all that was added to temp[w] (history)
  shown,   \* shown[w]: the sum of what was published (history)
  missed   \* missed[w]: what was added between the Load and the Store of 0 (history)

counters == <<at, size, own, temp, total, moved, added, missed>>
svars    == <<counters, blip, tick, loaded, shown>>

StatInit ==
  /\ at = [m \in Movers |-> "idle"]
  /\ size = [m \in Movers |-> 0]
  /\ own = [m \in Movers |-> 0]
  /\ moved = [m \in Movers |-> 0]
  /\ temp = [w \in Ways |-> 0] /\ total = [w \in Ways |-> 0] /\ blip = [w \in Ways |-> 0]
  /\ added = [w \in Ways |-> 0] /\ shown = [w \in Ways |-> 0] /\ missed = [w \in Ways |-> 0]
  /\ tick = <<Up, "wait">>
  /\ loaded = 0

-----------------------------------------------------------------------------
(* TcpTracker.Read and Write *)

\* The wrapped connection has moved k bytes.
Move(m) ==
  /\ at[m] = "idle"
  /\ \E k \in Sizes :
       /\ moved[m] + k <= MaxBytes
       /\ size' = [size EXCEPT ![m] = k]
       /\ moved' = [moved EXCEPT ![m] = @ + k]
  /\ at' = [at EXCEPT ![m] = "temp"]
  /\ UNCHANGED <<own, temp, total, added, missed, blip, tick, loaded, shown>>

\* The Load of handle has been and its Store of 0 is to come.
InWindow(w) == tick \in {<<w, "publish">>, <<w, "reset">>}

\* PushUploaded or PushDownloaded: first the counter of the second ...
AddTemp(m) ==
  LET w == m[2]
  IN  /\ at[m] = "temp"
      /\ at' = [at EXCEPT ![m] = "total"]
      /\ temp' = [temp EXCEPT ![w] = @ + size[m]]
      /\ added' = [added EXCEPT ![w] = @ + size[m]]
      /\ missed' = [missed EXCEPT ![w] = IF InWindow(w) THEN @ + size[m] ELSE @]
      /\ UNCHANGED <<size, own, total, moved, blip, tick, loaded, shown>>

\* Fault: the manager's counter is read and written back in two steps.
AddTotal_Torn(m) ==
  /\ at[m] = "total"
  /\ \E old \in 0 .. total[m[2]] : total' = [total EXCEPT ![m[2]] = old + size[m]]
  /\ at' = [at EXCEPT ![m] = "own"]
  /\ UNCHANGED <<size, own, temp, moved, added, missed, blip, tick, loaded, shown>>

\* ... then the one of the process ...
AddTotal(m) ==
  /\ at[m] = "total"
  /\ total' = [total EXCEPT ![m[2]] = @ + size[m]]
  /\ at' = [at EXCEPT ![m] = "own"]
  /\ UNCHANGED <<size, own, temp, moved, added, missed, blip, tick, loaded, shown>>

\* ... and at last the tracker's own.
AddOwn(m) ==
  /\ at[m] = "own"
  /\ own' = [own EXCEPT ![m] = @ + size[m]]
  /\ at' = [at EXCEPT ![m] = "idle"]
  /\ UNCHANGED <<size, temp, total, moved, added, missed, blip, tick, loaded, shown>>

-----------------------------------------------------------------------------
(* Manager.handle *)

\* The ticker fires, and the counter is loaded ...
Load(w) ==
  /\ tick = <<w, "wait">>
  /\ loaded' = temp[w]
  /\ tick' = <<w, "publish">>
  /\ UNCHANGED <<counters, blip, shown>>

\* Fault: a second without traffic is not published.
Publish_NonZero(w) ==
  /\ tick = <<w, "publish">>
  /\ blip' = [blip EXCEPT ![w] = IF loaded = 0 THEN @ ELSE loaded]
  /\ shown' = [shown EXCEPT ![w] = @ + loaded]
  /\ tick' = <<w, "reset">>
  /\ UNCHANGED <<counters, loaded>>

\* ... published ...
Publish(w) ==
  /\ tick = <<w, "publish">>
  /\ blip' = [blip EXCEPT ![w] = loaded]
  /\ shown' = [shown EXCEPT ![w] = @ + loaded]
  /\ tick' = <<w, "reset">>
  /\ UNCHANGED <<counters, loaded>>

\* Fault: the counter is not set back.
Reset_None(w) ==
  /\ tick = <<w, "reset">>
  /\ tick' = <<IF w = Up THEN Down ELSE Up, "wait">>
  /\ UNCHANGED <<counters, blip, loaded, shown>>

\* ... and set back; then it is the turn of the other direction.
Reset(w) ==
  /\ tick = <<w, "reset">>
  /\ temp' = [temp EXCEPT ![w] = 0]
  /\ tick' = <<IF w = Up THEN Down ELSE Up, "wait">>
  /\ UNCHANGED <<at, size, own, total, moved, added, missed, blip, loaded, shown>>

-----------------------------------------------------------------------------
(* The specification *)

Count(m)  == AddTemp(m) \/ AddTotal(m) \/ AddOwn(m)
Tick(w)   == Load(w) \/ Publish(w) \/ Reset(w)

StatNext ==
  \/ \E m \in Movers : Move(m) \/ Count(m)
  \/ \E w \in Ways : Tick(w)

StatSpec == StatInit /\ [][StatNext]_svars

\* The relays' goroutines are scheduled, and the ticker fires.  Nobody has to send.
StatFairSpec ==
  /\ StatSpec
  /\ \A m \in Movers : WF_svars(Count(m))
  /\ WF_svars(\E w \in Ways : Tick(w))

-----------------------------------------------------------------------------
(* Properties *)

StatTypeOK ==
  /\ at \in [Movers -> {"idle", "temp", "total", "own"}]
  /\ size \in [Movers -> Nat] /\ own \in [Movers -> Nat] /\ moved \in [Movers -> Nat]
  /\ \A f \in {temp, total, blip, added, shown, missed} : f \in [Ways -> Nat]
  /\ tick \in Ways \X {"wait", "publish", "reset"}
  /\ loaded \in Nat

\* What a mover has moved and not yet added to the counter named c or the ones after it.
Pending(m, c) == IF at[m] \in c THEN size[m] ELSE 0

\* What the tracker of mover m has counted or is about to, when the process has done so,
\* and those bytes of one direction, byte k of mover m being <<m, k>>.
Counted(m)      == own[m] + Pending(m, {"own"})
CountedBytes(w) == UNION {{m} \X (1 .. Counted(m)) : m \in Trackers \X {w}}

\* The total of the process is the sum of the trackers' totals and of what is between the
\* two additions: however the relays' goroutines interleave, no byte is counted twice or
\* forgotten, in the process or in a connection (tracker.go 34-48, manager.go 43-51).
TotalsAgree ==
  /\ \A m \in Movers : moved[m] = own[m] + Pending(m, {"temp", "total", "own"})
  /\ \A w \in Ways : total[w] = Cardinality(CountedBytes(w))

\* What handle is still going to publish of what was added so far, but for what is missed.
ToPublish(w) ==
  IF tick = <<w, "publish">> THEN loaded
  ELSE IF tick = <<w, "reset">> THEN 0 ELSE temp[w]

\* The published rates leave out exactly what was added between the Load and the Store of
\* 0 (manager.go 83-86) and count nothing twice: what was added is what was published,
\* what is waiting and what was left out.
RateAccounting == \A w \in Ways : added[w] = shown[w] + missed[w] + ToPublish(w)

\* When the traffic stops the published rates go to zero and stay there.
RateSettles ==
  \A w \in Ways :
    [](\A m \in Movers : at[m] = "idle") ~> [](blip[w] = 0)
=============================================================================
