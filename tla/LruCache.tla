------------------------------ MODULE LruCache ------------------------------
(***************************************************************************)
(* internal/cache: the LRU cache behind the DNS resolver.                  *)
(*                                                                         *)
(* A map from keys to list elements (cache), a list of elements in the     *)
(* order of their last use (lru, front is least recent), and the entries   *)
(* the elements point to (heap).  What runs under c.mu is one step.        *)
(* get returns a pointer to the entry and gives the lock up; Get and       *)
(* GetWithExpire read through that pointer afterwards, one field at a      *)
(* time, in an order the language leaves open, so every read is a step of  *)
(* its own.  Set computes the expiry before it takes the lock, from a      *)
(* clock that may have moved on since.                                     *)
(***************************************************************************)
EXTENDS Integers, Sequences, SequencesExt

CONSTANTS
  Keys, Values,
  Callers,     \* goroutines that read the cache; any goroutine may write it
  Refs,        \* addresses of entries: enough for the list and the readers
  Expiries,    \* expiries given to SetWithExpire
  Nil,
  Options,     \* the combinations of options a cache may be built with
  MaxTime      \* bound on the clock

ASSUME RefsAssumption == Nil \notin Refs /\ Refs \subseteq Nat
ASSUME ExpiriesAssumption == Expiries \subseteq Nat
ASSUME OptionsAssumption ==
  Options \subseteq [maxAge : Nat, maxSize : Nat,
                     staleReturn : BOOLEAN, updateAgeOnGet : BOOLEAN]
ASSUME TimeAssumption == MaxTime \in Nat

VARIABLES
  opt,     \* maxAge, maxSize, staleReturn, updateAgeOnGet: fixed by New
  now,     \* time.Now().Unix()
  cache,   \* cache[k]: the element of key k, Nil when there is none
  lru,     \* the list, least recently used first
  heap,    \* heap[r]: the entry at address r
  call,    \* call[c]: the operation caller c is in
  older,   \* (auxiliary) pairs of cached keys, the one used last longer ago first
  seen     \* (auxiliary) what c's entry held from c's first read of it to its last

vars == <<opt, now, cache, lru, heap, call, older, seen>>

-----------------------------------------------------------------------------
(* Types *)

Entry    == [key : Keys \cup {Nil}, value : Values \cup {Nil}, expires : Int]
Blank    == [key |-> Nil, value |-> Nil, expires |-> 0]

\* Once get has returned ref to Get or GetWithExpire, value and expires are
\* filled in as they are read.
Idle  == [op |-> "idle", key |-> Nil, value |-> Nil, expires |-> Nil, ref |-> Nil]
Begun(op, k, r) == [op |-> op, key |-> k, value |-> Nil, expires |-> Nil, ref |-> r]
Calls == [op : {"idle", "get", "getWithExpire"}, key : Keys \cup {Nil},
          value : Values \cup {Nil}, expires : Int \cup {Nil}, ref : Refs \cup {Nil}]

Reading(c) == call[c].op # "idle"

\* The addresses neither list l nor a reader of cl points to.  The collector
\* reclaims them.
FreeIn(l, cl) == {r \in Refs : /\ \A i \in 1 .. Len(l) : l[i] # r
                               /\ \A c \in Callers : cl[c].ref # r}

\* Where the next entry is allocated.  Which free address it is does not matter; the
\* number of them bounds a cache without a maximal size.
Fresh == LET free == FreeIn(lru, call) IN {r \in free : \A q \in free : r <= q}

Collected(h, l, cl) == [r \in Refs |-> IF r \in FreeIn(l, cl) THEN Blank ELSE h[r]]

\* Types; what a reader sees through the pointer get gave it (lrucache.go 88, 103) is a
\* value that was stored, never that of a reclaimed entry.
LruTypeOK ==
  /\ opt \in Options
  /\ now \in 0 .. MaxTime
  /\ cache \in [Keys -> Refs \cup {Nil}]
  /\ lru \in Seq(Refs)
  /\ heap \in [Refs -> Entry]
  /\ call \in [Callers -> Calls]
  /\ older \subseteq Keys \X Keys
  /\ seen \in [Callers -> SUBSET (Values \X Int)]

-----------------------------------------------------------------------------
(* Helpers *)

Expires == ~opt.staleReturn /\ opt.maxAge > 0

\* deleteElement: an element goes off the list, ...
ListWithout(l, r) == RemoveAt(l, CHOOSE i \in 1 .. Len(l) : l[i] = r)

MoveToBack(l, r) == Append(ListWithout(l, r), r)

\* Fault: the key stays in the map.
MapWithout_ListOnly(m, h, gone) == m

\* ... and the key of its entry out of the map.
MapWithout(m, h, gone) ==
  [k \in Keys |-> IF \E r \in gone : h[r].key = k THEN Nil ELSE m[k]]

\* maybeDeleteOldest: the elements at the front of list l that are due go, up to one that
\* is not.
maybeDeleteOldest(l, m, h) ==
  LET due(i) == Expires /\ h[l[i]].expires <= now
  IN  \E n \in 0 .. Len(l) :
        /\ \A i \in 1 .. n : due(i)
        /\ n < Len(l) => ~due(n + 1)
        /\ lru'   = SubSeq(l, n + 1, Len(l))
        /\ cache' = MapWithout(m, h, {l[i] : i \in 1 .. n})
        /\ heap'  = Collected(h, lru', call)

\* k is used: every other key was used longer ago.
Used(k) == {p \in older : p[1] # k /\ p[2] # k} \cup ((Keys \ {k}) \X {k})

\* The pairs of o whose keys are cached in map m.
Cached(o, m) == {p \in o : m[p[1]] # Nil /\ m[p[2]] # Nil}

Pair(e) == <<e.value, e.expires>>

\* Caller c has read one of the two fields GetWithExpire returns.
HalfRead(c) ==
  /\ call[c].op = "getWithExpire"
  /\ (call[c].value = Nil) # (call[c].expires = Nil)

\* The entry at r becomes e, under the eyes of who is half through reading it.
Observed(r, e) ==
  [c \in Callers |-> IF HalfRead(c) /\ call[c].ref = r THEN seen[c] \cup {Pair(e)}
                                                       ELSE seen[c]]

-----------------------------------------------------------------------------
(* Operations *)

New ==
  /\ opt \in Options
  /\ now = 0
  /\ cache = [k \in Keys |-> Nil]
  /\ lru = << >>
  /\ heap = [r \in Refs |-> Blank]
  /\ call = [c \in Callers |-> Idle]
  /\ older = {}
  /\ seen = [c \in Callers |-> {}]

\* SetWithExpire under the lock, key present: the entry is overwritten in place.
Overwrite(k, v, x) ==
  LET r == cache[k]
      h == [heap EXCEPT ![r].value = v, ![r].expires = x]
  IN /\ r # Nil
     /\ maybeDeleteOldest(MoveToBack(lru, r), cache, h)
     /\ older' = Cached(Used(k), cache')
     /\ seen'  = Observed(r, h[r])
     /\ UNCHANGED <<opt, now, call>>

\* Fault: the element pushed out is used again for the new entry.
Insert_Recycle(k, v, x) ==
  LET full == opt.maxSize > 0 /\ Len(lru) = opt.maxSize
  IN  \E r \in IF full THEN {lru[1]} ELSE Fresh :
        LET h == [heap EXCEPT ![r] = [key |-> k, value |-> v, expires |-> x]]
            m == IF full THEN MapWithout(cache, heap, {r}) ELSE cache
            l == IF full THEN Tail(lru) ELSE lru
        IN  /\ cache[k] = Nil
            /\ maybeDeleteOldest(Append(l, r), [m EXCEPT ![k] = r], h)
            /\ older' = Cached(Used(k), cache')
            /\ UNCHANGED <<opt, now, call, seen>>

\* SetWithExpire under the lock, key absent: a new entry at the back, the front
\* out if the list is too long, then the entries that are due.
Insert(k, v, x) ==
  \E r \in Fresh :
    LET h == [heap EXCEPT ![r] = [key |-> k, value |-> v, expires |-> x]]
        l == Append(lru, r)
        m == [cache EXCEPT ![k] = r]
    IN  /\ cache[k] = Nil
        /\ IF opt.maxSize > 0 /\ Len(l) > opt.maxSize
             THEN maybeDeleteOldest(Tail(l), MapWithout(m, h, {Head(l)}), h)
             ELSE maybeDeleteOldest(l, m, h)
        /\ older' = Cached(Used(k), cache')
        /\ UNCHANGED <<opt, now, call, seen>>

SetWithExpire(k, v, x) == Overwrite(k, v, x) \/ Insert(k, v, x)

\* Set read the clock at t, before SetWithExpire took the lock.
Set(k, v) ==
  IF opt.maxAge > 0 THEN \E t \in 0 .. now : SetWithExpire(k, v, t + opt.maxAge)
                    ELSE SetWithExpire(k, v, 0)

Due(r) == Expires /\ heap[r].expires <= now

\* get on an entry that is due: it goes, with every other entry at the front
\* that is due, and nil is returned.  (get on an absent key changes nothing.)
Expire(k) ==
  LET r == cache[k]
  IN /\ r # Nil
     /\ Due(r)
     /\ maybeDeleteOldest(ListWithout(lru, r), MapWithout(cache, heap, {r}), heap)
     /\ older' = Cached(older, cache')
     /\ UNCHANGED <<opt, now, call, seen>>

Refreshed(r) == IF opt.maxAge > 0 /\ opt.updateAgeOnGet
                THEN [heap EXCEPT ![r].expires = now + opt.maxAge] ELSE heap

\* Fault: a hit that leaves the element where it is.
Hit_NoMove(c, k, op) ==
  LET r == cache[k]
  IN /\ call[c] = Idle
     /\ r # Nil
     /\ ~Due(r)
     /\ heap' = Refreshed(r)
     /\ call' = [call EXCEPT ![c] = Begun(op, k, r)]
     /\ older' = Cached(Used(k), cache)
     /\ seen' = Observed(r, heap'[r])
     /\ UNCHANGED <<opt, now, cache, lru>>

\* get, an entry is returned; op says who called it.
Hit(c, k, op) ==
  LET r == cache[k]
  IN /\ call[c] = Idle
     /\ r # Nil
     /\ ~Due(r)
     /\ lru'  = MoveToBack(lru, r)
     /\ heap' = Refreshed(r)
     /\ call' = [call EXCEPT ![c] = Begun(op, k, r)]
     /\ older' = Cached(Used(k), cache)
     /\ seen' = Observed(r, heap'[r])
     /\ UNCHANGED <<opt, now, cache>>

\* Get and GetWithExpire after the unlock: the fields of *entry.
ReadValue(c) ==
  /\ Reading(c)
  /\ call[c].value = Nil
  /\ call' = [call EXCEPT ![c].value = heap[call[c].ref].value]
  /\ seen' = [seen EXCEPT ![c] = @ \cup {Pair(heap[call[c].ref])}]
  /\ UNCHANGED <<opt, now, cache, lru, heap, older>>

ReadExpires(c) ==
  /\ call[c].op = "getWithExpire"
  /\ call[c].expires = Nil
  /\ call' = [call EXCEPT ![c].expires = heap[call[c].ref].expires]
  /\ seen' = [seen EXCEPT ![c] = @ \cup {Pair(heap[call[c].ref])}]
  /\ UNCHANGED <<opt, now, cache, lru, heap, older>>

Complete(c) ==
  /\ Reading(c)
  /\ call[c].value # Nil
  /\ call[c].op = "getWithExpire" => call[c].expires # Nil

Return(c) ==
  /\ Complete(c)
  /\ call' = [call EXCEPT ![c] = Idle]
  /\ seen' = [seen EXCEPT ![c] = {}]
  /\ heap' = Collected(heap, lru, call')
  /\ UNCHANGED <<opt, now, cache, lru, older>>

Delete(k) ==
  /\ cache[k] # Nil
  /\ lru'   = ListWithout(lru, cache[k])
  /\ cache' = MapWithout(cache, heap, {cache[k]})
  /\ heap'  = Collected(heap, lru', call)
  /\ older' = Cached(older, cache')
  /\ UNCHANGED <<opt, now, call, seen>>

\* The clock of the machine.
Tick ==
  /\ now < MaxTime
  /\ now' = now + 1
  /\ UNCHANGED <<opt, cache, lru, heap, call, older, seen>>

Next ==
  \/ \E k \in Keys, v \in Values : Set(k, v)
  \/ \E k \in Keys, v \in Values, x \in Expiries : SetWithExpire(k, v, x)
  \/ \E c \in Callers, k \in Keys, op \in {"get", "getWithExpire"} : Hit(c, k, op)
  \/ \E c \in Callers : ReadValue(c) \/ ReadExpires(c) \/ Return(c)
  \/ \E k \in Keys : Expire(k) \/ Delete(k)
  \/ Tick

LruSpec == New /\ [][Next]_vars

-----------------------------------------------------------------------------
(* Properties *)

\* r comes before q in list l.
Before(l, r, q) == \E i, j \in 1 .. Len(l) : i < j /\ l[i] = r /\ l[j] = q

\* lrucache.go 60-61, 130-144, 210-217: map and list describe the same set of
\* entries: each key in the map points to the one element of the list whose
\* entry has that key, and the list holds nothing else.  Eviction, expiry and
\* Delete take an element off both, whatever the order in which they run, and a
\* cache with a maximal length never holds more (lrucache.go 139-143).
Indexed ==
  /\ \A k \in Keys : cache[k] # Nil =>
        /\ heap[cache[k]].key = k
        /\ \E i \in 1 .. Len(lru) : lru[i] = cache[k]
  /\ \A i \in 1 .. Len(lru) : cache[heap[lru[i]].key] = lru[i]
  /\ \A i, j \in 1 .. Len(lru) : lru[i] = lru[j] => i = j
  /\ opt.maxSize > 0 => Len(lru) <= opt.maxSize

\* lrucache.go 53-55: the list is the cached keys in the order of their last
\* use, by Set or by a successful Get, so that what an insertion pushes out is
\* the least recently used.
RecencyOrder ==
  \A a, b \in Keys : <<a, b>> \in older <=> Before(lru, cache[a], cache[b])

\* lrucache.go 88, 103: what Get and GetWithExpire read after the lock is gone
\* is the entry of the key they were asked for, even when that entry has been
\* evicted, has expired or has been deleted in the meantime.
ReadsOwnKey ==
  \A c \in Callers : Reading(c) => heap[call[c].ref].key = call[c].key

\* lrucache.go 53 "LruCache is a thread-safe, in-memory lru-cache": value and
\* expiry GetWithExpire returns belong together.
ReadsStoredPair ==
  \A c \in Callers : call[c].op = "getWithExpire" /\ Complete(c) =>
    <<call[c].value, call[c].expires>> \in seen[c]

-----------------------------------------------------------------------------
(* The inductive invariant *)

Listed(l) == {l[i] : i \in 1 .. Len(l)}

\* The addresses caller c may read through.
Held(c) == IF Reading(c) THEN {call[c].ref} ELSE {}

\* Map and list agree, and no entry that somebody can still reach is reclaimed.
LruInv ==
  /\ LruTypeOK /\ Indexed /\ RecencyOrder /\ ReadsOwnKey
  /\ \A r \in Listed(lru) : heap[r].key \in Keys /\ heap[r].value \in Values
  /\ \A c \in Callers : \A r \in Held(c) : r \in Refs /\ heap[r].value \in Values
=============================================================================
