------------------------------ MODULE LruProofs ------------------------------
(***************************************************************************)
(* Proofs about LruCache: for any keys, values, callers and addresses, and *)
(* for any options.                                                        *)
(***************************************************************************)
EXTENDS LruCache, TLAPS

-----------------------------------------------------------------------------
(* The list *)

Distinct(l) == \A i, j \in 1 .. Len(l) : l[i] = l[j] => i = j

\* w is what is left of the list l, in the same order, without the elements of gone.
LeftOf(w, l, gone) ==
  /\ w \in Seq(Refs) /\ Len(w) <= Len(l)
  /\ Distinct(w)
  /\ Listed(w) = Listed(l) \ gone
  /\ \A a, b \in Listed(w) : Before(w, a, b) <=> Before(l, a, b)

\* A strictly increasing map of the places of w to those of l, which leaves out exactly
\* the places of gone, makes w what is left of l.
LEMMA LeftOfBy ==
  ASSUME NEW l \in Seq(Refs), Distinct(l), NEW w \in Seq(Refs), NEW gone,
         NEW f \in [1 .. Len(w) -> 1 .. Len(l)],
         \A i \in 1 .. Len(w) : w[i] = l[f[i]] /\ l[f[i]] \notin gone,
         \A i, j \in 1 .. Len(w) : i < j => f[i] < f[j],
         \A p \in 1 .. Len(l) : l[p] \notin gone => \E i \in 1 .. Len(w) : f[i] = p,
         Len(w) <= Len(l)
  PROVE  LeftOf(w, l, gone)
<1>1. Len(w) \in Nat /\ Len(l) \in Nat
  OBVIOUS
<1>2. \A i, j \in 1 .. Len(w) : f[i] = f[j] => i = j
  <2> SUFFICES ASSUME NEW i \in 1 .. Len(w), NEW j \in 1 .. Len(w), f[i] = f[j], i # j
               PROVE  FALSE
    OBVIOUS
  <2>1. CASE i < j
    BY <2>1
  <2>2. CASE j < i
    BY <2>2
  <2> QED
    BY <1>1, <2>1, <2>2
<1>3. Distinct(w)
  BY <1>2, SMTT(30) DEF Distinct
<1>4. Listed(w) = Listed(l) \ gone
  <2>1. \A i \in 1 .. Len(w) : w[i] \in Listed(l) \ gone
    BY DEF Listed
  <2>2. ASSUME NEW p \in 1 .. Len(l), l[p] \notin gone
        PROVE  \E i \in 1 .. Len(w) : w[i] = l[p]
    BY <2>2
  <2>3. ASSUME NEW x \in Listed(l) \ gone
        PROVE  x \in Listed(w)
    <3>1. PICK p \in 1 .. Len(l) : x = l[p]
      BY <2>3 DEF Listed
    <3>2. PICK i \in 1 .. Len(w) : w[i] = x
      BY <2>2, <2>3, <3>1
    <3> QED
      BY <3>2 DEF Listed
  <2>4. ASSUME NEW x \in Listed(w)
        PROVE  x \in Listed(l) \ gone
    BY <2>1, <2>4 DEF Listed
  <2> QED
    BY <2>3, <2>4
<1>5. ASSUME NEW a \in Listed(w), NEW b \in Listed(w)
      PROVE  Before(w, a, b) <=> Before(l, a, b)
  <2>1. ASSUME Before(w, a, b)
        PROVE  Before(l, a, b)
    BY <2>1 DEF Before
  <2>2. ASSUME Before(l, a, b)
        PROVE  Before(w, a, b)
    <3>1. PICK i, j \in 1 .. Len(w) : w[i] = a /\ w[j] = b
      BY <1>5 DEF Listed
    <3>2. PICK p, q \in 1 .. Len(l) : p < q /\ l[p] = a /\ l[q] = b
      BY <2>2 DEF Before
    <3>3. f[i] = p /\ f[j] = q
      <4>1. f[i] \in 1 .. Len(l) /\ f[j] \in 1 .. Len(l)
        BY ONLY <3>1, f \in [1 .. Len(w) -> 1 .. Len(l)]
      <4>2. l[f[i]] = l[p] /\ l[f[j]] = l[q]
        BY <3>1, <3>2
      <4> QED
        BY ONLY <3>2, <4>1, <4>2, Distinct(l) DEF Distinct
    <3>4. i # j /\ ~(j < i)
      BY <1>1, <3>2, <3>3
    <3>5. i < j
      BY <1>1, <3>4
    <3> QED
      BY <3>1, <3>5 DEF Before
  <2> QED
    BY <2>1, <2>2
<1> QED
  BY <1>3, <1>4, <1>5 DEF LeftOf

\* The elements of two lists put together.
LEMMA Concatenated ==
  ASSUME NEW a \in Seq(Refs), NEW b \in Seq(Refs)
  PROVE  /\ a \o b \in Seq(Refs) /\ Len(a \o b) = Len(a) + Len(b)
         /\ \A j \in 1 .. Len(a \o b) : (a \o b)[j] = IF j <= Len(a) THEN a[j] ELSE b[j - Len(a)]
OBVIOUS

\* list.Remove takes one element off.
LEMMA Removed ==
  ASSUME NEW l \in Seq(Refs), Distinct(l), NEW r \in Listed(l)
  PROVE  LeftOf(ListWithout(l, r), l, {r}) /\ Len(ListWithout(l, r)) = Len(l) - 1
<1> DEFINE i == CHOOSE i \in 1 .. Len(l) : l[i] = r
           w == ListWithout(l, r)
           f == [j \in 1 .. Len(l) - 1 |-> IF j < i THEN j ELSE j + 1]
<1>1. i \in 1 .. Len(l) /\ l[i] = r /\ Len(l) \in Nat
  BY DEF Listed
<1>2. w = SubSeq(l, 1, i - 1) \o SubSeq(l, i + 1, Len(l))
  BY DEF ListWithout, RemoveAt
<1> HIDE DEF i
<1>3. /\ SubSeq(l, 1, i - 1) \in Seq(Refs) /\ Len(SubSeq(l, 1, i - 1)) = i - 1
      /\ SubSeq(l, i + 1, Len(l)) \in Seq(Refs) /\ Len(SubSeq(l, i + 1, Len(l))) = Len(l) - i
      /\ \A j \in 1 .. i - 1 : SubSeq(l, 1, i - 1)[j] = l[j]
      /\ \A j \in 1 .. Len(l) - i : SubSeq(l, i + 1, Len(l))[j] = l[i + j]
  BY <1>1
<1> DEFINE a == SubSeq(l, 1, i - 1)
           b == SubSeq(l, i + 1, Len(l))
<1> HIDE DEF w, a, b
<1>a. /\ a \in Seq(Refs) /\ b \in Seq(Refs) /\ Len(a) = i - 1 /\ Len(b) = Len(l) - i /\ w = a \o b
      /\ \A j \in 1 .. i - 1 : a[j] = l[j]
      /\ \A j \in 1 .. Len(l) - i : b[j] = l[i + j]
  BY <1>2, <1>3 DEF a, b
<1>b. /\ w \in Seq(Refs) /\ Len(w) = Len(a) + Len(b)
      /\ \A j \in 1 .. Len(w) : w[j] = IF j <= Len(a) THEN a[j] ELSE b[j - Len(a)]
  BY <1>a, Concatenated
<1>4. w \in Seq(Refs) /\ Len(w) = Len(l) - 1
  BY <1>1, <1>a, <1>b
<1>5. \A j \in 1 .. Len(w) : w[j] = l[f[j]]
  <2> SUFFICES ASSUME NEW j \in 1 .. Len(w) PROVE w[j] = l[f[j]]
    OBVIOUS
  <2>1. CASE j < i
    BY <1>1, <1>a, <1>b, <1>4, <2>1
  <2>2. CASE ~(j < i)
    <3>1. j - Len(a) \in 1 .. Len(l) - i /\ i + (j - Len(a)) = j + 1 /\ ~(j <= Len(a))
      BY <1>1, <1>a, <1>4, <2>2
    <3>2. w[j] = l[j + 1]
      BY <1>a, <1>b, <3>1
    <3> QED
      BY <1>4, <2>2, <3>2
  <2> QED
    BY <2>1, <2>2
<1>6. f \in [1 .. Len(w) -> 1 .. Len(l)]
  BY <1>1, <1>4
<1>7. \A j \in 1 .. Len(w) : f[j] # i
  BY <1>1, <1>4
<1>8. \A j \in 1 .. Len(w) : l[f[j]] \notin {r}
  BY <1>1, <1>6, <1>7 DEF Distinct
<1>9. \A j, k \in 1 .. Len(w) : j < k => f[j] < f[k]
  BY <1>1, <1>4
<1>10. \A p \in 1 .. Len(l) : l[p] \notin {r} => \E j \in 1 .. Len(w) : f[j] = p
  <2> SUFFICES ASSUME NEW p \in 1 .. Len(l), l[p] # r PROVE \E j \in 1 .. Len(w) : f[j] = p
    OBVIOUS
  <2>1. CASE p < i
    BY <1>1, <1>4, <2>1, SMTT(30)
  <2>2. CASE p > i
    <3>1. p - 1 \in 1 .. Len(w) /\ f[p - 1] = p
      BY <1>1, <1>4, <2>2
    <3> QED
      BY <3>1
  <2>3. p # i
    BY <1>1
  <2>4. p < i \/ p > i
    BY <1>1, <2>3
  <2> QED
    BY <2>1, <2>2, <2>4
<1>11. Len(w) <= Len(l)
  BY <1>1, <1>4
<1> HIDE DEF f
<1>12. LeftOf(w, l, {r})
  BY <1>4, <1>5, <1>6, <1>8, <1>9, <1>10, <1>11, LeftOfBy, ZenonT(30)
<1> QED
  BY <1>4, <1>12 DEF w

\* Taking the first n elements off.
LEMMA FrontRemoved ==
  ASSUME NEW l \in Seq(Refs), Distinct(l), NEW n \in 0 .. Len(l)
  PROVE  /\ LeftOf(SubSeq(l, n + 1, Len(l)), l, {l[i] : i \in 1 .. n})
         /\ Len(SubSeq(l, n + 1, Len(l))) = Len(l) - n
<1> DEFINE w == SubSeq(l, n + 1, Len(l))
           f == [j \in 1 .. Len(l) - n |-> j + n]
           gone == {l[i] : i \in 1 .. n}
<1>1. w \in Seq(Refs) /\ Len(w) = Len(l) - n /\ Len(l) \in Nat
  OBVIOUS
<1>2. f \in [1 .. Len(w) -> 1 .. Len(l)]
  BY <1>1
<1>3. \A j \in 1 .. Len(w) : w[j] = l[f[j]]
  BY <1>1
<1> HIDE DEF w
<1>4. \A j \in 1 .. Len(w) : l[f[j]] \notin gone
  BY <1>1, <1>2 DEF Distinct
<1>5. \A j, k \in 1 .. Len(w) : j < k => f[j] < f[k]
  BY <1>1
<1>6. \A p \in 1 .. Len(l) : l[p] \notin gone => \E j \in 1 .. Len(w) : f[j] = p
  <2> SUFFICES ASSUME NEW p \in 1 .. Len(l), l[p] \notin gone PROVE \E j \in 1 .. Len(w) : f[j] = p
    OBVIOUS
  <2>1. p > n
    BY <1>1
  <2>2. p - n \in 1 .. Len(w) /\ f[p - n] = p
    BY <1>1, <2>1
  <2> QED
    BY <2>2
<1>7. Len(w) <= Len(l)
  BY <1>1
<1> HIDE DEF f, gone
<1>8. LeftOf(w, l, gone)
  BY <1>1, <1>2, <1>3, <1>4, <1>5, <1>6, <1>7, LeftOfBy
<1> QED
  BY <1>1, <1>8 DEF w, gone

\* PushBack: the new element is behind all others.
LEMMA PushedBack ==
  ASSUME NEW l \in Seq(Refs), Distinct(l), NEW r \in Refs \ Listed(l)
  PROVE  /\ Append(l, r) \in Seq(Refs) /\ Len(Append(l, r)) = Len(l) + 1
         /\ Distinct(Append(l, r))
         /\ Listed(Append(l, r)) = Listed(l) \cup {r}
         /\ \A a, b \in Listed(l) : Before(Append(l, r), a, b) <=> Before(l, a, b)
         /\ \A a \in Listed(l) : Before(Append(l, r), a, r) /\ ~Before(Append(l, r), r, a)
         /\ ~Before(Append(l, r), r, r)
<1> DEFINE w == Append(l, r)
<1>1. /\ Len(l) \in Nat /\ w \in Seq(Refs) /\ Len(w) = Len(l) + 1 /\ w[Len(l) + 1] = r
      /\ \A i \in 1 .. Len(l) : w[i] = l[i] /\ l[i] # r
  BY DEF Listed
<1> HIDE DEF w
<1>2. Distinct(w)
  <2> SUFFICES ASSUME NEW i \in 1 .. Len(w), NEW j \in 1 .. Len(w), w[i] = w[j]
               PROVE  i = j
    BY DEF Distinct
  <2>1. CASE i \in 1 .. Len(l) /\ j \in 1 .. Len(l)
    BY <1>1, <2>1 DEF Distinct
  <2>2. CASE i = Len(l) + 1 \/ j = Len(l) + 1
    BY <1>1, <2>2
  <2> QED
    BY <1>1, <2>1, <2>2
<1>3. Listed(w) = Listed(l) \cup {r}
  <2>1. ASSUME NEW x \in Listed(w)
        PROVE  x \in Listed(l) \cup {r}
    <3>1. PICK i \in 1 .. Len(w) : x = w[i]
      BY <2>1 DEF Listed
    <3>2. i \in 1 .. Len(l) \/ i = Len(l) + 1
      BY <1>1
    <3> QED
      BY <1>1, <3>1, <3>2 DEF Listed
  <2>2. ASSUME NEW x \in Listed(l)
        PROVE  x \in Listed(w)
    <3>1. PICK i \in 1 .. Len(l) : x = l[i]
      BY <2>2 DEF Listed
    <3>2. i \in 1 .. Len(w) /\ w[i] = x
      BY <1>1, <3>1
    <3> QED
      BY <3>2 DEF Listed
  <2>3. r \in Listed(w)
    <3>1. Len(w) \in 1 .. Len(w) /\ w[Len(w)] = r
      BY <1>1
    <3> QED
      BY <3>1 DEF Listed
  <2> QED
    BY <2>1, <2>2, <2>3
<1>4. ASSUME NEW a \in Listed(l), NEW b \in Listed(l)
      PROVE  Before(w, a, b) <=> Before(l, a, b)
  <2>1. a # r /\ b # r
    BY <1>4
  <2>2. ASSUME NEW i \in 1 .. Len(w), w[i] # r
        PROVE  i \in 1 .. Len(l) /\ w[i] = l[i]
    BY <1>1, <2>2
  <2>3. ASSUME NEW i \in 1 .. Len(l)
        PROVE  i \in 1 .. Len(w) /\ w[i] = l[i]
    BY <1>1, <2>3
  <2> QED
    BY <2>1, <2>2, <2>3 DEF Before
<1>5. ASSUME NEW a \in Listed(l)
      PROVE  Before(w, a, r)
  <2>1. PICK i \in 1 .. Len(l) : l[i] = a
    BY <1>5 DEF Listed
  <2>2. i \in 1 .. Len(w) /\ Len(w) \in 1 .. Len(w) /\ i < Len(w) /\ w[i] = a /\ w[Len(w)] = r
    BY <1>1, <2>1
  <2> QED
    BY <2>2 DEF Before
<1>6. ASSUME NEW a
      PROVE  ~Before(w, r, a)
  <2> SUFFICES ASSUME NEW i \in 1 .. Len(w), NEW j \in 1 .. Len(w), i < j, w[i] = r
               PROVE  FALSE
    BY DEF Before
  <2>1. i \in 1 .. Len(l)
    BY <1>1
  <2> QED
    BY <1>1, <2>1
<1> QED
  BY <1>1, <1>2, <1>3, <1>4, <1>5, <1>6 DEF w

-----------------------------------------------------------------------------
(* List, map and entries together *)

\* Map m and list l name the same elements of the heap h, which the cache owns.
Linked(l, m, h) ==
  /\ l \in Seq(Refs) /\ m \in [Keys -> Refs \cup {Nil}] /\ h \in [Refs -> Entry]
  /\ Distinct(l)
  /\ \A k \in Keys : m[k] # Nil => m[k] \in Listed(l) /\ h[m[k]].key = k
  /\ \A r \in Listed(l) : h[r].key \in Keys /\ m[h[r].key] = r /\ h[r].value \in Values

\* The pairs o of keys are in the order of list l.
Ordered(l, m, o) ==
  \A a, b \in Keys : m[a] # Nil /\ m[b] # Nil => (<<a, b>> \in o <=> Before(l, m[a], m[b]))

\* deleteElement, once or several times, keeps list and map together.
LEMMA DeleteLinked ==
  ASSUME NEW l, NEW m, NEW h, NEW o, NEW gone, NEW w,
         Linked(l, m, h), Ordered(l, m, o), gone \subseteq Listed(l), LeftOf(w, l, gone)
  PROVE  Linked(w, MapWithout(m, h, gone), h) /\ Ordered(w, MapWithout(m, h, gone), o)
<1> DEFINE m2 == MapWithout(m, h, gone)
<1>1. m2 \in [Keys -> Refs \cup {Nil}]
  BY DEF Linked, MapWithout
<1>2. ASSUME NEW k \in Keys, m2[k] # Nil
      PROVE  m2[k] = m[k] /\ m[k] \in Listed(w) /\ h[m[k]].key = k
  <2>1. m2[k] = m[k] /\ ~\E r \in gone : h[r].key = k
    BY <1>2 DEF MapWithout
  <2>2. m[k] \in Listed(l) /\ h[m[k]].key = k
    BY <1>2, <2>1 DEF Linked
  <2> QED
    BY <2>1, <2>2 DEF LeftOf
<1>3. ASSUME NEW r \in Listed(w)
      PROVE  h[r].key \in Keys /\ m2[h[r].key] = r /\ h[r].value \in Values
  <2>1. r \in Listed(l) /\ r \notin gone
    BY <1>3 DEF LeftOf
  <2>2. h[r].key \in Keys /\ m[h[r].key] = r /\ h[r].value \in Values
    BY <2>1 DEF Linked
  <2>3. ASSUME NEW q \in gone, h[q].key = h[r].key
        PROVE  FALSE
    BY <2>1, <2>2, <2>3 DEF Linked
  <2> QED
    BY <2>2, <2>3 DEF MapWithout
<1>4. Linked(w, m2, h)
  BY <1>1, <1>2, <1>3 DEF Linked, LeftOf
<1>5. Ordered(w, m2, o)
  <2> SUFFICES ASSUME NEW a \in Keys, NEW b \in Keys, m2[a] # Nil, m2[b] # Nil
               PROVE  <<a, b>> \in o <=> Before(w, m2[a], m2[b])
    BY DEF Ordered
  <2>1. m2[a] = m[a] /\ m2[b] = m[b] /\ m[a] \in Listed(w) /\ m[b] \in Listed(w)
    BY <1>2
  <2>2. <<a, b>> \in o <=> Before(l, m[a], m[b])
    BY <2>1 DEF Ordered
  <2> QED
    BY <2>1, <2>2 DEF LeftOf
<1> QED
  BY <1>4, <1>5

\* A key is used: its element goes to the back.
LEMMA MoveLinked ==
  ASSUME NEW l, NEW m, NEW h, NEW k \in Keys, Linked(l, m, h), Ordered(l, m, older), m[k] # Nil
  PROVE  /\ Linked(MoveToBack(l, m[k]), m, h) /\ Ordered(MoveToBack(l, m[k]), m, Used(k))
         /\ Listed(MoveToBack(l, m[k])) = Listed(l) /\ Len(MoveToBack(l, m[k])) = Len(l)
<1> DEFINE r == m[k]
           u == ListWithout(l, r)
           w == MoveToBack(l, r)
<1>1. l \in Seq(Refs) /\ Distinct(l) /\ r \in Listed(l) /\ r \in Refs /\ h[r].key = k
  BY DEF Linked
<1>2. LeftOf(u, l, {r}) /\ Len(u) = Len(l) - 1
  BY <1>1, Removed
<1>3. u \in Seq(Refs) /\ Distinct(u) /\ r \in Refs \ Listed(u) /\ Listed(u) = Listed(l) \ {r}
  BY <1>1, <1>2 DEF LeftOf
<1>4. w = Append(u, r)
  BY DEF MoveToBack
<1> HIDE DEF u, w, r
<1>5. /\ w \in Seq(Refs) /\ Len(w) = Len(u) + 1 /\ Distinct(w) /\ Listed(w) = Listed(u) \cup {r}
      /\ \A a, b \in Listed(u) : Before(w, a, b) <=> Before(u, a, b)
      /\ \A a \in Listed(u) : Before(w, a, r) /\ ~Before(w, r, a)
      /\ ~Before(w, r, r)
  BY <1>3, <1>4, PushedBack
<1>6. Listed(w) = Listed(l)
  BY <1>1, <1>3, <1>5
<1>7. Linked(w, m, h)
  BY <1>5, <1>6 DEF Linked
<1>8. Ordered(w, m, Used(k))
  <2> SUFFICES ASSUME NEW a \in Keys, NEW b \in Keys, m[a] # Nil, m[b] # Nil
               PROVE  <<a, b>> \in Used(k) <=> Before(w, m[a], m[b])
    BY DEF Ordered
  <2>1. /\ m[a] \in Listed(l) /\ m[b] \in Listed(l) /\ h[m[a]].key = a /\ h[m[b]].key = b
        /\ a # k => m[a] # r
        /\ b # k => m[b] # r
    BY DEF Linked, r
  <2>2. CASE a # k /\ b # k
    <3>1. <<a, b>> \in Used(k) <=> <<a, b>> \in older
      BY <2>2 DEF Used
    <3>2. m[a] \in Listed(u) /\ m[b] \in Listed(u)
      BY <1>3, <2>1, <2>2
    <3>3. Before(w, m[a], m[b]) <=> Before(l, m[a], m[b])
      BY <1>2, <1>5, <3>2 DEF LeftOf
    <3> QED
      BY <3>1, <3>3 DEF Ordered
  <2>3. CASE a # k /\ b = k
    <3>1. <<a, b>> \in Used(k)
      BY <2>3 DEF Used
    <3>2. m[a] \in Listed(u) /\ m[b] = r
      BY <1>3, <2>1, <2>3 DEF r
    <3> QED
      BY <1>5, <3>1, <3>2
  <2>4. CASE a = k
    <3>1. <<a, b>> \notin Used(k)
      BY <2>4 DEF Used
    <3>2. m[a] = r /\ (m[b] \in Listed(u) \/ m[b] = r)
      BY <1>3, <2>1, <2>4 DEF r
    <3> QED
      BY <1>5, <3>1, <3>2
  <2> QED
    BY <2>2, <2>3, <2>4
<1>9. Len(w) = Len(l)
  BY <1>1, <1>2, <1>5
<1> QED
  BY <1>6, <1>7, <1>8, <1>9 DEF w, r

\* Renewing entries does not change which keys they are for.
LEMMA RenewLinked ==
  ASSUME NEW l, NEW m, NEW h, NEW h2 \in [Refs -> Entry], Linked(l, m, h),
         \A r \in Listed(l) : h2[r].key = h[r].key /\ h2[r].value \in Values
  PROVE  Linked(l, m, h2)
BY DEF Linked, Listed

\* A new entry for a key that is not cached goes to the back.
LEMMA PushLinked ==
  ASSUME NEW l, NEW m, NEW h, NEW k \in Keys, NEW v \in Values, NEW x \in Int,
         NEW r \in Refs \ Listed(l),
         Linked(l, m, h), Ordered(l, m, older), m[k] = Nil
  PROVE  LET h2 == [h EXCEPT ![r] = [key |-> k, value |-> v, expires |-> x]]
             m2 == [m EXCEPT ![k] = r]
         IN  Linked(Append(l, r), m2, h2) /\ Ordered(Append(l, r), m2, Used(k))
<1> DEFINE h2 == [h EXCEPT ![r] = [key |-> k, value |-> v, expires |-> x]]
           m2 == [m EXCEPT ![k] = r]
           w  == Append(l, r)
<1>1. l \in Seq(Refs) /\ Distinct(l) /\ m \in [Keys -> Refs \cup {Nil}] /\ h \in [Refs -> Entry]
  BY DEF Linked
<1>2. /\ w \in Seq(Refs) /\ Distinct(w) /\ Listed(w) = Listed(l) \cup {r}
      /\ \A a, b \in Listed(l) : Before(w, a, b) <=> Before(l, a, b)
      /\ \A a \in Listed(l) : Before(w, a, r) /\ ~Before(w, r, a)
      /\ ~Before(w, r, r)
  BY <1>1, PushedBack
<1>3. /\ h2 \in [Refs -> Entry] /\ h2[r].key = k /\ h2[r].value = v
      /\ \A q \in Refs \ {r} : h2[q] = h[q]
  BY <1>1 DEF Entry
<1>4. /\ m2 \in [Keys -> Refs \cup {Nil}] /\ m2[k] = r
      /\ \A a \in Keys \ {k} : m2[a] = m[a]
  BY <1>1
<1>5. Listed(l) \subseteq Refs \ {r} /\ r # Nil
  BY <1>1, RefsAssumption DEF Listed
<1> HIDE DEF h2, m2, w
<1>6. ASSUME NEW a \in Keys \ {k}, m2[a] # Nil
      PROVE  m2[a] = m[a] /\ m[a] \in Listed(l) /\ h2[m[a]].key = a
  BY <1>3, <1>4, <1>5, <1>6 DEF Linked
<1>7. ASSUME NEW q \in Listed(l)
      PROVE  h2[q].key \in Keys /\ m2[h2[q].key] = q /\ h2[q].value \in Values
  <2>1. h2[q] = h[q] /\ h[q].key \in Keys /\ m[h[q].key] = q /\ h[q].value \in Values /\ q # Nil
    BY <1>3, <1>5, RefsAssumption DEF Linked
  <2>2. h[q].key # k
    BY <2>1
  <2> QED
    BY <1>4, <2>1, <2>2
<1>8. Linked(w, m2, h2)
  BY <1>2, <1>3, <1>4, <1>5, <1>6, <1>7 DEF Linked
<1>9. Ordered(w, m2, Used(k))
  <2> SUFFICES ASSUME NEW a \in Keys, NEW b \in Keys, m2[a] # Nil, m2[b] # Nil
               PROVE  <<a, b>> \in Used(k) <=> Before(w, m2[a], m2[b])
    BY DEF Ordered
  <2>1. CASE a # k /\ b # k
    <3>1. <<a, b>> \in Used(k) <=> <<a, b>> \in older
      BY <2>1 DEF Used
    <3> QED
      BY <1>2, <1>6, <2>1, <3>1 DEF Ordered
  <2>2. CASE a # k /\ b = k
    <3>1. <<a, b>> \in Used(k)
      BY <2>2 DEF Used
    <3> QED
      BY <1>2, <1>4, <1>6, <2>2, <3>1
  <2>3. CASE a = k
    <3>1. <<a, b>> \notin Used(k)
      BY <2>3 DEF Used
    <3> QED
      BY <1>2, <1>4, <1>6, <2>3, <3>1
  <2> QED
    BY <2>1, <2>2, <2>3
<1> QED
  BY <1>8, <1>9 DEF h2, m2, w

-----------------------------------------------------------------------------
(* The steps *)

\* With heap h, what the callers cl hold are entries of the keys they have asked for.
Holding(cl, h) ==
  \A c \in Callers : cl[c].op # "idle" =>
    cl[c].ref \in Refs /\ h[cl[c].ref].key = cl[c].key /\ h[cl[c].ref].value \in Values

\* The collector leaves alone what the list or a caller points to.
LEMMA CollectLinked ==
  ASSUME NEW l, NEW m, NEW h, NEW cl, Linked(l, m, h), Holding(cl, h)
  PROVE  Linked(l, m, Collected(h, l, cl)) /\ Holding(cl, Collected(h, l, cl))
<1> DEFINE h2 == Collected(h, l, cl)
<1>1. h \in [Refs -> Entry] /\ Blank \in Entry /\ l \in Seq(Refs)
  BY DEF Linked, Blank, Entry
<1>2. h2 \in [Refs -> Entry]
  BY <1>1 DEF Collected
<1>3. \A r \in Listed(l) : r \in Refs /\ h2[r] = h[r]
  BY <1>1 DEF Collected, FreeIn, Listed
<1>4. \A c \in Callers : cl[c].ref \in Refs => h2[cl[c].ref] = h[cl[c].ref]
  BY DEF Collected, FreeIn
<1>5. Linked(l, m, h2)
  <2>1. \A r \in Listed(l) : h2[r].key = h[r].key /\ h2[r].value \in Values
    BY <1>3 DEF Linked
  <2> QED
    BY <1>2, <2>1, RenewLinked
<1>6. Holding(cl, h2)
  BY <1>4 DEF Holding
<1> QED
  BY <1>5, <1>6

\* maybeDeleteOldest takes a piece of the front off list and map.
LEMMA OldestLinked ==
  ASSUME NEW l, NEW m, NEW h, NEW o, Linked(l, m, h), Ordered(l, m, o), Holding(call, h),
         maybeDeleteOldest(l, m, h)
  PROVE  /\ Linked(lru', cache', heap') /\ Ordered(lru', cache', o) /\ Holding(call, heap')
         /\ Len(lru') <= Len(l)
<1>1. PICK n \in 0 .. Len(l) :
        /\ lru' = SubSeq(l, n + 1, Len(l))
        /\ cache' = MapWithout(m, h, {l[i] : i \in 1 .. n})
        /\ heap' = Collected(h, lru', call)
  BY DEF maybeDeleteOldest
<1> DEFINE gone == {l[i] : i \in 1 .. n}
<1>2. l \in Seq(Refs) /\ Distinct(l) /\ Len(l) \in Nat
  BY DEF Linked
<1>3. LeftOf(lru', l, gone)
  BY <1>1, <1>2, FrontRemoved
<1>4. gone \subseteq Listed(l)
  BY <1>2 DEF Listed
<1>5. cache' = MapWithout(m, h, gone)
  BY <1>1
<1> HIDE DEF gone
<1>6. Linked(lru', cache', h) /\ Ordered(lru', cache', o)
  BY <1>3, <1>4, <1>5, DeleteLinked
<1>7. Linked(lru', cache', heap') /\ Holding(call, heap')
  BY <1>1, <1>6, CollectLinked
<1> QED
  BY <1>3, <1>6, <1>7 DEF LeftOf

\* The invariant in these terms.
LEMMA InvLinked ==
  ASSUME LruInv
  PROVE  Linked(lru, cache, heap) /\ Ordered(lru, cache, older) /\ Holding(call, heap)
<1>1. /\ lru \in Seq(Refs) /\ cache \in [Keys -> Refs \cup {Nil}] /\ heap \in [Refs -> Entry]
      /\ Distinct(lru)
  BY DEF LruInv, LruTypeOK, Indexed, Distinct
<1>2. \A k \in Keys : cache[k] # Nil => cache[k] \in Listed(lru) /\ heap[cache[k]].key = k
  BY DEF LruInv, Indexed, Listed
<1>3. \A r \in Listed(lru) : heap[r].key \in Keys /\ heap[r].value \in Values
  BY DEF LruInv
<1>4. \A r \in Listed(lru) : cache[heap[r].key] = r
  BY DEF LruInv, Indexed, Listed
<1>5. Linked(lru, cache, heap)
  BY <1>1, <1>2, <1>3, <1>4 DEF Linked
<1>6. Ordered(lru, cache, older)
  BY DEF LruInv, RecencyOrder, Ordered
<1>7. Holding(call, heap)
  BY DEF LruInv, ReadsOwnKey, Held, Reading, Holding
<1> QED
  BY <1>5, <1>6, <1>7

\* The same for the next state, from what the steps establish.
LEMMA LinkedInv ==
  ASSUME opt' \in Options, now' \in 0 .. MaxTime, call' \in [Callers -> Calls],
         seen' \in [Callers -> SUBSET (Values \X Int)],
         Linked(lru', cache', heap'), Holding(call', heap'),
         NEW o \in SUBSET (Keys \X Keys), Ordered(lru', cache', o), older' = Cached(o, cache'),
         opt'.maxSize > 0 => Len(lru') <= opt'.maxSize
  PROVE  LruInv'
<1>1. older' \subseteq Keys \X Keys
  BY DEF Cached
<1>2. LruTypeOK'
  BY <1>1 DEF LruTypeOK, Linked
<1>3. Indexed'
  <2>1. \A k \in Keys : cache'[k] # Nil =>
           /\ heap'[cache'[k]].key = k
           /\ \E i \in 1 .. Len(lru') : lru'[i] = cache'[k]
    BY DEF Linked, Listed
  <2>2. \A i \in 1 .. Len(lru') : cache'[heap'[lru'[i]].key] = lru'[i]
    BY DEF Linked, Listed
  <2>3. \A i, j \in 1 .. Len(lru') : lru'[i] = lru'[j] => i = j
    BY DEF Linked, Distinct
  <2> QED
    BY <2>1, <2>2, <2>3 DEF Indexed
<1>4. RecencyOrder'
  <2> SUFFICES ASSUME NEW a \in Keys, NEW b \in Keys
               PROVE  <<a, b>> \in older' <=> Before(lru', cache'[a], cache'[b])
    BY DEF RecencyOrder, Before
  <2>1. CASE cache'[a] # Nil /\ cache'[b] # Nil
    <3>1. <<a, b>> \in older' <=> <<a, b>> \in o
      BY <2>1 DEF Cached
    <3> QED
      BY <2>1, <3>1 DEF Ordered
  <2>2. CASE cache'[a] = Nil \/ cache'[b] = Nil
    <3>1. <<a, b>> \notin older'
      BY <2>2 DEF Cached
    <3>2. \A i \in 1 .. Len(lru') : lru'[i] # Nil
      BY RefsAssumption DEF Linked
    <3> QED
      BY <2>2, <3>1, <3>2 DEF Before
  <2> QED
    BY <2>1, <2>2
<1>5. ReadsOwnKey'
  BY DEF ReadsOwnKey, Reading, Holding
<1>6. \A r \in Listed(lru') : heap'[r].key \in Keys /\ heap'[r].value \in Values
  BY DEF Linked
<1>7. \A c \in Callers : \A r \in Held(c)' : r \in Refs /\ heap'[r].value \in Values
  BY DEF Held, Reading, Holding
<1> QED
  BY <1>2, <1>3, <1>4, <1>5, <1>6, <1>7 DEF LruInv, Listed

\* What the invariant says of the other variables.
LEMMA InvTypes ==
  ASSUME LruInv
  PROVE  /\ opt \in Options /\ opt.maxSize \in Nat /\ opt.maxAge \in Nat /\ now \in 0 .. MaxTime
         /\ now \in Nat /\ call \in [Callers -> Calls] /\ older \in SUBSET (Keys \X Keys)
         /\ seen \in [Callers -> SUBSET (Values \X Int)]
         /\ opt.maxSize > 0 => Len(lru) <= opt.maxSize
BY OptionsAssumption, TimeAssumption DEF LruInv, LruTypeOK, Indexed

\* A use of a key leaves the order of use one between keys.
LEMMA UsedType ==
  ASSUME older \in SUBSET (Keys \X Keys), NEW k \in Keys
  PROVE  Used(k) \in SUBSET (Keys \X Keys)
BY DEF Used

\* Entry r gets a value and an expiry; its key and everything else stays.
LEMMA Renewed ==
  ASSUME NEW r \in Refs, Linked(lru, cache, heap), Holding(call, heap), NEW h \in [Refs -> Entry],
         h[r].key = heap[r].key, h[r].value \in Values,
         \A q \in Refs \ {r} : h[q] = heap[q]
  PROVE  Linked(lru, cache, h) /\ Holding(call, h) /\ Pair(h[r]) \in Values \X Int
<1>1. Holding(call, h)
  BY DEF Holding
<1>2. Pair(h[r]) \in Values \X Int
  BY DEF Pair, Entry
<1>3. Listed(lru) \subseteq Refs
  BY DEF Linked, Listed
<1>4. \A q \in Listed(lru) : h[q].key = heap[q].key /\ h[q].value \in Values
  BY <1>3 DEF Linked
<1> QED
  BY <1>1, <1>2, <1>4, RenewLinked

\* What readers have seen are pairs of a value and an expiry.
LEMMA ObservedType ==
  ASSUME seen \in [Callers -> SUBSET (Values \X Int)], NEW r, NEW e, Pair(e) \in Values \X Int
  PROVE  Observed(r, e) \in [Callers -> SUBSET (Values \X Int)]
BY DEF Observed

\* SetWithExpire on a key that is cached.
LEMMA OverwriteInv ==
  ASSUME LruInv, NEW k \in Keys, NEW v \in Values, NEW x \in Int, Overwrite(k, v, x)
  PROVE  LruInv'
<1> DEFINE r == cache[k]
           h == [heap EXCEPT ![r].value = v, ![r].expires = x]
           l == MoveToBack(lru, r)
<1>1. /\ r # Nil /\ maybeDeleteOldest(l, cache, h)
      /\ older' = Cached(Used(k), cache') /\ seen' = Observed(r, h[r])
      /\ UNCHANGED <<opt, now, call>>
  BY DEF Overwrite
<1>2. Linked(lru, cache, heap) /\ Ordered(lru, cache, older) /\ Holding(call, heap)
  BY InvLinked
<1>3. r \in Refs /\ heap \in [Refs -> Entry] /\ heap[r] \in Entry
  BY <1>1, <1>2 DEF Linked
<1>4. h[r].key = heap[r].key /\ h[r].value = v /\ h[r] \in Entry
  BY <1>3 DEF Entry
<1>5. h \in [Refs -> Entry] /\ \A q \in Refs \ {r} : h[q] = heap[q]
  BY <1>3, <1>4
<1> HIDE DEF h
<1>6. Linked(lru, cache, h) /\ Holding(call, h) /\ Pair(h[r]) \in Values \X Int
  BY <1>2, <1>3, <1>4, <1>5, Renewed
<1>7. Linked(l, cache, h) /\ Ordered(l, cache, Used(k)) /\ Len(l) = Len(lru)
  BY <1>1, <1>2, <1>6, MoveLinked
<1> HIDE DEF l, r
<1>8. /\ Linked(lru', cache', heap') /\ Ordered(lru', cache', Used(k)) /\ Holding(call, heap')
      /\ Len(lru') <= Len(l)
  BY <1>1, <1>6, <1>7, OldestLinked
<1>9. opt.maxSize > 0 => Len(lru') <= opt.maxSize
  <2>1. Len(lru') \in Nat /\ Len(lru) \in Nat /\ opt.maxSize \in Nat /\ (opt.maxSize > 0 => Len(lru) <= opt.maxSize)
    BY <1>2, <1>8, InvTypes DEF Linked
  <2> QED
    BY <1>7, <1>8, <2>1
<1>10. seen' \in [Callers -> SUBSET (Values \X Int)]
  BY <1>1, <1>6, InvTypes, ObservedType
<1>11. Used(k) \in SUBSET (Keys \X Keys)
  BY InvTypes, UsedType
<1> QED
  BY <1>1, <1>8, <1>9, <1>10, <1>11, InvTypes, LinkedInv

\* SetWithExpire on a key that is not.
LEMMA InsertInv ==
  ASSUME LruInv, NEW k \in Keys, NEW v \in Values, NEW x \in Int, Insert(k, v, x)
  PROVE  LruInv'
<1>0. PICK r \in Fresh :
        LET h == [heap EXCEPT ![r] = [key |-> k, value |-> v, expires |-> x]]
            l == Append(lru, r)
            m == [cache EXCEPT ![k] = r]
        IN  /\ cache[k] = Nil
            /\ IF opt.maxSize > 0 /\ Len(l) > opt.maxSize
                 THEN maybeDeleteOldest(Tail(l), MapWithout(m, h, {Head(l)}), h)
                 ELSE maybeDeleteOldest(l, m, h)
            /\ older' = Cached(Used(k), cache')
            /\ UNCHANGED <<opt, now, call, seen>>
  BY DEF Insert
<1> DEFINE h == [heap EXCEPT ![r] = [key |-> k, value |-> v, expires |-> x]]
           l == Append(lru, r)
           m == [cache EXCEPT ![k] = r]
<1>1. Linked(lru, cache, heap) /\ Ordered(lru, cache, older) /\ Holding(call, heap)
  BY InvLinked
<1>2. r \in Refs \ Listed(lru) /\ \A c \in Callers : call[c].ref # r
  BY DEF Fresh, FreeIn, Listed
<1>3. Linked(l, m, h) /\ Ordered(l, m, Used(k))
  BY <1>0, <1>1, <1>2, PushLinked
<1>4. Holding(call, h)
  BY <1>1, <1>2 DEF Holding, Linked
<1>5. Len(l) = Len(lru) + 1 /\ Len(lru) \in Nat /\ Len(l) \in Nat /\ opt.maxSize \in Nat
  BY <1>1, InvTypes DEF Linked
<1>6. /\ IF opt.maxSize > 0 /\ Len(l) > opt.maxSize
           THEN maybeDeleteOldest(Tail(l), MapWithout(m, h, {Head(l)}), h)
           ELSE maybeDeleteOldest(l, m, h)
      /\ older' = Cached(Used(k), cache')
      /\ UNCHANGED <<opt, now, call, seen>>
  BY <1>0
<1> HIDE DEF h, l, m
<1>7. CASE ~(opt.maxSize > 0 /\ Len(l) > opt.maxSize)
  <2>1. /\ Linked(lru', cache', heap') /\ Ordered(lru', cache', Used(k)) /\ Holding(call, heap')
        /\ Len(lru') <= Len(l)
    BY <1>3, <1>4, <1>6, <1>7, OldestLinked
  <2>2. opt.maxSize > 0 => Len(lru') <= opt.maxSize
    BY <1>5, <1>7, <2>1 DEF Linked
  <2> QED
    BY <1>6, <2>1, <2>2, InvTypes, LinkedInv, UsedType
<1>8. CASE opt.maxSize > 0 /\ Len(l) > opt.maxSize
  <2> DEFINE w == Tail(l)
  <2>1. l \in Seq(Refs) /\ Distinct(l) /\ Len(l) >= 1
    BY <1>3, <1>5 DEF Linked
  <2>2. w = SubSeq(l, 1 + 1, Len(l)) /\ {l[i] : i \in 1 .. 1} = {Head(l)}
    BY <2>1
  <2>3. 1 \in 0 .. Len(l)
    BY <1>5, <2>1
  <2>4. LeftOf(w, l, {Head(l)}) /\ Len(w) = Len(l) - 1
    BY <2>1, <2>2, <2>3, FrontRemoved
  <2>5. {Head(l)} \subseteq Listed(l)
    BY <2>1 DEF Listed
  <2> HIDE DEF w
  <2> DEFINE m2 == MapWithout(m, h, {Head(l)})
  <2>6. Linked(w, m2, h) /\ Ordered(w, m2, Used(k))
    BY <1>3, <2>4, <2>5, DeleteLinked
  <2>7. maybeDeleteOldest(w, m2, h)
    BY <1>6, <1>8 DEF w
  <2> HIDE DEF m2
  <2>8. /\ Linked(lru', cache', heap') /\ Ordered(lru', cache', Used(k)) /\ Holding(call, heap')
        /\ Len(lru') <= Len(w)
    BY <1>4, <2>6, <2>7, OldestLinked
  <2>9. opt.maxSize > 0 => Len(lru') <= opt.maxSize
    <3>1. Len(lru') \in Nat /\ (opt.maxSize > 0 => Len(lru) <= opt.maxSize)
      BY <2>8, InvTypes DEF Linked
    <3> QED
      BY <1>5, <2>4, <2>8, <3>1
  <2> QED
    BY <1>6, <2>8, <2>9, InvTypes, LinkedInv, UsedType
<1> QED
  BY <1>7, <1>8

\* get on an entry that is due, and Delete.
LEMMA ExpireInv ==
  ASSUME LruInv, NEW k \in Keys, Expire(k) \/ Delete(k)
  PROVE  LruInv'
<1> DEFINE r == cache[k]
           l == ListWithout(lru, r)
           m == MapWithout(cache, heap, {r})
<1>1. r # Nil /\ older' = Cached(older, cache') /\ UNCHANGED <<opt, now, call, seen>>
  BY DEF Expire, Delete
<1>2. Linked(lru, cache, heap) /\ Ordered(lru, cache, older) /\ Holding(call, heap)
  BY InvLinked
<1>3. lru \in Seq(Refs) /\ Distinct(lru) /\ r \in Listed(lru) /\ {r} \subseteq Listed(lru)
  BY <1>1, <1>2 DEF Linked
<1>4. LeftOf(l, lru, {r}) /\ Len(l) = Len(lru) - 1
  BY <1>3, Removed
<1>5. Linked(l, m, heap) /\ Ordered(l, m, older)
  BY <1>2, <1>3, <1>4, DeleteLinked
<1>6. maybeDeleteOldest(l, m, heap) \/ (lru' = l /\ cache' = m /\ heap' = Collected(heap, lru', call))
  BY DEF Expire, Delete
<1> HIDE DEF r, l, m
<1>7. /\ Linked(lru', cache', heap') /\ Ordered(lru', cache', older) /\ Holding(call, heap')
      /\ Len(lru') <= Len(l)
  <2>1. CASE maybeDeleteOldest(l, m, heap)
    BY <1>2, <1>5, <2>1, OldestLinked
  <2>2. CASE lru' = l /\ cache' = m /\ heap' = Collected(heap, lru', call)
    <3>1. Linked(lru', cache', heap') /\ Holding(call, heap')
      BY <1>2, <1>5, <2>2, CollectLinked
    <3>2. Len(lru') <= Len(l)
      BY <1>5, <2>2 DEF Linked
    <3> QED
      BY <1>5, <2>2, <3>1, <3>2
  <2> QED
    BY <1>6, <2>1, <2>2
<1>8. opt.maxSize > 0 => Len(lru') <= opt.maxSize
  <2>1. /\ Len(lru') \in Nat /\ Len(lru) \in Nat /\ opt.maxSize \in Nat
        /\ opt.maxSize > 0 => Len(lru) <= opt.maxSize
    BY <1>2, <1>7, InvTypes DEF Linked
  <2> QED
    BY <1>4, <1>7, <2>1
<1> QED
  BY <1>1, <1>7, <1>8, InvTypes, LinkedInv

\* get on an entry that is returned: the caller holds the entry of the key it asked for.
LEMMA HitInv ==
  ASSUME LruInv, NEW c \in Callers, NEW k \in Keys, NEW op \in {"get", "getWithExpire"}, Hit(c, k, op)
  PROVE  LruInv'
<1> DEFINE r == cache[k]
<1>1. /\ r # Nil /\ lru' = MoveToBack(lru, r) /\ heap' = Refreshed(r)
      /\ call' = [call EXCEPT ![c] = Begun(op, k, r)] /\ older' = Cached(Used(k), cache)
      /\ seen' = Observed(r, heap'[r]) /\ UNCHANGED <<opt, now, cache>>
  BY DEF Hit
<1>2. Linked(lru, cache, heap) /\ Ordered(lru, cache, older) /\ Holding(call, heap)
  BY InvLinked
<1>3. r \in Refs /\ heap \in [Refs -> Entry] /\ heap[r] \in Entry /\ heap[r].key = k /\ heap[r].value \in Values
  BY <1>1, <1>2 DEF Linked
<1>4. heap'[r].key = heap[r].key /\ heap'[r].value \in Values /\ heap'[r] \in Entry
  BY <1>1, <1>3, InvTypes DEF Refreshed, Entry
<1>5. heap' \in [Refs -> Entry] /\ \A q \in Refs \ {r} : heap'[q] = heap[q]
  BY <1>1, <1>3, <1>4 DEF Refreshed
<1>6. Linked(lru, cache, heap') /\ Holding(call, heap') /\ Pair(heap'[r]) \in Values \X Int
  BY <1>2, <1>3, <1>4, <1>5, Renewed
<1>7. Linked(lru', cache', heap') /\ Ordered(lru', cache', Used(k)) /\ Len(lru') = Len(lru)
  BY <1>1, <1>2, <1>6, MoveLinked
<1>8. call \in [Callers -> Calls] /\ Begun(op, k, r) \in Calls
  BY <1>3, InvTypes DEF Begun, Calls
<1>9. call' \in [Callers -> Calls]
  BY <1>1, <1>8
<1>10. Holding(call', heap')
  <2> SUFFICES ASSUME NEW d \in Callers, call'[d].op # "idle"
               PROVE  /\ call'[d].ref \in Refs /\ heap'[call'[d].ref].key = call'[d].key
                      /\ heap'[call'[d].ref].value \in Values
    BY DEF Holding
  <2>1. CASE d = c
    <3>1. call'[d] = Begun(op, k, r)
      BY <1>1, <1>8, <2>1
    <3>2. call'[d].ref = r /\ call'[d].key = k
      BY <3>1 DEF Begun
    <3> QED
      BY <1>3, <1>4, <3>2
  <2>2. CASE d # c
    <3>1. call'[d] = call[d]
      BY <1>1, <1>8, <2>2
    <3> QED
      BY <1>6, <3>1 DEF Holding
  <2> QED
    BY <2>1, <2>2
<1>11. seen' \in [Callers -> SUBSET (Values \X Int)]
  BY <1>1, <1>6, InvTypes, ObservedType
<1>12. opt'.maxSize > 0 => Len(lru') <= opt'.maxSize
  BY <1>1, <1>7, InvTypes
<1> QED
  BY <1>1, <1>7, <1>9, <1>10, <1>11, <1>12, InvTypes, LinkedInv, UsedType

\* Only cached keys are ordered.
LEMMA OlderCached ==
  ASSUME LruInv
  PROVE  older = Cached(older, cache)
<1>1. ASSUME NEW a \in Keys, NEW b \in Keys, <<a, b>> \in older
      PROVE  cache[a] # Nil /\ cache[b] # Nil
  <2>1. Before(lru, cache[a], cache[b])
    BY <1>1 DEF LruInv, RecencyOrder
  <2> QED
    BY <2>1, InvLinked, RefsAssumption DEF Before, Linked
<1> QED
  BY <1>1, InvTypes DEF Cached

\* The reads after the unlock change nothing of the cache.
LEMMA ReadInv ==
  ASSUME LruInv, NEW c \in Callers, ReadValue(c) \/ ReadExpires(c)
  PROVE  LruInv'
<1>1. Linked(lru, cache, heap) /\ Ordered(lru, cache, older) /\ Holding(call, heap)
  BY InvLinked
<1>2. /\ UNCHANGED <<opt, now, cache, lru, heap, older>>
      /\ seen' = [seen EXCEPT ![c] = @ \cup {Pair(heap[call[c].ref])}]
  BY DEF ReadValue, ReadExpires
<1>3. call[c].op # "idle" /\ call[c] \in Calls /\ call \in [Callers -> Calls]
  BY InvTypes DEF ReadValue, ReadExpires, Reading
<1>4. call[c].ref \in Refs /\ heap[call[c].ref] \in Entry /\ heap[call[c].ref].value \in Values
  BY <1>1, <1>3 DEF Holding, Linked
<1> DEFINE e == heap[call[c].ref]
<1>5. e.value \in Values /\ e.expires \in Int
  BY <1>4 DEF Entry
<1>6. Pair(e) \in Values \X Int
  BY <1>5 DEF Pair
<1> HIDE DEF e
<1>7. /\ call'[c] \in Calls /\ call'[c].ref = call[c].ref /\ call'[c].key = call[c].key
      /\ call' \in [Callers -> Calls] /\ \A d \in Callers \ {c} : call'[d] = call[d]
  <2>1. CASE call' = [call EXCEPT ![c].value = e.value]
    <3>1. call'[c] \in Calls /\ call'[c].ref = call[c].ref /\ call'[c].key = call[c].key
      BY <1>3, <1>5, <2>1 DEF Calls
    <3> QED
      BY <1>3, <2>1, <3>1
  <2>2. CASE call' = [call EXCEPT ![c].expires = e.expires]
    <3>1. call'[c] \in Calls /\ call'[c].ref = call[c].ref /\ call'[c].key = call[c].key
      BY <1>3, <1>5, <2>2 DEF Calls
    <3> QED
      BY <1>3, <2>2, <3>1
  <2> QED
    BY <2>1, <2>2 DEF ReadValue, ReadExpires, e
<1>8. Holding(call', heap')
  BY <1>1, <1>2, <1>3, <1>7 DEF Holding
<1>9. seen' \in [Callers -> SUBSET (Values \X Int)]
  BY <1>2, <1>6, InvTypes DEF e
<1>10. Linked(lru', cache', heap') /\ Ordered(lru', cache', older)
  BY <1>1, <1>2
<1>11. older' = Cached(older, cache')
  BY <1>2, OlderCached
<1> QED
  BY <1>2, <1>7, <1>8, <1>9, <1>10, <1>11, InvTypes, LinkedInv

\* Get and GetWithExpire return: the collector may reclaim what they held.
LEMMA ReturnInv ==
  ASSUME LruInv, NEW c \in Callers, Return(c)
  PROVE  LruInv'
<1>1. /\ call' = [call EXCEPT ![c] = Idle] /\ seen' = [seen EXCEPT ![c] = {}]
      /\ heap' = Collected(heap, lru, call') /\ UNCHANGED <<opt, now, cache, lru, older>>
  BY DEF Return
<1>2. Linked(lru, cache, heap) /\ Ordered(lru, cache, older) /\ Holding(call, heap)
  BY InvLinked
<1>3. call \in [Callers -> Calls] /\ Idle \in Calls /\ Idle.op = "idle"
  BY InvTypes DEF Idle, Calls
<1>4. /\ call' \in [Callers -> Calls] /\ call'[c] = Idle
      /\ \A d \in Callers \ {c} : call'[d] = call[d]
  BY <1>1, <1>3
<1>5. Holding(call', heap)
  BY <1>2, <1>3, <1>4 DEF Holding
<1>6. Linked(lru', cache', heap') /\ Holding(call', heap')
  BY <1>1, <1>2, <1>5, CollectLinked
<1>7. seen' \in [Callers -> SUBSET (Values \X Int)]
  BY <1>1, InvTypes
<1>8. Ordered(lru', cache', older) /\ older' = Cached(older, cache')
  BY <1>1, <1>2, OlderCached
<1> QED
  BY <1>1, <1>4, <1>6, <1>7, <1>8, InvTypes, LinkedInv

\* Every step keeps the invariant.
LEMMA LruStep ==
  ASSUME LruInv, [Next]_vars
  PROVE  LruInv'
<1>1. ASSUME NEW k \in Keys, NEW v \in Values, Set(k, v)
      PROVE  LruInv'
  <2>1. PICK x \in Int : SetWithExpire(k, v, x)
    <3>1. opt.maxAge \in Nat /\ now \in Nat
      BY InvTypes
    <3>2. CASE opt.maxAge > 0
      <4>1. PICK u \in 0 .. now : SetWithExpire(k, v, u + opt.maxAge)
        BY <1>1, <3>2 DEF Set
      <4> QED
        BY <3>1, <4>1
    <3>3. CASE ~(opt.maxAge > 0)
      BY <1>1, <3>3 DEF Set
    <3> QED
      BY <3>2, <3>3
  <2> QED
    BY <2>1, OverwriteInv, InsertInv DEF SetWithExpire
<1>2. ASSUME NEW k \in Keys, NEW v \in Values, NEW x \in Expiries, SetWithExpire(k, v, x)
      PROVE  LruInv'
  <2>1. x \in Int
    BY ExpiriesAssumption
  <2> QED
    BY <1>2, <2>1, OverwriteInv, InsertInv DEF SetWithExpire
<1>3. CASE Tick \/ UNCHANGED vars
  <2>1. /\ now' \in 0 .. MaxTime
        /\ UNCHANGED <<opt, cache, lru, heap, call, older, seen>>
    BY <1>3, InvTypes, TimeAssumption DEF Tick, vars
  <2>2. Linked(lru', cache', heap') /\ Ordered(lru', cache', older) /\ Holding(call', heap')
    BY <2>1, InvLinked
  <2>3. older' = Cached(older, cache')
    BY <2>1, OlderCached
  <2> QED
    BY <2>1, <2>2, <2>3, InvTypes, LinkedInv
<1> QED
  BY <1>1, <1>2, <1>3, HitInv, ReadInv, ReturnInv, ExpireInv DEF Next

-----------------------------------------------------------------------------
(* The theorems *)

\* The invariant holds in every reachable state of the cache.
THEOREM LruInvariance == LruSpec => []LruInv
<1>1. New => LruInv
  <2> SUFFICES ASSUME New PROVE LruInv
    OBVIOUS
  <2>1. LruTypeOK
    <3>1. Idle \in Calls /\ Blank \in Entry /\ 0 \in 0 .. MaxTime
      BY TimeAssumption DEF Idle, Calls, Blank, Entry
    <3> QED
      BY <3>1 DEF New, LruTypeOK
  <2>2. Indexed
    BY OptionsAssumption DEF New, Indexed
  <2>3. RecencyOrder
    BY DEF New, RecencyOrder, Before
  <2>4. ReadsOwnKey /\ \A c \in Callers : Held(c) = {}
    BY DEF New, ReadsOwnKey, Held, Reading, Idle
  <2>5. Listed(lru) = {}
    BY DEF New, Listed
  <2> QED
    BY <2>1, <2>2, <2>3, <2>4, <2>5 DEF LruInv
<1> QED
  BY <1>1, LruStep, PTL DEF LruSpec

\* Map and list of the cache name the same entries after any sequence of operations, and
\* a cache with a maximal size never holds more (lrucache.go 124-147, 166-217).
THEOREM CacheIndexed == LruSpec => []Indexed
<1>1. LruInv => Indexed
  BY DEF LruInv
<1> QED
  BY <1>1, LruInvariance, PTL

\* The list is in the order of last use: what an insertion pushes out is the entry used
\* longest ago (lrucache.go 53-55, 130-144, 182).
THEOREM CacheInRecencyOrder == LruSpec => []RecencyOrder
<1>1. LruInv => RecencyOrder
  BY DEF LruInv
<1> QED
  BY <1>1, LruInvariance, PTL

\* What a reader finds behind its pointer after the unlock is an entry of its own key,
\* whatever writers, expiry and eviction do in between (lrucache.go 83-104).
THEOREM CacheReadsOwnKey == LruSpec => []ReadsOwnKey
<1>1. LruInv => ReadsOwnKey
  BY DEF LruInv
<1> QED
  BY <1>1, LruInvariance, PTL
=============================================================================
