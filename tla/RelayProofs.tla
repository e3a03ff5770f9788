----------------------------- MODULE RelayProofs -----------------------------
(***************************************************************************)
(* Proofs about Relay: for connections of one and of two hops, any number  *)
(* of bytes in each direction, and any sizes of buffers and of reads.      *)
(***************************************************************************)
EXTENDS Relay, SequenceTheorems, WellFoundedInduction, TLAPS

-----------------------------------------------------------------------------
(* Units on the way *)

\* A sequence cut in two: the parts, and that they make the whole again.
LEMMA Cut ==
  ASSUME NEW s \in Seq(Unit), NEW n \in 0 .. Len(s)
  PROVE  /\ SubSeq(s, 1, n) \in Seq(Unit) /\ Len(SubSeq(s, 1, n)) = n
         /\ SubSeq(s, n + 1, Len(s)) \in Seq(Unit)
         /\ Len(SubSeq(s, n + 1, Len(s))) = Len(s) - n
         /\ \A k \in 1 .. n : SubSeq(s, 1, n)[k] = s[k]
         /\ \A k \in 1 .. Len(s) - n : SubSeq(s, n + 1, Len(s))[k] = s[n + k]
         /\ SubSeq(s, 1, n) \o SubSeq(s, n + 1, Len(s)) = s
<1>1. Len(s) \in Nat /\ \A i \in 1 .. Len(s) : s[i] \in Unit
  BY LenProperties, ElementOfSeq
<1>2. /\ SubSeq(s, 1, n) \in Seq(Unit) /\ Len(SubSeq(s, 1, n)) = n
      /\ \A k \in 1 .. n : SubSeq(s, 1, n)[k] = s[k]
  BY <1>1
<1>3. /\ SubSeq(s, n + 1, Len(s)) \in Seq(Unit)
      /\ Len(SubSeq(s, n + 1, Len(s))) = Len(s) - n
      /\ \A k \in 1 .. Len(s) - n : SubSeq(s, n + 1, Len(s))[k] = s[n + k]
  BY <1>1
<1>4. SubSeq(s, 1, n) \o SubSeq(s, n + 1, Len(s)) = s
  <2>1. 1 \in 1 .. Len(s) + 1 /\ n \in 1 - 1 .. Len(s) /\ Len(s) \in n .. Len(s)
    BY <1>1
  <2>2. SubSeq(s, 1, n) \o SubSeq(s, n + 1, Len(s)) = SubSeq(s, 1, Len(s))
    BY ONLY <2>1, s \in Seq(Unit), ConcatAdjacentSubSeq, Zenon
  <2> QED
    BY <2>2, SubSeqFull
<1> QED
  BY <1>2, <1>3, <1>4

\* Two sequences joined, unit by unit.
LEMMA Joined ==
  ASSUME NEW r \in Seq(Unit), NEW s \in Seq(Unit)
  PROVE  /\ r \o s \in Seq(Unit) /\ Len(r \o s) = Len(r) + Len(s)
         /\ Len(r) \in Nat /\ Len(s) \in Nat
         /\ \A k \in 1 .. Len(r) : (r \o s)[k] = r[k]
         /\ \A k \in 1 .. Len(s) : (r \o s)[Len(r) + k] = s[k]
<1>1. Len(r) \in Nat /\ Len(s) \in Nat
  BY LenProperties
<1>2. /\ r \o s \in Seq(Unit) /\ Len(r \o s) = Len(r) + Len(s)
      /\ \A i \in 1 .. Len(r) + Len(s) : (r \o s)[i] = IF i <= Len(r) THEN r[i] ELSE s[i - Len(r)]
  BY ConcatProperties
<1>3. \A k \in 1 .. Len(s) : /\ Len(r) + k \in 1 .. Len(r) + Len(s)
                             /\ ~(Len(r) + k <= Len(r)) /\ Len(r) + k - Len(r) = k
  BY <1>1
<1>4. \A k \in 1 .. Len(r) : k \in 1 .. Len(r) + Len(s) /\ k <= Len(r)
  BY <1>1
<1> QED
  BY <1>1, <1>2, <1>3, <1>4

\* Joining sequences is associative.
LEMMA JoinedTwice ==
  ASSUME NEW r \in Seq(Unit), NEW s \in Seq(Unit), NEW t \in Seq(Unit)
  PROVE  (r \o s) \o t = r \o (s \o t)
<1> DEFINE x == (r \o s) \o t
           y == r \o (s \o t)
<1>1. Len(r) \in Nat /\ Len(s) \in Nat /\ Len(t) \in Nat
  BY LenProperties
<1>2. x \in Seq(Unit) /\ y \in Seq(Unit) /\ Len(x) = Len(r) + Len(s) + Len(t) /\ Len(y) = Len(x)
  BY <1>1, Joined
<1>3. ASSUME NEW k \in 1 .. Len(x)
      PROVE  x[k] = y[k]
  OBVIOUS
<1> HIDE DEF x, y
<1>4. x = y
  BY <1>2, <1>3, SeqEqual
<1> QED
  BY <1>4 DEF x, y

\* What moves from the head of one sequence to the end of the one before it.
LEMMA Moved ==
  ASSUME NEW s \in Seq(Unit), NEW n \in 0 .. Len(s), NEW r \in Seq(Unit)
  PROVE  (r \o SubSeq(s, 1, n)) \o SubSeq(s, n + 1, Len(s)) = r \o s
<1> DEFINE x == SubSeq(s, 1, n)
           y == SubSeq(s, n + 1, Len(s))
<1>1. x \in Seq(Unit) /\ y \in Seq(Unit) /\ x \o y = s
  BY Cut
<1> HIDE DEF x, y
<1>2. (r \o x) \o y = r \o (x \o y)
  BY <1>1, JoinedTwice
<1> QED
  BY <1>1, <1>2 DEF x, y

\* protocol.Encode, unit by unit.
LEMMA Encoded ==
  ASSUME NEW c \in Seq(Unit)
  PROVE  /\ Encode(c) \in Seq(Unit) /\ Len(Encode(c)) = Len(c) + 1
         /\ Encode(c)[1] = Hdr(Len(c))
         /\ \A k \in 1 .. Len(c) : Encode(c)[1 + k] = Enc(c[k][2])
<1> DEFINE e == [k \in DOMAIN c |-> Enc(c[k][2])]
           h == <<Hdr(Len(c))>>
<1>1. Len(c) \in Nat /\ DOMAIN c = 1 .. Len(c) /\ \A k \in 1 .. Len(c) : c[k] \in Unit
  BY LenProperties, ElementOfSeq
<1>2. \A k \in 1 .. Len(c) : Enc(c[k][2]) \in Unit
  BY <1>1 DEF Enc, Unit
<1>3. e \in Seq(Unit) /\ Len(e) = Len(c) /\ \A k \in 1 .. Len(c) : e[k] = Enc(c[k][2])
  BY <1>1, <1>2
<1>4. Hdr(Len(c)) \in Unit
  BY <1>1 DEF Hdr, Unit
<1>5. h \in Seq(Unit) /\ Len(h) = 1 /\ h[1] = Hdr(Len(c))
  BY <1>4
<1>6. Encode(c) = h \o e
  BY DEF Encode
<1> HIDE DEF h, e
<1>7. /\ h \o e \in Seq(Unit) /\ Len(h \o e) = Len(h) + Len(e)
      /\ \A k \in 1 .. Len(h) : (h \o e)[k] = h[k]
      /\ \A k \in 1 .. Len(e) : (h \o e)[Len(h) + k] = e[k]
  BY <1>3, <1>5, Joined
<1> QED
  BY <1>1, <1>3, <1>5, <1>6, <1>7

\* A frame behind whole frames.
LEMMA FrameAppended ==
  ASSUME NEW t \in Seq(Unit), NEW low \in Nat, NEW n \in Nat, NEW m \in Nat, NEW s, NEW z,
         s \in Alive, FrameStream(t, low, n, s, m),
         NEW c \in Seq(Unit), Numbered(c, m), m + Len(c) <= n
  PROVE  FrameStream(t \o Encode(c), low, n, z, m + Len(c))
<1> DEFINE w == t \o Encode(c)
           l == Len(t)
           a == Len(c)
<1>1. l \in Nat /\ a \in Nat
  BY LenProperties
<1>2. /\ w \in Seq(Unit) /\ Len(w) = l + a + 1
      /\ \A k \in 1 .. l : w[k] = t[k]
      /\ \A k \in 1 .. a + 1 : w[l + k] = Encode(c)[k]
  <2>1. Encode(c) \in Seq(Unit) /\ Len(Encode(c)) = a + 1
    BY Encoded
  <2>2. /\ w \in Seq(Unit) /\ Len(w) = l + Len(Encode(c))
        /\ \A k \in 1 .. l : w[k] = t[k]
        /\ \A k \in 1 .. Len(Encode(c)) : w[l + k] = Encode(c)[k]
    BY ONLY <2>1, t \in Seq(Unit), Joined
  <2> QED
    BY <1>1, <2>1, <2>2
<1>3. w[l + 1] = Hdr(a) /\ \A k \in 1 .. a : w[l + 1 + k] = Enc(m + k)
  <2>1. Encode(c)[1] = Hdr(a) /\ \A k \in 1 .. a : Encode(c)[1 + k] = Enc(c[k][2])
    BY Encoded
  <2>2. ASSUME NEW k \in 1 .. a
        PROVE  c[k][2] = m + k
    <3>1. c[k] = <<"raw", m + k>>
      BY ONLY Numbered(c, m), k \in 1 .. a DEF Numbered, Raw
    <3> QED
      BY ONLY <3>1
  <2>3. \A k \in 1 .. a : 1 + k \in 1 .. a + 1 /\ l + (1 + k) = l + 1 + k
    BY <1>1
  <2>4. 1 \in 1 .. a + 1
    BY <1>1
  <2>5. w[l + 1] = Hdr(a)
    BY <1>2, <2>1, <2>4
  <2>6. ASSUME NEW k \in 1 .. a
        PROVE  w[l + 1 + k] = Enc(m + k)
    <3>1. w[l + 1 + k] = Encode(c)[1 + k]
      BY <1>2, <2>3
    <3> QED
      BY <2>1, <2>2, <3>1
  <2> QED
    BY <2>5, <2>6
<1>p. PICK p \in SUBSET (1 .. l + 1) :
        \E b \in [p -> 0 .. n] : Frames(t, low, n, p, b) /\ WholeFrames(t, p, b, m)
  BY DEF FrameStream
<1>4. PICK b \in [p -> 0 .. n] : Frames(t, low, n, p, b) /\ WholeFrames(t, p, b, m)
  BY <1>p
<1> DEFINE q1 == p \cup {l + a + 2}
           b1 == [i \in q1 |-> IF i = l + a + 2 THEN m + a ELSE b[i]]
<1>5. q1 \in SUBSET (1 .. Len(w) + 1) /\ b1 \in [q1 -> 0 .. n]
  <2>1. m + a \in 0 .. n
    BY <1>1
  <2>2. \A i \in p : b[i] \in 0 .. n
    OBVIOUS
  <2>3. l + a + 2 \in 1 .. Len(w) + 1 /\ 1 .. l + 1 \subseteq 1 .. Len(w) + 1
    BY <1>1, <1>2
  <2> HIDE DEF w, l, a
  <2> QED
    BY <2>1, <2>2, <2>3
<1>6. l + a + 2 \notin p /\ l + 1 \in p /\ b[l + 1] = m /\ \A i \in p : b1[i] = b[i]
  BY <1>1, <1>4 DEF WholeFrames
<1> HIDE DEF w, l, a
<1>7. Frames(w, low, n, q1, b1)
  <2>1. 1 \in q1 /\ b1[1] = low
    BY <1>4, <1>6 DEF Frames
  <2>2. ASSUME NEW i \in q1, i <= Len(w)
        PROVE  LET len == w[i][2]
               IN  /\ w[i] = Hdr(len) /\ len \in Nat /\ b1[i] + len <= n
                   /\ \A k \in 1 .. len : i + k <= Len(w) => w[i + k] = Enc(b1[i] + k)
                   /\ i + len <= Len(w) => i + len + 1 \in q1 /\ b1[i + len + 1] = b1[i] + len
    <3>1. i \in p
      BY <1>1, <1>2, <2>2
    <3>2. CASE i <= l
      <4> DEFINE len == t[i][2]
      <4>1. /\ t[i] = Hdr(len) /\ len \in Nat /\ b[i] + len <= n
            /\ \A k \in 1 .. len : i + k <= l => t[i + k] = Enc(b[i] + k)
            /\ i + len + 1 \in p /\ b[i + len + 1] = b[i] + len
            /\ i + len <= l
        BY <1>4, <3>1, <3>2 DEF Frames, WholeFrames, l
      <4>2. i \in 1 .. l /\ w[i] = t[i]
        BY <1>1, <1>2, <3>1, <3>2
      <4> HIDE DEF len
      <4>3. \A k \in 1 .. len : i + k \in 1 .. l /\ i + k <= l
        BY <1>1, <4>1, <4>2
      <4>4. \A k \in 1 .. len : w[i + k] = Enc(b[i] + k)
        BY <1>2, <4>1, <4>3
      <4>5. b1[i] = b[i] /\ b1[i + len + 1] = b[i] + len /\ i + len + 1 \in q1
        BY <1>6, <3>1, <4>1
      <4>6. len = w[i][2]
        BY <4>2 DEF len
      <4> HIDE DEF q1, b1
      <4> QED
        BY <4>1, <4>2, <4>4, <4>5, <4>6
    <3>3. CASE ~(i <= l)
      <4>1. i = l + 1
        BY <1>1, <3>1, <3>3
      <4>2. w[i][2] = a /\ w[i] = Hdr(a) /\ b1[i] = m
        BY <1>3, <1>6, <4>1, <3>1 DEF Hdr
      <4>3. \A k \in 1 .. a : w[i + k] = Enc(m + k)
        BY <1>3, <4>1
      <4>4. i + a + 1 = l + a + 2
        BY <1>1, <4>1
      <4>5. i + a + 1 \in q1 /\ b1[i + a + 1] = m + a
        BY <4>4
      <4>6. m + a <= n
        BY DEF a
      <4> HIDE DEF q1, b1
      <4> QED
        BY <1>1, <4>2, <4>3, <4>5, <4>6
    <3> QED
      BY <3>2, <3>3
  <2> HIDE DEF q1, b1
  <2> QED
    BY <2>1, <2>2 DEF Frames
<1>8. WholeFrames(w, q1, b1, m + a)
  <2>1. Len(w) + 1 = l + a + 2
    BY <1>1, <1>2
  <2>2. Len(w) + 1 \in q1 /\ b1[Len(w) + 1] = m + a
    BY <2>1
  <2>3. ASSUME NEW i \in q1, i <= Len(w)
        PROVE  i + w[i][2] <= Len(w)
    <3>1. i \in p
      BY <1>1, <1>2, <2>3
    <3>2. CASE i <= l
      <4>1. i + t[i][2] <= l /\ t[i][2] \in Nat
        BY <1>4, <3>1, <3>2 DEF Frames, WholeFrames, l
      <4>2. i \in 1 .. l /\ w[i] = t[i]
        BY <1>1, <1>2, <3>1, <3>2
      <4> DEFINE j == t[i][2]
                 lw == Len(w)
      <4>3. i + j <= l /\ j \in Nat /\ lw = l + a + 1 /\ i \in Nat
        BY <1>2, <4>1, <4>2
      <4> HIDE DEF j, lw
      <4>4. i + j <= lw
        BY ONLY <1>1, <4>3
      <4> QED
        BY <4>2, <4>4 DEF j, lw
    <3>3. CASE ~(i <= l)
      <4>1. i = l + 1
        BY <1>1, <3>1, <3>3
      <4>2. w[i][2] = a
        BY <1>3, <4>1 DEF Hdr
      <4> QED
        BY <1>1, <1>2, <4>1, <4>2
    <3> QED
      BY <3>2, <3>3
  <2> HIDE DEF q1, b1
  <2> QED
    BY <2>2, <2>3 DEF WholeFrames
<1> HIDE DEF q1, b1
<1>9. FrameStream(w, low, n, z, m + a)
  BY <1>5, <1>7, <1>8 DEF FrameStream
<1> QED
  BY <1>9 DEF w, a

\* More bytes are sent, or the copier that frames them ends: the frames stay.
LEMMA FrameGrown ==
  ASSUME NEW t \in Seq(Unit), NEW low \in Nat, NEW n \in Nat, NEW m, NEW s, NEW z,
         FrameStream(t, low, n, s, m),
         NEW n2 \in Nat, n <= n2, z \in Alive => s \in Alive
  PROVE  FrameStream(t, low, n2, z, m)
<1>p. PICK p \in SUBSET (1 .. Len(t) + 1) :
        \E b \in [p -> 0 .. n] : Frames(t, low, n, p, b) /\ (s \in Alive => WholeFrames(t, p, b, m))
  BY DEF FrameStream
<1>1. PICK b \in [p -> 0 .. n] : Frames(t, low, n, p, b) /\ (s \in Alive => WholeFrames(t, p, b, m))
  BY <1>p
<1>2. b \in [p -> 0 .. n2] /\ \A i \in p : b[i] \in Nat
  OBVIOUS
<1>3. Frames(t, low, n2, p, b)
  <2>1. ASSUME NEW i \in p, i <= Len(t)
        PROVE  LET len == t[i][2]
               IN  /\ t[i] = Hdr(len) /\ len \in Nat /\ b[i] + len <= n2
                   /\ \A k \in 1 .. len : i + k <= Len(t) => t[i + k] = Enc(b[i] + k)
                   /\ i + len <= Len(t) => i + len + 1 \in p /\ b[i + len + 1] = b[i] + len
    <3>1. t[i][2] \in Nat /\ b[i] + t[i][2] <= n
      BY <1>1, <2>1 DEF Frames
    <3>2. b[i] + t[i][2] <= n2
      BY <1>2, <3>1
    <3> QED
      BY <1>1, <2>1, <3>2 DEF Frames
  <2> QED
    BY <1>1, <2>1 DEF Frames
<1> QED
  BY <1>1, <1>2, <1>3 DEF FrameStream

\* The copier that frames them fails and what it has not written is lost: the rest are
\* frames, of which the last may be cut off.
LEMMA FrameCut ==
  ASSUME NEW t \in Seq(Unit), NEW v \in Seq(Unit), NEW low \in Nat, NEW n \in Nat, NEW m,
         NEW s, NEW z, NEW m2, FrameStream(t \o v, low, n, s, m), z \notin Alive
  PROVE  FrameStream(t, low, n, z, m2)
<1> DEFINE w == t \o v
           l == Len(t)
<1>1. /\ l \in Nat /\ w \in Seq(Unit) /\ Len(w) \in Nat /\ l <= Len(w)
      /\ \A k \in 1 .. l : w[k] = t[k]
  BY Joined
<1>p. PICK p \in SUBSET (1 .. Len(w) + 1) : \E b \in [p -> 0 .. n] : Frames(w, low, n, p, b)
  BY DEF FrameStream
<1>2. PICK b \in [p -> 0 .. n] : Frames(w, low, n, p, b)
  BY <1>p
<1> DEFINE p1 == p \cap (1 .. l + 1)
           b1 == [i \in p1 |-> b[i]]
<1> HIDE DEF w, l
<1>3. p1 \in SUBSET (1 .. l + 1) /\ b1 \in [p1 -> 0 .. n]
  OBVIOUS
<1>4. Frames(t, low, n, p1, b1)
  <2>1. 1 \in p1 /\ b1[1] = low
    BY <1>1, <1>2 DEF Frames
  <2>2. ASSUME NEW i \in p1, i <= l
        PROVE  LET len == t[i][2]
               IN  /\ t[i] = Hdr(len) /\ len \in Nat /\ b1[i] + len <= n
                   /\ \A k \in 1 .. len : i + k <= l => t[i + k] = Enc(b1[i] + k)
                   /\ i + len <= l => i + len + 1 \in p1 /\ b1[i + len + 1] = b1[i] + len
    <3> DEFINE len == t[i][2]
    <3>1. i \in p /\ i \in 1 .. l /\ i <= Len(w) /\ w[i] = t[i] /\ b1[i] = b[i]
      BY <1>1, <2>2
    <3>2. /\ t[i] = Hdr(len) /\ len \in Nat /\ b[i] + len <= n
          /\ \A k \in 1 .. len : i + k <= Len(w) => w[i + k] = Enc(b[i] + k)
          /\ i + len <= Len(w) => i + len + 1 \in p /\ b[i + len + 1] = b[i] + len
      BY <1>2, <3>1 DEF Frames
    <3> HIDE DEF len
    <3>3. ASSUME NEW k \in 1 .. len, i + k <= l
          PROVE  t[i + k] = Enc(b1[i] + k)
      <4>1. i + k \in 1 .. l /\ i + k <= Len(w)
        BY <1>1, <3>1, <3>2, <3>3
      <4> QED
        BY <1>1, <3>1, <3>2, <4>1
    <3>4. ASSUME i + len <= l
          PROVE  i + len + 1 \in p1 /\ b1[i + len + 1] = b1[i] + len
      <4>1. i + len + 1 \in 1 .. l + 1 /\ i + len <= Len(w)
        <5>1. /\ len \in Nat /\ i \in Nat /\ 1 <= i /\ l \in Nat /\ Len(w) \in Nat
              /\ l <= Len(w) /\ i + len <= l
          BY <1>1, <3>1, <3>2, <3>4
        <5> QED
          BY ONLY <5>1
      <4> QED
        BY <3>1, <3>2, <4>1
    <3> QED
      BY <3>1, <3>2, <3>3, <3>4 DEF len
  <2> HIDE DEF p1, b1
  <2> QED
    BY <2>1, <2>2 DEF Frames, l
<1> HIDE DEF p1, b1
<1> QED
  BY <1>3, <1>4 DEF FrameStream, l

\* What has been read of a frame: a header, and bytes of the body in order.
LEMMA FrameBegun ==
  ASSUME NEW h \in Seq(Unit), h # << >>, NEW t \in Seq(Unit), NEW low \in Nat, NEW n \in Nat,
         NEW m, NEW s, FrameStream(h \o t, low, n, s, m)
  PROVE  /\ h[1][2] \in Nat /\ h[1] = Hdr(h[1][2]) /\ low + h[1][2] <= n
         /\ \A k \in 1 .. h[1][2] : 1 + k <= Len(h) => h[1 + k] = Enc(low + k)
<1> DEFINE w == h \o t
<1>1. /\ Len(h) \in Nat /\ w \in Seq(Unit) /\ Len(w) \in Nat /\ Len(h) <= Len(w) /\ 1 <= Len(h)
      /\ \A k \in 1 .. Len(h) : w[k] = h[k]
  BY Joined
<1>p. PICK p \in SUBSET (1 .. Len(w) + 1) : \E b \in [p -> 0 .. n] : Frames(w, low, n, p, b)
  BY DEF FrameStream
<1>2. PICK b \in [p -> 0 .. n] : Frames(w, low, n, p, b)
  BY <1>p
<1> HIDE DEF w
<1>3. 1 \in p /\ b[1] = low /\ 1 <= Len(w) /\ w[1] = h[1]
  BY <1>1, <1>2 DEF Frames
<1> DEFINE len == h[1][2]
<1>4. /\ h[1] = Hdr(len) /\ len \in Nat /\ low + len <= n
      /\ \A k \in 1 .. len : 1 + k <= Len(w) => w[1 + k] = Enc(low + k)
  <2>1. LET j == w[1][2]
        IN  /\ w[1] = Hdr(j) /\ j \in Nat /\ b[1] + j <= n
            /\ \A k \in 1 .. j : 1 + k <= Len(w) => w[1 + k] = Enc(b[1] + k)
    BY <1>2, <1>3 DEF Frames
  <2> QED
    BY <1>3, <2>1
<1> HIDE DEF len
<1>5. ASSUME NEW k \in 1 .. len, 1 + k <= Len(h)
      PROVE  h[1 + k] = Enc(low + k)
  <2>1. 1 + k \in 1 .. Len(h) /\ 1 + k <= Len(w)
    BY <1>1, <1>4, <1>5
  <2> QED
    BY <1>1, <1>4, <2>1
<1> QED
  BY <1>4, <1>5 DEF len

\* A frame has been read whole: its body is what comes next in the stream, and another
\* frame begins behind it.
LEMMA FrameTaken ==
  ASSUME NEW h \in Seq(Unit), h # << >>, NEW t \in Seq(Unit), NEW low \in Nat, NEW n \in Nat,
         NEW m, NEW s, FrameStream(h \o t, low, n, s, m), Len(h) = 1 + h[1][2]
  PROVE  FrameStream(t, low + h[1][2], n, s, m)
<1> DEFINE w == h \o t
           l == Len(h)
           len == h[1][2]
<1>1. /\ l \in Nat /\ w \in Seq(Unit) /\ Len(t) \in Nat /\ Len(w) = l + Len(t) /\ 1 <= l
      /\ \A k \in 1 .. l : w[k] = h[k]
      /\ \A k \in 1 .. Len(t) : w[l + k] = t[k]
  <2>1. 1 <= l
    BY EmptySeq
  <2> QED
    BY ONLY <2>1, h \in Seq(Unit), t \in Seq(Unit), Joined
<1>p. PICK p \in SUBSET (1 .. Len(w) + 1) :
        \E b \in [p -> 0 .. n] : Frames(w, low, n, p, b) /\ (s \in Alive => WholeFrames(w, p, b, m))
  BY DEF FrameStream
<1>2. PICK b \in [p -> 0 .. n] : Frames(w, low, n, p, b) /\ (s \in Alive => WholeFrames(w, p, b, m))
  BY <1>p
<1>3. len \in Nat /\ l = 1 + len
  BY FrameBegun
<1> DEFINE p1 == {i \in 1 .. Len(t) + 1 : l + i \in p}
           b1 == [i \in p1 |-> b[l + i]]
<1> HIDE DEF w, l
<1>4. p1 \in SUBSET (1 .. Len(t) + 1) /\ b1 \in [p1 -> 0 .. n]
  OBVIOUS
<1>5. l + 1 \in p /\ b[l + 1] = low + len
  <2>1. 1 \in p /\ b[1] = low /\ 1 <= Len(w) /\ w[1] = h[1]
    BY <1>1, <1>2 DEF Frames
  <2>2. 1 + len <= Len(w) => 1 + len + 1 \in p /\ b[1 + len + 1] = low + len
    BY <1>2, <2>1 DEF Frames
  <2> HIDE DEF len
  <2> QED
    BY <1>1, <1>3, <2>2
<1> HIDE DEF len
<1>6. Frames(t, low + len, n, p1, b1)
  <2>1. 1 \in p1 /\ b1[1] = low + len
    BY <1>1, <1>5
  <2>2. ASSUME NEW i \in p1, i <= Len(t)
        PROVE  LET lh == t[i][2]
               IN  /\ t[i] = Hdr(lh) /\ lh \in Nat /\ b1[i] + lh <= n
                   /\ \A k \in 1 .. lh : i + k <= Len(t) => t[i + k] = Enc(b1[i] + k)
                   /\ i + lh <= Len(t) => i + lh + 1 \in p1 /\ b1[i + lh + 1] = b1[i] + lh
    <3> DEFINE lh == t[i][2]
    <3>1. l + i \in p /\ i \in 1 .. Len(t) /\ l + i <= Len(w) /\ w[l + i] = t[i] /\ b1[i] = b[l + i]
      <4>1. i \in 1 .. Len(t) + 1 /\ l + i \in p /\ b1[i] = b[l + i]
        OBVIOUS
      <4> HIDE DEF p1, b1
      <4>2. i \in 1 .. Len(t)
        BY <1>1, <2>2, <4>1
      <4>3. w[l + i] = t[i]
        BY <1>1, <4>2
      <4>4. l + i <= Len(w)
        BY <1>1, <4>2
      <4> QED
        BY <4>1, <4>2, <4>3, <4>4
    <3>2. /\ t[i] = Hdr(lh) /\ lh \in Nat /\ b[l + i] + lh <= n
          /\ \A k \in 1 .. lh : l + i + k <= Len(w) => w[l + i + k] = Enc(b[l + i] + k)
          /\ l + i + lh <= Len(w) => l + i + lh + 1 \in p /\ b[l + i + lh + 1] = b[l + i] + lh
      BY <1>2, <3>1 DEF Frames
    <3> HIDE DEF lh
    <3>3. ASSUME NEW k \in 1 .. lh, i + k <= Len(t)
          PROVE  t[i + k] = Enc(b1[i] + k)
      <4>1. i + k \in 1 .. Len(t) /\ l + i + k <= Len(w) /\ l + i + k = l + (i + k)
        BY <1>1, <3>1, <3>2, <3>3
      <4> QED
        BY <1>1, <3>1, <3>2, <4>1
    <3>4. ASSUME i + lh <= Len(t)
          PROVE  i + lh + 1 \in p1 /\ b1[i + lh + 1] = b1[i] + lh
      <4>1. /\ i + lh + 1 \in 1 .. Len(t) + 1 /\ l + i + lh <= Len(w)
            /\ l + i + lh + 1 = l + (i + lh + 1)
        <5>1. /\ lh \in Nat /\ i \in Nat /\ 1 <= i /\ l \in Nat /\ Len(t) \in Nat
              /\ Len(w) = l + Len(t) /\ i + lh <= Len(t)
          BY <1>1, <3>1, <3>2, <3>4
        <5> QED
          BY ONLY <5>1
      <4> QED
        BY <3>1, <3>2, <4>1
    <3> QED
      BY <3>1, <3>2, <3>3, <3>4 DEF lh
  <2> HIDE DEF p1, b1
  <2> QED
    BY <2>1, <2>2 DEF Frames
<1>7. ASSUME s \in Alive
      PROVE  WholeFrames(t, p1, b1, m)
  <2>1. Len(w) + 1 \in p /\ b[Len(w) + 1] = m /\ \A i \in p : i <= Len(w) => i + w[i][2] <= Len(w)
    BY <1>2, <1>7 DEF WholeFrames
  <2>2. Len(w) + 1 = l + (Len(t) + 1)
    BY <1>1
  <2>3. Len(t) + 1 \in p1 /\ b1[Len(t) + 1] = m
    BY <1>1, <2>1, <2>2
  <2>4. ASSUME NEW i \in p1, i <= Len(t)
        PROVE  i + t[i][2] <= Len(t)
    <3>1. l + i \in p /\ i \in 1 .. Len(t) /\ l + i <= Len(w) /\ w[l + i] = t[i]
      BY <1>1, <2>4
    <3>2. l + i + t[i][2] <= Len(w)
      BY <2>1, <3>1
    <3>3. t[i][2] \in Nat
      BY <1>6, <2>4 DEF Frames
    <3> DEFINE j == t[i][2]
               lt == Len(t)
               lw == Len(w)
    <3>4. i \in Nat /\ l \in Nat /\ lt \in Nat /\ lw = l + lt /\ j \in Nat /\ l + i + j <= lw
      BY <1>1, <3>1, <3>2, <3>3
    <3> HIDE DEF j, lt, lw
    <3>5. i + j <= lt
      BY ONLY <3>4
    <3> QED
      BY <3>5 DEF j, lt
  <2> HIDE DEF p1, b1
  <2> QED
    BY <2>3, <2>4 DEF WholeFrames
<1> HIDE DEF p1, b1
<1> QED
  BY <1>4, <1>6, <1>7 DEF FrameStream, len

-----------------------------------------------------------------------------
(* The bytes of a direction *)

\* A part of a numbered sequence is numbered.
LEMMA NumberedCut ==
  ASSUME NEW s \in Seq(Unit), NEW n \in 0 .. Len(s), NEW m \in Int, Numbered(s, m)
  PROVE  Numbered(SubSeq(s, 1, n), m) /\ Numbered(SubSeq(s, n + 1, Len(s)), m + n)
<1> DEFINE x == SubSeq(s, 1, n)
           y == SubSeq(s, n + 1, Len(s))
<1>1. /\ Len(s) \in Nat /\ Len(x) = n /\ Len(y) = Len(s) - n
      /\ \A k \in 1 .. n : x[k] = s[k]
      /\ \A k \in 1 .. Len(s) - n : y[k] = s[n + k]
  BY Cut, LenProperties
<1> HIDE DEF x, y
<1>2. \A k \in 1 .. Len(s) - n : n + k \in 1 .. Len(s) /\ m + (n + k) = m + n + k
  BY <1>1
<1>3. \A k \in 1 .. n : k \in 1 .. Len(s)
  BY <1>1
<1> QED
  BY <1>1, <1>2, <1>3 DEF Numbered, x, y

\* Numbered sequences, one behind the other.
LEMMA NumberedJoined ==
  ASSUME NEW r \in Seq(Unit), NEW s \in Seq(Unit), NEW m \in Int,
         Numbered(r, m), Numbered(s, m + Len(r))
  PROVE  Numbered(r \o s, m)
<1>1. /\ Len(r \o s) = Len(r) + Len(s) /\ Len(r) \in Nat /\ Len(s) \in Nat
      /\ \A k \in 1 .. Len(r) : (r \o s)[k] = r[k]
      /\ \A k \in 1 .. Len(s) : (r \o s)[Len(r) + k] = s[k]
  BY Joined
<1>2. ASSUME NEW k \in 1 .. Len(r \o s)
      PROVE  (r \o s)[k] = Raw(m + k)
  <2>1. CASE k <= Len(r)
    BY <1>1, <2>1 DEF Numbered
  <2>2. CASE ~(k <= Len(r))
    <3>1. k - Len(r) \in 1 .. Len(s) /\ Len(r) + (k - Len(r)) = k /\ m + Len(r) + (k - Len(r)) = m + k
      BY <1>1, <2>2
    <3>2. (r \o s)[k] = s[k - Len(r)]
      BY <1>1, <3>1
    <3> QED
      BY <3>1, <3>2 DEF Numbered
  <2> QED
    BY <2>1, <2>2
<1> QED
  BY <1>2 DEF Numbered

\* What has been taken out of the first queue is numbered and so is the rest of it.
LEMMA Taken ==
  ASSUME NEW in \in Seq(Unit), NEW n \in Nat, NEW s, s \in Alive, NEW z, Taking(in, s, n),
         NEW c \in 1 .. Len(in)
  PROVE  /\ Taking(SubSeq(in, c + 1, Len(in)), z, n)
         /\ n - Len(in) \in Nat
         /\ Numbered(SubSeq(in, 1, c), n - Len(in))
<1> DEFINE y == SubSeq(in, c + 1, Len(in))
<1>1. /\ Len(in) \in Nat /\ y \in Seq(Unit) /\ Len(y) = Len(in) - c
      /\ \A k \in 1 .. Len(in) - c : y[k] = in[c + k]
  BY Cut, LenProperties
<1>2. n - Len(in) \in Nat
  BY <1>1 DEF Taking
<1>3. Numbered(SubSeq(in, 1, c), n - Len(in)) /\ Numbered(y, n - Len(in) + c)
  BY <1>1, <1>2, NumberedCut DEF Taking
<1> HIDE DEF y
<1>4. n - Len(in) + c = n - Len(y) /\ Len(y) <= n
  BY <1>1, <1>2
<1>5. \A k \in 1 .. Len(y) : c + k \in 1 .. Len(in)
  BY <1>1
<1>6. AllRaw(y)
  BY <1>1, <1>5 DEF AllRaw, Taking
<1> QED
  BY <1>2, <1>3, <1>4, <1>6 DEF Taking, y

\* One more byte is sent into the first queue.
LEMMA TakingMore ==
  ASSUME NEW in \in Seq(Unit), NEW n \in Nat, NEW s, Taking(in, s, n)
  PROVE  Taking(Append(in, Raw(n + 1)), s, n + 1) /\ Len(Append(in, Raw(n + 1))) = Len(in) + 1
<1> DEFINE y == Append(in, Raw(n + 1))
<1>1. /\ Len(in) \in Nat /\ Len(y) = Len(in) + 1 /\ y[Len(in) + 1] = Raw(n + 1)
      /\ \A k \in 1 .. Len(in) : y[k] = in[k]
  BY LenProperties, AppendProperties DEF Raw, Unit
<1> HIDE DEF y
<1>2. AllRaw(y)
  BY <1>1 DEF AllRaw, Taking, Raw
<1>3. ASSUME s \in Alive
      PROVE  Len(y) <= n + 1 /\ Numbered(y, n + 1 - Len(y))
  <2>1. Len(in) <= n /\ Numbered(in, n - Len(in))
    BY <1>3 DEF Taking
  <2>2. n + 1 - Len(y) = n - Len(in)
    BY <1>1
  <2>3. ASSUME NEW k \in 1 .. Len(y)
        PROVE  y[k] = Raw(n - Len(in) + k)
    <3>1. CASE k = Len(in) + 1
      <4>1. n - Len(in) + k = n + 1
        BY <1>1, <3>1
      <4> QED
        BY <1>1, <3>1, <4>1
    <3>2. CASE k # Len(in) + 1
      <4>1. k \in 1 .. Len(in)
        BY <1>1, <3>2
      <4> QED
        BY <1>1, <2>1, <4>1 DEF Numbered
    <3> QED
      BY <3>1, <3>2
  <2> QED
    BY <1>1, <2>1, <2>2, <2>3 DEF Numbered
<1> QED
  BY <1>1, <1>2, <1>3 DEF Taking, y

\* The receiver takes a byte, the one that comes next.
LEMMA Received ==
  ASSUME NEW out \in Seq(Unit), out # << >>, NEW g \in Nat, NEW n \in Nat, Delivering(out, g, n)
  PROVE  /\ Head(out)[2] = g + 1 /\ g < n /\ Delivering(Tail(out), g + 1, n)
         /\ g + 1 + Len(Tail(out)) = g + Len(out)
<1> DEFINE y == Tail(out)
<1>1. /\ Len(out) \in Nat /\ 1 <= Len(out) /\ y \in Seq(Unit) /\ Len(y) = Len(out) - 1
      /\ \A k \in 1 .. Len(y) : y[k] = out[k + 1]
      /\ Head(out) = out[1]
  BY LenProperties, EmptySeq, HeadTailProperties
<1> HIDE DEF y
<1>2. Head(out)[2] = g + 1 /\ g < n
  BY <1>1 DEF Delivering, Numbered, Raw
<1>3. \A k \in 1 .. Len(y) : k + 1 \in 1 .. Len(out) /\ g + (k + 1) = g + 1 + k
  BY <1>1
<1>4. Numbered(y, g + 1)
  BY <1>1, <1>3 DEF Delivering, Numbered
<1>5. g + 1 + Len(y) = g + Len(out)
  BY <1>1
<1> QED
  BY <1>2, <1>4, <1>5 DEF Delivering, y

-----------------------------------------------------------------------------
(* One relay *)

\* A read.
LEMMA OneHopRead ==
  ASSUME NEW in \in Seq(Unit), NEW b, NEW out \in Seq(Unit), NEW g \in Nat, NEW n \in Nat,
         OneHop(in, "read", b, out, g, n), NEW c \in 1 .. Len(in)
  PROVE  OneHop(SubSeq(in, c + 1, Len(in)), "write", SubSeq(in, 1, c), out, g, n)
<1> DEFINE x == SubSeq(in, 1, c)
           y == SubSeq(in, c + 1, Len(in))
<1>1. Len(in) \in Nat /\ Len(out) \in Nat /\ Len(x) = c /\ Len(y) = Len(in) - c
  BY Cut, LenProperties
<1>2. /\ Delivering(out, g, n) /\ Taking(in, "read", n) /\ "read" \in Alive
      /\ b = << >> /\ g + Len(out) + Len(b) + Len(in) = n
  BY DEF OneHop, Alive
<1>3. Taking(y, "write", n) /\ Numbered(x, n - Len(in))
  BY <1>2, Taken
<1> HIDE DEF x, y
<1>4. n - Len(in) = g + Len(out) /\ g + Len(out) + Len(x) + Len(y) = n
  BY <1>1, <1>2
<1> QED
  BY <1>2, <1>3, <1>4 DEF OneHop, x, y

\* The copier fails or ends, and drops what it has.
LEMMA OneHopEnd ==
  ASSUME NEW in, NEW s, NEW b, NEW out, NEW g, NEW n, OneHop(in, s, b, out, g, n),
         NEW z, z \notin Alive
  PROVE  OneHop(in, z, << >>, out, g, n)
BY DEF OneHop, Taking, Alive

\* A write, of all that is left or of a part.
LEMMA OneHopWrite ==
  ASSUME NEW in \in Seq(Unit), NEW b \in Seq(Unit), NEW out \in Seq(Unit), NEW g \in Nat,
         NEW n \in Nat, OneHop(in, "write", b, out, g, n), NEW c \in 1 .. Len(b)
  PROVE  OneHop(in, IF c = Len(b) THEN "read" ELSE "write", SubSeq(b, c + 1, Len(b)),
                out \o SubSeq(b, 1, c), g, n)
<1> DEFINE x == SubSeq(b, 1, c)
           y == SubSeq(b, c + 1, Len(b))
           z == IF c = Len(b) THEN "read" ELSE "write"
           w == out \o x
<1>1. /\ Len(in) \in Nat /\ Len(out) \in Nat /\ Len(b) \in Nat /\ c \in Nat
      /\ x \in Seq(Unit) /\ y \in Seq(Unit) /\ Len(x) = c /\ Len(y) = Len(b) - c
  BY Cut, LenProperties
<1>2. /\ Delivering(out, g, n) /\ Taking(in, "write", n) /\ "write" \in Alive /\ z \in Alive
      /\ Numbered(b, g + Len(out)) /\ g + Len(out) + Len(b) + Len(in) = n
  BY DEF OneHop, Alive
<1>3. Numbered(x, g + Len(out)) /\ Numbered(y, g + Len(out) + c)
  BY <1>1, <1>2, NumberedCut
<1>4. z = "read" => y = << >>
  BY <1>1, EmptySeq
<1> HIDE DEF x, y, z
<1>5. Len(w) = Len(out) + c
  BY <1>1, Joined
<1>6. Numbered(w, g)
  BY <1>1, <1>2, <1>3, NumberedJoined DEF Delivering
<1> HIDE DEF w
<1>7. /\ g + Len(w) + Len(y) + Len(in) = n /\ g + Len(w) <= n
      /\ g + Len(w) = g + Len(out) + c
  <2>1. /\ Len(in) \in Nat /\ Len(out) \in Nat /\ Len(b) \in Nat /\ c \in Nat /\ c <= Len(b)
        /\ Len(y) = Len(b) - c /\ g + Len(out) + Len(b) + Len(in) = n /\ Len(w) = Len(out) + c
    BY <1>1, <1>2, <1>5
  <2> DEFINE li == Len(in)
             lo == Len(out)
             lb == Len(b)
             ly == Len(y)
             lw == Len(w)
  <2>2. /\ li \in Nat /\ lo \in Nat /\ lb \in Nat /\ c \in Nat /\ c <= lb
        /\ ly = lb - c /\ g + lo + lb + li = n /\ lw = lo + c
    BY <2>1
  <2> HIDE DEF li, lo, lb, ly, lw
  <2>3. g + lw + ly + li = n /\ g + lw <= n /\ g + lw = g + lo + c
    BY ONLY <2>2, g \in Nat, n \in Nat
  <2> QED
    BY <2>3 DEF li, lo, ly, lw
<1>8. Delivering(w, g, n) /\ Taking(in, z, n) /\ Numbered(y, g + Len(w))
  BY <1>2, <1>3, <1>6, <1>7 DEF Delivering, Taking
<1>9. z # "write" => y = << >>
  BY <1>2, <1>4 DEF Alive
<1>10. OneHop(in, z, y, w, g, n)
  BY <1>7, <1>8, <1>9 DEF OneHop
<1> QED
  BY <1>10 DEF w, x, y, z

\* A byte is sent.
LEMMA OneHopSend ==
  ASSUME NEW in \in Seq(Unit), NEW s, NEW b \in Seq(Unit), NEW out \in Seq(Unit), NEW g \in Nat,
         NEW n \in Nat, OneHop(in, s, b, out, g, n)
  PROVE  OneHop(Append(in, Raw(n + 1)), s, b, out, g, n + 1)
<1> DEFINE y == Append(in, Raw(n + 1))
<1>1. Len(in) \in Nat /\ Len(out) \in Nat /\ Len(b) \in Nat
  BY LenProperties
<1>2. Taking(y, s, n + 1) /\ Len(y) = Len(in) + 1
  BY TakingMore DEF OneHop
<1> HIDE DEF y
<1>3. Delivering(out, g, n + 1)
  BY <1>1 DEF OneHop, Delivering
<1>4. s \in Alive => g + Len(out) + Len(b) + Len(y) = n + 1
  BY <1>1, <1>2 DEF OneHop
<1> QED
  BY <1>2, <1>3, <1>4 DEF OneHop, y

\* A byte is received.
LEMMA OneHopRecv ==
  ASSUME NEW in, NEW s, NEW b, NEW out \in Seq(Unit), out # << >>, NEW g \in Nat,
         NEW n \in Nat, OneHop(in, s, b, out, g, n)
  PROVE  OneHop(in, s, b, Tail(out), g + 1, n)
BY Received DEF OneHop

-----------------------------------------------------------------------------
(* Two relays *)

\* The first relay reads, and makes a frame of it.
LEMMA FirstReads ==
  ASSUME NEW in \in Seq(Unit), NEW b1, NEW mid \in Seq(Unit), NEW s2, NEW b2 \in Seq(Unit),
         NEW out \in Seq(Unit), NEW g \in Nat, NEW n \in Nat,
         TwoHops(in, "read", b1, mid, s2, b2, out, g, n), NEW c \in 1 .. Len(in)
  PROVE  TwoHops(SubSeq(in, c + 1, Len(in)), "write", Encode(SubSeq(in, 1, c)), mid, s2, b2, out, g, n)
<1> DEFINE x == SubSeq(in, 1, c)
           y == SubSeq(in, c + 1, Len(in))
           m == n - Len(in)
<1>1. /\ Len(in) \in Nat /\ Len(out) \in Nat /\ Len(b2) \in Nat /\ c \in Nat
      /\ x \in Seq(Unit) /\ Len(x) = c /\ Len(y) = Len(in) - c
  BY Cut, LenProperties
<1>2. /\ Taking(in, "read", n) /\ "read" \in Alive /\ b1 = << >>
  BY DEF TwoHops, Alive
<1>3. Taking(y, "write", n) /\ m \in Nat /\ Numbered(x, m)
  BY <1>2, Taken
<1> HIDE DEF x, y
<1>4. m + Len(x) = n - Len(y) /\ m + Len(x) <= n
  BY <1>1, <1>3
<1>5. AllFramed(Encode(x))
  <2>1. /\ Len(Encode(x)) = c + 1 /\ Encode(x)[1] = Hdr(c)
        /\ \A k \in 1 .. c : Encode(x)[1 + k] = Enc(x[k][2])
    BY <1>1, Encoded
  <2>2. ASSUME NEW k \in 1 .. c + 1
        PROVE  Encode(x)[k][1] # "raw"
    <3>1. CASE k = 1
      BY <2>1, <3>1 DEF Hdr
    <3>2. CASE k # 1
      <4>1. k - 1 \in 1 .. c /\ 1 + (k - 1) = k
        BY <1>1, <3>2
      <4>2. Encode(x)[k] = Enc(x[k - 1][2])
        BY <2>1, <4>1
      <4> QED
        BY <4>2 DEF Enc
    <3> QED
      BY <3>1, <3>2
  <2> QED
    BY <2>1, <2>2 DEF AllFramed
<1> HIDE DEF m
<1>6. ASSUME NEW t \in Seq(Unit), NEW low \in Nat, FrameStream(t \o b1, low, n, "read", m)
      PROVE  FrameStream(t \o Encode(x), low, n, "write", n - Len(y))
  <2>1. t \o b1 = t
    BY <1>2, ConcatEmptySeq
  <2>2. FrameStream(t, low, n, "read", m)
    BY <1>6, <2>1
  <2>3. FrameStream(t \o Encode(x), low, n, "write", m + Len(x))
    BY <1>1, <1>2, <1>3, <1>4, <2>2, FrameAppended
  <2> QED
    BY <1>4, <2>3
<1>7. g + Len(out) \in Nat /\ g + Len(out) + Len(b2) \in Nat /\ b2 \o mid \in Seq(Unit)
  BY <1>1, Joined
<1>8. s2 = "read" => FrameStream((b2 \o mid) \o Encode(x), g + Len(out), n, "write", n - Len(y))
  BY <1>6, <1>7 DEF TwoHops, m
<1>9. s2 = "write" => FrameStream(mid \o Encode(x), g + Len(out) + Len(b2), n, "write", n - Len(y))
  BY <1>6, <1>7 DEF TwoHops, m
<1>10. TwoHops(y, "write", Encode(x), mid, s2, b2, out, g, n)
  BY <1>3, <1>5, <1>8, <1>9 DEF TwoHops
<1> QED
  BY <1>10 DEF x, y

\* The first relay fails or ends; the rest of a frame may be lost.
LEMMA FirstEnds ==
  ASSUME NEW in, NEW s1, NEW b1 \in Seq(Unit), NEW mid \in Seq(Unit), NEW s2, NEW b2 \in Seq(Unit),
         NEW out \in Seq(Unit), NEW g \in Nat, NEW n \in Nat,
         TwoHops(in, s1, b1, mid, s2, b2, out, g, n), NEW z, z \notin Alive
  PROVE  TwoHops(in, z, << >>, mid, s2, b2, out, g, n)
<1>1. ASSUME NEW t \in Seq(Unit), NEW low \in Nat, FrameStream(t \o b1, low, n, s1, n - Len(in))
      PROVE  FrameStream(t \o << >>, low, n, z, n - Len(in))
  <2>1. FrameStream(t, low, n, z, n - Len(in))
    BY <1>1, FrameCut
  <2>2. t \o << >> = t
    BY ConcatEmptySeq
  <2> QED
    BY <2>1, <2>2
<1>2. Len(out) \in Nat /\ Len(b2) \in Nat
  BY LenProperties
<1>3. g + Len(out) \in Nat /\ g + Len(out) + Len(b2) \in Nat /\ b2 \o mid \in Seq(Unit)
  BY <1>2, Joined
<1>4. s2 = "read" => FrameStream((b2 \o mid) \o << >>, g + Len(out), n, z, n - Len(in))
  BY <1>1, <1>3 DEF TwoHops
<1>5. s2 = "write" => FrameStream(mid \o << >>, g + Len(out) + Len(b2), n, z, n - Len(in))
  BY <1>1, <1>3 DEF TwoHops
<1>6. AllFramed(<< >>) /\ z # "write" /\ Taking(in, z, n)
  BY DEF AllFramed, Alive, Taking, TwoHops
<1> QED
  BY <1>4, <1>5, <1>6 DEF TwoHops

\* The same frames, grouped otherwise.
LEMMA Regrouped ==
  ASSUME NEW w \in Seq(Unit), NEW y \in Seq(Unit), NEW b \in Seq(Unit), NEW low, NEW n, NEW s, NEW m
  PROVE  FrameStream((w \o y) \o b, low, n, s, m) <=> FrameStream(w \o (y \o b), low, n, s, m)
<1>1. (w \o y) \o b = w \o (y \o b)
  BY JoinedTwice
<1> QED
  BY <1>1

\* The same frames, with some units moved from the last part to the one before.
LEMMA FramesMoved ==
  ASSUME NEW r \in Seq(Unit), NEW w \in Seq(Unit), NEW y \in Seq(Unit),
         NEW s \in Seq(Unit), NEW t \in Seq(Unit), w \o y = s \o t,
         NEW low, NEW n, NEW z, NEW m, FrameStream((r \o s) \o t, low, n, z, m)
  PROVE  FrameStream((r \o w) \o y, low, n, z, m)
<1>1. FrameStream(r \o (s \o t), low, n, z, m)
  BY ONLY r \in Seq(Unit), s \in Seq(Unit), t \in Seq(Unit), Regrouped,
          FrameStream((r \o s) \o t, low, n, z, m)
<1>2. FrameStream(r \o (w \o y), low, n, z, m)
  BY <1>1
<1> QED
  BY ONLY r \in Seq(Unit), w \in Seq(Unit), y \in Seq(Unit), Regrouped, <1>2

\* The first relay writes a frame, or a part of it.
LEMMA FirstWrites ==
  ASSUME NEW in, NEW b1 \in Seq(Unit), NEW mid \in Seq(Unit), NEW s2, NEW b2 \in Seq(Unit),
         NEW out \in Seq(Unit), NEW g \in Nat, NEW n \in Nat,
         TwoHops(in, "write", b1, mid, s2, b2, out, g, n), NEW c \in 1 .. Len(b1)
  PROVE  TwoHops(in, IF c = Len(b1) THEN "read" ELSE "write", SubSeq(b1, c + 1, Len(b1)),
                 mid \o SubSeq(b1, 1, c), s2, b2, out, g, n)
<1> DEFINE x == SubSeq(b1, 1, c)
           y == SubSeq(b1, c + 1, Len(b1))
           z == IF c = Len(b1) THEN "read" ELSE "write"
           w == mid \o x
<1>1. /\ Len(mid) \in Nat /\ Len(b1) \in Nat /\ c \in Nat
      /\ x \in Seq(Unit) /\ y \in Seq(Unit) /\ Len(x) = c /\ Len(y) = Len(b1) - c
      /\ \A k \in 1 .. c : x[k] = b1[k]
      /\ \A k \in 1 .. Len(b1) - c : y[k] = b1[c + k]
  BY Cut, LenProperties
<1>2. z \in Alive /\ "write" \in Alive
  BY DEF Alive
<1>3. z # "write" => y = << >>
  BY <1>1, EmptySeq
<1>4. /\ w \in Seq(Unit) /\ Len(w) = Len(mid) + c
      /\ \A k \in 1 .. Len(mid) : w[k] = mid[k]
      /\ \A k \in 1 .. c : w[Len(mid) + k] = x[k]
  <2> HIDE DEF x
  <2>1. x \in Seq(Unit) /\ Len(x) = c
    BY <1>1
  <2> QED
    BY ONLY <2>1, mid \in Seq(Unit), Joined
<1>5. w \o y = mid \o b1
  <2>1. c \in 0 .. Len(b1)
    BY <1>1
  <2> QED
    BY <2>1, Moved
<1> HIDE DEF x, y, z, w
<1>6. w \in Seq(Unit) /\ y \in Seq(Unit)
  BY <1>1, <1>4
<1>7. AllFramed(w)
  <2>1. AllFramed(mid) /\ AllFramed(b1)
    BY DEF TwoHops
  <2>2. ASSUME NEW k \in 1 .. Len(w)
        PROVE  w[k][1] # "raw"
    <3>1. CASE k <= Len(mid)
      <4>1. k \in 1 .. Len(mid)
        BY <1>1, <1>4, <3>1
      <4> QED
        BY <1>4, <2>1, <4>1 DEF AllFramed
    <3>2. CASE ~(k <= Len(mid))
      <4>1. k - Len(mid) \in 1 .. c /\ Len(mid) + (k - Len(mid)) = k /\ k - Len(mid) \in 1 .. Len(b1)
        BY <1>1, <1>4, <3>2
      <4>2. w[k] = b1[k - Len(mid)]
        BY <1>1, <1>4, <4>1
      <4> QED
        BY <2>1, <4>1, <4>2 DEF AllFramed
    <3> QED
      BY <3>1, <3>2
  <2> QED
    BY <2>2 DEF AllFramed
<1>8. AllFramed(y)
  <2>1. \A k \in 1 .. Len(y) : c + k \in 1 .. Len(b1) /\ y[k] = b1[c + k]
    BY <1>1
  <2> QED
    BY <2>1 DEF AllFramed, TwoHops
<1>9. ASSUME NEW t, NEW low, NEW m, FrameStream(t, low, n, "write", m)
      PROVE  FrameStream(t, low, n, z, m)
  BY <1>2, <1>9 DEF FrameStream
<1>10. s2 = "read" => FrameStream((b2 \o w) \o y, g + Len(out), n, z, n - Len(in))
  <2>1. ASSUME s2 = "read"
        PROVE  FrameStream((b2 \o mid) \o b1, g + Len(out), n, z, n - Len(in))
    BY <1>9, <2>1 DEF TwoHops
  <2>2. ASSUME FrameStream((b2 \o mid) \o b1, g + Len(out), n, z, n - Len(in))
        PROVE  FrameStream((b2 \o w) \o y, g + Len(out), n, z, n - Len(in))
    BY ONLY <1>5, <1>6, <2>2, b1 \in Seq(Unit), b2 \in Seq(Unit), mid \in Seq(Unit), FramesMoved
  <2> QED
    BY <2>1, <2>2
<1>11. s2 = "write" => FrameStream(w \o y, g + Len(out) + Len(b2), n, z, n - Len(in))
  BY <1>5, <1>9 DEF TwoHops
<1>12. Taking(in, z, n)
  BY <1>2 DEF Taking, TwoHops
<1>13. TwoHops(in, z, y, w, s2, b2, out, g, n)
  BY <1>3, <1>7, <1>8, <1>10, <1>11, <1>12 DEF TwoHops
<1> QED
  BY <1>13 DEF w, x, y, z

\* What was framed stays framed when some of it is taken.
LEMMA FramedCut ==
  ASSUME NEW s \in Seq(Unit), NEW n \in 0 .. Len(s), AllFramed(s)
  PROVE  AllFramed(SubSeq(s, n + 1, Len(s)))
<1> DEFINE y == SubSeq(s, n + 1, Len(s))
<1>1. Len(s) \in Nat /\ Len(y) = Len(s) - n /\ \A k \in 1 .. Len(s) - n : y[k] = s[n + k]
  BY Cut, LenProperties
<1> HIDE DEF y
<1>2. \A k \in 1 .. Len(y) : n + k \in 1 .. Len(s) /\ y[k] = s[n + k]
  BY <1>1
<1> QED
  BY <1>2 DEF AllFramed, y

\* The second relay reads more of a frame, which is not complete yet.
LEMMA SecondReadsPart ==
  ASSUME NEW in, NEW s1, NEW b1 \in Seq(Unit), NEW mid \in Seq(Unit), NEW b2 \in Seq(Unit),
         NEW out \in Seq(Unit), NEW g \in Nat, NEW n \in Nat,
         TwoHops(in, s1, b1, mid, "read", b2, out, g, n),
         NEW c \in 1 .. Len(mid), c <= Missing(b2), Missing(b2 \o SubSeq(mid, 1, c)) # 0
  PROVE  TwoHops(in, s1, b1, SubSeq(mid, c + 1, Len(mid)), "read", b2 \o SubSeq(mid, 1, c), out, g, n)
<1> DEFINE x == SubSeq(mid, 1, c)
           y == SubSeq(mid, c + 1, Len(mid))
           w == b2 \o x
<1>1. /\ Len(mid) \in Nat /\ Len(b2) \in Nat /\ Len(out) \in Nat /\ c \in Nat /\ c \in 0 .. Len(mid)
      /\ x \in Seq(Unit) /\ y \in Seq(Unit) /\ Len(x) = c
  BY Cut, LenProperties
<1>2. w \o y = b2 \o mid
  BY <1>1, Moved
<1>3. AllFramed(y)
  BY <1>1, FramedCut DEF TwoHops
<1>4. w \in Seq(Unit) /\ Len(w) = Len(b2) + c /\ \A k \in 1 .. Len(b2) : w[k] = b2[k]
  BY <1>1, Joined
<1> HIDE DEF x, y, w
<1>5. w # << >>
  <2>1. Len(w) # 0
    BY <1>1, <1>4
  <2> QED
    BY <2>1, EmptySeq
<1>6. FrameStream((w \o y) \o b1, g + Len(out), n, s1, n - Len(in))
  BY <1>2 DEF TwoHops
<1>7. w[1][2] \in Nat
  <2>1. w \in Seq(Unit) /\ y \in Seq(Unit)
    BY <1>1, <1>4
  <2>2. FrameStream(w \o (y \o b1), g + Len(out), n, s1, n - Len(in))
    BY ONLY <1>6, <2>1, b1 \in Seq(Unit), Regrouped
  <2>3. g + Len(out) \in Nat
    BY <1>1
  <2>4. y \o b1 \in Seq(Unit)
    BY <1>1, Joined
  <2> QED
    BY <1>4, <1>5, <2>2, <2>3, <2>4, FrameBegun
<1>8. Len(w) <= w[1][2]
  <2>1. 1 + w[1][2] - Len(w) # 0
    BY <1>5 DEF Missing, w, x
  <2>2. CASE b2 = << >>
    BY <1>1, <1>4, <1>7, <2>1, <2>2 DEF Missing
  <2>3. CASE b2 # << >>
    <3>1. 1 \in 1 .. Len(b2) /\ w[1] = b2[1]
      BY <1>1, <1>4, <2>3, EmptySeq
    <3>2. c <= 1 + w[1][2] - Len(b2)
      BY <2>3, <3>1 DEF Missing
    <3> DEFINE h == w[1][2]
               lb == Len(b2)
               lw == Len(w)
    <3>3. h \in Nat /\ lb \in Nat /\ lw = lb + c /\ 1 + h - lw # 0 /\ c <= 1 + h - lb /\ c \in Nat
      BY <1>1, <1>4, <1>7, <2>1, <3>2
    <3> HIDE DEF h, lb, lw
    <3>4. lw <= h
      BY ONLY <3>3
    <3> QED
      BY <3>4 DEF h, lw
  <2> QED
    BY <2>2, <2>3
<1>9. "read" \in Alive
  BY DEF Alive
<1>10. TwoHops(in, s1, b1, y, "read", w, out, g, n)
  BY <1>3, <1>6, <1>8, <1>9 DEF TwoHops
<1> QED
  BY <1>10 DEF w, x, y

\* The second relay has read a whole frame, and is about to write its payload.
LEMMA SecondReadsFrame ==
  ASSUME NEW in, NEW s1, NEW b1 \in Seq(Unit), NEW mid \in Seq(Unit), NEW b2 \in Seq(Unit),
         NEW out \in Seq(Unit), NEW g \in Nat, NEW n \in Nat,
         TwoHops(in, s1, b1, mid, "read", b2, out, g, n),
         NEW c \in 1 .. Len(mid), Missing(b2 \o SubSeq(mid, 1, c)) = 0
  PROVE  TwoHops(in, s1, b1, SubSeq(mid, c + 1, Len(mid)), "write",
                 Decode(b2 \o SubSeq(mid, 1, c)), out, g, n)
<1> DEFINE x == SubSeq(mid, 1, c)
           y == SubSeq(mid, c + 1, Len(mid))
           w == b2 \o x
           low == g + Len(out)
<1>1. /\ Len(mid) \in Nat /\ Len(b2) \in Nat /\ Len(out) \in Nat /\ c \in Nat /\ c \in 0 .. Len(mid)
      /\ x \in Seq(Unit) /\ y \in Seq(Unit) /\ Len(x) = c /\ low \in Nat
  BY Cut, LenProperties
<1>2. w \o y = b2 \o mid
  BY <1>1, Moved
<1>3. AllFramed(y)
  BY <1>1, FramedCut DEF TwoHops
<1>4. w \in Seq(Unit) /\ Len(w) = Len(b2) + c
  BY <1>1, Joined
<1> HIDE DEF x, y, w
<1>5. w # << >>
  <2>1. Len(w) # 0
    BY <1>1, <1>4
  <2> QED
    BY <2>1, EmptySeq
<1>6. FrameStream((w \o y) \o b1, low, n, s1, n - Len(in))
  BY <1>2 DEF TwoHops
<1> HIDE DEF low
<1>7. w \in Seq(Unit) /\ y \in Seq(Unit)
  BY <1>1, <1>4
<1> DEFINE t == y \o b1
           len == w[1][2]
<1>8. FrameStream(w \o t, low, n, s1, n - Len(in))
  BY ONLY <1>6, <1>7, b1 \in Seq(Unit), Regrouped
<1> HIDE DEF t
<1>9. t \in Seq(Unit)
  BY <1>1, Joined DEF t
<1>10. /\ len \in Nat /\ low + len <= n
       /\ \A k \in 1 .. len : 1 + k <= Len(w) => w[1 + k] = Enc(low + k)
  <2>1. w[1][2] \in Nat
    BY <1>1, <1>4, <1>5, <1>8, <1>9, FrameBegun
  <2>2. low + w[1][2] <= n
    BY <1>1, <1>4, <1>5, <1>8, <1>9, FrameBegun
  <2>3. \A k \in 1 .. w[1][2] : 1 + k <= Len(w) => w[1 + k] = Enc(low + k)
    <3>1. w \in Seq(Unit) /\ low \in Nat
      BY <1>1, <1>4
    <3> QED
      BY ONLY <3>1, n \in Nat, <1>5, <1>8, <1>9, FrameBegun
  <2> QED
    BY <2>1, <2>2, <2>3
<1>11. Len(w) = 1 + len
  <2>1. Missing(w) = 0
    BY DEF w, x
  <2>2. 1 + len - Len(w) = 0
    BY <1>5, <2>1 DEF Missing
  <2>3. Len(w) \in Nat
    BY <1>1, <1>4
  <2> HIDE DEF len
  <2> QED
    BY <1>10, <2>2, <2>3
<1>12. FrameStream(t, low + len, n, s1, n - Len(in))
  BY <1>1, <1>4, <1>5, <1>8, <1>9, <1>11, FrameTaken
<1> HIDE DEF len
<1>13. Len(Decode(w)) = len /\ Numbered(Decode(w), low)
  <2>1. Len(w) - 1 = len
    BY <1>10, <1>11
  <2>2. Decode(w) = [k \in 1 .. len |-> Raw(w[k + 1][2])]
    BY <2>1 DEF Decode
  <2>3. Len(Decode(w)) = len /\ \A k \in 1 .. len : Decode(w)[k] = Raw(w[k + 1][2])
    BY <1>10, <2>2
  <2>4. ASSUME NEW k \in 1 .. len
        PROVE  w[k + 1][2] = low + k
    <3>1. 1 + k <= Len(w) /\ 1 + k = k + 1
      BY <1>10, <1>11
    <3>2. w[k + 1] = Enc(low + k)
      BY <1>10, <3>1
    <3> QED
      BY <3>2 DEF Enc
  <2> QED
    BY <2>3, <2>4 DEF Numbered
<1>14. TwoHops(in, s1, b1, y, "write", Decode(w), out, g, n)
  <2>1. FrameStream(y \o b1, g + Len(out) + Len(Decode(w)), n, s1, n - Len(in))
    BY <1>12, <1>13 DEF t, low
  <2>2. Numbered(Decode(w), g + Len(out)) /\ g + Len(out) + Len(Decode(w)) <= n
    BY <1>10, <1>13 DEF low
  <2>3. "write" \in Alive
    BY DEF Alive
  <2> QED
    BY <1>3, <2>1, <2>2, <2>3 DEF TwoHops
<1> QED
  BY <1>14 DEF w, x, y

\* The second relay fails or ends, and drops what it has.
LEMMA SecondEnds ==
  ASSUME NEW in, NEW s1, NEW b1, NEW mid, NEW s2, NEW b2, NEW out, NEW g, NEW n,
         TwoHops(in, s1, b1, mid, s2, b2, out, g, n), NEW z, z \notin Alive
  PROVE  TwoHops(in, s1, b1, mid, z, << >>, out, g, n)
BY DEF TwoHops, Alive

\* The second relay writes the payload of a frame, or a part of it.
LEMMA SecondWrites ==
  ASSUME NEW in, NEW s1, NEW b1 \in Seq(Unit), NEW mid \in Seq(Unit), NEW b2 \in Seq(Unit),
         NEW out \in Seq(Unit), NEW g \in Nat, NEW n \in Nat,
         TwoHops(in, s1, b1, mid, "write", b2, out, g, n), NEW c \in 1 .. Len(b2)
  PROVE  TwoHops(in, s1, b1, mid, IF c = Len(b2) THEN "read" ELSE "write",
                 SubSeq(b2, c + 1, Len(b2)), out \o SubSeq(b2, 1, c), g, n)
<1> DEFINE x == SubSeq(b2, 1, c)
           y == SubSeq(b2, c + 1, Len(b2))
           z == IF c = Len(b2) THEN "read" ELSE "write"
           w == out \o x
<1>1. /\ Len(out) \in Nat /\ Len(b2) \in Nat /\ c \in Nat /\ c <= Len(b2)
      /\ x \in Seq(Unit) /\ y \in Seq(Unit) /\ Len(x) = c /\ Len(y) = Len(b2) - c
  BY Cut, LenProperties
<1>2. /\ Delivering(out, g, n) /\ z \in Alive
      /\ Numbered(b2, g + Len(out)) /\ g + Len(out) + Len(b2) <= n
      /\ FrameStream(mid \o b1, g + Len(out) + Len(b2), n, s1, n - Len(in))
  BY DEF TwoHops, Alive
<1>3. Numbered(x, g + Len(out)) /\ Numbered(y, g + Len(out) + c)
  BY <1>1, <1>2, NumberedCut
<1>4. z = "read" => y = << >>
  BY <1>1, EmptySeq
<1> HIDE DEF x, y, z
<1>5. Len(w) = Len(out) + c
  BY <1>1, Joined
<1>6. Numbered(w, g)
  BY <1>1, <1>2, <1>3, NumberedJoined DEF Delivering
<1> HIDE DEF w
<1>7. Len(w) \in Nat /\ Len(y) \in Nat
  BY <1>1, <1>5
<1>8. g + Len(w) = g + Len(out) + c
  BY <1>1, <1>5, <1>7
<1>9. g + Len(w) + Len(y) = g + Len(out) + Len(b2)
  <2>1. /\ Len(out) \in Nat /\ Len(b2) \in Nat /\ c \in Nat /\ Len(y) = Len(b2) - c
        /\ Len(w) = Len(out) + c
    BY <1>1, <1>5
  <2> QED
    BY <1>7, <2>1
<1>10. g + Len(w) <= n
  BY <1>2, <1>7, <1>9
<1>11. Delivering(w, g, n)
  BY <1>6, <1>10 DEF Delivering
<1>12. ASSUME z = "write"
       PROVE  /\ Numbered(y, g + Len(w)) /\ g + Len(w) + Len(y) <= n
              /\ FrameStream(mid \o b1, g + Len(w) + Len(y), n, s1, n - Len(in))
  BY <1>2, <1>3, <1>8, <1>9
<1>13. ASSUME z = "read"
       PROVE  /\ y = << >>
              /\ FrameStream((y \o mid) \o b1, g + Len(w), n, s1, n - Len(in))
  <2>1. y = << >> /\ Len(y) = 0 /\ y \o mid = mid
    BY <1>4, <1>13, EmptySeq, ConcatEmptySeq
  <2>2. g + Len(w) = g + Len(out) + Len(b2)
    BY <1>7, <1>9, <2>1
  <2> QED
    BY <1>2, <2>1, <2>2
<1>14. TwoHops(in, s1, b1, mid, z, y, w, g, n)
  BY <1>2, <1>11, <1>12, <1>13 DEF TwoHops
<1> QED
  BY <1>14 DEF w, x, y, z

\* A byte is sent.
LEMMA TwoHopsSend ==
  ASSUME NEW in \in Seq(Unit), NEW s1, NEW b1 \in Seq(Unit), NEW mid \in Seq(Unit), NEW s2,
         NEW b2 \in Seq(Unit), NEW out \in Seq(Unit), NEW g \in Nat, NEW n \in Nat,
         TwoHops(in, s1, b1, mid, s2, b2, out, g, n)
  PROVE  TwoHops(Append(in, Raw(n + 1)), s1, b1, mid, s2, b2, out, g, n + 1)
<1> DEFINE y == Append(in, Raw(n + 1))
<1>1. /\ Len(in) \in Nat /\ Len(out) \in Nat /\ Len(b2) \in Nat
      /\ g + Len(out) \in Nat /\ g + Len(out) + Len(b2) \in Nat
  BY LenProperties
<1>2. Taking(y, s1, n + 1) /\ Len(y) = Len(in) + 1
  BY TakingMore DEF TwoHops
<1> HIDE DEF y
<1>3. n + 1 - Len(y) = n - Len(in)
  BY <1>1, <1>2
<1>4. Delivering(out, g, n + 1)
  BY <1>1 DEF TwoHops, Delivering
<1>5. ASSUME NEW t \in Seq(Unit), NEW low \in Nat, FrameStream(t, low, n, s1, n - Len(in))
      PROVE  FrameStream(t, low, n + 1, s1, n + 1 - Len(y))
  <2>1. n + 1 \in Nat /\ n <= n + 1
    OBVIOUS
  <2>2. FrameStream(t, low, n + 1, s1, n - Len(in))
    BY <1>5, <2>1, FrameGrown
  <2> QED
    BY <1>3, <2>2
<1>6. (b2 \o mid) \o b1 \in Seq(Unit) /\ mid \o b1 \in Seq(Unit)
  BY Joined
<1>7. s2 = "read" => FrameStream((b2 \o mid) \o b1, g + Len(out), n + 1, s1, n + 1 - Len(y))
  BY <1>1, <1>5, <1>6 DEF TwoHops
<1>8. s2 = "write" => FrameStream(mid \o b1, g + Len(out) + Len(b2), n + 1, s1, n + 1 - Len(y))
  BY <1>1, <1>5, <1>6 DEF TwoHops
<1>9. s2 = "write" => g + Len(out) + Len(b2) <= n + 1
  BY <1>1 DEF TwoHops
<1> QED
  BY <1>2, <1>4, <1>7, <1>8, <1>9 DEF TwoHops, y

\* A byte is received.
LEMMA TwoHopsRecv ==
  ASSUME NEW in, NEW s1, NEW b1, NEW mid, NEW s2, NEW b2, NEW out \in Seq(Unit), out # << >>,
         NEW g \in Nat, NEW n \in Nat, TwoHops(in, s1, b1, mid, s2, b2, out, g, n)
  PROVE  TwoHops(in, s1, b1, mid, s2, b2, Tail(out), g + 1, n)
BY Received DEF TwoHops

-----------------------------------------------------------------------------
(* Who copies from where to where *)

\* The end of a link at which direction d is read.
Side(d) == IF d = "down" THEN "R" ELSE "L"

\* There are one or two relays.
LEMMA HopsType ==
  ASSUME setup \in Setups
  PROVE  Hops \in {1, 2}
BY SetupAssumption DEF Hops, MaxHops

\* Every copier of a direction reads and feeds ends on one side of the links.
LEMMA CopierEnds ==
  ASSUME Hops \in {1, 2}, NEW x \in Copiers
  PROVE  /\ x[2] \in Dirs /\ x[1] \in Relays /\ x = <<x[1], x[2]>>
         /\ In(x) \in Ends /\ In(x)[2] = Side(x[2])
         /\ Out(x) \in Ends
         /\ Other(Out(x)) \in Ends /\ Other(Out(x))[2] = Side(x[2])
         /\ In(x) # Other(Out(x))
<1>1. PICK r \in Relays, d \in Dirs : x = <<r, d>>
  BY DEF Copiers
<1>2. r \in Int /\ r >= 1 /\ r <= Hops
  BY DEF Relays
<1>3. CASE d = "down"
  BY <1>1, <1>2, <1>3 DEF In, Out, Other, Ends, Links, Side, Dirs
<1>4. CASE d = "up"
  BY <1>1, <1>2, <1>4 DEF In, Out, Other, Ends, Links, Side, Dirs
<1> QED
  BY <1>3, <1>4 DEF Dirs

\* The outer ends of a direction.
LEMMA OuterEnds ==
  ASSUME Hops \in {1, 2}, NEW d \in Dirs
  PROVE  /\ SendEnd(d) \in Ends /\ Other(SendEnd(d)) = In(FirstCopier(d))
         /\ RecvEnd(d) \in Ends /\ RecvEnd(d)[2] = Side(d)
         /\ Other(Out(LastCopier(d))) = RecvEnd(d)
         /\ FirstCopier(d) \in Copiers /\ FirstCopier(d)[2] = d
         /\ LastCopier(d) \in Copiers /\ LastCopier(d)[2] = d
         /\ In(FirstCopier(d)) # RecvEnd(d)
<1>1. CASE d = "down"
  BY <1>1 DEF In, Out, Other, Ends, Links, Side, Dirs, FirstCopier, LastCopier, SendEnd, RecvEnd, Copiers, Relays
<1>2. CASE d = "up"
  BY <1>2 DEF In, Out, Other, Ends, Links, Side, Dirs, FirstCopier, LastCopier, SendEnd, RecvEnd, Copiers, Relays
<1> QED
  BY <1>1, <1>2 DEF Dirs

\* One relay: the only copier of a direction.
LEMMA OneCopier ==
  ASSUME Hops = 1, NEW x \in Copiers
  PROVE  /\ x = FirstCopier(x[2]) /\ Other(Out(x)) = RecvEnd(x[2])
         /\ ~Framed(In(x)) /\ ~Framed(Out(x))
<1>1. PICK r \in Relays, d \in Dirs : x = <<r, d>>
  BY DEF Copiers
<1>2. r = 1
  BY DEF Relays
<1> QED
  BY <1>1, <1>2 DEF FirstCopier, Out, Other, RecvEnd, Framed, Dirs

\* Two relays: the copiers of a direction and the framed link between them.
LEMMA TwoCopiers ==
  ASSUME Hops = 2, NEW x \in Copiers
  PROVE  LET d == x[2]
         IN  /\ x = FirstCopier(d) \/ x = LastCopier(d)
             /\ FirstCopier(d) # LastCopier(d)
             /\ In(FirstCopier(d)) # In(LastCopier(d)) /\ In(LastCopier(d)) # RecvEnd(d)
             /\ x = FirstCopier(d) => /\ ~Framed(In(x)) /\ Framed(Out(x))
                                      /\ Other(Out(x)) = In(LastCopier(d))
             /\ x = LastCopier(d) => /\ Framed(In(x)) /\ ~Framed(Out(x))
                                     /\ Other(Out(x)) = RecvEnd(d)
<1>1. PICK r \in Relays, d \in Dirs : x = <<r, d>>
  BY DEF Copiers
<1>2. r \in {1, 2}
  BY DEF Relays
<1>3. CASE d = "down"
  BY <1>1, <1>2, <1>3 DEF FirstCopier, LastCopier, In, Out, Other, RecvEnd, Framed
<1>4. CASE d = "up"
  BY <1>1, <1>2, <1>4 DEF FirstCopier, LastCopier, In, Out, Other, RecvEnd, Framed
<1> QED
  BY <1>3, <1>4 DEF Dirs

\* The directions use the two sides of the links.
LEMMA TwoSides ==
  ASSUME NEW d \in Dirs, NEW o \in Dirs, d # o
  PROVE  Side(d) # Side(o)
BY DEF Side, Dirs

\* The invariant of a direction, in the next state.
LEMMA NextDir ==
  ASSUME NEW d \in Dirs, setup' = setup, Counted(sent'[d]), Counted(got'[d]),
         Hops = 1 => OneHop(q'[In(FirstCopier(d))], st'[FirstCopier(d)], buf'[FirstCopier(d)],
                            q'[RecvEnd(d)], Len(got'[d]), Len(sent'[d])),
         Hops = 2 => TwoHops(q'[In(FirstCopier(d))], st'[FirstCopier(d)], buf'[FirstCopier(d)],
                             q'[In(LastCopier(d))], st'[LastCopier(d)], buf'[LastCopier(d)],
                             q'[RecvEnd(d)], Len(got'[d]), Len(sent'[d]))
  PROVE  DirInv(d)'
<1>1. FirstCopier(d)' = FirstCopier(d) /\ LastCopier(d)' = LastCopier(d)
  BY DEF FirstCopier, LastCopier, Hops
<1>2. RecvEnd(d)' = RecvEnd(d) /\ Hops' = Hops
  BY DEF RecvEnd, Hops
<1> QED
  BY <1>1, <1>2 DEF DirInv, In

\* A direction is left as it is.
LEMMA Quiet ==
  ASSUME NEW d \in Dirs, Hops \in {1, 2}, setup' = setup, DirInv(d),
         sent'[d] = sent[d], got'[d] = got[d],
         \A e \in Ends : e[2] = Side(d) => q'[e] = q[e],
         \A x \in Copiers : x[2] = d => st'[x] = st[x] /\ buf'[x] = buf[x]
  PROVE  DirInv(d)'
<1> DEFINE x == FirstCopier(d)
           y == LastCopier(d)
<1>1. x \in Copiers /\ x[2] = d /\ y \in Copiers /\ y[2] = d /\ RecvEnd(d) \in Ends /\ RecvEnd(d)[2] = Side(d)
  BY OuterEnds
<1>2. st'[x] = st[x] /\ buf'[x] = buf[x] /\ st'[y] = st[y] /\ buf'[y] = buf[y]
  BY <1>1
<1> HIDE DEF x, y
<1>3. In(x) \in Ends /\ In(x)[2] = Side(d) /\ In(y) \in Ends /\ In(y)[2] = Side(d)
  BY <1>1, CopierEnds
<1>4. q'[In(x)] = q[In(x)] /\ q'[In(y)] = q[In(y)] /\ q'[RecvEnd(d)] = q[RecvEnd(d)]
  BY <1>1, <1>3
<1>5. /\ Counted(sent[d]) /\ Counted(got[d])
      /\ Hops = 1 => OneHop(q[In(x)], st[x], buf[x], q[RecvEnd(d)], Len(got[d]), Len(sent[d]))
      /\ Hops = 2 => TwoHops(q[In(x)], st[x], buf[x], q[In(y)], st[y], buf[y], q[RecvEnd(d)],
                             Len(got[d]), Len(sent[d]))
  BY DEF DirInv, x, y
<1> QED
  BY <1>2, <1>4, <1>5, NextDir DEF x, y

\* The types, in the next state.
LEMMA NextType ==
  ASSUME RelayTypeOK, setup' = setup,
         q' \in [Ends -> Seq(Unit)], \A e \in Ends : Len(q'[e]) <= Cap,
         shut' \subseteq Ends, closed' \subseteq Ends, expired' \subseteq Ends,
         st' \in [Copiers -> {"read", "write", "poke", "done"}],
         buf' \in [Copiers -> Seq(Unit)],
         rel' \in [Relays -> {"relay", "closeSrc", "closed"}],
         killed' \subseteq Relays,
         sent' \in [Dirs -> Seq(Nat)], got' \in [Dirs -> Seq(Nat)]
  PROVE  RelayTypeOK'
<1>1. Relays' = Relays /\ Copiers' = Copiers /\ Ends' = Ends
  BY DEF Relays, Copiers, Ends, Links, Hops
<1> QED
  BY <1>1 DEF RelayTypeOK

-----------------------------------------------------------------------------
(* The copiers *)

\* The lesser of two numbers.
LEMMA MinOfTwo ==
  ASSUME NEW a \in Int, NEW b \in Int
  PROVE  Min({a, b}) = IF a <= b THEN a ELSE b
<1> DEFINE m == IF a <= b THEN a ELSE b
<1>1. m \in {a, b} /\ \A y \in {a, b} : m <= y
  OBVIOUS
<1>2. ASSUME NEW z \in {a, b}, \A y \in {a, b} : z <= y
      PROVE  z = m
  BY <1>1, <1>2
<1> QED
  BY <1>1, <1>2 DEF Min

\* The parts of a partial or whole frame are units.
LEMMA Decoded ==
  ASSUME NEW w \in Seq(Unit), w # << >>
  PROVE  Decode(w) \in Seq(Unit) /\ Missing(w) \in Int
<1>1. Len(w) \in Nat /\ Len(w) - 1 \in Nat /\ \A k \in 1 .. Len(w) : w[k] \in Unit
  BY LenProperties, ElementOfSeq, EmptySeq
<1>2. \A k \in 1 .. Len(w) - 1 : Raw(w[k + 1][2]) \in Unit
  BY <1>1 DEF Raw, Unit
<1>3. Decode(w) \in Seq(Unit)
  BY <1>1, <1>2 DEF Decode
<1>4. w[1][2] \in Nat
  BY <1>1 DEF Unit
<1> QED
  BY <1>1, <1>3, <1>4 DEF Missing

\* What a read of n units takes and leaves in the buffer, by kind of copier.
ReadResult(x, n, v, s) ==
  LET chunk == SubSeq(q[In(x)], 1, n)
      part  == buf[x] \o chunk
  IN  \/ ~Framed(In(x)) /\ ~Framed(Out(x)) /\ v = chunk /\ s = "write"
      \/ ~Framed(In(x)) /\ Framed(Out(x)) /\ v = Encode(chunk) /\ s = "write"
      \/ Framed(In(x)) /\ n <= Missing(buf[x]) /\ Missing(part) # 0 /\ v = part /\ s = "read"
      \/ Framed(In(x)) /\ Missing(part) = 0 /\ v = Decode(part) /\ s = "write"

\* A read, with its result spelled out.
LEMMA ReadStep ==
  ASSUME RelayTypeOK, NEW x \in Copiers, Read(x)
  PROVE  \E n \in 1 .. Len(q[In(x)]) : \E v \in Seq(Unit), s \in {"read", "write"} :
           /\ ReadResult(x, n, v, s)
           /\ q' = [q EXCEPT ![In(x)] = SubSeq(@, n + 1, Len(@))]
           /\ buf' = [buf EXCEPT ![x] = v]
           /\ st' = [st EXCEPT ![x] = s]
<1> DEFINE e == In(x)
<1>1. e \in Ends /\ q[e] \in Seq(Unit) /\ Len(q[e]) \in Nat /\ buf[x] \in Seq(Unit) /\ Len(buf[x]) \in Nat
  BY HopsType, CopierEnds, LenProperties DEF RelayTypeOK
<1>2. Limit(x) \in Int
  <2>1. Missing(buf[x]) \in Int
    BY <1>1, Decoded DEF Missing
  <2> QED
    BY <2>1, SizeAssumption DEF Limit
<1> DEFINE chunk(n) == SubSeq(q[e], 1, n)
           part(n)  == buf[x] \o chunk(n)
           whole(n) == ~Framed(e) \/ Missing(part(n)) = 0
<1>3. PICK n \in 1 .. Min({Limit(x), Len(q[e])}) :
           /\ q' = [q EXCEPT ![e] = SubSeq(@, n + 1, Len(@))]
           /\ buf' = [buf EXCEPT ![x] = CASE ~whole(n) -> part(n)
                                          [] whole(n) /\ Framed(e) -> Decode(part(n))
                                          [] ~Framed(e) /\ Framed(Out(x)) -> Encode(chunk(n))
                                          [] OTHER -> chunk(n)]
           /\ st' = [st EXCEPT ![x] = IF whole(n) THEN "write" ELSE "read"]
  BY DEF Read
<1> DEFINE v == CASE ~whole(n) -> part(n)
                  [] whole(n) /\ Framed(e) -> Decode(part(n))
                  [] ~Framed(e) /\ Framed(Out(x)) -> Encode(chunk(n))
                  [] OTHER -> chunk(n)
           s == IF whole(n) THEN "write" ELSE "read"
<1>4. n \in 1 .. Len(q[e]) /\ n <= Limit(x)
  <2>1. Min({Limit(x), Len(q[e])}) = IF Limit(x) <= Len(q[e]) THEN Limit(x) ELSE Len(q[e])
    BY <1>1, <1>2, MinOfTwo
  <2> QED
    BY <1>1, <1>2, <2>1
<1>5. chunk(n) \in Seq(Unit) /\ Len(chunk(n)) = n
  BY <1>1, <1>4, Cut
<1> HIDE DEF chunk, e
<1>6. part(n) \in Seq(Unit) /\ part(n) # << >>
  <2>1. part(n) \in Seq(Unit) /\ Len(part(n)) = Len(buf[x]) + n
    <3>1. Len(buf[x] \o chunk(n)) = Len(buf[x]) + Len(chunk(n))
      BY <1>1, <1>5, Joined
    <3>2. buf[x] \o chunk(n) \in Seq(Unit)
      BY <1>1, <1>5, Joined
    <3> QED
      BY <1>5, <3>1, <3>2
  <2> HIDE DEF part
  <2>2. Len(part(n)) # 0
    BY <1>1, <1>4, <2>1
  <2> QED
    BY <2>1, <2>2, EmptySeq
<1> HIDE DEF part
<1>7. Decode(part(n)) \in Seq(Unit) /\ Encode(chunk(n)) \in Seq(Unit)
  BY <1>5, <1>6, Decoded, Encoded
<1>8. v \in Seq(Unit) /\ s \in {"read", "write"}
  BY <1>5, <1>6, <1>7
<1>9. \/ ~Framed(e) /\ ~Framed(Out(x)) /\ v = chunk(n) /\ s = "write"
      \/ ~Framed(e) /\ Framed(Out(x)) /\ v = Encode(chunk(n)) /\ s = "write"
      \/ Framed(e) /\ n <= Missing(buf[x]) /\ Missing(part(n)) # 0 /\ v = part(n) /\ s = "read"
      \/ Framed(e) /\ Missing(part(n)) = 0 /\ v = Decode(part(n)) /\ s = "write"
  <2>1. CASE ~Framed(e) /\ ~Framed(Out(x))
    BY <2>1
  <2>2. CASE ~Framed(e) /\ Framed(Out(x))
    BY <2>2
  <2>3. CASE Framed(e) /\ Missing(part(n)) = 0
    BY <2>3
  <2>4. CASE Framed(e) /\ Missing(part(n)) # 0
    <3>1. n <= Missing(buf[x])
      BY <1>4, <2>4 DEF Limit, e
    <3> QED
      BY <2>4, <3>1
  <2> QED
    BY <2>1, <2>2, <2>3, <2>4
<1> HIDE DEF v, s
<1>10. ReadResult(x, n, v, s)
  BY <1>9 DEF ReadResult, chunk, part, e
<1> QED
  BY <1>3, <1>4, <1>8, <1>10 DEF v, s, e

\* What a copier does leaves the other direction alone, and the types as they are.
LEMMA CopierStep ==
  ASSUME RelayInv, NEW x \in Copiers, NEW e \in Ends, e[2] = Side(x[2]),
         NEW w \in Seq(Unit), NEW v \in Seq(Unit), NEW s \in {"read", "write", "poke", "done"},
         Len(w) <= Cap,
         q' = [q EXCEPT ![e] = w], buf' = [buf EXCEPT ![x] = v], st' = [st EXCEPT ![x] = s],
         expired' \subseteq Ends,
         UNCHANGED <<setup, shut, closed, rel, killed, sent, got>>,
         DirInv(x[2])'
  PROVE  RelayInv'
<1>1. RelayTypeOK /\ Hops \in {1, 2}
  BY HopsType DEF RelayInv, RelayTypeOK
<1>2. RelayTypeOK'
  <2>1. q' \in [Ends -> Seq(Unit)] /\ \A l \in Ends : Len(q'[l]) <= Cap
    BY <1>1 DEF RelayTypeOK
  <2>2. buf' \in [Copiers -> Seq(Unit)]
    BY <1>1 DEF RelayTypeOK
  <2>3. st' \in [Copiers -> {"read", "write", "poke", "done"}]
    BY <1>1 DEF RelayTypeOK
  <2>4. /\ setup' = setup /\ shut' \subseteq Ends /\ closed' \subseteq Ends
        /\ rel' \in [Relays -> {"relay", "closeSrc", "closed"}] /\ killed' \subseteq Relays
        /\ sent' \in [Dirs -> Seq(Nat)] /\ got' \in [Dirs -> Seq(Nat)]
    BY <1>1 DEF RelayTypeOK
  <2> QED
    BY <1>1, <2>1, <2>2, <2>3, <2>4, NextType
<1>3. ASSUME NEW o \in Dirs, o # x[2]
      PROVE  DirInv(o)'
  <2>1. x[2] \in Dirs /\ Side(o) # Side(x[2])
    BY <1>1, <1>3, CopierEnds, TwoSides
  <2>2. \A l \in Ends : l[2] = Side(o) => q'[l] = q[l]
    BY <1>1, <2>1 DEF RelayTypeOK
  <2>3. \A y \in Copiers : y[2] = o => st'[y] = st[y] /\ buf'[y] = buf[y]
    BY <1>1, <1>3 DEF RelayTypeOK
  <2>4. DirInv(o) /\ setup' = setup /\ sent'[o] = sent[o] /\ got'[o] = got[o]
    BY DEF RelayInv
  <2> QED
    BY <1>1, <2>2, <2>3, <2>4, Quiet
<1> QED
  BY <1>2, <1>3 DEF RelayInv

\* The facts a copier's step starts from: its direction with one relay ...
LEMMA OneHopOf ==
  ASSUME RelayInv, NEW x \in Copiers, Hops = 1
  PROVE  LET d == x[2]
         IN  /\ q[In(x)] \in Seq(Unit) /\ buf[x] \in Seq(Unit) /\ q[RecvEnd(d)] \in Seq(Unit)
             /\ Len(got[d]) \in Nat /\ Len(sent[d]) \in Nat
             /\ OneHop(q[In(x)], st[x], buf[x], q[RecvEnd(d)], Len(got[d]), Len(sent[d]))
<1>1. /\ x[2] \in Dirs /\ In(x) \in Ends /\ RecvEnd(x[2]) \in Ends /\ x = FirstCopier(x[2])
  BY CopierEnds, OuterEnds, OneCopier
<1>2. DirInv(x[2]) /\ RelayTypeOK
  BY <1>1 DEF RelayInv
<1>3. OneHop(q[In(x)], st[x], buf[x], q[RecvEnd(x[2])], Len(got[x[2]]), Len(sent[x[2]]))
  BY <1>1, <1>2 DEF DirInv
<1>4. Len(got[x[2]]) \in Nat /\ Len(sent[x[2]]) \in Nat
  BY <1>1, <1>2, LenProperties DEF RelayTypeOK
<1> QED
  BY <1>1, <1>2, <1>3, <1>4 DEF RelayTypeOK

\* ... or with two.
LEMMA TwoHopsOf ==
  ASSUME RelayInv, NEW d \in Dirs, Hops = 2
  PROVE  LET x == FirstCopier(d)
             y == LastCopier(d)
         IN  /\ x \in Copiers /\ y \in Copiers
             /\ q[In(x)] \in Seq(Unit) /\ buf[x] \in Seq(Unit) /\ q[In(y)] \in Seq(Unit)
             /\ buf[y] \in Seq(Unit) /\ q[RecvEnd(d)] \in Seq(Unit)
             /\ Len(got[d]) \in Nat /\ Len(sent[d]) \in Nat
             /\ TwoHops(q[In(x)], st[x], buf[x], q[In(y)], st[y], buf[y], q[RecvEnd(d)],
                        Len(got[d]), Len(sent[d]))
<1> DEFINE x == FirstCopier(d)
           y == LastCopier(d)
<1>1. x \in Copiers /\ y \in Copiers /\ RecvEnd(d) \in Ends
  BY OuterEnds
<1>2. DirInv(d) /\ RelayTypeOK
  BY DEF RelayInv
<1>3. TwoHops(q[In(x)], st[x], buf[x], q[In(y)], st[y], buf[y], q[RecvEnd(d)], Len(got[d]), Len(sent[d]))
  BY <1>2 DEF DirInv
<1> HIDE DEF x, y
<1>4. In(x) \in Ends /\ In(y) \in Ends
  BY <1>1, CopierEnds
<1>5. Len(got[d]) \in Nat /\ Len(sent[d]) \in Nat
  BY <1>2, LenProperties DEF RelayTypeOK
<1>6. /\ q[In(x)] \in Seq(Unit) /\ buf[x] \in Seq(Unit) /\ q[In(y)] \in Seq(Unit)
      /\ buf[y] \in Seq(Unit) /\ q[RecvEnd(d)] \in Seq(Unit)
  BY <1>1, <1>2, <1>4 DEF RelayTypeOK
<1> QED
  BY <1>1, <1>3, <1>5, <1>6 DEF x, y

\* With one relay: the direction of a copier after a step of it.
LEMMA OneHopNext ==
  ASSUME RelayInv, NEW x \in Copiers, Hops = 1,
         UNCHANGED <<setup, sent, got>>,
         OneHop(q'[In(x)], st'[x], buf'[x], q'[RecvEnd(x[2])], Len(got[x[2]]), Len(sent[x[2]]))
  PROVE  DirInv(x[2])'
<1>1. x[2] \in Dirs /\ x = FirstCopier(x[2])
  BY CopierEnds, OneCopier
<1>2. Counted(sent[x[2]]) /\ Counted(got[x[2]])
  BY <1>1 DEF RelayInv, DirInv
<1>3. sent'[x[2]] = sent[x[2]] /\ got'[x[2]] = got[x[2]] /\ setup' = setup
  OBVIOUS
<1>4. Hops # 2
  OBVIOUS
<1> QED
  BY <1>1, <1>2, <1>3, <1>4, NextDir

\* With two relays, the same.
LEMMA TwoHopsNext ==
  ASSUME RelayInv, NEW d \in Dirs, Hops = 2,
         UNCHANGED <<setup, sent, got>>,
         TwoHops(q'[In(FirstCopier(d))], st'[FirstCopier(d)], buf'[FirstCopier(d)],
                 q'[In(LastCopier(d))], st'[LastCopier(d)], buf'[LastCopier(d)],
                 q'[RecvEnd(d)], Len(got[d]), Len(sent[d]))
  PROVE  DirInv(d)'
<1>1. Counted(sent[d]) /\ Counted(got[d])
  BY DEF RelayInv, DirInv
<1>2. sent'[d] = sent[d] /\ got'[d] = got[d] /\ setup' = setup
  OBVIOUS
<1>3. Hops # 1
  OBVIOUS
<1> QED
  BY <1>1, <1>2, <1>3, NextDir

\* A read keeps the invariant.
LEMMA ReadKeeps ==
  ASSUME RelayInv, NEW x \in Copiers, Read(x)
  PROVE  RelayInv'
<1> DEFINE d == x[2]
           e == In(x)
<1>1. RelayTypeOK /\ Hops \in {1, 2}
  BY HopsType DEF RelayInv, RelayTypeOK
<1>2. d \in Dirs /\ e \in Ends /\ e[2] = Side(d)
  BY <1>1, CopierEnds
<1>3. UNCHANGED <<setup, shut, closed, expired, rel, killed, sent, got>> /\ st[x] = "read"
  BY DEF Read
<1>p. PICK n \in 1 .. Len(q[e]) : \E v \in Seq(Unit), s \in {"read", "write"} :
           /\ ReadResult(x, n, v, s)
           /\ q' = [q EXCEPT ![e] = SubSeq(@, n + 1, Len(@))]
           /\ buf' = [buf EXCEPT ![x] = v]
           /\ st' = [st EXCEPT ![x] = s]
  BY <1>1, ReadStep
<1>4. PICK v \in Seq(Unit), s \in {"read", "write"} :
           /\ ReadResult(x, n, v, s)
           /\ q' = [q EXCEPT ![e] = SubSeq(@, n + 1, Len(@))]
           /\ buf' = [buf EXCEPT ![x] = v]
           /\ st' = [st EXCEPT ![x] = s]
  BY <1>p
<1> DEFINE w == SubSeq(q[e], n + 1, Len(q[e]))
           chunk == SubSeq(q[e], 1, n)
<1>5. w \in Seq(Unit) /\ Len(w) <= Cap
  <2>1. q[e] \in Seq(Unit) /\ Len(q[e]) \in Nat /\ Len(q[e]) <= Cap /\ Cap \in Nat
    BY <1>1, <1>2, LenProperties, SizeAssumption DEF RelayTypeOK
  <2>2. w \in Seq(Unit) /\ Len(w) = Len(q[e]) - n
    BY <2>1, Cut
  <2> HIDE DEF w, e
  <2> QED
    BY <2>1, <2>2
<1>6. /\ q'[e] = w /\ \A l \in Ends : l # e => q'[l] = q[l]
      /\ buf'[x] = v /\ \A y \in Copiers : y # x => buf'[y] = buf[y]
      /\ st'[x] = s /\ \A y \in Copiers : y # x => st'[y] = st[y]
  BY <1>1, <1>2, <1>4 DEF RelayTypeOK
<1>7. DirInv(d)'
  <2>1. CASE Hops = 1
    <3>1. ~Framed(In(x)) /\ ~Framed(Out(x)) /\ x = FirstCopier(d) /\ RecvEnd(d) \in Ends /\ e # RecvEnd(d)
      BY <1>1, <1>2, <2>1, OneCopier, OuterEnds
    <3>2. v = chunk /\ s = "write"
      BY <1>4, <3>1 DEF ReadResult
    <3>3. /\ q[e] \in Seq(Unit) /\ q[RecvEnd(d)] \in Seq(Unit)
          /\ Len(got[d]) \in Nat /\ Len(sent[d]) \in Nat
          /\ OneHop(q[e], "read", buf[x], q[RecvEnd(d)], Len(got[d]), Len(sent[d]))
      BY <1>3, <2>1, OneHopOf
    <3>4. OneHop(w, "write", chunk, q[RecvEnd(d)], Len(got[d]), Len(sent[d]))
      BY <3>3, OneHopRead
    <3>5. q'[RecvEnd(d)] = q[RecvEnd(d)]
      BY <1>6, <3>1
    <3> HIDE DEF w, chunk
    <3> QED
      BY <1>3, <1>6, <2>1, <3>2, <3>4, <3>5, OneHopNext
  <2>2. CASE Hops = 2
    <3> DEFINE f == FirstCopier(d)
               l == LastCopier(d)
    <3>1. /\ f \in Copiers /\ l \in Copiers
          /\ q[In(f)] \in Seq(Unit) /\ buf[f] \in Seq(Unit) /\ q[In(l)] \in Seq(Unit)
          /\ buf[l] \in Seq(Unit) /\ q[RecvEnd(d)] \in Seq(Unit)
          /\ Len(got[d]) \in Nat /\ Len(sent[d]) \in Nat
          /\ TwoHops(q[In(f)], st[f], buf[f], q[In(l)], st[l], buf[l], q[RecvEnd(d)],
                     Len(got[d]), Len(sent[d]))
      BY <1>2, <2>2, TwoHopsOf
    <3>2. /\ x = f \/ x = l
          /\ f # l /\ In(f) # In(l) /\ In(l) # RecvEnd(d) /\ In(f) # RecvEnd(d)
          /\ x = f => ~Framed(In(x)) /\ Framed(Out(x))
          /\ x = l => Framed(In(x)) /\ ~Framed(Out(x))
      BY <1>1, <1>2, <2>2, TwoCopiers, OuterEnds
    <3>3. In(f) \in Ends /\ In(l) \in Ends /\ RecvEnd(d) \in Ends
      BY <1>1, <1>2, <3>1, CopierEnds, OuterEnds
    <3> HIDE DEF f, l, w, chunk
    <3>4. CASE x = f
      <4>1. /\ q'[In(f)] = w /\ st'[f] = s /\ buf'[f] = v /\ q'[In(l)] = q[In(l)]
            /\ st'[l] = st[l] /\ buf'[l] = buf[l] /\ q'[RecvEnd(d)] = q[RecvEnd(d)]
        BY <1>6, <3>1, <3>2, <3>3, <3>4
      <4>2. v = Encode(chunk) /\ s = "write"
        BY <1>4, <3>2, <3>4 DEF ReadResult, chunk
      <4>3. TwoHops(w, "write", Encode(chunk), q[In(l)], st[l], buf[l], q[RecvEnd(d)],
                    Len(got[d]), Len(sent[d]))
        <5> DEFINE in == q[In(f)]
        <5>1. /\ w = SubSeq(in, n + 1, Len(in)) /\ chunk = SubSeq(in, 1, n) /\ n \in 1 .. Len(in)
              /\ st[f] = "read" /\ in \in Seq(Unit)
          BY <1>3, <3>1, <3>4 DEF w, chunk
        <5>2. TwoHops(in, "read", buf[f], q[In(l)], st[l], buf[l], q[RecvEnd(d)], Len(got[d]), Len(sent[d]))
          BY <3>1, <5>1
        <5> HIDE DEF in
        <5>3. TwoHops(SubSeq(in, n + 1, Len(in)), "write", Encode(SubSeq(in, 1, n)), q[In(l)], st[l],
                      buf[l], q[RecvEnd(d)], Len(got[d]), Len(sent[d]))
          BY <3>1, <5>1, <5>2, FirstReads
        <5> QED
          BY <5>1, <5>3
      <4> QED
        BY <1>2, <1>3, <2>2, <4>1, <4>2, <4>3, TwoHopsNext DEF f, l
    <3>5. CASE x = l
      <4>1. /\ q'[In(l)] = w /\ st'[l] = s /\ buf'[l] = v /\ q'[In(f)] = q[In(f)]
            /\ st'[f] = st[f] /\ buf'[f] = buf[f] /\ q'[RecvEnd(d)] = q[RecvEnd(d)]
        BY <1>6, <3>1, <3>2, <3>3, <3>5
      <4>2. \/ n <= Missing(buf[l]) /\ Missing(buf[l] \o chunk) # 0 /\ v = buf[l] \o chunk /\ s = "read"
            \/ Missing(buf[l] \o chunk) = 0 /\ v = Decode(buf[l] \o chunk) /\ s = "write"
        BY <1>4, <3>2, <3>5 DEF ReadResult, chunk
      <4>3. TwoHops(q[In(f)], st[f], buf[f], w, s, v, q[RecvEnd(d)], Len(got[d]), Len(sent[d]))
        <5> DEFINE mid == q[In(l)]
        <5>3. /\ w = SubSeq(mid, n + 1, Len(mid)) /\ chunk = SubSeq(mid, 1, n) /\ n \in 1 .. Len(mid)
              /\ st[l] = "read" /\ mid \in Seq(Unit)
          BY <1>3, <3>1, <3>5 DEF w, chunk
        <5>4. TwoHops(q[In(f)], st[f], buf[f], mid, "read", buf[l], q[RecvEnd(d)], Len(got[d]), Len(sent[d]))
          BY <3>1, <5>3
        <5> HIDE DEF mid
        <5>1. CASE n <= Missing(buf[l]) /\ Missing(buf[l] \o chunk) # 0 /\ v = buf[l] \o chunk /\ s = "read"
          BY <3>1, <5>1, <5>3, <5>4, SecondReadsPart
        <5>2. CASE Missing(buf[l] \o chunk) = 0 /\ v = Decode(buf[l] \o chunk) /\ s = "write"
          BY <3>1, <5>2, <5>3, <5>4, SecondReadsFrame
        <5> QED
          BY <4>2, <5>1, <5>2
      <4> QED
        BY <1>2, <1>3, <2>2, <4>1, <4>3, TwoHopsNext DEF f, l
    <3> QED
      BY <3>2, <3>4, <3>5
  <2> QED
    BY <1>1, <2>1, <2>2
<1>8. expired' \subseteq Ends /\ s \in {"read", "write", "poke", "done"}
  BY <1>1, <1>3 DEF RelayTypeOK
<1> HIDE DEF w, e
<1>9. q' = [q EXCEPT ![e] = w]
  BY <1>4 DEF w
<1> QED
  BY <1>2, <1>3, <1>4, <1>5, <1>7, <1>8, <1>9, CopierStep

\* A copier that fails or ends, and drops what it has, keeps the invariant.
LEMMA CopierStops ==
  ASSUME RelayInv, NEW x \in Copiers, NEW z \in {"poke", "done"},
         st' = [st EXCEPT ![x] = z], buf' = [buf EXCEPT ![x] = << >>], expired' \subseteq Ends,
         UNCHANGED <<setup, q, shut, closed, rel, killed, sent, got>>
  PROVE  RelayInv'
<1> DEFINE d == x[2]
           e == In(x)
<1>1. RelayTypeOK /\ Hops \in {1, 2} /\ z \notin Alive
  BY HopsType DEF RelayInv, RelayTypeOK, Alive
<1>2. d \in Dirs /\ e \in Ends /\ e[2] = Side(d)
  BY <1>1, CopierEnds
<1>3. /\ buf'[x] = << >> /\ \A y \in Copiers : y # x => buf'[y] = buf[y]
      /\ st'[x] = z /\ \A y \in Copiers : y # x => st'[y] = st[y]
  BY <1>1 DEF RelayTypeOK
<1>4. DirInv(d)'
  <2>1. CASE Hops = 1
    <3>1. OneHop(q[e], st[x], buf[x], q[RecvEnd(d)], Len(got[d]), Len(sent[d]))
      BY <2>1, OneHopOf
    <3>2. OneHop(q[e], z, << >>, q[RecvEnd(d)], Len(got[d]), Len(sent[d]))
      BY <1>1, <3>1, OneHopEnd
    <3>3. q' = q /\ UNCHANGED <<setup, sent, got>>
      OBVIOUS
    <3> QED
      BY <1>3, <2>1, <3>2, <3>3, OneHopNext
  <2>2. CASE Hops = 2
    <3> DEFINE f == FirstCopier(d)
               l == LastCopier(d)
    <3>1. /\ f \in Copiers /\ l \in Copiers
          /\ buf[f] \in Seq(Unit) /\ q[In(l)] \in Seq(Unit)
          /\ buf[l] \in Seq(Unit) /\ q[RecvEnd(d)] \in Seq(Unit)
          /\ Len(got[d]) \in Nat /\ Len(sent[d]) \in Nat
          /\ TwoHops(q[In(f)], st[f], buf[f], q[In(l)], st[l], buf[l], q[RecvEnd(d)],
                     Len(got[d]), Len(sent[d]))
      BY <1>2, <2>2, TwoHopsOf
    <3>2. (x = f \/ x = l) /\ f # l
      BY <2>2, TwoCopiers
    <3>3. q' = q /\ UNCHANGED <<setup, sent, got>>
      OBVIOUS
    <3> HIDE DEF f, l
    <3>4. CASE x = f
      <4>1. st'[f] = z /\ buf'[f] = << >> /\ st'[l] = st[l] /\ buf'[l] = buf[l]
        BY <1>3, <3>1, <3>2, <3>4
      <4>2. TwoHops(q[In(f)], z, << >>, q[In(l)], st[l], buf[l], q[RecvEnd(d)], Len(got[d]), Len(sent[d]))
        BY <1>1, <3>1, FirstEnds
      <4> QED
        BY <1>2, <2>2, <3>3, <4>1, <4>2, TwoHopsNext DEF f, l
    <3>5. CASE x = l
      <4>1. st'[l] = z /\ buf'[l] = << >> /\ st'[f] = st[f] /\ buf'[f] = buf[f]
        BY <1>3, <3>1, <3>2, <3>5
      <4>2. TwoHops(q[In(f)], st[f], buf[f], q[In(l)], z, << >>, q[RecvEnd(d)], Len(got[d]), Len(sent[d]))
        BY <1>1, <3>1, SecondEnds
      <4> QED
        BY <1>2, <2>2, <3>3, <4>1, <4>2, TwoHopsNext DEF f, l
    <3> QED
      BY <3>2, <3>4, <3>5
  <2> QED
    BY <1>1, <2>1, <2>2
<1>5. /\ q[e] \in Seq(Unit) /\ Len(q[e]) <= Cap /\ << >> \in Seq(Unit)
      /\ z \in {"read", "write", "poke", "done"}
  BY <1>1, <1>2 DEF RelayTypeOK
<1>6. q' = [q EXCEPT ![e] = q[e]]
  BY <1>1, <1>2 DEF RelayTypeOK
<1> HIDE DEF e
<1> QED
  BY <1>2, <1>4, <1>5, <1>6, CopierStep

\* The end of a stream, a failed write, and the deadline that is set afterwards.
LEMMA EndKeeps ==
  ASSUME RelayInv, NEW x \in Copiers, ReadEnd(x) \/ WriteEnd(x) \/ Poke(x)
  PROVE  RelayInv'
<1>1. RelayTypeOK /\ Hops \in {1, 2}
  BY HopsType DEF RelayInv, RelayTypeOK
<1>2. CASE ReadEnd(x) \/ WriteEnd(x)
  <2>1. /\ st' = [st EXCEPT ![x] = "poke"] /\ buf' = [buf EXCEPT ![x] = << >>]
        /\ UNCHANGED <<setup, q, shut, closed, rel, killed, sent, got>> /\ expired' = expired
    BY <1>2 DEF ReadEnd, WriteEnd
  <2>2. expired' \subseteq Ends
    BY <1>1, <2>1 DEF RelayTypeOK
  <2> QED
    BY <2>1, <2>2, CopierStops
<1>3. CASE Poke(x)
  <2>1. /\ st[x] = "poke" /\ st' = [st EXCEPT ![x] = "done"] /\ buf' = buf
        /\ expired' = expired \cup {Out(x)}
        /\ UNCHANGED <<setup, q, shut, closed, rel, killed, sent, got>>
    BY <1>3 DEF Poke
  <2>2. expired' \subseteq Ends
    BY <1>1, <2>1, CopierEnds DEF RelayTypeOK
  <2>3. buf[x] = << >>
    <3>1. CASE Hops = 1
      BY <2>1, <3>1, OneHopOf DEF OneHop
    <3>2. CASE Hops = 2
      <4> DEFINE d == x[2]
                 f == FirstCopier(d)
                 l == LastCopier(d)
      <4>1. d \in Dirs /\ (x = f \/ x = l)
        BY <1>1, <3>2, CopierEnds, TwoCopiers
      <4>2. TwoHops(q[In(f)], st[f], buf[f], q[In(l)], st[l], buf[l], q[RecvEnd(d)],
                    Len(got[d]), Len(sent[d]))
        BY <3>2, <4>1, TwoHopsOf
      <4> HIDE DEF f, l, d
      <4>3. (st[f] # "write" => buf[f] = << >>) /\ (st[l] \notin Alive => buf[l] = << >>)
        BY <4>2 DEF TwoHops
      <4> QED
        BY <2>1, <4>1, <4>3 DEF Alive
    <3> QED
      BY <1>1, <3>1, <3>2
  <2>4. buf' = [buf EXCEPT ![x] = << >>]
    BY <1>1, <2>1, <2>3 DEF RelayTypeOK
  <2> QED
    BY <2>1, <2>2, <2>4, CopierStops
<1> QED
  BY <1>2, <1>3

\* A write keeps the invariant.
LEMMA WriteKeeps ==
  ASSUME RelayInv, NEW x \in Copiers, Write(x)
  PROVE  RelayInv'
<1> DEFINE d == x[2]
           e == Other(Out(x))
           b == buf[x]
           n == Min({Len(b), Cap - Len(q[e])})
           w == q[e] \o SubSeq(b, 1, n)
           y == SubSeq(b, n + 1, Len(b))
           s == IF n = Len(b) THEN "read" ELSE "write"
<1>1. RelayTypeOK /\ Hops \in {1, 2}
  BY HopsType DEF RelayInv, RelayTypeOK
<1>2. d \in Dirs /\ e \in Ends /\ e[2] = Side(d)
  BY <1>1, CopierEnds
<1>3. /\ st[x] = "write" /\ n > 0
      /\ q' = [q EXCEPT ![e] = w] /\ buf' = [buf EXCEPT ![x] = y] /\ st' = [st EXCEPT ![x] = s]
      /\ UNCHANGED <<setup, shut, closed, expired, rel, killed, sent, got>>
  BY DEF Write
<1>4. /\ q[e] \in Seq(Unit) /\ Len(q[e]) \in Nat /\ Len(q[e]) <= Cap /\ Cap \in Nat
      /\ b \in Seq(Unit) /\ Len(b) \in Nat
  BY <1>1, <1>2, LenProperties, SizeAssumption DEF RelayTypeOK
<1> HIDE DEF b, e
<1>5. n \in 1 .. Len(b) /\ n <= Cap - Len(q[e])
  <2>1. Len(b) \in Int /\ Cap - Len(q[e]) \in Int
    BY <1>4
  <2>2. n = IF Len(b) <= Cap - Len(q[e]) THEN Len(b) ELSE Cap - Len(q[e])
    BY <2>1, MinOfTwo
  <2> HIDE DEF n
  <2>3. n > 0
    BY <1>3
  <2>4. CASE Len(b) <= Cap - Len(q[e])
    <3>1. n = Len(b)
      BY <2>2, <2>4
    <3> QED
      BY <1>4, <2>3, <2>4, <3>1
  <2>5. CASE ~(Len(b) <= Cap - Len(q[e]))
    <3>1. n = Cap - Len(q[e])
      BY <2>2, <2>5
    <3> QED
      BY <1>4, <2>1, <2>3, <2>5, <3>1
  <2> QED
    BY <2>4, <2>5
<1> HIDE DEF n
<1>6. /\ SubSeq(b, 1, n) \in Seq(Unit) /\ Len(SubSeq(b, 1, n)) = n /\ y \in Seq(Unit)
  BY <1>4, <1>5, Cut
<1>7. w \in Seq(Unit) /\ Len(w) <= Cap
  <2> DEFINE a == SubSeq(b, 1, n)
  <2> HIDE DEF a
  <2>1. a \in Seq(Unit) /\ Len(a) = n /\ w = q[e] \o a
    BY <1>6 DEF a
  <2>2. w \in Seq(Unit) /\ Len(w) = Len(q[e]) + n
    BY <1>4, <2>1, Joined
  <2> HIDE DEF w
  <2> QED
    BY <1>4, <1>5, <2>2
<1>8. /\ q'[e] = w /\ \A l \in Ends : l # e => q'[l] = q[l]
      /\ buf'[x] = y /\ \A z \in Copiers : z # x => buf'[z] = buf[z]
      /\ st'[x] = s /\ \A z \in Copiers : z # x => st'[z] = st[z]
  BY <1>1, <1>2, <1>3 DEF RelayTypeOK
<1>9. DirInv(d)'
  <2>1. CASE Hops = 1
    <3>1. e = RecvEnd(d) /\ In(x) \in Ends /\ In(x) # e
      BY <1>1, <1>2, <2>1, OneCopier, CopierEnds DEF e
    <3>2. /\ q[In(x)] \in Seq(Unit) /\ Len(got[d]) \in Nat /\ Len(sent[d]) \in Nat
          /\ OneHop(q[In(x)], "write", b, q[e], Len(got[d]), Len(sent[d]))
      BY <1>3, <2>1, <3>1, OneHopOf DEF b
    <3>3. OneHop(q[In(x)], s, y, w, Len(got[d]), Len(sent[d]))
      BY <1>4, <1>5, <3>2, OneHopWrite
    <3>4. q'[In(x)] = q[In(x)]
      BY <1>8, <3>1
    <3> HIDE DEF w, y, s
    <3> QED
      BY <1>3, <1>8, <2>1, <3>1, <3>3, <3>4, OneHopNext
  <2>2. CASE Hops = 2
    <3> DEFINE f == FirstCopier(d)
               l == LastCopier(d)
    <3>1. /\ f \in Copiers /\ l \in Copiers
          /\ q[In(f)] \in Seq(Unit) /\ buf[f] \in Seq(Unit) /\ q[In(l)] \in Seq(Unit)
          /\ buf[l] \in Seq(Unit) /\ q[RecvEnd(d)] \in Seq(Unit)
          /\ Len(got[d]) \in Nat /\ Len(sent[d]) \in Nat
          /\ TwoHops(q[In(f)], st[f], buf[f], q[In(l)], st[l], buf[l], q[RecvEnd(d)],
                     Len(got[d]), Len(sent[d]))
      BY <1>2, <2>2, TwoHopsOf
    <3>2. /\ x = f \/ x = l
          /\ f # l /\ In(f) # In(l) /\ In(l) # RecvEnd(d) /\ In(f) # RecvEnd(d)
          /\ x = f => e = In(l)
          /\ x = l => e = RecvEnd(d)
      BY <1>1, <1>2, <2>2, TwoCopiers, OuterEnds DEF e
    <3>3. In(f) \in Ends /\ In(l) \in Ends /\ RecvEnd(d) \in Ends
      BY <1>1, <1>2, <3>1, CopierEnds, OuterEnds
    <3> HIDE DEF f, l
    <3>4. CASE x = f
      <4>1. TwoHops(q[In(f)], "write", b, q[e], st[l], buf[l], q[RecvEnd(d)], Len(got[d]), Len(sent[d]))
        BY <1>3, <3>1, <3>2, <3>4 DEF b
      <4>2. TwoHops(q[In(f)], s, y, w, st[l], buf[l], q[RecvEnd(d)], Len(got[d]), Len(sent[d]))
        BY <1>4, <1>5, <3>1, <4>1, FirstWrites
      <4> HIDE DEF w, y, s
      <4>3. /\ q'[In(f)] = q[In(f)] /\ st'[f] = s /\ buf'[f] = y /\ q'[In(l)] = w
            /\ st'[l] = st[l] /\ buf'[l] = buf[l] /\ q'[RecvEnd(d)] = q[RecvEnd(d)]
        BY <1>8, <3>1, <3>2, <3>3, <3>4
      <4> QED
        BY <1>2, <1>3, <2>2, <4>2, <4>3, TwoHopsNext DEF f, l
    <3>5. CASE x = l
      <4>1. TwoHops(q[In(f)], st[f], buf[f], q[In(l)], "write", b, q[e], Len(got[d]), Len(sent[d]))
        BY <1>3, <3>1, <3>2, <3>5 DEF b
      <4>2. TwoHops(q[In(f)], st[f], buf[f], q[In(l)], s, y, w, Len(got[d]), Len(sent[d]))
        BY <1>4, <1>5, <3>1, <4>1, SecondWrites
      <4> HIDE DEF w, y, s
      <4>3. /\ q'[In(f)] = q[In(f)] /\ st'[l] = s /\ buf'[l] = y /\ q'[In(l)] = q[In(l)]
            /\ st'[f] = st[f] /\ buf'[f] = buf[f] /\ q'[RecvEnd(d)] = w
        BY <1>8, <3>1, <3>2, <3>3, <3>5
      <4> QED
        BY <1>2, <1>3, <2>2, <4>2, <4>3, TwoHopsNext DEF f, l
    <3> QED
      BY <3>2, <3>4, <3>5
  <2> QED
    BY <1>1, <2>1, <2>2
<1>10. expired' \subseteq Ends /\ s \in {"read", "write", "poke", "done"}
  BY <1>1, <1>3 DEF RelayTypeOK
<1> HIDE DEF w, y, s
<1> QED
  BY <1>2, <1>3, <1>6, <1>7, <1>9, <1>10, CopierStep

-----------------------------------------------------------------------------
(* The relay function and the peers *)

\* Sockets are closed or shut, and nothing else changes on the way.
LEMMA SocketsKeep ==
  ASSUME RelayInv, UNCHANGED <<setup, q, expired, st, buf, sent, got>>,
         shut' \subseteq Ends, closed' \subseteq Ends,
         rel' \in [Relays -> {"relay", "closeSrc", "closed"}], killed' \subseteq Relays
  PROVE  RelayInv'
<1>1. RelayTypeOK /\ Hops \in {1, 2}
  BY HopsType DEF RelayInv, RelayTypeOK
<1>2. /\ q' \in [Ends -> Seq(Unit)] /\ \A e \in Ends : Len(q'[e]) <= Cap
      /\ setup' = setup /\ expired' \subseteq Ends
      /\ st' \in [Copiers -> {"read", "write", "poke", "done"}] /\ buf' \in [Copiers -> Seq(Unit)]
      /\ sent' \in [Dirs -> Seq(Nat)] /\ got' \in [Dirs -> Seq(Nat)]
  BY <1>1 DEF RelayTypeOK
<1>3. RelayTypeOK'
  BY <1>1, <1>2, NextType
<1>4. ASSUME NEW d \in Dirs
      PROVE  DirInv(d)'
  <2>1. DirInv(d)
    BY DEF RelayInv
  <2> QED
    BY <1>1, <2>1, Quiet
<1> QED
  BY <1>3, <1>4 DEF RelayInv

\* The ends of a relay function are ends of its links.
LEMMA RelayEnds ==
  ASSUME Hops \in {1, 2}, NEW r \in Relays
  PROVE  DestEnd(r) \in Ends /\ SrcEnd(r) \in Ends
BY DEF Relays, DestEnd, SrcEnd, Ends, Links

\* Closing the sockets of a relay keeps the invariant.
LEMMA CloseKeeps ==
  ASSUME RelayInv, NEW r \in Relays, CloseDest(r) \/ CloseSrc(r) \/ ApiClose(r)
  PROVE  RelayInv'
<1>1. RelayTypeOK /\ Hops \in {1, 2}
  BY HopsType DEF RelayInv, RelayTypeOK
<1>2. DestEnd(r) \in Ends /\ SrcEnd(r) \in Ends
  BY <1>1, RelayEnds
<1>3. UNCHANGED <<setup, q, expired, st, buf, sent, got>> /\ shut' = shut
  BY DEF CloseDest, CloseSrc, ApiClose
<1>4. shut' \subseteq Ends /\ closed' \subseteq Ends
  BY <1>1, <1>2, <1>3 DEF CloseDest, CloseSrc, ApiClose, RelayTypeOK
<1>5. rel' \in [Relays -> {"relay", "closeSrc", "closed"}] /\ killed' \subseteq Relays
  BY <1>1 DEF CloseDest, CloseSrc, ApiClose, RelayTypeOK
<1> QED
  BY <1>3, <1>4, <1>5, SocketsKeep

\* A peer that shuts or closes its socket keeps the invariant.
LEMMA PeerEndKeeps ==
  ASSUME RelayInv, NEW d \in Dirs, PeerShut(d) \/ PeerClose(d)
  PROVE  RelayInv'
<1>1. RelayTypeOK /\ Hops \in {1, 2}
  BY HopsType DEF RelayInv, RelayTypeOK
<1>2. SendEnd(d) \in Ends
  BY <1>1, OuterEnds
<1>3. UNCHANGED <<setup, q, expired, st, buf, sent, got>> /\ rel' = rel /\ killed' = killed
  BY DEF PeerShut, PeerClose
<1>4. shut' \subseteq Ends /\ closed' \subseteq Ends
  BY <1>1, <1>2 DEF PeerShut, PeerClose, RelayTypeOK
<1>5. rel' \in [Relays -> {"relay", "closeSrc", "closed"}] /\ killed' \subseteq Relays
  BY <1>1, <1>3 DEF RelayTypeOK
<1> QED
  BY <1>3, <1>4, <1>5, SocketsKeep

\* What a peer sends or receives leaves the other direction alone.
LEMMA PeerStep ==
  ASSUME RelayInv, NEW d \in Dirs, NEW e \in Ends, e[2] = Side(d), NEW w \in Seq(Unit), Len(w) <= Cap,
         NEW s \in Seq(Nat), NEW g \in Seq(Nat),
         q' = [q EXCEPT ![e] = w], sent' = [sent EXCEPT ![d] = s], got' = [got EXCEPT ![d] = g],
         UNCHANGED <<setup, shut, closed, expired, st, buf, rel, killed>>,
         DirInv(d)'
  PROVE  RelayInv'
<1>1. RelayTypeOK /\ Hops \in {1, 2}
  BY HopsType DEF RelayInv, RelayTypeOK
<1>2. RelayTypeOK'
  <2>1. q' \in [Ends -> Seq(Unit)] /\ \A l \in Ends : Len(q'[l]) <= Cap
    BY <1>1 DEF RelayTypeOK
  <2>2. sent' \in [Dirs -> Seq(Nat)] /\ got' \in [Dirs -> Seq(Nat)]
    BY <1>1 DEF RelayTypeOK
  <2>3. /\ setup' = setup /\ shut' \subseteq Ends /\ closed' \subseteq Ends /\ expired' \subseteq Ends
        /\ st' \in [Copiers -> {"read", "write", "poke", "done"}] /\ buf' \in [Copiers -> Seq(Unit)]
        /\ rel' \in [Relays -> {"relay", "closeSrc", "closed"}] /\ killed' \subseteq Relays
    BY <1>1 DEF RelayTypeOK
  <2> QED
    BY <1>1, <2>1, <2>2, <2>3, NextType
<1>3. ASSUME NEW o \in Dirs, o # d
      PROVE  DirInv(o)'
  <2>1. Side(o) # Side(d)
    BY <1>3, TwoSides
  <2>2. \A l \in Ends : l[2] = Side(o) => q'[l] = q[l]
    BY <1>1, <2>1 DEF RelayTypeOK
  <2>3. DirInv(o) /\ setup' = setup /\ sent'[o] = sent[o] /\ got'[o] = got[o] /\ st' = st /\ buf' = buf
    BY <1>1, <1>3 DEF RelayInv, RelayTypeOK
  <2> QED
    BY <1>1, <2>2, <2>3, Quiet
<1> QED
  BY <1>2, <1>3 DEF RelayInv

\* What one direction holds, whatever the number of relays.
LEMMA DirOf ==
  ASSUME RelayInv, NEW d \in Dirs
  PROVE  LET x == FirstCopier(d)
             y == LastCopier(d)
         IN  /\ q[In(x)] \in Seq(Unit) /\ Len(q[In(x)]) <= Cap /\ buf[x] \in Seq(Unit)
             /\ q[In(y)] \in Seq(Unit) /\ buf[y] \in Seq(Unit) /\ q[RecvEnd(d)] \in Seq(Unit)
             /\ In(x) \in Ends /\ In(x)[2] = Side(d) /\ In(y) \in Ends
             /\ Hops = 2 => In(x) # In(y) /\ In(y) # RecvEnd(d)
             /\ Len(q[RecvEnd(d)]) <= Cap
             /\ sent[d] \in Seq(Nat) /\ got[d] \in Seq(Nat) /\ Counted(sent[d]) /\ Counted(got[d])
             /\ Len(got[d]) \in Nat /\ Len(sent[d]) \in Nat
             /\ Hops = 1 => OneHop(q[In(x)], st[x], buf[x], q[RecvEnd(d)], Len(got[d]), Len(sent[d]))
             /\ Hops = 2 => TwoHops(q[In(x)], st[x], buf[x], q[In(y)], st[y], buf[y], q[RecvEnd(d)],
                                    Len(got[d]), Len(sent[d]))
<1> DEFINE x == FirstCopier(d)
           y == LastCopier(d)
<1>1. RelayTypeOK /\ Hops \in {1, 2} /\ DirInv(d)
  BY HopsType DEF RelayInv, RelayTypeOK
<1>2. x \in Copiers /\ y \in Copiers /\ RecvEnd(d) \in Ends /\ x[2] = d /\ y[2] = d
  BY <1>1, OuterEnds
<1>3. /\ Counted(sent[d]) /\ Counted(got[d])
      /\ Hops = 1 => OneHop(q[In(x)], st[x], buf[x], q[RecvEnd(d)], Len(got[d]), Len(sent[d]))
      /\ Hops = 2 => TwoHops(q[In(x)], st[x], buf[x], q[In(y)], st[y], buf[y], q[RecvEnd(d)],
                             Len(got[d]), Len(sent[d]))
  BY <1>1 DEF DirInv
<1>4. Hops = 2 => In(x) # In(y) /\ In(y) # RecvEnd(d)
  BY <1>2, TwoCopiers
<1> HIDE DEF x, y
<1>5. In(x) \in Ends /\ In(x)[2] = Side(d) /\ In(y) \in Ends
  BY <1>1, <1>2, CopierEnds
<1>6. sent[d] \in Seq(Nat) /\ got[d] \in Seq(Nat) /\ Len(got[d]) \in Nat /\ Len(sent[d]) \in Nat
  BY <1>1, LenProperties DEF RelayTypeOK
<1>7. /\ q[In(x)] \in Seq(Unit) /\ Len(q[In(x)]) <= Cap /\ buf[x] \in Seq(Unit)
      /\ q[In(y)] \in Seq(Unit) /\ buf[y] \in Seq(Unit) /\ q[RecvEnd(d)] \in Seq(Unit)
      /\ Len(q[RecvEnd(d)]) <= Cap
  BY <1>1, <1>2, <1>5 DEF RelayTypeOK
<1> QED
  BY <1>3, <1>4, <1>5, <1>6, <1>7 DEF x, y

\* Counting on.
LEMMA CountedOn ==
  ASSUME NEW s \in Seq(Nat), Counted(s)
  PROVE  LET t == Append(s, Len(s) + 1)
         IN  Len(s) \in Nat /\ t \in Seq(Nat) /\ Len(t) = Len(s) + 1 /\ Counted(t)
<1> DEFINE t == Append(s, Len(s) + 1)
<1>1. /\ Len(s) \in Nat /\ t \in Seq(Nat) /\ Len(t) = Len(s) + 1 /\ t[Len(s) + 1] = Len(s) + 1
      /\ \A k \in 1 .. Len(s) : t[k] = s[k]
  BY LenProperties, AppendProperties
<1> HIDE DEF t
<1>2. ASSUME NEW k \in 1 .. Len(t)
      PROVE  t[k] = k
  <2>1. k = Len(s) + 1 \/ k \in 1 .. Len(s)
    BY <1>1
  <2> QED
    BY <1>1, <2>1 DEF Counted
<1> QED
  BY <1>1, <1>2 DEF Counted, t

\* A byte that is sent keeps the invariant.
LEMMA SendKeeps ==
  ASSUME RelayInv, NEW d \in Dirs, PeerSend(d)
  PROVE  RelayInv'
<1> DEFINE x == FirstCopier(d)
           y == LastCopier(d)
           e == In(x)
           n == Len(sent[d])
           g == Len(got[d])
           w == Append(q[e], Raw(n + 1))
           s == Append(sent[d], n + 1)
<1>1. RelayTypeOK /\ Hops \in {1, 2}
  BY HopsType DEF RelayInv, RelayTypeOK
<1>2. /\ q[e] \in Seq(Unit) /\ Len(q[e]) <= Cap /\ buf[x] \in Seq(Unit)
      /\ q[In(y)] \in Seq(Unit) /\ buf[y] \in Seq(Unit) /\ q[RecvEnd(d)] \in Seq(Unit)
      /\ e \in Ends /\ e[2] = Side(d) /\ In(y) \in Ends
      /\ Hops = 2 => e # In(y) /\ In(y) # RecvEnd(d)
      /\ sent[d] \in Seq(Nat) /\ got[d] \in Seq(Nat) /\ Counted(sent[d]) /\ Counted(got[d])
      /\ g \in Nat /\ n \in Nat
      /\ Hops = 1 => OneHop(q[e], st[x], buf[x], q[RecvEnd(d)], g, n)
      /\ Hops = 2 => TwoHops(q[e], st[x], buf[x], q[In(y)], st[y], buf[y], q[RecvEnd(d)], g, n)
  BY DirOf
<1>3. Other(SendEnd(d)) = e /\ e # RecvEnd(d) /\ RecvEnd(d) \in Ends
  BY <1>1, OuterEnds
<1> HIDE DEF e, x, y
<1>4. /\ q' = [q EXCEPT ![e] = w] /\ sent' = [sent EXCEPT ![d] = s] /\ got' = got /\ Len(q[e]) < Cap
      /\ UNCHANGED <<setup, shut, closed, expired, st, buf, rel, killed>>
  BY <1>3 DEF PeerSend
<1>5. w \in Seq(Unit) /\ Len(w) <= Cap
  <2>1. Raw(n + 1) \in Unit /\ Len(q[e]) \in Nat /\ Cap \in Nat
    <3>1. Len(q[e]) \in Nat /\ Cap \in Nat
      BY <1>2, LenProperties, SizeAssumption
    <3>2. n + 1 \in Nat
      BY <1>2
    <3> QED
      BY <3>1, <3>2 DEF Raw, Unit
  <2>2. w \in Seq(Unit) /\ Len(w) = Len(q[e]) + 1
    BY <1>2, <2>1, AppendProperties
  <2> HIDE DEF w
  <2> QED
    BY <1>4, <2>1, <2>2
<1>6. s \in Seq(Nat) /\ Len(s) = n + 1 /\ Counted(s)
  BY <1>2, CountedOn
<1>7. Hops = 1 => OneHop(w, st[x], buf[x], q[RecvEnd(d)], g, n + 1)
  BY <1>2, OneHopSend
<1>8. Hops = 2 => TwoHops(w, st[x], buf[x], q[In(y)], st[y], buf[y], q[RecvEnd(d)], g, n + 1)
  BY <1>2, TwoHopsSend
<1> HIDE DEF w, s
<1>9. /\ q'[e] = w /\ q'[RecvEnd(d)] = q[RecvEnd(d)] /\ (Hops = 2 => q'[In(y)] = q[In(y)])
      /\ sent'[d] = s /\ got'[d] = got[d] /\ st' = st /\ buf' = buf /\ setup' = setup
  BY <1>1, <1>2, <1>3, <1>4 DEF RelayTypeOK
<1>10. Hops = 1 => OneHop(q'[e], st'[x], buf'[x], q'[RecvEnd(d)], Len(got'[d]), Len(sent'[d]))
  BY <1>6, <1>7, <1>9
<1>11. Hops = 2 => TwoHops(q'[e], st'[x], buf'[x], q'[In(y)], st'[y], buf'[y], q'[RecvEnd(d)],
                           Len(got'[d]), Len(sent'[d]))
  BY <1>6, <1>8, <1>9
<1>12. Counted(sent'[d]) /\ Counted(got'[d])
  BY <1>2, <1>6, <1>9
<1>13. DirInv(d)'
  BY <1>9, <1>10, <1>11, <1>12, NextDir DEF e, x, y
<1>14. got' = [got EXCEPT ![d] = got[d]]
  BY <1>1, <1>4 DEF RelayTypeOK
<1> QED
  BY <1>2, <1>4, <1>5, <1>6, <1>13, <1>14, PeerStep

\* A byte that is received is the next one.
LEMMA RecvNext ==
  ASSUME RelayInv, NEW d \in Dirs, q[RecvEnd(d)] # << >>
  PROVE  /\ Head(q[RecvEnd(d)])[2] = Len(got[d]) + 1
         /\ Len(got[d]) < Len(sent[d])
<1>1. Hops \in {1, 2}
  BY HopsType DEF RelayInv, RelayTypeOK
<1>2. q[RecvEnd(d)] \in Seq(Unit) /\ Len(got[d]) \in Nat /\ Len(sent[d]) \in Nat
  BY DirOf
<1>3. Delivering(q[RecvEnd(d)], Len(got[d]), Len(sent[d]))
  BY <1>1, DirOf DEF OneHop, TwoHops
<1> QED
  BY <1>2, <1>3, Received

\* A byte that is received keeps the invariant.
LEMMA RecvKeeps ==
  ASSUME RelayInv, NEW d \in Dirs, PeerRecv(d)
  PROVE  RelayInv'
<1> DEFINE x == FirstCopier(d)
           y == LastCopier(d)
           e == RecvEnd(d)
           n == Len(sent[d])
           g == Len(got[d])
           w == Tail(q[e])
           s == Append(got[d], g + 1)
<1>1. RelayTypeOK /\ Hops \in {1, 2}
  BY HopsType DEF RelayInv, RelayTypeOK
<1>2. /\ q[e] \in Seq(Unit) /\ Len(q[e]) <= Cap
      /\ In(x) \in Ends /\ In(y) \in Ends
      /\ Hops = 2 => In(y) # e
      /\ sent[d] \in Seq(Nat) /\ got[d] \in Seq(Nat) /\ Counted(sent[d]) /\ Counted(got[d])
      /\ g \in Nat /\ n \in Nat
      /\ Hops = 1 => OneHop(q[In(x)], st[x], buf[x], q[e], g, n)
      /\ Hops = 2 => TwoHops(q[In(x)], st[x], buf[x], q[In(y)], st[y], buf[y], q[e], g, n)
  BY DirOf
<1>3. In(x) # e /\ e \in Ends /\ e[2] = Side(d)
  BY <1>1, OuterEnds
<1>4. q[e] # << >> /\ Head(q[e])[2] = g + 1
  BY RecvNext DEF PeerRecv
<1> HIDE DEF e, x, y
<1>5. /\ q' = [q EXCEPT ![e] = w] /\ got' = [got EXCEPT ![d] = s] /\ sent' = sent
      /\ UNCHANGED <<setup, shut, closed, expired, st, buf, rel, killed>>
  BY <1>4 DEF PeerRecv, e
<1>6. w \in Seq(Unit) /\ Len(w) <= Cap
  <2>1. w \in Seq(Unit) /\ Len(w) = Len(q[e]) - 1 /\ Len(q[e]) \in Nat /\ Cap \in Nat
    BY <1>2, <1>4, HeadTailProperties, LenProperties, SizeAssumption
  <2> HIDE DEF w
  <2> QED
    BY <1>2, <2>1
<1>7. s \in Seq(Nat) /\ Len(s) = g + 1 /\ Counted(s)
  BY <1>2, CountedOn
<1>8. Hops = 1 => OneHop(q[In(x)], st[x], buf[x], w, g + 1, n)
  BY <1>2, <1>4, OneHopRecv
<1>9. Hops = 2 => TwoHops(q[In(x)], st[x], buf[x], q[In(y)], st[y], buf[y], w, g + 1, n)
  BY <1>2, <1>4, TwoHopsRecv
<1> HIDE DEF w, s
<1>10. /\ q'[e] = w /\ q'[In(x)] = q[In(x)] /\ (Hops = 2 => q'[In(y)] = q[In(y)])
       /\ got'[d] = s /\ sent'[d] = sent[d] /\ st' = st /\ buf' = buf /\ setup' = setup
  BY <1>1, <1>2, <1>3, <1>5 DEF RelayTypeOK
<1>11. Hops = 1 => OneHop(q'[In(x)], st'[x], buf'[x], q'[e], Len(got'[d]), Len(sent'[d]))
  BY <1>7, <1>8, <1>10
<1>12. Hops = 2 => TwoHops(q'[In(x)], st'[x], buf'[x], q'[In(y)], st'[y], buf'[y], q'[e],
                           Len(got'[d]), Len(sent'[d]))
  BY <1>7, <1>9, <1>10
<1>13. Counted(sent'[d]) /\ Counted(got'[d])
  BY <1>2, <1>7, <1>10
<1>14. DirInv(d)'
  BY <1>10, <1>11, <1>12, <1>13, NextDir DEF e, x, y
<1>15. sent' = [sent EXCEPT ![d] = sent[d]]
  BY <1>1, <1>5 DEF RelayTypeOK
<1> QED
  BY <1>2, <1>3, <1>5, <1>6, <1>7, <1>14, <1>15, PeerStep

-----------------------------------------------------------------------------
(* The theorems *)

\* The invariant holds at the start.
LEMMA RelayStarts ==
  ASSUME RelayInit
  PROVE  RelayInv
<1>1. setup \in Setups /\ Hops \in {1, 2}
  BY HopsType DEF RelayInit
<1>2. RelayTypeOK
  <2>1. << >> \in Seq(Unit) /\ << >> \in Seq(Nat) /\ Len(<< >>) = 0 /\ Cap \in Nat
    BY SizeAssumption
  <2>2. q \in [Ends -> Seq(Unit)] /\ \A e \in Ends : Len(q[e]) <= Cap
    BY <2>1 DEF RelayInit
  <2>3. buf \in [Copiers -> Seq(Unit)] /\ st \in [Copiers -> {"read", "write", "poke", "done"}]
    BY <2>1 DEF RelayInit
  <2>4. sent \in [Dirs -> Seq(Nat)] /\ got \in [Dirs -> Seq(Nat)]
    BY <2>1 DEF RelayInit
  <2>5. rel \in [Relays -> {"relay", "closeSrc", "closed"}] /\ killed \subseteq Relays
    BY DEF RelayInit
  <2>6. shut \subseteq Ends /\ closed \subseteq Ends /\ expired \subseteq Ends
    BY DEF RelayInit
  <2> QED
    BY <1>1, <2>2, <2>3, <2>4, <2>5, <2>6 DEF RelayTypeOK
<1>3. ASSUME NEW d \in Dirs
      PROVE  DirInv(d)
  <2> DEFINE x == FirstCopier(d)
             y == LastCopier(d)
  <2>1. x \in Copiers /\ y \in Copiers /\ RecvEnd(d) \in Ends
    BY <1>1, OuterEnds
  <2> HIDE DEF x, y
  <2>2. In(x) \in Ends /\ In(y) \in Ends
    BY <1>1, <2>1, CopierEnds
  <2>3. /\ q[In(x)] = << >> /\ q[In(y)] = << >> /\ q[RecvEnd(d)] = << >>
        /\ buf[x] = << >> /\ buf[y] = << >> /\ st[x] = "read" /\ st[y] = "read"
        /\ sent[d] = << >> /\ got[d] = << >>
    BY <2>1, <2>2 DEF RelayInit
  <2>4. Counted(<< >>) /\ Numbered(<< >>, 0) /\ AllRaw(<< >>) /\ AllFramed(<< >>) /\ Len(<< >>) = 0
    BY DEF Counted, Numbered, AllRaw, AllFramed
  <2>5. OneHop(<< >>, "read", << >>, << >>, 0, 0)
    BY <2>4 DEF OneHop, Delivering, Taking
  <2>6. FrameStream(<< >>, 0, 0, "read", 0)
    <3> DEFINE b == [i \in {1} |-> 0]
    <3>1. {1} \in SUBSET (1 .. Len(<< >>) + 1) /\ b \in [{1} -> 0 .. 0] /\ b[1] = 0
      BY <2>4
    <3> HIDE DEF b
    <3>2. Frames(<< >>, 0, 0, {1}, b) /\ WholeFrames(<< >>, {1}, b, 0)
      BY <2>4, <3>1 DEF Frames, WholeFrames
    <3> QED
      BY <3>1, <3>2 DEF FrameStream
  <2>7. TwoHops(<< >>, "read", << >>, << >>, "read", << >>, << >>, 0, 0)
    <3> DEFINE z == << >>
    <3>1. z \in Seq(Unit) /\ z \o z = z
      BY EmptySeq, ConcatEmptySeq
    <3>2. /\ z = << >> /\ Len(z) = 0 /\ Numbered(z, 0) /\ AllRaw(z) /\ AllFramed(z)
          /\ FrameStream(z, 0, 0, "read", 0)
      BY <2>4, <2>6
    <3> HIDE DEF z
    <3> DEFINE m == Len(z)
    <3> HIDE DEF m
    <3>3. 0 + m = 0 /\ 0 - m = 0 /\ m = 0
      <4>1. m = 0
        BY <3>2 DEF m
      <4> QED
        BY ONLY <4>1
    <3>4. TwoHops(z, "read", z, z, "read", z, z, 0, 0)
      BY <3>1, <3>2, <3>3 DEF TwoHops, Delivering, Taking, Alive, m
    <3> QED
      BY <3>4 DEF z
  <2> QED
    BY <2>3, <2>4, <2>5, <2>7 DEF DirInv, x, y
<1> QED
  BY <1>2, <1>3 DEF RelayInv

\* Every step keeps it.
LEMMA RelaySteps ==
  ASSUME RelayInv, [RelayNext]_rvars
  PROVE  RelayInv'
<1>1. CASE UNCHANGED rvars
  <2>1. /\ UNCHANGED <<setup, q, expired, st, buf, sent, got>>
        /\ UNCHANGED <<shut, closed, rel, killed>>
    BY <1>1 DEF rvars
  <2>2. /\ shut' \subseteq Ends /\ closed' \subseteq Ends
        /\ rel' \in [Relays -> {"relay", "closeSrc", "closed"}] /\ killed' \subseteq Relays
    BY <2>1 DEF RelayInv, RelayTypeOK
  <2> QED
    BY <2>1, <2>2, SocketsKeep
<1>2. ASSUME NEW x \in Copiers, Copy(x)
      PROVE  RelayInv'
  BY <1>2, ReadKeeps, WriteKeeps, EndKeeps DEF Copy
<1>3. ASSUME NEW r \in Relays, CloseDest(r) \/ CloseSrc(r) \/ ApiClose(r)
      PROVE  RelayInv'
  BY <1>3, CloseKeeps
<1>4. ASSUME NEW d \in Dirs, PeerSend(d) \/ PeerRecv(d) \/ PeerShut(d) \/ PeerClose(d)
      PROVE  RelayInv'
  BY <1>4, SendKeeps, RecvKeeps, PeerEndKeeps
<1> QED
  BY <1>1, <1>2, <1>3, <1>4 DEF RelayNext

\* In every state of every relay the invariant holds: in each direction the bytes on the
\* way are the ones that come next, in order, and between two relays they are in frames.
THEOREM RelayInvariance == RelaySpec => []RelayInv
BY RelayStarts, RelaySteps, PTL DEF RelaySpec

\* The types, and that no socket buffer holds more than Cap: the copiers of relay.go block
\* in Write, and queue nothing themselves.
THEOREM RelayTypes == RelaySpec => []RelayTypeOK
<1>1. RelayInv => RelayTypeOK
  BY DEF RelayInv
<1> QED
  BY <1>1, RelayInvariance, PTL

\* An end of a link belongs to one direction; with two relays the framed ones are those
\* between them.
LEMMA EndsOf ==
  ASSUME Hops \in {1, 2}, NEW e \in Ends
  PROVE  \E d \in Dirs :
           \/ e = In(FirstCopier(d)) /\ ~Framed(e)
           \/ e = RecvEnd(d) /\ ~Framed(e)
           \/ Hops = 2 /\ e = In(LastCopier(d)) /\ Framed(e)
<1>1. PICK l \in Links, v \in {"L", "R"} : e = <<l, v>>
  BY DEF Ends
<1>2. l \in Int /\ l >= 1 /\ l <= Hops + 1
  BY DEF Links
<1>3. CASE v = "R"
  <2>1. \/ e = In(FirstCopier("down")) /\ ~Framed(e)
        \/ e = RecvEnd("down") /\ ~Framed(e)
        \/ Hops = 2 /\ e = In(LastCopier("down")) /\ Framed(e)
    BY <1>1, <1>2, <1>3 DEF FirstCopier, LastCopier, In, RecvEnd, Framed
  <2>2. "down" \in Dirs
    BY DEF Dirs
  <2> QED
    BY <2>1, <2>2
<1>4. CASE v = "L"
  <2>1. \/ e = In(FirstCopier("up")) /\ ~Framed(e)
        \/ e = RecvEnd("up") /\ ~Framed(e)
        \/ Hops = 2 /\ e = In(LastCopier("up")) /\ Framed(e)
    BY <1>1, <1>2, <1>4 DEF FirstCopier, LastCopier, In, RecvEnd, Framed
  <2>2. "up" \in Dirs
    BY DEF Dirs
  <2> QED
    BY <2>1, <2>2
<1> QED
  BY <1>3, <1>4

\* The reader of a framed link is always in step with its writer, and nothing encrypted
\* leaves the tunnel, nothing plain enters it: protocol.ReadFull and Encode over Reads and
\* Writes of any size.
THEOREM FramesStayAligned == RelaySpec => []FramesAligned
<1>1. ASSUME RelayInv
      PROVE  FramesAligned
  <2>1. Hops \in {1, 2}
    BY <1>1, HopsType DEF RelayInv, RelayTypeOK
  <2>2. ASSUME NEW x \in Copiers, Framed(In(x)), st[x] = "read", buf[x] # << >>
        PROVE  /\ buf[x][1][1] = "hdr"
               /\ Missing(buf[x]) > 0
               /\ \A k \in 2 .. Len(buf[x]) : buf[x][k][1] = "enc"
    <3> DEFINE d == x[2]
               f == FirstCopier(d)
               b == buf[x]
               low == Len(got[d]) + Len(q[RecvEnd(d)])
               n == Len(sent[d])
               m == n - Len(q[In(f)])
    <3>1. Hops = 2
      BY <2>2 DEF Framed
    <3>2. d \in Dirs /\ x = LastCopier(d)
      BY <2>1, <2>2, <3>1, CopierEnds, TwoCopiers
    <3>3. /\ b \in Seq(Unit) /\ q[In(x)] \in Seq(Unit) /\ buf[f] \in Seq(Unit)
          /\ q[RecvEnd(d)] \in Seq(Unit) /\ Len(got[d]) \in Nat /\ n \in Nat
          /\ TwoHops(q[In(f)], st[f], buf[f], q[In(x)], "read", b, q[RecvEnd(d)], Len(got[d]), n)
      BY <1>1, <2>2, <3>1, <3>2, TwoHopsOf
    <3>4. low \in Nat /\ Len(b) \in Nat
      <4>1. Len(q[RecvEnd(d)]) \in Nat /\ Len(b) \in Nat
        BY <3>3, LenProperties
      <4> DEFINE a == Len(got[d])
                 c == Len(q[RecvEnd(d)])
      <4>2. a \in Nat /\ c \in Nat
        BY <3>3, <4>1
      <4> HIDE DEF a, c
      <4>3. a + c \in Nat
        BY <4>2
      <4> QED
        BY <4>1, <4>3 DEF a, c
    <3>5. FrameStream((b \o q[In(x)]) \o buf[f], low, n, st[f], m) /\ Len(b) <= b[1][2]
      BY <2>2, <3>3 DEF TwoHops
    <3> HIDE DEF low, n, m, b, f
    <3>6. FrameStream(b \o (q[In(x)] \o buf[f]), low, n, st[f], m)
      BY <3>3, <3>5, Regrouped
    <3>7. q[In(x)] \o buf[f] \in Seq(Unit) /\ b # << >>
      BY <2>2, <3>3, Joined DEF b
    <3>8. /\ b[1][2] \in Nat /\ b[1] = Hdr(b[1][2])
          /\ \A k \in 1 .. b[1][2] : 1 + k <= Len(b) => b[1 + k] = Enc(low + k)
      <4> DEFINE t == q[In(x)] \o buf[f]
      <4>1. t \in Seq(Unit) /\ b # << >> /\ FrameStream(b \o t, low, n, st[f], m)
        BY <3>6, <3>7
      <4>2. b \in Seq(Unit) /\ low \in Nat /\ n \in Nat
        BY <3>3, <3>4
      <4> HIDE DEF t
      <4> QED
        BY ONLY <4>1, <4>2, FrameBegun
    <3>9. b[1][1] = "hdr"
      BY <3>8 DEF Hdr
    <3>10. Missing(b) > 0
      BY <3>4, <3>5, <3>7, <3>8 DEF Missing
    <3>11. ASSUME NEW k \in 2 .. Len(b)
           PROVE  b[k][1] = "enc"
      <4>1. k - 1 \in 1 .. b[1][2] /\ 1 + (k - 1) = k /\ k <= Len(b)
        BY <3>4, <3>5, <3>8, <3>11
      <4>2. b[k] = Enc(low + (k - 1))
        BY <3>8, <4>1
      <4> QED
        BY <4>2 DEF Enc
    <3> QED
      BY <3>9, <3>10, <3>11 DEF b
  <2>3. ASSUME NEW e \in Ends, NEW k \in DOMAIN q[e]
        PROVE  Framed(e) <=> q[e][k][1] # "raw"
    <3>1. q[e] \in Seq(Unit) /\ k \in 1 .. Len(q[e])
      BY <1>1, LenProperties DEF RelayInv, RelayTypeOK
    <3>2. PICK d \in Dirs : \/ e = In(FirstCopier(d)) /\ ~Framed(e)
                            \/ e = RecvEnd(d) /\ ~Framed(e)
                            \/ Hops = 2 /\ e = In(LastCopier(d)) /\ Framed(e)
      BY <2>1, EndsOf
    <3>3. /\ AllRaw(q[In(FirstCopier(d))]) /\ Numbered(q[RecvEnd(d)], Len(got[d]))
          /\ Hops = 2 => AllFramed(q[In(LastCopier(d))])
      BY <1>1, <2>1, DirOf DEF OneHop, TwoHops, Delivering, Taking
    <3> QED
      BY <3>1, <3>2, <3>3 DEF AllRaw, Numbered, AllFramed, Raw
  <2> QED
    BY <2>2, <2>3 DEF FramesAligned
<1> QED
  BY <1>1, RelayInvariance, PTL

\* Relay implements Pipe: through one relay or two, each end gets the bytes the other end
\* sent, in order, each of them once and unchanged.
THEOREM RelayImplementsPipe == RelaySpec => DeliversInOrder
<1>1. ASSUME RelayInit
      PROVE  P!PipeInit
  BY <1>1 DEF RelayInit, P!PipeInit
<1>2. ASSUME RelayInv, [RelayNext]_rvars
      PROVE  [P!PipeNext]_(P!pipeVars)
  <2>1. ASSUME NEW d \in Dirs, PeerSend(d)
        PROVE  P!Send(d)
    <3> DEFINE v == Len(sent[d]) + 1
    <3>1. sent' = [sent EXCEPT ![d] = Append(@, v)] /\ got' = got /\ v <= setup.max[d]
      BY <2>1 DEF PeerSend
    <3>2. v \in 1 .. setup.max[d] /\ setup \in Setups
      <4>1. Len(sent[d]) \in Nat
        BY <1>2, DirOf
      <4>2. setup \in Setups /\ setup.max[d] \in Nat
        BY <1>2, SetupAssumption DEF RelayInv, RelayTypeOK
      <4> QED
        BY <3>1, <4>1, <4>2
    <3>3. v \in UNION {UNION {1 .. s.max[o] : o \in Dirs} : s \in Setups}
      BY <3>2
    <3> HIDE DEF v
    <3> QED
      BY <3>1, <3>3 DEF P!Send
  <2>2. ASSUME NEW d \in Dirs, PeerRecv(d)
        PROVE  P!Deliver(d)
    <3>1. q[RecvEnd(d)] # << >> /\ sent' = sent
      BY <2>2 DEF PeerRecv
    <3>2. Head(q[RecvEnd(d)])[2] = Len(got[d]) + 1 /\ Len(got[d]) < Len(sent[d])
      BY <1>2, <3>1, RecvNext
    <3>3. Len(got[d]) \in Nat /\ Len(sent[d]) \in Nat /\ Counted(sent[d])
      BY <1>2, DirOf
    <3>4. sent[d][Len(got[d]) + 1] = Len(got[d]) + 1
      BY <3>2, <3>3 DEF Counted
    <3>5. got' = [got EXCEPT ![d] = Append(@, sent[d][Len(@) + 1])]
      BY <2>2, <3>2, <3>4 DEF PeerRecv
    <3> QED
      BY <3>1, <3>2, <3>5 DEF P!Deliver
  <2>3. ASSUME NEW d \in Dirs, PeerShut(d) \/ PeerClose(d)
        PROVE  UNCHANGED P!pipeVars
    BY <2>3 DEF PeerShut, PeerClose, P!pipeVars
  <2>4. ASSUME NEW x \in Copiers, Copy(x)
        PROVE  UNCHANGED P!pipeVars
    BY <2>4 DEF Copy, Read, ReadEnd, Write, WriteEnd, Poke, P!pipeVars
  <2>5. ASSUME NEW r \in Relays, CloseDest(r) \/ CloseSrc(r) \/ ApiClose(r)
        PROVE  UNCHANGED P!pipeVars
    BY <2>5 DEF CloseDest, CloseSrc, ApiClose, P!pipeVars
  <2>6. CASE UNCHANGED rvars
    BY <2>6 DEF rvars, P!pipeVars
  <2> QED
    BY <1>2, <2>1, <2>2, <2>3, <2>4, <2>5, <2>6 DEF RelayNext, P!PipeNext
<1> QED
  BY <1>1, <1>2, RelayInvariance, PTL DEF RelaySpec, DeliversInOrder, P!PipeSpec

-----------------------------------------------------------------------------
(* The payload on the way *)

\* A set of numbers has a least one.
LEMMA Least ==
  ASSUME NEW T \in SUBSET Nat, T # {}
  PROVE  \E x \in T : \A y \in T : x <= y
<1> DEFINE R == {ss \in Nat \X Nat : ss[1] < ss[2]}
<1>1. IsWellFoundedOn(R, Nat)
  BY NatLessThanWellFounded DEF OpToRel
<1> HIDE DEF R
<1>2. PICK x \in T : \A y \in T : ~(<<y, x>> \in R)
  BY <1>1, WFMin
<1>3. \A y \in T : ~(y < x)
  BY <1>2 DEF R
<1> QED
  BY <1>3

\* So what holds of 0, and of i + 1 if of i, holds of all numbers up to a bound: of those
\* it did not hold of there would be a least one.
LEMMA Stepwise ==
  ASSUME NEW S, NEW l \in Nat, 0 \in S, \A i \in 0 .. l - 1 : i \in S => i + 1 \in S
  PROVE  l \in S
<1> DEFINE T == {i \in 0 .. l : i \notin S}
<1>1. SUFFICES ASSUME l \notin S
               PROVE  FALSE
  OBVIOUS
<1>2. T \in SUBSET Nat /\ T # {}
  BY <1>1
<1>3. PICK i \in T : \A j \in T : i <= j
  BY ONLY <1>2, Least
<1>4. i \in 0 .. l /\ i # 0 /\ i \notin S
  BY <1>3
<1>5. i - 1 \in 0 .. l - 1 /\ (i - 1) + 1 = i /\ ~(i <= i - 1)
  BY <1>4
<1>6. i - 1 \in S
  BY <1>3, <1>5
<1> QED
  BY <1>4, <1>5, <1>6

\* The recursion by which Payload collects the bytes of s, up to unit l.
Collects(f, s, l) ==
  /\ f \in [0 .. l -> Seq(Nat)] /\ f[0] = << >>
  /\ \A k \in 1 .. l :
       f[k] = IF s[k][1] = "hdr" THEN f[k - 1] ELSE Append(f[k - 1], s[k][2])

\* The function defined by that recursion.
Recursion(g, s) ==
  g = [k \in 0 .. Len(s) |->
         IF k = 0 THEN << >>
         ELSE IF s[k][1] = "hdr" THEN g[k - 1] ELSE Append(g[k - 1], s[k][2])]

\* There is a function that does.
LEMMA CollectsAll ==
  ASSUME NEW s \in Seq(Unit)
  PROVE  \E f : Collects(f, s, Len(s))
<1> DEFINE S == {i \in 0 .. Len(s) : \E f : Collects(f, s, i)}
<1>1. Len(s) \in Nat /\ \A i \in 1 .. Len(s) : s[i] \in Unit
  BY LenProperties, ElementOfSeq
<1>2. 0 \in S
  <2> DEFINE f == [k \in {0} |-> << >>]
  <2>1. f \in [0 .. 0 -> Seq(Nat)] /\ f[0] = << >> /\ \A k \in 1 .. 0 : FALSE
    OBVIOUS
  <2> HIDE DEF f
  <2>2. Collects(f, s, 0)
    BY <2>1 DEF Collects
  <2> QED
    BY <1>1, <2>2
<1>3. ASSUME NEW i \in 0 .. Len(s) - 1, i \in S
      PROVE  i + 1 \in S
  <2>1. PICK f : Collects(f, s, i)
    BY <1>3
  <2> DEFINE j == i + 1
             e == IF s[j][1] = "hdr" THEN f[i] ELSE Append(f[i], s[j][2])
             g == [k \in 0 .. j |-> IF k = j THEN e ELSE f[k]]
  <2>2. i \in 0 .. i /\ f[i] \in Seq(Nat)
    BY <1>1, <2>1 DEF Collects
  <2>3. j \in 1 .. Len(s) /\ s[j][2] \in Nat
    BY <1>1 DEF Unit
  <2>4. e \in Seq(Nat)
    BY <2>2, <2>3, AppendProperties
  <2> HIDE DEF e
  <2>5. g \in [0 .. j -> Seq(Nat)] /\ g[0] = << >>
    BY <2>1, <2>4 DEF Collects
  <2>6. ASSUME NEW k \in 1 .. j
        PROVE  g[k] = IF s[k][1] = "hdr" THEN g[k - 1] ELSE Append(g[k - 1], s[k][2])
    <3>1. k - 1 \in 0 .. j /\ k - 1 # j /\ g[k - 1] = f[k - 1]
      BY <1>1
    <3>2. CASE k = j
      <4>1. g[k] = e /\ f[k - 1] = f[i]
        BY <3>2
      <4> HIDE DEF g
      <4> QED
        BY <3>1, <3>2, <4>1 DEF e
    <3>3. CASE k # j
      <4>1. k \in 1 .. i /\ g[k] = f[k]
        BY <3>3
      <4> HIDE DEF g
      <4> QED
        BY <2>1, <3>1, <4>1 DEF Collects
    <3> QED
      BY <3>2, <3>3
  <2> HIDE DEF g
  <2>7. Collects(g, s, j)
    BY <2>5, <2>6 DEF Collects
  <2> HIDE DEF j
  <2>8. j \in S
    BY <1>1, <2>3, <2>7
  <2> QED
    BY <2>8 DEF j
<1> HIDE DEF S
<1>4. Len(s) \in S
  BY <1>1, <1>2, <1>3, Stepwise
<1> QED
  BY <1>4 DEF S

\* If there is one, it is what Payload stands for.
LEMMA PayloadRecursion ==
  ASSUME NEW s, NEW h, Recursion(h, s)
  PROVE  \E c : Recursion(c, s) /\ Payload(s) = c[Len(s)]
<1> DEFINE c == CHOOSE g : Recursion(g, s)
<1>1. Recursion(c, s)
  OBVIOUS
<1>2. Payload(s) = c[Len(s)]
  BY DEF Payload, Recursion
<1> QED
  BY <1>1, <1>2

\* Payload is what such a function has collected in the end.
LEMMA PayloadIs ==
  ASSUME NEW s \in Seq(Unit), NEW f, Collects(f, s, Len(s))
  PROVE  Payload(s) = f[Len(s)] /\ Payload(s) \in Seq(Nat)
<1>1. Len(s) \in Nat
  BY LenProperties
<1>2. Recursion(f, s)
  <2>1. f = [k \in 0 .. Len(s) |-> f[k]]
    BY DEF Collects
  <2>2. ASSUME NEW k \in 0 .. Len(s)
        PROVE  f[k] = IF k = 0 THEN << >>
                      ELSE IF s[k][1] = "hdr" THEN f[k - 1] ELSE Append(f[k - 1], s[k][2])
    <3>1. k = 0 \/ k \in 1 .. Len(s)
      BY <1>1
    <3> QED
      BY <3>1 DEF Collects
  <2> QED
    BY <2>1, <2>2 DEF Recursion
<1>3. PICK c : Recursion(c, s) /\ Payload(s) = c[Len(s)]
  BY ONLY <1>2, PayloadRecursion
<1>4. Recursion(c, s) /\ Payload(s) = c[Len(s)]
  BY <1>3
<1>5. c[0] = << >> /\ \A k \in 1 .. Len(s) :
        c[k] = IF s[k][1] = "hdr" THEN c[k - 1] ELSE Append(c[k - 1], s[k][2])
  <2> DEFINE e == [k \in 0 .. Len(s) |->
                     IF k = 0 THEN << >>
                     ELSE IF s[k][1] = "hdr" THEN c[k - 1] ELSE Append(c[k - 1], s[k][2])]
  <2>1. c = e
    BY <1>4 DEF Recursion
  <2>2. e[0] = << >> /\ \A k \in 1 .. Len(s) :
          e[k] = IF s[k][1] = "hdr" THEN c[k - 1] ELSE Append(c[k - 1], s[k][2])
    BY ONLY <1>1
  <2> HIDE DEF e
  <2> QED
    BY ONLY <2>1, <2>2
<1> DEFINE S == {i \in 0 .. Len(s) : f[i] = c[i]}
<1>6. 0 \in S
  BY <1>1, <1>5 DEF Collects
<1>7. ASSUME NEW i \in 0 .. Len(s) - 1, i \in S
      PROVE  i + 1 \in S
  <2>1. i + 1 \in 1 .. Len(s) /\ (i + 1) - 1 = i /\ i + 1 \in 0 .. Len(s)
    BY <1>1
  <2>2. f[i + 1] = c[i + 1]
    BY <1>5, <1>7, <2>1 DEF Collects
  <2> QED
    BY <2>1, <2>2
<1> HIDE DEF S
<1>8. Len(s) \in S
  BY <1>1, <1>6, <1>7, Stepwise
<1>9. f[Len(s)] \in Seq(Nat)
  BY <1>1 DEF Collects
<1> QED
  BY <1>4, <1>8, <1>9 DEF S

\* Payload collects, for any queue or buffer.
LEMMA PayloadCollects ==
  ASSUME NEW s \in Seq(Unit)
  PROVE  \E f : Collects(f, s, Len(s)) /\ Payload(s) = f[Len(s)] /\ Payload(s) \in Seq(Nat)
BY CollectsAll, PayloadIs

\* The payload of two parts is the payload of the whole.
LEMMA PayloadJoined ==
  ASSUME NEW s \in Seq(Unit), NEW t \in Seq(Unit)
  PROVE  Payload(s \o t) = Payload(s) \o Payload(t)
<1> DEFINE w == s \o t
           l == Len(s)
           m == Len(t)
<1>1. /\ l \in Nat /\ m \in Nat /\ w \in Seq(Unit) /\ Len(w) = l + m
      /\ \A k \in 1 .. l : w[k] = s[k]
      /\ \A k \in 1 .. m : w[l + k] = t[k]
      /\ \A k \in 1 .. m : t[k][2] \in Nat
  <2>1. \A k \in 1 .. m : t[k] \in Unit
    BY LenProperties, ElementOfSeq
  <2> QED
    BY <2>1, Joined DEF Unit
<1>2. PICK f : Collects(f, s, l) /\ Payload(s) = f[l] /\ Payload(s) \in Seq(Nat)
  BY PayloadCollects
<1>3. PICK g : Collects(g, t, m) /\ Payload(t) = g[m]
  BY PayloadCollects
<1> HIDE DEF w, l, m
<1> DEFINE h == [k \in 0 .. l + m |-> IF k <= l THEN f[k] ELSE f[l] \o g[k - l]]
<1>4. /\ f \in [0 .. l -> Seq(Nat)] /\ f[0] = << >> /\ f[l] \in Seq(Nat)
      /\ g \in [0 .. m -> Seq(Nat)] /\ g[0] = << >>
  BY <1>1, <1>2, <1>3 DEF Collects
<1>5. \A k \in 0 .. m : f[l] \o g[k] \in Seq(Nat) /\ h[l + k] = f[l] \o g[k]
  <2>1. ASSUME NEW k \in 0 .. m
        PROVE  f[l] \o g[k] \in Seq(Nat) /\ h[l + k] = f[l] \o g[k]
    <3>1. g[k] \in Seq(Nat)
      BY <1>4
    <3>2. f[l] \o g[k] \in Seq(Nat)
      BY <1>4, <3>1, ConcatProperties
    <3>3. CASE k = 0
      <4>1. f[l] \o g[k] = f[l]
        BY <1>4, <3>3, ConcatEmptySeq
      <4>2. h[l + k] = f[l]
        BY <1>1, <3>3
      <4> QED
        BY <3>2, <4>1, <4>2
    <3>4. CASE k # 0
      <4>1. l + k \in 0 .. l + m /\ ~(l + k <= l) /\ (l + k) - l = k
        BY <1>1, <3>4
      <4> QED
        BY <3>2, <4>1
    <3> QED
      BY <3>3, <3>4
  <2> QED
    BY <2>1
<1>6. \A k \in 0 .. l : h[k] = f[k]
  BY <1>1
<1>7. h \in [0 .. l + m -> Seq(Nat)]
  <2>1. ASSUME NEW k \in 0 .. l + m
        PROVE  h[k] \in Seq(Nat)
    <3>1. CASE k <= l
      BY <1>1, <1>4, <3>1
    <3>2. CASE ~(k <= l)
      <4>1. k - l \in 0 .. m /\ l + (k - l) = k
        BY <1>1, <3>2
      <4> HIDE DEF h
      <4> QED
        BY <1>5, <4>1
    <3> QED
      BY <3>1, <3>2
  <2>2. h = [k \in 0 .. l + m |-> h[k]]
    OBVIOUS
  <2> HIDE DEF h
  <2> QED
    BY <2>1, <2>2
<1> HIDE DEF h
<1>8. ASSUME NEW k \in 1 .. l + m
      PROVE  h[k] = IF w[k][1] = "hdr" THEN h[k - 1] ELSE Append(h[k - 1], w[k][2])
  <2>1. CASE k <= l
    <3>1. k \in 1 .. l /\ k \in 0 .. l /\ k - 1 \in 0 .. l
      BY <1>1, <2>1
    <3> QED
      BY <1>1, <1>2, <1>6, <3>1 DEF Collects
  <2>2. CASE ~(k <= l)
    <3> DEFINE j == k - l
               i == j - 1
    <3>1. j \in 1 .. m /\ j \in 0 .. m /\ i \in 0 .. m /\ l + j = k /\ l + i = k - 1 /\ i = j - 1
      BY <1>1, <2>2
    <3> HIDE DEF j, i
    <3>2. w[k] = t[j] /\ t[j][2] \in Nat /\ h[k] = f[l] \o g[j] /\ h[k - 1] = f[l] \o g[i]
      BY <1>1, <1>5, <3>1
    <3>3. g[j] = IF t[j][1] = "hdr" THEN g[i] ELSE Append(g[i], t[j][2])
      BY <1>3, <3>1 DEF Collects
    <3>4. g[i] \in Seq(Nat)
      BY <1>4, <3>1
    <3> DEFINE e == t[j][2]
               x == f[l]
               y == g[i]
    <3>5. x \in Seq(Nat) /\ y \in Seq(Nat) /\ e \in Nat
      BY <1>4, <3>2, <3>4
    <3> HIDE DEF e, x, y
    <3>6. x \o Append(y, e) = Append(x \o y, e)
      BY ONLY <3>5
    <3>7. CASE t[j][1] = "hdr"
      BY <3>2, <3>3, <3>7
    <3>8. CASE t[j][1] # "hdr"
      <4>1. h[k] = x \o Append(y, e) /\ h[k - 1] = x \o y
        BY <3>2, <3>3, <3>8 DEF x, y, e
      <4> QED
        BY <3>2, <3>6, <3>8, <4>1 DEF e
    <3> QED
      BY <3>7, <3>8
  <2> QED
    BY <2>1, <2>2
<1>9. Collects(h, w, l + m)
  <2>1. h[0] = << >>
    BY <1>1, <1>4, <1>6
  <2> QED
    BY <1>7, <1>8, <2>1 DEF Collects
<1>10. Payload(w) = h[l + m]
  BY <1>1, <1>9, PayloadIs
<1>11. h[l + m] = f[l] \o g[m]
  <2>1. m \in 0 .. m
    BY <1>1
  <2> QED
    BY <1>5, <2>1
<1> QED
  BY <1>2, <1>3, <1>10, <1>11 DEF w

\* Bytes i + 1 to j of a stream.
Run(i, j) == [k \in 1 .. j - i |-> i + k]

LEMMA RunLength ==
  ASSUME NEW i \in Nat, NEW j \in Nat, i <= j
  PROVE  /\ j - i \in Nat /\ Run(i, j) \in Seq(Nat) /\ Len(Run(i, j)) = j - i
         /\ \A k \in 1 .. j - i : Run(i, j)[k] = i + k
BY DEF Run

LEMMA RunNext ==
  ASSUME NEW i \in Nat, NEW j \in Nat, i <= j
  PROVE  /\ Run(i, j) \in Seq(Nat) /\ Run(i, i) = << >>
         /\ Append(Run(i, j), j + 1) = Run(i, j + 1)
<1>1. Run(i, i) = << >>
  BY DEF Run
<1>2. Append(Run(i, j), j + 1) = Run(i, j + 1)
  <2> DEFINE x == Run(i, j)
             o == j + 1
             z == Run(i, o)
             w == Append(x, o)
  <2>0. o \in Nat /\ o = j + 1 /\ i <= o
    OBVIOUS
  <2> HIDE DEF o
  <2>1. /\ x \in Seq(Nat) /\ z \in Seq(Nat)
        /\ Len(x) = j - i /\ Len(z) = o - i
        /\ \A k \in 1 .. j - i : x[k] = i + k
        /\ \A k \in 1 .. o - i : z[k] = i + k
    BY <2>0, RunLength
  <2> HIDE DEF x, z
  <2>2. /\ w \in Seq(Nat) /\ Len(w) = Len(x) + 1
        /\ \A k \in 1 .. Len(x) : w[k] = x[k]
        /\ w[Len(x) + 1] = o
    <3>1. x \in Seq(Nat) /\ o \in Nat
      BY <2>0, <2>1
    <3> QED
      BY ONLY <3>1, AppendProperties
  <2> HIDE DEF w
  <2>3. ASSUME NEW k \in 1 .. o - i
        PROVE  w[k] = z[k]
    <3>1. CASE k = Len(x) + 1
      <4>1. i + k = o
        BY <2>0, <2>1, <3>1
      <4> QED
        BY <2>1, <2>2, <3>1, <4>1
    <3>2. CASE k # Len(x) + 1
      <4>1. k \in 1 .. j - i /\ k \in 1 .. Len(x)
        BY <2>0, <2>1, <3>2
      <4> QED
        BY <2>1, <2>2, <4>1
    <3> QED
      BY <3>1, <3>2
  <2>4. Len(w) = o - i /\ Len(z) = o - i
    BY <2>0, <2>1, <2>2
  <2>5. w = z
    BY <2>1, <2>2, <2>3, <2>4, SeqEqual
  <2> QED
    BY <2>5 DEF w, x, z, o
<1> QED
  BY <1>1, <1>2, RunLength

\* Joining, by a name the provers do not look behind.
Cat(a, b) == a \o b

LEMMA RunJoined ==
  ASSUME NEW i \in Nat, NEW j \in Nat, NEW l \in Nat, i <= j, j <= l
  PROVE  Cat(Run(i, j), Run(j, l)) = Run(i, l)
<1> DEFINE x == Run(i, j)
           y == Run(j, l)
           z == Run(i, l)
           w == x \o y
<1>1. /\ x \in Seq(Nat) /\ y \in Seq(Nat) /\ z \in Seq(Nat)
      /\ Len(x) = j - i /\ Len(y) = l - j /\ Len(z) = l - i
      /\ \A k \in 1 .. j - i : x[k] = i + k
      /\ \A k \in 1 .. l - j : y[k] = j + k
      /\ \A k \in 1 .. l - i : z[k] = i + k
  <2>1. i <= l
    OBVIOUS
  <2> QED
    BY <2>1, RunLength
<1> HIDE DEF x, y, z
<1>2. /\ w \in Seq(Nat) /\ Len(w) = Len(x) + Len(y)
      /\ \A k \in 1 .. Len(x) + Len(y) : w[k] = IF k <= Len(x) THEN x[k] ELSE y[k - Len(x)]
  BY <1>1, ConcatProperties
<1> HIDE DEF w
<1>3. ASSUME NEW k \in 1 .. l - i
      PROVE  w[k] = z[k]
  <2>1. w[k] = IF k <= j - i THEN x[k] ELSE y[k - (j - i)]
    BY <1>1, <1>2
  <2>2. CASE k <= j - i
    <3>1. k \in 1 .. j - i
      BY <2>2
    <3> QED
      BY <1>1, <2>1, <2>2, <3>1
  <2>3. CASE ~(k <= j - i)
    <3> DEFINE o == k - (j - i)
    <3>1. o \in 1 .. l - j /\ j + o = i + k
      BY <2>3
    <3> HIDE DEF o
    <3>2. y[o] = j + o
      BY <1>1, <3>1
    <3>3. w[k] = y[o]
      BY <2>1, <2>3 DEF o
    <3> QED
      BY <1>1, <3>1, <3>2, <3>3
  <2> QED
    BY <2>2, <2>3
<1>4. Len(w) = l - i /\ Len(z) = l - i
  BY <1>1, <1>2
<1>5. w = z
  BY <1>1, <1>2, <1>3, <1>4, SeqEqual
<1> QED
  BY <1>5 DEF w, x, y, z, Cat

\* The payload of plain bytes that follow on byte m, and what the ends have seen.
LEMMA PayloadNumbered ==
  ASSUME NEW s \in Seq(Unit), NEW m \in Nat, Numbered(s, m)
  PROVE  Payload(s) = Run(m, m + Len(s))
<1> DEFINE l == Len(s)
           f == [k \in 0 .. l |-> Run(m, m + k)]
<1>1. l \in Nat
  BY LenProperties
<1> HIDE DEF l
<1>2. f \in [0 .. l -> Seq(Nat)] /\ f[0] = << >>
  <2>1. ASSUME NEW k \in 0 .. l
        PROVE  Run(m, m + k) \in Seq(Nat)
    <3> DEFINE o == m + k
    <3>1. o \in Nat /\ m <= o
      BY <1>1
    <3> HIDE DEF o
    <3>2. Run(m, o) \in Seq(Nat)
      BY <3>1, RunNext
    <3> QED
      BY <3>2 DEF o
  <2>2. m + 0 = m /\ Run(m, m) = << >>
    BY RunNext
  <2> QED
    BY <1>1, <2>1, <2>2
<1>3. ASSUME NEW k \in 1 .. l
      PROVE  f[k] = IF s[k][1] = "hdr" THEN f[k - 1] ELSE Append(f[k - 1], s[k][2])
  <2> DEFINE o == m + (k - 1)
  <2>1. k - 1 \in 0 .. l /\ k \in 0 .. l /\ o \in Nat /\ m <= o /\ m + k = o + 1
    BY <1>1
  <2>2. s[k] = <<"raw", m + k>>
    BY DEF Numbered, Raw, l
  <2>3. f[k - 1] = Run(m, o) /\ f[k] = Run(m, m + k)
    BY <2>1
  <2> HIDE DEF o, f
  <2>4. Append(Run(m, o), o + 1) = Run(m, o + 1)
    BY <2>1, RunNext
  <2>5. s[k][1] # "hdr" /\ s[k][2] = o + 1
    BY <2>1, <2>2
  <2> QED
    BY <2>1, <2>3, <2>4, <2>5
<1>4. f[l] = Run(m, m + l)
  BY <1>1
<1> HIDE DEF f
<1>5. Collects(f, s, l)
  BY <1>2, <1>3 DEF Collects
<1> QED
  BY <1>4, <1>5, PayloadIs DEF l

LEMMA CountedRun ==
  ASSUME NEW s \in Seq(Nat), Counted(s)
  PROVE  s = Run(0, Len(s))
<1> DEFINE l == Len(s)
           z == Run(0, l)
<1>1. l \in Nat /\ l - 0 = l
  BY LenProperties
<1> HIDE DEF l
<1>2. z \in Seq(Nat) /\ Len(z) = l /\ \A k \in 1 .. l : z[k] = k
  BY <1>1 DEF Run
<1> HIDE DEF z
<1>3. \A k \in 1 .. Len(s) : s[k] = z[k]
  BY <1>2 DEF Counted, l
<1>4. s = z
  BY <1>2, <1>3, SeqEqual DEF l
<1> QED
  BY <1>4 DEF z, l

\* The payload of whole frames that hold bytes low + 1 to m of the stream.
LEMMA PayloadFramed ==
  ASSUME NEW t \in Seq(Unit), NEW low \in Nat, NEW n \in Nat, NEW m \in Nat, NEW s,
         s \in Alive, FrameStream(t, low, n, s, m)
  PROVE  low <= m /\ Payload(t) = Run(low, m)
<1> DEFINE l == Len(t)
<1>1. l \in Nat
  BY LenProperties
<1>p. PICK p \in SUBSET (1 .. l + 1) :
        \E b \in [p -> 0 .. n] : Frames(t, low, n, p, b) /\ WholeFrames(t, p, b, m)
  BY DEF FrameStream
<1>2. PICK b \in [p -> 0 .. n] : Frames(t, low, n, p, b) /\ WholeFrames(t, p, b, m)
  BY <1>p
<1>3. PICK f : Collects(f, t, l) /\ Payload(t) = f[l]
  BY PayloadCollects
<1> DEFINE \* after i units: inside the frame that begins at a, or between two frames
           Inside(i, a) == /\ a <= i /\ i < a + t[a][2] /\ low <= b[a]
                           /\ f[i] = Run(low, b[a] + (i - a))
           Between(i) == i + 1 \in p /\ low <= b[i + 1] /\ f[i] = Run(low, b[i + 1])
           S == {i \in 0 .. l : Between(i) \/ \E a \in p : a <= l /\ Inside(i, a)}
<1>4. ASSUME NEW a \in p, a <= l
      PROVE  LET len == t[a][2]
             IN  /\ t[a] = Hdr(len) /\ len \in Nat /\ b[a] \in Nat /\ a \in 1 .. l
                 /\ \A k \in 1 .. len : t[a + k] = Enc(b[a] + k)
                 /\ a + len <= l /\ a + len + 1 \in p /\ b[a + len + 1] = b[a] + len
  <2> DEFINE len == t[a][2]
  <2>1. /\ t[a] = Hdr(len) /\ len \in Nat /\ b[a] \in Nat /\ a \in 1 .. l
        /\ \A k \in 1 .. len : a + k <= l => t[a + k] = Enc(b[a] + k)
        /\ a + len <= l /\ a + len + 1 \in p /\ b[a + len + 1] = b[a] + len
    BY <1>1, <1>2, <1>4 DEF Frames, WholeFrames
  <2> HIDE DEF len, l
  <2>2. \A k \in 1 .. len : a + k <= l
    BY <1>1, <2>1
  <2> QED
    BY <2>1, <2>2 DEF len
<1>5. 0 \in S
  <2>1. 0 + 1 \in p /\ b[1] = low /\ f[0] = << >> /\ Run(low, low) = << >> /\ low <= low
    BY <1>2, <1>3, RunNext DEF Frames, Collects
  <2> QED
    BY <1>1, <2>1
<1> HIDE DEF l
<1>6. ASSUME NEW i \in 0 .. l - 1, i \in S
      PROVE  i + 1 \in S
  <2> DEFINE j == i + 1
  <2>1. j \in 1 .. l /\ j \in 0 .. l /\ j - 1 = i /\ j = i + 1
    BY <1>1
  <2> HIDE DEF j
  <2>2. f[j] = IF t[j][1] = "hdr" THEN f[i] ELSE Append(f[i], t[j][2])
    BY <1>3, <2>1 DEF Collects
  <2>3. ASSUME NEW a \in p, a <= l, a <= j, low <= b[a], f[j] = Run(low, b[a] + (j - a)),
               j <= a + t[a][2]
        PROVE  j \in S
    <3> DEFINE len == t[a][2]
    <3>1. CASE j < a + len
      <4>1. Inside(j, a)
        BY <2>3, <3>1
      <4> QED
        BY <2>1, <2>3, <4>1
    <3>2. CASE ~(j < a + len)
      <4>1. len \in Nat /\ a \in 1 .. l /\ a + len + 1 \in p /\ b[a + len + 1] = b[a] + len /\ b[a] \in Nat
        BY <1>4, <2>3
      <4>2. j <= a + len
        BY <2>3
      <4> HIDE DEF len
      <4>3. j = a + len /\ j - a = len
        BY <2>1, <3>2, <4>1, <4>2
      <4>4. j + 1 = a + len + 1
        BY <4>3
      <4>5. low <= b[a] + len
        BY <2>3, <4>1
      <4>6. Between(j)
        BY <2>3, <4>1, <4>3, <4>4, <4>5
      <4> QED
        BY <2>1, <4>6
    <3> QED
      BY <3>1, <3>2
  <2>4. ASSUME Between(i)
        PROVE  j \in S
    <3>1. j \in p /\ low <= b[j] /\ f[i] = Run(low, b[j]) /\ j <= l
      BY <2>1, <2>4
    <3>2. t[j] = Hdr(t[j][2]) /\ t[j][2] \in Nat /\ b[j] \in Nat
      BY <1>4, <3>1
    <3>3. f[j] = f[i]
      <4>1. t[j][1] = "hdr"
        BY <3>2 DEF Hdr
      <4> QED
        BY <2>2, <4>1
    <3>4. b[j] + (j - j) = b[j] /\ j <= j + t[j][2] /\ j <= j
      BY <2>1, <3>2
    <3>5. f[j] = Run(low, b[j] + (j - j))
      BY <3>1, <3>3, <3>4
    <3> HIDE DEF S
    <3> QED
      BY <2>3, <3>1, <3>4, <3>5
  <2>5. ASSUME \E a \in p : a <= l /\ Inside(i, a)
        PROVE  j \in S
    <3>1. PICK a \in p : a <= l /\ Inside(i, a)
      BY <2>5
    <3> DEFINE len == t[a][2]
               c == b[a]
               k == j - a
               o == c + (i - a)
    <3>2. /\ a <= i /\ i < a + len /\ low <= c /\ f[i] = Run(low, o)
          /\ len \in Nat /\ c \in Nat /\ a \in 1 .. l
          /\ \A e \in 1 .. len : t[a + e] = Enc(c + e)
      BY <1>4, <3>1
    <3> HIDE DEF len, c
    <3>3. k \in 1 .. len /\ a + k = j /\ o \in Nat /\ low <= o /\ c + k = o + 1 /\ j <= a + len /\ a <= j
      BY <1>1, <2>1, <3>2
    <3>4. t[j] = <<"enc", o + 1>>
      BY <3>2, <3>3 DEF Enc
    <3> HIDE DEF o, k
    <3>5. t[j][1] # "hdr" /\ t[j][2] = o + 1
      BY <3>4
    <3>6. Append(Run(low, o), o + 1) = Run(low, o + 1)
      BY <3>3, RunNext
    <3>7. f[j] = Run(low, c + k)
      BY <2>2, <3>2, <3>3, <3>5, <3>6
    <3> HIDE DEF S
    <3> QED
      BY <2>3, <3>1, <3>2, <3>3, <3>7 DEF c, k, len
  <2>6. Between(i) \/ \E a \in p : a <= l /\ Inside(i, a)
    BY <1>6
  <2>7. j \in S
    BY <2>4, <2>5, <2>6
  <2> QED
    BY <2>1, <2>7
<1>7. l \in S
  <2> HIDE DEF S
  <2> QED
    BY <1>1, <1>5, <1>6, Stepwise
<1>8. ~(\E a \in p : a <= l /\ Inside(l, a))
  <2>1. ASSUME NEW a \in p, a <= l
        PROVE  ~(l < a + t[a][2])
    <3> DEFINE len == t[a][2]
    <3>1. a + len <= l /\ len \in Nat /\ a \in 1 .. l
      BY <1>4, <2>1
    <3> HIDE DEF len
    <3>2. ~(l < a + len)
      BY <1>1, <3>1
    <3> QED
      BY <3>2 DEF len
  <2> QED
    BY <2>1
<1>9. l + 1 \in p /\ b[l + 1] = m
  BY <1>2 DEF WholeFrames, l
<1>10. Between(l)
  BY <1>7, <1>8
<1> QED
  BY <1>3, <1>9, <1>10

LEMMA CatTwice ==
  ASSUME NEW r \in Seq(Nat), NEW s \in Seq(Nat), NEW t \in Seq(Nat)
  PROVE  Cat(Cat(r, s), t) = Cat(r, Cat(s, t)) /\ Cat(r, s) \in Seq(Nat)
<1>1. (r \o s) \o t = r \o (s \o t)
  BY ConcatAssociative, SMTT(60)
<1>2. r \o s \in Seq(Nat)
  BY ConcatProperties
<1> QED
  BY <1>1, <1>2 DEF Cat

\* What has been received, what is in the buffers and queues of a direction, and what is in
\* the queue of its first socket are the bytes sent, if the copiers are alive.
LEMMA JoinedRuns ==
  ASSUME NEW a \in Nat, NEW b \in Nat, NEW c \in Nat, NEW d \in Nat, a <= b, b <= c, c <= d
  PROVE  Cat(Run(0, a), Cat(Run(a, b), Cat(Run(b, c), Run(c, d)))) = Run(0, d)
<1>1. Cat(Run(b, c), Run(c, d)) = Run(b, d)
  BY RunJoined
<1>2. b <= d /\ a <= d /\ 0 <= a
  OBVIOUS
<1>3. Cat(Run(a, b), Run(b, d)) = Run(a, d)
  BY <1>2, RunJoined
<1>4. Cat(Run(0, a), Run(a, d)) = Run(0, d)
  BY <1>2, RunJoined
<1> QED
  BY <1>1, <1>3, <1>4

LEMMA OneHopPayload ==
  ASSUME NEW in \in Seq(Unit), NEW s \in Alive, NEW b \in Seq(Unit), NEW out \in Seq(Unit),
         NEW g \in Nat, NEW n \in Nat, OneHop(in, s, b, out, g, n)
  PROVE  Cat(Run(0, g), Cat(Payload(out), Cat(Payload(b), Payload(in)))) = Run(0, n)
<1> DEFINE lo == g + Len(out)
           hi == lo + Len(b)
           li == Len(in)
           lb == Len(b)
           lu == Len(out)
<1>1. li \in Nat /\ lb \in Nat /\ lu \in Nat
  BY LenProperties
<1>2. /\ Numbered(out, g) /\ Numbered(in, n - li) /\ Numbered(b, g + lu)
      /\ g + lu + lb + li = n
  BY DEF OneHop, Delivering, Taking
<1>3. lo = g + lu /\ hi = lo + lb /\ lo \in Nat /\ hi \in Nat
  BY <1>1
<1> HIDE DEF lo, hi
<1>4. Payload(out) = Run(g, lo)
  BY <1>2, <1>3, PayloadNumbered
<1>5. Payload(b) = Run(lo, hi)
  BY <1>2, <1>3, PayloadNumbered
<1> HIDE DEF li, lb, lu
<1>6. n - li = hi /\ hi + li = n /\ g <= lo /\ lo <= hi /\ hi <= n
  BY <1>1, <1>2, <1>3
<1>7. Payload(in) = Run(hi, n)
  BY <1>2, <1>3, <1>6, PayloadNumbered DEF li
<1>8. Cat(Run(0, g), Cat(Run(g, lo), Cat(Run(lo, hi), Run(hi, n)))) = Run(0, n)
  BY <1>3, <1>6, JoinedRuns
<1> QED
  BY ONLY <1>4, <1>5, <1>7, <1>8

\* A direction of two hops whose copiers have not failed.
TwoHopsAlive(in, s1, b1, mid, s2, b2, out, g, n) ==
  /\ in \in Seq(Unit) /\ s1 \in Alive /\ b1 \in Seq(Unit) /\ mid \in Seq(Unit)
  /\ s2 \in Alive /\ b2 \in Seq(Unit) /\ out \in Seq(Unit) /\ g \in Nat /\ n \in Nat
  /\ TwoHops(in, s1, b1, mid, s2, b2, out, g, n)

LEMMA TwoHopsPayload ==
  ASSUME NEW in, NEW s1, NEW b1, NEW mid, NEW s2, NEW b2, NEW out, NEW g, NEW n,
         TwoHopsAlive(in, s1, b1, mid, s2, b2, out, g, n)
  PROVE  Cat(Run(0, g), Cat(Payload(out), Cat(Cat(Payload(b2), Payload(mid)),
                                                 Cat(Payload(b1), Payload(in))))) = Run(0, n)
<1> DEFINE lo == g + Len(out)
           li == Len(in)
           hi == n - li
           lb == Len(b2)
           lu == Len(out)
           x == Payload(b2)
           y == Payload(mid)
           z == Payload(b1)
           w == Payload(in)
<1>0. /\ in \in Seq(Unit) /\ s1 \in Alive /\ b1 \in Seq(Unit) /\ mid \in Seq(Unit)
      /\ s2 \in Alive /\ b2 \in Seq(Unit) /\ out \in Seq(Unit) /\ g \in Nat /\ n \in Nat
      /\ TwoHops(in, s1, b1, mid, s2, b2, out, g, n)
  BY DEF TwoHopsAlive
<1>1. li \in Nat /\ lb \in Nat /\ lu \in Nat
  BY <1>0, LenProperties
<1>2. Numbered(out, g) /\ Numbered(in, hi) /\ li <= n
  BY <1>0 DEF TwoHops, Delivering, Taking
<1>3. lo = g + lu /\ lo \in Nat /\ g <= lo /\ hi \in Nat /\ hi + li = n /\ hi <= n
  BY <1>0, <1>1, <1>2
<1>4. Payload(out) = Run(g, lo)
  BY <1>0, <1>2, <1>3, PayloadNumbered
<1>5. w = Run(hi, n)
  BY <1>0, <1>2, <1>3, PayloadNumbered
<1>6. x \in Seq(Nat) /\ y \in Seq(Nat) /\ z \in Seq(Nat) /\ w \in Seq(Nat)
  BY <1>0, PayloadCollects
<1>7. Cat(Cat(x, y), Cat(z, w)) = Cat(Cat(Cat(x, y), z), w)
  <2> HIDE DEF x, y, z, w
  <2> QED
    BY <1>0, <1>6, CatTwice
<1>8. lo <= hi /\ Cat(Cat(x, y), z) = Run(lo, hi)
  <2>1. CASE s2 = "read"
    <3> DEFINE t == (b2 \o mid) \o b1
    <3>1. t \in Seq(Unit) /\ b2 \o mid \in Seq(Unit)
      BY <1>0, Joined
    <3>2. FrameStream(t, lo, n, s1, hi)
      BY <1>0, <2>1 DEF TwoHops
    <3>3. Payload(t) = Cat(Cat(x, y), z)
      <4> DEFINE v == b2 \o mid
      <4>1. v \in Seq(Unit) /\ Payload(v) = Cat(x, y)
        BY <1>0, <3>1, PayloadJoined DEF Cat
      <4> HIDE DEF v
      <4>2. Payload(v \o b1) = Cat(Payload(v), z)
        BY <1>0, <4>1, PayloadJoined DEF Cat
      <4> QED
        BY <1>0, <4>1, <4>2 DEF v
    <3> HIDE DEF t, lo, hi
    <3>4. lo <= hi /\ Payload(t) = Run(lo, hi)
      BY <1>0, <1>3, <3>1, <3>2, PayloadFramed
    <3> QED
      BY <1>0, <3>3, <3>4
  <2>2. CASE s2 = "write"
    <3> DEFINE t == mid \o b1
               u == lo + lb
    <3>1. t \in Seq(Unit)
      BY <1>0, Joined
    <3>2. FrameStream(t, u, n, s1, hi) /\ Numbered(b2, lo)
      BY <1>0, <2>2 DEF TwoHops
    <3>3. Payload(t) = Cat(y, z)
      BY <1>0, PayloadJoined DEF Cat
    <3>4. u \in Nat /\ lo <= u /\ u = lo + lb
      BY <1>0, <1>1, <1>3
    <3> HIDE DEF t, lo, hi, u
    <3>5. u <= hi /\ Payload(t) = Run(u, hi)
      <4>1. /\ t \in Seq(Unit) /\ u \in Nat /\ n \in Nat /\ hi \in Nat /\ s1 \in Alive
            /\ FrameStream(t, u, n, s1, hi)
        BY <1>0, <1>3, <3>1, <3>2, <3>4
      <4> QED
        BY ONLY <4>1, PayloadFramed
    <3>6. x = Run(lo, u)
      BY <1>0, <1>3, <3>2, <3>4, PayloadNumbered
    <3>7. Cat(Run(lo, u), Run(u, hi)) = Run(lo, hi)
      BY <1>0, <1>3, <3>4, <3>5, RunJoined
    <3>8. Cat(Cat(x, y), z) = Cat(x, Cat(y, z))
      <4> HIDE DEF x, y, z, w
      <4> QED
        BY <1>0, <1>6, CatTwice
    <3> HIDE DEF x, y, z
    <3>9. lo <= hi
      BY <1>0, <1>3, <3>4, <3>5
    <3> QED
      BY <1>0, <3>3, <3>5, <3>6, <3>7, <3>8, <3>9
  <2> QED
    BY <1>0, <2>1, <2>2 DEF Alive
<1> HIDE DEF lo, hi, x, y, z, w
<1>9. Cat(Cat(x, y), Cat(z, w)) = Cat(Run(lo, hi), Run(hi, n))
  BY ONLY <1>5, <1>7, <1>8
<1>10. Cat(Run(0, g), Cat(Run(g, lo), Cat(Run(lo, hi), Run(hi, n)))) = Run(0, n)
  BY <1>0, <1>3, <1>8, JoinedRuns
<1> QED
  BY <1>0, <1>4, <1>9, <1>10 DEF x, y, z, w

\* While both copiers of a direction, or the one there is, have not failed, every byte sent
\* is received or in a buffer or a queue on the way, once and in its place: partial reads
\* and writes (relay.go 41-49 and 79-86, securetcp.go 21-39) drop nothing.
THEOREM NothingLost == RelaySpec => []NothingLostWhileCopying
<1>1. ASSUME RelayInv
      PROVE  NothingLostWhileCopying
  <2>1. Hops \in {1, 2}
    BY <1>1, HopsType DEF RelayInv, RelayTypeOK
  <2>2. ASSUME NEW d \in Dirs, \A r \in Relays : st[<<r, d>>] \in Alive
        PROVE  got[d] \o OnTheWay(d) = sent[d]
    <3> DEFINE x == FirstCopier(d)
               y == LastCopier(d)
               g == Len(got[d])
               n == Len(sent[d])
    <3>1. got[d] = Run(0, g) /\ sent[d] = Run(0, n) /\ g \in Nat /\ n \in Nat
      BY <1>1, DirOf, CountedRun
    <3>2. CASE Hops = 1
      <4>1. x = <<1, d>> /\ st[x] \in Alive
        BY <2>2, <3>2 DEF FirstCopier, Relays
      <4>2. OnTheWay(d) = Payload(q[RecvEnd(d)]) \o (Payload(buf[x]) \o Payload(q[In(x)]))
        BY <3>2, <4>1 DEF OnTheWay
      <4>3. /\ q[In(x)] \in Seq(Unit) /\ buf[x] \in Seq(Unit) /\ q[RecvEnd(d)] \in Seq(Unit)
            /\ OneHop(q[In(x)], st[x], buf[x], q[RecvEnd(d)], g, n)
        BY <1>1, <3>2, DirOf
      <4> DEFINE in == q[In(x)]
                 s == st[x]
                 b == buf[x]
                 out == q[RecvEnd(d)]
      <4>4. /\ in \in Seq(Unit) /\ s \in Alive /\ b \in Seq(Unit) /\ out \in Seq(Unit)
            /\ g \in Nat /\ n \in Nat /\ OneHop(in, s, b, out, g, n)
        BY <3>1, <4>1, <4>3
      <4>5. OnTheWay(d) = Payload(out) \o (Payload(b) \o Payload(in))
        BY <4>2
      <4> HIDE DEF in, s, b, out, x, g, n
      <4>6. Cat(Run(0, g), Cat(Payload(out), Cat(Payload(b), Payload(in)))) = Run(0, n)
        BY ONLY <4>4, OneHopPayload
      <4> QED
        BY ONLY <3>1, <4>5, <4>6 DEF Cat
    <3>3. CASE Hops = 2
      <4>1. st[x] \in Alive /\ st[y] \in Alive
        BY <2>2, <3>3 DEF FirstCopier, LastCopier, Relays
      <4>2. OnTheWay(d) = Payload(q[RecvEnd(d)]) \o
              ((Payload(buf[y]) \o Payload(q[In(y)])) \o (Payload(buf[x]) \o Payload(q[In(x)])))
        <5> DEFINE hop(r) == Payload(buf[<<r, d>>]) \o Payload(q[In(<<r, d>>)])
        <5>1. OnTheWay(d) = Payload(q[RecvEnd(d)]) \o
                (IF d = "down" THEN hop(2) \o hop(1) ELSE hop(1) \o hop(2))
          BY <3>3 DEF OnTheWay
        <5>2. \/ d = "down" /\ x = <<1, d>> /\ y = <<2, d>>
              \/ d # "down" /\ x = <<2, d>> /\ y = <<1, d>>
          BY <3>3 DEF FirstCopier, LastCopier
        <5> HIDE DEF x, y
        <5> QED
          BY ONLY <5>1, <5>2
      <4>3. /\ q[In(x)] \in Seq(Unit) /\ buf[x] \in Seq(Unit) /\ q[In(y)] \in Seq(Unit)
            /\ buf[y] \in Seq(Unit) /\ q[RecvEnd(d)] \in Seq(Unit)
            /\ TwoHops(q[In(x)], st[x], buf[x], q[In(y)], st[y], buf[y], q[RecvEnd(d)], g, n)
        BY <1>1, <3>3, DirOf
      <4> DEFINE in == q[In(x)]
                 s1 == st[x]
                 b1 == buf[x]
                 mid == q[In(y)]
                 s2 == st[y]
                 b2 == buf[y]
                 out == q[RecvEnd(d)]
      <4>4. TwoHopsAlive(in, s1, b1, mid, s2, b2, out, g, n)
        BY <3>1, <4>1, <4>3 DEF TwoHopsAlive
      <4>5. OnTheWay(d) = Payload(out) \o
              ((Payload(b2) \o Payload(mid)) \o (Payload(b1) \o Payload(in)))
        BY <4>2
      <4> HIDE DEF in, s1, b1, mid, s2, b2, out, x, y, g, n
      <4>6. Cat(Run(0, g), Cat(Payload(out), Cat(Cat(Payload(b2), Payload(mid)),
                                                 Cat(Payload(b1), Payload(in))))) = Run(0, n)
        BY ONLY <4>4, TwoHopsPayload
      <4> QED
        BY ONLY <3>1, <4>5, <4>6 DEF Cat
    <3> QED
      BY <2>1, <3>2, <3>3
  <2> QED
    BY <2>2 DEF NothingLostWhileCopying, Alive
<1> QED
  BY <1>1, RelayInvariance, PTL
=============================================================================
