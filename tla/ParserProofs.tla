---------------------------- MODULE ParserProofs ----------------------------
(***************************************************************************)
(* Proofs about the parsers of Mixed: what they take from the bytes of a   *)
(* well-formed client, however they are cut up on the way.                 *)
(***************************************************************************)
EXTENDS MixedProofs, SequenceTheorems, WellFoundedInduction

USE DEF clientVars, frontVars, udpVars

-----------------------------------------------------------------------------
(* The bytes of a SOCKS5 client *)

\* Part of a sequence, byte by byte.
LEMMA SubSeqIs ==
  ASSUME NEW s, NEW i \in Int, NEW j \in Int
  PROVE  SubSeq(s, i, j) = [k \in 1 .. j - i + 1 |-> s[i + k - 1]]
OBVIOUS

\* A message, byte by byte.
LEMMA PartIs ==
  ASSUME NEW s \in Scripts, NEW k \in 1 .. Len(s.ends)
  PROVE  LET from == IF k = 1 THEN 0 ELSE s.ends[k - 1]
             to   == s.ends[k]
         IN  /\ from \in 0 .. Len(s.bytes) /\ to \in 1 .. Len(s.bytes) /\ Len(s.bytes) \in Nat
             /\ from <= to => /\ Len(Part(s, k)) = to - from
                              /\ \A i \in 1 .. to - from : Part(s, k)[i] = s.bytes[from + i]
             /\ Part(s, k) = [i \in 1 .. to - from |-> s.bytes[from + i]]
<1> DEFINE from == IF k = 1 THEN 0 ELSE s.ends[k - 1]
           to   == s.ends[k]
           b    == s.bytes
<1>1. /\ Len(b) \in Nat \ {0} /\ Len(s.ends) \in Nat /\ DOMAIN s.ends = 1 .. Len(s.ends)
      /\ \A e \in DOMAIN s.ends : s.ends[e] \in 1 .. Len(b)
  BY ScriptAssumption
<1>2. to \in 1 .. Len(b) /\ from \in 0 .. Len(b)
  BY <1>1
<1>3. Part(s, k) = SubSeq(b, from + 1, to)
  <2>1. k = 1 => from + 1 = 1
    OBVIOUS
  <2> QED
    BY <2>1 DEF Part
<1> HIDE DEF from, to, b
<1>4. SubSeq(b, from + 1, to) = [i \in 1 .. to - from |-> b[from + i]]
  <2> DEFINE f == from + 1
  <2>1. f \in Int /\ to \in Int /\ to - f + 1 = to - from /\ \A i \in 1 .. to - from : f + i - 1 = from + i
    BY <1>2
  <2> HIDE DEF f
  <2>2. SubSeq(b, f, to) = [i \in 1 .. to - f + 1 |-> b[f + i - 1]]
    BY <2>1, SubSeqIs
  <2>3. SubSeq(b, f, to) = [i \in 1 .. to - from |-> b[from + i]]
    BY <2>1, <2>2
  <2> QED
    BY <2>3 DEF f
<1>5. Part(s, k) = [i \in 1 .. to - from |-> b[from + i]]
  BY <1>3, <1>4
<1>6. from <= to => Len(Part(s, k)) = to - from
  BY <1>2, <1>5
<1> QED
  BY <1>1, <1>2, <1>5, <1>6 DEF from, to, b

\* Where the messages end.
LEMMA Socks5Ends ==
  ASSUME script \in Scripts, WellFormed(script), script.kind = "socks5"
  PROVE  /\ Len(Bytes) \in Nat /\ \A k \in 1 .. Len(Bytes) : Bytes[k] \in 0 .. 255
         /\ RequestNo \in {2, 3} /\ (script.login <=> RequestNo = 3)
         /\ Ends(1) \in Nat /\ Ends(2) \in Nat /\ Ends(RequestNo) \in Nat /\ Ends(RequestNo - 1) \in Nat
         /\ 3 <= Ends(1) /\ Ends(1) <= 257 /\ Ends(1) < Ends(2)
         /\ Ends(RequestNo - 1) < Ends(RequestNo) /\ Ends(RequestNo) <= Len(Bytes)
         /\ Ends(2) <= Ends(RequestNo) /\ Ends(1) <= Ends(RequestNo - 1)
         /\ UpTo(1) = Ends(1) /\ UpTo(2) = Ends(2) /\ UpTo(RequestNo) = Ends(RequestNo)
         /\ Bytes[2] = Ends(1) - 2 /\ \A k \in 3 .. Ends(1) : Bytes[k] \in 0 .. 2
         /\ Bytes[Ends(RequestNo - 1) + 1] = 5 /\ Bytes[Ends(RequestNo - 1) + 2] < 32
<1> DEFINE e == script.ends
           b == script.bytes
           l == IF script.login THEN 3 ELSE 2
<1>1. /\ l <= Len(e) /\ \A k \in 2 .. l : e[k - 1] < e[k]
      /\ GreetingFormed(Part(script, 1)) /\ RequestFormed(Part(script, l), script.asked)
  BY DEF WellFormed, Socks5Formed
<1>2. /\ Len(b) \in Nat /\ DOMAIN b = 1 .. Len(b) /\ Len(e) \in Nat /\ DOMAIN e = 1 .. Len(e)
      /\ \A k \in 1 .. Len(e) : e[k] \in 1 .. Len(b)
      /\ \A k \in 1 .. Len(b) : b[k] \in 0 .. 255
  <2>1. /\ Len(b) \in Nat \ {0} /\ DOMAIN b = 1 .. Len(b) /\ Len(e) \in Nat \ {0} /\ DOMAIN e = 1 .. Len(e)
        /\ \A k \in DOMAIN e : e[k] \in DOMAIN b
        /\ \A k \in DOMAIN b : b[k] \in 0 .. 255
    BY ScriptAssumption, Zenon
  <2> QED
    BY ONLY <2>1
<1>3. l \in {2, 3} /\ (script.login <=> l = 3)
  OBVIOUS
<1>4. 1 \in 1 .. Len(e) /\ l \in 1 .. Len(e) /\ 2 \in 1 .. Len(e) /\ l - 1 \in 1 .. Len(e) /\ l # 1
  BY <1>1, <1>2, <1>3
<1>5. e[1] < e[2] /\ e[l - 1] < e[l] /\ e[2] <= e[l] /\ e[1] <= e[l - 1]
  BY <1>1, <1>2, <1>3, <1>4
<1>6. /\ Len(Part(script, 1)) = e[1] /\ \A i \in 1 .. e[1] : Part(script, 1)[i] = b[i]
  <2>1. /\ 0 <= e[1] => /\ Len(Part(script, 1)) = e[1] - 0
                        /\ \A i \in 1 .. e[1] - 0 : Part(script, 1)[i] = b[0 + i]
        /\ e[1] \in 1 .. Len(b)
    BY <1>2, <1>4, PartIs
  <2> QED
    BY <2>1
<1>7. /\ Len(Part(script, l)) = e[l] - e[l - 1]
      /\ \A i \in 1 .. e[l] - e[l - 1] : Part(script, l)[i] = b[e[l - 1] + i]
  <2>1. l - 1 \in 1 .. Len(e) /\ e[l - 1] <= e[l]
    BY <1>2, <1>4, <1>5
  <2>2. LET from == IF l = 1 THEN 0 ELSE script.ends[l - 1]
            to   == script.ends[l]
        IN  from <= to => /\ Len(Part(script, l)) = to - from
                          /\ \A i \in 1 .. to - from : Part(script, l)[i] = script.bytes[from + i]
    <3> HIDE DEF l
    <3> QED
      BY <1>4, PartIs DEF e
  <2> HIDE DEF l
  <2> QED
    BY <1>4, <2>1, <2>2 DEF e, b
<1>8. e[1] > 2 /\ e[1] = 2 + b[2] /\ \A i \in 3 .. e[1] : b[i] \in 0 .. 2
  <2> DEFINE m == Part(script, 1)
  <2>1. Len(m) > 2 /\ Len(m) = 2 + m[2] /\ \A i \in 3 .. Len(m) : m[i] \in 0 .. 2
    BY <1>1 DEF GreetingFormed
  <2>2. Len(m) = e[1] /\ e[1] \in Nat /\ \A i \in 1 .. e[1] : m[i] = b[i]
    BY <1>2, <1>4, <1>6
  <2> HIDE DEF m, e, b
  <2> QED
    BY <2>1, <2>2
<1>9. e[1] <= 257 /\ b[2] \in 0 .. 255
  <2> HIDE DEF e, b
  <2>1. 2 \in 1 .. Len(b) /\ e[1] \in Nat
    BY <1>2, <1>4, <1>8
  <2>2. b[2] \in 0 .. 255
    BY ONLY <1>2, <2>1
  <2> DEFINE x == b[2]
             y == e[1]
  <2>3. y = 2 + x /\ x \in 0 .. 255
    BY <1>8, <2>2
  <2> HIDE DEF x, y
  <2>4. y <= 257
    BY ONLY <2>3
  <2> QED
    BY <2>2, <2>4 DEF x, y
<1>10. b[e[l - 1] + 1] = 5 /\ b[e[l - 1] + 2] < 32
  <2>1. Len(Part(script, l)) > 5 /\ Part(script, l)[1] = 5 /\ Part(script, l)[2] < 32
    BY <1>1 DEF RequestFormed
  <2> DEFINE d == e[l] - e[l - 1]
  <2>2. d > 5 /\ d \in Int
    BY <1>2, <1>4, <1>7, <2>1
  <2>3. 1 \in 1 .. d /\ 2 \in 1 .. d
    BY <2>2
  <2> QED
    BY <1>7, <2>1, <2>3
<1>11. \A k \in 1 .. Len(e) : UpTo(k) = e[k]
  <2>1. \A k \in 1 .. Len(e) : Min({k, Len(e)}) = k
    BY <1>2, MinMaxTwo
  <2> QED
    BY <2>1 DEF UpTo
<1>12. /\ Bytes = b /\ RequestNo = l
       /\ Ends(1) = e[1] /\ Ends(2) = e[2] /\ Ends(l) = e[l] /\ Ends(l - 1) = e[l - 1]
       /\ UpTo(1) = e[1] /\ UpTo(2) = e[2] /\ UpTo(l) = e[l]
  BY <1>4, <1>11 DEF Bytes, RequestNo, Ends
<1>13. e[1] \in Nat /\ e[2] \in Nat /\ e[l] \in Nat /\ e[l - 1] \in Nat /\ e[l] <= Len(b)
  BY <1>2, <1>4
<1>14. /\ 3 <= e[1] /\ Bytes[2] = e[1] - 2
       /\ \A k \in 3 .. Ends(1) : Bytes[k] \in 0 .. 2
  <2> DEFINE x == b[2]
             y == e[1]
  <2> HIDE DEF e, b
  <2>1. y = 2 + x /\ x \in Int /\ y > 2 /\ y \in Nat
    <3>1. e[1] = 2 + b[2] /\ e[1] > 2 /\ e[1] \in Nat /\ b[2] \in 0 .. 255
      BY ONLY <1>8, <1>9, <1>13, Zenon
    <3> QED
      BY ONLY <3>1
  <2> HIDE DEF x, y
  <2>2. 3 <= y /\ x = y - 2
    BY ONLY <2>1
  <2> QED
    BY <1>8, <1>12, <2>2 DEF x, y
<1> HIDE DEF e, b, l
<1>15. /\ Len(Bytes) \in Nat /\ \A k \in 1 .. Len(Bytes) : Bytes[k] \in 0 .. 255
       /\ RequestNo \in {2, 3} /\ (script.login <=> RequestNo = 3)
  BY <1>2, <1>3, <1>12
<1>16. /\ Ends(1) \in Nat /\ Ends(2) \in Nat /\ Ends(RequestNo) \in Nat /\ Ends(RequestNo - 1) \in Nat
       /\ Ends(RequestNo) <= Len(Bytes)
  BY <1>12, <1>13
<1>17. /\ Ends(1) < Ends(2) /\ Ends(RequestNo - 1) < Ends(RequestNo)
       /\ Ends(2) <= Ends(RequestNo) /\ Ends(1) <= Ends(RequestNo - 1)
  BY <1>5, <1>12
<1>18. /\ UpTo(1) = Ends(1) /\ UpTo(2) = Ends(2) /\ UpTo(RequestNo) = Ends(RequestNo)
       /\ Bytes[Ends(RequestNo - 1) + 1] = 5 /\ Bytes[Ends(RequestNo - 1) + 2] < 32
       /\ 3 <= Ends(1) /\ Ends(1) <= 257 /\ Bytes[2] = Ends(1) - 2
  BY <1>9, <1>10, <1>12, <1>14
<1> QED
  BY <1>14, <1>15, <1>16, <1>17, <1>18

\* Credentials that end at byte e2 of b and begin behind byte e1, with a name of u bytes and
\* a password of p.
CredentialsAt(b, e1, e2, user, pass, u, p) ==
  /\ u \in 1 .. 31 /\ p \in Nat /\ u = Len(user) /\ p = Len(pass)
  /\ e2 = e1 + 3 + u + p
  /\ b[e1 + 1] = 1 /\ b[e1 + 2] = u /\ b[e1 + 3 + u] = p
  /\ user = [i \in 1 .. u |-> b[e1 + 2 + i]]
  /\ pass = [i \in 1 .. p |-> b[e1 + 3 + u + i]]
  /\ \A i \in 1 .. u : b[e1 + 2 + i] >= 32
  /\ \A i \in 1 .. p : b[e1 + 3 + u + i] >= 32

\* The credentials of a well-formed client, byte by byte.
LEMMA CredentialBytes ==
  ASSUME NEW b, NEW e1 \in Nat, NEW e2 \in Nat, NEW user, NEW pass, NEW m,
         m = [i \in 1 .. e2 - e1 |-> b[e1 + i]], e1 < e2,
         CredentialsFormed(m, user, pass)
  PROVE  CredentialsAt(b, e1, e2, user, pass, Len(user), Len(pass))
<1> DEFINE u == Len(user)
           p == Len(pass)
<1>1. /\ u \in 1 .. 31 /\ Printable(user) /\ Printable(pass)
      /\ DOMAIN user = 1 .. u /\ DOMAIN pass = 1 .. p /\ p \in Nat
      /\ Len(m) = 3 + u + p
      /\ m[1] = 1 /\ m[2] = u /\ m[3 + u] = p
      /\ user = SubSeq(m, 3, 2 + u) /\ pass = SubSeq(m, 4 + u, Len(m))
  BY DEF CredentialsFormed
<1>2. Len(m) = e2 - e1
  <2>1. e2 - e1 \in Nat
    OBVIOUS
  <2> QED
    BY <2>1
<1> HIDE DEF u, p
<1>3. e2 = e1 + 3 + u + p /\ e2 - e1 = 3 + u + p
  BY <1>1, <1>2
<1>4. \A k \in 1 .. 3 + u + p : m[k] = b[e1 + k]
  BY <1>3
<1>5. b[e1 + 1] = 1 /\ b[e1 + 2] = u /\ b[e1 + 3 + u] = p
  <2>1. 1 \in 1 .. 3 + u + p /\ 2 \in 1 .. 3 + u + p /\ 3 + u \in 1 .. 3 + u + p /\ e1 + (3 + u) = e1 + 3 + u
    BY <1>1
  <2>2. m[1] = b[e1 + 1] /\ m[2] = b[e1 + 2] /\ m[3 + u] = b[e1 + (3 + u)]
    BY ONLY <1>4, <2>1
  <2> QED
    BY <1>1, <2>1, <2>2
<1>6. user = [i \in 1 .. u |-> b[e1 + 2 + i]]
  <2>1. SubSeq(m, 3, 2 + u) = [k \in 1 .. (2 + u) - 3 + 1 |-> m[3 + k - 1]]
    BY <1>1, SubSeqIs
  <2>2. (2 + u) - 3 + 1 = u /\ \A k \in 1 .. u : 3 + k - 1 = 2 + k /\ 2 + k \in 1 .. 3 + u + p /\ e1 + (2 + k) = e1 + 2 + k
    BY <1>1
  <2>3. \A k \in 1 .. u : m[3 + k - 1] = b[e1 + 2 + k]
    BY <1>4, <2>2
  <2> QED
    BY <1>1, <2>1, <2>2, <2>3
<1>7. pass = [i \in 1 .. p |-> b[e1 + 3 + u + i]]
  <2> DEFINE l == Len(m)
             f == 4 + u
  <2>0. l \in Int /\ f \in Int /\ l = 3 + u + p
    BY <1>1
  <2>1. SubSeq(m, f, l) = [k \in 1 .. l - f + 1 |-> m[f + k - 1]]
    <3> HIDE DEF l, f
    <3> QED
      BY <2>0, SubSeqIs
  <2>2. l - f + 1 = p /\ \A k \in 1 .. p : f + k - 1 = 3 + u + k /\ 3 + u + k \in 1 .. 3 + u + p /\ e1 + (3 + u + k) = e1 + 3 + u + k
    BY <1>1, <2>0
  <2>3. \A k \in 1 .. p : m[f + k - 1] = b[e1 + 3 + u + k]
    <3> HIDE DEF f
    <3> QED
      BY <1>4, <2>2
  <2>4. pass = SubSeq(m, f, l)
    BY <1>1
  <2> HIDE DEF f, l
  <2> QED
    BY <2>1, <2>2, <2>3, <2>4
<1>8. \A i \in 1 .. u : b[e1 + 2 + i] >= 32
  <2>1. \A i \in 1 .. u : user[i] >= 32
    BY <1>1 DEF Printable
  <2>2. \A i \in 1 .. u : user[i] = b[e1 + 2 + i]
    BY ONLY <1>6
  <2> QED
    BY ONLY <2>1, <2>2, Zenon
<1>9. \A i \in 1 .. p : b[e1 + 3 + u + i] >= 32
  <2>1. \A i \in 1 .. p : pass[i] >= 32
    BY <1>1 DEF Printable
  <2>2. \A i \in 1 .. p : pass[i] = b[e1 + 3 + u + i]
    BY ONLY <1>7
  <2> QED
    BY ONLY <2>1, <2>2
<1>10. u = Len(user) /\ p = Len(pass)
  BY DEF u, p
<1> QED
  BY <1>1, <1>3, <1>5, <1>6, <1>7, <1>8, <1>9, <1>10 DEF CredentialsAt

\* A request that ends at byte e of b and begins behind byte c, with an address of h bytes
\* whose host begins behind byte o of the request.
RequestAt(b, c, e, asked, h, o) ==
  /\ h \in Nat /\ e = c + 6 + h
  /\ \/ b[c + 4] = 1 /\ h = 4 /\ o = 4
     \/ b[c + 4] = 3 /\ h = b[c + 5] + 1 /\ o = 5
     \/ b[c + 4] = 4 /\ h = 16 /\ o = 4
  /\ o = 5 => ~Has([k \in 1 .. 4 + h - o |-> b[c + o + k]], {ByteText.open, ByteText.close})
  /\ b[c + 2] \in {CmdConnect, CmdBind} =>
       /\ asked.line = << >>
       /\ asked.target = [k \in 1 .. 4 + h - o |-> b[c + o + k]] \o [k \in 1 .. 2 |-> b[c + 4 + h + k]]

\* The request of a well-formed client, byte by byte.
LEMMA RequestBytes ==
  ASSUME NEW b, NEW c \in Nat, NEW e \in Nat, NEW asked, NEW m,
         m = [i \in 1 .. e - c |-> b[c + i]], c < e, \A i \in 1 .. e : b[i] \in Nat,
         RequestFormed(m, asked)
  PROVE  \E h, o : RequestAt(b, c, e, asked, h, o)
<1> DEFINE h    == Len(m) - 6
           o    == IF m[4] = 3 THEN 5 ELSE 4
           port == SubSeq(m, Len(m) - 1, Len(m))
           host == SubSeq(m, IF m[4] = 3 THEN 6 ELSE 5, Len(m) - 2)
<1>1. /\ Len(m) > 5
      /\ \/ m[4] = 1 /\ Len(m) = 10
         \/ m[4] = 3 /\ Len(m) = 7 + m[5]
         \/ m[4] = 4 /\ Len(m) = 22
      /\ m[4] = 3 => ~Has(host, {ByteText.open, ByteText.close})
      /\ m[2] \in {CmdConnect, CmdBind} => asked.target = host \o port /\ asked.line = << >>
  BY DEF RequestFormed
<1>2. Len(m) = e - c /\ e - c \in Nat
  <2>1. e - c \in Nat
    OBVIOUS
  <2> QED
    BY <2>1
<1> HIDE DEF port, host
<1>3. /\ m[2] = b[c + 2] /\ m[4] = b[c + 4] /\ m[5] = b[c + 5] /\ m[5] \in Nat
  <2>1. e - c > 5
    BY <1>1, <1>2
  <2> QED
    BY <2>1
<1>4. h \in Nat /\ o \in {4, 5} /\ Len(m) = h + 6 /\ e - c = h + 6
  BY <1>1, <1>2, <1>3
<1>5. \/ b[c + 4] = 1 /\ h = 4 /\ o = 4
      \/ b[c + 4] = 3 /\ h = b[c + 5] + 1 /\ o = 5
      \/ b[c + 4] = 4 /\ h = 16 /\ o = 4
  <2>1. CASE m[4] = 1 /\ Len(m) = 10
    BY <1>3, <2>1
  <2>2. CASE m[4] = 3 /\ Len(m) = 7 + m[5]
    <3>1. b[c + 4] = 3 /\ b[c + 5] = m[5] /\ o = 5
      BY <1>3, <2>2
    <3>2. h = m[5] + 1
      BY ONLY <1>3, <1>4, <2>2
    <3> QED
      BY ONLY <3>1, <3>2
  <2>3. CASE m[4] = 4 /\ Len(m) = 22
    BY <1>3, <2>3
  <2> QED
    BY <1>1, <2>1, <2>2, <2>3
<1>6. host = [k \in 1 .. 4 + h - o |-> b[c + o + k]]
  <2> DEFINE f == IF m[4] = 3 THEN 6 ELSE 5
             l == Len(m) - 2
  <2>1. host = SubSeq(m, f, l)
    BY DEF host
  <2>2. f = o + 1 /\ f \in Int
    OBVIOUS
  <2>3. l = 4 + h /\ l \in Int
    BY <1>4
  <2> HIDE DEF f, l
  <2>4. SubSeq(m, f, l) = [k \in 1 .. l - f + 1 |-> m[f + k - 1]]
    BY ONLY <2>2, <2>3, SubSeqIs
  <2> HIDE DEF h, o
  <2>5. /\ l - f + 1 = 4 + h - o
        /\ \A k \in 1 .. 4 + h - o : f + k - 1 = o + k /\ o + k \in 1 .. e - c /\ c + (o + k) = c + o + k
    BY <1>4, <2>2, <2>3
  <2>6. \A k \in 1 .. 4 + h - o : m[f + k - 1] = b[c + o + k]
    BY <2>5
  <2> QED
    BY <2>1, <2>4, <2>5, <2>6
<1>7. port = [k \in 1 .. 2 |-> b[c + 4 + h + k]]
  <2> DEFINE f == Len(m) - 1
             l == Len(m)
  <2>1. port = SubSeq(m, f, l)
    BY DEF port
  <2>2. f = h + 5 /\ f \in Int /\ l = h + 6 /\ l \in Int
    BY <1>4
  <2> HIDE DEF f, l
  <2>4. SubSeq(m, f, l) = [k \in 1 .. l - f + 1 |-> m[f + k - 1]]
    BY ONLY <2>2, SubSeqIs
  <2> HIDE DEF h, o
  <2>5. /\ l - f + 1 = 2
        /\ \A k \in 1 .. 2 : f + k - 1 = 4 + h + k /\ 4 + h + k \in 1 .. e - c /\ c + (4 + h + k) = c + 4 + h + k
    BY <1>4, <2>2
  <2>6. \A k \in 1 .. 2 : m[f + k - 1] = b[c + 4 + h + k]
    BY <2>5
  <2> QED
    BY <2>1, <2>4, <2>5, <2>6
<1>8. e = c + 6 + h
  <2> HIDE DEF h, o
  <2> QED
    BY <1>4
<1>10. o = 5 => m[4] = 3
  OBVIOUS
<1> HIDE DEF h, o
<1>9. RequestAt(b, c, e, asked, h, o)
  BY <1>1, <1>3, <1>4, <1>5, <1>6, <1>7, <1>8, <1>10 DEF RequestAt
<1> QED
  BY <1>9

\* The messages of a well-formed SOCKS5 client: the second one has a version and a short
\* length or command, whether it is the credentials or the request.
LEMMA Socks5Messages ==
  ASSUME script \in Scripts, WellFormed(script), script.kind = "socks5"
  PROVE  /\ script.login => CredentialsAt(Bytes, Ends(1), Ends(2), script.user, script.pass,
                                          Len(script.user), Len(script.pass))
         /\ \E h, o : RequestAt(Bytes, Ends(RequestNo - 1), Ends(RequestNo), script.asked, h, o)
         /\ Bytes[Ends(1) + 1] \in {1, 5} /\ Bytes[Ends(1) + 2] < 32
         /\ Bytes[Ends(RequestNo - 1) + 2] \in {CmdConnect, CmdBind} => Ends(RequestNo) = Len(Bytes)
         /\ Ends(RequestNo) - Ends(RequestNo - 1) > 258 => Overlong
         /\ script.login /\ Bytes[Ends(1) + 2] >= 30 => Overlong
<1> DEFINE e  == script.ends
           l  == RequestNo
           c  == Ends(l - 1)
           d  == Ends(l)
           e1 == Ends(1)
           e2 == Ends(2)
           mr == Part(script, l)
           m2 == Part(script, 2)
<1>0. /\ l \in {2, 3} /\ (script.login <=> l = 3) /\ l <= Len(e) /\ Len(e) \in Nat
      /\ c \in Nat /\ d \in Nat /\ c < d /\ d <= Len(Bytes) /\ Len(Bytes) \in Nat
      /\ e1 \in Nat /\ e2 \in Nat /\ e1 < e2
      /\ \A k \in 1 .. Len(Bytes) : Bytes[k] \in 0 .. 255
      /\ UpTo(1) = e1 /\ UpTo(2) = e2 /\ UpTo(l) = d /\ UpTo(l - 1) = c
      /\ Bytes[c + 1] = 5 /\ Bytes[c + 2] < 32
  <2>1. l <= Len(e) /\ Len(e) \in Nat
    BY ScriptAssumption DEF WellFormed, Socks5Formed, RequestNo
  <2>2. UpTo(l - 1) = c
    <3>1. l \in {2, 3} /\ (l = 2 => l - 1 = 1) /\ (l = 3 => l - 1 = 2)
      BY DEF RequestNo
    <3> QED
      BY <3>1, Socks5Ends
  <2> QED
    BY <2>1, <2>2, Socks5Ends
<1>1. /\ RequestFormed(mr, script.asked)
      /\ script.login => CredentialsFormed(m2, script.user, script.pass)
      /\ mr[2] \in {CmdConnect, CmdBind} => d = Len(Bytes)
  BY DEF WellFormed, Socks5Formed, RequestNo, Ends, Bytes
<1>2. mr = [i \in 1 .. d - c |-> Bytes[c + i]]
  <2>1. l \in 1 .. Len(e) /\ l # 1
    BY <1>0
  <2>2. LET from == IF l = 1 THEN 0 ELSE e[l - 1]
            to   == e[l]
        IN  Part(script, l) = [i \in 1 .. to - from |-> script.bytes[from + i]]
    <3> HIDE DEF l
    <3> QED
      BY <2>1, PartIs
  <2> HIDE DEF l
  <2> QED
    BY <2>1, <2>2 DEF Bytes, Ends
<1>3. m2 = [i \in 1 .. e2 - e1 |-> Bytes[e1 + i]]
  <2>1. 2 \in 1 .. Len(e)
    BY <1>0
  <2>2. LET from == IF 2 = 1 THEN 0 ELSE e[2 - 1]
            to   == e[2]
        IN  Part(script, 2) = [i \in 1 .. to - from |-> script.bytes[from + i]]
    BY <2>1, PartIs
  <2> QED
    BY <2>2 DEF Bytes, Ends
<1>4. Message(l) = mr
  BY <1>0 DEF Message, Part, Ends, Bytes
<1>5. Message(2) = m2
  <2>1. 2 - 1 = 1 /\ UpTo(2 - 1) = script.ends[2 - 1]
    BY <1>0 DEF Ends
  <2> QED
    BY <1>0, <2>1 DEF Message, Part, Ends, Bytes
<1>6. l = 3 => c = e2
  OBVIOUS
<1>7. l = 2 => c = e1
  OBVIOUS
<1>8. RequestMessage = mr
  BY <1>4 DEF RequestMessage, RequestNo
<1> DEFINE B == Bytes
           u == script.user
           p == script.pass
<1> HIDE DEF e, l, c, d, e1, e2, mr, m2, B, u, p
<1>9. script.login => CredentialsAt(B, e1, e2, u, p, Len(u), Len(p))
  BY <1>0, <1>1, <1>3, CredentialBytes DEF B, u, p
<1>10. \E h, o : RequestAt(B, c, d, script.asked, h, o)
  <2>1. \A i \in 1 .. d : B[i] \in Nat
    <3>1. d <= Len(B) /\ d \in Nat /\ Len(B) \in Nat /\ \A i \in 1 .. Len(B) : B[i] \in 0 .. 255
      BY <1>0 DEF B
    <3> TAKE i \in 1 .. d
    <3>2. i \in 1 .. Len(B)
      BY ONLY <3>1, i \in 1 .. d
    <3>3. B[i] \in 0 .. 255
      BY ONLY <3>1, <3>2, Zenon
    <3> QED
      BY ONLY <3>3
  <2> QED
    BY <1>0, <1>1, <1>2, <2>1, RequestBytes DEF B
<1>11. /\ Len(mr) = d - c /\ mr[2] = B[c + 2]
  <2>1. d - c > 5
    <3>1. Len(mr) > 5
      BY <1>1 DEF RequestFormed
    <3> QED
      BY <1>0, <1>2, <3>1
  <2> QED
    BY <1>0, <1>2, <2>1 DEF B
<1>12. B[e1 + 1] \in {1, 5} /\ B[e1 + 2] < 32
  <2>1. CASE script.login
    <3>1. B[e1 + 1] = 1 /\ B[e1 + 2] \in 1 .. 31
      BY <1>9, <2>1 DEF CredentialsAt
    <3> QED
      BY ONLY <3>1
  <2>2. CASE ~script.login
    BY <1>0, <1>7, <2>2 DEF B
  <2> QED
    BY <2>1, <2>2
<1>13. script.login => m2[2] = B[e1 + 2]
  <2> HAVE script.login
  <2>1. e2 - e1 > 2
    <3> DEFINE x == Len(u)
               y == Len(p)
    <3>1. e2 = e1 + 3 + x + y /\ x \in Nat /\ y \in Nat
      BY <1>9 DEF CredentialsAt
    <3> HIDE DEF x, y
    <3> QED
      BY ONLY <1>0, <3>1
  <2> QED
    BY <1>0, <1>3, <2>1 DEF B
<1>14. /\ d - c > 258 => Overlong
       /\ script.login /\ B[e1 + 2] >= 30 => Overlong
  BY <1>5, <1>8, <1>11, <1>13 DEF Overlong
<1>15. B[c + 2] \in {CmdConnect, CmdBind} => d = Len(B)
  BY <1>1, <1>11 DEF B
<1> QED
  BY <1>9, <1>10, <1>12, <1>14, <1>15 DEF B, c, d, e1, e2, l, u, p

-----------------------------------------------------------------------------
(* Steps in general *)

\* What depends on the script alone does not change.
LEMMA Fixed ==
  ASSUME UNCHANGED script
  PROVE  /\ Bytes' = Bytes /\ RequestNo' = RequestNo /\ Waits' = Waits /\ OneMessage' = OneMessage
         /\ Ends(1)' = Ends(1) /\ Ends(2)' = Ends(2) /\ Overlong' = Overlong
         /\ Targetless' = Targetless
         /\ Ends(RequestNo)' = Ends(RequestNo) /\ Ends(RequestNo - 1)' = Ends(RequestNo - 1)
BY DEF Bytes, RequestNo, Waits, OneMessage, Ends, Overlong, Message, UpTo, RequestMessage,
       Targetless, Web

\* What was taken stays taken.
LEMMA TakenStays ==
  ASSUME TakenAsGiven, UNCHANGED <<script, whole, verified>>,
         stage' # "queued" \/ UNCHANGED <<stage, ctx, base, n>>
  PROVE  TakenAsGiven'
<1>1. VerifiedAsGiven'
  BY DEF TakenAsGiven, VerifiedAsGiven, ReadInOne, Bytes
<1>2. CASE stage' # "queued"
  BY <1>1, <1>2 DEF TakenAsGiven, QueuedAsAsked
<1>3. CASE UNCHANGED <<stage, ctx, base, n>>
  <2>1. QueuedAsAsked'
    BY <1>3 DEF TakenAsGiven, QueuedAsAsked, ReadInOne, Bytes, Web
  <2> QED
    BY <1>1, <2>1 DEF TakenAsGiven
<1> QED
  BY <1>2, <1>3

\* One Read: of a client whose messages come in one piece it takes all there is, or all
\* that fits.
LEMMA ReadMore ==
  ASSUME MixedInv, Read, n <= want.cap
  PROVE  /\ n' \in Nat /\ n < n' /\ n' <= want.cap /\ base + n' <= sent
         /\ whole => n' = want.cap \/ base + n' = sent
<1> DEFINE a == want.cap - n
           b == sent - (base + n)
           m == Min({a, b})
<1>1. /\ base \in Nat /\ n \in Nat /\ base + n <= sent /\ sent \in Nat
      /\ want.cap \in Nat /\ n <= want.cap
  BY ScriptAssumption DEF MixedInv, MixedTypeOK, PlaceInv, Bytes
<1>2. a \in Int /\ b \in Int /\ 0 <= a /\ 0 <= b
  BY <1>1
<1>3. n' \in IF whole THEN {n + m} \ {n} ELSE n + 1 .. n + m
  BY DEF Read
<1> DEFINE c == want.cap
<1>4. n + a = c /\ base + (n + b) = sent /\ c \in Nat
  BY <1>1
<1> HIDE DEF a, b, c
<1>5. m = IF a <= b THEN a ELSE b
  BY <1>2, MinMaxTwo
<1> HIDE DEF m
<1>6. n' \in Nat /\ n < n' /\ n' <= n + m /\ (whole => n' = n + m)
  BY <1>1, <1>2, <1>3, <1>5
<1>7. n' <= c /\ base + n' <= sent /\ (whole => n' = c \/ base + n' = sent)
  <2> DEFINE x == n'
  <2>1. /\ m \in Int /\ m <= a /\ m <= b /\ (m = a \/ m = b) /\ x \in Nat /\ x <= n + m
        /\ whole => x = n + m
    BY <1>2, <1>5, <1>6
  <2> HIDE DEF x
  <2>2. x <= n + a /\ base + x <= base + (n + b) /\ (whole => x = n + a \/ base + x = base + (n + b))
    BY ONLY <1>1, <1>2, <2>1
  <2> QED
    BY <1>4, <2>2 DEF x
<1> QED
  BY <1>6, <1>7 DEF c

-----------------------------------------------------------------------------
(* A SOCKS5 client that waits for the answers *)

\* A well-formed one, in a state of the invariant.
Waiting ==
  /\ MixedInv /\ Waits /\ WaitsInv
  /\ WellFormed(script) /\ Named(conf.users)

\* The state, and the ends of the client's messages.
LEMMA WaitingFacts ==
  ASSUME Waiting
  PROVE  /\ script \in Scripts /\ script.kind = "socks5" /\ script.patient
         /\ base \in Nat /\ n \in Nat /\ sent \in Nat /\ base + n <= sent
         /\ want \in [min : Nat, cap : Nat] /\ want.min \in Nat /\ want.cap \in Nat
         /\ whole \in BOOLEAN /\ gone \in BOOLEAN
         /\ RequestNo \in {2, 3} /\ (script.login <=> RequestNo = 3)
         /\ (RequestNo = 2 => Ends(RequestNo) = Ends(2) /\ Ends(RequestNo - 1) = Ends(1))
         /\ (RequestNo = 3 => Ends(RequestNo - 1) = Ends(2))
         /\ Ends(1) \in Nat /\ Ends(2) \in Nat /\ Ends(RequestNo) \in Nat /\ Ends(RequestNo - 1) \in Nat
         /\ 3 <= Ends(1) /\ Ends(1) <= 257 /\ Ends(1) < Ends(2) /\ Ends(2) <= Ends(RequestNo)
         /\ Ends(1) <= Ends(RequestNo - 1) /\ Ends(RequestNo - 1) < Ends(RequestNo)
<1>1. /\ script \in Scripts /\ script.kind = "socks5" /\ script.patient
      /\ base \in Nat /\ n \in Nat /\ base + n <= sent /\ sent \in 0 .. Len(Bytes)
      /\ want \in [min : Nat, cap : Nat] /\ whole \in BOOLEAN /\ gone \in BOOLEAN
      /\ WellFormed(script)
  BY DEF Waiting, MixedInv, MixedTypeOK, PlaceInv, Waits
<1>2. Len(Bytes) \in Nat
  BY <1>1, Socks5Ends
<1>3. sent \in Nat /\ want.min \in Nat /\ want.cap \in Nat
  BY <1>1, <1>2
<1>4. /\ (RequestNo = 2 => Ends(RequestNo) = Ends(2) /\ Ends(RequestNo - 1) = Ends(1))
      /\ (RequestNo = 3 => Ends(RequestNo - 1) = Ends(2))
  OBVIOUS
<1> QED
  BY <1>1, <1>3, <1>4, Socks5Ends

\* The client sends its next message, or goes.
LEMMA ClientWaits ==
  ASSUME Waiting, MixedInv', ClientSend \/ ClientClose
  PROVE  WaitsInv'
<1> DEFINE e1 == Ends(1)
           e2 == Ends(2)
           c  == Ends(RequestNo - 1)
           d  == Ends(RequestNo)
           r  == Len(replies)
<1>1. /\ UNCHANGED <<conf, script, whole, stage, base, n, want, replies>>
      /\ gone' \in BOOLEAN
      /\ \/ ~gone /\ gone' = FALSE /\ sent < UpTo(r + 1) /\ sent' = UpTo(r + 1)
         \/ ~gone /\ gone' = TRUE /\ sent' = sent
         \/ ~gone /\ gone' = TRUE /\ sent' = 0 /\ stage \in {"accepted", "peek"}
         \/ ~gone /\ gone' = TRUE /\ sent' = Max({base + n, 1}) /\ stage \notin {"accepted", "peek"} \cup Ended
  BY WaitingFacts DEF ClientSend, ClientClose
<1>2. Max({base + n, 1}) = IF base + n >= 1 THEN base + n ELSE 1
  <2> DEFINE x == base + n
  <2>1. x \in Int
    BY WaitingFacts
  <2> HIDE DEF x
  <2>2. Max({x, 1}) = IF x >= 1 THEN x ELSE 1
    BY <2>1, MinMaxTwo
  <2> QED
    BY <2>2 DEF x
<1>3. /\ Bytes' = Bytes /\ RequestNo' = RequestNo /\ Ends(1)' = e1 /\ Ends(2)' = e2
      /\ Ends(RequestNo)' = d /\ Ends(RequestNo - 1)' = c
  BY <1>1, Fixed
<1>4. UpTo(1) = e1 /\ UpTo(2) = e2 /\ UpTo(RequestNo) = d
  BY WaitingFacts, Socks5Ends DEF Waiting
<1>5. base \in Nat /\ n \in Nat /\ sent \in Nat /\ base + n <= sent /\ sent' \in Nat /\ base + n <= sent'
  <2>1. base' + n' <= sent' /\ sent' \in 0 .. Len(Bytes)' /\ Len(Bytes) \in Nat
    BY Socks5Ends, WaitingFacts DEF MixedInv, MixedTypeOK, Waiting
  <2> QED
    BY <1>1, <2>1, WaitingFacts
<1>6. ASSUME stage \in Opening
      PROVE  OpeningInv'
  <2>0. OpeningInv
    BY <1>6 DEF Waiting, WaitsInv
  <2>1. /\ replies = << >> /\ base = 0 /\ sent <= e1 /\ want.min <= want.cap
        /\ stage = "greeting" => want = [min |-> 1, cap |-> 4096]
        /\ stage = "methods" => \/ n = e1 \/ want.min > e1
                                \/ want = [min |-> 3, cap |-> 3] /\ n <= 3
        /\ whole => /\ sent \in {0, e1} \/ (gone /\ sent <= 1)
                    /\ stage = "greeting" => n \in {0, sent}
                    /\ stage = "methods" => n = e1 \/ (gone /\ sent = 1 /\ want.min = 3)
    BY <2>0 DEF OpeningInv
  <2>2. r + 1 = 1
    BY <2>1
  <2>3. \/ ~gone /\ sent < e1 /\ sent' = e1
        \/ ~gone /\ gone' = TRUE /\ sent' = sent
        \/ ~gone /\ gone' = TRUE /\ sent' = 0 /\ n = 0
        \/ ~gone /\ gone' = TRUE /\ sent' = (IF n >= 1 THEN n ELSE 1) /\ sent > 0
           /\ stage \in {"greeting", "methods"}
    <3>1. stage \in {"accepted", "peek"} => n = 0
      BY DEF Waiting, MixedInv, PlaceInv
    <3>2. stage \notin {"accepted", "peek"} \cup Ended =>
            (sent > 0 /\ stage \in {"greeting", "methods"}) \/ stage = "new"
      BY <1>6 DEF Waiting, MixedInv, PlaceInv, Opening, Ended, Begun, Greetings
    <3>3. ClientClose => stage # "new"
      BY DEF ClientClose
    <3>4. gone' = TRUE /\ ~gone => ClientClose
      BY DEF ClientSend
    <3> HIDE DEF r, e1
    <3> QED
      BY <1>1, <1>2, <1>4, <1>5, <2>1, <2>2, <3>1, <3>2, <3>3, <3>4
  <2>4. e1 \in Nat /\ 3 <= e1
    BY WaitingFacts
  <2> HIDE DEF e1
  <2>5. sent' <= e1
    BY <1>5, <2>1, <2>3, <2>4
  <2>6. whole => sent' \in {0, e1} \/ (gone' /\ sent' <= 1)
    BY <1>5, <2>1, <2>3, <2>4
  <2>7. whole /\ stage = "greeting" => n \in {0, sent'}
    BY <1>5, <2>1, <2>3, <2>4
  <2>8. whole /\ stage = "methods" => n = e1 \/ (gone' /\ sent' = 1 /\ want.min = 3)
    BY <1>5, <2>1, <2>3, <2>4
  <2> QED
    BY <1>1, <1>3, <2>1, <2>5, <2>6, <2>7, <2>8 DEF OpeningInv
<1>7. ASSUME stage \in Asking
      PROVE  AskingInv'
  <2>0. AskingInv
    BY <1>7 DEF Waiting, WaitsInv
  <2> DEFINE size == Bytes[base + 2]
             full == 3 + size + Len(script.pass)
             low  == Min({32, e2 - e1})
  <2>1. /\ r = 1 /\ sent <= e2 /\ (base = e1 \/ (base = 3 /\ 3 < e1))
        /\ whole => /\ base = e1
                    /\ \/ n = 0 /\ sent \in {e1, e2}
                       \/ n = low
    BY <2>0 DEF AskingInv
  <2>2. e1 \in Nat /\ e2 \in Nat /\ 3 <= e1 /\ e1 < e2
    BY WaitingFacts
  <2>3. r + 1 = 2 => UpTo(r + 1) = e2
    BY <1>4
  <2>4. stage \notin {"accepted", "peek"}
    BY <1>7 DEF Asking
  <2> HIDE DEF e1, e2, low, r
  <2>5. sent' = e2 \/ sent' = sent \/ sent' = base + n
    BY <1>1, <1>2, <1>5, <2>1, <2>2, <2>3, <2>4
  <2>6. sent' <= e2 /\ (whole => (n = 0 /\ sent' \in {e1, e2}) \/ n = low)
    BY <1>5, <2>1, <2>2, <2>5
  <2>7. size' = size /\ full' = full /\ low' = low
    BY <1>1, <1>3 DEF low, e1, e2
  <2> QED
    BY <1>1, <1>3, <2>0, <2>1, <2>6, <2>7 DEF AskingInv, low, e1, e2
<1>8. ASSUME stage \in {"request", "address"}
      PROVE  RequestInv'
  <2>0. RequestInv
    BY <1>8 DEF Waiting, WaitsInv
  <2>1. r \in 1 .. RequestNo - 1 /\ sent <= d /\ (base = c \/ base < c)
    BY <2>0 DEF RequestInv
  <2>2. RequestNo \in {2, 3} /\ d \in Nat /\ c \in Nat /\ 1 <= d /\ e2 \in Nat /\ e2 <= d
    BY WaitingFacts
  <2>3. UpTo(r + 1) \in {e2, d}
    <3>1. r + 1 = 2 \/ r + 1 = RequestNo
      <4> HIDE DEF r
      <4> QED
        BY <2>1, <2>2
    <3> QED
      BY <1>4, <3>1
  <2> HIDE DEF d, c, r, e2
  <2>4. sent' = d \/ sent' = e2 \/ sent' = sent \/ sent' = base + n \/ sent' = 1
    BY <1>1, <1>2, <1>5, <1>8, <2>1, <2>2, <2>3
  <2>5. sent' <= d
    BY <1>5, <2>1, <2>2, <2>4
  <2> QED
    BY <1>1, <1>3, <2>0, <2>5 DEF RequestInv, c, d
<1> QED
  BY <1>1, <1>6, <1>7, <1>8 DEF WaitsInv

\* A read returns.
LEMMA ReadWaits ==
  ASSUME Waiting, Read
  PROVE  WaitsInv'
<1> DEFINE e1 == Ends(1)
           e2 == Ends(2)
<1>1. /\ UNCHANGED <<conf, script, whole, gone, sent, stage, base, want, replies>>
      /\ stage \notin Ended /\ n < want.min
  BY DEF Read
<1>2. /\ Bytes' = Bytes /\ RequestNo' = RequestNo /\ Ends(1)' = e1 /\ Ends(2)' = e2
      /\ Ends(RequestNo)' = Ends(RequestNo) /\ Ends(RequestNo - 1)' = Ends(RequestNo - 1)
  BY <1>1, Fixed
<1>3. /\ base \in Nat /\ n \in Nat /\ sent \in Nat /\ base + n <= sent /\ want.min \in Nat /\ want.cap \in Nat
      /\ e1 \in Nat /\ e2 \in Nat /\ 3 <= e1 /\ e1 <= 257 /\ e1 < e2
  BY WaitingFacts
<1>4. ASSUME n <= want.cap
      PROVE  /\ n' \in Nat /\ n < n' /\ n' <= want.cap /\ base + n' <= sent
             /\ whole => n' = want.cap \/ base + n' = sent
  BY <1>4, ReadMore DEF Waiting
<1>5. ASSUME stage \in Opening
      PROVE  OpeningInv'
  <2>0. OpeningInv
    BY <1>5 DEF Waiting, WaitsInv
  <2>1. /\ replies = << >> /\ base = 0 /\ sent <= e1 /\ want.min <= want.cap
        /\ stage = "greeting" => want.min = 1 /\ want.cap = 4096
        /\ stage = "methods" => \/ n = e1 \/ want.min > e1
                                \/ want.min = 3 /\ want.cap = 3 /\ n <= 3
        /\ whole => /\ sent \in {0, e1} \/ (gone /\ sent <= 1)
                    /\ stage = "methods" => n = e1 \/ (gone /\ sent = 1 /\ want.min = 3)
    BY <2>0 DEF OpeningInv
  <2> DEFINE x == want.cap
             y == want.min
             m == n'
  <2>2. /\ m \in Nat /\ n < m /\ m <= x /\ m <= sent /\ x \in Nat /\ y \in Nat /\ n \in Nat
        /\ sent \in Nat /\ e1 \in Nat /\ 3 <= e1 /\ e1 <= 257
        /\ whole => m = x \/ m = sent
    BY <1>1, <1>3, <1>4, <2>1
  <2>3. stage = "greeting" /\ whole => m \in {0, sent}
    <3> HAVE stage = "greeting" /\ whole
    <3>1. x = 4096 /\ sent <= e1 /\ (m = x \/ m = sent)
      BY <2>1, <2>2
    <3> HIDE DEF x, y, m, e1
    <3> QED
      BY ONLY <2>2, <3>1
  <2>4. stage = "methods" => \/ m = e1 \/ y > e1
                             \/ y = 3 /\ x = 3 /\ m <= 3
    <3> HAVE stage = "methods"
    <3>1. sent <= e1 /\ (n = e1 \/ y > e1 \/ (y = 3 /\ x = 3 /\ n <= 3))
      BY <2>1
    <3> HIDE DEF x, y, m, e1
    <3> QED
      BY ONLY <2>2, <3>1
  <2>5. stage = "methods" /\ whole => m = e1 \/ (gone /\ sent = 1 /\ want.min = 3)
    <3> HAVE stage = "methods" /\ whole
    <3>1. sent <= e1 /\ (n = e1 \/ (gone /\ sent = 1 /\ want.min = 3))
      BY <2>1
    <3> HIDE DEF x, y, m, e1
    <3> QED
      BY <2>2, <3>1
  <2>6. want.min = 3 /\ want.cap = 3 => want = [min |-> 3, cap |-> 3]
    BY WaitingFacts
  <2> QED
    BY <1>1, <1>2, <2>0, <2>1, <2>3, <2>4, <2>5, <2>6 DEF OpeningInv
<1>6. ASSUME stage \in Asking
      PROVE  AskingInv'
  <2>0. AskingInv
    BY <1>6 DEF Waiting, WaitsInv
  <2> DEFINE size == Bytes[base + 2]
             full == 3 + size + Len(script.pass)
             low  == Min({32, e2 - e1})
  <2>1. /\ sent <= e2 /\ want.cap = 32 /\ n <= 32
        /\ whole => /\ base = e1
                    /\ \/ n = 0 /\ sent \in {e1, e2}
                       \/ n = low
    BY <2>0 DEF AskingInv
  <2>2. low = IF 32 <= e2 - e1 THEN 32 ELSE e2 - e1
    <3> DEFINE x == e2 - e1
    <3>1. x \in Int
      BY <1>3
    <3> HIDE DEF x
    <3>2. Min({32, x}) = IF 32 <= x THEN 32 ELSE x
      BY <3>1, MinMaxTwo
    <3> QED
      BY <3>2 DEF x, low
  <2> HIDE DEF e1, e2, low
  <2>3. /\ n' \in Nat /\ n < n' /\ n' <= 32 /\ base + n' <= sent
        /\ whole => n' = 32 \/ base + n' = sent
    BY <1>3, <1>4, <2>1
  <2>4. whole => n' = low
    <3> DEFINE m == n'
    <3> SUFFICES ASSUME whole PROVE m = low
      OBVIOUS
    <3>1. /\ base = e1 /\ sent <= e2 /\ ((n = 0 /\ sent \in {e1, e2}) \/ n = low)
          /\ m \in Nat /\ n < m /\ m <= 32 /\ base + m <= sent /\ (m = 32 \/ base + m = sent)
      BY <2>1, <2>3
    <3> HIDE DEF m
    <3> QED
      BY ONLY <1>3, <2>2, <3>1
  <2>5. size' = size /\ full' = full /\ low' = low
    BY <1>1, <1>2 DEF low, e1, e2
  <2>6. size \in Nat => (n >= 2 + size => n' >= 2 + size)
    <3> HIDE DEF size
    <3> QED
      BY <1>3, <2>3
  <2>7. n >= 2 => n' >= 2
    BY <1>3, <2>3
  <2>8. stage = "password" => size \in Nat
    <3> HAVE stage = "password"
    <3>1. base + 2 \in 1 .. Len(Bytes) /\ \A k \in 1 .. Len(Bytes) : Bytes[k] \in 0 .. 255
      <4>1. n >= 2 /\ sent \in 0 .. Len(Bytes) /\ Len(Bytes) \in Nat
        BY <2>0, Socks5Ends DEF AskingInv, Waiting, Waits, MixedInv, MixedTypeOK, PlaceInv
      <4>2. \A k \in 1 .. Len(Bytes) : Bytes[k] \in 0 .. 255
        BY Socks5Ends DEF Waiting, Waits, MixedInv, PlaceInv
      <4> QED
        BY <1>3, <4>1, <4>2
    <3>2. size \in 0 .. 255
      BY ONLY <3>1, Zenon
    <3> QED
      BY ONLY <3>2
  <2> QED
    BY <1>1, <1>2, <2>0, <2>1, <2>3, <2>4, <2>5, <2>6, <2>7, <2>8 DEF AskingInv, low, e1, e2
<1>7. ASSUME stage \in {"request", "address"}
      PROVE  RequestInv'
  <2>0. RequestInv
    BY <1>7 DEF Waiting, WaitsInv
  <2>1. n' \in Nat /\ n < n'
    <3>1. want.min <= want.cap
      BY <2>0 DEF RequestInv
    <3> QED
      BY <1>1, <1>3, <1>4, <3>1
  <2>2. n >= 10 => n' >= 10
    BY <1>3, <2>1
  <2> QED
    BY <1>1, <1>2, <2>0, <2>2 DEF RequestInv
<1> QED
  BY <1>1, <1>5, <1>6, <1>7 DEF WaitsInv

\* The accept loop, the choice of the front end and the ends of a connection.
LEMMA FrontWaits ==
  ASSUME Waiting, MixedAccept \/ MixedAdmit \/ MixedPeek \/ MixedPeekErr \/ ReadErr \/ HandleErr
  PROVE  WaitsInv'
<1>1. CASE MixedAccept \/ MixedAdmit
  <2>1. /\ UNCHANGED <<conf, script, whole, sent, gone, base, n, want, replies>>
        /\ stage \in {"new", "accepted"} /\ stage' \in {"accepted", "peek", "denied"}
    BY <1>1 DEF MixedAccept, MixedAdmit
  <2>2. Ends(1)' = Ends(1)
    BY <2>1, Fixed
  <2>3. OpeningInv
    BY <2>1 DEF Waiting, WaitsInv, Opening
  <2>4. OpeningInv'
    BY <2>1, <2>2, <2>3 DEF OpeningInv
  <2> QED
    BY <2>1, <2>4 DEF WaitsInv, Opening, Asking
<1>2. CASE MixedPeek
  <2>1. HeadByte = 5
    BY WaitingFacts, ScriptAssumption DEF HeadByte, Bytes
  <2>2. stage = "peek" /\ Continue("greeting", [min |-> 1, cap |-> 4096])
    BY <1>2, <2>1 DEF MixedPeek
  <2>3. /\ UNCHANGED <<conf, script, whole, sent, gone, base, n, replies>>
        /\ stage' = "greeting" /\ want' = [min |-> 1, cap |-> 4096]
    BY <2>2 DEF Continue
  <2>4. Ends(1)' = Ends(1)
    BY <2>3, Fixed
  <2>5. OpeningInv /\ n = 0
    BY <2>2 DEF Waiting, WaitsInv, Opening, MixedInv, PlaceInv
  <2>6. OpeningInv'
    BY <2>3, <2>4, <2>5 DEF OpeningInv
  <2> QED
    BY <2>3, <2>6 DEF WaitsInv, Opening, Asking
<1>3. CASE MixedPeekErr \/ ReadErr \/ HandleErr
  BY <1>3 DEF MixedPeekErr, ReadErr, HandleErr, GiveUp, WaitsInv, Opening, Asking
<1> QED
  BY <1>1, <1>2, <1>3

\* The greeting: its length is known, or only its first byte is there.
LEMMA GreetingWaits ==
  ASSUME Waiting, Greeting
  PROVE  WaitsInv' /\ UNCHANGED crashed
<1> DEFINE e1 == Ends(1)
           l  == At(1)
<1>1. stage = "greeting" /\ n >= want.min /\ OpeningInv
  BY DEF Waiting, WaitsInv, Greeting, Filled, Opening
<1>2. /\ replies = << >> /\ base = 0 /\ sent <= e1 /\ want = [min |-> 1, cap |-> 4096] /\ n >= 1
      /\ whole => (sent \in {0, e1} \/ (gone /\ sent <= 1)) /\ n \in {0, sent}
  BY <1>1 DEF OpeningInv
<1>3. /\ n \in Nat /\ sent \in Nat /\ n <= sent /\ e1 \in Nat /\ 3 <= e1 /\ e1 <= 257
      /\ Bytes[2] = e1 - 2
  BY <1>2, WaitingFacts, Socks5Ends DEF Waiting
<1>4. l = IF 1 < n THEN e1 - 2 ELSE 0
  BY <1>2, <1>3 DEF At
<1>5. \/ n = l + 2 /\ Continue("methods", want)
      \/ n > l + 3 /\ Crash
      \/ n # l + 2 /\ Continue("methods", [min |-> l + 3, cap |-> l + 3])
  BY DEF Greeting
<1> HIDE DEF e1, l
<1>6. \/ n = e1 /\ want' = want
      \/ 1 < n /\ n < e1 /\ want' = [min |-> e1 + 1, cap |-> e1 + 1]
      \/ n = 1 /\ want' = [min |-> 3, cap |-> 3]
  <2>1. /\ n = l + 2 => n = e1
        /\ ~(n > l + 3)
        /\ n # l + 2 => (1 < n /\ n < e1 /\ l + 3 = e1 + 1) \/ (n = 1 /\ l + 3 = 3)
    BY <1>2, <1>3, <1>4
  <2> QED
    BY <1>5, <2>1 DEF Continue
<1>7. /\ UNCHANGED <<conf, script, whole, sent, gone, base, n, replies, crashed>>
      /\ stage' = "methods"
  <2>1. ~(n > l + 3)
    BY <1>2, <1>3, <1>4
  <2> QED
    BY <1>5, <2>1 DEF Continue
<1>8. Ends(1)' = e1
  BY <1>7, Fixed DEF e1
<1>9. /\ want'.min <= want'.cap
      /\ n = e1 \/ want'.min > e1 \/ (want' = [min |-> 3, cap |-> 3] /\ n <= 3)
  BY <1>2, <1>3, <1>6
<1>10. whole => /\ sent \in {0, e1} \/ (gone /\ sent <= 1)
                /\ n = e1 \/ (gone /\ sent = 1 /\ want'.min = 3)
  <2> SUFFICES ASSUME whole PROVE /\ sent \in {0, e1} \/ (gone /\ sent <= 1)
                                  /\ n = e1 \/ (gone /\ sent = 1 /\ want'.min = 3)
    OBVIOUS
  <2>1. (sent \in {0, e1} \/ (gone /\ sent <= 1)) /\ n = sent
    BY <1>2, <1>3
  <2>2. n = e1 \/ 1 < n \/ (n = 1 /\ want'.min = 3)
    BY <1>6
  <2> QED
    BY <1>2, <1>3, <2>1, <2>2
<1>11. OpeningInv'
  BY <1>2, <1>7, <1>8, <1>9, <1>10 DEF OpeningInv
<1> QED
  BY <1>7, <1>11 DEF WaitsInv, Opening, Asking

\* The methods: the next message begins where the greeting ends, or three bytes after its
\* beginning.
LEMMA MethodsWaits ==
  ASSUME Waiting, Methods
  PROVE  WaitsInv' /\ UNCHANGED crashed
<1> DEFINE e1 == Ends(1)
           c  == Ends(RequestNo - 1)
           d  == Ends(RequestNo)
<1>1. stage = "methods" /\ n >= want.min /\ OpeningInv
  BY DEF Waiting, WaitsInv, Methods, Filled, Opening
<1>2. /\ replies = << >> /\ base = 0 /\ sent <= e1
      /\ n = e1 \/ want.min > e1 \/ (want.min = 3 /\ n <= 3)
      /\ whole => /\ sent \in {0, e1} \/ (gone /\ sent <= 1)
                  /\ n = e1 \/ (sent = 1 /\ want.min = 3)
  BY <1>1 DEF OpeningInv
<1>3. /\ n \in Nat /\ sent \in Nat /\ base + n <= sent /\ want.min \in Nat
      /\ e1 \in Nat /\ 3 <= e1 /\ Ends(2) \in Nat /\ e1 < Ends(2)
      /\ c \in Nat /\ d \in Nat /\ e1 <= c /\ c < d
      /\ \A k \in 3 .. e1 : Bytes[k] \in 0 .. 2
  BY WaitingFacts, Socks5Ends DEF Waiting
<1> DEFINE min == want.min
<1>4. (n = e1 \/ (n = 3 /\ 3 < e1)) /\ (whole => n = e1 /\ sent = e1)
  <2>1. n >= min /\ n <= sent /\ min \in Nat
    BY <1>1, <1>2, <1>3
  <2> HIDE DEF e1, min
  <2>2. n = e1 \/ (n = 3 /\ 3 < e1)
    BY <1>2, <1>3, <2>1 DEF min
  <2>3. whole => n = e1 /\ sent = e1
    BY <1>2, <1>3, <2>1 DEF min
  <2> QED
    BY <2>2, <2>3
<1>5. CASE ~Enable(conf.users)
  <2>1. /\ replies' = Append(replies, "noAuth") /\ UNCHANGED <<clientVars, conn, verified, ctx, crashed>>
        /\ NewBuffer("request", [min |-> 10, cap |-> 258])
    BY <1>5 DEF Methods
  <2>2. /\ UNCHANGED <<conf, script, sent, crashed>> /\ stage' = "request" /\ base' = n /\ n' = 0
        /\ want' = [min |-> 10, cap |-> 258] /\ Len(replies') = 1
    BY <1>2, <1>3, <2>1 DEF NewBuffer
  <2>3. \/ ~script.login /\ RequestNo = 2 /\ c = e1
        \/ script.login /\ RequestNo = 3 /\ c = Ends(2) /\ Bytes[e1 + 1] = 1
    <3>1. script.login => Bytes[e1 + 1] = 1
      BY WaitingFacts, Socks5Messages DEF Waiting, CredentialsAt
    <3> QED
      BY <3>1, WaitingFacts
  <2>4. /\ RequestNo' = RequestNo /\ Bytes' = Bytes /\ Ends(RequestNo)' = d /\ Ends(RequestNo - 1)' = c
    BY <2>2, Fixed
  <2>5. n = c \/ (n < c /\ Bytes[n + 1] # 5)
    <3>1. CASE n = 3 /\ 3 < e1
      <4>1. n + 1 \in 3 .. e1
        BY <1>3, <3>1
      <4>2. Bytes[n + 1] \in 0 .. 2
        BY <1>3, <4>1
      <4> HIDE DEF e1, c
      <4> QED
        BY <1>3, <3>1, <4>2
    <3>2. CASE n = e1
      <4> HIDE DEF e1, c
      <4> QED
        BY <1>3, <2>3, <3>2
    <3> QED
      BY <1>4, <3>1, <3>2
  <2>6. sent <= d
    BY <1>2, <1>3
  <2> HIDE DEF c, d
  <2>7. RequestInv'
    <3>1. Len(replies') \in 1 .. RequestNo - 1
      BY <2>2, <2>3
    <3> QED
      BY <2>2, <2>4, <2>5, <2>6, <3>1 DEF RequestInv
  <2> QED
    BY <2>2, <2>7 DEF WaitsInv, Opening, Asking
<1>6. CASE Enable(conf.users) /\ \E i \in 2 .. n - 1 : At(i) = 2
  <2>1. /\ replies' = Append(replies, "password") /\ UNCHANGED <<clientVars, conn, verified, ctx, crashed>>
        /\ NewBuffer("credentials", [min |-> 2, cap |-> 32])
    BY <1>6 DEF Methods
  <2>2. /\ UNCHANGED <<conf, script, whole, sent, crashed>> /\ stage' = "credentials" /\ base' = n /\ n' = 0
        /\ want' = [min |-> 2, cap |-> 32] /\ Len(replies') = 1
    BY <1>2, <1>3, <2>1 DEF NewBuffer
  <2>3. Bytes' = Bytes /\ Ends(1)' = e1 /\ Ends(2)' = Ends(2)
    BY <2>2, Fixed
  <2>4. sent <= Ends(2)
    BY <1>2, <1>3
  <2> HIDE DEF e1
  <2>5. AskingInv'
    BY <1>4, <2>2, <2>3, <2>4 DEF AskingInv
  <2> QED
    BY <1>6, <2>2, <2>5 DEF WaitsInv, Opening, Asking
<1>7. CASE stage' = "error" /\ UNCHANGED crashed
  BY <1>7 DEF WaitsInv, Opening, Asking
<1> QED
  BY <1>5, <1>6, <1>7 DEF Methods, GiveUp

\* What is read from within a greeting: a short length, and then no letter.
LEMMA Aside ==
  ASSUME Waiting, 3 < Ends(1)
  PROVE  Bytes[5] \in 0 .. 5 /\ Bytes[6] < 32
<1> DEFINE e1 == Ends(1)
<1>1. /\ e1 \in Nat /\ 3 < e1 /\ \A k \in 3 .. e1 : Bytes[k] \in 0 .. 2
      /\ Bytes[e1 + 1] \in {1, 5} /\ Bytes[e1 + 2] < 32
  BY WaitingFacts, Socks5Ends, Socks5Messages DEF Waiting
<1> HIDE DEF e1
<1>2. CASE e1 = 4
  BY <1>1, <1>2
<1>3. CASE e1 = 5
  <2>1. Bytes[5] \in 0 .. 2
    BY <1>1, <1>3
  <2> QED
    BY <1>1, <1>3, <2>1
<1>4. CASE 6 <= e1
  <2>1. Bytes[5] \in 0 .. 2 /\ Bytes[6] \in 0 .. 2
    BY <1>1, <1>4
  <2> QED
    BY <2>1
<1> QED
  BY <1>1, <1>2, <1>3, <1>4

\* The version of the credentials, and the length of the name.
LEMMA CredentialsWaits ==
  ASSUME Waiting, Credentials
  PROVE  WaitsInv' /\ UNCHANGED crashed
<1>1. stage = "credentials" /\ n >= want.min /\ AskingInv
  BY DEF Waiting, WaitsInv, Credentials, Filled, Opening, Asking
<1>2. n >= 2 /\ n \in Nat
  BY <1>1, WaitingFacts DEF AskingInv
<1>3. At(0) = Bytes[base + 1] /\ At(1) = Bytes[base + 2]
  <2>1. 0 < n /\ 1 < n /\ base + 0 + 1 = base + 1 /\ base + 1 + 1 = base + 2
    BY <1>2, WaitingFacts
  <2> QED
    BY <2>1 DEF At
<1>4. CASE At(0) # 1
  BY <1>4 DEF Credentials, GiveUp, WaitsInv, Opening, Asking
<1>5. CASE At(0) = 1
  <2>1. Continue("username", [min |-> 2 + At(1), cap |-> 32])
    BY <1>5 DEF Credentials
  <2>2. /\ UNCHANGED <<conf, script, whole, sent, base, n, replies, crashed>>
        /\ stage' = "username" /\ want' = [min |-> 2 + At(1), cap |-> 32]
    BY <2>1 DEF Continue
  <2>3. Bytes' = Bytes /\ Ends(1)' = Ends(1) /\ Ends(2)' = Ends(2)
    BY <2>2, Fixed
  <2>4. want'.min = 2 + Bytes[base + 2] /\ want'.cap = 32 /\ Bytes[base + 1] = 1
    BY <1>3, <1>5, <2>2
  <2>5. AskingInv'
    BY <1>1, <1>2, <2>2, <2>3, <2>4 DEF AskingInv
  <2> QED
    BY <1>1, <2>2, <2>5 DEF WaitsInv, Opening, Asking
<1> QED
  BY <1>4, <1>5

\* Credentials that begin where the greeting ends are those of a client that has some.
LEMMA Login ==
  ASSUME Waiting, base = Ends(1), Bytes[base + 1] = 1
  PROVE  /\ script.login
         /\ CredentialsAt(Bytes, Ends(1), Ends(2), script.user, script.pass, Len(script.user), Len(script.pass))
<1>1. script.login
  <2> SUFFICES ASSUME ~script.login PROVE FALSE
    OBVIOUS
  <2>1. Ends(RequestNo - 1) = Ends(1) /\ Bytes[Ends(RequestNo - 1) + 1] = 5
    BY WaitingFacts, Socks5Ends DEF Waiting
  <2> QED
    BY <2>1
<1> QED
  BY <1>1, WaitingFacts, Socks5Messages DEF Waiting

\* The name, and the length of the password: a name of thirty bytes fills the buffer.
LEMMA UsernameWaits ==
  ASSUME Waiting, Username
  PROVE  WaitsInv' /\ (crashed' => crashed \/ Overlong)
<1> DEFINE size == Bytes[base + 2]
           e1   == Ends(1)
           e2   == Ends(2)
           u    == Len(script.user)
           p    == Len(script.pass)
           low  == Min({32, e2 - e1})
<1>1. stage = "username" /\ n >= want.min /\ AskingInv
  BY DEF Waiting, WaitsInv, Username, Filled, Opening, Asking
<1>2. /\ n >= 2 /\ n \in Nat /\ n <= 32 /\ want.min = 2 + size /\ want.cap = 32
      /\ Bytes[base + 1] = 1 /\ Len(replies) = 1 /\ sent <= e2
      /\ base = e1 \/ (base = 3 /\ 3 < e1)
      /\ whole => base = e1 /\ (n = 0 \/ n = low)
  BY <1>1, WaitingFacts DEF AskingInv
<1>3. base \in Nat /\ e1 \in Nat /\ e2 \in Nat /\ e1 < e2
  BY WaitingFacts
<1>4. At(1) = size
  <2>1. 1 < n /\ base + 1 + 1 = base + 2
    BY <1>2, <1>3
  <2> QED
    BY <2>1 DEF At
<1>5. size \in 0 .. 255 /\ At(2 + size) \in 0 .. 255
  <2>1. At(1) \in 0 .. 255
    BY ByteAt, WaitingFacts DEF Waiting
  <2>2. size \in Nat
    BY <1>4, <2>1
  <2>3. 2 + size \in Nat
    BY <2>2
  <2>4. \A i \in Nat : At(i) \in 0 .. 255
    BY ByteAt, WaitingFacts DEF Waiting
  <2> HIDE DEF size
  <2> QED
    BY <1>4, <2>1, <2>3, <2>4
<1>6. base = e1 => script.login /\ CredentialsAt(Bytes, e1, e2, script.user, script.pass, u, p) /\ size = u
  <2> HAVE base = e1
  <2>1. script.login /\ CredentialsAt(Bytes, e1, e2, script.user, script.pass, u, p)
    BY <1>2, Login
  <2> QED
    BY <2>1 DEF CredentialsAt
<1>7. base # e1 => size <= 5
  <2> HAVE base # e1
  <2>1. base + 2 = 5 /\ 3 < e1
    BY <1>2
  <2>2. Bytes[5] \in 0 .. 5
    BY <2>1, Aside
  <2> QED
    BY <2>1, <2>2
<1>8. CASE 2 + size = 32
  <2>1. Overlong
    <3>1. size = 30
      <4> HIDE DEF size
      <4> QED
        BY <1>5, <1>8
    <3>2. base = e1
      <4> HIDE DEF size
      <4> QED
        BY <1>7, <3>1
    <3> QED
      BY <1>6, <3>1, <3>2, WaitingFacts, Socks5Messages DEF Waiting
  <2>2. Crash
    BY <1>4, <1>8 DEF Username
  <2>3. UNCHANGED <<conf, script, whole, sent, gone, stage, base, n, want, replies>>
    BY <2>2 DEF Crash
  <2>4. Bytes' = Bytes /\ Ends(1)' = Ends(1) /\ Ends(2)' = Ends(2)
    BY <2>3, Fixed
  <2>5. AskingInv'
    BY <1>1, <2>3, <2>4 DEF AskingInv
  <2> QED
    BY <1>1, <2>1, <2>3, <2>5 DEF WaitsInv, Opening, Asking
<1>9. CASE 2 + size # 32
  <2> DEFINE a == At(2 + size)
             full == 3 + size + p
  <2>1. Continue("password", [min |-> 2 + size + 1 + a, cap |-> 32])
    <3> HIDE DEF size
    <3> QED
      BY <1>4, <1>9 DEF Username
  <2>2. /\ UNCHANGED <<conf, script, whole, sent, base, n, replies, crashed>>
        /\ stage' = "password" /\ want' = [min |-> 2 + size + 1 + a, cap |-> 32]
    BY <2>1 DEF Continue
  <2>3. Bytes' = Bytes /\ Ends(1)' = Ends(1) /\ Ends(2)' = Ends(2)
    BY <2>2, Fixed
  <2>4. base = e1 => a = IF 2 + u < n THEN p ELSE 0
    <3> HAVE base = e1
    <3>1. /\ size = u /\ u \in 1 .. 31 /\ Bytes[e1 + 3 + u] = p
      BY <1>6 DEF CredentialsAt
    <3> HIDE DEF u, p, size
    <3>2. base + (2 + u) + 1 = e1 + 3 + u
      BY <1>3, <3>1
    <3> QED
      BY <3>1, <3>2 DEF At
  <2>5. whole => 2 + u < n /\ base = e1
    <3> HAVE whole
    <3>1. base = e1 /\ n = low
      BY <1>2
    <3>2. size = u /\ u \in 1 .. 31 /\ p \in Nat /\ e2 = e1 + 3 + u + p
      BY <1>6, <3>1 DEF CredentialsAt
    <3>3. low = IF 32 <= e2 - e1 THEN 32 ELSE e2 - e1
      <4> DEFINE x == e2 - e1
      <4>1. x \in Int
        BY <1>3
      <4> HIDE DEF x
      <4>2. Min({32, x}) = IF 32 <= x THEN 32 ELSE x
        BY <4>1, MinMaxTwo
      <4> QED
        BY <4>2 DEF x
    <3> DEFINE min == want.min
    <3>4. n >= min /\ min = 2 + size
      BY <1>1, <1>2
    <3> HIDE DEF low, u, p, size, e1, e2, min
    <3> QED
      BY <1>2, <1>3, <1>9, <3>1, <3>2, <3>3, <3>4
  <2> DEFINE m == 2 + size + 1 + a
  <2>6. /\ m >= 3 + size
        /\ base = e1 => m = full \/ (~whole /\ m = 3 + size)
    <3>0. (base = e1 => size = u /\ u \in 1 .. 31 /\ p \in Nat) /\ a \in 0 .. 255
      BY <1>5, <1>6 DEF CredentialsAt
    <3> HIDE DEF size, a, u, p, e1
    <3>1. m = 3 + size + a
      BY <1>5
    <3>2. base = e1 => a = p \/ (a = 0 /\ ~whole)
      BY <2>4, <2>5
    <3> HIDE DEF m
    <3> QED
      BY <1>5, <3>0, <3>1, <3>2
  <2>7. n >= 2 + size
    <3> DEFINE min == want.min
    <3>1. n >= min /\ min = 2 + size
      BY <1>1, <1>2
    <3> HIDE DEF min
    <3> QED
      BY <3>1
  <2>8. want'.min = m /\ want'.cap = 32
    BY <2>2
  <2> HIDE DEF m, a
  <2>9. size' = size /\ full' = full /\ low' = low
    BY <2>2, <2>3
  <2>10. AskingInv'
    BY <1>1, <1>2, <2>2, <2>3, <2>6, <2>7, <2>8, <2>9 DEF AskingInv
  <2> QED
    BY <1>1, <2>2, <2>10 DEF WaitsInv, Opening, Asking
<1> QED
  BY <1>8, <1>9

\* The name of a user who passes is one of the configuration.
LEMMA VerifiedName ==
  ASSUME NEW users, NEW name, NEW pass, NEW addr, Named(users), Verify(users, name, pass, addr)
  PROVE  name # << >> /\ Printable(name)
<1>1. Enable(users) /\ \E i \in DOMAIN users : users[i].name = name
  BY DEF Verify
<1> QED
  BY <1>1 DEF Named

\* The password: who passes has given these credentials, and nothing of the request is in
\* the buffer.
LEMMA PasswordWaits ==
  ASSUME Waiting, Password, TakenAsGiven, MixedInv'
  PROVE  WaitsInv' /\ TakenAsGiven' /\ UNCHANGED crashed
<1> DEFINE size == Bytes[base + 2]
           e1   == Ends(1)
           e2   == Ends(2)
           u    == Len(script.user)
           p    == Len(script.pass)
           min  == want.min
           user == Slice(2, 2 + At(1))
           pass == Slice(2 + At(1) + 1, want.min)
<1>1. stage = "password" /\ n >= min /\ AskingInv
  BY DEF Waiting, WaitsInv, Password, Filled, Opening, Asking
<1>2. /\ n >= 2 /\ n \in Nat /\ n <= 32 /\ min \in Nat /\ sent <= e2 /\ Len(replies) = 1
      /\ Bytes[base + 1] = 1
      /\ base = e1 \/ (base = 3 /\ 3 < e1)
      /\ min >= 3 + size
      /\ base = e1 => min = 3 + size + p \/ (~whole /\ min = 3 + size)
  BY <1>1, WaitingFacts DEF AskingInv
<1>3. base \in Nat /\ e1 \in Nat /\ e2 \in Nat /\ e1 < e2 /\ sent \in Nat /\ base + n <= sent
  BY WaitingFacts
<1>4. At(1) = size /\ size \in 0 .. 255
  <2>1. 1 < n /\ base + 1 + 1 = base + 2
    BY <1>2, <1>3
  <2>2. At(1) \in 0 .. 255
    BY ByteAt, WaitingFacts DEF Waiting
  <2> QED
    BY <2>1, <2>2 DEF At
<1>5. user = [k \in 1 .. size |-> Bytes[base + 2 + k]]
  <2> DEFINE s == size
  <2>0. s \in Nat /\ 3 + s <= min /\ user = Slice(2, 2 + s)
    <3>1. user = Slice(2, 2 + s)
      BY <1>4
    <3> HIDE DEF size, user, min, e1, e2, u, p
    <3>2. size \in Nat /\ 3 + size <= min
      BY <1>2, <1>4
    <3> QED
      BY <3>1, <3>2
  <2> HIDE DEF s, user, min
  <2>1. \A k \in 1 .. s : /\ 2 + k - 1 < n /\ base + (2 + k - 1) + 1 = base + 2 + k
    BY <1>1, <1>2, <1>3, <2>0
  <2>2. \A k \in 1 .. s : At(2 + k - 1) = Bytes[base + 2 + k]
    BY <2>1 DEF At
  <2>3. (2 + s) - 2 = s
    BY <2>0
  <2>4. user = [k \in 1 .. s |-> Bytes[base + 2 + k]]
    BY <2>0, <2>2, <2>3 DEF Slice
  <2> QED
    BY <2>4 DEF s
<1>6. CASE ~Verify(conf.users, user, pass, script.addr)
  <2>1. GiveUp
    BY <1>6 DEF Password
  <2>2. TakenAsGiven'
    BY <2>1, TakenStays DEF GiveUp
  <2> QED
    BY <2>1, <2>2 DEF GiveUp, WaitsInv, Opening, Asking
<1>7. CASE Verify(conf.users, user, pass, script.addr)
  <2>1. /\ verified' = {[name |-> user, pass |-> pass]} /\ replies' = Append(replies, "accepted")
        /\ NewBuffer("request", [min |-> 10, cap |-> 258])
        /\ UNCHANGED <<clientVars, conn, ctx, crashed>>
    BY <1>7 DEF Password
  <2>2. user # << >> /\ Printable(user)
    BY <1>1, <1>7, VerifiedName DEF Waiting
  <2>3. base = e1
    <3> SUFFICES ASSUME base # e1 PROVE FALSE
      OBVIOUS
    <3>1. base = 3 /\ 3 < e1
      BY <1>2
    <3>2. Bytes[6] < 32 /\ Bytes[6] \in Int
      <4>1. Bytes[6] < 32
        BY <3>1, Aside
      <4>2. 6 \in 1 .. Len(Bytes) /\ \A k \in 1 .. Len(Bytes) : Bytes[k] \in 0 .. 255
        <5>1. /\ Len(Bytes) \in Nat /\ \A k \in 1 .. Len(Bytes) : Bytes[k] \in 0 .. 255
              /\ sent <= Len(Bytes)
          BY WaitingFacts, Socks5Ends DEF Waiting, MixedInv, MixedTypeOK
        <5> HIDE DEF min, size
        <5>2. n >= 3
          BY <1>1, <1>2, <1>4
        <5> QED
          BY <1>2, <1>3, <3>1, <5>1, <5>2
      <4>3. Bytes[6] \in 0 .. 255
        BY ONLY <4>2, Zenon
      <4> QED
        BY <4>1, <4>3
    <3>3. CASE size = 0
      <4>1. user = << >>
        <5>1. user = [k \in 1 .. 0 |-> Bytes[base + 2 + k]]
          <6> HIDE DEF user, size
          <6> QED
            BY <1>5, <3>3
        <5> HIDE DEF user
        <5> QED
          BY <5>1
      <4> QED
        BY <2>2, <4>1
    <3>4. CASE size # 0
      <4> HIDE DEF size
      <4>1. 1 \in 1 .. size
        BY <1>4, <3>4
      <4> DEFINE w == user
      <4>2. w = [k \in 1 .. size |-> Bytes[base + 2 + k]] /\ Printable(w)
        BY <1>5, <2>2
      <4> HIDE DEF w, user
      <4>3. 1 \in DOMAIN w /\ w[1] = Bytes[base + 2 + 1]
        BY <4>1, <4>2
      <4>4. w[1] >= 32
        BY <4>2, <4>3 DEF Printable
      <4>5. base + 2 + 1 = 6
        BY <3>1
      <4> QED
        BY <3>2, <4>3, <4>4, <4>5
    <3> QED
      BY <3>3, <3>4
  <2>4. script.login /\ CredentialsAt(Bytes, e1, e2, script.user, script.pass, u, p)
    BY <1>2, <2>3, Login
  <2>5. /\ size = u /\ u \in 1 .. 31 /\ p \in Nat /\ e2 = e1 + 3 + u + p
        /\ script.user = [i \in 1 .. u |-> Bytes[e1 + 2 + i]]
        /\ script.pass = [i \in 1 .. p |-> Bytes[e1 + 3 + u + i]]
        /\ \A i \in 1 .. p : Bytes[e1 + 3 + u + i] >= 32
    BY <2>3, <2>4 DEF CredentialsAt
  <2>6. user = script.user
    <3> HIDE DEF user, size, u, e1
    <3> QED
      BY <1>5, <2>3, <2>5
  <2>7. pass = script.pass \/ (~whole /\ pass = << >>)
    <3> DEFINE q == 3 + u
    <3>0. q \in Nat /\ pass = Slice(q, min) /\ q <= n /\ (min = q + p \/ (~whole /\ min = q))
          /\ e1 + 3 + u = e1 + q /\ min <= n
      <4>1. pass = Slice(2 + size + 1, min)
        BY <1>4
      <4> HIDE DEF pass, size, u, p, min, e1
      <4>2. 2 + size + 1 = q /\ q \in Nat
        BY <2>5
      <4>3. base = e1 /\ size = u
        BY <2>3, <2>5
      <4>4. q <= n /\ (min = q + p \/ (~whole /\ min = q)) /\ min <= n
        <5>1. q = 3 + u /\ u \in Nat /\ p \in Nat
          BY <2>5
        <5>2. n >= min /\ n \in Nat /\ min \in Nat /\ min >= 3 + u
          BY ONLY <1>1, <1>2, <4>3
        <5>3. min = 3 + u + p \/ (~whole /\ min = 3 + u)
          BY ONLY <1>2, <4>3, Zenon
        <5> HIDE DEF q
        <5> QED
          BY ONLY <5>1, <5>2, <5>3
      <4>5. e1 + 3 + u = e1 + q
        BY ONLY <1>3, <2>5
      <4> QED
        BY ONLY <4>1, <4>2, <4>4, <4>5, Zenon
    <3> HIDE DEF pass, min, p, u, e1
    <3>1. CASE min = q + p
      <4> HIDE DEF q
      <4>0. base = e1 /\ base \in Nat /\ n \in Nat /\ min \in Nat /\ p \in Nat /\ q \in Nat /\ min <= n
        BY <1>2, <1>3, <2>3, <2>5, <3>0
      <4>1. \A k \in 1 .. p : q + k - 1 < n /\ base + (q + k - 1) + 1 = e1 + q + k
        BY ONLY <3>1, <4>0
      <4>2. \A k \in 1 .. p : At(q + k - 1) = Bytes[e1 + q + k]
        BY <4>1 DEF At
      <4>3. (q + p) - q = p
        BY <2>5, <3>0
      <4>4. pass = [k \in 1 .. p |-> Bytes[e1 + q + k]]
        BY <3>0, <3>1, <4>2, <4>3 DEF Slice
      <4>5. script.pass = [i \in 1 .. p |-> Bytes[e1 + q + i]]
        BY <2>5, <3>0
      <4> QED
        BY <4>4, <4>5
    <3>2. CASE ~whole /\ min = q
      <4> HIDE DEF q
      <4>1. pass = [k \in 1 .. 0 |-> At(q + k - 1)]
        <5>1. q - q = 0
          BY <3>0
        <5> QED
          BY <3>0, <3>2, <5>1 DEF Slice
      <4> QED
        BY <3>2, <4>1
    <3> QED
      BY <3>0, <3>1, <3>2
  <2>8. TakenAsGiven'
    <3>1. VerifiedAsGiven'
      <4>1. \A v \in verified' : v.name = user /\ v.pass = pass
        BY <2>1
      <4>2. script' = script /\ whole' = whole /\ script.kind = "socks5"
        BY <2>1, WaitingFacts
      <4> HIDE DEF user, pass
      <4> QED
        BY <2>6, <2>7, <4>1, <4>2 DEF VerifiedAsGiven
    <3> QED
      BY <2>1, <3>1 DEF TakenAsGiven, QueuedAsAsked, NewBuffer
  <2>9. /\ UNCHANGED <<conf, script, sent, crashed>> /\ stage' = "request" /\ base' = base + n /\ n' = 0
        /\ want' = [min |-> 10, cap |-> 258]
    BY <2>1 DEF NewBuffer
  <2>10. Len(replies') = 2
    <3>1. replies \in Seq(Replies) /\ Len(replies) = 1
      BY <1>2 DEF Waiting, MixedInv, PlaceInv
    <3>2. replies' = Append(replies, "accepted")
      BY <2>1
    <3>3. "accepted" \in Replies
      BY DEF Replies
    <3>4. Len(Append(replies, "accepted")) = Len(replies) + 1
      BY ONLY <3>1, <3>3, AppendProperties
    <3> QED
      BY <3>1, <3>2, <3>4
  <2>11. /\ RequestNo = 3 /\ Ends(RequestNo - 1) = e2 /\ Ends(RequestNo) \in Nat /\ e2 <= Ends(RequestNo)
    BY <2>4, WaitingFacts
  <2>12. /\ RequestNo' = RequestNo /\ Bytes' = Bytes /\ Ends(RequestNo)' = Ends(RequestNo)
         /\ Ends(RequestNo - 1)' = Ends(RequestNo - 1)
    BY <2>9, Fixed
  <2>13. base + n = e2 \/ (base + n < e2 /\ Bytes[base + n + 1] # 5)
    <3> SUFFICES ASSUME base + n # e2 PROVE base + n < e2 /\ Bytes[base + n + 1] # 5
      OBVIOUS
    <3> DEFINE i == base + n + 1 - (e1 + 3 + u)
    <3> HIDE DEF e1, e2, u, p, size, min
    <3>1. base + n < e2 /\ i \in 1 .. p /\ e1 + 3 + u + i = base + n + 1
      BY <1>1, <1>2, <1>3, <2>3, <2>5
    <3> HIDE DEF i
    <3>2. Bytes[e1 + 3 + u + i] >= 32
      BY <2>5, <3>1
    <3> QED
      BY <3>1, <3>2
  <2>14. sent <= Ends(RequestNo)
    BY <1>2, <1>3, <2>11
  <2>15. /\ Len(replies)' \in 1 .. RequestNo - 1
         /\ base' = e2 \/ (base' < e2 /\ Bytes[base' + 1] # 5)
    <3> HIDE DEF e2
    <3> QED
      BY <2>9, <2>10, <2>11, <2>13
  <2>16. RequestInv'
    <3> HIDE DEF e2
    <3> QED
      BY <2>9, <2>11, <2>12, <2>14, <2>15 DEF RequestInv
  <2> QED
    BY <2>8, <2>9, <2>16 DEF WaitsInv, Opening, Asking
<1> QED
  BY <1>6, <1>7

\* A request of which ten bytes are there: its length and its parts.
LEMMA RequestFacts ==
  ASSUME Waiting, base = Ends(RequestNo - 1), n >= 10
  PROVE  \E h, o : /\ RequestAt(Bytes, Ends(RequestNo - 1), Ends(RequestNo), script.asked, h, o)
                   /\ hlen = h
                   /\ At(1) = Bytes[base + 2] /\ At(3) = Bytes[base + 4]
<1> DEFINE c == Ends(RequestNo - 1)
           d == Ends(RequestNo)
<1>1. PICK h, o : RequestAt(Bytes, c, d, script.asked, h, o)
  BY WaitingFacts, Socks5Messages DEF Waiting
<1>2. base \in Nat /\ n \in Nat /\ base = c
  BY WaitingFacts
<1> HIDE DEF c, d
<1>3. At(1) = Bytes[base + 2] /\ At(3) = Bytes[base + 4] /\ At(4) = Bytes[base + 5]
  <2>1. /\ 1 < n /\ 3 < n /\ 4 < n
        /\ base + 1 + 1 = base + 2 /\ base + 3 + 1 = base + 4 /\ base + 4 + 1 = base + 5
    BY <1>2
  <2> QED
    BY <2>1 DEF At
<1>4. \/ At(3) = 1 /\ h = 4
      \/ At(3) = 3 /\ h = At(4) + 1
      \/ At(3) = 4 /\ h = 16
  BY <1>1, <1>2, <1>3 DEF RequestAt
<1>5. hlen = h
  BY <1>4 DEF hlen
<1> QED
  BY <1>1, <1>3, <1>5 DEF c, d

\* The request, up to its address: nothing but a request has its version.
LEMMA RequestWaits ==
  ASSUME Waiting, Request
  PROVE  WaitsInv' /\ (crashed' => crashed \/ Overlong)
<1> DEFINE c == Ends(RequestNo - 1)
           d == Ends(RequestNo)
           min == want.min
<1>1. stage = "request" /\ n >= min /\ RequestInv
  BY DEF Waiting, WaitsInv, Request, Filled
<1>2. /\ min = 10 /\ Len(replies) \in 1 .. RequestNo - 1 /\ sent <= d
      /\ base = c \/ (base < c /\ Bytes[base + 1] # 5)
  BY <1>1 DEF RequestInv
<1>3. base \in Nat /\ n \in Nat /\ c \in Nat /\ d \in Nat
  BY WaitingFacts
<1>4. n >= 10
  <2> HIDE DEF min
  <2> QED
    BY <1>1, <1>2
<1>5. At(0) = Bytes[base + 1]
  <2>1. 0 < n /\ base + 0 + 1 = base + 1
    BY <1>3, <1>4
  <2> QED
    BY <2>1 DEF At
<1>6. CASE At(0) # 5
  BY <1>6 DEF Request, GiveUp, WaitsInv, Opening, Asking
<1>7. CASE At(0) = 5
  <2>1. base = c
    BY <1>2, <1>5, <1>7
  <2>2. PICK h, o : RequestAt(Bytes, c, d, script.asked, h, o) /\ hlen = h
    BY <1>4, <2>1, RequestFacts
  <2>3. 6 + h = d - c /\ h \in Nat
    <3>1. h \in Nat /\ d = c + 6 + h
      BY <2>2 DEF RequestAt
    <3> HIDE DEF c, d
    <3> QED
      BY <1>3, <3>1
  <2>4. CASE 6 + h > 258
    <3>1. Crash
      BY <1>7, <2>2, <2>4 DEF Request
    <3>2. Overlong
      BY <2>3, <2>4, WaitingFacts, Socks5Messages DEF Waiting
    <3>3. UNCHANGED <<conf, script, whole, sent, gone, stage, base, n, want, replies>>
      BY <3>1 DEF Crash
    <3>4. RequestInv'
      BY <1>1, <3>3, Fixed DEF RequestInv
    <3> QED
      BY <1>1, <3>2, <3>3, <3>4 DEF WaitsInv, Opening, Asking
  <2>5. CASE ~(6 + h > 258)
    <3>1. Continue("address", [min |-> 6 + h, cap |-> 6 + h])
      BY <1>7, <2>2, <2>5 DEF Request
    <3>2. /\ UNCHANGED <<conf, script, whole, sent, gone, base, n, replies, crashed>>
          /\ stage' = "address" /\ want' = [min |-> 6 + h, cap |-> 6 + h]
      BY <3>1 DEF Continue
    <3>3. want'.min = d - c /\ want'.min <= want'.cap
      BY <2>3, <3>2
    <3>4. /\ RequestNo' = RequestNo /\ Bytes' = Bytes /\ Ends(RequestNo)' = d
          /\ Ends(RequestNo - 1)' = c
      BY <3>2, Fixed
    <3>5. RequestInv'
      BY <1>2, <1>4, <2>1, <3>2, <3>3, <3>4 DEF RequestInv
    <3> QED
      BY <3>2, <3>5 DEF WaitsInv, Opening, Asking
  <2> QED
    BY <2>4, <2>5
<1> QED
  BY <1>6, <1>7

\* The command: what is queued is what the client asks for.
LEMMA AddressWaits ==
  ASSUME Waiting, Address, TakenAsGiven
  PROVE  WaitsInv' /\ TakenAsGiven' /\ UNCHANGED crashed
<1> DEFINE c   == Ends(RequestNo - 1)
           d   == Ends(RequestNo)
           min == want.min
<1>1. stage = "address" /\ n >= min /\ RequestInv
  BY DEF Waiting, WaitsInv, Address, Filled
<1>2. /\ n >= 10 /\ base = c /\ sent <= d /\ min = d - c
  BY <1>1 DEF RequestInv
<1>3. base \in Nat /\ n \in Nat /\ c \in Nat /\ d \in Nat /\ sent \in Nat /\ base + n <= sent
  BY WaitingFacts
<1>4. n = d - c /\ base + n = d
  <2> HIDE DEF c, d, min
  <2> QED
    BY <1>1, <1>2, <1>3
<1>5. PICK h, o : /\ RequestAt(Bytes, c, d, script.asked, h, o) /\ hlen = h
                  /\ At(1) = Bytes[base + 2] /\ At(3) = Bytes[base + 4]
  BY <1>2, RequestFacts
<1>6. stage' \notin Opening \cup Asking \cup {"request", "address"} => WaitsInv'
  BY DEF WaitsInv
<1> DEFINE host   == IF At(3) = 3 THEN Slice(5, 4 + hlen) ELSE Slice(4, 4 + hlen)
           port   == Slice((6 + hlen) - 2, 6 + hlen)
           target == IF At(3) = 3 THEN Dest(host, port, ByteText) ELSE host \o port
<1>7. CASE At(1) \in {CmdConnect, CmdBind}
  <2>1. Enqueue([target |-> target, line |-> << >>], verified)
    <3>1. At(1) # CmdUdp
      BY <1>7 DEF CmdConnect, CmdBind, CmdUdp
    <3> HIDE DEF c, d
    <3> QED
      BY <1>7, <3>1 DEF Address
  <2>2. /\ UNCHANGED <<conf, script, whole, base, n, verified, crashed>>
        /\ stage' = "queued" /\ ctx'.target = target /\ ctx'.line = << >>
    BY <2>1 DEF Enqueue
  <2>3. /\ h \in Nat /\ d = c + 6 + h /\ o \in {4, 5} /\ (At(3) = 3 <=> o = 5)
        /\ script.asked.line = << >>
        /\ script.asked.target = [k \in 1 .. 4 + h - o |-> Bytes[c + o + k]] \o [k \in 1 .. 2 |-> Bytes[c + 4 + h + k]]
        /\ o = 5 => h >= 1 /\ ~Has([k \in 1 .. 4 + h - o |-> Bytes[c + o + k]], {ByteText.open, ByteText.close})
    <3>1. At(4) \in 0 .. 255 /\ At(4) = Bytes[base + 5]
      <4>1. 4 < n /\ base + 4 + 1 = base + 5
        BY <1>2, <1>3
      <4> QED
        BY <4>1, ByteAt, WaitingFacts DEF At, Waiting
    <3> HIDE DEF c, d
    <3>2. /\ h \in Nat /\ d = c + 6 + h
          /\ \/ At(3) = 1 /\ h = 4 /\ o = 4
             \/ At(3) = 3 /\ h = At(4) + 1 /\ o = 5
             \/ At(3) = 4 /\ h = 16 /\ o = 4
      BY <1>2, <1>5, <3>1 DEF RequestAt
    <3>3. /\ script.asked.line = << >>
          /\ script.asked.target = [k \in 1 .. 4 + h - o |-> Bytes[c + o + k]] \o [k \in 1 .. 2 |-> Bytes[c + 4 + h + k]]
      BY ONLY <1>2, <1>5, <1>7, Zenon DEF RequestAt
    <3>4. o \in {4, 5} /\ (At(3) = 3 <=> o = 5) /\ (o = 5 => h >= 1)
      BY <3>1, <3>2
    <3>5. o = 5 => ~Has([k \in 1 .. 4 + h - o |-> Bytes[c + o + k]], {ByteText.open, ByteText.close})
      BY ONLY <1>5, Zenon DEF RequestAt
    <3> QED
      BY <3>2, <3>3, <3>4, <3>5
  <2>4. host = [k \in 1 .. 4 + h - o |-> Bytes[c + o + k]]
    <3>1. host = Slice(o, 4 + h)
      BY <1>5, <2>3
    <3> HIDE DEF host, c, d
    <3>2. \A k \in 1 .. 4 + h - o : o + k - 1 < n /\ base + (o + k - 1) + 1 = c + o + k
      BY <1>2, <1>3, <1>4, <2>3
    <3>3. \A k \in 1 .. 4 + h - o : At(o + k - 1) = Bytes[c + o + k]
      BY <3>2 DEF At
    <3>4. host = [k \in 1 .. 4 + h - o |-> At(o + k - 1)]
      <4>1. (4 + h) - o = 4 + h - o
        BY <2>3
      <4> QED
        BY <3>1, <4>1 DEF Slice
    <3> QED
      BY ONLY <3>3, <3>4
  <2>5. port = [k \in 1 .. 2 |-> Bytes[c + 4 + h + k]]
    <3> HIDE DEF c, d
    <3>1. (6 + hlen) - 2 = 4 + h /\ 6 + hlen = 6 + h /\ (6 + h) - (4 + h) = 2
      BY <1>5, <2>3
    <3>2. \A k \in 1 .. 2 : 4 + h + k - 1 < n /\ base + (4 + h + k - 1) + 1 = c + 4 + h + k
      BY <1>2, <1>3, <1>4, <2>3
    <3>3. \A k \in 1 .. 2 : At(4 + h + k - 1) = Bytes[c + 4 + h + k]
      BY <3>2 DEF At
    <3> QED
      BY <3>1, <3>3 DEF Slice
  <2>6. target = script.asked.target
    <3> HIDE DEF host, port
    <3>1. o = 5 => Dest(host, port, ByteText) = host \o port
      BY <2>3, <2>4 DEF Dest
    <3> QED
      BY <2>3, <2>4, <2>5, <3>1
  <2>7. base + n = Len(Bytes)
    <3>1. Bytes[c + 2] \in {CmdConnect, CmdBind}
      BY <1>2, <1>5, <1>7
    <3>2. d = Len(Bytes)
      BY <3>1, WaitingFacts, Socks5Messages DEF Waiting
    <3> QED
      BY <1>4, <3>2
  <2>8. VerifiedAsGiven'
    BY <2>2 DEF TakenAsGiven, VerifiedAsGiven, ReadInOne, Bytes
  <2>9. script.kind = "socks5" /\ Bytes' = Bytes
    BY <2>2, WaitingFacts, Fixed
  <2> HIDE DEF target
  <2>10. << >> = << >> \o << >>
    OBVIOUS
  <2>11. QueuedAsAsked'
    BY <2>2, <2>3, <2>6, <2>7, <2>9, <2>10 DEF QueuedAsAsked
  <2> QED
    BY <1>6, <2>2, <2>8, <2>11 DEF TakenAsGiven, Opening, Asking
<1>8. CASE At(1) \notin {CmdConnect, CmdBind}
  <2>1. /\ stage' \in {"udp", "error"}
        /\ UNCHANGED <<script, whole, verified, crashed>>
    BY <1>8 DEF Address, NewBuffer, GiveUp
  <2>2. TakenAsGiven'
    BY <2>1, TakenStays
  <2> QED
    BY <1>6, <2>1, <2>2 DEF Opening, Asking
<1> QED
  BY <1>7, <1>8

\* After the request: what the parsers of an association do.
LEMMA UdpWaits ==
  ASSUME UdpDiscard \/ UdpEnd
  PROVE  WaitsInv' /\ UNCHANGED crashed
BY DEF UdpDiscard, UdpEnd, NewBuffer, WaitsInv, Opening, Asking, Filled

-----------------------------------------------------------------------------
(* A client with one message *)

\* A well-formed one, in a state of the invariant.
Single ==
  /\ MixedInv /\ OneMessage /\ OneInv
  /\ WellFormed(script) /\ Named(conf.users)

\* The state, and the one message.
LEMMA SingleFacts ==
  ASSUME Single
  PROVE  /\ script \in Scripts /\ script.kind \in {"socks4", "connect", "http"}
         /\ base = 0 /\ n \in Nat /\ sent \in Nat /\ n <= sent /\ sent <= Len(Bytes)
         /\ want.min \in Nat /\ want.cap \in Nat
         /\ Len(Bytes) \in Nat \ {0} /\ \A k \in Nat \ {0} : UpTo(k) = Len(Bytes)
         /\ ReadInOne /\ script.kind = "socks4" => Len(Bytes) <= Socks4Buf
         /\ ReadInOne /\ script.kind # "socks4" => Len(Bytes) <= HttpBuf
         /\ ReadInOne => whole
<1>1. /\ script \in Scripts /\ script.kind \in {"socks4", "connect", "http"}
      /\ base = 0 /\ n \in Nat /\ sent \in 0 .. Len(Bytes) /\ base + n <= sent
      /\ want \in [min : Nat, cap : Nat]
  BY DEF Single, MixedInv, MixedTypeOK, PlaceInv, OneMessage, OneInv
<1>2. Len(Bytes) \in Nat \ {0}
  BY <1>1, ScriptAssumption DEF Bytes
<1>3. script.ends = <<Len(script.bytes)>>
  <2>1. CASE script.kind = "socks4"
    <3>1. Socks4Formed(script)
      BY <2>1 DEF Single, WellFormed
    <3> QED
      BY ONLY <3>1, SMT DEF Socks4Formed
  <2>2. CASE script.kind # "socks4"
    <3>1. HttpFormed(script)
      BY <1>1, <2>2 DEF Single, WellFormed
    <3>2. script.ends = <<Len(script.bytes)>>
      BY ONLY <3>1, Zenon DEF HttpFormed
    <3> QED
      BY <2>2, <3>2
  <2> QED
    BY <2>1, <2>2
<1>4. \A k \in Nat \ {0} : UpTo(k) = Len(Bytes)
  <2> TAKE k \in Nat \ {0}
  <2>1. Min({k, 1}) = 1
    BY MinMaxTwo
  <2>2. Len(script.ends) = 1 /\ script.ends[1] = Len(script.bytes)
    BY <1>3
  <2> QED
    BY <2>1, <2>2 DEF UpTo, Bytes
<1>5. /\ ReadInOne /\ script.kind = "socks4" => Len(Bytes) <= Socks4Buf
      /\ ReadInOne /\ script.kind # "socks4" => Len(Bytes) <= HttpBuf
      /\ ReadInOne => whole
  BY <1>1 DEF ReadInOne
<1> QED
  BY <1>1, <1>2, <1>3, <1>4, <1>5 DEF Bytes

\* The buffer of a parser stays as it is when nothing is read.
LEMMA SameBuffer ==
  ASSUME UNCHANGED <<script, base, n>>
  PROVE  At(1)' = At(1) /\ Text' = Text
BY DEF At, Text, Slice, Bytes

\* The client sends its message, or goes.
LEMMA ClientSingle ==
  ASSUME Single, MixedInv', ClientSend \/ ClientClose
  PROVE  OneInv'
<1> DEFINE len == Len(Bytes)
           r   == Len(replies)
<1>1. /\ UNCHANGED <<conf, script, whole, stage, base, n, want, replies>>
      /\ \/ sent' = IF script.patient THEN UpTo(r + 1) ELSE len
         \/ sent' = sent
         \/ sent' = 0 /\ stage \in {"accepted", "peek"}
         \/ sent' = Max({base + n, 1}) /\ stage \notin {"accepted", "peek"} \cup Ended /\ stage # "new"
  BY SingleFacts DEF ClientSend, ClientClose
<1>2. sent' = len \/ sent' = sent \/ sent' = 0
      \/ (sent' = (IF n >= 1 THEN n ELSE 1) /\ stage \in OneRead)
  <2>1. Max({base + n, 1}) = IF n >= 1 THEN n ELSE 1
    <3>1. n \in Int
      BY SingleFacts
    <3>2. Max({n, 1}) = IF n >= 1 THEN n ELSE 1
      BY ONLY <3>1, MinMaxTwo
    <3>3. base + n = n
      BY SingleFacts
    <3> QED
      BY <3>2, <3>3
  <2>2. UpTo(r + 1) = len
    <3>1. r \in Nat
      BY DEF Single, MixedInv, PlaceInv
    <3> QED
      BY <3>1, SingleFacts
  <2>3. stage \notin {"accepted", "peek"} \cup Ended /\ stage # "new" => stage \in OneRead
    BY DEF Single, MixedInv, PlaceInv, OneMessage, Places, Begun, Greetings, Accepted, Ended
  <2> QED
    BY <1>1, <2>1, <2>2, <2>3
<1>3. Bytes' = Bytes /\ ReadInOne' = ReadInOne
  BY <1>1, Fixed DEF ReadInOne
<1>4. OneInv
  BY DEF Single
<1>5. n \in Nat
  BY SingleFacts
<1>6. ReadInOne => sent' \in {0, 1, len}
  <2>1. ReadInOne => sent \in {0, 1, len} /\ (stage \in OneRead => n \in {0, 1, len})
    BY <1>4 DEF OneInv
  <2> HIDE DEF len
  <2> QED
    BY <1>2, <1>5, <2>1
<1>7. At(1)' = At(1) /\ Text' = Text
  BY <1>1, SameBuffer
<1> QED
  BY <1>1, <1>3, <1>4, <1>6, <1>7 DEF OneInv

\* A read returns, and what is not parsing.
LEMMA ReadSingle ==
  ASSUME Single, Read
  PROVE  OneInv'
<1> DEFINE len == Len(Bytes)
<1>1. /\ UNCHANGED <<conf, script, whole, sent, stage, base, want>>
      /\ stage \notin Ended /\ n < want.min
  BY DEF Read
<1>2. OneInv
  BY DEF Single
<1>3. Bytes' = Bytes /\ ReadInOne' = ReadInOne
  BY <1>1, Fixed DEF ReadInOne
<1>4. CASE stage \notin OneRead
  BY <1>1, <1>2, <1>3, <1>4 DEF OneInv, OneRead
<1>5. CASE stage \in OneRead
  <2> DEFINE x == want.cap
             y == want.min
             m == n'
  <2>1. /\ n \in Nat /\ x \in Nat /\ y \in Nat /\ len \in Nat /\ sent \in Nat
        /\ base = 0 /\ sent <= len
    BY SingleFacts
  <2>2. stage \in {"socks4", "http"} /\ y <= x /\ (ReadInOne => len <= x)
        /\ (stage = "socks4" => x = Socks4Buf)
    <3>1. CASE stage \in {"socks4", "socks4Auth"}
      <4>1. want = [min |-> 8, cap |-> Socks4Buf] /\ script.kind = "socks4" /\ stage # "socks4Auth"
        BY <1>1, <1>2, <2>1, <3>1 DEF OneInv
      <4> QED
        BY <3>1, <4>1, SingleFacts, Socks4BufAssumption
    <3>2. CASE stage \in {"http", "httpAuth"}
      <4>1. want = [min |-> 1, cap |-> HttpBuf] /\ script.kind # "socks4" /\ stage # "httpAuth"
        BY <1>1, <1>2, <2>1, <3>2 DEF OneInv
      <4> QED
        BY <3>2, <4>1, SingleFacts, HttpBufAssumption
    <3> QED
      BY <1>5, <3>1, <3>2 DEF OneRead
  <2>3. n <= x
    <3>1. n < y /\ y <= x /\ x \in Nat /\ y \in Nat /\ n \in Nat
      BY <1>1, <2>1, <2>2
    <3> HIDE DEF x, y
    <3> QED
      BY ONLY <3>1
  <2>4. m \in Nat /\ m <= x /\ base + m <= sent /\ (ReadInOne => m = x \/ base + m = sent)
    BY <2>3, ReadMore, SingleFacts DEF Single
  <2>5. ReadInOne => sent \in {0, 1, len}
    BY <1>2 DEF OneInv
  <2>6. ReadInOne => m = sent
    <3> HIDE DEF x, m, len
    <3> QED
      BY ONLY <2>1, <2>2, <2>4
  <2>7. stage = "socks4" => m <= Socks4Buf
    BY <2>2, <2>4
  <2> QED
    BY <1>1, <1>2, <1>3, <2>2, <2>5, <2>6, <2>7 DEF OneInv
<1> QED
  BY <1>4, <1>5

\* The accept loop, the choice of the front end and the ends of a connection.
LEMMA FrontSingle ==
  ASSUME Single, MixedAccept \/ MixedAdmit \/ MixedPeek \/ MixedPeekErr \/ ReadErr \/ HandleErr
  PROVE  OneInv'
<1>1. OneInv
  BY DEF Single
<1>2. /\ UNCHANGED <<conf, script, whole, sent, base, n>>
      /\ \/ stage' \notin OneRead
         \/ MixedPeek /\ stage' \in {"socks4", "http"}
  BY DEF OneRead, MixedAccept, MixedAdmit, MixedPeek, MixedPeekErr, ReadErr, HandleErr, Continue, GiveUp
<1>3. Bytes' = Bytes /\ ReadInOne' = ReadInOne
  BY <1>2, Fixed DEF ReadInOne
<1>4. CASE stage' \notin OneRead
  BY <1>1, <1>2, <1>3, <1>4 DEF OneInv, OneRead
<1>5. CASE MixedPeek /\ stage' \in {"socks4", "http"}
  <2>1. n = 0
    BY <1>5 DEF MixedPeek, Single, MixedInv, PlaceInv
  <2>2. /\ script.kind = "socks4" => HeadByte = 4
        /\ script.kind # "socks4" => HeadByte = 71
    BY SingleFacts, ScriptAssumption DEF HeadByte, Bytes
  <2>3. /\ stage' = "socks4" => script.kind = "socks4" /\ want' = [min |-> 8, cap |-> Socks4Buf]
        /\ stage' = "http" => script.kind # "socks4" /\ want' = [min |-> 1, cap |-> HttpBuf]
    <3>1. CASE script.kind = "socks4"
      BY <1>5, <2>2, <3>1 DEF MixedPeek, Continue
    <3>2. CASE script.kind # "socks4"
      BY <1>5, <2>2, <3>2 DEF MixedPeek, Continue
    <3> QED
      BY <3>1, <3>2
  <2> QED
    BY <1>1, <1>2, <1>3, <1>5, <2>1, <2>3, Socks4BufAssumption DEF OneInv
<1> QED
  BY <1>2, <1>4, <1>5

\* Parsing: nothing is read any more, ...
LEMMA ParsedSingle ==
  ASSUME Single, UNCHANGED <<script, whole, sent, base>>, stage' \notin OneRead
  PROVE  OneInv'
<1>1. Bytes' = Bytes /\ ReadInOne' = ReadInOne
  BY Fixed DEF ReadInOne
<1> QED
  BY <1>1 DEF Single, OneInv, OneRead

\* ... or auth.Verify is next.
LEMMA AskedSingle ==
  ASSUME Single, UNCHANGED <<script, whole, sent, base, n, want>>,
         \/ stage = "socks4" /\ n >= 8 /\ At(1) = 1 /\ stage' = "socks4Auth"
         \/ stage = "http" /\ n >= 1 /\ Has(Text, {CRLF}) /\ stage' = "httpAuth"
         \/ stage' = stage
  PROVE  OneInv'
<1>1. Bytes' = Bytes /\ ReadInOne' = ReadInOne
  BY Fixed DEF ReadInOne
<1>2. At(1)' = At(1) /\ Text' = Text
  BY SameBuffer
<1> QED
  BY <1>1, <1>2 DEF Single, OneInv, OneRead

-----------------------------------------------------------------------------
(* The message of a SOCKS4 client *)

\* The parser is at one of its two statements.
Socks4Filled == Filled("socks4") \/ Filled("socks4Auth")

\* The host, and the characters that are none of a name's.
Socks4Host == IF IsSocks4a THEN readUntilNull(StringEnd(8) + 1) ELSE Slice(4, 8)
Brackets   == {ByteText.open, ByteText.close}

\* A message b of len bytes with a name of u bytes whose zero byte is at nul; a SOCKS4a
\* message has the name of the host behind it.
Socks4At(b, len, user, u, nul, asked) ==
  LET a4 == b[5] = 0 /\ b[6] = 0 /\ b[7] = 0 /\ b[8] # 0
  IN  /\ len \in Nat /\ u \in Nat /\ u = Len(user) /\ nul = 9 + u
      /\ IF a4 THEN nul < len ELSE nul = len
      /\ b[nul] = 0 /\ b[len] = 0
      /\ user = [i \in 1 .. u |-> b[8 + i]]
      /\ \A i \in 9 .. len - 1 : i # nul => b[i] # 0
      /\ a4 => ~Has([k \in 1 .. len - 1 - nul |-> b[nul + k]], Brackets)
      /\ b[2] = CmdConnect =>
           /\ asked.line = << >>
           /\ asked.target = (IF a4 THEN [k \in 1 .. len - 1 - nul |-> b[nul + k]]
                                   ELSE [k \in 1 .. 4 |-> b[4 + k]]) \o [k \in 1 .. 2 |-> b[2 + k]]

\* The message of a well-formed client, byte by byte.
LEMMA Socks4Bytes ==
  ASSUME script \in Scripts, WellFormed(script), script.kind = "socks4"
  PROVE  /\ Socks4At(Bytes, Len(Bytes), script.user, Len(script.user), 9 + Len(script.user), script.asked)
         /\ script.pass = << >>
<1> DEFINE b    == script.bytes
           len  == Len(b)
           u    == Len(script.user)
           nul  == 9 + u
           a4   == b[5] = 0 /\ b[6] = 0 /\ b[7] = 0 /\ b[8] # 0
           host == IF a4 THEN SubSeq(b, nul + 1, len - 1) ELSE SubSeq(b, 5, 8)
<1>0. Socks4Formed(script)
  BY DEF WellFormed
<1>1. /\ u \in Nat /\ script.pass = << >>
      /\ IF a4 THEN nul < len ELSE nul = len
      /\ b[nul] = 0 /\ b[len] = 0 /\ script.user = SubSeq(b, 9, nul - 1)
      /\ \A i \in (9 .. len - 1) \ {nul} : b[i] # 0
      /\ a4 => ~Has(host, Brackets)
      /\ b[2] = CmdConnect => script.asked = [target |-> host \o SubSeq(b, 3, 4), line |-> << >>]
  BY ONLY <1>0, SMT DEF Socks4Formed, Brackets
<1>2. len \in Nat
  BY ScriptAssumption
<1> DEFINE s == b
<1> HIDE DEF b, len, u, host
<1>3. script.user = [i \in 1 .. u |-> b[8 + i]]
  <2> DEFINE j == nul - 1
  <2>1. j \in Int /\ j = 8 + u /\ script.user = SubSeq(b, 9, j)
    BY <1>1
  <2> HIDE DEF j
  <2>2. SubSeq(b, 9, j) = [k \in 1 .. j - 9 + 1 |-> b[9 + k - 1]]
    BY ONLY <2>1, SubSeqIs
  <2>3. j - 9 + 1 = u /\ \A k \in 1 .. u : 9 + k - 1 = 8 + k
    BY <1>1, <2>1
  <2> QED
    BY <2>1, <2>2, <2>3
<1>4. SubSeq(b, 3, 4) = [k \in 1 .. 2 |-> b[2 + k]]
  <2>1. SubSeq(b, 3, 4) = [k \in 1 .. 4 - 3 + 1 |-> b[3 + k - 1]]
    BY ONLY SubSeqIs
  <2>2. 4 - 3 + 1 = 2 /\ \A k \in 1 .. 2 : 3 + k - 1 = 2 + k
    OBVIOUS
  <2> QED
    BY <2>1, <2>2
<1>5. SubSeq(b, 5, 8) = [k \in 1 .. 4 |-> b[4 + k]]
  <2>1. SubSeq(b, 5, 8) = [k \in 1 .. 8 - 5 + 1 |-> b[5 + k - 1]]
    BY ONLY SubSeqIs
  <2>2. 8 - 5 + 1 = 4 /\ \A k \in 1 .. 4 : 5 + k - 1 = 4 + k
    OBVIOUS
  <2> QED
    BY <2>1, <2>2
<1>6. SubSeq(b, nul + 1, len - 1) = [k \in 1 .. len - 1 - nul |-> b[nul + k]]
  <2> DEFINE i == nul + 1
             j == len - 1
  <2>1. i \in Int /\ j \in Int
    BY <1>1, <1>2
  <2>2. j - i + 1 = len - 1 - nul /\ \A k \in 1 .. len - 1 - nul : i + k - 1 = nul + k
    BY <1>1, <1>2
  <2> HIDE DEF i, j
  <2>3. SubSeq(b, i, j) = [k \in 1 .. j - i + 1 |-> b[i + k - 1]]
    BY ONLY <2>1, SubSeqIs
  <2> QED
    BY <2>2, <2>3 DEF i, j
<1>7. host = IF a4 THEN [k \in 1 .. len - 1 - nul |-> b[nul + k]] ELSE [k \in 1 .. 4 |-> b[4 + k]]
  BY <1>5, <1>6 DEF host
<1>8. b[2] = CmdConnect => script.asked.target = host \o [k \in 1 .. 2 |-> b[2 + k]] /\ script.asked.line = << >>
  <2> DEFINE t == host \o SubSeq(b, 3, 4)
  <2>1. t = host \o [k \in 1 .. 2 |-> b[2 + k]]
    BY ONLY <1>4, Zenon
  <2>2. b[2] = CmdConnect => script.asked = [target |-> t, line |-> << >>]
    BY ONLY <1>1, Zenon
  <2> HIDE DEF t
  <2>3. b[2] = CmdConnect => script.asked.target = t /\ script.asked.line = << >>
    BY ONLY <2>2
  <2> QED
    BY ONLY <2>1, <2>3, Zenon
<1>9. a4 => ~Has([k \in 1 .. len - 1 - nul |-> b[nul + k]], Brackets)
  BY <1>1, <1>7
<1>10. Socks4At(b, len, script.user, u, nul, script.asked)
  BY <1>1, <1>2, <1>3, <1>7, <1>8, <1>9 DEF Socks4At, u
<1> QED
  BY <1>1, <1>10 DEF Bytes, b, len, u

\* A string ends where the buffer does, or at its zero byte.
LEMMA StringEndIs ==
  ASSUME n \in Nat, NEW i \in Nat
  PROVE  /\ (\A j \in i .. n - 1 : At(j) # 0) => StringEnd(i) = IF i >= n THEN i ELSE n
         /\ \A m \in i .. n - 1 : At(m) = 0 /\ (\A j \in i .. m - 1 : At(j) # 0) => StringEnd(i) = m
<1> DEFINE nul == {j \in i .. n - 1 : At(j) = 0}
<1>1. ASSUME \A j \in i .. n - 1 : At(j) # 0
      PROVE  StringEnd(i) = IF i >= n THEN i ELSE n
  <2>1. nul = {}
    BY <1>1
  <2>2. Max({i, n}) = IF i >= n THEN i ELSE n
    BY MinMaxTwo
  <2> QED
    BY <2>1, <2>2 DEF StringEnd
<1>2. ASSUME NEW m \in i .. n - 1, At(m) = 0, \A j \in i .. m - 1 : At(j) # 0
      PROVE  StringEnd(i) = m
  <2>1. m \in nul /\ \A y \in nul : m <= y
    BY <1>2
  <2>2. \A x \in nul : (\A y \in nul : x <= y) => x = m
    BY <2>1
  <2>3. Min(nul) = m
    <3> HIDE DEF nul
    <3> QED
      BY <2>1, <2>2 DEF Min
  <2> QED
    BY <2>1, <2>3 DEF StringEnd
<1> QED
  BY <1>1, <1>2

\* What the parser has of it.
LEMMA Socks4Read ==
  ASSUME Single, Socks4Filled
  PROVE  /\ script.kind = "socks4" /\ n >= 8 /\ n \in Nat /\ n <= Len(Bytes)
         /\ \A i \in 0 .. n - 1 : At(i) = Bytes[i + 1]
         /\ ReadInOne => n = Len(Bytes)
         /\ Socks4At(Bytes, Len(Bytes), script.user, Len(script.user), 9 + Len(script.user), script.asked)
         /\ script.pass = << >>
<1> DEFINE min == want.min
           len == Len(Bytes)
<1>1. /\ n >= min /\ script.kind = "socks4" /\ min = 8
      /\ ReadInOne => n \in {0, 1, len}
  BY DEF Socks4Filled, Filled, Single, OneInv, OneRead
<1>2. base = 0 /\ n \in Nat /\ sent \in Nat /\ n <= sent /\ sent <= len /\ len \in Nat /\ script \in Scripts
  BY SingleFacts
<1> HIDE DEF min, len
<1>3. n >= 8 /\ n <= len /\ (ReadInOne => n = len)
  BY <1>1, <1>2
<1>4. \A i \in 0 .. n - 1 : i < n /\ base + i + 1 = i + 1
  BY <1>2
<1>5. \A i \in 0 .. n - 1 : At(i) = Bytes[i + 1]
  BY <1>4 DEF At
<1>6. /\ Socks4At(Bytes, Len(Bytes), script.user, Len(script.user), 9 + Len(script.user), script.asked)
      /\ script.pass = << >>
  BY <1>1, <1>2, Socks4Bytes DEF Single
<1> QED
  BY <1>1, <1>2, <1>3, <1>5, <1>6 DEF len

\* The name is the client's, or what has come of it.
LEMMA Socks4User ==
  ASSUME Single, Socks4Filled
  PROVE  \/ /\ n > 8 + Len(script.user) /\ StringEnd(8) = 8 + Len(script.user)
            /\ readUntilNull(8) = script.user
         \/ /\ n <= 8 + Len(script.user) /\ StringEnd(8) = n
            /\ IsPrefix(readUntilNull(8), script.user)
<1> DEFINE b   == Bytes
           len == Len(Bytes)
           usr == script.user
           u   == Len(usr)
           nul == 9 + u
           a   == script.asked
<1>1. /\ n >= 8 /\ n \in Nat /\ n <= len /\ \A i \in 0 .. n - 1 : At(i) = b[i + 1]
      /\ Socks4At(b, len, usr, u, nul, a)
  BY Socks4Read
<1>2. /\ len \in Nat /\ u \in Nat /\ nul = 9 + u /\ nul <= len /\ b[nul] = 0
      /\ usr = [i \in 1 .. u |-> b[8 + i]]
      /\ \A i \in 9 .. len - 1 : i # nul => b[i] # 0
  <2> DEFINE c == nul
  <2>1. Socks4At(b, len, usr, u, c, a)
    BY <1>1
  <2>2. c = 9 + u
    OBVIOUS
  <2> HIDE DEF c, b, len, usr, u, a
  <2>3. c <= len
    BY ONLY <2>1 DEF Socks4At
  <2>4. /\ len \in Nat /\ u \in Nat /\ b[c] = 0
        /\ usr = [i \in 1 .. u |-> b[8 + i]]
        /\ \A i \in 9 .. len - 1 : i # c => b[i] # 0
    BY ONLY <2>1 DEF Socks4At
  <2> QED
    BY <2>2, <2>3, <2>4 DEF c
<1> HIDE DEF b, len, usr, u, nul, a
<1>3. CASE n > 8 + u
  <2> DEFINE m == 8 + u
  <2>1. m \in 8 .. n - 1 /\ m + 1 = nul /\ m \in 0 .. n - 1
    BY <1>1, <1>2, <1>3
  <2>2. At(m) = 0
    BY <1>1, <1>2, <2>1
  <2>3. \A j \in 8 .. m - 1 : j \in 0 .. n - 1 /\ j + 1 \in 9 .. len - 1 /\ j + 1 # nul
    BY <1>1, <1>2, <1>3
  <2>4. \A j \in 8 .. m - 1 : At(j) # 0
    BY <1>1, <1>2, <2>3
  <2>5. StringEnd(8) = m
    <3> HIDE DEF m
    <3> QED
      BY <1>1, <2>1, <2>2, <2>4, StringEndIs
  <2>6. \A k \in 1 .. u : 8 + k - 1 \in 0 .. n - 1 /\ (8 + k - 1) + 1 = 8 + k
    BY <1>1, <1>2, <1>3
  <2>7. Slice(8, m) = [k \in 1 .. u |-> At(8 + k - 1)]
    <3>1. m - 8 = u
      BY <1>2
    <3> HIDE DEF m
    <3> QED
      BY <3>1 DEF Slice
  <2>8. \A k \in 1 .. u : At(8 + k - 1) = b[8 + k]
    BY <1>1, <2>6
  <2>9. Slice(8, m) = usr
    BY <1>2, <2>7, <2>8
  <2>10. readUntilNull(8) = usr
    BY <2>5, <2>9 DEF readUntilNull
  <2> QED
    BY <1>3, <2>5, <2>10 DEF u, usr, m
<1>4. CASE n <= 8 + u
  <2>1. \A j \in 8 .. n - 1 : j \in 0 .. n - 1 /\ j + 1 \in 9 .. len - 1 /\ j + 1 # nul
    BY <1>1, <1>2, <1>4
  <2>2. \A j \in 8 .. n - 1 : At(j) # 0
    BY <1>1, <1>2, <2>1
  <2>3. StringEnd(8) = n
    <3>1. StringEnd(8) = IF 8 >= n THEN 8 ELSE n
      BY <1>1, <2>2, StringEndIs
    <3> QED
      BY <1>1, <3>1
  <2> DEFINE l == n - 8
             s == readUntilNull(8)
  <2>4. l \in Nat /\ l <= u /\ \A k \in 1 .. l : 8 + k - 1 \in 0 .. n - 1 /\ (8 + k - 1) + 1 = 8 + k /\ k \in 1 .. u
    BY <1>1, <1>2, <1>4
  <2>5. s = [k \in 1 .. l |-> At(8 + k - 1)]
    BY <2>3 DEF readUntilNull, Slice
  <2> HIDE DEF l, s
  <2>6. \A k \in 1 .. l : At(8 + k - 1) = usr[k]
    BY <1>1, <1>2, <2>4
  <2>7. s = [k \in 1 .. l |-> usr[k]]
    BY <2>5, <2>6
  <2>8. Len(s) = l
    BY <2>4, <2>7
  <2>9. SubSeq(s, 1, l) = [k \in 1 .. l |-> s[k]] /\ SubSeq(usr, 1, l) = [k \in 1 .. l |-> usr[k]]
    <3>1. SubSeq(s, 1, l) = [k \in 1 .. l - 1 + 1 |-> s[1 + k - 1]]
      BY ONLY <2>4, SubSeqIs
    <3>2. SubSeq(usr, 1, l) = [k \in 1 .. l - 1 + 1 |-> usr[1 + k - 1]]
      BY ONLY <2>4, SubSeqIs
    <3>3. l - 1 + 1 = l /\ \A k \in 1 .. l : 1 + k - 1 = k
      BY <2>4
    <3> QED
      BY <3>1, <3>2, <3>3
  <2>10. SubSeq(s, 1, Len(s)) = SubSeq(usr, 1, Len(s)) /\ Len(s) <= Len(usr)
    <3>1. \A k \in 1 .. l : s[k] = usr[k]
      BY <2>7
    <3>2. SubSeq(s, 1, l) = SubSeq(usr, 1, l)
      BY <2>9, <3>1
    <3> QED
      BY <2>4, <2>8, <3>2 DEF u
  <2>11. IsPrefix(s, usr)
    BY ONLY <2>10 DEF IsPrefix
  <2> QED
    BY <1>4, <2>3, <2>11 DEF s, u, usr
<1> QED
  BY <1>1, <1>2, <1>3, <1>4

\* The host is the client's too, or what has come of its name; the port follows the command.
LEMMA Socks4HostIs ==
  ASSUME Single, Socks4Filled, At(1) = CmdConnect
  PROVE  /\ script.asked.line = << >> /\ Slice(2, 4) = [k \in 1 .. 2 |-> Bytes[2 + k]]
         /\ \E e \in Nat, l \in Nat : \E h :
              /\ l <= e /\ h = [k \in 1 .. e |-> h[k]] /\ script.asked.target = h \o Slice(2, 4)
              /\ Socks4Host = [k \in 1 .. l |-> h[k]]
              /\ l = e \/ ~ReadInOne
              /\ IsSocks4a => ~Has(h, Brackets)
<1> DEFINE b   == Bytes
           len == Len(Bytes)
           usr == script.user
           u   == Len(usr)
           nul == 9 + u
           a   == script.asked
           a4  == b[5] = 0 /\ b[6] = 0 /\ b[7] = 0 /\ b[8] # 0
           h4  == [k \in 1 .. 4 |-> b[4 + k]]
           hn  == [k \in 1 .. len - 1 - nul |-> b[nul + k]]
           q   == [k \in 1 .. 2 |-> b[2 + k]]
           r   == ReadInOne
<1>1. /\ n >= 8 /\ n \in Nat /\ n <= len /\ \A i \in 0 .. n - 1 : At(i) = b[i + 1]
      /\ r => n = len
      /\ Socks4At(b, len, usr, u, nul, a)
  BY Socks4Read
<1>2. b[2] = CmdConnect /\ (a4 <=> IsSocks4a)
  <2>1. 1 \in 0 .. n - 1 /\ 4 \in 0 .. n - 1 /\ 5 \in 0 .. n - 1 /\ 6 \in 0 .. n - 1 /\ 7 \in 0 .. n - 1
    BY <1>1
  <2>2. At(1) = b[1 + 1] /\ At(4) = b[4 + 1] /\ At(5) = b[5 + 1] /\ At(6) = b[6 + 1] /\ At(7) = b[7 + 1]
    BY ONLY <1>1, <2>1, Zenon
  <2> QED
    BY <2>2 DEF IsSocks4a
<1>3. /\ len \in Nat /\ u \in Nat /\ nul = 9 + u /\ b[len] = 0 /\ (a4 => nul < len) /\ nul <= len
      /\ \A i \in 9 .. len - 1 : i # nul => b[i] # 0
      /\ a.line = << >> /\ a.target = (IF a4 THEN hn ELSE h4) \o q
      /\ a4 => ~Has(hn, Brackets)
  <2> DEFINE c == nul
  <2>1. Socks4At(b, len, usr, u, c, a)
    BY <1>1
  <2>2. c = 9 + u
    OBVIOUS
  <2> HIDE DEF c, b, len, usr, u, a
  <2>3. len \in Nat /\ u \in Nat /\ b[len] = 0 /\ (a4 => c < len) /\ c <= len
    BY ONLY <2>1 DEF Socks4At
  <2>4. \A i \in 9 .. len - 1 : i # c => b[i] # 0
    BY ONLY <2>1, Zenon DEF Socks4At
  <2>5. a.line = << >> /\ a.target = (IF a4 THEN hn ELSE h4) \o q
    BY ONLY <1>2, <2>1, Zenon DEF Socks4At
  <2>6. a4 => ~Has(hn, Brackets)
    BY ONLY <2>1, Zenon DEF Socks4At
  <2> QED
    BY <2>2, <2>3, <2>4, <2>5, <2>6 DEF c
<1> HIDE DEF b, len, usr, u, nul, a
<1>4. Slice(2, 4) = q
  <2>1. \A k \in 1 .. 2 : 2 + k - 1 \in 0 .. n - 1 /\ (2 + k - 1) + 1 = 2 + k
    BY <1>1
  <2>2. \A k \in 1 .. 2 : At(2 + k - 1) = b[2 + k]
    BY <1>1, <2>1
  <2>3. Slice(2, 4) = [k \in 1 .. 2 |-> At(2 + k - 1)]
    BY DEF Slice
  <2> QED
    BY <2>2, <2>3
<1> DEFINE p == Slice(2, 4)
<1> HIDE DEF p
<1>7. a.target = (IF a4 THEN hn ELSE h4) \o p
  BY ONLY <1>3, <1>4, Zenon DEF p
<1> SUFFICES \E e \in Nat, l \in Nat : \E h :
               /\ l <= e /\ h = [k \in 1 .. e |-> h[k]] /\ a.target = h \o p
               /\ Socks4Host = [k \in 1 .. l |-> h[k]]
               /\ l = e \/ ~r
               /\ IsSocks4a => ~Has(h, Brackets)
  <2>1. script.asked.line = << >>
    BY <1>3 DEF a
  <2>2. Slice(2, 4) = [k \in 1 .. 2 |-> Bytes[2 + k]]
    BY <1>4 DEF b
  <2>3. PICK e \in Nat, l \in Nat : \E h :
               /\ l <= e /\ h = [k \in 1 .. e |-> h[k]] /\ a.target = h \o p
               /\ Socks4Host = [k \in 1 .. l |-> h[k]]
               /\ l = e \/ ~r
               /\ IsSocks4a => ~Has(h, Brackets)
    OBVIOUS
  <2>4. PICK h :
               /\ l <= e /\ h = [k \in 1 .. e |-> h[k]] /\ a.target = h \o p
               /\ Socks4Host = [k \in 1 .. l |-> h[k]]
               /\ l = e \/ ~r
               /\ IsSocks4a => ~Has(h, Brackets)
    BY ONLY <2>3, Zenon
  <2>5. /\ l <= e /\ h = [k \in 1 .. e |-> h[k]] /\ script.asked.target = h \o Slice(2, 4)
        /\ Socks4Host = [k \in 1 .. l |-> h[k]] /\ (l = e \/ ~ReadInOne)
        /\ IsSocks4a => ~Has(h, Brackets)
    BY ONLY <2>4, Zenon DEF p, a, r
  <2> HIDE DEF r, p
  <2> QED
    BY <2>1, <2>2, <2>5, Zenon
<1>5. CASE ~a4
  <2>1. \A k \in 1 .. 4 : 4 + k - 1 \in 0 .. n - 1 /\ (4 + k - 1) + 1 = 4 + k
    BY <1>1
  <2>2. \A k \in 1 .. 4 : At(4 + k - 1) = b[4 + k]
    BY <1>1, <2>1
  <2>3. Slice(4, 8) = [k \in 1 .. 4 |-> At(4 + k - 1)]
    BY DEF Slice
  <2>4. Socks4Host = Slice(4, 8)
    BY <1>2, <1>5 DEF Socks4Host
  <2>5. Socks4Host = h4
    BY <2>2, <2>3, <2>4
  <2>6. h4 = [k \in 1 .. 4 |-> h4[k]]
    OBVIOUS
  <2>7. a.target = h4 \o p
    BY <1>5, <1>7
  <2> HIDE DEF h4, r
  <2>8. 4 \in Nat /\ 4 <= 4
    OBVIOUS
  <2> QED
    BY <1>2, <1>5, <2>5, <2>6, <2>7, <2>8
<1>6. CASE a4
  <2> DEFINE i0 == StringEnd(8) + 1
             e  == len - 1 - nul
  <2>1. Socks4Host = Slice(i0, StringEnd(i0))
    BY <1>2, <1>6 DEF Socks4Host, readUntilNull
  <2>0. a.target = hn \o p
    BY <1>6, <1>7
  <2>2. nul < len /\ e \in Nat /\ hn = [k \in 1 .. e |-> hn[k]] /\ Len(b) = len
    BY <1>3, <1>6 DEF len, b
  <2>3. \E l \in Nat : l <= e /\ Socks4Host = [k \in 1 .. l |-> hn[k]] /\ (l = e \/ ~r)
    <3>1. CASE n > 8 + u /\ i0 = nul
      <4>1. CASE n = len
        <5> DEFINE m == len - 1
        <5>1. m \in nul .. n - 1 /\ m \in 0 .. n - 1 /\ m + 1 = len
          BY <1>1, <1>3, <2>2, <4>1
        <5>2. At(m) = 0
          BY <1>1, <1>3, <5>1
        <5>3. \A j \in nul .. m - 1 : j \in 0 .. n - 1 /\ j + 1 \in 9 .. len - 1 /\ j + 1 # nul
          BY <1>1, <1>3, <4>1
        <5>4. \A j \in nul .. m - 1 : At(j) # 0
          BY <1>1, <1>3, <5>3
        <5>5. nul \in Nat
          BY <1>3
        <5>6. StringEnd(nul) = m
          <6> HIDE DEF m
          <6> QED
            BY <1>1, <5>1, <5>2, <5>4, <5>5, StringEndIs
        <5>7. \A k \in 1 .. e : nul + k - 1 \in 0 .. n - 1 /\ (nul + k - 1) + 1 = nul + k
          BY <1>1, <1>3, <4>1
        <5>8. \A k \in 1 .. e : At(nul + k - 1) = b[nul + k]
          BY <1>1, <5>7
        <5>9. Slice(nul, m) = [k \in 1 .. e |-> At(nul + k - 1)]
          BY DEF Slice
        <5>10. Socks4Host = [k \in 1 .. e |-> At(nul + k - 1)]
          BY <2>1, <3>1, <5>6, <5>9
        <5>11. Socks4Host = [k \in 1 .. e |-> hn[k]]
          BY <5>8, <5>10
        <5> HIDE DEF e, hn, r
        <5>12. e <= e
          BY <2>2
        <5> QED
          BY <2>2, <5>11, <5>12
      <4>2. CASE n # len
        <5> DEFINE l == n - nul
        <5>1. \A j \in nul .. n - 1 : j \in 0 .. n - 1 /\ j + 1 \in 9 .. len - 1 /\ j + 1 # nul
          BY <1>1, <1>3, <4>2
        <5>2. \A j \in nul .. n - 1 : At(j) # 0
          BY <1>1, <1>3, <5>1
        <5>3. nul \in Nat /\ l \in Nat /\ l <= e /\ (nul >= n => nul = n)
          BY <1>1, <1>3, <3>1, <4>2
        <5>4. StringEnd(nul) = n
          <6>1. StringEnd(nul) = IF nul >= n THEN nul ELSE n
            BY <1>1, <5>2, <5>3, StringEndIs
          <6> QED
            BY <5>3, <6>1
        <5>5. \A k \in 1 .. l : nul + k - 1 \in 0 .. n - 1 /\ (nul + k - 1) + 1 = nul + k /\ k \in 1 .. e
          BY <1>1, <1>3, <4>2
        <5>6. \A k \in 1 .. l : At(nul + k - 1) = hn[k]
          BY <1>1, <5>5
        <5>7. Socks4Host = [k \in 1 .. l |-> At(nul + k - 1)]
          BY <2>1, <3>1, <5>4 DEF Slice
        <5>8. Socks4Host = [k \in 1 .. l |-> hn[k]]
          BY <5>6, <5>7
        <5> HIDE DEF e, hn, r, l
        <5> QED
          BY <1>1, <4>2, <5>3, <5>8
      <4> QED
        BY <4>1, <4>2
    <3>2. CASE n <= 8 + u /\ i0 = n + 1
      <4> DEFINE i == n + 1
      <4>1. i \in Nat /\ i >= n /\ \A j \in i .. n - 1 : At(j) # 0
        BY <1>1
      <4>2. StringEnd(i) = i
        <5> HIDE DEF i
        <5> QED
          BY <1>1, <4>1, StringEndIs
      <4>3. Slice(i, i) = [k \in 1 .. 0 |-> At(i + k - 1)]
        <5>1. i - i = 0
          BY <4>1
        <5> HIDE DEF i
        <5> QED
          BY <5>1 DEF Slice
      <4>4. Socks4Host = [k \in 1 .. 0 |-> At(i + k - 1)]
        BY <2>1, <3>2, <4>2, <4>3
      <4>5. Socks4Host = [k \in 1 .. 0 |-> hn[k]]
        BY <4>4
      <4>6. n # len /\ 0 <= e /\ 0 \in Nat
        BY <1>1, <1>3, <2>2, <3>2
      <4> HIDE DEF e, hn, r
      <4> QED
        BY <1>1, <4>5, <4>6
    <3>3. \/ n > 8 + u /\ StringEnd(8) = 8 + u
          \/ n <= 8 + u /\ StringEnd(8) = n
      BY Socks4User DEF u, usr
    <3>4. (8 + u) + 1 = nul
      BY <1>3
    <3> QED
      BY <3>1, <3>2, <3>3, <3>4
  <2>4. ~Has(hn, Brackets)
    BY <1>3, <1>6
  <2> HIDE DEF e, hn, r
  <2> QED
    BY <2>0, <2>2, <2>3, <2>4
<1> QED
  BY <1>5, <1>6

\* h is a sequence of e bytes of which l have arrived, and p one of two.
HostOf(h, p, e, l) ==
  e \in Nat /\ l \in Nat /\ l <= e /\ h = [k \in 1 .. e |-> h[k]] /\ p = [k \in 1 .. 2 |-> p[k]]

\* A target is the host and the two bytes of the port behind it.
LEMMA HostAndPort ==
  ASSUME NEW h, NEW p, NEW e, NEW l, HostOf(h, p, e, l)
  PROVE  LET asked == h \o p
         IN  /\ SubSeq(asked, 1, Len(asked) - 2) = h
             /\ SubSeq(asked, Len(asked) - 1, Len(asked)) = p
             /\ Len(h) = e /\ SubSeq(h, 1, l) = [k \in 1 .. l |-> h[k]]
<1> DEFINE asked == h \o p
           S     == {h[k] : k \in 1 .. e} \cup {p[k] : k \in 1 .. 2}
<1>0. /\ e \in Nat /\ l \in Nat /\ l <= e
      /\ h = [k \in 1 .. e |-> h[k]] /\ p = [k \in 1 .. 2 |-> p[k]]
  BY DEF HostOf
<1>1. h \in [1 .. e -> S] /\ p \in [1 .. 2 -> S]
  <2>1. \A k \in 1 .. e : h[k] \in S
    OBVIOUS
  <2>2. \A k \in 1 .. 2 : p[k] \in S
    OBVIOUS
  <2> HIDE DEF S
  <2> QED
    BY <1>0, <2>1, <2>2
<1> HIDE DEF S
<1>2. h \in Seq(S) /\ p \in Seq(S) /\ Len(h) = e /\ Len(p) = 2
  BY <1>0, <1>1
<1>3. /\ Len(asked) = e + 2
      /\ \A k \in 1 .. e : asked[k] = h[k]
      /\ \A k \in 1 .. 2 : asked[e + k] = p[k]
  BY <1>0, <1>2
<1> HIDE DEF asked
<1>4. Len(asked) - 2 = e /\ Len(asked) - 1 = e + 1
  BY <1>0, <1>3
<1>5. SubSeq(asked, 1, e) = h /\ SubSeq(h, 1, l) = [k \in 1 .. l |-> h[k]]
  <2>0. e \in Int /\ l \in Int /\ 1 \in Int
    BY <1>0
  <2>1. SubSeq(asked, 1, e) = [k \in 1 .. e - 1 + 1 |-> asked[1 + k - 1]]
    BY ONLY <2>0, SubSeqIs
  <2>2. SubSeq(h, 1, l) = [k \in 1 .. l - 1 + 1 |-> h[1 + k - 1]]
    BY ONLY <2>0, SubSeqIs
  <2>3. e - 1 + 1 = e /\ l - 1 + 1 = l /\ \A k \in Nat : 1 + k - 1 = k
    BY ONLY <2>0
  <2>4. SubSeq(asked, 1, e) = [k \in 1 .. e |-> asked[k]]
    BY ONLY <2>0, <2>1, <2>3
  <2>5. SubSeq(h, 1, l) = [k \in 1 .. l |-> h[k]]
    BY ONLY <2>0, <2>2, <2>3
  <2>6. [k \in 1 .. e |-> asked[k]] = [k \in 1 .. e |-> h[k]]
    BY ONLY <1>3
  <2>7. h = [k \in 1 .. e |-> h[k]]
    BY ONLY <1>0, Zenon
  <2> QED
    BY ONLY <2>4, <2>5, <2>6, <2>7, Zenon
<1>6. SubSeq(asked, e + 1, e + 2) = p
  <2> DEFINE i == e + 1
             j == e + 2
  <2>1. i \in Int /\ j \in Int /\ j - i + 1 = 2 /\ \A k \in 1 .. 2 : i + k - 1 = e + k
    BY <1>0
  <2> HIDE DEF i, j
  <2>2. SubSeq(asked, i, j) = [k \in 1 .. j - i + 1 |-> asked[i + k - 1]]
    BY ONLY <2>1, SubSeqIs
  <2>3. \A k \in 1 .. 2 : asked[i + k - 1] = p[k]
    BY ONLY <1>3, <2>1
  <2>4. SubSeq(asked, i, j) = [k \in 1 .. 2 |-> p[k]]
    BY ONLY <2>1, <2>2, <2>3
  <2> QED
    BY <1>0, <2>4 DEF i, j
<1>7. /\ SubSeq(asked, 1, Len(asked) - 2) = h
      /\ SubSeq(asked, Len(asked) - 1, Len(asked)) = p
  BY <1>3, <1>4, <1>5, <1>6
<1> QED
  BY <1>2, <1>5, <1>7 DEF asked

\* The target is the host and the port: there are no brackets in it.
LEMMA Socks4TargetIs ==
  ASSUME NEW h, NEW e \in Nat, NEW l \in Nat, l <= e, h = [k \in 1 .. e |-> h[k]],
         Socks4Host = [k \in 1 .. l |-> h[k]], IsSocks4a => ~Has(h, Brackets)
  PROVE  Socks4Target = Socks4Host \o Slice(2, 4)
<1>1. CASE ~IsSocks4a
  BY <1>1 DEF Socks4Target, Socks4Host
<1>2. CASE IsSocks4a
  <2> DEFINE x == readUntilNull(StringEnd(8) + 1)
             p == Slice(2, 4)
  <2>1. x = Socks4Host /\ Socks4Target = Dest(x, p, ByteText)
    BY <1>2 DEF Socks4Target, Socks4Host
  <2> HIDE DEF x, p
  <2>2. ~Has(x, Brackets)
    <3>1. DOMAIN x = 1 .. l /\ DOMAIN h = 1 .. e /\ 1 .. l \subseteq 1 .. e
      BY <2>1
    <3>2. \A i \in 1 .. l : x[i] = h[i]
      BY <2>1
    <3>3. \A i \in DOMAIN h : h[i] \notin Brackets
      BY <1>2 DEF Has
    <3> QED
      BY <3>1, <3>2, <3>3 DEF Has
  <2>3. Dest(x, p, ByteText) = x \o p
    BY <2>2 DEF Dest, Brackets
  <2> QED
    BY <2>1, <2>3 DEF p
<1> QED
  BY <1>1, <1>2

\* The request is queued, unless the name of the user fills the buffer.
LEMMA Socks4ServeSingle ==
  ASSUME Single, TakenAsGiven, Socks4Filled, At(1) = CmdConnect, NEW creds, Socks4Serve(creds),
         \A v \in creds : v.name = readUntilNull(8) /\ v.pass = << >>
  PROVE  OneInv' /\ TakenAsGiven' /\ (crashed' => crashed \/ Overlong)
<1> DEFINE user   == readUntilNull(8)
           target == Socks4Target
<1>1. /\ script.kind = "socks4" /\ script.pass = << >> /\ (ReadInOne => n = Len(Bytes)) /\ base = 0
      /\ n \in Nat
  BY Socks4Read, SingleFacts
<1>2. CASE IsSocks4a /\ StringEnd(8) = Socks4Buf
  <2>1. Crash
    BY <1>2 DEF Socks4Serve
  <2>2. UNCHANGED <<script, whole, sent, base, n, want, verified, ctx, stage>>
    BY <2>1 DEF Crash, clientVars
  <2>3. OneInv' /\ TakenAsGiven'
    BY <2>2, AskedSingle, TakenStays
  <2>4. n <= Socks4Buf
    BY DEF Socks4Filled, Filled, Single, OneInv
  <2> DEFINE u == Len(script.user)
  <2>5. \/ n > 8 + u /\ StringEnd(8) = 8 + u
        \/ n <= 8 + u /\ StringEnd(8) = n
    BY Socks4User
  <2>6. u \in Nat
    <3>1. Socks4At(Bytes, Len(Bytes), script.user, Len(script.user), 9 + Len(script.user), script.asked)
      BY Socks4Read
    <3> QED
      BY ONLY <3>1, Zenon DEF Socks4At
  <2> HIDE DEF u
  <2>7. u > Socks4Buf - 9
    BY ONLY <1>1, <1>2, <2>4, <2>5, <2>6, Socks4BufAssumption
  <2>8. Overlong
    BY <1>1, <2>7 DEF Overlong, u
  <2> QED
    BY <2>3, <2>8
<1>3. CASE Enqueue([target |-> target, line |-> << >>], creds)
  <2>1. /\ UNCHANGED <<conf, script, whole, sent, base, n, crashed>>
        /\ stage' = "queued" /\ ctx' = [target |-> target, line |-> << >>] /\ verified' = creds
        /\ Bytes' = Bytes /\ ReadInOne' = ReadInOne
    <3> HIDE DEF target
    <3> QED
      BY <1>3, Fixed DEF Enqueue, clientVars, ReadInOne
  <2>2. OneInv'
    BY <2>1, ParsedSingle DEF OneRead
  <2>3. VerifiedAsGiven'
    <3>1. user = script.user \/ (~ReadInOne /\ IsPrefix(user, script.user))
      <4>1. CASE ~ReadInOne
        BY <4>1, Socks4User
      <4>2. CASE ReadInOne
        <5>1. n = Len(Bytes)
          BY <1>1, <4>2
        <5> DEFINE b == Bytes
                   u == Len(script.user)
        <5>2. ~(n <= 8 + u)
          <6>1. Socks4At(b, Len(b), script.user, u, 9 + u, script.asked)
            BY Socks4Read
          <6>2. Len(b) = n
            BY <5>1
          <6> HIDE DEF b, u
          <6> QED
            BY ONLY <1>1, <6>1, <6>2 DEF Socks4At
        <5>3. n <= 8 + u \/ user = script.user
          BY Socks4User, Zenon
        <5> QED
          BY <5>2, <5>3, Zenon
      <4> QED
        BY <4>1, <4>2
    <3> QED
      BY <1>1, <2>1, <3>1 DEF VerifiedAsGiven
  <2>4. QueuedAsAsked'
    <3> DEFINE asked == script.asked.target
               host  == SubSeq(asked, 1, Len(asked) - 2)
               port  == SubSeq(asked, Len(asked) - 1, Len(asked))
    <3>1. script.asked.line = << >> /\ Slice(2, 4) = [k \in 1 .. 2 |-> Bytes[2 + k]]
      BY Socks4HostIs
    <3>2. PICK e \in Nat, l \in Nat : \E h :
              /\ l <= e /\ h = [k \in 1 .. e |-> h[k]] /\ asked = h \o Slice(2, 4)
              /\ Socks4Host = [k \in 1 .. l |-> h[k]]
              /\ l = e \/ ~ReadInOne
              /\ IsSocks4a => ~Has(h, Brackets)
      BY Socks4HostIs, Zenon
    <3>3. PICK h :
              /\ l <= e /\ h = [k \in 1 .. e |-> h[k]] /\ asked = h \o Slice(2, 4)
              /\ Socks4Host = [k \in 1 .. l |-> h[k]]
              /\ l = e \/ ~ReadInOne
              /\ IsSocks4a => ~Has(h, Brackets)
      BY <3>2, Zenon
    <3> DEFINE p == Slice(2, 4)
    <3>4. p = [k \in 1 .. 2 |-> p[k]]
      BY <3>1
    <3> HIDE DEF p, asked
    <3>5. /\ l <= e /\ h = [k \in 1 .. e |-> h[k]] /\ asked = h \o p
          /\ Socks4Host = [k \in 1 .. l |-> h[k]] /\ (l = e \/ ~ReadInOne)
          /\ target = Socks4Host \o p
      <4>1. target = Socks4Host \o Slice(2, 4)
        BY <3>3, Socks4TargetIs
      <4> QED
        BY <3>3, <4>1, Zenon DEF p
    <3>6. /\ host = h /\ port = p /\ Len(h) = e /\ SubSeq(h, 1, l) = [k \in 1 .. l |-> h[k]]
      <4>1. HostOf(h, p, e, l)
        BY <3>4, <3>5 DEF HostOf
      <4>2. LET as == h \o p
            IN  /\ SubSeq(as, 1, Len(as) - 2) = h
                /\ SubSeq(as, Len(as) - 1, Len(as)) = p
                /\ Len(h) = e /\ SubSeq(h, 1, l) = [k \in 1 .. l |-> h[k]]
        BY ONLY <4>1, HostAndPort
      <4> QED
        BY ONLY <3>5, <4>2, Zenon
    <3> HIDE DEF host, port
    <3>7. target = SubSeq(host, 1, l) \o port
      BY ONLY <3>5, <3>6, Zenon
    <3>8. l \in 0 .. Len(host)
      BY <3>5, <3>6
    <3>9. \/ target = asked
          \/ ~ReadInOne /\ \E k \in 0 .. Len(host) : target = SubSeq(host, 1, k) \o port
      <4>1. CASE l = e
        <5>1. Socks4Host = h
          BY ONLY <3>5, <4>1, Zenon
        <5> QED
          BY ONLY <3>5, <5>1, Zenon
      <4>2. CASE ~ReadInOne
        BY <3>7, <3>8, <4>2, Zenon
      <4> QED
        BY <3>5, <4>1, <4>2
    <3>10. << >> = << >> \o << >>
      OBVIOUS
    <3> HIDE DEF target
    <3>11. ctx'.target = target /\ ctx'.line = << >>
      BY <2>1
    <3>12. base + n = n
      BY <1>1
    <3>13. /\ \/ ctx'.target = asked
              \/ /\ script.kind = "socks4" /\ ~ReadInOne
                 /\ \E k \in 0 .. Len(host) : ctx'.target = SubSeq(host, 1, k) \o port
           /\ ctx'.line = script.asked.line \o << >>
           /\ ReadInOne => base + n = Len(Bytes)
      BY <1>1, <3>1, <3>9, <3>10, <3>11, <3>12
    <3> QED
      BY <1>1, <2>1, <3>13 DEF QueuedAsAsked, asked, host, port
  <2> QED
    BY <2>1, <2>2, <2>3, <2>4 DEF TakenAsGiven
<1> QED
  BY <1>2, <1>3 DEF Socks4Serve

\* The message is parsed: the client's user is verified, and its request queued.
LEMMA Socks4Single ==
  ASSUME Single, Socks4Request \/ Socks4Auth, TakenAsGiven
  PROVE  OneInv' /\ TakenAsGiven' /\ (crashed' => crashed \/ Overlong)
<1> DEFINE user == readUntilNull(8)
<1>1. Socks4Filled
  BY DEF Socks4Request, Socks4Auth, Socks4Filled
<1>2. CASE GiveUp
  <2>1. /\ UNCHANGED <<script, whole, sent, base, verified, crashed>>
        /\ stage' = "error"
    BY <1>2 DEF GiveUp, clientVars
  <2> QED
    BY <2>1, ParsedSingle, TakenStays DEF OneRead
<1>3. CASE Filled("socks4") /\ At(1) = 1 /\ Continue("socks4Auth", want)
  <2>1. /\ UNCHANGED <<script, whole, sent, base, n, want, verified, crashed>>
        /\ stage = "socks4" /\ stage' = "socks4Auth"
    BY <1>3 DEF Continue, clientVars, Filled
  <2>2. n >= 8
    BY <1>1, Socks4Read
  <2> QED
    BY <1>3, <2>1, <2>2, AskedSingle, TakenStays
<1>4. CASE At(1) = 1 /\ Socks4Serve({})
  BY <1>1, <1>4, Socks4ServeSingle DEF CmdConnect
<1>5. CASE Filled("socks4Auth") /\ Socks4Serve({[name |-> user, pass |-> << >>]})
  <2>1. At(1) = 1
    BY <1>5 DEF Filled, Single, OneInv
  <2> DEFINE creds == {[name |-> user, pass |-> << >>]}
  <2>2. \A v \in creds : v.name = user /\ v.pass = << >>
    OBVIOUS
  <2>3. Socks4Serve(creds)
    BY <1>5
  <2> HIDE DEF creds
  <2> QED
    BY <1>1, <2>1, <2>2, <2>3, Socks4ServeSingle DEF CmdConnect
<1>6. CASE Socks4Request
  <2>1. \/ At(1) # 1 /\ GiveUp
        \/ At(1) = 1 /\ Enable(conf.users) /\ Continue("socks4Auth", want)
        \/ At(1) = 1 /\ ~Enable(conf.users) /\ Socks4Serve({})
    BY <1>6 DEF Socks4Request
  <2> QED
    BY <1>2, <1>3, <1>4, <1>6, <2>1 DEF Socks4Request
<1>7. CASE Socks4Auth
  BY <1>2, <1>5, <1>7 DEF Socks4Auth
<1> QED
  BY <1>6, <1>7

-----------------------------------------------------------------------------
(* The target of an HTTP request *)

\* p consists of the l tokens of t behind token a.
IsPiece(p, t, a, l) ==
  /\ a \in Nat /\ l \in Nat
  /\ DOMAIN p = 1 .. l /\ Len(p) = l /\ \A k \in 1 .. l : p[k] = t[a + k]

Piece(t, a, l) == [k \in 1 .. l |-> t[a + k]]

LEMMA PieceIs ==
  ASSUME NEW t, NEW a \in Nat, NEW l \in Nat
  PROVE  IsPiece(Piece(t, a, l), t, a, l)
BY DEF IsPiece, Piece

\* A part of a piece is a piece.
Within(p, t, a, l, i, m) == IsPiece(p, t, a, l) /\ i \in Nat /\ m \in Nat /\ i + m <= l

LEMMA PartOfPiece ==
  ASSUME NEW p, NEW t, NEW a, NEW l, NEW i, NEW m, Within(p, t, a, l, i, m)
  PROVE  SubSeq(p, i + 1, i + m) = Piece(t, a + i, m)
<1>0. a \in Nat /\ l \in Nat /\ i \in Nat /\ m \in Nat /\ i + m <= l /\ IsPiece(p, t, a, l)
  BY DEF Within, IsPiece
<1> DEFINE f == i + 1
           j == i + m
<1>1. f \in Int /\ j \in Int /\ j - f + 1 = m
  BY <1>0
<1>2. \A k \in 1 .. m : f + k - 1 = i + k /\ i + k \in 1 .. l /\ a + (i + k) = (a + i) + k
  BY <1>0
<1> HIDE DEF f, j
<1>3. SubSeq(p, f, j) = [k \in 1 .. j - f + 1 |-> p[f + k - 1]]
  BY ONLY <1>1, SubSeqIs
<1>4. \A k \in 1 .. m : p[f + k - 1] = t[(a + i) + k]
  <2>1. \A k \in 1 .. m : p[f + k - 1] = p[i + k] /\ p[i + k] = t[a + (i + k)]
    BY <1>0, <1>2 DEF IsPiece
  <2> QED
    BY <1>2, <2>1
<1>5. SubSeq(p, f, j) = [k \in 1 .. m |-> t[(a + i) + k]]
  BY ONLY <1>1, <1>3, <1>4
<1> QED
  BY <1>5 DEF f, j, Piece

\* Splitting a piece at the first of the tokens xs, which is its token i or does not occur.
FirstAt(p, t, a, l, xs, i) ==
  /\ IsPiece(p, t, a, l) /\ i \in 1 .. l + 1
  /\ \A j \in 1 .. i - 1 : t[a + j] \notin xs
  /\ i <= l => t[a + i] \in xs

LEMMA SplitIs ==
  ASSUME NEW p, NEW t, NEW a, NEW l, NEW xs, NEW i, FirstAt(p, t, a, l, xs, i)
  PROVE  /\ Has(p, xs) <=> i <= l
         /\ Index(p, xs) = i
         /\ Before(p, xs) = Piece(t, a, i - 1)
         /\ i <= l => After(p, xs) = Piece(t, a + i, l - i)
<1>0. a \in Nat /\ l \in Nat /\ i \in 1 .. l + 1 /\ IsPiece(p, t, a, l)
  BY DEF FirstAt, IsPiece
<1>1. /\ DOMAIN p = 1 .. l /\ Len(p) = l /\ \A k \in 1 .. l : p[k] = t[a + k]
      /\ \A j \in 1 .. i - 1 : t[a + j] \notin xs
      /\ i <= l => t[a + i] \in xs
  BY DEF FirstAt, IsPiece
<1>2. CASE i <= l
  <2>1. i \in 1 .. l /\ p[i] \in xs
    BY <1>0, <1>1, <1>2
  <2>2. Has(p, xs)
    BY <1>1, <2>1 DEF Has
  <2> DEFINE at == {k \in DOMAIN p : p[k] \in xs}
  <2>3. i \in at
    BY <1>1, <2>1
  <2>4. \A k \in at : k \in Int /\ i <= k
    <3> SUFFICES ASSUME NEW k \in at, k < i PROVE FALSE
      BY <1>0, <1>1, <2>1
    <3>1. k \in 1 .. i - 1 /\ k \in 1 .. l /\ p[k] \in xs
      BY <1>0, <1>1, <2>1
    <3> QED
      BY <1>1, <3>1
  <2>5. Min(at) = i
    <3> HIDE DEF at
    <3>1. \A x \in at : (\A y \in at : x <= y) => x = i
      BY <2>3, <2>4
    <3> QED
      BY ONLY <2>3, <2>4, <3>1 DEF Min
  <2>6. Index(p, xs) = i
    BY <2>2, <2>5 DEF Index
  <2> QED
    <3>1. i - 1 \in Nat /\ 0 + (i - 1) <= l /\ l - i \in Nat /\ i + (l - i) <= l /\ i \in Nat /\ 0 \in Nat
      BY <1>0, <1>2
    <3> DEFINE m == i - 1
               r == l - i
    <3>2. m \in Nat /\ 0 + m <= l /\ r \in Nat /\ i + r <= l /\ 0 + 1 = 1 /\ 0 + m = m /\ i + r = l /\ a + 0 = a
      BY <1>0, <3>1
    <3> HIDE DEF m, r
    <3>3. SubSeq(p, 0 + 1, 0 + m) = Piece(t, a + 0, m)
      <4>1. Within(p, t, a, l, 0, m)
        BY <1>0, <3>2 DEF Within
      <4> QED
        BY ONLY <4>1, PartOfPiece
    <3>4. SubSeq(p, i + 1, i + r) = Piece(t, a + i, r)
      <4>1. Within(p, t, a, l, i, r)
        BY <1>0, <3>1, <3>2 DEF Within
      <4> QED
        BY ONLY <4>1, PartOfPiece
    <3>5. SubSeq(p, 1, m) = Piece(t, a, m) /\ SubSeq(p, i + 1, l) = Piece(t, a + i, r)
      BY <3>2, <3>3, <3>4
    <3>6. Before(p, xs) = SubSeq(p, 1, i - 1) /\ After(p, xs) = SubSeq(p, i + 1, l)
      BY <1>1, <2>6 DEF Before, After
    <3> QED
      BY <1>2, <2>2, <2>6, <3>5, <3>6 DEF m, r
<1>3. CASE ~(i <= l)
  <2>1. i = l + 1 /\ \A j \in 1 .. l : j \in 1 .. i - 1
    BY <1>0, <1>3
  <2>2. ~Has(p, xs)
    BY <1>1, <2>1 DEF Has
  <2>3. Index(p, xs) = i
    BY <1>1, <2>1, <2>2 DEF Index
  <2>4. SubSeq(p, 0 + 1, 0 + l) = Piece(t, a + 0, l)
    <3>1. Within(p, t, a, l, 0, l)
      BY <1>0 DEF Within
    <3> QED
      BY ONLY <3>1, PartOfPiece
  <2>5. 0 + 1 = 1 /\ 0 + l = l /\ a + 0 = a /\ i - 1 = l
    BY <1>0, <2>1
  <2>6. Before(p, xs) = SubSeq(p, 1, i - 1)
    BY <2>3 DEF Before
  <2> QED
    BY <1>3, <2>2, <2>3, <2>4, <2>5, <2>6
<1> QED
  BY <1>2, <1>3

\* A host without brackets stays as it is.
PlainHost(h, t, a, l) == IsPiece(h, t, a, l) /\ \A i \in 1 .. l : t[a + i] \notin Marks

LEMMA DestIs ==
  ASSUME NEW h, NEW t, NEW a, NEW l, PlainHost(h, t, a, l), NEW p
  PROVE  Dest(h, p, TokenText) = h \o p
<1>1. \A i \in DOMAIN h : h[i] \notin {TokenText.open, TokenText.close}
  BY DEF PlainHost, IsPiece, TokenText, Marks
<1>2. ~Has(h, {TokenText.open, TokenText.close})
  BY <1>1 DEF Has
<1> QED
  BY <1>2 DEF Dest

\* The marks and a port are told apart, and a port alone is its number.
PortAt(x, r, t, a) == IsPort(x) /\ IsPiece(r, t, a, 1) /\ t[a + 1] = x

LEMMA PortIs ==
  ASSUME NEW x, NEW r, NEW t, NEW a, PortAt(x, r, t, a)
  PROVE  /\ x \notin {Colon, Slash, Slash2} /\ ~Has(r, {Colon})
         /\ Num(Atoi(r)) = x
<1> DEFINE y == x[2]
<1>1. x[1] = "num" /\ x = Num(y) /\ y \in 0 .. Uint16 - 1
  BY Zenon DEF PortAt, IsPort
<1>2. x \notin {Colon, Slash, Slash2}
  <2>1. Colon[1] = ":" /\ Slash[1] = "/" /\ Slash2[1] = "//"
    BY DEF Colon, Slash, Slash2
  <2>2. x[1] # Colon[1] /\ x[1] # Slash[1] /\ x[1] # Slash2[1]
    BY ONLY <1>1, <2>1
  <2> QED
    BY ONLY <2>2, Zenon
<1>3. DOMAIN r = 1 .. 1 /\ Len(r) = 1 /\ r[1] = x
  BY DEF PortAt, IsPiece
<1>4. ~Has(r, {Colon})
  <2>1. \A i \in DOMAIN r : r[i] = x
    BY ONLY <1>3
  <2> QED
    BY ONLY <1>2, <2>1, Zenon DEF Has
<1> HIDE DEF y
<1>5. Atoi(r) = y % Uint16
  <2>1. r[1][1] = "num" /\ r[1][2] = y
    BY ONLY <1>1, <1>3, Zenon DEF y
  <2> QED
    BY ONLY <1>3, <2>1, Zenon DEF Atoi
<1>6. y % Uint16 = y
  <2>1. y \in 0 .. Uint16 - 1
    BY ONLY <1>1, Zenon
  <2>2. y \in Int /\ 0 <= y /\ y < 65536
    BY ONLY <2>1 DEF Uint16
  <2>3. y % 65536 = y
    BY ONLY <2>2, Z3
  <2> QED
    BY <2>3 DEF Uint16
<1> QED
  BY ONLY <1>1, <1>2, <1>4, <1>5, <1>6, Zenon

\* The three signs are different, and no host has one of them.
LEMMA Signs ==
  /\ Colon \notin {Slash, Slash2} /\ Slash # Slash2
  /\ {Colon} \subseteq Marks /\ {Slash, Slash2} \subseteq Marks /\ {Slash2} \subseteq {Slash, Slash2}
BY DEF Colon, Slash, Slash2, Marks

\* The target of a CONNECT to a plain one.
LEMMA ConnectIs ==
  ASSUME NEW t, Len(t) \in Nat, DOMAIN t = 1 .. Len(t), PlainConnect(t),
         NEW asked, ConnectAsks(t, asked)
  PROVE  /\ Has(t, {Colon}) /\ ConnectTarget(t) = asked.target
         /\ asked.line = << >>
<1> DEFINE Z == Len(t)
           c == Z - 1
           r == After(t, {Colon})
           x == t[Z]
<1>1. /\ Z \in Nat /\ Z > 2 /\ t[c] = Colon /\ IsPort(x)
      /\ \A i \in 1 .. Z - 2 : t[i] \notin Marks
  BY DEF PlainConnect
<1>2. IsPiece(t, t, 0, Z)
  BY <1>1 DEF IsPiece
<1> HIDE DEF Z
<1>3. /\ c \in 1 .. Z + 1 /\ c <= Z /\ 0 + c = c /\ c - 1 = Z - 2 /\ Z - c = 1 /\ c \in Nat
      /\ Z - 2 \in Nat /\ 0 \in Nat /\ 1 \in Nat /\ c + 1 = Z
      /\ \A j \in 1 .. c - 1 : 0 + j = j /\ j \in 1 .. Z - 2
  BY <1>1
<1>4. \A j \in 1 .. c - 1 : t[0 + j] \notin {Colon}
  BY <1>1, <1>3, Signs
<1>5. t[0 + c] \in {Colon}
  BY <1>1, <1>3
<1> HIDE DEF c
<1>6. /\ Has(t, {Colon}) /\ Before(t, {Colon}) = Piece(t, 0, c - 1)
      /\ r = Piece(t, 0 + c, Z - c)
  <2>1. FirstAt(t, t, 0, Z, {Colon}, c)
    BY <1>2, <1>3, <1>4, <1>5 DEF FirstAt
  <2>2. /\ Has(t, {Colon}) <=> c <= Z
        /\ Before(t, {Colon}) = Piece(t, 0, c - 1)
        /\ c <= Z => After(t, {Colon}) = Piece(t, 0 + c, Z - c)
    BY ONLY <2>1, SplitIs
  <2> QED
    BY <1>3, <2>2
<1>7. Before(t, {Colon}) = Piece(t, 0, Z - 2) /\ r = Piece(t, c, 1)
  BY <1>3, <1>6
<1> HIDE DEF r
<1>8. IsPiece(r, t, c, 1)
  BY <1>3, <1>7, PieceIs
<1>9. ~Has(r, {Colon}) /\ Num(Atoi(r)) = x
  <2>1. t[c + 1] = x
    BY <1>3
  <2> HIDE DEF x
  <2>2. PortAt(x, r, t, c)
    BY <1>1, <1>8, <2>1 DEF PortAt
  <2> QED
    BY ONLY <2>2, PortIs, Zenon
<1>10. Before(r, {Colon}) = r
  <2>1. \A j \in 1 .. 2 - 1 : t[c + j] \notin {Colon}
    <3>1. r[1] = t[c + 1] /\ r[1] \notin {Colon}
      BY <1>8, <1>9 DEF IsPiece, Has
    <3>2. \A j \in 1 .. 2 - 1 : j = 1
      OBVIOUS
    <3> QED
      BY <3>1, <3>2
  <2>2. Before(r, {Colon}) = Piece(t, c, 2 - 1)
    <3>1. FirstAt(r, t, c, 1, {Colon}, 2)
      BY <1>8, <2>1 DEF FirstAt
    <3> QED
      BY ONLY <3>1, SplitIs
  <2>3. 2 - 1 = 1
    OBVIOUS
  <2> QED
    BY <1>7, <2>2, <2>3
<1> DEFINE h == Piece(t, 0, Z - 2)
<1>11. IsPiece(h, t, 0, Z - 2) /\ \A i \in 1 .. Z - 2 : t[0 + i] \notin Marks
  BY <1>1, <1>3, PieceIs
<1> HIDE DEF h
<1>12. Dest(h, <<x>>, TokenText) = h \o <<x>>
  <2>1. PlainHost(h, t, 0, Z - 2)
    BY <1>11 DEF PlainHost
  <2> QED
    BY ONLY <2>1, DestIs, Zenon
<1>13. ConnectTarget(t) = Dest(h, <<Num(Atoi(r))>>, TokenText)
  BY <1>7, <1>10 DEF ConnectTarget, r, h
<1>14. SubSeq(t, 1, Z - 2) = h
  <2> DEFINE m == Z - 2
  <2>1. m \in Nat /\ 0 + m <= Z /\ 0 + 1 = 1 /\ 0 + m = m /\ 0 + 0 = 0
    BY <1>1, <1>3
  <2> HIDE DEF m
  <2>2. SubSeq(t, 0 + 1, 0 + m) = Piece(t, 0 + 0, m)
    <3>1. Within(t, t, 0, Z, 0, m)
      BY <1>2, <2>1 DEF Within
    <3> QED
      BY ONLY <3>1, PartOfPiece
  <2> QED
    BY <2>1, <2>2 DEF h, m
<1>15. asked = [target |-> h \o <<x>>, line |-> << >>]
  BY <1>14 DEF ConnectAsks, Z
<1>16. ConnectTarget(t) = h \o <<x>>
  BY <1>9, <1>12, <1>13
<1> DEFINE w == h \o <<x>>
<1> HIDE DEF w
<1>17. asked = [target |-> w, line |-> << >>] /\ ConnectTarget(t) = w
  BY <1>15, <1>16 DEF w
<1>18. asked.target = w /\ asked.line = << >>
  BY ONLY <1>17
<1> QED
  BY <1>6, <1>17, <1>18

\* The target and the path of any other request for a plain one.
LEMMA UrlIs ==
  ASSUME NEW t, Len(t) \in Nat, DOMAIN t = 1 .. Len(t), NEW a \in DOMAIN t, NEW h \in DOMAIN t,
         PlainUrl(t, a, h), NEW asked, UrlAsks(t, a, h, asked)
  PROVE  /\ t # << >> /\ RestUrl(t) # << >>
         /\ UrlTarget(t) = asked.target
         /\ asked.line[1] = <<"get", UrlPath(t)>>
<1> DEFINE Z  == Len(t)
           R  == Z - a
           H  == h - a
           r  == RestUrl(t)
           as == HostPort(t)
           hp == Piece(t, a, H)
           sl == {Slash, Slash2}
<1>1. /\ Z \in Nat /\ a \in 1 .. Z /\ h \in 1 .. Z /\ a < h
      /\ t[a] = Slash2 /\ \A i \in 1 .. a - 1 : t[i] \notin sl
      /\ \A i \in a + 1 .. h : t[i] \notin Marks
  BY DEF PlainUrl
<1>2. \/ h = Z
      \/ h < Z /\ t[h + 1] \in sl
      \/ /\ h + 1 < Z /\ t[h + 1] = Colon /\ IsPort(t[h + 2])
         /\ h + 2 < Z => t[h + 3] \in sl
  BY DEF PlainUrl
<1>3. IsPiece(t, t, 0, Z)
  BY <1>1 DEF IsPiece
<1> HIDE DEF Z
<1>4. /\ R \in Nat /\ R >= 1 /\ H \in Nat /\ H >= 1 /\ H <= R /\ a + H = h /\ a \in Nat /\ h \in Nat
      /\ 0 \in Nat /\ 1 \in Nat /\ a + R = Z /\ 0 + a = a
  BY <1>1
<1>5. \A i \in 1 .. H : t[a + i] \notin Marks
  <2>1. \A i \in 1 .. H : a + i \in a + 1 .. h
    BY <1>1
  <2> QED
    BY <1>1, <2>1
<1> HIDE DEF sl
<1>6. Has(t, {Slash2}) /\ r = Piece(t, a, R)
  <2>1. a \in 1 .. Z + 1 /\ a <= Z /\ \A j \in 1 .. a - 1 : 0 + j = j
    BY <1>1
  <2>2. (\A j \in 1 .. a - 1 : t[0 + j] \notin {Slash2}) /\ t[0 + a] \in {Slash2}
    BY <1>1, <1>4, <2>1 DEF sl
  <2>3. Has(t, {Slash2}) /\ After(t, {Slash2}) = Piece(t, 0 + a, Z - a)
    <3>1. FirstAt(t, t, 0, Z, {Slash2}, a)
      BY <1>3, <2>1, <2>2 DEF FirstAt
    <3>2. /\ Has(t, {Slash2}) <=> a <= Z
          /\ a <= Z => After(t, {Slash2}) = Piece(t, 0 + a, Z - a)
      BY ONLY <3>1, SplitIs
    <3> QED
      BY <2>1, <3>2
  <2> QED
    BY <1>4, <2>3 DEF RestUrl
<1> HIDE DEF R, H
<1>7. IsPiece(r, t, a, R) /\ r # << >> /\ t # << >>
  <2>1. IsPiece(r, t, a, R)
    BY <1>4, <1>6, PieceIs
  <2>2. Len(r) = R /\ R # 0
    BY <1>4, <2>1 DEF IsPiece
  <2>3. Z # 0 /\ Len(t) = Z
    BY <1>1 DEF Z
  <2> HIDE DEF r
  <2> QED
    BY <2>1, <2>2, <2>3
<1>8. IsPiece(hp, t, a, H)
  BY <1>4, PieceIs
<1>9. as = Before(r, sl)
  BY DEF HostPort, sl
<1> HIDE DEF r, as, hp
<1>15. PlainHost(hp, t, a, H)
  BY <1>5, <1>8 DEF PlainHost
\* The request line, as far as it depends on where the path begins.
<1>10. ASSUME NEW i \in 1 .. R + 1, Index(r, sl) = i, Has(r, sl) <=> i <= R
       PROVE  UrlPath(t) = IF a + i <= Z THEN SubSeq(t, a + i, Z) ELSE <<Slash>>
  <2>1. UrlPath(t) = IF i <= R THEN SubSeq(r, i, Len(r)) ELSE <<Slash>>
    BY <1>10 DEF UrlPath, r, sl
  <2>2. i <= R <=> a + i <= Z
    BY <1>4
  <2>3. ASSUME i <= R
        PROVE  SubSeq(r, i, Len(r)) = SubSeq(t, a + i, Z)
    <3> DEFINE j == i - 1
               m == R - j
    <3>1. j \in Nat /\ m \in Nat /\ j + m <= R /\ j + 1 = i /\ j + m = R /\ a + j \in Nat
      BY <1>4, <2>3
    <3>2. (a + j) + m <= Z /\ (a + j) + 1 = a + i /\ (a + j) + m = Z /\ 0 + (a + j) = a + j
      BY <1>4, <3>1
    <3> HIDE DEF j, m
    <3>3. SubSeq(r, j + 1, j + m) = Piece(t, a + j, m)
      <4>1. Within(r, t, a, R, j, m)
        BY <1>7, <3>1 DEF Within
      <4> QED
        BY ONLY <4>1, PartOfPiece
    <3> DEFINE q == a + j
    <3> HIDE DEF q
    <3>4. q \in Nat /\ q + m <= Z /\ q + 1 = a + i /\ q + m = Z /\ 0 + q = q /\ q = a + j
      BY <3>1, <3>2 DEF q
    <3>5. SubSeq(t, q + 1, q + m) = Piece(t, 0 + q, m)
      <4>1. Within(t, t, 0, Z, q, m)
        BY <1>3, <3>1, <3>4 DEF Within
      <4> QED
        BY ONLY <4>1, PartOfPiece
    <3>6. Len(r) = R
      BY <1>7 DEF IsPiece
    <3>7. SubSeq(r, i, R) = Piece(t, q, m) /\ SubSeq(t, a + i, Z) = Piece(t, q, m)
      BY <3>1, <3>3, <3>4, <3>5
    <3> QED
      BY <3>6, <3>7
  <2> QED
    BY <2>1, <2>2, <2>3
\* What is asked for.
<1> DEFINE port == h < Z /\ t[h + 1] = Colon
           path == IF port THEN h + 3 ELSE h + 1
<1>11. SubSeq(t, a + 1, h) = hp
  <2>1. a + H <= Z
    BY <1>1, <1>4
  <2>2. SubSeq(t, a + 1, a + H) = Piece(t, 0 + a, H)
    <3>1. Within(t, t, 0, Z, a, H)
      BY <1>3, <1>4, <2>1 DEF Within
    <3> QED
      BY ONLY <3>1, PartOfPiece
  <2> QED
    BY <1>4, <2>2 DEF hp
<1>12. /\ asked.target = hp \o <<IF port THEN t[h + 2] ELSE Num(80)>>
       /\ asked.line[1] = <<"get", IF path <= Z THEN SubSeq(t, path, Z) ELSE <<Slash>> >>
  BY <1>11 DEF UrlAsks, Z
<1>13. CASE h = Z \/ (h < Z /\ t[h + 1] \in sl)
  <2> DEFINE i == H + 1
  <2>1. i \in 1 .. R + 1 /\ a + i = h + 1 /\ i - 1 = H /\ (i <= R <=> h < Z)
    BY <1>1, <1>4
  <2>2. \A j \in 1 .. i - 1 : t[a + j] \notin sl
    BY <1>5, <2>1, Signs DEF sl
  <2>3. i <= R => t[a + i] \in sl
    BY <1>1, <1>13, <2>1
  <2> HIDE DEF i
  <2>4. (Has(r, sl) <=> i <= R) /\ Index(r, sl) = i /\ Before(r, sl) = Piece(t, a, i - 1)
    <3>1. FirstAt(r, t, a, R, sl, i)
      BY <1>7, <2>1, <2>2, <2>3 DEF FirstAt
    <3> QED
      BY ONLY <3>1, SplitIs
  <2>5. as = hp
    BY <1>9, <2>1, <2>4 DEF hp
  <2>6. ~port /\ path = a + i
    BY <1>1, <1>13, <2>1, Signs DEF sl
  <2>7. UrlPath(t) = IF a + i <= Z THEN SubSeq(t, a + i, Z) ELSE <<Slash>>
    BY <1>10, <2>1, <2>4
  <2>8. ~Has(as, {Colon}) /\ Before(as, {Colon}) = hp
    <3>1. \A j \in 1 .. H : t[a + j] \notin {Colon}
      BY <1>5, Signs
    <3> DEFINE k == H + 1
    <3>2. k \in 1 .. H + 1 /\ k - 1 = H /\ ~(k <= H)
      BY <1>4
    <3> HIDE DEF k
    <3>3. ~Has(hp, {Colon}) /\ Before(hp, {Colon}) = Piece(t, a, k - 1)
      <4>1. FirstAt(hp, t, a, H, {Colon}, k)
        BY <1>8, <3>1, <3>2 DEF FirstAt
      <4>2. (Has(hp, {Colon}) <=> k <= H) /\ Before(hp, {Colon}) = Piece(t, a, k - 1)
        BY ONLY <4>1, SplitIs
      <4> QED
        BY <3>2, <4>2
    <3> QED
      BY <2>5, <3>2, <3>3 DEF hp
  <2>9. UrlTarget(t) = Dest(hp, <<Num(80)>>, TokenText)
    BY <2>8 DEF UrlTarget, as
  <2>10. Dest(hp, <<Num(80)>>, TokenText) = hp \o <<Num(80)>>
    BY ONLY <1>15, DestIs, Zenon
  <2> HIDE DEF port, path
  <2> QED
    BY <1>7, <1>12, <2>6, <2>7, <2>9, <2>10 DEF r
<1>14. CASE /\ h + 1 < Z /\ t[h + 1] = Colon /\ IsPort(t[h + 2])
            /\ h + 2 < Z => t[h + 3] \in sl
  <2> DEFINE i == H + 3
             c == H + 1
             x == t[h + 2]
  <2>1. /\ i \in 1 .. R + 1 /\ a + i = h + 3 /\ i - 1 = H + 2 /\ (i <= R <=> h + 2 < Z)
        /\ c \in 1 .. (H + 2) + 1 /\ c <= H + 2 /\ a + c = h + 1 /\ c - 1 = H /\ (H + 2) - c = 1
        /\ a + c \in Nat /\ (a + c) + 1 = h + 2 /\ H + 2 \in Nat
    BY <1>1, <1>4, <1>14
  <2> DEFINE p == Piece(t, a + c, 1)
  <2>2. IsPiece(p, t, a + c, 1) /\ t[(a + c) + 1] = x
    BY <1>4, <2>1, PieceIs
  <2> HIDE DEF p
  <2>3. x \notin {Colon, Slash, Slash2} /\ ~Has(p, {Colon}) /\ Num(Atoi(p)) = x
    <3> DEFINE q == a + c
    <3>1. IsPort(x)
      BY <1>14
    <3> HIDE DEF q, x
    <3>2. PortAt(x, p, t, q)
      BY <2>2, <3>1 DEF q, PortAt
    <3> QED
      BY ONLY <3>2, PortIs, Zenon
  <2>4. \A j \in 1 .. i - 1 : t[a + j] \notin sl
    <3> TAKE j \in 1 .. i - 1
    <3>1. j \in 1 .. H \/ a + j = h + 1 \/ a + j = h + 2
      <4>1. j \in 1 .. (H + 3) - 1 /\ H \in Nat /\ a \in Nat /\ a + H = h
        BY <1>4
      <4>2. j \in 1 .. H \/ j = H + 1 \/ j = H + 2
        BY ONLY <4>1
      <4> QED
        BY ONLY <4>1, <4>2
    <3> HIDE DEF i
    <3> QED
      BY <1>5, <1>14, <2>3, <3>1, Signs DEF sl
  <2>5. i <= R => t[a + i] \in sl
    BY <1>14, <2>1
  <2> HIDE DEF i
  <2>6. (Has(r, sl) <=> i <= R) /\ Index(r, sl) = i /\ Before(r, sl) = Piece(t, a, i - 1)
    <3>1. FirstAt(r, t, a, R, sl, i)
      BY <1>7, <2>1, <2>4, <2>5 DEF FirstAt
    <3> QED
      BY ONLY <3>1, SplitIs
  <2>7. IsPiece(as, t, a, H + 2)
    BY <1>4, <1>9, <2>1, <2>6, PieceIs
  <2>8. Has(as, {Colon}) /\ Before(as, {Colon}) = hp /\ After(as, {Colon}) = p
    <3>1. \A j \in 1 .. c - 1 : t[a + j] \notin {Colon}
      BY <1>5, <2>1, Signs
    <3>2. t[a + c] \in {Colon}
      BY <1>14, <2>1
    <3> DEFINE l == H + 2
    <3> HIDE DEF l
    <3>3. l \in Nat /\ c \in 1 .. l + 1 /\ c <= l /\ IsPiece(as, t, a, l) /\ c - 1 = H /\ l - c = 1
      BY <2>1, <2>7 DEF l
    <3> HIDE DEF c
    <3>4. /\ Has(as, {Colon}) /\ Before(as, {Colon}) = Piece(t, a, c - 1)
          /\ After(as, {Colon}) = Piece(t, a + c, l - c)
      <4> DEFINE ys == {Colon}
                 q  == as
      <4>1. FirstAt(q, t, a, l, ys, c)
        BY <3>1, <3>2, <3>3 DEF FirstAt
      <4> HIDE DEF ys, q
      <4>2. /\ Has(q, ys) <=> c <= l
            /\ Before(q, ys) = Piece(t, a, c - 1)
            /\ c <= l => After(q, ys) = Piece(t, a + c, l - c)
        BY ONLY <4>1, SplitIs
      <4> QED
        BY <3>3, <4>2 DEF ys, q
    <3> QED
      BY <3>3, <3>4 DEF hp, p
  <2>9. UrlTarget(t) = Dest(hp, <<Num(Atoi(p))>>, TokenText)
    BY <2>3, <2>8 DEF UrlTarget, as
  <2>10. Dest(hp, <<x>>, TokenText) = hp \o <<x>>
    BY ONLY <1>15, DestIs, Zenon
  <2>11. UrlPath(t) = IF a + i <= Z THEN SubSeq(t, a + i, Z) ELSE <<Slash>>
    BY <1>10, <2>1, <2>6
  <2>12. port /\ path = a + i
    BY <1>1, <1>14, <2>1
  <2>13. UrlTarget(t) = hp \o <<x>>
    BY <2>3, <2>9, <2>10
  <2> HIDE DEF port, path
  <2> QED
    BY <1>7, <1>12, <2>11, <2>12, <2>13 DEF r
<1> QED
  BY <1>2, <1>13, <1>14

-----------------------------------------------------------------------------
(* The text of an HTTP request *)

\* A set of numbers has a least one.
LEMMA LeastOne ==
  ASSUME NEW T \in SUBSET Nat, T # {}
  PROVE  \E x \in T : \A y \in T : x <= y
<1> DEFINE R == {ss \in Nat \X Nat : ss[1] < ss[2]}
<1>1. IsWellFoundedOn(R, Nat)
  BY NatLessThanWellFounded DEF OpToRel
<1> HIDE DEF R
<1>2. PICK x \in T : \A y \in T : ~(<<y, x>> \in R)
  BY <1>1, WFMin
<1>3. \A y \in T : ~(y < x)
  BY <1>2 DEF R
<1> QED
  BY <1>3

\* What holds of 0, and of i + 1 if of i, holds of all numbers up to a bound.
LEMMA UpToBound ==
  ASSUME NEW S, NEW l \in Nat, 0 \in S, \A i \in 0 .. l - 1 : i \in S => i + 1 \in S
  PROVE  l \in S
<1> DEFINE T == {i \in 0 .. l : i \notin S}
<1>1. SUFFICES ASSUME l \notin S
               PROVE  FALSE
  OBVIOUS
<1>2. T \in SUBSET Nat /\ T # {}
  BY <1>1
<1>3. PICK i \in T : \A j \in T : i <= j
  BY ONLY <1>2, LeastOne
<1>4. i \in 0 .. l /\ i # 0 /\ i \notin S
  BY <1>3
<1>5. i - 1 \in 0 .. l - 1 /\ (i - 1) + 1 = i /\ ~(i <= i - 1)
  BY <1>4
<1>6. i - 1 \in S
  BY <1>3, <1>5
<1> QED
  BY <1>4, <1>5, <1>6

\* One unit more.
LEMMA OneMore ==
  ASSUME NEW f, NEW l \in Nat
  PROVE  /\ Append([i \in 1 .. l |-> f[i]], f[l + 1]) = [i \in 1 .. l + 1 |-> f[i]]
         /\ \A x : [i \in 1 .. l + 1 |-> f[i]] \o <<x>> = [i \in 1 .. l |-> f[i]] \o <<f[l + 1], x>>
<1> DEFINE S == {f[i] : i \in 1 .. l + 1}
           s == [i \in 1 .. l |-> f[i]]
           m == l + 1
           r == [i \in 1 .. m |-> f[i]]
           y == f[m]
<1>1. y \in S /\ s \in Seq(S) /\ r \in Seq(S) /\ Len(s) = l /\ Len(r) = m
  <2>1. \A i \in 1 .. m : f[i] \in S
    OBVIOUS
  <2>2. 1 .. l \subseteq 1 .. m /\ m \in 1 .. m /\ m \in Nat
    OBVIOUS
  <2> HIDE DEF S, m
  <2>3. s \in [1 .. l -> S] /\ r \in [1 .. m -> S]
    BY <2>1, <2>2
  <2> QED
    BY <2>1, <2>2, <2>3
<1>2. Append(s, y) = r
  <2> HIDE DEF S
  <2> DEFINE a == Append(s, y)
  <2>1. /\ a \in Seq(S) /\ Len(a) = l + 1 /\ \A i \in 1 .. l : a[i] = s[i]
        /\ a[l + 1] = y
    <3> HIDE DEF s, y
    <3> QED
      BY ONLY <1>1, AppendProperties
  <2> HIDE DEF a
  <2>2. \A i \in 1 .. m : a[i] = f[i]
    <3>1. \A i \in 1 .. m : i \in 1 .. l \/ i = l + 1
      OBVIOUS
    <3>2. \A i \in 1 .. l : s[i] = f[i]
      OBVIOUS
    <3> HIDE DEF s
    <3> QED
      BY <2>1, <3>1, <3>2
  <2>3. a = [i \in 1 .. m |-> a[i]]
    BY <2>1
  <2>4. a = r
    BY ONLY <2>2, <2>3
  <2> QED
    BY <2>4 DEF a
<1>3. ASSUME NEW x
      PROVE  r \o <<x>> = s \o <<y, x>>
  <2> HIDE DEF S, r, s, y
  <2> DEFINE X == S \cup {x}
  <2>1. s \in Seq(X) /\ r = Append(s, y) /\ y \in X /\ x \in X
    BY <1>1, <1>2
  <2> HIDE DEF X
  <2> QED
    BY <2>1
<1> QED
  BY <1>2, <1>3 DEF s, r, y, m

\* In t the units a to a + 2 are left out, if there are any: of the k first ones so many are
\* kept, and unit i of them is this one of t.
Kept(a, k)   == IF k < a THEN k ELSE IF k <= a + 2 THEN a - 1 ELSE k - 3
KeptAt(a, i) == IF i < a THEN i ELSE i + 3

\* The recursion of Rewritten.
RewrittenUpTo(h, t) ==
  h = [k \in 0 .. Len(t) |->
         IF k = 0 THEN << >>
         ELSE IF InAuthLine(t, k) THEN h[k - 1] ELSE Append(h[k - 1], Shown(t[k]))]

\* If a function follows it, Rewritten is the value of one that does.
LEMMA RewrittenRecursion ==
  ASSUME NEW t, NEW h, RewrittenUpTo(h, t)
  PROVE  \E c : /\ RewrittenUpTo(c, t)
                /\ Rewritten(t) = c[Len(t)] \o (IF InAuthLine(t, Len(t)) /\ t[Len(t)] # CRLF THEN << >> ELSE <<CRLF>>)
<1> DEFINE c == CHOOSE g : RewrittenUpTo(g, t)
<1>1. RewrittenUpTo(c, t)
  OBVIOUS
<1>2. Rewritten(t) = c[Len(t)] \o (IF InAuthLine(t, Len(t)) /\ t[Len(t)] # CRLF THEN << >> ELSE <<CRLF>>)
  BY DEF Rewritten, RewrittenUpTo
<1> QED
  BY <1>1, <1>2

\* A unit is kept as the next one, or left out.
LEMMA KeptSteps ==
  ASSUME NEW a \in Nat \ {0}, NEW k \in Nat \ {0}
  PROVE  /\ Kept(a, 0) = 0 /\ Kept(a, k) \in Nat /\ Kept(a, k - 1) \in Nat
         /\ k \in a .. a + 2 => Kept(a, k) = Kept(a, k - 1)
         /\ k \notin a .. a + 2 => Kept(a, k) = Kept(a, k - 1) + 1 /\ KeptAt(a, Kept(a, k)) = k
BY DEF Kept, KeptAt

\* Rewritten leaves these units out and shows the others.
LEMMA RewrittenIs ==
  ASSUME NEW t, NEW a \in Nat \ {0}, Len(t) \in Nat \ {0},
         \A i \in 1 .. Len(t) : InAuthLine(t, i) <=> i \in a .. a + 2,
         Len(t) \notin a .. a + 2
  PROVE  Rewritten(t) = [i \in 1 .. Kept(a, Len(t)) |-> Shown(t[KeptAt(a, i)])] \o <<CRLF>>
<1> DEFINE T    == Len(t)
           f    == [i \in Nat |-> Shown(t[KeptAt(a, i)])]
           g(l) == [i \in 1 .. l |-> f[i]]
           h    == [k \in 0 .. T |-> g(Kept(a, k))]
<1>1. T \in Nat /\ T \in 1 .. T
  OBVIOUS
<1> HIDE DEF T, f
<1>2. ASSUME NEW k \in 1 .. T
      PROVE  g(Kept(a, k)) = IF InAuthLine(t, k) THEN g(Kept(a, k - 1)) ELSE Append(g(Kept(a, k - 1)), Shown(t[k]))
  <2> DEFINE l == Kept(a, k - 1)
             m == Kept(a, k)
             in == InAuthLine(t, k)
             u == Shown(t[k])
  <2>1. k \in Nat \ {0} /\ (in <=> k \in a .. a + 2)
    BY DEF T
  <2>2. l \in Nat /\ m \in Nat /\ (in => m = l) /\ (~in => m = l + 1 /\ KeptAt(a, m) = k)
    BY <2>1, KeptSteps
  <2> HIDE DEF in, l, m, g
  <2>3. ASSUME in
        PROVE  g(m) = g(l)
    <3>1. m = l
      BY <2>2, <2>3
    <3> QED
      BY ONLY <3>1, Zenon
  <2>4. ASSUME ~in
        PROVE  g(m) = Append(g(l), u)
    <3>1. f[l + 1] = u
      <4>1. f[m] = Shown(t[KeptAt(a, m)])
        BY ONLY <2>2 DEF f
      <4> QED
        BY <2>2, <2>4, <4>1
    <3> HIDE DEF u
    <3>2. Append(g(l), f[l + 1]) = g(l + 1)
      <4>1. Append([i \in 1 .. l |-> f[i]], f[l + 1]) = [i \in 1 .. l + 1 |-> f[i]]
        BY ONLY <2>2, OneMore
      <4> QED
        BY ONLY <4>1, Zenon DEF g
    <3>3. m = l + 1
      BY <2>2, <2>4
    <3>4. g(m) = Append(g(l), u)
      BY ONLY <3>1, <3>2, <3>3, Zenon
    <3> QED
      BY ONLY <3>4, Zenon
  <2>5. g(m) = IF in THEN g(l) ELSE Append(g(l), u)
    BY ONLY <2>3, <2>4, Zenon
  <2> QED
    BY ONLY <2>5, Zenon DEF in, l, m, u
<1>3. g(Kept(a, 0)) = << >>
  <2>1. Kept(a, 0) = 0
    BY DEF Kept
  <2> QED
    BY <2>1
<1> HIDE DEF g
<1>4. RewrittenUpTo(h, t)
  <2>1. ASSUME NEW k \in 0 .. T
        PROVE  h[k] = IF k = 0 THEN << >>
                      ELSE IF InAuthLine(t, k) THEN h[k - 1] ELSE Append(h[k - 1], Shown(t[k]))
    <3>1. CASE k = 0
      BY <1>3, <3>1
    <3>2. CASE k # 0
      <4>1. k \in 1 .. T /\ k - 1 \in 0 .. T
        BY <1>1, <3>2
      <4>2. h[k] = g(Kept(a, k)) /\ h[k - 1] = g(Kept(a, k - 1))
        BY <4>1
      <4> HIDE DEF h
      <4> QED
        BY <1>2, <3>2, <4>1, <4>2
    <3> QED
      BY <3>1, <3>2
  <2>2. h = [k \in 0 .. T |-> h[k]]
    OBVIOUS
  <2> HIDE DEF h
  <2>3. h = [k \in 0 .. T |->
               IF k = 0 THEN << >>
               ELSE IF InAuthLine(t, k) THEN h[k - 1] ELSE Append(h[k - 1], Shown(t[k]))]
    BY ONLY <2>1, <2>2
  <2> QED
    BY ONLY <2>3, Zenon DEF RewrittenUpTo, T
<1>5. PICK c : /\ RewrittenUpTo(c, t)
               /\ Rewritten(t) = c[Len(t)] \o (IF InAuthLine(t, Len(t)) /\ t[Len(t)] # CRLF THEN << >> ELSE <<CRLF>>)
  BY ONLY <1>4, RewrittenRecursion
<1>6. c[0] = << >> /\ \A k \in 1 .. T :
        c[k] = IF InAuthLine(t, k) THEN c[k - 1] ELSE Append(c[k - 1], Shown(t[k]))
  <2> DEFINE e == [k \in 0 .. T |->
                     IF k = 0 THEN << >>
                     ELSE IF InAuthLine(t, k) THEN c[k - 1] ELSE Append(c[k - 1], Shown(t[k]))]
  <2>0. RewrittenUpTo(c, t)
    BY <1>5
  <2>1. c = e
    BY ONLY <2>0, Zenon DEF RewrittenUpTo, T
  <2>2. e[0] = << >> /\ \A k \in 1 .. T :
          e[k] = IF InAuthLine(t, k) THEN c[k - 1] ELSE Append(c[k - 1], Shown(t[k]))
    BY ONLY <1>1
  <2> HIDE DEF e
  <2> QED
    BY ONLY <2>1, <2>2
<1> DEFINE S == {i \in 0 .. T : c[i] = g(Kept(a, i))}
<1>7. 0 \in S
  BY <1>1, <1>3, <1>6
<1>8. ASSUME NEW i \in 0 .. T - 1, i \in S
      PROVE  i + 1 \in S
  <2> DEFINE k == i + 1
  <2>1. k \in 1 .. T /\ k - 1 = i /\ k \in 0 .. T
    BY <1>1
  <2>2. c[i] = g(Kept(a, i))
    BY <1>8
  <2> HIDE DEF k, S
  <2>3. c[k] = IF InAuthLine(t, k) THEN c[i] ELSE Append(c[i], Shown(t[k]))
    BY <1>6, <2>1
  <2>4. g(Kept(a, k)) = IF InAuthLine(t, k) THEN g(Kept(a, i)) ELSE Append(g(Kept(a, i)), Shown(t[k]))
    BY <1>2, <2>1
  <2>5. c[k] = g(Kept(a, k))
    BY ONLY <2>2, <2>3, <2>4, Zenon
  <2> QED
    BY <2>1, <2>5 DEF S, k
<1> HIDE DEF S
<1>9. T \in S
  BY <1>1, <1>7, <1>8, UpToBound
<1>10. c[T] = g(Kept(a, T))
  BY <1>9 DEF S
<1>11. g(Kept(a, T)) = [i \in 1 .. Kept(a, T) |-> Shown(t[KeptAt(a, i)])]
  <2>1. Kept(a, T) \in Nat
    BY <1>1, KeptSteps DEF T
  <2> DEFINE l == Kept(a, T)
  <2> HIDE DEF l
  <2>2. l \in Nat
    BY <2>1 DEF l
  <2>3. \A i \in 1 .. l : f[i] = Shown(t[KeptAt(a, i)])
    BY <2>2 DEF f
  <2>4. g(l) = [i \in 1 .. l |-> Shown(t[KeptAt(a, i)])]
    BY ONLY <2>3 DEF g
  <2> QED
    BY <2>4 DEF l
<1>12. ~InAuthLine(t, T)
  BY <1>1 DEF T
<1>13. Rewritten(t) = c[T] \o <<CRLF>>
  BY <1>5, <1>12, Zenon DEF T
<1> QED
  BY ONLY <1>10, <1>11, <1>13, Zenon DEF T

\* A message b of len units with the credentials at unit a, or a beyond them if it has none.
HttpLines(b, len, a, s) ==
  /\ len \in Nat \ {0} /\ a \in Nat \ {0}
  /\ a > len + 1 \/ (a + 2 < len /\ b[a + 1] = <<"base64", s.user, s.pass>> /\ b[a + 2] = CRLF)
  /\ \A i \in 1 .. len : b[i] # NUL /\ (b[i][1] = "auth" <=> i = a)

\* The lines that are not for the proxy, as they go on, and those with req as the first.
LinesOf(b, len, a)     == [k \in 1 .. Kept(a, len) |-> Shown(b[KeptAt(a, k)])]
LineOf(b, len, a, req) == LinesOf([b EXCEPT ![1] = req], len, a)

\* Its request line and what it asks for.
HttpAsks(b, len, a, s) ==
  /\ b[1][1] \in {"connect", "get", "short"}
  /\ s.kind = "connect" <=> b[1][1] = "connect"
  /\ b[1][1] \in {"connect", "get"} => DOMAIN b[1][2] = 1 .. Len(b[1][2]) /\ Len(b[1][2]) \in Nat
  /\ b[1][1] = "connect" /\ PlainConnect(b[1][2]) => ConnectAsks(b[1][2], s.asked)
  /\ b[1][1] = "get" => \A x, h \in DOMAIN b[1][2] :
       PlainUrl(b[1][2], x, h) =>
         UrlAsks(b[1][2], x, h, s.asked) /\ s.asked.line = LineOf(b, len, a, s.asked.line[1])

\* The message of a well-formed client, unit by unit.
LEMMA HttpBytes ==
  ASSUME script \in Scripts, WellFormed(script), script.kind \in {"connect", "http"}
  PROVE  \E a : HttpLines(Bytes, Len(Bytes), a, script) /\ HttpAsks(Bytes, Len(Bytes), a, script)
<1> DEFINE b    == script.bytes
           len  == Len(b)
           auth == {i \in DOMAIN b : b[i][1] = "auth"}
           tgt  == b[1][2]
           c    == [b EXCEPT ![1] = script.asked.line[1]]
<1>0. HttpFormed(script)
  BY DEF WellFormed
<1>1. len \in Nat \ {0} /\ DOMAIN b = 1 .. len
  BY ScriptAssumption
<1>2. /\ b[1][1] \in {"connect", "get", "short"}
      /\ script.kind = "connect" <=> b[1][1] = "connect"
      /\ \A i \in DOMAIN b : b[i] # NUL
      /\ b[1][1] \in {"connect", "get"} => DOMAIN tgt = 1 .. Len(tgt) /\ Len(tgt) \in Nat
      /\ b[1][1] = "connect" /\ PlainConnect(tgt) => ConnectAsks(tgt, script.asked)
  BY ONLY <1>0, Zenon DEF HttpFormed
<1>3. \A i \in auth : /\ auth = {i} /\ i + 2 < len
                      /\ b[i + 1] = <<"base64", script.user, script.pass>> /\ b[i + 2] = CRLF
  BY ONLY <1>0, Zenon DEF HttpFormed
<1>4. b[1][1] = "get" => \A x, h \in DOMAIN tgt :
        PlainUrl(tgt, x, h) =>
          /\ UrlAsks(tgt, x, h, script.asked)
          /\ IF auth = {} THEN script.asked.line = [k \in 1 .. len |-> Shown(c[k])]
             ELSE \A i \in auth :
                    script.asked.line = [k \in 1 .. len - 3 |-> Shown(c[IF k < i THEN k ELSE k + 3])]
  BY ONLY <1>0, Zenon DEF HttpFormed
<1> HIDE DEF b, len, tgt
<1>5. CASE auth = {}
  <2> DEFINE a == len + 2
  <2>1. a \in Nat \ {0} /\ a > len + 1 /\ \A i \in 1 .. len : i # a
    BY <1>1
  <2>2. \A i \in 1 .. len : b[i] # NUL /\ (b[i][1] = "auth" <=> i = a)
    BY <1>1, <1>2, <1>5, <2>1
  <2>3. Kept(a, len) = len /\ \A k \in 1 .. len : KeptAt(a, k) = k
    BY <1>1 DEF Kept, KeptAt
  <2> HIDE DEF a, c, auth
  <2>4. [k \in 1 .. len |-> Shown(c[k])] = [k \in 1 .. Kept(a, len) |-> Shown(c[KeptAt(a, k)])]
    BY ONLY <2>3
  <2>5. b[1][1] = "get" => \A x, h \in DOMAIN tgt :
          PlainUrl(tgt, x, h) =>
            UrlAsks(tgt, x, h, script.asked) /\ script.asked.line = [k \in 1 .. Kept(a, len) |-> Shown(c[KeptAt(a, k)])]
    BY ONLY <1>4, <1>5, <2>4, Zenon
  <2>6. HttpLines(b, len, a, script)
    BY <1>1, <2>1, <2>2 DEF HttpLines
  <2>7. HttpAsks(b, len, a, script)
    BY ONLY <1>2, <2>5, Zenon DEF HttpAsks, LineOf, LinesOf, tgt, c
  <2> QED
    BY <2>6, <2>7 DEF b, len, Bytes
<1>6. CASE auth # {}
  <2>1. PICK a \in auth : TRUE
    BY <1>6
  <2>2. /\ auth = {a} /\ a + 2 < len
        /\ b[a + 1] = <<"base64", script.user, script.pass>> /\ b[a + 2] = CRLF
    BY <1>3, <2>1
  <2>3. a \in Nat \ {0} /\ a \in 1 .. len
    BY <1>1, <2>1
  <2>4. \A i \in 1 .. len : b[i] # NUL /\ (b[i][1] = "auth" <=> i = a)
    <3>1. \A i \in 1 .. len : (b[i][1] = "auth" <=> i \in auth)
      BY <1>1
    <3> HIDE DEF auth
    <3> QED
      BY <1>1, <1>2, <2>2, <3>1
  <2>5. Kept(a, len) = len - 3
    BY <1>1, <2>2, <2>3 DEF Kept
  <2> HIDE DEF auth, c
  <2>6. [k \in 1 .. len - 3 |-> Shown(c[IF k < a THEN k ELSE k + 3])] = [k \in 1 .. Kept(a, len) |-> Shown(c[KeptAt(a, k)])]
    BY ONLY <2>5 DEF KeptAt
  <2>7. b[1][1] = "get" => \A x, h \in DOMAIN tgt :
          PlainUrl(tgt, x, h) =>
            UrlAsks(tgt, x, h, script.asked) /\ script.asked.line = [k \in 1 .. Kept(a, len) |-> Shown(c[KeptAt(a, k)])]
    BY ONLY <1>4, <1>6, <2>1, <2>6, Zenon
  <2>8. HttpLines(b, len, a, script)
    BY <1>1, <2>2, <2>3, <2>4 DEF HttpLines
  <2>9. HttpAsks(b, len, a, script)
    BY ONLY <1>2, <2>7, Zenon DEF HttpAsks, LineOf, LinesOf, tgt, c
  <2> QED
    BY <2>8, <2>9 DEF b, len, Bytes
<1> QED
  BY <1>5, <1>6

\* A text of which n units were read and the rest, if any, is zero.
TextOf(t, b, m, full) ==
  /\ m \in Nat \ {0} /\ Len(t) = (IF full THEN m ELSE m + 1) /\ DOMAIN t = 1 .. Len(t)
  /\ \A i \in 1 .. m : t[i] = b[i]
  /\ ~full => t[m + 1] = NUL

\* What the parser has of it, at its two statements.
HttpFilled == Filled("http") \/ Filled("httpAuth")

LEMMA HttpRead ==
  ASSUME Single, HttpFilled
  PROVE  /\ script.kind \in {"connect", "http"} /\ n \in Nat \ {0} /\ n <= Len(Bytes)
         /\ TextOf(Text, Bytes, n, ~(n < HttpBuf))
         /\ ReadInOne => n \in {1, Len(Bytes)}
<1> DEFINE min  == want.min
           len  == Len(Bytes)
           tail == IF n < HttpBuf THEN <<NUL>> ELSE << >>
           s    == Slice(0, n)
<1>1. /\ n >= min /\ script.kind # "socks4" /\ min = 1
      /\ ReadInOne => n \in {0, 1, len}
  BY DEF HttpFilled, Filled, Single, OneInv, OneRead
<1>2. /\ base = 0 /\ n \in Nat /\ sent \in Nat /\ n <= sent /\ sent <= len /\ len \in Nat
      /\ script.kind \in {"socks4", "connect", "http"}
  BY SingleFacts
<1>3. HttpBuf \in Nat
  BY HttpBufAssumption
<1> HIDE DEF min, len
<1>4. n >= 1 /\ n <= len
  BY <1>1, <1>2
<1>5. s = [k \in 1 .. n |-> Bytes[k]]
  <2>1. \A k \in 1 .. n : k - 1 < n /\ base + (k - 1) + 1 = k /\ 0 + k - 1 = k - 1
    BY <1>2
  <2>2. \A k \in 1 .. n : At(0 + k - 1) = Bytes[k]
    BY <2>1 DEF At
  <2>3. n - 0 = n
    BY <1>2
  <2>4. s = [k \in 1 .. n |-> At(0 + k - 1)]
    BY <2>3 DEF Slice
  <2> QED
    BY <2>2, <2>4
<1> DEFINE S == {Bytes[k] : k \in 1 .. n} \cup {NUL}
<1>6. s \in Seq(S) /\ Len(s) = n /\ NUL \in S
  <2>1. \A k \in 1 .. n : Bytes[k] \in S
    OBVIOUS
  <2>2. NUL \in S
    OBVIOUS
  <2> HIDE DEF S, s
  <2>3. s \in [1 .. n -> S]
    BY <1>5, <2>1
  <2> QED
    BY <1>2, <2>2, <2>3
<1> HIDE DEF S, s
<1>7. /\ Text = s \o tail
      /\ n < HttpBuf => tail = <<NUL>>
      /\ ~(n < HttpBuf) => tail = << >>
  BY DEF Text, s
<1>8. CASE n < HttpBuf
  <2>1. Text = s \o <<NUL>>
    BY <1>7, <1>8
  <2> DEFINE x == NUL
  <2> HIDE DEF x
  <2>2. x \in S /\ Text = s \o <<x>>
    BY <1>6, <2>1 DEF x
  <2>3. Len(Text) = n + 1 /\ DOMAIN Text = 1 .. n + 1 /\ \A i \in 1 .. n : Text[i] = s[i]
    BY <1>2, <1>6, <2>2
  <2>4. Text[n + 1] = x
    BY <1>2, <1>6, <2>2
  <2>5. \A i \in 1 .. n : Text[i] = Bytes[i]
    BY <1>5, <2>3
  <2>6. TextOf(Text, Bytes, n, ~(n < HttpBuf))
    BY <1>2, <1>4, <1>8, <2>3, <2>4, <2>5 DEF TextOf, x
  <2> QED
    BY <1>1, <1>2, <1>4, <2>6 DEF len
<1>9. CASE ~(n < HttpBuf)
  <2>1. Text = s
    <3>1. Text = s \o << >>
      BY <1>7, <1>9
    <3> QED
      BY <1>6, <3>1
  <2>2. Len(Text) = n /\ DOMAIN Text = 1 .. n /\ \A i \in 1 .. n : Text[i] = Bytes[i]
    BY <1>5, <1>6, <2>1
  <2>3. TextOf(Text, Bytes, n, ~(n < HttpBuf))
    BY <1>2, <1>4, <1>9, <2>2 DEF TextOf
  <2> QED
    BY <1>1, <1>2, <1>4, <2>3 DEF len
<1> QED
  BY <1>8, <1>9

\* Which credentials it decodes: the client's, or none.
LEMMA HttpUserIs ==
  ASSUME NEW s, NEW b, NEW len, NEW a, NEW t, NEW m, NEW full \in BOOLEAN,
         HttpLines(b, len, a, s) /\ TextOf(t, b, m, full) /\ m <= len
  PROVE  \/ HttpCredentials(t) = [name |-> << >>, pass |-> << >>]
         \/ HttpCredentials(t) = [name |-> s.user, pass |-> s.pass]
<1> DEFINE good == {i \in 1 .. Len(t) - 1 :
                      /\ t[i][1] = "auth" /\ t[i + 1][1] = "base64"
                      /\ i + 2 <= Len(t) => t[i + 2] = CRLF}
           T == Len(t)
           c == Max(good) + 1
<1>1. /\ len \in Nat \ {0} /\ a \in Nat \ {0}
      /\ a > len + 1 \/ (a + 2 < len /\ b[a + 1] = <<"base64", s.user, s.pass>>)
      /\ \A i \in 1 .. len : b[i][1] = "auth" <=> i = a
  BY DEF HttpLines
<1>2. /\ m \in Nat \ {0} /\ T = (IF full THEN m ELSE m + 1) /\ m <= len
      /\ \A i \in 1 .. m : t[i] = b[i]
      /\ ~full => t[m + 1] = NUL
  BY DEF TextOf
<1> HIDE DEF T
<1>3. ASSUME NEW i \in good
      PROVE  i = a /\ t[a + 1] = <<"base64", s.user, s.pass>>
  <2>1. i \in 1 .. T - 1 /\ t[i][1] = "auth" /\ t[i + 1][1] = "base64"
    BY DEF T
  <2> HIDE DEF good
  <2>2. i \in 1 .. m /\ i \in 1 .. len /\ i + 1 \in 1 .. T
    BY <1>1, <1>2, <2>1
  <2>3. i = a
    BY <1>1, <1>2, <2>1, <2>2
  <2>4. i + 1 \in 1 .. m
    <3>1. i + 1 \in 1 .. m \/ (~full /\ i + 1 = m + 1)
      BY <1>2, <2>2
    <3>2. NUL[1] # "base64"
      BY DEF NUL
    <3>3. ~full /\ i + 1 = m + 1 => t[i + 1] = NUL
      BY <1>2
    <3> QED
      BY <2>1, <3>1, <3>2, <3>3
  <2>5. t[a + 1] = b[a + 1] /\ ~(a > len + 1)
    BY <1>1, <1>2, <2>2, <2>3, <2>4
  <2> QED
    BY <1>1, <2>3, <2>5
<1>4. HttpCredentials(t) = IF good = {} THEN [name |-> << >>, pass |-> << >>] ELSE [name |-> t[c][2], pass |-> t[c][3]]
  BY DEF HttpCredentials
<1> HIDE DEF good
<1>5. CASE good = {}
  BY <1>4, <1>5, Zenon
<1>6. CASE good # {}
  <2>1. good = {a} /\ t[a + 1] = <<"base64", s.user, s.pass>>
    BY <1>3, <1>6
  <2>2. Max(good) = a
    <3>1. \A x \in good : x = a
      BY <2>1
    <3>2. a \in good /\ \A y \in good : a >= y
      BY <1>1, <2>1
    <3> QED
      BY ONLY <3>1, <3>2 DEF Max
  <2>3. c = a + 1
    BY <2>2
  <2>4. HttpCredentials(t) = [name |-> t[c][2], pass |-> t[c][3]]
    BY <1>4, <1>6, Zenon
  <2> HIDE DEF c
  <2>5. t[c] = <<"base64", s.user, s.pass>>
    BY <2>1, <2>3
  <2>6. t[c][2] = s.user /\ t[c][3] = s.pass
    BY ONLY <2>5
  <2> QED
    BY ONLY <2>4, <2>6, Zenon
<1> QED
  BY <1>5, <1>6

\* How it goes on: with the lines that are not for the proxy, and what was read beyond the
\* text.
LEMMA HttpLineIs ==
  ASSUME NEW s, NEW b, NEW len, NEW a, NEW t, NEW full \in BOOLEAN,
         HttpLines(b, len, a, s) /\ TextOf(t, b, len, full)
  PROVE  Rewritten(t) = LinesOf(b, len, a) \o (IF full THEN <<CRLF>> ELSE <<NUL, CRLF>>)
<1> DEFINE T    == Len(t)
           line == LinesOf(b, len, a)
           l    == Kept(a, len)
           f    == [i \in Nat |-> Shown(t[KeptAt(a, i)])]
<1>1. /\ len \in Nat \ {0} /\ a \in Nat \ {0}
      /\ a > len + 1 \/ (a + 2 < len /\ b[a + 1] = <<"base64", s.user, s.pass>> /\ b[a + 2] = CRLF)
      /\ \A i \in 1 .. len : b[i][1] = "auth" <=> i = a
  BY DEF HttpLines
<1>2. line = [k \in 1 .. l |-> Shown(b[KeptAt(a, k)])]
  BY DEF LinesOf
<1>3. /\ T = (IF full THEN len ELSE len + 1)
      /\ \A i \in 1 .. len : t[i] = b[i]
      /\ ~full => t[len + 1] = NUL
  BY DEF TextOf
<1> HIDE DEF T, line, l
<1>4. T \in Nat \ {0} /\ (T = len \/ (T = len + 1 /\ ~full))
  BY <1>1, <1>3
<1>5. NUL[1] = "nul" /\ CRLF[1] = "crlf"
  BY DEF NUL, CRLF
<1>6. \A i \in 1 .. T : t[i][1] = "auth" <=> i = a
  <2> TAKE i \in 1 .. T
  <2>1. CASE i \in 1 .. len
    BY <1>1, <1>3, <2>1
  <2>2. CASE i = len + 1
    <3>1. i # a /\ t[i] = NUL
      BY <1>1, <1>3, <1>4, <2>2
    <3> QED
      BY <1>5, <3>1
  <2> QED
    BY <1>1, <1>4, <2>1, <2>2
<1>7. a > T \/ (a + 2 < T /\ a + 2 <= len /\ t[a + 1][1] = "base64" /\ t[a + 2] = CRLF)
  <2>1. CASE a > len + 1
    BY <1>1, <1>4, <2>1
  <2>2. CASE a + 2 < len /\ b[a + 1] = <<"base64", s.user, s.pass>> /\ b[a + 2] = CRLF
    <3>1. a + 1 \in 1 .. len /\ a + 2 \in 1 .. len /\ a + 2 < T /\ a + 2 <= len
      BY <1>1, <1>4, <2>2
    <3>2. b[a + 1][1] = "base64"
      BY <2>2
    <3> QED
      BY <1>3, <2>2, <3>1, <3>2
  <2> QED
    BY <1>1, <2>1, <2>2
<1>8. ASSUME NEW i \in 1 .. T
      PROVE  InAuthLine(t, i) <=> i \in a .. a + 2
  <2>1. ASSUME InAuthLine(t, i)
        PROVE  i \in a .. a + 2
    <3>1. PICK j \in 1 .. i : t[j][1] = "auth" /\ \A k \in j .. i - 1 : t[k] # CRLF
      BY <2>1 DEF InAuthLine
    <3>2. j = a
      BY <1>4, <1>6, <3>1
    <3>3. a <= i /\ ~(a > T) /\ a + 2 \notin a .. i - 1
      BY <1>1, <1>4, <1>7, <3>1, <3>2
    <3> QED
      BY <1>1, <1>4, <3>3
  <2>2. ASSUME i \in a .. a + 2
        PROVE  InAuthLine(t, i)
    <3>1. a \in 1 .. i /\ a \in 1 .. T /\ t[a + 1][1] = "base64"
      BY <1>1, <1>4, <1>7, <2>2
    <3>2. t[a][1] = "auth"
      BY <1>6, <3>1
    <3>3. t[a] # CRLF /\ t[a + 1] # CRLF
      BY <1>5, <3>1, <3>2
    <3>4. \A k \in a .. i - 1 : k = a \/ k = a + 1
      BY <1>1, <2>2
    <3>5. \A k \in a .. i - 1 : t[k] # CRLF
      BY <3>3, <3>4
    <3> QED
      BY <3>1, <3>2, <3>5 DEF InAuthLine
  <2> QED
    BY <2>1, <2>2
<1>9. T \notin a .. a + 2
  BY <1>1, <1>4, <1>7
<1>10. Rewritten(t) = [i \in 1 .. Kept(a, T) |-> Shown(t[KeptAt(a, i)])] \o <<CRLF>>
  BY <1>1, <1>4, <1>8, <1>9, RewrittenIs DEF T
<1>11. l \in Nat /\ (T = len + 1 => Kept(a, T) = l + 1 /\ KeptAt(a, l + 1) = len + 1)
  BY <1>1, <1>7 DEF Kept, KeptAt, l
<1>12. \A i \in 1 .. l : KeptAt(a, i) \in 1 .. len
  BY <1>1 DEF Kept, KeptAt, l
<1>13. line = [i \in 1 .. l |-> f[i]]
  <2>1. \A i \in 1 .. l : i \in Nat /\ t[KeptAt(a, i)] = b[KeptAt(a, i)]
    BY <1>3, <1>11, <1>12
  <2>2. \A i \in 1 .. l : f[i] = Shown(b[KeptAt(a, i)])
    BY <2>1
  <2> HIDE DEF f
  <2> QED
    BY <1>2, <2>2
<1>14. CASE full
  <2>1. T = len /\ Kept(a, T) = l
    BY <1>3, <1>14 DEF l
  <2>2. \A i \in 1 .. l : i \in Nat
    BY <1>11
  <2>3. [i \in 1 .. Kept(a, T) |-> Shown(t[KeptAt(a, i)])] = line
    BY <1>13, <2>1, <2>2
  <2> QED
    BY <1>10, <1>14, <2>3 DEF line
<1>15. CASE ~full
  <2>1. T = len + 1 /\ Kept(a, T) = l + 1 /\ t[len + 1] = NUL /\ KeptAt(a, l + 1) = len + 1
    BY <1>3, <1>11, <1>15
  <2>2. \A i \in 1 .. l + 1 : i \in Nat
    BY <1>11
  <2>3. [i \in 1 .. Kept(a, T) |-> Shown(t[KeptAt(a, i)])] = [i \in 1 .. l + 1 |-> f[i]]
    BY <2>1, <2>2
  <2>4. f[l + 1] = NUL
    <3>1. f[l + 1] = Shown(NUL)
      BY <1>11, <2>1
    <3>2. Shown(NUL) = NUL
      BY DEF Shown, NUL
    <3> QED
      BY <3>1, <3>2
  <2> HIDE DEF f
  <2>5. [i \in 1 .. l + 1 |-> f[i]] \o <<CRLF>> = [i \in 1 .. l |-> f[i]] \o <<f[l + 1], CRLF>>
    BY ONLY <1>11, OneMore
  <2>6. Rewritten(t) = line \o <<NUL, CRLF>>
    BY ONLY <1>10, <1>13, <2>3, <2>4, <2>5, Zenon
  <2> QED
    BY <1>15, <2>6 DEF line
<1> QED
  BY <1>14, <1>15

\* With another request line, as the origin is to get it.
WithLine(t, path) == [t EXCEPT ![1] = <<"get", path>>]

AllRead(s, b, len, a, t, full) ==
  /\ HttpLines(b, len, a, s) /\ TextOf(t, b, len, full) /\ full \in BOOLEAN
  /\ DOMAIN b = 1 .. len /\ b[1][1] # "auth"

LEMMA OtherLineIs ==
  ASSUME NEW s, NEW b, NEW len, NEW a, NEW t, NEW full, NEW path, AllRead(s, b, len, a, t, full)
  PROVE  Rewritten(WithLine(t, path)) =
           LineOf(b, len, a, <<"get", path>>) \o (IF full THEN <<CRLF>> ELSE <<NUL, CRLF>>)
<1> DEFINE req == <<"get", path>>
           c   == [b EXCEPT ![1] = req]
           u   == [t EXCEPT ![1] = req]
           T   == Len(t)
<1>0. HttpLines(b, len, a, s) /\ TextOf(t, b, len, full) /\ full \in BOOLEAN /\ DOMAIN b = 1 .. len /\ b[1][1] # "auth"
  BY Zenon DEF AllRead
<1>1. /\ len \in Nat \ {0} /\ a \in Nat \ {0}
      /\ a > len + 1 \/ (a + 2 < len /\ b[a + 1] = <<"base64", s.user, s.pass>> /\ b[a + 2] = CRLF)
      /\ \A i \in 1 .. len : b[i] # NUL /\ (b[i][1] = "auth" <=> i = a)
  BY <1>0 DEF HttpLines
<1>2. /\ T = (IF full THEN len ELSE len + 1) /\ DOMAIN t = 1 .. T
      /\ \A i \in 1 .. len : t[i] = b[i]
      /\ ~full => t[len + 1] = NUL
  BY <1>0 DEF TextOf
<1>3. req[1] = "get" /\ NUL[1] = "nul"
  BY DEF NUL
<1>4. req # NUL
  BY <1>3
<1> HIDE DEF req, T
<1>5. c[1] = req /\ \A i \in 1 .. len : i # 1 => c[i] = b[i]
  BY <1>0, <1>1
<1>6. a # 1 /\ a + 1 # 1 /\ a + 2 # 1
  BY <1>0, <1>1
<1>7. HttpLines(c, len, a, s)
  <2>1. a > len + 1 \/ (a + 2 < len /\ c[a + 1] = <<"base64", s.user, s.pass>> /\ c[a + 2] = CRLF)
    <3>1. ASSUME a + 2 < len
          PROVE  c[a + 1] = b[a + 1] /\ c[a + 2] = b[a + 2]
      BY <1>1, <1>5, <1>6, <3>1
    <3> HIDE DEF c
    <3> QED
      BY <1>1, <3>1
  <2>2. \A i \in 1 .. len : c[i] # NUL /\ (c[i][1] = "auth" <=> i = a)
    <3> HIDE DEF c
    <3> QED
      BY <1>1, <1>3, <1>4, <1>5, <1>6
  <2> HIDE DEF c
  <2> QED
    BY <1>1, <2>1, <2>2 DEF HttpLines
<1>8. TextOf(u, c, len, full)
  <2>1. T \in Nat \ {0} /\ 1 \in 1 .. T /\ \A i \in 1 .. len : i \in 1 .. T
    BY <1>1, <1>2
  <2>2. u = [k \in 1 .. T |-> IF k = 1 THEN req ELSE t[k]]
    BY <1>2
  <2>3. Len(u) = T /\ DOMAIN u = 1 .. T /\ u[1] = req /\ \A k \in 1 .. T : k # 1 => u[k] = t[k]
    <3> HIDE DEF u
    <3> QED
      BY <2>1, <2>2
  <2> HIDE DEF u, c
  <2>4. \A i \in 1 .. len : u[i] = c[i]
    BY <1>2, <1>5, <2>1, <2>3
  <2>5. ~full => u[len + 1] = NUL
    BY <1>1, <1>2, <2>3
  <2> QED
    BY <1>1, <1>2, <2>3, <2>4, <2>5 DEF TextOf
<1> HIDE DEF c, u
<1>9. Rewritten(u) = LinesOf(c, len, a) \o (IF full THEN <<CRLF>> ELSE <<NUL, CRLF>>)
  BY <1>0, <1>7, <1>8, HttpLineIs
<1> QED
  BY ONLY <1>9, Zenon DEF c, u, req, LineOf, WithLine

\* The request is queued as it was made, or refused, or ends the process.
LEMMA HttpServeSingle ==
  ASSUME Single, TakenAsGiven, HttpFilled, Has(Text, {CRLF}), NEW creds, HttpServe(Text, creds),
         \A v \in creds : v.name = script.user /\ v.pass = script.pass
  PROVE  OneInv' /\ TakenAsGiven' /\ (crashed' => crashed \/ Targetless)
<1> DEFINE t     == Text
           req   == t[1]
           tgt   == req[2]
           b     == Bytes
           len   == Len(Bytes)
           small == n < HttpBuf
           line  == Rewritten([t EXCEPT ![1] = <<"get", UrlPath(tgt)>>])
<1>1. /\ script.kind \in {"connect", "http"} /\ n \in Nat \ {0} /\ n <= len
      /\ TextOf(t, b, n, ~small)
      /\ ReadInOne => n \in {1, len}
  BY HttpRead
<1>2. PICK a : HttpLines(b, len, a, script) /\ HttpAsks(b, len, a, script)
  BY <1>1, HttpBytes, SingleFacts DEF Single
<1>3. base = 0 /\ (ReadInOne => len <= HttpBuf) /\ script \in Scripts
  BY <1>1, SingleFacts
<1>4. req = b[1]
  <2> HIDE DEF t, b, len, small
  <2> QED
    BY <1>1 DEF TextOf
<1>5. \/ req[1] = "short" /\ GiveUp
      \/ /\ req[1] = "connect" /\ Has(tgt, {Colon})
         /\ Enqueue([target |-> ConnectTarget(tgt), line |-> << >>], creds)
      \/ req[1] = "connect" /\ ~Has(tgt, {Colon}) /\ Crash
      \/ req[1] = "get" /\ tgt = << >> /\ Crash
      \/ req[1] = "get" /\ GiveUp
      \/ req[1] = "get" /\ Enqueue([target |-> UrlTarget(tgt), line |-> line], creds)
  <2> HIDE DEF t, tgt, line
  <2> QED
    BY DEF HttpServe, tgt, t, line
<1>6. CASE GiveUp
  <2>1. /\ UNCHANGED <<script, whole, sent, base, verified, crashed>>
        /\ stage' = "error"
    BY <1>6 DEF GiveUp, clientVars
  <2> QED
    BY <2>1, ParsedSingle, TakenStays DEF OneRead
<1>7. CASE \/ req[1] = "connect" /\ ~Has(tgt, {Colon}) /\ Crash
           \/ req[1] = "get" /\ tgt = << >> /\ Crash
  <2>1. UNCHANGED <<script, whole, sent, base, n, want, verified, ctx, stage>>
    <3>1. Crash
      BY <1>7, Zenon
    <3> QED
      BY <3>1 DEF Crash, clientVars
  <2>2. OneInv' /\ TakenAsGiven'
    BY <2>1, AskedSingle, TakenStays
  <2> HIDE DEF t
  <2>3. Targetless
    BY <1>1, <1>4, <1>7 DEF Targetless, Web
  <2> QED
    BY <2>2, <2>3
<1>8. ASSUME NEW c, Enqueue(c, creds),
             \/ req[1] = "connect" /\ c = [target |-> ConnectTarget(tgt), line |-> << >>]
             \/ req[1] = "get" /\ c = [target |-> UrlTarget(tgt), line |-> line]
      PROVE  OneInv' /\ TakenAsGiven' /\ UNCHANGED crashed
  <2>1. /\ UNCHANGED <<conf, script, whole, sent, base, n, crashed>>
        /\ Bytes' = Bytes /\ ReadInOne' = ReadInOne
        /\ stage' = "queued" /\ ctx' = c /\ verified' = creds
    BY <1>8, Fixed DEF Enqueue, clientVars, ReadInOne
  <2>2. OneInv'
    BY <2>1, ParsedSingle DEF OneRead
  <2>3. VerifiedAsGiven'
    BY <2>1 DEF VerifiedAsGiven
  <2> DEFINE asked == script.asked
             rest  == IF len < HttpBuf THEN <<NUL, CRLF>> ELSE <<CRLF>>
  <2>4. ASSUME Plain(Bytes[1])
        PROVE  /\ ctx'.target = asked.target
               /\ ReadInOne => ctx'.line = asked.line \o (IF script.kind = "http" THEN rest ELSE << >>)
               /\ ReadInOne => base + n = len
    <3>1. Plain(req)
      BY <1>4, <2>4
    <3>2. /\ req[1] \in {"connect", "get"} /\ (script.kind = "connect" <=> req[1] = "connect")
          /\ DOMAIN tgt = 1 .. Len(tgt) /\ Len(tgt) \in Nat
          /\ req[1] = "connect" /\ PlainConnect(tgt) => ConnectAsks(tgt, asked)
          /\ req[1] = "get" => \A x, h \in DOMAIN tgt :
               PlainUrl(tgt, x, h) =>
                 UrlAsks(tgt, x, h, asked) /\ asked.line = LineOf(b, len, a, asked.line[1])
      <4>1. req[1] \in {"connect", "get"}
        BY <1>8, Zenon
      <4>2. HttpAsks(b, len, a, script)
        BY <1>2
      <4> HIDE DEF b, len, t
      <4>3. b[1] = req
        BY <1>4
      <4> HIDE DEF req
      <4> QED
        BY ONLY <4>1, <4>2, <4>3, Zenon DEF HttpAsks, asked, tgt
    <3>3. ASSUME ReadInOne
          PROVE  n = len
      <4>1. PICK i \in DOMAIN t : t[i] = CRLF
        BY Zenon DEF Has
      <4> HIDE DEF t, b, len
      <4>2. /\ i \in 1 .. Len(t) /\ Len(t) = (IF ~small THEN n ELSE n + 1)
            /\ \A k \in 1 .. n : t[k] = b[k]
            /\ small => t[n + 1] = NUL
        BY <1>1, <4>1 DEF TextOf
      <4>3. CRLF[1] = "crlf" /\ NUL[1] = "nul"
        BY DEF CRLF, NUL
      <4>4. i # 1
        BY <3>2, <4>1, <4>3
      <4>5. i # n + 1 \/ ~small
        BY <4>1, <4>2, <4>3
      <4> HIDE DEF small
      <4>6. n # 1
        BY <1>1, <4>2, <4>4, <4>5
      <4> QED
        BY <1>1, <3>3, <4>6
    <3>4. ReadInOne => base + n = len
      BY <1>1, <1>3, <3>3
    <3>5. CASE req[1] = "connect"
      <4>1. PlainConnect(tgt) /\ ConnectAsks(tgt, asked)
        <5>1. PlainConnect(tgt)
          BY <3>1, <3>5 DEF Plain
        <5> QED
          BY <3>2, <3>5, <5>1
      <4> HIDE DEF tgt, asked, req, rest
      <4>2. ConnectTarget(tgt) = asked.target /\ asked.line = << >>
        BY <3>2, <4>1, ConnectIs
      <4>3. c = [target |-> ConnectTarget(tgt), line |-> << >>]
        BY <1>8, <3>5
      <4>4. ctx'.target = ConnectTarget(tgt) /\ ctx'.line = << >>
        BY ONLY <2>1, <4>3
      <4>5. << >> = << >> \o << >> /\ script.kind # "http"
        BY <3>2, <3>5
      <4> QED
        BY <3>4, <4>2, <4>4, <4>5
    <3>6. CASE req[1] = "get"
      <4>1. PICK x \in DOMAIN tgt, h \in DOMAIN tgt : PlainUrl(tgt, x, h)
        <5> HIDE DEF req
        <5>1. \E x, h \in DOMAIN req[2] : PlainUrl(req[2], x, h)
          BY <3>1, <3>6 DEF Plain
        <5> QED
          BY <5>1, Zenon DEF tgt
      <4>2. UrlAsks(tgt, x, h, asked) /\ asked.line = LineOf(b, len, a, asked.line[1])
        BY ONLY <3>2, <3>6, <4>1, Zenon
      <4> DEFINE path == UrlPath(tgt)
      <4>3. UrlTarget(tgt) = asked.target /\ asked.line[1] = <<"get", path>>
        <5> HIDE DEF tgt, asked
        <5> QED
          BY ONLY <3>2, <4>1, <4>2, UrlIs
      <4>4. c = [target |-> UrlTarget(tgt), line |-> line]
        BY ONLY <1>8, <3>6
      <4>5. ctx'.target = UrlTarget(tgt) /\ ctx'.line = line
        <5> HIDE DEF line, tgt
        <5> QED
          BY ONLY <2>1, <4>4
      <4>6. script.kind = "http"
        BY <1>1, <3>2, <3>6
      <4>7. ASSUME ReadInOne
            PROVE  line = asked.line \o rest
        <5>1. n = len
          BY <3>3, <4>7
        <5>2. TextOf(t, b, len, ~small) /\ (small <=> len < HttpBuf)
          BY ONLY <1>1, <5>1, Zenon
        <5>3. DOMAIN b = 1 .. len /\ b[1][1] # "auth"
          <6>1. DOMAIN b = 1 .. len
            BY <1>3, ScriptAssumption DEF Bytes
          <6> HIDE DEF t
          <6> QED
            BY <1>4, <3>6, <6>1
        <5> DEFINE full == ~small
        <5>4. full \in BOOLEAN
          OBVIOUS
        <5> HIDE DEF b, len, t, path, tgt, full, req
        <5>5. TextOf(t, b, len, full) /\ HttpLines(b, len, a, script)
          BY ONLY <1>2, <5>2, Zenon DEF full
        <5>6. Rewritten(WithLine(t, path)) =
                LineOf(b, len, a, <<"get", path>>) \o (IF full THEN <<CRLF>> ELSE <<NUL, CRLF>>)
          <6>1. AllRead(script, b, len, a, t, full)
            BY ONLY <5>3, <5>4, <5>5, Zenon DEF AllRead
          <6> QED
            BY ONLY <6>1, OtherLineIs
        <5>7. (IF full THEN <<CRLF>> ELSE <<NUL, CRLF>>) = rest
          BY ONLY <5>2 DEF full, small
        <5>8. line = LineOf(b, len, a, <<"get", path>>) \o rest
          BY ONLY <5>6, <5>7, Zenon DEF path, WithLine
        <5> QED
          BY ONLY <4>2, <4>3, <5>8, Zenon
      <4> HIDE DEF rest, line, tgt, asked, b, len
      <4> QED
        BY <3>4, <4>3, <4>5, <4>6, <4>7
    <3> QED
      BY <3>2, <3>5, <3>6
  <2>5. Web' /\ Plain(Bytes[1])' = Plain(Bytes[1])
    BY <1>1, <2>1 DEF Web, Plain
  <2> HIDE DEF rest, len
  <2>6. QueuedAsAsked'
    BY <2>1, <2>4, <2>5 DEF QueuedAsAsked, rest, len
  <2> QED
    BY <2>1, <2>2, <2>3, <2>6 DEF TakenAsGiven
<1> HIDE DEF t, tgt, req, line
<1> QED
  BY <1>5, <1>6, <1>7, <1>8

\* The message is parsed: the client's user is verified, and its request queued.
LEMMA HttpSingle ==
  ASSUME Single, HttpRequest \/ HttpAuth, TakenAsGiven
  PROVE  OneInv' /\ TakenAsGiven' /\ (crashed' => crashed \/ Targetless)
<1> DEFINE t     == Text
           cred  == HttpCredentials(t)
           small == n < HttpBuf
<1>1. HttpFilled
  BY DEF HttpRequest, HttpAuth, HttpFilled
<1>2. CASE GiveUp
  <2>1. /\ UNCHANGED <<script, whole, sent, base, verified, crashed>>
        /\ stage' = "error"
    BY <1>2 DEF GiveUp, clientVars
  <2> QED
    BY <2>1, ParsedSingle, TakenStays DEF OneRead
<1>3. CASE Filled("http") /\ Has(t, {CRLF}) /\ Continue("httpAuth", want)
  <2>1. /\ UNCHANGED <<script, whole, sent, base, n, want, verified, crashed>>
        /\ stage = "http" /\ stage' = "httpAuth"
    BY <1>3 DEF Continue, clientVars, Filled
  <2>2. n >= 1
    BY <1>1, HttpRead
  <2> QED
    BY <1>3, <2>1, <2>2, AskedSingle, TakenStays
<1>4. CASE Has(t, {CRLF}) /\ HttpServe(t, {})
  BY <1>1, <1>4, HttpServeSingle
<1>5. CASE /\ Filled("httpAuth") /\ HttpServe(t, {cred})
           /\ Verify(conf.users, cred.name, cred.pass, script.addr)
  <2>1. Has(t, {CRLF})
    BY <1>5 DEF Filled, Single, OneInv
  <2>2. cred.name # << >>
    BY <1>5, VerifiedName DEF Single
  <2>3. /\ script.kind \in {"connect", "http"} /\ n <= Len(Bytes) /\ TextOf(t, Bytes, n, ~small)
    BY <1>1, HttpRead
  <2>4. PICK a : HttpLines(Bytes, Len(Bytes), a, script)
    BY <2>3, HttpBytes, SingleFacts DEF Single
  <2>5. \/ cred = [name |-> << >>, pass |-> << >>]
        \/ cred = [name |-> script.user, pass |-> script.pass]
    <3> HIDE DEF t, small
    <3> QED
      BY <2>3, <2>4, HttpUserIs
  <2>6. HttpServe(t, {cred})
    BY <1>5
  <2> HIDE DEF cred
  <2>7. cred.name = script.user /\ cred.pass = script.pass
    BY <2>2, <2>5
  <2> DEFINE creds == {cred}
  <2>8. HttpServe(t, creds) /\ \A v \in creds : v.name = script.user /\ v.pass = script.pass
    BY <2>6, <2>7
  <2> HIDE DEF creds
  <2> QED
    BY <1>1, <2>1, <2>8, HttpServeSingle
<1> HIDE DEF t, cred
<1>6. CASE HttpRequest
  <2>1. \/ GiveUp
        \/ Has(t, {CRLF}) /\ Continue("httpAuth", want)
        \/ Has(t, {CRLF}) /\ HttpServe(t, {})
    BY <1>6 DEF HttpRequest, t
  <2> QED
    BY <1>2, <1>3, <1>4, <1>6, <2>1 DEF HttpRequest
<1>7. CASE HttpAuth
  BY <1>2, <1>5, <1>7 DEF HttpAuth, t, cred
<1> QED
  BY <1>6, <1>7

-----------------------------------------------------------------------------
(* The inductive invariant *)

\* One statement of the goroutine that serves the client.
LEMMA HandleIs ==
  ASSUME Handle
  PROVE  \/ MixedAdmit \/ MixedPeek \/ MixedPeekErr \/ HandleErr \/ ReadErr
         \/ Read
         \/ Greeting \/ Methods \/ Credentials \/ Username \/ Request \/ UdpDiscard \/ UdpEnd
         \/ Password \/ Address
         \/ Socks4Request \/ Socks4Auth \/ HttpRequest \/ HttpAuth
BY DEF Handle, Parse, Socks5Next

\* It leaves the configuration, the script and the way its bytes come alone.
LEMMA HandleFixes ==
  ASSUME MixedAccept \/ Handle
  PROVE  UNCHANGED <<conf, script, whole>>
<1>1. CASE MixedAccept \/ MixedAdmit \/ MixedPeek \/ MixedPeekErr \/ HandleErr \/ ReadErr \/ Read
  BY <1>1 DEF MixedAccept, MixedAdmit, MixedPeek, MixedPeekErr, HandleErr, ReadErr, Read, Continue, GiveUp
<1>2. CASE Greeting \/ Methods \/ Credentials \/ Username
  BY <1>2 DEF Greeting, Methods, Credentials, Username, Continue, GiveUp, Crash, NewBuffer
<1>3. CASE Password \/ Request \/ UdpDiscard \/ UdpEnd
  BY <1>3 DEF Password, Request, UdpDiscard, UdpEnd, Continue, GiveUp, Crash, NewBuffer
<1>4. CASE Address
  BY <1>4 DEF Address, NewBuffer, GiveUp, Enqueue
<1>5. CASE Socks4Request \/ Socks4Auth \/ HttpRequest \/ HttpAuth
  BY <1>5, OneReadLeaves DEF Crash, GiveUp, Continue, Enqueue
<1> QED
  BY <1>1, <1>2, <1>3, <1>4, <1>5, HandleIs

\* Steps that neither queue nor verify.
LEMMA TakenKept ==
  ASSUME TakenAsGiven,
         \/ MixedAccept \/ MixedAdmit \/ MixedPeek \/ MixedPeekErr \/ HandleErr \/ ReadErr \/ Read
         \/ Greeting \/ Methods \/ Credentials \/ Username \/ Request \/ UdpDiscard \/ UdpEnd
         \/ ClientSend \/ ClientClose
  PROVE  TakenAsGiven'
<1>1. CASE MixedAccept \/ MixedAdmit \/ MixedPeek \/ MixedPeekErr \/ HandleErr \/ ReadErr
  <2>1. UNCHANGED <<script, whole, verified>> /\ stage' # "queued"
    BY <1>1 DEF MixedAccept, MixedAdmit, MixedPeek, MixedPeekErr, HandleErr, ReadErr, Continue, GiveUp
  <2> QED
    BY <2>1, TakenStays
<1>2. CASE Read \/ ClientSend
  <2>1. UNCHANGED <<script, whole, verified, stage>> /\ stage # "queued"
    BY <1>2 DEF Read, ClientSend, Ended
  <2> QED
    BY <2>1, TakenStays
<1>3. CASE ClientClose
  <2>1. UNCHANGED <<script, whole, verified, stage, ctx, base, n>>
    BY <1>3 DEF ClientClose
  <2> QED
    BY <2>1, TakenStays
<1>4. CASE Greeting \/ Methods \/ Credentials \/ Username
  <2>1. UNCHANGED <<script, whole, verified>> /\ stage' # "queued"
    BY <1>4 DEF Greeting, Methods, Credentials, Username, Filled, Continue, GiveUp, Crash, NewBuffer
  <2> QED
    BY <2>1, TakenStays
<1>5. CASE Request \/ UdpDiscard \/ UdpEnd
  <2>1. UNCHANGED <<script, whole, verified>> /\ stage' # "queued"
    BY <1>5 DEF Request, UdpDiscard, UdpEnd, Filled, Continue, GiveUp, Crash, NewBuffer
  <2> QED
    BY <2>1, TakenStays
<1> QED
  BY <1>1, <1>2, <1>3, <1>4, <1>5

\* A step of a client with one message, or of the goroutine that serves it.
LEMMA SingleStep ==
  ASSUME Single, TakenAsGiven, MixedInv', MixedAccept \/ Handle \/ ClientSend \/ ClientClose
  PROVE  OneInv' /\ TakenAsGiven' /\ (crashed' => crashed \/ Overlong \/ Targetless)
<1>1. CASE MixedAccept \/ MixedAdmit \/ MixedPeek \/ MixedPeekErr \/ HandleErr \/ ReadErr
  <2>1. UNCHANGED crashed
    BY <1>1 DEF MixedAccept, MixedAdmit, MixedPeek, MixedPeekErr, HandleErr, ReadErr, Continue, GiveUp
  <2> QED
    BY <1>1, <2>1, FrontSingle, TakenKept
<1>2. CASE Read
  <2>1. UNCHANGED crashed
    BY <1>2 DEF Read
  <2> QED
    BY <1>2, <2>1, ReadSingle, TakenKept
<1>3. CASE ClientSend \/ ClientClose
  <2>1. UNCHANGED crashed
    BY <1>3 DEF ClientSend, ClientClose
  <2> QED
    BY <1>3, <2>1, ClientSingle, TakenKept
<1>4. CASE Socks4Request \/ Socks4Auth
  BY <1>4, Socks4Single
<1>5. CASE HttpRequest \/ HttpAuth
  BY <1>5, HttpSingle
<1>6. ~(Greeting \/ Methods \/ Credentials \/ Username \/ Request \/ UdpDiscard \/ UdpEnd \/ Password \/ Address)
  <2>1. stage \notin Greetings \cup Accepted
    BY DEF Single, MixedInv, PlaceInv, OneMessage
  <2> QED
    BY <2>1 DEF Greeting, Methods, Credentials, Username, Request, UdpDiscard, UdpEnd, Password,
                Address, Filled, Greetings, Accepted
<1> QED
  BY <1>1, <1>2, <1>3, <1>4, <1>5, <1>6, HandleIs

\* A step of a SOCKS5 client that waits, or of the goroutine that serves it.
LEMMA WaitsStep ==
  ASSUME Waiting, TakenAsGiven, MixedInv', stage \notin OneRead,
         MixedAccept \/ Handle \/ ClientSend \/ ClientClose
  PROVE  WaitsInv' /\ TakenAsGiven' /\ (crashed' => crashed \/ Overlong)
<1>1. CASE MixedAccept \/ MixedAdmit \/ MixedPeek \/ MixedPeekErr \/ HandleErr \/ ReadErr
  <2>1. UNCHANGED crashed
    BY <1>1 DEF MixedAccept, MixedAdmit, MixedPeek, MixedPeekErr, HandleErr, ReadErr, Continue, GiveUp
  <2> QED
    BY <1>1, <2>1, FrontWaits, TakenKept
<1>2. CASE Read
  <2>1. UNCHANGED crashed
    BY <1>2 DEF Read
  <2> QED
    BY <1>2, <2>1, ReadWaits, TakenKept
<1>3. CASE ClientSend \/ ClientClose
  <2>1. UNCHANGED crashed
    BY <1>3 DEF ClientSend, ClientClose
  <2> QED
    BY <1>3, <2>1, ClientWaits, TakenKept
<1>4. CASE Greeting \/ Methods \/ Credentials
  BY <1>4, GreetingWaits, MethodsWaits, CredentialsWaits, TakenKept
<1>5. CASE Username \/ Request
  BY <1>5, UsernameWaits, RequestWaits, TakenKept
<1>6. CASE UdpDiscard \/ UdpEnd
  BY <1>6, UdpWaits, TakenKept
<1>7. CASE Password
  BY <1>7, PasswordWaits
<1>8. CASE Address
  BY <1>8, AddressWaits
<1>9. ~(Socks4Request \/ Socks4Auth \/ HttpRequest \/ HttpAuth)
  BY OneReadLeaves
<1> QED
  BY <1>1, <1>2, <1>3, <1>4, <1>5, <1>6, <1>7, <1>8, <1>9, HandleIs

\* The parser of the other protocols is chosen by the first byte.
LEMMA PeekedStep ==
  ASSUME script \in Scripts, stage \in OneRead => OneMessage, UNCHANGED script,
         MixedAccept \/ Handle \/ ClientSend \/ ClientClose
  PROVE  (stage \in OneRead => OneMessage)'
<1>1. CASE MixedPeek
  <2>1. CASE script.kind = "socks5"
    <3>1. HeadByte = 5
      BY <2>1, ScriptAssumption DEF HeadByte, Bytes
    <3>2. stage' = "greeting"
      BY <1>1, <3>1 DEF MixedPeek, Continue
    <3> QED
      BY <3>2 DEF OneRead
  <2>2. CASE script.kind # "socks5"
    <3>1. OneMessage
      BY <2>2, ScriptAssumption DEF OneMessage
    <3> QED
      BY <3>1 DEF OneMessage
  <2> QED
    BY <2>1, <2>2
<1>2. ASSUME stage' = stage \/ stage' \notin OneRead
      PROVE  (stage \in OneRead => OneMessage)'
  BY <1>2 DEF OneMessage
<1>3. CASE MixedAccept \/ MixedAdmit \/ MixedPeekErr \/ HandleErr \/ ReadErr \/ Read \/ ClientSend \/ ClientClose
  BY <1>2, <1>3 DEF MixedAccept, MixedAdmit, MixedPeekErr, HandleErr, ReadErr, Read, ClientSend, ClientClose, GiveUp, OneRead
<1>4. CASE Greeting \/ Methods \/ Credentials \/ Username
  BY <1>2, <1>4 DEF Greeting, Methods, Credentials, Username, Continue, GiveUp, Crash, NewBuffer, OneRead
<1>5. CASE Password \/ Request \/ UdpDiscard \/ UdpEnd
  BY <1>2, <1>5 DEF Password, Request, UdpDiscard, UdpEnd, Continue, GiveUp, Crash, NewBuffer, OneRead
<1>6. CASE Address
  <2>1. stage' \in {"queued", "udp", "error"}
    BY <1>6 DEF Address, NewBuffer, GiveUp, Enqueue
  <2> QED
    BY <1>2, <2>1 DEF OneRead
<1>7. CASE Socks4Request \/ Socks4Auth \/ HttpRequest \/ HttpAuth
  <2>1. stage \in OneRead
    BY <1>7, OneReadLeaves
  <2> QED
    BY <2>1 DEF OneMessage
<1> QED
  BY <1>1, <1>3, <1>4, <1>5, <1>6, <1>7, HandleIs

\* Every step keeps it, if the clients are well-formed and the configured users have names.
LEMMA ParserStep ==
  ASSUME \A s \in Scripts : WellFormed(s), \A c \in Configs : Named(c.users),
         MixedInvs, MixedInvs', ParserInv, [MixedNext]_mixedVars
  PROVE  ParserInv'
<1>1. MixedInv /\ MixedInv' /\ script \in Scripts /\ conf \in Configs
  BY DEF MixedInvs, MixedInv, PlaceInv, ParserInv
<1>2. WellFormed(script) /\ Named(conf.users)
  BY <1>1
<1>3. CASE Running /\ (MixedAccept \/ Handle \/ ClientSend \/ ClientClose)
  <2>1. UNCHANGED <<conf, script>>
    BY <1>3, HandleFixes DEF ClientSend, ClientClose
  <2>2. /\ OneMessage' = OneMessage /\ Waits' = Waits
        /\ Overlong' = Overlong /\ Targetless' = Targetless
    BY <2>1, Fixed
  <2>3. (stage \in OneRead => OneMessage)'
    BY <1>1, <1>3, <2>1, PeekedStep DEF ParserInv
  <2>4. ~crashed
    BY <1>3 DEF Running
  <2>5. CASE OneMessage
    <3>1. Single /\ TakenAsGiven
      BY <1>1, <1>2, <2>5 DEF Single, ParserInv
    <3>2. OneInv' /\ TakenAsGiven' /\ (crashed' => crashed \/ Overlong \/ Targetless)
      BY <1>1, <1>3, <3>1, SingleStep
    <3>3. ~Waits'
      BY <2>2, <2>5 DEF Waits, OneMessage
    <3> QED
      BY <2>1, <2>2, <2>3, <2>4, <3>2, <3>3 DEF ParserInv, CrashOnlyWhen
  <2>6. CASE Waits
    <3>1. Waiting /\ TakenAsGiven /\ stage \notin OneRead /\ ~OneMessage
      BY <1>1, <1>2, <2>6 DEF Waiting, ParserInv, Waits, OneMessage
    <3>2. WaitsInv' /\ TakenAsGiven' /\ (crashed' => crashed \/ Overlong)
      BY <1>1, <1>3, <3>1, WaitsStep
    <3> QED
      BY <2>1, <2>2, <2>3, <2>4, <3>1, <3>2 DEF ParserInv, CrashOnlyWhen
  <2>7. CASE ~OneMessage /\ ~Waits
    <3>1. script.kind = "socks5" /\ ~script.patient
      BY <1>1, <2>7, ScriptAssumption DEF Waits, OneMessage
    <3> QED
      BY <2>1, <2>2, <2>3, <2>7, <3>1 DEF ParserInv, CrashOnlyWhen
  <2> QED
    BY <2>5, <2>6, <2>7
<1>4. CASE ReloadConf \/ UNCHANGED frontVars
  <2>1. /\ UNCHANGED <<script, whole, sent, gone, conn, stage, base, n, want, replies, verified, ctx, crashed>>
        /\ conf' \in Configs
    BY <1>1, <1>4 DEF ReloadConf
  <2>2. /\ OneMessage' = OneMessage /\ Waits' = Waits /\ Bytes' = Bytes
        /\ Overlong' = Overlong /\ Targetless' = Targetless
        /\ Ends(1)' = Ends(1) /\ Ends(2)' = Ends(2) /\ RequestNo' = RequestNo
        /\ Ends(RequestNo)' = Ends(RequestNo) /\ Ends(RequestNo - 1)' = Ends(RequestNo - 1)
    BY <2>1, Fixed
  <2>3. TakenAsGiven => TakenAsGiven'
    BY <2>1, TakenStays
  <2>4. OneInv' <=> OneInv
    <3>1. At(1)' = At(1) /\ Text' = Text
      BY <2>1, SameBuffer
    <3> QED
      BY <2>1, <2>2, <3>1 DEF OneInv, ReadInOne
  <2>5. OpeningInv' <=> OpeningInv
    BY <2>1, <2>2 DEF OpeningInv
  <2>6. AskingInv' <=> AskingInv
    BY <2>1, <2>2 DEF AskingInv
  <2>7. RequestInv' <=> RequestInv
    BY <2>1, <2>2 DEF RequestInv
  <2>8. WaitsInv' <=> WaitsInv
    BY <2>1, <2>5, <2>6, <2>7 DEF WaitsInv
  <2> QED
    BY <2>1, <2>2, <2>3, <2>4, <2>8 DEF ParserInv, CrashOnlyWhen
<1> QED
  BY <1>3, <1>4 DEF MixedNext, mixedVars

\* It holds initially.
LEMMA ParserInit ==
  ASSUME MixedInit
  PROVE  ParserInv
<1>1. /\ script \in Scripts /\ conf \in Configs
      /\ sent = 0 /\ stage = "new" /\ base = 0 /\ n = 0 /\ want = [min |-> 0, cap |-> 0]
      /\ replies = << >> /\ verified = {} /\ crashed = FALSE
  BY DEF MixedInit
<1>2. TakenAsGiven
  BY <1>1 DEF TakenAsGiven, QueuedAsAsked, VerifiedAsGiven
<1>3. OneInv
  <2>1. sent = 0 /\ stage \notin OneRead
    BY <1>1 DEF OneRead
  <2> QED
    BY <1>1, <2>1 DEF OneInv, OneRead
<1>4. 0 <= Ends(1)
  BY <1>1, ScriptAssumption DEF Ends
<1>5. WaitsInv
  BY <1>1, <1>4 DEF WaitsInv, OpeningInv, Asking
<1> QED
  BY <1>1, <1>2, <1>3, <1>5 DEF ParserInv, CrashOnlyWhen, OneRead

\* No cut of a well-formed client's messages makes an index or a slice of the three parsers
\* go out of range, under any reloads of the configuration, unless it is a SOCKS5 client
\* that does not wait for the answers, its credentials, its host or its name do not fit into
\* the buffers (socks5/tcp.go 84, 149, 206, socks4/tcp.go 117), or it is an HTTP client that
\* names no port or no target (http/tcp.go 106, 110): for all scripts, configurations whose
\* users have names, and networks.
THEOREM NoCrash ==
  ASSUME \A s \in Scripts : WellFormed(s), \A c \in Configs : Named(c.users)
  PROVE  MixedSpec => []CrashOnlyWhen
<1>1. MixedInit => ParserInv
  BY ParserInit
<1>2. MixedInvs /\ MixedInvs' /\ ParserInv /\ [MixedNext]_mixedVars => ParserInv'
  BY ParserStep
<1>3. ParserInv => CrashOnlyWhen
  BY DEF ParserInv
<1> QED
  BY <1>1, <1>2, <1>3, MixedInvariance, PTL DEF MixedSpec

\* What the parsers take is what the client gave: the credentials that auth.Verify has
\* accepted and the request that is queued, for all well-formed clients of SOCKS4 and HTTP
\* and the SOCKS5 clients that wait for the answers, however their bytes are cut up and the
\* configuration is replaced.  For HTTP it is the result of the splitting, the conversions
\* and the joining of http/tcp.go 103-128 and 187, on the targets that are plain.
THEOREM Taken ==
  ASSUME \A s \in Scripts : WellFormed(s), \A c \in Configs : Named(c.users)
  PROVE  MixedSpec => []((script.kind = "socks5" => script.patient) => TakenAsGiven)
<1>1. MixedInit => ParserInv
  BY ParserInit
<1>2. MixedInvs /\ MixedInvs' /\ ParserInv /\ [MixedNext]_mixedVars => ParserInv'
  BY ParserStep
<1>3. MixedInvs /\ ParserInv => ((script.kind = "socks5" => script.patient) => TakenAsGiven)
  BY ScriptAssumption DEF ParserInv, MixedInvs, MixedInv, PlaceInv, OneMessage, Waits
<1> QED
  BY <1>1, <1>2, <1>3, MixedInvariance, PTL DEF MixedSpec
=============================================================================
