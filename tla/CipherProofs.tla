---------------------------- MODULE CipherProofs ----------------------------
(***************************************************************************)
(* Decrypt undoes Encrypt, for every token and every length of data.       *)
(***************************************************************************)
EXTENDS Cipher, TLAPS

\* The operators on bytes give bytes.
LEMMA ByteClosed ==
  ASSUME NEW a \in Byte, NEW b \in Byte
  PROVE  Xor(a, b) \in Byte /\ Or(a, b) \in Byte
BY DEF Xor, Or, Byte

\* A rotation is by less than a byte's width.
LEMMA ShiftRange ==
  ASSUME NEW k \in Byte
  PROVE  Shift(k) \in 0 .. 7
BY DEF Shift, Byte, Bit

\* shiftRight: bit j comes from bit j + n, around the end of the byte.
LEMMA RotRightBits ==
  ASSUME NEW a \in Byte, NEW k \in Byte
  PROVE  /\ RotRight(a, k) \in Byte
         /\ \A j \in Bit : RotRight(a, k)[j] = IF j + Shift(k) <= 7 THEN a[j + Shift(k)]
                                               ELSE a[j + Shift(k) - 8]
<1> DEFINE n == Shift(k)
<1>0. n \in 0 .. 7
  BY ShiftRange
<1> HIDE DEF n
<1>1. ASSUME NEW j \in Bit
      PROVE  /\ Shr(a, n)[j] = IF j + n <= 7 THEN a[j + n] ELSE 0
             /\ Shl(a, 8 - n)[j] = IF j + n >= 8 THEN a[j + n - 8] ELSE 0
  BY <1>0 DEF Shr, Shl, Bit
<1>2. ASSUME NEW j \in Bit
      PROVE  Or(Shr(a, n), Shl(a, 8 - n))[j] = IF j + n <= 7 THEN a[j + n] ELSE a[j + n - 8]
  <2>1. CASE j + n <= 7
    <3>1. j + n \in Bit /\ a[j + n] \in {0, 1}
      BY <1>0, <2>1 DEF Bit, Byte
    <3> QED
      BY <1>0, <1>1, <2>1, <3>1 DEF Or, Bit
  <2>2. CASE j + n > 7
    <3>1. j + n - 8 \in Bit /\ a[j + n - 8] \in {0, 1}
      BY <1>0, <2>2 DEF Bit, Byte
    <3> QED
      BY <1>0, <1>1, <2>2, <3>1 DEF Or, Bit
  <2> QED
    BY <1>0, <2>1, <2>2 DEF Bit
<1>3. Or(Shr(a, n), Shl(a, 8 - n)) \in Byte
  BY DEF Or, Byte
<1> QED
  BY <1>2, <1>3 DEF RotRight, n

\* shiftLeft: bit j comes from bit j - n, around the end of the byte.
LEMMA RotLeftBits ==
  ASSUME NEW a \in Byte, NEW k \in Byte
  PROVE  /\ RotLeft(a, k) \in Byte
         /\ \A j \in Bit : RotLeft(a, k)[j] = IF j - Shift(k) >= 0 THEN a[j - Shift(k)]
                                              ELSE a[j - Shift(k) + 8]
<1> DEFINE n == Shift(k)
<1>0. n \in 0 .. 7
  BY ShiftRange
<1> HIDE DEF n
<1>1. ASSUME NEW j \in Bit
      PROVE  /\ Shl(a, n)[j] = IF j - n >= 0 THEN a[j - n] ELSE 0
             /\ Shr(a, 8 - n)[j] = IF j - n < 0 THEN a[j - n + 8] ELSE 0
  BY <1>0 DEF Shr, Shl, Bit
<1>2. ASSUME NEW j \in Bit
      PROVE  Or(Shl(a, n), Shr(a, 8 - n))[j] = IF j - n >= 0 THEN a[j - n] ELSE a[j - n + 8]
  <2>1. CASE j - n >= 0
    <3>1. j - n \in Bit /\ a[j - n] \in {0, 1}
      BY <1>0, <2>1 DEF Bit, Byte
    <3> QED
      BY <1>0, <1>1, <2>1, <3>1 DEF Or, Bit
  <2>2. CASE j - n < 0
    <3>1. j - n + 8 \in Bit /\ a[j - n + 8] \in {0, 1}
      BY <1>0, <2>2 DEF Bit, Byte
    <3> QED
      BY <1>0, <1>1, <2>2, <3>1 DEF Or, Bit
  <2> QED
    BY <1>0, <2>1, <2>2 DEF Bit
<1>3. Or(Shl(a, n), Shr(a, 8 - n)) \in Byte
  BY DEF Or, Byte
<1> QED
  BY <1>2, <1>3 DEF RotLeft, n

\* One byte: xor and shiftRight, then shiftLeft and xor, with the same byte of the key.
LEMMA ByteRoundTrip ==
  ASSUME NEW b \in Byte, NEW k \in Byte
  PROVE  EncByte(b, k) \in Byte /\ DecByte(EncByte(b, k), k) = b
<1> DEFINE x == Xor(b, k)
           e == RotRight(x, k)
           l == RotLeft(e, k)
<1>1. x \in Byte
  BY ByteClosed
<1>2. e \in Byte
  BY <1>1, RotRightBits
<1>3. l \in Byte
  BY <1>2, RotLeftBits
<1>4. ASSUME NEW j \in Bit
      PROVE  l[j] = x[j]
  <2>0. Shift(k) \in 0 .. 7
    BY ShiftRange
  <2> HIDE DEF x, e, l
  <2>1. CASE j - Shift(k) >= 0
    <3>1. j - Shift(k) \in Bit
      BY <2>0, <2>1 DEF Bit
    <3>2. l[j] = e[j - Shift(k)]
      BY <1>2, <2>1, RotLeftBits DEF l
    <3>3. e[j - Shift(k)] = x[j]
      <4>1. (j - Shift(k)) + Shift(k) = j /\ j <= 7
        BY <2>0 DEF Bit
      <4> QED
        BY <1>1, <3>1, <4>1, RotRightBits DEF e
    <3> QED
      BY <3>2, <3>3
  <2>2. CASE j - Shift(k) < 0
    <3>1. j - Shift(k) + 8 \in Bit
      BY <2>0, <2>2 DEF Bit
    <3>2. l[j] = e[j - Shift(k) + 8]
      BY <1>2, <2>0, <2>2, RotLeftBits DEF l, Bit
    <3>3. e[j - Shift(k) + 8] = x[j]
      <4>1. /\ (j - Shift(k) + 8) + Shift(k) - 8 = j
            /\ ~((j - Shift(k) + 8) + Shift(k) <= 7)
        BY <2>0 DEF Bit
      <4> QED
        BY <1>1, <3>1, <4>1, RotRightBits DEF e
    <3> QED
      BY <3>2, <3>3
  <2> QED
    BY <2>0, <2>1, <2>2 DEF Bit
<1>5. l = x
  BY <1>1, <1>3, <1>4 DEF Byte
<1>6. Xor(x, k) = b
  BY DEF Xor, Byte
<1> QED
  BY <1>2, <1>5, <1>6 DEF EncByte, DecByte

-----------------------------------------------------------------------------
(* Blocks: arithmetic of the loop's index *)

\* Division with remainder.
LEMMA DivMod ==
  ASSUME NEW L \in Nat \ {0}, NEW n \in Nat
  PROVE  /\ n % L \in 0 .. L - 1
         /\ n = L * (n \div L) + (n % L)
         /\ n \div L \in Nat
OBVIOUS

\* The remainder of L * q + r is r.
LEMMA ModUnique ==
  ASSUME NEW L \in Nat \ {0}, NEW q \in Nat, NEW r \in 0 .. L - 1
  PROVE  (L * q + r) % L = r
OBVIOUS

\* Inside the block that starts at a multiple of the key's length the offset is the
\* index into the key.
LEMMA BlockOffset ==
  ASSUME NEW L \in Nat \ {0}, NEW m \in Nat, m % L = 0, NEW r \in 0 .. L - 1
  PROVE  (m + r) % L = r
BY DivMod, ModUnique

\* A block that starts below the end lies below the end.
LEMMA BlockFits ==
  ASSUME NEW L \in Nat \ {0}, NEW m \in Nat, m % L = 0, NEW e \in Nat, e % L = 0, m < e
  PROVE  m + L <= e
<1>1. /\ m = L * (m \div L) /\ m \div L \in Nat
      /\ e = L * (e \div L) /\ e \div L \in Nat
  BY DivMod
<1>2. ASSUME NEW x \in Nat, NEW y \in Nat, L * x < L * y
      PROVE  x + 1 <= y
  BY <1>2
<1>3. ASSUME NEW x \in Nat, NEW y \in Nat, x + 1 <= y
      PROVE  L * x + L <= L * y
  BY <1>3
<1> QED
  BY <1>1, <1>2, <1>3

\* A block loop goes from one multiple of the block's length to the next.
LEMMA NextBlock ==
  ASSUME NEW L \in Nat \ {0}, NEW m \in Nat, m % L = 0
  PROVE  (m + L) % L = 0
<1>1. m + L = L * ((m \div L) + 1) + 0
  BY DivMod
<1>2. (m \div L) + 1 \in Nat
  BY DivMod
<1>3. (L * ((m \div L) + 1) + 0) % L = 0
  BY <1>2, ModUnique
<1> QED
  BY <1>1, <1>3

\* complete pads to a multiple of the key's length.
LEMMA PadToBlock ==
  ASSUME NEW L \in Nat \ {0}, NEW n \in Nat, n % L > 0
  PROVE  (n + (L - (n % L))) % L = 0
<1>1. n + (L - (n % L)) = L * ((n \div L) + 1) + 0
  <2>1. ASSUME NEW q \in Nat, NEW r \in Nat
        PROVE  (L * q + r) + (L - r) = L * (q + 1) + 0
    OBVIOUS
  <2>2. n \div L \in Nat /\ n % L \in Nat /\ n = L * (n \div L) + (n % L)
    BY DivMod
  <2>3. (L * (n \div L) + (n % L)) + (L - (n % L)) = L * ((n \div L) + 1) + 0
    BY <2>1, <2>2
  <2> QED
    BY <2>2, <2>3
<1>2. (n \div L) + 1 \in Nat
  BY DivMod
<1>3. (L * ((n \div L) + 1) + 0) % L = 0
  BY <1>2, ModUnique
<1> QED
  BY <1>1, <1>3

-----------------------------------------------------------------------------
(* Whole arrays *)

Token == Seq(Byte) \ {<< >>}

\* complete: a longer array of bytes that begins with the data and fills whole blocks.
LEMMA CompleteFacts ==
  ASSUME NEW d \in Seq(Byte), NEW tok \in Token
  PROVE  /\ PadLen(d, tok) \in Nat
         /\ Complete(d, tok) \in Seq(Byte)
         /\ Len(Complete(d, tok)) = Len(d) + PadLen(d, tok)
         /\ Len(Complete(d, tok)) % Len(tok) = 0
         /\ \A p \in 1 .. Len(d) : Complete(d, tok)[p] = d[p]
<1>1. Len(tok) \in Nat \ {0} /\ Len(d) \in Nat
  BY DEF Token
<1>2. Len(d) % Len(tok) \in 0 .. Len(tok) - 1
  BY <1>1, DivMod
<1>3. PadLen(d, tok) \in Nat
  BY <1>1, <1>2 DEF PadLen
<1>4. Zero \in Byte
  BY DEF Zero, Byte
<1>5. Complete(d, tok) \in Seq(Byte) /\ Len(Complete(d, tok)) = Len(d) + PadLen(d, tok)
  BY <1>1, <1>3, <1>4 DEF Complete
<1>6. (Len(d) + PadLen(d, tok)) % Len(tok) = 0
  <2>1. CASE Len(d) % Len(tok) > 0
    BY <1>1, <2>1, PadToBlock DEF PadLen
  <2>2. CASE ~(Len(d) % Len(tok) > 0)
    <3>1. Len(d) % Len(tok) = 0 /\ Len(d) + PadLen(d, tok) = Len(d)
      BY <1>1, <1>2, <2>2 DEF PadLen
    <3> QED
      BY <3>1
  <2> QED
    BY <2>1, <2>2
<1>7. \A p \in 1 .. Len(d) : Complete(d, tok)[p] = d[p]
  BY <1>1, <1>3 DEF Complete
<1> QED
  BY <1>3, <1>5, <1>6, <1>7

\* Every position meets a byte of the key.
LEMMA KeyAtType ==
  ASSUME NEW tok \in Token, NEW p \in Nat \ {0}
  PROVE  KeyAt(tok, p) \in Byte
<1>1. Len(tok) \in Nat \ {0} /\ p - 1 \in Nat
  BY DEF Token
<1>2. (p - 1) % Len(tok) \in 0 .. Len(tok) - 1
  BY <1>1, DivMod
<1> QED
  BY <1>1, <1>2 DEF KeyAt, Token

\* DecByte gives bytes too.
LEMMA DecByteType ==
  ASSUME NEW b \in Byte, NEW k \in Byte
  PROVE  DecByte(b, k) \in Byte
BY RotLeftBits, ByteClosed DEF DecByte

\* Cutting an array of n + pL bytes back to n.
LEMMA CutBack ==
  ASSUME NEW S, NEW res \in Seq(S), NEW n \in Nat, NEW pL \in Nat, Len(res) = n + pL
  PROVE  /\ Cut(res, pL) \in Seq(S)
         /\ Len(Cut(res, pL)) = n
         /\ \A p \in 1 .. n : Cut(res, pL)[p] = res[p]
BY DEF Cut

\* Encrypt works position by position and keeps the length.
LEMMA EncryptBytes ==
  ASSUME NEW d \in Seq(Byte), NEW tok \in Token
  PROVE  /\ Encrypt(d, tok) \in Seq(Byte)
         /\ Len(Encrypt(d, tok)) = Len(d)
         /\ \A p \in 1 .. Len(d) : Encrypt(d, tok)[p] = EncByte(d[p], KeyAt(tok, p))
<1> DEFINE full == Complete(d, tok)
           all  == EncAll(full, tok)
           pL   == PadLen(d, tok)
<1> HIDE DEF full, pL
<1>0. Len(d) \in Nat
  OBVIOUS
<1>1. /\ full \in Seq(Byte) /\ pL \in Nat /\ Len(full) = Len(d) + pL
      /\ \A p \in 1 .. Len(d) : full[p] = d[p]
  BY CompleteFacts, Zenon DEF full, pL
<1>2. \A p \in 1 .. Len(full) : EncByte(full[p], KeyAt(tok, p)) \in Byte
  BY <1>1, KeyAtType, ByteRoundTrip
<1>3. all \in Seq(Byte) /\ Len(all) = Len(d) + pL
  BY <1>0, <1>1, <1>2 DEF EncAll
<1>4. \A p \in 1 .. Len(d) : all[p] = EncByte(d[p], KeyAt(tok, p))
  BY <1>0, <1>1 DEF EncAll
<1>5. Encrypt(d, tok) = Cut(all, pL)
  BY DEF Encrypt, full, pL
<1> HIDE DEF all
<1>6. /\ Cut(all, pL) \in Seq(Byte)
      /\ Len(Cut(all, pL)) = Len(d)
      /\ \A p \in 1 .. Len(d) : Cut(all, pL)[p] = all[p]
  BY <1>0, <1>1, <1>3, CutBack
<1> QED
  BY <1>4, <1>5, <1>6

\* So does Decrypt.
LEMMA DecryptBytes ==
  ASSUME NEW d \in Seq(Byte), NEW tok \in Token
  PROVE  /\ Decrypt(d, tok) \in Seq(Byte)
         /\ Len(Decrypt(d, tok)) = Len(d)
         /\ \A p \in 1 .. Len(d) : Decrypt(d, tok)[p] = DecByte(d[p], KeyAt(tok, p))
<1> DEFINE full == Complete(d, tok)
           all  == DecAll(full, tok)
           pL   == PadLen(d, tok)
<1> HIDE DEF full, pL
<1>0. Len(d) \in Nat
  OBVIOUS
<1>1. /\ full \in Seq(Byte) /\ pL \in Nat /\ Len(full) = Len(d) + pL
      /\ \A p \in 1 .. Len(d) : full[p] = d[p]
  BY CompleteFacts, Zenon DEF full, pL
<1>2. \A p \in 1 .. Len(full) : DecByte(full[p], KeyAt(tok, p)) \in Byte
  BY <1>1, KeyAtType, DecByteType
<1>3. all \in Seq(Byte) /\ Len(all) = Len(d) + pL
  BY <1>0, <1>1, <1>2 DEF DecAll
<1>4. \A p \in 1 .. Len(d) : all[p] = DecByte(d[p], KeyAt(tok, p))
  BY <1>0, <1>1 DEF DecAll
<1>5. Decrypt(d, tok) = Cut(all, pL)
  BY DEF Decrypt, full, pL
<1> HIDE DEF all
<1>6. /\ Cut(all, pL) \in Seq(Byte)
      /\ Len(Cut(all, pL)) = Len(d)
      /\ \A p \in 1 .. Len(d) : Cut(all, pL)[p] = all[p]
  BY <1>0, <1>1, <1>3, CutBack
<1> QED
  BY <1>4, <1>5, <1>6

\* Decrypt undoes Encrypt for every token that is not empty and data of every length.
THEOREM DecryptEncrypt ==
  ASSUME NEW d \in Seq(Byte), NEW tok \in Token
  PROVE  Decrypt(Encrypt(d, tok), tok) = d
<1> DEFINE e == Encrypt(d, tok)
           b == Decrypt(e, tok)
<1>1. /\ e \in Seq(Byte) /\ Len(e) = Len(d) /\ Len(d) \in Nat
      /\ \A p \in 1 .. Len(d) : e[p] = EncByte(d[p], KeyAt(tok, p))
  BY EncryptBytes
<1> HIDE DEF e
<1>2. /\ b \in Seq(Byte) /\ Len(b) = Len(d)
      /\ \A p \in 1 .. Len(d) : b[p] = DecByte(e[p], KeyAt(tok, p))
  BY <1>1, DecryptBytes
<1> HIDE DEF b
<1>3. ASSUME NEW p \in 1 .. Len(d)
      PROVE  b[p] = d[p]
  <2>1. d[p] \in Byte /\ KeyAt(tok, p) \in Byte
    BY <1>1, KeyAtType
  <2> QED
    BY <1>1, <1>2, <2>1, ByteRoundTrip
<1>4. b = d
  BY <1>1, <1>2, <1>3
<1> QED
  BY <1>4 DEF b, e

-----------------------------------------------------------------------------
(* The loops *)

CipherInd == CipherTypeOK /\ LoopInv

\* The tokens and plaintexts of the state machine are those of the lemmas above.
LEMMA KeyFacts ==
  ASSUME CipherTypeOK
  PROVE  /\ key \in Token /\ Len(key) \in Nat \ {0} /\ plain \in Seq(Byte)
         /\ \A p \in 1 .. Len(key) : key[p] \in Byte
<1>1. key \in Token /\ plain \in Seq(Byte)
  BY KeysAssumption, DatasAssumption DEF CipherTypeOK, Token
<1> QED
  BY <1>1 DEF Token

\* In the block at i, the loop's key[j] is the byte KeyAt names.
LEMMA BlockKey ==
  ASSUME CipherInd, phase # "done", i < Len(data)
  PROVE  /\ i \in Nat /\ i + Len(key) <= Len(data) /\ (i + Len(key)) % Len(key) = 0
         /\ \A p \in Block : key[p - i] = KeyAt(key, p) /\ KeyAt(key, p) \in Byte
<1>1. /\ Len(key) \in Nat \ {0} /\ i \in Nat /\ i % Len(key) = 0
      /\ Len(data) \in Nat /\ Len(data) % Len(key) = 0
  BY KeyFacts DEF CipherInd, CipherTypeOK, LoopInv
<1>2. i + Len(key) <= Len(data) /\ (i + Len(key)) % Len(key) = 0
  BY <1>1, BlockFits, NextBlock
<1>3. ASSUME NEW p \in Block
      PROVE  key[p - i] = KeyAt(key, p) /\ KeyAt(key, p) \in Byte
  <2>1. p - i - 1 \in 0 .. Len(key) - 1 /\ p \in Nat \ {0} /\ i + (p - i - 1) = p - 1
    BY <1>1, <1>3 DEF Block
  <2>2. (i + (p - i - 1)) % Len(key) = p - i - 1
    BY <1>1, <2>1, BlockOffset
  <2>3. KeyAt(key, p) = key[p - i]
    BY <1>1, <2>1, <2>2 DEF KeyAt
  <2> QED
    BY <2>1, <2>3, KeyAtType, KeyFacts DEF CipherInd
<1> QED
  BY <1>1, <1>2, <1>3

\* A turn of encrypt's loop.
LEMMA EncBlockStep ==
  ASSUME CipherInd, EncBlock
  PROVE  CipherInd'
<1> USE DEF EncBlock
<1>1. /\ i \in Nat /\ i + Len(key) <= Len(data) /\ (i + Len(key)) % Len(key) = 0
      /\ \A p \in Block : key[p - i] = KeyAt(key, p) /\ KeyAt(key, p) \in Byte
  BY BlockKey
<1>2. /\ Len(key) \in Nat \ {0} /\ Len(data) \in Nat /\ Len(result) = Len(data)
      /\ data \in Seq(Byte) /\ result \in Seq(Byte)
  BY KeyFacts DEF CipherInd, CipherTypeOK, LoopInv
<1>3. DOMAIN result = 1 .. Len(data)
  BY <1>2
<1>4. ASSUME NEW p \in 1 .. Len(data)
      PROVE  result'[p] = IF p \in Block THEN EncByte(data[p], KeyAt(key, p)) ELSE result[p]
  BY <1>1, <1>3, <1>4 DEF EncByte
<1>5. ASSUME NEW p \in 1 .. Len(data)
      PROVE  (IF p \in Block THEN EncByte(data[p], KeyAt(key, p)) ELSE result[p]) \in Byte
  BY <1>1, <1>2, <1>5, ByteRoundTrip
<1>6. result' \in Seq(Byte) /\ Len(result') = Len(data)
  <2>1. result' = [p \in 1 .. Len(data) |->
                     IF p \in Block THEN EncByte(data[p], KeyAt(key, p)) ELSE result[p]]
    BY <1>3, <1>4
  <2> QED
    BY <1>2, <1>5, <2>1
<1>7. CipherTypeOK'
  BY <1>1, <1>2, <1>6 DEF CipherInd, CipherTypeOK
<1>8. \A p \in 1 .. i' : result'[p] = EncByte(data[p], KeyAt(key, p))
  <2> SUFFICES ASSUME NEW p \in 1 .. i + Len(key)
               PROVE  result'[p] = EncByte(data[p], KeyAt(key, p))
    OBVIOUS
  <2>1. p \in 1 .. Len(data) /\ (p \in Block \/ p \in 1 .. i)
    BY <1>1, <1>2 DEF Block
  <2>2. CASE p \in Block
    BY <1>4, <2>1, <2>2
  <2>3. CASE p \in 1 .. i /\ p \notin Block
    <3>1. result[p] = EncByte(data[p], KeyAt(key, p))
      BY <2>3 DEF CipherInd, LoopInv
    <3> QED
      BY <1>4, <2>1, <2>3, <3>1
  <2> QED
    BY <2>1, <2>2, <2>3
<1> QED
  BY <1>1, <1>6, <1>7, <1>8 DEF CipherInd, LoopInv

\* A turn of decrypt's loop: the block is shifted in place and read back at once.
LEMMA DecBlockStep ==
  ASSUME CipherInd, DecBlock
  PROVE  CipherInd'
<1> USE DEF DecBlock
<1> DEFINE full == Complete(cipher, key)
<1> HIDE DEF full
<1>1. /\ i \in Nat /\ i + Len(key) <= Len(data) /\ (i + Len(key)) % Len(key) = 0
      /\ \A p \in Block : key[p - i] = KeyAt(key, p) /\ KeyAt(key, p) \in Byte
  BY BlockKey
<1>2. /\ Len(key) \in Nat \ {0} /\ Len(data) \in Nat /\ Len(result) = Len(data)
      /\ data \in Seq(Byte) /\ result \in Seq(Byte)
  BY KeyFacts DEF CipherInd, CipherTypeOK, LoopInv
<1>3. DOMAIN result = 1 .. Len(data) /\ DOMAIN data = 1 .. Len(data)
  BY <1>2
<1>4. ASSUME NEW p \in 1 .. Len(data)
      PROVE  /\ data'[p] = IF p \in Block THEN RotLeft(data[p], KeyAt(key, p)) ELSE data[p]
             /\ result'[p] = IF p \in Block THEN DecByte(data[p], KeyAt(key, p)) ELSE result[p]
  BY <1>1, <1>3, <1>4 DEF DecByte
<1>5. ASSUME NEW p \in 1 .. Len(data)
      PROVE  data'[p] \in Byte /\ result'[p] \in Byte
  <2>1. data[p] \in Byte /\ result[p] \in Byte
    BY <1>2, <1>5
  <2>2. p \in Block => RotLeft(data[p], KeyAt(key, p)) \in Byte
    BY <1>1, <2>1, RotLeftBits
  <2>3. p \in Block => DecByte(data[p], KeyAt(key, p)) \in Byte
    BY <1>1, <2>1, DecByteType
  <2> HIDE DEF DecBlock
  <2> QED
    BY <1>4, <1>5, <2>1, <2>2, <2>3
<1>6. /\ result' \in Seq(Byte) /\ Len(result') = Len(data)
      /\ data' \in Seq(Byte) /\ Len(data') = Len(data)
  <2>1. /\ data'   = [p \in 1 .. Len(data) |-> data'[p]]
        /\ result' = [p \in 1 .. Len(data) |-> result'[p]]
    BY <1>3
  <2> HIDE DEF DecBlock
  <2>2. ASSUME NEW f, NEW n \in Nat, f = [p \in 1 .. n |-> f[p]],
               \A p \in 1 .. n : f[p] \in Byte
        PROVE  f \in Seq(Byte) /\ Len(f) = n
    BY <2>2
  <2>3. data' \in Seq(Byte) /\ Len(data') = Len(data)
    BY <1>2, <1>5, <2>1, <2>2
  <2>4. result' \in Seq(Byte) /\ Len(result') = Len(data)
    BY <1>2, <1>5, <2>1, <2>2
  <2> QED
    BY <2>3, <2>4
<1>7. CipherTypeOK'
  BY <1>1, <1>2, <1>6 DEF CipherInd, CipherTypeOK
<1>8. \A p \in 1 .. i' : result'[p] = DecByte(full[p], KeyAt(key, p))
  <2> SUFFICES ASSUME NEW p \in 1 .. i + Len(key)
               PROVE  result'[p] = DecByte(full[p], KeyAt(key, p))
    OBVIOUS
  <2>1. p \in 1 .. Len(data) /\ (p \in Block \/ p \in 1 .. i)
    BY <1>1, <1>2 DEF Block
  <2>2. CASE p \in Block
    <3>1. data[p] = full[p]
      BY <1>1, <1>2, <2>1, <2>2 DEF CipherInd, LoopInv, full, Block
    <3> QED
      BY <1>4, <2>1, <2>2, <3>1
  <2>3. CASE p \in 1 .. i /\ p \notin Block
    <3>1. result[p] = DecByte(full[p], KeyAt(key, p))
      BY <2>3 DEF CipherInd, LoopInv, full
    <3> QED
      BY <1>4, <2>1, <2>3, <3>1
  <2> QED
    BY <2>1, <2>2, <2>3
<1>9. \A p \in i' + 1 .. Len(data') : data'[p] = full[p]
  <2> SUFFICES ASSUME NEW p \in i + Len(key) + 1 .. Len(data)
               PROVE  data'[p] = full[p]
    BY <1>6
  <2>1. p \in 1 .. Len(data) /\ p \notin Block /\ p \in i + 1 .. Len(data)
    BY <1>1, <1>2 DEF Block
  <2>2. data[p] = full[p]
    BY <2>1 DEF CipherInd, LoopInv, full
  <2> QED
    BY <1>4, <2>1, <2>2
<1> QED
  BY <1>1, <1>6, <1>7, <1>8, <1>9 DEF CipherInd, LoopInv, full

\* encrypt returns what Encrypt says, decrypt starts on it.
LEMMA EncReturnStep ==
  ASSUME CipherInd, EncReturn
  PROVE  CipherInd'
<1> USE DEF EncReturn
<1> DEFINE full == Complete(plain, key)
           pL   == PadLen(plain, key)
<1>0. key \in Token /\ Len(key) \in Nat \ {0} /\ plain \in Seq(Byte)
  BY KeyFacts DEF CipherInd
<1>1. i = Len(data) /\ Len(result) = Len(data) /\ data = full /\ result \in Seq(Byte)
  BY DEF CipherInd, CipherTypeOK, LoopInv
<1>2. /\ full \in Seq(Byte) /\ pL \in Nat /\ Len(full) = Len(plain) + pL
  BY <1>0, CompleteFacts
<1>3. result = EncAll(full, key)
  <2>1. \A p \in 1 .. Len(full) : result[p] = EncByte(full[p], KeyAt(key, p))
    BY <1>1 DEF CipherInd, LoopInv
  <2> QED
    BY <1>1, <2>1 DEF EncAll
<1>4. cipher' = Encrypt(plain, key)
  BY <1>3 DEF Encrypt
<1>5. cipher' \in Seq(Byte)
  BY <1>0, <1>4, EncryptBytes
<1>6. /\ data' \in Seq(Byte) /\ Len(data') \in Nat
      /\ Len(data') % Len(key) = 0
  BY <1>0, <1>5, CompleteFacts
<1>7. result' \in Seq(Byte) /\ Len(result') = Len(data')
  <2>1. Zero \in Byte
    BY DEF Zero, Byte
  <2> HIDE DEF EncReturn
  <2>2. result' = [p \in 1 .. Len(data') |-> Zero]
    BY DEF EncReturn, Zeros
  <2> QED
    BY <1>6, <2>1, <2>2
<1>8. CipherTypeOK'
  BY <1>0, <1>5, <1>6, <1>7 DEF CipherInd, CipherTypeOK
<1>9. 0 % Len(key) = 0
  BY <1>0
<1> QED
  BY <1>4, <1>6, <1>7, <1>8, <1>9 DEF CipherInd, LoopInv

\* decrypt returns what Decrypt says.
LEMMA DecReturnStep ==
  ASSUME CipherInd, DecReturn
  PROVE  CipherInd'
<1> USE DEF DecReturn
<1> DEFINE full == Complete(cipher, key)
           pL   == PadLen(cipher, key)
<1>0. key \in Token /\ Len(key) \in Nat \ {0} /\ cipher \in Seq(Byte)
  BY KeyFacts DEF CipherInd, CipherTypeOK
<1>1. i = Len(data) /\ Len(result) = Len(data) /\ Len(data) = Len(full) /\ result \in Seq(Byte)
  BY DEF CipherInd, CipherTypeOK, LoopInv
<1>2. result = DecAll(full, key)
  <2>1. \A p \in 1 .. Len(full) : result[p] = DecByte(full[p], KeyAt(key, p))
    BY <1>1 DEF CipherInd, LoopInv
  <2> QED
    BY <1>1, <2>1 DEF DecAll
<1>3. result' = Decrypt(cipher, key)
  BY <1>2 DEF Decrypt
<1>4. result' \in Seq(Byte)
  BY <1>0, <1>3, DecryptBytes
<1> QED
  BY <1>3, <1>4 DEF CipherInd, CipherTypeOK, LoopInv

\* The loops start on the padded plaintext.
LEMMA CipherIndInit == CipherInit => CipherInd
<1> SUFFICES ASSUME CipherInit
             PROVE  CipherInd
  OBVIOUS
<1> USE DEF CipherInit
<1>0. key \in Token /\ Len(key) \in Nat \ {0} /\ plain \in Seq(Byte)
  BY KeysAssumption, DatasAssumption DEF Token
<1>1. data \in Seq(Byte) /\ Len(data) \in Nat /\ Len(data) % Len(key) = 0
  BY <1>0, CompleteFacts
<1>2. result \in Seq(Byte) /\ Len(result) = Len(data)
  <2>1. Zero \in Byte
    BY DEF Zero, Byte
  <2> QED
    BY <1>1, <2>1 DEF Zeros
<1>3. 0 % Len(key) = 0
  BY <1>0
<1> QED
  BY <1>0, <1>1, <1>2, <1>3 DEF CipherInd, CipherTypeOK, LoopInv

\* The loops of encrypt and decrypt compute Encrypt and Decrypt, for every token and
\* every plaintext.
THEOREM LoopsCorrect == CipherSpec => [](CipherTypeOK /\ LoopInv)
<1>1. CipherInd /\ [CipherNext]_cvars => CipherInd'
  <2>1. CipherInd /\ UNCHANGED cvars => CipherInd'
    BY DEF cvars, CipherInd, CipherTypeOK, LoopInv
  <2> QED
    BY <2>1, EncBlockStep, EncReturnStep, DecBlockStep, DecReturnStep DEF CipherNext, Returned
<1>2. CipherInd => CipherTypeOK /\ LoopInv
  BY DEF CipherInd
<1> QED
  BY <1>1, <1>2, CipherIndInit, PTL DEF CipherSpec

\* What the other end of the tunnel decrypts is what this end encrypted.
THEOREM CipherRoundTrip == CipherSpec => []RoundTrip
<1>1. CipherTypeOK /\ LoopInv => RoundTrip
  BY KeyFacts, DecryptEncrypt DEF LoopInv, RoundTrip
<1> QED
  BY <1>1, LoopsCorrect, PTL

\* Encryption keeps the length of the compressed data, which the frame header announces.
THEOREM CipherLength == CipherSpec => []LengthPreserved
<1>1. CipherTypeOK /\ LoopInv => LengthPreserved
  <2> SUFFICES ASSUME CipherTypeOK, LoopInv, phase # "encrypt"
               PROVE  Len(cipher) = Len(plain)
    BY DEF LengthPreserved
  <2>1. cipher = Encrypt(plain, key)
    BY DEF CipherTypeOK, LoopInv
  <2> QED
    BY <2>1, KeyFacts, EncryptBytes
<1> QED
  BY <1>1, LoopsCorrect, PTL
=============================================================================
