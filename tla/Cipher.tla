------------------------------- MODULE Cipher -------------------------------
(***************************************************************************)
(* internal/cipher: the rotate cipher that protects the body of a frame.   *)
(*                                                                         *)
(* A byte is the function from bit positions 0..7 (0 the lowest) to {0, 1} *)
(* and >>, <<, | and ^ are what they are on a uint8.                       *)
(* A []byte is a sequence of bytes.  The operators compute what one loop   *)
(* body computes; the state machine runs the loops of encrypt and decrypt  *)
(* block by block over the arrays, one after the other on the same input   *)
(* with the same key, as protocol.Encode and protocol.ReadFull do at the   *)
(* two ends of a tunnel.                                                   *)
(***************************************************************************)
EXTENDS Integers, Sequences

CONSTANTS
  Datas,   \* plaintexts: what protocol.Encode passes to Encrypt
  Keys     \* tokens of the configuration

Bit  == 0..7
Byte == [Bit -> {0, 1}]

\* Any length of data goes; kL is a divisor, so a token is not empty.
ASSUME DatasAssumption == Datas \subseteq Seq(Byte)
ASSUME KeysAssumption  == Keys \subseteq (Seq(Byte) \ {<< >>})

-----------------------------------------------------------------------------
(* Bytes *)

Zero      == [j \in Bit |-> 0]
Xor(a, b) == [j \in Bit |-> IF a[j] = b[j] THEN 0 ELSE 1]
Or(a, b)  == [j \in Bit |-> IF a[j] = 1 \/ b[j] = 1 THEN 1 ELSE 0]
Shr(a, n) == [j \in Bit |-> IF j + n <= 7 THEN a[j + n] ELSE 0]
Shl(a, n) == [j \in Bit |-> IF j - n >= 0 THEN a[j - n] ELSE 0]

\* int(k) % 8: the three low bits.
Shift(k) == 4 * k[2] + 2 * k[1] + k[0]

\* Fault: the bits shifted out on the left are not put back on the right.
RotLeft_NoWrap(a, k) == Shl(a, Shift(k))

\* The statement in the loop of shiftRight and the one in the loop of shiftLeft.
RotRight(a, k) == Or(Shr(a, Shift(k)), Shl(a, 8 - Shift(k)))
RotLeft(a, k)  == Or(Shl(a, Shift(k)), Shr(a, 8 - Shift(k)))

-----------------------------------------------------------------------------
(* The rotate struct *)

\* complete: zero bytes up to a multiple of the token's length.
PadLen(d, tok) ==
  IF Len(d) % Len(tok) > 0 THEN Len(tok) - (Len(d) % Len(tok)) ELSE 0
Complete(d, tok) ==
  [p \in 1 .. Len(d) + PadLen(d, tok) |-> IF p <= Len(d) THEN d[p] ELSE Zero]

\* The byte of the token that meets position p of the padded data, p counted from 1.
KeyAt(tok, p) == tok[((p - 1) % Len(tok)) + 1]

EncByte(b, k) == RotRight(Xor(b, k), k)
DecByte(b, k) == Xor(RotLeft(b, k), k)

\* What the two loops leave in result, before the padding is cut off.
EncAll(d, tok) == [p \in 1 .. Len(d) |-> EncByte(d[p], KeyAt(tok, p))]
DecAll(d, tok) == [p \in 1 .. Len(d) |-> DecByte(d[p], KeyAt(tok, p))]

\* result[:len(result)-r.pL]
Cut(res, pL) == SubSeq(res, 1, Len(res) - pL)

Encrypt(d, tok) == Cut(EncAll(Complete(d, tok), tok), PadLen(d, tok))
Decrypt(d, tok) == Cut(DecAll(Complete(d, tok), tok), PadLen(d, tok))

-----------------------------------------------------------------------------
(* The loops *)

VARIABLES
  plain,   \* argument of Encrypt, zipBin in protocol.Encode
  key,     \* the token, the same at both ends
  phase,   \* "encrypt", "decrypt", "done"
  data,    \* r.data: padded, and in decrypt shifted in place
  result,  \* the array that is returned
  i,       \* the outer loop's index
  cipher   \* what Encrypt returned

cvars == <<plain, key, phase, data, result, i, cipher>>

Zeros(n) == [p \in 1 .. n |-> Zero]

CipherInit ==
  /\ plain \in Datas
  /\ key \in Keys
  /\ phase = "encrypt"
  /\ data = Complete(plain, key)
  /\ result = Zeros(Len(data))
  /\ i = 0
  /\ cipher = << >>

\* The positions of the block that starts at index i.
Block == i + 1 .. i + Len(key)

\* One turn of encrypt's outer loop: xor into result, then shiftRight on the block.
EncBlock ==
  /\ phase = "encrypt" /\ i < Len(data)
  /\ LET xored == [p \in DOMAIN result |-> IF p \in Block THEN Xor(data[p], key[p - i]) ELSE result[p]]
     IN  result' = [p \in DOMAIN result |-> IF p \in Block THEN RotRight(xored[p], key[p - i]) ELSE xored[p]]
  /\ i' = i + Len(key)
  /\ UNCHANGED <<plain, key, phase, data, cipher>>

\* encrypt returns and the other end starts to decrypt what it returned.
EncReturn ==
  /\ phase = "encrypt" /\ i >= Len(data)
  /\ cipher' = Cut(result, PadLen(plain, key))
  /\ phase' = "decrypt"
  /\ data' = Complete(cipher', key)
  /\ result' = Zeros(Len(data'))
  /\ i' = 0
  /\ UNCHANGED <<plain, key>>

\* Fault: decrypt does its two operations in encrypt's order.
DecBlock_XorFirst ==
  /\ phase = "decrypt" /\ i < Len(data)
  /\ data' = [p \in DOMAIN data |-> IF p \in Block THEN Xor(data[p], key[p - i]) ELSE data[p]]
  /\ result' = [p \in DOMAIN result |-> IF p \in Block THEN RotLeft(data'[p], key[p - i]) ELSE result[p]]
  /\ i' = i + Len(key)
  /\ UNCHANGED <<plain, key, phase, cipher>>

\* One turn of decrypt's outer loop: shiftLeft on the block of r.data, in place, then xor.
DecBlock ==
  /\ phase = "decrypt" /\ i < Len(data)
  /\ data' = [p \in DOMAIN data |-> IF p \in Block THEN RotLeft(data[p], key[p - i]) ELSE data[p]]
  /\ result' = [p \in DOMAIN result |-> IF p \in Block THEN Xor(data'[p], key[p - i]) ELSE result[p]]
  /\ i' = i + Len(key)
  /\ UNCHANGED <<plain, key, phase, cipher>>

DecReturn ==
  /\ phase = "decrypt" /\ i >= Len(data)
  /\ result' = Cut(result, PadLen(cipher, key))
  /\ phase' = "done"
  /\ UNCHANGED <<plain, key, data, i, cipher>>

Returned == phase = "done" /\ UNCHANGED cvars

CipherNext == EncBlock \/ EncReturn \/ DecBlock \/ DecReturn \/ Returned

CipherSpec == CipherInit /\ [][CipherNext]_cvars

-----------------------------------------------------------------------------
(* Properties *)

\* Types; i stays within the padded data, so that the slices [i : i+kL] of the loops
\* (encryption.go 54-62, 72-74) never reach beyond it.
CipherTypeOK ==
  /\ plain \in Datas /\ key \in Keys
  /\ phase \in {"encrypt", "decrypt", "done"}
  /\ data \in Seq(Byte) /\ result \in Seq(Byte) /\ cipher \in Seq(Byte)
  /\ i \in 0 .. Len(data)

\* The block loops with their in-place shifts compute position by position what Encrypt
\* and Decrypt say: after the blocks below i, exactly the positions up to i are final, and
\* whatever the last block was padded with never reaches a returned byte.
LoopInv ==
  /\ phase # "done" => Len(result) = Len(data) /\ Len(data) % Len(key) = 0 /\ i % Len(key) = 0
  /\ phase = "encrypt" =>
       /\ data = Complete(plain, key)
       /\ \A p \in 1 .. i : result[p] = EncByte(data[p], KeyAt(key, p))
  /\ phase = "decrypt" =>
       /\ cipher = Encrypt(plain, key)
       /\ Len(data) = Len(Complete(cipher, key))
       /\ \A p \in 1 .. i : result[p] = DecByte(Complete(cipher, key)[p], KeyAt(key, p))
       /\ \A p \in i + 1 .. Len(data) : data[p] = Complete(cipher, key)[p]
  /\ phase = "done" =>
       /\ cipher = Encrypt(plain, key)
       /\ result = Decrypt(cipher, key)

\* Decrypting with the token that encrypted gives the plaintext back, for data shorter
\* than the token, longer, and of any length in between multiples of it.
RoundTrip == phase = "done" => result = plain

\* The header's body length is that of the compressed data: the padding is cut off again.
LengthPreserved == phase # "encrypt" => Len(cipher) = Len(plain)
=============================================================================
