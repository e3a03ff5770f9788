------------------------------ MODULE MCCipher ------------------------------
(***************************************************************************)
(* Cipher for TLC: plaintexts of up to three bytes over three values, keys *)
(* of one or two bytes that between them rotate by every amount.           *)
(***************************************************************************)
EXTENDS Cipher

MaxData == 3
MaxKey  == 2

\* The byte with value n.
ByteOf(n) == [b \in Bit |-> (n \div 2^b) % 2]

DataBytes == {ByteOf(n) : n \in {0, 129, 182}}
KeyBytes  == {ByteOf(n) : n \in {48, 97, 250, 3, 116, 101, 206, 71}}

MCDatas == UNION {[1 .. n -> DataBytes] : n \in 0 .. MaxData}
MCKeys  == UNION {[1 .. n -> KeyBytes] : n \in 1 .. MaxKey}
=============================================================================
