---------------------------- MODULE BufferUtils ----------------------------
(***************************************************************************)
(* The conversions between bytes and text that keys and embeddings go      *)
(* through on their way to the native modules and the tables.              *)
(*                                                                         *)
(* A base64 character is its place in the alphabet, 0 .. 63, or one of     *)
(* Pad, Space and Other; a hexadecimal digit is its value, or Other.       *)
(***************************************************************************)
EXTENDS Integers, Sequences, Functions

CONSTANTS
  Rejected            \* what a call that throws returns

Pad == 64             \* '='
Space == 65           \* white space, which decoding drops
Other == 66           \* any other character

-----------------------------------------------------------------------------
(* Base64: three bytes make four characters.                               *)

\* The 24 bits of the bytes after position i, with 0 for bytes past the end.
Chunk(bytes, i) ==
  LET at(k) == IF k <= Len(bytes) THEN bytes[k] ELSE 0
  IN  at(i + 1) * 65536 + at(i + 2) * 256 + at(i + 3)

bytesToBase64(bytes) ==
  [k \in 1 .. 4 * ((Len(bytes) + 2) \div 3) |->
     LET i == 3 * ((k - 1) \div 4)
         d == (k - 1) % 4
     IN  IF i + d > Len(bytes) THEN Pad
                               ELSE (Chunk(bytes, i) \div 64 ^ (3 - d)) % 64]

Padding(text) ==
  LET endsAt(k) == k > 0 /\ text[k] = Pad
      n == Len(text)
  IN  IF ~endsAt(n) THEN 0 ELSE IF endsAt(n - 1) THEN 2 ELSE 1

\* A Pad inside the text is read as zero bits.
base64ToBytes(given) ==
  LET text == SelectSeq(given, LAMBDA c : c # Space)
      val(k) == IF text[k] = Pad THEN 0 ELSE text[k]
      chunk(i) == val(i + 1) * 262144 + val(i + 2) * 4096
                    + val(i + 3) * 64 + val(i + 4)
  IN  IF Len(text) % 4 # 0 \/ Other \in Range(text) THEN Rejected
      ELSE [k \in 1 .. 3 * (Len(text) \div 4) - Padding(text) |->
              (chunk(4 * ((k - 1) \div 3)) \div 256 ^ (2 - ((k - 1) % 3))) % 256]

-----------------------------------------------------------------------------
(* Hexadecimal: a byte makes two digits.                                   *)

bytesToHex(bytes) ==
  [k \in 1 .. 2 * Len(bytes) |-> IF k % 2 = 1 THEN bytes[(k + 1) \div 2] \div 16
                                              ELSE bytes[k \div 2] % 16]

hexToBytes(digits) ==
  IF Len(digits) % 2 # 0 \/ Other \in Range(digits) THEN Rejected
  ELSE [k \in 1 .. Len(digits) \div 2 |-> 16 * digits[2 * k - 1] + digits[2 * k]]
=============================================================================
