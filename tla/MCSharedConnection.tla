------------------------- MODULE MCSharedConnection -------------------------
(* Small instances of SharedConnection for TLC. *)
EXTENDS SharedConnection, TLC

CONSTANTS p1, p2, t1, t2, i1

Planes == << << <<1, -2>>, <<-2, 1>> >>, << <<1, 1>> >> >>

Enrolled == (p1 :> <<100, 0>>) @@ (p2 :> <<0, 100>>)

Embedded == {<<100, 0>>, <<0, 100>>}

\* Nothing tells the people apart but their embeddings, whose bucket keys are
\* no matter here, nor the calls: exchanging them is sound.
Symmetry == Permutations({p1, p2}) \cup Permutations({t1, t2})

\* Short byte sequences over bytes at the edges of 6 and 8 bits.
Samples == UNION {[1 .. n -> {0, 1, 3, 4, 63, 64, 128, 255}] : n \in 0 .. 4}

\* Bit k of the bytes, from the first byte's highest, and the 6 bits that a
\* character stands for: what base64 is defined to be.
Bit(bytes, k) ==
  IF k >= 8 * Len(bytes) THEN 0
  ELSE (bytes[k \div 8 + 1] \div 2 ^ (7 - (k % 8))) % 2

Sextet(bytes, j) ==
  LET bit(i) == Bit(bytes, 6 * j + i) * 2 ^ (5 - i)
  IN  bit(0) + bit(1) + bit(2) + bit(3) + bit(4) + bit(5)

\* Both encodings are undone by their decodings, with white space around the
\* text and whatever its length, and base64 groups the bits as it should.
ASSUME ConversionsAgree ==
  \A bytes \in Samples :
    LET text == bytesToBase64(bytes) IN
    /\ base64ToBytes(<<Space>> \o text \o <<Space>>) = bytes
    /\ hexToBytes(bytesToHex(bytes)) = bytes
    /\ \A j \in 0 .. Len(text) - 1 :
         text[j + 1] = IF 6 * j >= 8 * Len(bytes) THEN Pad ELSE Sextet(bytes, j)

\* A text that lost a character, or has one of no alphabet, is rejected.
ASSUME DamageIsRejected ==
  \A bytes \in Samples \ {<<>>} :
    LET text == bytesToBase64(bytes) IN
    /\ base64ToBytes(Tail(text)) = Rejected
    /\ base64ToBytes([text EXCEPT ![1] = Other]) = Rejected
    /\ hexToBytes(Tail(bytesToHex(bytes))) = Rejected
=============================================================================
