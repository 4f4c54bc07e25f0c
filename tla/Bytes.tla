--------------------------------- MODULE Bytes ---------------------------------
(* Bits of integers, as ARM's and, orr, eor, bic and tst see them. *)
EXTENDS Integers
LOCAL INSTANCE FiniteSetsExt

\* The bit of weight b of n, which may be negative.
HasBit(n, b) == (n \div b) % 2 = 1
WithBit(n, b, on) ==
  IF HasBit(n, b) = on THEN n ELSE IF on THEN n + b ELSE n - b
Weight(b, on) == IF on THEN b ELSE 0

BitWeights == {1, 2, 4, 8, 16, 32, 64, 128}
ByteAnd(a, b) == MapThenSumSet(LAMBDA w : Weight(w, HasBit(a, w) /\ HasBit(b, w)), BitWeights)
ByteOr(a, b) == a + b - ByteAnd(a, b)
ByteXor(a, b) == a + b - 2 * ByteAnd(a, b)

\* The signed value of a byte.
SignedByte(b) == IF b >= 128 THEN b - 256 ELSE b
=============================================================================
