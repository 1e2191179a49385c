-------------------------------- MODULE Words --------------------------------
(***************************************************************************)
(* Machine words and Python's integers on them, W bits wide.  The program  *)
(* has W = 32 throughout; a byte is W \div 4 bits and a half word          *)
(* W \div 2, and a shift count is taken modulo W (& 31) or 2 * W (& 63).   *)
(* Python's integers are unbounded and have infinitely many sign bits, so  *)
(* Bit and Ones hold for negative ones too.                                *)
(***************************************************************************)
EXTENDS Integers, FiniteSets

CONSTANT W   \* the bits of a word

ASSUME WidthAssumption == W \in Nat /\ W > 3 /\ W % 4 = 0

\* 2 ^ n, as a function: the proofs need the laws of powers.
Pow2[n \in Nat] == IF n = 0 THEN 1 ELSE 2 * Pow2[n - 1]

M == Pow2[W]

\* A shift count is the low bits of a word.
ASSUME CountAssumption == M % (2 * W) = 0

Top == M - 1
Word == 0 .. Top
DoubleWord == 0 .. M * M - 1
Sign == M \div 2
ByteBits == W \div 4
HalfBits == W \div 2

\* x & U32, and x & M64.
Mask(x) == x % M
Mask2(x) == x % (M * M)

\* The low n bits of x; those bits as a signed number; s32, _s16 and _s8.
Low(x, n) == x % Pow2[n]
SignedLow(x, n) == IF Low(x, n) >= Pow2[n - 1] THEN Low(x, n) - Pow2[n] ELSE Low(x, n)
Signed(x) == SignedLow(x, W)

Bit(x, n) == (x \div Pow2[n]) % 2
Ones(x) == {n \in 0 .. W - 1 : Bit(x, n) = 1}
OfOnes(S) ==
  LET below[n \in Nat] == IF n = 0 THEN 0 ELSE below[n - 1] + IF n - 1 \in S THEN Pow2[n - 1] ELSE 0
  IN  below[W]

\* &, |, ^ and ~, masked to a word.
And(x, y) == OfOnes(Ones(x) \cap Ones(y))
Or(x, y) == OfOnes(Ones(x) \cup Ones(y))
Xor(x, y) == OfOnes((Ones(x) \ Ones(y)) \cup (Ones(y) \ Ones(x)))
Not(x) == Top - Mask(x)

\* << and >> of an unbounded integer: the second is arithmetic.
Shl(x, n) == x * Pow2[n]
Shr(x, n) == x \div Pow2[n]

Pair(lo, hi) == hi * M + lo

\* Python's min and max of two.
Smaller(a, b) == IF b < a THEN b ELSE a
Larger(a, b) == IF b > a THEN b ELSE a
=============================================================================
