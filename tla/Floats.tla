------------------------------- MODULE Floats -------------------------------
(***************************************************************************)
(* The emulator's floating point: numbers as bit patterns, the conversions *)
(* between binary32 and binary16, its fused multiply-add, and the values   *)
(* Python computes in between, in binary64.  A format is given by the bits *)
(* of its exponent and of its fraction, so that small ones can be checked. *)
(*                                                                         *)
(* A value is exact: NaN, an infinity, or (-1)^s * n / d.  The exponents   *)
(* of binary64 are unbounded here: no binary32 operand reaches their ends. *)
(***************************************************************************)
EXTENDS Integers
LOCAL INSTANCE FiniteSetsExt

CONSTANTS
  ES, FS,   \* the exponent and fraction bits of binary32: 8 and 23
  ED, FD,   \* of binary16: 5 and 10
  FB        \* the fraction bits of binary64: 52

ASSUME FormatAssumption ==
  /\ {ES, FS, ED, FD, FB} \subseteq Nat \ {0}
  /\ ED > 1 /\ ED < ES          \* what a half holds is a normal single, or zero
  /\ FS > FD + 3                \* three guard bits below a half's fraction
  /\ FB > 2 * FS                \* a product of singles is exact

Single == [e |-> ES, f |-> FS]
Half == [e |-> ED, f |-> FD]

Bits(fm) == 1 + fm.e + fm.f
Word == 0 .. 2 ^ Bits(Single) - 1
HalfWord == 0 .. 2 ^ Bits(Half) - 1

Bias(fm) == 2 ^ (fm.e - 1) - 1
Exp(fm, p) == (p \div 2 ^ fm.f) % 2 ^ fm.e
Frac(fm, p) == p % 2 ^ fm.f
Sign(fm, p) == p \div 2 ^ (fm.e + fm.f)
Pack(fm, s, e, m) == s * 2 ^ (fm.e + fm.f) + e * 2 ^ fm.f + m
MaxExp(fm) == 2 ^ fm.e - 1
Inf(fm, s) == Pack(fm, s, MaxExp(fm), 0)
QNaN(fm) == Pack(fm, 0, MaxExp(fm), 2 ^ (fm.f - 1))

NaN == [kind |-> "nan", s |-> 0, n |-> 0, d |-> 1]
Infinite(s) == [kind |-> "inf", s |-> s, n |-> 0, d |-> 1]
Finite(s, n, d) == [kind |-> "fin", s |-> s, n |-> n, d |-> d]
IsNaN(x) == x.kind = "nan"
IsInf(x) == x.kind = "inf"
IsFinite(x) == x.kind = "fin"
IsZero(x) == IsFinite(x) /\ x.n = 0
Negative(x) == x.s = 1 /\ ~IsZero(x)

-----------------------------------------------------------------------------

\* n / d to an integer, ties to the even one: divmod, and the test of its rest.
RoundDiv(n, d) ==
  LET q == n \div d
      r == n % d
  IN  IF 2 * r > d \/ (2 * r = d /\ q % 2 = 1) THEN q + 1 ELSE q

\* The scale of a format: its subnormals are multiples of 1 / Scale.
Scale(fm) == 2 ^ (Bias(fm) - 1 + fm.f)

\* bits_f32, and _bits_f32_exact; f16_to_f32 for halves.
Val(fm, p) ==
  LET e == Exp(fm, p)
      m == Frac(fm, p)
      s == Sign(fm, p)
  IN  CASE e = MaxExp(fm) -> IF m = 0 THEN Infinite(s) ELSE NaN
        [] e = 0 -> Finite(s, m, Scale(fm))
        [] OTHER -> Finite(s, (m + 2 ^ fm.f) * 2 ^ (e - 1), Scale(fm))

Log2(n) == CHOOSE k \in 0 .. 30 : 2 ^ k <= n /\ n \div 2 ^ k < 2

\* struct.pack("<f", x), with the infinity f32 gives for what is out of range;
\* _frac_to_f32_bits is the same function of a Fraction, which has no -0.
\* Of a NaN only that it is one is fixed: a quiet one stands for all.
Round(fm, x) ==
  LET fine == x.d % Scale(fm) = 0
      n == IF fine THEN x.n ELSE x.n * Scale(fm)   \* n / d: in subnormals
      d == IF fine THEN x.d \div Scale(fm) ELSE x.d
      drop == IF n \div d < 2 ^ fm.f THEN 0 ELSE Log2(n \div d) - fm.f
      p == drop * 2 ^ fm.f + RoundDiv(n, d * 2 ^ drop)   \* carries into the exponent
  IN  CASE IsNaN(x) -> QNaN(fm)
        [] IsInf(x) -> Inf(fm, x.s)
        [] OTHER -> Pack(fm, x.s, 0, IF p > Inf(fm, 0) THEN Inf(fm, 0) ELSE p)

\* A Python float: FB + 1 significant bits.
Double(x) ==
  IF ~IsFinite(x) \/ x.n < 2 ^ (FB + 1) THEN x
  ELSE LET drop == Log2(x.n) - FB
       IN  [x EXCEPT !.n = RoundDiv(x.n, 2 ^ drop) * 2 ^ drop]

Flip(x) == [x EXCEPT !.s = 1 - x.s]
Max2(m, n) == IF m > n THEN m ELSE n

\* The exact sum and product; a sum of zeros is -0 only if both are.
Sum(x, y) ==
  LET d == Max2(x.d, y.d)
      Signed(z) == (IF z.s = 1 THEN -z.n ELSE z.n) * (d \div z.d)
      n == Signed(x) + Signed(y)
  IN  CASE IsNaN(x) \/ IsNaN(y) \/ (IsInf(x) /\ IsInf(y) /\ x.s # y.s) -> NaN
        [] IsInf(x) -> x
        [] IsInf(y) /\ ~IsInf(x) -> y
        [] OTHER -> Finite(IF n = 0 THEN (IF x.s = 1 /\ y.s = 1 THEN 1 ELSE 0)
                           ELSE IF n < 0 THEN 1 ELSE 0,
                           IF n < 0 THEN -n ELSE n, d)

Prod(x, y) ==
  LET s == (x.s + y.s) % 2
  IN  CASE IsNaN(x) \/ IsNaN(y) \/ (IsInf(x) /\ IsZero(y)) \/ (IsZero(x) /\ IsInf(y)) -> NaN
        [] IsFinite(x) /\ IsFinite(y) -> Finite(s, x.n * y.n, x.d * y.d)
        [] OTHER -> Infinite(s)

\* What Python's <, <=, == say: nothing of a NaN.
Ordered(x, y) == ~IsNaN(x) /\ ~IsNaN(y)
Compared(x, y) ==   \* the sign of x - y
  LET Side(z) == IF IsInf(z) THEN (IF z.s = 1 THEN -1 ELSE 1) ELSE 0
      gap == Sum(x, Flip(y))
  IN  CASE Side(x) # Side(y) -> Side(x) - Side(y)
        [] Side(x) = Side(y) /\ Side(x) # 0 -> 0
        [] OTHER -> IF gap.n = 0 THEN 0 ELSE 1 - 2 * gap.s
Less(x, y) == Ordered(x, y) /\ Compared(x, y) < 0
Equal(x, y) == Ordered(x, y) /\ Compared(x, y) = 0

-----------------------------------------------------------------------------

\* Mutant: what is carried out of the fraction is lost.
MutCarry(q) == 0

\* The significand q was rounded up to the next power of two.
Carry(q) == IF q \div 8 = 2 ^ (FD + 1) THEN 1 ELSE 0

\* f32_bits_to_f16: the rounding is done three bits below the last one kept,
\* which are then cut off.
F32BitsToF16(b) ==
  LET s == Sign(Single, b)
      e == Exp(Single, b)
      m == Frac(Single, b)
      exp == e - Bias(Single)
      sig == (m + 2 ^ FS) * 8
      q == RoundDiv(sig, 2 ^ (FS - FD))
      top == exp + Carry(q)
      kept == q \div 2 ^ Carry(q)
      shift == (FS + 3) - (Bias(Half) - 1 + FD) - exp
  IN  CASE e = MaxExp(Single) -> Pack(Half, s, MaxExp(Half), IF m # 0 THEN 2 ^ (FD - 1) ELSE 0)
        [] e = 0 -> Pack(Half, s, 0, 0)
        [] e # 0 /\ e # MaxExp(Single) /\ exp < 1 - Bias(Half) -> Pack(Half, s, 0, RoundDiv(sig, 2 ^ shift))
        [] OTHER -> IF top > Bias(Half) THEN Inf(Half, s)
                    ELSE Pack(Half, s, top + Bias(Half), (kept \div 8) % 2 ^ FD)

\* _f16c, of a Python float: to binary32 first.
F16c(x) == IF IsNaN(x) THEN QNaN(Half) ELSE IF IsInf(x) THEN Inf(Half, x.s) ELSE F32BitsToF16(Round(Single, x))

\* min(frac, 0x3FF).
CvtSubnormal(x) ==
  LET frac == RoundDiv(x.n * Scale(Half), x.d) IN IF frac > 2 ^ FD - 1 THEN 2 ^ FD - 1 ELSE frac

\* op_v_cvt_f16_f32, which the repair of the helper left out: the sign is read
\* from the bit a half has it in, and a subnormal does not carry.
CvtF16(b) ==
  LET x == Val(Single, b)
      s == (b \div 2 ^ (Bits(Half))) % 2
      e == Exp(Single, b) - Bias(Single)
      m == RoundDiv(Frac(Single, b), 2 ^ (FS - FD))
      carry == m = 2 ^ FD
      top == e + (IF carry THEN 1 ELSE 0)
  IN  CASE IsNaN(x) -> QNaN(Half)
        [] IsInf(x) -> Inf(Half, x.s)
        [] IsZero(x) -> Pack(Half, x.s, 0, 0)
        [] IsFinite(x) /\ ~IsZero(x) ->
             CASE e > Bias(Half) -> Inf(Half, s)
               [] e < 1 - Bias(Half) - FD -> Pack(Half, s, 0, 0)
               [] e < 1 - Bias(Half) /\ e >= 1 - Bias(Half) - FD ->
                    Pack(Half, s, 0, CvtSubnormal(x))
               [] OTHER -> IF top > Bias(Half) THEN Inf(Half, s)
                           ELSE Pack(Half, s, top + Bias(Half), IF carry THEN 0 ELSE m)

\* Mutant: a * b + c in binary64, which rounds twice.
MutFmaBits(a, b, c) ==
  Round(Single, Double(Sum(Double(Prod(Val(Single, a), Val(Single, b))), Val(Single, c))))

\* fma_f32_bits: one rounding.  An infinite factor makes an infinite product,
\* of zero too, and a Fraction that is 0 has no sign.
FmaBits(a, b, c) ==
  LET x == Val(Single, a)
      y == Val(Single, b)
      z == Val(Single, c)
      s == (x.s + y.s) % 2
      sum == Sum(Prod(x, y), z)
  IN  CASE IsNaN(x) \/ IsNaN(y) \/ IsNaN(z) -> QNaN(Single)
        [] Ordered(x, y) /\ ~IsNaN(z) /\ (IsInf(x) \/ IsInf(y)) ->
             IF IsInf(z) /\ z.s # s THEN QNaN(Single) ELSE Inf(Single, s)
        [] IsFinite(x) /\ IsFinite(y) /\ IsInf(z) -> c
        [] IsFinite(x) /\ IsFinite(y) /\ IsFinite(z) ->
             IF sum.n = 0 THEN 0 ELSE Round(Single, sum)

\* f32_class_bit.
ClassBit(b) ==
  LET s == Sign(Single, b)
      m == Frac(Single, b)
  IN  CASE Exp(Single, b) = MaxExp(Single) ->
             IF m = 0 THEN (IF s = 1 THEN 2 ELSE 9) ELSE IF m >= 2 ^ (FS - 1) THEN 1 ELSE 0
        [] Exp(Single, b) = 0 ->
             IF m = 0 THEN (IF s = 1 THEN 5 ELSE 6) ELSE IF s = 1 THEN 4 ELSE 7
        [] OTHER -> IF s = 1 THEN 3 ELSE 8
=============================================================================
