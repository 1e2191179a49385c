------------------------------ MODULE FloatIsa ------------------------------
(***************************************************************************)
(* What the emulator's floating point instructions leave in a register of  *)
(* a lane.  Operands are register patterns: one single, or two halves of   *)
(* which the low one comes first.  The classes later in the inheritance    *)
(* chain override those before them: F-names stand for the first class.    *)
(***************************************************************************)
EXTENDS Floats

CONSTANT IntBits   \* of the integers conversions make: 32

ASSUME IntBitsAssumption == IntBits \in Nat /\ IntBits > 1

SV(p) == Val(Single, p)
Low(p) == p % 2 ^ Bits(Half)
High(p) == (p \div 2 ^ Bits(Half)) % 2 ^ Bits(Half)
HV(p) == Val(Half, Low(p))
Packed(lo, hi) == hi * 2 ^ Bits(Half) + lo

\* _vfp: the value a handler returns, rounded to a single.
F32(x) == Round(Single, x)
FmaTwice(x, y, z) == Double(Sum(Double(Prod(x, y)), z))

\* The two of _fmin32 and _fmax32 of the first class: a NaN counts for nothing.
FMin(x, y) ==
  CASE IsNaN(x) -> y
    [] IsNaN(y) /\ ~IsNaN(x) -> x
    [] IsZero(x) /\ IsZero(y) -> IF x.s = 1 THEN x ELSE y
    [] OTHER -> IF Less(x, y) THEN x ELSE y
FMax(x, y) ==
  CASE IsNaN(x) -> y
    [] IsNaN(y) /\ ~IsNaN(x) -> x
    [] IsZero(x) /\ IsZero(y) -> IF x.s = 0 THEN x ELSE y
    [] OTHER -> IF Less(y, x) THEN x ELSE y

\* Mutant: no test for NaN.
MutVMin(x, y) == IF Less(x, y) THEN x ELSE y

\* Those of the classes after it: a NaN makes a NaN, and of equals the maximum
\* is the first, the minimum the second.
VMin(x, y) == IF ~Ordered(x, y) THEN NaN ELSE IF Less(x, y) THEN x ELSE y
VMax(x, y) == IF ~Ordered(x, y) THEN NaN ELSE IF Less(x, y) THEN y ELSE x

\* max(min(a, b), min(max(a, b), c)) with Python's own min and max, which keep
\* their first argument when neither is smaller.
PyMin(x, y) == IF Less(y, x) THEN y ELSE x
PyMax(x, y) == IF Less(x, y) THEN y ELSE x
Med3(x, y, z) == PyMax(PyMin(x, y), PyMin(PyMax(x, y), z))

\* _f16_minmax_bits.
HalfMinMax(x, y, max) ==
  CASE IsNaN(x) -> F16c(y)
    [] IsNaN(y) /\ ~IsNaN(x) -> F16c(x)
    [] OTHER -> F16c(IF (IF max THEN Less(y, x) ELSE Less(x, y)) THEN x ELSE y)

-----------------------------------------------------------------------------

\* Of a finite value: math.trunc, math.floor and round, as signed integers.
Whole(x) == x.n \div x.d
Toward(x, n) == IF x.s = 1 THEN -n ELSE n
Trunc(x) == Toward(x, Whole(x))
FloorOf(x) == IF Negative(x) /\ x.n % x.d # 0 THEN (-Whole(x)) - 1 ELSE Trunc(x)
NearestInt(x) == Toward(x, RoundDiv(x.n, x.d))

OfInt(n) == Finite(IF n < 0 THEN 1 ELSE 0, IF n < 0 THEN -n ELSE n, 1)

\* The conversions between floats of a format fm and integers of w bits.
IntTop(w) == 2 ^ (w - 1)

\* Mutant: an integer too large is cut off.
MutCvtI32(w, x) == IF IsFinite(x) THEN Trunc(x) % (2 ^ w) ELSE 0

\* op_v_cvt_i32_f32 and op_v_cvt_u32_f32: unlike the second the first makes 0 of
\* an infinity.
CvtI32(w, x) ==
  IF ~IsFinite(x) THEN 0
  ELSE IF Trunc(x) >= IntTop(w) THEN IntTop(w) - 1
  ELSE IF Trunc(x) <= -IntTop(w) THEN IntTop(w) ELSE Trunc(x) % (2 ^ w)
CvtU32(w, x) ==
  CASE IsNaN(x) \/ x.s = 1 \/ IsZero(x) -> 0
    [] IsInf(x) /\ x.s = 0 -> 2 ^ w - 1
    [] OTHER -> IF Trunc(x) >= 2 ^ w THEN 2 ^ w - 1 ELSE Trunc(x)

\* float(s32(a)), float(a & U32), and those of a byte of it.
SignedInt(w, n) ==
  LET low == n % 2 ^ w IN IF low >= IntTop(w) THEN low - 2 ^ w ELSE low
CvtF32I32(fm, w, n) == Round(fm, OfInt(SignedInt(w, n)))
CvtF32U32(fm, w, n) == Round(fm, OfInt(n % 2 ^ w))

\* An integer is returned and made a float again: it has lost the sign of a 0.
\* math.floor raises for what is no number.
FloorRaises(x) == ~IsFinite(x)
Floor(x) == F32(OfInt(FloorOf(x)))
RndNe(x) == IF IsFinite(x) THEN F32(OfInt(NearestInt(x))) ELSE F32(x)

\* math.frexp: x = (n / d) * 2^FrexpExp with 1/2 <= n / d < 1; the mantissa is
\* returned twice as large.
Special(x) == ~IsFinite(x) \/ IsZero(x)
BinaryPoint(x) == Log2(x.n) + 1 - Log2(x.d)
FrexpExp(x) == IF Special(x) THEN 0 ELSE BinaryPoint(x)
FrexpMant(x) == IF Special(x) THEN F32(x) ELSE F32([x EXCEPT !.d = 2 ^ Log2(x.n)])
LdExp(x, n) ==
  IF Special(x) THEN F32(x)
  ELSE F32(IF n < 0 THEN [x EXCEPT !.d = x.d * 2 ^ (-n)] ELSE [x EXCEPT !.n = x.n * 2 ^ n])

\* 1 / a, of a zero the infinity with its sign.
Rcp(x) ==
  CASE IsNaN(x) -> QNaN(Single)
    [] IsZero(x) -> Inf(Single, x.s)
    [] IsInf(x) -> Pack(Single, x.s, 0, 0)
    [] OTHER -> F32(Finite(x.s, x.d, x.n))

-----------------------------------------------------------------------------

\* _fp_cmp_cond of all classes, with what install_cmp_tables puts before them:
\* v_cmp_nle_f16 compares the registers as integers.
Relation(rel, x, y) ==
  CASE rel = "gt" -> Less(y, x)
    [] rel = "ge" -> Less(y, x) \/ Equal(x, y)
    [] rel = "eq" -> Equal(x, y)
    [] rel = "lt" -> Less(x, y)
    [] rel = "ngt" -> ~Less(y, x)
    [] rel = "nge" -> ~(Less(y, x) \/ Equal(x, y))
    [] rel \in {"neq", "lg"} -> ~Equal(x, y)
    [] rel = "nlt" -> ~Less(x, y)
    [] rel = "nle" -> ~(Less(x, y) \/ Equal(x, y))
    [] rel = "o" -> Ordered(x, y)
    [] rel = "u" -> ~Ordered(x, y)

FCompare(rel, type, a, b) ==
  CASE type = "f32" -> Relation(rel, SV(a), SV(b))
    [] type = "f16" /\ rel # "nle" -> Relation(rel, HV(a), HV(b))
    [] type = "f16" /\ rel = "nle" -> ~(a <= b)

\* _vcmp_class: the second operand is a mask of classes.
CmpClass(a, mask) == (mask \div 2 ^ ClassBit(a)) % 2 = 1

-----------------------------------------------------------------------------

\* Three singles; op_v_fma_mixlo_f16 and op_v_fma_mixhi_f16 take them for such.
SingleOp(op, a, b, c) ==
  LET x == SV(a)
      y == SV(b)
      z == SV(c)
  IN  CASE op = "v_add_f32" -> F32(Double(Sum(x, y)))
        [] op = "v_sub_f32" -> F32(Double(Sum(x, Flip(y))))
        [] op = "v_mul_f32" -> F32(Double(Prod(x, y)))
        [] op \in {"v_fma_f32", "v_fmaak_f32", "v_fmamk_f32", "v_fma_mixlo_f16", "v_fma_mixhi_f16",
                   "v_div_fmas_f32"} -> F32(FmaTwice(x, y, z))
        [] op = "v_fmac_f32" -> FmaBits(a, b, c)
        [] op = "v_min_f32" -> F32(VMin(x, y))
        [] op = "v_max_f32" -> F32(VMax(x, y))
        [] op = "v_med3_f32" -> F32(Med3(x, y, z))
        [] op = "v_div_fixup_f32" -> F32(x)
        [] op \in {"v_rcp_f32", "v_rcp_iflag_f32"} -> Rcp(x)
        [] op = "v_floor_f32" -> Floor(x)
        [] op = "v_rndne_f32" -> RndNe(x)
        [] op = "v_frexp_mant_f32" -> FrexpMant(x)
        [] op = "v_ldexp_f32" -> LdExp(x, SignedInt(IntBits, b))
        [] op = "v_cvt_f16_f32" -> CvtF16(a)
        [] op = "v_cvt_f32_f16" -> F32(HV(a))
        [] op = "v_cvt_i32_f32" -> CvtI32(IntBits, x)
        [] op = "v_cvt_u32_f32" -> CvtU32(IntBits, x)
        [] op = "v_cvt_f32_i32" -> CvtF32I32(Single, IntBits, a)
        [] op = "v_cvt_f32_u32" -> CvtF32U32(Single, IntBits, a)

\* A half of each operand, as Python computes with it.
HalfSum(x, y, z) == F16c(Double(Sum(x, y)))
HalfProd(x, y, z) == F16c(Double(Prod(x, y)))
HalfFma(x, y, z) == F16c(FmaTwice(x, y, z))
HalfOp(op, x, y, z) ==
  CASE op = "add" -> HalfSum(x, y, z)
    [] op = "mul" -> HalfProd(x, y, z)
    [] op = "fma" -> HalfFma(x, y, z)
    [] op = "max" -> HalfMinMax(x, y, TRUE)
    [] op = "min" -> HalfMinMax(x, y, FALSE)

\* _f16_arith writes the low half and clears the high one; _pk2 and _pk_minmax
\* do both.
Scalar16(op, a, b, c) == HalfOp(op, HV(a), HV(b), HV(c))
PackedOp(op, a, b, c) ==
  Packed(HalfOp(op, HV(a), HV(b), HV(c)), HalfOp(op, HV(High(a)), HV(High(b)), HV(High(c))))

\* op_v_dot2c_f32_f16: the products are rounded too; op_v_fma_mix_f32 adds the
\* same three, rounding once at the end.
Dot2c(a, b, c) ==
  LET p0 == Prod(HV(a), HV(b))
      p1 == Prod(HV(High(a)), HV(High(b)))
  IN  IF IsNaN(p0) \/ IsNaN(p1) \/ IsNaN(SV(c)) THEN QNaN(Single)
      ELSE F32(Double(Sum(SV(F32(Double(Sum(SV(c), SV(F32(p0)))))), SV(F32(p1)))))
FmaMix(a, b, c) ==
  F32(Double(Sum(Double(Sum(Prod(HV(a), HV(b)), Prod(HV(High(a)), HV(High(b))))), SV(c))))
=============================================================================
