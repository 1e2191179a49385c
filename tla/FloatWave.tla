----------------------------- MODULE FloatWave ------------------------------
(***************************************************************************)
(* A lane of a wave that computes with one register, whatever a kernel put *)
(* there: every pattern is a state, and at each the instructions are held  *)
(* against exact arithmetic and against one another.                       *)
(***************************************************************************)
EXTENDS FloatIsa, FiniteSets

CONSTANT Samples   \* the patterns of the other operands

ASSUME SamplesAssumption == Samples \subseteq Word

\* In the code an integer has more bits than a significand, and every integer is
\* in the range of singles.  Singles whose products TLC can count have no such
\* range, so the conversions are also compared at a format of their own.
CONSTANTS EW, FW, NW   \* its exponent and fraction bits, the bits of an integer

ASSUME WideAssumption ==
  /\ {EW, FW, NW} \subseteq Nat \ {0}
  /\ NW - 1 > FW + 1
  /\ NW < 2 ^ (EW - 1)
  /\ EW + FW <= ES + FS /\ NW <= 1 + ES + FS   \* v holds one of each

Wide == [e |-> EW, f |-> FW]

VARIABLE v   \* the register

vars == <<v>>

SingleOps ==
  {"v_add_f32", "v_sub_f32", "v_mul_f32", "v_fma_f32", "v_fmac_f32", "v_min_f32", "v_max_f32",
   "v_med3_f32", "v_rcp_f32", "v_rndne_f32", "v_frexp_mant_f32", "v_ldexp_f32", "v_div_fixup_f32",
   "v_cvt_f16_f32", "v_cvt_f32_f16", "v_cvt_i32_f32", "v_cvt_u32_f32", "v_cvt_f32_i32", "v_cvt_f32_u32"}
HalfOps == {"add", "mul", "fma", "max", "min"}

Init == v \in Word

OnSingles(b) == \E op \in SingleOps : v' = SingleOp(op, v, b, v)
RoundDown == ~FloorRaises(SV(v)) /\ v' = SingleOp("v_floor_f32", v, v, v)
OnHalf(b) == \E op \in {"add", "mul"} : v' = Scalar16(op, v, b, v)
OnHalves(b) == \E op \in HalfOps : v' = PackedOp(op, v, b, v)
DotProduct(b) == v' = Dot2c(v, b, v) \/ v' = FmaMix(v, b, v)

Next == RoundDown \/ \E b \in Samples : OnSingles(b) \/ OnHalf(b) \/ OnHalves(b) \/ DotProduct(b)
Spec == Init /\ [][Next]_vars

TypeOK == v \in Word

-----------------------------------------------------------------------------

\* Exact arithmetic, without rounding: p as a magnitude, where the infinity is
\* the number that would come after the largest; and how far x is from it.
Magnitude(fm, p) == p % 2 ^ (fm.e + fm.f)
Abs(x) == [x EXCEPT !.s = 0]
Extended(fm, n) ==
  Finite(0, IF n < 2 ^ fm.f THEN n ELSE (2 ^ fm.f + (n % 2 ^ fm.f)) * 2 ^ ((n \div 2 ^ fm.f) - 1), Scale(fm))
Away(fm, x, n) == Sum(Abs(x), Flip(Extended(fm, n))).n
Neighbours(fm, n) == {n - 1, n + 1} \cap 0 .. Inf(fm, 0)

\* No pattern is nearer to x than p, and of two as near p is the even one.
Nearest(fm, x, p) ==
  LET n == Magnitude(fm, p)
  IN  /\ n <= Inf(fm, 0)
      /\ ~IsZero(x) => Sign(fm, p) = x.s
      /\ \A k \in Neighbours(fm, n) :
           Away(fm, x, n) < Away(fm, x, k) \/ (Away(fm, x, n) = Away(fm, x, k) /\ n % 2 = 0)

\* p is one of the two patterns x lies between, and x itself if x is one.
Faithful(fm, x, p) ==
  LET n == Magnitude(fm, p)
  IN  /\ n <= Inf(fm, 0)
      /\ ~IsZero(x) => Sign(fm, p) = x.s
      /\ n > 0 => Less(Extended(fm, n - 1), Abs(x))
      /\ n < Inf(fm, 0) => Less(Abs(x), Extended(fm, n + 1))

AsHalf == F32BitsToF16(v)
SmallestNormal(fm) == Finite(0, 2 ^ fm.f, Scale(fm))

\* The conversion instruction is right where the helper is not, and its result
\* has the right size to the last place: of normal halves the nearest.  What it
\* has wrong is the sign.
CvtMagnitude ==
  LET x == Abs(SV(v))
  IN  IsFinite(x) =>
        /\ Faithful(Half, x, Magnitude(Half, CvtF16(v)))
        /\ ~Less(x, SmallestNormal(Half)) => Nearest(Half, x, Magnitude(Half, CvtF16(v)))

\* What f16 arithmetic goes through never loses more than a last place: a half
\* comes back as it was, a number between two halves becomes one of them, below
\* the normal halves the nearest, and order and sign survive.  The conversion
\* instruction keeps the size.
HalvesFaithful ==
  /\ CvtMagnitude
  /\ IsFinite(SV(v)) => Faithful(Half, SV(v), AsHalf)
  /\ IsFinite(SV(v)) /\ Less(Abs(SV(v)), SmallestNormal(Half)) => Nearest(Half, SV(v), AsHalf)
  /\ ~IsNaN(HV(v)) => F16c(HV(v)) = Low(v)
  /\ \A b \in Samples : Less(SV(v), SV(b)) => ~Less(HV(F32BitsToF16(b)), HV(AsHalf))
  /\ IsNaN(SV(v)) <=> IsNaN(HV(AsHalf))

\* p14e_emu.py _f16c: "f32 value -> f16 bits, round-to-nearest-even, exact."
HalfIsNearest == IsFinite(SV(v)) => Nearest(Half, SV(v), AsHalf)

\* v_fmac_f32 rounds once.  v_fma_f32 rounds twice and is at most a place off;
\* they differ in what 0 times an infinity is, and in the sign of a 0.
FmacRoundsOnce ==
  \A b, c \in Samples :
    LET fmac == FmaBits(b, c, v)
        fma == F32(FmaTwice(SV(b), SV(c), SV(v)))
        exact == Sum(Prod(SV(b), SV(c)), SV(v))
    IN  /\ IsFinite(exact) => /\ Nearest(Single, exact, fmac)
                              /\ Magnitude(Single, fmac) - Magnitude(Single, fma) \in -1 .. 1
        /\ IsInf(exact) => fmac = fma
        /\ IsNaN(SV(fmac)) => IsNaN(exact)
        /\ IsNaN(exact) /\ ~IsNaN(SV(fmac)) => IsInf(Val(Single, fmac)) /\ {b, c} \cap {0, Pack(Single, 1, 0, 0)} # {}
        /\ FmaBits(c, b, v) = fmac

\* Of two numbers exactly one of <, >, = holds, of a number and a NaN none;
\* every n-relation is the negation of the one it is named for, whatever the
\* operands, but v_cmp_nle_f16 only for positive halves in otherwise empty
\* registers.  The classes are apart, those of numbers in the order of numbers.
ComparesComplete ==
  \A b \in Samples :
    /\ \A t \in {"f32", "f16"} :
         LET C(rel) == FCompare(rel, t, v, b)
         IN  /\ Cardinality({r \in {"lt", "gt", "eq", "u"} : C(r)}) = 1
             /\ C("ge") = (C("gt") \/ C("eq"))
             /\ \A r \in {<<"nlt", "lt">>, <<"ngt", "gt">>, <<"nge", "ge">>, <<"neq", "eq">>, <<"o", "u">>} :
                  C(r[1]) = ~C(r[2])
             /\ (t = "f16" => {v, b} \subseteq 0 .. Inf(Half, 0)) => C("nle") = (C("gt") \/ C("u"))
    /\ FCompare("lt", "f32", v, b) = FCompare("gt", "f32", b, v)
    /\ Cardinality({k \in 0 .. 9 : CmpClass(v, 2 ^ k)}) = 1
    /\ CmpClass(v, 2 ^ 0 + 2 ^ 1) = FCompare("u", "f32", v, v)
    /\ CmpClass(v, 2 ^ 5 + 2 ^ 6) = FCompare("eq", "f32", v, 0)
    /\ ClassBit(v) < ClassBit(b) /\ FCompare("o", "f32", v, b) =>
         FCompare("lt", "f32", v, b) \/ {ClassBit(v), ClassBit(b)} = {5, 6}

\* The minimum and the maximum of two numbers are the two numbers, for the
\* classes that have them with NaNs as for those without; v_med3 has two of the
\* three on either side; and a pair of halves gets a NaN only from two NaNs.
MinMaxMedian ==
  \A b, c \in Samples :
    LET x == SV(v)
        y == SV(b)
        z == SV(c)
        m == SV(SingleOp("v_med3_f32", v, b, c))
        Same(l, h) == \/ Equal(l, x) /\ Equal(h, y)
                      \/ Equal(l, y) /\ Equal(h, x)
                      \/ ~Ordered(x, y) /\ IsNaN(l) /\ IsNaN(h)
    IN  /\ Same(VMin(x, y), VMax(x, y)) /\ ~Less(VMax(x, y), VMin(x, y))
        /\ Ordered(x, y) => Equal(FMin(x, y), VMin(x, y)) /\ Equal(FMax(x, y), VMax(x, y))
        /\ ~Ordered(x, y) => FMin(x, y) = (IF IsNaN(x) THEN y ELSE x)
        /\ Ordered(x, y) /\ Ordered(y, z) =>
             LET three == <<x, y, z>>
             IN  /\ Cardinality({i \in 1 .. 3 : ~Less(m, three[i])}) >= 2
                 /\ Cardinality({i \in 1 .. 3 : ~Less(three[i], m)}) >= 2
        /\ \A max \in BOOLEAN :
             LET h == HalfMinMax(HV(v), HV(b), max)
             IN  /\ IsNaN(Val(Half, h)) <=> (IsNaN(HV(v)) /\ IsNaN(HV(b)))
                 /\ ~IsNaN(Val(Half, h)) => h \in {Low(v), Low(b)}

\* What kernels sort, clamp and branch with: the relations and the choices
\* between numbers agree on one order, with NaN in its place.
OrderAgrees == ComparesComplete /\ MinMaxMedian

\* A number is its mantissa, which is twice what frexp documents, scaled by its
\* exponent; scaling rounds once; and reciprocals turn the order around.
Scales ==
  LET x == SV(v)
      Scaled(n) == IF n < 0 THEN [x EXCEPT !.d = x.d * 2 ^ (-n)] ELSE [x EXCEPT !.n = x.n * 2 ^ n]
  IN  /\ ~Special(x) => LET m == SV(FrexpMant(x))
                        IN  LdExp(m, FrexpExp(x) - 1) = v /\ Whole(m) = 1
      /\ \A b \in Samples :
           /\ IsFinite(x) => Nearest(Single, Scaled(SignedInt(IntBits, b)), LdExp(x, SignedInt(IntBits, b)))
           /\ Less(x, SV(b)) /\ x.s = SV(b).s => ~Less(SV(Rcp(x)), SV(Rcp(SV(b))))

\* Rounded to an integer a number is off by less than one or by half at most,
\* and an integer stays one (singles from some size on are integers).
RoundsToIntegers ==
  LET x == SV(v)
      down == SV(Floor(x))
      near == SV(RndNe(x))
  IN  IsFinite(x) /\ IsFinite(down) /\ IsFinite(near) =>
        /\ ~Less(x, down) /\ Less(x, Sum(down, OfInt(1)))
        /\ 2 * Abs(Sum(x, Flip(near))).n <= x.d
        /\ Equal(SV(RndNe(near)), near) /\ Equal(SV(Floor(near)), near)

Gap(m, n) == IF m < n THEN n - m ELSE m - n

\* The integers n that need more places than a significand has come back from a
\* float as another one, with an error of half a place, and saturate where they
\* would wrap around; those that need no more come back as they were.
ComesBack(n, back) == 2 ^ (FW + 1) * Gap(n, back) <= Gap(n, 0)

\* An integer becomes the nearest float.  A float that is cut to an integer in
\* range is that integer for good; those out of range saturate in order, but
\* v_cvt_i32_f32 makes 0 of an infinity.
IntegersConvert ==
  LET Float(p) == Val(Wide, p % 2 ^ Bits(Wide))
      unsigned == v % 2 ^ NW
      signed == SignedInt(NW, v)
      OfUnsigned(n) == CvtF32U32(Wide, NW, n)
      OfSigned(n) == CvtF32I32(Wide, NW, n)
      ToUnsigned(x) == CvtU32(NW, x)
      ToSigned(x) == SignedInt(NW, CvtI32(NW, x))
      x == Float(v)
  IN  /\ Nearest(Wide, OfInt(unsigned), OfUnsigned(v)) /\ ComesBack(unsigned, ToUnsigned(Float(OfUnsigned(v))))
      /\ Nearest(Wide, OfInt(signed), OfSigned(v)) /\ ComesBack(signed, ToSigned(Float(OfSigned(v))))
      /\ IsFinite(x) =>
           /\ Trunc(x) \in 0 .. 2 ^ NW - 1 => Equal(Float(OfUnsigned(ToUnsigned(x))), OfInt(Trunc(x)))
           /\ Gap(Trunc(x), 0) < IntTop(NW) => Equal(Float(OfSigned(ToSigned(x))), OfInt(Trunc(x)))
      /\ \A b \in Samples :
           LET y == Float(b)
           IN  Less(x, y) => /\ ToUnsigned(x) <= ToUnsigned(y)
                             /\ IsFinite(x) /\ IsFinite(y) => ToSigned(x) <= ToSigned(y)

\* Mantissas, exponents and integers, to a float and back: what is exact comes
\* back, and what is rounded is rounded once and in order.
ScalesBack == Scales /\ RoundsToIntegers /\ IntegersConvert
=============================================================================
