------------------------------ MODULE VectorWave ------------------------------
(***************************************************************************)
(* A wave whose kernel has vector instructions, some lanes of it switched  *)
(* off.  At every state the instructions are compared with each other, the *)
(* vector ones with the scalar ones, and those of the emulator as it is    *)
(* with those of the emulator as it was.                                   *)
(***************************************************************************)
EXTENDS VectorFrozen

CONSTANTS
  Samples,    \* the words a kernel loads
  VMasks,     \* what it has in EXEC and VCC
  VKernel,    \* its instructions
  MaxSteps,   \* how many of them it executes
  VLaws,      \* an instruction, and instructions that do the same together
  Twins,      \* a vector instruction, and the scalar one of the same meaning
  Repaired    \* instructions both emulators have

\* A vector and a scalar instruction of the same meaning, by what they are
\* called.  The reversed shifts have their sources the other way round.
SameSources ==
  {<<"v_and_b32", "s_and_b32">>, <<"v_or_b32", "s_or_b32">>, <<"v_xor_b32", "s_xor_b32">>,
   <<"v_not_b32", "s_not_b32">>, <<"v_add_nc_u32", "s_add_i32">>, <<"v_sub_nc_u32", "s_sub_i32">>,
   <<"v_mul_lo_u32", "s_mul_i32">>, <<"v_mul_hi_u32", "s_mul_hi_u32">>, <<"v_min_i32", "s_min_i32">>,
   <<"v_max_i32", "s_max_i32">>, <<"v_mov_b32", "s_mov_b32">>}
SwappedSources ==
  {<<"v_lshlrev_b32", "s_lshl_b32">>, <<"v_lshrrev_b32", "s_lshr_b32">>, <<"v_ashrrev_i32", "s_ashr_i32">>}
FieldTwins == {<<"v_bfe_u32", "s_bfe_u32">>, <<"v_bfe_i32", "s_bfe_i32">>}
CompareTwins ==
  {<<"gt", "i32", "s_cmp_gt_i32">>, <<"ge", "i32", "s_cmp_ge_i32">>, <<"lt", "i32", "s_cmp_lt_i32">>,
   <<"eq", "u32", "s_cmp_eq_u32">>, <<"ne", "u32", "s_cmp_lg_u32">>, <<"lt", "u32", "s_cmp_lt_u32">>,
   <<"ge", "u32", "s_cmp_ge_u32">>, <<"gt", "u32", "s_cmp_gt_u32">>}

\* Two instructions that read the same SGPRs, or literals for the place and the
\* width of a field and for the width of a wide shift.
ValueTwins(v, s) ==
  /\ v.d \in VRegs /\ s.d \in SRegs /\ s.a \in SRegs
  /\ \/ <<v.op, s.op>> \in SameSources /\ v.a = s.a /\ v.b = s.b /\ s.b \in SRegs
     \/ <<v.op, s.op>> \in SwappedSources /\ v.a = s.b /\ v.b = s.a /\ s.b \in SRegs
     \/ <<v.op, s.op>> \in FieldTwins /\ v.a = s.a /\ v.b = s.b /\ v.c = s.c /\ {s.b, s.c} \subseteq Shared

WideTwins(v, s) ==
  /\ v.op = "v_lshlrev_b64" /\ s.op = "s_lshl_b64"
  /\ v.d \in VPairs /\ s.d \in Pairs
  /\ v.a = s.b /\ v.b = s.a /\ s.a \in Pairs /\ s.b \in [t : {"lit"}, n : 0 .. 2 * W - 1]

\* Those that tell by a mask what the other tells by SCC.
CarryTwins(v, s) ==
  /\ v.op = "v_add_co_u32" /\ s.op = "s_add_u32"
  /\ v.d \in VRegs /\ v.out = VCC /\ s.d \in SRegs
  /\ v.a = s.a /\ v.b = s.b /\ {s.a, s.b} \subseteq SRegs

TestTwins(v, s) ==
  /\ v.op = "v_cmp" /\ <<v.rel, v.type, s.op>> \in CompareTwins
  /\ v.d = VCC /\ v.a = s.a /\ v.b = s.b /\ {s.a, s.b} \subseteq SRegs

\* What a vector instruction may be replaced by, in every lane.  One that writes
\* d leaves alone what is read from a source apart from it.
To(op, d, a, b, c) == V(op, d, Null, a, b, c)
Apart(o, d) == o \in VSources /\ o # d /\ o # [t |-> "negv", n |-> d.n]
HalfWord == K(Pow2[HalfBits] - 1)
LowOf(p) == VReg(p.n)
HighOf(p) == VReg(p.n + 1)

\* Three operands at a time:
FusedOps ==
  {<<"v_add3_u32", "v_add_nc_u32", "v_add_nc_u32">>, <<"v_and_or_b32", "v_and_b32", "v_or_b32">>,
   <<"v_or3_b32", "v_or_b32", "v_or_b32">>, <<"v_xor3_b32", "v_xor_b32", "v_xor_b32">>,
   <<"v_mad_u32_u24", "v_mul_u32_u24", "v_add_nc_u32">>, <<"v_mad_i32_i24", "v_mul_i32_i24", "v_add_nc_u32">>}
ShiftedOps ==
  {<<"v_lshl_or_b32", "v_lshlrev_b32", "v_or_b32">>, <<"v_lshl_add_u32", "v_lshlrev_b32", "v_add_nc_u32">>}

Fuses(l) ==
  LET i == l.one
      d == i.d
  IN  /\ d \in VRegs /\ i.a \in VSources /\ i.b \in VSources /\ Apart(i.c, d)
      /\ \/ \E op \in FusedOps :
              i.op = op[1] /\ l.many = <<To(op[2], d, i.a, i.b, Null), To(op[3], d, d, i.c, Null)>>
         \/ \E op \in ShiftedOps :
              i.op = op[1] /\ l.many = <<To(op[2], d, i.b, i.a, Null), To(op[3], d, d, i.c, Null)>>
         \/ /\ i.op = "v_bfi_b32" /\ Apart(i.a, d)
            /\ l.many = <<To("v_xor_b32", d, i.b, i.c, Null), To("v_and_b32", d, d, i.a, Null),
                          To("v_xor_b32", d, d, i.c, Null)>>

\* A difference.
Subtracts(l) ==
  LET i == l.one
      d == i.d
  IN  /\ d \in VRegs /\ i.a \in VSources /\ i.b \in VSources
      /\ \/ /\ i.op = "v_sub_nc_u32" /\ Apart(i.a, d)
            /\ l.many = <<To("v_not_b32", d, i.b, Null, Null), To("v_add_nc_u32", d, d, i.a, Null),
                          To("v_add_nc_u32", d, d, K(1), Null)>>
         \/ i.op = "v_subrev_nc_u32" /\ l.many = <<To("v_sub_nc_u32", d, i.b, i.a, Null)>>
         \/ /\ i.op = "v_sub_nc_u32" /\ i.a = K(0) /\ i.b \in VRegs
            /\ l.many = <<To("v_mov_b32", d, [t |-> "negv", n |-> i.b.n], Null, Null)>>

\* A minimum or a maximum by compare and select, or the one by the other.
VChooses(l) ==
  LET i == l.one
      d == i.d
      by(rel, type, mask) ==
        l.many = <<Cmp("v_cmp", rel, type, mask, i.a, i.b), To("v_cndmask_b32", d, i.b, i.a, mask)>>
  IN  /\ d \in VRegs /\ i.a \in VRegs /\ i.b \in VRegs
      /\ \/ i.op = "v_min_i32" /\ by("lt", "i32", VCC)
         \/ i.op = "v_max_i32" /\ by("gt", "i32", VCC)
         \/ i.op = "v_min_u32" /\ \E mask \in SRegs : by("le", "u32", mask)
         \/ /\ i.op = "v_max_u32" /\ Apart(i.a, d) /\ Apart(i.b, d)
            /\ l.many = <<To("v_min_u32", d, i.a, i.b, Null), To("v_xor_b32", d, d, i.a, Null),
                          To("v_xor_b32", d, d, i.b, Null)>>

\* Half words, cut off the words that whole ones give; and three quarters.
HalfOps ==
  {<<"v_add_nc_u16", "v_add_nc_u32">>, <<"v_sub_nc_u16", "v_sub_nc_u32">>, <<"v_mul_lo_u16", "v_mul_lo_u32">>}

Halves(l) ==
  LET i == l.one
      d == i.d
      cut(o, e) == To("v_and_b32", e, o, HalfWord, Null)
      part(o, e) == To("v_bfe_u32", e, o, K(0), K(WordBits24))
  IN  /\ d \in VRegs /\ i.a \in VSources /\ i.b \in VSources
      /\ \/ \E op \in HalfOps :
              i.op = op[1] /\ l.many = <<To(op[2], d, i.a, i.b, Null), cut(d, d)>>
         \/ \E n \in 0 .. HalfBits - 1 :
              /\ i.a = K(n)
              /\ \/ i.op = "v_lshlrev_b16" /\ l.many = <<To("v_lshlrev_b32", d, i.a, i.b, Null), cut(d, d)>>
                 \/ i.op = "v_lshrrev_b16" /\ l.many = <<To("v_bfe_u32", d, i.b, i.a, K(HalfBits - n))>>
                 \/ /\ i.op = "v_ashrrev_i16"
                    /\ l.many = <<To("v_bfe_i32", d, i.b, i.a, K(HalfBits - n)), cut(d, d)>>
         \/ \E e \in VRegs :
              /\ e # d
              /\ \/ /\ i.op = "v_min_u16" /\ Apart(i.b, e)
                    /\ l.many = <<cut(i.a, e), cut(i.b, d), To("v_min_u32", d, d, e, Null)>>
                 \/ /\ i.op = "v_mul_u32_u24" /\ Apart(i.a, e)
                    /\ l.many = <<part(i.b, e), part(i.a, d), To("v_mul_lo_u32", d, d, e, Null)>>
         \/ /\ i.op = "v_pack_b32_f16" /\ Apart(i.a, d)
            /\ l.many = <<cut(i.b, d), To("v_lshl_or_b32", d, i.a, K(HalfBits), d)>>

\* A field by two shifts; a signed one ends below the top.
VTakesField(l) ==
  LET i == l.one
      d == i.d
      up(n) == To("v_lshlrev_b32", d, K(n), i.a, Null)
  IN  /\ d \in VRegs /\ i.a \in VSources
      /\ \E off \in 0 .. W - 1, w \in 1 .. W - 1 :
           /\ off + w <= W /\ i.b = K(off) /\ i.c = K(w)
           /\ \/ /\ i.op = "v_bfe_u32"
                 /\ l.many = <<up(W - off - w), To("v_lshrrev_b32", d, K(W - w), d, Null)>>
              \/ /\ i.op = "v_bfe_i32" /\ off + w < W
                 /\ l.many = <<up(W - off - w), To("v_ashrrev_i32", d, K(W - w), d, Null)>>

\* A pair of words by what is computed of each.
VMultiplies(l) ==
  LET i == l.one
      d == i.d
      lo == LowOf(d)
      hi == HighOf(d)
  IN  /\ d \in VPairs /\ i.a \in VSources /\ i.b \in VSources
      /\ \/ /\ i.op = "v_mad_u64_u32" /\ i.c = K(0) /\ Apart(i.a, lo) /\ Apart(i.b, lo)
            /\ l.many = <<To("v_mul_lo_u32", lo, i.a, i.b, Null), To("v_mul_hi_u32", hi, i.a, i.b, Null)>>
         \/ /\ i.op = "v_mad_u64_u32" /\ i.c \in VPairs /\ i.c.n + 1 # d.n
            /\ \E e \in VPairs :
                 /\ Apart(i.a, LowOf(e)) /\ Apart(i.b, LowOf(e))
                 /\ e.n \notin i.c.n - 1 .. i.c.n + 1 /\ e.n \notin d.n - 1 .. d.n + 1
                 /\ l.many = <<To("v_mul_lo_u32", LowOf(e), i.a, i.b, Null),
                               To("v_mul_hi_u32", HighOf(e), i.a, i.b, Null),
                               V("v_add_co_u32", lo, VCC, LowOf(e), LowOf(i.c), Null),
                               V("v_add_co_ci_u32", hi, VCC, HighOf(e), HighOf(i.c), VCC)>>
         \/ /\ i.op = "v_mad_i64_i32" /\ i.b = K(1) /\ i.c = K(0) /\ Apart(i.a, lo)
            /\ l.many = <<To("v_mov_b32", lo, i.a, Null, Null),
                          To("v_ashrrev_i32", hi, K(W - 1), i.a, Null)>>

VShiftsPair(l) ==
  LET i == l.one
      d == i.d
      b == i.b
      across(o, n) == To("v_alignbit_b32", o, LowOf(b), HighOf(b), K(n))
  IN  /\ d \in VPairs /\ b \in VPairs
      /\ \/ \E n \in 1 .. W - 1 :
              /\ i.op = "v_lshlrev_b64" /\ i.a = K(n) /\ d.n \notin b.n .. b.n + 1
              /\ l.many = <<To("v_lshlrev_b32", LowOf(d), K(n), LowOf(b), Null), across(HighOf(d), W - n)>>
         \/ \E n \in 0 .. W - 1 :
              /\ i.op = "v_lshrrev_b64" /\ i.a = K(n) /\ d.n # b.n + 1
              /\ l.many = <<across(LowOf(d), n), To("v_lshrrev_b32", HighOf(d), K(n), HighOf(b), Null)>>

ASSUME SampleAssumption == Samples \subseteq Word /\ VMasks \subseteq Word /\ MaxSteps \in Nat
ASSUME VKernelAssumption == \A i \in VKernel : VWellFormed(i)
ASSUME RepairedAssumption == \A i \in Repaired : InFrozen(i)
ASSUME TwinsAssumption ==
  \A t \in Twins :
    \/ (ValueTwins(t.vector, t.scalar) \/ WideTwins(t.vector, t.scalar)) /\ t.value /\ ~t.flag
    \/ CarryTwins(t.vector, t.scalar) /\ t.value /\ t.flag
    \/ TestTwins(t.vector, t.scalar) /\ ~t.value /\ t.flag

ASSUME VLawsAssumption ==
  \A l \in VLaws :
    \/ Fuses(l) \/ Subtracts(l) \/ VChooses(l) \/ Halves(l)
    \/ VTakesField(l) \/ VMultiplies(l) \/ VShiftsPair(l)

VARIABLES
  wave,   \* VGPRs, SGPRs, SCC, EXEC and VCC
  steps   \* instructions executed, or -1 before the loads

vvars == <<wave, steps>>

VA == VReg(0)
VB == VReg(1)

VStart ==
  [s |-> [n \in Reg |-> 0], scc |-> 0, exec |-> Pow2[NLanes] - 1, vcc |-> 0,
   v |-> [l \in Lane |-> [n \in Vgpr |-> 0]]]

VInit == wave = VStart /\ steps = -1

\* v0 and v1 of one lane are x and y, of the next the other way round.
VLoad ==
  /\ steps = -1
  /\ \E x, y \in Samples, e, c \in VMasks :
       wave' = [wave EXCEPT
                 !.s = [n \in Reg |-> CASE n = 0 -> x [] n = 1 -> y [] OTHER -> 0],
                 !.v = [l \in Lane |-> [n \in Vgpr |->
                          IF n > 1 THEN 0 ELSE IF (l + n) % 2 = 0 THEN x ELSE y]],
                 !.exec = e, !.vcc = c]
  /\ steps' = 0

VExecute(i) ==
  /\ steps >= 0 /\ steps < MaxSteps
  /\ wave' = VResult(i, wave)
  /\ steps' = steps + 1

VNext == VLoad \/ \E i \in VKernel : VExecute(i)
VSpec == VInit /\ [][VNext]_vvars

VTypeOK == steps \in -1 .. MaxSteps /\ wave \in VState

-----------------------------------------------------------------------------

\* A sum of pairs, the high words added with the carry of the low ones, is for
\* every lane the sum of the double words with its carry out in VCC; and a
\* difference with borrow is a difference.  Lanes that are off keep their VGPRs.
WideLanes ==
  LET sum == VRun(<<V("v_add_co_u32", VReg(2), VCC, VA, VB, Null),
                    V("v_add_co_ci_u32", VReg(3), VCC, VB, S(0), VCC)>>, wave)
      diff == VRun(<<Cmp("v_cmp", "ne", "u32", VCC, VA, VA),
                     V("v_subrev_co_ci_u32", VReg(2), VCC, VB, VA, VCC),
                     V("v_subrev_co_ci_u32", VReg(3), VCC, VA, VB, VCC)>>, wave)
  IN  \A l \in Lane :
        LET x == wave.v[l][0]
            y == wave.v[l][1]
        IN  IF l \in Active(wave)
              THEN /\ VGetPair(sum, l, VPair(2)) + M * M * Bit(sum.vcc, l) = Pair(x, y) + Pair(y, wave.s[0])
                   /\ VGetPair(diff, l, VPair(2)) - M * M * Bit(diff.vcc, l) = Pair(x, y) - Pair(y, x)
              ELSE sum.v[l] = wave.v[l] /\ diff.v[l] = wave.v[l]

\* The cross-lane instructions: a lane keeps what was written to it until it is
\* read, whatever EXEC is, and no other lane is touched; and v_mbcnt of EXEC
\* numbers the lanes that are on 0, 1, ... without a gap.
CrossLane ==
  /\ \A l \in Lane :
       LET wrote == VResult(V("v_writelane_b32", VReg(2), Null, S(0), K(l), Null), wave)
       IN  /\ VResult(V("v_readlane_b32", S(1), Null, VReg(2), K(l), Null), wrote).s[1] = wave.s[0]
           /\ \A k \in Lane \ {l} : wrote.v[k] = wave.v[k]
  /\ LET counted == VRun(<<I("s_mov_b32", S(1), ExecReg, Null),
                           V("v_mbcnt_lo_u32_b32", VReg(2), Null, S(1), K(0), Null)>>, wave)
     IN  {counted.v[l][2] : l \in Active(wave)} = 0 .. Cardinality(Active(wave)) - 1

\* A kernel may use one vector instruction for several, as compilers do: both
\* leave the same value in the destination, in the lanes that are on and in
\* those that are off.  Two additions with carry are one of pairs, for all
\* values of the lanes; and the cross-lane instructions move what they should.
VLawsHold ==
  /\ WideLanes
  /\ CrossLane
  /\ \A w \in VLaws, l \in Lane :
       VGetPair(VResult(w.one, wave), l, w.one.d) = VGetPair(VRun(w.many, wave), l, w.one.d)

\* What all lanes compute from SGPRs is what the scalar instruction computes
\* from them; and a compare or a carry is 1 for every lane that is on where SCC
\* is.  The handlers of the two have nothing in common.
TwinsAgree ==
  \A t \in Twins :
    LET vector == VResult(t.vector, wave)
        scalar == Result(t.scalar, wave)
    IN  /\ t.value => \A l \in Active(wave) : VGetPair(vector, l, t.vector.d) = GetPair(scalar, t.scalar.d)
        /\ t.flag => \A l \in Lane : Bit(vector.vcc, l) = IF l \in Active(wave) THEN scalar.scc ELSE 0

\* The repairs of the emulator touched four instructions: two took the shift
\* amount for the value, one permuted nothing, and v_cmpx compared its second
\* operand with itself.
OnlyRepairsDiffer ==
  \A i \in Repaired :
    FrozenV(i, wave) =
      CASE i.op \in {"v_lshl_or_b32", "v_lshl_add_u32"} -> VResult(V(i.op, i.d, i.out, i.b, i.a, i.c), wave)
        [] i.op = "v_perm_b32" -> VResult(V("v_mov_b32", i.d, i.out, i.b, i.b, i.c), wave)
        [] i.op = "v_cmpx" -> VResult(Cmp(i.op, i.rel, i.type, i.d, i.b, i.b), wave)
        [] OTHER -> VResult(i, wave)
=============================================================================
