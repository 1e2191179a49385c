----------------------------- MODULE ScalarSuite -----------------------------
(***************************************************************************)
(* The vectors the oracle is evaluated on (build_scalar_vectors), cut to a *)
(* width of W: a pattern of bytes becomes one of quarter words, and a      *)
(* shift by 31 or 33 one by W - 1 or W + 1.  A vector may have a note.     *)
(* Where the note names a wrong implementation, traps has the instruction  *)
(* that implementation would execute; where it says what the answer is,    *)
(* said has the fields of the answer; and holds is FALSE of the three      *)
(* vectors that are not what their notes say.                              *)
(***************************************************************************)
EXTENDS ScalarOracle

Two(op) == I(op, S(9), S(0), S(1))
Test(op) == I(op, Null, S(0), S(1))
Packed(op, off, w) == I(op, S(9), S(0), Field(off, w))

Upper == M - Pow2[HalfBits]          \* 0xFF00FF00
\* Mutant: the two patterns of the logic vectors are one.
MutMiddle == Upper
Middle == Upper \div Pow2[ByteBits]   \* 0x0FF00FF0

\* The setup: what the notes do not mention is 0, and EXEC is full.
Setup(s0, s1, s2, s3, s9, scc, exec) ==
  [s |-> [n \in 0 .. 9 |-> CASE n = 0 -> s0 [] n = 1 -> s1 [] n = 2 -> s2 [] n = 3 -> s3
                             [] n = 9 -> s9 [] OTHER -> 0],
   scc |-> scc, exec |-> exec]
Regs(s0, s1) == Setup(s0, s1, 0, 0, 0, 0, Top)

Vector(i, st) == [i |-> i, st |-> st, traps |-> {}, said |-> <<>>, holds |-> TRUE]
Trap(i, st, wrong) == [Vector(i, st) EXCEPT !.traps = {wrong}]
Saying(v, answer) == [v EXCEPT !.said = answer]
Misnoted(v) == [v EXCEPT !.holds = FALSE]

Tests == <<
  Vector(Test("s_cmp_eq_u32"), Regs(7, 7)),
  Saying(Vector(Test("s_cmp_eq_u32"), Regs(7, 8)), Scc(FALSE)),
  Saying(Trap(Test("s_cmp_lt_u32"), Regs(1, Top), Test("s_cmp_lt_i32")), Scc(TRUE)),
  Saying(Trap(Test("s_cmp_gt_u32"), Regs(Top, 1), Test("s_cmp_gt_i32")), Scc(TRUE)),
  Saying(Trap(Test("s_cmp_lt_i32"), Regs(Top, 1), Test("s_cmp_lt_u32")), Scc(TRUE)),
  Saying(Trap(Test("s_cmp_gt_i32"), Regs(1, Top), Test("s_cmp_gt_u32")), Scc(TRUE)),
  Vector(Test("s_cmp_ge_i32"), Regs(Sign, Sign)),
  Vector(Test("s_cmp_lg_u32"), Regs(5, 6)),
  Vector(I("s_cmp_eq_u64", Null, P(0), P(2)), Setup(1, 9, 1, 9, 0, 0, Top)),
  Trap(I("s_cmp_eq_u64", Null, P(0), P(2)), Setup(1, 9, 1, 10, 0, 0, Top),
       I("s_cmp_eq_u32", Null, S(0), S(2))),
  Saying(Vector(I("s_bitcmp0_b32", Null, S(0), K(W - 1)), Regs(Sign - 1, 0)), Scc(TRUE)),
  Saying(Vector(I("s_bitcmp0_b32", Null, S(0), K(W - 1)), Regs(Sign, 0)), Scc(FALSE)),
  Vector(I("s_bitcmp1_b32", Null, S(0), K(W - 1)), Regs(Sign, 0)),
  \* "a non-zero bit index must not be ignored": its index is 0
  Misnoted(Trap(I("s_bitcmp1_b32", Null, S(0), K(0)), Regs(1, 0), I("s_bitcmp1_b32", Null, S(0), K(0))))>>

Arithmetic == <<
  Saying(Vector(Two("s_add_u32"), Regs(Top, 1)), Scc(TRUE)),
  Saying(Vector(Two("s_add_u32"), Regs(Top - 1, 1)), Scc(FALSE)),
  Saying(Trap(Two("s_addc_u32"), Setup(Top, 0, 0, 0, 0, 1, Top), Two("s_add_u32")), Value(0)),
  Vector(Two("s_addc_u32"), Regs(Top, 0)),
  Vector(Two("s_add_i32"), Regs(Sign - 1, 1)),
  Vector(I("s_addk_i32", S(9), K(1), Null), Setup(0, 0, 0, 0, 2, 0, Top)),
  Vector(I("s_addk_i32", S(9), K(-2), Null), Setup(0, 0, 0, 0, 5, 0, Top)),
  Vector(I("s_addk_i32", S(9), K(1), Null), Setup(0, 0, 0, 0, Top, 0, Top)),
  Vector(I("s_movk_i32", S(9), K(1), Null), Regs(0, 0)),
  Vector(I("s_movk_i32", S(9), K(-1), Null), Regs(0, 0)),
  Saying(Vector(Two("s_mul_i32"), Regs(Top, 3)), Value(Mask(-3))),
  Vector(Two("s_mul_hi_u32"), Regs(Top, Top)),
  Vector(I("s_abs_i32", S(9), S(0), Null), Regs(Top - 4, 0)),
  Saying(Vector(I("s_abs_i32", S(9), S(0), Null), Regs(Sign, 0)), Value(Sign)),
  Saying(Trap(I("s_sext_i32_i8", S(9), S(0), Null), Regs(Pow2[ByteBits] - 1, 0), Packed("s_bfe_u32", 0, ByteBits)),
         Value(Top)),
  Vector(I("s_sext_i32_i8", S(9), S(0), Null), Regs(Pow2[ByteBits - 1] - 1, 0)),
  Vector(I("s_sext_i32_i16", S(9), S(0), Null), Regs(Pow2[HalfBits] - 1, 0)),
  Saying(Trap(Two("s_min_i32"), Regs(Top, 1), Two("s_min_u32")), Value(Top)),
  Vector(Two("s_max_i32"), Regs(Top, 1)),
  Saying(Vector(Two("s_min_u32"), Regs(Top, 1)), Value(1))>>

\* The eight logic instructions on one pair of patterns, and the shifts.
LogicOps ==
  <<"s_and_b32", "s_or_b32", "s_xor_b32", "s_not_b32", "s_andn2_b32", "s_nand_b32", "s_nor_b32",
    "s_xnor_b32">>
Logic ==
  [n \in 1 .. 8 |->
     IF LogicOps[n] = "s_andn2_b32"
       THEN Trap(Two("s_andn2_b32"), Regs(Upper, Middle), I("s_andn2_b32", S(9), S(1), S(0)))
       ELSE Vector(Two(LogicOps[n]), Regs(Upper, Middle))]

Counts == <<0, 1, ByteBits - 1, HalfBits - 1, W - 1, W + 1>>
Shifts ==
  [n \in 1 .. 6 |-> IF Counts[n] < W THEN Vector(Two("s_lshl_b32"), Regs(1, Counts[n]))
                    ELSE Trap(Two("s_lshl_b32"), Regs(1, Counts[n]), I("s_mov_b32", S(9), K(0), Null))] \o
  [n \in 1 .. 6 |-> IF Counts[n] = 0 THEN Vector(Two("s_ashr_i32"), Regs(Sign, 0))
                    ELSE Trap(Two("s_ashr_i32"), Regs(Sign, Counts[n]), Two("s_lshr_b32"))] \o
  <<Saying(Trap(Two("s_lshr_b32"), Regs(Sign, W - 1), Two("s_ashr_i32")), Value(1)),
    Trap(I("s_lshl_b64", P(3), P(0), S(2)), Setup(Top, 0, 1, 0, 0, 0, Top), I("s_lshl_b32", P(3), S(0), S(2))),
    Vector(I("s_lshr_b64", P(3), P(0), S(2)), Setup(0, 1, 1, 0, 0, 0, Top))>>

Fields == <<
  \* "offset 8, width 16": the literal decodes to an offset of 1 and a width of 8
  Misnoted(Saying(Vector(Packed("s_bfe_u32", 1, ByteBits), Regs(Top - 2, 0)),
                  Value(Low(Shr(Top - 2, ByteBits), HalfBits)))),
  \* "width 0 -> 0": it decodes to an offset of 0 and a width of 8
  Misnoted(Saying(Vector(Packed("s_bfe_u32", 0, ByteBits), Regs(Top, 0)), Value(0))),
  Vector(Packed("s_bfe_u32", HalfBits, W - 1), Regs(Top - 2, 0)),
  Saying(Trap(Packed("s_bfe_i32", ByteBits, ByteBits), Regs(Pow2[HalfBits] - Pow2[ByteBits], 0),
              Packed("s_bfe_u32", ByteBits, ByteBits)),
         Value(Top)),
  Vector(Packed("s_bfe_i32", ByteBits, ByteBits), Regs(Pow2[HalfBits - 1] - Pow2[ByteBits], 0))>>

Masks == <<
  Saying(Vector(Two("s_and_saveexec_b32"), Regs(Top - 2, Upper)), Value(Top)),
  Vector(Two("s_andn2_saveexec_b32"), Regs(0, Pow2[ByteBits] - 1)),
  Vector(Two("s_orn2_saveexec_b32"), Setup(0, Pow2[ByteBits] - 1, 0, 0, 0, 0, 0)),
  Vector(Two("s_or_saveexec_b32"), Setup(0, Pow2[ByteBits] - 1, 0, 0, 0, 0, 0)),
  Vector(Two("s_xor_saveexec_b32"), Setup(0, Pow2[HalfBits] - 1, 0, 0, 0, 0, Pow2[ByteBits] - 1)),
  Trap(Two("s_cselect_b32"), Setup(Upper, Middle, 0, 0, 0, 1, Top), I("s_cselect_b32", S(9), S(1), S(0))),
  Vector(Two("s_cselect_b32"), Regs(Upper, Middle))>>

Vectors == Tests \o Arithmetic \o Logic \o Shifts \o Fields \o Masks
=============================================================================
