----------------------------- MODULE ScalarOracle -----------------------------
(***************************************************************************)
(* The same instructions as the independent oracle evaluates them          *)
(* (isa_oracle_scalar.py).  It is a second program: its operands are words *)
(* before an instruction sees them, and an instruction answers with what   *)
(* it changes, a value for the destination, SCC or EXEC.                   *)
(*                                                                         *)
(* The emulator as it was frozen before its repairs, which the oracle is   *)
(* kept beside (emulator_base__emu.py), is here as well.                   *)
(***************************************************************************)
EXTENDS ScalarIsa

\* _read_scalar: a literal is cut to a word, a pair is one number.
Read(st, o) ==
  CASE o.t = "s"    -> st.s[o.n]
    [] o.t = "exec" -> st.exec
    [] o.t = "scc"  -> st.scc
    [] o.t = "pair" -> Pair(st.s[o.n], st.s[o.n + 1])
    [] o.t = "lit"  -> Mask(o.n)
    [] o.t = "field" -> o.n
    [] o.t = "null" -> 0

\* What an instruction answers: only the fields it has are written.
Value(v) == [value |-> v]
Scc(b) == [scc |-> IF b THEN 1 ELSE 0]
ValueScc(v, b) == [value |-> v, scc |-> IF b THEN 1 ELSE 0]

SayCompares ==
  {"s_cmp_eq_u32", "s_cmp_lg_u32", "s_cmp_lt_u32", "s_cmp_le_u32", "s_cmp_gt_u32",
   "s_cmp_ge_u32", "s_cmp_eq_u64", "s_cmp_lg_u64", "s_cmp_lt_i32", "s_cmp_le_i32",
   "s_cmp_gt_i32", "s_cmp_ge_i32", "s_cmp_eq_i32", "s_cmp_lg_i32"}

SayCompare(op, a, b) ==
  CASE op = "s_cmp_eq_u32" -> Mask(a) = Mask(b)
    [] op = "s_cmp_lg_u32" -> Mask(a) # Mask(b)
    [] op = "s_cmp_lt_u32" -> Mask(a) < Mask(b)
    [] op = "s_cmp_le_u32" -> Mask(a) <= Mask(b)
    [] op = "s_cmp_gt_u32" -> Mask(a) > Mask(b)
    [] op = "s_cmp_ge_u32" -> Mask(a) >= Mask(b)
    [] op = "s_cmp_eq_u64" -> Mask2(a) = Mask2(b)
    [] op = "s_cmp_lg_u64" -> Mask2(a) # Mask2(b)
    [] op = "s_cmp_lt_i32" -> Signed(a) < Signed(b)
    [] op = "s_cmp_le_i32" -> Signed(a) <= Signed(b)
    [] op = "s_cmp_gt_i32" -> Signed(a) > Signed(b)
    [] op = "s_cmp_ge_i32" -> Signed(a) >= Signed(b)
    [] op = "s_cmp_eq_i32" -> Signed(a) = Signed(b)
    [] op = "s_cmp_lg_i32" -> Signed(a) # Signed(b)

SayCmpKs ==
  {"s_cmpk_lt_u32", "s_cmpk_le_u32", "s_cmpk_gt_u32", "s_cmpk_ge_u32", "s_cmpk_lt_i32",
   "s_cmpk_gt_i32"}

\* _cmpk: the immediate is a word, signed like the register it is compared to.
SayCmpK(op, a, imm) ==
  CASE op = "s_cmpk_lt_u32" -> Mask(a) < Mask(imm)
    [] op = "s_cmpk_le_u32" -> Mask(a) <= Mask(imm)
    [] op = "s_cmpk_gt_u32" -> Mask(a) > Mask(imm)
    [] op = "s_cmpk_ge_u32" -> Mask(a) >= Mask(imm)
    [] op = "s_cmpk_lt_i32" -> Signed(a) < Signed(imm)
    [] op = "s_cmpk_gt_i32" -> Signed(a) > Signed(imm)

SayBitTests == {"s_bitcmp0_b32", "s_bitcmp1_b32"}
SayBitTest(op, a, n) == Bit(a, Mask(n) % W) = IF op = "s_bitcmp1_b32" THEN 1 ELSE 0

SayArith ==
  {"s_add_u32", "s_add_i32", "s_addc_u32", "s_sub_u32", "s_sub_i32", "s_subb_u32", "s_mul_i32",
   "s_mul_hi_u32", "s_mul_hi_i32", "s_abs_i32", "s_sext_i32_i8", "s_sext_i32_i16", "s_min_i32",
   "s_max_i32", "s_min_u32", "s_max_u32"}

SayArithmetic(op, a, b, scc) ==
  CASE op = "s_add_u32"  -> ValueScc(Mask(a + b), a + b > Top)
    [] op = "s_add_i32"  -> Value(Mask(Signed(a) + Signed(b)))
    [] op = "s_addc_u32" -> ValueScc(Mask(a + b + scc), a + b + scc > Top)
    [] op = "s_sub_u32"  -> ValueScc(Mask(a - b), a < b)
    [] op = "s_sub_i32"  -> Value(Mask(Signed(a) - Signed(b)))
    [] op = "s_subb_u32" -> ValueScc(Mask(a - b - scc), a - b - scc < 0)
    [] op = "s_mul_i32"  -> Value(Mask(Signed(a) * Signed(b)))
    [] op = "s_mul_hi_u32" -> Value(Mask(Shr(a * b, W)))
    [] op = "s_mul_hi_i32" -> Value(Mask(Shr(Signed(a) * Signed(b), W)))
    [] op = "s_abs_i32"  -> Value(Mask(IF Signed(a) < 0 THEN -Signed(a) ELSE Signed(a)))
    [] op = "s_sext_i32_i8"  -> Value(Mask(SignedLow(a, ByteBits)))
    [] op = "s_sext_i32_i16" -> Value(Mask(SignedLow(a, HalfBits)))
    [] op = "s_min_i32"  -> Value(Mask(Smaller(Signed(a), Signed(b))))
    [] op = "s_max_i32"  -> Value(Mask(Larger(Signed(a), Signed(b))))
    [] op = "s_min_u32"  -> Value(Smaller(a, b))
    [] op = "s_max_u32"  -> Value(Larger(a, b))

\* The immediate of s_movk_i32 is half a word, sign-extended.
SayAddK(old, imm) == Value(Mask(old + imm))
SayMovK(imm) == Value(Mask(SignedLow(imm, HalfBits)))

SayLogic ==
  {"s_and_b32", "s_or_b32", "s_xor_b32", "s_not_b32", "s_andn2_b32", "s_orn2_b32", "s_nand_b32",
   "s_nor_b32", "s_xnor_b32"}

SayLogicValue(op, a, b) ==
  CASE op = "s_and_b32"   -> And(a, b)
    [] op = "s_or_b32"    -> Or(a, b)
    [] op = "s_xor_b32"   -> Xor(a, b)
    [] op = "s_not_b32"   -> Not(a)
    [] op = "s_andn2_b32" -> And(a, Not(b))
    [] op = "s_orn2_b32"  -> Or(a, Not(b))
    [] op = "s_nand_b32"  -> Not(And(a, b))
    [] op = "s_nor_b32"   -> Not(Or(a, b))
    [] op = "s_xnor_b32"  -> Not(Xor(a, b))

SayShifts == {"s_lshl_b32", "s_lshr_b32", "s_ashr_i32", "s_lshl_b64", "s_lshr_b64"}

SayShift(op, a, n) ==
  CASE op = "s_lshl_b32" -> Mask(Shl(a, n % W))
    [] op = "s_lshr_b32" -> Shr(a, n % W)
    [] op = "s_ashr_i32" -> Mask(Shr(Signed(a), n % W))
    [] op = "s_lshl_b64" -> Mask2(Shl(a, n % (2 * W)))
    [] op = "s_lshr_b64" -> Shr(a, n % (2 * W))

\* s_bfe_* cut the width to a shift count: a width of W is a width of 0.
SayField(op, a, off, width) ==
  LET o == off % W
      w == width % W
      v == Shr(a, o)
  IN  IF w = 0 THEN 0
      ELSE IF op = "s_bfe_u32" THEN Low(v, w)
      ELSE IF o + w < W THEN Mask(SignedLow(v, w)) ELSE v

SayMaskBits(w, o) == IF w % W = 0 THEN 0 ELSE Mask(Shl(Pow2[w % W] - 1, o % W))

SaySaveExecs ==
  {"s_and_saveexec_b32", "s_orn2_saveexec_b32", "s_andn2_saveexec_b32", "s_or_saveexec_b32",
   "s_xor_saveexec_b32"}

\* The mask the instruction names is inverted by s_andn2_saveexec_b32.
SaySaveExec(op, old, mask) ==
  [value |-> old,
   exec |-> CASE op = "s_and_saveexec_b32"   -> And(old, mask)
              [] op = "s_orn2_saveexec_b32"  -> Or(old, Not(mask))
              [] op = "s_andn2_saveexec_b32" -> And(old, Not(mask))
              [] op = "s_or_saveexec_b32"    -> Or(old, mask)
              [] op = "s_xor_saveexec_b32"   -> Xor(old, mask)]

SayMoves == {"s_mov_b32", "s_mov_b64", "s_cselect_b32"}
SayMove(op, a, b, scc) ==
  IF op = "s_cselect_b32" THEN (IF scc = 1 THEN a ELSE b) ELSE a

Said ==
  SayCompares \cup SayCmpKs \cup SayBitTests \cup SayArith \cup SayLogic \cup SayShifts \cup
  SaySaveExecs \cup SayMoves \cup {"s_bfe_u32", "s_bfe_i32", "s_bfm_b32", "s_addk_i32", "s_movk_i32"}

\* eval_scalar.  The first printed operand of a compare or a bit test is a
\* source and the value it would write is dropped; s_addk_i32 reads its
\* destination; the packed literal is unpacked as the emulator unpacks it.
Says(i, st) ==
  LET a == Read(st, i.a)
      b == Read(st, i.b)
  IN  CASE i.op \in SayCompares -> Scc(SayCompare(i.op, a, b))
        [] i.op \in SayCmpKs -> Scc(SayCmpK(i.op, a, b))
        [] i.op \in SayBitTests -> Scc(SayBitTest(i.op, a, b))
        [] i.op \in SayArith -> SayArithmetic(i.op, a, b, st.scc)
        [] i.op = "s_addk_i32" -> SayAddK(Read(st, i.d), a)
        [] i.op = "s_movk_i32" -> SayMovK(a)
        [] i.op \in SayLogic -> Value(SayLogicValue(i.op, a, b))
        [] i.op \in SayShifts -> Value(SayShift(i.op, a, b))
        [] i.op \in {"s_bfe_u32", "s_bfe_i32"} ->
             Value(SayField(i.op, a, FieldOffset(b), FieldWidth(b)))
        [] i.op = "s_bfm_b32" -> Value(SayMaskBits(a, b))
        [] i.op \in SaySaveExecs -> SaySaveExec(i.op, st.exec, a)
        [] i.op \in SayMoves -> Value(SayMove(i.op, a, b, st.scc))

\* The state with what an instruction answers written to it.
Written(i, st, r) ==
  LET f == DOMAIN r
      v == IF "value" \in f THEN SetPair(st, i.d, r.value) ELSE st
  IN  [v EXCEPT !.scc = IF "scc" \in f THEN r.scc ELSE @,
                !.exec = IF "exec" \in f THEN r.exec ELSE @]

Oracle(i, st) == Written(i, st, Says(i, st))

-----------------------------------------------------------------------------
(* The frozen emulator: the handlers of Core, with s_andn2_saveexec_b32    *)
(* inverting the operand s_and_not1_saveexec_b32 inverts.                  *)

FrozenOps == CoreOps
FrozenExec(op, exec, x) ==
  IF op = "s_andn2_saveexec_b32" THEN And(exec, Not(x)) ELSE NewExec(op, exec, x)

FrozenMain(i, st) ==
  IF i.op \in SaveExecs
    THEN SaveExec(st, i.d, FrozenExec(i.op, st.exec, Get(st, i.a)))
    ELSE CoreMain(i, st)

FrozenMore(i, st) == CoreMore(i, st)

Frozen(i, st) ==
  CASE i.op = "s_mov_b64" -> MoveWide(i, st)
    [] i.op \in {"s_bfe_u32", "s_bfe_i32", "s_cmp_ge_i32", "s_min_i32", "s_sext_i32_i8",
                 "s_sext_i32_i16", "s_movk_i32"} -> FrozenMore(i, st)
    [] OTHER -> FrozenMain(i, st)
=============================================================================
