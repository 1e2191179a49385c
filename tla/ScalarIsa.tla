------------------------------ MODULE ScalarIsa ------------------------------
(***************************************************************************)
(* The scalar instructions as the emulator executes them: what one handler *)
(* op_s_* does to the SGPRs, SCC and EXEC.                                 *)
(*                                                                         *)
(* The handlers are spread over a tower of classes, Core, Core8, SwinCore, *)
(* E16Core and IsaMixin; a later class adds handlers and replaces some of  *)
(* an earlier one.  Each class has an operator here, and Result asks them  *)
(* in the order of the class of a wave.                                    *)
(*                                                                         *)
(* An operand is an SGPR, the pair that starts at one, EXEC, SCC, a        *)
(* literal, or the packed literal of a bit field.  A literal is an integer *)
(* of Python: "-1" is -1, no word.                                         *)
(***************************************************************************)
EXTENDS Words, Sequences

CONSTANTS
  NRegs,     \* how many SGPRs there are
  TextBase   \* where the model puts the code of the module

Reg == 0 .. NRegs - 1
State == [s : [Reg -> Word], scc : {0, 1}, exec : Word]

S(n) == [t |-> "s", n |-> n]
P(n) == [t |-> "pair", n |-> n]
K(n) == [t |-> "lit", n |-> n]
Field(off, w) == [t |-> "field", n |-> off * 2 * W + w]
Null == [t |-> "null", n |-> 0]
ExecReg == [t |-> "exec", n |-> 0]

I(op, d, a, b) == [op |-> op, d |-> d, a |-> a, b |-> b, c |-> Null]

-----------------------------------------------------------------------------
(* Operands.                                                               *)

\* sget: a register is a word, and a literal is what it says.
Get(st, o) ==
  CASE o.t = "s"    -> st.s[o.n]
    [] o.t = "exec" -> st.exec
    [] o.t = "scc"  -> st.scc
    [] o.t \in {"lit", "field"} -> o.n
    [] o.t = "null" -> 0

\* sset: the value is cut to a word, or to a bit of SCC.
Set(st, o, v) ==
  CASE o.t = "s"    -> [st EXCEPT !.s[o.n] = Mask(v)]
    [] o.t = "exec" -> [st EXCEPT !.exec = Mask(v)]
    [] o.t = "scc"  -> [st EXCEPT !.scc = v % 2]
    [] o.t = "null" -> st

\* spair: two SGPRs as one number; anything else is read by sget.
GetPair(st, o) ==
  IF o.t = "pair" THEN Pair(st.s[o.n], st.s[o.n + 1]) ELSE Get(st, o)

SetPair(st, o, v) ==
  IF o.t = "pair"
    THEN [st EXCEPT !.s[o.n] = Mask(v), !.s[o.n + 1] = Mask(Shr(v, W))]
    ELSE Set(st, o, v)

Flag(st, b) == [st EXCEPT !.scc = IF b THEN 1 ELSE 0]

-----------------------------------------------------------------------------
(* Core (emu.py).                                                          *)

CoreCompares ==
  {"s_cmp_gt_i32", "s_cmp_eq_u32", "s_cmp_ge_u32", "s_cmp_lt_u32", "s_cmp_lg_u32"}

CoreCompare(op, x, y) ==
  CASE op = "s_cmp_gt_i32" -> Signed(x) > Signed(y)
    [] op = "s_cmp_eq_u32" -> Mask(x) = Mask(y)
    [] op = "s_cmp_ge_u32" -> Mask(x) >= Mask(y)
    [] op = "s_cmp_lt_u32" -> Mask(x) < Mask(y)
    [] op = "s_cmp_lg_u32" -> Mask(x) # Mask(y)

CoreLogic == {"s_and_b32", "s_or_b32", "s_xor_b32", "s_and_not1_b32", "s_andn2_b32"}

CoreLogicValue(op, x, y) ==
  CASE op = "s_and_b32" -> And(x, y)
    [] op = "s_or_b32"  -> Or(x, y)
    [] op = "s_xor_b32" -> Xor(x, y)
    [] op \in {"s_and_not1_b32", "s_andn2_b32"} -> And(x, Not(y))

SaveExecs ==
  {"s_and_saveexec_b32", "s_andn2_saveexec_b32", "s_or_saveexec_b32", "s_xor_saveexec_b32",
   "s_and_not1_saveexec_b32"}

NewExec(op, exec, x) ==
  CASE op = "s_and_saveexec_b32"      -> And(exec, x)
    [] op = "s_andn2_saveexec_b32"    -> And(x, Not(exec))
    [] op = "s_or_saveexec_b32"       -> Or(exec, x)
    [] op = "s_xor_saveexec_b32"      -> Xor(exec, x)
    [] op = "s_and_not1_saveexec_b32" -> And(exec, Not(x))

\* _saveexec: the destination gets the old mask, and may be the source.
SaveExec(st, o, new) == [Set(st, o, st.exec) EXCEPT !.exec = new]

CoreArith ==
  {"s_add_i32", "s_sub_i32", "s_mul_i32", "s_mul_hi_u32", "s_mul_hi_i32", "s_abs_i32"}

\* Mutant: s_mul_hi_i32 multiplies unsigned.
MutCoreArithValue(op, x, y) ==
  CASE op = "s_add_i32"    -> x + y
    [] op = "s_sub_i32"    -> x - y
    [] op = "s_mul_i32"    -> Signed(x) * Signed(y)
    [] op \in {"s_mul_hi_u32", "s_mul_hi_i32"} -> Shr(x * y, W)
    [] op = "s_abs_i32"    -> IF Signed(x) < 0 THEN -Signed(x) ELSE Signed(x)

CoreArithValue(op, x, y) ==
  CASE op = "s_add_i32"    -> x + y
    [] op = "s_sub_i32"    -> x - y
    [] op = "s_mul_i32"    -> Signed(x) * Signed(y)
    [] op = "s_mul_hi_u32" -> Shr(x * y, W)
    [] op = "s_mul_hi_i32" -> Shr(Signed(x) * Signed(y), W)
    [] op = "s_abs_i32"    -> IF Signed(x) < 0 THEN -Signed(x) ELSE Signed(x)

CoreShifts == {"s_ashr_i32", "s_lshl_b32", "s_lshr_b32"}

\* The count is taken modulo the width; a logical right shift of a negative
\* literal is arithmetic, for the literal has been left as it is.
CoreShift(op, x, y) ==
  LET n == y % W
  IN  CASE op = "s_ashr_i32" -> Shr(Signed(x), n)
        [] op = "s_lshl_b32" -> Shl(x, n)
        [] op = "s_lshr_b32" -> Shr(x, n)

\* Mutant: a sum that fills the word is taken for a carry.
MutAddCarry(st, o, sum) == Flag(Set(st, o, sum), sum >= Top)

\* s_add_u32 and s_addc_u32: the carry is read off the unmasked sum.
AddCarry(st, o, sum) == Flag(Set(st, o, sum), sum > Top)

\* The four-operand forms of the bit-field instructions.
FieldU(x, off, w) == IF w = 0 THEN 0 ELSE Low(Shr(x, off), w)
FieldI(x, off, w) ==
  IF w = 0 THEN 0
  ELSE IF off + w < W THEN SignedLow(Shr(x, off), w)
  ELSE Shr(x, off)

CoreOps ==
  CoreCompares \cup {"s_cmp_ge_i32"} \cup CoreLogic \cup SaveExecs \cup CoreArith \cup CoreShifts \cup
  {"s_mov_b32", "s_cselect_b32", "s_add_u32", "s_addc_u32", "s_lshl_b64", "s_bfe_u32",
   "s_bfe_i32", "s_min_i32", "s_sext_i32_i8", "s_sext_i32_i16", "s_movk_i32", "s_mov_b64"}

\* The handlers of emu.Core between op_s_mov_b32 and the branches.
CoreMain(i, st) ==
  LET x == Get(st, i.a)
      y == Get(st, i.b)
  IN  CASE i.op \in CoreCompares -> Flag(st, CoreCompare(i.op, x, y))
        [] i.op \in CoreLogic -> Set(st, i.d, CoreLogicValue(i.op, x, y))
        [] i.op \in SaveExecs -> SaveExec(st, i.d, NewExec(i.op, st.exec, x))
        [] i.op \in CoreArith -> Set(st, i.d, CoreArithValue(i.op, x, y))
        [] i.op \in CoreShifts -> Set(st, i.d, CoreShift(i.op, x, y))
        [] i.op = "s_mov_b32" -> Set(st, i.d, x)
        [] i.op = "s_cselect_b32" -> Set(st, i.d, IF st.scc = 1 THEN x ELSE y)
        [] i.op = "s_add_u32" -> AddCarry(st, i.d, x + y)
        [] i.op = "s_addc_u32" -> AddCarry(st, i.d, x + y + st.scc)
        [] i.op = "s_lshl_b64" -> SetPair(st, i.d, Mask2(Shl(GetPair(st, i.a), y % (2 * W))))

\* Those that were added for the main region, and s_mov_b64.
CoreMore(i, st) ==
  LET x == Get(st, i.a)
      y == Get(st, i.b)
      z == Get(st, i.c)
  IN  CASE i.op = "s_bfe_u32" -> Set(st, i.d, FieldU(x, y % W, z % W))
        [] i.op = "s_bfe_i32" -> Set(st, i.d, FieldI(x, y % W, z % W))
        [] i.op = "s_cmp_ge_i32" -> Flag(st, Signed(x) >= Signed(y))
        [] i.op = "s_min_i32" -> Set(st, i.d, IF Signed(y) < Signed(x) THEN Signed(y) ELSE Signed(x))
        [] i.op = "s_sext_i32_i8" -> Set(st, i.d, SignedLow(x, ByteBits))
        [] i.op = "s_sext_i32_i16" -> Set(st, i.d, SignedLow(x, HalfBits))
        [] i.op = "s_movk_i32" -> Set(st, i.d, x)

MoveWide(i, st) == SetPair(st, i.d, Mask2(GetPair(st, i.a)))

CoreResult(i, st) ==
  CASE i.op = "s_mov_b64" -> MoveWide(i, st)
    [] i.op \in {"s_bfe_u32", "s_bfe_i32", "s_cmp_ge_i32", "s_min_i32", "s_sext_i32_i8",
                 "s_sext_i32_i16", "s_movk_i32"} -> CoreMore(i, st)
    [] OTHER -> CoreMain(i, st)

-----------------------------------------------------------------------------
(* Core8 (p14d8_core.py).                                                  *)

\* _sbfe_imm: the three-operand form packs offset and width in one literal (at
\* bits 16 and 0; side by side here), and a width of 0 stands for a whole word.
FieldOffset(imm) == (imm \div (2 * W)) % W
FieldWidth(imm) == IF imm % (2 * W) = 0 THEN W ELSE imm % (2 * W)

FieldForm(i) == i.op \in {"s_bfe_u32", "s_bfe_i32"} /\ i.b.t = "field"

\* Core8.op_s_bfe_*: the field ends where the word does.
PackedField(i, st) ==
  LET x == Get(st, i.a)
      off == FieldOffset(Get(st, i.b))
      w == IF off + FieldWidth(Get(st, i.b)) >= W THEN W - off ELSE FieldWidth(Get(st, i.b))
      r == Mask(Shr(x, off))
  IN  Set(st, i.d, IF i.op = "s_bfe_u32" THEN Low(r, w)
                   ELSE IF off + w < W THEN SignedLow(r, w) ELSE r)

CmpKs ==
  {"s_cmpk_eq_u32", "s_cmpk_lt_u32", "s_cmpk_gt_u32", "s_cmpk_le_u32", "s_cmpk_ge_u32",
   "s_cmpk_lg_u32", "s_cmpk_eq_i32", "s_cmpk_lt_i32", "s_cmpk_gt_i32"}

\* The signed forms compare with the literal itself.
CmpK(op, x, k) ==
  CASE op = "s_cmpk_eq_u32" -> Mask(x) = Mask(k)
    [] op = "s_cmpk_lt_u32" -> Mask(x) < Mask(k)
    [] op = "s_cmpk_gt_u32" -> Mask(x) > Mask(k)
    [] op = "s_cmpk_le_u32" -> Mask(x) <= Mask(k)
    [] op = "s_cmpk_ge_u32" -> Mask(x) >= Mask(k)
    [] op = "s_cmpk_lg_u32" -> Mask(x) # Mask(k)
    [] op = "s_cmpk_eq_i32" -> Signed(x) = k
    [] op = "s_cmpk_lt_i32" -> Signed(x) < k
    [] op = "s_cmpk_gt_i32" -> Signed(x) > k

Core8Ops ==
  CmpKs \cup {"s_cmp_lt_i32", "s_cmp_gt_u32", "s_cmp_eq_u64", "s_or_not1_b32", "s_not_b32"}

Core8Result(i, st) ==
  LET x == Get(st, i.a)
      y == Get(st, i.b)
  IN  CASE i.op \in CmpKs -> Flag(st, CmpK(i.op, x, i.b.n))
        [] i.op = "s_cmp_lt_i32" -> Flag(st, Signed(x) < Signed(y))
        [] i.op = "s_cmp_gt_u32" -> Flag(st, Mask(x) > Mask(y))
        [] i.op = "s_cmp_eq_u64" -> Flag(st, GetPair(st, i.a) = GetPair(st, i.b))
        [] i.op = "s_or_not1_b32" -> Set(st, i.d, Or(x, Not(y)))
        [] i.op = "s_not_b32" -> Set(st, i.d, Not(x))

-----------------------------------------------------------------------------
(* SwinCore (p14e_emu.py), E16Core (p16e_rec.py) and IsaMixin (p16i_isa.py) *)

SwinOps == {"s_addk_i32", "s_nor_b32", "s_orn2_b32", "s_getpc_b64", "s_cmp_lg_u64"}

\* Mutant: the address of the instruction itself, as Core8 has it.
MutNextPc(a) == TextBase + a

\* The address in the module of the instruction behind the one at a of the
\* listing.
NextPc(a) == TextBase + a + 4

\* s_getpc_b64 is given its own address in the listing, i.a.
SwinResult(i, st) ==
  LET x == Get(st, i.a)
      y == Get(st, i.b)
  IN  CASE i.op = "s_addk_i32" -> Set(st, i.d, Get(st, i.d) + x)
        [] i.op = "s_nor_b32" -> Set(st, i.d, Not(Or(x, y)))
        [] i.op = "s_orn2_b32" -> Set(st, i.d, Or(x, Not(y)))
        [] i.op = "s_getpc_b64" -> SetPair(st, i.d, Mask2(NextPc(x)))
        [] i.op = "s_cmp_lg_u64" ->
             Flag(st, GetPair(st, i.a) # IF i.b.t = "pair" THEN GetPair(st, i.b) ELSE Mask(y))

E16Ops == {"s_bitcmp0_b32", "s_bitcmp1_b32", "s_mulk_i32"}

\* The bit of the bit tests and the factor of s_mulk_i32 are literals.
E16Result(i, st) ==
  LET x == Get(st, i.a)
  IN  CASE i.op = "s_bitcmp0_b32" -> Flag(st, Bit(x, i.b.n) = 0)
        [] i.op = "s_bitcmp1_b32" -> Flag(st, Bit(x, i.b.n) = 1)
        [] i.op = "s_mulk_i32" -> Set(st, i.d, Get(st, i.d) * x)

IsaOps == {"s_max_i32", "s_bcnt1_i32_b32"}

\* These two set SCC as well, as no other minimum, maximum or logic
\* instruction here does.
IsaResult(i, st) ==
  LET x == Signed(Get(st, i.a))
      y == Signed(Get(st, i.b))
  IN  CASE i.op = "s_max_i32" -> Flag(Set(st, i.d, IF x > y THEN x ELSE y), x > y)
        [] i.op = "s_bcnt1_i32_b32" ->
             Flag(Set(st, i.d, Cardinality(Ones(x))), Mask(x) # 0)

-----------------------------------------------------------------------------
Emulated == CoreOps \cup Core8Ops \cup SwinOps \cup E16Ops \cup IsaOps \cup {"s_nop", "s_delay_alu"}

\* The handler the class of a wave ends up with.
Result(i, st) ==
  CASE i.op \in IsaOps -> IsaResult(i, st)
    [] i.op \in E16Ops -> E16Result(i, st)
    [] i.op \in SwinOps -> SwinResult(i, st)
    [] i.op \in Core8Ops -> Core8Result(i, st)
    [] FieldForm(i) -> PackedField(i, st)
    [] i.op \in CoreOps /\ ~FieldForm(i) -> CoreResult(i, st)
    [] OTHER -> st

\* The operands the handlers take.  A literal is as wide as a word, and half as
\* wide in the K forms; an operand that is left out is Null.
SRegs == [t : {"s"}, n : Reg]
Registers == [t : {"s"}, n : Reg] \cup {ExecReg, [t |-> "scc", n |-> 0], Null}
Pairs == [t : {"pair"}, n : 0 .. NRegs - 2]
Literals == [t : {"lit"}, n : -Sign .. Top]
HalfLiterals == [t : {"lit"}, n : -Pow2[HalfBits - 1] .. Pow2[HalfBits] - 1]
FieldLiterals == [t : {"field"}, n : Nat]

Sources == Registers \cup Literals

PairOps == {"s_mov_b64", "s_lshl_b64", "s_getpc_b64", "s_cmp_eq_u64", "s_cmp_lg_u64"}

WellFormed(i) ==
  /\ i.op \in Emulated
  /\ i.d \in CASE i.op = "s_getpc_b64" -> Pairs
              [] i.op \in PairOps \ {"s_getpc_b64"} -> Registers \cup Pairs
              [] OTHER -> Registers
  /\ i.a \in CASE i.op \in {"s_movk_i32", "s_addk_i32", "s_mulk_i32"} -> HalfLiterals
              [] i.op \in {"s_bitcmp0_b32", "s_bitcmp1_b32"} -> [t : {"s"}, n : Reg]
              [] i.op = "s_getpc_b64" -> [t : {"lit"}, n : Nat]
              [] i.op = "s_cmp_lg_u64" -> Pairs
              [] i.op \in {"s_mov_b64", "s_lshl_b64", "s_cmp_eq_u64"} -> Sources \cup Pairs
              [] OTHER -> Sources
  /\ i.b \in CASE i.op \in CmpKs -> HalfLiterals
              [] i.op \in {"s_bitcmp0_b32", "s_bitcmp1_b32"} -> [t : {"lit"}, n : 0 .. W - 1]
              [] i.op \in {"s_bfe_u32", "s_bfe_i32"} -> Sources \cup FieldLiterals
              [] i.op \in {"s_cmp_eq_u64", "s_cmp_lg_u64"} -> Sources \cup Pairs
              [] OTHER -> Sources
  /\ i.c \in Sources

\* Several instructions, one after the other; and one that does the same.
Run(code, st) ==
  LET after[n \in 0 .. Len(code)] == IF n = 0 THEN st ELSE Result(code[n], after[n - 1])
  IN  after[Len(code)]

Law(one, many) == [one |-> one, many |-> many]
=============================================================================
