---------------------------- MODULE MCScalarWave ----------------------------
(***************************************************************************)
(* Words of four bits and one pair of SGPRs; every operation the emulator  *)
(* has, on registers and on literals of either sign.                       *)
(***************************************************************************)
EXTENDS ScalarWave

Ops2 ==
  CoreCompares \cup CoreLogic \cup CoreShifts \cup
  {"s_cmp_ge_i32", "s_cmp_lt_i32", "s_cmp_gt_u32", "s_add_i32", "s_sub_i32", "s_mul_i32",
   "s_mul_hi_u32", "s_mul_hi_i32", "s_add_u32", "s_addc_u32", "s_cselect_b32", "s_min_i32",
   "s_max_i32", "s_or_not1_b32", "s_nor_b32", "s_orn2_b32"}
Ops1 ==
  {"s_mov_b32", "s_abs_i32", "s_sext_i32_i8", "s_sext_i32_i16", "s_not_b32", "s_bcnt1_i32_b32"}

Binary == {I(op, S(0), S(0), S(1)) : op \in Ops2} \cup {I(op, S(1), S(0), K(-1)) : op \in Ops2} \cup
          {I(op, S(0), K(3), S(1)) : op \in Ops2}
Unary == {I(op, S(1), S(0), Null) : op \in Ops1} \cup
         {I("s_mov_b32", S(0), K(-1), Null), I("s_mov_b32", ExecReg, S(0), Null),
          I("s_mov_b32", [t |-> "scc", n |-> 0], S(1), Null)}
Saves == {I(op, S(0), o, Null) : op \in SaveExecs, o \in {S(0), S(1), K(-2)}}
Wide == {I("s_lshl_b64", P(0), P(0), K(n)) : n \in {1, W + 1, 2 * W - 1}} \cup
        {I("s_lshl_b64", P(0), P(0), S(1)), I("s_mov_b64", P(0), K(-1), Null),
         I("s_mov_b64", P(0), K(5), Null), I("s_cmp_eq_u64", Null, P(0), P(0)),
         I("s_cmp_eq_u64", Null, P(0), K(-1)), I("s_cmp_lg_u64", Null, P(0), K(-1)),
         I("s_cmp_lg_u64", Null, P(0), P(0))}
\* A pair or a field read off a literal.
OffLiterals == {I("s_lshl_b64", P(0), K(n), K(3)) : n \in {-1, 5}} \cup
               {I(op, S(1), K(n), Field(1, w)) : op \in {"s_bfe_u32", "s_bfe_i32"}, n \in {-7, 5}, w \in {2, 3, 5}}
PackedFields == {I(op, S(1), S(0), Field(off, w)) : op \in {"s_bfe_u32", "s_bfe_i32"},
                                                    off \in {0, 1, 3}, w \in {0, 1, 2, 3, 5}}
FourFields == {[I(op, S(0), S(0), K(off)) EXCEPT !.c = K(w)] : op \in {"s_bfe_u32", "s_bfe_i32"},
                                                               off \in {0, 1, 3}, w \in {0, 1, 2, 3}}
Immediate == {I(op, Null, S(0), K(k)) : op \in CmpKs, k \in {-2, -1, 1, 3}} \cup
             {I(op, S(1), K(k), Null) : op \in {"s_movk_i32", "s_addk_i32", "s_mulk_i32"}, k \in {-2, -1, 1, 3}}
BitTests == {I(op, Null, S(1), K(n)) : op \in {"s_bitcmp0_b32", "s_bitcmp1_b32"}, n \in {0, W - 1}}
GetPcs == {I("s_getpc_b64", P(0), K(a), Null) : a \in {0, 9 * M - 1}}

MCSites ==
  {I("s_add_u32", S(0), S(0), K(k)) : k \in {3, Top, -2}} \cup
  {I("s_addc_u32", S(1), S(1), K(k)) : k \in {3, Top}} \cup
  {I("s_add_u32", S(1), S(1), K(3)), I("s_add_u32", S(0), S(1), K(3)), I("s_addc_u32", S(0), S(0), K(3)),
   I("s_addc_u32", S(1), S(0), K(3)), I("s_nop", Null, Null, Null), I("s_cmp_eq_u32", Null, S(0), S(0))}

MCInstrs ==
  Binary \cup Unary \cup Saves \cup Wide \cup OffLiterals \cup PackedFields \cup FourFields \cup Immediate \cup BitTests \cup
  GetPcs \cup MCSites

\* One form of each operation; EXEC is written with literals only.
MCKernel ==
  {I(op, S(0), S(0), S(1)) : op \in Ops2} \cup {I(op, S(1), S(0), Null) : op \in Ops1} \cup
  {I(op, S(0), K(-2), Null) : op \in SaveExecs} \cup Wide \cup BitTests \cup GetPcs \cup
  {I(op, S(1), S(0), Field(1, 2)) : op \in {"s_bfe_u32", "s_bfe_i32"}} \cup
  {[I(op, S(0), S(0), K(1)) EXCEPT !.c = K(2)] : op \in {"s_bfe_u32", "s_bfe_i32"}} \cup
  {I(op, Null, S(0), K(-1)) : op \in CmpKs} \cup
  {I(op, S(1), K(-2), Null) : op \in {"s_movk_i32", "s_addk_i32", "s_mulk_i32"}}

Four(op, off, w) == FourForm(op, S(1), S(0), off, w)

MCLaws ==
  {Law(I("s_andn2_b32", S(1), S(0), S(1)),
       <<I("s_not_b32", S(1), S(1), Null), I("s_and_b32", S(1), S(0), S(1))>>),
   Law(I("s_orn2_b32", S(1), S(0), S(1)),
       <<I("s_not_b32", S(1), S(1), Null), I("s_or_b32", S(1), S(0), S(1))>>),
   Law(I("s_orn2_b32", S(1), S(0), S(1)), <<I("s_or_not1_b32", S(1), S(0), S(1))>>),
   Law(I("s_nor_b32", S(1), S(0), S(1)),
       <<I("s_or_b32", S(1), S(0), S(1)), I("s_not_b32", S(1), S(1), Null)>>),
   Law(I("s_sub_i32", S(1), S(0), S(1)),
       <<I("s_not_b32", S(1), S(1), Null), I("s_addk_i32", S(1), K(1), Null),
         I("s_add_i32", S(1), S(0), S(1))>>),
   \* the low word of a shifted pair is the shifted low word, and doubling a
   \* pair adds it to itself with the carry
   Law(I("s_lshl_b64", P(0), P(0), K(1)),
       <<I("s_add_u32", S(0), S(0), S(0)), I("s_addc_u32", S(1), S(1), S(1))>>),
   Law(I("s_lshl_b64", P(0), P(0), K(W)),
       <<I("s_mov_b32", S(1), S(0), Null), I("s_mov_b32", S(0), K(0), Null)>>),
   \* bit fields, sign extension and shifts
   Law(I("s_sext_i32_i8", S(1), S(0), Null), <<I("s_bfe_i32", S(1), S(0), Field(0, ByteBits))>>),
   Law(I("s_sext_i32_i16", S(1), S(0), Null), <<Four("s_bfe_i32", 0, HalfBits)>>),
   \* a minimum, a maximum and an absolute value by compare and select
   Law(I("s_min_i32", S(1), S(0), S(1)),
       <<I("s_cmp_lt_i32", Null, S(0), S(1)), I("s_cselect_b32", S(1), S(0), S(1))>>),
   Law(I("s_max_i32", S(1), S(0), S(1)),
       <<I("s_cmp_gt_i32", Null, S(0), S(1)), I("s_cselect_b32", S(1), S(0), S(1))>>),
   Law(I("s_abs_i32", S(1), S(0), Null),
       <<I("s_sub_i32", S(1), K(0), S(0)), I("s_max_i32", S(1), S(0), S(1))>>)} \cup
  {Law(I("s_bfe_u32", S(1), S(0), Field(off, w)),
       <<I("s_lshl_b32", S(1), S(0), K(W - off - w)), I("s_lshr_b32", S(1), S(1), K(W - w))>>)
     : off \in {0, 1}, w \in {1, 2, 3}} \cup
  {Law(I("s_bfe_i32", S(1), S(0), Field(off, w)),
       <<I("s_lshl_b32", S(1), S(0), K(W - off - w)), I("s_ashr_i32", S(1), S(1), K(W - w))>>)
     : off \in {0, 1}, w \in {1, 2}} \cup
  {Law(Four(op, off, w), <<I(op, S(1), S(0), Field(off, w))>>)
     : op \in {"s_bfe_u32", "s_bfe_i32"}, off \in {0, 1}, w \in {1, 2, 3}}
=============================================================================
