---------------------------- MODULE MCVectorWave ----------------------------
(***************************************************************************)
(* Words of eight bits, so that a quarter of one is a small word too; two  *)
(* lanes, and every integer operation the emulator has.                    *)
(***************************************************************************)
EXTENDS VectorWave

MCSamples == {0, 1, 7, 90, 127, 128, 200, 255}
MCVMasks == {1, 2, 3}

Hex(n) == [t |-> "hex", n |-> n]
V2 == VReg(2)
V3 == VReg(3)
V4 == VReg(4)
V5 == VReg(5)
B2(op, a, b) == V(op, V2, Null, a, b, Null)
B3(op, a, b, c) == V(op, V2, Null, a, b, c)

Rels == {"eq", "ne", "lt", "le", "gt", "ge"}
Types == {"i32", "u32", "i16", "u16", "i8"}
Compares == {Cmp("v_cmp", r, t, VCC, VA, VB) : r \in Rels, t \in Types}
CompareXs == {Cmp("v_cmpx", r, t, ExecReg, VA, VB) : r \in Rels, t \in Types}

MCRepaired ==
  {B2(op, VA, VB) : op \in FrozenBins} \cup {B2(op, VB, S(0)) : op \in FrozenBins} \cup
  {B3(op, VA, VB, K(3)) : op \in FrozenTris} \cup {B3(op, VB, K(2), VA) : op \in FrozenTris} \cup
  {i \in Compares \cup CompareXs : <<i.rel, i.type>> \in FrozenCompares} \cup
  {V("v_add_co_u32", V2, VCC, VA, VB, Null), V("v_add_co_ci_u32", V2, VCC, VA, VB, VCC),
   V("v_cndmask_b32", V2, Null, VA, VB, VCC), V("v_readfirstlane_b32", S(1), Null, VA, Null, Null)}

\* One of a kind: lanes go off and on, masks come and go.
MCKernel ==
  {Cmp("v_cmpx", "lt", "u32", ExecReg, VA, VB), Cmp("v_cmp", "gt", "i16", VCC, VA, VB),
   Cmp("v_cmp", "ge", "i8", S(1), VA, VB),
   I("s_mov_b32", ExecReg, K(3), Null),
   V("v_add_co_u32", VA, VCC, VA, VB, Null), V("v_add_co_u32", VB, S(0), VA, K(-1), Null),
   V("v_add_co_ci_u32", VA, Null, VA, VB, S(0)), V("v_add_co_ci_u32", VA, VCC, VA, VA, Null),
   V("v_subrev_co_ci_u32", VB, P(0), VA, VB, VCC), V("v_subrev_co_ci_u32", VA, Null, VA, VB, S(0)),
   V("v_mad_u64_u32", VPair(0), VCC, VA, VB, VPair(0)), V("v_mad_i64_i32", VPair(0), Null, VA, S(0), K(-3)),
   V("v_cndmask_b32", VA, Null, VA, VB, ExecReg), V("v_cndmask_b32", VA, Null, VA, VB, S(1)),
   V("v_perm_b32", VA, Null, VA, VB, Hex(27)), V("v_alignbit_b32", VA, Null, VA, VB, K(3)),
   V("v_ffbh_u32", VA, Null, VB, Null, Null), V("v_mov_b32", VB, Null, [t |-> "negv", n |-> 0], Null, Null),
   V("v_mul_i32_i24", VA, Null, VA, VB, Null), V("v_mad_i32_i24", VA, Null, VA, VB, VA),
   V("v_xad_u32", VA, Null, VA, VB, VA), V("v_add_lshl_u32", VA, Null, VA, VB, K(1)),
   V("v_lshlrev_b64", VPair(0), Null, K(9), VPair(0), Null), V("v_lshrrev_b64", VPair(0), Null, VA, VPair(0), Null),
   V("v_mbcnt_lo_u32_b32", VB, Null, K(-1), K(0), Null),
   V("v_readfirstlane_b32", S(1), Null, VB, Null, Null), V("v_readlane_b32", S(0), Null, VB, K(1), Null),
   V("v_writelane_b32", VB, Null, S(1), K(0), Null)}

\* Three operands at a time.
Fused ==
  {Law(B3("v_lshl_or_b32", VA, K(3), VB), <<B2("v_lshlrev_b32", K(3), VA), B2("v_or_b32", V2, VB)>>),
   Law(B3("v_lshl_or_b32", VA, VB, K(5)), <<B2("v_lshlrev_b32", VB, VA), B2("v_or_b32", V2, K(5))>>),
   Law(B3("v_lshl_add_u32", VA, K(3), K(56)), <<B2("v_lshlrev_b32", K(3), VA), B2("v_add_nc_u32", V2, K(56))>>),
   Law(B3("v_add3_u32", VA, VB, K(-7)), <<B2("v_add_nc_u32", VA, VB), B2("v_add_nc_u32", V2, K(-7))>>),
   Law(B3("v_and_or_b32", VA, VB, S(0)), <<B2("v_and_b32", VA, VB), B2("v_or_b32", V2, S(0))>>),
   Law(B3("v_or3_b32", VA, VB, S(0)), <<B2("v_or_b32", VA, VB), B2("v_or_b32", V2, S(0))>>),
   Law(B3("v_xor3_b32", VA, VB, S(0)), <<B2("v_xor_b32", VA, VB), B2("v_xor_b32", V2, S(0))>>),
   Law(B3("v_mad_u32_u24", VA, VB, S(0)), <<B2("v_mul_u32_u24", VA, VB), B2("v_add_nc_u32", V2, S(0))>>),
   Law(B3("v_mad_i32_i24", VA, VB, S(0)), <<B2("v_mul_i32_i24", VA, VB), B2("v_add_nc_u32", V2, S(0))>>),
   Law(B3("v_bfi_b32", VA, VB, S(0)),
       <<B2("v_xor_b32", VB, S(0)), B2("v_and_b32", V2, VA), B2("v_xor_b32", V2, S(0))>>)}

\* One operand, part of one, or two by another way.
Parts ==
  {Law(B2("v_sub_nc_u32", VA, VB),
       <<B2("v_not_b32", VB, Null), B2("v_add_nc_u32", V2, VA), B2("v_add_nc_u32", V2, K(1))>>),
   Law(B2("v_subrev_nc_u32", VA, VB), <<B2("v_sub_nc_u32", VB, VA)>>),
   Law(B2("v_sub_nc_u32", K(0), VA), <<B2("v_mov_b32", [t |-> "negv", n |-> 0], Null)>>),
   Law(B2("v_min_i32", VA, VB),
       <<Cmp("v_cmp", "lt", "i32", VCC, VA, VB), B3("v_cndmask_b32", VB, VA, VCC)>>),
   Law(B2("v_max_i32", VA, VB),
       <<Cmp("v_cmp", "gt", "i32", VCC, VA, VB), B3("v_cndmask_b32", VB, VA, VCC)>>),
   Law(B2("v_min_u32", VA, VB),
       <<Cmp("v_cmp", "le", "u32", S(1), VA, VB), B3("v_cndmask_b32", VB, VA, S(1))>>),
   Law(B2("v_max_u32", VA, VB), <<B2("v_min_u32", VA, VB), B2("v_xor_b32", V2, VA), B2("v_xor_b32", V2, VB)>>),
   Law(B2("v_add_nc_u16", VA, VB), <<B2("v_add_nc_u32", VA, VB), B2("v_and_b32", V2, K(15))>>),
   Law(B2("v_sub_nc_u16", VA, VB), <<B2("v_sub_nc_u32", VA, VB), B2("v_and_b32", V2, K(15))>>),
   Law(B2("v_mul_lo_u16", VA, VB), <<B2("v_mul_lo_u32", VA, VB), B2("v_and_b32", V2, K(15))>>),
   Law(B2("v_lshlrev_b16", K(3), VA), <<B2("v_lshlrev_b32", K(3), VA), B2("v_and_b32", V2, K(15))>>),
   Law(B2("v_lshrrev_b16", K(3), VA), <<B3("v_bfe_u32", VA, K(3), K(1))>>),
   Law(B2("v_ashrrev_i16", K(1), VA), <<B3("v_bfe_i32", VA, K(1), K(3)), B2("v_and_b32", V2, K(15))>>),
   Law(B2("v_min_u16", VA, VB),
       <<V("v_and_b32", V3, Null, VA, K(15), Null), B2("v_and_b32", VB, K(15)), B2("v_min_u32", V2, V3)>>),
   Law(B2("v_pack_b32_f16", VA, VB), <<B2("v_and_b32", VB, K(15)), B3("v_lshl_or_b32", VA, K(4), V2)>>),
   Law(B2("v_mul_u32_u24", VA, VB),
       <<V("v_bfe_u32", V3, Null, VB, K(0), K(6)), B3("v_bfe_u32", VA, K(0), K(6)), B2("v_mul_lo_u32", V2, V3)>>)}

\* Fields and pairs.
Fields ==
  {Law(B3("v_bfe_u32", VA, K(off), K(w)),
       <<B2("v_lshlrev_b32", K(W - off - w), VA), B2("v_lshrrev_b32", K(W - w), V2)>>)
     : off \in {0, 2}, w \in {1, 5, 6}} \cup
  {Law(B3("v_bfe_i32", VA, K(off), K(w)),
       <<B2("v_lshlrev_b32", K(W - off - w), VA), B2("v_ashrrev_i32", K(W - w), V2)>>)
     : off \in {0, 2}, w \in {1, 5}}

Wide(op, a, b, c) == V(op, VPair(2), VCC, a, b, c)
LongLaws ==
  {Law(Wide("v_mad_u64_u32", VA, VB, K(0)),
       <<B2("v_mul_lo_u32", VA, VB), V("v_mul_hi_u32", V3, Null, VA, VB, Null)>>),
   Law(Wide("v_mad_u64_u32", VA, VB, VPair(0)),
       <<V("v_mul_lo_u32", V4, Null, VA, VB, Null), V("v_mul_hi_u32", V5, Null, VA, VB, Null),
         V("v_add_co_u32", V2, VCC, V4, VA, Null), V("v_add_co_ci_u32", V3, VCC, V5, VB, VCC)>>),
   Law(Wide("v_mad_i64_i32", VA, K(1), K(0)),
       <<B2("v_mov_b32", VA, Null), V("v_ashrrev_i32", V3, Null, K(W - 1), VA, Null)>>)} \cup
  {Law(Wide("v_lshlrev_b64", K(n), VPair(0), Null),
       <<B2("v_lshlrev_b32", K(n), VA), V("v_alignbit_b32", V3, Null, VA, VB, K(W - n))>>) : n \in {1, 5}} \cup
  {Law(Wide("v_lshrrev_b64", K(n), VPair(0), Null),
       <<B3("v_alignbit_b32", VA, VB, K(n)), V("v_lshrrev_b32", V3, Null, K(n), VB, Null)>>) : n \in {0, 5}}

MCLaws == Fused \cup Parts \cup Fields \cup LongLaws

Twin(vector, scalar) == [vector |-> vector, scalar |-> scalar, value |-> TRUE, flag |-> FALSE]
Test(vector, scalar) == [vector |-> vector, scalar |-> scalar, value |-> FALSE, flag |-> TRUE]
Two(vop, sop) == Twin(B2(vop, S(0), S(1)), I(sop, S(1), S(0), S(1)))
Rev(vop, sop) == Twin(B2(vop, S(1), S(0)), I(sop, S(1), S(0), S(1)))

MCTwins ==
  {Two("v_and_b32", "s_and_b32"), Two("v_or_b32", "s_or_b32"), Two("v_xor_b32", "s_xor_b32"),
   Two("v_not_b32", "s_not_b32"), Two("v_add_nc_u32", "s_add_i32"), Two("v_sub_nc_u32", "s_sub_i32"),
   Two("v_mul_lo_u32", "s_mul_i32"), Two("v_mul_hi_u32", "s_mul_hi_u32"),
   Two("v_min_i32", "s_min_i32"), Two("v_max_i32", "s_max_i32"), Two("v_mov_b32", "s_mov_b32"),
   Rev("v_lshlrev_b32", "s_lshl_b32"), Rev("v_lshrrev_b32", "s_lshr_b32"), Rev("v_ashrrev_i32", "s_ashr_i32"),
   Twin(Wide("v_lshlrev_b64", K(9), P(0), Null), I("s_lshl_b64", P(0), P(0), K(9)))} \cup
  {Twin(B3(vop, S(0), K(off), K(w)), [I(sop, S(1), S(0), K(off)) EXCEPT !.c = K(w)])
     : <<vop, sop>> \in {<<"v_bfe_u32", "s_bfe_u32">>, <<"v_bfe_i32", "s_bfe_i32">>}, off \in {0, 3}, w \in {0, 2, 5, 7}} \cup
  {[Twin(V("v_add_co_u32", V2, VCC, S(0), S(1), Null), I("s_add_u32", S(1), S(0), S(1))) EXCEPT !.flag = TRUE]} \cup
  {Test(Cmp("v_cmp", x[1], x[2], VCC, S(0), S(1)), I(x[3], Null, S(0), S(1)))
     : x \in {<<"gt", "i32", "s_cmp_gt_i32">>, <<"ge", "i32", "s_cmp_ge_i32">>, <<"lt", "i32", "s_cmp_lt_i32">>,
              <<"eq", "u32", "s_cmp_eq_u32">>, <<"ne", "u32", "s_cmp_lg_u32">>, <<"lt", "u32", "s_cmp_lt_u32">>,
              <<"ge", "u32", "s_cmp_ge_u32">>, <<"gt", "u32", "s_cmp_gt_u32">>}}
=============================================================================
