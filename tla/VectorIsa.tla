------------------------------ MODULE VectorIsa ------------------------------
(***************************************************************************)
(* The vector integer instructions as the emulator executes them: what one *)
(* handler op_v_* does to the VGPRs of every lane, to VCC, to the SGPRs    *)
(* and to EXEC.                                                            *)
(*                                                                         *)
(* A wave adds to the state of ScalarIsa the VGPRs and VCC.  A handler     *)
(* loops over the lanes and skips those whose bit of EXEC is 0; what it    *)
(* writes for a lane is read from that lane and from what all lanes share, *)
(* so the loop is one step here.                                           *)
(***************************************************************************)
EXTENDS ScalarIsa

CONSTANTS
  NLanes,   \* self.lanes
  NVgprs    \* the VGPRs of a lane

Lane == 0 .. NLanes - 1
Vgpr == 0 .. NVgprs - 1

ASSUME LanesAssumption == NLanes \in 1 .. W /\ NVgprs \in Nat

VState == [s : [Reg -> Word], scc : {0, 1}, exec : Word, vcc : Word, v : [Lane -> [Vgpr -> Word]]]

VReg(n) == [t |-> "v", n |-> n]
VPair(n) == [t |-> "vpair", n |-> n]
VCC == [t |-> "vcc", n |-> 0]

\* out is the mask a carry goes to, c a third source or the mask it comes from.
V(op, d, out, a, b, c) == [op |-> op, d |-> d, out |-> out, a |-> a, b |-> b, c |-> c]

Active(st) == {l \in Lane : Bit(st.exec, l) = 1}

\* vget: registers and hexadecimal literals are words, a mask is read for the
\* lane, and a decimal literal is what it says.
VGet(st, l, o) ==
  CASE o.t = "v"    -> st.v[l][o.n]
    [] o.t = "negv" -> Mask(-st.v[l][o.n])
    [] o.t = "vcc"  -> Bit(st.vcc, l)
    [] o.t = "exec" -> Bit(st.exec, l)
    [] o.t = "s"    -> st.s[o.n]
    [] o.t = "hex"  -> Mask(o.n)
    [] o.t = "lit"  -> o.n
    [] o.t = "null" -> 0

\* _src64 and _vreg_tokens: a pair is one number, anything else what vget reads.
VGetPair(st, l, o) ==
  CASE o.t = "vpair" -> Pair(st.v[l][o.n], st.v[l][o.n + 1])
    [] o.t = "pair"  -> GetPair(st, o)
    [] OTHER         -> VGet(st, l, o)

\* vset and _vdst_pair, for the lanes of f.
VSet(st, o, f) ==
  [st EXCEPT !.v = [l \in Lane |->
    IF l \notin DOMAIN f THEN st.v[l]
    ELSE IF o.t = "vpair"
      THEN [st.v[l] EXCEPT ![o.n] = Mask(f[l]), ![o.n + 1] = Mask(Shr(f[l], W))]
    ELSE [st.v[l] EXCEPT ![o.n] = Mask(f[l])]]]

\* Some of the bits of a mask, by lane.
MergeMask(old, lanes, on) == OfOnes((Ones(old) \ lanes) \cup (on \cap lanes))

SetMask(st, o, m) ==
  CASE o.t = "vcc"  -> [st EXCEPT !.vcc = m]
    [] o.t = "exec" -> [st EXCEPT !.exec = m]
    [] o.t = "s"    -> [st EXCEPT !.s[o.n] = m]
    [] OTHER        -> st

Half(x) == Low(x, HalfBits)

-----------------------------------------------------------------------------
(* Core (emu.py).                                                          *)

Bitwise2(op, a, b) ==
  CASE op = "v_and_b32" -> And(a, b)
    [] op = "v_or_b32"  -> Or(a, b)
    [] op = "v_xor_b32" -> Xor(a, b)

\* The reversed shifts shift the second operand; the 16-bit ones count modulo 16.
CoreShiftRev(op, a, b) ==
  CASE op = "v_lshlrev_b32" -> Shl(b, a % W)
    [] op = "v_lshrrev_b32" -> Shr(b, a % W)
    [] op = "v_ashrrev_i32" -> Shr(Signed(b), a % W)
    [] op = "v_lshrrev_b16" -> Shr(Half(b), a % HalfBits)
    [] op = "v_ashrrev_i16" -> Half(Shr(SignedLow(b, HalfBits), a % HalfBits))

CoreBin(op, a, b) ==
  CASE op \in {"v_and_b32", "v_or_b32", "v_xor_b32"} -> Bitwise2(op, a, b)
    [] op \in {"v_lshlrev_b32", "v_lshrrev_b32", "v_ashrrev_i32", "v_lshrrev_b16",
               "v_ashrrev_i16"} -> CoreShiftRev(op, a, b)
    [] op = "v_add_nc_u32" -> a + b
    [] op = "v_sub_nc_u32" -> a - b
    [] op = "v_subrev_nc_u32" -> b - a
    [] op = "v_add_nc_u16" -> Half(Half(a) + Half(b))
    [] op = "v_sub_nc_u16" -> Half(Half(a) - Half(b))
    [] op = "v_min_i32" -> Smaller(Signed(a), Signed(b))
    [] op = "v_max_i32" -> Larger(Signed(a), Signed(b))
    [] op = "v_min_u32" -> Smaller(Mask(a), Mask(b))
    [] op = "v_max_u32" -> Larger(Mask(a), Mask(b))
    [] op = "v_mov_b32" -> a

CoreBins ==
  {"v_and_b32", "v_or_b32", "v_xor_b32", "v_lshlrev_b32", "v_lshrrev_b32", "v_ashrrev_i32",
   "v_lshrrev_b16", "v_ashrrev_i16", "v_add_nc_u32", "v_sub_nc_u32", "v_subrev_nc_u32",
   "v_add_nc_u16", "v_sub_nc_u16", "v_min_i32", "v_max_i32", "v_min_u32", "v_max_u32", "v_mov_b32"}

CoreTri(op, a, b, c) ==
  CASE op = "v_lshl_or_b32"  -> Or(Shl(a, b % W), c)
    [] op = "v_lshl_add_u32" -> Shl(a, b % W) + c
    [] op = "v_add3_u32"     -> a + b + c
    [] op = "v_and_or_b32"   -> Or(And(a, b), c)
    [] op = "v_or3_b32"      -> Or(Or(a, b), c)
    [] op = "v_bfi_b32"      -> Or(And(a, b), And(Not(a), c))
    [] op = "v_bfe_u32"      -> Low(Shr(a, b % W), c % W)
    [] op = "v_bfe_i32"      -> FieldI(a, b % W, c % W)

CoreTris ==
  {"v_lshl_or_b32", "v_lshl_add_u32", "v_add3_u32", "v_and_or_b32", "v_or3_b32", "v_bfi_b32",
   "v_bfe_u32", "v_bfe_i32"}

\* v_perm_b32: a byte of the result by its selector.  Bytes 0 to 3 are those of
\* src0 and 4 to 7 those of src1; then come constants, and signs.
PermByte(a, b, sel) ==
  LET ones == Pow2[ByteBits] - 1
      top == Pow2[ByteBits - 1]
  IN  CASE sel < 4  -> Low(Shr(a, ByteBits * sel), ByteBits)
        [] sel \in 4 .. 7 -> Low(Shr(b, ByteBits * (sel - 4)), ByteBits)
        [] sel = 8  -> 0
        [] sel = 9  -> ones
        [] sel = 10 -> top
        [] sel = 11 -> ones - top
        [] sel = 12 -> ones * Bit(a, W - 1)
        [] sel = 13 -> ones * Bit(a, HalfBits - 1)
        [] sel = 14 -> ones * Bit(b, W - 1)
        [] sel > 14 -> ones * Bit(b, HalfBits - 1)

Perm(a, b, sel) ==
  LET byte(k) == Shl(PermByte(a, b, Low(Shr(sel, ByteBits * k), ByteBits)), ByteBits * k)
  IN  byte(0) + byte(1) + byte(2) + byte(3)

\* Mutant: the bits of lanes that are off stay what they were.
MutAddCo(i, st) ==
  LET sum(l) == Mask(VGet(st, l, i.a)) + Mask(VGet(st, l, i.b))
      carries == {l \in Active(st) : sum(l) > Top}
  IN  SetMask(VSet(st, i.d, [l \in Active(st) |-> sum(l)]), i.out, OfOnes(carries \cup (Ones(st.vcc) \ Active(st))))

\* v_add_co_u32 writes its mask as a whole, when the loop is done: the bits of
\* lanes that are off become 0.
AddCo(i, st) ==
  LET sum(l) == Mask(VGet(st, l, i.a)) + Mask(VGet(st, l, i.b))
      carries == {l \in Active(st) : sum(l) > Top}
  IN  SetMask(VSet(st, i.d, [l \in Active(st) |-> sum(l)]), i.out, OfOnes(carries))

\* The carry into a lane: a bit of VCC or of an SGPR, and 0 of anything else.
CarryIn(st, l, o) ==
  CASE o.t = "vcc" -> Bit(st.vcc, l) [] o.t = "s" -> Bit(st.s[o.n], l) [] OTHER -> 0

\* Mutant: the carry out is that of the two words alone.
MutAddCoCi(i, st) ==
  LET sum(l) == Mask(VGet(st, l, i.a)) + Mask(VGet(st, l, i.b))
      after == VSet(st, i.d, [l \in Active(st) |-> sum(l) + CarryIn(st, l, i.c)])
  IN  IF i.out.t = "vcc"
        THEN [after EXCEPT !.vcc = MergeMask(st.vcc, Active(st), {l \in Active(st) : sum(l) > Top})]
        ELSE after

\* v_add_co_ci_u32 writes VCC lane by lane, and no other mask.
AddCoCi(i, st) ==
  LET sum(l) == Mask(VGet(st, l, i.a)) + Mask(VGet(st, l, i.b)) + CarryIn(st, l, i.c)
      after == VSet(st, i.d, [l \in Active(st) |-> sum(l)])
  IN  IF i.out.t = "vcc"
        THEN [after EXCEPT !.vcc = MergeMask(st.vcc, Active(st), {l \in Active(st) : sum(l) > Top})]
        ELSE after

\* v_cndmask_b32: the second source where the bit is 1.
CndMask(i, st) ==
  LET bit(l) == IF i.c.t \in {"vcc", "s"} THEN CarryIn(st, l, i.c) ELSE VGet(st, l, i.c)
  IN  VSet(st, i.d, [l \in Active(st) |-> IF bit(l) # 0 THEN VGet(st, l, i.b) ELSE VGet(st, l, i.a)])

\* v_readfirstlane_b32 reads lane 0, whether it is on or not.
ReadFirst(i, st) == Set(st, i.d, st.v[0][i.a.n])

\* _int_cmp_cond.
Asks(rel, type, a, b) ==
  LET n == CASE type \in {"i32", "u32"} -> W [] type \in {"i16", "u16"} -> HalfBits [] type = "i8" -> ByteBits
      signed == type \in {"i32", "i16", "i8"}
      x == IF signed THEN SignedLow(a, n) ELSE Low(a, n)
      y == IF signed THEN SignedLow(b, n) ELSE Low(b, n)
  IN  CASE rel = "eq" -> x = y [] rel = "ne" -> x # y [] rel = "lt" -> x < y
        [] rel = "le" -> x <= y [] rel = "gt" -> x > y [] rel = "ge" -> x >= y

\* A compare is v_cmp_<rel>_<type> or v_cmpx_<rel>_<type>.
Cmp(op, rel, type, d, a, b) == [op |-> op, rel |-> rel, type |-> type, d |-> d, a |-> a, b |-> b]

\* _vcmp and _vcmpx write their mask whole, with 0 for the lanes that are off;
\* v_cmpx has no other destination than EXEC.
VCompare(i, st) ==
  LET yes == {l \in Active(st) : Asks(i.rel, i.type, VGet(st, l, i.a), VGet(st, l, i.b))}
  IN  SetMask(st, IF i.op = "v_cmpx" THEN [t |-> "exec", n |-> 0] ELSE i.d, OfOnes(yes))

-----------------------------------------------------------------------------
(* Core8 (p14d8_core.py), SwinCore (p14e_emu.py), E16Core (p16e_rec.py)    *)
(* and IsaMixin (p16i_isa.py).                                             *)

WordBits24 == 3 * ByteBits

Core8Bin(op, a, b) ==
  CASE op = "v_mul_u32_u24" -> Low(a, WordBits24) * Low(b, WordBits24)
    [] op = "v_mul_lo_u16"  -> Half(Half(a) * Half(b))
    [] op = "v_mul_hi_u32"  -> Shr(Mask(a) * Mask(b), W)
    [] op = "v_mul_lo_u32"  -> a * b
    [] op = "v_min_u16"     -> Smaller(Half(a), Half(b))
    [] op = "v_lshlrev_b16" -> Half(Shl(Half(b), a % HalfBits))
    [] op = "v_pack_b32_f16" -> Shl(Half(a), HalfBits) + Half(b)

Core8Bins ==
  {"v_mul_u32_u24", "v_mul_lo_u16", "v_mul_hi_u32", "v_mul_lo_u32", "v_min_u16", "v_lshlrev_b16",
   "v_pack_b32_f16"}

\* v_xad_u32 leaves its first source out, and v_add_lshl_u32 shifts the second
\* source alone.
Core8Tri(op, a, b, c) ==
  CASE op = "v_mad_u32_u24" -> Low(a, WordBits24) * Low(b, WordBits24) + c
    [] op = "v_mad_u32_u16" -> Half(a) * Half(b) + c
    [] op = "v_xor3_b32"    -> Xor(Xor(a, b), c)
    [] op = "v_xad_u32"     -> Xor(b, c)
    [] op = "v_add_lshl_u32" -> a + Shl(b, c % W)

Core8Tris == {"v_mad_u32_u24", "v_mad_u32_u16", "v_xor3_b32", "v_xad_u32", "v_add_lshl_u32"}

\* _mbcnt: the bits of the mask below the lane.  The second source, a count to
\* add to, is not read.
MbCnt(i, st) ==
  VSet(st, i.d, [l \in Active(st) |-> Cardinality(Ones(Low(Mask(VGet(st, l, i.a)), l)))])

\* v_mad_u64_u32 and v_mad_i64_i32: no carry is ever reported.
WideMad(i, st) ==
  LET factor(l, o) == IF i.op = "v_mad_i64_i32" THEN Signed(VGet(st, l, o)) ELSE Mask(VGet(st, l, o))
      sum(l) == Mask2(factor(l, i.a) * factor(l, i.b) + VGetPair(st, l, i.c))
      after == VSet(st, i.d, [l \in Active(st) |-> sum(l)])
  IN  IF i.out.t = "vcc" /\ Active(st) # {} THEN [after EXCEPT !.vcc = 0] ELSE after

\* v_alignbit_b32: the two sources as one number, the first below.
AlignBit(a, b, c) == Mask(Shr(Pair(Mask(a), Mask(b)), c % W))

\* v_ffbh_u32 gives the place of the highest bit, counted from below.
HighestBit(a) == IF Mask(a) = 0 THEN Top ELSE CHOOSE n \in Ones(a) : \A k \in Ones(a) : k <= n

Signed24(x) == SignedLow(x, WordBits24)

\* v_subrev_co_ci_u32: the borrow out goes to VCC or a pair of SGPRs lane by
\* lane, and nowhere for a single SGPR; of an SGPR every lane reads bit 0.
SubRevCoCi(i, st) ==
  LET diff(l) == Mask(VGet(st, l, i.b)) - Mask(VGet(st, l, i.a)) - (VGet(st, l, i.c) % 2)
      borrows == {l \in Active(st) : diff(l) < 0}
      after == VSet(st, i.d, [l \in Active(st) |-> diff(l)])
  IN  CASE i.out.t = "vcc"  -> [after EXCEPT !.vcc = MergeMask(@, Active(st), borrows)]
        [] i.out.t = "pair" -> [after EXCEPT !.s[i.out.n] = MergeMask(@, Active(st), borrows)]
        [] OTHER            -> after

\* The 64-bit shifts.  E16Core's left shift takes literals alone, and one as
\* wide as a pair clears it; IsaMixin's right shift counts modulo 64.
ShiftWide(i, st) ==
  LET left(l) == IF i.a.n >= 2 * W THEN 0 ELSE Mask2(Shl(VGetPair(st, l, i.b), i.a.n))
      right(l) == Shr(Mask2(VGetPair(st, l, i.b)), VGet(st, l, i.a) % (2 * W))
  IN  VSet(st, i.d, [l \in Active(st) |-> IF i.op = "v_lshlrev_b64" THEN left(l) ELSE right(l)])

\* v_readlane_b32 and v_writelane_b32 go by the lane they are given, and not by
\* EXEC; its number may be in an SGPR, or in a VGPR of lane 0.
LaneNo(i, st) == VGet(st, 0, i.b) % W
ReadLane(i, st) == Set(st, i.d, VGet(st, LaneNo(i, st), i.a))
WriteLane(i, st) == VSet(st, i.d, [l \in {LaneNo(i, st)} |-> VGet(st, 0, i.a)])

-----------------------------------------------------------------------------
Bins == CoreBins \cup Core8Bins \cup {"v_not_b32", "v_ffbh_u32", "v_mul_i32_i24"}
Tris == CoreTris \cup Core8Tris \cup {"v_perm_b32", "v_alignbit_b32", "v_mad_i32_i24"}

\* _vbin and _vbin3: one VGPR of every active lane from the sources of the lane.
BinValue(op, a, b) ==
  CASE op \in CoreBins -> CoreBin(op, a, b)
    [] op \in Core8Bins -> Core8Bin(op, a, b)
    [] op = "v_not_b32" -> Not(a)
    [] op = "v_ffbh_u32" -> HighestBit(a)
    [] op = "v_mul_i32_i24" -> Signed24(a) * Signed24(b)

TriValue(op, a, b, c) ==
  CASE op \in CoreTris -> CoreTri(op, a, b, c)
    [] op \in Core8Tris -> Core8Tri(op, a, b, c)
    [] op = "v_perm_b32" -> Perm(Mask(a), Mask(b), Mask(c))
    [] op = "v_alignbit_b32" -> AlignBit(a, b, c)
    [] op = "v_mad_i32_i24" -> Signed24(a) * Signed24(b) + Signed(c)

\* Mutant: the lanes that are off are not skipped.
MutBin(i, st) == VSet(st, i.d, [l \in Lane |-> BinValue(i.op, VGet(st, l, i.a), VGet(st, l, i.b))])

Bin(i, st) == VSet(st, i.d, [l \in Active(st) |-> BinValue(i.op, VGet(st, l, i.a), VGet(st, l, i.b))])
Tri(i, st) ==
  VSet(st, i.d,
       [l \in Active(st) |-> TriValue(i.op, VGet(st, l, i.a), VGet(st, l, i.b), VGet(st, l, i.c))])

\* The handler the class of a wave ends up with; scalar instructions too.
VResult(i, st) ==
  CASE i.op \in Bins -> Bin(i, st)
    [] i.op \in Tris -> Tri(i, st)
    [] i.op = "v_add_co_u32" -> AddCo(i, st)
    [] i.op = "v_add_co_ci_u32" -> AddCoCi(i, st)
    [] i.op = "v_subrev_co_ci_u32" -> SubRevCoCi(i, st)
    [] i.op = "v_cndmask_b32" -> CndMask(i, st)
    [] i.op \in {"v_cmp", "v_cmpx"} -> VCompare(i, st)
    [] i.op = "v_mbcnt_lo_u32_b32" -> MbCnt(i, st)
    [] i.op \in {"v_mad_u64_u32", "v_mad_i64_i32"} -> WideMad(i, st)
    [] i.op \in {"v_lshlrev_b64", "v_lshrrev_b64"} -> ShiftWide(i, st)
    [] i.op = "v_readfirstlane_b32" -> ReadFirst(i, st)
    [] i.op = "v_readlane_b32" -> ReadLane(i, st)
    [] i.op = "v_writelane_b32" -> WriteLane(i, st)
    [] i.op \in Emulated -> Result(i, st)

\* The operands the handlers take, beside those of ScalarIsa: a VGPR, the pair
\* that starts at one, a VGPR with a minus sign, VCC, and a literal written in
\* hexadecimal.  What a lane reads is one of Shared, or its own.
VRegs == [t : {"v"}, n : Vgpr]
VPairs == [t : {"vpair"}, n : 0 .. NVgprs - 2]
Shared == SRegs \cup Literals \cup {Null}
VSources == VRegs \cup [t : {"negv"}, n : Vgpr] \cup {VCC, ExecReg} \cup Shared \cup [t : {"hex"}, n : Word]
VMaskRegs == {VCC, ExecReg, Null} \cup SRegs

WideSources == VSources \cup VPairs \cup Pairs

LaneOps == {"v_readfirstlane_b32", "v_readlane_b32", "v_writelane_b32"}
CarryOps == {"v_add_co_u32", "v_add_co_ci_u32", "v_subrev_co_ci_u32"}
VectorOps == Bins \cup Tris \cup CarryOps \cup {"v_cndmask_b32", "v_mbcnt_lo_u32_b32"}

IsCompare(i) ==
  /\ i.op \in {"v_cmp", "v_cmpx"}
  /\ i.rel \in {"eq", "ne", "lt", "le", "gt", "ge"}
  /\ i.type \in {"i32", "u32", "i16", "u16", "i8"}
  /\ i.d \in VMaskRegs /\ {i.a, i.b} \subseteq VSources

IsVector(i) ==
  /\ i.op \in VectorOps
  /\ i.d \in VRegs /\ {i.a, i.b, i.c} \subseteq VSources
  /\ i.out \in VMaskRegs \cup IF i.op = "v_subrev_co_ci_u32" THEN Pairs ELSE {}

IsWide(i) ==
  /\ i.d \in VPairs /\ i.out \in VMaskRegs
  /\ \/ /\ i.op \in {"v_mad_u64_u32", "v_mad_i64_i32"}
        /\ {i.a, i.b} \subseteq VSources /\ i.c \in WideSources
     \/ i.op = "v_lshlrev_b64" /\ i.a \in [t : {"lit"}, n : 0 .. Top] /\ i.b \in WideSources
     \/ i.op = "v_lshrrev_b64" /\ i.a \in VSources /\ i.b \in WideSources

\* The number of a lane is a literal, or a wave has a lane for every number.
IsLaneMove(i) ==
  /\ i.op \in LaneOps
  /\ IF i.op = "v_writelane_b32" THEN i.d \in VRegs /\ i.a \in Shared ELSE i.d \in SRegs /\ i.a \in VRegs
  /\ i.b \in IF NLanes = W THEN VSources ELSE [t : {"lit"}, n : Lane] \cup {Null}

VWellFormed(i) == WellFormed(i) \/ IsCompare(i) \/ IsVector(i) \/ IsWide(i) \/ IsLaneMove(i)

VRun(code, st) ==
  LET after[n \in 0 .. Len(code)] == IF n = 0 THEN st ELSE VResult(code[n], after[n - 1])
  IN  after[Len(code)]
=============================================================================
