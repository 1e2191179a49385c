----------------------------- MODULE VectorFrozen -----------------------------
(***************************************************************************)
(* The vector instructions as the emulator had them before its repairs     *)
(* (emulator_base__emu.py, kept beside the oracle): the handlers of its    *)
(* one class, which know no other value of an operand than the register's. *)
(***************************************************************************)
EXTENDS VectorIsa

\* Shifts and lane-wise arithmetic are as they are now.
FrozenBins == CoreBins \ {"v_max_u32"}
FrozenTris == (CoreTris \ {"v_bfi_b32"}) \cup {"v_perm_b32"}

\* v_lshl_or_b32 and v_lshl_add_u32 shift the second source, and v_perm_b32
\* permutes nothing.
FrozenTri(op, a, b, c) ==
  CASE op = "v_lshl_or_b32"  -> Or(Shl(b, a % W), c)
    [] op = "v_lshl_add_u32" -> Shl(b, a % W) + c
    [] op = "v_perm_b32"     -> b
    [] OTHER                 -> CoreTri(op, a, b, c)

FrozenValue(i, st, l) ==
  LET a == VGet(st, l, i.a)
      b == VGet(st, l, i.b)
  IN  IF i.op \in FrozenBins THEN CoreBin(i.op, a, b) ELSE FrozenTri(i.op, a, b, VGet(st, l, i.c))

FrozenCompares ==
  {<<"eq", "u32">>, <<"ne", "u32">>, <<"lt", "u32">>, <<"le", "u32">>, <<"gt", "u32">>, <<"ge", "u32">>,
   <<"eq", "i32">>, <<"ne", "i32">>, <<"gt", "i32">>} \cup
  {"eq", "ne", "lt", "le", "gt", "ge"} \X {"i16", "u16", "i8"}

\* v_cmpx has two operands, and the second was compared with itself.
FrozenCompare(i, st) ==
  LET a(l) == VGet(st, l, IF i.op = "v_cmpx" THEN i.b ELSE i.a)
      yes == {l \in Active(st) : Asks(i.rel, i.type, a(l), VGet(st, l, i.b))}
  IN  SetMask(st, IF i.op = "v_cmpx" THEN [t |-> "exec", n |-> 0] ELSE i.d, OfOnes(yes))

InFrozen(i) ==
  \/ i.op \in {"v_cmp", "v_cmpx"} /\ <<i.rel, i.type>> \in FrozenCompares
  \/ i.op \in FrozenBins \cup FrozenTris \cup
              {"v_add_co_u32", "v_add_co_ci_u32", "v_cndmask_b32", "v_readfirstlane_b32"}

FrozenV(i, st) ==
  CASE i.op \in {"v_cmp", "v_cmpx"} -> FrozenCompare(i, st)
    [] i.op = "v_add_co_u32" -> AddCo(i, st)
    [] i.op = "v_add_co_ci_u32" -> AddCoCi(i, st)
    [] i.op = "v_cndmask_b32" -> CndMask(i, st)
    [] i.op = "v_readfirstlane_b32" -> ReadFirst(i, st)
    [] OTHER -> VSet(st, i.d, [l \in Active(st) |-> FrozenValue(i, st, l)])
=============================================================================
