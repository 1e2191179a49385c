------------------------------- MODULE ExecMask -------------------------------
(***************************************************************************)
(* How one wave runs a kernel whose lanes take different ways: the part    *)
(* of emu.Core that decides which lanes an instruction works on.           *)
(*                                                                         *)
(* A wave has one pc.  What makes its lanes diverge and meet again is EXEC *)
(* and the masks kept in VCC and SGPRs, one bit for each lane; a mask is   *)
(* the set of the lanes whose bit is 1 (lanes = 32: a mask fills a word).  *)
(* The mask instructions, the compares, the branches and the vector        *)
(* instructions that give the control flow its data are modelled; every    *)
(* other vector instruction is a mark: the lanes that execute it note it.  *)
(*                                                                         *)
(* A kernel comes with what its source program does for one lane alone.    *)
(* The wave must do that for every lane, whatever ways the others take.    *)
(***************************************************************************)
EXTENDS Integers, Sequences

CONSTANTS
  Lanes,    \* the lanes of the wave
  SReg,     \* SGPRs that hold masks
  VReg,     \* VGPRs
  Num,      \* words are 0 .. Num - 1
  Inputs,   \* what the VGPRs of a lane may hold at the start
  Kernels   \* records: the code, whether it ends with s_endpgm and, for every
            \* input, what it does for a lane on its own, if that stops at all

Word == 0 .. Num - 1
MaskReg == SReg \cup {"exec", "vcc"}
Rel == {"eq", "ne", "lt", "gt", "le", "ge"}

AluOps == {"s_mov", "s_and", "s_or", "s_xor", "s_andn2"}
SaveOps == {"s_and_saveexec", "s_or_saveexec", "s_xor_saveexec", "s_andn2_saveexec",
            "s_and_not1_saveexec"}
VectorOps == {"v_mov", "v_add_nc", "v_cndmask"}
BranchOps == {"s_branch", "s_cbranch_execz", "s_cbranch_execnz", "s_cbranch_vccz",
              "s_cbranch_vccnz"}
Ops == AluOps \cup SaveOps \cup VectorOps \cup BranchOps \cup
       {"v_cmp", "v_cmpx", "v_add_co", "v_add_co_ci", "mark", "s_endpgm"}

\* The sources of an instruction are a mask or a VGPR by name, or "none" (the
\* literal 0), "all" (-1) and "lit" (the literal k).
\* cond is a mask that is read lane by lane, out one that carries go to.
Instr == [op : Ops, dst : STRING, a : STRING, b : STRING, cond : STRING, out : STRING,
          rel : Rel, k : Nat, to : Nat \ {0}]

MaskSrc == MaskReg \cup {"none", "all"}
VectorSrc == VReg \cup {"lit"}

\* The operands are of the kinds the handler of the instruction reads and
\* writes, and a literal fits a word.
WellFormed(i) ==
  /\ i.op \in AluOps => i.dst \in MaskReg /\ i.a \in MaskSrc /\ i.b \in MaskSrc
  /\ i.op \in SaveOps => i.dst \in MaskReg /\ i.a \in MaskSrc
  /\ i.op \in {"v_cmp", "v_cmpx"} =>
       i.dst \in MaskReg /\ i.a \in VectorSrc /\ i.b \in VectorSrc
  /\ i.op \in VectorOps \cup {"v_add_co", "v_add_co_ci"} =>
       /\ i.dst \in VReg /\ i.a \in VectorSrc /\ i.k \in Word
       /\ i.op # "v_mov" => i.b \in VectorSrc
       /\ i.op \in {"v_cndmask", "v_add_co_ci"} => i.cond \in MaskSrc

ASSUME NamesAssumption ==
  /\ SReg \subseteq STRING /\ VReg \subseteq STRING
  /\ SReg \cap {"exec", "vcc", "none", "all"} = {} /\ "lit" \notin VReg
ASSUME InputsAssumption == Num \in Nat \ {0} /\ Inputs \subseteq [VReg -> Word]
ASSUME KernelsAssumption ==
  \A x \in Kernels :
    /\ x.code \in Seq(Instr) /\ x.ends \in BOOLEAN
    /\ \A n \in 1 .. Len(x.code) : WellFormed(x.code[n])
    /\ x.does \in [Inputs -> [ran : Seq(Nat), v : [VReg -> Word], stops : BOOLEAN]]

\* What the compares ask.
Compares(rel, x, y) ==
  CASE rel = "eq" -> x = y [] rel = "ne" -> x # y
    [] rel = "lt" -> x < y [] rel = "gt" -> x > y
    [] rel = "le" -> x <= y [] rel = "ge" -> x >= y

\* The if/else of the docstring of op_s_andn2_saveexec_b32: x lets the lanes
\* that Takes names make the marks of yes and the others those of no, with the
\* SGPR s.
Takes(x, in) ==
  LET i == x.code[2]
      Operand(tok) == IF tok = "lit" THEN i.k ELSE in[tok]
  IN  Compares(i.rel, Operand(i.a), Operand(i.b))

Marks(code, at, ks) ==
  \A n \in 1 .. Len(ks) : code[at + n - 1].op = "mark" /\ code[at + n - 1].k = ks[n]

IfElse(x, s, yes, no) ==
  LET c == x.code
      p == Len(yes)
      q == Len(no)
      Is(n, op, dst, a, b) == c[n].op = op /\ c[n].dst = dst /\ c[n].a = a /\ c[n].b = b
  IN  /\ Len(c) = 8 + p + q
      /\ Is(1, "s_mov", s, "exec", "none")
      /\ c[2].op = "v_cmpx"
      /\ Is(3, "s_xor", s, "exec", s)
      /\ c[4].op = "s_cbranch_execz" /\ c[4].to = 5 + p
      /\ Marks(c, 5, yes)
      /\ Is(5 + p, "s_andn2_saveexec", s, s, "none")
      /\ c[6 + p].op = "s_cbranch_execz" /\ c[6 + p].to = 7 + p + q
      /\ Marks(c, 7 + p, no)
      /\ Is(7 + p + q, "s_or", "exec", "exec", s)
      /\ c[8 + p + q].op = "s_endpgm" /\ x.ends
      /\ \A in \in Inputs :
           x.does[in] = [ran |-> IF Takes(x, in) THEN yes ELSE no, v |-> in, stops |-> TRUE]

VARIABLES
  kernel,  \* the kernel the wave runs; never written
  start,   \* observed: the VGPRs of every lane at the start
  pc,      \* 1-based
  mask,    \* EXEC, VCC and the SGPRs
  v,       \* the VGPRs of every lane
  ran,     \* observed: the marks of every lane, in order
  halted   \* the kind of Halt, or "NONE"

vars == <<kernel, start, pc, mask, v, ran, halted>>

Exec == mask["exec"]
Code == kernel.code
Here == Code[pc]

\* The tokens sget knows: a register, or a literal.
Src(tok) == CASE tok = "none" -> {}
              [] tok = "all"  -> Lanes
              [] OTHER        -> mask[tok]

\* vget of a VGPR or a literal.
VSrc(l, tok) == IF tok = "lit" THEN Here.k ELSE v[l][tok]

\* A fresh Core, whose VGPRs an earlier part of the kernel has filled.
Init ==
  /\ kernel \in Kernels
  /\ start \in [Lanes -> Inputs]
  /\ pc = 1
  /\ mask = [r \in MaskReg |-> IF r = "exec" THEN Lanes ELSE {}]
  /\ v = start
  /\ ran = [l \in Lanes |-> <<>>]
  /\ halted = "NONE"

-----------------------------------------------------------------------------
(* Core.step: an instruction has moved pc on before its handler runs.      *)

Running == halted = "NONE"
Executing(ops) == Running /\ pc <= Len(Code) /\ Here.op \in ops

\* The handler is done; the wave goes on behind the instruction.
GoOn == pc' = pc + 1 /\ UNCHANGED <<kernel, start, halted>>

PcOverrun ==
  /\ Running /\ pc > Len(Code)
  /\ halted' = "PCOVERRUN"
  /\ UNCHANGED <<kernel, start, pc, mask, v, ran>>

EndProgram ==
  /\ Executing({"s_endpgm"})
  /\ pc' = pc + 1
  /\ halted' = "END"
  /\ UNCHANGED <<kernel, start, mask, v, ran>>

-----------------------------------------------------------------------------
(* The masks.                                                              *)

MaskResult(i) ==
  CASE i.op = "s_mov"   -> Src(i.a)
    [] i.op = "s_and"   -> Src(i.a) \cap Src(i.b)
    [] i.op = "s_or"    -> Src(i.a) \cup Src(i.b)
    [] i.op = "s_xor"   -> (Src(i.a) \ Src(i.b)) \cup (Src(i.b) \ Src(i.a))
    [] i.op = "s_andn2" -> Src(i.a) \ Src(i.b)

MaskAlu ==
  /\ Executing(AluOps)
  /\ mask' = [mask EXCEPT ![Here.dst] = MaskResult(Here)]
  /\ UNCHANGED <<v, ran>>
  /\ GoOn

\* What the saveexec instructions put in EXEC.  The two spellings of one
\* instruction, s_andn2 and s_and_not1, invert opposite operands.
NewExec(i) ==
  CASE i.op = "s_and_saveexec"      -> Exec \cap Src(i.a)
    [] i.op = "s_or_saveexec"       -> Exec \cup Src(i.a)
    [] i.op = "s_xor_saveexec"      -> (Exec \ Src(i.a)) \cup (Src(i.a) \ Exec)
    [] i.op = "s_andn2_saveexec"    -> Src(i.a) \ Exec
    [] i.op = "s_and_not1_saveexec" -> Exec \ Src(i.a)

\* _saveexec: the new mask has been computed before the destination, which may
\* be its source, gets the old one.
SaveExec ==
  /\ Executing(SaveOps)
  /\ mask' = [mask EXCEPT ![Here.dst] = Exec, !["exec"] = NewExec(Here)]
  /\ UNCHANGED <<v, ran>>
  /\ GoOn

-----------------------------------------------------------------------------
(* The compares.                                                           *)

\* Only active lanes are compared; the bit of every other lane becomes 0.
Satisfying(i) == {l \in Exec : Compares(i.rel, VSrc(l, i.a), VSrc(l, i.b))}

\* _vcmp writes VCC or a mask in an SGPR, _vcmpx writes EXEC.
Compare ==
  /\ Executing({"v_cmp"})
  /\ mask' = [mask EXCEPT ![Here.dst] = Satisfying(Here)]
  /\ UNCHANGED <<v, ran>>
  /\ GoOn

CompareX ==
  /\ Executing({"v_cmpx"})
  /\ mask' = [mask EXCEPT !["exec"] = Satisfying(Here)]
  /\ UNCHANGED <<v, ran>>
  /\ GoOn

-----------------------------------------------------------------------------
(* Vector instructions: the active lanes only.                             *)

\* Every active lane writes its own VGPR.
Write(dst, Value(_)) ==
  v' = [l \in Lanes |-> IF l \in Exec THEN [v[l] EXCEPT ![dst] = Value(l)] ELSE v[l]]

VectorValue(l) ==
  LET i == Here IN
  CASE i.op = "v_mov"     -> VSrc(l, i.a)
    [] i.op = "v_add_nc"  -> (VSrc(l, i.a) + VSrc(l, i.b)) % Num
    [] i.op = "v_cndmask" -> IF l \in Src(i.cond) THEN VSrc(l, i.b) ELSE VSrc(l, i.a)

Vector ==
  /\ Executing(VectorOps)
  /\ Write(Here.dst, VectorValue)
  /\ UNCHANGED <<mask, ran>>
  /\ GoOn

Sum(l) == VSrc(l, Here.a) + VSrc(l, Here.b)

\* v_add_co_u32: the carries of the active lanes, 0 for the others, go to VCC
\* or an SGPR.
AddCarryOut ==
  /\ Executing({"v_add_co"})
  /\ LET Low(l) == Sum(l) % Num IN Write(Here.dst, Low)
  /\ mask' = IF Here.out \in MaskReg
               THEN [mask EXCEPT ![Here.out] = {l \in Exec : Sum(l) >= Num}]
               ELSE mask
  /\ UNCHANGED ran
  /\ GoOn

\* The carry of a lane, 0 or 1.
CarryIn(l) == IF l \in Src(Here.cond) THEN 1 ELSE 0

\* v_add_co_ci_u32 writes its carries bit by bit, so that the bits of the other
\* lanes stay, and only to VCC: those for an SGPR are dropped.
AddCarryIn ==
  /\ Executing({"v_add_co_ci"})
  /\ LET Total(l) == (Sum(l) + CarryIn(l)) % Num IN Write(Here.dst, Total)
  /\ mask' = IF Here.out = "vcc"
               THEN [mask EXCEPT !["vcc"] = (@ \ Exec) \cup
                       {l \in Exec : Sum(l) + CarryIn(l) >= Num}]
               ELSE mask
  /\ UNCHANGED ran
  /\ GoOn

\* Any other vector instruction.
Mark ==
  /\ Executing({"mark"})
  /\ ran' = [l \in Lanes |-> IF l \in Exec THEN Append(ran[l], Here.k) ELSE ran[l]]
  /\ UNCHANGED <<mask, v>>
  /\ GoOn

-----------------------------------------------------------------------------
(* Branches.                                                               *)

Taken(i) ==
  CASE i.op = "s_branch"         -> TRUE
    [] i.op = "s_cbranch_execz"  -> Exec = {}
    [] i.op = "s_cbranch_execnz" -> Exec # {}
    [] i.op = "s_cbranch_vccz"   -> mask["vcc"] = {}
    [] i.op = "s_cbranch_vccnz"  -> mask["vcc"] # {}

Branch ==
  /\ Executing(BranchOps)
  /\ pc' = IF Taken(Here) THEN Here.to ELSE pc + 1
  /\ UNCHANGED <<kernel, start, mask, v, ran, halted>>

-----------------------------------------------------------------------------

Halted == ~Running /\ UNCHANGED vars

Step ==
  \/ PcOverrun \/ EndProgram
  \/ MaskAlu \/ SaveExec \/ Compare \/ CompareX
  \/ Vector \/ AddCarryOut \/ AddCarryIn \/ Mark
  \/ Branch

Next == Step \/ Halted

Spec == Init /\ [][Next]_vars

\* The wave is stepped until it halts.
FairSpec == Spec /\ WF_vars(Step)

-----------------------------------------------------------------------------
(* Properties.                                                             *)

\* The values of the variables.
TypeOK ==
  /\ kernel \in Kernels
  /\ start \in [Lanes -> Inputs]
  /\ pc \in Nat \ {0}
  /\ mask \in [MaskReg -> SUBSET Lanes]
  /\ v \in [Lanes -> [VReg -> Word]]
  /\ ran \in [Lanes -> Seq(Nat)]
  /\ halted \in {"NONE", "END", "PCOVERRUN"}

\* What the source program does for lane l.
Alone(l) == kernel.does[start[l]]

(***************************************************************************)
(* Every lane goes its own way: what it has executed is always the         *)
(* beginning of what the program does for it alone, whichever lanes run    *)
(* beside it, wait for it or have left a loop.                             *)
(***************************************************************************)
OwnWay ==
  \A l \in Lanes :
    /\ Len(ran[l]) <= Len(Alone(l).ran)
    /\ ran[l] = SubSeq(Alone(l).ran, 1, Len(ran[l]))

(***************************************************************************)
(* When the kernel ends every lane has gone its way to the end, its VGPRs  *)
(* are those it would have alone, and all the lanes are active again: the  *)
(* restores at the joins "reconstruct EXEC_before exactly".  A wave is     *)
(* said to run in a cycle only if a lane of it would never stop.           *)
(***************************************************************************)
AllTheWay ==
  /\ halted \notin {"NONE", "CYCLE"} =>
       /\ halted = IF kernel.ends THEN "END" ELSE "PCOVERRUN"
       /\ Exec = Lanes
       /\ \A l \in Lanes : ran[l] = Alone(l).ran /\ v[l] = Alone(l).v
  /\ halted = "CYCLE" => \E l \in Lanes : ~Alone(l).stops

\* The wave ends however long its slowest lane stays in a loop; if that lane
\* stays there for ever, the cycle is found.
KernelEnds == <>(halted # "NONE")

=============================================================================
