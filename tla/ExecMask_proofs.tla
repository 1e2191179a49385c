--------------------------- MODULE ExecMask_proofs ----------------------------
(***************************************************************************)
(* Proofs about ExecMask, for every wave, register file and kernel: its    *)
(* type, and that the if/else of the docstring of op_s_andn2_saveexec_b32  *)
(* takes every lane its own way and joins all of them again.               *)
(***************************************************************************)
EXTENDS ExecMask, TLAPS

LEMMA HereTyped ==
  ASSUME TypeOK, pc <= Len(Code)
  PROVE  Here \in Instr /\ WellFormed(Here)
<1>1. Code \in Seq(Instr) BY KernelsAssumption DEF TypeOK, Code
<1>2. pc \in 1 .. Len(Code) BY <1>1 DEF TypeOK
<1> QED BY <1>1, <1>2, KernelsAssumption DEF TypeOK, Code, Here

LEMMA SrcTyped ==
  ASSUME TypeOK, NEW tok \in MaskSrc
  PROVE  Src(tok) \in SUBSET Lanes
BY DEF TypeOK, Src, MaskSrc

LEMMA VSrcTyped ==
  ASSUME TypeOK, Here.k \in Word, NEW l \in Lanes, NEW tok \in VectorSrc
  PROVE  VSrc(l, tok) \in Word
BY DEF TypeOK, VSrc, VectorSrc

LEMMA WordIsNat == Word \subseteq Nat /\ \A n \in Nat : n % Num \in Word
BY InputsAssumption DEF Word

LEMMA ExecTyped == TypeOK => Exec \in SUBSET Lanes
BY DEF TypeOK, Exec, MaskReg

(***************************************************************************)
(* The registers keep their types: a mask holds lanes, a VGPR a word, pc   *)
(* is an address, whatever kernel runs.                                    *)
(***************************************************************************)
THEOREM TypeCorrect == Spec => []TypeOK
<1>1. Init => TypeOK
  <2> SUFFICES ASSUME Init PROVE TypeOK OBVIOUS
  <2>1. v \in [Lanes -> [VReg -> Word]] BY InputsAssumption DEF Init
  <2> QED BY <2>1 DEF Init, TypeOK, MaskReg
<1>2. TypeOK /\ [Next]_vars => TypeOK'
  <2> SUFFICES ASSUME TypeOK, [Next]_vars PROVE TypeOK' OBVIOUS
  <2>0. /\ mask \in [MaskReg -> SUBSET Lanes]
        /\ v \in [Lanes -> [VReg -> Word]]
        /\ ran \in [Lanes -> Seq(Nat)]
        /\ pc \in Nat \ {0} /\ pc + 1 \in Nat \ {0}
        /\ Exec \in SUBSET Lanes
    BY ExecTyped DEF TypeOK
  <2>1. CASE PcOverrun BY <2>1 DEF PcOverrun, TypeOK
  <2>2. CASE EndProgram BY <2>0, <2>2 DEF EndProgram, TypeOK
  <2>3. CASE MaskAlu
    <3>1. MaskResult(Here) \in SUBSET Lanes
      BY <2>3, HereTyped, SrcTyped DEF MaskAlu, Executing, WellFormed, MaskResult, AluOps
    <3>2. mask' \in [MaskReg -> SUBSET Lanes] BY <2>0, <2>3, <3>1 DEF MaskAlu
    <3> QED BY <2>0, <2>3, <3>2 DEF MaskAlu, GoOn, TypeOK
  <2>4. CASE SaveExec
    <3>1. NewExec(Here) \in SUBSET Lanes
      BY <2>0, <2>4, HereTyped, SrcTyped
         DEF SaveExec, Executing, WellFormed, NewExec, SaveOps
    <3>2. mask' \in [MaskReg -> SUBSET Lanes] BY <2>0, <2>4, <3>1 DEF SaveExec
    <3> QED BY <2>0, <2>4, <3>2 DEF SaveExec, GoOn, TypeOK
  <2>5. CASE Compare
    <3>1. Satisfying(Here) \in SUBSET Lanes BY <2>0 DEF Satisfying
    <3>2. mask' \in [MaskReg -> SUBSET Lanes] BY <2>0, <2>5, <3>1 DEF Compare
    <3> QED BY <2>0, <2>5, <3>2 DEF Compare, GoOn, TypeOK
  <2>6. CASE CompareX
    <3>1. Satisfying(Here) \in SUBSET Lanes BY <2>0 DEF Satisfying
    <3>2. mask' \in [MaskReg -> SUBSET Lanes] BY <2>0, <2>6, <3>1 DEF CompareX
    <3> QED BY <2>0, <2>6, <3>2 DEF CompareX, GoOn, TypeOK
  <2>7. CASE Vector
    <3>1. WellFormed(Here) /\ Here.op \in VectorOps
      BY <2>7, HereTyped DEF Vector, Executing
    <3>2. \A l \in Lanes : VectorValue(l) \in Word
      BY <3>1, VSrcTyped, WordIsNat DEF WellFormed, VectorValue, VectorOps
    <3>3. v' \in [Lanes -> [VReg -> Word]] BY <2>0, <2>7, <3>2 DEF Vector, Write
    <3> QED BY <2>0, <2>7, <3>3 DEF Vector, GoOn, TypeOK
  <2>8. CASE AddCarryOut
    <3>1. WellFormed(Here) /\ Here.op = "v_add_co"
      BY <2>8, HereTyped DEF AddCarryOut, Executing
    <3>2. \A l \in Lanes : Sum(l) \in Nat
      <4> TAKE l \in Lanes
      <4>1. VSrc(l, Here.a) \in Nat /\ VSrc(l, Here.b) \in Nat
        BY <3>1, VSrcTyped, WordIsNat DEF WellFormed
      <4> QED BY <4>1 DEF Sum
    <3>3. \A l \in Lanes : Sum(l) % Num \in Word BY <3>2, WordIsNat
    <3>4. v' \in [Lanes -> [VReg -> Word]] BY <2>0, <2>8, <3>3 DEF AddCarryOut, Write
    <3>5. mask' \in [MaskReg -> SUBSET Lanes]
      <4> DEFINE Carries == {l \in Exec : Sum(l) >= Num}
      <4>1. Carries \in SUBSET Lanes BY <2>0
      <4>2. mask' = mask \/ mask' = [mask EXCEPT ![Here.out] = Carries]
        BY <2>8 DEF AddCarryOut
      <4> HIDE DEF Carries
      <4> QED BY <2>0, <4>1, <4>2
    <3> QED BY <2>0, <2>8, <3>4, <3>5 DEF AddCarryOut, GoOn, TypeOK
  <2>9. CASE AddCarryIn
    <3>1. WellFormed(Here) /\ Here.op = "v_add_co_ci"
      BY <2>9, HereTyped DEF AddCarryIn, Executing
    <3>2. \A l \in Lanes : Sum(l) + CarryIn(l) \in Nat
      <4> TAKE l \in Lanes
      <4>1. VSrc(l, Here.a) \in Nat /\ VSrc(l, Here.b) \in Nat
        BY <3>1, VSrcTyped, WordIsNat DEF WellFormed
      <4>2. CarryIn(l) \in {0, 1} BY DEF CarryIn
      <4> QED BY <4>1, <4>2 DEF Sum
    <3>3. \A l \in Lanes : (Sum(l) + CarryIn(l)) % Num \in Word BY <3>2, WordIsNat
    <3>4. v' \in [Lanes -> [VReg -> Word]] BY <2>0, <2>9, <3>3 DEF AddCarryIn, Write
    <3>5. mask' \in [MaskReg -> SUBSET Lanes]
      <4> DEFINE Carries == (mask["vcc"] \ Exec) \cup {l \in Exec : Sum(l) + CarryIn(l) >= Num}
      <4>1. Carries \in SUBSET Lanes BY <2>0 DEF MaskReg
      <4>2. mask' = mask \/ mask' = [mask EXCEPT !["vcc"] = Carries]
        BY <2>9 DEF AddCarryIn
      <4> HIDE DEF Carries
      <4> QED BY <2>0, <4>1, <4>2
    <3> QED BY <2>0, <2>9, <3>4, <3>5 DEF AddCarryIn, GoOn, TypeOK
  <2>10. CASE Mark
    <3>1. Here.k \in Nat BY <2>10, HereTyped DEF Mark, Executing, Instr
    <3>2. ran' \in [Lanes -> Seq(Nat)] BY <2>0, <2>10, <3>1 DEF Mark
    <3> QED BY <2>0, <2>10, <3>2 DEF Mark, GoOn, TypeOK
  <2>11. CASE Branch
    <3>1. Here.to \in Nat \ {0} BY <2>11, HereTyped DEF Branch, Executing, Instr
    <3>2. pc' \in Nat \ {0} BY <2>0, <2>11, <3>1 DEF Branch
    <3> QED BY <2>11, <3>2 DEF Branch, TypeOK
  <2>12. CASE UNCHANGED vars BY <2>12 DEF vars, TypeOK
  <2> QED BY <2>1, <2>2, <2>3, <2>4, <2>5, <2>6, <2>7, <2>8, <2>9, <2>10, <2>11, <2>12
          DEF Next, Step, Halted
<1> QED BY <1>1, <1>2, PTL DEF Spec

-----------------------------------------------------------------------------
(***************************************************************************)
(* The if/else of the docstring.                                           *)
(*                                                                         *)
(* Its course, by address: who is active, what the saved mask holds and    *)
(* how many marks the lanes of either side have made.                      *)
(***************************************************************************)

LetThrough == {l \in Lanes : Takes(kernel, start[l])}
Others == Lanes \ LetThrough

\* How many marks of its part a lane has made.
DoneYes(p) == IF pc <= 5 THEN 0 ELSE IF pc >= 5 + p THEN p ELSE pc - 5
DoneNo(p, q) == IF pc <= 7 + p THEN 0 ELSE IF pc >= 7 + p + q THEN q ELSE pc - 7 - p

Course(s, yes, no) ==
  LET p == Len(yes)
      q == Len(no)
  IN  /\ pc \in 1 .. 9 + p + q
      /\ v = start
      /\ pc \in 1 .. 2 => Exec = Lanes
      /\ pc \in 2 .. 3 => mask[s] = Lanes
      /\ pc \in 3 .. 5 + p => Exec = LetThrough
      /\ pc \in 4 .. 5 + p => mask[s] = Others
      /\ pc \in 6 + p .. 7 + p + q => Exec = Others /\ mask[s] = LetThrough
      /\ pc \in 8 + p + q .. 9 + p + q => Exec = Lanes
      /\ \A l \in LetThrough : ran[l] = SubSeq(yes, 1, DoneYes(p))
      /\ \A l \in Others : ran[l] = SubSeq(no, 1, DoneNo(p, q))
      /\ halted = IF pc = 9 + p + q THEN "END" ELSE "NONE"

IfElseInv ==
  \E s \in SReg, yes \in Seq(Nat), no \in Seq(Nat) :
    IfElse(kernel, s, yes, no) /\ Course(s, yes, no)

LEMMA TakenSubSeq ==
  ASSUME NEW ks \in Seq(Nat)
  PROVE  /\ SubSeq(ks, 1, 0) = <<>>
         /\ SubSeq(ks, 1, Len(ks)) = ks
         /\ \A n \in 0 .. Len(ks) :
              SubSeq(ks, 1, n) \in Seq(Nat) /\ Len(SubSeq(ks, 1, n)) = n
         /\ \A n \in 0 .. Len(ks) - 1 :
              Append(SubSeq(ks, 1, n), ks[n + 1]) = SubSeq(ks, 1, n + 1)
OBVIOUS

\* Which action an instruction is.
LEMMA ActionOf ==
  ASSUME Next, Running, pc \in Nat, Len(Code) \in Nat, pc <= Len(Code)
  PROVE  /\ Here.op \in AluOps => MaskAlu
         /\ Here.op \in SaveOps => SaveExec
         /\ Here.op = "v_cmpx" => CompareX
         /\ Here.op = "mark" => Mark
         /\ Here.op \in BranchOps => Branch
         /\ Here.op = "s_endpgm" => EndProgram
<1>0. ~PcOverrun /\ ~Halted BY DEF PcOverrun, Halted
<1> QED
  BY <1>0 DEF Next, Step, EndProgram, MaskAlu, SaveExec, Compare, CompareX, Vector, AddCarryOut,
              AddCarryIn, Mark, Branch, Executing, AluOps, SaveOps, VectorOps, BranchOps

\* What a lane's compare with its own VGPRs says is what Takes says.
LEMMA ComparedIsTakes ==
  ASSUME Here = kernel.code[2], v = start, NEW l \in Lanes
  PROVE  Compares(Here.rel, VSrc(l, Here.a), VSrc(l, Here.b)) <=> Takes(kernel, start[l])
BY DEF VSrc, Takes

LEMMA IfElseStep ==
  ASSUME NEW s \in SReg, NEW yes \in Seq(Nat), NEW no \in Seq(Nat),
         TypeOK, IfElse(kernel, s, yes, no), Course(s, yes, no), [Next]_vars
  PROVE  Course(s, yes, no)'
<1> DEFINE p == Len(yes)
           q == Len(no)
<1>0. /\ p \in Nat /\ q \in Nat /\ pc \in 1 .. 9 + p + q /\ pc \in Nat
      /\ Code = kernel.code /\ Len(Code) = 8 + p + q /\ Here = kernel.code[pc]
      /\ s \in MaskReg /\ "exec" \in MaskReg /\ s # "exec"
      /\ s # "none" /\ s # "all"
      /\ mask \in [MaskReg -> SUBSET Lanes] /\ v = start
      /\ LetThrough \subseteq Lanes /\ Others \subseteq Lanes
      /\ halted = IF pc = 9 + p + q THEN "END" ELSE "NONE"
  <2>1. /\ p \in Nat /\ q \in Nat /\ pc \in 1 .. 9 + p + q
        /\ Code = kernel.code /\ Len(Code) = 8 + p + q /\ Here = kernel.code[pc]
        /\ v = start /\ halted = IF pc = 9 + p + q THEN "END" ELSE "NONE"
    <3>1. p \in Nat /\ q \in Nat
      OBVIOUS
    <3>2. pc \in 1 .. 9 + p + q /\ v = start /\ halted = IF pc = 9 + p + q THEN "END" ELSE "NONE"
      BY ONLY Course(s, yes, no) DEF Course
    <3>3. Code = kernel.code /\ Here = kernel.code[pc]
      BY DEF Code, Here
    <3>4. Len(kernel.code) = 8 + p + q
      BY ONLY IfElse(kernel, s, yes, no) DEF IfElse
    <3> QED
      BY ONLY <3>1, <3>2, <3>3, <3>4
  <2>2. /\ s \in MaskReg /\ "exec" \in MaskReg /\ s # "exec" /\ s # "none" /\ s # "all"
    BY NamesAssumption DEF NamesAssumption, MaskReg
  <2>3. mask \in [MaskReg -> SUBSET Lanes]
    BY DEF TypeOK
  <2>4. LetThrough \subseteq Lanes /\ Others \subseteq Lanes
    BY DEF LetThrough, Others
  <2>5. pc \in Nat
    BY ONLY <2>1
  <2> QED
    BY <2>1, <2>2, <2>3, <2>4, <2>5
<1>1. CASE UNCHANGED vars
  BY <1>1 DEF vars, Course, LetThrough, Others, DoneYes, DoneNo, Exec
<1>2. CASE pc = 9 + p + q
  <2>1. ~Running BY <1>0, <1>2 DEF Running
  <2>2. UNCHANGED vars BY <2>1 DEF Next, Step, PcOverrun, EndProgram, MaskAlu, SaveExec, Compare,
          CompareX, Vector, AddCarryOut, AddCarryIn, Mark, Branch, Halted, Executing
  <2> QED BY <1>1, <2>2
<1>3. CASE Next /\ pc <= 8 + p + q
  <2>0. /\ Running /\ pc <= Len(Code) /\ Next /\ halted = "NONE"
        /\ pc \in Nat /\ Len(Code) \in Nat
    BY <1>0, <1>3 DEF Running
  <2>A. ASSUME v' = v, start' = start, kernel' = kernel
        PROVE  v' = start' /\ LetThrough' = LetThrough /\ Others' = Others
    BY <1>0, <2>A DEF LetThrough, Others
  <2> DEFINE Own == /\ \A l \in LetThrough : ran'[l] = SubSeq(yes, 1, DoneYes(p)')
                    /\ \A l \in Others : ran'[l] = SubSeq(no, 1, DoneNo(p, q)')
             Masked == /\ pc' \in 1 .. 2 => Exec' = Lanes
                       /\ pc' \in 2 .. 3 => mask'[s] = Lanes
                       /\ pc' \in 3 .. 5 + p => Exec' = LetThrough
                       /\ pc' \in 4 .. 5 + p => mask'[s] = Others
                       /\ pc' \in 6 + p .. 7 + p + q => Exec' = Others /\ mask'[s] = LetThrough
                       /\ pc' \in 8 + p + q .. 9 + p + q => Exec' = Lanes
             Placed == /\ pc' \in 1 .. 9 + p + q
                       /\ halted' = IF pc' = 9 + p + q THEN "END" ELSE "NONE"
  <2>B. ASSUME ran' = ran, DoneYes(p)' = DoneYes(p), DoneNo(p, q)' = DoneNo(p, q)
        PROVE  Own
    BY <2>B DEF Course
  <2>C. ASSUME v' = v, start' = start, kernel' = kernel, Own, Masked, Placed
        PROVE  Course(s, yes, no)'
    BY <2>A, <2>C DEF Course
  <2>1. CASE pc = 1
    <3>1. Here.op = "s_mov" /\ Here.dst = s /\ Here.a = "exec"
      BY <1>0, <2>1 DEF IfElse
    <3>2. MaskAlu BY <2>0, <3>1, ActionOf DEF AluOps
    <3>3. mask' = [mask EXCEPT ![s] = mask["exec"]]
      BY <3>1, <3>2 DEF MaskAlu, MaskResult, Src
    <3>4. Exec = Lanes BY <2>1 DEF Course
    <3>5. Exec' = Lanes /\ mask'[s] = Lanes BY <1>0, <3>3, <3>4 DEF Exec
    <3>6. pc' = 2 /\ v' = v /\ start' = start /\ kernel' = kernel /\ ran' = ran /\ halted' = halted
      BY <2>1, <3>2 DEF MaskAlu, GoOn
    <3>7. DoneYes(p)' = DoneYes(p) /\ DoneNo(p, q)' = DoneNo(p, q)
      BY <1>0, <2>1, <3>6 DEF DoneYes, DoneNo
    <3>8. Masked BY <1>0, <2>1, <3>5, <3>6
    <3>9. Placed BY <1>0, <2>1, <3>6
    <3> QED BY <2>B, <2>C, <3>6, <3>7, <3>8, <3>9
  <2>2. CASE pc = 2
    <3>1. Here.op = "v_cmpx" BY <1>0, <2>2 DEF IfElse
    <3>2. CompareX BY <2>0, <3>1, ActionOf
    <3>3. Exec = Lanes /\ mask[s] = Lanes BY <2>2 DEF Course
    <3>4. Satisfying(Here) = LetThrough
      BY <1>0, <2>2, <3>3, ComparedIsTakes DEF Satisfying, LetThrough
    <3>5. Exec' = LetThrough /\ mask'[s] = Lanes BY <1>0, <3>2, <3>3, <3>4 DEF CompareX, Exec
    <3>6. pc' = 3 /\ v' = v /\ start' = start /\ kernel' = kernel /\ ran' = ran /\ halted' = halted
      BY <2>2, <3>2 DEF CompareX, GoOn
    <3>7. DoneYes(p)' = DoneYes(p) /\ DoneNo(p, q)' = DoneNo(p, q)
      BY <1>0, <2>2, <3>6 DEF DoneYes, DoneNo
    <3>8. Masked BY <1>0, <2>2, <3>5, <3>6
    <3>9. Placed BY <1>0, <2>2, <3>6
    <3> QED BY <2>B, <2>C, <3>6, <3>7, <3>8, <3>9
  <2>3. CASE pc = 3
    <3>1. Here.op = "s_xor" /\ Here.dst = s /\ Here.a = "exec" /\ Here.b = s
      BY <1>0, <2>3 DEF IfElse
    <3>2. MaskAlu BY <2>0, <3>1, ActionOf DEF AluOps
    <3>3. Exec = LetThrough /\ mask[s] = Lanes BY <1>0, <2>3 DEF Course
    <3>4. mask' = [mask EXCEPT ![s] = (Exec \ mask[s]) \cup (mask[s] \ Exec)]
      BY <1>0, <3>1, <3>2 DEF MaskAlu, MaskResult, Src, Exec
    <3>5. Exec' = LetThrough /\ mask'[s] = Others
      BY <1>0, <3>3, <3>4 DEF Exec, Others
    <3>6. pc' = 4 /\ v' = v /\ start' = start /\ kernel' = kernel /\ ran' = ran /\ halted' = halted
      BY <2>3, <3>2 DEF MaskAlu, GoOn
    <3>7. DoneYes(p)' = DoneYes(p) /\ DoneNo(p, q)' = DoneNo(p, q)
      BY <1>0, <2>3, <3>6 DEF DoneYes, DoneNo
    <3>8. Masked BY <1>0, <2>3, <3>5, <3>6
    <3>9. Placed BY <1>0, <2>3, <3>6
    <3> QED BY <2>B, <2>C, <3>6, <3>7, <3>8, <3>9
  <2>4. CASE pc = 4
    <3>1. Here.op = "s_cbranch_execz" /\ Here.to = 5 + p BY <1>0, <2>4 DEF IfElse
    <3>2. Branch BY <2>0, <3>1, ActionOf DEF BranchOps
    <3>3. Exec = LetThrough /\ mask[s] = Others BY <1>0, <2>4 DEF Course
    <3>4. pc' = IF LetThrough = {} THEN 5 + p ELSE 5
      BY <2>4, <3>1, <3>2, <3>3 DEF Branch, Taken
    <3>5. Exec' = LetThrough /\ mask'[s] = Others BY <3>2, <3>3 DEF Branch, Exec
    <3>6. v' = v /\ start' = start /\ kernel' = kernel /\ ran' = ran /\ halted' = halted
      BY <3>2 DEF Branch
    <3>7. CASE LetThrough = {} /\ pc' = 5 + p
      <4>1. Masked BY <1>0, <3>5, <3>7
      <4>2. Placed BY <1>0, <2>4, <3>6, <3>7
      <4>3. Own
        <5>1. DoneNo(p, q)' = DoneNo(p, q) BY <1>0, <2>4, <3>7 DEF DoneNo
        <5> QED BY <3>6, <3>7, <5>1 DEF Course
      <4> QED BY <2>C, <3>6, <4>1, <4>2, <4>3
    <3>8. CASE pc' = 5
      <4>1. Masked BY <1>0, <3>5, <3>8
      <4>2. Placed BY <1>0, <2>4, <3>6, <3>8
      <4>3. DoneYes(p)' = DoneYes(p) /\ DoneNo(p, q)' = DoneNo(p, q)
        BY <1>0, <2>4, <3>8 DEF DoneYes, DoneNo
      <4> QED BY <2>B, <2>C, <3>6, <4>1, <4>2, <4>3
    <3> QED BY <3>4, <3>7, <3>8
  <2>5. CASE pc \in 5 .. 4 + p
    <3>1. Here.op = "mark" /\ Here.k = yes[pc - 4]
      <4> DEFINE n == pc - 4
      <4>1. n \in 1 .. p /\ 5 + n - 1 = pc BY <1>0, <2>5
      <4>2. \A i \in 1 .. p : kernel.code[5 + i - 1].op = "mark" /\ kernel.code[5 + i - 1].k = yes[i]
        BY DEF IfElse, Marks
      <4> HIDE DEF n, p
      <4>3. kernel.code[5 + n - 1].op = "mark" /\ kernel.code[5 + n - 1].k = yes[n] BY <4>1, <4>2
      <4> QED BY <1>0, <4>1, <4>3 DEF n
    <3>2. Mark BY <2>0, <3>1, ActionOf
    <3>3. Exec = LetThrough /\ mask[s] = Others BY <1>0, <2>5 DEF Course
    <3>4. ran' = [l \in Lanes |-> IF l \in LetThrough THEN Append(ran[l], yes[pc - 4]) ELSE ran[l]]
      BY <3>1, <3>2, <3>3 DEF Mark
    <3>5. Exec' = LetThrough /\ mask'[s] = Others BY <3>2, <3>3 DEF Mark, Exec
    <3>6. pc' = pc + 1 /\ v' = v /\ start' = start /\ kernel' = kernel /\ halted' = halted
      BY <3>2 DEF Mark, GoOn
    <3>7. ASSUME NEW l \in LetThrough PROVE ran'[l] = SubSeq(yes, 1, DoneYes(p)')
      <4> DEFINE n == pc - 5
      <4>0. n \in 0 .. p - 1 /\ pc - 4 = n + 1 BY <1>0, <2>5
      <4>1. DoneYes(p) = n /\ DoneYes(p)' = n + 1
        <5>1. p \in Nat /\ pc \in 5 .. 4 + p /\ pc' = pc + 1 BY <1>0, <2>5, <3>6
        <5> HIDE DEF p
        <5> QED BY <5>1 DEF DoneYes
      <4>2. ran[l] = SubSeq(yes, 1, n) BY <4>1, <3>7 DEF Course
      <4>3. ran'[l] = Append(SubSeq(yes, 1, n), yes[n + 1]) BY <1>0, <3>4, <3>7, <4>0, <4>1, <4>2
      <4> HIDE DEF n
      <4> QED BY <4>0, <4>1, <4>3, TakenSubSeq
    <3>8. ASSUME NEW l \in Others PROVE ran'[l] = SubSeq(no, 1, DoneNo(p, q)')
      <4>1. DoneNo(p, q) = 0 /\ DoneNo(p, q)' = 0 BY <1>0, <2>5, <3>6 DEF DoneNo
      <4>2. ran'[l] = ran[l] BY <1>0, <3>4, <3>8 DEF Others
      <4> QED BY <4>1, <4>2, <3>8 DEF Course
    <3>9. Own BY <3>7, <3>8
    <3>10. Masked
      <4>1. p \in Nat /\ q \in Nat /\ pc' \in 6 .. 5 + p BY <1>0, <2>5, <3>6
      <4> HIDE DEF p, q
      <4> QED BY <3>5, <4>1
    <3>11. Placed BY <1>0, <2>5, <3>6
    <3> QED BY <2>C, <3>6, <3>9, <3>10, <3>11
  <2>6. CASE pc = 5 + p
    <3>1. Here.op = "s_andn2_saveexec" /\ Here.dst = s /\ Here.a = s BY <1>0, <2>6 DEF IfElse
    <3>2. SaveExec BY <2>0, <3>1, ActionOf DEF SaveOps
    <3>3. Exec = LetThrough /\ mask[s] = Others BY <1>0, <2>6 DEF Course
    <3>4. mask' = [mask EXCEPT ![s] = Exec, !["exec"] = mask[s] \ Exec]
      BY <1>0, <3>1, <3>2 DEF SaveExec, NewExec, Src
    <3>5. Exec' = Others /\ mask'[s] = LetThrough BY <1>0, <3>3, <3>4 DEF Exec, Others
    <3>6. pc' = 6 + p /\ v' = v /\ start' = start /\ kernel' = kernel /\ ran' = ran /\ halted' = halted
      BY <1>0, <2>6, <3>2 DEF SaveExec, GoOn
    <3>7. DoneYes(p)' = DoneYes(p) /\ DoneNo(p, q)' = DoneNo(p, q)
      BY <1>0, <2>6, <3>6 DEF DoneYes, DoneNo
    <3>8. Masked BY <1>0, <2>6, <3>5, <3>6
    <3>9. Placed BY <1>0, <2>6, <3>6
    <3> QED BY <2>B, <2>C, <3>6, <3>7, <3>8, <3>9
  <2>7. CASE pc = 6 + p
    <3>1. Here.op = "s_cbranch_execz" /\ Here.to = 7 + p + q BY <1>0, <2>7 DEF IfElse
    <3>2. Branch BY <2>0, <3>1, ActionOf DEF BranchOps
    <3>3. Exec = Others /\ mask[s] = LetThrough BY <1>0, <2>7 DEF Course
    <3>4. pc' = IF Others = {} THEN 7 + p + q ELSE 7 + p
      BY <1>0, <2>7, <3>1, <3>2, <3>3 DEF Branch, Taken
    <3>5. Exec' = Others /\ mask'[s] = LetThrough BY <3>2, <3>3 DEF Branch, Exec
    <3>6. v' = v /\ start' = start /\ kernel' = kernel /\ ran' = ran /\ halted' = halted
      BY <3>2 DEF Branch
    <3>7. CASE Others = {} /\ pc' = 7 + p + q
      <4>1. Masked BY <1>0, <3>5, <3>7
      <4>2. Placed BY <1>0, <2>7, <3>6, <3>7
      <4>3. Own
        <5>1. DoneYes(p)' = DoneYes(p) BY <1>0, <2>7, <3>7 DEF DoneYes
        <5> QED BY <3>6, <3>7, <5>1 DEF Course
      <4> QED BY <2>C, <3>6, <4>1, <4>2, <4>3
    <3>8. CASE pc' = 7 + p
      <4>1. Masked BY <1>0, <3>5, <3>8
      <4>2. Placed BY <1>0, <2>7, <3>6, <3>8
      <4>3. DoneYes(p)' = DoneYes(p) /\ DoneNo(p, q)' = DoneNo(p, q)
        BY <1>0, <2>7, <3>8 DEF DoneYes, DoneNo
      <4> QED BY <2>B, <2>C, <3>6, <4>1, <4>2, <4>3
    <3> QED BY <3>4, <3>7, <3>8
  <2>8. CASE pc \in 7 + p .. 6 + p + q
    <3>1. Here.op = "mark" /\ Here.k = no[pc - 6 - p]
      <4> DEFINE n == pc - 6 - p
      <4>1. n \in 1 .. q /\ 7 + p + n - 1 = pc
        <5>1. p \in Nat /\ q \in Nat /\ pc \in 7 + p .. 6 + p + q BY <1>0, <2>8
        <5> HIDE DEF p, q
        <5> QED BY ONLY <5>1
      <4>2. \A i \in 1 .. q : /\ kernel.code[7 + p + i - 1].op = "mark"
                               /\ kernel.code[7 + p + i - 1].k = no[i]
        BY DEF IfElse, Marks
      <4> HIDE DEF n, p, q
      <4>3. kernel.code[7 + p + n - 1].op = "mark" /\ kernel.code[7 + p + n - 1].k = no[n]
        BY <4>1, <4>2
      <4> QED BY <1>0, <4>1, <4>3 DEF n
    <3>2. Mark BY <2>0, <3>1, ActionOf
    <3>3. Exec = Others /\ mask[s] = LetThrough BY <1>0, <2>8 DEF Course
    <3>4. ran' = [l \in Lanes |-> IF l \in Others THEN Append(ran[l], no[pc - 6 - p]) ELSE ran[l]]
      BY <3>1, <3>2, <3>3 DEF Mark
    <3>5. Exec' = Others /\ mask'[s] = LetThrough BY <3>2, <3>3 DEF Mark, Exec
    <3>6. pc' = pc + 1 /\ v' = v /\ start' = start /\ kernel' = kernel /\ halted' = halted
      BY <3>2 DEF Mark, GoOn
    <3>7. ASSUME NEW l \in LetThrough PROVE ran'[l] = SubSeq(yes, 1, DoneYes(p)')
      <4>1. DoneYes(p) = p /\ DoneYes(p)' = p BY <1>0, <2>8, <3>6 DEF DoneYes
      <4>2. ran'[l] = ran[l] BY <1>0, <3>4, <3>7 DEF Others
      <4> QED BY <4>1, <4>2, <3>7 DEF Course
    <3>8. ASSUME NEW l \in Others PROVE ran'[l] = SubSeq(no, 1, DoneNo(p, q)')
      <4> DEFINE n == pc - 7 - p
      <4>0. n \in 0 .. q - 1 /\ pc - 6 - p = n + 1 BY <1>0, <2>8
      <4>1. DoneNo(p, q) = n /\ DoneNo(p, q)' = n + 1
        <5>1. /\ p \in Nat /\ q \in Nat /\ pc \in 7 + p .. 6 + p + q
              /\ pc' = pc + 1
          BY <1>0, <2>8, <3>6
        <5> HIDE DEF p, q
        <5> QED BY <5>1 DEF DoneNo
      <4>2. ran[l] = SubSeq(no, 1, n) BY <4>1, <3>8 DEF Course
      <4>3. ran'[l] = Append(SubSeq(no, 1, n), no[n + 1]) BY <1>0, <3>4, <3>8, <4>0, <4>1, <4>2
      <4> HIDE DEF n
      <4> QED BY <4>0, <4>1, <4>3, TakenSubSeq
    <3>9. Own BY <3>7, <3>8
    <3>10. Masked
      <4>1. p \in Nat /\ q \in Nat /\ pc' \in 8 + p .. 7 + p + q BY <1>0, <2>8, <3>6
      <4> HIDE DEF p, q
      <4> QED BY <3>5, <4>1
    <3>11. Placed BY <1>0, <2>8, <3>6
    <3> QED BY <2>C, <3>6, <3>9, <3>10, <3>11
  <2>9. CASE pc = 7 + p + q
    <3>1. Here.op = "s_or" /\ Here.dst = "exec" /\ Here.a = "exec" /\ Here.b = s
      BY <1>0, <2>9 DEF IfElse
    <3>2. MaskAlu BY <2>0, <3>1, ActionOf DEF AluOps
    <3>3. Exec = Others /\ mask[s] = LetThrough BY <1>0, <2>9 DEF Course
    <3>4. mask' = [mask EXCEPT !["exec"] = Exec \cup mask[s]]
      BY <1>0, <3>1, <3>2 DEF MaskAlu, MaskResult, Src, Exec
    <3>5. Exec' = Lanes BY <1>0, <3>3, <3>4 DEF Exec, Others
    <3>6. pc' = 8 + p + q /\ v' = v /\ start' = start /\ kernel' = kernel /\ ran' = ran
          /\ halted' = halted
      BY <1>0, <2>9, <3>2 DEF MaskAlu, GoOn
    <3>7. DoneYes(p)' = DoneYes(p) /\ DoneNo(p, q)' = DoneNo(p, q)
      BY <1>0, <2>9, <3>6 DEF DoneYes, DoneNo
    <3>8. Masked BY <1>0, <2>9, <3>5, <3>6
    <3>9. Placed BY <1>0, <2>9, <3>6
    <3> QED BY <2>B, <2>C, <3>6, <3>7, <3>8, <3>9
  <2>10. CASE pc = 8 + p + q
    <3>1. Here.op = "s_endpgm" BY <1>0, <2>10 DEF IfElse
    <3>2. EndProgram BY <2>0, <3>1, ActionOf
    <3>3. Exec = Lanes BY <1>0, <2>10 DEF Course
    <3>4. /\ Exec' = Lanes /\ pc' = 9 + p + q /\ halted' = "END"
          /\ v' = v /\ start' = start /\ kernel' = kernel /\ ran' = ran
      BY <1>0, <2>10, <3>2, <3>3 DEF EndProgram, Exec
    <3>5. DoneYes(p)' = DoneYes(p) /\ DoneNo(p, q)' = DoneNo(p, q)
      BY <1>0, <2>10, <3>4 DEF DoneYes, DoneNo
    <3>6. Masked BY <1>0, <3>4
    <3>7. Placed BY <1>0, <3>4
    <3> QED BY <2>B, <2>C, <3>4, <3>5, <3>6, <3>7
  <2>11. \/ pc \in 1 .. 4 \/ pc \in 5 .. 4 + p \/ pc \in {5 + p, 6 + p}
         \/ pc \in 7 + p .. 6 + p + q \/ pc \in {7 + p + q, 8 + p + q}
    <3>1. p \in Nat /\ q \in Nat /\ pc \in Nat /\ pc >= 1 /\ pc <= 8 + p + q BY <1>0, <1>3
    <3> HIDE DEF p, q
    <3> QED BY <3>1
  <2> QED BY <2>1, <2>2, <2>3, <2>4, <2>5, <2>6, <2>7, <2>8, <2>9, <2>10, <2>11
<1>4. pc = 9 + p + q \/ pc <= 8 + p + q
  <2>1. p \in Nat /\ q \in Nat /\ pc \in Nat /\ pc <= 9 + p + q BY <1>0
  <2> HIDE DEF p, q
  <2> QED BY <2>1
<1> QED BY <1>1, <1>2, <1>3, <1>4

LEMMA IfElseInvariant ==
  ASSUME \A x \in Kernels : \E s \in SReg, yes, no \in Seq(Nat) : IfElse(x, s, yes, no)
  PROVE  Spec => []IfElseInv
<1>1. Init => IfElseInv
  <2> SUFFICES ASSUME Init PROVE IfElseInv OBVIOUS
  <2>1. PICK s \in SReg, yes \in Seq(Nat), no \in Seq(Nat) : IfElse(kernel, s, yes, no)
    BY DEF Init
  <2>2. Exec = Lanes BY DEF Init, Exec, MaskReg
  <2>3. Course(s, yes, no)
    <3>1. Len(yes) \in Nat /\ Len(no) \in Nat /\ pc = 1 BY DEF Init
    <3>2. DoneYes(Len(yes)) = 0 /\ DoneNo(Len(yes), Len(no)) = 0 BY <3>1 DEF DoneYes, DoneNo
    <3>3. \A l \in Lanes : ran[l] = <<>> BY DEF Init
    <3>4. LetThrough \subseteq Lanes /\ Others \subseteq Lanes BY DEF LetThrough, Others
    <3>5. SubSeq(yes, 1, 0) = <<>> /\ SubSeq(no, 1, 0) = <<>> BY TakenSubSeq
    <3>6. v = start /\ halted = "NONE" BY DEF Init
    <3>7. /\ \A l \in LetThrough : ran[l] = SubSeq(yes, 1, DoneYes(Len(yes)))
          /\ \A l \in Others : ran[l] = SubSeq(no, 1, DoneNo(Len(yes), Len(no)))
      BY <3>2, <3>3, <3>4, <3>5
    <3> QED BY <2>2, <3>1, <3>6, <3>7 DEF Course
  <2> QED BY <2>1, <2>3 DEF IfElseInv
<1>2. TypeOK /\ IfElseInv /\ [Next]_vars => IfElseInv'
  <2> SUFFICES ASSUME TypeOK, IfElseInv, [Next]_vars PROVE IfElseInv' OBVIOUS
  <2>1. PICK s \in SReg, yes \in Seq(Nat), no \in Seq(Nat) :
          IfElse(kernel, s, yes, no) /\ Course(s, yes, no)
    BY DEF IfElseInv
  <2>2. Course(s, yes, no)' BY <2>1, IfElseStep
  <2>3. kernel' = kernel
    BY DEF Next, Step, PcOverrun, EndProgram, MaskAlu, SaveExec, Compare, CompareX, Vector,
           AddCarryOut, AddCarryIn, Mark, Branch, Halted, GoOn, vars
  <2>4. IfElse(kernel, s, yes, no)' BY <2>1, <2>3 DEF IfElse
  <2> QED BY <2>2, <2>4 DEF IfElseInv
<1> QED BY <1>1, <1>2, TypeCorrect, PTL DEF Spec

\* What the course says of a lane, in the terms of the two properties.
LEMMA CourseOfLane ==
  ASSUME TypeOK, IfElseInv
  PROVE  /\ \A l \in Lanes : \E n \in 0 .. Len(Alone(l).ran) :
              /\ ran[l] = SubSeq(Alone(l).ran, 1, n)
              /\ halted # "NONE" => n = Len(Alone(l).ran)
         /\ \A l \in Lanes : Alone(l).ran \in Seq(Nat) /\ Alone(l).v = v[l]
         /\ halted # "NONE" => halted = "END" /\ kernel.ends /\ Exec = Lanes
<1>1. PICK s \in SReg, yes \in Seq(Nat), no \in Seq(Nat) :
        IfElse(kernel, s, yes, no) /\ Course(s, yes, no)
  BY DEF IfElseInv
<1> DEFINE p == Len(yes)
           q == Len(no)
<1>2. p \in Nat /\ q \in Nat /\ pc \in 1 .. 9 + p + q BY <1>1 DEF Course
<1>3. halted # "NONE" => halted = "END" /\ pc = 9 + p + q /\ kernel.ends /\ Exec = Lanes
  BY <1>1, <1>2 DEF Course, IfElse
<1>4. ASSUME NEW l \in Lanes
      PROVE  /\ Alone(l).ran = (IF l \in LetThrough THEN yes ELSE no)
             /\ Alone(l).v = v[l]
  <2>1. start[l] \in Inputs /\ v = start BY <1>1 DEF TypeOK, Course
  <2>2. Alone(l) = [ran |-> IF Takes(kernel, start[l]) THEN yes ELSE no, v |-> start[l], stops |-> TRUE]
    BY <1>1, <2>1 DEF IfElse, Alone
  <2> QED BY <2>1, <2>2 DEF LetThrough
<1>5. /\ DoneYes(p) \in 0 .. p /\ DoneNo(p, q) \in 0 .. q
      /\ halted # "NONE" => DoneYes(p) = p /\ DoneNo(p, q) = q
  <2> HIDE DEF p, q
  <2> QED BY <1>2, <1>3 DEF DoneYes, DoneNo
<1>6. \A l \in Lanes : ran[l] = IF l \in LetThrough THEN SubSeq(yes, 1, DoneYes(p))
                                                     ELSE SubSeq(no, 1, DoneNo(p, q))
  BY <1>1 DEF Course, Others
<1> QED BY <1>3, <1>4, <1>5, <1>6

(***************************************************************************)
(* The if/else of op_s_andn2_saveexec_b32's docstring, for any wave, any   *)
(* condition and any number of instructions on either side: no lane makes  *)
(* a step of the other side or out of turn, and when the kernel ends every *)
(* lane has made all of its own and all of the lanes are active again.     *)
(***************************************************************************)
THEOREM IfElseIsRight ==
  ASSUME \A x \in Kernels : \E s \in SReg, yes, no \in Seq(Nat) : IfElse(x, s, yes, no)
  PROVE  Spec => [](OwnWay /\ AllTheWay)
<1>1. TypeOK /\ IfElseInv => OwnWay /\ AllTheWay
  <2> SUFFICES ASSUME TypeOK, IfElseInv PROVE OwnWay /\ AllTheWay OBVIOUS
  <2>1. ASSUME NEW l \in Lanes
        PROVE  /\ Len(ran[l]) <= Len(Alone(l).ran)
               /\ ran[l] = SubSeq(Alone(l).ran, 1, Len(ran[l]))
               /\ halted # "NONE" => ran[l] = Alone(l).ran
    <3> DEFINE a == Alone(l).ran
    <3>1. PICK n \in 0 .. Len(a) : ran[l] = SubSeq(a, 1, n) /\ (halted # "NONE" => n = Len(a))
      BY CourseOfLane
    <3>2. a \in Seq(Nat) BY CourseOfLane
    <3> HIDE DEF a
    <3>3. Len(ran[l]) = n /\ Len(a) \in Nat BY <3>1, <3>2, TakenSubSeq
    <3>4. Len(ran[l]) <= Len(a) /\ ran[l] = SubSeq(a, 1, Len(ran[l]))
          /\ (halted # "NONE" => ran[l] = a)
      BY <3>1, <3>2, <3>3, TakenSubSeq
    <3> QED BY <3>4 DEF a
  <2>2. OwnWay BY <2>1 DEF OwnWay
  <2>3. halted # "CYCLE" BY DEF TypeOK
  <2>4. AllTheWay BY <2>1, <2>3, CourseOfLane DEF AllTheWay
  <2> QED BY <2>2, <2>4
<1> QED BY <1>1, TypeCorrect, IfElseInvariant, PTL

=============================================================================
