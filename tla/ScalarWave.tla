------------------------------ MODULE ScalarWave ------------------------------
(***************************************************************************)
(* A wave that executes scalar instructions, one after the other, in any   *)
(* order a kernel may have them: first the conformance suite, one vector   *)
(* after the other, then a kernel.  At every state the two programs that   *)
(* say what an instruction does, the emulator and the oracle, are compared *)
(* and the instructions are compared with each other.                      *)
(*                                                                         *)
(* A kernel gets the address of what lies beside its code by s_getpc_b64,  *)
(* s_add_u32 and s_addc_u32.  find_sites (p16h_lib.py) reads such a site   *)
(* off the listing, and what it finds is patched; the wave computes it.    *)
(***************************************************************************)
EXTENDS ScalarSuite

CONSTANTS
  Instrs,      \* the instructions compared
  Kernel,      \* those a kernel is made of
  SiteInstrs,  \* what follows an s_getpc_b64
  Fillers,     \* the mnemonics a profile lets stand between
  Laws         \* an instruction, and instructions that do the same together

Window == 4    \* s_getpc_b64 and the three instructions find_sites looks at

\* What an instruction may be replaced by.  An inverted operand, result or
\* subtrahend:
Inverts(l) ==
  \E d, a \in SRegs :
    /\ d # a
    /\ l \in {Law(I("s_andn2_b32", d, a, d), <<I("s_not_b32", d, d, Null), I("s_and_b32", d, a, d)>>),
              Law(I("s_orn2_b32", d, a, d), <<I("s_not_b32", d, d, Null), I("s_or_b32", d, a, d)>>),
              Law(I("s_orn2_b32", d, a, d), <<I("s_or_not1_b32", d, a, d)>>),
              Law(I("s_nor_b32", d, a, d), <<I("s_or_b32", d, a, d), I("s_not_b32", d, d, Null)>>),
              Law(I("s_sub_i32", d, a, d),
                  <<I("s_not_b32", d, d, Null), I("s_addk_i32", d, K(1), Null), I("s_add_i32", d, a, d)>>)}

\* Doubling a pair adds it to itself with the carry, and a shift by a word
\* moves the low word up.
ShiftsPair(l) ==
  \E n \in 0 .. NRegs - 2 :
    l \in {Law(I("s_lshl_b64", P(n), P(n), K(1)),
               <<I("s_add_u32", S(n), S(n), S(n)), I("s_addc_u32", S(n + 1), S(n + 1), S(n + 1))>>),
           Law(I("s_lshl_b64", P(n), P(n), K(W)),
               <<I("s_mov_b32", S(n + 1), S(n), Null), I("s_mov_b32", S(n), K(0), Null)>>)}

\* A field by two shifts, and in either form; a signed one ends below the top.
FourForm(op, d, a, off, w) == [I(op, d, a, K(off)) EXCEPT !.c = K(w)]

TakesField(l) ==
  \E d, a \in SRegs, off \in 0 .. W - 1, w \in 1 .. W - 1 :
    /\ off + w <= W
    /\ \/ l = Law(I("s_bfe_u32", d, a, Field(off, w)),
                  <<I("s_lshl_b32", d, a, K(W - off - w)), I("s_lshr_b32", d, d, K(W - w))>>)
       \/ /\ off + w < W
          /\ l = Law(I("s_bfe_i32", d, a, Field(off, w)),
                     <<I("s_lshl_b32", d, a, K(W - off - w)), I("s_ashr_i32", d, d, K(W - w))>>)
       \/ \E op \in {"s_bfe_u32", "s_bfe_i32"} :
            l = Law(FourForm(op, d, a, off, w), <<I(op, d, a, Field(off, w))>>)

\* A sign extension is a field.
Extends(l) ==
  \E d, a \in SRegs :
    l \in {Law(I("s_sext_i32_i8", d, a, Null), <<I("s_bfe_i32", d, a, Field(0, ByteBits))>>),
           Law(I("s_sext_i32_i16", d, a, Null), <<FourForm("s_bfe_i32", d, a, 0, HalfBits)>>)}

\* A minimum, a maximum and an absolute value by compare and select.
Chooses(l) ==
  \E d, a, b \in SRegs :
    \/ l \in {Law(I("s_min_i32", d, a, b), <<I("s_cmp_lt_i32", Null, a, b), I("s_cselect_b32", d, a, b)>>),
              Law(I("s_max_i32", d, a, b), <<I("s_cmp_gt_i32", Null, a, b), I("s_cselect_b32", d, a, b)>>)}
    \/ /\ d # a
       /\ l = Law(I("s_abs_i32", d, a, Null), <<I("s_sub_i32", d, K(0), a), I("s_max_i32", d, a, d)>>)

ASSUME SizeAssumption == NRegs \in Nat /\ TextBase \in Nat
ASSUME InstrsAssumption ==
  /\ \A i \in Instrs : WellFormed(i)
  /\ SiteInstrs \cup Kernel \subseteq Instrs
ASSUME LawsAssumption ==
  \A l \in Laws : Inverts(l) \/ ShiftsPair(l) \/ TakesField(l) \/ Extends(l) \/ Chooses(l)

VARIABLES
  st,      \* the SGPRs, SCC and EXEC
  vector,  \* the vector of the suite that comes next; after the last, a kernel
  listing  \* observed: the instructions since the last s_getpc_b64

vars == <<st, vector, listing>>

InSuite == vector <= Len(Vectors)
Start == [s |-> [n \in Reg |-> 0], scc |-> 0, exec |-> Top]

Init == vector = 1 /\ st = Vectors[1].st /\ listing = <<>>

\* The suite sets up the next vector, or is done.
NextVector ==
  /\ InSuite
  /\ vector' = vector + 1
  /\ st' = IF vector < Len(Vectors) THEN Vectors[vector + 1].st ELSE Start
  /\ UNCHANGED listing

\* The loads of a kernel put any words in the SGPRs.
Load ==
  /\ ~InSuite /\ st = Start /\ listing = <<>>
  /\ \E s \in [Reg -> Word] : st' = [st EXCEPT !.s = s]
  /\ UNCHANGED <<vector, listing>>

Execute(i) ==
  /\ ~InSuite
  /\ st' = Result(i, st)
  /\ listing' = IF i.op = "s_getpc_b64" THEN <<i>>
                ELSE IF listing # <<>> /\ Len(listing) < Window THEN Append(listing, i)
                ELSE <<>>
  /\ UNCHANGED vector

Next == NextVector \/ Load \/ \E i \in IF listing = <<>> THEN Kernel ELSE SiteInstrs : Execute(i)
Spec == Init /\ [][Next]_vars

TypeOK ==
  /\ vector \in 1 .. Len(Vectors) + 1
  /\ ~InSuite => st \in State
  /\ listing \in Seq(Instrs) /\ Len(listing) <= Window

-----------------------------------------------------------------------------
(* find_sites.                                                             *)

\* ADD_RE and ADDC_RE: two registers and a literal.  Which registers is not
\* looked at.
IsAdd(i, op) == i.op = op /\ i.d.t = "s" /\ i.a.t = "s" /\ i.b.t = "lit"

\* The first s_add_u32 behind the s_getpc_b64, and the first s_addc_u32 behind
\* that; 0 when there is none.
First(code, op, from) ==
  LET at == {k \in from .. Len(code) : IsAdd(code[k], op)}
  IN  IF at = {} THEN 0 ELSE CHOOSE k \in at : \A j \in at : k <= j

LowAt(code) == First(code, "s_add_u32", 2)
HighAt(code) == IF LowAt(code) = 0 THEN 0 ELSE First(code, "s_addc_u32", LowAt(code) + 1)

\* What stands between the s_getpc_b64 and the s_add_u32; not what stands
\* between that and the s_addc_u32.
Skipped(code) == 2 .. IF LowAt(code) = 0 THEN Len(code) ELSE LowAt(code) - 1

\* A site, by a profile: every instruction skipped is a filler, and both halves
\* are there.
Site(code) ==
  /\ \A k \in Skipped(code) : code[k].op \in Fillers
  /\ HighAt(code) # 0

SiteTarget(code) ==
  LET lo == Mask(code[LowAt(code)].b.n)
      hi == Mask(code[HighAt(code)].b.n)
  IN  Mask2(code[1].a.n + 4 + Pair(lo, hi))

-----------------------------------------------------------------------------
(* Where the emulator and the oracle part.                                 *)

Negative(o) == o.t = "lit" /\ o.n < 0

\* The instructions whose result is read off a negative literal that is not cut
\* to a word: a carry, the high half of a product, a shift to the right, a pair.
UncutLiteral(i) ==
  \/ /\ i.op \in {"s_add_u32", "s_addc_u32", "s_mul_hi_u32", "s_lshr_b32", "s_bfe_i32", "s_mov_b64",
                  "s_lshl_b64", "s_cmp_eq_u64"}
     /\ Negative(i.a)
  \/ /\ i.op \in {"s_add_u32", "s_addc_u32", "s_mul_hi_u32", "s_cmp_eq_u64"}
     /\ Negative(i.b)

\* A bit field as wide as a word, or wider.
FullField(i) ==
  /\ i.op \in {"s_bfe_u32", "s_bfe_i32"}
  /\ i.b.t = "field" /\ FieldWidth(i.b.n) >= W

\* The four-operand form, which the oracle reads as a packed one.
FourOperands(i) == i.op \in {"s_bfe_u32", "s_bfe_i32"} /\ i.b.t # "field"

\* s_max_i32 sets SCC, and the oracle has no SCC for it.
FlagOnly(i) == i.op = "s_max_i32"

\* The operand s_andn2_saveexec_b32 inverts.
OtherMask(i) == i.op = "s_andn2_saveexec_b32"

\* A literal of s_movk_i32 that has the sign of half a word.
LongLiteral(i) == i.op = "s_movk_i32" /\ i.a.n >= Pow2[HalfBits - 1]

Disputed(i) ==
  UncutLiteral(i) \/ FullField(i) \/ FourOperands(i) \/ FlagOnly(i) \/ OtherMask(i) \/ LongLiteral(i)

-----------------------------------------------------------------------------

\* Outside of what Disputed lists, an instruction does in the emulator what the
\* oracle says, at every state a kernel reaches; and the frozen emulator does
\* what the current one does, except that it shares the oracle's reading of
\* s_andn2_saveexec_b32.
ReadingsAgree ==
  ~InSuite /\ listing = <<>> =>
    \A i \in Instrs :
      /\ i.op \in Said /\ ~Disputed(i) => Result(i, st) = Oracle(i, st)
      /\ i.op \in FrozenOps /\ i.b.t # "field" =>
           Frozen(i, st) = IF OtherMask(i) THEN Oracle(i, st) ELSE Result(i, st)

\* A vector is what its note says: it tells the wrong implementations the note
\* names from the right one, and the answer is the one the note gives.
NoteHolds(v) ==
  LET answer == Says(v.i, v.st)
  IN  /\ \A wrong \in v.traps : Says(wrong, v.st) # answer
      /\ \A f \in DOMAIN v.said : answer[f] = v.said[f]

\* The suite passes, but for its vector of s_andn2_saveexec_b32; and the notes of
\* build_scalar_vectors hold, but for three: bitcmp1_bit0 cannot tell an index
\* that is ignored, and two fields are not where their notes have them.
SuiteTells ==
  InSuite =>
    LET v == Vectors[vector]
    IN  /\ v.i.op \in Emulated => (Result(v.i, v.st) = Oracle(v.i, v.st) <=> ~OtherMask(v.i))
        /\ v.holds <=> NoteHolds(v)

\* A sum of two words, each with the carry of the one before it, is the sum of
\* double words, and SCC the carry out of it.
AddsUp(lo, hi) ==
  LET after == Run(<<I("s_add_u32", S(0), S(0), K(lo)), I("s_addc_u32", S(1), S(1), K(hi))>>, st)
      sum == GetPair(st, P(0)) + Pair(lo, hi)
  IN  GetPair(after, P(0)) = Mask2(sum) /\ (after.scc = 1 <=> sum # Mask2(sum))

WideSum == ~InSuite /\ listing = <<>> => \A lo, hi \in {0, 1, Sign - 1, Top} : AddsUp(lo, hi)

\* A kernel may use one instruction for several, as compilers do: both leave
\* the same value where the result belongs.  Two additions are one of double
\* words, for all words.
LawsHold ==
  /\ WideSum
  /\ ~InSuite /\ listing = <<>> =>
       \A l \in Laws : GetPair(Result(l.one, st), l.one.d) = GetPair(Run(l.many, st), l.one.d)

\* When find_sites accepts a site whose two additions are neighbours and work
\* on the pair of the s_getpc_b64, the wave computes the address it reports
\* (in the module the model has placed at TextBase).
SiteIsComputed ==
  LET code == listing
      lo == LowAt(code)
      hi == HighAt(code)
      pair == code[1].d
  IN  /\ code # <<>>
      /\ Site(code)
      /\ hi = Len(code) /\ hi = lo + 1
      /\ \A o \in {code[lo].d, code[lo].a} : o = S(pair.n)
      /\ \A o \in {code[hi].d, code[hi].a} : o = S(pair.n + 1)
      /\ code[lo].b.n >= 0
      => GetPair(st, pair) = Mask2(TextBase + SiteTarget(code))

\* As the docstring of find_sites has it: a site is only accepted when its
\* additions write the pair of the s_getpc_b64.
SiteWritesItsPair ==
  listing # <<>> /\ Site(listing) =>
    LET pair == listing[1].d
    IN  /\ listing[LowAt(listing)].d = S(pair.n)
        /\ listing[HighAt(listing)].d = S(pair.n + 1)
=============================================================================
