----------------------------- MODULE MCExecMask ------------------------------
(***************************************************************************)
(* Small instances of CycleDetect: structured programs, what they do for   *)
(* one lane, and the code a compiler makes of them.  The first way to      *)
(* write an if is quoted in the docstring of op_s_andn2_saveexec_b32       *)
(* (emu.py); the others are what the same compiler emits elsewhere.        *)
(***************************************************************************)
EXTENDS CycleDetect, TLC, FiniteSetsExt

MCLanes == {0, 1, 2}
MCSReg == {"s0", "s1", "s9"}
MCVReg == {"v0", "v1"}

\* v0 steers the branches and loops; v1 is the high half of a sum.
MCInputs == {[v0 |-> 0, v1 |-> 3], [v0 |-> 1, v1 |-> 1], [v0 |-> 2, v1 |-> 3], [v0 |-> 3, v1 |-> 0]}

Saved == <<"s0", "s1">>   \* the mask an if or a loop keeps, by depth

-----------------------------------------------------------------------------
(* The programs.                                                           *)

M(k) == [t |-> "mark", k |-> k]
Dec == [t |-> "dec"]
Wide(lo, hi) == [t |-> "wide", lo |-> lo, hi |-> hi]
Pick(rel, k) == [t |-> "pick", rel |-> rel, k |-> k]
If(idiom, rel, k, yes, no) ==
  [t |-> "if", idiom |-> idiom, rel |-> rel, k |-> k, yes |-> yes, no |-> no]
Set(k) == [t |-> "set", k |-> k]
Repeat(idiom, rel, k, body) ==
  [t |-> "repeat", idiom |-> idiom, rel |-> rel, k |-> k, body |-> body]

RECURSIVE Lane(_, _)

\* What the program p does for a lane whose state is x, on its own.  A loop whose
\* body only sets v1 is left at once or never.
Lane(p, x) ==
  IF p = <<>> \/ ~x.stops THEN x
  ELSE
    LET n == Head(p)
        v0 == x.v["v0"]
        v1 == x.v["v1"]
        y == CASE n.t = "mark" -> [x EXCEPT !.ran = Append(@, n.k)]
               [] n.t = "dec"  -> [x EXCEPT !.v["v0"] = (v0 + 3) % 4]
               [] n.t = "set"  -> [x EXCEPT !.v["v1"] = n.k]
               [] n.t = "wide" ->
                    LET sum == v0 + 4 * v1 + n.lo + 4 * n.hi
                    IN  [x EXCEPT !.v = [v0 |-> sum % 4, v1 |-> (sum \div 4) % 4]]
               [] n.t = "pick" -> [x EXCEPT !.v["v1"] = IF Compares(n.rel, n.k, v0) THEN v0 ELSE v1]
               [] n.t = "if"   -> Lane(IF Compares(n.rel, n.k, v0) THEN n.yes ELSE n.no, x)
               [] n.t = "repeat" /\ n.idiom = "head" ->
                    IF Compares(n.rel, n.k, v0) THEN Lane(Append(n.body, n), x) ELSE x
               [] OTHER ->
                    LET once == Lane(n.body, x)
                    IN  IF ~Compares(n.rel, n.k, once.v["v0"]) THEN once
                        ELSE IF n.body = <<Set(1)>> THEN [once EXCEPT !.stops = FALSE]
                        ELSE Lane(<<n>>, once)
    IN  Lane(Tail(p), y)

-----------------------------------------------------------------------------
(* The code.                                                               *)

I(op) == [op |-> op, dst |-> "none", a |-> "none", b |-> "none", cond |-> "none",
          out |-> "none", rel |-> "eq", k |-> 0, to |-> 1]
Alu(op, dst, a, b) == [I(op) EXCEPT !.dst = dst, !.a = a, !.b = b]
Cmp(op, dst, rel, k) ==
  [I(op) EXCEPT !.dst = dst, !.rel = rel, !.k = k, !.a = "lit", !.b = "v0"]
Jump(op, to) == [I(op) EXCEPT !.to = to]

Negated(rel) == CASE rel = "eq" -> "ne" [] rel = "ne" -> "eq" [] rel = "lt" -> "ge"
                  [] rel = "gt" -> "le" [] rel = "le" -> "gt" [] rel = "ge" -> "lt"

Guards == {"vccz", "not1"}

RECURSIVE Compile(_, _, _)

\* An if: head, yes, middle, no, join; the branches over an empty part too.
CompileIf(n, at, d) ==
  LET s == Saved[d]
      cmpx == Cmp("v_cmpx", "exec", n.rel, n.k)
      cmp == Cmp("v_cmp", "vcc", n.rel, n.k)
      head == CASE n.idiom = "cmpx" -> <<Alu("s_mov", s, "exec", "none"), cmpx,
                                         Alu("s_xor", s, "exec", s)>>
                [] n.idiom = "save" -> <<cmp, Alu("s_and_saveexec", s, "vcc", "none"),
                                         Alu("s_xor", s, "exec", s)>>
                [] n.idiom = "xor"  -> <<Alu("s_mov", s, "exec", "none"), cmpx>>
      middle == CASE n.idiom = "cmpx" -> <<Alu("s_andn2_saveexec", s, s, "none")>>
                  [] n.idiom = "save" -> <<Alu("s_or_saveexec", s, s, "none"),
                                           Alu("s_xor", "exec", "exec", s)>>
                  [] n.idiom = "xor"  -> <<Alu("s_xor_saveexec", s, s, "none")>>
      yesAt == at + Len(head) + 1
      yes == Compile(n.yes, yesAt, d + 1)
      elseAt == yesAt + Len(yes)
      noAt == elseAt + Len(middle) + 1
      no == Compile(n.no, noAt, d + 1)
  IN  head \o <<Jump("s_cbranch_execz", elseAt)>> \o yes \o middle
        \o <<Jump("s_cbranch_execz", noAt + Len(no))>> \o no
        \o <<Alu("s_or", "exec", "exec", s)>>

\* An if without an else that is skipped when no lane takes it: as VCC says, or
\* as EXEC says after the lanes that do not take it have been taken out.
CompileGuard(n, at, d) ==
  LET s == Saved[d]
      yes == Compile(n.yes, at + 3, d + 1)
      join == at + 3 + Len(yes)
      head == IF n.idiom = "vccz"
                THEN <<Cmp("v_cmp", "vcc", n.rel, n.k), Jump("s_cbranch_vccz", join + 1),
                       Alu("s_and_saveexec", s, "vcc", "none")>>
                ELSE <<Cmp("v_cmp", "vcc", Negated(n.rel), n.k),
                       Alu("s_and_not1_saveexec", s, "vcc", "none"),
                       Jump("s_cbranch_execz", join)>>
  IN  head \o yes \o <<Alu("s_mov", "exec", s, "none")>>

\* Loops: the lanes that leave are collected ("tail", "head"), or those that
\* stay are kept ("stay").
CompileLoop(n, at, d) ==
  LET s == Saved[d]
      leave == <<Cmp("v_cmp", "vcc", Negated(n.rel), n.k), Alu("s_or", s, "vcc", s),
                 Alu("s_andn2", "exec", "exec", s)>>
      bodyAt == IF n.idiom = "head" THEN at + 5 ELSE at + 1
      body == Compile(n.body, bodyAt, d + 1)
  IN  CASE n.idiom = "tail" ->
             <<Alu("s_mov", s, "none", "none")>> \o body \o leave
               \o <<Jump("s_cbranch_execnz", bodyAt), Alu("s_or", "exec", "exec", s)>>
        [] n.idiom = "stay" ->
             <<Alu("s_mov", s, "exec", "none")>> \o body
               \o <<Cmp("v_cmp", "vcc", n.rel, n.k), Alu("s_and", "exec", "exec", "vcc"),
                    Jump("s_cbranch_vccnz", bodyAt), Alu("s_mov", "exec", s, "none")>>
        [] n.idiom = "head" ->
             <<Alu("s_mov", s, "none", "none")>> \o leave
               \o <<Jump("s_cbranch_execz", bodyAt + Len(body) + 1)>> \o body
               \o <<Jump("s_branch", at + 1), Alu("s_or", "exec", "exec", s)>>

\* The code of program p from address at on, d masks deep.
Compile(p, at, d) ==
  IF p = <<>> THEN <<>>
  ELSE
    LET n == Head(p)
        code ==
          CASE n.t = "mark" -> <<[I("mark") EXCEPT !.k = n.k]>>
            [] n.t = "dec"  -> <<[Alu("v_add_nc", "v0", "v0", "lit") EXCEPT !.k = 3]>>
            [] n.t = "set"  -> <<[Alu("v_mov", "v1", "lit", "none") EXCEPT !.k = n.k]>>
            [] n.t = "wide" ->
                 <<[Alu("v_add_co", "v0", "v0", "lit") EXCEPT !.k = n.lo, !.out = "s9"],
                   [Alu("v_add_co_ci", "v1", "v1", "lit") EXCEPT !.k = n.hi, !.cond = "s9",
                                                                 !.out = "vcc"]>>
            [] n.t = "pick" ->
                 <<Cmp("v_cmp", "s9", n.rel, n.k),
                   [Alu("v_cndmask", "v1", "v1", "v0") EXCEPT !.cond = "s9"]>>
            [] n.t = "if" /\ n.idiom \in Guards -> CompileGuard(n, at, d)
            [] n.t = "if" /\ n.idiom \notin Guards -> CompileIf(n, at, d)
            [] n.t = "repeat" -> CompileLoop(n, at, d)
    IN  code \o Compile(Tail(p), at + Len(code), d)

\* The function f, tabulated once.
Table(f) == FoldSet(LAMBDA x, g : (x :> f[x]) @@ g, <<>>, DOMAIN f)

Kernel(p, ends) ==
  [code |-> Compile(p, 1, 1) \o (IF ends THEN <<I("s_endpgm")>> ELSE <<>>),
   ends |-> ends,
   does |-> Table([x \in MCInputs |-> Lane(p, [ran |-> <<>>, v |-> x, stops |-> TRUE])])]

-----------------------------------------------------------------------------

Ifs == {"cmpx", "save", "xor"}
Loops == {"tail", "stay", "head"}

\* Every way to write an if around every way to write a loop, and around
\* another if; a loop around an if that changes who stays in it; and a loop that
\* some lanes never leave.
Programs ==
  [form : {"loop in if"}, outer : Ifs, inner : Loops] \cup
  [form : {"if in if"}, outer : Ifs, inner : Ifs \cup Guards] \cup
  [form : {"if in loop"}, outer : Loops, inner : Ifs] \cup
  [form : {"spin"}, outer : Ifs, inner : {"tail", "stay"}] \cup
  {[form |-> "documented"]}

Source(n) ==
  CASE n.form = "loop in if" ->
         <<If(n.outer, "lt", 1, <<M(1), Repeat(n.inner, "ne", 0, <<M(2), Dec>>)>>,
                                <<M(3), Wide(3, 1)>>), M(4)>>
    [] n.form = "if in if" ->
         <<If(n.outer, "ge", 2, <<If(n.inner, "eq", 0, <<M(1)>>, <<>>), M(2)>>,
                                <<Pick("ne", 3), M(3)>>), M(4)>>
    [] n.form = "if in loop" ->
         <<Repeat(n.outer, "ne", 0, <<If(n.inner, "eq", 3, <<Wide(2, 2)>>, <<M(5), Dec>>)>>),
           M(6)>>
    [] n.form = "spin" ->
         <<If(n.outer, "ge", 2, <<M(1), Repeat(n.inner, "eq", 1, <<Set(1)>>)>>, <<M(2)>>), M(3)>>
    [] n.form = "documented" -> <<If("cmpx", "ne", 0, <<M(1), M(2)>>, <<M(3)>>)>>

\* One of them has lost its s_endpgm.
MCKernels == {Kernel(Source(n), ~(n.form = "if in if" /\ n.outer = "save" /\ n.inner = "save")) :
                n \in Programs}

\* The theorem about the documented if/else is about kernels that there are.
ASSUME DocumentedAssumption == \E x \in MCKernels : IfElse(x, "s0", <<1, 2>>, <<3>>)

=============================================================================
