----------------------------- MODULE Laws_proofs -----------------------------
(***************************************************************************)
(* The instructions that may stand for several, first scalar ones and      *)
(* then, lane by lane, vector ones: for every width of a word, all         *)
(* registers, literals and masks, and at every state.                      *)
(*                                                                         *)
(* The scalar instructions compute with numbers, so most of their laws are *)
(* about quotients, remainders and bits.  The vector ones are reduced to   *)
(* one lane: what an instruction leaves in a lane that is on, what it      *)
(* leaves in the others, and that no lane reads another's registers.       *)
(***************************************************************************)
EXTENDS Wave_proofs

-----------------------------------------------------------------------------
(* Instructions, one after the other.                                      *)

\* The states behind the first m instructions.
RunsTo(f, code, m, st0) == f = [n \in 0 .. m |-> IF n = 0 THEN st0 ELSE Result(code[n], f[n - 1])]

\* The same without the domain.
Follow(f, code, m, st0) == f[0] = st0 /\ \A n \in 1 .. m : f[n] = Result(code[n], f[n - 1])

\* The states behind the first instructions exist, however many they are.
LEMMA RunsExist ==
  ASSUME NEW code, NEW st0
  PROVE  \A m \in Nat : \E f : RunsTo(f, code, m, st0)
<1> DEFINE Holding == {m \in Nat : \E f : RunsTo(f, code, m, st0)}
<1>1. 0 \in Holding
  <2>1. RunsTo([n \in 0 .. 0 |-> st0], code, 0, st0)  BY DEF RunsTo
  <2> QED  BY <2>1
<1>2. ASSUME NEW m \in Nat, m \in Holding PROVE m + 1 \in Holding
  <2>1. PICK f : RunsTo(f, code, m, st0)  BY <1>2
  <2> DEFINE next == Result(code[m + 1], f[m])
             g == [n \in 0 .. m + 1 |-> IF n = m + 1 THEN next ELSE f[n]]
             h == [n \in 0 .. m + 1 |-> IF n = 0 THEN st0 ELSE Result(code[n], g[n - 1])]
  <2>2. \A n \in 0 .. m : f[n] = IF n = 0 THEN st0 ELSE Result(code[n], f[n - 1])
    BY <2>1 DEF RunsTo
  <2>3. \A n \in 0 .. m : n \in 0 .. m + 1 /\ n # m + 1 /\ (n # 0 => n - 1 \in 0 .. m)
    OBVIOUS
  <2>4. m + 1 \in 0 .. m + 1 /\ m + 1 # 0 /\ (m + 1) - 1 = m /\ m \in 0 .. m /\ \A n \in 0 .. m + 1 : n = m + 1 \/ n \in 0 .. m
    OBVIOUS
  <2>5. (\A n \in 0 .. m : g[n] = f[n]) /\ g[m + 1] = next
    <3> HIDE DEF next
    <3> QED  BY <2>3, <2>4
  <2>6. (\A n \in 0 .. m + 1 : h[n] = IF n = 0 THEN st0 ELSE Result(code[n], g[n - 1])) /\ DOMAIN h = 0 .. m + 1
    <3> HIDE DEF g
    <3> QED  OBVIOUS
  <2>7. DOMAIN g = 0 .. m + 1 /\ g = [n \in 0 .. m + 1 |-> g[n]] /\ h = [n \in 0 .. m + 1 |-> h[n]]
    OBVIOUS
  <2> HIDE DEF g, h
  <2>8. \A n \in 0 .. m + 1 : h[n] = g[n]
    <3> SUFFICES ASSUME NEW n \in 0 .. m + 1 PROVE h[n] = g[n]
      OBVIOUS
    <3>1. CASE n = m + 1
      <4>1. h[n] = Result(code[m + 1], g[m])  BY <2>4, <2>6, <3>1
      <4> QED  BY <2>4, <2>5, <3>1, <4>1
    <3>2. CASE n \in 0 .. m
      <4>1. CASE n = 0  BY <2>2, <2>5, <2>6, <3>2, <4>1
      <4>2. CASE n # 0
        <5>1. h[n] = Result(code[n], g[n - 1]) /\ g[n - 1] = f[n - 1]  BY <2>3, <2>5, <2>6, <3>2, <4>2
        <5> QED  BY <2>2, <2>5, <3>2, <4>2, <5>1
      <4> QED  BY <4>1, <4>2
    <3> QED  BY <2>4, <3>1, <3>2
  <2>9. g = h  BY <2>7, <2>8
  <2>10. RunsTo(g, code, m + 1, st0)  BY <2>9 DEF RunsTo, h
  <2> QED  BY <2>10
<1>3. Nat \subseteq Holding
  <2> HIDE DEF Holding
  <2> QED  BY <1>1, <1>2, Induction
<1> QED  BY <1>3

\* What Run leaves is the last of these states.
LEMMA RunIs ==
  ASSUME NEW code, NEW st0, NEW m \in Nat, Len(code) = m
  PROVE  \E f : Run(code, st0) = f[m] /\ Follow(f, code, m, st0)
<1> DEFINE f == CHOOSE f : RunsTo(f, code, m, st0)
<1>1. RunsTo(f, code, m, st0)  BY RunsExist
<1>2. Run(code, st0) = f[m]  BY DEF Run, RunsTo
<1> HIDE DEF f
<1>4. \A n \in 0 .. m : f[n] = IF n = 0 THEN st0 ELSE Result(code[n], f[n - 1])  BY <1>1 DEF RunsTo
<1>5. 0 \in 0 .. m /\ \A n \in 1 .. m : n \in 0 .. m /\ n # 0  OBVIOUS
<1>6. Follow(f, code, m, st0)  BY <1>4, <1>5 DEF Follow
<1> QED  BY <1>2, <1>6

\* One instruction on its own.
LEMMA RunOfOne ==
  ASSUME NEW i, NEW st0
  PROVE  Run(<<i>>, st0) = Result(i, st0)
<1> DEFINE code == <<i>>
<1>1. Len(code) = 1 /\ code[1] = i /\ 1 \in 1 .. 1 /\ 1 - 1 = 0  OBVIOUS
<1> HIDE DEF code
<1>2. PICK f : Run(code, st0) = f[1] /\ f[0] = st0 /\ \A n \in 1 .. 1 : f[n] = Result(code[n], f[n - 1])
  <2> DEFINE m == 1
  <2>1. m \in Nat /\ Len(code) = m  BY <1>1
  <2> HIDE DEF m
  <2>2. PICK f : Run(code, st0) = f[m] /\ Follow(f, code, m, st0)  BY <2>1, RunIs, Zenon
  <2> QED  BY <2>2 DEF m, Follow
<1> QED  BY <1>1, <1>2 DEF code

\* Three instructions, one after the other.
LEMMA RunOfThree ==
  ASSUME NEW i, NEW j, NEW k, NEW st0
  PROVE  Run(<<i, j, k>>, st0) = Result(k, Result(j, Result(i, st0)))
<1> DEFINE code == <<i, j, k>>
<1>1. /\ Len(code) = 3 /\ code[1] = i /\ code[2] = j /\ code[3] = k
      /\ 1 \in 1 .. 3 /\ 2 \in 1 .. 3 /\ 3 \in 1 .. 3 /\ 1 - 1 = 0 /\ 2 - 1 = 1 /\ 3 - 1 = 2
  OBVIOUS
<1> HIDE DEF code
<1>2. PICK f : Run(code, st0) = f[3] /\ f[0] = st0 /\ \A n \in 1 .. 3 : f[n] = Result(code[n], f[n - 1])
  <2> DEFINE m == 3
  <2>1. m \in Nat /\ Len(code) = m  BY <1>1
  <2> HIDE DEF m
  <2>2. PICK f : Run(code, st0) = f[m] /\ Follow(f, code, m, st0)  BY <2>1, RunIs, Zenon
  <2> QED  BY <2>2 DEF m, Follow
<1>3. f[1] = Result(i, st0) /\ f[2] = Result(j, f[1]) /\ f[3] = Result(k, f[2])  BY <1>1, <1>2
<1> QED  BY <1>2, <1>3 DEF code

-----------------------------------------------------------------------------
(* What one scalar instruction does, several do.                           *)

\* SGPRs are told apart by their numbers.
LEMMA SRegsApart ==
  ASSUME NEW d \in SRegs, NEW o \in SRegs
  PROVE  d.t = "s" /\ d.n \in Reg /\ (d = o <=> d.n = o.n)
BY DEF SRegs

\* An SGPR holds a word.
LEMMA SRegOperand ==
  ASSUME NEW st0 \in State, NEW o \in SRegs
  PROVE  Get(st0, o) \in Word /\ Get(st0, o) \in Int /\ Mask(Get(st0, o)) = Get(st0, o) /\ GetPair(st0, o) = Get(st0, o)
<1>1. Get(st0, o) \in Word /\ GetPair(st0, o) = Get(st0, o)  BY SRegsApart DEF Get, GetPair, State
<1> QED  BY <1>1, MaskOfWord

\* What is written to an SGPR is read there, and the others and SCC stay.
LEMMA SetReads ==
  ASSUME NEW st0 \in State, NEW d \in SRegs, NEW x \in Int
  PROVE  /\ Set(st0, d, x) \in State
         /\ GetPair(Set(st0, d, x), d) = Mask(x) /\ Get(Set(st0, d, x), d) = Mask(x)
         /\ \A o \in SRegs : o # d => Get(Set(st0, d, x), o) = Get(st0, o)
         /\ Set(st0, d, x).scc = st0.scc
         /\ \A b : GetPair(Flag(Set(st0, d, x), b), d) = Mask(x)
<1>1. Set(st0, d, x) = [st0 EXCEPT !.s[d.n] = Mask(x)] /\ d.n \in Reg  BY SRegsApart DEF Set
<1>2. Mask(x) \in Word  BY MaskType
<1> DEFINE y == Set(st0, d, x)
<1>3. /\ y \in State /\ y.scc = st0.scc /\ y.s[d.n] = Mask(x)
      /\ \A n \in Reg : n # d.n => y.s[n] = st0.s[n]
  BY <1>1, <1>2 DEF State
<1> HIDE DEF y
<1>4. \A o \in SRegs : \A z : GetPair(z, o) = z.s[o.n] /\ Get(z, o) = z.s[o.n]  BY SRegsApart DEF GetPair, Get
<1>5. \A b : Flag(y, b).s = y.s  BY <1>3 DEF Flag, State
<1>6. \A o \in SRegs : o # d => o.n \in Reg /\ o.n # d.n  BY SRegsApart
<1> QED  BY <1>3, <1>4, <1>5, <1>6 DEF y

\* SCC is read back, and the SGPRs stay.
LEMMA FlagReads ==
  ASSUME NEW st0 \in State, NEW b
  PROVE  Flag(st0, b) \in State /\ Flag(st0, b).scc = (IF b THEN 1 ELSE 0) /\ \A o \in SRegs : Get(Flag(st0, b), o) = Get(st0, o)
<1>1. Flag(st0, b) \in State /\ Flag(st0, b).scc = (IF b THEN 1 ELSE 0) /\ Flag(st0, b).s = st0.s  BY DEF Flag, State
<1> QED  BY <1>1, SRegsApart DEF Get

\* What the instructions of the laws do.
LEMMA DoesThis ==
  /\ \A d, a, b, z : Result(I("s_not_b32", d, a, b), z) = Set(z, d, Not(Get(z, a)))
  /\ \A d, a, b, z : Result(I("s_and_b32", d, a, b), z) = Set(z, d, And(Get(z, a), Get(z, b)))
  /\ \A d, a, b, z : Result(I("s_or_b32", d, a, b), z) = Set(z, d, Or(Get(z, a), Get(z, b)))
  /\ \A d, a, b, z : Result(I("s_andn2_b32", d, a, b), z) = Set(z, d, And(Get(z, a), Not(Get(z, b))))
  /\ \A d, a, b, z : Result(I("s_orn2_b32", d, a, b), z) = Set(z, d, Or(Get(z, a), Not(Get(z, b))))
  /\ \A d, a, b, z : Result(I("s_or_not1_b32", d, a, b), z) = Set(z, d, Or(Get(z, a), Not(Get(z, b))))
  /\ \A d, a, b, z : Result(I("s_nor_b32", d, a, b), z) = Set(z, d, Not(Or(Get(z, a), Get(z, b))))
  /\ \A d, a, b, z : Result(I("s_add_i32", d, a, b), z) = Set(z, d, Get(z, a) + Get(z, b))
  /\ \A d, a, b, z : Result(I("s_sub_i32", d, a, b), z) = Set(z, d, Get(z, a) - Get(z, b))
  /\ \A d, a, b, z : Result(I("s_addk_i32", d, a, b), z) = Set(z, d, Get(z, d) + Get(z, a))
  /\ \A d, a, b, z : Result(I("s_mov_b32", d, a, b), z) = Set(z, d, Get(z, a))
  /\ \A d, a, b, z : Result(I("s_lshl_b32", d, a, b), z) = Set(z, d, Shl(Get(z, a), Get(z, b) % W))
  /\ \A d, a, b, z : Result(I("s_lshr_b32", d, a, b), z) = Set(z, d, Shr(Get(z, a), Get(z, b) % W))
  /\ \A d, a, b, z : Result(I("s_ashr_i32", d, a, b), z) = Set(z, d, Shr(Signed(Get(z, a)), Get(z, b) % W))
<1>1. \A op, d, a, b : I(op, d, a, b).op = op /\ I(op, d, a, b).d = d /\ I(op, d, a, b).a = a /\ I(op, d, a, b).b = b  BY DEF I
<1>2. /\ \A d, a, b, z : Result(I("s_not_b32", d, a, b), z) = Set(z, d, Not(Get(z, a)))
      /\ \A d, a, b, z : Result(I("s_or_not1_b32", d, a, b), z) = Set(z, d, Or(Get(z, a), Not(Get(z, b))))
  BY <1>1, DoesCore8
<1>3. /\ \A d, a, b, z : Result(I("s_and_b32", d, a, b), z) = Set(z, d, And(Get(z, a), Get(z, b)))
      /\ \A d, a, b, z : Result(I("s_or_b32", d, a, b), z) = Set(z, d, Or(Get(z, a), Get(z, b)))
      /\ \A d, a, b, z : Result(I("s_andn2_b32", d, a, b), z) = Set(z, d, And(Get(z, a), Not(Get(z, b))))
  BY <1>1, DoesMain DEF CoreLogic, CoreLogicValue
<1>4. /\ \A d, a, b, z : Result(I("s_orn2_b32", d, a, b), z) = Set(z, d, Or(Get(z, a), Not(Get(z, b))))
      /\ \A d, a, b, z : Result(I("s_nor_b32", d, a, b), z) = Set(z, d, Not(Or(Get(z, a), Get(z, b))))
      /\ \A d, a, b, z : Result(I("s_addk_i32", d, a, b), z) = Set(z, d, Get(z, d) + Get(z, a))
  BY <1>1, DoesSwin
<1>5. /\ \A d, a, b, z : Result(I("s_add_i32", d, a, b), z) = Set(z, d, Get(z, a) + Get(z, b))
      /\ \A d, a, b, z : Result(I("s_sub_i32", d, a, b), z) = Set(z, d, Get(z, a) - Get(z, b))
  BY <1>1, IsArith DEF CoreArith, CoreArithValue
<1>6. /\ \A d, a, b, z : Result(I("s_mov_b32", d, a, b), z) = Set(z, d, Get(z, a))
  BY <1>1, DoesOneOfMain
<1>7. /\ \A d, a, b, z : Result(I("s_lshl_b32", d, a, b), z) = Set(z, d, Shl(Get(z, a), Get(z, b) % W))
      /\ \A d, a, b, z : Result(I("s_lshr_b32", d, a, b), z) = Set(z, d, Shr(Get(z, a), Get(z, b) % W))
      /\ \A d, a, b, z : Result(I("s_ashr_i32", d, a, b), z) = Set(z, d, Shr(Signed(Get(z, a)), Get(z, b) % W))
  BY <1>1, DoesMain DEF CoreShifts, CoreShift
<1> QED  BY <1>2, <1>3, <1>4, <1>5, <1>6, <1>7

\* The value one instruction leaves, and the value several do.
Lawful(l, st0) == GetPair(Result(l.one, st0), l.one.d) = GetPair(Run(l.many, st0), l.one.d)

\* A law holds if one, two or three instructions leave the same in the destination.
LEMMA LawOf ==
  ASSUME NEW i, NEW st0
  PROVE  /\ \A j : GetPair(Result(i, st0), i.d) = GetPair(Result(j, st0), i.d) => Lawful(Law(i, <<j>>), st0)
         /\ \A j, k : GetPair(Result(i, st0), i.d) = GetPair(Result(k, Result(j, st0)), i.d) =>
              Lawful(Law(i, <<j, k>>), st0)
         /\ \A j, k, m : GetPair(Result(i, st0), i.d) = GetPair(Result(m, Result(k, Result(j, st0))), i.d) =>
              Lawful(Law(i, <<j, k, m>>), st0)
<1>1. \A many : Lawful(Law(i, many), st0) <=> GetPair(Result(i, st0), i.d) = GetPair(Run(many, st0), i.d)
  BY DEF Lawful, Law
<1>2. ASSUME NEW j PROVE Run(<<j>>, st0) = Result(j, st0)  BY RunOfOne
<1>3. ASSUME NEW j, NEW k PROVE Run(<<j, k>>, st0) = Result(k, Result(j, st0))  BY RunOfTwo
<1>4. ASSUME NEW j, NEW k, NEW m PROVE Run(<<j, k, m>>, st0) = Result(m, Result(k, Result(j, st0)))  BY RunOfThree
<1> QED  BY <1>1, <1>2, <1>3, <1>4

\* A number is the same as itself modulo 2^W.
LEMMA SameRefl == ASSUME NEW x \in Int PROVE Same(x, x)
<1>1. x = M * 0 + x /\ 0 \in Int  BY MType
<1> QED  BY <1>1 DEF Same

\* A difference is the sum with the inverse and one.
LEMMA InvertedSum ==
  ASSUME NEW x \in Int, NEW y \in Word
  PROVE  Mask(x + Mask(Not(y) + 1)) = Mask(x - y)
<1>1. y \in Int /\ Mask(y) = y /\ Top \in Int  BY MaskOfWord, Constants
<1>2. Not(y) \in Int /\ Not(y) = Top - y  BY <1>1 DEF Not
<1> DEFINE n == Not(y) + 1
           z == Mask(n)
<1>3. n \in Int /\ n = M * 1 + (0 - y)  BY <1>1, <1>2, MType DEF Top
<1> HIDE DEF n
<1>4. Same(n, 0 - y)
  <2>1. 1 \in Int  OBVIOUS
  <2> QED  BY <1>3, <2>1 DEF Same
<1>5. z \in Int /\ Same(z, n)  BY <1>3, MaskType, SameMask
<1> HIDE DEF z
<1> DEFINE m == 0 - y
<1>6. m \in Int /\ x + m = x - y  BY <1>1
<1>7. Same(x, x) /\ Same(n, m)  BY <1>4, SameRefl
<1> HIDE DEF m
<1>8. Same(x + z, x + n)  BY <1>3, <1>5, <1>7, SameSum
<1>9. Same(x + n, x + m)  BY <1>3, <1>6, <1>7, SameSum
<1>10. x + z \in Int /\ x + n \in Int /\ x + m \in Int  BY <1>3, <1>5, <1>6
<1>11. Mask(x + z) = Mask(x + n) /\ Mask(x + n) = Mask(x + m)  BY <1>8, <1>9, <1>10, MaskSame
<1> QED  BY <1>6, <1>11 DEF z, n

\* Operations with a complement in them, and the difference, are several instructions.
LEMMA InvertsHolds ==
  ASSUME NEW st0 \in State, NEW l, Inverts(l)
  PROVE  Lawful(l, st0)
<1>1. PICK d \in SRegs, a \in SRegs :
        /\ d # a
        /\ l \in {Law(I("s_andn2_b32", d, a, d), <<I("s_not_b32", d, d, Null), I("s_and_b32", d, a, d)>>),
                  Law(I("s_orn2_b32", d, a, d), <<I("s_not_b32", d, d, Null), I("s_or_b32", d, a, d)>>),
                  Law(I("s_orn2_b32", d, a, d), <<I("s_or_not1_b32", d, a, d)>>),
                  Law(I("s_nor_b32", d, a, d), <<I("s_or_b32", d, a, d), I("s_not_b32", d, d, Null)>>),
                  Law(I("s_sub_i32", d, a, d),
                      <<I("s_not_b32", d, d, Null), I("s_addk_i32", d, K(1), Null), I("s_add_i32", d, a, d)>>)}
  BY DEF Inverts
<1> DEFINE x == Get(st0, a)
           y == Get(st0, d)
           not == I("s_not_b32", d, d, Null)
           st1 == Result(not, st0)
<1>2. x \in Word /\ x \in Int /\ y \in Word /\ y \in Int  BY SRegOperand
<1>3. Not(y) \in Word /\ Not(y) \in Int /\ Mask(Not(y)) = Not(y)  BY <1>2, NotType, MaskOfWord
<1>4. /\ And(x, Not(y)) \in Int /\ Or(x, Not(y)) \in Int
      /\ Or(x, y) \in Word /\ Or(x, y) \in Int /\ Mask(Or(x, y)) = Or(x, y) /\ Not(Or(x, y)) \in Int
  <2>1. Or(x, y) \in Word  BY OfOnesType DEF Or
  <2> HIDE DEF x, y
  <2> QED  BY <1>2, <1>3, <2>1, LogicType, MaskOfWord
<1>5. \A op, b, c : I(op, d, b, c).d = d  BY DEF I
<1>6. st1 = Set(st0, d, Not(y))  BY DoesThis
<1>7. st1 \in State /\ Get(st1, d) = Not(y) /\ Get(st1, a) = x
  <2> HIDE DEF y
  <2> QED  BY <1>1, <1>3, <1>6, SetReads
<1>8. \A v \in Int : GetPair(Set(st0, d, v), d) = Mask(v) /\ GetPair(Set(st1, d, v), d) = Mask(v)
  BY <1>7, SetReads
<1>9. CASE l = Law(I("s_andn2_b32", d, a, d), <<not, I("s_and_b32", d, a, d)>>)
  <2>1. Result(I("s_and_b32", d, a, d), st1) = Set(st1, d, And(x, Not(y)))
    <3>1. Result(I("s_and_b32", d, a, d), st1) = Set(st1, d, And(Get(st1, a), Get(st1, d)))  BY DoesThis
    <3> QED  BY <1>7, <3>1
  <2>2. Result(I("s_andn2_b32", d, a, d), st0) = Set(st0, d, And(x, Not(y)))  BY DoesThis
  <2> HIDE DEF st1, x, y
  <2>3. GetPair(Result(I("s_andn2_b32", d, a, d), st0), d) = GetPair(Result(I("s_and_b32", d, a, d), st1), d)
    BY <1>4, <1>8, <2>1, <2>2
  <2> QED  BY <1>5, <1>9, <2>3, LawOf DEF st1
<1>10. CASE l = Law(I("s_orn2_b32", d, a, d), <<not, I("s_or_b32", d, a, d)>>)
  <2>1. Result(I("s_or_b32", d, a, d), st1) = Set(st1, d, Or(x, Not(y)))
    <3>1. Result(I("s_or_b32", d, a, d), st1) = Set(st1, d, Or(Get(st1, a), Get(st1, d)))  BY DoesThis
    <3> QED  BY <1>7, <3>1
  <2>2. Result(I("s_orn2_b32", d, a, d), st0) = Set(st0, d, Or(x, Not(y)))  BY DoesThis
  <2> HIDE DEF st1, x, y
  <2>3. GetPair(Result(I("s_orn2_b32", d, a, d), st0), d) = GetPair(Result(I("s_or_b32", d, a, d), st1), d)
    BY <1>4, <1>8, <2>1, <2>2
  <2> QED  BY <1>5, <1>10, <2>3, LawOf DEF st1
<1>11. CASE l = Law(I("s_orn2_b32", d, a, d), <<I("s_or_not1_b32", d, a, d)>>)
  <2>1. Result(I("s_or_not1_b32", d, a, d), st0) = Result(I("s_orn2_b32", d, a, d), st0)  BY DoesThis
  <2> QED  BY <1>5, <1>11, <2>1, LawOf
<1>12. CASE l = Law(I("s_nor_b32", d, a, d), <<I("s_or_b32", d, a, d), not>>)
  <2> DEFINE st2 == Result(I("s_or_b32", d, a, d), st0)
  <2>1. st2 = Set(st0, d, Or(x, y))  BY DoesThis
  <2>2. st2 \in State /\ Get(st2, d) = Or(x, y)
    <3> HIDE DEF x, y, st2
    <3> QED  BY <1>4, <2>1, SetReads
  <2>3. Result(not, st2) = Set(st2, d, Not(Or(x, y)))
    <3>1. Result(not, st2) = Set(st2, d, Not(Get(st2, d)))  BY DoesThis
    <3> QED  BY <2>2, <3>1
  <2>4. Result(I("s_nor_b32", d, a, d), st0) = Set(st0, d, Not(Or(x, y)))  BY DoesThis
  <2> HIDE DEF st2, x, y, not
  <2>5. GetPair(Result(I("s_nor_b32", d, a, d), st0), d) = GetPair(Result(not, st2), d)
    BY <1>4, <1>8, <2>2, <2>3, <2>4, SetReads
  <2> QED  BY <1>5, <1>12, <2>5, LawOf DEF st2
<1>13. CASE l = Law(I("s_sub_i32", d, a, d), <<not, I("s_addk_i32", d, K(1), Null), I("s_add_i32", d, a, d)>>)
  <2> DEFINE z == Mask(Not(y) + 1)
             st2 == Result(I("s_addk_i32", d, K(1), Null), st1)
  <2>1. st2 = Set(st1, d, Not(y) + 1)
    <3>1. Get(st1, K(1)) = 1  BY DEF Get, K
    <3>2. st2 = Set(st1, d, Get(st1, d) + Get(st1, K(1)))  BY DoesThis
    <3> QED  BY <1>7, <3>1, <3>2
  <2>2. st2 \in State /\ Get(st2, d) = z /\ Get(st2, a) = x
    <3>1. Not(y) + 1 \in Int  BY <1>3
    <3> HIDE DEF x, y, st2, st1
    <3> QED  BY <1>1, <1>7, <2>1, <3>1, SetReads
  <2>3. Result(I("s_add_i32", d, a, d), st2) = Set(st2, d, x + z)
    <3>1. Result(I("s_add_i32", d, a, d), st2) = Set(st2, d, Get(st2, a) + Get(st2, d))  BY DoesThis
    <3> QED  BY <2>2, <3>1
  <2>4. Result(I("s_sub_i32", d, a, d), st0) = Set(st0, d, x - y)  BY DoesThis
  <2> HIDE DEF st1, st2, x, y
  <2>5. Mask(x + z) = Mask(x - y)  BY <1>2, InvertedSum
  <2>6. x + z \in Int /\ x - y \in Int
    <3>1. z \in Int  BY <1>3, MaskType
    <3> QED  BY <1>2, <3>1
  <2> HIDE DEF z
  <2>7. GetPair(Result(I("s_sub_i32", d, a, d), st0), d) = GetPair(Result(I("s_add_i32", d, a, d), st2), d)
    BY <1>8, <2>2, <2>3, <2>4, <2>5, <2>6, SetReads
  <2> QED  BY <1>5, <1>13, <2>7, LawOf DEF st1, st2
<1> QED  BY <1>1, <1>9, <1>10, <1>11, <1>12, <1>13

\* A signed number and its word.
LEMMA SignedRange ==
  ASSUME NEW x \in Int
  PROVE  /\ Signed(x) \in -Sign .. Sign - 1
         /\ Mask(Signed(x)) = Mask(x)
<1>1. Signed(x) \in -Sign .. Sign - 1
  <2> DEFINE r == Low(x, W)
  <2>1. r \in 0 .. M - 1 /\ M = 2 * Sign /\ Sign \in Nat /\ M = Pow2[W] /\ Sign = Pow2[W - 1]
    BY MaskType, Constants, SignIsPower DEF Low, M, Mask, Word, Top
  <2>2. Signed(x) = IF r >= Sign THEN r - M ELSE r  BY <2>1 DEF Signed, SignedLow
  <2> HIDE DEF r
  <2> QED  BY <2>1, <2>2
<1>2. Mask(Signed(x)) = Mask(x)  BY SignedSame, MaskSame
<1> QED  BY <1>1, <1>2

\* The greater one of a number and its negation is its absolute value.
LEMMA GreaterOfBoth ==
  ASSUME NEW x \in Word
  PROVE  LET s == Signed(x)
             t == Signed(Mask(0 - x))
         IN  /\ s \in Int /\ t \in Int
             /\ Mask(IF s > t THEN s ELSE t) = Mask(IF s < 0 THEN -s ELSE s)
<1> DEFINE s == Signed(x)
           y == 0 - x
           t == Signed(Mask(y))
           m == 0 - s
<1>1. x \in Int  BY MaskOfWord
<1>2. y \in Int /\ s \in -Sign .. Sign - 1 /\ s \in Int /\ Same(s, x)  BY <1>1, SignedRange, SignedSame
<1>3. Sign \in Int /\ Sign > 0 /\ M = 2 * Sign  BY Constants
<1>4. m \in Int /\ m = -s  BY <1>2
<1>5. Signed(Mask(y)) = Signed(y) /\ Signed(y) \in -Sign .. Sign - 1  BY <1>2, SignedOfMask, SignedRange
<1>6. Same(m, y)
  <2> DEFINE zero == 0
  <2>1. zero \in Int /\ Same(zero, zero)  BY SameRefl
  <2> HIDE DEF zero, s
  <2>2. Same(zero - s, zero - x)  BY <1>1, <1>2, <2>1, SameSum
  <2> QED  BY <2>2 DEF zero
<1>7. Signed(y) = Signed(m)
  <2>1. Mask(m) = Mask(y)
    <3> HIDE DEF m, y
    <3> QED  BY <1>2, <1>4, <1>6, MaskSame
  <2> HIDE DEF m, y
  <2>2. Signed(Mask(m)) = Signed(m) /\ Signed(Mask(y)) = Signed(y)  BY <1>2, <1>4, SignedOfMask
  <2> QED  BY <2>1, <2>2
<1>8. t = Signed(m) /\ t \in Int  BY <1>5, <1>7
<1> HIDE DEF s, t, y, m
<1>9. CASE s # -Sign
  <2>1. m \in -Sign .. Sign - 1  BY <1>2, <1>3, <1>4, <1>9
  <2>2. t = -s  BY <1>4, <1>8, <2>1, SignedSmall
  <2>3. (IF s > t THEN s ELSE t) = IF s < 0 THEN -s ELSE s  BY <1>2, <2>2
  <2> QED  BY <1>2, <1>8, <2>3 DEF s, t, y
<1>10. CASE s = -Sign
  <2>1. m = M * 1 + s /\ m = Sign  BY <1>2, <1>3, <1>4, <1>10
  <2>2. Same(m, s)
    <3>1. 1 \in Int  OBVIOUS
    <3> QED  BY <2>1, <3>1 DEF Same
  <2>3. Mask(m) = Mask(s)  BY <1>2, <1>4, <2>2, MaskSame
  <2>4. t = s
    <3>1. Signed(Mask(m)) = Signed(m) /\ Signed(Mask(s)) = Signed(s)  BY <1>2, <1>4, SignedOfMask
    <3>2. Signed(s) = s  BY <1>2, SignedSmall
    <3> QED  BY <1>8, <2>3, <3>1, <3>2
  <2>5. (IF s > t THEN s ELSE t) = s /\ (IF s < 0 THEN -s ELSE s) = m  BY <1>2, <1>3, <1>4, <1>10, <2>4
  <2> QED  BY <1>2, <1>8, <2>3, <2>5 DEF s, t, y
<1> QED  BY <1>9, <1>10

\* What compares, minimum, maximum and select do.
LEMMA DoesChoice ==
  /\ \A d, a, b, z : Result(I("s_cmp_lt_i32", d, a, b), z) = Flag(z, Signed(Get(z, a)) < Signed(Get(z, b)))
  /\ \A d, a, b, z : Result(I("s_cmp_gt_i32", d, a, b), z) = Flag(z, Signed(Get(z, a)) > Signed(Get(z, b)))
  /\ \A d, a, b, z : Result(I("s_cselect_b32", d, a, b), z) = Set(z, d, IF z.scc = 1 THEN Get(z, a) ELSE Get(z, b))
  /\ \A d, a, b, z :
       Result(I("s_min_i32", d, a, b), z) =
         Set(z, d, IF Signed(Get(z, b)) < Signed(Get(z, a)) THEN Signed(Get(z, b)) ELSE Signed(Get(z, a)))
  /\ \A d, a, b, z :
       Result(I("s_max_i32", d, a, b), z) =
         Flag(Set(z, d, IF Signed(Get(z, a)) > Signed(Get(z, b)) THEN Signed(Get(z, a)) ELSE Signed(Get(z, b))),
              Signed(Get(z, a)) > Signed(Get(z, b)))
  /\ \A d, a, b, z :
       Result(I("s_abs_i32", d, a, b), z) =
         Set(z, d, IF Signed(Get(z, a)) < 0 THEN -Signed(Get(z, a)) ELSE Signed(Get(z, a)))
<1>1. \A op, d, a, b : I(op, d, a, b).op = op /\ I(op, d, a, b).d = d /\ I(op, d, a, b).a = a /\ I(op, d, a, b).b = b  BY DEF I
<1>2. \A d, a, b, z : Result(I("s_cmp_lt_i32", d, a, b), z) = Flag(z, Signed(Get(z, a)) < Signed(Get(z, b)))
  BY <1>1, DoesCore8
<1>3. \A d, a, b, z : Result(I("s_cmp_gt_i32", d, a, b), z) = Flag(z, Signed(Get(z, a)) > Signed(Get(z, b)))
  BY <1>1, DoesMain DEF CoreCompares, CoreCompare
<1>4. \A d, a, b, z : Result(I("s_cselect_b32", d, a, b), z) = Set(z, d, IF z.scc = 1 THEN Get(z, a) ELSE Get(z, b))
  BY <1>1, DoesOneOfMain
<1>5. \A d, a, b, z :
       Result(I("s_min_i32", d, a, b), z) =
         Set(z, d, IF Signed(Get(z, b)) < Signed(Get(z, a)) THEN Signed(Get(z, b)) ELSE Signed(Get(z, a)))
  BY <1>1, DoesMore DEF MoreOps, FieldForm
<1>6. \A d, a, b, z :
       Result(I("s_max_i32", d, a, b), z) =
         Flag(Set(z, d, IF Signed(Get(z, a)) > Signed(Get(z, b)) THEN Signed(Get(z, a)) ELSE Signed(Get(z, b))),
              Signed(Get(z, a)) > Signed(Get(z, b)))
  BY <1>1, DoesFlags DEF IsaOps, IsaResult
<1>7. \A d, a, b, z :
       Result(I("s_abs_i32", d, a, b), z) =
         Set(z, d, IF Signed(Get(z, a)) < 0 THEN -Signed(Get(z, a)) ELSE Signed(Get(z, a)))
  BY <1>1, IsArith DEF CoreArith, CoreArithValue
<1> QED  BY <1>2, <1>3, <1>4, <1>5, <1>6, <1>7

\* Compare and select.
LEMMA Selects ==
  ASSUME NEW st0 \in State, NEW d \in SRegs, NEW a \in SRegs, NEW b \in SRegs, NEW p \in BOOLEAN
  PROVE  GetPair(Result(I("s_cselect_b32", d, a, b), Flag(st0, p)), d) =
           Mask(IF p THEN Get(st0, a) ELSE Get(st0, b))
<1> DEFINE st1 == Flag(st0, p)
<1>1. /\ st1 \in State /\ st1.scc = (IF p THEN 1 ELSE 0)
      /\ Get(st1, a) = Get(st0, a) /\ Get(st1, b) = Get(st0, b)
  BY FlagReads
<1>2. Get(st0, a) \in Int /\ Get(st0, b) \in Int  BY SRegOperand
<1>3. Result(I("s_cselect_b32", d, a, b), st1) = Set(st1, d, IF st1.scc = 1 THEN Get(st1, a) ELSE Get(st1, b))
  BY DoesChoice
<1> HIDE DEF st1
<1>4. Result(I("s_cselect_b32", d, a, b), st1) = Set(st1, d, IF p THEN Get(st0, a) ELSE Get(st0, b))
  BY <1>1, <1>3
<1>5. (IF p THEN Get(st0, a) ELSE Get(st0, b)) \in Int  BY <1>2
<1> QED  BY <1>1, <1>4, <1>5, SetReads DEF st1

\* So are minimum, maximum and absolute value, by compare and select.
LEMMA ChoosesHolds ==
  ASSUME NEW st0 \in State, NEW l, Chooses(l)
  PROVE  Lawful(l, st0)
<1>1. PICK d \in SRegs, a \in SRegs, b \in SRegs :
        \/ l \in {Law(I("s_min_i32", d, a, b), <<I("s_cmp_lt_i32", Null, a, b), I("s_cselect_b32", d, a, b)>>),
                  Law(I("s_max_i32", d, a, b), <<I("s_cmp_gt_i32", Null, a, b), I("s_cselect_b32", d, a, b)>>)}
        \/ /\ d # a
           /\ l = Law(I("s_abs_i32", d, a, Null), <<I("s_sub_i32", d, K(0), a), I("s_max_i32", d, a, d)>>)
  BY DEF Chooses
<1> DEFINE x == Get(st0, a)
           y == Get(st0, b)
           sx == Signed(x)
           sy == Signed(y)
<1>2. x \in Word /\ x \in Int /\ y \in Word /\ y \in Int  BY SRegOperand
<1>3. sx \in Int /\ sy \in Int /\ Mask(sx) = Mask(x) /\ Mask(sy) = Mask(y)  BY <1>2, SignedSame, SignedRange
<1>4. \A op, c, e : I(op, d, c, e).d = d  BY DEF I
<1>5. \A v \in Int : GetPair(Set(st0, d, v), d) = Mask(v) /\ \A c : GetPair(Flag(Set(st0, d, v), c), d) = Mask(v)
  BY SetReads
<1>6. CASE l = Law(I("s_min_i32", d, a, b), <<I("s_cmp_lt_i32", Null, a, b), I("s_cselect_b32", d, a, b)>>)
  <2>1. Result(I("s_min_i32", d, a, b), st0) = Set(st0, d, IF sy < sx THEN sy ELSE sx)  BY DoesChoice
  <2>2. Result(I("s_cmp_lt_i32", Null, a, b), st0) = Flag(st0, sx < sy)  BY DoesChoice
  <2>3. GetPair(Result(I("s_cselect_b32", d, a, b), Flag(st0, sx < sy)), d) = Mask(IF sx < sy THEN x ELSE y)
    <3> DEFINE p == sx < sy
    <3>2. p \in BOOLEAN  OBVIOUS
    <3> HIDE DEF p
    <3>1. GetPair(Result(I("s_cselect_b32", d, a, b), Flag(st0, p)), d) = Mask(IF p THEN x ELSE y)
      BY <3>2, Selects
    <3> QED  BY <3>1 DEF p
  <2> HIDE DEF sx, sy, x, y
  <2>4. Mask(IF sy < sx THEN sy ELSE sx) = Mask(IF sx < sy THEN x ELSE y)  BY <1>3
  <2>5. (IF sy < sx THEN sy ELSE sx) \in Int  BY <1>3
  <2>6. GetPair(Result(I("s_min_i32", d, a, b), st0), d) = Mask(IF sy < sx THEN sy ELSE sx)  BY <1>5, <2>1, <2>5
  <2>7. GetPair(Result(I("s_min_i32", d, a, b), st0), d) =
          GetPair(Result(I("s_cselect_b32", d, a, b), Result(I("s_cmp_lt_i32", Null, a, b), st0)), d)
    BY <2>2, <2>3, <2>4, <2>6
  <2> QED  BY <1>4, <1>6, <2>7, LawOf
<1>7. CASE l = Law(I("s_max_i32", d, a, b), <<I("s_cmp_gt_i32", Null, a, b), I("s_cselect_b32", d, a, b)>>)
  <2>1. Result(I("s_max_i32", d, a, b), st0) = Flag(Set(st0, d, IF sx > sy THEN sx ELSE sy), sx > sy)  BY DoesChoice
  <2>2. Result(I("s_cmp_gt_i32", Null, a, b), st0) = Flag(st0, sx > sy)  BY DoesChoice
  <2>3. GetPair(Result(I("s_cselect_b32", d, a, b), Flag(st0, sx > sy)), d) = Mask(IF sx > sy THEN x ELSE y)
    <3> DEFINE p == sx > sy
    <3>2. p \in BOOLEAN  OBVIOUS
    <3> HIDE DEF p
    <3>1. GetPair(Result(I("s_cselect_b32", d, a, b), Flag(st0, p)), d) = Mask(IF p THEN x ELSE y)
      BY <3>2, Selects
    <3> QED  BY <3>1 DEF p
  <2> HIDE DEF sx, sy, x, y
  <2>4. Mask(IF sx > sy THEN sx ELSE sy) = Mask(IF sx > sy THEN x ELSE y)  BY <1>3
  <2>5. (IF sx > sy THEN sx ELSE sy) \in Int  BY <1>3
  <2>6. GetPair(Result(I("s_max_i32", d, a, b), st0), d) = Mask(IF sx > sy THEN sx ELSE sy)  BY <1>5, <2>1, <2>5
  <2>7. GetPair(Result(I("s_max_i32", d, a, b), st0), d) =
          GetPair(Result(I("s_cselect_b32", d, a, b), Result(I("s_cmp_gt_i32", Null, a, b), st0)), d)
    BY <2>2, <2>3, <2>4, <2>6
  <2> QED  BY <1>4, <1>7, <2>7, LawOf
<1>8. CASE d # a /\ l = Law(I("s_abs_i32", d, a, Null), <<I("s_sub_i32", d, K(0), a), I("s_max_i32", d, a, d)>>)
  <2> DEFINE m == 0 - x
             z == Mask(m)
             sz == Signed(z)
             st1 == Result(I("s_sub_i32", d, K(0), a), st0)
  <2>1. st1 = Set(st0, d, m)
    <3>1. Get(st0, K(0)) = 0  BY DEF Get, K
    <3>2. st1 = Set(st0, d, Get(st0, K(0)) - Get(st0, a))  BY DoesThis
    <3> QED  BY <3>1, <3>2
  <2>2. st1 \in State /\ Get(st1, d) = z /\ Get(st1, a) = x
    <3>1. m \in Int  BY <1>2
    <3>2. a # d  BY <1>8
    <3> HIDE DEF m, st1
    <3> QED  BY <2>1, <3>1, <3>2, SetReads
  <2>3. Result(I("s_max_i32", d, a, d), st1) = Flag(Set(st1, d, IF sx > sz THEN sx ELSE sz), sx > sz)
    <3>1. Result(I("s_max_i32", d, a, d), st1) =
            Flag(Set(st1, d, IF Signed(Get(st1, a)) > Signed(Get(st1, d)) THEN Signed(Get(st1, a)) ELSE Signed(Get(st1, d))),
                 Signed(Get(st1, a)) > Signed(Get(st1, d)))
      BY DoesChoice
    <3> HIDE DEF st1, x, z
    <3> QED  BY <2>2, <3>1
  <2>4. Result(I("s_abs_i32", d, a, Null), st0) = Set(st0, d, IF sx < 0 THEN -sx ELSE sx)  BY DoesChoice
  <2>5. sz \in Int /\ Mask(IF sx > sz THEN sx ELSE sz) = Mask(IF sx < 0 THEN -sx ELSE sx)
    <3> HIDE DEF x
    <3> QED  BY <1>2, GreaterOfBoth
  <2> HIDE DEF st1, sx, sz, m
  <2>6. (IF sx > sz THEN sx ELSE sz) \in Int /\ (IF sx < 0 THEN -sx ELSE sx) \in Int  BY <1>3, <2>5
  <2>7. GetPair(Result(I("s_max_i32", d, a, d), st1), d) = Mask(IF sx > sz THEN sx ELSE sz)
    <3> DEFINE v == IF sx > sz THEN sx ELSE sz
               p == sx > sz
    <3>1. v \in Int /\ Result(I("s_max_i32", d, a, d), st1) = Flag(Set(st1, d, v), p)  BY <2>3, <2>6
    <3> HIDE DEF v, p
    <3>2. GetPair(Flag(Set(st1, d, v), p), d) = Mask(v)  BY <2>2, <3>1, SetReads
    <3> QED  BY <3>1, <3>2 DEF v
  <2>8. GetPair(Result(I("s_abs_i32", d, a, Null), st0), d) = Mask(IF sx < 0 THEN -sx ELSE sx)
    BY <1>5, <2>4, <2>6
  <2>9. GetPair(Result(I("s_abs_i32", d, a, Null), st0), d) = GetPair(Result(I("s_max_i32", d, a, d), st1), d)
    BY <2>5, <2>7, <2>8
  <2> QED  BY <1>4, <1>8, <2>9, LawOf DEF st1
<1> QED  BY <1>1, <1>6, <1>7, <1>8

\* What a packed literal says.
LEMMA FieldSays ==
  ASSUME NEW off \in 0 .. W - 1, NEW w \in 1 .. W - 1, off + w <= W
  PROVE  LET o == Field(off, w)
         IN  /\ FieldOffset(o.n) = off /\ FieldWidth(o.n) = w
             /\ o.t = "field" /\ \A z : Get(z, o) = o.n
<1> DEFINE d == 2 * W
           n == d * off + w
           o == Field(off, w)
<1>1. W \in Nat /\ W > 0 /\ off \in Nat /\ w \in Nat /\ w > 0 /\ w < W /\ off < W  BY MType, WidthAssumption
<1>2. d \in Nat \ {0} /\ w \in 0 .. d - 1 /\ off \in Int  BY <1>1
<1>3. o.n = n /\ o.t = "field"
  <2>1. off * 2 * W = d * off  BY <1>1
  <2> HIDE DEF d
  <2> QED  BY <2>1 DEF Field
<1> HIDE DEF d
<1>4. n \div d = off /\ n % d = w  BY <1>2, Quotient
<1> HIDE DEF n
<1>5. (n \div (2 * W)) % W = off /\ n % (2 * W) = w
  <2>1. off % W = off  BY <1>1
  <2> QED  BY <1>4, <2>1 DEF d
<1>6. \A z : Get(z, o) = o.n  BY <1>3 DEF Get
<1> HIDE DEF o
<1>7. FieldOffset(o.n) = off /\ FieldWidth(o.n) = w  BY <1>1, <1>3, <1>5 DEF FieldOffset, FieldWidth
<1> QED  BY <1>3, <1>6, <1>7 DEF o

\* The two forms of a bit field.
LEMMA PackedReads ==
  ASSUME NEW st0 \in State, NEW d \in SRegs, NEW a \in SRegs,
         NEW off \in 0 .. W - 1, NEW w \in 1 .. W - 1, off + w <= W
  PROVE  LET r == Mask(Shr(Get(st0, a), off))
         IN  /\ GetPair(Result(I("s_bfe_u32", d, a, Field(off, w)), st0), d) = Mask(Low(r, w))
             /\ GetPair(Result(I("s_bfe_i32", d, a, Field(off, w)), st0), d) =
                  Mask(IF off + w < W THEN SignedLow(r, w) ELSE r)
<1> DEFINE o == Field(off, w)
           x == Get(st0, a)
           r == Mask(Shr(x, off))
           u == I("s_bfe_u32", d, a, o)
           s == I("s_bfe_i32", d, a, o)
<1>1. FieldOffset(o.n) = off /\ FieldWidth(o.n) = w /\ o.t = "field" /\ Get(st0, o) = o.n  BY FieldSays
<1>2. /\ u.op = "s_bfe_u32" /\ u.d = d /\ u.a = a /\ u.b = o
      /\ s.op = "s_bfe_i32" /\ s.d = d /\ s.a = a /\ s.b = o
  BY DEF I
<1>3. W \in Nat /\ W > 0 /\ off \in Nat /\ w \in Nat /\ w > 0  BY MType, WidthAssumption
<1>4. r \in Int /\ Low(r, w) \in Int /\ SignedLow(r, w) \in Int
  <2>1. x \in Int  BY SRegOperand
  <2> HIDE DEF x
  <2>2. Shr(x, off) \in Int  BY <1>3, <2>1, ShiftOfMask
  <2>3. r \in Int  BY <2>2, MaskType
  <2> HIDE DEF r
  <2> QED  BY <1>3, <2>3, SignedType
<1> HIDE DEF o, u, s
<1>5. FieldForm(u) /\ FieldForm(s)  BY <1>1, <1>2 DEF FieldForm
<1>6. Result(u, st0) = PackedField(u, st0) /\ Result(s, st0) = PackedField(s, st0)  BY <1>5, DoesField
<1> DEFINE v == IF off + w >= W THEN W - off ELSE w
<1>7. v = w  BY <1>3
<1>8. PackedField(u, st0) = Set(st0, d, Low(r, v))
  BY <1>1, <1>2 DEF PackedField
<1>9. PackedField(s, st0) = Set(st0, d, IF off + v < W THEN SignedLow(r, v) ELSE r)
  BY <1>1, <1>2 DEF PackedField
<1> HIDE DEF v, r
<1>10. Result(u, st0) = Set(st0, d, Low(r, w)) /\ Result(s, st0) = Set(st0, d, IF off + w < W THEN SignedLow(r, w) ELSE r)
  BY <1>6, <1>7, <1>8, <1>9
<1> DEFINE t == IF off + w < W THEN SignedLow(r, w) ELSE r
<1>11. t \in Int  BY <1>4
<1>12. Result(s, st0) = Set(st0, d, t)  BY <1>10
<1> HIDE DEF t
<1>13. GetPair(Result(u, st0), d) = Mask(Low(r, w)) /\ GetPair(Result(s, st0), d) = Mask(t)
  BY <1>4, <1>10, <1>11, <1>12, SetReads
<1> QED  BY <1>13 DEF t, u, s, o, r

\* The bit field extracts, signed and unsigned, in their form with two numbers.
LEMMA FourReads ==
  ASSUME NEW st0 \in State, NEW d \in SRegs, NEW a \in SRegs,
         NEW off \in 0 .. W - 1, NEW w \in 1 .. W - 1, off + w <= W
  PROVE  LET r == Shr(Get(st0, a), off)
         IN  /\ GetPair(Result(FourForm("s_bfe_u32", d, a, off, w), st0), d) = Mask(Low(r, w))
             /\ GetPair(Result(FourForm("s_bfe_i32", d, a, off, w), st0), d) =
                  Mask(IF off + w < W THEN SignedLow(r, w) ELSE r)
<1> DEFINE x == Get(st0, a)
           r == Shr(x, off)
           u == FourForm("s_bfe_u32", d, a, off, w)
           s == FourForm("s_bfe_i32", d, a, off, w)
<1>1. /\ u.op = "s_bfe_u32" /\ u.d = d /\ u.a = a /\ u.b = K(off) /\ u.c = K(w)
      /\ s.op = "s_bfe_i32" /\ s.d = d /\ s.a = a /\ s.b = K(off) /\ s.c = K(w)
  BY DEF FourForm, I
<1>2. W \in Nat /\ W > 0 /\ off \in Nat /\ w \in Nat /\ w > 0 /\ off % W = off /\ w % W = w  BY MType, WidthAssumption
<1>3. \A n : Get(st0, K(n)) = n /\ K(n).t = "lit"  BY DEF Get, K
<1>4. r \in Int /\ Low(r, w) \in Int /\ SignedLow(r, w) \in Int
  <2>1. x \in Int  BY SRegOperand
  <2> HIDE DEF x
  <2>2. Shr(x, off) \in Int  BY <1>2, <2>1, ShiftOfMask
  <2>3. r \in Int  BY <2>2
  <2>4. w \in Nat  BY <1>2
  <2> HIDE DEF r, u, s
  <2>5. r \in Int  BY <2>3
  <2>6. Low(r, w) \in Int  BY <2>3, <2>4, SignedType
  <2>7. SignedLow(r, w) \in Int  BY <2>3, <2>4, SignedType
  <2> QED  BY <2>5, <2>6, <2>7
<1> HIDE DEF u, s
<1>5. ~FieldForm(u) /\ ~FieldForm(s)  BY <1>1, <1>3 DEF FieldForm
<1>6. /\ Result(u, st0) = Set(st0, d, FieldU(x, off, w))
      /\ Result(s, st0) = Set(st0, d, FieldI(x, off, w))
  <2>1. Result(u, st0) = Set(st0, u.d, FieldU(Get(st0, u.a), Get(st0, u.b) % W, Get(st0, u.c) % W))
    BY <1>1, <1>5, DoesMore DEF MoreOps
  <2>2. Result(s, st0) = Set(st0, s.d, FieldI(Get(st0, s.a), Get(st0, s.b) % W, Get(st0, s.c) % W))
    BY <1>1, <1>5, DoesMore DEF MoreOps
  <2> QED  BY <1>1, <1>2, <1>3, <2>1, <2>2
<1> DEFINE t == IF off + w < W THEN SignedLow(r, w) ELSE r
<1>7. FieldU(x, off, w) = Low(r, w) /\ FieldI(x, off, w) = t  BY <1>2 DEF FieldU, FieldI
<1>8. t \in Int  BY <1>4
<1> HIDE DEF t, r
<1>9. GetPair(Result(u, st0), d) = Mask(Low(r, w)) /\ GetPair(Result(s, st0), d) = Mask(t)
  BY <1>4, <1>6, <1>7, <1>8, SetReads
<1> QED  BY <1>9 DEF t, u, s, r

\* One form for the other.
LEMMA FormsHold ==
  ASSUME NEW st0 \in State, NEW d \in SRegs, NEW a \in SRegs,
         NEW off \in 0 .. W - 1, NEW w \in 1 .. W - 1, off + w <= W, NEW op \in {"s_bfe_u32", "s_bfe_i32"}
  PROVE  GetPair(Result(FourForm(op, d, a, off, w), st0), d) = GetPair(Result(I(op, d, a, Field(off, w)), st0), d)
<1> DEFINE r == Shr(Get(st0, a), off)
<1>1. r \in Int /\ w \in Nat /\ w \in 0 .. W
  <2>1. Get(st0, a) \in Int  BY SRegOperand
  <2>2. off \in Nat /\ w \in Nat /\ w \in 0 .. W  BY MType
  <2> QED  BY <2>1, <2>2, ShiftOfMask
<1> HIDE DEF r
<1>2. Low(Mask(r), w) = Low(r, w) /\ SignedLow(Mask(r), w) = SignedLow(r, w) /\ Mask(Mask(r)) = Mask(r)
  BY <1>1, LowOfMask, SignedLowOfMask, MaskOfMask
<1>3. /\ GetPair(Result(FourForm("s_bfe_u32", d, a, off, w), st0), d) = Mask(Low(r, w))
      /\ GetPair(Result(FourForm("s_bfe_i32", d, a, off, w), st0), d) =
           Mask(IF off + w < W THEN SignedLow(r, w) ELSE r)
  BY FourReads DEF r
<1>4. /\ GetPair(Result(I("s_bfe_u32", d, a, Field(off, w)), st0), d) = Mask(Low(Mask(r), w))
      /\ GetPair(Result(I("s_bfe_i32", d, a, Field(off, w)), st0), d) =
           Mask(IF off + w < W THEN SignedLow(Mask(r), w) ELSE Mask(r))
  BY PackedReads DEF r
<1> QED  BY <1>2, <1>3, <1>4

\* A number of W bits: those above a field, the field, and those below it.
LEMMA ThreeParts ==
  ASSUME NEW x \in Word, NEW off \in 0 .. W - 1, NEW w \in 1 .. W - 1, off + w <= W
  PROVE  \E u \in Int, v \in 0 .. Pow2[w] - 1, t \in 0 .. Pow2[off] - 1 :
           x = Pow2[off] * (Pow2[w] * u + v) + t /\ v = Low(Shr(x, off), w)
<1> DEFINE p == Pow2[off]
           q == Pow2[w]
           y == Shr(x, off)
<1>1. off \in Nat /\ w \in Nat /\ p \in Nat \ {0} /\ q \in Nat \ {0} /\ x \in Int  BY PowStep, MaskOfWord, MType
<1>2. y = x \div p /\ Low(y, w) = y % q  BY DEF Shr, Low
<1> HIDE DEF p, q
<1>3. y \in Int /\ x % p \in 0 .. p - 1 /\ x = p * y + (x % p)  BY <1>1, <1>2, Division
<1> HIDE DEF y
<1>4. y \div q \in Int /\ y % q \in 0 .. q - 1 /\ y = q * (y \div q) + (y % q)  BY <1>1, <1>3, Division
<1>5. x = p * (q * (y \div q) + (y % q)) + (x % p)  BY <1>3, <1>4
<1> QED  BY <1>2, <1>3, <1>4, <1>5 DEF y, p, q

\* The powers around a field.
LEMMA FieldPowers ==
  ASSUME NEW off \in 0 .. W - 1, NEW w \in 1 .. W - 1, off + w <= W
  PROVE  LET p == Pow2[off]
             q == Pow2[w]
             r == Pow2[W - off - w]
         IN  /\ p \in Nat \ {0} /\ q \in Nat \ {0} /\ r \in Nat \ {0}
             /\ Pow2[W - w] = p * r /\ M = q * (p * r) /\ Sign = Pow2[w - 1] * (p * r)
             /\ q = 2 * Pow2[w - 1] /\ Pow2[w - 1] \in Nat
             /\ W - off - w \in Nat /\ (W - off - w) % W = W - off - w
             /\ W - w \in Nat /\ (W - w) % W = W - w
<1> DEFINE k == W - off - w
           n == W - w
           h == w - 1
<1>1. W \in Nat /\ off \in Nat /\ w \in Nat /\ k \in Nat /\ n \in Nat /\ h \in Nat  BY MType
<1>2. n = off + k /\ W = w + n /\ W - 1 = h + n /\ w = h + 1  BY <1>1
<1>3. k % W = k /\ n % W = n  BY <1>1
<1> HIDE DEF k, n, h
<1>4. Pow2[off] \in Nat \ {0} /\ Pow2[w] \in Nat \ {0} /\ Pow2[k] \in Nat \ {0} /\ Pow2[h] \in Nat
  BY <1>1, PowStep
<1>5. Pow2[off + k] = Pow2[off] * Pow2[k]  BY <1>1, PowSum
<1>6. Pow2[w + n] = Pow2[w] * Pow2[n]  BY <1>1, PowSum
<1>7. Pow2[h + n] = Pow2[h] * Pow2[n]  BY <1>1, PowSum
<1>8. Pow2[h + 1] = 2 * Pow2[h]  BY <1>1, PowStep
<1>9. M = Pow2[w + n] /\ Sign = Pow2[h + n]  BY <1>2, SignIsPower DEF M
<1> QED  BY <1>1, <1>2, <1>3, <1>4, <1>5, <1>6, <1>7, <1>8, <1>9 DEF k, n, h

\* Shifted up and cut, the field is the top of the word.
LEMMA FieldOnTop ==
  ASSUME NEW x \in Word, NEW off \in 0 .. W - 1, NEW w \in 1 .. W - 1, off + w <= W
  PROVE  LET v == Low(Shr(x, off), w)
             z == Mask(Shl(x, W - off - w))
         IN  /\ Shr(z, W - w) = v
             /\ Shr(Signed(z), W - w) = SignedLow(Shr(x, off), w)
<1> DEFINE p == Pow2[off]
           q == Pow2[w]
           r == Pow2[W - off - w]
           h == Pow2[w - 1]
           c == p * r
           v == Low(Shr(x, off), w)
           z == Mask(Shl(x, W - off - w))
<1>1. PICK u \in Int, t \in 0 .. p - 1 : v \in 0 .. q - 1 /\ x = p * (q * u + v) + t
  BY ThreeParts
<1>2. /\ p \in Nat \ {0} /\ q \in Nat \ {0} /\ r \in Nat \ {0}
      /\ Pow2[W - w] = c /\ M = q * c /\ Sign = h * c /\ q = 2 * h /\ h \in Nat
  BY FieldPowers
<1>3. Shl(x, W - off - w) = x * r  BY DEF Shl
<1>4. SignedLow(Shr(x, off), w) = IF v >= h THEN v - q ELSE v  BY DEF SignedLow
<1>5. \A y : Shr(y, W - w) = y \div c  BY <1>2 DEF Shr
<1> HIDE DEF p, q, r, h, v
<1>6. c \in Nat \ {0} /\ t * r \in 0 .. c - 1
  <2>1. c \in Nat \ {0} /\ t * r >= 0 /\ t * r + r <= p * r  BY <1>1, <1>2
  <2> QED  BY <1>1, <1>2, <2>1
<1> DEFINE s == t * r
<1>7. x * r = M * u + (c * v + s)  BY <1>1, <1>2
<1>8. s \in 0 .. c - 1 /\ M \in Nat \ {0}  BY <1>6, MType
<1> HIDE DEF c, s
<1>9. c * v + s \in 0 .. M - 1
  <2>1. c * v >= 0 /\ c * v + c <= c * q  BY <1>1, <1>2, <1>6
  <2> QED  BY <1>1, <1>2, <1>6, <1>8, <2>1
<1> DEFINE y == c * v + s
<1>10. z = y
  <2>2. y \in 0 .. M - 1  BY <1>9
  <2> HIDE DEF y
  <2>1. (M * u + y) % M = y  BY <1>1, <1>8, <2>2, Quotient
  <2> QED  BY <1>3, <1>7, <2>1 DEF Mask, y
<1>11. y \div c = v
  <2>1. v \in Int  BY <1>1, <1>2
  <2> QED  BY <1>6, <1>8, <2>1, Quotient
<1>12. Signed(z) = IF v >= h THEN c * (v - q) + s ELSE y
  <2>1. Mask(z) = z /\ z \in Int  BY <1>9, <1>10, MaskOfWord DEF Word, Top
  <2>2. Signed(z) = IF z >= Sign THEN z - M ELSE z
    BY <2>1, SignIsPower DEF Signed, SignedLow, Low, Mask, M
  <2>3. v >= h => y >= Sign
    <3>1. v >= h => c * v >= c * h  BY <1>1, <1>2, <1>6
    <3> QED  BY <1>1, <1>2, <1>6, <1>8, <3>1
  <2>4. v < h => y < Sign
    <3>1. v + 1 <= h => c * v + c <= c * h  BY <1>1, <1>2, <1>6
    <3> QED  BY <1>1, <1>2, <1>6, <1>8, <3>1
  <2>5. y - M = c * (v - q) + s  BY <1>1, <1>2, <1>6, <1>8
  <2>6. v \in Int /\ h \in Int  BY <1>1, <1>2
  <2>7. y \in Int /\ Sign \in Int  BY <1>9, <1>8, Constants
  <2> HIDE DEF y, z
  <2> QED  BY <1>10, <2>2, <2>3, <2>4, <2>5, <2>6, <2>7
<1>13. (c * (v - q) + s) \div c = v - q
  <2> DEFINE e == v - q
  <2>1. e \in Int  BY <1>1, <1>2
  <2> HIDE DEF e
  <2>2. (c * e + s) \div c = e  BY <1>6, <1>8, <2>1, Quotient
  <2> QED  BY <2>2 DEF e
<1> HIDE DEF z, y
<1> QED  BY <1>4, <1>5, <1>10, <1>11, <1>12, <1>13 DEF z, v

\* Two shifts.
LEMMA ShiftsTwice ==
  ASSUME NEW st0 \in State, NEW d \in SRegs, NEW a \in SRegs, NEW k \in 0 .. W - 1, NEW n \in 0 .. W - 1
  PROVE  LET x == Get(st0, a)
             z == Mask(Shl(x, k))
             st1 == Result(I("s_lshl_b32", d, a, K(k)), st0)
         IN  /\ GetPair(Result(I("s_lshr_b32", d, d, K(n)), st1), d) = Mask(Shr(z, n))
             /\ GetPair(Result(I("s_ashr_i32", d, d, K(n)), st1), d) = Mask(Shr(Signed(z), n))
<1> DEFINE x == Get(st0, a)
           y == Shl(x, k)
           z == Mask(y)
           st1 == Result(I("s_lshl_b32", d, a, K(k)), st0)
           left == Shr(z, n)
           right == Shr(Signed(z), n)
<1>1. k \in Nat /\ n \in Nat /\ k % W = k /\ n % W = n  BY MType
<1>2. \A s, m : Get(s, K(m)) = m  BY DEF Get, K
<1>3. x \in Int  BY SRegOperand
<1>4. y \in Int
  <2> HIDE DEF x
  <2> QED  BY <1>1, <1>3, ShiftOfMask
<1>5. st1 = Set(st0, d, y)
  <2>1. st1 = Set(st0, d, Shl(Get(st0, a), Get(st0, K(k)) % W))  BY DoesThis
  <2> QED  BY <1>1, <1>2, <2>1
<1> HIDE DEF st1, y
<1>6. st1 \in State /\ Get(st1, d) = z  BY <1>4, <1>5, SetReads
<1>7. left \in Int /\ right \in Int
  <2>1. z \in Int  BY <1>4, MaskType
  <2> HIDE DEF z
  <2>2. Signed(z) \in Int  BY <2>1, SignedSame
  <2> QED  BY <1>1, <2>1, <2>2, ShiftOfMask
<1>8. Result(I("s_lshr_b32", d, d, K(n)), st1) = Set(st1, d, left)
  <2>1. Result(I("s_lshr_b32", d, d, K(n)), st1) = Set(st1, d, Shr(Get(st1, d), Get(st1, K(n)) % W))  BY DoesThis
  <2> QED  BY <1>1, <1>2, <1>6, <2>1
<1>9. Result(I("s_ashr_i32", d, d, K(n)), st1) = Set(st1, d, right)
  <2>1. Result(I("s_ashr_i32", d, d, K(n)), st1) = Set(st1, d, Shr(Signed(Get(st1, d)), Get(st1, K(n)) % W))  BY DoesThis
  <2> QED  BY <1>1, <1>2, <1>6, <2>1
<1> HIDE DEF left, right
<1>10. /\ GetPair(Result(I("s_lshr_b32", d, d, K(n)), st1), d) = Mask(left)
       /\ GetPair(Result(I("s_ashr_i32", d, d, K(n)), st1), d) = Mask(right)
  BY <1>6, <1>7, <1>8, <1>9, SetReads
<1> QED  BY <1>10 DEF st1, left, right, y

\* A field is two shifts, and its packed form is the form with two numbers.
LEMMA TakesFieldHolds ==
  ASSUME NEW st0 \in State, NEW l, TakesField(l)
  PROVE  Lawful(l, st0)
<1>1. PICK d \in SRegs, a \in SRegs, off \in 0 .. W - 1, w \in 1 .. W - 1 :
        /\ off + w <= W
        /\ \/ l = Law(I("s_bfe_u32", d, a, Field(off, w)),
                      <<I("s_lshl_b32", d, a, K(W - off - w)), I("s_lshr_b32", d, d, K(W - w))>>)
           \/ /\ off + w < W
              /\ l = Law(I("s_bfe_i32", d, a, Field(off, w)),
                         <<I("s_lshl_b32", d, a, K(W - off - w)), I("s_ashr_i32", d, d, K(W - w))>>)
           \/ \E op \in {"s_bfe_u32", "s_bfe_i32"} :
                l = Law(FourForm(op, d, a, off, w), <<I(op, d, a, Field(off, w))>>)
  BY DEF TakesField
<1> DEFINE x == Get(st0, a)
           r == Shr(x, off)
           k == W - off - w
           n == W - w
           z == Mask(Shl(x, k))
           st1 == Result(I("s_lshl_b32", d, a, K(k)), st0)
           u == I("s_bfe_u32", d, a, Field(off, w))
           s == I("s_bfe_i32", d, a, Field(off, w))
<1>2. x \in Word /\ x \in Int  BY SRegOperand
<1>3. off + w <= W /\ k \in 0 .. W - 1 /\ n \in 0 .. W - 1 /\ w \in 0 .. W  BY <1>1, MType
<1>4. \A op, b, c : I(op, d, b, c).d = d /\ FourForm(op, d, a, b, c).d = d  BY DEF I, FourForm
<1>5. /\ GetPair(Result(I("s_lshr_b32", d, d, K(n)), st1), d) = Mask(Shr(z, n))
      /\ GetPair(Result(I("s_ashr_i32", d, d, K(n)), st1), d) = Mask(Shr(Signed(z), n))
  <2> HIDE DEF k, n
  <2> QED  BY <1>3, ShiftsTwice
<1>6. Shr(z, n) = Low(r, w) /\ Shr(Signed(z), n) = SignedLow(r, w)
  <2> HIDE DEF x
  <2> QED  BY <1>2, <1>3, FieldOnTop
<1>7. /\ GetPair(Result(u, st0), d) = Mask(Low(Mask(r), w))
      /\ GetPair(Result(s, st0), d) = Mask(IF off + w < W THEN SignedLow(Mask(r), w) ELSE Mask(r))
  BY <1>3, PackedReads
<1>8. Low(Mask(r), w) = Low(r, w) /\ SignedLow(Mask(r), w) = SignedLow(r, w)
  <2>1. r \in Int
    <3> HIDE DEF x
    <3>1. off \in Nat  OBVIOUS
    <3> QED  BY <1>2, <3>1, ShiftOfMask
  <2> HIDE DEF r
  <2> QED  BY <1>3, <2>1, LowOfMask, SignedLowOfMask
<1> HIDE DEF z, r, k, n
<1>9. GetPair(Result(u, st0), d) = GetPair(Result(I("s_lshr_b32", d, d, K(n)), st1), d)  BY <1>5, <1>6, <1>7, <1>8
<1>10. off + w < W => GetPair(Result(s, st0), d) = GetPair(Result(I("s_ashr_i32", d, d, K(n)), st1), d)
  BY <1>5, <1>6, <1>7, <1>8
<1>11. CASE l = Law(u, <<I("s_lshl_b32", d, a, K(k)), I("s_lshr_b32", d, d, K(n))>>)
  BY <1>4, <1>9, <1>11, LawOf
<1>12. CASE off + w < W /\ l = Law(s, <<I("s_lshl_b32", d, a, K(k)), I("s_ashr_i32", d, d, K(n))>>)
  BY <1>4, <1>10, <1>12, LawOf
<1>13. CASE \E op \in {"s_bfe_u32", "s_bfe_i32"} :
              l = Law(FourForm(op, d, a, off, w), <<I(op, d, a, Field(off, w))>>)
  <2>1. PICK op \in {"s_bfe_u32", "s_bfe_i32"} :
          l = Law(FourForm(op, d, a, off, w), <<I(op, d, a, Field(off, w))>>)
    BY <1>13
  <2> DEFINE i == FourForm(op, d, a, off, w)
             j == I(op, d, a, Field(off, w))
  <2>2. i.d = d /\ l = Law(i, <<j>>)  BY <1>4, <2>1
  <2>3. GetPair(Result(i, st0), d) = GetPair(Result(j, st0), d)  BY <1>3, FormsHold
  <2> HIDE DEF i, j
  <2> QED  BY <2>2, <2>3, LawOf
<1> QED  BY <1>1, <1>11, <1>12, <1>13 DEF k, n

\* The sign extensions are bit field extracts.
LEMMA ExtendsHolds ==
  ASSUME NEW st0 \in State, NEW l, Extends(l)
  PROVE  Lawful(l, st0)
<1>1. PICK d \in SRegs, a \in SRegs :
        l \in {Law(I("s_sext_i32_i8", d, a, Null), <<I("s_bfe_i32", d, a, Field(0, ByteBits))>>),
               Law(I("s_sext_i32_i16", d, a, Null), <<FourForm("s_bfe_i32", d, a, 0, HalfBits)>>)}
  BY DEF Extends
<1> DEFINE x == Get(st0, a)
           zero == 0
           i8 == I("s_sext_i32_i8", d, a, Null)
           i16 == I("s_sext_i32_i16", d, a, Null)
           j8 == I("s_bfe_i32", d, a, Field(0, ByteBits))
           j16 == FourForm("s_bfe_i32", d, a, 0, HalfBits)
<1>2. x \in Word /\ x \in Int /\ Mask(x) = x  BY SRegOperand
<1>3. /\ zero \in 0 .. W - 1 /\ ByteBits \in 1 .. W - 1 /\ HalfBits \in 1 .. W - 1
      /\ zero + ByteBits < W /\ zero + HalfBits < W /\ zero + ByteBits <= W /\ zero + HalfBits <= W
      /\ ByteBits \in Nat /\ HalfBits \in Nat
  BY VConstants
<1>4. i8.d = d /\ i16.d = d /\ i8.op = "s_sext_i32_i8" /\ i16.op = "s_sext_i32_i16" /\ i8.a = a /\ i16.a = a  BY DEF I
<1>5. Shr(x, zero) = x
  <2>1. x \div 1 = x  BY <1>2
  <2> QED  BY <2>1, PowStep DEF Shr
<1> DEFINE v8 == SignedLow(x, ByteBits)
           v16 == SignedLow(x, HalfBits)
<1>6. v8 \in Int /\ v16 \in Int
  <2> HIDE DEF x
  <2> QED  BY <1>2, <1>3, SignedType
<1>7. Result(i8, st0) = Set(st0, d, v8) /\ Result(i16, st0) = Set(st0, d, v16)
  <2> HIDE DEF i8, i16
  <2> QED  BY <1>4, DoesMore DEF MoreOps, FieldForm
<1>8. GetPair(Result(j8, st0), d) = Mask(v8)
  <2> DEFINE j == I("s_bfe_i32", d, a, Field(zero, ByteBits))
             r == Mask(Shr(x, zero))
  <2>1. GetPair(Result(j, st0), d) = Mask(IF zero + ByteBits < W THEN SignedLow(r, ByteBits) ELSE r)
    <3> HIDE DEF zero
    <3> QED  BY <1>3, PackedReads
  <2>2. r = x  BY <1>2, <1>5
  <2> HIDE DEF r
  <2> QED  BY <1>3, <2>1, <2>2
<1>9. GetPair(Result(j16, st0), d) = Mask(v16)
  <2> DEFINE j == FourForm("s_bfe_i32", d, a, zero, HalfBits)
             r == Shr(x, zero)
  <2>1. GetPair(Result(j, st0), d) = Mask(IF zero + HalfBits < W THEN SignedLow(r, HalfBits) ELSE r)
    <3> HIDE DEF zero
    <3> QED  BY <1>3, FourReads
  <2>2. r = x  BY <1>5
  <2> HIDE DEF r
  <2> QED  BY <1>3, <2>1, <2>2
<1> HIDE DEF v8, v16, i8, i16, j8, j16
<1>10. GetPair(Result(i8, st0), d) = Mask(v8) /\ GetPair(Result(i16, st0), d) = Mask(v16)  BY <1>6, <1>7, SetReads
<1>11. CASE l = Law(i8, <<j8>>)  BY <1>4, <1>8, <1>10, <1>11, LawOf
<1>12. CASE l = Law(i16, <<j16>>)  BY <1>4, <1>9, <1>10, <1>12, LawOf
<1> QED  BY <1>1, <1>11, <1>12 DEF i8, i16, j8, j16

\* A pair of neighbours.
LEMMA PairOfTwo ==
  ASSUME NEW n \in 0 .. NRegs - 2
  PROVE  /\ S(n) \in SRegs /\ S(n + 1) \in SRegs /\ S(n) # S(n + 1) /\ P(n) \in Pairs /\ P(n).t = "pair"
         /\ \A z \in State : GetPair(z, P(n)) = Pair(Get(z, S(n)), Get(z, S(n + 1)))
<1>1. NRegs \in Nat /\ n \in Nat /\ n \in 0 .. NRegs - 1 /\ n + 1 \in 0 .. NRegs - 1 /\ n # n + 1  BY SizeAssumption
<1>2. S(n) \in SRegs /\ S(n + 1) \in SRegs /\ S(n) # S(n + 1) /\ P(n) \in Pairs /\ P(n).t = "pair"
  BY <1>1 DEF S, P, SRegs, Pairs, Reg
<1>3. \A z \in State : GetPair(z, P(n)) = Pair(Get(z, S(n)), Get(z, S(n + 1)))  BY DEF GetPair, Get, P, S
<1> QED  BY <1>2, <1>3

\* A pair shifted by one place is added to itself, with a carry.
LEMMA Doubled ==
  ASSUME NEW st0 \in State, NEW n \in 0 .. NRegs - 2
  PROVE  Lawful(Law(I("s_lshl_b64", P(n), P(n), K(1)),
                    <<I("s_add_u32", S(n), S(n), S(n)), I("s_addc_u32", S(n + 1), S(n + 1), S(n + 1))>>), st0)
<1> DEFINE p == P(n)
           a == S(n)
           b == S(n + 1)
           one == I("s_lshl_b64", p, p, K(1))
           i == I("s_add_u32", a, a, a)
           j == I("s_addc_u32", b, b, b)
           x == Get(st0, a)
           y == Get(st0, b)
           s == x + x
           carry == IF s > Top THEN 1 ELSE 0
           t == y + y + carry
           st1 == Result(i, st0)
           st2 == Result(j, st1)
<1>1. /\ a \in SRegs /\ b \in SRegs /\ a # b /\ p \in Pairs
      /\ \A z \in State : GetPair(z, p) = Pair(Get(z, a), Get(z, b))
  BY PairOfTwo
<1>2. /\ one.op = "s_lshl_b64" /\ one.d = p /\ one.a = p /\ one.b = K(1)
      /\ i.op = "s_add_u32" /\ i.d = a /\ i.a = a /\ i.b = a
      /\ j.op = "s_addc_u32" /\ j.d = b /\ j.a = b /\ j.b = b
  BY DEF I
<1> HIDE DEF p, a, b, one, i, j
<1>3. x \in Word /\ y \in Word  BY <1>1, SRegOperand
<1>4. x \in 0 .. Top /\ y \in 0 .. Top /\ Top \in Nat /\ M = Top + 1  BY <1>3, Constants DEF Word, Top
<1>5. st1 = Flag(Set(st0, a, s), s > Top)  BY <1>2, DoesOneOfMain DEF AddCarry
<1>6. s \in 0 .. Top + Top + 1 /\ s \in Int /\ t \in Int /\ carry \in Int
  <2> HIDE DEF x, y
  <2> QED  BY <1>4
<1>7. s \div M = carry
  <2> HIDE DEF s
  <2> QED  BY <1>6, CarryBit
<1> HIDE DEF x, y
<1>8. st1 \in State /\ st1.scc = carry /\ Get(st1, a) = Mask(s) /\ Get(st1, b) = y
  <2> DEFINE z == Set(st0, a, s)
             e == s > Top
  <2>1. z \in State /\ Get(z, a) = Mask(s) /\ Get(z, b) = y
    <3> HIDE DEF s
    <3> QED  BY <1>1, <1>6, SetReads DEF y
  <2>2. st1 = Flag(z, e)  BY <1>5
  <2> HIDE DEF z, st1
  <2>3. Flag(z, e) \in State /\ Flag(z, e).scc = (IF e THEN 1 ELSE 0)  BY <2>1, FlagReads
  <2>4. \A o \in SRegs : Get(Flag(z, e), o) = Get(z, o)  BY <2>1, FlagReads
  <2> QED  BY <1>1, <2>1, <2>2, <2>3, <2>4
<1> HIDE DEF st1, carry
<1>9. st2 = Flag(Set(st1, b, t), t > Top)
  <2>1. st2 = Flag(Set(st1, b, Get(st1, b) + Get(st1, b) + st1.scc), Get(st1, b) + Get(st1, b) + st1.scc > Top)
    BY <1>2, DoesOneOfMain DEF AddCarry
  <2> QED  BY <1>8, <2>1
<1> HIDE DEF s, t
<1>10. st2 \in State /\ Get(st2, a) = Mask(s) /\ Get(st2, b) = Mask(t)
  <2> DEFINE z == Set(st1, b, t)
             e == t > Top
  <2>1. z \in State /\ Get(z, b) = Mask(t) /\ Get(z, a) = Mask(s)  BY <1>1, <1>6, <1>8, SetReads
  <2>2. st2 = Flag(z, e)  BY <1>9
  <2> HIDE DEF z, st2
  <2>3. Flag(z, e) \in State  BY <2>1, FlagReads
  <2>4. \A o \in SRegs : Get(Flag(z, e), o) = Get(z, o)  BY <2>1, FlagReads
  <2> QED  BY <1>1, <2>1, <2>2, <2>3, <2>4
<1> HIDE DEF st2
<1>11. GetPair(st2, p) = Pair(Mask(s), Mask(t))  BY <1>1, <1>10
<1>12. Mask2(M * (t - (s \div M)) + s) = Pair(Mask(s), Mask(t))  BY <1>6, SumByHalves
<1> DEFINE v == Pair(x, y)
<1>13. M * (t - (s \div M)) + s = v * 2 /\ v \in Int
  <2>1. t - (s \div M) = y + y  BY <1>4, <1>6, <1>7 DEF t
  <2>2. s = x + x  BY DEF s
  <2>3. v = y * M + x  BY DEF Pair
  <2> HIDE DEF v
  <2> QED  BY <1>4, <2>1, <2>2, <2>3
<1>14. GetPair(st0, p) = v  BY <1>1 DEF x, y
<1>15. Result(one, st0) = SetPair(st0, p, Mask2(v * 2))
  <2>1. Result(one, st0) = SetPair(st0, one.d, Mask2(Shl(GetPair(st0, one.a), Get(st0, one.b) % (2 * W))))
    BY <1>2, DoesOneOfMain
  <2>2. Get(st0, K(1)) % (2 * W) = 1
    <3>1. Get(st0, K(1)) = 1  BY DEF Get, K
    <3>2. 1 % (2 * W) = 1  BY WidthAssumption
    <3> QED  BY <3>1, <3>2
  <2>3. Pow2[1] = 2
    <3>1. Pow2[0 + 1] = 2 * Pow2[0] /\ Pow2[0] = 1  BY PowStep
    <3> QED  BY <3>1
  <2> HIDE DEF v
  <2> QED  BY <1>2, <1>14, <2>1, <2>2, <2>3 DEF Shl
<1> HIDE DEF v
<1> DEFINE m == Mask2(v * 2)
<1>16. m \in Int /\ m \in DoubleWord  BY <1>13, Mask2Type
<1>17. GetPair(Result(one, st0), p) = m
  <2>1. GetPair(SetPair(st0, p, m), p) = m
    <3> HIDE DEF m
    <3> QED  BY <1>1, <1>16, PairKept
  <2> QED  BY <1>15, <2>1
<1>18. m = Pair(Mask(s), Mask(t))  BY <1>12, <1>13
<1> HIDE DEF m
<1>19. GetPair(Result(one, st0), one.d) = GetPair(Result(j, Result(i, st0)), one.d)
  BY <1>2, <1>11, <1>17, <1>18 DEF st1, st2
<1>20. Lawful(Law(one, <<i, j>>), st0)  BY <1>19, LawOf
<1> QED  BY <1>20 DEF one, i, j, p, a, b

\* A pair shifted by a word has its low word moved up and a zero below.
LEMMA MovedUp ==
  ASSUME NEW st0 \in State, NEW n \in 0 .. NRegs - 2
  PROVE  Lawful(Law(I("s_lshl_b64", P(n), P(n), K(W)),
                    <<I("s_mov_b32", S(n + 1), S(n), Null), I("s_mov_b32", S(n), K(0), Null)>>), st0)
<1> DEFINE p == P(n)
           a == S(n)
           b == S(n + 1)
           one == I("s_lshl_b64", p, p, K(W))
           i == I("s_mov_b32", b, a, Null)
           j == I("s_mov_b32", a, K(0), Null)
           x == Get(st0, a)
           y == Get(st0, b)
           st1 == Result(i, st0)
           st2 == Result(j, st1)
           zero == 0
           v == Pair(x, y)
<1>1. /\ a \in SRegs /\ b \in SRegs /\ a # b /\ p \in Pairs
      /\ \A z \in State : GetPair(z, p) = Pair(Get(z, a), Get(z, b))
  BY PairOfTwo
<1>2. /\ one.op = "s_lshl_b64" /\ one.d = p /\ one.a = p /\ one.b = K(W)  BY DEF I
<1>3. x \in Word /\ y \in Word /\ x \in Int /\ y \in Int /\ Mask(x) = x  BY <1>1, SRegOperand
<1>4. st1 = Set(st0, b, x)  BY DoesThis
<1>5. st2 = Set(st1, a, zero)
  <2>1. Get(st1, K(0)) = 0  BY DEF Get, K
  <2>2. st2 = Set(st1, a, Get(st1, K(0)))  BY DoesThis
  <2> QED  BY <2>1, <2>2
<1>6. zero \in Int /\ Mask(zero) = zero /\ zero % M = 0 /\ zero \div M = 0
  <2>1. 0 \in Word  BY Constants
  <2>2. Mask(0) = 0  BY <2>1, MaskOfWord
  <2>3. 0 \div M = 0  BY MType
  <2> QED  BY <2>2, <2>3 DEF Mask
<1> HIDE DEF p, a, b, one, st1, st2, zero
<1>7. st1 \in State /\ Get(st1, b) = x
  <2>1. Get(st1, b) = Mask(x)
    <3> HIDE DEF x
    <3> QED  BY <1>1, <1>3, <1>4, SetReads
  <2>2. st1 \in State
    <3> HIDE DEF x
    <3> QED  BY <1>1, <1>3, <1>4, SetReads
  <2> QED  BY <1>3, <2>1, <2>2
<1>8. st2 \in State /\ Get(st2, a) = zero /\ Get(st2, b) = x
  <2> HIDE DEF x
  <2> QED  BY <1>1, <1>5, <1>6, <1>7, SetReads
<1>9. GetPair(st2, p) = Pair(zero, x)  BY <1>1, <1>8
<1>10. GetPair(st0, p) = v  BY <1>1
<1> HIDE DEF x, y
<1>11. v \in Int /\ v = M * y + x  BY <1>3, MType DEF Pair
<1>12. Mask(v) = x
  <2>1. x \in 0 .. M - 1 /\ M \in Nat \ {0}  BY <1>3, MType DEF Word, Top
  <2>2. (M * y + x) % M = x  BY <1>3, <2>1, Quotient
  <2> QED  BY <1>11, <2>2 DEF Mask
<1> HIDE DEF v
<1>13. Mask2(v * M) = Pair(zero, x)
  <2>1. Mask2(M * (v - (zero \div M)) + zero) = Pair(Mask(zero), Mask(v))  BY <1>6, <1>11, SumByHalves
  <2>2. M * (v - (zero \div M)) + zero = v * M
    <3>1. M * (v - 0) + 0 = v * M  BY <1>11, MType
    <3> QED  BY <1>6, <3>1 DEF zero
  <2> QED  BY <1>6, <1>12, <2>1, <2>2
<1> DEFINE m == Mask2(v * M)
<1>14. Result(one, st0) = SetPair(st0, p, m)
  <2>1. Result(one, st0) = SetPair(st0, one.d, Mask2(Shl(GetPair(st0, one.a), Get(st0, one.b) % (2 * W))))
    BY <1>2, DoesOneOfMain
  <2>2. Get(st0, K(W)) % (2 * W) = W
    <3>1. Get(st0, K(W)) = W  BY DEF Get, K
    <3>2. W % (2 * W) = W  BY WidthAssumption
    <3> QED  BY <3>1, <3>2
  <2> QED  BY <1>2, <1>10, <2>1, <2>2 DEF Shl, M
<1>15. m \in DoubleWord
  <2>1. v * M \in Int  BY <1>11, MType
  <2> QED  BY <2>1, Mask2Type
<1> HIDE DEF m
<1>16. GetPair(SetPair(st0, p, m), p) = m  BY <1>1, <1>15, PairKept
<1>17. GetPair(Result(one, st0), one.d) = GetPair(Result(j, Result(i, st0)), one.d)
  <2>1. GetPair(Result(one, st0), p) = GetPair(st2, p)  BY <1>9, <1>13, <1>14, <1>16 DEF m
  <2> QED  BY <1>2, <2>1 DEF st1, st2
<1> HIDE DEF i, j
<1>18. Lawful(Law(one, <<i, j>>), st0)  BY <1>17, LawOf
<1> QED  BY <1>18 DEF one, i, j, p, a, b

\* So the shifts of a pair are these additions and moves.
LEMMA ShiftsPairHolds ==
  ASSUME NEW st0 \in State, NEW l, ShiftsPair(l)
  PROVE  Lawful(l, st0)
<1>1. PICK n \in 0 .. NRegs - 2 :
        l \in {Law(I("s_lshl_b64", P(n), P(n), K(1)),
                   <<I("s_add_u32", S(n), S(n), S(n)), I("s_addc_u32", S(n + 1), S(n + 1), S(n + 1))>>),
               Law(I("s_lshl_b64", P(n), P(n), K(W)),
                   <<I("s_mov_b32", S(n + 1), S(n), Null), I("s_mov_b32", S(n), K(0), Null)>>)}
  BY DEF ShiftsPair
<1>2. CASE l = Law(I("s_lshl_b64", P(n), P(n), K(1)),
                   <<I("s_add_u32", S(n), S(n), S(n)), I("s_addc_u32", S(n + 1), S(n + 1), S(n + 1))>>)
  BY <1>2, Doubled
<1>3. CASE l = Law(I("s_lshl_b64", P(n), P(n), K(W)),
                   <<I("s_mov_b32", S(n + 1), S(n), Null), I("s_mov_b32", S(n), K(0), Null)>>)
  BY <1>3, MovedUp
<1> QED  BY <1>1, <1>2, <1>3

-----------------------------------------------------------------------------
(* The laws.                                                               *)

\* Every law of the five families holds.
LEMMA LawIsLawful ==
  ASSUME NEW st0 \in State, NEW l \in Laws
  PROVE  Lawful(l, st0)
<1>1. Inverts(l) \/ ShiftsPair(l) \/ TakesField(l) \/ Extends(l) \/ Chooses(l)  BY LawsAssumption
<1> QED  BY <1>1, InvertsHolds, ShiftsPairHolds, TakesFieldHolds, ExtendsHolds, ChoosesHolds

\* LawsHold: one instruction may stand for several, in every kernel, for all
\* words and all widths.
THEOREM LawsCorrect == ASSUME NRegs > 1 PROVE Spec => []LawsHold
<1>1. TypeOK /\ WideSum => LawsHold
  <2>1. ASSUME TypeOK, ~InSuite, NEW l \in Laws
        PROVE  GetPair(Result(l.one, st), l.one.d) = GetPair(Run(l.many, st), l.one.d)
    <3>1. st \in State  BY <2>1 DEF TypeOK
    <3>2. Lawful(l, st)  BY <3>1, LawIsLawful
    <3> QED  BY <3>2 DEF Lawful
  <2> QED  BY <2>1 DEF LawsHold
<1>2. Spec => []TypeOK  BY TypeCorrect
<1>3. Spec => [](AnySum /\ WideSum)  BY WideSumCorrect
<1> QED  BY <1>1, <1>2, <1>3, PTL

-----------------------------------------------------------------------------
(* Vector instructions, one after the other.                               *)

\* The states behind the first m instructions.
VRunsTo(f, code, m, st0) == f = [n \in 0 .. m |-> IF n = 0 THEN st0 ELSE VResult(code[n], f[n - 1])]

\* The same without the domain.
VFollow(f, code, m, st0) == f[0] = st0 /\ \A n \in 1 .. m : f[n] = VResult(code[n], f[n - 1])

\* The waves behind the first instructions exist, however many they are.
LEMMA VRunsExist ==
  ASSUME NEW code, NEW st0
  PROVE  \A m \in Nat : \E f : VRunsTo(f, code, m, st0)
<1> DEFINE Holding == {m \in Nat : \E f : VRunsTo(f, code, m, st0)}
<1>1. 0 \in Holding
  <2>1. VRunsTo([n \in 0 .. 0 |-> st0], code, 0, st0)  BY DEF VRunsTo
  <2> QED  BY <2>1
<1>2. ASSUME NEW m \in Nat, m \in Holding PROVE m + 1 \in Holding
  <2>1. PICK f : VRunsTo(f, code, m, st0)  BY <1>2
  <2> DEFINE next == VResult(code[m + 1], f[m])
             g == [n \in 0 .. m + 1 |-> IF n = m + 1 THEN next ELSE f[n]]
             h == [n \in 0 .. m + 1 |-> IF n = 0 THEN st0 ELSE VResult(code[n], g[n - 1])]
  <2>2. \A n \in 0 .. m : f[n] = IF n = 0 THEN st0 ELSE VResult(code[n], f[n - 1])
    BY <2>1 DEF VRunsTo
  <2>3. \A n \in 0 .. m : n \in 0 .. m + 1 /\ n # m + 1 /\ (n # 0 => n - 1 \in 0 .. m)
    OBVIOUS
  <2>4. m + 1 \in 0 .. m + 1 /\ m + 1 # 0 /\ (m + 1) - 1 = m /\ m \in 0 .. m /\ \A n \in 0 .. m + 1 : n = m + 1 \/ n \in 0 .. m
    OBVIOUS
  <2>5. (\A n \in 0 .. m : g[n] = f[n]) /\ g[m + 1] = next
    <3> HIDE DEF next
    <3> QED  BY <2>3, <2>4
  <2>6. (\A n \in 0 .. m + 1 : h[n] = IF n = 0 THEN st0 ELSE VResult(code[n], g[n - 1])) /\ DOMAIN h = 0 .. m + 1
    <3> HIDE DEF g
    <3> QED  OBVIOUS
  <2>7. DOMAIN g = 0 .. m + 1 /\ g = [n \in 0 .. m + 1 |-> g[n]] /\ h = [n \in 0 .. m + 1 |-> h[n]]
    OBVIOUS
  <2> HIDE DEF g, h
  <2>8. \A n \in 0 .. m + 1 : h[n] = g[n]
    <3> SUFFICES ASSUME NEW n \in 0 .. m + 1 PROVE h[n] = g[n]
      OBVIOUS
    <3>1. CASE n = m + 1
      <4>1. h[n] = VResult(code[m + 1], g[m])  BY <2>4, <2>6, <3>1
      <4> QED  BY <2>4, <2>5, <3>1, <4>1
    <3>2. CASE n \in 0 .. m
      <4>1. CASE n = 0  BY <2>2, <2>5, <2>6, <3>2, <4>1
      <4>2. CASE n # 0
        <5>1. h[n] = VResult(code[n], g[n - 1]) /\ g[n - 1] = f[n - 1]  BY <2>3, <2>5, <2>6, <3>2, <4>2
        <5> QED  BY <2>2, <2>5, <3>2, <4>2, <5>1
      <4> QED  BY <4>1, <4>2
    <3> QED  BY <2>4, <3>1, <3>2
  <2>9. g = h  BY <2>7, <2>8
  <2>10. VRunsTo(g, code, m + 1, st0)  BY <2>9 DEF VRunsTo, h
  <2> QED  BY <2>10
<1>3. Nat \subseteq Holding
  <2> HIDE DEF Holding
  <2> QED  BY <1>1, <1>2, Induction
<1> QED  BY <1>3

\* What VRun leaves is the last of these waves.
LEMMA VRunIs ==
  ASSUME NEW code, NEW st0, NEW m \in Nat, Len(code) = m
  PROVE  \E f : VRun(code, st0) = f[m] /\ VFollow(f, code, m, st0)
<1> DEFINE f == CHOOSE f : VRunsTo(f, code, m, st0)
<1>1. VRunsTo(f, code, m, st0)  BY VRunsExist
<1>2. VRun(code, st0) = f[m]  BY DEF VRun, VRunsTo
<1> HIDE DEF f
<1>4. \A n \in 0 .. m : f[n] = IF n = 0 THEN st0 ELSE VResult(code[n], f[n - 1])  BY <1>1 DEF VRunsTo
<1>5. 0 \in 0 .. m /\ \A n \in 1 .. m : n \in 0 .. m /\ n # 0  OBVIOUS
<1>6. VFollow(f, code, m, st0)  BY <1>4, <1>5 DEF VFollow
<1> QED  BY <1>2, <1>6

\* One instruction on its own.
LEMMA VRunOfOne ==
  ASSUME NEW i, NEW st0
  PROVE  VRun(<<i>>, st0) = VResult(i, st0)
<1> DEFINE code == <<i>>
<1>1. /\ Len(code) = 1 /\ code[1] = i
      /\ 1 \in 1 .. 1 /\ 1 - 1 = 0
  OBVIOUS
<1> HIDE DEF code
<1>2. PICK f : VRun(code, st0) = f[1] /\ f[0] = st0 /\ \A n \in 1 .. 1 : f[n] = VResult(code[n], f[n - 1])
  <2> DEFINE m == 1
  <2>1. m \in Nat /\ Len(code) = m  BY <1>1
  <2> HIDE DEF m
  <2>2. PICK f : VRun(code, st0) = f[m] /\ VFollow(f, code, m, st0)  BY <2>1, VRunIs, Zenon
  <2> QED  BY <2>2 DEF m, VFollow
<1>3. f[1] = VResult(i, st0)  BY <1>1, <1>2
<1> QED  BY <1>2, <1>3 DEF code

\* Two instructions, one after the other.
LEMMA VRunOfTwo ==
  ASSUME NEW i, NEW j, NEW st0
  PROVE  VRun(<<i, j>>, st0) = VResult(j, VResult(i, st0))
<1> DEFINE code == <<i, j>>
<1>1. /\ Len(code) = 2 /\ code[1] = i /\ code[2] = j
      /\ 1 \in 1 .. 2 /\ 2 \in 1 .. 2 /\ 1 - 1 = 0 /\ 2 - 1 = 1
  OBVIOUS
<1> HIDE DEF code
<1>2. PICK f : VRun(code, st0) = f[2] /\ f[0] = st0 /\ \A n \in 1 .. 2 : f[n] = VResult(code[n], f[n - 1])
  <2> DEFINE m == 2
  <2>1. m \in Nat /\ Len(code) = m  BY <1>1
  <2> HIDE DEF m
  <2>2. PICK f : VRun(code, st0) = f[m] /\ VFollow(f, code, m, st0)  BY <2>1, VRunIs, Zenon
  <2> QED  BY <2>2 DEF m, VFollow
<1>3. f[1] = VResult(i, st0) /\ f[2] = VResult(j, f[1])  BY <1>1, <1>2
<1> QED  BY <1>2, <1>3 DEF code

\* Three instructions.
LEMMA VRunOfThree ==
  ASSUME NEW i, NEW j, NEW k, NEW st0
  PROVE  VRun(<<i, j, k>>, st0) = VResult(k, VResult(j, VResult(i, st0)))
<1> DEFINE code == <<i, j, k>>
<1>1. /\ Len(code) = 3 /\ code[1] = i /\ code[2] = j /\ code[3] = k
      /\ 1 \in 1 .. 3 /\ 2 \in 1 .. 3 /\ 3 \in 1 .. 3 /\ 1 - 1 = 0 /\ 2 - 1 = 1 /\ 3 - 1 = 2
  OBVIOUS
<1> HIDE DEF code
<1>2. PICK f : VRun(code, st0) = f[3] /\ f[0] = st0 /\ \A n \in 1 .. 3 : f[n] = VResult(code[n], f[n - 1])
  <2> DEFINE m == 3
  <2>1. m \in Nat /\ Len(code) = m  BY <1>1
  <2> HIDE DEF m
  <2>2. PICK f : VRun(code, st0) = f[m] /\ VFollow(f, code, m, st0)  BY <2>1, VRunIs, Zenon
  <2> QED  BY <2>2 DEF m, VFollow
<1>3. f[1] = VResult(i, st0) /\ f[2] = VResult(j, f[1]) /\ f[3] = VResult(k, f[2])  BY <1>1, <1>2
<1> QED  BY <1>2, <1>3 DEF code

\* Four instructions.
LEMMA VRunOfFour ==
  ASSUME NEW i, NEW j, NEW k, NEW h, NEW st0
  PROVE  VRun(<<i, j, k, h>>, st0) = VResult(h, VResult(k, VResult(j, VResult(i, st0))))
<1> DEFINE code == <<i, j, k, h>>
<1>1. /\ Len(code) = 4 /\ code[1] = i /\ code[2] = j /\ code[3] = k /\ code[4] = h
      /\ 1 \in 1 .. 4 /\ 2 \in 1 .. 4 /\ 3 \in 1 .. 4 /\ 4 \in 1 .. 4 /\ 1 - 1 = 0 /\ 2 - 1 = 1 /\ 3 - 1 = 2 /\ 4 - 1 = 3
  OBVIOUS
<1> HIDE DEF code
<1>2. PICK f : VRun(code, st0) = f[4] /\ f[0] = st0 /\ \A n \in 1 .. 4 : f[n] = VResult(code[n], f[n - 1])
  <2> DEFINE m == 4
  <2>1. m \in Nat /\ Len(code) = m  BY <1>1
  <2> HIDE DEF m
  <2>2. PICK f : VRun(code, st0) = f[m] /\ VFollow(f, code, m, st0)  BY <2>1, VRunIs, Zenon
  <2> QED  BY <2>2 DEF m, VFollow
<1>3. f[1] = VResult(i, st0) /\ f[2] = VResult(j, f[1]) /\ f[3] = VResult(k, f[2]) /\ f[4] = VResult(h, f[3])  BY <1>1, <1>2
<1> QED  BY <1>2, <1>3 DEF code

\* All but one register of the lanes that are on is what it was.
Steady(w, y) == y.exec = w.exec /\ y.s = w.s /\ y.vcc = w.vcc
Keeps(w, y, d) ==
  /\ \A l \in Lane, n \in Vgpr : n # d.n => y.v[l][n] = w.v[l][n]
  /\ \A l \in Lane \ Active(w) : y.v[l][d.n] = w.v[l][d.n]
Wrote(w, y, d) == y \in VState /\ Steady(w, y) /\ Keeps(w, y, d)

\* A write to a VGPR reaches its active lanes and nothing else.
LEMMA SetsRegister ==
  ASSUME NEW w \in VState, NEW d \in VRegs, NEW f, DOMAIN f = Active(w), \A l \in Active(w) : f[l] \in Int
  PROVE  /\ Wrote(w, VSet(w, d, f), d)
         /\ \A l \in Active(w) : VGet(VSet(w, d, f), l, d) = Mask(f[l])
<1> DEFINE y == VSet(w, d, f)
<1>1. d.t = "v" /\ d.n \in Vgpr /\ d \in VRegs \cup VPairs  BY DEF VRegs
<1>2. \A l \in Lane : l \in DOMAIN f => f[l] \in Int  OBVIOUS
<1>3. y \in VState /\ y.v = [l \in Lane |-> Landed(w, d, f, l)] /\ Steady(w, y)
  <2>1. y \in VState /\ y.v = [l \in Lane |-> Landed(w, d, f, l)] /\ y.s = w.s /\ y.exec = w.exec /\ y.vcc = w.vcc
    BY <1>1, <1>2, VSetType
  <2> HIDE DEF y
  <2> QED  BY <2>1 DEF Steady
<1> HIDE DEF y
<1>4. ASSUME NEW l \in Lane
      PROVE  /\ l \notin Active(w) => y.v[l] = w.v[l]
             /\ l \in Active(w) => y.v[l] = [w.v[l] EXCEPT ![d.n] = Mask(f[l])]
  BY <1>1, <1>3 DEF Landed
<1>5. \A l \in Lane : w.v[l] \in [Vgpr -> Word]  BY DEF VState
<1>6. ASSUME NEW l \in Lane, NEW n \in Vgpr, n # d.n PROVE y.v[l][n] = w.v[l][n]
  BY <1>4, <1>5, <1>6
<1>7. ASSUME NEW l \in Active(w) PROVE y.v[l][d.n] = Mask(f[l])
  <2>1. l \in Lane  BY ActiveLanes
  <2> QED  BY <1>1, <1>4, <1>5, <2>1
<1>8. Keeps(w, y, d)  BY <1>4, <1>6 DEF Keeps
<1>9. \A l : VGet(y, l, d) = y.v[l][d.n]  BY <1>1 DEF VGet
<1> QED  BY <1>3, <1>7, <1>8, <1>9 DEF Wrote, y

\* Two writes to one VGPR have written that VGPR alone.
LEMMA WroteTwice ==
  ASSUME NEW w, NEW y, NEW z, NEW d, Wrote(w, y, d), Wrote(y, z, d)
  PROVE  Wrote(w, z, d)
<1>1. Active(y) = Active(w)  BY DEF Wrote, Steady, Active
<1> QED  BY <1>1 DEF Wrote, Steady, Keeps

\* What stands apart from the VGPR that was written reads as before.
LEMMA ReadsApart ==
  ASSUME NEW w, NEW y, NEW d \in VRegs, Wrote(w, y, d)
  PROVE  /\ Active(y) = Active(w)
         /\ \A l \in Lane, o \in VSources : Apart(o, d) => VGet(y, l, o) = VGet(w, l, o)
         /\ \A l \in Lane \ Active(w) : VGet(y, l, d) = VGet(w, l, d)
<1>1. Active(y) = Active(w)  BY DEF Wrote, Steady, Active
<1>2. ASSUME NEW l \in Lane, NEW o \in VSources, Apart(o, d) PROVE VGet(y, l, o) = VGet(w, l, o)
  <2>1. CASE o.t \in {"v", "negv"}
    <3>1. o.n \in Vgpr /\ o.n # d.n
      BY <1>2, <2>1 DEF Apart, VSources, VRegs, VCC, ExecReg, Shared, SRegs, Literals, Null
    <3>2. y.v[l][o.n] = w.v[l][o.n]  BY <3>1 DEF Wrote, Keeps
    <3> QED  BY <2>1, <3>2 DEF VGet
  <2>2. CASE o.t \notin {"v", "negv"}
    <3>1. o.t \in {"vcc", "exec", "s", "hex", "lit", "null"}
      BY <2>2 DEF VSources, VRegs, VCC, ExecReg, Shared, SRegs, Literals, Null
    <3>2. y.exec = w.exec /\ y.s = w.s /\ y.vcc = w.vcc  BY DEF Wrote, Steady
    <3> QED  BY <3>1, <3>2 DEF VGet
  <2> QED  BY <2>1, <2>2
<1>3. ASSUME NEW l \in Lane \ Active(w) PROVE VGet(y, l, d) = VGet(w, l, d)
  <2>1. d.t = "v"  BY DEF VRegs
  <2> QED  BY <2>1 DEF VGet, Wrote, Keeps
<1> QED  BY <1>1, <1>2, <1>3

\* What the vector handlers leave in a lane that is on.
LEMMA ToIs ==
  \A op, d, a, b, c : /\ To(op, d, a, b, c).op = op /\ To(op, d, a, b, c).d = d
                      /\ To(op, d, a, b, c).a = a /\ To(op, d, a, b, c).b = b /\ To(op, d, a, b, c).c = c
BY DEF To, V

\* An instruction of two operands writes its value to its destination alone.
LEMMA BinWrites ==
  ASSUME NEW w \in VState, NEW i, i.op \in Bins, i.d \in VRegs, i.a \in VSources, i.b \in VSources
  PROVE  /\ Wrote(w, VResult(i, w), i.d)
         /\ \A l \in Active(w) : VGet(VResult(i, w), l, i.d) = Mask(BinValue(i.op, VGet(w, l, i.a), VGet(w, l, i.b)))
<1> DEFINE f == [l \in Active(w) |-> BinValue(i.op, VGet(w, l, i.a), VGet(w, l, i.b))]
<1>1. ASSUME NEW l \in Active(w) PROVE f[l] \in Int
  <2>1. l \in Lane  BY ActiveLanes
  <2>2. VGet(w, l, i.a) \in Int /\ VGet(w, l, i.b) \in Int  BY <2>1, VGetType
  <2>3. BinValue(i.op, VGet(w, l, i.a), VGet(w, l, i.b)) \in Int  BY <2>2, ValueTypes
  <2> QED  BY <2>3
<1>2. VResult(i, w) = VSet(w, i.d, f)  BY VDoes DEF Bin
<1>3. DOMAIN f = Active(w) /\ \A l \in Active(w) : f[l] = BinValue(i.op, VGet(w, l, i.a), VGet(w, l, i.b))  OBVIOUS
<1> HIDE DEF f
<1>4. /\ Wrote(w, VSet(w, i.d, f), i.d)
      /\ \A l \in Active(w) : VGet(VSet(w, i.d, f), l, i.d) = Mask(f[l])
  BY <1>1, <1>3, SetsRegister
<1> QED  BY <1>2, <1>3, <1>4

\* So does one of three operands.
LEMMA TriWrites ==
  ASSUME NEW w \in VState, NEW i, i.op \in Tris, i.d \in VRegs, i.a \in VSources, i.b \in VSources, i.c \in VSources
  PROVE  /\ Wrote(w, VResult(i, w), i.d)
         /\ \A l \in Active(w) : VGet(VResult(i, w), l, i.d) =
                                   Mask(TriValue(i.op, VGet(w, l, i.a), VGet(w, l, i.b), VGet(w, l, i.c)))
<1> DEFINE f == [l \in Active(w) |-> TriValue(i.op, VGet(w, l, i.a), VGet(w, l, i.b), VGet(w, l, i.c))]
<1>1. ASSUME NEW l \in Active(w) PROVE f[l] \in Int
  <2>1. l \in Lane  BY ActiveLanes
  <2>2. VGet(w, l, i.a) \in Int /\ VGet(w, l, i.b) \in Int /\ VGet(w, l, i.c) \in Int  BY <2>1, VGetType
  <2>3. TriValue(i.op, VGet(w, l, i.a), VGet(w, l, i.b), VGet(w, l, i.c)) \in Int  BY <2>2, ValueTypes
  <2> QED  BY <2>3
<1>2. VResult(i, w) = VSet(w, i.d, f)  BY VDoes, OpClasses DEF Tri
<1>3. DOMAIN f = Active(w) /\ \A l \in Active(w) : f[l] = TriValue(i.op, VGet(w, l, i.a), VGet(w, l, i.b), VGet(w, l, i.c))
  OBVIOUS
<1> HIDE DEF f
<1>4. /\ Wrote(w, VSet(w, i.d, f), i.d)
      /\ \A l \in Active(w) : VGet(VSet(w, i.d, f), l, i.d) = Mask(f[l])
  BY <1>1, <1>3, SetsRegister
<1> QED  BY <1>2, <1>3, <1>4

\* The same for instructions written out, the first of several and a later one.
LEMMA BinFirst ==
  ASSUME NEW w \in VState, NEW op \in Bins, NEW d \in VRegs, NEW a \in VSources, NEW b \in VSources, NEW c
  PROVE  /\ Wrote(w, VResult(To(op, d, a, b, c), w), d)
         /\ \A l \in Active(w) : VGet(VResult(To(op, d, a, b, c), w), l, d) =
                                   Mask(BinValue(op, VGet(w, l, a), VGet(w, l, b)))
<1> DEFINE i == To(op, d, a, b, c)
<1>1. i.op = op /\ i.d = d /\ i.a = a /\ i.b = b  BY ToIs
<1> HIDE DEF i
<1> QED  BY <1>1, BinWrites DEF i

\* The same in the notation of the laws.
LEMMA TriFirst ==
  ASSUME NEW w \in VState, NEW op \in Tris, NEW d \in VRegs, NEW a \in VSources, NEW b \in VSources, NEW c \in VSources
  PROVE  /\ Wrote(w, VResult(To(op, d, a, b, c), w), d)
         /\ \A l \in Active(w) : VGet(VResult(To(op, d, a, b, c), w), l, d) =
                                   Mask(TriValue(op, VGet(w, l, a), VGet(w, l, b), VGet(w, l, c)))
<1> DEFINE i == To(op, d, a, b, c)
<1>1. i.op = op /\ i.d = d /\ i.a = a /\ i.b = b /\ i.c = c  BY ToIs
<1> HIDE DEF i
<1> QED  BY <1>1, TriWrites DEF i

\* A second instruction on the destination of the first.
LEMMA BinThen ==
  ASSUME NEW w \in VState, NEW d \in VRegs, NEW y, Wrote(w, y, d),
         NEW op \in Bins, NEW o, Apart(o, d), NEW c
  PROVE  /\ Wrote(w, VResult(To(op, d, d, o, c), y), d)
         /\ Wrote(w, VResult(To(op, d, o, d, c), y), d)
         /\ \A l \in Active(w) :
              /\ VGet(VResult(To(op, d, d, o, c), y), l, d) = Mask(BinValue(op, VGet(y, l, d), VGet(w, l, o)))
              /\ VGet(VResult(To(op, d, o, d, c), y), l, d) = Mask(BinValue(op, VGet(w, l, o), VGet(y, l, d)))
<1>1. y \in VState /\ d \in VSources /\ o \in VSources /\ Active(y) = Active(w)
  BY SharedSources, ReadsApart DEF Wrote, Apart
<1>2. \A l \in Active(w) : VGet(y, l, o) = VGet(w, l, o)  BY <1>1, ReadsApart, ActiveLanes
<1> DEFINE z1 == VResult(To(op, d, d, o, c), y)
           z2 == VResult(To(op, d, o, d, c), y)
<1>3. Wrote(y, z1, d) /\ \A l \in Active(y) : VGet(z1, l, d) = Mask(BinValue(op, VGet(y, l, d), VGet(y, l, o)))
  BY <1>1, BinFirst
<1>4. Wrote(y, z2, d) /\ \A l \in Active(y) : VGet(z2, l, d) = Mask(BinValue(op, VGet(y, l, o), VGet(y, l, d)))
  BY <1>1, BinFirst
<1> HIDE DEF z1, z2
<1>5. Wrote(w, z1, d) /\ Wrote(w, z2, d)  BY <1>3, <1>4, WroteTwice
<1> QED  BY <1>1, <1>2, <1>3, <1>4, <1>5 DEF z1, z2

\* The value one instruction leaves in every lane, and the value several do.
VLawful(l, w) ==
  \A k \in Lane : VGetPair(VResult(l.one, w), k, l.one.d) = VGetPair(VRun(l.many, w), k, l.one.d)

\* Waves that wrote one VGPR alone, and the same in the active lanes, agree in all lanes.
LEMMA SameInLanes ==
  ASSUME NEW w \in VState, NEW d \in VRegs, NEW y, NEW z, Wrote(w, y, d), Wrote(w, z, d),
         \A l \in Active(w) : VGet(y, l, d) = VGet(z, l, d)
  PROVE  \A k \in Lane : VGetPair(y, k, d) = VGetPair(z, k, d)
<1>1. \A s, k : VGetPair(s, k, d) = VGet(s, k, d)  BY DEF VRegs, VGetPair
<1>2. \A k \in Lane \ Active(w) : VGet(y, k, d) = VGet(w, k, d) /\ VGet(z, k, d) = VGet(w, k, d)  BY ReadsApart
<1> QED  BY <1>1, <1>2

\* A law holds if both sides write one VGPR alone and the same value in the active lanes.
LEMMA VLawOf ==
  ASSUME NEW w \in VState, NEW l, l.one.d \in VRegs,
         Wrote(w, VResult(l.one, w), l.one.d), Wrote(w, VRun(l.many, w), l.one.d),
         \A k \in Active(w) : VGet(VResult(l.one, w), k, l.one.d) = VGet(VRun(l.many, w), k, l.one.d)
  PROVE  VLawful(l, w)
<1> DEFINE d == l.one.d
           y == VResult(l.one, w)
           z == VRun(l.many, w)
<1>1. d \in VRegs /\ Wrote(w, y, d) /\ Wrote(w, z, d) /\ \A k \in Active(w) : VGet(y, k, d) = VGet(z, k, d)  OBVIOUS
<1> HIDE DEF d, y, z
<1>2. \A k \in Lane : VGetPair(y, k, d) = VGetPair(z, k, d)  BY <1>1, SameInLanes
<1> QED  BY <1>2 DEF d, y, z, VLawful

\* What becomes of the value of a first instruction, cut to a word, in a second.
LEMMA CutTerm ==
  ASSUME NEW x \in Int, NEW y \in Int
  PROVE  /\ Mask(Mask(x) + y) = Mask(x + y) /\ Mask(x + Mask(y)) = Mask(x + y)
         /\ Mask(x - Mask(y)) = Mask(x - y)
<1> DEFINE mx == Mask(x)
           my == Mask(y)
<1>1. mx \in Int /\ my \in Int /\ Same(mx, x) /\ Same(my, y)  BY MaskType, SameMask
<1>2. Same(x, x) /\ Same(y, y)  BY SameRefl
<1> HIDE DEF mx, my
<1>3. Same(mx + y, x + y) /\ Same(x + my, x + y) /\ Same(x - my, x - y)  BY <1>1, <1>2, SameSum
<1>4. mx + y \in Int /\ x + my \in Int /\ x + y \in Int /\ x - my \in Int /\ x - y \in Int  BY <1>1
<1> QED  BY <1>3, <1>4, MaskSame DEF mx, my

\* The logical operations see only the word of their first operand.
LEMMA CutBits ==
  ASSUME NEW x \in Int, NEW y
  PROVE  And(Mask(x), y) = And(x, y) /\ Or(Mask(x), y) = Or(x, y) /\ Xor(Mask(x), y) = Xor(x, y)
<1>1. Ones(Mask(x)) = Ones(x)  BY OnesOfMask
<1> QED  BY <1>1 DEF And, Or, Xor

\* The logical operations give words.
LEMMA LogicIsWord ==
  ASSUME NEW x, NEW y
  PROVE  /\ And(x, y) \in Word /\ And(x, y) \in Int /\ Mask(And(x, y)) = And(x, y)
         /\ Or(x, y) \in Word /\ Or(x, y) \in Int /\ Mask(Or(x, y)) = Or(x, y)
         /\ Xor(x, y) \in Word /\ Xor(x, y) \in Int /\ Mask(Xor(x, y)) = Xor(x, y)
<1>1. And(x, y) \in Word /\ Or(x, y) \in Word /\ Xor(x, y) \in Word  BY OfOnesType DEF And, Or, Xor
<1>2. \A v \in Word : v \in Int /\ Mask(v) = v  BY MaskOfWord
<1> QED  BY <1>1, <1>2

\* The operations of the laws are of two operands or of three.
LEMMA BinsAndTris ==
  /\ \A op \in FusedOps \cup ShiftedOps : op[1] \in Tris /\ op[2] \in Bins /\ op[3] \in Bins
  /\ {"v_xor_b32", "v_and_b32", "v_or_b32", "v_not_b32", "v_add_nc_u32", "v_sub_nc_u32", "v_subrev_nc_u32", "v_mov_b32"} \subseteq Bins
  /\ {"v_min_i32", "v_max_i32", "v_min_u32", "v_max_u32", "v_min_u16", "v_mul_lo_u32", "v_mul_hi_u32"} \subseteq Bins
  /\ {"v_lshlrev_b32", "v_lshrrev_b32", "v_ashrrev_i32", "v_mul_u32_u24"} \subseteq Bins
  /\ {"v_add_nc_u16", "v_sub_nc_u16", "v_mul_lo_u16", "v_lshlrev_b16", "v_lshrrev_b16", "v_ashrrev_i16", "v_pack_b32_f16"} \subseteq Bins
  /\ {"v_bfi_b32", "v_bfe_u32", "v_bfe_i32", "v_alignbit_b32", "v_lshl_or_b32"} \subseteq Tris
<1>1. \A op \in FusedOps \cup ShiftedOps : op[1] \in Tris
  BY DEF FusedOps, ShiftedOps, Tris, CoreTris, Core8Tris
<1>2. \A op \in FusedOps \cup ShiftedOps : op[2] \in Bins /\ op[3] \in Bins
  BY DEF FusedOps, ShiftedOps, Bins, CoreBins, Core8Bins
<1> QED  BY <1>1, <1>2 DEF Bins, CoreBins, Core8Bins, Tris, CoreTris, Core8Tris

\* What the handlers compute that the laws name.
LEMMA BinIs ==
  ASSUME NEW x, NEW y
  PROVE  /\ BinValue("v_xor_b32", x, y) = Xor(x, y) /\ BinValue("v_and_b32", x, y) = And(x, y)
         /\ BinValue("v_or_b32", x, y) = Or(x, y) /\ BinValue("v_not_b32", x, y) = Not(x)
         /\ BinValue("v_add_nc_u32", x, y) = x + y /\ BinValue("v_sub_nc_u32", x, y) = x - y
         /\ BinValue("v_subrev_nc_u32", x, y) = y - x /\ BinValue("v_mov_b32", x, y) = x
         /\ BinValue("v_lshlrev_b32", x, y) = Shl(y, x % W) /\ BinValue("v_lshrrev_b32", x, y) = Shr(y, x % W)
         /\ BinValue("v_ashrrev_i32", x, y) = Shr(Signed(y), x % W)
<1>1. {"v_xor_b32", "v_and_b32", "v_or_b32", "v_add_nc_u32", "v_sub_nc_u32", "v_subrev_nc_u32", "v_mov_b32"} \subseteq CoreBins
  BY DEF CoreBins
<1>2. {"v_lshlrev_b32", "v_lshrrev_b32", "v_ashrrev_i32"} \subseteq CoreBins  BY DEF CoreBins
<1>3. /\ CoreBin("v_xor_b32", x, y) = Xor(x, y) /\ CoreBin("v_and_b32", x, y) = And(x, y)
      /\ CoreBin("v_or_b32", x, y) = Or(x, y)
  BY DEF CoreBin, Bitwise2
<1>4. /\ CoreBin("v_add_nc_u32", x, y) = x + y /\ CoreBin("v_sub_nc_u32", x, y) = x - y
      /\ CoreBin("v_subrev_nc_u32", x, y) = y - x /\ CoreBin("v_mov_b32", x, y) = x
  BY DEF CoreBin
<1>5. /\ CoreBin("v_lshlrev_b32", x, y) = Shl(y, x % W) /\ CoreBin("v_lshrrev_b32", x, y) = Shr(y, x % W)
      /\ CoreBin("v_ashrrev_i32", x, y) = Shr(Signed(y), x % W)
  BY DEF CoreBin, CoreShiftRev
<1>6. BinValue("v_not_b32", x, y) = Not(x)  BY BinValues
<1> QED  BY <1>1, <1>2, <1>3, <1>4, <1>5, <1>6, BinValues

\* Minima, maxima, sums and half words, as values.
LEMMA BinIsMore ==
  ASSUME NEW x, NEW y
  PROVE  /\ BinValue("v_min_i32", x, y) = Smaller(Signed(x), Signed(y))
         /\ BinValue("v_max_i32", x, y) = Larger(Signed(x), Signed(y))
         /\ BinValue("v_min_u32", x, y) = Smaller(Mask(x), Mask(y))
         /\ BinValue("v_max_u32", x, y) = Larger(Mask(x), Mask(y))
         /\ BinValue("v_add_nc_u16", x, y) = Half(Half(x) + Half(y))
         /\ BinValue("v_sub_nc_u16", x, y) = Half(Half(x) - Half(y))
         /\ BinValue("v_lshrrev_b16", x, y) = Shr(Half(y), x % HalfBits)
         /\ BinValue("v_ashrrev_i16", x, y) = Half(Shr(SignedLow(y, HalfBits), x % HalfBits))
<1>1. {"v_min_i32", "v_max_i32", "v_min_u32", "v_max_u32", "v_add_nc_u16", "v_sub_nc_u16"} \subseteq CoreBins  BY DEF CoreBins
<1>2. {"v_lshrrev_b16", "v_ashrrev_i16"} \subseteq CoreBins  BY DEF CoreBins
<1>3. /\ CoreBin("v_min_i32", x, y) = Smaller(Signed(x), Signed(y))
      /\ CoreBin("v_max_i32", x, y) = Larger(Signed(x), Signed(y))
      /\ CoreBin("v_min_u32", x, y) = Smaller(Mask(x), Mask(y))
      /\ CoreBin("v_max_u32", x, y) = Larger(Mask(x), Mask(y))
  BY DEF CoreBin
<1>4. /\ CoreBin("v_add_nc_u16", x, y) = Half(Half(x) + Half(y))
      /\ CoreBin("v_sub_nc_u16", x, y) = Half(Half(x) - Half(y))
  BY DEF CoreBin
<1>5. /\ CoreBin("v_lshrrev_b16", x, y) = Shr(Half(y), x % HalfBits)
      /\ CoreBin("v_ashrrev_i16", x, y) = Half(Shr(SignedLow(y, HalfBits), x % HalfBits))
  BY DEF CoreBin, CoreShiftRev
<1> QED  BY <1>1, <1>2, <1>3, <1>4, <1>5, BinValues

\* Products and half words of Core8, as values.
LEMMA BinIsCore8 ==
  ASSUME NEW x, NEW y
  PROVE  /\ BinValue("v_mul_u32_u24", x, y) = Low(x, WordBits24) * Low(y, WordBits24)
         /\ BinValue("v_mul_lo_u16", x, y) = Half(Half(x) * Half(y))
         /\ BinValue("v_mul_hi_u32", x, y) = Shr(Mask(x) * Mask(y), W)
         /\ BinValue("v_mul_lo_u32", x, y) = x * y
         /\ BinValue("v_min_u16", x, y) = Smaller(Half(x), Half(y))
         /\ BinValue("v_lshlrev_b16", x, y) = Half(Shl(Half(y), x % HalfBits))
         /\ BinValue("v_pack_b32_f16", x, y) = Shl(Half(x), HalfBits) + Half(y)
         /\ BinValue("v_mul_i32_i24", x, y) = Signed24(x) * Signed24(y)
<1>1. Core8Bins = {"v_mul_u32_u24", "v_mul_lo_u16", "v_mul_hi_u32", "v_mul_lo_u32", "v_min_u16", "v_lshlrev_b16",
                   "v_pack_b32_f16"}
  BY DEF Core8Bins
<1>2. /\ Core8Bin("v_mul_u32_u24", x, y) = Low(x, WordBits24) * Low(y, WordBits24)
      /\ Core8Bin("v_mul_lo_u16", x, y) = Half(Half(x) * Half(y))
      /\ Core8Bin("v_mul_hi_u32", x, y) = Shr(Mask(x) * Mask(y), W)
      /\ Core8Bin("v_mul_lo_u32", x, y) = x * y
  BY DEF Core8Bin
<1>3. /\ Core8Bin("v_min_u16", x, y) = Smaller(Half(x), Half(y))
      /\ Core8Bin("v_lshlrev_b16", x, y) = Half(Shl(Half(y), x % HalfBits))
      /\ Core8Bin("v_pack_b32_f16", x, y) = Shl(Half(x), HalfBits) + Half(y)
  BY DEF Core8Bin
<1>4. BinValue("v_mul_i32_i24", x, y) = Signed24(x) * Signed24(y)  BY BinValues
<1> QED  BY <1>1, <1>2, <1>3, <1>4, BinValues

\* The fused operations, as values.
LEMMA TriIs ==
  ASSUME NEW x, NEW y, NEW z
  PROVE  /\ TriValue("v_lshl_or_b32", x, y, z) = Or(Shl(x, y % W), z)
         /\ TriValue("v_lshl_add_u32", x, y, z) = Shl(x, y % W) + z
         /\ TriValue("v_add3_u32", x, y, z) = x + y + z
         /\ TriValue("v_and_or_b32", x, y, z) = Or(And(x, y), z)
         /\ TriValue("v_or3_b32", x, y, z) = Or(Or(x, y), z)
         /\ TriValue("v_bfi_b32", x, y, z) = Or(And(x, y), And(Not(x), z))
         /\ TriValue("v_bfe_u32", x, y, z) = Low(Shr(x, y % W), z % W)
         /\ TriValue("v_bfe_i32", x, y, z) = FieldI(x, y % W, z % W)
<1>1. CoreTris = {"v_lshl_or_b32", "v_lshl_add_u32", "v_add3_u32", "v_and_or_b32", "v_or3_b32", "v_bfi_b32",
                  "v_bfe_u32", "v_bfe_i32"}
  BY DEF CoreTris
<1>2. /\ CoreTri("v_lshl_or_b32", x, y, z) = Or(Shl(x, y % W), z)
      /\ CoreTri("v_lshl_add_u32", x, y, z) = Shl(x, y % W) + z
      /\ CoreTri("v_add3_u32", x, y, z) = x + y + z
      /\ CoreTri("v_and_or_b32", x, y, z) = Or(And(x, y), z)
  BY DEF CoreTri
<1>3. /\ CoreTri("v_or3_b32", x, y, z) = Or(Or(x, y), z)
      /\ CoreTri("v_bfi_b32", x, y, z) = Or(And(x, y), And(Not(x), z))
      /\ CoreTri("v_bfe_u32", x, y, z) = Low(Shr(x, y % W), z % W)
      /\ CoreTri("v_bfe_i32", x, y, z) = FieldI(x, y % W, z % W)
  BY DEF CoreTri
<1> QED  BY <1>1, <1>2, <1>3, TriValues

\* Products and sums, and the alignment of two words, as values.
LEMMA TriIsMore ==
  ASSUME NEW x, NEW y, NEW z
  PROVE  /\ TriValue("v_mad_u32_u24", x, y, z) = Low(x, WordBits24) * Low(y, WordBits24) + z
         /\ TriValue("v_xor3_b32", x, y, z) = Xor(Xor(x, y), z)
         /\ TriValue("v_alignbit_b32", x, y, z) = AlignBit(x, y, z)
         /\ TriValue("v_mad_i32_i24", x, y, z) = Signed24(x) * Signed24(y) + Signed(z)
<1>1. {"v_mad_u32_u24", "v_xor3_b32"} \subseteq Core8Tris  BY DEF Core8Tris
<1>2. /\ Core8Tri("v_mad_u32_u24", x, y, z) = Low(x, WordBits24) * Low(y, WordBits24) + z
      /\ Core8Tri("v_xor3_b32", x, y, z) = Xor(Xor(x, y), z)
  BY DEF Core8Tri
<1>3. /\ TriValue("v_alignbit_b32", x, y, z) = AlignBit(x, y, z)
      /\ TriValue("v_mad_i32_i24", x, y, z) = Signed24(x) * Signed24(y) + Signed(z)
  BY TriValues
<1> QED  BY <1>1, <1>2, <1>3, TriValues

\* The bits of an inverted word.
LEMMA OnesOfNot ==
  ASSUME NEW x \in Int
  PROVE  Ones(Not(x)) = (0 .. W - 1) \ Ones(x)
<1> SUFFICES ASSUME NEW n \in 0 .. W - 1 PROVE Bit(Not(x), n) = 1 <=> Bit(x, n) # 1
  BY DEF Ones
<1> DEFINE y == Mask(x)
           p == Pow2[n]
           k == W - n - 1
           h == Pow2[k]
           q == y \div p
           r == y % p
<1>1. y \in Word /\ y \in Int /\ Bit(x, n) = Bit(y, n) /\ Not(x) = Top - y  BY MaskType, BitOfMask DEF Not
<1>2. n \in Nat /\ k \in Nat /\ W = n + (k + 1)  BY MType
<1>3. p \in Nat \ {0} /\ h \in Nat /\ M = p * (2 * h)
  <2> HIDE DEF k
  <2>1. M = Pow2[n + (k + 1)] /\ k + 1 \in Nat  BY <1>2 DEF M
  <2>2. Pow2[n + (k + 1)] = Pow2[n] * Pow2[k + 1]  BY <1>2, <2>1, PowSum
  <2> QED  BY <1>2, <2>1, <2>2, PowStep
<1> HIDE DEF p, h, y
<1>4. q \in Int /\ r \in 0 .. p - 1 /\ y = p * q + r  BY <1>1, <1>3, Division
<1> HIDE DEF q, r
<1> DEFINE e == 2 * h - 1 - q
           s == p - 1 - r
<1>5. e \in Int /\ s \in 0 .. p - 1 /\ Top - y = p * e + s  BY <1>3, <1>4 DEF Top
<1> HIDE DEF e, s
<1>6. Bit(Top - y, n) = e % 2
  <2>1. (p * e + s) \div p = e  BY <1>3, <1>5, Quotient
  <2> QED  BY <1>5, <2>1 DEF Bit, p
<1>7. Bit(y, n) = q % 2  BY DEF Bit, p, q
<1>8. e % 2 = 1 <=> q % 2 # 1  BY <1>3, <1>4 DEF e
<1> QED  BY <1>1, <1>6, <1>7, <1>8

\* A bit chosen by a mask is one that differs where the mask has a bit.
LEMMA ChosenBits ==
  ASSUME NEW a \in Int, NEW b \in Int, NEW c \in Int
  PROVE  Or(And(a, b), And(Not(a), c)) = Xor(And(Xor(b, c), a), c)
<1> DEFINE oa == Ones(a)
           ob == Ones(b)
           oc == Ones(c)
           U == 0 .. W - 1
           n == Not(a)
           x == And(a, b)
           y == And(n, c)
           z == Xor(b, c)
           t == And(z, a)
<1>1. Ones(n) = U \ oa  BY OnesOfNot
<1>2. oa \subseteq U /\ ob \subseteq U /\ oc \subseteq U  BY DEF Ones
<1>3. \A B : Ones(OfOnes(B)) = B \cap U  BY OnesOfSum
<1>4. Ones(x) = (oa \cap ob) \cap U /\ Ones(z) = ((ob \ oc) \cup (oc \ ob)) \cap U  BY <1>3 DEF And, Xor
<1> HIDE DEF oa, ob, oc, U, n, x, z
<1>5. Ones(y) = ((U \ oa) \cap oc) \cap U /\ Ones(t) = (Ones(z) \cap oa) \cap U  BY <1>1, <1>3 DEF And, oa, oc
<1> HIDE DEF y, t
<1>6. Ones(Or(x, y)) = (Ones(x) \cup Ones(y)) \cap U  BY <1>3 DEF Or
<1>7. Ones(Xor(t, c)) = ((Ones(t) \ oc) \cup (oc \ Ones(t))) \cap U  BY <1>3 DEF Xor, oc
<1>8. Ones(Or(x, y)) = Ones(Xor(t, c))  BY <1>2, <1>4, <1>5, <1>6, <1>7
<1>9. Or(x, y) \in Word /\ Xor(t, c) \in Word  BY LogicIsWord
<1>10. Or(x, y) = Xor(t, c)  BY <1>8, <1>9, SameOnes
<1> QED  BY <1>10 DEF x, y, z, t, n

\* A fused operation has the value of its two parts.
LEMMA FusedValue ==
  ASSUME NEW op \in FusedOps, NEW a \in Int, NEW b \in Int, NEW c \in Int
  PROVE  Mask(BinValue(op[3], Mask(BinValue(op[2], a, b)), c)) = Mask(TriValue(op[1], a, b, c))
<1>1. CASE op = <<"v_add3_u32", "v_add_nc_u32", "v_add_nc_u32">>
  <2>1. a + b \in Int  OBVIOUS
  <2>2. Mask(Mask(a + b) + c) = Mask(a + b + c)  BY <2>1, CutTerm
  <2> QED  BY <1>1, <2>2, BinIs, TriIs
<1>2. CASE op = <<"v_and_or_b32", "v_and_b32", "v_or_b32">>
  <2>1. Mask(And(a, b)) = And(a, b)  BY LogicIsWord
  <2> QED  BY <1>2, <2>1, BinIs, TriIs
<1>3. CASE op = <<"v_or3_b32", "v_or_b32", "v_or_b32">>
  <2>1. Mask(Or(a, b)) = Or(a, b)  BY LogicIsWord
  <2> QED  BY <1>3, <2>1, BinIs, TriIs
<1>4. CASE op = <<"v_xor3_b32", "v_xor_b32", "v_xor_b32">>
  <2>1. Mask(Xor(a, b)) = Xor(a, b)  BY LogicIsWord
  <2> QED  BY <1>4, <2>1, BinIs, TriIsMore
<1>5. CASE op = <<"v_mad_u32_u24", "v_mul_u32_u24", "v_add_nc_u32">>
  <2> DEFINE x == Low(a, WordBits24) * Low(b, WordBits24)
  <2>1. x \in Int  BY LowTypes, Products
  <2>2. BinValue("v_mul_u32_u24", a, b) = x /\ TriValue("v_mad_u32_u24", a, b, c) = x + c  BY BinIsCore8, TriIsMore
  <2> HIDE DEF x
  <2>3. Mask(Mask(x) + c) = Mask(x + c)  BY <2>1, CutTerm
  <2> QED  BY <1>5, <2>2, <2>3, BinIs
<1>6. CASE op = <<"v_mad_i32_i24", "v_mul_i32_i24", "v_add_nc_u32">>
  <2> DEFINE x == Signed24(a) * Signed24(b)
             s == Signed(c)
  <2>1. x \in Int  BY LowTypes, Products
  <2>2. BinValue("v_mul_i32_i24", a, b) = x /\ TriValue("v_mad_i32_i24", a, b, c) = x + s  BY BinIsCore8, TriIsMore
  <2>3. s \in Int /\ Same(s, c)  BY SignedSame
  <2> HIDE DEF x, s
  <2>4. Mask(Mask(x) + c) = Mask(x + c)  BY <2>1, CutTerm
  <2>5. Same(x + s, x + c) /\ x + s \in Int /\ x + c \in Int  BY <2>1, <2>3, SameRefl, SameSum
  <2>6. Mask(x + s) = Mask(x + c)  BY <2>5, MaskSame
  <2> QED  BY <1>6, <2>2, <2>4, <2>6, BinIs
<1> QED  BY <1>1, <1>2, <1>3, <1>4, <1>5, <1>6 DEF FusedOps

\* So has one whose first part is a shift.
LEMMA ShiftedValue ==
  ASSUME NEW op \in ShiftedOps, NEW a \in Int, NEW b \in Int, NEW c \in Int
  PROVE  Mask(BinValue(op[3], Mask(BinValue(op[2], b, a)), c)) = Mask(TriValue(op[1], a, b, c))
<1> DEFINE x == Shl(a, b % W)
<1>1. x \in Int  BY CountType, ShiftOfMask
<1>2. BinValue("v_lshlrev_b32", b, a) = x  BY BinIs
<1>3. TriValue("v_lshl_or_b32", a, b, c) = Or(x, c) /\ TriValue("v_lshl_add_u32", a, b, c) = x + c  BY TriIs
<1> HIDE DEF x
<1>4. Or(Mask(x), c) = Or(x, c) /\ Mask(Mask(x) + c) = Mask(x + c)  BY <1>1, CutBits, CutTerm
<1> DEFINE m == Mask(x)
<1>5. CASE op = <<"v_lshl_or_b32", "v_lshlrev_b32", "v_or_b32">>
  <2>1. BinValue("v_or_b32", m, c) = Or(m, c)  BY BinIs
  <2> QED  BY <1>2, <1>3, <1>4, <1>5, <2>1
<1>6. CASE op = <<"v_lshl_add_u32", "v_lshlrev_b32", "v_add_nc_u32">>
  <2>1. BinValue("v_add_nc_u32", m, c) = m + c  BY BinIs
  <2> QED  BY <1>2, <1>3, <1>4, <1>6, <2>1
<1> QED  BY <1>5, <1>6 DEF ShiftedOps

\* Two instructions for one, of which the first computes from the first two
\* sources and the second from that and the third.
LEMMA TwoForOne ==
  ASSUME NEW w \in VState, NEW i, NEW l, l.one = i,
         i.op \in Tris, i.d \in VRegs, i.a \in VSources, i.b \in VSources, Apart(i.c, i.d),
         NEW first \in Bins, NEW second \in Bins, NEW x \in VSources, NEW y \in VSources,
         l.many = <<To(first, i.d, x, y, Null), To(second, i.d, i.d, i.c, Null)>>,
         \A k \in Active(w) :
           Mask(BinValue(second, Mask(BinValue(first, VGet(w, k, x), VGet(w, k, y))), VGet(w, k, i.c))) =
             Mask(TriValue(i.op, VGet(w, k, i.a), VGet(w, k, i.b), VGet(w, k, i.c)))
  PROVE  VLawful(l, w)
<1> DEFINE d == i.d
           j == To(first, d, x, y, Null)
           m == To(second, d, d, i.c, Null)
           u == VResult(j, w)
           z == VResult(m, u)
           t == VResult(i, w)
<1>1. i.c \in VSources /\ d \in VRegs  BY DEF Apart
<1>2. Wrote(w, u, d) /\ \A k \in Active(w) : VGet(u, k, d) = Mask(BinValue(first, VGet(w, k, x), VGet(w, k, y)))
  BY BinFirst
<1>3. /\ Wrote(w, t, d)
      /\ \A k \in Active(w) : VGet(t, k, d) = Mask(TriValue(i.op, VGet(w, k, i.a), VGet(w, k, i.b), VGet(w, k, i.c)))
  BY <1>1, TriWrites
<1>4. VRun(l.many, w) = z  BY VRunOfTwo
<1> HIDE DEF u, t, j
<1>5. /\ Wrote(w, z, d)
      /\ \A k \in Active(w) : VGet(z, k, d) = Mask(BinValue(second, VGet(u, k, d), VGet(w, k, i.c)))
  BY <1>1, <1>2, BinThen
<1> HIDE DEF z, m
<1>6. \A k \in Active(w) : VGet(t, k, d) = VGet(z, k, d)  BY <1>2, <1>3, <1>5
<1> QED  BY <1>1, <1>3, <1>4, <1>5, <1>6, VLawOf DEF t

\* What every source reads, and a literal.
LEMMA SourceInts ==
  ASSUME NEW w \in VState
  PROVE  \A k \in Active(w), o \in VSources : VGet(w, k, o) \in Int
<1>1. \A k \in Active(w) : k \in Lane  BY ActiveLanes
<1> QED  BY <1>1, VGetType

\* A literal reads the same in every lane.
LEMMA LiteralReads == \A w, k, n : VGet(w, k, K(n)) = n
BY DEF VGet, K

\* A literal is a source, and apart from every VGPR.
LEMMA LiteralSource ==
  ASSUME NEW n \in 0 .. Top, NEW d \in VRegs
  PROVE  K(n) \in VSources /\ Apart(K(n), d)
<1>1. K(n) \in VSources
  <2>1. K(n) \in Literals  BY Constants DEF K, Literals
  <2> QED  BY <2>1 DEF VSources, Shared
<1>2. K(n).t = "lit" /\ d.t = "v"  BY DEF K, VRegs
<1>3. [t |-> "negv", n |-> d.n].t = "negv"  OBVIOUS
<1> QED  BY <1>1, <1>2, <1>3 DEF Apart

\* The fused operations are two instructions, or three.
LEMMA FusesHolds ==
  ASSUME NEW w \in VState, NEW l, Fuses(l)
  PROVE  VLawful(l, w)
<1> DEFINE i == l.one
           d == i.d
<1>1. d \in VRegs /\ i.a \in VSources /\ i.b \in VSources /\ i.c \in VSources /\ Apart(i.c, d)
  BY DEF Fuses, Apart
<1>2. \A k \in Active(w) : VGet(w, k, i.a) \in Int /\ VGet(w, k, i.b) \in Int /\ VGet(w, k, i.c) \in Int
  BY <1>1, SourceInts
<1>3. ASSUME NEW op \in FusedOps, i.op = op[1],
             l.many = <<To(op[2], d, i.a, i.b, Null), To(op[3], d, d, i.c, Null)>>
      PROVE  VLawful(l, w)
  <2>1. i.op \in Tris /\ op[2] \in Bins /\ op[3] \in Bins  BY <1>3, BinsAndTris
  <2>2. \A k \in Active(w) :
          Mask(BinValue(op[3], Mask(BinValue(op[2], VGet(w, k, i.a), VGet(w, k, i.b))), VGet(w, k, i.c))) =
            Mask(TriValue(i.op, VGet(w, k, i.a), VGet(w, k, i.b), VGet(w, k, i.c)))
    BY <1>2, <1>3, FusedValue
  <2> HIDE DEF i
  <2> QED  BY <1>1, <1>3, <2>1, <2>2, TwoForOne DEF i
<1>4. ASSUME NEW op \in ShiftedOps, i.op = op[1],
             l.many = <<To(op[2], d, i.b, i.a, Null), To(op[3], d, d, i.c, Null)>>
      PROVE  VLawful(l, w)
  <2>1. i.op \in Tris /\ op[2] \in Bins /\ op[3] \in Bins  BY <1>4, BinsAndTris
  <2>2. \A k \in Active(w) :
          Mask(BinValue(op[3], Mask(BinValue(op[2], VGet(w, k, i.b), VGet(w, k, i.a))), VGet(w, k, i.c))) =
            Mask(TriValue(i.op, VGet(w, k, i.a), VGet(w, k, i.b), VGet(w, k, i.c)))
    BY <1>2, <1>4, ShiftedValue
  <2> QED  BY <1>1, <1>4, <2>1, <2>2, TwoForOne
<1>5. ASSUME i.op = "v_bfi_b32", Apart(i.a, d),
             l.many = <<To("v_xor_b32", d, i.b, i.c, Null), To("v_and_b32", d, d, i.a, Null),
                        To("v_xor_b32", d, d, i.c, Null)>>
      PROVE  VLawful(l, w)
  <2> DEFINE j1 == To("v_xor_b32", d, i.b, i.c, Null)
             j2 == To("v_and_b32", d, d, i.a, Null)
             j3 == To("v_xor_b32", d, d, i.c, Null)
             u1 == VResult(j1, w)
             u2 == VResult(j2, u1)
             u3 == VResult(j3, u2)
             t == VResult(i, w)
  <2>1. i.op \in Tris /\ "v_xor_b32" \in Bins /\ "v_and_b32" \in Bins  BY <1>5, BinsAndTris
  <2>2. VRun(l.many, w) = u3  BY <1>5, VRunOfThree
  <2>3. Wrote(w, t, d) /\ \A k \in Active(w) : VGet(t, k, d) =
          Mask(TriValue("v_bfi_b32", VGet(w, k, i.a), VGet(w, k, i.b), VGet(w, k, i.c)))
    BY <1>1, <1>5, <2>1, TriWrites
  <2>4. Wrote(w, u1, d) /\ \A k \in Active(w) : VGet(u1, k, d) = Mask(BinValue("v_xor_b32", VGet(w, k, i.b), VGet(w, k, i.c)))
    BY <1>1, <2>1, BinFirst
  <2> HIDE DEF u1, t, j1
  <2>5. Wrote(w, u2, d) /\ \A k \in Active(w) : VGet(u2, k, d) = Mask(BinValue("v_and_b32", VGet(u1, k, d), VGet(w, k, i.a)))
    BY <1>1, <1>5, <2>1, <2>4, BinThen
  <2> HIDE DEF u2, j2
  <2>6. Wrote(w, u3, d) /\ \A k \in Active(w) : VGet(u3, k, d) = Mask(BinValue("v_xor_b32", VGet(u2, k, d), VGet(w, k, i.c)))
    BY <1>1, <2>1, <2>5, BinThen
  <2> HIDE DEF u3, j3
  <2>7. ASSUME NEW k \in Active(w) PROVE VGet(t, k, d) = VGet(u3, k, d)
    <3> DEFINE a == VGet(w, k, i.a)
               b == VGet(w, k, i.b)
               c == VGet(w, k, i.c)
    <3>1. a \in Int /\ b \in Int /\ c \in Int  BY <1>2
    <3>2. /\ VGet(t, k, d) = Mask(TriValue("v_bfi_b32", a, b, c))
          /\ VGet(u1, k, d) = Mask(BinValue("v_xor_b32", b, c))
          /\ VGet(u2, k, d) = Mask(BinValue("v_and_b32", VGet(u1, k, d), a))
          /\ VGet(u3, k, d) = Mask(BinValue("v_xor_b32", VGet(u2, k, d), c))
      BY <2>3, <2>4, <2>5, <2>6
    <3> HIDE DEF a, b, c
    <3>3. VGet(u1, k, d) = Xor(b, c)  BY <3>2, BinIs, LogicIsWord
    <3>4. VGet(u2, k, d) = And(Xor(b, c), a)  BY <3>2, <3>3, BinIs, LogicIsWord
    <3>5. VGet(u3, k, d) = Xor(And(Xor(b, c), a), c)  BY <3>2, <3>4, BinIs, LogicIsWord
    <3>6. VGet(t, k, d) = Or(And(a, b), And(Not(a), c))  BY <3>2, TriIs, LogicIsWord
    <3> QED  BY <3>1, <3>5, <3>6, ChosenBits
  <2> QED  BY <1>1, <2>2, <2>3, <2>6, <2>7, VLawOf DEF t
<1> QED
  <2> USE DEF d, i
  <2>1. CASE \E op \in FusedOps :
               i.op = op[1] /\ l.many = <<To(op[2], d, i.a, i.b, Null), To(op[3], d, d, i.c, Null)>>
    <3>1. PICK op \in FusedOps :
               i.op = op[1] /\ l.many = <<To(op[2], d, i.a, i.b, Null), To(op[3], d, d, i.c, Null)>>
      BY <2>1
    <3> QED  BY <1>3, <3>1
  <2>2. CASE \E op \in ShiftedOps :
               i.op = op[1] /\ l.many = <<To(op[2], d, i.b, i.a, Null), To(op[3], d, d, i.c, Null)>>
    <3>1. PICK op \in ShiftedOps :
               i.op = op[1] /\ l.many = <<To(op[2], d, i.b, i.a, Null), To(op[3], d, d, i.c, Null)>>
      BY <2>2
    <3> QED  BY <1>4, <3>1
  <2> QED  BY <1>5, <2>1, <2>2 DEF Fuses

\* One instruction for another.
LEMMA OneForOne ==
  ASSUME NEW w \in VState, NEW l, l.one.op \in Bins, l.one.d \in VRegs, l.one.a \in VSources, l.one.b \in VSources,
         NEW op \in Bins, NEW x \in VSources, NEW y \in VSources, l.many = <<To(op, l.one.d, x, y, Null)>>,
         \A k \in Active(w) :
           Mask(BinValue(op, VGet(w, k, x), VGet(w, k, y))) =
             Mask(BinValue(l.one.op, VGet(w, k, l.one.a), VGet(w, k, l.one.b)))
  PROVE  VLawful(l, w)
<1> DEFINE i == l.one
           d == i.d
           j == To(op, d, x, y, Null)
           u == VResult(j, w)
           t == VResult(i, w)
<1>1. VRun(l.many, w) = u  BY VRunOfOne
<1>2. Wrote(w, t, d) /\ \A k \in Active(w) : VGet(t, k, d) = Mask(BinValue(i.op, VGet(w, k, i.a), VGet(w, k, i.b)))
  BY BinWrites
<1>3. Wrote(w, u, d) /\ \A k \in Active(w) : VGet(u, k, d) = Mask(BinValue(op, VGet(w, k, x), VGet(w, k, y)))
  BY BinFirst
<1> HIDE DEF u, j
<1>4. \A k \in Active(w) : VGet(t, k, d) = VGet(u, k, d)  BY <1>2, <1>3
<1> QED  BY <1>1, <1>2, <1>3, <1>4, VLawOf

\* A difference is the sum with the inverted word and 1.
LEMMA SumWithInverted ==
  ASSUME NEW x \in Int, NEW y \in Int
  PROVE  Mask(Mask(Mask(Not(y)) + x) + 1) = Mask(x - y)
<1> DEFINE n == Not(y)
           my == Mask(y)
<1>1. n \in Word /\ n \in Int /\ Mask(n) = n  BY NotType, MaskOfWord
<1>2. my \in Word /\ my \in Int /\ Not(my) = n  BY MaskType, MaskOfMask
<1>3. Mask(x + Mask(Not(my) + 1)) = Mask(x - my)  BY <1>2, InvertedSum
<1>4. Mask(x - my) = Mask(x - y)  BY CutTerm
<1> HIDE DEF n, my
<1>5. n + x \in Int /\ n + 1 \in Int /\ (n + x) + 1 = x + (n + 1)  BY <1>1
<1>6. Mask(Mask(n + x) + 1) = Mask((n + x) + 1)  BY <1>5, CutTerm
<1>7. Mask(x + Mask(n + 1)) = Mask(x + (n + 1))  BY <1>5, CutTerm
<1> QED  BY <1>1, <1>2, <1>3, <1>4, <1>5, <1>6, <1>7 DEF n

\* A difference by a complement, the other way round, or by a negated operand.
LEMMA SubtractsHolds ==
  ASSUME NEW w \in VState, NEW l, Subtracts(l)
  PROVE  VLawful(l, w)
<1> DEFINE i == l.one
           d == i.d
<1>1. d \in VRegs /\ i.a \in VSources /\ i.b \in VSources  BY DEF Subtracts
<1>2. \A k \in Active(w) : VGet(w, k, i.a) \in Int /\ VGet(w, k, i.b) \in Int  BY <1>1, SourceInts
<1>3. Null \in VSources  BY DEF VSources, Shared
<1>4. ASSUME i.op = "v_sub_nc_u32", Apart(i.a, d),
             l.many = <<To("v_not_b32", d, i.b, Null, Null), To("v_add_nc_u32", d, d, i.a, Null),
                        To("v_add_nc_u32", d, d, K(1), Null)>>
      PROVE  VLawful(l, w)
  <2> DEFINE j1 == To("v_not_b32", d, i.b, Null, Null)
             j2 == To("v_add_nc_u32", d, d, i.a, Null)
             j3 == To("v_add_nc_u32", d, d, K(1), Null)
             u1 == VResult(j1, w)
             u2 == VResult(j2, u1)
             u3 == VResult(j3, u2)
             t == VResult(i, w)
  <2>1. i.op \in Bins /\ "v_not_b32" \in Bins /\ "v_add_nc_u32" \in Bins  BY <1>4, BinsAndTris
  <2>2. VRun(l.many, w) = u3  BY <1>4, VRunOfThree
  <2>3. Wrote(w, t, d) /\ \A k \in Active(w) : VGet(t, k, d) =
          Mask(BinValue("v_sub_nc_u32", VGet(w, k, i.a), VGet(w, k, i.b)))
    BY <1>1, <1>4, <2>1, BinWrites
  <2>4. Wrote(w, u1, d) /\ \A k \in Active(w) : VGet(u1, k, d) = Mask(BinValue("v_not_b32", VGet(w, k, i.b), VGet(w, k, Null)))
    BY <1>1, <1>3, <2>1, BinFirst
  <2> HIDE DEF u1, t, j1
  <2>5. Wrote(w, u2, d) /\ \A k \in Active(w) : VGet(u2, k, d) = Mask(BinValue("v_add_nc_u32", VGet(u1, k, d), VGet(w, k, i.a)))
    BY <1>1, <1>4, <2>1, <2>4, BinThen
  <2> HIDE DEF u2, j2
  <2>6. Apart(K(1), d) /\ \A k : VGet(w, k, K(1)) = 1
    <3>1. 1 \in 0 .. Top  BY MType DEF Top
    <3>2. Apart(K(1), d)  BY <1>1, <3>1, LiteralSource
    <3> QED  BY <3>2, LiteralReads
  <2>7. Wrote(w, u3, d) /\ \A k \in Active(w) : VGet(u3, k, d) = Mask(BinValue("v_add_nc_u32", VGet(u2, k, d), VGet(w, k, K(1))))
    BY <1>1, <2>1, <2>5, <2>6, BinThen
  <2> HIDE DEF u3, j3
  <2>8. ASSUME NEW k \in Active(w) PROVE VGet(t, k, d) = VGet(u3, k, d)
    <3> DEFINE a == VGet(w, k, i.a)
               b == VGet(w, k, i.b)
    <3>1. a \in Int /\ b \in Int  BY <1>2
    <3>2. /\ VGet(t, k, d) = Mask(BinValue("v_sub_nc_u32", a, b))
          /\ VGet(u1, k, d) = Mask(BinValue("v_not_b32", b, VGet(w, k, Null)))
          /\ VGet(u2, k, d) = Mask(BinValue("v_add_nc_u32", VGet(u1, k, d), a))
          /\ VGet(u3, k, d) = Mask(BinValue("v_add_nc_u32", VGet(u2, k, d), 1))
      BY <2>3, <2>4, <2>5, <2>6, <2>7
    <3> HIDE DEF a, b
    <3>3. VGet(t, k, d) = Mask(a - b) /\ VGet(u1, k, d) = Mask(Not(b))  BY <3>2, BinIs
    <3>4. VGet(u2, k, d) = Mask(VGet(u1, k, d) + a) /\ VGet(u3, k, d) = Mask(VGet(u2, k, d) + 1)  BY <3>2, BinIs
    <3>5. Mask(Mask(Mask(Not(b)) + a) + 1) = Mask(a - b)  BY <3>1, SumWithInverted
    <3> QED  BY <3>3, <3>4, <3>5
  <2> QED  BY <1>1, <2>2, <2>3, <2>7, <2>8, VLawOf DEF t
<1>5. ASSUME i.op = "v_subrev_nc_u32", l.many = <<To("v_sub_nc_u32", d, i.b, i.a, Null)>>
      PROVE  VLawful(l, w)
  <2>1. i.op \in Bins /\ "v_sub_nc_u32" \in Bins  BY <1>5, BinsAndTris
  <2>2. \A a, b : BinValue("v_sub_nc_u32", b, a) = BinValue("v_subrev_nc_u32", a, b)  BY BinIs
  <2> QED  BY <1>1, <1>5, <2>1, <2>2, OneForOne
<1>6. ASSUME i.op = "v_sub_nc_u32", i.a = K(0), i.b \in VRegs,
             l.many = <<To("v_mov_b32", d, [t |-> "negv", n |-> i.b.n], Null, Null)>>
      PROVE  VLawful(l, w)
  <2> DEFINE o == [t |-> "negv", n |-> i.b.n]
  <2>1. i.op \in Bins /\ "v_mov_b32" \in Bins  BY <1>6, BinsAndTris
  <2>2. o \in VSources /\ o.t = "negv" /\ o.n = i.b.n /\ i.b.t = "v"  BY <1>6 DEF VSources, VRegs
  <2> HIDE DEF o
  <2>3. ASSUME NEW k \in Active(w)
        PROVE  Mask(BinValue("v_mov_b32", VGet(w, k, o), VGet(w, k, Null))) =
                 Mask(BinValue(i.op, VGet(w, k, i.a), VGet(w, k, i.b)))
    <3> DEFINE b == VGet(w, k, i.b)
    <3>1. VGet(w, k, o) = Mask(-w.v[k][i.b.n])  BY <2>2 DEF VGet
    <3>2. b = w.v[k][i.b.n]  BY <2>2 DEF VGet
    <3>3. VGet(w, k, i.a) = 0  BY <1>6, LiteralReads
    <3>4. b \in Int  BY <1>2
    <3>5. BinValue("v_mov_b32", VGet(w, k, o), VGet(w, k, Null)) = VGet(w, k, o)  BY BinIs
    <3>6. BinValue(i.op, VGet(w, k, i.a), b) = 0 - b  BY <1>6, <3>3, BinIs
    <3> HIDE DEF b
    <3>7. 0 - b = -b /\ -b \in Int  BY <3>4
    <3>8. Mask(Mask(-b)) = Mask(-b)  BY <3>7, MaskOfMask
    <3> QED  BY <3>1, <3>2, <3>5, <3>6, <3>7, <3>8 DEF b
  <2> QED  BY <1>1, <1>3, <1>6, <2>1, <2>2, <2>3, OneForOne DEF o
<1> QED  BY <1>4, <1>5, <1>6 DEF Subtracts

\* What a compare asks of two words.
LEMMA AsksIs ==
  ASSUME NEW x, NEW y
  PROVE  /\ Asks("lt", "i32", x, y) <=> Signed(x) < Signed(y)
         /\ Asks("gt", "i32", x, y) <=> Signed(x) > Signed(y)
         /\ Asks("le", "u32", x, y) <=> Mask(x) <= Mask(y)
BY DEF Asks, Signed, Mask, Low, M

\* A compare leaves the registers of the lanes alone, and its answers in the
\* mask it writes.
LEMMA Compared ==
  ASSUME NEW w \in VState, NEW rel, NEW type, NEW mask \in SRegs \cup {VCC}, NEW a, NEW b,
         NEW y, y = VResult(Cmp("v_cmp", rel, type, mask, a, b), w)
  PROVE  /\ y \in VState /\ y.v = w.v /\ Active(y) = Active(w)
         /\ \A k \in Active(w) : CarryIn(y, k, mask) = IF Asks(rel, type, VGet(w, k, a), VGet(w, k, b)) THEN 1 ELSE 0
<1> DEFINE i == Cmp("v_cmp", rel, type, mask, a, b)
           yes == {k \in Active(w) : Asks(rel, type, VGet(w, k, a), VGet(w, k, b))}
           m == OfOnes(yes)
<1>1. i.op = "v_cmp" /\ i.rel = rel /\ i.type = type /\ i.d = mask /\ i.a = a /\ i.b = b  BY DEF Cmp
<1>2. VResult(i, w) = VCompare(i, w)
  <2> HIDE DEF i
  <2> QED  BY <1>1, VDoes
<1>3. VCompare(i, w) = SetMask(w, mask, m)
  <2> HIDE DEF i
  <2> QED  BY <1>1 DEF VCompare
<1>4. y = SetMask(w, mask, m)  BY <1>2, <1>3
<1>5. ASSUME NEW k \in Active(w) PROVE Bit(m, k) = IF Asks(rel, type, VGet(w, k, a), VGet(w, k, b)) THEN 1 ELSE 0
  <2>1. k \in 0 .. W - 1  BY ActiveLanes, VConstants
  <2>2. Bit(m, k) = IF k \in yes THEN 1 ELSE 0  BY <2>1, BitOfSum
  <2> QED  BY <2>2
<1>6. m \in Word  BY OfOnesType
<1> HIDE DEF i, yes, m
<1>7. y \in VState /\ y.v = w.v  BY <1>4, <1>6, SetMaskType DEF VMaskRegs
<1>8. y.exec = w.exec /\ \A k : CarryIn(y, k, mask) = Bit(m, k)
  <2>1. CASE mask = VCC
    <3>1. mask.t = "vcc"  BY <2>1 DEF VCC
    <3>2. y = [w EXCEPT !.vcc = m]  BY <1>4, <3>1 DEF SetMask
    <3>3. y.exec = w.exec /\ y.vcc = m  BY <3>2 DEF VState
    <3> QED  BY <3>1, <3>3 DEF CarryIn
  <2>2. CASE mask \in SRegs
    <3>1. mask.t = "s" /\ mask.n \in Reg  BY <2>2 DEF SRegs
    <3>2. y = [w EXCEPT !.s[mask.n] = m]  BY <1>4, <3>1 DEF SetMask
    <3>3. y.exec = w.exec /\ y.s[mask.n] = m  BY <3>1, <3>2 DEF VState
    <3> QED  BY <3>1, <3>3 DEF CarryIn
  <2> QED  BY <2>1, <2>2
<1>9. Active(y) = Active(w)  BY <1>8 DEF Active
<1> QED  BY <1>5, <1>7, <1>8, <1>9

\* v_cndmask_b32 behind it takes one of two registers.
LEMMA Selected ==
  ASSUME NEW w \in VState, NEW y \in VState, NEW d \in VRegs, NEW a \in VRegs, NEW b \in VRegs,
         NEW mask \in SRegs \cup {VCC}, y.v = w.v, Active(y) = Active(w),
         NEW z, z = VResult(To("v_cndmask_b32", d, b, a, mask), y)
  PROVE  /\ \A k \in Active(w) : VGet(z, k, d) = Mask(IF CarryIn(y, k, mask) # 0 THEN VGet(w, k, a) ELSE VGet(w, k, b))
         /\ \A k \in Lane \ Active(w) : VGet(z, k, d) = VGet(w, k, d)
<1> DEFINE i == To("v_cndmask_b32", d, b, a, mask)
           f == [k \in Active(y) |-> IF CarryIn(y, k, mask) # 0 THEN VGet(y, k, a) ELSE VGet(y, k, b)]
<1>1. i.op = "v_cndmask_b32" /\ i.d = d /\ i.a = b /\ i.b = a /\ i.c = mask  BY ToIs
<1>2. mask.t \in {"vcc", "s"}  BY DEF SRegs, VCC
<1>3. z = VSet(y, d, f)
  <2> HIDE DEF i
  <2>1. VResult(i, y) = CndMask(i, y)  BY <1>1, VDoes
  <2>2. CndMask(i, y) = VSet(y, d, f)  BY <1>1, <1>2 DEF CndMask
  <2> QED  BY <2>1, <2>2 DEF i
<1>4. a \in VSources /\ b \in VSources  BY SharedSources
<1>5. ASSUME NEW k \in Active(y) PROVE f[k] \in Int
  <2>1. VGet(y, k, a) \in Int /\ VGet(y, k, b) \in Int  BY <1>4, SourceInts
  <2> QED  BY <2>1
<1>6. DOMAIN f = Active(y)  OBVIOUS
<1>7. \A k, o : o \in VRegs => VGet(y, k, o) = VGet(w, k, o)  BY DEF VRegs, VGet
<1>8. \A k \in Active(w) : f[k] = IF CarryIn(y, k, mask) # 0 THEN VGet(w, k, a) ELSE VGet(w, k, b)
  BY <1>7
<1> HIDE DEF f, i
<1>9. Wrote(y, z, d) /\ \A k \in Active(y) : VGet(z, k, d) = Mask(f[k])  BY <1>3, <1>5, <1>6, SetsRegister
<1>10. \A k \in Lane \ Active(y) : VGet(z, k, d) = VGet(y, k, d)  BY <1>9, ReadsApart
<1> QED  BY <1>7, <1>8, <1>9, <1>10

\* One of two words, and what a minimum or a maximum takes.
LEMMA LesserOf ==
  ASSUME NEW a \in Int, NEW b \in Int
  PROVE  /\ Mask(IF Asks("lt", "i32", a, b) THEN a ELSE b) = Mask(BinValue("v_min_i32", a, b))
         /\ Mask(IF Asks("gt", "i32", a, b) THEN a ELSE b) = Mask(BinValue("v_max_i32", a, b))
         /\ Mask(IF Asks("le", "u32", a, b) THEN a ELSE b) = Mask(BinValue("v_min_u32", a, b))
<1> DEFINE sa == Signed(a)
           sb == Signed(b)
           ma == Mask(a)
           mb == Mask(b)
<1>1. Mask(sa) = Mask(a) /\ Mask(sb) = Mask(b) /\ sa \in Int /\ sb \in Int  BY SignedRange, SignedSame
<1>2. Mask(ma) = Mask(a) /\ Mask(mb) = Mask(b) /\ ma \in Int /\ mb \in Int  BY MaskOfMask, MaskType
<1>3. /\ Asks("lt", "i32", a, b) <=> sa < sb
      /\ Asks("gt", "i32", a, b) <=> sa > sb
      /\ Asks("le", "u32", a, b) <=> ma <= mb
  BY AsksIs
<1>4. /\ BinValue("v_min_i32", a, b) = Smaller(sa, sb) /\ BinValue("v_max_i32", a, b) = Larger(sa, sb)
      /\ BinValue("v_min_u32", a, b) = Smaller(ma, mb)
  BY BinIsMore
<1> HIDE DEF sa, sb, ma, mb
<1>5. Mask(IF Asks("lt", "i32", a, b) THEN a ELSE b) = Mask(BinValue("v_min_i32", a, b))
  <2>1. CASE sa < sb
    <3>1. Smaller(sa, sb) = sa  BY <1>1, <2>1 DEF Smaller
    <3> QED  BY <1>1, <1>3, <1>4, <2>1, <3>1
  <2>2. CASE ~(sa < sb)
    <3>1. Smaller(sa, sb) = sb  BY <1>1, <2>2 DEF Smaller
    <3> QED  BY <1>1, <1>3, <1>4, <2>2, <3>1
  <2> QED  BY <2>1, <2>2
<1>6. Mask(IF Asks("gt", "i32", a, b) THEN a ELSE b) = Mask(BinValue("v_max_i32", a, b))
  <2>1. CASE sa > sb
    <3>1. Larger(sa, sb) = sa  BY <1>1, <2>1 DEF Larger
    <3> QED  BY <1>1, <1>3, <1>4, <2>1, <3>1
  <2>2. CASE ~(sa > sb)
    <3>1. Larger(sa, sb) = sb  BY <1>1, <2>2 DEF Larger
    <3> QED  BY <1>1, <1>3, <1>4, <2>2, <3>1
  <2> QED  BY <2>1, <2>2
<1>7. Mask(IF Asks("le", "u32", a, b) THEN a ELSE b) = Mask(BinValue("v_min_u32", a, b))
  <2>1. CASE ma <= mb
    <3>1. Smaller(ma, mb) = ma  BY <1>2, <2>1 DEF Smaller
    <3> QED  BY <1>2, <1>3, <1>4, <2>1, <3>1
  <2>2. CASE ~(ma <= mb)
    <3>1. Smaller(ma, mb) = mb  BY <1>2, <2>2 DEF Smaller
    <3> QED  BY <1>2, <1>3, <1>4, <2>2, <3>1
  <2> QED  BY <2>1, <2>2
<1> QED  BY <1>5, <1>6, <1>7

\* The two differences cancel out.
LEMMA OtherOfTwo ==
  ASSUME NEW a \in Int, NEW b \in Int
  PROVE  Xor(Xor(Mask(Smaller(Mask(a), Mask(b))), a), b) = Mask(Larger(Mask(a), Mask(b)))
<1> DEFINE ma == Mask(a)
           mb == Mask(b)
<1>1. ma \in Word /\ mb \in Word /\ ma \in Int /\ mb \in Int /\ Mask(ma) = ma /\ Mask(mb) = mb  BY MaskType, MaskOfMask
<1>2. Ones(ma) = Ones(a) /\ Ones(mb) = Ones(b)  BY OnesOfMask
<1> DEFINE oa == Ones(a)
           ob == Ones(b)
           U == 0 .. W - 1
<1>3. oa \subseteq U /\ ob \subseteq U  BY DEF Ones
<1>4. \A B : Ones(OfOnes(B)) = B \cap U  BY OnesOfSum
<1> HIDE DEF ma, mb, oa, ob, U
<1>5. Ones(Xor(Xor(ma, a), b)) = ob
  <2>1. Ones(Xor(ma, a)) = {}  BY <1>2, <1>4 DEF Xor, oa
  <2>2. Xor(Xor(ma, a), b) = OfOnes(({} \ ob) \cup (ob \ {}))  BY <2>1 DEF Xor, ob
  <2> QED  BY <1>3, <1>4, <2>2
<1>6. Ones(Xor(Xor(mb, a), b)) = oa
  <2>1. Ones(Xor(mb, a)) = ((ob \ oa) \cup (oa \ ob)) \cap U  BY <1>2, <1>4 DEF Xor, oa, ob
  <2>2. Xor(Xor(mb, a), b) = OfOnes((Ones(Xor(mb, a)) \ ob) \cup (ob \ Ones(Xor(mb, a))))  BY DEF Xor, ob
  <2> QED  BY <1>3, <1>4, <2>1, <2>2
<1>7. Xor(Xor(ma, a), b) = mb
  <2>1. Xor(Xor(ma, a), b) \in Word  BY LogicIsWord
  <2> QED  BY <1>1, <1>2, <1>5, <2>1, SameOnes DEF ob
<1>8. Xor(Xor(mb, a), b) = ma
  <2>1. Xor(Xor(mb, a), b) \in Word  BY LogicIsWord
  <2> QED  BY <1>1, <1>2, <1>6, <2>1, SameOnes DEF oa
<1>9. CASE mb < ma
  <2>1. Smaller(ma, mb) = mb /\ Larger(ma, mb) = ma  BY <1>1, <1>9 DEF Smaller, Larger
  <2> QED  BY <1>1, <1>8, <2>1 DEF ma, mb
<1>10. CASE ~(mb < ma)
  <2>1. Smaller(ma, mb) = ma /\ (mb > ma => Larger(ma, mb) = mb) /\ (mb = ma => Larger(ma, mb) = mb)
    BY <1>1, <1>10 DEF Smaller, Larger
  <2>2. Larger(ma, mb) = mb  BY <1>1, <1>10, <2>1
  <2> QED  BY <1>1, <1>7, <2>1, <2>2 DEF ma, mb
<1> QED  BY <1>9, <1>10

\* A compare and a select compute an operation that takes one of its operands.
LEMMA ComparesAndTakes ==
  ASSUME NEW w \in VState, NEW l, l.one.op \in Bins, l.one.d \in VRegs, l.one.a \in VRegs, l.one.b \in VRegs,
         NEW rel, NEW type, NEW mask \in SRegs \cup {VCC},
         l.many = <<Cmp("v_cmp", rel, type, mask, l.one.a, l.one.b),
                    To("v_cndmask_b32", l.one.d, l.one.b, l.one.a, mask)>>,
         \A x, y \in Int : Mask(IF Asks(rel, type, x, y) THEN x ELSE y) = Mask(BinValue(l.one.op, x, y))
  PROVE  VLawful(l, w)
<1> DEFINE i == l.one
           d == i.d
           a == i.a
           b == i.b
           y == VResult(Cmp("v_cmp", rel, type, mask, a, b), w)
           z == VResult(To("v_cndmask_b32", d, b, a, mask), y)
           t == VResult(i, w)
<1>1. VRun(l.many, w) = z  BY VRunOfTwo
<1>2. a \in VSources /\ b \in VSources  BY SharedSources
<1>3. \A k \in Active(w) : VGet(w, k, a) \in Int /\ VGet(w, k, b) \in Int  BY <1>2, SourceInts
<1>4. Wrote(w, t, d) /\ \A k \in Active(w) : VGet(t, k, d) = Mask(BinValue(i.op, VGet(w, k, a), VGet(w, k, b)))
  BY <1>2, BinWrites
<1>5. /\ y \in VState /\ y.v = w.v /\ Active(y) = Active(w)
      /\ \A k \in Active(w) : CarryIn(y, k, mask) = IF Asks(rel, type, VGet(w, k, a), VGet(w, k, b)) THEN 1 ELSE 0
  BY Compared
<1> HIDE DEF y, t
<1>9. /\ \A k \in Active(w) : VGet(z, k, d) = Mask(IF CarryIn(y, k, mask) # 0 THEN VGet(w, k, a) ELSE VGet(w, k, b))
      /\ \A k \in Lane \ Active(w) : VGet(z, k, d) = VGet(w, k, d)
  <2>1. d \in VRegs /\ a \in VRegs /\ b \in VRegs  OBVIOUS
  <2>2. z = VResult(To("v_cndmask_b32", d, b, a, mask), y)  OBVIOUS
  <2> HIDE DEF d, a, b, z
  <2>3. y \in VState /\ y.v = w.v /\ Active(y) = Active(w)  BY <1>5
  <2> QED  BY <2>1, <2>2, <2>3, Selected
<1>10. \A k \in Active(w) : VGet(z, k, d) = VGet(t, k, d)
  <2> SUFFICES ASSUME NEW k \in Active(w) PROVE VGet(z, k, d) = VGet(t, k, d)
    OBVIOUS
  <2> DEFINE x == VGet(w, k, a)
             u == VGet(w, k, b)
  <2>1. x \in Int /\ u \in Int  BY <1>3
  <2>2. VGet(z, k, d) = Mask(IF Asks(rel, type, x, u) THEN x ELSE u)  BY <1>5, <1>9
  <2>3. VGet(t, k, d) = Mask(BinValue(i.op, x, u))  BY <1>4
  <2> HIDE DEF x, u
  <2> QED  BY <2>1, <2>2, <2>3
<1>11. \A k \in Lane \ Active(w) : VGet(z, k, d) = VGet(t, k, d)  BY <1>4, <1>9, ReadsApart
<1>12. \A s, k : VGetPair(s, k, d) = VGet(s, k, d)  BY DEF VRegs, VGetPair
<1> HIDE DEF z
<1>13. \A k \in Lane : VGetPair(t, k, d) = VGetPair(z, k, d)  BY <1>10, <1>11, <1>12
<1> QED  BY <1>1, <1>13 DEF VLawful, t

\* The minima and maxima by compare and select, or one by the other.
LEMMA VChoosesHolds ==
  ASSUME NEW w \in VState, NEW l, VChooses(l)
  PROVE  VLawful(l, w)
<1> DEFINE i == l.one
           d == i.d
           a == i.a
           b == i.b
<1>1. d \in VRegs /\ a \in VRegs /\ b \in VRegs  BY DEF VChooses
<1>2. a \in VSources /\ b \in VSources  BY <1>1, SharedSources
<1>3. \A k \in Active(w) : VGet(w, k, a) \in Int /\ VGet(w, k, b) \in Int  BY <1>2, SourceInts
<1>5. {"v_min_i32", "v_max_i32", "v_min_u32", "v_max_u32", "v_xor_b32"} \subseteq Bins  BY BinsAndTris
<1>6. ASSUME i.op = "v_min_i32",
             l.many = <<Cmp("v_cmp", "lt", "i32", VCC, a, b), To("v_cndmask_b32", d, b, a, VCC)>>
      PROVE  VLawful(l, w)
  <2>1. \A x, y \in Int : Mask(IF Asks("lt", "i32", x, y) THEN x ELSE y) = Mask(BinValue(i.op, x, y))
    BY <1>6, LesserOf
  <2> QED  BY <1>1, <1>5, <1>6, <2>1, ComparesAndTakes
<1>7. ASSUME i.op = "v_max_i32",
             l.many = <<Cmp("v_cmp", "gt", "i32", VCC, a, b), To("v_cndmask_b32", d, b, a, VCC)>>
      PROVE  VLawful(l, w)
  <2>1. \A x, y \in Int : Mask(IF Asks("gt", "i32", x, y) THEN x ELSE y) = Mask(BinValue(i.op, x, y))
    BY <1>7, LesserOf
  <2> QED  BY <1>1, <1>5, <1>7, <2>1, ComparesAndTakes
<1>8. ASSUME i.op = "v_min_u32", NEW mask \in SRegs,
             l.many = <<Cmp("v_cmp", "le", "u32", mask, a, b), To("v_cndmask_b32", d, b, a, mask)>>
      PROVE  VLawful(l, w)
  <2>1. \A x, y \in Int : Mask(IF Asks("le", "u32", x, y) THEN x ELSE y) = Mask(BinValue(i.op, x, y))
    BY <1>8, LesserOf
  <2> QED  BY <1>1, <1>5, <1>8, <2>1, ComparesAndTakes
<1>9. ASSUME i.op = "v_max_u32", Apart(a, d), Apart(b, d),
             l.many = <<To("v_min_u32", d, a, b, Null), To("v_xor_b32", d, d, a, Null),
                        To("v_xor_b32", d, d, b, Null)>>
      PROVE  VLawful(l, w)
  <2> DEFINE j1 == To("v_min_u32", d, a, b, Null)
             j2 == To("v_xor_b32", d, d, a, Null)
             j3 == To("v_xor_b32", d, d, b, Null)
             u1 == VResult(j1, w)
             u2 == VResult(j2, u1)
             u3 == VResult(j3, u2)
             t == VResult(i, w)
  <2>2. VRun(l.many, w) = u3  BY <1>9, VRunOfThree
  <2>3. Wrote(w, t, d) /\ \A k \in Active(w) : VGet(t, k, d) =
          Mask(BinValue("v_max_u32", VGet(w, k, a), VGet(w, k, b)))
    BY <1>1, <1>2, <1>5, <1>9, BinWrites
  <2>4. Wrote(w, u1, d) /\ \A k \in Active(w) : VGet(u1, k, d) = Mask(BinValue("v_min_u32", VGet(w, k, a), VGet(w, k, b)))
    BY <1>1, <1>2, <1>5, BinFirst
  <2> HIDE DEF u1, t, j1
  <2>5. Wrote(w, u2, d) /\ \A k \in Active(w) : VGet(u2, k, d) = Mask(BinValue("v_xor_b32", VGet(u1, k, d), VGet(w, k, a)))
    BY <1>1, <1>5, <1>9, <2>4, BinThen
  <2> HIDE DEF u2, j2
  <2>6. Wrote(w, u3, d) /\ \A k \in Active(w) : VGet(u3, k, d) = Mask(BinValue("v_xor_b32", VGet(u2, k, d), VGet(w, k, b)))
    BY <1>1, <1>5, <1>9, <2>5, BinThen
  <2> HIDE DEF u3, j3
  <2>7. ASSUME NEW k \in Active(w) PROVE VGet(t, k, d) = VGet(u3, k, d)
    <3> DEFINE x == VGet(w, k, a)
               y == VGet(w, k, b)
               m == Mask(Smaller(Mask(x), Mask(y)))
    <3>1. x \in Int /\ y \in Int  BY <1>3
    <3>2. /\ VGet(t, k, d) = Mask(BinValue("v_max_u32", x, y))
          /\ VGet(u1, k, d) = Mask(BinValue("v_min_u32", x, y))
          /\ VGet(u2, k, d) = Mask(BinValue("v_xor_b32", VGet(u1, k, d), x))
          /\ VGet(u3, k, d) = Mask(BinValue("v_xor_b32", VGet(u2, k, d), y))
      BY <2>3, <2>4, <2>5, <2>6
    <3> HIDE DEF x, y
    <3>3. VGet(t, k, d) = Mask(Larger(Mask(x), Mask(y))) /\ VGet(u1, k, d) = m  BY <3>2, BinIsMore
    <3> HIDE DEF m
    <3>4. VGet(u2, k, d) = Xor(m, x)  BY <3>2, <3>3, BinIs, LogicIsWord
    <3>5. VGet(u3, k, d) = Xor(Xor(m, x), y)  BY <3>2, <3>4, BinIs, LogicIsWord
    <3> QED  BY <3>1, <3>3, <3>5, OtherOfTwo DEF m
  <2> QED  BY <1>1, <2>2, <2>3, <2>6, <2>7, VLawOf DEF t
<1> QED  BY <1>6, <1>7, <1>8, <1>9 DEF VChooses

\* The places of a word are literals and words.
LEMMA WidthFits == 0 .. W \subseteq 0 .. Top /\ 0 .. W \subseteq Word
<1> DEFINE c == 2 * W
           q == M \div c
<1>1. M \in Nat \ {0} /\ W \in Nat /\ W > 0 /\ c \in Nat \ {0} /\ M % c = 0  BY MType, WidthAssumption, CountAssumption
<1>2. c = 2 * W  OBVIOUS
<1> HIDE DEF c
<1>3. q \in Int /\ M = c * q + (M % c)  BY <1>1, Division
<1> HIDE DEF q
<1>4. M = c * q  BY <1>1, <1>3
<1>5. q >= 1  BY <1>1, <1>3, <1>4
<1>6. M >= c  BY <1>1, <1>3, <1>4, <1>5
<1>7. Top = M - 1 /\ Top >= W /\ Top \in Int  BY <1>1, <1>2, <1>6 DEF Top
<1> QED  BY <1>1, <1>7 DEF Word

\* Two instructions for one of three sources, of which the second has the
\* value of the first between a source apart and nothing.
LEMMA ShiftsForField ==
  ASSUME NEW w \in VState, NEW l, l.one.op \in Tris, l.one.d \in VRegs,
         l.one.a \in VSources, l.one.b \in VSources, l.one.c \in VSources,
         NEW m \in 0 .. W - 1, NEW n \in 0 .. W - 1, NEW op \in Bins,
         l.many = <<To("v_lshlrev_b32", l.one.d, K(m), l.one.a, Null), To(op, l.one.d, K(n), l.one.d, Null)>>,
         \A k \in Active(w) :
           Mask(BinValue(op, n, Mask(Shl(VGet(w, k, l.one.a), m)))) =
             Mask(TriValue(l.one.op, VGet(w, k, l.one.a), VGet(w, k, l.one.b), VGet(w, k, l.one.c)))
  PROVE  VLawful(l, w)
<1> DEFINE i == l.one
           d == i.d
           j1 == To("v_lshlrev_b32", d, K(m), i.a, Null)
           j2 == To(op, d, K(n), d, Null)
           u1 == VResult(j1, w)
           u2 == VResult(j2, u1)
           t == VResult(i, w)
<1>1. /\ K(m) \in VSources /\ K(n) \in VSources /\ Apart(K(n), d)
      /\ m % W = m
  <2>1. m \in 0 .. Top /\ n \in 0 .. Top  BY WidthFits, WidthAssumption
  <2>2. m % W = m  BY WidthAssumption
  <2> QED  BY <2>1, <2>2, LiteralSource
<1>2. VRun(l.many, w) = u2  BY VRunOfTwo
<1>3. /\ Wrote(w, t, d)
      /\ \A k \in Active(w) : VGet(t, k, d) = Mask(TriValue(i.op, VGet(w, k, i.a), VGet(w, k, i.b), VGet(w, k, i.c)))
  BY TriWrites
<1>4. "v_lshlrev_b32" \in Bins  BY BinsAndTris
<1>5. Wrote(w, u1, d) /\ \A k \in Active(w) : VGet(u1, k, d) = Mask(BinValue("v_lshlrev_b32", VGet(w, k, K(m)), VGet(w, k, i.a)))
  BY <1>1, <1>4, BinFirst
<1> HIDE DEF u1, j1, t
<1>6. Wrote(w, u2, d) /\ \A k \in Active(w) : VGet(u2, k, d) = Mask(BinValue(op, VGet(w, k, K(n)), VGet(u1, k, d)))
  BY <1>1, <1>5, BinThen
<1> HIDE DEF u2, j2
<1>7. ASSUME NEW k \in Active(w) PROVE VGet(t, k, d) = VGet(u2, k, d)
  <2>1. VGet(w, k, K(m)) = m /\ VGet(w, k, K(n)) = n  BY LiteralReads
  <2>2. VGet(u1, k, d) = Mask(Shl(VGet(w, k, i.a), m))
    <3>1. BinValue("v_lshlrev_b32", m, VGet(w, k, i.a)) = Shl(VGet(w, k, i.a), m % W)  BY BinIs
    <3> QED  BY <1>1, <1>5, <2>1, <3>1
  <2>3. VGet(u2, k, d) = Mask(BinValue(op, n, VGet(u1, k, d)))  BY <1>6, <2>1
  <2> QED  BY <1>3, <2>2, <2>3
<1> QED  BY <1>2, <1>3, <1>6, <1>7, VLawOf DEF t

\* A field is the number shifted up to the top of the word and down again.
LEMMA FieldShifted ==
  ASSUME NEW x \in Int, NEW off \in 0 .. W - 1, NEW w \in 1 .. W - 1, off + w <= W
  PROVE  LET z == Mask(Shl(x, W - off - w))
         IN  /\ Shr(z, W - w) = Low(Shr(x, off), w)
             /\ Shr(Signed(z), W - w) = SignedLow(Shr(x, off), w)
<1> DEFINE mx == Mask(x)
           n == W - off - w
           z == Mask(Shl(x, n))
<1>1. mx \in Word  BY MaskType
<1>2. n \in Nat /\ off \in Nat /\ w \in Nat  BY WidthAssumption
<1>3. Low(Shr(mx, off), w) = Low(Shr(x, off), w)  BY <1>2, FieldOfMask
<1>4. SignedLow(Shr(mx, off), w) = SignedLow(Shr(x, off), w)  BY <1>3 DEF SignedLow
<1>5. z = Mask(Shl(mx, n))
  <2> HIDE DEF n
  <2> QED  BY <1>2, ShiftOfMask
<1> HIDE DEF mx
<1>6. LET y == Mask(Shl(mx, W - off - w))
      IN  Shr(y, W - w) = Low(Shr(mx, off), w) /\ Shr(Signed(y), W - w) = SignedLow(Shr(mx, off), w)
  BY <1>1, FieldOnTop
<1> QED  BY <1>3, <1>4, <1>5, <1>6

\* The bit field extracts are two shifts.
LEMMA VTakesFieldHolds ==
  ASSUME NEW w \in VState, NEW l, VTakesField(l)
  PROVE  VLawful(l, w)
<1> DEFINE i == l.one
           d == i.d
<1>1. d \in VRegs /\ i.a \in VSources  BY DEF VTakesField
<1>2. PICK off \in 0 .. W - 1, f \in 1 .. W - 1 :
        /\ off + f <= W /\ i.b = K(off) /\ i.c = K(f)
        /\ \/ /\ i.op = "v_bfe_u32"
              /\ l.many = <<To("v_lshlrev_b32", d, K(W - off - f), i.a, Null), To("v_lshrrev_b32", d, K(W - f), d, Null)>>
           \/ /\ i.op = "v_bfe_i32" /\ off + f < W
              /\ l.many = <<To("v_lshlrev_b32", d, K(W - off - f), i.a, Null), To("v_ashrrev_i32", d, K(W - f), d, Null)>>
  BY DEF VTakesField
<1> DEFINE m == W - off - f
           n == W - f
<1>3. /\ m \in 0 .. W - 1 /\ n \in 0 .. W - 1 /\ off \in 0 .. Top /\ f \in 0 .. Top
      /\ n % W = n /\ off % W = off /\ f % W = f /\ f # 0
  <2>1. W \in Nat /\ W > 0  BY WidthAssumption
  <2>2. off \in 0 .. Top /\ f \in 0 .. Top  BY <2>1, WidthFits
  <2>3. m \in 0 .. W - 1 /\ n \in 0 .. W - 1  BY <1>2, <2>1
  <2>4. \A v \in 0 .. W - 1 : v % W = v  BY <2>1
  <2>5. off \in 0 .. W - 1 /\ f \in 0 .. W - 1 /\ f # 0  BY <2>1
  <2> QED  BY <2>2, <2>3, <2>4, <2>5
<1>4. i.b \in VSources /\ i.c \in VSources  BY <1>1, <1>2, <1>3, LiteralSource
<1>5. "v_lshrrev_b32" \in Bins /\ "v_ashrrev_i32" \in Bins /\ "v_bfe_u32" \in Tris /\ "v_bfe_i32" \in Tris  BY BinsAndTris
<1>6. ASSUME NEW k \in Active(w)
      PROVE  LET x == VGet(w, k, i.a)
                 z == Mask(Shl(x, m))
             IN  /\ BinValue("v_lshrrev_b32", n, z) = TriValue("v_bfe_u32", x, VGet(w, k, i.b), VGet(w, k, i.c))
                 /\ off + f < W =>
                      BinValue("v_ashrrev_i32", n, z) = TriValue("v_bfe_i32", x, VGet(w, k, i.b), VGet(w, k, i.c))
  <2> DEFINE x == VGet(w, k, i.a)
             z == Mask(Shl(x, m))
  <2>1. x \in Int  BY <1>1, SourceInts
  <2>2. VGet(w, k, i.b) = off /\ VGet(w, k, i.c) = f  BY <1>2, LiteralReads
  <2> HIDE DEF x
  <2>3. Shr(z, n) = Low(Shr(x, off), f) /\ Shr(Signed(z), n) = SignedLow(Shr(x, off), f)  BY <1>2, <2>1, FieldShifted
  <2> HIDE DEF z, m, n
  <2>4. BinValue("v_lshrrev_b32", n, z) = Shr(z, n) /\ BinValue("v_ashrrev_i32", n, z) = Shr(Signed(z), n)  BY <1>3, BinIs
  <2>5. TriValue("v_bfe_u32", x, off, f) = Low(Shr(x, off), f)  BY <1>3, TriIs
  <2>6. off + f < W => TriValue("v_bfe_i32", x, off, f) = SignedLow(Shr(x, off), f)
    <3>1. TriValue("v_bfe_i32", x, off, f) = FieldI(x, off, f)  BY <1>3, TriIs
    <3> QED  BY <1>3, <3>1 DEF FieldI
  <2>7. /\ BinValue("v_lshrrev_b32", n, z) = TriValue("v_bfe_u32", x, VGet(w, k, i.b), VGet(w, k, i.c))
        /\ off + f < W =>
             BinValue("v_ashrrev_i32", n, z) = TriValue("v_bfe_i32", x, VGet(w, k, i.b), VGet(w, k, i.c))
    BY <2>2, <2>3, <2>4, <2>5, <2>6
  <2> QED  BY <2>7 DEF x, z
<1> HIDE DEF m, n
<1>7. CASE i.op = "v_bfe_u32" /\ l.many = <<To("v_lshlrev_b32", d, K(m), i.a, Null), To("v_lshrrev_b32", d, K(n), d, Null)>>
  <2>1. \A k \in Active(w) : Mask(BinValue("v_lshrrev_b32", n, Mask(Shl(VGet(w, k, i.a), m)))) =
                               Mask(TriValue(i.op, VGet(w, k, i.a), VGet(w, k, i.b), VGet(w, k, i.c)))
    BY <1>6, <1>7
  <2> QED  BY <1>1, <1>3, <1>4, <1>5, <1>7, <2>1, ShiftsForField
<1>8. CASE i.op = "v_bfe_i32" /\ off + f < W /\
           l.many = <<To("v_lshlrev_b32", d, K(m), i.a, Null), To("v_ashrrev_i32", d, K(n), d, Null)>>
  <2>1. \A k \in Active(w) : Mask(BinValue("v_ashrrev_i32", n, Mask(Shl(VGet(w, k, i.a), m)))) =
                               Mask(TriValue(i.op, VGet(w, k, i.a), VGet(w, k, i.b), VGet(w, k, i.c)))
    BY <1>6, <1>8
  <2> QED  BY <1>1, <1>3, <1>4, <1>5, <1>8, <2>1, ShiftsForField
<1> QED  BY <1>2, <1>7, <1>8 DEF m, n

-----------------------------------------------------------------------------
(* The low bits of a number.                                               *)

\* A number is its low bits and a multiple of a power of two.
LEMMA LowSplit ==
  ASSUME NEW x \in Int, NEW n \in Nat
  PROVE  \E q \in Int : x = Low(x, n) + Pow2[n] * q /\ Low(x, n) \in 0 .. Pow2[n] - 1
<1> DEFINE p == Pow2[n]
<1>1. p \in Nat \ {0}  BY PowStep
<1>2. Low(x, n) = x % p  BY DEF Low
<1> HIDE DEF p
<1>3. x \div p \in Int /\ x % p \in 0 .. p - 1 /\ x = p * (x \div p) + (x % p)  BY <1>1, Division
<1> DEFINE q == x \div p
           r == x % p
<1> HIDE DEF q, r
<1>4. p * q \in Int  BY <1>1, <1>3, Products DEF q
<1>5. q \in Int /\ r \in 0 .. p - 1 /\ x = p * q + r  BY <1>3 DEF q, r
<1>6. x = r + p * q  BY <1>1, <1>4, <1>5
<1> QED  BY <1>2, <1>5, <1>6 DEF p, r

\* A number written that way has these low bits.
LEMMA LowIs ==
  ASSUME NEW n \in Nat, NEW q \in Int, NEW r \in 0 .. Pow2[n] - 1
  PROVE  Low(r + Pow2[n] * q, n) = r
<1> DEFINE p == Pow2[n]
<1>1. p \in Nat \ {0}  BY PowStep
<1>2. r \in Int  OBVIOUS
<1> HIDE DEF p
<1>3. p * q \in Int  BY <1>1, Products
<1>4. p * q + r = r + p * q  BY <1>2, <1>3
<1>5. (p * q + r) % p = r  BY <1>1, Quotient DEF p
<1> QED  BY <1>4, <1>5 DEF Low, p

\* A multiple of a power of 2 does not show in the bits below.
LEMMA LowOfMore ==
  ASSUME NEW n \in Nat, NEW x \in Int, NEW e \in Int
  PROVE  Low(x + Pow2[n] * e, n) = Low(x, n)
<1> DEFINE p == Pow2[n]
           r == Low(x, n)
<1>1. p \in Nat \ {0}  BY PowStep
<1>2. PICK q \in Int : x = r + p * q /\ r \in 0 .. p - 1  BY LowSplit
<1> HIDE DEF r
<1>3. Low(r + p * (q + e), n) = r
  <2> DEFINE v == q + e
  <2>1. v \in Int  OBVIOUS
  <2> HIDE DEF v
  <2> QED  BY <1>2, <2>1, LowIs DEF v
<1> HIDE DEF p
<1>4. x + p * e = r + p * (q + e)
  <2> DEFINE a == p * q
             b == p * e
  <2>1. p * (q + e) = a + b /\ a \in Int /\ b \in Int  BY <1>1
  <2>2. r \in Int /\ x = r + a  BY <1>1, <1>2
  <2> HIDE DEF a
  <2>3. x + b = r + (a + b)
    <3> HIDE DEF b
    <3> QED  BY <2>1, <2>2
  <2> QED  BY <2>1, <2>3
<1> QED  BY <1>3, <1>4 DEF p, r

\* Low bits of sums, differences and products need only low bits.
LEMMA LowOfSum ==
  ASSUME NEW n \in Nat, NEW x \in Int, NEW y \in Int
  PROVE  /\ Low(Low(x, n) + Low(y, n), n) = Low(x + y, n)
         /\ Low(Low(x, n) - Low(y, n), n) = Low(x - y, n)
         /\ Low(Low(x, n) * Low(y, n), n) = Low(x * y, n)
<1> DEFINE p == Pow2[n]
           r == Low(x, n)
           s == Low(y, n)
<1>1. p \in Nat \ {0}  BY PowStep
<1>2. PICK q \in Int : x = r + p * q /\ r \in 0 .. p - 1  BY LowSplit
<1>3. PICK u \in Int : y = s + p * u /\ s \in 0 .. p - 1  BY LowSplit
<1>4. \A v, e \in Int : Low(v + p * e, n) = Low(v, n)  BY LowOfMore
<1> HIDE DEF r, s, p
<1>5. r \in Int /\ s \in Int  BY <1>1, <1>2, <1>3
<1>6. x + y = (r + s) + p * (q + u)  BY <1>1, <1>2, <1>3, <1>5
<1>7. x - y = (r - s) + p * (q - u)  BY <1>1, <1>2, <1>3, <1>5
<1> DEFINE e == r * u + q * s + p * (q * u)
<1>8. x * y = r * s + p * e  BY <1>1, <1>2, <1>3, <1>5
<1>9. e \in Int /\ r * s \in Int  BY <1>1, <1>5
<1> HIDE DEF e
<1>10. r + s \in Int /\ q + u \in Int /\ r - s \in Int /\ q - u \in Int  BY <1>5
<1> QED  BY <1>4, <1>6, <1>7, <1>8, <1>9, <1>10 DEF r, s

\* The low n bits of a number are its bits below n.
LEMMA LowBits ==
  ASSUME NEW x \in Int, NEW n \in 0 .. W
  PROVE  Ones(Low(x, n)) = Ones(x) \cap 0 .. n - 1
<1> DEFINE r == Low(x, n)
<1>1. n \in Nat /\ W \in Nat  BY MType
<1>2. PICK q \in Int : x = r + Pow2[n] * q /\ r \in 0 .. Pow2[n] - 1  BY <1>1, LowSplit
<1> HIDE DEF r
<1>3. r \in Int  BY <1>1, <1>2, PowStep
<1> SUFFICES ASSUME NEW k \in 0 .. W - 1 PROVE Bit(r, k) = 1 <=> Bit(x, k) = 1 /\ k < n
  BY <1>1 DEF Ones, r
<1>4. k \in Nat  OBVIOUS
<1>5. CASE k < n
  <2>1. Bit(r + Pow2[n] * q, k) = Bit(r, k)  BY <1>1, <1>3, <1>4, <1>5, BitBelow
  <2> QED  BY <1>2, <1>5, <2>1
<1>6. CASE ~(k < n)
  <2> DEFINE p == Pow2[k]
  <2>1. Pow2[n] <= p /\ p \in Nat \ {0} /\ Pow2[n] \in Nat  BY <1>1, <1>4, <1>6, PowGrows, PowStep
  <2> HIDE DEF p
  <2>2. r \in 0 .. p - 1  BY <1>2, <2>1
  <2>3. p * 0 + r = r /\ 0 \in Int  BY <1>3, <2>1
  <2>4. (p * 0 + r) \div p = 0
    <3> DEFINE z == 0
    <3>1. z \in Int  OBVIOUS
    <3> HIDE DEF z
    <3>2. (p * z + r) \div p = z  BY <2>1, <2>2, <3>1, Quotient
    <3> QED  BY <3>2 DEF z
  <2>5. Bit(r, k) = 0  BY <2>3, <2>4 DEF Bit, p
  <2> QED  BY <1>6, <2>5
<1> QED  BY <1>5, <1>6

\* All bits of -1 are 1.
LEMMA AllOnes == Ones(-1) = 0 .. W - 1
<1> SUFFICES ASSUME NEW k \in 0 .. W - 1 PROVE Bit(-1, k) = 1
  BY DEF Ones
<1> DEFINE p == Pow2[k]
           m == -1
           r == p - 1
<1>1. p \in Nat \ {0} /\ m \in Int  BY PowStep
<1>2. m = p * m + r /\ r \in 0 .. p - 1  BY <1>1
<1>3. m % 2 = 1
  <2> DEFINE two == 2
             one == 1
  <2>1. two \in Nat \ {0} /\ one \in 0 .. two - 1 /\ two * m + one = m  OBVIOUS
  <2> HIDE DEF two, one, m
  <2>2. (two * m + one) % two = one  BY <1>1, <2>1, Quotient
  <2> QED  BY <2>1, <2>2 DEF two, one
<1> HIDE DEF p, m, r
<1>4. (p * m + r) \div p = m  BY <1>1, <1>2, Quotient
<1>5. m \div p = m  BY <1>2, <1>4
<1> QED  BY <1>3, <1>5 DEF Bit, p, m

\* A mask of n ones cuts off the low n bits.
LEMMA CutsOff ==
  ASSUME NEW x \in Int, NEW n \in 0 .. W
  PROVE  And(x, Pow2[n] - 1) = Low(x, n) /\ Low(x, n) \in Word
<1> DEFINE r == Low(x, n)
           ones == Pow2[n] - 1
           m == -1
<1>1. n \in Nat /\ W \in Nat  BY MType
<1>2. PICK q \in Int : x = r + Pow2[n] * q /\ r \in 0 .. Pow2[n] - 1  BY <1>1, LowSplit
<1>3. r \in Word /\ r \in Int
  <2>1. Pow2[n] <= M /\ Pow2[n] \in Nat /\ M \in Nat  BY <1>1, PowGrows, PowStep DEF M
  <2> HIDE DEF r
  <2> QED  BY <1>2, <2>1 DEF Word, Top
<1>4. Ones(r) = Ones(x) \cap 0 .. n - 1  BY LowBits
<1>5. ones = Low(m, n)
  <2> DEFINE p == Pow2[n]
  <2>1. p \in Nat \ {0} /\ m \in Int /\ ones = p - 1  BY <1>1, PowStep
  <2> HIDE DEF p
  <2>2. ones \in 0 .. p - 1 /\ m = ones + p * m  BY <2>1
  <2> HIDE DEF ones, m
  <2>3. Low(ones + p * m, n) = ones  BY <1>1, <2>1, <2>2, LowIs DEF p
  <2> QED  BY <2>2, <2>3
<1>6. Ones(Low(m, n)) = Ones(m) \cap 0 .. n - 1 /\ Ones(m) = 0 .. W - 1
  <2>1. m \in Int /\ Ones(m) = 0 .. W - 1  BY AllOnes
  <2> HIDE DEF m
  <2> QED  BY <2>1, LowBits
<1>7. 0 .. n - 1 \subseteq 0 .. W - 1  BY <1>1
<1> HIDE DEF r, ones, m
<1>8. And(x, ones) = OfOnes(Ones(r))
  <2>1. Ones(ones) = 0 .. n - 1  BY <1>5, <1>6, <1>7
  <2> QED  BY <1>4, <2>1 DEF And
<1>9. OfOnes(Ones(r)) = r  BY <1>3, BitsOfWord, MaskOfWord
<1> QED  BY <1>3, <1>8, <1>9 DEF r, ones

\* Products distribute over sums.
LEMMA Distributes == \A a, b, c \in Int : a * (b + c) = a * b + a * c
OBVIOUS

\* Products associate.
LEMMA Associates == \A a, b, c \in Int : a * (b * c) = (a * b) * c
OBVIOUS

\* Both, as the splitting of a product needs them.
LEMMA SplitProduct ==
  ASSUME NEW p \in Int, NEW s \in Int, NEW q \in Int, NEW u \in Int
  PROVE  p * (u + s * q) = p * u + (p * s) * q /\ s * q \in Int /\ p * u \in Int /\ (p * s) * q \in Int
<1> DEFINE b == s * q
           ps == p * s
<1>1. b \in Int /\ ps \in Int /\ p * u \in Int  BY Products
<1>2. p * b = ps * q  BY Associates
<1> HIDE DEF b, ps
<1>3. p * (u + b) = p * u + p * b  BY <1>1, Distributes
<1>4. p * (u + b) = p * u + ps * q  BY <1>2, <1>3, Zenon
<1>5. ps * q \in Int  BY <1>1, Products
<1>6. p * (u + b) = p * u + ps * q /\ b \in Int /\ p * u \in Int /\ ps * q \in Int  BY <1>1, <1>4, <1>5
<1> QED  BY <1>6, Zenon DEF b, ps

\* A field within the low bits.
LEMMA LowOfShr ==
  ASSUME NEW x \in Int, NEW n \in Nat, NEW m \in Nat
  PROVE  /\ Shr(Low(x, n + m), n) = Low(Shr(x, n), m)
         /\ Low(Shr(x, n), m) \in 0 .. Pow2[m] - 1
         /\ \E v \in 0 .. Pow2[n] - 1 : Low(x, n + m) = Pow2[n] * Low(Shr(x, n), m) + v
<1> DEFINE p == Pow2[n]
           s == Pow2[m]
           r == Low(x, n + m)
           u == r \div p
           v == r % p
<1>1. p \in Nat \ {0} /\ s \in Nat \ {0} /\ n + m \in Nat  BY PowStep
<1>2. Pow2[n + m] = p * s  BY PowSum
<1>3. PICK q \in Int : x = r + Pow2[n + m] * q /\ r \in 0 .. Pow2[n + m] - 1  BY <1>1, LowSplit
<1>4. Shr(Low(x, n + m), n) = u  BY DEF Shr
<1> HIDE DEF r
<1>5. r \in Nat /\ r < p * s /\ x = r + (p * s) * q
  <2> HIDE DEF p, s
  <2>1. p * s \in Nat  BY <1>1
  <2> QED  BY <1>2, <1>3, <2>1
<1>6. u \in 0 .. s - 1
  <2> HIDE DEF p, s
  <2> QED  BY <1>1, <1>5, SmallQuotient
<1>7. r = p * u + v /\ v \in 0 .. p - 1 /\ u \in Int
  <2>1. p \in Nat \ {0} /\ r \in Int  BY <1>1, <1>5
  <2> HIDE DEF p
  <2> QED  BY <2>1, Division
<1> HIDE DEF u, v
<1> DEFINE e == u + s * q
<1>8. e \in Int /\ x = p * e + v
  <2> HIDE DEF p, s
  <2>0. p \in Int /\ s \in Int /\ u \in Int /\ q \in Int  BY <1>1, <1>7
  <2>1. p * (u + s * q) = p * u + (p * s) * q /\ s * q \in Int /\ p * u \in Int /\ (p * s) * q \in Int
    BY <2>0, SplitProduct
  <2> DEFINE a == p * u
             b == (p * s) * q
             c == p * (u + s * q)
  <2>2. c = a + b /\ a \in Int /\ b \in Int /\ x = r + b /\ r = a + v /\ v \in Int  BY <1>1, <1>5, <1>7, <2>1
  <2>3. e \in Int  BY <1>7, <2>1
  <2> HIDE DEF a, b, c
  <2>4. x = c + v  BY <2>2
  <2> QED  BY <2>3, <2>4 DEF c
<1> HIDE DEF e
<1>9. Shr(x, n) = e
  <2> HIDE DEF p
  <2>1. (p * e + v) \div p = e  BY <1>1, <1>7, <1>8, Quotient
  <2> QED  BY <1>8, <2>1 DEF Shr, p
<1>10. Low(e, m) = u
  <2>1. Low(u + Pow2[m] * q, m) = u  BY <1>6, LowIs
  <2> QED  BY <2>1 DEF e
<1> QED  BY <1>4, <1>6, <1>7, <1>9, <1>10 DEF r

\* Shifting a signed field down gives the signed field above.
LEMMA SignedLowOfShr ==
  ASSUME NEW x \in Int, NEW n \in Nat, NEW m \in Nat \ {0}
  PROVE  Shr(SignedLow(x, n + m), n) = SignedLow(Shr(x, n), m)
<1> DEFINE p == Pow2[n]
           s == Pow2[m]
           h == Pow2[m - 1]
           r == Low(x, n + m)
           u == Low(Shr(x, n), m)
<1>1. p \in Nat \ {0} /\ s \in Nat \ {0} /\ h \in Nat /\ m - 1 \in Nat /\ n + m - 1 = n + (m - 1)  BY PowStep
<1>2. Pow2[n + m] = p * s /\ Pow2[n + (m - 1)] = p * h  BY <1>1, PowSum
<1>3. PICK v \in 0 .. p - 1 : r = p * u + v  BY LowOfShr
<1>4. u \in 0 .. s - 1  BY LowOfShr
<1>5. SignedLow(x, n + m) = IF r >= p * h THEN r - p * s ELSE r  BY <1>1, <1>2 DEF SignedLow
<1>6. SignedLow(Shr(x, n), m) = IF u >= h THEN u - s ELSE u  BY DEF SignedLow
<1>7. \A y : Shr(y, n) = y \div p  BY DEF Shr
<1> HIDE DEF r, u, p, s, h
<1>8. u \in Int /\ v \in 0 .. p - 1 /\ p * u \in Int /\ p * h \in Int /\ p * s \in Int  BY <1>1, <1>4
<1>9. CASE u >= h
  <2>1. p * u >= p * h  BY <1>1, <1>4, <1>9
  <2>2. r >= p * h  BY <1>3, <1>8, <2>1
  <2>3. p * (u - s) = p * u - p * s  BY <1>1, <1>8
  <2>4. r - p * s = p * (u - s) + v  BY <1>3, <1>8, <2>3
  <2> DEFINE e == u - s
  <2>5. e \in Int  BY <1>1, <1>8
  <2> HIDE DEF e
  <2>6. (p * e + v) \div p = e  BY <1>1, <1>8, <2>5, Quotient
  <2> QED  BY <1>5, <1>6, <1>7, <1>9, <2>2, <2>4, <2>6 DEF e
<1>10. CASE ~(u >= h)
  <2>1. p * u + p <= p * h  BY <1>1, <1>8, <1>10, Grows
  <2>2. ~(r >= p * h)  BY <1>1, <1>3, <1>8, <2>1
  <2>3. (p * u + v) \div p = u  BY <1>1, <1>8, Quotient
  <2> QED  BY <1>3, <1>5, <1>6, <1>7, <1>10, <2>2, <2>3
<1> QED  BY <1>9, <1>10

\* The bits of a number above some that are added below.
LEMMA BitAbove ==
  ASSUME NEW a \in Int, NEW n \in Nat, NEW lo \in 0 .. Pow2[n] - 1, NEW j \in Nat
  PROVE  Shr(lo + Pow2[n] * a, n + j) = Shr(a, j)
<1> DEFINE p == Pow2[n]
           t == Pow2[j]
           u == a \div t
           v == a % t
<1>1. p \in Nat \ {0} /\ t \in Nat \ {0} /\ Pow2[n + j] = p * t
  <2>1. p \in Nat \ {0} /\ t \in Nat \ {0}  BY PowStep
  <2>2. Pow2[n + j] = Pow2[n] * Pow2[j]  BY PowSum
  <2> QED  BY <2>1, <2>2
<1> HIDE DEF t
<1>2. u \in Int /\ v \in 0 .. t - 1 /\ a = t * u + v  BY <1>1, Division
<1> HIDE DEF p, u, v
<1> DEFINE d == p * t
           r == p * v + lo
<1>3. d \in Nat \ {0} /\ v \in Int /\ lo \in Int /\ lo <= p - 1 /\ lo >= 0  BY <1>1, <1>2 DEF p
<1>4. r \in 0 .. d - 1
  <2>1. p * v + p <= p * t  BY <1>1, <1>2, <1>3, Grows
  <2>2. p * v \in Int /\ p * v >= 0 /\ p * t \in Int  BY <1>1, <1>2
  <2> QED  BY <1>1, <1>3, <2>1, <2>2
<1>5. lo + p * a = d * u + r
  <2>0. p \in Int /\ t \in Int /\ u \in Int /\ v \in Int  BY <1>1, <1>2, <1>3
  <2>8. p * (v + t * u) = p * v + (p * t) * u /\ t * u \in Int /\ p * v \in Int /\ (p * t) * u \in Int
    BY <2>0, SplitProduct
  <2>2. (p * t) * u \in Int /\ p * v \in Int  BY <2>8
  <2>1. p * (t * u + v) = (p * t) * u + p * v
    <3> DEFINE x == t * u
    <3>1. x + v = v + x  BY <2>0, <2>8
    <3>2. (p * t) * u + p * v = p * v + (p * t) * u
      <4> DEFINE y == (p * t) * u
                 z == p * v
      <4>1. y \in Int /\ z \in Int  BY <2>8
      <4> HIDE DEF y, z
      <4>2. y + z = z + y  BY <4>1
      <4> QED  BY <4>2 DEF y, z
    <3> QED  BY <2>8, <3>1, <3>2, Zenon
  <2> DEFINE x == (p * t) * u
             y == p * v
             z == p * a
  <2>3. z = x + y /\ x \in Int /\ y \in Int  BY <1>2, <2>1, <2>2
  <2> HIDE DEF x, y, z
  <2>4. lo + z = x + (y + lo)  BY <1>3, <2>3
  <2> QED  BY <2>4 DEF x, y, z
<1> HIDE DEF d, r
<1>6. (d * u + r) \div d = u  BY <1>2, <1>3, <1>4, Quotient
<1> QED  BY <1>1, <1>5, <1>6 DEF Shr, d, p, t, u

\* Nothing is added twice where the one has no bits, and the other none above.
LEMMA JoinsBits ==
  ASSUME NEW a \in Int, NEW n \in 0 .. W, NEW lo \in 0 .. Pow2[n] - 1
  PROVE  Or(Shl(a, n), lo) = Mask(Shl(a, n) + lo)
<1> DEFINE p == Pow2[n]
           s == lo + p * a
           z == 0
<1>1. n \in Nat /\ W \in Nat /\ p \in Nat \ {0} /\ z \in 0 .. p - 1  BY MType, PowStep
<1>2. Low(s, n) = lo  BY <1>1, LowIs
<1>3. Low(z + p * a, n) = z
  <2> HIDE DEF z
  <2> QED  BY <1>1, LowIs
<1>4. lo \in Int /\ p * a \in Int
  <2>1. p \in Int  BY <1>1
  <2>2. lo \in 0 .. p - 1  OBVIOUS
  <2> HIDE DEF p
  <2> QED  BY <1>1, <2>1, <2>2, Products
<1> DEFINE g == p * a
<1>5. g \in Int /\ s = lo + g /\ z + p * a = g  BY <1>4
<1> HIDE DEF g
<1>6. Shl(a, n) = g
  <2> HIDE DEF p
  <2>1. a * p = p * a  BY <1>1
  <2> QED  BY <1>5, <2>1 DEF Shl, p, g
<1>7. Ones(lo) = Ones(s) \cap 0 .. n - 1
  <2>1. s \in Int  BY <1>4, <1>5
  <2> HIDE DEF s
  <2> QED  BY <1>2, <2>1, LowBits
<1>8. Ones(g) \cap 0 .. n - 1 = {}
  <2>1. Ones(Low(g, n)) = Ones(g) \cap 0 .. n - 1  BY <1>5, LowBits
  <2>2. Low(g, n) = 0  BY <1>3, <1>5
  <2>3. Ones(0) = {}
    <3>1. \A k \in 0 .. W - 1 : Bit(0, k) = 0
      <4> SUFFICES ASSUME NEW k \in 0 .. W - 1 PROVE Bit(0, k) = 0
        OBVIOUS
      <4> DEFINE d == Pow2[k]
                 y == 0
      <4>1. d \in Nat \ {0} /\ y \in Int /\ y \in 0 .. d - 1 /\ d * y + y = y  BY PowStep
      <4> HIDE DEF d, y
      <4>2. (d * y + y) \div d = y  BY <4>1, Quotient
      <4>3. y \div d = y  BY <4>1, <4>2
      <4> QED  BY <4>3 DEF Bit, d, y
    <3> QED  BY <3>1 DEF Ones
  <2> QED  BY <2>1, <2>2, <2>3
<1>9. ASSUME NEW k \in 0 .. W - 1, k \notin 0 .. n - 1 PROVE Bit(s, k) = Bit(g, k)
  <2> DEFINE j == k - n
  <2>1. j \in Nat /\ k = n + j  BY <1>1, <1>9
  <2> HIDE DEF j
  <2>2. Shr(lo + p * a, n + j) = Shr(a, j)  BY <1>1, <2>1, BitAbove
  <2>3. Shr(z + p * a, n + j) = Shr(a, j)
    <3> HIDE DEF z
    <3> QED  BY <1>1, <2>1, BitAbove
  <2>4. Shr(s, k) = Shr(g, k)  BY <1>5, <2>1, <2>2, <2>3
  <2> QED  BY <2>4 DEF Bit, Shr
<1>10. s \in Int  BY <1>4, <1>5
<1> HIDE DEF s
<1>11. Ones(s) = Ones(g) \cup Ones(lo)
  <2>1. Ones(s) \subseteq 0 .. W - 1 /\ Ones(g) \subseteq 0 .. W - 1  BY DEF Ones
  <2>2. \A k \in 0 .. W - 1 : k \notin 0 .. n - 1 => (k \in Ones(s) <=> k \in Ones(g))  BY <1>9 DEF Ones
  <2>3. \A k : k \in Ones(lo) <=> k \in Ones(s) /\ k \in 0 .. n - 1  BY <1>7
  <2>4. \A k : k \in Ones(g) => k \notin 0 .. n - 1  BY <1>8
  <2> QED  BY <2>1, <2>2, <2>3, <2>4
<1>12. OfOnes(Ones(s)) = Mask(s)  BY <1>10, BitsOfWord
<1>13. s = g + lo  BY <1>4, <1>5 DEF s
<1> QED  BY <1>6, <1>11, <1>12, <1>13 DEF Or

-----------------------------------------------------------------------------
(* Half words.                                                             *)

\* The low half of a number is a word, and what the mask of a half leaves.
LEMMA HalfType ==
  ASSUME NEW x \in Int
  PROVE  /\ Half(x) \in Word /\ Half(x) \in Int /\ Mask(Half(x)) = Half(x)
         /\ And(x, Pow2[HalfBits] - 1) = Half(x) /\ Half(Mask(x)) = Half(x)
<1>1. HalfBits \in 0 .. W  BY VConstants
<1>2. And(x, Pow2[HalfBits] - 1) = Half(x) /\ Half(x) \in Word  BY <1>1, CutsOff DEF Half
<1>3. Half(Mask(x)) = Half(x)  BY <1>1, LowOfMask DEF Half
<1>4. \A v \in Word : v \in Int /\ Mask(v) = v  BY MaskOfWord
<1> QED  BY <1>2, <1>3, <1>4

\* That mask is a source, apart from every VGPR and the same in all lanes.
LEMMA HalfWordReads ==
  /\ HalfWord \in VSources /\ \A d \in VRegs : Apart(HalfWord, d)
  /\ \A w, k : VGet(w, k, HalfWord) = Pow2[HalfBits] - 1
<1> DEFINE n == Pow2[HalfBits] - 1
<1>1. n \in 0 .. Top
  <2>1. HalfBits \in Nat /\ W \in Nat /\ HalfBits <= W  BY VConstants
  <2>2. Pow2[HalfBits] <= Pow2[W]  BY <2>1, PowGrows
  <2> QED  BY <2>1, <2>2, PowStep DEF Top, M
<1>2. HalfWord = K(n)  BY DEF HalfWord
<1> HIDE DEF n
<1>3. \A d \in VRegs : Apart(HalfWord, d)  BY <1>1, <1>2, LiteralSource
<1>4. HalfWord \in VSources
  <2>1. K(n) \in Literals  BY <1>1, Constants DEF K, Literals
  <2> QED  BY <1>2, <2>1 DEF VSources, Shared
<1>5. \A w, k : VGet(w, k, HalfWord) = n  BY <1>2, LiteralReads
<1> QED  BY <1>3, <1>4, <1>5 DEF n

\* The instruction that cuts a half word off.
LEMMA CutWrites ==
  ASSUME NEW w \in VState, NEW d \in VRegs, NEW o \in VSources,
         NEW z, z = VResult(To("v_and_b32", d, o, HalfWord, Null), w)
  PROVE  Wrote(w, z, d) /\ \A k \in Active(w) : VGet(z, k, d) = Half(VGet(w, k, o))
<1>1. "v_and_b32" \in Bins  BY BinsAndTris
<1>2. /\ Wrote(w, z, d)
      /\ \A k \in Active(w) : VGet(z, k, d) = Mask(BinValue("v_and_b32", VGet(w, k, o), VGet(w, k, HalfWord)))
  BY <1>1, HalfWordReads, BinFirst
<1>3. ASSUME NEW k \in Active(w) PROVE VGet(z, k, d) = Half(VGet(w, k, o))
  <2> DEFINE x == VGet(w, k, o)
             n == Pow2[HalfBits] - 1
  <2>1. x \in Int  BY SourceInts
  <2>2. VGet(z, k, d) = Mask(BinValue("v_and_b32", x, n))  BY <1>2, HalfWordReads
  <2> HIDE DEF x
  <2>3. Mask(And(x, n)) = And(x, n) /\ And(x, n) = Half(x)  BY <2>1, LogicIsWord, HalfType
  <2>4. BinValue("v_and_b32", x, n) = And(x, n)  BY BinIs
  <2> QED  BY <2>2, <2>3, <2>4 DEF x
<1> QED  BY <1>2, <1>3

\* An instruction of two sources, cut behind it.
LEMMA CutBehind ==
  ASSUME NEW w \in VState, NEW l, l.one.op \in Bins, l.one.d \in VRegs, l.one.a \in VSources, l.one.b \in VSources,
         NEW op \in Bins,
         l.many = <<To(op, l.one.d, l.one.a, l.one.b, Null), To("v_and_b32", l.one.d, l.one.d, HalfWord, Null)>>,
         \A k \in Active(w) :
           Half(Mask(BinValue(op, VGet(w, k, l.one.a), VGet(w, k, l.one.b)))) =
             Mask(BinValue(l.one.op, VGet(w, k, l.one.a), VGet(w, k, l.one.b)))
  PROVE  VLawful(l, w)
<1> DEFINE i == l.one
           d == i.d
           j1 == To(op, d, i.a, i.b, Null)
           j2 == To("v_and_b32", d, d, HalfWord, Null)
           u1 == VResult(j1, w)
           u2 == VResult(j2, u1)
           t == VResult(i, w)
<1>1. VRun(l.many, w) = u2  BY VRunOfTwo
<1>2. Wrote(w, t, d) /\ \A k \in Active(w) : VGet(t, k, d) = Mask(BinValue(i.op, VGet(w, k, i.a), VGet(w, k, i.b)))
  BY BinWrites
<1>3. Wrote(w, u1, d) /\ \A k \in Active(w) : VGet(u1, k, d) = Mask(BinValue(op, VGet(w, k, i.a), VGet(w, k, i.b)))
  BY BinFirst
<1> HIDE DEF u1, t, j1
<1>4. d \in VSources /\ u1 \in VState /\ Active(u1) = Active(w)  BY <1>3, SharedSources, ReadsApart DEF Wrote
<1>5. u2 = VResult(To("v_and_b32", d, d, HalfWord, Null), u1)  OBVIOUS
<1> HIDE DEF u2, j2
<1>6. Wrote(u1, u2, d) /\ \A k \in Active(u1) : VGet(u2, k, d) = Half(VGet(u1, k, d))  BY <1>4, <1>5, CutWrites
<1>7. Wrote(w, u2, d)  BY <1>3, <1>6, WroteTwice
<1>8. \A k \in Active(w) : VGet(t, k, d) = VGet(u2, k, d)  BY <1>2, <1>3, <1>4, <1>6
<1> QED  BY <1>1, <1>2, <1>7, <1>8, VLawOf DEF t

\* An operation on half words is the half of the operation on words.
LEMMA HalfValues ==
  ASSUME NEW op \in HalfOps, NEW x \in Int, NEW y \in Int
  PROVE  Half(Mask(BinValue(op[2], x, y))) = Mask(BinValue(op[1], x, y))
<1>1. HalfBits \in Nat  BY VConstants
<1>2. /\ Half(Half(x) + Half(y)) = Half(x + y) /\ Half(Half(x) - Half(y)) = Half(x - y)
      /\ Half(Half(x) * Half(y)) = Half(x * y)
  BY <1>1, LowOfSum DEF Half
<1>3. /\ x + y \in Int /\ x - y \in Int /\ x * y \in Int  BY Products
<1>4. CASE op = <<"v_add_nc_u16", "v_add_nc_u32">>
  <2> DEFINE v == x + y
  <2>1. BinValue(op[2], x, y) = v /\ BinValue(op[1], x, y) = Half(Half(x) + Half(y))  BY <1>4, BinIs, BinIsMore
  <2>2. v \in Int /\ Half(Half(x) + Half(y)) = Half(v)  BY <1>2, <1>3
  <2> HIDE DEF v
  <2>3. Half(Mask(v)) = Half(v) /\ Mask(Half(v)) = Half(v)  BY <2>2, HalfType
  <2> QED  BY <2>1, <2>2, <2>3
<1>5. CASE op = <<"v_sub_nc_u16", "v_sub_nc_u32">>
  <2> DEFINE v == x - y
  <2>1. BinValue(op[2], x, y) = v /\ BinValue(op[1], x, y) = Half(Half(x) - Half(y))  BY <1>5, BinIs, BinIsMore
  <2>2. v \in Int /\ Half(Half(x) - Half(y)) = Half(v)  BY <1>2, <1>3
  <2> HIDE DEF v
  <2>3. Half(Mask(v)) = Half(v) /\ Mask(Half(v)) = Half(v)  BY <2>2, HalfType
  <2> QED  BY <2>1, <2>2, <2>3
<1>6. CASE op = <<"v_mul_lo_u16", "v_mul_lo_u32">>
  <2> DEFINE v == x * y
  <2>1. BinValue(op[2], x, y) = v /\ BinValue(op[1], x, y) = Half(Half(x) * Half(y))  BY <1>6, BinIsCore8
  <2>2. v \in Int /\ Half(Half(x) * Half(y)) = Half(v)  BY <1>2, <1>3
  <2> HIDE DEF v
  <2>3. Half(Mask(v)) = Half(v) /\ Mask(Half(v)) = Half(v)  BY <2>2, HalfType
  <2> QED  BY <2>1, <2>2, <2>3
<1> QED  BY <1>4, <1>5, <1>6 DEF HalfOps

\* The shifts of half words.
LEMMA HalfShifts ==
  ASSUME NEW n \in 0 .. HalfBits - 1, NEW y \in Int
  PROVE  /\ Half(Mask(BinValue("v_lshlrev_b32", n, y))) = Mask(BinValue("v_lshlrev_b16", n, y))
         /\ Mask(TriValue("v_bfe_u32", y, n, HalfBits - n)) = Mask(BinValue("v_lshrrev_b16", n, y))
         /\ Half(Mask(TriValue("v_bfe_i32", y, n, HalfBits - n))) = Mask(BinValue("v_ashrrev_i16", n, y))
<1> DEFINE h == HalfBits
           m == h - n
<1>1. h \in Nat /\ h > 0 /\ h < W /\ W \in Nat /\ n \in Nat  BY VConstants
<1>2. n % W = n /\ n % h = n /\ m % W = m /\ m # 0 /\ m \in Nat \ {0} /\ n + m = h /\ n + m < W
  <2>1. n \in 0 .. h - 1  OBVIOUS
  <2> HIDE DEF h
  <2> QED  BY <1>1, <2>1
<1> HIDE DEF m
<1>3. Half(Mask(BinValue("v_lshlrev_b32", n, y))) = Mask(BinValue("v_lshlrev_b16", n, y))
  <2> DEFINE a == Shl(y, n)
             b == Half(Shl(Half(y), n))
  <2>1. BinValue("v_lshlrev_b32", n, y) = a /\ BinValue("v_lshlrev_b16", n, y) = b  BY <1>2, BinIs, BinIsCore8
  <2>2. a \in Int /\ Shl(Half(y), n) \in Int  BY <1>1, HalfType, ShiftOfMask
  <2>3. b = Half(a)
    <3> DEFINE p == Pow2[n]
               hy == Half(y)
               hp == Half(p)
    <3>1. p \in Int /\ hy \in Int /\ hp \in Int  BY <1>1, PowStep, HalfType
    <3>2. Half(hy * hp) = Half(y * p)  BY <1>1, <3>1, LowOfSum DEF Half
    <3>3. Half(hy) = hy /\ Half(hp) = hp
      <4>1. hy \in 0 .. Pow2[h] - 1 /\ hp \in 0 .. Pow2[h] - 1
        <5>1. \A x \in Int : Low(x, h) \in 0 .. Pow2[h] - 1  BY <1>1, LowSplit
        <5> QED  BY <3>1, <5>1 DEF Half
      <4> HIDE DEF hy, hp
      <4> QED  BY <1>1, <4>1, LowOfSmall DEF Half
    <3>4. Half(Half(hy) * Half(p)) = Half(hy * p)
      <4> HIDE DEF hy, hp, p
      <4> QED  BY <1>1, <3>1, LowOfSum DEF Half
    <3>5. Half(hy * p) = Half(y * p)  BY <3>2, <3>3, <3>4
    <3> QED  BY <3>5 DEF Shl
  <2>4. b \in Int /\ Mask(b) = b  BY <2>2, HalfType
  <2> HIDE DEF a, b
  <2>5. Half(Mask(a)) = Half(a)  BY <2>2, HalfType
  <2> QED  BY <2>1, <2>3, <2>4, <2>5
<1>4. Mask(TriValue("v_bfe_u32", y, n, m)) = Mask(BinValue("v_lshrrev_b16", n, y))
  <2>1. TriValue("v_bfe_u32", y, n, m) = Low(Shr(y, n), m)  BY <1>2, TriIs
  <2>2. BinValue("v_lshrrev_b16", n, y) = Shr(Half(y), n)  BY <1>2, BinIsMore
  <2>3. Shr(Low(y, n + m), n) = Low(Shr(y, n), m)  BY <1>1, <1>2, LowOfShr
  <2> QED  BY <1>2, <2>1, <2>2, <2>3 DEF Half
<1>5. Half(Mask(TriValue("v_bfe_i32", y, n, m))) = Mask(BinValue("v_ashrrev_i16", n, y))
  <2> DEFINE v == SignedLow(Shr(y, n), m)
  <2>1. TriValue("v_bfe_i32", y, n, m) = v
    <3>1. TriValue("v_bfe_i32", y, n, m) = FieldI(y, n, m)  BY <1>2, TriIs
    <3> QED  BY <1>2, <3>1 DEF FieldI
  <2>2. BinValue("v_ashrrev_i16", n, y) = Half(Shr(SignedLow(y, h), n))  BY <1>2, BinIsMore
  <2>3. Shr(SignedLow(y, n + m), n) = v  BY <1>1, <1>2, SignedLowOfShr
  <2>4. v \in Int  BY <1>1, <1>2, ShiftOfMask, SignedType
  <2> HIDE DEF v
  <2>5. Half(Mask(v)) = Half(v) /\ Mask(Half(v)) = Half(v)  BY <2>4, HalfType
  <2> QED  BY <1>2, <2>1, <2>2, <2>3, <2>5
<1> QED  BY <1>3, <1>4, <1>5 DEF m

\* Different VGPRs are apart.
LEMMA DistinctApart == ASSUME NEW d \in VRegs, NEW e \in VRegs, e # d PROVE Apart(e, d)
<1>1. e.t = "v" /\ e \in VSources  BY SharedSources DEF VRegs
<1>2. [t |-> "negv", n |-> d.n].t = "negv"  OBVIOUS
<1> QED  BY <1>1, <1>2 DEF Apart

\* Several instructions that need a second register.
LEMMA LawOfTwo ==
  ASSUME NEW w \in VState, NEW l, l.one.d \in VRegs, NEW e \in VRegs, e # l.one.d, NEW u, NEW z,
         Wrote(w, VResult(l.one, w), l.one.d), Wrote(w, u, e), Wrote(u, z, l.one.d), VRun(l.many, w) = z,
         \A k \in Active(w) : VGet(VResult(l.one, w), k, l.one.d) = VGet(z, k, l.one.d)
  PROVE  VLawful(l, w)
<1> DEFINE d == l.one.d
           t == VResult(l.one, w)
<1>1. d \in VRegs /\ Wrote(w, t, d) /\ Wrote(u, z, d) /\ d # e /\ \A k \in Active(w) : VGet(t, k, d) = VGet(z, k, d)  OBVIOUS
<1>2. \A s, k : VGetPair(s, k, d) = VGet(s, k, d)  BY DEF VRegs, VGetPair
<1> HIDE DEF d, t
<1>3. Active(u) = Active(w)  BY ReadsApart
<1>4. d \in VSources /\ Apart(d, e)  BY <1>1, SharedSources, DistinctApart
<1>5. \A k \in Lane : VGet(u, k, d) = VGet(w, k, d)  BY <1>4, ReadsApart
<1>6. \A k \in Lane \ Active(w) : VGet(t, k, d) = VGet(w, k, d)  BY <1>1, ReadsApart
<1>7. \A k \in Lane \ Active(w) : VGet(z, k, d) = VGet(u, k, d)  BY <1>1, <1>3, ReadsApart
<1>8. \A k \in Lane : VGetPair(t, k, d) = VGetPair(z, k, d)  BY <1>1, <1>2, <1>5, <1>6, <1>7
<1> QED  BY <1>8 DEF d, t, VLawful

\* The minimum of half words is that of two words cut to halves.
LEMMA LesserHalf ==
  ASSUME NEW w \in VState, NEW l, NEW e \in VRegs, l.one.op = "v_min_u16", l.one.d \in VRegs, e # l.one.d,
         l.one.a \in VSources, l.one.b \in VSources, Apart(l.one.b, e),
         l.many = <<To("v_and_b32", e, l.one.a, HalfWord, Null), To("v_and_b32", l.one.d, l.one.b, HalfWord, Null),
                    To("v_min_u32", l.one.d, l.one.d, e, Null)>>
  PROVE  VLawful(l, w)
<1> DEFINE i == l.one
           d == i.d
           u1 == VResult(To("v_and_b32", e, i.a, HalfWord, Null), w)
           u2 == VResult(To("v_and_b32", d, i.b, HalfWord, Null), u1)
           u3 == VResult(To("v_min_u32", d, d, e, Null), u2)
           t == VResult(i, w)
<1>1. d \in VRegs /\ i.a \in VSources /\ i.b \in VSources /\ Apart(i.b, e)  OBVIOUS
<1>2. i.op \in Bins /\ "v_min_u32" \in Bins  BY BinsAndTris
<1>3. VRun(l.many, w) = u3  BY VRunOfThree
<1>4. Wrote(w, t, d) /\ \A k \in Active(w) : VGet(t, k, d) = Mask(BinValue("v_min_u16", VGet(w, k, i.a), VGet(w, k, i.b)))
  BY <1>1, <1>2, BinWrites
<1>5. Wrote(w, u1, e) /\ \A k \in Active(w) : VGet(u1, k, e) = Half(VGet(w, k, i.a))  BY <1>1, CutWrites
<1> HIDE DEF u1, t
<1>6. u1 \in VState /\ Active(u1) = Active(w) /\ \A k \in Active(w) : VGet(u1, k, i.b) = VGet(w, k, i.b)
  BY <1>1, <1>5, ReadsApart, ActiveLanes DEF Wrote
<1>7. Wrote(u1, u2, d) /\ \A k \in Active(w) : VGet(u2, k, d) = Half(VGet(w, k, i.b))  BY <1>1, <1>6, CutWrites
<1> HIDE DEF u2
<1>8. Apart(e, d)  BY <1>1, DistinctApart
<1>9. /\ Wrote(u1, u3, d)
      /\ \A k \in Active(u1) : VGet(u3, k, d) = Mask(BinValue("v_min_u32", VGet(u2, k, d), VGet(u1, k, e)))
  BY <1>1, <1>2, <1>6, <1>7, <1>8, BinThen
<1> HIDE DEF u3
<1>10. ASSUME NEW k \in Active(w) PROVE VGet(t, k, d) = VGet(u3, k, d)
  <2> DEFINE x == VGet(w, k, i.a)
             y == VGet(w, k, i.b)
             hx == Half(x)
             hy == Half(y)
  <2>1. x \in Int /\ y \in Int  BY <1>1, SourceInts
  <2>2. VGet(t, k, d) = Mask(BinValue("v_min_u16", x, y)) /\ VGet(u3, k, d) = Mask(BinValue("v_min_u32", hy, hx))
    BY <1>4, <1>5, <1>6, <1>7, <1>9
  <2> HIDE DEF x, y
  <2>3. hx \in Int /\ hy \in Int /\ Mask(hx) = hx /\ Mask(hy) = hy  BY <2>1, HalfType
  <2>4. BinValue("v_min_u16", x, y) = Smaller(hx, hy)  BY BinIsCore8
  <2> HIDE DEF hx, hy
  <2>5. BinValue("v_min_u32", hy, hx) = Smaller(hy, hx)  BY <2>3, BinIsMore
  <2>6. Smaller(hx, hy) = Smaller(hy, hx)  BY <2>3 DEF Smaller
  <2> QED  BY <2>2, <2>4, <2>5, <2>6
<1> QED  BY <1>1, <1>3, <1>4, <1>5, <1>7, <1>9, <1>10, LawOfTwo DEF t

\* v_bfe_u32 of place 0 cuts three quarters of a word off.
LEMMA PartWritten ==
  ASSUME NEW w \in VState, NEW d \in VRegs, NEW o \in VSources,
         NEW z, z = VResult(To("v_bfe_u32", d, o, K(0), K(WordBits24)), w)
  PROVE  Wrote(w, z, d) /\ \A k \in Active(w) : VGet(z, k, d) = Low(VGet(w, k, o), WordBits24)
<1> DEFINE n == WordBits24
           zero == 0
<1>1. n \in 0 .. W /\ n \in 0 .. Top /\ zero \in 0 .. Top /\ n % W = n /\ zero % W = zero /\ n \in Nat
  <2>1. W \in Nat /\ W > 0 /\ W = 4 * ByteBits /\ ByteBits \in Nat /\ ByteBits > 0 /\ n = 3 * ByteBits
    BY VConstants DEF WordBits24
  <2>2. n \in 0 .. W - 1 /\ zero \in 0 .. W - 1  BY <2>1
  <2> HIDE DEF n
  <2> QED  BY <2>1, <2>2, WidthFits
<1>2. z = VResult(To("v_bfe_u32", d, o, K(zero), K(n)), w)  OBVIOUS
<1>3. Pow2[zero] = 1  BY PowStep
<1> HIDE DEF n, zero
<1>4. K(zero) \in VSources /\ K(n) \in VSources  BY <1>1, LiteralSource
<1>5. "v_bfe_u32" \in Tris  BY BinsAndTris
<1>6. /\ Wrote(w, z, d)
      /\ \A k \in Active(w) : VGet(z, k, d) = Mask(TriValue("v_bfe_u32", VGet(w, k, o), VGet(w, k, K(zero)), VGet(w, k, K(n))))
  BY <1>2, <1>4, <1>5, TriFirst
<1>7. ASSUME NEW k \in Active(w) PROVE VGet(z, k, d) = Low(VGet(w, k, o), n)
  <2> DEFINE x == VGet(w, k, o)
  <2>1. x \in Int  BY SourceInts
  <2>2. VGet(z, k, d) = Mask(TriValue("v_bfe_u32", x, zero, n))  BY <1>6, LiteralReads
  <2> HIDE DEF x
  <2>3. TriValue("v_bfe_u32", x, zero, n) = Low(Shr(x, zero), n)  BY <1>1, TriIs
  <2>4. Shr(x, zero) = x
    <3> DEFINE one == 1
    <3>1. one \in Nat \ {0} /\ zero \in 0 .. one - 1 /\ one * x + zero = x  BY <2>1 DEF zero
    <3> HIDE DEF one
    <3>2. (one * x + zero) \div one = x  BY <2>1, <3>1, Quotient
    <3> QED  BY <1>3, <3>1, <3>2 DEF Shr, one
  <2>5. Low(x, n) \in Word  BY <1>1, <2>1, CutsOff
  <2>6. Mask(Low(x, n)) = Low(x, n)  BY <2>5, MaskOfWord
  <2> QED  BY <2>2, <2>3, <2>4, <2>6 DEF x
<1> QED  BY <1>6, <1>7 DEF n

\* A product of 24 bits is the product of two extracted fields.
LEMMA PartProduct ==
  ASSUME NEW w \in VState, NEW l, NEW e \in VRegs, l.one.op = "v_mul_u32_u24", l.one.d \in VRegs, e # l.one.d,
         l.one.a \in VSources, l.one.b \in VSources, Apart(l.one.a, e),
         l.many = <<To("v_bfe_u32", e, l.one.b, K(0), K(WordBits24)), To("v_bfe_u32", l.one.d, l.one.a, K(0), K(WordBits24)),
                    To("v_mul_lo_u32", l.one.d, l.one.d, e, Null)>>
  PROVE  VLawful(l, w)
<1> DEFINE i == l.one
           d == i.d
           u1 == VResult(To("v_bfe_u32", e, i.b, K(0), K(WordBits24)), w)
           u2 == VResult(To("v_bfe_u32", d, i.a, K(0), K(WordBits24)), u1)
           u3 == VResult(To("v_mul_lo_u32", d, d, e, Null), u2)
           t == VResult(i, w)
<1>1. d \in VRegs /\ i.a \in VSources /\ i.b \in VSources /\ Apart(i.a, e)  OBVIOUS
<1>2. i.op \in Bins /\ "v_mul_lo_u32" \in Bins  BY BinsAndTris
<1>3. VRun(l.many, w) = u3  BY VRunOfThree
<1>4. Wrote(w, t, d) /\ \A k \in Active(w) : VGet(t, k, d) = Mask(BinValue("v_mul_u32_u24", VGet(w, k, i.a), VGet(w, k, i.b)))
  BY <1>1, <1>2, BinWrites
<1>5. Wrote(w, u1, e) /\ \A k \in Active(w) : VGet(u1, k, e) = Low(VGet(w, k, i.b), WordBits24)  BY <1>1, PartWritten
<1> HIDE DEF u1, t
<1>6. u1 \in VState /\ Active(u1) = Active(w) /\ \A k \in Active(w) : VGet(u1, k, i.a) = VGet(w, k, i.a)
  BY <1>1, <1>5, ReadsApart, ActiveLanes DEF Wrote
<1>7. Wrote(u1, u2, d) /\ \A k \in Active(w) : VGet(u2, k, d) = Low(VGet(w, k, i.a), WordBits24)
  BY <1>1, <1>6, PartWritten
<1> HIDE DEF u2
<1>8. Apart(e, d)  BY <1>1, DistinctApart
<1>9. /\ Wrote(u1, u3, d)
      /\ \A k \in Active(u1) : VGet(u3, k, d) = Mask(BinValue("v_mul_lo_u32", VGet(u2, k, d), VGet(u1, k, e)))
  BY <1>1, <1>2, <1>6, <1>7, <1>8, BinThen
<1> HIDE DEF u3
<1>10. \A k \in Active(w) : VGet(t, k, d) = VGet(u3, k, d)  BY <1>4, <1>5, <1>6, <1>7, <1>9, BinIsCore8
<1> QED  BY <1>1, <1>3, <1>4, <1>5, <1>7, <1>9, <1>10, LawOfTwo DEF t

\* The upper half of a packed word may come with more bits than a half word has.
LEMMA PackedValue ==
  ASSUME NEW x \in Int, NEW y \in Int
  PROVE  Mask(Or(Shl(x, HalfBits), Half(y))) = Mask(Shl(Half(x), HalfBits) + Half(y))
<1> DEFINE h == HalfBits
           p == Pow2[h]
           lo == Half(y)
           hx == Half(x)
<1>1. h \in 0 .. W /\ h \in Nat /\ h + h = W /\ W \in Nat  BY VConstants
<1>2. p \in Nat /\ p \in Int /\ p * p = M
  <2>1. Pow2[h + h] = Pow2[h] * Pow2[h]  BY <1>1, PowSum
  <2>2. Pow2[h] \in Nat  BY <1>1, PowStep
  <2> QED  BY <1>1, <2>1, <2>2 DEF M
<1>3. lo \in 0 .. p - 1 /\ lo \in Int
  <2>1. Low(y, h) \in 0 .. Pow2[h] - 1  BY <1>1, LowSplit
  <2> QED  BY <1>2, <2>1 DEF Half
<1>4. Or(Shl(x, h), lo) = Mask(Shl(x, h) + lo)  BY <1>1, <1>3, JoinsBits
<1>5. PICK q \in Int : x = hx + p * q
  <2>1. \E q \in Int : x = Low(x, h) + Pow2[h] * q  BY <1>1, LowSplit
  <2> QED  BY <2>1 DEF Half
<1>6. hx \in Int  BY HalfType
<1>7. Shl(x, h) = x * p /\ Shl(hx, h) = hx * p  BY DEF Shl
<1> HIDE DEF lo, hx, p, h
<1>8. x * p = hx * p + M * q
  <2>1. p * (hx + p * q) = p * hx + (p * p) * q  BY <1>2, <1>5, <1>6, SplitProduct
  <2>2. x * p = p * x /\ hx * p = p * hx  BY <1>2, <1>6
  <2> QED  BY <1>2, <1>5, <2>1, <2>2
<1> DEFINE a == x * p + lo
           b == hx * p + lo
<1>9. a \in Int /\ b \in Int /\ a = M * q + b
  <2>1. x * p \in Int /\ hx * p \in Int /\ M \in Int  BY <1>2, <1>6, Products, Constants
  <2>2. M * q \in Int  BY <2>1, Products
  <2> HIDE DEF M
  <2> QED  BY <1>3, <1>8, <2>1, <2>2
<1>10. Mask(a) \in Int /\ Mask(Mask(a)) = Mask(a)  BY <1>9, MaskOfMask, LowTypes
<1> HIDE DEF a, b
<1>11. Mask(a) = Mask(b)  BY <1>9, MaskSame DEF Same
<1> QED  BY <1>4, <1>7, <1>10, <1>11 DEF a, b, lo, hx, h

\* Packing two halves is a mask and a shift with an or.
LEMMA Packs ==
  ASSUME NEW w \in VState, NEW l, l.one.op = "v_pack_b32_f16", l.one.d \in VRegs,
         l.one.a \in VSources, l.one.b \in VSources, Apart(l.one.a, l.one.d),
         l.many = <<To("v_and_b32", l.one.d, l.one.b, HalfWord, Null),
                    To("v_lshl_or_b32", l.one.d, l.one.a, K(HalfBits), l.one.d)>>
  PROVE  VLawful(l, w)
<1> DEFINE i == l.one
           d == i.d
           u1 == VResult(To("v_and_b32", d, i.b, HalfWord, Null), w)
           u2 == VResult(To("v_lshl_or_b32", d, i.a, K(HalfBits), d), u1)
           t == VResult(i, w)
<1>1. d \in VRegs /\ d \in VSources /\ i.a \in VSources /\ i.b \in VSources /\ Apart(i.a, d)  BY SharedSources
<1>2. i.op \in Bins /\ "v_lshl_or_b32" \in Tris  BY BinsAndTris
<1>3. VRun(l.many, w) = u2  BY VRunOfTwo
<1>4. HalfBits \in 0 .. Top /\ K(HalfBits) \in VSources /\ HalfBits % W = HalfBits
  <2>1. HalfBits \in 0 .. W - 1 /\ HalfBits \in 0 .. W /\ W \in Nat  BY VConstants
  <2>2. HalfBits \in 0 .. Top  BY <2>1, WidthFits
  <2> QED  BY <1>1, <2>1, <2>2, LiteralSource
<1>5. Wrote(w, t, d) /\ \A k \in Active(w) : VGet(t, k, d) = Mask(BinValue("v_pack_b32_f16", VGet(w, k, i.a), VGet(w, k, i.b)))
  BY <1>1, <1>2, BinWrites
<1>6. Wrote(w, u1, d) /\ \A k \in Active(w) : VGet(u1, k, d) = Half(VGet(w, k, i.b))  BY <1>1, CutWrites
<1> HIDE DEF u1, t
<1>7. u1 \in VState /\ Active(u1) = Active(w) /\ \A k \in Active(w) : VGet(u1, k, i.a) = VGet(w, k, i.a)
  BY <1>1, <1>6, ReadsApart, ActiveLanes DEF Wrote
<1>8. /\ Wrote(u1, u2, d)
      /\ \A k \in Active(u1) : VGet(u2, k, d) =
           Mask(TriValue("v_lshl_or_b32", VGet(u1, k, i.a), VGet(u1, k, K(HalfBits)), VGet(u1, k, d)))
  BY <1>1, <1>2, <1>4, <1>7, TriFirst
<1> HIDE DEF u2
<1>9. Wrote(w, u2, d)  BY <1>6, <1>8, WroteTwice
<1>10. ASSUME NEW k \in Active(w) PROVE VGet(t, k, d) = VGet(u2, k, d)
  <2> DEFINE x == VGet(w, k, i.a)
             y == VGet(w, k, i.b)
  <2>1. x \in Int /\ y \in Int  BY <1>1, SourceInts
  <2>2. VGet(t, k, d) = Mask(BinValue("v_pack_b32_f16", x, y))  BY <1>5
  <2>3. VGet(u2, k, d) = Mask(TriValue("v_lshl_or_b32", x, HalfBits, Half(y)))  BY <1>6, <1>7, <1>8, LiteralReads
  <2> HIDE DEF x, y
  <2>4. BinValue("v_pack_b32_f16", x, y) = Shl(Half(x), HalfBits) + Half(y)  BY BinIsCore8
  <2>5. TriValue("v_lshl_or_b32", x, HalfBits, Half(y)) = Or(Shl(x, HalfBits), Half(y))  BY <1>4, TriIs
  <2> QED  BY <2>1, <2>2, <2>3, <2>4, <2>5, PackedValue
<1> QED  BY <1>1, <1>3, <1>5, <1>9, <1>10, VLawOf DEF t

\* The places of a half word are literals.
LEMMA PlaceInHalf ==
  ASSUME NEW n \in 0 .. HalfBits - 1, NEW d \in VRegs
  PROVE  K(n) \in VSources /\ K(HalfBits - n) \in VSources /\ Apart(K(n), d) /\ Apart(K(HalfBits - n), d)
<1> DEFINE m == HalfBits - n
<1>1. n \in 0 .. W /\ m \in 0 .. W
  <2>1. HalfBits \in Nat /\ HalfBits < W /\ W \in Nat  BY VConstants
  <2> QED  BY <2>1
<1> HIDE DEF m
<1>2. n \in 0 .. Top /\ m \in 0 .. Top  BY <1>1, WidthFits
<1>3. K(n) \in VSources /\ K(m) \in VSources /\ Apart(K(n), d) /\ Apart(K(m), d)  BY <1>2, LiteralSource
<1> QED  BY <1>3 DEF m

\* A half word shifted left is a shift of a word and a mask.
LEMMA HalfUp ==
  ASSUME NEW w \in VState, NEW l, NEW n \in 0 .. HalfBits - 1, l.one.op = "v_lshlrev_b16", l.one.d \in VRegs,
         l.one.a = K(n), l.one.b \in VSources,
         l.many = <<To("v_lshlrev_b32", l.one.d, l.one.a, l.one.b, Null), To("v_and_b32", l.one.d, l.one.d, HalfWord, Null)>>
  PROVE  VLawful(l, w)
<1>1. l.one.op \in Bins /\ "v_lshlrev_b32" \in Bins /\ l.one.a \in VSources  BY BinsAndTris, PlaceInHalf
<1>2. ASSUME NEW k \in Active(w)
      PROVE  Half(Mask(BinValue("v_lshlrev_b32", VGet(w, k, l.one.a), VGet(w, k, l.one.b)))) =
               Mask(BinValue(l.one.op, VGet(w, k, l.one.a), VGet(w, k, l.one.b)))
  <2>1. VGet(w, k, l.one.a) = n /\ VGet(w, k, l.one.b) \in Int  BY LiteralReads, SourceInts
  <2> QED  BY <2>1, HalfShifts
<1> QED  BY <1>1, <1>2, CutBehind

\* A half word shifted right is a bit field.
LEMMA HalfDown ==
  ASSUME NEW w \in VState, NEW l, NEW n \in 0 .. HalfBits - 1, l.one.op = "v_lshrrev_b16", l.one.d \in VRegs,
         l.one.a = K(n), l.one.b \in VSources,
         l.many = <<To("v_bfe_u32", l.one.d, l.one.b, l.one.a, K(HalfBits - n))>>
  PROVE  VLawful(l, w)
<1> DEFINE i == l.one
           d == i.d
           u == VResult(To("v_bfe_u32", d, i.b, K(n), K(HalfBits - n)), w)
           t == VResult(i, w)
<1>1. d \in VRegs /\ i.a \in VSources /\ i.b \in VSources /\ K(n) \in VSources /\ K(HalfBits - n) \in VSources
  BY PlaceInHalf
<1>2. i.op \in Bins /\ "v_bfe_u32" \in Tris  BY BinsAndTris
<1>3. VRun(l.many, w) = u  BY VRunOfOne
<1>4. Wrote(w, t, d) /\ \A k \in Active(w) : VGet(t, k, d) = Mask(BinValue("v_lshrrev_b16", VGet(w, k, i.a), VGet(w, k, i.b)))
  BY <1>1, <1>2, BinWrites
<1>5. /\ Wrote(w, u, d)
      /\ \A k \in Active(w) : VGet(u, k, d) = Mask(TriValue("v_bfe_u32", VGet(w, k, i.b), VGet(w, k, K(n)), VGet(w, k, K(HalfBits - n))))
  BY <1>1, <1>2, TriFirst
<1> HIDE DEF t, u
<1>6. ASSUME NEW k \in Active(w) PROVE VGet(t, k, d) = VGet(u, k, d)
  <2>1. VGet(w, k, i.b) \in Int  BY <1>1, SourceInts
  <2>2. VGet(w, k, i.a) = n /\ VGet(w, k, K(n)) = n /\ VGet(w, k, K(HalfBits - n)) = HalfBits - n  BY LiteralReads
  <2> QED  BY <1>4, <1>5, <2>1, <2>2, HalfShifts
<1> QED  BY <1>1, <1>3, <1>4, <1>5, <1>6, VLawOf DEF t

\* With its sign, it is a signed bit field and a mask.
LEMMA HalfDownSigned ==
  ASSUME NEW w \in VState, NEW l, NEW n \in 0 .. HalfBits - 1, l.one.op = "v_ashrrev_i16", l.one.d \in VRegs,
         l.one.a = K(n), l.one.b \in VSources,
         l.many = <<To("v_bfe_i32", l.one.d, l.one.b, l.one.a, K(HalfBits - n)), To("v_and_b32", l.one.d, l.one.d, HalfWord, Null)>>
  PROVE  VLawful(l, w)
<1> DEFINE i == l.one
           d == i.d
           u1 == VResult(To("v_bfe_i32", d, i.b, K(n), K(HalfBits - n)), w)
           u2 == VResult(To("v_and_b32", d, d, HalfWord, Null), u1)
           t == VResult(i, w)
<1>1. d \in VRegs /\ d \in VSources /\ i.a \in VSources /\ i.b \in VSources /\ K(n) \in VSources /\ K(HalfBits - n) \in VSources
  BY PlaceInHalf, SharedSources
<1>2. i.op \in Bins /\ "v_bfe_i32" \in Tris  BY BinsAndTris
<1>3. VRun(l.many, w) = u2  BY VRunOfTwo
<1>4. Wrote(w, t, d) /\ \A k \in Active(w) : VGet(t, k, d) = Mask(BinValue("v_ashrrev_i16", VGet(w, k, i.a), VGet(w, k, i.b)))
  BY <1>1, <1>2, BinWrites
<1>5. /\ Wrote(w, u1, d)
      /\ \A k \in Active(w) : VGet(u1, k, d) = Mask(TriValue("v_bfe_i32", VGet(w, k, i.b), VGet(w, k, K(n)), VGet(w, k, K(HalfBits - n))))
  BY <1>1, <1>2, TriFirst
<1> HIDE DEF t, u1
<1>6. u1 \in VState /\ Active(u1) = Active(w)  BY <1>1, <1>5, ReadsApart DEF Wrote
<1>7. Wrote(u1, u2, d) /\ \A k \in Active(w) : VGet(u2, k, d) = Half(VGet(u1, k, d))  BY <1>1, <1>6, CutWrites
<1> HIDE DEF u2
<1>8. Wrote(w, u2, d)  BY <1>5, <1>7, WroteTwice
<1>9. ASSUME NEW k \in Active(w) PROVE VGet(t, k, d) = VGet(u2, k, d)
  <2>1. VGet(w, k, i.b) \in Int  BY <1>1, SourceInts
  <2>2. VGet(w, k, i.a) = n /\ VGet(w, k, K(n)) = n /\ VGet(w, k, K(HalfBits - n)) = HalfBits - n  BY LiteralReads
  <2> QED  BY <1>4, <1>5, <1>7, <2>1, <2>2, HalfShifts
<1> QED  BY <1>1, <1>3, <1>4, <1>8, <1>9, VLawOf DEF t

\* The instructions on half words are instructions on words.
LEMMA HalvesHolds ==
  ASSUME NEW w \in VState, NEW l, Halves(l)
  PROVE  VLawful(l, w)
<1> DEFINE i == l.one
           d == i.d
           cut(o, e) == To("v_and_b32", e, o, HalfWord, Null)
           part(o, e) == To("v_bfe_u32", e, o, K(0), K(WordBits24))
<1>1. d \in VRegs /\ i.a \in VSources /\ i.b \in VSources  BY DEF Halves
<1>2. ASSUME NEW op \in HalfOps, i.op = op[1], l.many = <<To(op[2], d, i.a, i.b, Null), cut(d, d)>>
      PROVE  VLawful(l, w)
  <2>1. op[1] \in Bins /\ op[2] \in Bins  BY BinsAndTris DEF HalfOps
  <2>2. \A k \in Active(w) : Half(Mask(BinValue(op[2], VGet(w, k, i.a), VGet(w, k, i.b)))) =
                               Mask(BinValue(i.op, VGet(w, k, i.a), VGet(w, k, i.b)))
    BY <1>1, <1>2, SourceInts, HalfValues
  <2> QED  BY <1>1, <1>2, <2>1, <2>2, CutBehind
<1>3. ASSUME NEW n \in 0 .. HalfBits - 1, i.a = K(n), i.op = "v_lshlrev_b16",
             l.many = <<To("v_lshlrev_b32", d, i.a, i.b, Null), cut(d, d)>>
      PROVE  VLawful(l, w)
  BY <1>1, <1>3, HalfUp
<1>4. ASSUME NEW n \in 0 .. HalfBits - 1, i.a = K(n), i.op = "v_lshrrev_b16",
             l.many = <<To("v_bfe_u32", d, i.b, i.a, K(HalfBits - n))>>
      PROVE  VLawful(l, w)
  BY <1>1, <1>4, HalfDown
<1>5. ASSUME NEW n \in 0 .. HalfBits - 1, i.a = K(n), i.op = "v_ashrrev_i16",
             l.many = <<To("v_bfe_i32", d, i.b, i.a, K(HalfBits - n)), cut(d, d)>>
      PROVE  VLawful(l, w)
  BY <1>1, <1>5, HalfDownSigned
<1>6. ASSUME NEW e \in VRegs, e # d, i.op = "v_min_u16", Apart(i.b, e),
             l.many = <<cut(i.a, e), cut(i.b, d), To("v_min_u32", d, d, e, Null)>>
      PROVE  VLawful(l, w)
  BY <1>1, <1>6, LesserHalf
<1>7. ASSUME NEW e \in VRegs, e # d, i.op = "v_mul_u32_u24", Apart(i.a, e),
             l.many = <<part(i.b, e), part(i.a, d), To("v_mul_lo_u32", d, d, e, Null)>>
      PROVE  VLawful(l, w)
  BY <1>1, <1>7, PartProduct
<1>8. ASSUME i.op = "v_pack_b32_f16", Apart(i.a, d), l.many = <<cut(i.b, d), To("v_lshl_or_b32", d, i.a, K(HalfBits), d)>>
      PROVE  VLawful(l, w)
  BY <1>1, <1>8, Packs
<1> QED  BY <1>2, <1>3, <1>4, <1>5, <1>6, <1>7, <1>8 DEF Halves

-----------------------------------------------------------------------------
(* Instructions that leave a pair of words.                                *)

\* A pair of VGPRs has two VGPRs, the low and the high word of what it reads.
LEMMA PairParts ==
  ASSUME NEW p \in VPairs
  PROVE  /\ LowOf(p) \in VRegs /\ HighOf(p) \in VRegs /\ LowOf(p) # HighOf(p)
         /\ LowOf(p) \in VSources /\ HighOf(p) \in VSources
         /\ LowOf(p).n = p.n /\ HighOf(p).n = p.n + 1 /\ p.n \in Nat
         /\ \A z, k : VGetPair(z, k, p) = Pair(VGet(z, k, LowOf(p)), VGet(z, k, HighOf(p)))
<1>1. p.t = "vpair" /\ p.n \in 0 .. NVgprs - 2 /\ NVgprs \in Nat  BY VConstants DEF VPairs
<1>2. p.n \in Vgpr /\ p.n + 1 \in Vgpr /\ p.n # p.n + 1 /\ p.n \in Nat  BY <1>1 DEF Vgpr
<1>3. LowOf(p) = VReg(p.n) /\ HighOf(p) = VReg(p.n + 1)  BY DEF LowOf, HighOf
<1>4. \A n : VReg(n).t = "v" /\ VReg(n).n = n  BY DEF VReg
<1>5. \A n \in Vgpr : VReg(n) \in VRegs  BY DEF VReg, VRegs
<1>6. LowOf(p) # HighOf(p)  BY <1>2, <1>3, <1>4
<1>7. \A z, k, n : VGet(z, k, VReg(n)) = z.v[k][n]  BY <1>4 DEF VGet
<1>8. \A z, k : VGetPair(z, k, p) = Pair(VGet(z, k, LowOf(p)), VGet(z, k, HighOf(p)))
  BY <1>1, <1>3, <1>7 DEF VGetPair
<1> QED  BY <1>2, <1>3, <1>4, <1>5, <1>6, <1>8, SharedSources

\* What a register was not written to is read as before.
LEMMA OthersStay ==
  ASSUME NEW w, NEW y, NEW d \in VRegs, Wrote(w, y, d), NEW e \in VRegs, e # d
  PROVE  \A k \in Lane : VGet(y, k, e) = VGet(w, k, e)
<1>1. Apart(e, d) /\ e \in VSources  BY DistinctApart, SharedSources
<1> QED  BY <1>1, ReadsApart

\* The low word written, then the high one: the pair has been written.
LEMMA PairInTwo ==
  ASSUME NEW w, NEW u, NEW z, NEW d \in VPairs, Wrote(w, u, LowOf(d)), Wrote(u, z, HighOf(d))
  PROVE  /\ Active(u) = Active(w) /\ Active(z) = Active(w) /\ u \in VState /\ z \in VState
         /\ \A k \in Lane : VGet(z, k, LowOf(d)) = VGet(u, k, LowOf(d))
         /\ \A k \in Lane \ Active(w) : VGetPair(z, k, d) = VGetPair(w, k, d)
<1> DEFINE lo == LowOf(d)
           hi == HighOf(d)
<1>1. lo \in VRegs /\ hi \in VRegs /\ lo # hi  BY PairParts
<1>2. \A s, k : VGetPair(s, k, d) = Pair(VGet(s, k, lo), VGet(s, k, hi))  BY PairParts
<1> HIDE DEF lo, hi
<1>3. Wrote(w, u, lo) /\ Wrote(u, z, hi)  BY DEF lo, hi
<1>4. Active(u) = Active(w) /\ Active(z) = Active(u)  BY <1>1, <1>3, ReadsApart
<1>5. \A k \in Lane : VGet(z, k, lo) = VGet(u, k, lo) /\ VGet(u, k, hi) = VGet(w, k, hi)  BY <1>1, <1>3, OthersStay
<1>6. \A k \in Lane \ Active(w) : VGet(u, k, lo) = VGet(w, k, lo)  BY <1>1, <1>3, ReadsApart
<1>7. \A k \in Lane \ Active(w) : VGet(z, k, hi) = VGet(u, k, hi)  BY <1>1, <1>3, <1>4, ReadsApart
<1>8. \A k \in Lane \ Active(w) : VGetPair(z, k, d) = VGetPair(w, k, d)  BY <1>2, <1>5, <1>6, <1>7
<1>9. u \in VState /\ z \in VState  BY <1>3 DEF Wrote
<1> QED  BY <1>4, <1>5, <1>8, <1>9 DEF lo

\* One value for a pair, or a word of it after the other.
LEMMA LawOfPair ==
  ASSUME NEW w \in VState, NEW l, NEW d \in VPairs, l.one.d = d, NEW f, DOMAIN f = Active(w),
         \A k \in Active(w) : f[k] \in Int, VResult(l.one, w).v = VSet(w, d, f).v,
         NEW z, VRun(l.many, w) = z,
         \A k \in Lane \ Active(w) : VGetPair(z, k, d) = VGetPair(w, k, d),
         \A k \in Active(w) : VGet(z, k, LowOf(d)) = Mask(f[k]) /\ VGet(z, k, HighOf(d)) = Mask(Shr(f[k], W))
  PROVE  VLawful(l, w)
<1> DEFINE y == VSet(w, d, f)
           t == VResult(l.one, w)
<1>1. d.t = "vpair"  BY DEF VPairs
<1>2. \A s1, s2, k : s1.v[k] = s2.v[k] => VGetPair(s1, k, d) = VGetPair(s2, k, d)  BY <1>1 DEF VGetPair
<1>3. y.v = [k \in Lane |-> Landed(w, d, f, k)]  BY VSetType
<1>4. \A k \in Active(w) : VGetPair(y, k, d) = Pair(Mask(f[k]), Mask(Shr(f[k], W)))  BY LanesReadPair
<1>5. t.v = y.v  OBVIOUS
<1> HIDE DEF y, t
<1>6. \A k \in Lane \ Active(w) : y.v[k] = w.v[k]  BY <1>3 DEF Landed
<1>7. \A k \in Active(w) : VGetPair(z, k, d) = VGetPair(y, k, d)  BY <1>4, PairParts
<1>8. \A k \in Lane : VGetPair(t, k, d) = VGetPair(y, k, d)  BY <1>2, <1>5
<1>9. \A k \in Lane \ Active(w) : VGetPair(y, k, d) = VGetPair(w, k, d)  BY <1>2, <1>6
<1>10. \A k \in Lane : VGetPair(t, k, d) = VGetPair(z, k, d)  BY <1>7, <1>8, <1>9
<1> QED  BY <1>10 DEF VLawful, t

\* Two shifts to the right are one by the sum.
LEMMA ShrTwice ==
  ASSUME NEW x \in Int, NEW n \in Nat, NEW j \in Nat
  PROVE  Shr(x, n + j) = Shr(Shr(x, n), j)
<1> DEFINE p == Pow2[n]
           a == Shr(x, n)
           lo == x % p
<1>1. p \in Nat \ {0}  BY PowStep
<1>2. a = x \div p  BY DEF Shr
<1>3. a \in Int /\ lo \in 0 .. p - 1 /\ x = p * a + lo
  <2> HIDE DEF p
  <2>1. x \div p \in Int /\ x % p \in 0 .. p - 1 /\ x = p * (x \div p) + (x % p)  BY <1>1, Division
  <2> QED  BY <1>2, <2>1
<1> HIDE DEF a, lo
<1>4. Shr(lo + p * a, n + j) = Shr(a, j)  BY <1>3, BitAbove
<1>5. lo + p * a = x
  <2> DEFINE g == p * a
  <2>1. g \in Int
    <3>1. p \in Int  BY <1>1
    <3> HIDE DEF p
    <3> QED  BY <1>3, <3>1, Products
  <2>2. lo \in Int /\ x = g + lo
    <3>1. p \in Int  BY <1>1
    <3>2. lo \in 0 .. p - 1 /\ x = p * a + lo  BY <1>3
    <3> HIDE DEF p
    <3>3. lo \in Int  BY <3>1, <3>2
    <3> QED  BY <3>2, <3>3
  <2> HIDE DEF g
  <2>3. lo + g = x  BY <2>1, <2>2
  <2> QED  BY <2>3 DEF g
<1> QED  BY <1>4, <1>5 DEF a

\* The words of a number cut to two words.
LEMMA WordsOfMask2 ==
  ASSUME NEW v \in Int
  PROVE  /\ Mask(Mask2(v)) = Mask(v) /\ Mask(Shr(Mask2(v), W)) = Mask(Shr(v, W))
         /\ Mask2(v) \in Int
<1> DEFINE d == M * M
           k == v \div d
           g == Mask2(v)
           h == Shr(g, W)
           lo == g % M
<1>1. M \in Nat \ {0} /\ M \in Int /\ W \in Nat  BY MType
<1>2. d \in Nat \ {0}
  <2>1. \A m \in Nat : m > 1 => m * m \in Nat \ {0}  OBVIOUS
  <2> QED  BY <2>1, MType
<1>3. k \in Int /\ v = d * k + g /\ g \in Int
  <2>1. g = v % d  BY DEF Mask2
  <2> HIDE DEF d
  <2>2. v \div d \in Int /\ v % d \in 0 .. d - 1 /\ v = d * (v \div d) + (v % d)  BY <1>2, Division
  <2>3. v % d \in Int  BY <1>2, <2>2
  <2> QED  BY <2>1, <2>2, <2>3
<1> HIDE DEF k, g
<1>4. h = g \div M  BY DEF Shr, M
<1>5. h \in Int /\ lo \in 0 .. M - 1 /\ g = M * h + lo
  <2>1. g \div M \in Int /\ g % M \in 0 .. M - 1 /\ g = M * (g \div M) + (g % M)  BY <1>1, <1>3, Division
  <2> QED  BY <1>4, <2>1
<1> HIDE DEF h, lo
<1> DEFINE mk == M * k
           e == mk + h
<1>6. mk \in Int /\ d * k = M * mk  BY <1>1, <1>3, Products, Associates
<1>7. e \in Int  BY <1>5, <1>6
<1>8. M * e = M * mk + M * h  BY <1>1, <1>5, <1>6, Distributes
<1>9. v = M * e + lo
  <2> DEFINE a == M * mk
             b == M * h
             c == M * e
  <2>1. a \in Int /\ b \in Int /\ c = a + b /\ v = a + g /\ g = b + lo
    BY <1>1, <1>3, <1>5, <1>6, <1>8, Products
  <2>2. lo \in Int  BY <1>1, <1>5
  <2> HIDE DEF a, b, c, d, e
  <2>3. v = c + lo  BY <2>1, <2>2
  <2> QED  BY <2>3 DEF c
<1>10. Shr(v, W) = e
  <2> HIDE DEF e
  <2>1. (M * e + lo) \div M = e  BY <1>1, <1>5, <1>7, Quotient
  <2> QED  BY <1>9, <2>1 DEF Shr, M
<1>11. Same(v, g)
  <2>1. v = M * mk + g  BY <1>3, <1>6
  <2> HIDE DEF mk
  <2> QED  BY <1>6, <2>1 DEF Same
<1>12. Same(e, h)
  <2>1. e = M * k + h  OBVIOUS
  <2> QED  BY <1>3, <2>1 DEF Same
<1> HIDE DEF e
<1>13. Mask(v) = Mask(g) /\ Mask(e) = Mask(h)  BY <1>3, <1>5, <1>7, <1>11, <1>12, MaskSame
<1> QED  BY <1>3, <1>10, <1>13 DEF g, h

\* A pair has its two words.
LEMMA WordsOfPair ==
  ASSUME NEW x \in Word, NEW y \in Word
  PROVE  /\ Pair(x, y) \in Int /\ Mask2(Pair(x, y)) = Pair(x, y)
         /\ Shr(Pair(x, y), W) = y /\ Mask(Pair(x, y)) = x
<1> DEFINE p == Pair(x, y)
<1>1. p = y * M + x  BY DEF Pair
<1>2. p \in 0 .. M * M - 1  BY <1>1, PairRange
<1>3. p \in DoubleWord  BY <1>2 DEF DoubleWord
<1>4. p \in Int /\ Mask2(p) = p
  <2>1. p \in Nat /\ Mask2(p) = p
    <3> HIDE DEF p
    <3> QED  BY <1>3, DoubleWordFits
  <2> QED  BY <2>1
<1>5. M \in Nat \ {0} /\ x \in 0 .. M - 1 /\ y \in Int  BY MType DEF Word, Top
<1>6. (M * y + x) \div M = y /\ (M * y + x) % M = x  BY <1>5, Quotient
<1>7. M * y = y * M  BY <1>5
<1>8. p = M * y + x  BY <1>1, <1>7
<1> HIDE DEF p
<1> QED  BY <1>4, <1>6, <1>8 DEF Shr, Mask, M, p

\* The two words of a shifted pair, in terms of the words of the pair.
LEMMA ShiftedPair ==
  ASSUME NEW x \in Word, NEW y \in Word, NEW n \in 0 .. W - 1
  PROVE  /\ Mask(Shl(x, n)) = Mask(Mask2(Shl(Pair(x, y), n)))
         /\ n > 0 => AlignBit(x, y, W - n) = Mask(Shr(Mask2(Shl(Pair(x, y), n)), W))
         /\ AlignBit(x, y, n) = Mask(Shr(Pair(x, y), n))
         /\ Mask(Shr(y, n)) = Mask(Shr(Shr(Pair(x, y), n), W))
         /\ Mask2(Shl(Pair(x, y), n)) \in Int /\ Shr(Pair(x, y), n) \in Int
<1> DEFINE p == Pair(x, y)
           v == Shl(p, n)
<1>1. p \in Int /\ Shr(p, W) = y /\ Mask(p) = x  BY WordsOfPair
<1>2. x \in Int /\ y \in Int /\ Mask(x) = x /\ Mask(y) = y  BY MaskOfWord
<1>3. W \in Nat /\ n \in Nat /\ n < W /\ n \in Int  BY MType
<1>4. \A c : AlignBit(x, y, c) = Mask(Shr(p, c % W))  BY <1>2 DEF AlignBit
<1> HIDE DEF p
<1>5. v \in Int /\ Mask(Shl(Mask(p), n)) = Mask(v) /\ Shr(p, n) \in Int  BY <1>1, <1>3, ShiftOfMask
<1>6. Mask(Mask2(v)) = Mask(v) /\ Mask(Shr(Mask2(v), W)) = Mask(Shr(v, W)) /\ Mask2(v) \in Int
  <2> HIDE DEF v
  <2> QED  BY <1>5, WordsOfMask2
<1>7. Mask(Shl(x, n)) = Mask(Mask2(v))  BY <1>1, <1>5, <1>6
<1>8. n % W = n
  <2>1. n \in 0 .. W - 1  OBVIOUS
  <2> QED  BY <1>3, <2>1
<1>9. AlignBit(x, y, n) = Mask(Shr(p, n))  BY <1>4, <1>8
<1>10. Shr(y, n) = Shr(Shr(p, n), W)
  <2>1. Shr(p, W + n) = Shr(Shr(p, W), n)  BY <1>1, <1>3, ShrTwice
  <2>2. Shr(p, n + W) = Shr(Shr(p, n), W)  BY <1>1, <1>3, ShrTwice
  <2>3. W + n = n + W  BY <1>3
  <2> QED  BY <1>1, <2>1, <2>2, <2>3
<1>11. ASSUME n > 0 PROVE AlignBit(x, y, W - n) = Mask(Shr(v, W))
  <2> DEFINE m == W - n
             zero == 0
             q == Pow2[n]
  <2>1. m \in Nat /\ n + m = W /\ m \in 0 .. W - 1  BY <1>3, <1>11
  <2>2. m % W = m  BY <1>3, <2>1
  <2> HIDE DEF m
  <2>3. q \in Nat /\ q > 0 /\ zero \in 0 .. q - 1  BY <1>3, PowStep
  <2>4. Shr(zero + q * p, n + m) = Shr(p, m)
    <3> HIDE DEF zero
    <3> QED  BY <1>1, <1>3, <2>1, <2>3, BitAbove
  <2>5. zero + q * p = v
    <3>1. q \in Int  BY <2>3
    <3> HIDE DEF q
    <3>2. q * p \in Int /\ q * p = p * q  BY <1>1, <3>1
    <3>3. v = p * q  BY DEF Shl, q
    <3> HIDE DEF v
    <3> QED  BY <3>2, <3>3
  <2>6. AlignBit(x, y, m) = Mask(Shr(p, m))  BY <1>4, <2>2
  <2> QED  BY <2>1, <2>4, <2>5, <2>6 DEF m
<1> QED  BY <1>5, <1>6, <1>7, <1>9, <1>10, <1>11 DEF p

\* What a 64-bit shift by a literal leaves in the lanes.
LEMMA WideShifts ==
  ASSUME NEW w \in VState, NEW i, NEW n \in 0 .. W - 1, i.a = K(n)
  PROVE  /\ i.op = "v_lshlrev_b64" =>
              VResult(i, w) = VSet(w, i.d, [k \in Active(w) |-> Mask2(Shl(VGetPair(w, k, i.b), n))])
         /\ i.op = "v_lshrrev_b64" =>
              VResult(i, w) = VSet(w, i.d, [k \in Active(w) |-> Shr(Mask2(VGetPair(w, k, i.b)), n)])
<1>1. i.a.n = n  BY DEF K
<1>2. n \in Nat /\ W \in Nat /\ W > 0 /\ n < W  BY VConstants
<1>3. ~(n >= 2 * W)  BY <1>2
<1>4. n % (2 * W) = n
  <2> DEFINE d == 2 * W
  <2>1. d \in Nat /\ n < d  BY <1>2
  <2> HIDE DEF d
  <2>2. n % d = n  BY <1>2, <2>1
  <2> QED  BY <2>2 DEF d
<1>5. \A k : VGet(w, k, i.a) = n  BY LiteralReads
<1>6. i.op = "v_lshlrev_b64" => VResult(i, w) = ShiftWide(i, w)  BY VDoesMore
<1>7. i.op = "v_lshrrev_b64" => VResult(i, w) = ShiftWide(i, w)  BY VDoesMore
<1>8. ASSUME i.op = "v_lshlrev_b64"
      PROVE  ShiftWide(i, w) = VSet(w, i.d, [k \in Active(w) |-> Mask2(Shl(VGetPair(w, k, i.b), n))])
  BY <1>1, <1>3, <1>8 DEF ShiftWide
<1>9. ASSUME i.op = "v_lshrrev_b64"
      PROVE  ShiftWide(i, w) = VSet(w, i.d, [k \in Active(w) |-> Shr(Mask2(VGetPair(w, k, i.b)), n)])
  BY <1>4, <1>5, <1>9 DEF ShiftWide
<1> QED  BY <1>6, <1>7, <1>8, <1>9

\* The words of a pair, as the lanes read them.
LEMMA PairRead ==
  ASSUME NEW w \in VState, NEW p \in VPairs, NEW k \in Active(w)
  PROVE  /\ VGet(w, k, LowOf(p)) \in Word /\ VGet(w, k, HighOf(p)) \in Word
         /\ VGetPair(w, k, p) = Pair(VGet(w, k, LowOf(p)), VGet(w, k, HighOf(p)))
<1>1. k \in Lane /\ LowOf(p) \in VRegs /\ HighOf(p) \in VRegs  BY PairParts, ActiveLanes
<1>2. \A o \in VRegs : VGet(w, k, o) \in Word
  <2> SUFFICES ASSUME NEW o \in VRegs PROVE VGet(w, k, o) \in Word  OBVIOUS
  <2>1. o.t = "v" /\ o.n \in Vgpr  BY DEF VRegs
  <2>2. w.v[k][o.n] \in Word  BY <1>1, <2>1 DEF VState
  <2> QED  BY <2>1, <2>2 DEF VGet
<1> QED  BY <1>1, <1>2, PairParts

\* One word of a pair across its two words.
LEMMA AcrossWrites ==
  ASSUME NEW w \in VState, NEW d \in VRegs, NEW b \in VPairs, NEW n \in 0 .. W - 1,
         NEW z, z = VResult(To("v_alignbit_b32", d, LowOf(b), HighOf(b), K(n)), w)
  PROVE  /\ Wrote(w, z, d)
         /\ \A k \in Active(w) : VGet(z, k, d) = AlignBit(VGet(w, k, LowOf(b)), VGet(w, k, HighOf(b)), n)
<1> DEFINE lo == LowOf(b)
           hi == HighOf(b)
<1>1. lo \in VSources /\ hi \in VSources  BY PairParts
<1>2. n \in 0 .. Top
  <2>1. n \in 0 .. W  BY MType
  <2> QED  BY <2>1, WidthFits
<1>3. K(n) \in VSources /\ "v_alignbit_b32" \in Tris  BY <1>2, LiteralSource, BinsAndTris
<1>4. \A k \in Active(w) : VGet(w, k, lo) \in Word /\ VGet(w, k, hi) \in Word  BY PairRead
<1>5. z = VResult(To("v_alignbit_b32", d, lo, hi, K(n)), w)  OBVIOUS
<1> HIDE DEF lo, hi
<1>6. /\ Wrote(w, z, d)
      /\ \A k \in Active(w) : VGet(z, k, d) = Mask(TriValue("v_alignbit_b32", VGet(w, k, lo), VGet(w, k, hi), VGet(w, k, K(n))))
  BY <1>1, <1>3, <1>5, TriFirst
<1>7. ASSUME NEW k \in Active(w) PROVE VGet(z, k, d) = AlignBit(VGet(w, k, lo), VGet(w, k, hi), n)
  <2> DEFINE x == VGet(w, k, lo)
             y == VGet(w, k, hi)
             v == Shr(Pair(x, y), n)
  <2>1. x \in Word /\ y \in Word  BY <1>4
  <2>2. VGet(z, k, d) = Mask(TriValue("v_alignbit_b32", x, y, n))  BY <1>6, LiteralReads
  <2> HIDE DEF x, y
  <2>3. TriValue("v_alignbit_b32", x, y, n) = AlignBit(x, y, n)  BY TriIsMore
  <2>4. AlignBit(x, y, n) = Mask(v) /\ v \in Int  BY <2>1, ShiftedPair
  <2> HIDE DEF v
  <2>5. Mask(Mask(v)) = Mask(v)  BY <2>4, MaskOfMask
  <2> QED  BY <2>2, <2>3, <2>4, <2>5 DEF x, y
<1> QED  BY <1>6, <1>7 DEF lo, hi

\* A literal below the width shifts by itself.
LEMMA ShortCount ==
  ASSUME NEW n \in 0 .. W - 1
  PROVE  n % W = n /\ K(n) \in VSources /\ n \in Nat /\ n \in Int
<1>1. W \in Nat /\ W > 0 /\ n \in 0 .. W  BY MType
<1>2. n \in 0 .. Top  BY <1>1, WidthFits
<1>3. K(n) \in Literals  BY <1>2, Constants DEF K, Literals
<1>4. K(n) \in VSources  BY <1>3 DEF VSources, Shared
<1>5. n \in 0 .. W - 1  OBVIOUS
<1> QED  BY <1>1, <1>4, <1>5

\* A pair is shifted left by a shift and an alignment.
LEMMA WidePairUp ==
  ASSUME NEW w \in VState, NEW l, NEW d \in VPairs, l.one.d = d, NEW b \in VPairs, l.one.b = b,
         NEW n \in 1 .. W - 1, l.one.op = "v_lshlrev_b64", l.one.a = K(n), d.n \notin b.n .. b.n + 1,
         l.many = <<To("v_lshlrev_b32", LowOf(d), K(n), LowOf(b), Null),
                    To("v_alignbit_b32", HighOf(d), LowOf(b), HighOf(b), K(W - n))>>
  PROVE  VLawful(l, w)
<1> DEFINE lo == LowOf(d)
           hi == HighOf(d)
           u == VResult(To("v_lshlrev_b32", lo, K(n), LowOf(b), Null), w)
           z == VResult(To("v_alignbit_b32", hi, LowOf(b), HighOf(b), K(W - n)), u)
           f == [k \in Active(w) |-> Mask2(Shl(VGetPair(w, k, b), n))]
<1>1. W \in Nat /\ n \in 0 .. W - 1 /\ W - n \in 0 .. W - 1 /\ n > 0  BY MType
<1>2. VRun(l.many, w) = z  BY VRunOfTwo
<1>3. VResult(l.one, w) = VSet(w, d, f)
  <2>1. n \in 0 .. W - 1  BY <1>1
  <2>2. VResult(l.one, w) = VSet(w, l.one.d, [k \in Active(w) |-> Mask2(Shl(VGetPair(w, k, l.one.b), n))])
    BY <2>1, WideShifts
  <2> QED  BY <2>2
<1>4. lo \in VRegs /\ hi \in VRegs /\ LowOf(b) \in VRegs /\ HighOf(b) \in VRegs /\ LowOf(b) \in VSources
  BY PairParts
<1>5. LowOf(b) # lo /\ HighOf(b) # lo
  <2>1. lo.n = d.n /\ LowOf(b).n = b.n /\ HighOf(b).n = b.n + 1 /\ b.n \in Nat /\ d.n \in Nat  BY PairParts
  <2>2. b.n # d.n /\ b.n + 1 # d.n  BY <2>1
  <2> HIDE DEF lo
  <2> QED  BY <2>1, <2>2
<1>6. n % W = n /\ K(n) \in VSources  BY <1>1, ShortCount
<1>7. "v_lshlrev_b32" \in Bins  BY BinsAndTris
<1>8. /\ Wrote(w, u, lo)
      /\ \A k \in Active(w) : VGet(u, k, lo) = Mask(BinValue("v_lshlrev_b32", VGet(w, k, K(n)), VGet(w, k, LowOf(b))))
  BY <1>4, <1>6, <1>7, BinFirst
<1> HIDE DEF u
<1>9. u \in VState /\ Active(u) = Active(w)  BY <1>4, <1>8, ReadsApart DEF Wrote
<1>10. \A k \in Lane : VGet(u, k, LowOf(b)) = VGet(w, k, LowOf(b)) /\ VGet(u, k, HighOf(b)) = VGet(w, k, HighOf(b))
  BY <1>4, <1>5, <1>8, OthersStay
<1>11. /\ Wrote(u, z, hi)
       /\ \A k \in Active(u) : VGet(z, k, hi) = AlignBit(VGet(u, k, LowOf(b)), VGet(u, k, HighOf(b)), W - n)
  BY <1>1, <1>4, <1>9, AcrossWrites
<1> HIDE DEF z
<1>12. /\ \A k \in Lane : VGet(z, k, lo) = VGet(u, k, lo)
       /\ \A k \in Lane \ Active(w) : VGetPair(z, k, d) = VGetPair(w, k, d)
  BY <1>8, <1>11, PairInTwo
<1>13. ASSUME NEW k \in Active(w)
       PROVE  /\ f[k] \in Int /\ VGet(z, k, lo) = Mask(f[k]) /\ VGet(z, k, hi) = Mask(Shr(f[k], W))
  <2> DEFINE x == VGet(w, k, LowOf(b))
             y == VGet(w, k, HighOf(b))
             v == Mask2(Shl(Pair(x, y), n))
  <2>1. x \in Word /\ y \in Word /\ VGetPair(w, k, b) = Pair(x, y) /\ k \in Lane  BY PairRead, ActiveLanes
  <2>2. f[k] = v  BY <2>1
  <2>3. VGet(z, k, lo) = Mask(BinValue("v_lshlrev_b32", n, x))  BY <1>8, <1>12, <2>1, LiteralReads
  <2>4. VGet(z, k, hi) = AlignBit(x, y, W - n)  BY <1>9, <1>10, <1>11, <2>1
  <2> HIDE DEF x, y, f
  <2>5. BinValue("v_lshlrev_b32", n, x) = Shl(x, n)  BY <1>6, BinIs
  <2>6. Mask(Shl(x, n)) = Mask(v) /\ AlignBit(x, y, W - n) = Mask(Shr(v, W)) /\ v \in Int
    BY <1>1, <2>1, ShiftedPair
  <2> HIDE DEF v
  <2> QED  BY <2>2, <2>3, <2>4, <2>5, <2>6
<1>14. DOMAIN f = Active(w) /\ \A k \in Active(w) : f[k] \in Int  BY <1>13
<1>15. VResult(l.one, w).v = VSet(w, d, f).v  BY <1>3
<1> HIDE DEF f
<1> QED  BY <1>2, <1>12, <1>13, <1>14, <1>15, LawOfPair

\* And right by an alignment and a shift.
LEMMA WidePairDown ==
  ASSUME NEW w \in VState, NEW l, NEW d \in VPairs, l.one.d = d, NEW b \in VPairs, l.one.b = b,
         NEW n \in 0 .. W - 1, l.one.op = "v_lshrrev_b64", l.one.a = K(n), d.n # b.n + 1,
         l.many = <<To("v_alignbit_b32", LowOf(d), LowOf(b), HighOf(b), K(n)),
                    To("v_lshrrev_b32", HighOf(d), K(n), HighOf(b), Null)>>
  PROVE  VLawful(l, w)
<1> DEFINE lo == LowOf(d)
           hi == HighOf(d)
           u == VResult(To("v_alignbit_b32", lo, LowOf(b), HighOf(b), K(n)), w)
           z == VResult(To("v_lshrrev_b32", hi, K(n), HighOf(b), Null), u)
           f == [k \in Active(w) |-> Shr(Mask2(VGetPair(w, k, b)), n)]
<1>2. VRun(l.many, w) = z  BY VRunOfTwo
<1>3. VResult(l.one, w) = VSet(w, d, f)  BY WideShifts
<1>4. lo \in VRegs /\ hi \in VRegs /\ LowOf(b) \in VRegs /\ HighOf(b) \in VRegs /\ HighOf(b) \in VSources
  BY PairParts
<1>5. HighOf(b) # lo
  <2>1. lo.n = d.n /\ HighOf(b).n = b.n + 1  BY PairParts
  <2> HIDE DEF lo
  <2> QED  BY <2>1
<1>6. n % W = n /\ K(n) \in VSources  BY ShortCount
<1>7. "v_lshrrev_b32" \in Bins  BY BinsAndTris
<1>8. /\ Wrote(w, u, lo)
      /\ \A k \in Active(w) : VGet(u, k, lo) = AlignBit(VGet(w, k, LowOf(b)), VGet(w, k, HighOf(b)), n)
  BY <1>4, AcrossWrites
<1> HIDE DEF u
<1>9. u \in VState /\ Active(u) = Active(w)  BY <1>4, <1>8, ReadsApart DEF Wrote
<1>10. \A k \in Lane : VGet(u, k, HighOf(b)) = VGet(w, k, HighOf(b))  BY <1>4, <1>5, <1>8, OthersStay
<1>11. /\ Wrote(u, z, hi)
       /\ \A k \in Active(u) : VGet(z, k, hi) = Mask(BinValue("v_lshrrev_b32", VGet(u, k, K(n)), VGet(u, k, HighOf(b))))
  BY <1>4, <1>6, <1>7, <1>9, BinFirst
<1> HIDE DEF z
<1>12. /\ \A k \in Lane : VGet(z, k, lo) = VGet(u, k, lo)
       /\ \A k \in Lane \ Active(w) : VGetPair(z, k, d) = VGetPair(w, k, d)
  BY <1>8, <1>11, PairInTwo
<1>13. ASSUME NEW k \in Active(w)
       PROVE  /\ f[k] \in Int /\ VGet(z, k, lo) = Mask(f[k]) /\ VGet(z, k, hi) = Mask(Shr(f[k], W))
  <2> DEFINE x == VGet(w, k, LowOf(b))
             y == VGet(w, k, HighOf(b))
             p == Pair(x, y)
             v == Shr(p, n)
  <2>1. x \in Word /\ y \in Word /\ VGetPair(w, k, b) = p /\ k \in Lane  BY PairRead, ActiveLanes
  <2>2. f[k] = Shr(Mask2(p), n)  BY <2>1
  <2>3. VGet(z, k, lo) = AlignBit(x, y, n)  BY <1>8, <1>12, <2>1
  <2>4. VGet(z, k, hi) = Mask(BinValue("v_lshrrev_b32", n, y))  BY <1>9, <1>10, <1>11, <2>1, LiteralReads
  <2> HIDE DEF x, y, f
  <2>5. BinValue("v_lshrrev_b32", n, y) = Shr(y, n)  BY <1>6, BinIs
  <2>6. AlignBit(x, y, n) = Mask(v) /\ Mask(Shr(y, n)) = Mask(Shr(v, W)) /\ v \in Int  BY <2>1, ShiftedPair
  <2>7. Mask2(p) = p  BY <2>1, WordsOfPair
  <2>8. f[k] = v  BY <2>2, <2>7
  <2> HIDE DEF v
  <2> QED  BY <2>3, <2>4, <2>5, <2>6, <2>8
<1>14. DOMAIN f = Active(w) /\ \A k \in Active(w) : f[k] \in Int  BY <1>13
<1>15. VResult(l.one, w).v = VSet(w, d, f).v  BY <1>3
<1> HIDE DEF f
<1> QED  BY <1>2, <1>12, <1>13, <1>14, <1>15, LawOfPair

\* The shifts of pairs are shifts of words and alignments.
LEMMA VShiftsPairHolds ==
  ASSUME NEW w \in VState, NEW l, VShiftsPair(l)
  PROVE  VLawful(l, w)
<1> DEFINE i == l.one
           d == i.d
           b == i.b
<1>1. d \in VPairs /\ b \in VPairs  BY DEF VShiftsPair
<1>2. ASSUME NEW n \in 1 .. W - 1, i.op = "v_lshlrev_b64", i.a = K(n), d.n \notin b.n .. b.n + 1,
             l.many = <<To("v_lshlrev_b32", LowOf(d), K(n), LowOf(b), Null),
                        To("v_alignbit_b32", HighOf(d), LowOf(b), HighOf(b), K(W - n))>>
      PROVE  VLawful(l, w)
  BY <1>1, <1>2, WidePairUp
<1>3. ASSUME NEW n \in 0 .. W - 1, i.op = "v_lshrrev_b64", i.a = K(n), d.n # b.n + 1,
             l.many = <<To("v_alignbit_b32", LowOf(d), LowOf(b), HighOf(b), K(n)),
                        To("v_lshrrev_b32", HighOf(d), K(n), HighOf(b), Null)>>
      PROVE  VLawful(l, w)
  BY <1>1, <1>3, WidePairDown
<1> QED  BY <1>2, <1>3 DEF VShiftsPair

\* The number v_mad_u64_u32 and v_mad_i64_i32 leave in a lane, cut to two words.
MadFactor(op, x) == IF op = "v_mad_i64_i32" THEN Signed(x) ELSE Mask(x)
MadValue(i, w, k) ==
  Mask2(MadFactor(i.op, VGet(w, k, i.a)) * MadFactor(i.op, VGet(w, k, i.b)) + VGetPair(w, k, i.c))

\* The wide products write their value to a pair, in the active lanes.
LEMMA MadWrites ==
  ASSUME NEW w \in VState, NEW i, i.op \in {"v_mad_u64_u32", "v_mad_i64_i32"}, i.d \in VPairs,
         i.a \in VSources, i.b \in VSources, i.c \in VSources \cup VPairs \cup Pairs,
         NEW f, f = [k \in Active(w) |-> MadValue(i, w, k)]
  PROVE  /\ VResult(i, w).v = VSet(w, i.d, f).v
         /\ DOMAIN f = Active(w) /\ \A k \in Active(w) : f[k] = MadValue(i, w, k) /\ f[k] \in Int
<1>1. ASSUME NEW k \in Active(w) PROVE MadValue(i, w, k) \in Int
  <2> DEFINE x == MadFactor(i.op, VGet(w, k, i.a))
             y == MadFactor(i.op, VGet(w, k, i.b))
             c == VGetPair(w, k, i.c)
  <2>1. VGet(w, k, i.a) \in Int /\ VGet(w, k, i.b) \in Int /\ c \in Int  BY ActiveLanes, VGetType, VGetPairType
  <2>2. x \in Int /\ y \in Int  BY <2>1, LowTypes DEF MadFactor
  <2>3. MadValue(i, w, k) = Mask2(x * y + c)  BY DEF MadValue
  <2> HIDE DEF x, y, c
  <2> DEFINE q == x * y
  <2>4. q \in Int  BY <2>2, Products
  <2> HIDE DEF q
  <2>5. q + c \in Int  BY <2>1, <2>4
  <2> DEFINE e == q + c
  <2>6. e \in Int /\ MadValue(i, w, k) = Mask2(e)  BY <2>3, <2>5 DEF q
  <2> HIDE DEF e
  <2> QED  BY <2>6, Mask2Type
<1>2. DOMAIN f = Active(w) /\ \A k \in Active(w) : f[k] = MadValue(i, w, k)  OBVIOUS
<1> DEFINE y == VSet(w, i.d, f)
<1>3. y \in VState
  <2>1. i.d \in VRegs \cup VPairs /\ \A k \in Active(w) : f[k] \in Int  BY <1>1, <1>2
  <2> QED  BY <1>2, <2>1, LanesType
<1>4. VResult(i, w) = IF i.out.t = "vcc" /\ Active(w) # {} THEN [y EXCEPT !.vcc = 0] ELSE y
  BY VDoesMore DEF WideMad, MadValue, MadFactor
<1> HIDE DEF y
<1>5. [y EXCEPT !.vcc = 0].v = y.v  BY <1>3 DEF VState
<1>6. VResult(i, w).v = y.v  BY <1>4, <1>5
<1> QED  BY <1>1, <1>2, <1>6 DEF y

\* The product of two words fits a pair.
LEMMA ProductFits ==
  ASSUME NEW x \in Word, NEW y \in Word
  PROVE  x * y \in DoubleWord /\ x * y \in Int /\ Mask2(x * y) = x * y
<1>1. x \in Nat /\ y \in Nat /\ y <= M /\ M \in Nat /\ 0 \in Word  BY MType DEF Word, Top
<1>2. \A a, b, c \in Nat : b <= c => a * b <= a * c
  <2> SUFFICES ASSUME NEW a \in Nat, NEW b \in Nat, NEW c \in Nat, b <= c PROVE a * b <= a * c  OBVIOUS
  <2>1. c - b \in Nat /\ a * (b + (c - b)) = a * b + a * (c - b)  BY Distributes
  <2>2. b + (c - b) = c  OBVIOUS
  <2>3. a * (c - b) \in Nat /\ a * b \in Nat  BY <2>1
  <2> QED  BY <2>1, <2>2, <2>3
<1>3. x * M + 0 \in 0 .. M * M - 1  BY <1>1, PairRange
<1> DEFINE a == x * y
           b == x * M
           m == M * M
<1>4. a \in Nat /\ a <= b /\ b \in Nat /\ m \in Nat  BY <1>1, <1>2
<1>5. b + 0 \in 0 .. m - 1 /\ DoubleWord = 0 .. m - 1  BY <1>3 DEF DoubleWord
<1> HIDE DEF a, b, m
<1>6. a \in DoubleWord  BY <1>4, <1>5
<1>7. a \in Int /\ Mask2(a) = a  BY <1>4, <1>6, DoubleWordFits
<1> QED  BY <1>6, <1>7 DEF a

\* The low word of a product is that of the numbers, the high word what is left.
LEMMA ProductWords ==
  ASSUME NEW x \in Int, NEW y \in Int
  PROVE  LET p == Mask(x) * Mask(y)
         IN  /\ p \in Int /\ Mask2(p) = p /\ Mask(x * y) = Mask(p)
             /\ Mask(p) \in Word /\ Shr(p, W) \in Word /\ p = M * Shr(p, W) + Mask(p)
             /\ Mask(Shr(p, W)) = Shr(p, W)
<1> DEFINE mx == Mask(x)
           my == Mask(y)
           p == mx * my
           h == Shr(p, W)
<1>1. mx \in Word /\ my \in Word /\ mx \in Int /\ my \in Int  BY MaskType
<1>2. Same(x, mx) /\ Same(y, my)  BY SameMask
<1> HIDE DEF mx, my
<1>3. p \in DoubleWord /\ p \in Int /\ Mask2(p) = p  BY <1>1, ProductFits
<1>4. Mask(x * y) = Mask(p)
  <2>1. Same(x * y, mx * my)  BY <1>1, <1>2, SameProduct
  <2>2. x * y \in Int  BY Products
  <2> QED  BY <1>3, <2>1, <2>2, MaskSame
<1>5. M \in Nat \ {0}  BY MType
<1>6. p \in 0 .. M * M - 1  BY <1>3 DEF DoubleWord
<1> HIDE DEF p
<1>7. h = p \div M /\ Mask(p) = p % M  BY DEF Shr, Mask, M
<1>8. p = M * h + Mask(p) /\ Mask(p) \in Word
  <2>1. p = M * (p \div M) + (p % M)  BY <1>3, <1>5, Division
  <2> QED  BY <1>3, <1>7, <2>1, MaskType
<1>9. h \in 0 .. M - 1
  <2>1. p \in Nat /\ p < M * M
    <3> DEFINE m == M * M
    <3>1. m \in Int /\ p \in 0 .. m - 1  BY <1>5, <1>6, Products
    <3> HIDE DEF m
    <3>2. p \in Nat /\ p < m  BY <1>3, <3>1
    <3> QED  BY <3>2 DEF m
  <2>2. M \in Nat  BY <1>5
  <2>3. p \div M \in 0 .. M - 1  BY <1>5, <2>1, <2>2, SmallQuotient
  <2> QED  BY <1>7, <2>3
<1>10. h \in Word  BY <1>9 DEF Word, Top
<1>11. Mask(h) = h  BY <1>10, MaskOfWord
<1> QED  BY <1>3, <1>4, <1>8, <1>10, <1>11 DEF p, h, mx, my

\* The literals 0 and 1 and null are sources.
LEMMA SmallLiterals ==
  /\ K(0) \in VSources /\ K(1) \in VSources /\ Null \in VSources
  /\ \A w, k : VGetPair(w, k, K(0)) = 0
<1>1. 0 \in 0 .. W - 1 /\ 1 \in 0 .. W - 1
  BY WidthAssumption
<1>2. K(0) \in VSources /\ K(1) \in VSources  BY <1>1, ShortCount
<1>3. Null \in VSources  BY DEF VSources, Shared
<1>4. K(0).t = "lit"  BY DEF K
<1>5. \A w, k : VGetPair(w, k, K(0)) = VGet(w, k, K(0))  BY <1>4 DEF VGetPair
<1> QED  BY <1>2, <1>3, <1>5, LiteralReads

\* A product of two words.
LEMMA WideProduct ==
  ASSUME NEW w \in VState, NEW l, NEW d \in VPairs, l.one.d = d, l.one.op = "v_mad_u64_u32",
         NEW a \in VSources, l.one.a = a, NEW b \in VSources, l.one.b = b, l.one.c = K(0),
         Apart(a, LowOf(d)), Apart(b, LowOf(d)),
         l.many = <<To("v_mul_lo_u32", LowOf(d), a, b, Null), To("v_mul_hi_u32", HighOf(d), a, b, Null)>>
  PROVE  VLawful(l, w)
<1> DEFINE i == l.one
           lo == LowOf(d)
           hi == HighOf(d)
           u == VResult(To("v_mul_lo_u32", lo, a, b, Null), w)
           z == VResult(To("v_mul_hi_u32", hi, a, b, Null), u)
           f == [k \in Active(w) |-> MadValue(i, w, k)]
<1>1. VRun(l.many, w) = z  BY VRunOfTwo
<1>2. lo \in VRegs /\ hi \in VRegs  BY PairParts
<1>3. /\ VResult(i, w).v = VSet(w, i.d, f).v
      /\ DOMAIN f = Active(w) /\ \A k \in Active(w) : f[k] = MadValue(i, w, k) /\ f[k] \in Int
  BY SmallLiterals, MadWrites
<1> HIDE DEF f
<1>4. "v_mul_lo_u32" \in Bins /\ "v_mul_hi_u32" \in Bins  BY BinsAndTris
<1>5. /\ Wrote(w, u, lo)
      /\ \A k \in Active(w) : VGet(u, k, lo) = Mask(BinValue("v_mul_lo_u32", VGet(w, k, a), VGet(w, k, b)))
  BY <1>2, <1>4, BinFirst
<1> HIDE DEF u
<1>6. u \in VState /\ Active(u) = Active(w)  BY <1>2, <1>5, ReadsApart DEF Wrote
<1>7. \A k \in Lane : VGet(u, k, a) = VGet(w, k, a) /\ VGet(u, k, b) = VGet(w, k, b)  BY <1>2, <1>5, ReadsApart
<1>8. /\ Wrote(u, z, hi)
      /\ \A k \in Active(u) : VGet(z, k, hi) = Mask(BinValue("v_mul_hi_u32", VGet(u, k, a), VGet(u, k, b)))
  BY <1>2, <1>4, <1>6, BinFirst
<1> HIDE DEF z
<1>9. /\ \A k \in Lane : VGet(z, k, lo) = VGet(u, k, lo)
      /\ \A k \in Lane \ Active(w) : VGetPair(z, k, d) = VGetPair(w, k, d)
  BY <1>5, <1>8, PairInTwo
<1>10. ASSUME NEW k \in Active(w)
       PROVE  VGet(z, k, lo) = Mask(f[k]) /\ VGet(z, k, hi) = Mask(Shr(f[k], W))
  <2> DEFINE x == VGet(w, k, a)
             y == VGet(w, k, b)
             p == Mask(x) * Mask(y)
  <2>1. x \in Int /\ y \in Int /\ k \in Lane  BY SourceInts, ActiveLanes
  <2>2. f[k] = Mask2(p + 0)
    <3>1. MadValue(i, w, k) = Mask2(Mask(x) * Mask(y) + 0)  BY SmallLiterals DEF MadValue, MadFactor
    <3> QED  BY <1>3, <3>1
  <2>3. VGet(z, k, lo) = Mask(BinValue("v_mul_lo_u32", x, y))  BY <1>5, <1>9, <2>1
  <2>4. VGet(z, k, hi) = Mask(BinValue("v_mul_hi_u32", x, y))  BY <1>6, <1>7, <1>8, <2>1
  <2> HIDE DEF x, y
  <2>5. p \in Int /\ Mask2(p) = p /\ Mask(x * y) = Mask(p)  BY <2>1, ProductWords
  <2>6. BinValue("v_mul_lo_u32", x, y) = x * y /\ BinValue("v_mul_hi_u32", x, y) = Shr(p, W)  BY BinIsCore8
  <2> HIDE DEF p
  <2>7. f[k] = p
    <3>1. p + 0 = p  BY <2>5
    <3> QED  BY <2>2, <2>5, <3>1
  <2> QED  BY <2>3, <2>4, <2>5, <2>6, <2>7
<1> QED  BY <1>1, <1>3, <1>9, <1>10, LawOfPair

\* A word as a pair, its sign in every bit of the upper one.
LEMMA SignWord ==
  ASSUME NEW x \in Int
  PROVE  /\ Signed(x) \in Int /\ Mask(Mask2(Signed(x))) = Mask(x)
         /\ Mask(Shr(Mask2(Signed(x)), W)) = Mask(Shr(Signed(x), W - 1))
<1> DEFINE s == Signed(x)
           q == IF s < 0 THEN -1 ELSE 0
<1>1. s \in -Sign .. Sign - 1 /\ Mask(s) = Mask(x)  BY SignedRange
<1>2. Sign \in Nat /\ Sign > 0 /\ M = 2 * Sign /\ Pow2[W - 1] = Sign  BY Constants, SignIsPower
<1> HIDE DEF s
<1>3. s \in Int /\ q \in Int /\ s - Sign * q \in 0 .. Sign - 1 /\ s - M * q \in 0 .. M - 1
  <2> DEFINE g == Sign
             m == M
  <2>1. g \in Nat /\ g > 0 /\ m = 2 * g /\ s \in -g .. g - 1  BY <1>1, <1>2
  <2> HIDE DEF g, m
  <2>2. CASE s < 0
    <3>1. q = -1  BY <2>2
    <3>2. s - g * q = s + g /\ s - m * q = s + m  BY <2>1, <3>1
    <3> QED  BY <2>1, <2>2, <3>1, <3>2 DEF g, m
  <2>3. CASE ~(s < 0)
    <3>1. q = 0  BY <2>3
    <3>2. s - g * q = s /\ s - m * q = s  BY <2>1, <3>1
    <3> QED  BY <2>1, <2>3, <3>1, <3>2 DEF g, m
  <2> QED  BY <2>2, <2>3
<1> HIDE DEF q
<1>4. s \div Sign = q
  <2> DEFINE r == s - Sign * q
             g == Sign
  <2>1. g \in Nat \ {0} /\ r \in 0 .. g - 1  BY <1>2, <1>3
  <2>2. g * q + r = s
    <3> DEFINE e == g * q
    <3>1. e \in Int  BY <1>3, <2>1, Products
    <3>2. r = s - e  OBVIOUS
    <3> HIDE DEF e, r
    <3>3. e + r = s  BY <1>3, <3>1, <3>2
    <3> QED  BY <3>3 DEF e
  <2> HIDE DEF r, g
  <2>3. (g * q + r) \div g = q  BY <1>3, <2>1, Quotient
  <2> QED  BY <2>2, <2>3 DEF g
<1>5. s \div M = q
  <2> DEFINE r == s - M * q
             g == M
  <2>1. g \in Nat \ {0} /\ r \in 0 .. g - 1  BY <1>3, MType
  <2>2. g * q + r = s
    <3> DEFINE e == g * q
    <3>1. e \in Int  BY <1>3, <2>1, Products
    <3>2. r = s - e  OBVIOUS
    <3> HIDE DEF e, r
    <3>3. e + r = s  BY <1>3, <3>1, <3>2
    <3> QED  BY <3>3 DEF e
  <2> HIDE DEF r, g
  <2>3. (g * q + r) \div g = q  BY <1>3, <2>1, Quotient
  <2> QED  BY <2>2, <2>3 DEF g
<1>6. Shr(s, W - 1) = q /\ Shr(s, W) = q  BY <1>2, <1>4, <1>5 DEF Shr, M
<1>7. Mask(Mask2(s)) = Mask(s) /\ Mask(Shr(Mask2(s), W)) = Mask(Shr(s, W))  BY <1>3, WordsOfMask2
<1> QED  BY <1>1, <1>3, <1>6, <1>7 DEF s

\* A product with one, signed and wide, extends the sign.
LEMMA WideSign ==
  ASSUME NEW w \in VState, NEW l, NEW d \in VPairs, l.one.d = d, l.one.op = "v_mad_i64_i32",
         NEW a \in VSources, l.one.a = a, l.one.b = K(1), l.one.c = K(0), Apart(a, LowOf(d)),
         l.many = <<To("v_mov_b32", LowOf(d), a, Null, Null), To("v_ashrrev_i32", HighOf(d), K(W - 1), a, Null)>>
  PROVE  VLawful(l, w)
<1> DEFINE i == l.one
           lo == LowOf(d)
           hi == HighOf(d)
           u == VResult(To("v_mov_b32", lo, a, Null, Null), w)
           z == VResult(To("v_ashrrev_i32", hi, K(W - 1), a, Null), u)
           f == [k \in Active(w) |-> MadValue(i, w, k)]
<1>1. VRun(l.many, w) = z  BY VRunOfTwo
<1>2. lo \in VRegs /\ hi \in VRegs  BY PairParts
<1>3. /\ VResult(i, w).v = VSet(w, i.d, f).v
      /\ DOMAIN f = Active(w) /\ \A k \in Active(w) : f[k] = MadValue(i, w, k) /\ f[k] \in Int
  BY SmallLiterals, MadWrites
<1> HIDE DEF f
<1>4. "v_mov_b32" \in Bins /\ "v_ashrrev_i32" \in Bins  BY BinsAndTris
<1>5. W - 1 \in 0 .. W - 1  BY MType, VConstants
<1>6. (W - 1) % W = W - 1 /\ K(W - 1) \in VSources  BY <1>5, ShortCount
<1>7. /\ Wrote(w, u, lo)
      /\ \A k \in Active(w) : VGet(u, k, lo) = Mask(BinValue("v_mov_b32", VGet(w, k, a), VGet(w, k, Null)))
  BY <1>2, <1>4, BinFirst, SmallLiterals
<1> HIDE DEF u
<1>8. u \in VState /\ Active(u) = Active(w)  BY <1>2, <1>7, ReadsApart DEF Wrote
<1>9. \A k \in Lane : VGet(u, k, a) = VGet(w, k, a)  BY <1>2, <1>7, ReadsApart
<1>10. /\ Wrote(u, z, hi)
       /\ \A k \in Active(u) : VGet(z, k, hi) = Mask(BinValue("v_ashrrev_i32", VGet(u, k, K(W - 1)), VGet(u, k, a)))
  BY <1>2, <1>4, <1>6, <1>8, BinFirst
<1> HIDE DEF z
<1>11. /\ \A k \in Lane : VGet(z, k, lo) = VGet(u, k, lo)
       /\ \A k \in Lane \ Active(w) : VGetPair(z, k, d) = VGetPair(w, k, d)
  BY <1>7, <1>10, PairInTwo
<1>12. Signed(1) = 1
  <2>1. 1 \in -Sign .. Sign - 1
    <3>1. W - 2 \in Nat /\ (W - 2) + 1 = W - 1  BY WidthAssumption
    <3>2. Sign = 2 * Pow2[W - 2] /\ Pow2[W - 2] \in Nat /\ Pow2[W - 2] > 0  BY <3>1, PowStep, SignIsPower
    <3> QED  BY <3>2
  <2> QED  BY <2>1, SignedSmall
<1>13. ASSUME NEW k \in Active(w)
       PROVE  VGet(z, k, lo) = Mask(f[k]) /\ VGet(z, k, hi) = Mask(Shr(f[k], W))
  <2> DEFINE x == VGet(w, k, a)
  <2>1. x \in Int /\ k \in Lane  BY SourceInts, ActiveLanes
  <2>2. f[k] = Mask2(Signed(x) * 1 + 0)
    <3>1. MadValue(i, w, k) = Mask2(Signed(x) * Signed(1) + 0)  BY SmallLiterals, LiteralReads DEF MadValue, MadFactor
    <3> QED  BY <1>3, <1>12, <3>1
  <2>3. VGet(z, k, lo) = Mask(BinValue("v_mov_b32", x, VGet(w, k, Null)))  BY <1>7, <1>11, <2>1
  <2>4. VGet(z, k, hi) = Mask(BinValue("v_ashrrev_i32", W - 1, x))  BY <1>8, <1>9, <1>10, <2>1, LiteralReads
  <2> HIDE DEF x
  <2>5. BinValue("v_ashrrev_i32", W - 1, x) = Shr(Signed(x), W - 1)  BY <1>6, BinIs
  <2>6. \A y : BinValue("v_mov_b32", x, y) = x  BY BinIs
  <2>7. Signed(x) \in Int  BY <2>1, SignWord
  <2>8. f[k] = Mask2(Signed(x))  BY <2>2, <2>7
  <2> QED  BY <2>1, <2>3, <2>4, <2>5, <2>6, <2>8, SignWord
<1> QED  BY <1>1, <1>3, <1>11, <1>13, LawOfPair

-----------------------------------------------------------------------------
(* Instructions that leave a carry in VCC, beside the register they write. *)

Altered(w, y, d) == y \in VState /\ y.exec = w.exec /\ y.s = w.s /\ Keeps(w, y, d)

\* A write to a VGPR and VCC leaves every other register.
LEMMA AlteredReads ==
  ASSUME NEW w, NEW d \in VRegs, NEW y, Altered(w, y, d)
  PROVE  /\ Active(y) = Active(w)
         /\ \A k \in Lane : \A e \in VRegs : e # d => VGet(y, k, e) = VGet(w, k, e)
         /\ \A k \in Lane : \A e \in SRegs : VGet(y, k, e) = VGet(w, k, e)
         /\ \A k \in Lane \ Active(w) : VGet(y, k, d) = VGet(w, k, d)
<1>1. Active(y) = Active(w)  BY DEF Altered, Active
<1>2. \A e \in VRegs : e.t = "v" /\ e.n \in Vgpr /\ (e # d => e.n # d.n)  BY DEF VRegs
<1>3. \A e \in SRegs : e.t = "s"  BY DEF SRegs
<1>4. \A k \in Lane : \A e \in VRegs : e # d => VGet(y, k, e) = VGet(w, k, e)  BY <1>2 DEF Altered, Keeps, VGet
<1>5. \A k \in Lane : \A e \in SRegs : VGet(y, k, e) = VGet(w, k, e)  BY <1>3 DEF Altered, VGet
<1>6. \A k \in Lane \ Active(w) : VGet(y, k, d) = VGet(w, k, d)  BY <1>2 DEF Altered, Keeps, VGet
<1> QED  BY <1>1, <1>4, <1>5, <1>6

\* Such a write is read back in the active lanes.
LEMMA AltersWithVcc ==
  ASSUME NEW w \in VState, NEW d \in VRegs, NEW f, DOMAIN f = Active(w), \A k \in Active(w) : f[k] \in Int,
         NEW m \in Word, NEW z, z = [VSet(w, d, f) EXCEPT !.vcc = m]
  PROVE  /\ Altered(w, z, d) /\ z.vcc = m
         /\ \A k \in Active(w) : VGet(z, k, d) = Mask(f[k])
<1> DEFINE y == VSet(w, d, f)
<1>1. Wrote(w, y, d) /\ \A k \in Active(w) : VGet(y, k, d) = Mask(f[k])  BY SetsRegister
<1>2. z = [y EXCEPT !.vcc = m]  OBVIOUS
<1> HIDE DEF y
<1>3. y \in VState  BY <1>1 DEF Wrote
<1>4. z \in VState /\ z.v = y.v /\ z.exec = y.exec /\ z.s = y.s /\ z.vcc = m  BY <1>2, <1>3 DEF VState
<1>5. Altered(w, z, d)  BY <1>1, <1>4 DEF Altered, Wrote, Steady, Keeps
<1>6. \A k : VGet(z, k, d) = VGet(y, k, d)
  <2>1. d.t = "v"  BY DEF VRegs
  <2> QED  BY <1>4, <2>1 DEF VGet
<1> QED  BY <1>1, <1>4, <1>5, <1>6

\* The fields of a vector instruction.
LEMMA VIs ==
  \A op, d, out, a, b, c :
    /\ V(op, d, out, a, b, c).op = op /\ V(op, d, out, a, b, c).d = d /\ V(op, d, out, a, b, c).out = out
    /\ V(op, d, out, a, b, c).a = a /\ V(op, d, out, a, b, c).b = b /\ V(op, d, out, a, b, c).c = c
BY DEF V

\* A lane reads its bit of VCC, as an operand and as a carry.
LEMMA VccIs ==
  /\ VCC.t = "vcc"
  /\ \A w, k : VGet(w, k, VCC) = Bit(w.vcc, k) /\ CarryIn(w, k, VCC) = Bit(w.vcc, k)
BY DEF VCC, VGet, CarryIn

\* A bit of a mask that is written as a whole, and of one that is merged.
LEMMA MaskBits ==
  ASSUME NEW B, NEW lanes, NEW old, NEW k \in Lane
  PROVE  /\ OfOnes(B) \in Word /\ MergeMask(old, lanes, B) \in Word
         /\ Bit(OfOnes(B), k) = IF k \in B THEN 1 ELSE 0
         /\ k \in lanes => Bit(MergeMask(old, lanes, B), k) = IF k \in B THEN 1 ELSE 0
<1>1. k \in 0 .. W - 1  BY VConstants
<1>2. \A C : OfOnes(C) \in Word /\ Bit(OfOnes(C), k) = IF k \in C THEN 1 ELSE 0  BY <1>1, OfOnesType, BitOfSum
<1>3. MergeMask(old, lanes, B) = OfOnes((Ones(old) \ lanes) \cup (B \cap lanes))  BY DEF MergeMask
<1>4. k \in lanes => (k \in (Ones(old) \ lanes) \cup (B \cap lanes) <=> k \in B)  OBVIOUS
<1> QED  BY <1>2, <1>3, <1>4

\* The addition that leaves its carries in VCC.
LEMMA AddsOut ==
  ASSUME NEW w \in VState, NEW d \in VRegs, NEW a \in VSources, NEW b \in VSources,
         NEW c, NEW z, z = VResult(V("v_add_co_u32", d, VCC, a, b, c), w)
  PROVE  /\ Altered(w, z, d)
         /\ \A k \in Active(w) :
              /\ VGet(z, k, d) = Mask(Mask(VGet(w, k, a)) + Mask(VGet(w, k, b)))
              /\ Bit(z.vcc, k) = IF Mask(VGet(w, k, a)) + Mask(VGet(w, k, b)) > Top THEN 1 ELSE 0
<1> DEFINE i == V("v_add_co_u32", d, VCC, a, b, c)
           sum(k) == Mask(VGet(w, k, a)) + Mask(VGet(w, k, b))
           f == [k \in Active(w) |-> sum(k)]
           C == {k \in Active(w) : sum(k) > Top}
           m == OfOnes(C)
<1>1. i.op = "v_add_co_u32" /\ i.d = d /\ i.out = VCC /\ i.a = a /\ i.b = b  BY VIs
<1>2. z = AddCo(i, w)
  <2>1. z = VResult(i, w)  OBVIOUS
  <2> HIDE DEF i
  <2> QED  BY <1>1, <2>1, VDoes
<1> HIDE DEF i
<1>3. AddCo(i, w) = SetMask(VSet(w, d, f), VCC, m)  BY <1>1 DEF AddCo
<1>4. SetMask(VSet(w, d, f), VCC, m) = [VSet(w, d, f) EXCEPT !.vcc = m]  BY VccIs DEF SetMask
<1>5. ASSUME NEW k \in Active(w) PROVE sum(k) \in Int
  <2>1. VGet(w, k, a) \in Int /\ VGet(w, k, b) \in Int  BY SourceInts
  <2>2. Mask(VGet(w, k, a)) \in Int /\ Mask(VGet(w, k, b)) \in Int  BY <2>1, LowTypes
  <2> QED  BY <2>2
<1>6. DOMAIN f = Active(w) /\ \A k \in Active(w) : f[k] = sum(k) /\ f[k] \in Int  BY <1>5
<1>7. m \in Word /\ \A k \in Active(w) : Bit(m, k) = IF sum(k) > Top THEN 1 ELSE 0
  <2>1. \A k \in Lane : OfOnes(C) \in Word /\ Bit(OfOnes(C), k) = IF k \in C THEN 1 ELSE 0  BY MaskBits, Zenon
  <2>2. \A k \in Active(w) : k \in C <=> sum(k) > Top  OBVIOUS
  <2>3. 0 \in Lane /\ Active(w) \subseteq Lane  BY VConstants, ActiveLanes
  <2> HIDE DEF C, sum
  <2> QED  BY <2>1, <2>2, <2>3
<1> HIDE DEF f, m
<1>8. z = [VSet(w, d, f) EXCEPT !.vcc = m]  BY <1>2, <1>3, <1>4
<1>9. Altered(w, z, d) /\ z.vcc = m /\ \A k \in Active(w) : VGet(z, k, d) = Mask(f[k])
  BY <1>6, <1>7, <1>8, AltersWithVcc
<1> QED  BY <1>6, <1>7, <1>9

\* The addition that takes its carries from VCC and leaves them there.
LEMMA AddsInAndOut ==
  ASSUME NEW w \in VState, NEW d \in VRegs, NEW a \in VSources, NEW b \in VSources,
         NEW z, z = VResult(V("v_add_co_ci_u32", d, VCC, a, b, VCC), w)
  PROVE  /\ Altered(w, z, d)
         /\ \A k \in Active(w) :
              /\ VGet(z, k, d) = Mask(Mask(VGet(w, k, a)) + Mask(VGet(w, k, b)) + Bit(w.vcc, k))
              /\ Bit(z.vcc, k) = IF Mask(VGet(w, k, a)) + Mask(VGet(w, k, b)) + Bit(w.vcc, k) > Top THEN 1 ELSE 0
<1> DEFINE i == V("v_add_co_ci_u32", d, VCC, a, b, VCC)
           sum(k) == Mask(VGet(w, k, a)) + Mask(VGet(w, k, b)) + Bit(w.vcc, k)
           f == [k \in Active(w) |-> sum(k)]
           C == {k \in Active(w) : sum(k) > Top}
           m == MergeMask(w.vcc, Active(w), C)
<1>1. i.op = "v_add_co_ci_u32" /\ i.d = d /\ i.out = VCC /\ i.a = a /\ i.b = b /\ i.c = VCC  BY VIs
<1>2. z = AddCoCi(i, w)
  <2>1. z = VResult(i, w)  OBVIOUS
  <2> HIDE DEF i
  <2> QED  BY <1>1, <2>1, VDoes
<1> HIDE DEF i
<1>3. AddCoCi(i, w) = [VSet(w, d, f) EXCEPT !.vcc = m]  BY <1>1, VccIs DEF AddCoCi
<1>5. ASSUME NEW k \in Active(w) PROVE sum(k) \in Int
  <2>1. VGet(w, k, a) \in Int /\ VGet(w, k, b) \in Int  BY SourceInts
  <2>2. Mask(VGet(w, k, a)) \in Int /\ Mask(VGet(w, k, b)) \in Int  BY <2>1, LowTypes
  <2>3. VCC \in VSources  BY DEF VSources
  <2>4. Bit(w.vcc, k) \in Int  BY <2>3, SourceInts, VccIs
  <2> QED  BY <2>2, <2>4
<1>6. DOMAIN f = Active(w) /\ \A k \in Active(w) : f[k] = sum(k) /\ f[k] \in Int  BY <1>5
<1>7. m \in Word /\ \A k \in Active(w) : Bit(m, k) = IF sum(k) > Top THEN 1 ELSE 0
  <2>1. \A k \in Lane : m \in Word /\ (k \in Active(w) => Bit(m, k) = IF k \in C THEN 1 ELSE 0)
    <3> HIDE DEF C
    <3> QED  BY MaskBits
  <2>2. \A k \in Active(w) : k \in C <=> sum(k) > Top  OBVIOUS
  <2>3. 0 \in Lane /\ Active(w) \subseteq Lane  BY VConstants, ActiveLanes
  <2> HIDE DEF C, sum, m
  <2> QED  BY <2>1, <2>2, <2>3
<1> HIDE DEF f, m
<1>8. z = [VSet(w, d, f) EXCEPT !.vcc = m]  BY <1>2, <1>3
<1>9. Altered(w, z, d) /\ z.vcc = m /\ \A k \in Active(w) : VGet(z, k, d) = Mask(f[k])
  BY <1>6, <1>7, <1>8, AltersWithVcc
<1> QED  BY <1>6, <1>7, <1>9

\* The subtraction that does so with borrows.
LEMMA SubtractsInAndOut ==
  ASSUME NEW w \in VState, NEW d \in VRegs, NEW a \in VSources, NEW b \in VSources,
         NEW z, z = VResult(V("v_subrev_co_ci_u32", d, VCC, a, b, VCC), w)
  PROVE  /\ Altered(w, z, d)
         /\ \A k \in Active(w) :
              /\ VGet(z, k, d) = Mask(Mask(VGet(w, k, b)) - Mask(VGet(w, k, a)) - Bit(w.vcc, k))
              /\ Bit(z.vcc, k) = IF Mask(VGet(w, k, b)) - Mask(VGet(w, k, a)) - Bit(w.vcc, k) < 0 THEN 1 ELSE 0
<1> DEFINE i == V("v_subrev_co_ci_u32", d, VCC, a, b, VCC)
           diff(k) == Mask(VGet(w, k, b)) - Mask(VGet(w, k, a)) - (Bit(w.vcc, k) % 2)
           f == [k \in Active(w) |-> diff(k)]
           C == {k \in Active(w) : diff(k) < 0}
           m == MergeMask(w.vcc, Active(w), C)
<1>1. i.op = "v_subrev_co_ci_u32" /\ i.d = d /\ i.out = VCC /\ i.a = a /\ i.b = b /\ i.c = VCC  BY VIs
<1>2. z = SubRevCoCi(i, w)
  <2>1. z = VResult(i, w)  OBVIOUS
  <2> HIDE DEF i
  <2> QED  BY <1>1, <2>1, VDoes
<1> HIDE DEF i
<1>4. \A k \in Active(w) : Bit(w.vcc, k) \in {0, 1} /\ Bit(w.vcc, k) % 2 = Bit(w.vcc, k)
  <2>1. VCC \in VSources  BY DEF VSources
  <2>2. \A k \in Active(w) : Bit(w.vcc, k) \in {0, 1}  BY <2>1, CarryInType, ActiveLanes, VccIs
  <2>3. \A x \in {0, 1} : x % 2 = x  OBVIOUS
  <2> QED  BY <2>2, <2>3
<1>5. ASSUME NEW k \in Active(w) PROVE diff(k) \in Int
  <2>1. VGet(w, k, a) \in Int /\ VGet(w, k, b) \in Int  BY SourceInts
  <2>2. Mask(VGet(w, k, a)) \in Int /\ Mask(VGet(w, k, b)) \in Int  BY <2>1, LowTypes
  <2>3. Bit(w.vcc, k) % 2 \in Int  BY <1>4
  <2> QED  BY <2>2, <2>3
<1>6. DOMAIN f = Active(w) /\ \A k \in Active(w) : f[k] = diff(k) /\ f[k] \in Int  BY <1>5
<1>7. m \in Word /\ \A k \in Active(w) : Bit(m, k) = IF diff(k) < 0 THEN 1 ELSE 0
  <2>1. \A k \in Lane : m \in Word /\ (k \in Active(w) => Bit(m, k) = IF k \in C THEN 1 ELSE 0)
    <3> HIDE DEF C
    <3> QED  BY MaskBits
  <2>2. \A k \in Active(w) : k \in C <=> diff(k) < 0  OBVIOUS
  <2>3. 0 \in Lane /\ Active(w) \subseteq Lane  BY VConstants, ActiveLanes
  <2> HIDE DEF C, diff, m
  <2> QED  BY <2>1, <2>2, <2>3
<1>8. VSet(w, d, f) \in VState /\ VSet(w, d, f).vcc = w.vcc
  <2>1. d \in VRegs \cup VPairs /\ \A k \in Lane : k \in DOMAIN f => f[k] \in Int  BY <1>6
  <2> HIDE DEF f
  <2> QED  BY <2>1, VSetType
<1>9. SubRevCoCi(i, w) = [VSet(w, d, f) EXCEPT !.vcc = m]  BY <1>1, <1>8, VccIs DEF SubRevCoCi
<1> HIDE DEF f, m
<1>10. z = [VSet(w, d, f) EXCEPT !.vcc = m]  BY <1>2, <1>9
<1>11. Altered(w, z, d) /\ z.vcc = m /\ \A k \in Active(w) : VGet(z, k, d) = Mask(f[k])
  BY <1>6, <1>7, <1>10, AltersWithVcc
<1> QED  BY <1>4, <1>6, <1>7, <1>11

\* A word with or without a carry out of it.
LEMMA CarryOfWord ==
  ASSUME NEW s \in 0 .. Top + Top + 1, NEW c, c = IF s > Top THEN 1 ELSE 0
  PROVE  s = M * c + Mask(s) /\ c \in {0, 1} /\ Mask(s) \in Word /\ s \in Int
<1>1. M \in Nat \ {0} /\ Top = M - 1  BY MType DEF Top
<1>2. s \in Int  BY <1>1
<1>3. s \div M = c  BY CarryBit
<1>4. s = M * (s \div M) + (s % M)  BY <1>1, <1>2, Division
<1>5. Mask(s) = s % M  BY DEF Mask
<1>6. Mask(s) \in Word  BY <1>2, MaskType
<1> QED  BY <1>2, <1>3, <1>4, <1>5, <1>6

\* The sum of two pairs, the upper words with the carry of the lower ones.
LEMMA CarriesOver ==
  ASSUME NEW x0 \in Word, NEW x1 \in Word, NEW y0 \in Word, NEW y1 \in Word,
         NEW s, s = x0 + y0, NEW c, c = IF s > Top THEN 1 ELSE 0,
         NEW t, t = x1 + y1 + c, NEW e, e = IF t > Top THEN 1 ELSE 0
  PROVE  /\ Pair(Mask(s), Mask(t)) + M * M * e = Pair(x0, x1) + Pair(y0, y1)
         /\ Mask(s) \in Word /\ Mask(t) \in Word /\ c \in {0, 1} /\ e \in {0, 1}
<1>1. M \in Nat \ {0} /\ M \in Int /\ Top = M - 1 /\ Top \in Nat  BY MType DEF Top
<1>2. x0 \in Int /\ x1 \in Int /\ y0 \in Int /\ y1 \in Int  BY MaskOfWord
<1>3. s \in 0 .. Top + Top + 1  BY <1>1 DEF Word
<1>4. s = M * c + Mask(s) /\ c \in {0, 1} /\ Mask(s) \in Word  BY <1>3, CarryOfWord
<1>5. t \in 0 .. Top + Top + 1  BY <1>1, <1>4 DEF Word
<1>6. t = M * e + Mask(t) /\ e \in {0, 1} /\ Mask(t) \in Word  BY <1>5, CarryOfWord
<1> DEFINE a == Mask(s)
           b == Mask(t)
<1>7. a \in Int /\ b \in Int /\ c \in Int /\ e \in Int /\ s = M * c + a /\ t = M * e + b
      /\ s = x0 + y0 /\ t = x1 + y1 + c
  BY <1>4, <1>6, MaskOfWord
<1>8. Pair(a, b) = b * M + a /\ Pair(x0, x1) = x1 * M + x0 /\ Pair(y0, y1) = y1 * M + y0  BY DEF Pair
<1> HIDE DEF a, b
<1>9. (b * M + a) + M * M * e = (x1 * M + x0) + (y1 * M + y0)
  <2> DEFINE m == M
             mc == m * c
             me == m * e
             u == x1 + y1
  <2>0. m \in Int  BY <1>1
  <2> HIDE DEF m
  <2>1. mc \in Int /\ me \in Int  BY <1>7, <2>0, Products
  <2>2. s = mc + a /\ t = me + b  BY <1>7 DEF m
  <2>3. s = x0 + y0 /\ t = u + c /\ u \in Int  BY <1>2, <1>7
  <2>4. m * m * e = m * me  BY <1>7, <2>0, Associates
  <2> HIDE DEF mc, me
  <2>5. m * u = m * x1 + m * y1  BY <1>2, <2>0, Distributes
  <2> HIDE DEF u
  <2>6. m * (me + b) = m * me + m * b  BY <1>7, <2>0, <2>1, Distributes
  <2>7. m * (u + c) = m * u + m * c  BY <1>7, <2>0, <2>3, Distributes
  <2>8. m * me + m * b = m * x1 + m * y1 + mc
    <3>1. me + b = u + c  BY <2>2, <2>3
    <3>2. m * (me + b) = m * (u + c)  BY <3>1
    <3> QED  BY <2>5, <2>6, <2>7, <3>2, Zenon DEF mc
  <2>9. x1 * m = m * x1 /\ y1 * m = m * y1 /\ b * m = m * b
    <3>1. \A p, q \in Int : p * q = q * p  OBVIOUS
    <3> QED  BY <1>2, <1>7, <2>0, <3>1
  <2> DEFINE g == m * me
             h1 == m * x1
             h2 == m * y1
             h3 == m * b
  <2>10. g \in Int /\ h1 \in Int /\ h2 \in Int /\ h3 \in Int  BY <1>2, <1>7, <2>0, <2>1, Products
  <2>11. g + h3 = h1 + h2 + mc  BY <2>8
  <2>12. a \in Int /\ mc + a = x0 + y0  BY <1>7, <2>2, <2>3
  <2> HIDE DEF g, h1, h2, h3
  <2>13. (h3 + a) + g = (h1 + x0) + (h2 + y0)  BY <1>2, <2>1, <2>10, <2>11, <2>12
  <2> QED  BY <2>4, <2>9, <2>13 DEF g, h1, h2, h3, m
<1> QED  BY <1>4, <1>6, <1>8, <1>9 DEF a, b

\* The words of a sum of pairs: the low words, then the high words and the carry.
LEMMA WideSumParts ==
  ASSUME NEW lo \in Word, NEW ph \in Word, NEW c0 \in Word, NEW c1 \in Word,
         NEW p, p = Pair(lo, ph), NEW s, s = lo + c0, NEW c, c = IF s > Top THEN 1 ELSE 0,
         NEW t, t = ph + c1 + c
  PROVE  Mask(s) = Mask(Mask2(p + Pair(c0, c1))) /\ Mask(t) = Mask(Shr(Mask2(p + Pair(c0, c1)), W))
<1> DEFINE e == IF t > Top THEN 1 ELSE 0
           q == Pair(Mask(s), Mask(t))
           d == M * M
<1>5. /\ Pair(Mask(s), Mask(t)) + M * M * e = Pair(lo, ph) + Pair(c0, c1)
      /\ Mask(s) \in Word /\ Mask(t) \in Word /\ e \in {0, 1}
  BY CarriesOver
<1> HIDE DEF e
<1>6. q \in Int /\ Shr(q, W) = Mask(t) /\ Mask(q) = Mask(s)  BY <1>5, WordsOfPair
<1>7. q \in 0 .. d - 1
  <2>1. q = Mask(t) * M + Mask(s)  BY DEF Pair
  <2> QED  BY <1>5, <2>1, PairRange
<1>8. q + d * e = p + Pair(c0, c1)  BY <1>5
<1>9. d \in Nat \ {0}
  <2>1. \A m \in Nat : m > 1 => m * m \in Nat \ {0}  OBVIOUS
  <2> QED  BY <2>1, MType
<1> HIDE DEF q, d
<1>10. Mask2(p + Pair(c0, c1)) = q
  <2>1. e \in Int  BY <1>5
  <2>2. (d * e + q) % d = q  BY <1>7, <1>9, <2>1, Quotient
  <2>3. d * e + q = q + d * e
    <3>1. d * e \in Int  BY <1>9, <2>1, Products
    <3> DEFINE g == d * e
    <3>2. g \in Int  BY <3>1
    <3> HIDE DEF g
    <3>3. g + q = q + g  BY <1>6, <3>2
    <3> QED  BY <3>3 DEF g
  <2>4. Mask2(p + Pair(c0, c1)) = (p + Pair(c0, c1)) % d  BY DEF Mask2, d
  <2> QED  BY <1>8, <2>2, <2>3, <2>4
<1>11. Mask(Mask(t)) = Mask(t)  BY <1>5, MaskOfWord
<1> QED  BY <1>6, <1>10, <1>11

\* The same when one of the pairs is a product.
LEMMA WideSumWords ==
  ASSUME NEW x \in Int, NEW y \in Int, NEW c0 \in Word, NEW c1 \in Word,
         NEW p, p = Mask(x) * Mask(y), NEW s, s = Mask(p) + c0, NEW c, c = IF s > Top THEN 1 ELSE 0,
         NEW t, t = Shr(p, W) + c1 + c
  PROVE  Mask(s) = Mask(Mask2(p + Pair(c0, c1))) /\ Mask(t) = Mask(Shr(Mask2(p + Pair(c0, c1)), W))
<1>1. p \in Int /\ Mask(p) \in Word /\ Shr(p, W) \in Word /\ p = M * Shr(p, W) + Mask(p)  BY ProductWords
<1> DEFINE lo == Mask(p)
           ph == Shr(p, W)
<1>2. lo \in Word /\ ph \in Word /\ lo \in Int /\ ph \in Int /\ M \in Int  BY <1>1, MaskOfWord, MType
<1>3. p = Pair(lo, ph)
  <2>1. p = M * ph + lo  BY <1>1
  <2> HIDE DEF lo, ph
  <2>2. M * ph = ph * M  BY <1>2
  <2> QED  BY <2>1, <2>2 DEF Pair
<1> QED  BY <1>2, <1>3, WideSumParts

\* Registers of pairs that do not overlap.
LEMMA PairsApart ==
  ASSUME NEW p \in VPairs, NEW q \in VPairs
  PROVE  /\ p.n + 1 # q.n => HighOf(p) # LowOf(q)
         /\ p.n \notin q.n - 1 .. q.n + 1 =>
              /\ LowOf(p) # LowOf(q) /\ LowOf(p) # HighOf(q)
              /\ HighOf(p) # LowOf(q) /\ HighOf(p) # HighOf(q)
<1>1. /\ LowOf(p).n = p.n /\ HighOf(p).n = p.n + 1 /\ p.n \in Nat
      /\ LowOf(q).n = q.n /\ HighOf(q).n = q.n + 1 /\ q.n \in Nat
  BY PairParts
<1>2. p.n + 1 # q.n => HighOf(p).n # LowOf(q).n  BY <1>1
<1>3. p.n \notin q.n - 1 .. q.n + 1 => p.n # q.n /\ p.n # q.n + 1 /\ p.n + 1 # q.n /\ p.n + 1 # q.n + 1  BY <1>1
<1> QED  BY <1>1, <1>2, <1>3

\* A wide product and sum is the two words of the product and two additions with carry.
LEMMA SumOfProduct ==
  ASSUME NEW w \in VState, NEW l, NEW d \in VPairs, l.one.d = d, l.one.op = "v_mad_u64_u32",
         NEW a \in VSources, l.one.a = a, NEW b \in VSources, l.one.b = b, NEW c \in VPairs, l.one.c = c,
         c.n + 1 # d.n, NEW e \in VPairs, Apart(a, LowOf(e)), Apart(b, LowOf(e)),
         e.n \notin c.n - 1 .. c.n + 1, e.n \notin d.n - 1 .. d.n + 1,
         l.many = <<To("v_mul_lo_u32", LowOf(e), a, b, Null), To("v_mul_hi_u32", HighOf(e), a, b, Null),
                    V("v_add_co_u32", LowOf(d), VCC, LowOf(e), LowOf(c), Null),
                    V("v_add_co_ci_u32", HighOf(d), VCC, HighOf(e), HighOf(c), VCC)>>
  PROVE  VLawful(l, w)
<1> DEFINE i == l.one
           lo == LowOf(d)
           hi == HighOf(d)
           el == LowOf(e)
           eh == HighOf(e)
           cl == LowOf(c)
           ch == HighOf(c)
           u1 == VResult(To("v_mul_lo_u32", el, a, b, Null), w)
           u2 == VResult(To("v_mul_hi_u32", eh, a, b, Null), u1)
           u3 == VResult(V("v_add_co_u32", lo, VCC, el, cl, Null), u2)
           z == VResult(V("v_add_co_ci_u32", hi, VCC, eh, ch, VCC), u3)
           f == [k \in Active(w) |-> MadValue(i, w, k)]
<1>1. VRun(l.many, w) = z  BY VRunOfFour
<1>2. /\ lo \in VRegs /\ hi \in VRegs /\ el \in VRegs /\ eh \in VRegs /\ cl \in VRegs /\ ch \in VRegs
      /\ el \in VSources /\ eh \in VSources /\ cl \in VSources /\ ch \in VSources
  BY PairParts
<1>3. lo # hi /\ el # eh /\ ch # lo /\ el # cl /\ el # ch /\ eh # cl /\ eh # ch /\ el # lo /\ el # hi /\ eh # lo /\ eh # hi
  BY PairParts, PairsApart
<1>4. /\ VResult(i, w).v = VSet(w, i.d, f).v
      /\ DOMAIN f = Active(w) /\ \A k \in Active(w) : f[k] = MadValue(i, w, k) /\ f[k] \in Int
  BY MadWrites
<1> HIDE DEF f
<1>5. "v_mul_lo_u32" \in Bins /\ "v_mul_hi_u32" \in Bins  BY BinsAndTris
<1>6. \A k : VGetPair(w, k, c) = Pair(VGet(w, k, cl), VGet(w, k, ch))  BY PairParts
<1>7. \A y, k : VGetPair(y, k, d) = Pair(VGet(y, k, lo), VGet(y, k, hi))  BY PairParts
<1> HIDE DEF lo, hi, el, eh, cl, ch
<1>8. Apart(a, el) /\ Apart(b, el)  BY DEF el
<1>9. /\ Wrote(w, u1, el)
      /\ \A k \in Active(w) : VGet(u1, k, el) = Mask(BinValue("v_mul_lo_u32", VGet(w, k, a), VGet(w, k, b)))
  BY <1>2, <1>5, BinFirst
<1> HIDE DEF u1
<1>10. u1 \in VState /\ Active(u1) = Active(w)  BY <1>2, <1>9, ReadsApart DEF Wrote
<1>11. \A k \in Lane : VGet(u1, k, a) = VGet(w, k, a) /\ VGet(u1, k, b) = VGet(w, k, b)
  BY <1>2, <1>8, <1>9, ReadsApart
<1>12. \A k \in Lane : \A o \in {lo, hi, cl, ch} : VGet(u1, k, o) = VGet(w, k, o)
  BY <1>2, <1>3, <1>9, OthersStay
<1>13. /\ Wrote(u1, u2, eh)
       /\ \A k \in Active(u1) : VGet(u2, k, eh) = Mask(BinValue("v_mul_hi_u32", VGet(u1, k, a), VGet(u1, k, b)))
  BY <1>2, <1>5, <1>10, BinFirst
<1> HIDE DEF u2
<1>14. u2 \in VState /\ Active(u2) = Active(w)  BY <1>2, <1>10, <1>13, ReadsApart DEF Wrote
<1>15. \A k \in Lane : \A o \in {lo, hi, cl, ch, el} : VGet(u2, k, o) = VGet(u1, k, o)
  BY <1>2, <1>3, <1>13, OthersStay
<1>16. /\ Altered(u2, u3, lo)
       /\ \A k \in Active(u2) :
            /\ VGet(u3, k, lo) = Mask(Mask(VGet(u2, k, el)) + Mask(VGet(u2, k, cl)))
            /\ Bit(u3.vcc, k) = IF Mask(VGet(u2, k, el)) + Mask(VGet(u2, k, cl)) > Top THEN 1 ELSE 0
  BY <1>2, <1>14, AddsOut
<1> HIDE DEF u3
<1>17. u3 \in VState /\ Active(u3) = Active(w)  BY <1>2, <1>14, <1>16, AlteredReads DEF Altered
<1>18. /\ \A k \in Lane : \A o \in {hi, ch, eh} : VGet(u3, k, o) = VGet(u2, k, o)
       /\ \A k \in Lane \ Active(w) : VGet(u3, k, lo) = VGet(u2, k, lo)
  BY <1>2, <1>3, <1>14, <1>16, AlteredReads
<1>19. /\ Altered(u3, z, hi)
       /\ \A k \in Active(u3) :
            VGet(z, k, hi) = Mask(Mask(VGet(u3, k, eh)) + Mask(VGet(u3, k, ch)) + Bit(u3.vcc, k))
  BY <1>2, <1>17, AddsInAndOut
<1> HIDE DEF z
<1>20. /\ \A k \in Lane : VGet(z, k, lo) = VGet(u3, k, lo)
       /\ \A k \in Lane \ Active(w) : VGet(z, k, hi) = VGet(u3, k, hi)
  BY <1>2, <1>3, <1>17, <1>19, AlteredReads
<1>21. \A k \in Lane \ Active(w) : VGetPair(z, k, d) = VGetPair(w, k, d)
  <2>1. SUFFICES ASSUME NEW k \in Lane \ Active(w)
                 PROVE  VGet(z, k, lo) = VGet(w, k, lo) /\ VGet(z, k, hi) = VGet(w, k, hi)
    BY <1>7
  <2> QED  BY <1>12, <1>15, <1>18, <1>20
<1>22. ASSUME NEW k \in Active(w)
       PROVE  VGet(z, k, lo) = Mask(f[k]) /\ VGet(z, k, hi) = Mask(Shr(f[k], W))
  <2> DEFINE x == VGet(w, k, a)
             y == VGet(w, k, b)
             c0 == VGet(w, k, cl)
             c1 == VGet(w, k, ch)
             p == Mask(x) * Mask(y)
             s == Mask(p) + c0
             r == IF s > Top THEN 1 ELSE 0
             t == Shr(p, W) + c1 + r
  <2>1. x \in Int /\ y \in Int /\ k \in Lane  BY SourceInts, ActiveLanes
  <2>2. c0 \in Word /\ c1 \in Word  BY PairRead DEF cl, ch
  <2>3. Mask(c0) = c0 /\ Mask(c1) = c1  BY <2>2, MaskOfWord
  <2>4. f[k] = Mask2(p + Pair(c0, c1))
    <3>1. MadValue(i, w, k) = Mask2(Mask(x) * Mask(y) + VGetPair(w, k, c))  BY DEF MadValue, MadFactor
    <3> QED  BY <1>4, <1>6, <3>1
  <2>5. VGet(u2, k, el) = Mask(BinValue("v_mul_lo_u32", x, y))  BY <1>9, <1>15, <2>1
  <2>6. VGet(u2, k, eh) = Mask(BinValue("v_mul_hi_u32", x, y))  BY <1>10, <1>11, <1>13, <2>1
  <2>7. VGet(u2, k, cl) = c0 /\ VGet(u2, k, ch) = c1  BY <1>12, <1>15, <2>1
  <2> HIDE DEF x, y, c0, c1
  <2>8. p \in Int /\ Mask(x * y) = Mask(p) /\ Mask(p) \in Word /\ Shr(p, W) \in Word /\ Mask(Shr(p, W)) = Shr(p, W)
    BY <2>1, ProductWords
  <2>9. BinValue("v_mul_lo_u32", x, y) = x * y /\ BinValue("v_mul_hi_u32", x, y) = Shr(p, W)  BY BinIsCore8
  <2>10. Mask(s) = Mask(Mask2(p + Pair(c0, c1))) /\ Mask(t) = Mask(Shr(Mask2(p + Pair(c0, c1)), W))
    BY <2>1, <2>2, WideSumWords
  <2> HIDE DEF p
  <2>11. Mask(VGet(u2, k, el)) = Mask(p) /\ VGet(u2, k, eh) = Shr(p, W)
    <3>1. VGet(u2, k, el) = Mask(p)  BY <2>5, <2>8, <2>9
    <3>2. Mask(Mask(p)) = Mask(p)  BY <2>8, MaskOfWord
    <3> QED  BY <2>6, <2>8, <2>9, <3>1, <3>2
  <2>12. VGet(u3, k, lo) = Mask(s) /\ Bit(u3.vcc, k) = r  BY <1>14, <1>16, <2>3, <2>7, <2>11
  <2>13. Mask(VGet(u3, k, eh)) = Shr(p, W) /\ Mask(VGet(u3, k, ch)) = c1
    BY <1>18, <2>1, <2>3, <2>7, <2>8, <2>11
  <2>14. VGet(z, k, hi) = Mask(t)
    <3>1. VGet(z, k, hi) = Mask(Mask(VGet(u3, k, eh)) + Mask(VGet(u3, k, ch)) + Bit(u3.vcc, k))  BY <1>17, <1>19
    <3> HIDE DEF r
    <3> QED  BY <2>12, <2>13, <3>1
  <2> QED  BY <1>20, <2>1, <2>4, <2>10, <2>12, <2>14
<1>23. \A k \in Active(w) : f[k] \in Int  BY <1>4
<1> QED  BY <1>1, <1>4, <1>21, <1>22, <1>23, LawOfPair DEF lo, hi

\* The wide products by words: the product, the sum with its carry, the sign.
LEMMA VMultipliesHolds ==
  ASSUME NEW w \in VState, NEW l, VMultiplies(l)
  PROVE  VLawful(l, w)
<1> DEFINE i == l.one
           d == i.d
           lo == LowOf(d)
           hi == HighOf(d)
<1>1. d \in VPairs /\ i.a \in VSources /\ i.b \in VSources  BY DEF VMultiplies
<1>2. CASE /\ i.op = "v_mad_u64_u32" /\ i.c = K(0) /\ Apart(i.a, lo) /\ Apart(i.b, lo)
           /\ l.many = <<To("v_mul_lo_u32", lo, i.a, i.b, Null), To("v_mul_hi_u32", hi, i.a, i.b, Null)>>
  BY <1>1, <1>2, WideProduct
<1>3. CASE /\ i.op = "v_mad_u64_u32" /\ i.c \in VPairs /\ i.c.n + 1 # d.n
           /\ \E e \in VPairs :
                /\ Apart(i.a, LowOf(e)) /\ Apart(i.b, LowOf(e))
                /\ e.n \notin i.c.n - 1 .. i.c.n + 1 /\ e.n \notin d.n - 1 .. d.n + 1
                /\ l.many = <<To("v_mul_lo_u32", LowOf(e), i.a, i.b, Null),
                              To("v_mul_hi_u32", HighOf(e), i.a, i.b, Null),
                              V("v_add_co_u32", lo, VCC, LowOf(e), LowOf(i.c), Null),
                              V("v_add_co_ci_u32", hi, VCC, HighOf(e), HighOf(i.c), VCC)>>
  <2> PICK e \in VPairs :
                /\ Apart(i.a, LowOf(e)) /\ Apart(i.b, LowOf(e))
                /\ e.n \notin i.c.n - 1 .. i.c.n + 1 /\ e.n \notin d.n - 1 .. d.n + 1
                /\ l.many = <<To("v_mul_lo_u32", LowOf(e), i.a, i.b, Null),
                              To("v_mul_hi_u32", HighOf(e), i.a, i.b, Null),
                              V("v_add_co_u32", lo, VCC, LowOf(e), LowOf(i.c), Null),
                              V("v_add_co_ci_u32", hi, VCC, HighOf(e), HighOf(i.c), VCC)>>
    BY <1>3
  <2> QED  BY <1>1, <1>3, SumOfProduct
<1>4. CASE /\ i.op = "v_mad_i64_i32" /\ i.b = K(1) /\ i.c = K(0) /\ Apart(i.a, lo)
           /\ l.many = <<To("v_mov_b32", lo, i.a, Null, Null),
                         To("v_ashrrev_i32", hi, K(W - 1), i.a, Null)>>
  BY <1>1, <1>4, WideSign
<1> QED  BY <1>2, <1>3, <1>4 DEF VMultiplies

\* Every law of the seven families holds.
LEMMA VLawIsLawful ==
  ASSUME NEW w \in VState, NEW l \in VLaws
  PROVE  VLawful(l, w)
BY VLawsAssumption, FusesHolds, SubtractsHolds, VChoosesHolds, HalvesHolds, VTakesFieldHolds,
   VMultipliesHolds, VShiftsPairHolds

\* A word with or without a borrow out of it.
LEMMA BorrowOfWord ==
  ASSUME NEW s \in -M .. Top, NEW c, c = IF s < 0 THEN 1 ELSE 0
  PROVE  s = Mask(s) - M * c /\ c \in {0, 1} /\ Mask(s) \in Word /\ s \in Int
<1>1. M \in Nat \ {0} /\ M \in Int /\ Top = M - 1  BY MType DEF Top
<1>2. s \in Int  BY <1>1
<1>3. Mask(s) \in Word  BY <1>2, MaskType
<1>4. Mask(s) \in Int  BY <1>3, MaskOfWord
<1>5. CASE s < 0
  <2>1. s + M \in Word  BY <1>1, <1>2, <1>5 DEF Word
  <2>2. s + M = M * 1 + s /\ s + M \in Int  BY <1>1, <1>2
  <2>3. Same(s + M, s)  BY <2>2 DEF Same
  <2>4. Mask(s + M) = Mask(s)  BY <1>2, <2>2, <2>3, MaskSame
  <2>5. Mask(s) = s + M  BY <2>1, <2>4, MaskOfWord
  <2>6. c = 1 /\ M * 1 = M  BY <1>1, <1>5
  <2>7. M * c = M  BY <2>6
  <2> QED  BY <1>1, <1>2, <1>3, <2>5, <2>6, <2>7
<1>6. CASE ~(s < 0)
  <2>1. s \in Word  BY <1>1, <1>6 DEF Word
  <2>2. Mask(s) = s  BY <2>1, MaskOfWord
  <2>3. c = 0 /\ M * 0 = 0  BY <1>1, <1>6
  <2>4. M * c = 0  BY <2>3
  <2> QED  BY <1>1, <1>2, <1>3, <2>2, <2>3, <2>4
<1> QED  BY <1>5, <1>6

\* The difference of two pairs, the upper words with the borrow of the lower ones.
LEMMA BorrowsOver ==
  ASSUME NEW x0 \in Word, NEW x1 \in Word, NEW y0 \in Word, NEW y1 \in Word,
         NEW s, s = x0 - y0, NEW c, c = IF s < 0 THEN 1 ELSE 0,
         NEW t, t = x1 - y1 - c, NEW e, e = IF t < 0 THEN 1 ELSE 0
  PROVE  Pair(Mask(s), Mask(t)) - M * M * e = Pair(x0, x1) - Pair(y0, y1)
<1>1. M \in Nat \ {0} /\ M \in Int /\ Top = M - 1 /\ Top \in Nat  BY MType DEF Top
<1>2. x0 \in Int /\ x1 \in Int /\ y0 \in Int /\ y1 \in Int  BY MaskOfWord
<1>3. s \in -M .. Top  BY <1>1 DEF Word
<1>4. s = Mask(s) - M * c /\ c \in {0, 1} /\ Mask(s) \in Word  BY <1>3, BorrowOfWord
<1>5. t \in -M .. Top  BY <1>1, <1>4 DEF Word
<1>6. t = Mask(t) - M * e /\ e \in {0, 1} /\ Mask(t) \in Word  BY <1>5, BorrowOfWord
<1> DEFINE a == Mask(s)
           b == Mask(t)
<1>7. a \in Int /\ b \in Int /\ c \in Int /\ e \in Int /\ s = a - M * c /\ t = b - M * e
      /\ s = x0 - y0 /\ t = x1 - y1 - c
  BY <1>4, <1>6, MaskOfWord
<1>8. Pair(a, b) = b * M + a /\ Pair(x0, x1) = x1 * M + x0 /\ Pair(y0, y1) = y1 * M + y0  BY DEF Pair
<1> HIDE DEF a, b
<1>9. (b * M + a) - M * M * e = (x1 * M + x0) - (y1 * M + y0)
  <2> DEFINE m == M
             mc == m * c
             me == m * e
             g == m * me
  <2>0. m \in Int  BY <1>1
  <2> HIDE DEF m
  <2>1. mc \in Int /\ me \in Int  BY <1>7, <2>0, Products
  <2>2. m * m * e = g  BY <1>7, <2>0, Associates
  <2>3. s = a - mc /\ t = b - me  BY <1>7 DEF m
  <2> HIDE DEF me
  <2>4. g \in Int  BY <2>0, <2>1, Products
  <2>5. b + (y1 + c) = x1 + me  BY <1>2, <1>7, <2>1, <2>3
  <2>7. m * (b + (y1 + c)) = m * b + (m * y1 + m * c)
    <3> DEFINE u == y1 + c
    <3>1. u \in Int  BY <1>2, <1>7
    <3>2. m * u = m * y1 + m * c  BY <1>2, <1>7, <2>0, Distributes
    <3> HIDE DEF u
    <3>3. m * (b + u) = m * b + m * u  BY <1>7, <2>0, <3>1, Distributes
    <3> QED  BY <3>2, <3>3 DEF u
  <2>8. m * (x1 + me) = m * x1 + g  BY <1>2, <2>0, <2>1, Distributes
  <2>9. m * b + (m * y1 + mc) = m * x1 + g
    <3>1. m * (b + (y1 + c)) = m * (x1 + me)  BY <2>5
    <3> QED  BY <2>7, <2>8, <3>1, Zenon DEF mc
  <2>10. x1 * m = m * x1 /\ y1 * m = m * y1 /\ b * m = m * b
    <3>1. \A p, q \in Int : p * q = q * p  OBVIOUS
    <3> QED  BY <1>2, <1>7, <2>0, <3>1
  <2> DEFINE h1 == m * x1
             h2 == m * y1
             h3 == m * b
  <2>11. h1 \in Int /\ h2 \in Int /\ h3 \in Int  BY <1>2, <1>7, <2>0, Products
  <2>12. h3 + (h2 + mc) = h1 + g  BY <2>9
  <2>13. a \in Int /\ a - mc = x0 - y0  BY <1>7, <2>3
  <2> HIDE DEF g, h1, h2, h3, mc
  <2>14. (h3 + a) - g = (h1 + x0) - (h2 + y0)  BY <1>2, <2>1, <2>4, <2>11, <2>12, <2>13
  <2> QED  BY <2>2, <2>10, <2>14 DEF h1, h2, h3, m
<1> QED  BY <1>8, <1>9 DEF a, b

\* The registers the laws of the lanes name.
LEMMA NamedRegisters ==
  ASSUME NVgprs > 3
  PROVE  /\ VA \in VRegs /\ VB \in VRegs /\ VReg(2) \in VRegs /\ VReg(3) \in VRegs
         /\ VA \in VSources /\ VB \in VSources /\ VPair(2) \in VPairs
         /\ VA # VReg(2) /\ VB # VReg(2) /\ VReg(2) # VReg(3)
         /\ LowOf(VPair(2)) = VReg(2) /\ HighOf(VPair(2)) = VReg(3)
         /\ \A w, k : VGet(w, k, VA) = w.v[k][0] /\ VGet(w, k, VB) = w.v[k][1]
<1>1. NVgprs \in Nat  BY LanesAssumption
<1>2. 0 \in Vgpr /\ 1 \in Vgpr /\ 2 \in Vgpr /\ 3 \in Vgpr /\ 2 \in 0 .. NVgprs - 2  BY <1>1 DEF Vgpr
<1>3. VA \in VRegs /\ VB \in VRegs /\ VReg(2) \in VRegs /\ VReg(3) \in VRegs  BY <1>2 DEF VA, VB, VReg, VRegs
<1>4. VPair(2) \in VPairs  BY <1>2 DEF VPair, VPairs
<1>5. VPair(2).n = 2  BY DEF VPair
<1>6. LowOf(VPair(2)) = VReg(2) /\ HighOf(VPair(2)) = VReg(3)  BY <1>5 DEF LowOf, HighOf
<1>7. VA.n = 0 /\ VB.n = 1 /\ VReg(2).n = 2 /\ VReg(3).n = 3 /\ VA.t = "v" /\ VB.t = "v"  BY DEF VA, VB, VReg
<1>8. VA # VReg(2) /\ VB # VReg(2) /\ VReg(2) # VReg(3)  BY <1>7
<1>9. VA \in VSources /\ VB \in VSources  BY <1>3, SharedSources
<1>10. \A w, k : VGet(w, k, VA) = w.v[k][0] /\ VGet(w, k, VB) = w.v[k][1]  BY <1>7 DEF VGet
<1> QED  BY <1>3, <1>4, <1>6, <1>8, <1>9, <1>10

\* A lane that is off keeps all its registers.
LEMMA OffLanes ==
  ASSUME NEW w \in VState, NEW d, NEW y, Altered(w, y, d), NEW k \in Lane \ Active(w)
  PROVE  y.v[k] = w.v[k]
<1>1. y.v[k] \in [Vgpr -> Word] /\ w.v[k] \in [Vgpr -> Word]  BY DEF Altered, VState
<1>2. \A n \in Vgpr : y.v[k][n] = w.v[k][n]
  <2>1. TAKE n \in Vgpr
  <2>2. CASE n # d.n  BY <2>2 DEF Altered, Keeps
  <2>3. CASE n = d.n  BY <2>3 DEF Altered, Keeps
  <2> QED  BY <2>2, <2>3
<1> QED  BY <1>1, <1>2

\* Two additions with carry add pairs in every active lane, whatever the others do.
LEMMA LanesAdd ==
  ASSUME NVgprs > 3, NRegs > 0, NEW w \in VState, NEW l \in Lane,
         NEW z, z = VRun(<<V("v_add_co_u32", VReg(2), VCC, VA, VB, Null),
                           V("v_add_co_ci_u32", VReg(3), VCC, VB, S(0), VCC)>>, w)
  PROVE  /\ l \in Active(w) =>
              VGetPair(z, l, VPair(2)) + M * M * Bit(z.vcc, l) = Pair(w.v[l][0], w.v[l][1]) + Pair(w.v[l][1], w.s[0])
         /\ l \notin Active(w) => z.v[l] = w.v[l]
<1> DEFINE d == VReg(2)
           e == VReg(3)
           s0 == S(0)
           i == V("v_add_co_u32", d, VCC, VA, VB, Null)
           j == V("v_add_co_ci_u32", e, VCC, VB, s0, VCC)
           u == VResult(i, w)
           a == VA
           b == VB
<1>1. z = VResult(j, u)  BY VRunOfTwo
<1>2. /\ d \in VRegs /\ e \in VRegs /\ a \in VRegs /\ b \in VRegs /\ a \in VSources /\ b \in VSources
      /\ a # d /\ b # d /\ d # e
      /\ \A y, k : VGetPair(y, k, VPair(2)) = Pair(VGet(y, k, d), VGet(y, k, e))
      /\ \A y, k : VGet(y, k, a) = y.v[k][0] /\ VGet(y, k, b) = y.v[k][1]
  <2>1. VPair(2) \in VPairs /\ LowOf(VPair(2)) = d /\ HighOf(VPair(2)) = e  BY NamedRegisters
  <2>2. \A y, k : VGetPair(y, k, VPair(2)) = Pair(VGet(y, k, d), VGet(y, k, e))  BY <2>1, PairParts
  <2> QED  BY <2>2, NamedRegisters
<1>3. s0 \in SRegs /\ s0 \in VSources /\ \A y, k : VGet(y, k, s0) = y.s[0]
  <2>1. 0 \in Reg  BY SizeAssumption DEF Reg
  <2>2. s0 \in SRegs  BY <2>1 DEF S, SRegs
  <2>3. s0.t = "s" /\ s0.n = 0  BY DEF S
  <2>4. s0 \in VSources  BY <2>2 DEF VSources, Shared
  <2> QED  BY <2>2, <2>3, <2>4 DEF VGet
<1>4. u = VResult(V("v_add_co_u32", d, VCC, a, b, Null), w)  OBVIOUS
<1>5. z = VResult(V("v_add_co_ci_u32", e, VCC, b, s0, VCC), u)  BY <1>1
<1> HIDE DEF d, e, s0, i, j, u, a, b
<1>6. /\ Altered(w, u, d)
      /\ \A k \in Active(w) :
           /\ VGet(u, k, d) = Mask(Mask(VGet(w, k, a)) + Mask(VGet(w, k, b)))
           /\ Bit(u.vcc, k) = IF Mask(VGet(w, k, a)) + Mask(VGet(w, k, b)) > Top THEN 1 ELSE 0
  BY <1>2, <1>4, AddsOut
<1>7. u \in VState /\ Active(u) = Active(w)  BY <1>2, <1>6, AlteredReads DEF Altered
<1>8. \A k \in Lane : VGet(u, k, b) = VGet(w, k, b) /\ VGet(u, k, s0) = VGet(w, k, s0)
  BY <1>2, <1>3, <1>6, AlteredReads
<1>9. /\ Altered(u, z, e)
      /\ \A k \in Active(u) :
           /\ VGet(z, k, e) = Mask(Mask(VGet(u, k, b)) + Mask(VGet(u, k, s0)) + Bit(u.vcc, k))
           /\ Bit(z.vcc, k) = IF Mask(VGet(u, k, b)) + Mask(VGet(u, k, s0)) + Bit(u.vcc, k) > Top THEN 1 ELSE 0
  <2>1. e \in VRegs /\ b \in VSources /\ s0 \in VSources /\ u \in VState  BY <1>2, <1>3, <1>7
  <2> QED  BY <1>5, <2>1, AddsInAndOut
<1>10. \A k \in Lane : VGet(z, k, d) = VGet(u, k, d)  BY <1>2, <1>7, <1>9, AlteredReads
<1>11. ASSUME l \in Active(w)
       PROVE  VGetPair(z, l, VPair(2)) + M * M * Bit(z.vcc, l) = Pair(w.v[l][0], w.v[l][1]) + Pair(w.v[l][1], w.s[0])
  <2> DEFINE x == VGet(w, l, a)
             y == VGet(w, l, b)
             v == VGet(w, l, s0)
             s == x + y
             c == IF s > Top THEN 1 ELSE 0
             t == y + v + c
             o == IF t > Top THEN 1 ELSE 0
  <2>1. x = w.v[l][0] /\ y = w.v[l][1] /\ v = w.s[0]  BY <1>2, <1>3
  <2>2. x \in Word /\ y \in Word /\ v \in Word
    <3>1. 0 \in Vgpr /\ 1 \in Vgpr /\ 0 \in Reg  BY LanesAssumption, SizeAssumption DEF Vgpr, Reg
    <3> QED  BY <2>1, <3>1 DEF VState
  <2>3. VGet(u, l, b) = y /\ VGet(u, l, s0) = v  BY <1>8
  <2> HIDE DEF x, y, v
  <2>4. Mask(x) = x /\ Mask(y) = y /\ Mask(v) = v  BY <2>2, MaskOfWord
  <2>5. VGet(u, l, d) = Mask(s) /\ Bit(u.vcc, l) = c  BY <1>6, <1>11, <2>4 DEF x, y
  <2>6. VGet(z, l, e) = Mask(t) /\ Bit(z.vcc, l) = o
    <3> HIDE DEF c
    <3> QED  BY <1>7, <1>9, <1>11, <2>3, <2>4, <2>5
  <2>7. Pair(Mask(s), Mask(t)) + M * M * o = Pair(x, y) + Pair(y, v)  BY <2>2, CarriesOver
  <2>8. VGetPair(z, l, VPair(2)) = Pair(Mask(s), Mask(t))  BY <1>2, <1>10, <2>5, <2>6
  <2> HIDE DEF s, t, o
  <2> QED  BY <2>1, <2>6, <2>7, <2>8
<1>12. ASSUME l \notin Active(w) PROVE z.v[l] = w.v[l]
  <2>1. u.v[l] = w.v[l]  BY <1>6, <1>12, OffLanes
  <2>2. z.v[l] = u.v[l]  BY <1>7, <1>9, <1>12, OffLanes
  <2> QED  BY <2>1, <2>2
<1> QED  BY <1>11, <1>12

\* A word that is compared with itself clears the mask.
LEMMA NoneDiffer ==
  ASSUME NEW w \in VState, NEW a, NEW u, u = VResult(Cmp("v_cmp", "ne", "u32", VCC, a, a), w)
  PROVE  /\ u \in VState /\ u.v = w.v /\ Active(u) = Active(w)
         /\ \A k \in Active(w) : Bit(u.vcc, k) = 0
<1>1. /\ u \in VState /\ u.v = w.v /\ Active(u) = Active(w)
      /\ \A k \in Active(w) : CarryIn(u, k, VCC) = IF Asks("ne", "u32", VGet(w, k, a), VGet(w, k, a)) THEN 1 ELSE 0
  BY Compared
<1>2. \A x : ~Asks("ne", "u32", x, x)  BY DEF Asks
<1>3. \A k \in Active(w) : CarryIn(u, k, VCC) = 0  BY <1>1, <1>2
<1> QED  BY <1>1, <1>3, VccIs

\* Two subtractions with borrow subtract them.
LEMMA LanesSubtract ==
  ASSUME NVgprs > 3, NEW w \in VState, NEW l \in Lane,
         NEW z, z = VRun(<<Cmp("v_cmp", "ne", "u32", VCC, VA, VA),
                           V("v_subrev_co_ci_u32", VReg(2), VCC, VB, VA, VCC),
                           V("v_subrev_co_ci_u32", VReg(3), VCC, VA, VB, VCC)>>, w)
  PROVE  /\ l \in Active(w) =>
              VGetPair(z, l, VPair(2)) - M * M * Bit(z.vcc, l) =
                Pair(w.v[l][0], w.v[l][1]) - Pair(w.v[l][1], w.v[l][0])
         /\ l \notin Active(w) => z.v[l] = w.v[l]
<1> DEFINE d == VReg(2)
           e == VReg(3)
           h == Cmp("v_cmp", "ne", "u32", VCC, VA, VA)
           i == V("v_subrev_co_ci_u32", d, VCC, VB, VA, VCC)
           j == V("v_subrev_co_ci_u32", e, VCC, VA, VB, VCC)
           n == VResult(h, w)
           u == VResult(i, n)
           a == VA
           b == VB
<1>1. z = VResult(j, u)  BY VRunOfThree
<1>2. /\ d \in VRegs /\ e \in VRegs /\ a \in VRegs /\ b \in VRegs /\ a \in VSources /\ b \in VSources
      /\ a # d /\ b # d /\ d # e
      /\ \A y, k : VGetPair(y, k, VPair(2)) = Pair(VGet(y, k, d), VGet(y, k, e))
      /\ \A y, k : VGet(y, k, a) = y.v[k][0] /\ VGet(y, k, b) = y.v[k][1]
  <2>1. VPair(2) \in VPairs /\ LowOf(VPair(2)) = d /\ HighOf(VPair(2)) = e  BY NamedRegisters
  <2>2. \A y, k : VGetPair(y, k, VPair(2)) = Pair(VGet(y, k, d), VGet(y, k, e))  BY <2>1, PairParts
  <2> QED  BY <2>2, NamedRegisters
<1>3. n \in VState /\ n.v = w.v /\ Active(n) = Active(w) /\ \A k \in Active(w) : Bit(n.vcc, k) = 0
  BY NoneDiffer
<1>4. u = VResult(V("v_subrev_co_ci_u32", d, VCC, b, a, VCC), n)  OBVIOUS
<1>5. z = VResult(V("v_subrev_co_ci_u32", e, VCC, a, b, VCC), u)  BY <1>1
<1> HIDE DEF d, e, h, i, j, n, u, a, b
<1>6. /\ Altered(n, u, d)
      /\ \A k \in Active(n) :
           /\ VGet(u, k, d) = Mask(Mask(VGet(n, k, a)) - Mask(VGet(n, k, b)) - Bit(n.vcc, k))
           /\ Bit(u.vcc, k) = IF Mask(VGet(n, k, a)) - Mask(VGet(n, k, b)) - Bit(n.vcc, k) < 0 THEN 1 ELSE 0
  BY <1>2, <1>3, <1>4, SubtractsInAndOut
<1>7. u \in VState /\ Active(u) = Active(w)  BY <1>2, <1>3, <1>6, AlteredReads DEF Altered
<1>8. \A k \in Lane : VGet(u, k, a) = VGet(n, k, a) /\ VGet(u, k, b) = VGet(n, k, b)
  BY <1>2, <1>3, <1>6, AlteredReads
<1>9. /\ Altered(u, z, e)
      /\ \A k \in Active(u) :
           /\ VGet(z, k, e) = Mask(Mask(VGet(u, k, b)) - Mask(VGet(u, k, a)) - Bit(u.vcc, k))
           /\ Bit(z.vcc, k) = IF Mask(VGet(u, k, b)) - Mask(VGet(u, k, a)) - Bit(u.vcc, k) < 0 THEN 1 ELSE 0
  <2>1. e \in VRegs /\ b \in VSources /\ a \in VSources /\ u \in VState  BY <1>2, <1>7
  <2> QED  BY <1>5, <2>1, SubtractsInAndOut
<1>10. \A k \in Lane : VGet(z, k, d) = VGet(u, k, d)  BY <1>2, <1>7, <1>9, AlteredReads
<1>11. ASSUME l \in Active(w)
       PROVE  VGetPair(z, l, VPair(2)) - M * M * Bit(z.vcc, l) =
                Pair(w.v[l][0], w.v[l][1]) - Pair(w.v[l][1], w.v[l][0])
  <2> DEFINE x == VGet(w, l, a)
             y == VGet(w, l, b)
             s == x - y
             c == IF s < 0 THEN 1 ELSE 0
             t == y - x - c
             o == IF t < 0 THEN 1 ELSE 0
  <2>1. x = w.v[l][0] /\ y = w.v[l][1]  BY <1>2
  <2>2. x \in Word /\ y \in Word
    <3>1. 0 \in Vgpr /\ 1 \in Vgpr  BY LanesAssumption DEF Vgpr
    <3> QED  BY <2>1, <3>1 DEF VState
  <2>3. VGet(n, l, a) = x /\ VGet(n, l, b) = y  BY <1>2, <1>3
  <2>4. VGet(u, l, a) = x /\ VGet(u, l, b) = y  BY <1>8, <2>3
  <2> HIDE DEF x, y
  <2>5. Mask(x) = x /\ Mask(y) = y /\ x \in Int /\ y \in Int  BY <2>2, MaskOfWord
  <2>6. VGet(u, l, d) = Mask(s) /\ Bit(u.vcc, l) = c
    <3>1. x - y - 0 = x - y  BY <2>5
    <3> QED  BY <1>3, <1>6, <1>11, <2>3, <2>5, <3>1
  <2>7. VGet(z, l, e) = Mask(t) /\ Bit(z.vcc, l) = o
    <3> HIDE DEF c
    <3> QED  BY <1>7, <1>9, <1>11, <2>4, <2>5, <2>6
  <2>8. Pair(Mask(s), Mask(t)) - M * M * o = Pair(x, y) - Pair(y, x)  BY <2>2, BorrowsOver
  <2>9. VGetPair(z, l, VPair(2)) = Pair(Mask(s), Mask(t))  BY <1>2, <1>10, <2>6, <2>7
  <2> HIDE DEF s, t, o
  <2> QED  BY <2>1, <2>7, <2>8, <2>9
<1>12. ASSUME l \notin Active(w) PROVE z.v[l] = w.v[l]
  <2>1. u.v[l] = n.v[l]  BY <1>3, <1>6, <1>12, OffLanes
  <2>2. z.v[l] = u.v[l]  BY <1>7, <1>9, <1>12, OffLanes
  <2> QED  BY <1>3, <2>1, <2>2
<1> QED  BY <1>11, <1>12

\* So WideLanes holds in every wave.
LEMMA WideLanesHold ==
  ASSUME NVgprs > 3, NRegs > 0, wave \in VState
  PROVE  WideLanes
<1> DEFINE sum == VRun(<<V("v_add_co_u32", VReg(2), VCC, VA, VB, Null),
                         V("v_add_co_ci_u32", VReg(3), VCC, VB, S(0), VCC)>>, wave)
           diff == VRun(<<Cmp("v_cmp", "ne", "u32", VCC, VA, VA),
                          V("v_subrev_co_ci_u32", VReg(2), VCC, VB, VA, VCC),
                          V("v_subrev_co_ci_u32", VReg(3), VCC, VA, VB, VCC)>>, wave)
<1>1. \A l \in Lane :
        /\ l \in Active(wave) =>
             VGetPair(sum, l, VPair(2)) + M * M * Bit(sum.vcc, l) =
               Pair(wave.v[l][0], wave.v[l][1]) + Pair(wave.v[l][1], wave.s[0])
        /\ l \notin Active(wave) => sum.v[l] = wave.v[l]
  <2>1. TAKE l \in Lane
  <2>2. sum = VRun(<<V("v_add_co_u32", VReg(2), VCC, VA, VB, Null),
                     V("v_add_co_ci_u32", VReg(3), VCC, VB, S(0), VCC)>>, wave)  OBVIOUS
  <2> HIDE DEF sum
  <2> QED  BY <2>2, LanesAdd
<1>2. \A l \in Lane :
        /\ l \in Active(wave) =>
             VGetPair(diff, l, VPair(2)) - M * M * Bit(diff.vcc, l) =
               Pair(wave.v[l][0], wave.v[l][1]) - Pair(wave.v[l][1], wave.v[l][0])
        /\ l \notin Active(wave) => diff.v[l] = wave.v[l]
  <2>1. TAKE l \in Lane
  <2>2. diff = VRun(<<Cmp("v_cmp", "ne", "u32", VCC, VA, VA),
                      V("v_subrev_co_ci_u32", VReg(2), VCC, VB, VA, VCC),
                      V("v_subrev_co_ci_u32", VReg(3), VCC, VA, VB, VCC)>>, wave)  OBVIOUS
  <2> HIDE DEF diff
  <2> QED  BY <2>2, LanesSubtract
<1> HIDE DEF sum, diff
<1>3. \A l \in Lane :
        LET x == wave.v[l][0]
            y == wave.v[l][1]
        IN  IF l \in Active(wave)
              THEN /\ VGetPair(sum, l, VPair(2)) + M * M * Bit(sum.vcc, l) = Pair(x, y) + Pair(y, wave.s[0])
                   /\ VGetPair(diff, l, VPair(2)) - M * M * Bit(diff.vcc, l) = Pair(x, y) - Pair(y, x)
              ELSE sum.v[l] = wave.v[l] /\ diff.v[l] = wave.v[l]
  BY <1>1, <1>2, Zenon
<1> QED  BY <1>3, Zenon DEF WideLanes, sum, diff

\* What is written to a lane is read from it, and no other lane is touched.
LEMMA WrittenIsRead ==
  ASSUME NVgprs > 3, NRegs > 1, NEW w \in VState, NEW l \in Lane,
         NEW y, y = VResult(V("v_writelane_b32", VReg(2), Null, S(0), K(l), Null), w)
  PROVE  /\ VResult(V("v_readlane_b32", S(1), Null, VReg(2), K(l), Null), y).s[1] = w.s[0]
         /\ \A k \in Lane \ {l} : y.v[k] = w.v[k]
<1> DEFINE d == VReg(2)
           b == K(l)
           i == V("v_writelane_b32", d, Null, S(0), b, Null)
           j == V("v_readlane_b32", S(1), Null, d, b, Null)
           f == [k \in {l} |-> w.s[0]]
<1>1. l % W = l /\ 0 \in Reg /\ 1 \in Reg /\ 2 \in Vgpr
  <2>1. l \in 0 .. W - 1  BY VConstants
  <2> QED  BY <2>1, ShortCount, SizeAssumption, LanesAssumption DEF Reg, Vgpr
<1>2. d \in VRegs \cup VPairs /\ d.t = "v" /\ d.n = 2  BY <1>1 DEF VReg, VRegs
<1>3. \A z, k : VGet(z, k, b) = l  BY LiteralReads
<1>4. \A z, k : VGet(z, k, S(0)) = z.s[0] /\ VGet(z, k, d) = z.v[k][2]  BY <1>2 DEF VGet, S
<1>5. /\ i.op = "v_writelane_b32" /\ i.d = d /\ i.a = S(0) /\ i.b = b
      /\ j.op = "v_readlane_b32" /\ j.d = S(1) /\ j.a = d /\ j.b = b
  BY VIs
<1>6. y = VResult(i, w)  OBVIOUS
<1> HIDE DEF d, b, i
<1>7. y = VSet(w, d, f)
  <2>1. LaneNo(i, w) = l  BY <1>1, <1>3, <1>5 DEF LaneNo
  <2>2. VResult(i, w) = VSet(w, i.d, [k \in {LaneNo(i, w)} |-> VGet(w, 0, i.a)])  BY <1>5, VDoesMore DEF WriteLane
  <2> QED  BY <1>4, <1>5, <1>6, <2>1, <2>2
<1>8. w.s[0] \in Word /\ w.s[0] \in Int /\ Mask(w.s[0]) = w.s[0]
  <2>1. w.s[0] \in Word  BY <1>1 DEF VState
  <2> QED  BY <2>1, MaskOfWord
<1>9. DOMAIN f = {l} /\ f[l] = w.s[0] /\ \A k \in Lane : k \in DOMAIN f => f[k] \in Int  BY <1>8
<1> HIDE DEF f
<1>10. y \in VState /\ y.v = [k \in Lane |-> Landed(w, d, f, k)]  BY <1>2, <1>7, <1>9, VSetType
<1>11. \A k \in Lane \ {l} : y.v[k] = w.v[k]  BY <1>9, <1>10 DEF Landed
<1>12. y.v[l][2] = w.s[0]
  <2>1. y.v[l] = [w.v[l] EXCEPT ![2] = w.s[0]]  BY <1>2, <1>8, <1>9, <1>10 DEF Landed
  <2>2. w.v[l] \in [Vgpr -> Word]  BY DEF VState
  <2> QED  BY <1>1, <2>1, <2>2
<1>13. VResult(j, y) = Set(y, S(1), w.s[0])
  <2> HIDE DEF j
  <2>1. LaneNo(j, y) = l  BY <1>1, <1>3, <1>5 DEF LaneNo
  <2>2. VResult(j, y) = Set(y, S(1), VGet(y, l, d))  BY <1>5, <2>1, VDoesMore DEF ReadLane
  <2> QED  BY <1>4, <1>12, <2>2
<1>14. Set(y, S(1), w.s[0]) = [y EXCEPT !.s[1] = Mask(w.s[0])]  BY DEF Set, S
<1>15. [y EXCEPT !.s[1] = Mask(w.s[0])].s[1] = Mask(w.s[0])  BY <1>1, <1>10 DEF VState
<1>16. VResult(j, y).s[1] = w.s[0]  BY <1>8, <1>13, <1>14, <1>15
<1> QED  BY <1>11, <1>16 DEF j, d, b

\* The members of a set of numbers below one of them, one more for each.
Below(A, n) == {k \in A : k < n}
NumberedTo(A, m) ==
  /\ IsFiniteSet(Below(A, m)) /\ Cardinality(Below(A, m)) \in Nat
  /\ \A l \in Below(A, m) : Cardinality(Below(A, l)) \in 0 .. Cardinality(Below(A, m)) - 1
  /\ \A n \in 0 .. Cardinality(Below(A, m)) - 1 : \E l \in Below(A, m) : Cardinality(Below(A, l)) = n

\* A finite set of lanes is numbered by how many of its lanes are below.
LEMMA Numbered ==
  ASSUME NEW A \in SUBSET Nat
  PROVE  \A m \in Nat : NumberedTo(A, m)
<1> DEFINE Holding == {m \in Nat : NumberedTo(A, m)}
<1>1. 0 \in Holding
  <2>1. Below(A, 0) = {}
    <3>1. \A k \in A : k \in Nat  OBVIOUS
    <3>2. \A k \in A : ~(k < 0)  BY <3>1
    <3> QED  BY <3>2 DEF Below
  <2>2. IsFiniteSet(Below(A, 0)) /\ Cardinality(Below(A, 0)) = 0  BY <2>1, FS_EmptySet
  <2>3. NumberedTo(A, 0)  BY <2>1, <2>2 DEF NumberedTo
  <2> QED  BY <2>3
<1>2. ASSUME NEW m \in Nat, m \in Holding PROVE m + 1 \in Holding
  <2>1. NumberedTo(A, m)  BY <1>2
  <2> DEFINE B == Below(A, m)
             C == Below(A, m + 1)
             b == Cardinality(B)
             c == Cardinality(C)
  <2>2. /\ IsFiniteSet(B) /\ b \in Nat
        /\ \A l \in B : Cardinality(Below(A, l)) \in 0 .. b - 1
        /\ \A n \in 0 .. b - 1 : \E l \in B : Cardinality(Below(A, l)) = n
    BY <2>1 DEF NumberedTo
  <2>3. CASE m \notin A
    <3>1. C = B
      <4>1. \A k \in A : k \in Nat /\ k # m  BY <2>3
      <4>2. \A k \in A : k < m + 1 <=> k < m  BY <4>1
      <4> QED  BY <4>2 DEF Below
    <3>2. NumberedTo(A, m + 1)  BY <2>2, <3>1 DEF NumberedTo
    <3> QED  BY <3>2
  <2>4. CASE m \in A
    <3>1. C = B \cup {m} /\ m \notin B
      <4>1. \A k \in A : k \in Nat  OBVIOUS
      <4>2. \A k \in A : k < m + 1 <=> (k < m \/ k = m)  BY <4>1
      <4>3. \A k : k \in C <=> (k \in A /\ (k < m \/ k = m))  BY <4>2 DEF Below
      <4>4. \A k : k \in B <=> (k \in A /\ k < m)  BY DEF Below
      <4>5. ~(m < m)  OBVIOUS
      <4> HIDE DEF B, C
      <4> QED  BY <2>4, <4>3, <4>4, <4>5
    <3>2. IsFiniteSet(C) /\ c = b + 1
      <4> HIDE DEF B, C
      <4> QED  BY <2>2, <3>1, FS_AddElement
    <3>3. Cardinality(Below(A, m)) = b  OBVIOUS
    <3> HIDE DEF B, C, b, c
    <3>4. \A l \in C : Cardinality(Below(A, l)) \in 0 .. c - 1
      <4>1. TAKE l \in C
      <4>2. CASE l = m  BY <2>2, <3>2, <3>3, <4>2
      <4>3. CASE l \in B
        <5>1. Cardinality(Below(A, l)) \in 0 .. b - 1  BY <2>2, <4>3
        <5> QED  BY <2>2, <3>2, <5>1
      <4> QED  BY <3>1, <4>2, <4>3
    <3>5. \A n \in 0 .. c - 1 : \E l \in C : Cardinality(Below(A, l)) = n
      <4>1. TAKE n \in 0 .. c - 1
      <4>2. CASE n = b  BY <3>1, <3>3, <4>2
      <4>3. CASE n \in 0 .. b - 1  BY <2>2, <3>1, <4>3
      <4>4. n = b \/ n \in 0 .. b - 1  BY <2>2, <3>2
      <4> QED  BY <4>2, <4>3, <4>4
    <3>6. c \in Nat  BY <2>2, <3>2
    <3>7. NumberedTo(A, m + 1)  BY <3>2, <3>4, <3>5, <3>6 DEF NumberedTo, C, c
    <3> QED  BY <3>7
  <2> QED  BY <2>3, <2>4
<1>3. Nat \subseteq Holding
  <2> HIDE DEF Holding
  <2> QED  BY <1>1, <1>2, Induction
<1> QED  BY <1>3

\* The bits of the lower part of a number are its lower bits.
LEMMA OnesBelow ==
  ASSUME NEW x \in Int, NEW n \in 0 .. W - 1
  PROVE  Ones(Low(x, n)) = {k \in 0 .. n - 1 : Bit(x, k) = 1}
<1> DEFINE p == Pow2[n]
           r == Low(x, n)
           q == x \div p
<1>1. n \in Nat /\ p \in Nat \ {0} /\ W \in Nat  BY PowStep, MType
<1>2. q \in Int /\ x = p * q + r /\ r \in 0 .. p - 1 /\ r \in Int
  <2>1. r = x % p  BY DEF Low
  <2> HIDE DEF p, r
  <2> QED  BY <1>1, <2>1, Division
<1> HIDE DEF r, q
<1>3. x = r + p * q
  <2> DEFINE e == p * q
  <2>1. e \in Int  BY <1>1, <1>2, Products
  <2>2. x = e + r  BY <1>2
  <2> HIDE DEF e
  <2>3. x = r + e  BY <1>2, <2>1, <2>2
  <2> QED  BY <2>3 DEF e
<1>4. ASSUME NEW k \in 0 .. n - 1 PROVE Bit(r, k) = Bit(x, k)
  <2>1. k \in Nat /\ k < n  BY <1>1
  <2>2. Bit(r + Pow2[n] * q, k) = Bit(r, k)  BY <1>1, <1>2, <2>1, BitBelow
  <2> QED  BY <1>3, <2>2
<1>5. ASSUME NEW k \in 0 .. W - 1, k \notin 0 .. n - 1 PROVE Bit(r, k) # 1
  <2> DEFINE j == k - n
             z == 0
  <2>1. j \in Nat /\ k = n + j  BY <1>1, <1>5
  <2>2. z \in Int /\ p * z = 0  BY <1>1
  <2>3. r + p * z = r  BY <1>2, <2>2
  <2> HIDE DEF j, z
  <2>4. Shr(r + Pow2[n] * z, n + j) = Shr(z, j)  BY <1>1, <1>2, <2>1, <2>2, BitAbove
  <2>5. Shr(r, k) = Shr(z, j)  BY <2>1, <2>3, <2>4
  <2>6. Shr(z, j) = 0
    <3> DEFINE t == Pow2[j]
    <3>1. t \in Nat \ {0} /\ Shr(0, j) = 0 \div t  BY <2>1, PowStep DEF Shr
    <3> HIDE DEF t
    <3>2. 0 \div t = 0
      <4>1. t * 0 + 0 = 0 /\ 0 \in 0 .. t - 1  BY <3>1
      <4>2. (t * 0 + 0) \div t = 0  BY <3>1, <4>1, Quotient
      <4> QED  BY <4>1, <4>2
    <3> QED  BY <3>1, <3>2 DEF z
  <2>7. Bit(r, k) = Shr(r, k) % 2  BY DEF Bit, Shr
  <2> QED  BY <2>5, <2>6, <2>7
<1>6. 0 .. n - 1 \subseteq 0 .. W - 1  BY <1>1
<1>7. \A k : k \in Ones(r) <=> k \in 0 .. n - 1 /\ Bit(x, k) = 1  BY <1>4, <1>5, <1>6 DEF Ones
<1> QED  BY <1>7 DEF r

\* The count of the bits below a lane is the number of lanes that are on there.
LEMMA LanesBelow ==
  ASSUME NEW w \in VState, NEW k \in Active(w)
  PROVE  Ones(Low(w.exec, k)) = Below(Active(w), k)
<1>1. k \in 0 .. W - 1 /\ k \in Lane /\ k \in Nat /\ Lane = 0 .. NLanes - 1 /\ NLanes \in Nat
  BY ActiveLanes, VConstants, LanesAssumption DEF Lane
<1>2. w.exec \in Int
  <2>1. w.exec \in Word  BY DEF VState
  <2> QED  BY <2>1, MaskOfWord
<1>3. Ones(Low(w.exec, k)) = {j \in 0 .. k - 1 : Bit(w.exec, j) = 1}  BY <1>1, <1>2, OnesBelow
<1>4. \A j : j \in 0 .. k - 1 <=> j \in Lane /\ j < k  BY <1>1
<1> QED  BY <1>3, <1>4 DEF Active, Below

\* The active lanes get all the numbers below their count, each one once.
LEMMA LanesCounted ==
  ASSUME NEW w \in VState
  PROVE  LET A == Active(w)
         IN  /\ \A k \in A : Cardinality(Below(A, k)) \in 0 .. Cardinality(A) - 1 /\ Cardinality(Below(A, k)) \in Word
             /\ \A n \in 0 .. Cardinality(A) - 1 : \E k \in A : Cardinality(Below(A, k)) = n
             /\ Cardinality(A) \in Nat
<1> DEFINE A == Active(w)
<1>1. A \subseteq Lane /\ Lane = 0 .. NLanes - 1 /\ NLanes \in Nat /\ NLanes <= W /\ W \in Nat
  BY ActiveLanes, LanesAssumption, MType DEF Lane
<1> HIDE DEF A
<1>2. A \in SUBSET Nat /\ \A k \in A : k \in Nat /\ k < NLanes  BY <1>1
<1>3. Below(A, NLanes) = A  BY <1>2 DEF Below
<1>4. NumberedTo(A, NLanes)  BY <1>1, <1>2, Numbered
<1> DEFINE c == Cardinality(A)
<1>5. /\ c \in Nat /\ \A k \in A : Cardinality(Below(A, k)) \in 0 .. c - 1
      /\ \A n \in 0 .. c - 1 : \E k \in A : Cardinality(Below(A, k)) = n
  BY <1>3, <1>4 DEF NumberedTo
<1>6. c <= W
  <2>1. IsFiniteSet(Lane) /\ Cardinality(Lane) = NLanes
    <3>1. /\ IsFiniteSet(0 .. NLanes - 1)
          /\ Cardinality(0 .. NLanes - 1) = IF 0 > NLanes - 1 THEN 0 ELSE (NLanes - 1) - 0 + 1
      <4>1. 0 \in Int /\ NLanes - 1 \in Int  BY <1>1
      <4> QED  BY <4>1, FS_Interval
    <3> QED  BY <1>1, <3>1
  <2>2. c <= Cardinality(Lane)  BY <1>1, <2>1, FS_Subset
  <2> QED  BY <1>1, <1>5, <2>1, <2>2
<1> HIDE DEF c
<1>7. \A n \in 0 .. c - 1 : n \in 0 .. W  BY <1>1, <1>5, <1>6
<1>8. \A k \in A : Cardinality(Below(A, k)) \in Word  BY <1>5, <1>7, WidthFits
<1> QED  BY <1>5, <1>8 DEF c, A

\* v_mbcnt_lo with EXEC gives the active lanes these numbers.
LEMMA LanesNumbered ==
  ASSUME NVgprs > 3, NRegs > 1, NEW w \in VState,
         NEW z, z = VRun(<<I("s_mov_b32", S(1), ExecReg, Null),
                           V("v_mbcnt_lo_u32_b32", VReg(2), Null, S(1), K(0), Null)>>, w)
  PROVE  {z.v[k][2] : k \in Active(w)} = 0 .. Cardinality(Active(w)) - 1
<1> DEFINE d == VReg(2)
           o == S(1)
           i == I("s_mov_b32", o, ExecReg, Null)
           j == V("v_mbcnt_lo_u32_b32", d, Null, o, K(0), Null)
           u == VResult(i, w)
           f == [k \in Active(u) |-> Cardinality(Ones(Low(Mask(VGet(u, k, o)), k)))]
           A == Active(w)
<1>1. z = VResult(j, u)  BY VRunOfTwo
<1>2. d \in VRegs /\ o \in SRegs /\ 1 \in Reg
  <2>1. 1 \in Reg /\ 2 \in Vgpr  BY SizeAssumption, LanesAssumption DEF Reg, Vgpr
  <2> QED  BY <2>1 DEF VReg, VRegs, S, SRegs
<1>3. /\ i.op = "s_mov_b32" /\ i.d = o /\ i.a = ExecReg
      /\ j.op = "v_mbcnt_lo_u32_b32" /\ j.d = d /\ j.a = o
  BY VIs DEF I
<1>4. \A y, k : VGet(y, k, o) = y.s[1] /\ VGet(y, k, d) = y.v[k][2]  BY DEF VGet, S, VReg
<1>5. w.exec \in Word /\ w.exec \in Int /\ Mask(w.exec) = w.exec
  <2>1. w.exec \in Word  BY DEF VState
  <2> QED  BY <2>1, MaskOfWord
<1>6. u = Set(w, o, w.exec)
  <2> HIDE DEF i
  <2>1. i.op \in Emulated  BY <1>3 DEF Emulated, CoreOps
  <2>2. VResult(i, w) = Result(i, w)  BY <2>1, VDoes
  <2>3. Result(i, w) = Set(w, i.d, Get(w, i.a))  BY <1>3, DoesOneOfMain
  <2>4. Get(w, ExecReg) = w.exec  BY DEF Get, ExecReg
  <2> QED  BY <1>3, <2>2, <2>3, <2>4
<1>7. u \in VState /\ u.s[1] = w.exec /\ u.exec = w.exec /\ Active(u) = A
  <2>1. u = [w EXCEPT !.s[1] = Mask(w.exec)]  BY <1>6 DEF Set, S
  <2>2. u \in VState  BY <1>2, <1>5, <1>6, PutsScalar
  <2> HIDE DEF u
  <2>3. u.s[1] = Mask(w.exec) /\ u.exec = w.exec  BY <1>2, <2>1 DEF VState
  <2> QED  BY <1>5, <2>2, <2>3 DEF Active
<1>8. z = VSet(u, d, f)
  <2> HIDE DEF j, d, o, u
  <2>1. VResult(j, u) = MbCnt(j, u)  BY <1>3, VDoesMore
  <2>2. MbCnt(j, u) = VSet(u, j.d, [k \in Active(u) |-> Cardinality(Ones(Low(Mask(VGet(u, k, j.a)), k)))])
    BY DEF MbCnt
  <2> QED  BY <1>1, <1>3, <2>1, <2>2
<1>9. \A k \in A : f[k] = Cardinality(Below(A, k))
  <2>1. TAKE k \in A
  <2>2. VGet(u, k, o) = w.exec  BY <1>4, <1>7
  <2>3. f[k] = Cardinality(Ones(Low(Mask(w.exec), k)))
    <3> HIDE DEF u, o
    <3> QED  BY <1>7, <2>2
  <2>4. Ones(Low(w.exec, k)) = Below(A, k)  BY LanesBelow
  <2> QED  BY <1>5, <2>3, <2>4
<1>10. DOMAIN f = A  BY <1>7
<1> HIDE DEF f, d, o, i, j, u
<1>11. /\ \A k \in A : f[k] \in 0 .. Cardinality(A) - 1 /\ f[k] \in Word
       /\ \A n \in 0 .. Cardinality(A) - 1 : \E k \in A : f[k] = n
  BY <1>9, LanesCounted
<1>12. \A k \in A : f[k] \in Int /\ Mask(f[k]) = f[k]  BY <1>11, MaskOfWord
<1>13. \A k \in A : VGet(z, k, d) = Mask(f[k])
  <2>1. DOMAIN f = Active(u) /\ \A k \in Active(u) : f[k] \in Int  BY <1>7, <1>10, <1>12
  <2>2. \A k \in Active(u) : VGet(VSet(u, d, f), k, d) = Mask(f[k])  BY <1>2, <1>7, <2>1, SetsRegister
  <2> QED  BY <1>7, <1>8, <2>2
<1>14. \A k \in A : z.v[k][2] = f[k]  BY <1>4, <1>12, <1>13
<1> HIDE DEF A
<1>15. \A n : n \in {z.v[k][2] : k \in A} <=> n \in 0 .. Cardinality(A) - 1
  <2>1. TAKE n
  <2>2. n \in {z.v[k][2] : k \in A} <=> \E k \in A : f[k] = n  BY <1>14
  <2> QED  BY <1>11, <2>2
<1>16. {z.v[k][2] : k \in A} = 0 .. Cardinality(A) - 1  BY <1>15
<1> QED  BY <1>16 DEF A

\* So CrossLane holds in every wave.
LEMMA CrossLaneHolds ==
  ASSUME NVgprs > 3, NRegs > 1, wave \in VState
  PROVE  CrossLane
<1>1. \A l \in Lane :
        LET wrote == VResult(V("v_writelane_b32", VReg(2), Null, S(0), K(l), Null), wave)
        IN  /\ VResult(V("v_readlane_b32", S(1), Null, VReg(2), K(l), Null), wrote).s[1] = wave.s[0]
            /\ \A k \in Lane \ {l} : wrote.v[k] = wave.v[k]
  <2>1. TAKE l \in Lane
  <2> DEFINE wrote == VResult(V("v_writelane_b32", VReg(2), Null, S(0), K(l), Null), wave)
  <2>2. /\ VResult(V("v_readlane_b32", S(1), Null, VReg(2), K(l), Null), wrote).s[1] = wave.s[0]
        /\ \A k \in Lane \ {l} : wrote.v[k] = wave.v[k]
    BY WrittenIsRead
  <2> QED  BY <2>2
<1> DEFINE counted == VRun(<<I("s_mov_b32", S(1), ExecReg, Null),
                             V("v_mbcnt_lo_u32_b32", VReg(2), Null, S(1), K(0), Null)>>, wave)
<1>2. {counted.v[k][2] : k \in Active(wave)} = 0 .. Cardinality(Active(wave)) - 1  BY LanesNumbered
<1> QED  BY <1>1, <1>2, Zenon DEF CrossLane

\* And all laws hold in every wave.
LEMMA VLawsOfState ==
  ASSUME NVgprs > 3, NRegs > 1, wave \in VState
  PROVE  VLawsHold
<1>1. NRegs > 0  BY SizeAssumption
<1>2. WideLanes /\ CrossLane  BY <1>1, WideLanesHold, CrossLaneHolds
<1>3. \A l \in VLaws : VLawful(l, wave)  BY VLawIsLawful
<1>4. \A w \in VLaws, l \in Lane :
        VGetPair(VResult(w.one, wave), l, w.one.d) = VGetPair(VRun(w.many, wave), l, w.one.d)
  BY <1>3 DEF VLawful
<1> QED  BY <1>2, <1>4 DEF VLawsHold

\* The laws of the vector instructions hold in every reachable state, for every
\* width, number of lanes and set of laws of the stated families.
THEOREM VLawsCorrect ==
  ASSUME NVgprs > 3, NRegs > 1
  PROVE  VSpec => []VLawsHold
<1>1. VTypeOK => VLawsHold  BY VLawsOfState DEF VTypeOK
<1> QED  BY <1>1, VTypeCorrect, PTL
=============================================================================
