----------------------------- MODULE Wave_proofs -----------------------------
(***************************************************************************)
(* The scalar and the vector instructions, for every width of a word, every*)
(* number of registers and lanes and every kernel.                         *)
(*                                                                         *)
(* The emulator and the oracle agree on every scalar instruction outside   *)
(* of Disputed, and a wave computes the addresses find_sites reports.  The *)
(* two programs treat operands differently.  The oracle cuts each one to a *)
(* word before it computes; the emulator computes with Python's integers   *)
(* and cuts the result.  So the first part is about what cutting preserves:*)
(* sums, products, low bits, fields, shifts and bits.                      *)
(*                                                                         *)
(* The second part is about the vector instructions: the two emulators     *)
(* differ by the repairs alone, a wave's values keep their types, and what *)
(* all lanes compute from SGPRs is what the scalar instruction computes.   *)
(***************************************************************************)
EXTENDS ScalarWave, VectorWave, TLAPS, FiniteSetTheorems, SequenceTheorems, WellFoundedInduction

-----------------------------------------------------------------------------
(* Induction and recursion on the naturals, for powers and for numbers     *)
(* given by their bits.                                                    *)

\* Induction, about a set: one that holds 0 and with n also n + 1 holds all numbers.
LEMMA Induction ==
  ASSUME NEW Holding, 0 \in Holding, \A n \in Nat : n \in Holding => n + 1 \in Holding
  PROVE  Nat \subseteq Holding
<1> DEFINE T == {n \in Nat : n \notin Holding}
<1>1. ASSUME T # {} PROVE FALSE
  <2>1. PICK m \in T : \A y \in T : ~(<<y, m>> \in OpToRel(<, Nat))
    BY <1>1, WFMin, NatLessThanWellFounded, Zenon
  <2>2. m \in Nat /\ m # 0
    OBVIOUS
  <2>3. m - 1 \in Nat /\ m - 1 < m /\ m = (m - 1) + 1
    BY <2>2
  <2>4. m - 1 \in Holding
    <3> SUFFICES ASSUME m - 1 \notin Holding PROVE FALSE
      OBVIOUS
    <3>1. m - 1 \in T
      BY <2>3
    <3> QED  BY <2>1, <2>2, <2>3, <3>1, Zenon DEF OpToRel
  <2> QED  BY <2>2, <2>3, <2>4
<1> QED  BY <1>1

\* One value behind the other.
Starts(g, n, Vals, v0, step) ==
  /\ g \in [0 .. n -> Vals]
  /\ g[0] = v0
  /\ \A k \in 1 .. n : g[k] = step[k][g[k - 1]]

\* A recursion has a beginning of every length.
LEMMA StartsExist ==
  ASSUME NEW Vals, NEW v0 \in Vals, NEW step \in [Nat -> [Vals -> Vals]]
  PROVE  \A n \in Nat : \E g : Starts(g, n, Vals, v0, step)
<1> DEFINE Holding == {n \in Nat : \E g : Starts(g, n, Vals, v0, step)}
<1>1. 0 \in Holding
  <2>1. Starts([k \in 0 .. 0 |-> v0], 0, Vals, v0, step)
    BY DEF Starts
  <2> QED  BY <2>1
<1>2. ASSUME NEW n \in Nat, n \in Holding PROVE n + 1 \in Holding
  <2>1. PICK g : Starts(g, n, Vals, v0, step)
    BY <1>2
  <2> DEFINE h == [k \in 0 .. n + 1 |-> IF k = n + 1 THEN step[k][g[k - 1]] ELSE g[k]]
  <2>2. h \in [0 .. n + 1 -> Vals]
    <3> SUFFICES ASSUME NEW k \in 0 .. n + 1 PROVE (IF k = n + 1 THEN step[k][g[k - 1]] ELSE g[k]) \in Vals
      OBVIOUS
    <3>1. CASE k = n + 1
      <4>1. g[n] \in Vals /\ step[n + 1] \in [Vals -> Vals]
        BY <2>1 DEF Starts
      <4>2. k - 1 = n
        BY <3>1
      <4> QED  BY <3>1, <4>1, <4>2
    <3>2. CASE k # n + 1
      BY <2>1, <3>2 DEF Starts
    <3> QED  BY <3>1, <3>2
  <2>3. h[0] = v0
    BY <2>1 DEF Starts
  <2>4. ASSUME NEW k \in 1 .. n + 1 PROVE h[k] = step[k][h[k - 1]]
    <3>1. h[k - 1] = g[k - 1]
      OBVIOUS
    <3>2. CASE k = n + 1
      BY <3>1, <3>2
    <3>3. CASE k # n + 1
      <4>1. k \in 1 .. n
        BY <3>3
      <4> QED  BY <2>1, <3>1, <4>1 DEF Starts
    <3> QED  BY <3>2, <3>3
  <2>5. Starts(h, n + 1, Vals, v0, step)
    <3> HIDE DEF h
    <3> QED  BY <2>2, <2>3, <2>4 DEF Starts
  <2> QED  BY <2>5
<1>3. Nat \subseteq Holding
  <2> HIDE DEF Holding
  <2> QED  BY <1>1, <1>2, Induction
<1> QED  BY <1>3

\* Two beginnings of a recursion agree as far as the shorter one goes.
LEMMA StartsAgree ==
  ASSUME NEW Vals, NEW v0 \in Vals, NEW step \in [Nat -> [Vals -> Vals]],
         NEW g, NEW n \in Nat, Starts(g, n, Vals, v0, step),
         NEW h, NEW m \in Nat, Starts(h, m, Vals, v0, step), n <= m
  PROVE  \A k \in 0 .. n : g[k] = h[k]
<1> DEFINE Holding == {k \in Nat : k <= n => g[k] = h[k]}
<1>1. 0 \in Holding
  BY DEF Starts
<1>2. ASSUME NEW k \in Nat, k \in Holding PROVE k + 1 \in Holding
  <2> SUFFICES ASSUME k + 1 <= n PROVE g[k + 1] = h[k + 1]
    OBVIOUS
  <2>1. g[k] = h[k]
    BY <1>2
  <2>2. k + 1 \in 1 .. n /\ k + 1 \in 1 .. m /\ (k + 1) - 1 = k
    OBVIOUS
  <2>3. g[k + 1] = step[k + 1][g[k]]
    BY <2>2 DEF Starts
  <2>4. h[k + 1] = step[k + 1][h[k]]
    BY <2>2 DEF Starts
  <2> QED  BY <2>1, <2>3, <2>4
<1>3. Nat \subseteq Holding
  <2> HIDE DEF Holding
  <2> QED  BY <1>1, <1>2, Induction
<1> QED  BY <1>3

\* A function over the numbers may be given by its first value and by how each
\* value comes from the one before it.
Follows(f, v0, step) == f = [n \in Nat |-> IF n = 0 THEN v0 ELSE step[n][f[n - 1]]]

\* So the recursion defines a function on all numbers.
LEMMA Recursion ==
  ASSUME NEW Vals, NEW v0 \in Vals, NEW step \in [Nat -> [Vals -> Vals]]
  PROVE  \E f \in [Nat -> Vals] : Follows(f, v0, step)
<1> DEFINE G(n) == CHOOSE g : Starts(g, n, Vals, v0, step)
           f == [n \in Nat |-> G(n)[n]]
<1>1. ASSUME NEW n \in Nat PROVE Starts(G(n), n, Vals, v0, step)
  <2>1. \E g : Starts(g, n, Vals, v0, step)
    BY StartsExist
  <2> QED  BY <2>1, Zenon
<1>2. ASSUME NEW n \in Nat PROVE f[n] = G(n)[n] /\ f[n] \in Vals
  <2>1. Starts(G(n), n, Vals, v0, step)
    BY <1>1
  <2> HIDE DEF G
  <2>2. G(n)[n] \in Vals
    BY <2>1 DEF Starts
  <2> QED  BY <2>2
<1>3. f[0] = v0
  <2>1. Starts(G(0), 0, Vals, v0, step)
    BY <1>1
  <2> HIDE DEF G, f
  <2> QED  BY <1>2, <2>1 DEF Starts
<1>4. ASSUME NEW n \in Nat, n # 0 PROVE f[n] = step[n][f[n - 1]]
  <2>1. n - 1 \in Nat /\ n - 1 <= n /\ n \in 1 .. n /\ n - 1 \in 0 .. n - 1
    BY <1>4
  <2>2. Starts(G(n - 1), n - 1, Vals, v0, step) /\ Starts(G(n), n, Vals, v0, step)
    BY <1>1, <2>1
  <2> HIDE DEF G, f
  <2>3. G(n - 1)[n - 1] = G(n)[n - 1]
    BY <2>1, <2>2, StartsAgree
  <2>4. G(n)[n] = step[n][G(n)[n - 1]]
    BY <2>1, <2>2 DEF Starts
  <2> QED  BY <1>2, <2>1, <2>3, <2>4
<1>5. f \in [Nat -> Vals]
  <2> HIDE DEF G
  <2>1. \A n \in Nat : G(n)[n] \in Vals
    BY <1>2
  <2> QED  BY <2>1
<1>6. f = [n \in Nat |-> IF n = 0 THEN v0 ELSE step[n][f[n - 1]]]
  <2> HIDE DEF G
  <2>1. f = [n \in Nat |-> f[n]]
    OBVIOUS
  <2> HIDE DEF f
  <2>2. \A n \in Nat : f[n] = IF n = 0 THEN v0 ELSE step[n][f[n - 1]]
    BY <1>3, <1>4
  <2> QED  BY <2>1, <2>2, Zenon
<1> QED
  <2> HIDE DEF f
  <2>1. Follows(f, v0, step)
    BY <1>6 DEF Follows
  <2> QED  BY <1>5, <2>1

\* Pow2 are the powers of two.
LEMMA PowStep == Pow2[0] = 1 /\ \A n \in Nat : Pow2[n] \in Nat /\ Pow2[n] > 0 /\ Pow2[n + 1] = 2 * Pow2[n]
<1> DEFINE step == [n \in Nat |-> [v \in Nat |-> 2 * v]]
<1>1. step \in [Nat -> [Nat -> Nat]]
  OBVIOUS
<1>2. PICK f \in [Nat -> Nat] : Follows(f, 1, step)
  <2>1. 1 \in Nat
    OBVIOUS
  <2> HIDE DEF step
  <2> QED  BY <1>1, <2>1, Recursion
<1>3. f = [n \in Nat |-> IF n = 0 THEN 1 ELSE 2 * f[n - 1]]
  <2>1. \A n \in Nat : (IF n = 0 THEN 1 ELSE step[n][f[n - 1]]) = IF n = 0 THEN 1 ELSE 2 * f[n - 1]
    <3> SUFFICES ASSUME NEW n \in Nat, n # 0 PROVE step[n][f[n - 1]] = 2 * f[n - 1]
      OBVIOUS
    <3>1. f[n - 1] \in Nat
      OBVIOUS
    <3> QED  BY <3>1
  <2> HIDE DEF step
  <2> QED  BY <1>2, <2>1, Zenon DEF Follows
<1>4. Pow2 = [n \in Nat |-> IF n = 0 THEN 1 ELSE 2 * Pow2[n - 1]]
  BY <1>3, Zenon DEF Pow2
<1>5. Pow2[0] = 1
  BY <1>4
<1>6. \A n \in Nat : Pow2[n + 1] = 2 * Pow2[n]
  <2> SUFFICES ASSUME NEW n \in Nat PROVE Pow2[n + 1] = 2 * Pow2[n]
    OBVIOUS
  <2>1. n + 1 \in Nat /\ n + 1 # 0 /\ (n + 1) - 1 = n
    OBVIOUS
  <2>2. Pow2[n + 1] = 2 * Pow2[(n + 1) - 1]
    BY <1>4, <2>1
  <2> QED  BY <2>1, <2>2
<1> DEFINE Holding == {n \in Nat : Pow2[n] \in Nat /\ Pow2[n] > 0}
<1>7. Nat \subseteq Holding
  <2>1. 0 \in Holding
    BY <1>5
  <2>2. ASSUME NEW n \in Nat, n \in Holding PROVE n + 1 \in Holding
    BY <1>6, <2>2
  <2> HIDE DEF Holding
  <2> QED  BY <2>1, <2>2, Induction
<1> QED  BY <1>5, <1>6, <1>7

\* The power of a sum is the product of the powers.
LEMMA PowSum == \A m, n \in Nat : Pow2[m + n] = Pow2[m] * Pow2[n]
<1> SUFFICES ASSUME NEW m \in Nat PROVE \A n \in Nat : Pow2[m + n] = Pow2[m] * Pow2[n]
  OBVIOUS
<1> DEFINE Holding == {n \in Nat : Pow2[m + n] = Pow2[m] * Pow2[n]}
<1>1. 0 \in Holding
  BY PowStep
<1>2. ASSUME NEW n \in Nat, n \in Holding PROVE n + 1 \in Holding
  <2>1. Pow2[m + (n + 1)] = 2 * Pow2[m + n]
    <3>1. m + n \in Nat /\ m + (n + 1) = (m + n) + 1
      OBVIOUS
    <3> QED  BY <3>1, PowStep
  <2>2. Pow2[m + n] = Pow2[m] * Pow2[n]
    BY <1>2
  <2>3. Pow2[n + 1] = 2 * Pow2[n]
    BY PowStep
  <2>4. Pow2[m] \in Nat /\ Pow2[n] \in Nat
    BY PowStep
  <2>5. \A a, b \in Nat : 2 * (a * b) = a * (2 * b)
    OBVIOUS
  <2>6. Pow2[m + (n + 1)] = Pow2[m] * Pow2[n + 1]
    BY <2>1, <2>2, <2>3, <2>4, <2>5
  <2> QED  BY <2>6
<1>3. Nat \subseteq Holding
  <2> HIDE DEF Holding
  <2> QED  BY <1>1, <1>2, Induction
<1> QED  BY <1>3
-----------------------------------------------------------------------------
\* Quotient and remainder, of negative numbers too.
LEMMA Division ==
  ASSUME NEW x \in Int, NEW d \in Nat \ {0}
  PROVE  x \div d \in Int /\ x % d \in 0 .. d - 1 /\ x = d * (x \div d) + (x % d)
OBVIOUS

\* The next multiple of d is at least d further on.
LEMMA Grows ==
  ASSUME NEW d \in Nat \ {0}, NEW p \in Int, NEW q \in Int, p < q
  PROVE  d * p + d <= d * q
<1>1. PICK e \in Nat : q = p + 1 + e
  <2>1. q - p - 1 \in Nat /\ q = p + 1 + (q - p - 1)
    OBVIOUS
  <2> QED  BY <2>1
<1>2. d * q = d * p + d + d * e
  BY <1>1
<1>3. d * e \in Nat /\ d * p \in Int
  OBVIOUS
<1> QED  BY ONLY <1>2, <1>3, d \in Nat

\* A number has one quotient and one remainder.
LEMMA OneQuotient ==
  ASSUME NEW d \in Nat \ {0}, NEW p \in Int, NEW q \in Int,
         NEW r \in 0 .. d - 1, NEW s \in 0 .. d - 1, d * p + r = d * q + s
  PROVE  p = q /\ r = s
<1>1. d * p \in Int /\ d * q \in Int /\ d \in Nat /\ r \in Nat /\ s \in Nat /\ r < d /\ s < d
  OBVIOUS
<1>2. CASE p < q
  <2>1. d * p + d <= d * q
    BY <1>2, Grows
  <2> QED  BY ONLY <1>1, <2>1, d * p + r = d * q + s
<1>3. CASE q < p
  <2>1. d * q + d <= d * p
    BY <1>3, Grows
  <2> QED  BY ONLY <1>1, <2>1, d * p + r = d * q + s
<1>4. CASE p = q
  BY <1>1, <1>4
<1> QED  BY <1>2, <1>3, <1>4

\* A number that is written with a quotient and a remainder has these.
LEMMA Quotient ==
  ASSUME NEW d \in Nat \ {0}, NEW q \in Int, NEW r \in 0 .. d - 1
  PROVE  (d * q + r) \div d = q /\ (d * q + r) % d = r
<1> DEFINE x == d * q + r
<1>1. x \in Int
  OBVIOUS
<1>2. x \div d \in Int /\ x % d \in 0 .. d - 1 /\ x = d * (x \div d) + (x % d)
  <2> HIDE DEF x
  <2> QED  BY <1>1, Division
<1>3. d * (x \div d) + (x % d) = d * q + r
  BY <1>2
<1> HIDE DEF x
<1>4. x \div d = q /\ x % d = r
  BY <1>2, <1>3, OneQuotient
<1> QED  BY <1>4 DEF x

\* Numbers that have the low word in common.
Same(x, y) == \E k \in Int : x = M * k + y

\* The number of words, 2^W, is even, and at least two.
LEMMA MType == M \in Nat \ {0} /\ W \in Nat /\ M > 1 /\ M % 2 = 0
<1>1. W \in Nat /\ W - 1 \in Nat /\ W = (W - 1) + 1
  BY WidthAssumption
<1>2. M = 2 * Pow2[W - 1]
  BY <1>1, PowStep DEF M
<1>3. Pow2[W - 1] \in Nat /\ Pow2[W - 1] > 0
  BY <1>1, PowStep
<1> QED  BY <1>1, <1>2, <1>3

\* What is cut to a word is one.
LEMMA MaskType == ASSUME NEW x \in Int PROVE Mask(x) \in Word /\ Mask(x) \in Nat
BY MType DEF Mask, Word, Top

\* A word is not changed by cutting it.
LEMMA MaskOfWord == ASSUME NEW x \in Word PROVE Mask(x) = x /\ x \in Nat
<1>1. x \in Nat /\ x < M /\ M \in Nat \ {0}
  BY MType DEF Word, Top
<1>2. x = M * 0 + x /\ x \in 0 .. M - 1
  BY <1>1
<1>3. (M * 0 + x) % M = x
  BY <1>1, <1>2, Quotient
<1> QED  BY <1>1, <1>2, <1>3 DEF Mask

\* A number and its word are the same modulo 2^W.
LEMMA SameMask == ASSUME NEW x \in Int PROVE Same(x, Mask(x)) /\ Same(Mask(x), x)
<1>1. x \div M \in Int /\ x = M * (x \div M) + Mask(x) /\ Mask(x) \in Int
  BY Division, MType DEF Mask
<1>2. Same(x, Mask(x))
  BY <1>1 DEF Same
<1> DEFINE k == x \div M
<1>3. Mask(x) = M * (-k) + x /\ -k \in Int
  <2>1. \A q \in Int : M * (-q) = -(M * q) /\ M * q \in Int
    BY MType
  <2> HIDE DEF k
  <2>2. k \in Int /\ x = M * k + Mask(x) /\ Mask(x) \in Int
    BY <1>1 DEF k
  <2> QED  BY <2>1, <2>2
<1>4. Same(Mask(x), x)
  <2> HIDE DEF k
  <2> QED  BY <1>3 DEF Same
<1> QED  BY <1>2, <1>4

\* Numbers that are the same modulo 2^W have one word.
LEMMA MaskSame ==
  ASSUME NEW x \in Int, NEW y \in Int, Same(x, y)
  PROVE  Mask(x) = Mask(y)
<1>1. PICK k \in Int : x = M * k + y
  BY DEF Same
<1>2. PICK q \in Int, r \in 0 .. M - 1 : y = M * q + r /\ r = Mask(y)
  BY Division, MType DEF Mask
<1>3. x = M * (k + q) + r
  <2>1. M * (k + q) = M * k + M * q
    BY MType
  <2> QED  BY <1>1, <1>2, <2>1, MType
<1>4. Mask(x) = r
  <2>1. k + q \in Int
    OBVIOUS
  <2> QED  BY <1>3, <2>1, Quotient, MType DEF Mask
<1> QED  BY <1>2, <1>4

\* Sums and differences of numbers cut before or after are the same.
LEMMA SameSum ==
  ASSUME NEW a \in Int, NEW b \in Int, NEW x \in Int, NEW y \in Int, Same(a, x), Same(b, y)
  PROVE  Same(a + b, x + y) /\ Same(a - b, x - y)
<1>1. PICK k \in Int : a = M * k + x
  BY DEF Same
<1>2. PICK q \in Int : b = M * q + y
  BY DEF Same
<1>3. M * (k + q) = M * k + M * q /\ M * (k - q) = M * k - M * q /\ M * k \in Int /\ M * q \in Int
  BY MType
<1>4. a + b = M * (k + q) + (x + y) /\ a - b = M * (k - q) + (x - y)
  BY <1>1, <1>2, <1>3
<1> QED  BY <1>4 DEF Same

\* So are products.
LEMMA SameProduct ==
  ASSUME NEW a \in Int, NEW b \in Int, NEW x \in Int, NEW y \in Int, Same(a, x), Same(b, y)
  PROVE  Same(a * b, x * y)
<1>1. PICK k \in Int : a = M * k + x
  BY DEF Same
<1>2. PICK q \in Int : b = M * q + y
  BY DEF Same
<1>3. M \in Int
  BY MType
<1>4. (M * k + x) * (M * q + y) = M * (k * (M * q + y) + x * q) + x * y
  BY <1>3
<1>5. k * (M * q + y) + x * q \in Int
  BY <1>3
<1> QED  BY <1>1, <1>2, <1>4, <1>5 DEF Same

\* The signed reading of a word is the same modulo 2^W.
LEMMA SignedSame == ASSUME NEW x \in Int PROVE Signed(x) \in Int /\ Same(Signed(x), x)
<1>1. Low(x, W) = Mask(x)
  BY DEF Low, Mask, M
<1>2. CASE Signed(x) = Mask(x)
  BY <1>2, SameMask, MaskType
<1>3. CASE Signed(x) = Mask(x) - M
  <2>1. PICK k \in Int : Mask(x) = M * k + x
    BY SameMask DEF Same
  <2>2. M * (k - 1) = M * k - M /\ M * k \in Int /\ M \in Int
    BY MType
  <2>3. Signed(x) = M * (k - 1) + x /\ k - 1 \in Int
    BY <1>3, <2>1, <2>2
  <2>4. Signed(x) \in Int
    BY <1>3, MaskType, MType
  <2> QED  BY <2>3, <2>4 DEF Same
<1> QED  BY <1>1, <1>2, <1>3 DEF Signed, SignedLow, M

\* The lower bits of the low word are those of the number.
LEMMA LowOfMask ==
  ASSUME NEW x \in Int, NEW n \in 0 .. W
  PROVE  Low(Mask(x), n) = Low(x, n)
<1>1. n \in Nat /\ W - n \in Nat /\ n + (W - n) = W
  BY MType
<1>2. M = Pow2[n] * Pow2[W - n]
  BY <1>1, PowSum DEF M
<1> DEFINE p == Pow2[n]
           r == Pow2[W - n]
<1>3. p \in Nat \ {0} /\ r \in Nat
  BY <1>1, PowStep
<1>4. PICK k \in Int : Mask(x) = M * k + x
  BY SameMask DEF Same
<1>5. PICK q \in Int, s \in 0 .. p - 1 : x = p * q + s /\ s = x % p
  <2> HIDE DEF p
  <2> QED  BY <1>3, Division
<1>6. Mask(x) = p * (r * k + q) + s
  <2> HIDE DEF p, r
  <2>1. (p * r) * k + (p * q + s) = p * (r * k + q) + s
    BY <1>3
  <2> QED  BY <1>2, <1>4, <1>5, <2>1 DEF p, r
<1>7. Mask(x) % p = s
  <2> HIDE DEF p, r
  <2>1. r * k + q \in Int
    BY <1>3
  <2> QED  BY <1>3, <1>6, <2>1, Quotient
<1> QED  BY <1>5, <1>7 DEF Low

\* The signed reading of low bits does not see that the number was cut.
LEMMA SignedLowOfMask ==
  ASSUME NEW x \in Int, NEW n \in 0 .. W
  PROVE  SignedLow(Mask(x), n) = SignedLow(x, n)
BY LowOfMask DEF SignedLow

\* Nor does the signed reading of the word.
LEMMA SignedOfMask == ASSUME NEW x \in Int PROVE Signed(Mask(x)) = Signed(x)
<1>1. W \in 0 .. W
  BY MType
<1> QED  BY <1>1, SignedLowOfMask DEF Signed

\* Cutting twice is cutting once; the complement does not see it.
LEMMA MaskOfMask == ASSUME NEW x \in Int PROVE Mask(Mask(x)) = Mask(x) /\ Not(Mask(x)) = Not(x)
BY MaskType, MaskOfWord DEF Not

\* The bits of a field that ends within the word are those of the number.
LEMMA FieldOfMask ==
  ASSUME NEW x \in Int, NEW o \in Nat, NEW w \in Nat, o + w <= W
  PROVE  Low(Shr(Mask(x), o), w) = Low(Shr(x, o), w)
<1> DEFINE p == Pow2[o]
           r == Pow2[w]
           t == Pow2[W - (o + w)]
<1>1. p \in Nat \ {0} /\ r \in Nat \ {0} /\ t \in Nat
  <2>1. W - (o + w) \in Nat
    BY MType
  <2> QED  BY <2>1, PowStep
<1>2. M = p * (r * t)
  <2>1. o + w \in Nat /\ W - (o + w) \in Nat /\ (o + w) + (W - (o + w)) = W
    BY MType
  <2>2. M = Pow2[o + w] * t
    BY <2>1, PowSum DEF M
  <2>3. Pow2[o + w] = p * r
    BY PowSum
  <2>4. (p * r) * t = p * (r * t)
    <3> HIDE DEF p, r, t
    <3> QED  BY <1>1
  <2> QED  BY <2>2, <2>3, <2>4
<1>3. PICK k \in Int : Mask(x) = M * k + x
  BY SameMask DEF Same
<1>4. PICK q \in Int, s \in 0 .. p - 1 : x = p * q + s /\ q = x \div p
  <2> HIDE DEF p
  <2> QED  BY <1>1, Division
<1>5. Mask(x) \div p = r * (t * k) + q
  <2> HIDE DEF p, r, t
  <2>1. (p * (r * t)) * k + (p * q + s) = p * (r * (t * k) + q) + s
    BY <1>1
  <2>2. Mask(x) = p * (r * (t * k) + q) + s /\ r * (t * k) + q \in Int
    BY <1>1, <1>2, <1>3, <1>4, <2>1
  <2> QED  BY <1>1, <2>2, Quotient
<1>6. PICK a \in Int, b \in 0 .. r - 1 : q = r * a + b /\ b = q % r
  <2> HIDE DEF r
  <2> QED  BY <1>1, Division
<1>7. (r * (t * k) + q) % r = b
  <2> HIDE DEF p, r, t
  <2>1. r * (t * k) + (r * a + b) = r * (t * k + a) + b /\ t * k + a \in Int
    BY <1>1
  <2>2. r * (t * k) + q = r * (t * k + a) + b
    BY <1>6, <2>1
  <2> QED  BY <1>1, <2>1, <2>2, Quotient
<1>8. (Mask(x) \div p) % r = (x \div p) % r
  <2> HIDE DEF p, r, t
  <2> QED  BY <1>4, <1>5, <1>6, <1>7
<1> QED  BY <1>8 DEF Low, Shr

\* The quotient of a number below p * r is below r.
LEMMA SmallQuotient ==
  ASSUME NEW p \in Nat \ {0}, NEW r \in Nat, NEW x \in Nat, x < p * r
  PROVE  x \div p \in 0 .. r - 1
<1>1. PICK q \in Int, s \in 0 .. p - 1 : x = p * q + s /\ q = x \div p
  BY Division
<1>2. p * q \in Int /\ p * r \in Int
  OBVIOUS
<1>3. ~(q < 0)
  <2> SUFFICES ASSUME q < 0 PROVE FALSE
    OBVIOUS
  <2>1. p * q + p <= p * 0 /\ p * 0 = 0
    BY Grows
  <2> QED  BY <1>1, <1>2, <2>1
<1>4. ~(r <= q)
  <2> SUFFICES ASSUME r <= q PROVE FALSE
    OBVIOUS
  <2>1. CASE r = q
    BY <1>1, <1>2, <2>1
  <2>2. CASE r < q
    <3>1. p * r + p <= p * q
      BY <2>2, Grows
    <3> QED  BY <1>1, <1>2, <3>1
  <2> QED  BY <2>1, <2>2
<1> QED  BY <1>1, <1>3, <1>4

\* What is left of a word behind o bits fits in the others.
LEMMA RestOfWord ==
  ASSUME NEW x \in Word, NEW o \in 0 .. W
  PROVE  Shr(x, o) \in 0 .. Pow2[W - o] - 1
<1>1. o \in Nat /\ W - o \in Nat /\ o + (W - o) = W
  BY MType
<1>2. Pow2[o] \in Nat \ {0} /\ Pow2[W - o] \in Nat
  BY <1>1, PowStep
<1>3. M = Pow2[o] * Pow2[W - o]
  BY <1>1, PowSum DEF M
<1>4. x \in Nat /\ x < M
  BY MType DEF Word, Top
<1>5. x \div Pow2[o] \in 0 .. Pow2[W - o] - 1
  BY <1>2, <1>3, <1>4, SmallQuotient
<1> QED  BY <1>5 DEF Shr

\* The low n bits of a number of n bits are the number.
LEMMA LowOfSmall ==
  ASSUME NEW n \in Nat, NEW x \in 0 .. Pow2[n] - 1
  PROVE  Low(x, n) = x
<1>1. Pow2[n] \in Nat \ {0}
  BY PowStep
<1>2. x = Pow2[n] * 0 + x
  BY <1>1
<1>3. (Pow2[n] * 0 + x) % Pow2[n] = x
  BY <1>1, Quotient
<1> QED  BY <1>2, <1>3 DEF Low

\* Powers of two grow.
LEMMA PowGrows == ASSUME NEW m \in Nat, NEW n \in Nat, m <= n PROVE Pow2[m] <= Pow2[n]
<1>1. n - m \in Nat /\ m + (n - m) = n
  OBVIOUS
<1>2. Pow2[n] = Pow2[m] * Pow2[n - m]
  BY <1>1, PowSum
<1>3. Pow2[m] \in Nat /\ Pow2[n - m] \in Nat /\ Pow2[n - m] > 0
  BY <1>1, PowStep
<1>4. \A a, b \in Nat : b > 0 => a <= a * b
  <2> SUFFICES ASSUME NEW a \in Nat, NEW b \in Nat, b > 0 PROVE a <= a * b
    OBVIOUS
  <2>1. b - 1 \in Nat /\ a * b = a * (b - 1) + a /\ a * (b - 1) \in Nat
    OBVIOUS
  <2> QED  BY <2>1
<1> QED  BY <1>2, <1>3, <1>4

\* A word has the bits of the number it was cut from.
LEMMA BitOfMask ==
  ASSUME NEW x \in Int, NEW n \in 0 .. W - 1
  PROVE  Bit(Mask(x), n) = Bit(x, n)
<1>1. n \in Nat /\ n + 1 <= W /\ 1 \in Nat /\ Pow2[1] = 2
  <2>1. Pow2[0 + 1] = 2 * Pow2[0] /\ Pow2[0] = 1
    BY PowStep
  <2> QED  BY <2>1, MType
<1>2. Low(Shr(Mask(x), n), 1) = Low(Shr(x, n), 1)
  BY <1>1, FieldOfMask
<1> QED  BY <1>1, <1>2 DEF Bit, Low, Shr

\* And the same set of bits that are 1.
LEMMA OnesOfMask == ASSUME NEW x \in Int PROVE Ones(Mask(x)) = Ones(x)
BY BitOfMask DEF Ones

\* The logical operations do not see that their operands were cut.
LEMMA LogicOfMask ==
  ASSUME NEW x \in Int, NEW y \in Int
  PROVE  /\ And(Mask(x), Mask(y)) = And(x, y)
         /\ Or(Mask(x), Mask(y)) = Or(x, y)
         /\ Xor(Mask(x), Mask(y)) = Xor(x, y)
BY OnesOfMask DEF And, Or, Xor

\* Nor do the shift counts, of 5 or 6 bits.
LEMMA CountOfMask ==
  ASSUME NEW y \in Int
  PROVE  Mask(y) % W = y % W /\ Mask(y) % (2 * W) = y % (2 * W)
<1>1. W \in Nat \ {0} /\ 2 * W \in Nat \ {0}
  BY WidthAssumption
<1>2. PICK c \in Int : M = (2 * W) * c
  <2>1. M \in Int /\ M % (2 * W) = 0
    BY MType, CountAssumption
  <2>2. M \div (2 * W) \in Int /\ M = (2 * W) * (M \div (2 * W)) + 0
    <3> DEFINE v == 2 * W
    <3>1. v \in Nat \ {0} /\ M % v = 0
      BY <1>1, <2>1
    <3> HIDE DEF v
    <3>2. M \div v \in Int /\ M = v * (M \div v) + 0
      BY <2>1, <3>1, Division
    <3> QED  BY <3>2 DEF v
  <2>3. (2 * W) * (M \div (2 * W)) + 0 = (2 * W) * (M \div (2 * W))
    <3>1. \A a, b \in Int : a * b + 0 = a * b
      OBVIOUS
    <3> QED  BY <1>1, <2>2, <3>1
  <2> QED  BY <2>2, <2>3
<1>3. PICK k \in Int : Mask(y) = M * k + y
  BY SameMask DEF Same
<1>4. ASSUME NEW d \in Nat \ {0}, NEW e \in Int, M = d * e PROVE Mask(y) % d = y % d
  <2>1. PICK q \in Int, r \in 0 .. d - 1 : y = d * q + r /\ r = y % d
    BY Division
  <2>2. (d * e) * k + (d * q + r) = d * (e * k + q) + r /\ e * k + q \in Int
    OBVIOUS
  <2>3. Mask(y) = d * (e * k + q) + r
    BY <1>3, <1>4, <2>1, <2>2
  <2>4. (d * (e * k + q) + r) % d = r
    BY <2>2, Quotient
  <2> QED  BY <2>1, <2>3, <2>4
<1>5. M = W * (2 * c) /\ 2 * c \in Int
  BY <1>1, <1>2
<1> QED  BY <1>1, <1>2, <1>4, <1>5

\* A shift to the left loses nothing by cutting first; shifts give numbers.
LEMMA ShiftOfMask ==
  ASSUME NEW x \in Int, NEW n \in Nat
  PROVE  Mask(Shl(Mask(x), n)) = Mask(Shl(x, n)) /\ Shl(x, n) \in Int /\ Shr(x, n) \in Int
<1> DEFINE p == Pow2[n]
<1>1. p \in Nat \ {0} /\ Mask(x) \in Int
  BY PowStep, MaskType
<1> HIDE DEF p
<1>2. Same(p, p)
  <2>1. p = M * 0 + p
    BY <1>1, MType
  <2> QED  BY <2>1 DEF Same
<1>3. Same(Mask(x) * p, x * p) /\ Mask(x) * p \in Int /\ x * p \in Int
  <2>1. Same(Mask(x), x) /\ p \in Int
    BY <1>1, SameMask
  <2>2. Same(Mask(x) * p, x * p)
    BY <1>1, <1>2, <2>1, SameProduct
  <2> QED  BY <1>1, <2>1, <2>2
<1>4. Mask(Mask(x) * p) = Mask(x * p)
  BY <1>3, MaskSame
<1>5. x \div p \in Int
  BY <1>1
<1> QED  BY <1>3, <1>4, <1>5 DEF Shl, Shr, p

\* What OfOnes adds up is a word.
LEMMA OfOnesType == ASSUME NEW B PROVE OfOnes(B) \in Word
<1> DEFINE add == [n \in Nat |-> IF n - 1 \in B THEN Pow2[n - 1] ELSE 0]
           step == [n \in Nat |-> [v \in Int |-> v + IF n # 0 /\ n - 1 \in B THEN Pow2[n - 1] ELSE 0]]
           sum == CHOOSE below : below =
             [n \in Nat |-> IF n = 0 THEN 0 ELSE below[n - 1] + IF n - 1 \in B THEN Pow2[n - 1] ELSE 0]
<1>1. step \in [Nat -> [Int -> Int]]
  <2> SUFFICES ASSUME NEW n \in Nat, NEW v \in Int PROVE v + (IF n # 0 /\ n - 1 \in B THEN Pow2[n - 1] ELSE 0) \in Int
    OBVIOUS
  <2>1. CASE n = 0
    BY <2>1
  <2>2. CASE n # 0
    <3>1. Pow2[n - 1] \in Int
      BY <2>2, PowStep
    <3> QED  BY <3>1
  <2> QED  BY <2>1, <2>2
<1>2. PICK f \in [Nat -> Int] : Follows(f, 0, step)
  <2>1. 0 \in Int
    OBVIOUS
  <2> HIDE DEF step
  <2> QED  BY <1>1, <2>1, Recursion
<1>3. f = [n \in Nat |-> IF n = 0 THEN 0 ELSE f[n - 1] + IF n - 1 \in B THEN Pow2[n - 1] ELSE 0]
  <2>1. ASSUME NEW n \in Nat, n # 0 PROVE step[n][f[n - 1]] = f[n - 1] + IF n - 1 \in B THEN Pow2[n - 1] ELSE 0
    <3>1. f[n - 1] \in Int
      BY <2>1
    <3> QED  BY <2>1, <3>1
  <2>2. \A n \in Nat : (IF n = 0 THEN 0 ELSE step[n][f[n - 1]])
                         = IF n = 0 THEN 0 ELSE f[n - 1] + IF n - 1 \in B THEN Pow2[n - 1] ELSE 0
    <3> HIDE DEF step
    <3> QED  BY <2>1
  <2> HIDE DEF step
  <2> QED  BY <1>2, <2>2, Zenon DEF Follows
<1>4. sum = [n \in Nat |-> IF n = 0 THEN 0 ELSE sum[n - 1] + IF n - 1 \in B THEN Pow2[n - 1] ELSE 0]
  BY <1>3, Zenon
<1> DEFINE G == {n \in Nat : sum[n] \in 0 .. Pow2[n] - 1}
<1>5. Nat \subseteq G
  <2>1. sum[0] = 0 /\ \A n \in Nat : sum[n + 1] = sum[n] + IF n \in B THEN Pow2[n] ELSE 0
    <3> HIDE DEF sum
    <3>1. sum[0] = 0
      BY <1>4
    <3>2. ASSUME NEW n \in Nat PROVE sum[n + 1] = sum[n] + IF n \in B THEN Pow2[n] ELSE 0
      <4>1. n + 1 \in Nat /\ n + 1 # 0 /\ (n + 1) - 1 = n
        OBVIOUS
      <4>2. sum[n + 1] = sum[(n + 1) - 1] + IF (n + 1) - 1 \in B THEN Pow2[(n + 1) - 1] ELSE 0
        BY <1>4, <4>1
      <4> QED  BY <4>1, <4>2
    <3> QED  BY <3>1, <3>2
  <2> HIDE DEF sum
  <2>2. 0 \in G
    BY <2>1, PowStep
  <2>3. ASSUME NEW n \in Nat, n \in G PROVE n + 1 \in G
    <3>1. sum[n] \in 0 .. Pow2[n] - 1 /\ Pow2[n] \in Nat /\ Pow2[n + 1] = 2 * Pow2[n]
      BY <2>3, PowStep
    <3>2. sum[n + 1] = sum[n] \/ sum[n + 1] = sum[n] + Pow2[n]
      BY <2>1, <3>1
    <3>3. sum[n + 1] \in 0 .. Pow2[n + 1] - 1
      BY <3>1, <3>2
    <3> QED  BY <3>3
  <2> HIDE DEF G
  <2> QED  BY <2>2, <2>3, Induction
<1>6. OfOnes(B) = sum[W]
  BY DEF OfOnes
<1> HIDE DEF sum
<1> QED  BY <1>5, <1>6, MType DEF Word, Top, M

-----------------------------------------------------------------------------
(* What the handlers do, one kind of them after the other.                 *)

\* The operations of Core reach its handlers, unless Core8 takes their packed field form.
LEMMA IsCore ==
  ASSUME NEW st0, NEW i, i.op \in CoreOps, ~FieldForm(i)
  PROVE  Result(i, st0) = CoreResult(i, st0)
<1>1. i.op \notin IsaOps
  BY DEF CoreOps, CoreCompares, CoreLogic, SaveExecs, CoreArith, CoreShifts, IsaOps
<1>2. i.op \notin E16Ops
  BY DEF CoreOps, CoreCompares, CoreLogic, SaveExecs, CoreArith, CoreShifts, E16Ops
<1>3. i.op \notin SwinOps
  BY DEF CoreOps, CoreCompares, CoreLogic, SaveExecs, CoreArith, CoreShifts, SwinOps
<1>4. i.op \notin Core8Ops
  BY DEF CoreOps, CoreCompares, CoreLogic, SaveExecs, CoreArith, CoreShifts, Core8Ops, CmpKs
<1> QED  BY <1>1, <1>2, <1>3, <1>4 DEF Result

MainOps ==
  CoreCompares \cup CoreLogic \cup SaveExecs \cup CoreArith \cup CoreShifts \cup
  {"s_mov_b32", "s_cselect_b32", "s_add_u32", "s_addc_u32", "s_lshl_b64"}
MoreOps ==
  {"s_bfe_u32", "s_bfe_i32", "s_cmp_ge_i32", "s_min_i32", "s_sext_i32_i8",
                 "s_sext_i32_i16", "s_movk_i32"}

\* The same of those of MainOps.
LEMMA IsMain ==
  ASSUME NEW st0, NEW i, i.op \in MainOps
  PROVE  Result(i, st0) = CoreMain(i, st0)
<1>1. i.op \in CoreOps /\ ~FieldForm(i)
  BY DEF MainOps, CoreOps, FieldForm, CoreCompares, CoreLogic, SaveExecs, CoreArith, CoreShifts
<1>2. i.op \notin MoreOps /\ i.op # "s_mov_b64"
  BY DEF MainOps, MoreOps, CoreCompares, CoreLogic, SaveExecs, CoreArith, CoreShifts
<1> QED  BY <1>1, <1>2, IsCore DEF CoreResult, MoreOps

\* The arithmetic handlers of Core write their value to the destination.
LEMMA IsArith ==
  ASSUME NEW st0, NEW i, i.op \in CoreArith
  PROVE  Result(i, st0) = Set(st0, i.d, CoreArithValue(i.op, Get(st0, i.a), Get(st0, i.b)))
<1>1. /\ i.op \notin CoreCompares /\ i.op \notin CoreLogic /\ i.op \notin SaveExecs /\ i.op \notin CoreShifts
      /\ i.op \notin {"s_mov_b32", "s_cselect_b32", "s_add_u32", "s_addc_u32", "s_lshl_b64"}
  BY DEF CoreCompares, CoreLogic, SaveExecs, CoreArith, CoreShifts
<1>2. Result(i, st0) = CoreMain(i, st0)
  BY IsMain DEF MainOps
<1>3. CoreMain(i, st0) = Set(st0, i.d, CoreArithValue(i.op, Get(st0, i.a), Get(st0, i.b)))
  BY <1>1 DEF CoreMain
<1> QED  BY <1>2, <1>3

-----------------------------------------------------------------------------
(* Operands and results.                                                   *)

\* What the constants say of the words.
LEMMA Constants ==
  /\ Top \in Nat /\ 0 \in Word /\ 1 \in Word /\ Top \in Word
  /\ Sign \in Nat /\ M = 2 * Sign /\ Sign > 0
  /\ NRegs \in Nat
<1>1. M \in Nat \ {0} /\ M > 1 /\ M % 2 = 0
  BY MType
<1>2. Top \in Nat /\ 0 \in Word /\ 1 \in Word /\ Top \in Word
  BY <1>1 DEF Top, Word
<1>3. Sign \in Nat /\ M = 2 * Sign /\ Sign > 0
  BY <1>1 DEF Sign
<1> QED  BY <1>2, <1>3, SizeAssumption

\* The emulator reads a number that the oracle reads cut to a word.
LEMMA Operand ==
  ASSUME NEW st0 \in State, NEW o \in Registers \cup Literals
  PROVE  /\ Get(st0, o) \in Int
         /\ Read(st0, o) = Mask(Get(st0, o))
         /\ GetPair(st0, o) = Get(st0, o)
         /\ ~Negative(o) => Get(st0, o) \in Word
<1>1. CASE o \in [t : {"s"}, n : Reg]
  <2>1. o.t = "s" /\ o.n \in Reg
    BY <1>1
  <2>2. st0.s[o.n] \in Word
    BY <2>1 DEF State
  <2>3. Get(st0, o) = st0.s[o.n] /\ Read(st0, o) = st0.s[o.n] /\ GetPair(st0, o) = st0.s[o.n]
    BY <2>1 DEF Get, Read, GetPair
  <2> QED  BY <2>2, <2>3, MaskOfWord
<1>2. CASE o = ExecReg
  <2>1. o.t = "exec"
    BY <1>2 DEF ExecReg
  <2>2. st0.exec \in Word
    BY DEF State
  <2>3. Get(st0, o) = st0.exec /\ Read(st0, o) = st0.exec /\ GetPair(st0, o) = st0.exec
    BY <2>1 DEF Get, Read, GetPair
  <2> QED  BY <2>2, <2>3, MaskOfWord
<1>3. CASE o = [t |-> "scc", n |-> 0]
  <2>1. o.t = "scc"
    BY <1>3
  <2>2. st0.scc \in Word
    BY Constants DEF State
  <2>3. Get(st0, o) = st0.scc /\ Read(st0, o) = st0.scc /\ GetPair(st0, o) = st0.scc
    BY <2>1 DEF Get, Read, GetPair
  <2> QED  BY <2>2, <2>3, MaskOfWord
<1>4. CASE o = Null
  <2>1. o.t = "null"
    BY <1>4 DEF Null
  <2>3. Get(st0, o) = 0 /\ Read(st0, o) = 0 /\ GetPair(st0, o) = 0
    BY <2>1 DEF Get, Read, GetPair
  <2> QED  BY <2>3, MaskOfWord, Constants
<1>5. CASE o \in Literals
  <2>1. o.t = "lit" /\ o.n \in -Sign .. Top
    BY <1>5 DEF Literals
  <2>2. Get(st0, o) = o.n /\ Read(st0, o) = Mask(o.n) /\ GetPair(st0, o) = o.n
    BY <2>1 DEF Get, Read, GetPair
  <2>3. o.n \in Int /\ (o.n >= 0 => o.n \in Word)
    BY <2>1, Constants DEF Word
  <2> QED  BY <2>1, <2>2, <2>3 DEF Negative
<1> QED  BY <1>1, <1>2, <1>3, <1>4, <1>5 DEF Registers

\* Both read the same number in a pair.
LEMMA PairOperand ==
  ASSUME NEW st0 \in State, NEW o \in Pairs
  PROVE  /\ GetPair(st0, o) \in DoubleWord
         /\ Read(st0, o) = GetPair(st0, o)
         /\ Mask2(GetPair(st0, o)) = GetPair(st0, o)
         /\ ~Negative(o)
<1>1. o.t = "pair" /\ o.n \in Reg /\ o.n + 1 \in Reg
  BY Constants DEF Pairs, Reg
<1> DEFINE lo == st0.s[o.n]
           hi == st0.s[o.n + 1]
<1>2. lo \in Word /\ hi \in Word
  BY <1>1 DEF State
<1>3. GetPair(st0, o) = hi * M + lo /\ Read(st0, o) = hi * M + lo /\ ~Negative(o)
  BY <1>1 DEF GetPair, Read, Pair, Negative
<1> HIDE DEF lo, hi
<1>4. hi * M + lo \in 0 .. M * M - 1
  <2>1. lo \in Nat /\ hi \in Nat /\ lo < M /\ hi < M /\ M \in Nat
    BY <1>2, MType DEF Word, Top
  <2>2. PICK e \in Nat : M = hi + 1 + e
    <3>1. M - hi - 1 \in Nat /\ M = hi + 1 + (M - hi - 1)
      BY <2>1
    <3> QED  BY <3>1
  <2>3. M * M = hi * M + M + e * M
    <3>1. (hi + 1 + e) * M = hi * M + M + e * M
      BY <2>1
    <3> QED  BY <2>2, <3>1
  <2>4. hi * M \in Nat /\ e * M \in Nat
    BY <2>1
  <2> QED  BY ONLY <2>1, <2>3, <2>4
<1>5. ASSUME NEW v \in 0 .. M * M - 1 PROVE Mask2(v) = v
  <2> DEFINE d == M * M
  <2>1. d \in Nat \ {0}
    <3>1. \A m \in Nat : m > 0 => m * m \in Nat \ {0}
      OBVIOUS
    <3> QED  BY <3>1, MType
  <2>2. v \in 0 .. d - 1
    OBVIOUS
  <2> HIDE DEF d
  <2>3. v = d * 0 + v /\ (d * 0 + v) % d = v
    BY <2>1, <2>2, Quotient
  <2>4. v % d = v
    BY <2>3
  <2> QED  BY <2>4 DEF Mask2, d
<1> QED  BY <1>3, <1>4, <1>5 DEF DoubleWord

\* Writing to a register leads from a state to a state.
LEMMA PutType ==
  ASSUME NEW st0 \in State, NEW d \in Registers, NEW v \in Int
  PROVE  Set(st0, d, v) \in State /\ SetPair(st0, d, v) = Set(st0, d, v)
<1>1. Mask(v) \in Word /\ v % 2 \in {0, 1}
  BY MaskType
<1>2. d.t # "pair"
  BY DEF Registers, ExecReg, Null
<1>3. CASE d \in [t : {"s"}, n : Reg]
  <2>1. d.t = "s" /\ d.n \in Reg
    BY <1>3
  <2>2. Set(st0, d, v) = [st0 EXCEPT !.s[d.n] = Mask(v)]
    BY <2>1 DEF Set
  <2> QED  BY <1>1, <1>2, <2>1, <2>2 DEF State, SetPair
<1>4. CASE d = ExecReg
  <2>1. Set(st0, d, v) = [st0 EXCEPT !.exec = Mask(v)]
    BY <1>4 DEF Set, ExecReg
  <2> QED  BY <1>1, <1>2, <2>1 DEF State, SetPair
<1>5. CASE d = [t |-> "scc", n |-> 0]
  <2>1. Set(st0, d, v) = [st0 EXCEPT !.scc = v % 2]
    BY <1>5 DEF Set
  <2> QED  BY <1>1, <1>2, <2>1 DEF State, SetPair
<1>6. CASE d = Null
  <2>1. Set(st0, d, v) = st0
    BY <1>6 DEF Set, Null
  <2> QED  BY <1>2, <2>1 DEF SetPair
<1> QED  BY <1>3, <1>4, <1>5, <1>6 DEF Registers

\* Only the word of what is written matters.
LEMMA PutSame ==
  ASSUME NEW st0, NEW d \in Registers, NEW v \in Int, NEW w \in Int, Mask(v) = Mask(w)
  PROVE  Set(st0, d, v) = Set(st0, d, w)
<1>1. v % 2 = w % 2
  <2>1. Pow2[1] = 2 /\ 1 \in 0 .. W
    <3>1. Pow2[0 + 1] = 2 * Pow2[0] /\ Pow2[0] = 1
      BY PowStep
    <3> QED  BY <3>1, WidthAssumption
  <2>2. Low(v, 1) = Low(Mask(v), 1) /\ Low(w, 1) = Low(Mask(w), 1)
    BY <2>1, LowOfMask
  <2> QED  BY <2>1, <2>2 DEF Low
<1>2. d.t \in {"s", "exec", "scc", "null"}
  BY DEF Registers, ExecReg, Null
<1> QED  BY <1>1, <1>2 DEF Set

\* Writing to a pair leads from a state to a state.
LEMMA PutPairType ==
  ASSUME NEW st0 \in State, NEW d \in Pairs, NEW v \in Int
  PROVE  SetPair(st0, d, v) \in State
<1>1. d.t = "pair" /\ d.n \in Reg /\ d.n + 1 \in Reg
  BY Constants DEF Pairs, Reg
<1>2. Shr(v, W) \in Int
  BY ShiftOfMask, MType
<1>3. Mask(v) \in Word /\ Mask(Shr(v, W)) \in Word
  BY <1>2, MaskType
<1>4. SetPair(st0, d, v) = [st0 EXCEPT !.s[d.n] = Mask(v), !.s[d.n + 1] = Mask(Shr(v, W))]
  BY <1>1 DEF SetPair
<1> DEFINE f == [[st0.s EXCEPT ![d.n] = Mask(v)] EXCEPT ![d.n + 1] = Mask(Shr(v, W))]
<1>5. f \in [Reg -> Word]
  <2>1. st0.s \in [Reg -> Word]
    BY DEF State
  <2>2. [st0.s EXCEPT ![d.n] = Mask(v)] \in [Reg -> Word]
    BY <1>3, <2>1
  <2> QED  BY <1>3, <2>2
<1>6. [st0 EXCEPT !.s = f] \in State
  <2> HIDE DEF f
  <2> QED  BY <1>5 DEF State
<1>7. SetPair(st0, d, v) = [st0 EXCEPT !.s = f]
  BY <1>4 DEF State
<1> QED  BY <1>6, <1>7

\* Writing SCC leads from a state to a state.
LEMMA FlagType ==
  ASSUME NEW st0 \in State, NEW b
  PROVE  Flag(st0, b) \in State
BY DEF Flag, State

\* What is written of an answer with a value, with SCC, with both.
LEMMA Writes ==
  ASSUME NEW st0 \in State, NEW i, i.d \in Registers
  PROVE  /\ \A b \in BOOLEAN : Written(i, st0, Scc(b)) = Flag(st0, b)
         /\ \A v \in Int : Written(i, st0, Value(v)) = Set(st0, i.d, v)
         /\ \A v \in Int, b \in BOOLEAN : Written(i, st0, ValueScc(v, b)) = Flag(Set(st0, i.d, v), b)
         /\ \A v \in Int : \A e : Written(i, st0, [value |-> v, exec |-> e]) = [Set(st0, i.d, v) EXCEPT !.exec = e]
<1>1. ASSUME NEW s0 \in State
      PROVE  /\ [s0 EXCEPT !.scc = s0.scc, !.exec = s0.exec] = s0
             /\ \A e : [s0 EXCEPT !.scc = s0.scc, !.exec = e] = [s0 EXCEPT !.exec = e]
             /\ \A c : [s0 EXCEPT !.scc = c, !.exec = s0.exec] = [s0 EXCEPT !.scc = c]
  BY DEF State
<1>2. ASSUME NEW b \in BOOLEAN PROVE Written(i, st0, Scc(b)) = Flag(st0, b)
  <2>1. DOMAIN Scc(b) = {"scc"} /\ Scc(b).scc = IF b THEN 1 ELSE 0
    BY DEF Scc
  <2>2. Written(i, st0, Scc(b)) = [st0 EXCEPT !.scc = IF b THEN 1 ELSE 0, !.exec = st0.exec]
    BY <2>1 DEF Written
  <2> QED  BY <1>1, <2>2 DEF Flag
<1>3. ASSUME NEW v \in Int PROVE Written(i, st0, Value(v)) = Set(st0, i.d, v)
  <2>1. DOMAIN Value(v) = {"value"} /\ Value(v).value = v
    BY DEF Value
  <2> DEFINE s0 == Set(st0, i.d, v)
  <2>2. SetPair(st0, i.d, v) = s0 /\ s0 \in State
    BY PutType
  <2> HIDE DEF s0
  <2>3. Written(i, st0, Value(v)) = [s0 EXCEPT !.scc = s0.scc, !.exec = s0.exec]
    BY <2>1, <2>2 DEF Written
  <2> QED  BY <1>1, <2>2, <2>3 DEF s0
<1>4. ASSUME NEW v \in Int, NEW b \in BOOLEAN PROVE Written(i, st0, ValueScc(v, b)) = Flag(Set(st0, i.d, v), b)
  <2>1. DOMAIN ValueScc(v, b) = {"value", "scc"} /\ ValueScc(v, b).value = v /\ ValueScc(v, b).scc = IF b THEN 1 ELSE 0
    BY DEF ValueScc
  <2> DEFINE s0 == Set(st0, i.d, v)
  <2>2. SetPair(st0, i.d, v) = s0 /\ s0 \in State
    BY PutType
  <2> HIDE DEF s0
  <2>3. Written(i, st0, ValueScc(v, b)) = [s0 EXCEPT !.scc = IF b THEN 1 ELSE 0, !.exec = s0.exec]
    BY <2>1, <2>2 DEF Written
  <2> QED  BY <1>1, <2>2, <2>3 DEF s0, Flag
<1>5. ASSUME NEW v \in Int, NEW e PROVE Written(i, st0, [value |-> v, exec |-> e]) = [Set(st0, i.d, v) EXCEPT !.exec = e]
  <2> DEFINE r == [value |-> v, exec |-> e]
             s0 == Set(st0, i.d, v)
  <2>1. DOMAIN r = {"value", "exec"} /\ r.value = v /\ r.exec = e
    OBVIOUS
  <2>2. SetPair(st0, i.d, v) = s0 /\ s0 \in State
    BY PutType
  <2> HIDE DEF s0, r
  <2>3. Written(i, st0, r) = [s0 EXCEPT !.scc = s0.scc, !.exec = e]
    BY <2>1, <2>2 DEF Written
  <2> QED  BY <1>1, <2>2, <2>3 DEF s0, r
<1> QED  BY <1>2, <1>3, <1>4, <1>5
-----------------------------------------------------------------------------
(* The operands of an instruction that is well formed.                     *)

\* The literals of half a word are literals.
LEMMA HalfFits == HalfLiterals \subseteq Literals
<1>1. HalfBits \in Nat /\ HalfBits > 0 /\ HalfBits <= W - 1 /\ HalfBits - 1 \in Nat /\ W - 1 \in Nat
  BY WidthAssumption DEF HalfBits
<1>2. Pow2[HalfBits] <= Pow2[W - 1] /\ Pow2[HalfBits - 1] <= Pow2[W - 1]
  BY <1>1, PowGrows
<1>3. M = 2 * Pow2[W - 1]
  <2>1. (W - 1) + 1 = W
    BY <1>1, WidthAssumption
  <2>2. Pow2[(W - 1) + 1] = 2 * Pow2[W - 1]
    BY <1>1, PowStep
  <2> QED  BY <2>1, <2>2 DEF M
<1>4. Pow2[W - 1] \in Nat /\ Pow2[HalfBits] \in Nat /\ Pow2[HalfBits - 1] \in Nat
  BY <1>1, PowStep
<1>5. Sign = Pow2[W - 1]
  BY <1>3, <1>4 DEF Sign
<1>6. ASSUME NEW n \in -Pow2[HalfBits - 1] .. Pow2[HalfBits] - 1 PROVE n \in -Sign .. Top
  BY <1>2, <1>3, <1>4, <1>5 DEF Top
<1> QED  BY <1>6 DEF HalfLiterals, Literals

Plain(o) == o \in Registers \cup Literals

\* Instructions not on pairs have plain operands.
LEMMA PlainOperands ==
  ASSUME NEW i, WellFormed(i)
  PROVE  /\ i.op \notin PairOps => i.d \in Registers /\ Plain(i.a)
         /\ i.op \notin PairOps /\ ~FieldForm(i) => Plain(i.b)
         /\ Plain(i.c)
<1>1. HalfLiterals \subseteq Literals
  BY HalfFits
<1>2. [t : {"s"}, n : Reg] \subseteq Registers
  BY DEF Registers
<1>3. [t : {"lit"}, n : 0 .. W - 1] \subseteq Literals
  <2>1. W <= Top
    <3> DEFINE f == [n \in Nat |-> n]
               B == {n \in Nat : n < Pow2[n]}
    <3>1. 0 \in B
      BY PowStep
    <3>2. ASSUME NEW n \in Nat, n \in B PROVE n + 1 \in B
      BY <3>2, PowStep
    <3>3. Nat \subseteq B
      <4> HIDE DEF B
      <4> QED  BY <3>1, <3>2, Induction
    <3>4. W < M
      BY <3>3, MType DEF M
    <3> QED  BY <3>4, MType DEF Top
  <2>2. ASSUME NEW n \in 0 .. W - 1 PROVE n \in -Sign .. Top
    BY <2>1, Constants, MType
  <2> QED  BY <2>2 DEF Literals
<1>4. i.op \notin PairOps => i.d \in Registers
  <2>1. i.op \notin PairOps => i.op # "s_getpc_b64"
    BY DEF PairOps
  <2> QED  BY <2>1 DEF WellFormed
<1>5. i.op \notin PairOps => Plain(i.a)
  <2> SUFFICES ASSUME i.op \notin PairOps PROVE Plain(i.a)
    OBVIOUS
  <2>1. CASE i.op \in {"s_movk_i32", "s_addk_i32", "s_mulk_i32"}
    BY <1>1, <2>1 DEF WellFormed, Plain
  <2>2. CASE i.op \in {"s_bitcmp0_b32", "s_bitcmp1_b32"}
    BY <1>2, <2>2 DEF WellFormed, Plain
  <2>3. i.op \notin {"s_getpc_b64", "s_cmp_lg_u64", "s_mov_b64", "s_lshl_b64", "s_cmp_eq_u64"}
    BY DEF PairOps
  <2>4. CASE i.op \notin {"s_movk_i32", "s_addk_i32", "s_mulk_i32"} /\ i.op \notin {"s_bitcmp0_b32", "s_bitcmp1_b32"}
    BY <2>3, <2>4 DEF WellFormed, Plain, Sources
  <2> QED  BY <2>1, <2>2, <2>4
<1>6. i.op \notin PairOps /\ ~FieldForm(i) => Plain(i.b)
  <2> SUFFICES ASSUME i.op \notin PairOps, ~FieldForm(i) PROVE Plain(i.b)
    OBVIOUS
  <2>0. i.op \notin {"s_cmp_eq_u64", "s_cmp_lg_u64"}
    BY DEF PairOps
  <2>1. CASE i.op \in CmpKs
    <3>1. i.op \notin {"s_bitcmp0_b32", "s_bitcmp1_b32"} /\ i.op \notin {"s_bfe_u32", "s_bfe_i32"}
      BY <2>1 DEF CmpKs
    <3> QED  BY <1>1, <2>0, <2>1, <3>1 DEF WellFormed, Plain
  <2>2. CASE i.op \in {"s_bitcmp0_b32", "s_bitcmp1_b32"}
    <3>1. i.op \notin CmpKs /\ i.op \notin {"s_bfe_u32", "s_bfe_i32"}
      BY <2>2 DEF CmpKs
    <3> QED  BY <1>3, <2>0, <2>2, <3>1 DEF WellFormed, Plain
  <2>3. CASE i.op \in {"s_bfe_u32", "s_bfe_i32"}
    <3>1. i.op \notin CmpKs /\ i.op \notin {"s_bitcmp0_b32", "s_bitcmp1_b32"}
      BY <2>3 DEF CmpKs
    <3>2. i.b \in Sources \cup FieldLiterals /\ i.b \notin FieldLiterals
      BY <2>0, <2>3, <3>1 DEF WellFormed, FieldForm, FieldLiterals
    <3> QED  BY <3>2 DEF Sources, Plain
  <2>4. CASE i.op \notin CmpKs /\ i.op \notin {"s_bitcmp0_b32", "s_bitcmp1_b32"} /\ i.op \notin {"s_bfe_u32", "s_bfe_i32"}
    BY <2>0, <2>4 DEF WellFormed, Plain, Sources
  <2> QED  BY <2>1, <2>2, <2>3, <2>4
<1>7. Plain(i.c)
  BY DEF WellFormed, Sources, Plain
<1> QED  BY <1>4, <1>5, <1>6, <1>7

\* Two answers that come to the same.
LEMMA SameFlag ==
  ASSUME NEW st0 \in State, NEW i, i.d \in Registers, NEW b \in BOOLEAN, NEW c \in BOOLEAN, b = c,
         Result(i, st0) = Flag(st0, b), Says(i, st0) = Scc(c)
  PROVE  Result(i, st0) = Oracle(i, st0)
BY Writes DEF Oracle

\* The two agree if what they write has one word.
LEMMA SameValue ==
  ASSUME NEW st0 \in State, NEW i, i.d \in Registers, NEW v \in Int, NEW w \in Int, Mask(v) = Mask(w),
         Result(i, st0) = Set(st0, i.d, v), Says(i, st0) = Value(w)
  PROVE  Result(i, st0) = Oracle(i, st0)
<1>1. Set(st0, i.d, v) = Set(st0, i.d, w)
  BY PutSame
<1>2. Written(i, st0, Value(w)) = Set(st0, i.d, w)
  BY Writes
<1> QED  BY <1>1, <1>2 DEF Oracle

-----------------------------------------------------------------------------
(* What the oracle says, one kind of instruction after the other.          *)

\* The oracle on the compares.
LEMMA SaysCompare ==
  ASSUME NEW st0, NEW i, i.op \in SayCompares
  PROVE  Says(i, st0) = Scc(SayCompare(i.op, Read(st0, i.a), Read(st0, i.b)))
<1>1. /\ i.op \notin SayCmpKs /\ i.op \notin SayBitTests /\ i.op \notin SayArith /\ i.op \notin SayLogic
      /\ i.op \notin SayShifts /\ i.op \notin SaySaveExecs /\ i.op \notin SayMoves
      /\ i.op \notin {"s_addk_i32", "s_movk_i32", "s_bfe_u32", "s_bfe_i32", "s_bfm_b32"}
  BY DEF SayCompares, SayCmpKs, SayBitTests, SayArith, SayLogic, SayShifts, SaySaveExecs, SayMoves
<1> QED  BY <1>1 DEF Says

\* The oracle on the compares with a constant.
LEMMA SaysCmpK ==
  ASSUME NEW st0, NEW i, i.op \in SayCmpKs
  PROVE  Says(i, st0) = Scc(SayCmpK(i.op, Read(st0, i.a), Read(st0, i.b)))
<1>1. /\ i.op \notin SayCompares /\ i.op \notin SayBitTests /\ i.op \notin SayArith /\ i.op \notin SayLogic
      /\ i.op \notin SayShifts /\ i.op \notin SaySaveExecs /\ i.op \notin SayMoves
      /\ i.op \notin {"s_addk_i32", "s_movk_i32", "s_bfe_u32", "s_bfe_i32", "s_bfm_b32"}
  BY DEF SayCompares, SayCmpKs, SayBitTests, SayArith, SayLogic, SayShifts, SaySaveExecs, SayMoves
<1> QED  BY <1>1 DEF Says

\* The oracle on the bit tests.
LEMMA SaysBitTest ==
  ASSUME NEW st0, NEW i, i.op \in SayBitTests
  PROVE  Says(i, st0) = Scc(SayBitTest(i.op, Read(st0, i.a), Read(st0, i.b)))
<1>1. /\ i.op \notin SayCompares /\ i.op \notin SayCmpKs /\ i.op \notin SayArith /\ i.op \notin SayLogic
      /\ i.op \notin SayShifts /\ i.op \notin SaySaveExecs /\ i.op \notin SayMoves
      /\ i.op \notin {"s_addk_i32", "s_movk_i32", "s_bfe_u32", "s_bfe_i32", "s_bfm_b32"}
  BY DEF SayCompares, SayCmpKs, SayBitTests, SayArith, SayLogic, SayShifts, SaySaveExecs, SayMoves
<1> QED  BY <1>1 DEF Says

\* The oracle on the arithmetic instructions.
LEMMA SaysArith ==
  ASSUME NEW st0, NEW i, i.op \in SayArith
  PROVE  Says(i, st0) = SayArithmetic(i.op, Read(st0, i.a), Read(st0, i.b), st0.scc)
<1>1. /\ i.op \notin SayCompares /\ i.op \notin SayCmpKs /\ i.op \notin SayBitTests /\ i.op \notin SayLogic
      /\ i.op \notin SayShifts /\ i.op \notin SaySaveExecs /\ i.op \notin SayMoves
      /\ i.op \notin {"s_addk_i32", "s_movk_i32", "s_bfe_u32", "s_bfe_i32", "s_bfm_b32"}
  BY DEF SayCompares, SayCmpKs, SayBitTests, SayArith, SayLogic, SayShifts, SaySaveExecs, SayMoves
<1> QED  BY <1>1 DEF Says

\* The oracle on the logical instructions.
LEMMA SaysLogic ==
  ASSUME NEW st0, NEW i, i.op \in SayLogic
  PROVE  Says(i, st0) = Value(SayLogicValue(i.op, Read(st0, i.a), Read(st0, i.b)))
<1>1. /\ i.op \notin SayCompares /\ i.op \notin SayCmpKs /\ i.op \notin SayBitTests /\ i.op \notin SayArith
      /\ i.op \notin SayShifts /\ i.op \notin SaySaveExecs /\ i.op \notin SayMoves
      /\ i.op \notin {"s_addk_i32", "s_movk_i32", "s_bfe_u32", "s_bfe_i32", "s_bfm_b32"}
  BY DEF SayCompares, SayCmpKs, SayBitTests, SayArith, SayLogic, SayShifts, SaySaveExecs, SayMoves
<1> QED  BY <1>1 DEF Says

\* The oracle on the shifts.
LEMMA SaysShift ==
  ASSUME NEW st0, NEW i, i.op \in SayShifts
  PROVE  Says(i, st0) = Value(SayShift(i.op, Read(st0, i.a), Read(st0, i.b)))
<1>1. /\ i.op \notin SayCompares /\ i.op \notin SayCmpKs /\ i.op \notin SayBitTests /\ i.op \notin SayArith
      /\ i.op \notin SayLogic /\ i.op \notin SaySaveExecs /\ i.op \notin SayMoves
      /\ i.op \notin {"s_addk_i32", "s_movk_i32", "s_bfe_u32", "s_bfe_i32", "s_bfm_b32"}
  BY DEF SayCompares, SayCmpKs, SayBitTests, SayArith, SayLogic, SayShifts, SaySaveExecs, SayMoves
<1> QED  BY <1>1 DEF Says

\* The oracle on the saveexec instructions.
LEMMA SaysSave ==
  ASSUME NEW st0, NEW i, i.op \in SaySaveExecs
  PROVE  Says(i, st0) = SaySaveExec(i.op, st0.exec, Read(st0, i.a))
<1>1. /\ i.op \notin SayCompares /\ i.op \notin SayCmpKs /\ i.op \notin SayBitTests /\ i.op \notin SayArith
      /\ i.op \notin SayLogic /\ i.op \notin SayShifts /\ i.op \notin SayMoves
      /\ i.op \notin {"s_addk_i32", "s_movk_i32", "s_bfe_u32", "s_bfe_i32", "s_bfm_b32"}
  BY DEF SayCompares, SayCmpKs, SayBitTests, SayArith, SayLogic, SayShifts, SaySaveExecs, SayMoves
<1> QED  BY <1>1 DEF Says

\* The oracle on moves and selects.
LEMMA SaysMove ==
  ASSUME NEW st0, NEW i, i.op \in SayMoves
  PROVE  Says(i, st0) = Value(SayMove(i.op, Read(st0, i.a), Read(st0, i.b), st0.scc))
<1>1. /\ i.op \notin SayCompares /\ i.op \notin SayCmpKs /\ i.op \notin SayBitTests /\ i.op \notin SayArith
      /\ i.op \notin SayLogic /\ i.op \notin SayShifts /\ i.op \notin SaySaveExecs
      /\ i.op \notin {"s_addk_i32", "s_movk_i32", "s_bfe_u32", "s_bfe_i32", "s_bfm_b32"}
  BY DEF SayCompares, SayCmpKs, SayBitTests, SayArith, SayLogic, SayShifts, SaySaveExecs, SayMoves
<1> QED  BY <1>1 DEF Says

\* The oracle on the other instructions it states.
LEMMA SaysOther ==
  ASSUME NEW st0, NEW i
  PROVE  /\ i.op = "s_addk_i32" => Says(i, st0) = SayAddK(Read(st0, i.d), Read(st0, i.a))
         /\ i.op = "s_movk_i32" => Says(i, st0) = SayMovK(Read(st0, i.a))
         /\ i.op \in {"s_bfe_u32", "s_bfe_i32"} =>
              Says(i, st0) = Value(SayField(i.op, Read(st0, i.a), FieldOffset(Read(st0, i.b)), FieldWidth(Read(st0, i.b))))
<1> SUFFICES ASSUME i.op \in {"s_addk_i32", "s_movk_i32", "s_bfe_u32", "s_bfe_i32"}
             PROVE  /\ i.op = "s_addk_i32" => Says(i, st0) = SayAddK(Read(st0, i.d), Read(st0, i.a))
                    /\ i.op = "s_movk_i32" => Says(i, st0) = SayMovK(Read(st0, i.a))
                    /\ i.op \in {"s_bfe_u32", "s_bfe_i32"} =>
                         Says(i, st0) = Value(SayField(i.op, Read(st0, i.a), FieldOffset(Read(st0, i.b)), FieldWidth(Read(st0, i.b))))
  OBVIOUS
<1>1. /\ i.op \notin SayCompares /\ i.op \notin SayCmpKs /\ i.op \notin SayBitTests /\ i.op \notin SayArith
      /\ i.op \notin SayLogic /\ i.op \notin SayShifts /\ i.op \notin SaySaveExecs /\ i.op \notin SayMoves
      /\ i.op # "s_bfm_b32"
  BY DEF SayCompares, SayCmpKs, SayBitTests, SayArith, SayLogic, SayShifts, SaySaveExecs, SayMoves
<1> QED  BY <1>1 DEF Says
-----------------------------------------------------------------------------
(* What the emulator does, the other kinds of instruction.                 *)

\* The emulator's compares, logic, saveexecs and shifts.
LEMMA DoesMain ==
  ASSUME NEW st0, NEW i
  PROVE  /\ i.op \in CoreCompares => Result(i, st0) = Flag(st0, CoreCompare(i.op, Get(st0, i.a), Get(st0, i.b)))
         /\ i.op \in CoreLogic => Result(i, st0) = Set(st0, i.d, CoreLogicValue(i.op, Get(st0, i.a), Get(st0, i.b)))
         /\ i.op \in SaveExecs => Result(i, st0) = SaveExec(st0, i.d, NewExec(i.op, st0.exec, Get(st0, i.a)))
         /\ i.op \in CoreShifts => Result(i, st0) = Set(st0, i.d, CoreShift(i.op, Get(st0, i.a), Get(st0, i.b)))
<1>1. ASSUME i.op \in CoreCompares
      PROVE  Result(i, st0) = Flag(st0, CoreCompare(i.op, Get(st0, i.a), Get(st0, i.b)))
  <2>1. /\ i.op \notin CoreLogic /\ i.op \notin SaveExecs /\ i.op \notin CoreArith /\ i.op \notin CoreShifts
        /\ i.op \notin {"s_mov_b32", "s_cselect_b32", "s_add_u32", "s_addc_u32", "s_lshl_b64"}
    BY <1>1 DEF CoreCompares, CoreLogic, SaveExecs, CoreArith, CoreShifts
  <2>2. Result(i, st0) = CoreMain(i, st0)
    BY <1>1, IsMain DEF MainOps
  <2>3. CoreMain(i, st0) = Flag(st0, CoreCompare(i.op, Get(st0, i.a), Get(st0, i.b)))
    BY <1>1, <2>1 DEF CoreMain
  <2> QED  BY <2>2, <2>3
<1>2. ASSUME i.op \in CoreLogic
      PROVE  Result(i, st0) = Set(st0, i.d, CoreLogicValue(i.op, Get(st0, i.a), Get(st0, i.b)))
  <2>1. /\ i.op \notin CoreCompares /\ i.op \notin SaveExecs /\ i.op \notin CoreArith /\ i.op \notin CoreShifts
        /\ i.op \notin {"s_mov_b32", "s_cselect_b32", "s_add_u32", "s_addc_u32", "s_lshl_b64"}
    BY <1>2 DEF CoreCompares, CoreLogic, SaveExecs, CoreArith, CoreShifts
  <2>2. Result(i, st0) = CoreMain(i, st0)
    BY <1>2, IsMain DEF MainOps
  <2>3. CoreMain(i, st0) = Set(st0, i.d, CoreLogicValue(i.op, Get(st0, i.a), Get(st0, i.b)))
    BY <1>2, <2>1 DEF CoreMain
  <2> QED  BY <2>2, <2>3
<1>3. ASSUME i.op \in SaveExecs
      PROVE  Result(i, st0) = SaveExec(st0, i.d, NewExec(i.op, st0.exec, Get(st0, i.a)))
  <2>1. /\ i.op \notin CoreCompares /\ i.op \notin CoreLogic /\ i.op \notin CoreArith /\ i.op \notin CoreShifts
        /\ i.op \notin {"s_mov_b32", "s_cselect_b32", "s_add_u32", "s_addc_u32", "s_lshl_b64"}
    BY <1>3 DEF CoreCompares, CoreLogic, SaveExecs, CoreArith, CoreShifts
  <2>2. Result(i, st0) = CoreMain(i, st0)
    BY <1>3, IsMain DEF MainOps
  <2>3. CoreMain(i, st0) = SaveExec(st0, i.d, NewExec(i.op, st0.exec, Get(st0, i.a)))
    BY <1>3, <2>1 DEF CoreMain
  <2> QED  BY <2>2, <2>3
<1>4. ASSUME i.op \in CoreShifts
      PROVE  Result(i, st0) = Set(st0, i.d, CoreShift(i.op, Get(st0, i.a), Get(st0, i.b)))
  <2>1. /\ i.op \notin CoreCompares /\ i.op \notin CoreLogic /\ i.op \notin CoreArith /\ i.op \notin SaveExecs
        /\ i.op \notin {"s_mov_b32", "s_cselect_b32", "s_add_u32", "s_addc_u32", "s_lshl_b64"}
    BY <1>4 DEF CoreCompares, CoreLogic, SaveExecs, CoreArith, CoreShifts
  <2>2. Result(i, st0) = CoreMain(i, st0)
    BY <1>4, IsMain DEF MainOps
  <2>3. CoreMain(i, st0) = Set(st0, i.d, CoreShift(i.op, Get(st0, i.a), Get(st0, i.b)))
    BY <1>4, <2>1 DEF CoreMain
  <2> QED  BY <2>2, <2>3
<1> QED  BY <1>1, <1>2, <1>3, <1>4

\* The handlers of Core that are one of a kind.
LEMMA DoesOneOfMain ==
  ASSUME NEW st0, NEW i
  PROVE  /\ i.op = "s_mov_b32" => Result(i, st0) = Set(st0, i.d, Get(st0, i.a))
         /\ i.op = "s_cselect_b32" =>
              Result(i, st0) = Set(st0, i.d, IF st0.scc = 1 THEN Get(st0, i.a) ELSE Get(st0, i.b))
         /\ i.op = "s_add_u32" => Result(i, st0) = AddCarry(st0, i.d, Get(st0, i.a) + Get(st0, i.b))
         /\ i.op = "s_addc_u32" => Result(i, st0) = AddCarry(st0, i.d, Get(st0, i.a) + Get(st0, i.b) + st0.scc)
         /\ i.op = "s_lshl_b64" =>
              Result(i, st0) = SetPair(st0, i.d, Mask2(Shl(GetPair(st0, i.a), Get(st0, i.b) % (2 * W))))
<1> DEFINE ops == {"s_mov_b32", "s_cselect_b32", "s_add_u32", "s_addc_u32", "s_lshl_b64"}
<1> SUFFICES ASSUME i.op \in ops
             PROVE  /\ i.op = "s_mov_b32" => Result(i, st0) = Set(st0, i.d, Get(st0, i.a))
                    /\ i.op = "s_cselect_b32" =>
                         Result(i, st0) = Set(st0, i.d, IF st0.scc = 1 THEN Get(st0, i.a) ELSE Get(st0, i.b))
                    /\ i.op = "s_add_u32" => Result(i, st0) = AddCarry(st0, i.d, Get(st0, i.a) + Get(st0, i.b))
                    /\ i.op = "s_addc_u32" => Result(i, st0) = AddCarry(st0, i.d, Get(st0, i.a) + Get(st0, i.b) + st0.scc)
                    /\ i.op = "s_lshl_b64" =>
                         Result(i, st0) = SetPair(st0, i.d, Mask2(Shl(GetPair(st0, i.a), Get(st0, i.b) % (2 * W))))
  OBVIOUS
<1>1. Result(i, st0) = CoreMain(i, st0)
  BY IsMain DEF MainOps
<1>2. /\ i.op \notin CoreCompares /\ i.op \notin CoreLogic /\ i.op \notin CoreArith /\ i.op \notin SaveExecs
      /\ i.op \notin CoreShifts
  BY DEF CoreCompares, CoreLogic, SaveExecs, CoreArith, CoreShifts
<1> QED  BY <1>1, <1>2 DEF CoreMain

\* The handlers added to Core for the main region.
LEMMA DoesMore ==
  ASSUME NEW st0, NEW i, i.op \in MoreOps, ~FieldForm(i)
  PROVE  /\ i.op = "s_bfe_u32" =>
              Result(i, st0) = Set(st0, i.d, FieldU(Get(st0, i.a), Get(st0, i.b) % W, Get(st0, i.c) % W))
         /\ i.op = "s_bfe_i32" =>
              Result(i, st0) = Set(st0, i.d, FieldI(Get(st0, i.a), Get(st0, i.b) % W, Get(st0, i.c) % W))
         /\ i.op = "s_cmp_ge_i32" => Result(i, st0) = Flag(st0, Signed(Get(st0, i.a)) >= Signed(Get(st0, i.b)))
         /\ i.op = "s_min_i32" =>
              Result(i, st0) = Set(st0, i.d, IF Signed(Get(st0, i.b)) < Signed(Get(st0, i.a))
                                             THEN Signed(Get(st0, i.b)) ELSE Signed(Get(st0, i.a)))
         /\ i.op = "s_sext_i32_i8" => Result(i, st0) = Set(st0, i.d, SignedLow(Get(st0, i.a), ByteBits))
         /\ i.op = "s_sext_i32_i16" => Result(i, st0) = Set(st0, i.d, SignedLow(Get(st0, i.a), HalfBits))
         /\ i.op = "s_movk_i32" => Result(i, st0) = Set(st0, i.d, Get(st0, i.a))
<1>1. i.op \in CoreOps /\ i.op # "s_mov_b64"
  BY DEF MoreOps, CoreOps
<1>2. Result(i, st0) = CoreMore(i, st0)
  BY <1>1, IsCore DEF CoreResult, MoreOps
<1> QED  BY <1>2 DEF CoreMore, MoreOps

\* The move of a pair.
LEMMA DoesMoveWide ==
  ASSUME NEW st0, NEW i, i.op = "s_mov_b64"
  PROVE  Result(i, st0) = SetPair(st0, i.d, Mask2(GetPair(st0, i.a)))
<1>1. i.op \in CoreOps /\ ~FieldForm(i) /\ i.op \notin MoreOps
  BY DEF MoreOps, CoreOps, FieldForm
<1>2. Result(i, st0) = MoveWide(i, st0)
  BY <1>1, IsCore DEF CoreResult, MoreOps
<1> QED  BY <1>2 DEF MoveWide

\* The handlers that Core8 adds.
LEMMA DoesCore8 ==
  ASSUME NEW st0, NEW i
  PROVE  /\ i.op \in CmpKs => Result(i, st0) = Flag(st0, CmpK(i.op, Get(st0, i.a), i.b.n))
         /\ i.op = "s_cmp_lt_i32" => Result(i, st0) = Flag(st0, Signed(Get(st0, i.a)) < Signed(Get(st0, i.b)))
         /\ i.op = "s_cmp_gt_u32" => Result(i, st0) = Flag(st0, Mask(Get(st0, i.a)) > Mask(Get(st0, i.b)))
         /\ i.op = "s_cmp_eq_u64" => Result(i, st0) = Flag(st0, GetPair(st0, i.a) = GetPair(st0, i.b))
         /\ i.op = "s_or_not1_b32" => Result(i, st0) = Set(st0, i.d, Or(Get(st0, i.a), Not(Get(st0, i.b))))
         /\ i.op = "s_not_b32" => Result(i, st0) = Set(st0, i.d, Not(Get(st0, i.a)))
<1>1. ASSUME i.op \in Core8Ops PROVE Result(i, st0) = Core8Result(i, st0)
  <2>1. i.op \notin IsaOps /\ i.op \notin E16Ops /\ i.op \notin SwinOps
    BY <1>1 DEF Core8Ops, CmpKs, IsaOps, E16Ops, SwinOps
  <2>2. i.op \notin {"s_bfe_u32", "s_bfe_i32"}
    BY <1>1 DEF Core8Ops, CmpKs
  <2>3. i.op \notin CoreOps
    BY <1>1 DEF Core8Ops, CmpKs, CoreOps, CoreCompares, CoreLogic, SaveExecs, CoreArith, CoreShifts
  <2> QED  BY <1>1, <2>1, <2>2, <2>3 DEF Result, FieldForm
<1>2. ASSUME i.op \in CmpKs PROVE Result(i, st0) = Flag(st0, CmpK(i.op, Get(st0, i.a), i.b.n))
  <2>1. i.op \notin {"s_cmp_lt_i32", "s_cmp_gt_u32", "s_cmp_eq_u64", "s_or_not1_b32", "s_not_b32"}
    BY <1>2 DEF CmpKs
  <2>2. i.op \in Core8Ops
    BY <1>2 DEF Core8Ops
  <2> QED  BY <1>1, <1>2, <2>1, <2>2 DEF Core8Result
<1>3. ASSUME i.op \in {"s_cmp_lt_i32", "s_cmp_gt_u32", "s_cmp_eq_u64", "s_or_not1_b32", "s_not_b32"}
      PROVE  /\ i.op = "s_cmp_lt_i32" => Result(i, st0) = Flag(st0, Signed(Get(st0, i.a)) < Signed(Get(st0, i.b)))
             /\ i.op = "s_cmp_gt_u32" => Result(i, st0) = Flag(st0, Mask(Get(st0, i.a)) > Mask(Get(st0, i.b)))
             /\ i.op = "s_cmp_eq_u64" => Result(i, st0) = Flag(st0, GetPair(st0, i.a) = GetPair(st0, i.b))
             /\ i.op = "s_or_not1_b32" => Result(i, st0) = Set(st0, i.d, Or(Get(st0, i.a), Not(Get(st0, i.b))))
             /\ i.op = "s_not_b32" => Result(i, st0) = Set(st0, i.d, Not(Get(st0, i.a)))
  <2>1. i.op \notin CmpKs
    BY <1>3 DEF CmpKs
  <2>2. Result(i, st0) = Core8Result(i, st0)
    BY <1>1, <1>3 DEF Core8Ops
  <2> QED  BY <1>3, <2>1, <2>2 DEF Core8Result
<1> QED  BY <1>2, <1>3

\* The packed form of the bit field extracts.
LEMMA DoesField ==
  ASSUME NEW st0, NEW i, FieldForm(i)
  PROVE  Result(i, st0) = PackedField(i, st0)
<1>1. i.op \notin IsaOps /\ i.op \notin E16Ops /\ i.op \notin SwinOps /\ i.op \notin Core8Ops
  BY DEF FieldForm, Core8Ops, CmpKs, IsaOps, E16Ops, SwinOps
<1> QED  BY <1>1 DEF Result

\* The handlers that SwinCore adds.
LEMMA DoesSwin ==
  ASSUME NEW st0, NEW i
  PROVE  /\ i.op = "s_addk_i32" => Result(i, st0) = Set(st0, i.d, Get(st0, i.d) + Get(st0, i.a))
         /\ i.op = "s_nor_b32" => Result(i, st0) = Set(st0, i.d, Not(Or(Get(st0, i.a), Get(st0, i.b))))
         /\ i.op = "s_orn2_b32" => Result(i, st0) = Set(st0, i.d, Or(Get(st0, i.a), Not(Get(st0, i.b))))
         /\ i.op = "s_getpc_b64" => Result(i, st0) = SetPair(st0, i.d, Mask2(NextPc(Get(st0, i.a))))
         /\ i.op = "s_cmp_lg_u64" =>
              Result(i, st0) = Flag(st0, GetPair(st0, i.a) # IF i.b.t = "pair" THEN GetPair(st0, i.b) ELSE Mask(Get(st0, i.b)))
<1> SUFFICES ASSUME i.op \in SwinOps
             PROVE  /\ i.op = "s_addk_i32" => Result(i, st0) = Set(st0, i.d, Get(st0, i.d) + Get(st0, i.a))
                    /\ i.op = "s_nor_b32" => Result(i, st0) = Set(st0, i.d, Not(Or(Get(st0, i.a), Get(st0, i.b))))
                    /\ i.op = "s_orn2_b32" => Result(i, st0) = Set(st0, i.d, Or(Get(st0, i.a), Not(Get(st0, i.b))))
                    /\ i.op = "s_getpc_b64" => Result(i, st0) = SetPair(st0, i.d, Mask2(NextPc(Get(st0, i.a))))
                    /\ i.op = "s_cmp_lg_u64" =>
                         Result(i, st0) = Flag(st0, GetPair(st0, i.a) # IF i.b.t = "pair" THEN GetPair(st0, i.b) ELSE Mask(Get(st0, i.b)))
  BY DEF SwinOps
<1>1. i.op \notin IsaOps /\ i.op \notin E16Ops /\ i.op \notin Core8Ops /\ i.op \notin {"s_bfe_u32", "s_bfe_i32"}
  BY DEF Core8Ops, CmpKs, IsaOps, E16Ops, SwinOps
<1>2. i.op \notin CoreOps
  BY DEF SwinOps, CoreOps, CoreCompares, CoreLogic, SaveExecs, CoreArith, CoreShifts
<1>3. Result(i, st0) = SwinResult(i, st0)
  BY <1>1, <1>2 DEF Result, FieldForm
<1> QED  BY <1>3 DEF SwinResult

\* The handlers that E16Core adds.
LEMMA DoesE16 ==
  ASSUME NEW st0, NEW i
  PROVE  /\ i.op = "s_bitcmp0_b32" => Result(i, st0) = Flag(st0, Bit(Get(st0, i.a), i.b.n) = 0)
         /\ i.op = "s_bitcmp1_b32" => Result(i, st0) = Flag(st0, Bit(Get(st0, i.a), i.b.n) = 1)
         /\ i.op = "s_mulk_i32" => Result(i, st0) = Set(st0, i.d, Get(st0, i.d) * Get(st0, i.a))
<1> SUFFICES ASSUME i.op \in E16Ops
             PROVE  /\ i.op = "s_bitcmp0_b32" => Result(i, st0) = Flag(st0, Bit(Get(st0, i.a), i.b.n) = 0)
                    /\ i.op = "s_bitcmp1_b32" => Result(i, st0) = Flag(st0, Bit(Get(st0, i.a), i.b.n) = 1)
                    /\ i.op = "s_mulk_i32" => Result(i, st0) = Set(st0, i.d, Get(st0, i.d) * Get(st0, i.a))
  BY DEF E16Ops
<1>1. i.op \notin IsaOps /\ i.op \notin SwinOps /\ i.op \notin Core8Ops /\ i.op \notin {"s_bfe_u32", "s_bfe_i32"}
  BY DEF Core8Ops, CmpKs, IsaOps, E16Ops, SwinOps
<1>2. i.op \notin CoreOps
  BY DEF E16Ops, CoreOps, CoreCompares, CoreLogic, SaveExecs, CoreArith, CoreShifts
<1>3. Result(i, st0) = E16Result(i, st0)
  BY <1>1, <1>2 DEF Result, FieldForm
<1> QED  BY <1>3 DEF E16Result

\* The handlers of IsaMixin write a value and some SCC; the fillers do nothing.
LEMMA DoesIsa ==
  ASSUME NEW st0, NEW i
  PROVE  /\ i.op = "s_max_i32" =>
              \E v \in {Signed(Get(st0, i.a)), Signed(Get(st0, i.b))} : \E b : Result(i, st0) = Flag(Set(st0, i.d, v), b)
         /\ i.op = "s_bcnt1_i32_b32" =>
              \E b : Result(i, st0) = Flag(Set(st0, i.d, Cardinality(Ones(Signed(Get(st0, i.a))))), b)
         /\ i.op \in {"s_nop", "s_delay_alu"} => Result(i, st0) = st0
<1>1. ASSUME i.op \in IsaOps PROVE Result(i, st0) = IsaResult(i, st0)
  <2>1. i.op \notin E16Ops /\ i.op \notin SwinOps /\ i.op \notin Core8Ops /\ i.op \notin {"s_bfe_u32", "s_bfe_i32"}
    BY <1>1 DEF Core8Ops, CmpKs, IsaOps, E16Ops, SwinOps
  <2>2. i.op \notin CoreOps
    BY <1>1 DEF IsaOps, CoreOps, CoreCompares, CoreLogic, SaveExecs, CoreArith, CoreShifts
  <2> QED  BY <1>1, <2>1, <2>2 DEF Result, FieldForm
<1>2. ASSUME i.op = "s_max_i32"
      PROVE  \E v \in {Signed(Get(st0, i.a)), Signed(Get(st0, i.b))} : \E b : Result(i, st0) = Flag(Set(st0, i.d, v), b)
  <2>1. Result(i, st0) = IsaResult(i, st0)
    BY <1>1, <1>2 DEF IsaOps
  <2> DEFINE x == Signed(Get(st0, i.a))
             y == Signed(Get(st0, i.b))
  <2>2. IsaResult(i, st0) = Flag(Set(st0, i.d, IF x > y THEN x ELSE y), x > y)
    BY <1>2 DEF IsaResult
  <2>3. (IF x > y THEN x ELSE y) \in {x, y}
    OBVIOUS
  <2> HIDE DEF x, y
  <2> QED  BY <2>1, <2>2, <2>3 DEF x, y
<1>3. ASSUME i.op = "s_bcnt1_i32_b32"
      PROVE  \E b : Result(i, st0) = Flag(Set(st0, i.d, Cardinality(Ones(Signed(Get(st0, i.a))))), b)
  <2>1. Result(i, st0) = IsaResult(i, st0)
    BY <1>1, <1>3 DEF IsaOps
  <2>2. IsaResult(i, st0) = Flag(Set(st0, i.d, Cardinality(Ones(Signed(Get(st0, i.a))))), Mask(Signed(Get(st0, i.a))) # 0)
    BY <1>3 DEF IsaResult
  <2> QED  BY <2>1, <2>2
<1>4. ASSUME i.op \in {"s_nop", "s_delay_alu"} PROVE Result(i, st0) = st0
  <2>1. /\ i.op \notin IsaOps /\ i.op \notin E16Ops /\ i.op \notin SwinOps /\ i.op \notin Core8Ops
        /\ i.op \notin {"s_bfe_u32", "s_bfe_i32"}
    BY <1>4 DEF Core8Ops, CmpKs, IsaOps, E16Ops, SwinOps
  <2>2. i.op \notin CoreOps
    BY <1>4 DEF CoreOps, CoreCompares, CoreLogic, SaveExecs, CoreArith, CoreShifts
  <2> QED  BY <2>1, <2>2 DEF Result, FieldForm
<1> QED  BY <1>2, <1>3, <1>4

-----------------------------------------------------------------------------
(* Agreement, one kind of instruction after the other.                     *)

\* The plain operands as both programs read them.
LEMMA Plainly ==
  ASSUME NEW st0 \in State, NEW i, WellFormed(i), i.op \notin PairOps, ~FieldForm(i)
  PROVE  /\ i.d \in Registers
         /\ Get(st0, i.a) \in Int /\ Read(st0, i.a) = Mask(Get(st0, i.a))
         /\ Get(st0, i.b) \in Int /\ Read(st0, i.b) = Mask(Get(st0, i.b))
         /\ ~Negative(i.a) => Get(st0, i.a) \in Word
         /\ ~Negative(i.b) => Get(st0, i.b) \in Word
BY PlainOperands, Operand DEF Plain

\* The two agree on the compares.
LEMMA AgreeCompare ==
  ASSUME NEW st0 \in State, NEW i, WellFormed(i), i.op \in SayCompares, i.op \notin PairOps
  PROVE  Result(i, st0) = Oracle(i, st0)
<1> DEFINE x == Get(st0, i.a)
           y == Get(st0, i.b)
<1>1. i.op \in {"s_cmp_eq_u32", "s_cmp_lg_u32", "s_cmp_lt_u32", "s_cmp_gt_u32", "s_cmp_ge_u32",
                "s_cmp_lt_i32", "s_cmp_gt_i32", "s_cmp_ge_i32"}
  BY DEF WellFormed, Emulated, SayCompares, PairOps, CoreOps, CoreCompares, CoreLogic, SaveExecs, CoreArith,
         CoreShifts, Core8Ops, CmpKs, SwinOps, E16Ops, IsaOps
<1>2. ~FieldForm(i)
  BY <1>1 DEF FieldForm
<1>3. i.d \in Registers /\ x \in Int /\ y \in Int /\ Read(st0, i.a) = Mask(x) /\ Read(st0, i.b) = Mask(y)
  BY <1>2, Plainly
<1>4. Says(i, st0) = Scc(SayCompare(i.op, Mask(x), Mask(y)))
  BY <1>3, SaysCompare
<1> HIDE DEF x, y
<1>5. Mask(Mask(x)) = Mask(x) /\ Mask(Mask(y)) = Mask(y) /\ Signed(Mask(x)) = Signed(x) /\ Signed(Mask(y)) = Signed(y)
  BY <1>3, MaskOfMask, SignedOfMask
<1>6. CASE i.op = "s_cmp_eq_u32"
  <2> DEFINE b == Mask(x) = Mask(y)
  <2>1. Says(i, st0) = Scc(b)
    BY <1>4, <1>5, <1>6 DEF SayCompare
  <2>2. Result(i, st0) = Flag(st0, b)
    BY <1>6, DoesMain DEF CoreCompares, CoreCompare, x, y
  <2>3. b \in BOOLEAN
    OBVIOUS
  <2> HIDE DEF b
  <2> QED  BY <1>3, <2>1, <2>2, <2>3, SameFlag
<1>7. CASE i.op = "s_cmp_lg_u32"
  <2> DEFINE b == Mask(x) # Mask(y)
  <2>1. Says(i, st0) = Scc(b)
    BY <1>4, <1>5, <1>7 DEF SayCompare
  <2>2. Result(i, st0) = Flag(st0, b)
    BY <1>7, DoesMain DEF CoreCompares, CoreCompare, x, y
  <2>3. b \in BOOLEAN
    OBVIOUS
  <2> HIDE DEF b
  <2> QED  BY <1>3, <2>1, <2>2, <2>3, SameFlag
<1>8. CASE i.op = "s_cmp_lt_u32"
  <2> DEFINE b == Mask(x) < Mask(y)
  <2>1. Says(i, st0) = Scc(b)
    BY <1>4, <1>5, <1>8 DEF SayCompare
  <2>2. Result(i, st0) = Flag(st0, b)
    BY <1>8, DoesMain DEF CoreCompares, CoreCompare, x, y
  <2>3. b \in BOOLEAN
    OBVIOUS
  <2> HIDE DEF b
  <2> QED  BY <1>3, <2>1, <2>2, <2>3, SameFlag
<1>9. CASE i.op = "s_cmp_gt_u32"
  <2> DEFINE b == Mask(x) > Mask(y)
  <2>1. Says(i, st0) = Scc(b)
    BY <1>4, <1>5, <1>9 DEF SayCompare
  <2>2. Result(i, st0) = Flag(st0, b)
    BY <1>9, DoesCore8 DEF x, y
  <2>3. b \in BOOLEAN
    OBVIOUS
  <2> HIDE DEF b
  <2> QED  BY <1>3, <2>1, <2>2, <2>3, SameFlag
<1>10. CASE i.op = "s_cmp_ge_u32"
  <2> DEFINE b == Mask(x) >= Mask(y)
  <2>1. Says(i, st0) = Scc(b)
    BY <1>4, <1>5, <1>10 DEF SayCompare
  <2>2. Result(i, st0) = Flag(st0, b)
    BY <1>10, DoesMain DEF CoreCompares, CoreCompare, x, y
  <2>3. b \in BOOLEAN
    OBVIOUS
  <2> HIDE DEF b
  <2> QED  BY <1>3, <2>1, <2>2, <2>3, SameFlag
<1>11. CASE i.op = "s_cmp_lt_i32"
  <2> DEFINE b == Signed(x) < Signed(y)
  <2>1. Says(i, st0) = Scc(b)
    BY <1>4, <1>5, <1>11 DEF SayCompare
  <2>2. Result(i, st0) = Flag(st0, b)
    BY <1>11, DoesCore8 DEF x, y
  <2>3. b \in BOOLEAN
    OBVIOUS
  <2> HIDE DEF b
  <2> QED  BY <1>3, <2>1, <2>2, <2>3, SameFlag
<1>12. CASE i.op = "s_cmp_gt_i32"
  <2> DEFINE b == Signed(x) > Signed(y)
  <2>1. Says(i, st0) = Scc(b)
    BY <1>4, <1>5, <1>12 DEF SayCompare
  <2>2. Result(i, st0) = Flag(st0, b)
    BY <1>12, DoesMain DEF CoreCompares, CoreCompare, x, y
  <2>3. b \in BOOLEAN
    OBVIOUS
  <2> HIDE DEF b
  <2> QED  BY <1>3, <2>1, <2>2, <2>3, SameFlag
<1>13. CASE i.op = "s_cmp_ge_i32"
  <2> DEFINE b == Signed(x) >= Signed(y)
  <2>1. Says(i, st0) = Scc(b)
    BY <1>4, <1>5, <1>13 DEF SayCompare
  <2>2. Result(i, st0) = Flag(st0, b)
    BY <1>13, <1>2, DoesMore DEF MoreOps, x, y
  <2>3. b \in BOOLEAN
    OBVIOUS
  <2> HIDE DEF b
  <2> QED  BY <1>3, <2>1, <2>2, <2>3, SameFlag
<1> QED  BY <1>1, <1>6, <1>7, <1>8, <1>9, <1>10, <1>11, <1>12, <1>13

\* The sign bit is the highest bit of a word.
LEMMA SignIsPower == Sign = Pow2[W - 1] /\ M = 2 * Pow2[W - 1] /\ Pow2[W - 1] \in Nat /\ W - 1 \in Nat
<1>1. W - 1 \in Nat /\ (W - 1) + 1 = W
  BY WidthAssumption
<1>2. M = 2 * Pow2[W - 1] /\ Pow2[W - 1] \in Nat
  BY <1>1, PowStep DEF M
<1> QED  BY <1>1, <1>2 DEF Sign

\* A number a word can hold with its sign.
LEMMA SignedSmall == ASSUME NEW n \in -Sign .. Sign - 1 PROVE Signed(n) = n
<1>1. Sign \in Nat /\ M = 2 * Sign /\ Pow2[W - 1] = Sign /\ M \in Nat \ {0} /\ n \in Int
  BY SignIsPower, MType
<1>2. CASE n >= 0
  <2>1. n \in Word
    BY <1>1, <1>2 DEF Word, Top
  <2>2. Mask(n) = n
    BY <2>1, MaskOfWord
  <2> QED  BY <1>1, <1>2, <2>2 DEF Signed, SignedLow, Low, Mask, M
<1>3. CASE n < 0
  <2> DEFINE r == n + M
  <2>1. n = M * (-1) + r /\ r \in 0 .. M - 1
    BY <1>1, <1>3
  <2> HIDE DEF r
  <2>2. (M * (-1) + r) % M = r
    BY <1>1, <2>1, Quotient
  <2>3. Mask(n) = n + M
    BY <2>1, <2>2 DEF Mask, r
  <2> QED  BY <1>1, <1>3, <2>3 DEF Signed, SignedLow, Low, Mask, M
<1> QED  BY <1>1, <1>2, <1>3

\* What an immediate of half a word says is what a word says, sign included.
LEMMA HalfLiteral ==
  ASSUME NEW o \in HalfLiterals
  PROVE  o.n \in Int /\ o.t = "lit" /\ Signed(o.n) = o.n
<1>1. HalfBits \in Nat /\ HalfBits <= W - 1 /\ HalfBits - 1 \in Nat /\ W - 1 \in Nat
  BY WidthAssumption DEF HalfBits
<1>2. Pow2[HalfBits] <= Sign /\ Pow2[HalfBits - 1] <= Sign /\ Pow2[HalfBits] \in Nat /\ Pow2[HalfBits - 1] \in Nat /\ Sign \in Nat
  BY <1>1, PowGrows, PowStep, SignIsPower
<1>3. o.t = "lit" /\ o.n \in -Pow2[HalfBits - 1] .. Pow2[HalfBits] - 1
  BY DEF HalfLiterals
<1>4. o.n \in -Sign .. Sign - 1
  BY <1>2, <1>3
<1> QED  BY <1>3, <1>4, SignedSmall

\* The two agree on the compares with a constant.
LEMMA AgreeCmpK ==
  ASSUME NEW st0 \in State, NEW i, WellFormed(i), i.op \in SayCmpKs
  PROVE  Result(i, st0) = Oracle(i, st0)
<1> DEFINE x == Get(st0, i.a)
           y == i.b.n
<1>1. i.op \in CmpKs /\ i.op \notin PairOps
  BY DEF SayCmpKs, CmpKs, PairOps
<1>2. i.op \notin {"s_bitcmp0_b32", "s_bitcmp1_b32"} /\ i.op \notin {"s_bfe_u32", "s_bfe_i32"} /\ ~FieldForm(i)
      /\ i.op \notin {"s_cmp_eq_u64", "s_cmp_lg_u64"}
  BY <1>1 DEF CmpKs, FieldForm
<1>3. i.d \in Registers /\ x \in Int /\ Read(st0, i.a) = Mask(x)
  BY <1>1, <1>2, Plainly
<1>4. i.b \in HalfLiterals
  BY <1>1, <1>2 DEF WellFormed
<1>5. y \in Int /\ Signed(y) = y /\ Read(st0, i.b) = Mask(y)
  BY <1>4, HalfLiteral DEF Read
<1>6. Says(i, st0) = Scc(SayCmpK(i.op, Mask(x), Mask(y)))
  BY <1>3, <1>5, SaysCmpK
<1>7. Result(i, st0) = Flag(st0, CmpK(i.op, x, y))
  BY <1>1, DoesCore8
<1> HIDE DEF x, y
<1>8. Mask(Mask(x)) = Mask(x) /\ Mask(Mask(y)) = Mask(y) /\ Signed(Mask(x)) = Signed(x) /\ Signed(Mask(y)) = y
  BY <1>3, <1>5, MaskOfMask, SignedOfMask
<1>9. CASE i.op = "s_cmpk_lt_u32"
  <2> DEFINE b == Mask(x) < Mask(y)
  <2>1. Says(i, st0) = Scc(b)
    BY <1>6, <1>8, <1>9 DEF SayCmpK
  <2>2. Result(i, st0) = Flag(st0, b)
    BY <1>7, <1>9 DEF CmpK
  <2>3. b \in BOOLEAN
    OBVIOUS
  <2> HIDE DEF b
  <2> QED  BY <1>3, <2>1, <2>2, <2>3, SameFlag
<1>10. CASE i.op = "s_cmpk_le_u32"
  <2> DEFINE b == Mask(x) <= Mask(y)
  <2>1. Says(i, st0) = Scc(b)
    BY <1>6, <1>8, <1>10 DEF SayCmpK
  <2>2. Result(i, st0) = Flag(st0, b)
    BY <1>7, <1>10 DEF CmpK
  <2>3. b \in BOOLEAN
    OBVIOUS
  <2> HIDE DEF b
  <2> QED  BY <1>3, <2>1, <2>2, <2>3, SameFlag
<1>11. CASE i.op = "s_cmpk_gt_u32"
  <2> DEFINE b == Mask(x) > Mask(y)
  <2>1. Says(i, st0) = Scc(b)
    BY <1>6, <1>8, <1>11 DEF SayCmpK
  <2>2. Result(i, st0) = Flag(st0, b)
    BY <1>7, <1>11 DEF CmpK
  <2>3. b \in BOOLEAN
    OBVIOUS
  <2> HIDE DEF b
  <2> QED  BY <1>3, <2>1, <2>2, <2>3, SameFlag
<1>12. CASE i.op = "s_cmpk_ge_u32"
  <2> DEFINE b == Mask(x) >= Mask(y)
  <2>1. Says(i, st0) = Scc(b)
    BY <1>6, <1>8, <1>12 DEF SayCmpK
  <2>2. Result(i, st0) = Flag(st0, b)
    BY <1>7, <1>12 DEF CmpK
  <2>3. b \in BOOLEAN
    OBVIOUS
  <2> HIDE DEF b
  <2> QED  BY <1>3, <2>1, <2>2, <2>3, SameFlag
<1>13. CASE i.op = "s_cmpk_lt_i32"
  <2> DEFINE b == Signed(x) < y
  <2>1. Says(i, st0) = Scc(b)
    BY <1>6, <1>8, <1>13 DEF SayCmpK
  <2>2. Result(i, st0) = Flag(st0, b)
    BY <1>7, <1>13 DEF CmpK
  <2>3. b \in BOOLEAN
    OBVIOUS
  <2> HIDE DEF b
  <2> QED  BY <1>3, <2>1, <2>2, <2>3, SameFlag
<1>14. CASE i.op = "s_cmpk_gt_i32"
  <2> DEFINE b == Signed(x) > y
  <2>1. Says(i, st0) = Scc(b)
    BY <1>6, <1>8, <1>14 DEF SayCmpK
  <2>2. Result(i, st0) = Flag(st0, b)
    BY <1>7, <1>14 DEF CmpK
  <2>3. b \in BOOLEAN
    OBVIOUS
  <2> HIDE DEF b
  <2> QED  BY <1>3, <2>1, <2>2, <2>3, SameFlag
<1> QED  BY <1>9, <1>10, <1>11, <1>12, <1>13, <1>14 DEF SayCmpKs

\* The two agree on the bit tests.
LEMMA AgreeBitTest ==
  ASSUME NEW st0 \in State, NEW i, WellFormed(i), i.op \in SayBitTests
  PROVE  Result(i, st0) = Oracle(i, st0)
<1> DEFINE x == Get(st0, i.a)
           y == i.b.n
<1>1. i.op \notin PairOps /\ ~FieldForm(i) /\ i.op \notin CmpKs
  BY DEF SayBitTests, PairOps, FieldForm, CmpKs
<1>2. i.op \notin {"s_movk_i32", "s_addk_i32", "s_mulk_i32"} /\ i.op \in {"s_bitcmp0_b32", "s_bitcmp1_b32"}
  BY DEF SayBitTests
<1>3. i.d \in Registers /\ x \in Int /\ Read(st0, i.a) = Mask(x) /\ Read(st0, i.b) = Mask(Get(st0, i.b))
  BY <1>1, Plainly
<1>4. i.b.t = "lit" /\ y \in 0 .. W - 1
  <2>0. i.op \notin {"s_bfe_u32", "s_bfe_i32"} /\ i.op \notin {"s_cmp_eq_u64", "s_cmp_lg_u64"}
    BY <1>2
  <2>1. i.b \in [t : {"lit"}, n : 0 .. W - 1]
    BY <1>1, <1>2, <2>0 DEF WellFormed
  <2> QED  BY <2>1
<1>5. Get(st0, i.b) = y
  BY <1>4 DEF Get
<1>6. Says(i, st0) = Scc(SayBitTest(i.op, Mask(x), Mask(y)))
  BY <1>3, <1>5, SaysBitTest
<1> HIDE DEF x, y
<1>7. Mask(Mask(y)) % W = y
  <2>1. y \in Int /\ Mask(y) \in Int /\ W \in Nat \ {0}
    BY <1>4, MType, MaskType, WidthAssumption
  <2>2. Mask(Mask(y)) % W = y % W
    BY <2>1, MaskOfMask, CountOfMask
  <2>3. y = W * 0 + y
    BY <2>1
  <2>4. (W * 0 + y) % W = y
    BY <1>4, <2>1, Quotient
  <2> QED  BY <2>2, <2>3, <2>4
<1>8. Bit(Mask(x), y) = Bit(x, y)
  BY <1>3, <1>4, BitOfMask
<1>9. CASE i.op = "s_bitcmp0_b32"
  <2> DEFINE b == Bit(x, y) = 0
  <2>1. Says(i, st0) = Scc(b)
    BY <1>6, <1>7, <1>8, <1>9 DEF SayBitTest
  <2>2. Result(i, st0) = Flag(st0, b)
    BY <1>9, DoesE16 DEF x, y
  <2>3. b \in BOOLEAN
    OBVIOUS
  <2> HIDE DEF b
  <2> QED  BY <1>3, <2>1, <2>2, <2>3, SameFlag
<1>10. CASE i.op = "s_bitcmp1_b32"
  <2> DEFINE b == Bit(x, y) = 1
  <2>1. Says(i, st0) = Scc(b)
    BY <1>6, <1>7, <1>8, <1>10 DEF SayBitTest
  <2>2. Result(i, st0) = Flag(st0, b)
    BY <1>10, DoesE16 DEF x, y
  <2>3. b \in BOOLEAN
    OBVIOUS
  <2> HIDE DEF b
  <2> QED  BY <1>3, <2>1, <2>2, <2>3, SameFlag
<1> QED  BY <1>9, <1>10 DEF SayBitTests

\* The two agree if the oracle writes the word of what the emulator writes.
LEMMA SameMasked ==
  ASSUME NEW st0 \in State, NEW i, i.d \in Registers, NEW v \in Int,
         Result(i, st0) = Set(st0, i.d, v), Says(i, st0) = Value(Mask(v))
  PROVE  Result(i, st0) = Oracle(i, st0)
BY SameValue, MaskType, MaskOfMask

\* Signed and unsigned low bits are numbers.
LEMMA SignedType == ASSUME NEW x \in Int, NEW n \in Nat PROVE SignedLow(x, n) \in Int /\ Low(x, n) \in Nat
<1>1. CASE n = 0
  <2>1. Pow2[n] = 1
    BY <1>1, PowStep
  <2>2. Low(x, n) = 0
    BY <2>1 DEF Low
  <2>3. Pow2[n - 1] \in Int => SignedLow(x, n) \in Int
    BY <2>1, <2>2 DEF SignedLow
  <2> QED  BY <2>1, <2>2 DEF SignedLow
<1>2. CASE n # 0
  <2>1. n - 1 \in Nat
    BY <1>2
  <2>2. Pow2[n] \in Nat /\ Pow2[n] > 0 /\ Pow2[n - 1] \in Nat
    BY <2>1, PowStep
  <2>3. Low(x, n) \in Nat
    BY <2>2 DEF Low
  <2> QED  BY <2>2, <2>3 DEF SignedLow
<1> QED  BY <1>1, <1>2

\* The two agree on the additions with carry.
LEMMA AgreeCarry ==
  ASSUME NEW st0 \in State, NEW i, WellFormed(i), i.op \in {"s_add_u32", "s_addc_u32"}, ~Disputed(i)
  PROVE  Result(i, st0) = Oracle(i, st0)
<1> DEFINE x == Get(st0, i.a)
           y == Get(st0, i.b)
           sum == IF i.op = "s_add_u32" THEN x + y ELSE x + y + st0.scc
<1>1. i.op \notin PairOps /\ ~FieldForm(i) /\ i.op \in SayArith
  BY DEF PairOps, FieldForm, SayArith
<1>2. ~Negative(i.a) /\ ~Negative(i.b)
  BY DEF Disputed, UncutLiteral
<1>3. i.d \in Registers /\ x \in Word /\ y \in Word /\ Read(st0, i.a) = Mask(x) /\ Read(st0, i.b) = Mask(y)
  BY <1>1, <1>2, Plainly
<1>4. Read(st0, i.a) = x /\ Read(st0, i.b) = y /\ x \in Nat /\ y \in Nat
  BY <1>3, MaskOfWord
<1>5. Says(i, st0) = SayArithmetic(i.op, x, y, st0.scc)
  BY <1>1, <1>4, SaysArith
<1>6. Result(i, st0) = AddCarry(st0, i.d, sum)
  BY DoesOneOfMain
<1>7. st0.scc \in Nat
  BY DEF State
<1> HIDE DEF x, y
<1>8. sum \in Int /\ Says(i, st0) = ValueScc(Mask(sum), sum > Top)
  BY <1>4, <1>5, <1>7 DEF SayArithmetic
<1> HIDE DEF sum
<1> DEFINE b == sum > Top
<1>9. Set(st0, i.d, sum) = Set(st0, i.d, Mask(sum)) /\ Mask(sum) \in Int
  BY <1>3, <1>8, PutSame, MaskOfMask, MaskType
<1>10. Result(i, st0) = Flag(Set(st0, i.d, sum), b)
  BY <1>6 DEF AddCarry
<1>11. b \in BOOLEAN /\ Says(i, st0) = ValueScc(Mask(sum), b)
  BY <1>8
<1> HIDE DEF b
<1>12. Written(i, st0, ValueScc(Mask(sum), b)) = Flag(Set(st0, i.d, Mask(sum)), b)
  BY <1>3, <1>9, <1>11, Writes
<1> QED  BY <1>9, <1>10, <1>11, <1>12 DEF Oracle

\* The two agree on the other arithmetic instructions.
LEMMA AgreeArith ==
  ASSUME NEW st0 \in State, NEW i, WellFormed(i), i.op \in SayArith, i.op \notin {"s_add_u32", "s_addc_u32"}, ~Disputed(i)
  PROVE  Result(i, st0) = Oracle(i, st0)
<1> DEFINE x == Get(st0, i.a)
           y == Get(st0, i.b)
<1>1. i.op \in CoreArith \cup {"s_min_i32", "s_sext_i32_i8", "s_sext_i32_i16"}
  <2>1. i.op # "s_max_i32"
    BY DEF Disputed, FlagOnly
  <2> QED  BY <2>1 DEF WellFormed, Emulated, SayArith, CoreOps, CoreCompares, CoreLogic, SaveExecs, CoreArith,
                       CoreShifts, Core8Ops, CmpKs, SwinOps, E16Ops, IsaOps
<1>2. i.op \notin PairOps /\ ~FieldForm(i)
  BY <1>1 DEF CoreArith, PairOps, FieldForm
<1>3. i.d \in Registers /\ x \in Int /\ y \in Int /\ Read(st0, i.a) = Mask(x) /\ Read(st0, i.b) = Mask(y)
  BY <1>2, Plainly
<1>4. Says(i, st0) = SayArithmetic(i.op, Mask(x), Mask(y), st0.scc)
  BY <1>3, SaysArith
<1>5. i.op \in CoreArith => Result(i, st0) = Set(st0, i.d, CoreArithValue(i.op, x, y))
  BY IsArith
<1>6. ~FieldForm(i) => /\ i.op = "s_min_i32" => Result(i, st0) = Set(st0, i.d, IF Signed(y) < Signed(x) THEN Signed(y) ELSE Signed(x))
                       /\ i.op = "s_sext_i32_i8" => Result(i, st0) = Set(st0, i.d, SignedLow(x, ByteBits))
                       /\ i.op = "s_sext_i32_i16" => Result(i, st0) = Set(st0, i.d, SignedLow(x, HalfBits))
  BY DoesMore DEF MoreOps
<1>7. i.op = "s_mul_hi_u32" => x \in Word /\ y \in Word
  <2> SUFFICES ASSUME i.op = "s_mul_hi_u32" PROVE x \in Word /\ y \in Word
    OBVIOUS
  <2>1. ~Negative(i.a) /\ ~Negative(i.b)
    BY DEF Disputed, UncutLiteral
  <2> QED  BY <1>2, <2>1, Plainly
<1> HIDE DEF x, y
<1>8. /\ Signed(Mask(x)) = Signed(x) /\ Signed(Mask(y)) = Signed(y) /\ Signed(x) \in Int /\ Signed(y) \in Int
  BY <1>3, SignedOfMask, SignedSame
<1>9. CASE i.op \in {"s_add_i32", "s_sub_i32"}
  <2>1. Same(Signed(x), x) /\ Same(Signed(y), y)
    BY <1>3, SignedSame
  <2>2. Same(Signed(x) + Signed(y), x + y) /\ Same(Signed(x) - Signed(y), x - y)
    BY <1>3, <1>8, <2>1, SameSum
  <2>3. Mask(Signed(x) + Signed(y)) = Mask(x + y) /\ Mask(Signed(x) - Signed(y)) = Mask(x - y) /\ x + y \in Int /\ x - y \in Int
    BY <1>3, <1>8, <2>2, MaskSame
  <2>4. CASE i.op = "s_add_i32"
    <3>1. Result(i, st0) = Set(st0, i.d, x + y)
      BY <1>5, <2>4 DEF CoreArith, CoreArithValue
    <3>2. Says(i, st0) = Value(Mask(x + y))
      BY <1>4, <1>8, <2>3, <2>4 DEF SayArithmetic
    <3> QED  BY <1>3, <2>3, <3>1, <3>2, SameMasked
  <2>5. CASE i.op = "s_sub_i32"
    <3>1. Result(i, st0) = Set(st0, i.d, x - y)
      BY <1>5, <2>5 DEF CoreArith, CoreArithValue
    <3>2. Says(i, st0) = Value(Mask(x - y))
      BY <1>4, <1>8, <2>3, <2>5 DEF SayArithmetic
    <3> QED  BY <1>3, <2>3, <3>1, <3>2, SameMasked
  <2> QED  BY <1>9, <2>4, <2>5
<1>10. CASE i.op = "s_mul_i32"
  <2> DEFINE v == Signed(x) * Signed(y)
  <2>1. Result(i, st0) = Set(st0, i.d, v) /\ Says(i, st0) = Value(Mask(v))
    BY <1>4, <1>5, <1>8, <1>10 DEF CoreArith, CoreArithValue, SayArithmetic
  <2>2. v \in Int
    BY <1>8
  <2> HIDE DEF v
  <2> QED  BY <1>3, <2>1, <2>2, SameMasked
<1>11. CASE i.op = "s_mul_hi_u32"
  <2> DEFINE v == Shr(x * y, W)
  <2>1. Mask(x) = x /\ Mask(y) = y
    BY <1>7, <1>11, MaskOfWord
  <2>2. Result(i, st0) = Set(st0, i.d, v) /\ Says(i, st0) = Value(Mask(v))
    BY <1>4, <1>5, <1>11, <2>1 DEF CoreArith, CoreArithValue, SayArithmetic
  <2>3. v \in Int
    <3>1. x * y \in Int /\ W \in Nat
      BY <1>3, MType
    <3> QED  BY <3>1, ShiftOfMask
  <2> HIDE DEF v
  <2> QED  BY <1>3, <2>2, <2>3, SameMasked
<1>12. CASE i.op = "s_mul_hi_i32"
  <2> DEFINE v == Shr(Signed(x) * Signed(y), W)
  <2>2. Result(i, st0) = Set(st0, i.d, v) /\ Says(i, st0) = Value(Mask(v))
    BY <1>4, <1>5, <1>8, <1>12 DEF CoreArith, CoreArithValue, SayArithmetic
  <2>3. v \in Int
    <3>1. Signed(x) * Signed(y) \in Int /\ W \in Nat
      BY <1>8, MType
    <3> QED  BY <3>1, ShiftOfMask
  <2> HIDE DEF v
  <2> QED  BY <1>3, <2>2, <2>3, SameMasked
<1>13. CASE i.op = "s_abs_i32"
  <2> DEFINE v == IF Signed(x) < 0 THEN -Signed(x) ELSE Signed(x)
  <2>1. Result(i, st0) = Set(st0, i.d, v) /\ Says(i, st0) = Value(Mask(v))
    BY <1>4, <1>5, <1>8, <1>13 DEF CoreArith, CoreArithValue, SayArithmetic
  <2>2. v \in Int
    BY <1>8
  <2> HIDE DEF v
  <2> QED  BY <1>3, <2>1, <2>2, SameMasked
<1>14. CASE i.op \in {"s_sext_i32_i8", "s_sext_i32_i16"}
  <2>1. ByteBits \in 0 .. W /\ HalfBits \in 0 .. W
    BY WidthAssumption DEF ByteBits, HalfBits
  <2>2. SignedLow(Mask(x), ByteBits) = SignedLow(x, ByteBits) /\ SignedLow(Mask(x), HalfBits) = SignedLow(x, HalfBits)
    BY <1>3, <2>1, SignedLowOfMask
  <2>3. SignedLow(x, ByteBits) \in Int /\ SignedLow(x, HalfBits) \in Int
    BY <1>3, <2>1, SignedType
  <2>4. CASE i.op = "s_sext_i32_i8"
    <3>1. Result(i, st0) = Set(st0, i.d, SignedLow(x, ByteBits)) /\ Says(i, st0) = Value(Mask(SignedLow(x, ByteBits)))
      BY <1>2, <1>4, <1>6, <2>2, <2>4 DEF SayArithmetic
    <3> QED  BY <1>3, <2>3, <3>1, SameMasked
  <2>5. CASE i.op = "s_sext_i32_i16"
    <3>1. Result(i, st0) = Set(st0, i.d, SignedLow(x, HalfBits)) /\ Says(i, st0) = Value(Mask(SignedLow(x, HalfBits)))
      BY <1>2, <1>4, <1>6, <2>2, <2>5 DEF SayArithmetic
    <3> QED  BY <1>3, <2>3, <3>1, SameMasked
  <2> QED  BY <1>14, <2>4, <2>5
<1>15. CASE i.op = "s_min_i32"
  <2> DEFINE v == IF Signed(y) < Signed(x) THEN Signed(y) ELSE Signed(x)
  <2>1. Result(i, st0) = Set(st0, i.d, v) /\ Says(i, st0) = Value(Mask(v))
    BY <1>2, <1>4, <1>6, <1>8, <1>15 DEF SayArithmetic, Smaller
  <2>2. v \in Int
    BY <1>8
  <2> HIDE DEF v
  <2> QED  BY <1>3, <2>1, <2>2, SameMasked
<1> QED  BY <1>1, <1>9, <1>10, <1>11, <1>12, <1>13, <1>14, <1>15 DEF CoreArith

\* The signed reading of n bits keeps a number that has n bits with its sign.
LEMMA SignedLowSmall ==
  ASSUME NEW n \in Nat \ {0}, NEW x \in Int, -Pow2[n - 1] <= x, x < Pow2[n - 1]
  PROVE  SignedLow(x, n) = x
<1> DEFINE h == Pow2[n - 1]
<1>1. h \in Nat /\ h > 0 /\ Pow2[n] = 2 * h
  <2>1. n - 1 \in Nat /\ (n - 1) + 1 = n
    OBVIOUS
  <2> QED  BY <2>1, PowStep
<1>2. -h <= x /\ x < h
  OBVIOUS
<1>3. Low(x, n) = x % (2 * h) /\ SignedLow(x, n) = IF Low(x, n) >= h THEN Low(x, n) - 2 * h ELSE Low(x, n)
  BY <1>1 DEF Low, SignedLow
<1> HIDE DEF h
<1> DEFINE m == 2 * h
<1>4. m \in Nat \ {0}
  BY <1>1
<1>5. CASE x >= 0
  <2>1. x = m * 0 + x /\ x \in 0 .. m - 1
    BY <1>1, <1>2, <1>5
  <2> HIDE DEF m
  <2>2. (m * 0 + x) % m = x
    BY <1>4, <2>1, Quotient
  <2>3. Low(x, n) = x
    BY <1>3, <2>1, <2>2 DEF m
  <2> QED  BY <1>1, <1>2, <1>3, <2>3
<1>6. CASE x < 0
  <2> DEFINE r == x + m
  <2>1. x = m * (-1) + r /\ r \in 0 .. m - 1 /\ r >= h
    BY <1>1, <1>2, <1>6
  <2> HIDE DEF m, r
  <2>2. (m * (-1) + r) % m = r
    BY <1>4, <2>1, Quotient
  <2>3. Low(x, n) = r
    BY <1>3, <2>1, <2>2 DEF m
  <2> QED  BY <1>1, <1>2, <1>3, <2>1, <2>3 DEF r, m
<1> QED  BY <1>5, <1>6

\* The two agree on the instructions with a constant of half a word.
LEMMA AgreeK ==
  ASSUME NEW st0 \in State, NEW i, WellFormed(i), i.op \in {"s_addk_i32", "s_movk_i32"}, ~Disputed(i)
  PROVE  Result(i, st0) = Oracle(i, st0)
<1> DEFINE x == Get(st0, i.a)
           d == Get(st0, i.d)
<1>1. i.op \notin PairOps /\ ~FieldForm(i)
  BY DEF PairOps, FieldForm
<1>2. i.d \in Registers /\ x \in Int /\ Read(st0, i.a) = Mask(x)
  BY <1>1, Plainly
<1>3. d \in Int /\ Read(st0, i.d) = Mask(d)
  BY <1>2, Operand
<1>4. i.op = "s_addk_i32" => Says(i, st0) = Value(Mask(Mask(d) + Mask(x))) /\ Result(i, st0) = Set(st0, i.d, d + x)
  BY <1>2, <1>3, SaysOther, DoesSwin DEF SayAddK
<1>5. i.op = "s_movk_i32" => Says(i, st0) = Value(Mask(SignedLow(Mask(x), HalfBits))) /\ Result(i, st0) = Set(st0, i.d, x)
  BY <1>1, <1>2, SaysOther, DoesMore DEF SayMovK, MoreOps
<1>6. i.op = "s_movk_i32" => -Pow2[HalfBits - 1] <= x /\ x < Pow2[HalfBits - 1]
  <2> SUFFICES ASSUME i.op = "s_movk_i32" PROVE -Pow2[HalfBits - 1] <= x /\ x < Pow2[HalfBits - 1]
    OBVIOUS
  <2>1. HalfBits - 1 \in Nat
    BY WidthAssumption DEF HalfBits
  <2>2. Pow2[HalfBits - 1] \in Nat
    BY <2>1, PowStep
  <2>3. i.a \in HalfLiterals
    <3>1. i.op \notin {"s_bitcmp0_b32", "s_bitcmp1_b32"} /\ i.op # "s_getpc_b64"
      OBVIOUS
    <3> QED  BY <1>1, <3>1 DEF WellFormed
  <2>4. i.a.t = "lit" /\ i.a.n \in Int /\ i.a.n >= -Pow2[HalfBits - 1]
    BY <2>2, <2>3, HalfLiteral DEF HalfLiterals
  <2>5. x = i.a.n
    BY <2>4 DEF Get
  <2>6. ~(i.a.n >= Pow2[HalfBits - 1])
    BY DEF Disputed, LongLiteral
  <2> QED  BY <2>2, <2>4, <2>5, <2>6
<1> HIDE DEF x, d
<1>7. CASE i.op = "s_addk_i32"
  <2>1. Same(Mask(d), d) /\ Same(Mask(x), x) /\ Mask(d) \in Int /\ Mask(x) \in Int
    BY <1>2, <1>3, SameMask, MaskType
  <2>2. Same(Mask(d) + Mask(x), d + x)
    BY <1>2, <1>3, <2>1, SameSum
  <2>3. Mask(Mask(d) + Mask(x)) = Mask(d + x) /\ d + x \in Int
    BY <1>2, <1>3, <2>1, <2>2, MaskSame
  <2> QED  BY <1>2, <1>4, <1>7, <2>3, SameMasked
<1>8. CASE i.op = "s_movk_i32"
  <2>1. HalfBits \in Nat \ {0} /\ HalfBits \in 0 .. W
    BY WidthAssumption DEF HalfBits
  <2>2. SignedLow(Mask(x), HalfBits) = x
    BY <1>2, <1>6, <1>8, <2>1, SignedLowOfMask, SignedLowSmall
  <2> QED  BY <1>2, <1>5, <1>8, <2>2, SameMasked
<1> QED  BY <1>7, <1>8

\* The complement is a word.
LEMMA NotType == ASSUME NEW x \in Int PROVE Not(x) \in Word
BY MaskType, Constants DEF Not, Word

\* The two agree on the logical instructions.
LEMMA AgreeLogic ==
  ASSUME NEW st0 \in State, NEW i, WellFormed(i), i.op \in SayLogic
  PROVE  Result(i, st0) = Oracle(i, st0)
<1> DEFINE x == Get(st0, i.a)
           y == Get(st0, i.b)
<1>1. i.op \in {"s_and_b32", "s_or_b32", "s_xor_b32", "s_andn2_b32", "s_not_b32", "s_nor_b32", "s_orn2_b32"}
  BY DEF WellFormed, Emulated, SayLogic, CoreOps, CoreCompares, CoreLogic, SaveExecs, CoreArith,
         CoreShifts, Core8Ops, CmpKs, SwinOps, E16Ops, IsaOps
<1>2. i.op \notin PairOps /\ ~FieldForm(i)
  BY <1>1 DEF PairOps, FieldForm
<1>3. i.d \in Registers /\ x \in Int /\ y \in Int /\ Read(st0, i.a) = Mask(x) /\ Read(st0, i.b) = Mask(y)
  BY <1>2, Plainly
<1>4. Says(i, st0) = Value(SayLogicValue(i.op, Mask(x), Mask(y)))
  BY <1>3, SaysLogic
<1>5. i.op \in CoreLogic => Result(i, st0) = Set(st0, i.d, CoreLogicValue(i.op, x, y))
  BY DoesMain
<1>6. /\ i.op = "s_not_b32" => Result(i, st0) = Set(st0, i.d, Not(x))
      /\ i.op = "s_nor_b32" => Result(i, st0) = Set(st0, i.d, Not(Or(x, y)))
      /\ i.op = "s_orn2_b32" => Result(i, st0) = Set(st0, i.d, Or(x, Not(y)))
  BY DoesCore8, DoesSwin
<1> HIDE DEF x, y
<1>7. Ones(Mask(x)) = Ones(x) /\ Ones(Mask(y)) = Ones(y) /\ Not(Mask(x)) = Not(x) /\ Not(Mask(y)) = Not(y)
  BY <1>3, OnesOfMask, MaskOfMask
<1>8. SayLogicValue(i.op, Mask(x), Mask(y)) = SayLogicValue(i.op, x, y)
  BY <1>1, <1>7 DEF SayLogicValue, And, Or, Xor
<1> DEFINE v == SayLogicValue(i.op, x, y)
<1>9. Result(i, st0) = Set(st0, i.d, v)
  <2>1. CASE i.op \in {"s_and_b32", "s_or_b32", "s_xor_b32", "s_andn2_b32"}
    <3>1. CoreLogicValue(i.op, x, y) = v
      BY <2>1 DEF CoreLogicValue, SayLogicValue
    <3> QED  BY <1>5, <2>1, <3>1 DEF CoreLogic
  <2>2. CASE i.op \in {"s_not_b32", "s_nor_b32", "s_orn2_b32"}
    BY <1>6, <2>2 DEF SayLogicValue
  <2> QED  BY <1>1, <2>1, <2>2
<1>10. v \in Int
  <2>1. And(x, y) \in Int /\ Or(x, y) \in Int /\ Xor(x, y) \in Int /\ And(x, Not(y)) \in Int /\ Or(x, Not(y)) \in Int
    BY OfOnesType, MaskOfWord DEF And, Or, Xor
  <2>2. Not(x) \in Int /\ Not(Or(x, y)) \in Int
    BY <1>3, <2>1, NotType, MaskOfWord
  <2> QED  BY <1>1, <2>1, <2>2 DEF SayLogicValue
<1>11. Says(i, st0) = Value(v)
  BY <1>4, <1>8
<1> HIDE DEF v
<1> QED  BY <1>3, <1>9, <1>10, <1>11, SameValue

\* The two agree on the shifts.
LEMMA AgreeShift ==
  ASSUME NEW st0 \in State, NEW i, WellFormed(i), i.op \in CoreShifts, ~Disputed(i)
  PROVE  Result(i, st0) = Oracle(i, st0)
<1> DEFINE x == Get(st0, i.a)
           y == Get(st0, i.b)
           n == y % W
<1>1. i.op \notin PairOps /\ ~FieldForm(i) /\ i.op \in SayShifts
  BY DEF CoreShifts, PairOps, FieldForm, SayShifts
<1>2. i.d \in Registers /\ x \in Int /\ y \in Int /\ Read(st0, i.a) = Mask(x) /\ Read(st0, i.b) = Mask(y)
  BY <1>1, Plainly
<1>3. Says(i, st0) = Value(SayShift(i.op, Mask(x), Mask(y)))
  BY <1>1, <1>2, SaysShift
<1>4. Result(i, st0) = Set(st0, i.d, CoreShift(i.op, x, y))
  BY DoesMain
<1>5. i.op = "s_lshr_b32" => x \in Word
  <2> SUFFICES ASSUME i.op = "s_lshr_b32" PROVE x \in Word
    OBVIOUS
  <2>1. ~Negative(i.a)
    BY DEF Disputed, UncutLiteral
  <2> QED  BY <1>1, <2>1, Plainly
<1> HIDE DEF x, y
<1>6. Mask(y) % W = n /\ n \in Nat
  BY <1>2, CountOfMask, WidthAssumption
<1> HIDE DEF n
<1>7. CASE i.op = "s_lshl_b32"
  <2> DEFINE v == Shl(x, n)
  <2>1. Mask(Shl(Mask(x), n)) = Mask(v) /\ v \in Int
    BY <1>2, <1>6, ShiftOfMask
  <2>2. Result(i, st0) = Set(st0, i.d, v)
    BY <1>4, <1>7 DEF CoreShift, n
  <2>3. Says(i, st0) = Value(Mask(v))
    BY <1>3, <1>6, <1>7, <2>1 DEF SayShift
  <2> HIDE DEF v
  <2> QED  BY <1>2, <2>1, <2>2, <2>3, SameMasked
<1>8. CASE i.op = "s_lshr_b32"
  <2> DEFINE v == Shr(x, n)
  <2>1. Mask(x) = x /\ v \in Int
    BY <1>2, <1>5, <1>6, <1>8, MaskOfWord, ShiftOfMask
  <2>2. Result(i, st0) = Set(st0, i.d, v)
    BY <1>4, <1>8 DEF CoreShift, n
  <2>3. Says(i, st0) = Value(v)
    BY <1>3, <1>6, <1>8, <2>1 DEF SayShift
  <2> HIDE DEF v
  <2> QED  BY <1>2, <2>1, <2>2, <2>3, SameValue
<1>9. CASE i.op = "s_ashr_i32"
  <2> DEFINE v == Shr(Signed(x), n)
  <2>1. Signed(Mask(x)) = Signed(x) /\ v \in Int
    BY <1>2, <1>6, SignedOfMask, SignedSame, ShiftOfMask
  <2>2. Result(i, st0) = Set(st0, i.d, v)
    BY <1>4, <1>9 DEF CoreShift, n
  <2>3. Says(i, st0) = Value(Mask(v))
    BY <1>3, <1>6, <1>9, <2>1 DEF SayShift
  <2> HIDE DEF v
  <2> QED  BY <1>2, <2>1, <2>2, <2>3, SameMasked
<1> QED  BY <1>7, <1>8, <1>9 DEF CoreShifts

\* The two agree on the saveexec instructions.
LEMMA AgreeSave ==
  ASSUME NEW st0 \in State, NEW i, WellFormed(i), i.op \in SaySaveExecs, ~Disputed(i)
  PROVE  Result(i, st0) = Oracle(i, st0)
<1> DEFINE x == Get(st0, i.a)
           e == st0.exec
           new == NewExec(i.op, e, x)
<1>1. i.op \in {"s_and_saveexec_b32", "s_or_saveexec_b32", "s_xor_saveexec_b32"}
  <2>1. i.op # "s_andn2_saveexec_b32"
    BY DEF Disputed, OtherMask
  <2> QED  BY <2>1 DEF WellFormed, Emulated, SaySaveExecs, CoreOps, CoreCompares, CoreLogic, SaveExecs, CoreArith,
                       CoreShifts, Core8Ops, CmpKs, SwinOps, E16Ops, IsaOps
<1>2. i.op \notin PairOps /\ ~FieldForm(i) /\ i.op \in SaveExecs
  BY <1>1 DEF PairOps, FieldForm, SaveExecs
<1>3. i.d \in Registers /\ x \in Int /\ Read(st0, i.a) = Mask(x)
  BY <1>2, Plainly
<1>4. e \in Int
  BY MaskOfWord DEF State
<1>5. Says(i, st0) = SaySaveExec(i.op, e, Mask(x))
  BY <1>3, SaysSave
<1>6. Result(i, st0) = SaveExec(st0, i.d, new)
  BY <1>2, DoesMain
<1> HIDE DEF x
<1>7. Ones(Mask(x)) = Ones(x)
  BY <1>3, OnesOfMask
<1>8. Says(i, st0) = [value |-> e, exec |-> new]
  <2>1. CASE i.op = "s_and_saveexec_b32"
    BY <1>5, <1>7, <2>1 DEF SaySaveExec, NewExec, And
  <2>2. CASE i.op = "s_or_saveexec_b32"
    BY <1>5, <1>7, <2>2 DEF SaySaveExec, NewExec, Or
  <2>3. CASE i.op = "s_xor_saveexec_b32"
    BY <1>5, <1>7, <2>3 DEF SaySaveExec, NewExec, Xor
  <2> QED  BY <1>1, <2>1, <2>2, <2>3
<1> HIDE DEF new
<1>9. Written(i, st0, [value |-> e, exec |-> new]) = [Set(st0, i.d, e) EXCEPT !.exec = new]
  BY <1>3, <1>4, Writes
<1> QED  BY <1>6, <1>8, <1>9 DEF SaveExec, Oracle

\* The two agree on moves and selects.
LEMMA AgreeMove ==
  ASSUME NEW st0 \in State, NEW i, WellFormed(i), i.op \in {"s_mov_b32", "s_cselect_b32"}
  PROVE  Result(i, st0) = Oracle(i, st0)
<1> DEFINE x == Get(st0, i.a)
           y == Get(st0, i.b)
           v == IF i.op = "s_mov_b32" \/ st0.scc = 1 THEN x ELSE y
<1>1. i.op \notin PairOps /\ ~FieldForm(i) /\ i.op \in SayMoves
  BY DEF PairOps, FieldForm, SayMoves
<1>2. i.d \in Registers /\ x \in Int /\ y \in Int /\ Read(st0, i.a) = Mask(x) /\ Read(st0, i.b) = Mask(y)
  BY <1>1, Plainly
<1>3. Says(i, st0) = Value(SayMove(i.op, Mask(x), Mask(y), st0.scc))
  BY <1>1, <1>2, SaysMove
<1>4. Result(i, st0) = Set(st0, i.d, v)
  BY DoesOneOfMain
<1> HIDE DEF x, y
<1>5. SayMove(i.op, Mask(x), Mask(y), st0.scc) = Mask(v)
  BY DEF SayMove
<1>6. v \in Int
  BY <1>2
<1> HIDE DEF v
<1> QED  BY <1>2, <1>3, <1>4, <1>5, <1>6, SameMasked

\* A packed field begins in the word and is not empty.
LEMMA FieldBounds ==
  ASSUME NEW n \in Nat
  PROVE  FieldOffset(n) \in 0 .. W - 1 /\ FieldWidth(n) \in Nat \ {0}
<1>1. W \in Nat \ {0} /\ 2 * W \in Nat \ {0}
  BY WidthAssumption
<1> DEFINE m == 2 * W
<1>2. n % m \in Nat /\ n \div m \in Int
  BY <1>1
<1>3. (n \div m) % W \in 0 .. W - 1
  BY <1>1, <1>2
<1> HIDE DEF m
<1> QED  BY <1>1, <1>2, <1>3 DEF FieldOffset, FieldWidth, m

\* The two agree on the bit field extracts.
LEMMA AgreeField ==
  ASSUME NEW st0 \in State, NEW i, WellFormed(i), i.op \in {"s_bfe_u32", "s_bfe_i32"}, ~Disputed(i)
  PROVE  Result(i, st0) = Oracle(i, st0)
<1> DEFINE x == Get(st0, i.a)
           n == i.b.n
           o == FieldOffset(n)
           f == FieldWidth(n)
           r == Mask(Shr(x, o))
           v == Shr(Mask(x), o)
<1>1. i.op \notin PairOps /\ i.op \notin CmpKs /\ i.op \notin {"s_bitcmp0_b32", "s_bitcmp1_b32"}
      /\ i.op \notin {"s_cmp_eq_u64", "s_cmp_lg_u64"}
  BY DEF PairOps, CmpKs
<1>2. i.b.t = "field" /\ FieldForm(i)
  BY DEF Disputed, FourOperands, FieldForm
<1>3. n \in Nat
  <2>1. i.b \in Sources \cup FieldLiterals
    BY <1>1 DEF WellFormed
  <2>2. i.b \notin Sources
    BY <1>2 DEF Sources, Registers, Literals, ExecReg, Null
  <2> QED  BY <2>1, <2>2 DEF FieldLiterals
<1>4. f < W
  <2>1. ~(FieldWidth(i.b.n) >= W)
    BY <1>2 DEF Disputed, FullField
  <2>2. FieldWidth(i.b.n) \in Nat /\ W \in Nat
    BY <1>3, FieldBounds, MType
  <2> QED  BY <2>1, <2>2
<1>5. i.d \in Registers /\ Plain(i.a)
  BY <1>1, PlainOperands
<1>6. x \in Int /\ Read(st0, i.a) = Mask(x) /\ (i.op = "s_bfe_i32" => Mask(x) = x)
  <2>1. x \in Int /\ Read(st0, i.a) = Mask(x) /\ (~Negative(i.a) => x \in Word)
    BY <1>5, Operand DEF Plain
  <2>2. i.op = "s_bfe_i32" => ~Negative(i.a)
    BY DEF Disputed, UncutLiteral
  <2> QED  BY <2>1, <2>2, MaskOfWord
<1>7. Get(st0, i.b) = n /\ Read(st0, i.b) = n
  BY <1>2 DEF Get, Read
<1>8. Says(i, st0) = Value(SayField(i.op, Mask(x), o, f))
  BY <1>6, <1>7, SaysOther
<1>9. Result(i, st0) = PackedField(i, st0)
  BY <1>2, DoesField
<1>10. o \in 0 .. W - 1 /\ f \in 1 .. W - 1 /\ W \in Nat \ {0}
  BY <1>3, <1>4, FieldBounds, MType, WidthAssumption
<1> DEFINE w == IF o + f >= W THEN W - o ELSE f
<1>11. Result(i, st0) = Set(st0, i.d, IF i.op = "s_bfe_u32" THEN Low(r, w) ELSE IF o + w < W THEN SignedLow(r, w) ELSE r)
  BY <1>7, <1>9 DEF PackedField
<1> HIDE DEF x, n, o, f
<1>12. o % W = o /\ f % W = f
  <2>1. o = W * 0 + o /\ o \in 0 .. W - 1 /\ f = W * 0 + f /\ f \in 0 .. W - 1
    BY <1>10
  <2>2. (W * 0 + o) % W = o /\ (W * 0 + f) % W = f
    BY <1>10, <2>1, Quotient
  <2> QED  BY <2>1, <2>2
<1>13. Says(i, st0) = Value(IF i.op = "s_bfe_u32" THEN Low(v, f) ELSE IF o + f < W THEN Mask(SignedLow(v, f)) ELSE v)
  BY <1>8, <1>10, <1>12 DEF SayField
<1>14. Shr(x, o) \in Int /\ v \in Int /\ r \in Word /\ Mask(x) \in Word
  <2>1. Mask(x) \in Int /\ Mask(x) \in Word /\ o \in Nat
    BY <1>6, <1>10, MaskType
  <2>2. Shr(x, o) \in Int /\ v \in Int
    BY <1>6, <2>1, ShiftOfMask
  <2> QED  BY <2>1, <2>2, MaskType
<1>15. CASE o + f < W
  <2>1. w = f
    BY <1>10, <1>15
  <2>2. Low(r, f) = Low(Shr(x, o), f) /\ SignedLow(r, f) = SignedLow(Shr(x, o), f)
    <3>1. f \in 0 .. W
      BY <1>10
    <3> QED  BY <1>14, <3>1, LowOfMask, SignedLowOfMask
  <2>3. Low(v, f) = Low(Shr(x, o), f)
    <3>1. o \in Nat /\ f \in Nat /\ o + f <= W
      BY <1>10, <1>15
    <3> QED  BY <1>6, <3>1, FieldOfMask
  <2>4. SignedLow(v, f) = SignedLow(r, f)
    BY <2>2, <2>3 DEF SignedLow
  <2> DEFINE g == IF i.op = "s_bfe_u32" THEN Low(r, f) ELSE SignedLow(r, f)
             h == IF i.op = "s_bfe_u32" THEN Low(v, f) ELSE Mask(SignedLow(v, f))
  <2>5. Result(i, st0) = Set(st0, i.d, g) /\ Says(i, st0) = Value(h)
    BY <1>11, <1>13, <1>15, <2>1
  <2>6. g \in Int /\ h \in Int /\ Mask(g) = Mask(h)
    <3>1. Low(r, f) \in Int /\ SignedLow(r, f) \in Int
      <4>1. r \in Int /\ f \in Nat
        BY <1>10, <1>14, MaskOfWord
      <4> QED  BY <4>1, SignedType
    <3>2. Low(r, f) = Low(v, f) /\ Mask(SignedLow(r, f)) \in Int /\ Mask(Mask(SignedLow(r, f))) = Mask(SignedLow(r, f))
      BY <2>2, <2>3, <3>1, MaskType, MaskOfMask
    <3> HIDE DEF r, v
    <3> QED  BY <2>4, <3>1, <3>2
  <2> HIDE DEF g, h
  <2> QED  BY <1>5, <2>5, <2>6, SameValue
<1>16. CASE ~(o + f < W)
  <2>1. w = W - o /\ o + w = W /\ w \in 0 .. W /\ w \in Nat /\ o \in Nat /\ o \in 0 .. W
    BY <1>10, <1>16
  <2> HIDE DEF w
  <2>2. v \in 0 .. Pow2[w] - 1 /\ v \in 0 .. Pow2[f] - 1
    <3>1. v \in 0 .. Pow2[w] - 1
      BY <1>14, <2>1, RestOfWord
    <3>2. w <= f /\ f \in Nat
      BY <1>10, <1>16, <2>1
    <3>3. Pow2[w] <= Pow2[f] /\ Pow2[w] \in Nat /\ Pow2[f] \in Nat
      BY <2>1, <3>2, PowGrows, PowStep
    <3> QED  BY <3>1, <3>3
  <2>3. Low(v, w) = v /\ Low(v, f) = v
    BY <1>10, <2>1, <2>2, LowOfSmall
  <2>4. Low(r, w) = v
    <3>1. Low(r, w) = Low(Shr(x, o), w)
      BY <1>14, <2>1, LowOfMask
    <3>2. Low(v, w) = Low(Shr(x, o), w)
      BY <1>6, <2>1, FieldOfMask
    <3> QED  BY <2>3, <3>1, <3>2
  <2>5. CASE i.op = "s_bfe_u32"
    <3>1. Result(i, st0) = Set(st0, i.d, v) /\ Says(i, st0) = Value(v)
      BY <1>11, <1>13, <2>3, <2>4, <2>5
    <3> HIDE DEF v
    <3> QED  BY <1>5, <1>14, <3>1, SameValue
  <2>6. CASE i.op = "s_bfe_i32"
    <3>1. r = Mask(v)
      BY <1>6, <2>6
    <3>2. Result(i, st0) = Set(st0, i.d, Mask(v)) /\ Says(i, st0) = Value(v)
      BY <1>11, <1>13, <1>16, <2>1, <2>6, <3>1
    <3>3. Mask(v) \in Int /\ Mask(Mask(v)) = Mask(v)
      BY <1>14, MaskType, MaskOfMask
    <3> HIDE DEF v, r
    <3> QED  BY <1>5, <1>14, <3>2, <3>3, SameValue
  <2> QED  BY <2>5, <2>6
<1> QED  BY <1>15, <1>16

-----------------------------------------------------------------------------
(* Pairs.                                                                  *)

\* A word is a pair's value, and a pair's value is not changed by cutting it.
LEMMA DoubleWordFits ==
  /\ Word \subseteq DoubleWord
  /\ \A v \in DoubleWord : v \in Nat /\ Mask2(v) = v
<1>1. M \in Nat \ {0} /\ M > 1
  BY MType
<1> DEFINE d == M * M
<1>2. d \in Nat \ {0} /\ M <= d
  <2>1. \A m \in Nat : m > 1 => m * m \in Nat \ {0} /\ m <= m * m
    OBVIOUS
  <2> QED  BY <1>1, <2>1
<1>3. DoubleWord = 0 .. d - 1 /\ (\A v : Mask2(v) = v % d)
  BY DEF DoubleWord, Mask2
<1> HIDE DEF d
<1>4. ASSUME NEW v \in DoubleWord PROVE v \in Nat /\ Mask2(v) = v
  <2>1. v = d * 0 + v /\ v \in 0 .. d - 1
    BY <1>2, <1>3
  <2>2. (d * 0 + v) % d = v
    BY <1>2, <2>1, Quotient
  <2> QED  BY <1>3, <2>1, <2>2
<1>5. Word \subseteq DoubleWord
  BY <1>1, <1>2, <1>3 DEF Word, Top
<1> QED  BY <1>4, <1>5

\* A pair, or a word in the place of one.
LEMMA PairSource ==
  ASSUME NEW st0 \in State, NEW o \in Sources \cup Pairs
  PROVE  /\ GetPair(st0, o) \in Int /\ Read(st0, o) \in DoubleWord
         /\ ~Negative(o) => Read(st0, o) = GetPair(st0, o)
         /\ o \in Sources => Read(st0, o) = Mask(Get(st0, o)) /\ o.t # "pair"
         /\ o \notin Sources => Read(st0, o) = GetPair(st0, o) /\ o.t = "pair"
<1>1. CASE o \in Sources
  <2>1. Get(st0, o) \in Int /\ Read(st0, o) = Mask(Get(st0, o)) /\ GetPair(st0, o) = Get(st0, o)
        /\ (~Negative(o) => Get(st0, o) \in Word)
    BY <1>1, Operand DEF Sources
  <2>2. Read(st0, o) \in DoubleWord
    BY <2>1, MaskType, DoubleWordFits
  <2>3. ~Negative(o) => Read(st0, o) = GetPair(st0, o)
    BY <2>1, MaskOfWord
  <2>4. o.t # "pair"
    BY <1>1 DEF Sources, Registers, Literals, ExecReg, Null
  <2> QED  BY <1>1, <2>1, <2>2, <2>3, <2>4
<1>2. CASE o \notin Sources
  <2>1. o \in Pairs
    BY <1>2
  <2>2. GetPair(st0, o) \in DoubleWord /\ Read(st0, o) = GetPair(st0, o)
    BY <2>1, PairOperand
  <2>3. o.t = "pair" /\ GetPair(st0, o) \in Int
    BY <2>1, <2>2, DoubleWordFits DEF Pairs
  <2> QED  BY <1>2, <2>2, <2>3
<1> QED  BY <1>1, <1>2

\* What the oracle says to write is written to a register or to a pair.
LEMMA WritesPair ==
  ASSUME NEW st0 \in State, NEW i, i.d \in Registers \cup Pairs, NEW v \in Int
  PROVE  SetPair(st0, i.d, v) \in State /\ Written(i, st0, Value(v)) = SetPair(st0, i.d, v)
<1>1. DOMAIN Value(v) = {"value"} /\ Value(v).value = v
  BY DEF Value
<1> DEFINE s0 == SetPair(st0, i.d, v)
<1>2. s0 \in State
  BY PutType, PutPairType
<1> HIDE DEF s0
<1>3. Written(i, st0, Value(v)) = [s0 EXCEPT !.scc = s0.scc, !.exec = s0.exec]
  BY <1>1 DEF Written, s0
<1>4. [s0 EXCEPT !.scc = s0.scc, !.exec = s0.exec] = s0
  BY <1>2 DEF State
<1> QED  BY <1>2, <1>3, <1>4 DEF s0

\* The two agree if they set SCC to the same.
LEMMA WritesFlag ==
  ASSUME NEW st0 \in State, NEW i, NEW b \in BOOLEAN, Result(i, st0) = Flag(st0, b), Says(i, st0) = Scc(b)
  PROVE  Result(i, st0) = Oracle(i, st0)
<1>1. DOMAIN Scc(b) = {"scc"} /\ Scc(b).scc = IF b THEN 1 ELSE 0
  BY DEF Scc
<1>2. Written(i, st0, Scc(b)) = [st0 EXCEPT !.scc = IF b THEN 1 ELSE 0, !.exec = st0.exec]
  BY <1>1 DEF Written
<1>3. [st0 EXCEPT !.scc = IF b THEN 1 ELSE 0, !.exec = st0.exec] = [st0 EXCEPT !.scc = IF b THEN 1 ELSE 0]
  BY DEF State
<1> QED  BY <1>2, <1>3 DEF Flag, Oracle

\* The two agree on the instructions on pairs.
LEMMA AgreePairs ==
  ASSUME NEW st0 \in State, NEW i, WellFormed(i), i.op \in PairOps, i.op \in Said, ~Disputed(i)
  PROVE  Result(i, st0) = Oracle(i, st0)
<1> DEFINE x == GetPair(st0, i.a)
           y == GetPair(st0, i.b)
           rb == Read(st0, i.b)
<1>1. i.op # "s_getpc_b64"
  BY DEF Said, SayCompares, SayCmpKs, SayBitTests, SayArith, SayLogic, SayShifts, SaySaveExecs, SayMoves
<1>3. i.op \notin {"s_movk_i32", "s_addk_i32", "s_mulk_i32"} /\ i.op \notin {"s_bitcmp0_b32", "s_bitcmp1_b32"}
      /\ i.op \notin CmpKs /\ i.op \notin {"s_bfe_u32", "s_bfe_i32"}
  BY DEF PairOps, CmpKs
<1>2. ~Negative(i.a)
  <2>1. i.op = "s_cmp_lg_u64" => i.a \in Pairs
    BY <1>3 DEF WellFormed
  <2>2. i.op = "s_cmp_lg_u64" => ~Negative(i.a)
    BY <2>1, PairOperand
  <2>3. i.op # "s_cmp_lg_u64" => ~Negative(i.a)
    BY <1>1 DEF Disputed, UncutLiteral, PairOps
  <2> QED  BY <2>2, <2>3
<1>4. i.a \in Sources \cup Pairs /\ i.b \in Sources \cup Pairs /\ i.d \in Registers \cup Pairs
  <2>1. i.d \in Registers \cup Pairs
    BY DEF WellFormed
  <2>2. i.a \in Sources \cup Pairs
    BY <1>1, <1>3 DEF WellFormed
  <2>3. i.b \in Sources \cup Pairs
    BY <1>3 DEF WellFormed
  <2> QED  BY <2>1, <2>2, <2>3
<1>5. x \in DoubleWord /\ Read(st0, i.a) = x
  BY <1>2, <1>4, PairSource
<1>6. rb \in DoubleWord /\ (~Negative(i.b) => rb = y)
  BY <1>4, PairSource
<1>7. x \in Nat /\ Mask2(x) = x /\ rb \in Nat /\ Mask2(rb) = rb
  BY <1>5, <1>6, DoubleWordFits
<1>8. CASE i.op = "s_mov_b64"
  <2>1. Says(i, st0) = Value(x)
    BY <1>5, <1>8, SaysMove DEF SayMoves, SayMove
  <2>2. Result(i, st0) = SetPair(st0, i.d, x)
    BY <1>7, <1>8, DoesMoveWide
  <2>3. x \in Int
    BY <1>7
  <2> HIDE DEF x
  <2> QED  BY <1>4, <2>1, <2>2, <2>3, WritesPair DEF Oracle
<1>9. CASE i.op = "s_lshl_b64"
  <2> DEFINE n == Get(st0, i.b)
             v == Mask2(Shl(x, n % (2 * W)))
  <2>1. i.b \in Sources
    BY <1>3, <1>9 DEF WellFormed
  <2>2. n \in Int /\ rb = Mask(n)
    BY <2>1, Operand DEF Sources
  <2>3. rb % (2 * W) = n % (2 * W)
    BY <2>2, CountOfMask
  <2>4. Result(i, st0) = SetPair(st0, i.d, v)
    BY <1>9, DoesOneOfMain
  <2>5. Says(i, st0) = Value(SayShift(i.op, x, rb))
    BY <1>5, <1>9, SaysShift DEF SayShifts
  <2>6. SayShift(i.op, x, rb) = v
    BY <1>9, <2>3 DEF SayShift
  <2>7. v \in Int
    <3>1. n % (2 * W) \in Nat /\ x \in Int
      BY <1>7, <2>2, WidthAssumption
    <3>2. Shl(x, n % (2 * W)) \in Int
      BY <3>1, ShiftOfMask
    <3>3. \A a \in Int : Mask2(a) \in Int
      <4>1. \A m \in Nat : m > 1 => m * m \in Nat \ {0}
        OBVIOUS
      <4>2. M * M \in Nat \ {0}
        BY <4>1, MType
      <4> QED  BY <4>2 DEF Mask2
    <3> QED  BY <3>2, <3>3
  <2> HIDE DEF v
  <2> QED  BY <1>4, <2>4, <2>5, <2>6, <2>7, WritesPair DEF Oracle
<1>10. CASE i.op = "s_cmp_eq_u64"
  <2> DEFINE b == x = rb
  <2>1. rb = y
    BY <1>6, <1>10 DEF Disputed, UncutLiteral
  <2>2. Result(i, st0) = Flag(st0, b)
    BY <1>10, <2>1, DoesCore8
  <2>3. Says(i, st0) = Scc(SayCompare(i.op, x, rb))
    BY <1>5, <1>10, SaysCompare DEF SayCompares
  <2>4. Says(i, st0) = Scc(b)
    BY <1>7, <1>10, <2>3 DEF SayCompare
  <2>5. b \in BOOLEAN
    OBVIOUS
  <2> HIDE DEF b
  <2> QED  BY <2>2, <2>4, <2>5, WritesFlag
<1>11. CASE i.op = "s_cmp_lg_u64"
  <2> DEFINE b == x # rb
  <2>1. rb = IF i.b.t = "pair" THEN y ELSE Mask(Get(st0, i.b))
    BY <1>4, PairSource
  <2>2. Result(i, st0) = Flag(st0, b)
    BY <1>11, <2>1, DoesSwin
  <2>3. Says(i, st0) = Scc(SayCompare(i.op, x, rb))
    BY <1>5, <1>11, SaysCompare DEF SayCompares
  <2>4. Says(i, st0) = Scc(b)
    BY <1>7, <1>11, <2>3 DEF SayCompare
  <2>5. b \in BOOLEAN
    OBVIOUS
  <2> HIDE DEF b
  <2> QED  BY <2>2, <2>4, <2>5, WritesFlag
<1> QED  BY <1>1, <1>8, <1>9, <1>10, <1>11 DEF PairOps

\* Where the two readings do not part, they agree.
LEMMA Agree ==
  ASSUME NEW st0 \in State, NEW i, WellFormed(i), i.op \in Said, ~Disputed(i)
  PROVE  Result(i, st0) = Oracle(i, st0)
<1>1. CASE i.op \in PairOps
  BY <1>1, AgreePairs
<1>2. CASE i.op \in SayCompares /\ i.op \notin PairOps
  BY <1>2, AgreeCompare
<1>3. CASE i.op \in SayCmpKs
  BY <1>3, AgreeCmpK
<1>4. CASE i.op \in SayBitTests
  BY <1>4, AgreeBitTest
<1>5. CASE i.op \in SayArith
  BY <1>5, AgreeCarry, AgreeArith
<1>6. CASE i.op \in SayLogic
  BY <1>6, AgreeLogic
<1>7. CASE i.op \in SayShifts /\ i.op \notin PairOps
  <2>1. i.op \in CoreShifts
    BY <1>7 DEF WellFormed, Emulated, SayShifts, PairOps, CoreOps, CoreCompares, CoreLogic, SaveExecs, CoreArith,
                CoreShifts, Core8Ops, CmpKs, SwinOps, E16Ops, IsaOps
  <2> QED  BY <2>1, AgreeShift
<1>8. CASE i.op \in SaySaveExecs
  BY <1>8, AgreeSave
<1>9. CASE i.op \in SayMoves /\ i.op \notin PairOps
  <2>1. i.op \in {"s_mov_b32", "s_cselect_b32"}
    BY <1>9 DEF SayMoves, PairOps
  <2> QED  BY <2>1, AgreeMove
<1>10. CASE i.op \in {"s_bfe_u32", "s_bfe_i32"}
  BY <1>10, AgreeField
<1>11. CASE i.op \in {"s_addk_i32", "s_movk_i32"}
  BY <1>11, AgreeK
<1>12. i.op # "s_bfm_b32"
  BY DEF WellFormed, Emulated, CoreOps, CoreCompares, CoreLogic, SaveExecs, CoreArith,
         CoreShifts, Core8Ops, CmpKs, SwinOps, E16Ops, IsaOps
<1> QED  BY <1>1, <1>2, <1>3, <1>4, <1>5, <1>6, <1>7, <1>8, <1>9, <1>10, <1>11, <1>12 DEF Said

\* The frozen emulator: what the current one does, with one mask inverted.
LEMMA FrozenAgrees ==
  ASSUME NEW st0 \in State, NEW i, WellFormed(i), i.op \in FrozenOps, i.b.t # "field"
  PROVE  Frozen(i, st0) = IF OtherMask(i) THEN Oracle(i, st0) ELSE Result(i, st0)
<1>1. ~FieldForm(i) /\ Result(i, st0) = CoreResult(i, st0)
  BY IsCore DEF FieldForm, FrozenOps
<1>2. CASE i.op \in MoreOps \cup {"s_mov_b64"}
  <2>1. ~OtherMask(i)
    BY <1>2 DEF MoreOps, OtherMask
  <2> QED  BY <1>1, <1>2, <2>1 DEF Frozen, FrozenMore, CoreResult, MoreOps
<1>3. CASE i.op \notin MoreOps \cup {"s_mov_b64"}
  <2>1. Frozen(i, st0) = FrozenMain(i, st0) /\ CoreResult(i, st0) = CoreMain(i, st0)
    BY <1>3 DEF Frozen, CoreResult, MoreOps
  <2>2. CASE i.op \notin SaveExecs
    <3>1. FrozenMain(i, st0) = CoreMain(i, st0)
      BY <2>2 DEF FrozenMain
    <3>2. ~OtherMask(i)
      BY <2>2 DEF OtherMask, SaveExecs
    <3> QED  BY <1>1, <2>1, <3>1, <3>2
  <2>3. CASE i.op \in SaveExecs
    <3> DEFINE x == Get(st0, i.a)
               e == st0.exec
    <3>1. Frozen(i, st0) = SaveExec(st0, i.d, FrozenExec(i.op, e, x))
      BY <2>1, <2>3 DEF FrozenMain
    <3>2. CASE ~OtherMask(i)
      <4>1. FrozenExec(i.op, e, x) = NewExec(i.op, e, x)
        BY <3>2 DEF FrozenExec, OtherMask
      <4> QED  BY <2>3, <3>1, <3>2, <4>1, DoesMain
    <3>3. CASE OtherMask(i)
      <4> DEFINE new == And(e, Not(x))
      <4>1. i.op = "s_andn2_saveexec_b32" /\ i.op \in SaySaveExecs /\ i.op \notin PairOps
        BY <3>3 DEF OtherMask, SaySaveExecs, PairOps
      <4>2. i.d \in Registers /\ x \in Int /\ Read(st0, i.a) = Mask(x)
        BY <1>1, <4>1, Plainly
      <4>3. Says(i, st0) = SaySaveExec(i.op, e, Mask(x))
        BY <4>1, <4>2, SaysSave
      <4>4. Not(Mask(x)) = Not(x) /\ e \in Int
        BY <4>2, MaskOfMask, MaskOfWord DEF State
      <4> HIDE DEF x
      <4>5. Says(i, st0) = [value |-> e, exec |-> new]
        BY <4>1, <4>3, <4>4 DEF SaySaveExec
      <4>6. FrozenExec(i.op, e, x) = new
        BY <4>1 DEF FrozenExec
      <4> HIDE DEF new
      <4>7. Written(i, st0, [value |-> e, exec |-> new]) = [Set(st0, i.d, e) EXCEPT !.exec = new]
        BY <4>2, <4>4, Writes
      <4> QED  BY <3>1, <3>3, <4>5, <4>6, <4>7 DEF SaveExec, Oracle
    <3> QED  BY <3>2, <3>3
  <2> QED  BY <2>2, <2>3
<1> QED  BY <1>2, <1>3

-----------------------------------------------------------------------------
(* The suite is a sequence, and has a first vector.                        *)

\* A function on 1 .. n is a sequence of length n.
LEMMA AsSequence ==
  ASSUME NEW n \in Nat, NEW s, s = [k \in 1 .. n |-> s[k]], NEW U, \A k \in 1 .. n : s[k] \in U
  PROVE  s \in Seq(U) /\ Len(s) = n
OBVIOUS

\* A concatenation is as long as its parts.
LEMMA Joined ==
  ASSUME NEW U, NEW s \in Seq(U), NEW t \in Seq(U)
  PROVE  s \o t \in Seq(U) /\ Len(s \o t) = Len(s) + Len(t)
BY ConcatProperties

\* The suite has a vector.
LEMMA SuiteLength == Len(Vectors) \in Nat /\ Len(Vectors) > 0
<1> DEFINE a == [n \in 1 .. 6 |-> IF Counts[n] < W THEN Vector(Two("s_lshl_b32"), Regs(1, Counts[n]))
                                  ELSE Trap(Two("s_lshl_b32"), Regs(1, Counts[n]), I("s_mov_b32", S(9), K(0), Null))]
           b == [n \in 1 .. 6 |-> IF Counts[n] = 0 THEN Vector(Two("s_ashr_i32"), Regs(Sign, 0))
                                  ELSE Trap(Two("s_ashr_i32"), Regs(Sign, Counts[n]), Two("s_lshr_b32"))]
           c == <<Saying(Trap(Two("s_lshr_b32"), Regs(Sign, W - 1), Two("s_ashr_i32")), Value(1)),
                  Trap(I("s_lshl_b64", P(3), P(0), S(2)), Setup(Top, 0, 1, 0, 0, 0, Top),
                       I("s_lshl_b32", P(3), S(0), S(2))),
                  Vector(I("s_lshr_b64", P(3), P(0), S(2)), Setup(0, 1, 1, 0, 0, 0, Top))>>
<1>1. Tests = [k \in 1 .. 14 |-> Tests[k]]
  BY DEF Tests
<1>2. Arithmetic = [k \in 1 .. 20 |-> Arithmetic[k]]
  BY DEF Arithmetic
<1>3. Logic = [k \in 1 .. 8 |-> Logic[k]]
  BY DEF Logic
<1>4. a = [k \in 1 .. 6 |-> a[k]] /\ b = [k \in 1 .. 6 |-> b[k]]
  OBVIOUS
<1>5. c = [k \in 1 .. 3 |-> c[k]]
  OBVIOUS
<1>6. Fields = [k \in 1 .. 5 |-> Fields[k]]
  BY DEF Fields
<1>7. Masks = [k \in 1 .. 7 |-> Masks[k]]
  BY DEF Masks
<1>8. Shifts = a \o b \o c
  BY DEF Shifts
<1> HIDE DEF a, b, c
<1> DEFINE U == UNION {{Tests[k] : k \in 1 .. 14}, {Arithmetic[k] : k \in 1 .. 20}, {Logic[k] : k \in 1 .. 8},
                       {a[k] : k \in 1 .. 6}, {b[k] : k \in 1 .. 6}, {c[k] : k \in 1 .. 3},
                       {Fields[k] : k \in 1 .. 5}, {Masks[k] : k \in 1 .. 7}}
<1>9. /\ \A k \in 1 .. 14 : Tests[k] \in U
      /\ \A k \in 1 .. 20 : Arithmetic[k] \in U
      /\ \A k \in 1 .. 8 : Logic[k] \in U
      /\ \A k \in 1 .. 6 : a[k] \in U
      /\ \A k \in 1 .. 6 : b[k] \in U
      /\ \A k \in 1 .. 3 : c[k] \in U
      /\ \A k \in 1 .. 5 : Fields[k] \in U
      /\ \A k \in 1 .. 7 : Masks[k] \in U
  BY Zenon
<1> HIDE DEF U
<1>10. Tests \in Seq(U) /\ Len(Tests) = 14
  BY <1>1, <1>9, AsSequence
<1>11. Arithmetic \in Seq(U) /\ Len(Arithmetic) \in Nat
  BY <1>2, <1>9, AsSequence
<1>12. Logic \in Seq(U) /\ Len(Logic) \in Nat
  BY <1>3, <1>9, AsSequence
<1>13. a \in Seq(U) /\ b \in Seq(U) /\ c \in Seq(U)
  BY <1>4, <1>5, <1>9, AsSequence
<1>14. Fields \in Seq(U) /\ Masks \in Seq(U)
  BY <1>6, <1>7, <1>9, AsSequence
<1>15. Shifts \in Seq(U)
  BY <1>8, <1>13, Joined
<1>16. Tests \o Arithmetic \in Seq(U) /\ Len(Tests \o Arithmetic) = Len(Tests) + Len(Arithmetic)
  BY <1>10, <1>11, Joined
<1>17. Vectors = Tests \o Arithmetic \o Logic \o Shifts \o Fields \o Masks
  BY DEF Vectors
<1> DEFINE d == Tests \o Arithmetic
           e == d \o Logic
           f == e \o Shifts
           g == f \o Fields
<1>18. d \in Seq(U) /\ Len(d) >= 14
  BY <1>10, <1>11, <1>16
<1>19. Vectors = g \o Masks
  BY <1>17
<1> HIDE DEF d
<1>20. e \in Seq(U) /\ Len(e) >= 14
  BY <1>12, <1>18, Joined
<1> HIDE DEF e
<1>21. f \in Seq(U) /\ Len(f) >= 14
  BY <1>15, <1>20, Joined
<1> HIDE DEF f
<1>22. g \in Seq(U) /\ Len(g) >= 14
  BY <1>14, <1>21, Joined
<1> HIDE DEF g
<1> QED  BY <1>14, <1>19, <1>22, Joined

-----------------------------------------------------------------------------
(* An instruction leads from a state to a state.                           *)

\* What is cut to a pair fits one.
LEMMA Mask2Type == ASSUME NEW v \in Int PROVE Mask2(v) \in DoubleWord /\ Mask2(v) \in Int
<1> DEFINE d == M * M
<1>1. d \in Nat \ {0}
  <2>1. \A m \in Nat : m > 1 => m * m \in Nat \ {0}
    OBVIOUS
  <2> QED  BY <2>1, MType
<1>2. Mask2(v) = v % d /\ DoubleWord = 0 .. d - 1
  BY DEF Mask2, DoubleWord
<1> HIDE DEF d
<1> QED  BY <1>1, <1>2

\* A bit field is a number.
LEMMA FieldType ==
  ASSUME NEW x \in Int, NEW o \in Nat, NEW w \in Nat
  PROVE  FieldU(x, o, w) \in Int /\ FieldI(x, o, w) \in Int
<1> DEFINE v == Shr(x, o)
<1>1. v \in Int
  BY ShiftOfMask
<1> HIDE DEF v
<1>2. Low(v, w) \in Nat /\ SignedLow(v, w) \in Int
  BY <1>1, SignedType
<1> QED  BY <1>1, <1>2 DEF FieldU, FieldI, v

\* The logical operations give numbers.
LEMMA LogicType ==
  ASSUME NEW x \in Int, NEW y \in Int
  PROVE  /\ And(x, y) \in Int /\ Or(x, y) \in Int /\ Xor(x, y) \in Int
         /\ Not(x) \in Int
         /\ \A op \in CoreLogic : CoreLogicValue(op, x, y) \in Int
<1>1. And(x, y) \in Int /\ Or(x, y) \in Int /\ Xor(x, y) \in Int /\ And(x, Not(y)) \in Int
  BY OfOnesType, MaskOfWord DEF And, Or, Xor
<1>2. Not(x) \in Int
  BY NotType, MaskOfWord
<1>3. ASSUME NEW op \in CoreLogic PROVE CoreLogicValue(op, x, y) \in Int
  BY <1>1 DEF CoreLogic, CoreLogicValue
<1> QED  BY <1>1, <1>2, <1>3

\* The arithmetic operations give numbers.
LEMMA ArithType ==
  ASSUME NEW x \in Int, NEW y \in Int, NEW op \in CoreArith
  PROVE  CoreArithValue(op, x, y) \in Int
<1>1. Signed(x) \in Int /\ Signed(y) \in Int
  BY SignedSame
<1>2. x * y \in Int /\ Signed(x) * Signed(y) \in Int /\ W \in Nat
  BY <1>1, MType
<1>3. Shr(x * y, W) \in Int /\ Shr(Signed(x) * Signed(y), W) \in Int
  BY <1>2, ShiftOfMask
<1>4. x + y \in Int /\ x - y \in Int /\ (IF Signed(x) < 0 THEN -Signed(x) ELSE Signed(x)) \in Int
  BY <1>1
<1> DEFINE p == Signed(x) * Signed(y)
<1>5. p \in Int /\ CoreArithValue(op, x, y) \in
        {x + y, x - y, p, Shr(x * y, W), Shr(p, W), IF Signed(x) < 0 THEN -Signed(x) ELSE Signed(x)}
  <2>1. p \in Int
    BY <1>2
  <2> HIDE DEF p
  <2> QED  BY <2>1 DEF CoreArith, CoreArithValue, p
<1> QED  BY <1>2, <1>3, <1>4, <1>5

\* The shifts give numbers.
LEMMA CoreShiftType ==
  ASSUME NEW x \in Int, NEW y \in Int, NEW op \in CoreShifts
  PROVE  CoreShift(op, x, y) \in Int
<1>1. y % W \in Nat /\ Signed(x) \in Int
  BY SignedSame, WidthAssumption
<1>2. Shr(Signed(x), y % W) \in Int /\ Shl(x, y % W) \in Int /\ Shr(x, y % W) \in Int
  BY <1>1, ShiftOfMask
<1> QED  BY <1>2 DEF CoreShifts, CoreShift

\* Instructions that write SCC alone lead from a state to a state.
LEMMA FlagResult ==
  ASSUME NEW st0 \in State, NEW i, WellFormed(i),
         \/ i.op \in CoreCompares \cup CmpKs \cup {"s_cmp_ge_i32", "s_cmp_lt_i32", "s_cmp_gt_u32", "s_cmp_eq_u64"}
         \/ i.op \in {"s_cmp_lg_u64", "s_bitcmp0_b32", "s_bitcmp1_b32"}
  PROVE  Result(i, st0) \in State
<1>1. CASE i.op \in CoreCompares
  BY <1>1, DoesMain, FlagType
<1>2. CASE i.op \in CmpKs
  BY <1>2, DoesCore8, FlagType
<1>3. CASE i.op = "s_cmp_ge_i32"
  <2>1. i.op \in MoreOps /\ ~FieldForm(i)
    BY <1>3 DEF MoreOps, FieldForm
  <2> QED  BY <1>3, <2>1, DoesMore, FlagType
<1>4. CASE i.op \in {"s_cmp_lt_i32", "s_cmp_gt_u32", "s_cmp_eq_u64"}
  BY <1>4, DoesCore8, FlagType
<1>5. CASE i.op = "s_cmp_lg_u64"
  BY <1>5, DoesSwin, FlagType
<1>6. CASE i.op \in {"s_bitcmp0_b32", "s_bitcmp1_b32"}
  BY <1>6, DoesE16, FlagType
<1> QED  BY <1>1, <1>2, <1>3, <1>4, <1>5, <1>6

\* So do those that write a pair.
LEMMA PairResult ==
  ASSUME NEW st0 \in State, NEW i, WellFormed(i), i.op \in {"s_mov_b64", "s_lshl_b64", "s_getpc_b64"}
  PROVE  Result(i, st0) \in State
<1>1. i.op \in PairOps /\ i.d \in Registers \cup Pairs
  BY DEF WellFormed, PairOps
<1>2. i.op \notin {"s_movk_i32", "s_addk_i32", "s_mulk_i32"} /\ i.op \notin {"s_bitcmp0_b32", "s_bitcmp1_b32"}
      /\ i.op \notin CmpKs /\ i.op \notin {"s_bfe_u32", "s_bfe_i32"} /\ i.op \notin {"s_cmp_eq_u64", "s_cmp_lg_u64"}
  BY DEF CmpKs
<1>3. ASSUME NEW v \in Int PROVE SetPair(st0, i.d, v) \in State
  BY <1>1, <1>3, PutType, PutPairType
<1>4. CASE i.op = "s_mov_b64"
  <2>1. i.a \in Sources \cup Pairs
    BY <1>1, <1>2, <1>4 DEF WellFormed
  <2>2. Mask2(GetPair(st0, i.a)) \in Int
    BY <2>1, PairSource, Mask2Type
  <2> QED  BY <1>3, <1>4, <2>2, DoesMoveWide
<1>5. CASE i.op = "s_lshl_b64"
  <2> DEFINE n == Get(st0, i.b) % (2 * W)
             x == GetPair(st0, i.a)
  <2>1. i.a \in Sources \cup Pairs
    BY <1>1, <1>2, <1>5 DEF WellFormed
  <2>2. i.b \in Sources
    BY <1>1, <1>2, <1>5 DEF WellFormed
  <2>3. Get(st0, i.b) \in Int /\ x \in Int
    BY <2>1, <2>2, Operand, PairSource DEF Sources
  <2>4. n \in Nat
    BY <2>3, WidthAssumption
  <2> HIDE DEF n, x
  <2>5. Mask2(Shl(x, n)) \in Int
    BY <2>3, <2>4, ShiftOfMask, Mask2Type
  <2>6. Result(i, st0) = SetPair(st0, i.d, Mask2(Shl(x, n)))
    BY <1>5, DoesOneOfMain DEF x, n
  <2> QED  BY <1>3, <2>5, <2>6
<1>6. CASE i.op = "s_getpc_b64"
  <2>1. i.a \in [t : {"lit"}, n : Nat]
    BY <1>1, <1>2, <1>6 DEF WellFormed
  <2>2. Get(st0, i.a) \in Nat
    BY <2>1 DEF Get
  <2>3. NextPc(Get(st0, i.a)) \in Int
    BY <2>2, SizeAssumption DEF NextPc
  <2>4. Mask2(NextPc(Get(st0, i.a))) \in Int
    BY <2>3, Mask2Type
  <2> QED  BY <1>3, <1>6, <2>4, DoesSwin
<1> QED  BY <1>4, <1>5, <1>6

\* So do those that write a register.
LEMMA PlainResult ==
  ASSUME NEW st0 \in State, NEW i, WellFormed(i), i.op \notin PairOps, ~FieldForm(i),
         \/ i.op \in CoreLogic \cup CoreArith \cup CoreShifts
         \/ i.op \in {"s_mov_b32", "s_cselect_b32", "s_bfe_u32", "s_bfe_i32", "s_min_i32"}
         \/ i.op \in {"s_sext_i32_i8", "s_sext_i32_i16", "s_movk_i32", "s_or_not1_b32", "s_not_b32"}
         \/ i.op \in {"s_addk_i32", "s_nor_b32", "s_orn2_b32", "s_mulk_i32"}
  PROVE  Result(i, st0) \in State
<1> DEFINE x == Get(st0, i.a)
           y == Get(st0, i.b)
           z == Get(st0, i.c)
           d == Get(st0, i.d)
<1>1. i.d \in Registers /\ x \in Int /\ y \in Int
  BY Plainly
<1>2. d \in Int /\ z \in Int
  BY <1>1, PlainOperands, Operand DEF Plain
<1>3. ASSUME NEW v \in Int, Result(i, st0) = Set(st0, i.d, v) PROVE Result(i, st0) \in State
  BY <1>1, <1>3, PutType
<1>4. CASE i.op \in CoreLogic
  <2>1. CoreLogicValue(i.op, x, y) \in Int
    BY <1>1, <1>4, LogicType
  <2> QED  BY <1>3, <1>4, <2>1, DoesMain
<1>5. CASE i.op \in CoreArith
  <2>1. CoreArithValue(i.op, x, y) \in Int
    BY <1>1, <1>5, ArithType
  <2> QED  BY <1>3, <1>5, <2>1, IsArith
<1>6. CASE i.op \in CoreShifts
  <2>1. CoreShift(i.op, x, y) \in Int
    BY <1>1, <1>6, CoreShiftType
  <2> QED  BY <1>3, <1>6, <2>1, DoesMain
<1>7. CASE i.op \in {"s_mov_b32", "s_cselect_b32"}
  <2> DEFINE v == IF i.op = "s_mov_b32" \/ st0.scc = 1 THEN x ELSE y
  <2>1. Result(i, st0) = Set(st0, i.d, v)
    BY <1>7, DoesOneOfMain
  <2>2. v \in Int
    BY <1>1
  <2> HIDE DEF v
  <2> QED  BY <1>3, <2>1, <2>2
<1>8. CASE i.op \in {"s_bfe_u32", "s_bfe_i32"}
  <2>1. y % W \in Nat /\ z % W \in Nat
    BY <1>1, <1>2, WidthAssumption
  <2>2. FieldU(x, y % W, z % W) \in Int /\ FieldI(x, y % W, z % W) \in Int
    BY <1>1, <2>1, FieldType
  <2>3. i.op = "s_bfe_u32" => Result(i, st0) = Set(st0, i.d, FieldU(x, y % W, z % W))
    BY DoesMore DEF MoreOps
  <2>4. i.op = "s_bfe_i32" => Result(i, st0) = Set(st0, i.d, FieldI(x, y % W, z % W))
    BY DoesMore DEF MoreOps
  <2> QED  BY <1>3, <1>8, <2>2, <2>3, <2>4
<1>9. CASE i.op \in {"s_min_i32", "s_sext_i32_i8", "s_sext_i32_i16", "s_movk_i32"}
  <2>1. Signed(x) \in Int /\ Signed(y) \in Int
    BY <1>1, SignedSame
  <2>2. ByteBits \in Nat /\ HalfBits \in Nat
    BY WidthAssumption DEF ByteBits, HalfBits
  <2>3. SignedLow(x, ByteBits) \in Int /\ SignedLow(x, HalfBits) \in Int
    BY <1>1, <2>2, SignedType
  <2> DEFINE m == IF Signed(y) < Signed(x) THEN Signed(y) ELSE Signed(x)
  <2>4. m \in Int
    BY <2>1
  <2>5. \/ Result(i, st0) = Set(st0, i.d, m)
        \/ Result(i, st0) = Set(st0, i.d, SignedLow(x, ByteBits))
        \/ Result(i, st0) = Set(st0, i.d, SignedLow(x, HalfBits))
        \/ Result(i, st0) = Set(st0, i.d, x)
    BY <1>9, DoesMore DEF MoreOps
  <2> HIDE DEF m
  <2> QED  BY <1>1, <1>3, <2>3, <2>4, <2>5
<1>10. CASE i.op \in {"s_or_not1_b32", "s_not_b32", "s_nor_b32", "s_orn2_b32"}
  <2>1. Or(x, y) \in Int /\ Not(x) \in Int /\ Not(y) \in Int
    BY <1>1, LogicType
  <2>2. Not(Or(x, y)) \in Int /\ Or(x, Not(y)) \in Int
    BY <1>1, <2>1, LogicType
  <2>3. \/ Result(i, st0) = Set(st0, i.d, Or(x, Not(y)))
        \/ Result(i, st0) = Set(st0, i.d, Not(x))
        \/ Result(i, st0) = Set(st0, i.d, Not(Or(x, y)))
    BY <1>10, DoesCore8, DoesSwin
  <2> QED  BY <1>3, <2>1, <2>2, <2>3
<1>11. CASE i.op = "s_addk_i32"
  <2>1. d + x \in Int
    BY <1>1, <1>2
  <2>2. Result(i, st0) = Set(st0, i.d, d + x)
    BY <1>11, DoesSwin
  <2> HIDE DEF d, x
  <2> QED  BY <1>3, <2>1, <2>2
<1>12. CASE i.op = "s_mulk_i32"
  <2> DEFINE v == d * x
  <2>1. v \in Int
    BY <1>1, <1>2
  <2>2. Result(i, st0) = Set(st0, i.d, v)
    BY <1>12, DoesE16
  <2> HIDE DEF v
  <2> QED  BY <1>3, <2>1, <2>2
<1> QED  BY <1>4, <1>5, <1>6, <1>7, <1>8, <1>9, <1>10, <1>11, <1>12

\* So do the packed bit field extracts.
LEMMA FieldResult ==
  ASSUME NEW st0 \in State, NEW i, WellFormed(i), FieldForm(i)
  PROVE  Result(i, st0) \in State
<1> DEFINE x == Get(st0, i.a)
           n == Get(st0, i.b)
           o == FieldOffset(n)
           f == FieldWidth(n)
           r == Mask(Shr(x, o))
           w == IF o + f >= W THEN W - o ELSE f
           v == IF i.op = "s_bfe_u32" THEN Low(r, w) ELSE IF o + w < W THEN SignedLow(r, w) ELSE r
<1>1. i.op \notin PairOps /\ i.op \notin CmpKs /\ i.op \notin {"s_bitcmp0_b32", "s_bitcmp1_b32"}
      /\ i.op \notin {"s_cmp_eq_u64", "s_cmp_lg_u64"} /\ i.op \in {"s_bfe_u32", "s_bfe_i32"} /\ i.b.t = "field"
  BY DEF FieldForm, PairOps, CmpKs
<1>2. n \in Nat
  <2>1. i.b \in Sources \cup FieldLiterals
    BY <1>1 DEF WellFormed
  <2>2. i.b \notin Sources
    BY <1>1 DEF Sources, Registers, Literals, ExecReg, Null
  <2> QED  BY <1>1, <2>1, <2>2 DEF FieldLiterals, Get
<1>3. i.d \in Registers /\ x \in Int
  BY <1>1, PlainOperands, Operand DEF Plain
<1>4. Result(i, st0) = Set(st0, i.d, v)
  BY DoesField DEF PackedField
<1>5. o \in 0 .. W - 1 /\ f \in Nat /\ W \in Nat
  BY <1>2, FieldBounds, MType
<1> HIDE DEF x, n, o, f
<1>6. r \in Int /\ w \in Nat
  <2>1. Shr(x, o) \in Int
    BY <1>3, <1>5, ShiftOfMask
  <2> QED  BY <1>5, <2>1, MaskType
<1> HIDE DEF r, w
<1>7. v \in Int
  BY <1>6, SignedType
<1> HIDE DEF v
<1> QED  BY <1>3, <1>4, <1>7, PutType

\* So do those that write a register and EXEC or SCC, or nothing.
LEMMA OtherResult ==
  ASSUME NEW st0 \in State, NEW i, WellFormed(i),
         i.op \in SaveExecs \cup {"s_add_u32", "s_addc_u32", "s_max_i32", "s_bcnt1_i32_b32", "s_nop", "s_delay_alu"}
  PROVE  Result(i, st0) \in State
<1> DEFINE x == Get(st0, i.a)
           y == Get(st0, i.b)
<1>1. i.op \notin PairOps /\ ~FieldForm(i)
  BY DEF SaveExecs, PairOps, FieldForm
<1>2. i.d \in Registers /\ x \in Int /\ y \in Int
  BY <1>1, Plainly
<1>3. ASSUME NEW v \in Int, NEW b PROVE Set(st0, i.d, v) \in State /\ Flag(Set(st0, i.d, v), b) \in State
  BY <1>2, <1>3, PutType, FlagType
<1>4. CASE i.op \in SaveExecs
  <2> DEFINE new == NewExec(i.op, st0.exec, x)
             s0 == Set(st0, i.d, st0.exec)
  <2>1. new \in Word
    BY <1>4, OfOnesType DEF SaveExecs, NewExec, And, Or, Xor
  <2>2. s0 \in State
    <3>1. st0.exec \in Int
      BY MaskOfWord DEF State
    <3> QED  BY <1>3, <3>1
  <2>3. Result(i, st0) = [s0 EXCEPT !.exec = new]
    BY <1>4, DoesMain DEF SaveExec
  <2> HIDE DEF new, s0
  <2> QED  BY <2>1, <2>2, <2>3 DEF State
<1>5. CASE i.op \in {"s_add_u32", "s_addc_u32"}
  <2> DEFINE sum == IF i.op = "s_add_u32" THEN x + y ELSE x + y + st0.scc
  <2>1. Result(i, st0) = AddCarry(st0, i.d, sum)
    BY <1>5, DoesOneOfMain
  <2>2. st0.scc \in Int
    BY DEF State
  <2>3. sum \in Int
    BY <1>2, <2>2
  <2> HIDE DEF sum
  <2> QED  BY <1>3, <2>1, <2>3 DEF AddCarry
<1>6. CASE i.op = "s_max_i32"
  <2>1. PICK v \in {Signed(x), Signed(y)} : \E b : Result(i, st0) = Flag(Set(st0, i.d, v), b)
    BY <1>6, DoesIsa
  <2>2. v \in Int
    BY <1>2, <2>1, SignedSame
  <2> QED  BY <1>3, <2>1, <2>2
<1>7. CASE i.op = "s_bcnt1_i32_b32"
  <2> DEFINE v == Cardinality(Ones(Signed(x)))
  <2>1. PICK b : Result(i, st0) = Flag(Set(st0, i.d, v), b)
    BY <1>7, DoesIsa
  <2>2. v \in Int
    <3>1. IsFiniteSet(0 .. W - 1)
      BY MType, FS_Interval
    <3>2. Ones(Signed(x)) \subseteq 0 .. W - 1
      BY DEF Ones
    <3>3. IsFiniteSet(Ones(Signed(x)))
      BY <3>1, <3>2, FS_Subset
    <3> QED  BY <3>3, FS_CardinalityType
  <2> HIDE DEF v
  <2> QED  BY <1>3, <2>1, <2>2
<1>8. CASE i.op \in {"s_nop", "s_delay_alu"}
  BY <1>8, DoesIsa
<1> QED  BY <1>4, <1>5, <1>6, <1>7, <1>8

\* Every well-formed instruction leads from a state to a state.
LEMMA ResultType ==
  ASSUME NEW st0 \in State, NEW i, WellFormed(i)
  PROVE  Result(i, st0) \in State
<1>1. i.op \in Emulated
  BY DEF WellFormed
<1>2. CASE i.op \in {"s_mov_b64", "s_lshl_b64", "s_getpc_b64"}
  BY <1>2, PairResult
<1>3. CASE i.op \in CoreCompares \cup CmpKs \cup {"s_cmp_ge_i32", "s_cmp_lt_i32", "s_cmp_gt_u32", "s_cmp_eq_u64"}
  BY <1>3, FlagResult
<1>4. CASE i.op \in {"s_cmp_lg_u64", "s_bitcmp0_b32", "s_bitcmp1_b32"}
  BY <1>4, FlagResult
<1>5. CASE i.op \in SaveExecs \cup {"s_add_u32", "s_addc_u32", "s_max_i32", "s_bcnt1_i32_b32", "s_nop", "s_delay_alu"}
  BY <1>5, OtherResult
<1>6. CASE FieldForm(i)
  BY <1>6, FieldResult
<1>7. CASE i.op \in CoreLogic \cup CoreArith \cup CoreShifts
  <2>1. i.op \notin PairOps /\ ~FieldForm(i)
    BY <1>7 DEF PairOps, FieldForm, CoreLogic, CoreArith, CoreShifts
  <2> QED  BY <1>7, <2>1, PlainResult
<1>8. CASE i.op \in {"s_bfe_u32", "s_bfe_i32"} /\ ~FieldForm(i)
  <2>1. i.op \notin PairOps
    BY <1>8 DEF PairOps
  <2> QED  BY <1>8, <2>1, PlainResult
<1>9. CASE i.op \in {"s_mov_b32", "s_cselect_b32", "s_min_i32", "s_sext_i32_i8", "s_sext_i32_i16", "s_movk_i32",
                     "s_or_not1_b32", "s_not_b32", "s_addk_i32", "s_nor_b32", "s_orn2_b32", "s_mulk_i32"}
  <2>1. i.op \notin PairOps /\ ~FieldForm(i)
    BY <1>9 DEF PairOps, FieldForm
  <2> QED  BY <1>9, <2>1, PlainResult
<1> QED
  BY <1>1, <1>2, <1>3, <1>4, <1>5, <1>6, <1>7, <1>8, <1>9 DEF Emulated, CoreOps, Core8Ops, SwinOps, E16Ops, IsaOps

-----------------------------------------------------------------------------
(* The wave.                                                               *)

\* The wave starts in a state.
LEMMA StartType == Start \in State
BY Constants DEF Start, State

\* TypeOK is inductive.
LEMMA StepType == TypeOK /\ [Next]_vars => TypeOK'
<1> SUFFICES ASSUME TypeOK, [Next]_vars PROVE TypeOK'
  OBVIOUS
<1> DEFINE n == Len(Vectors)
<1>1. n \in Nat /\ n > 0
  BY SuiteLength
<1>2. vector \in 1 .. n + 1 /\ (~InSuite => st \in State) /\ listing \in Seq(Instrs) /\ Len(listing) <= Window
  BY DEF TypeOK
<1>3. InSuite <=> vector <= n
  BY DEF InSuite
<1>4. InSuite' <=> vector' <= n
  BY DEF InSuite
<1> HIDE DEF n
<1>5. CASE NextVector
  <2>1. vector' = vector + 1 /\ vector <= n /\ listing' = listing /\ (~(vector < n) => st' = Start)
    BY <1>3, <1>5 DEF NextVector, n
  <2>2. vector' \in 1 .. n + 1
    BY <1>1, <1>2, <2>1
  <2>3. ~InSuite' => st' \in State
    BY <1>1, <1>2, <1>4, <2>1, StartType
  <2> QED  BY <1>2, <2>1, <2>2, <2>3 DEF TypeOK, n
<1>6. CASE Load
  <2>1. ~InSuite /\ vector' = vector /\ listing' = listing
    BY <1>6 DEF Load
  <2>2. PICK s \in [Reg -> Word] : st' = [st EXCEPT !.s = s]
    BY <1>6 DEF Load
  <2>3. st' \in State
    BY <1>2, <2>1, <2>2 DEF State
  <2> QED  BY <1>2, <1>3, <1>4, <2>1, <2>3 DEF TypeOK, n
<1>7. ASSUME NEW i \in (IF listing = <<>> THEN Kernel ELSE SiteInstrs), Execute(i) PROVE TypeOK'
  <2>1. i \in Instrs /\ WellFormed(i)
    BY InstrsAssumption
  <2>2. ~InSuite /\ vector' = vector /\ st' = Result(i, st)
    BY <1>7 DEF Execute
  <2>3. st' \in State
    BY <1>2, <2>1, <2>2, ResultType
  <2>4. listing' \in Seq(Instrs) /\ Len(listing') <= Window
    <3>1. listing' = <<i>> \/ listing' = <<>> \/ (Len(listing) < Window /\ listing' = Append(listing, i))
      BY <1>7 DEF Execute
    <3>2. <<i>> \in Seq(Instrs) /\ Len(<<i>>) <= Window /\ <<>> \in Seq(Instrs) /\ Len(<<>>) <= Window
      BY <2>1 DEF Window
    <3>3. Len(listing) < Window => Append(listing, i) \in Seq(Instrs) /\ Len(Append(listing, i)) <= Window
      BY <1>2, <2>1 DEF Window
    <3> QED  BY ONLY <3>1, <3>2, <3>3, Zenon
  <2> QED  BY <1>2, <1>3, <1>4, <2>2, <2>3, <2>4 DEF TypeOK, n
<1>8. CASE UNCHANGED vars
  BY <1>2, <1>3, <1>4, <1>8 DEF vars, TypeOK, n
<1> QED  BY <1>5, <1>6, <1>7, <1>8 DEF Next

\* A wave stays within its registers and their width: whatever the width of a
\* word, and however long the kernel, every handler leaves words in the SGPRs
\* and in EXEC and a bit in SCC.
THEOREM TypeCorrect == Spec => []TypeOK
<1>1. Init => TypeOK
  <2>1. Len(Vectors) \in Nat /\ Len(Vectors) > 0
    BY SuiteLength
  <2> QED  BY <2>1 DEF Init, TypeOK, InSuite, Window
<1>2. TypeOK /\ [Next]_vars => TypeOK'
  BY StepType
<1> QED  BY <1>1, <1>2, PTL DEF Spec

\* In a state the two agree on every instruction.
LEMMA TypeGivesReadings == TypeOK => ReadingsAgree
<1> SUFFICES ASSUME TypeOK, ~InSuite, NEW i \in Instrs
             PROVE  /\ i.op \in Said /\ ~Disputed(i) => Result(i, st) = Oracle(i, st)
                    /\ i.op \in FrozenOps /\ i.b.t # "field" =>
                         Frozen(i, st) = IF OtherMask(i) THEN Oracle(i, st) ELSE Result(i, st)
  BY DEF ReadingsAgree
<1>1. WellFormed(i)
  BY InstrsAssumption
<1>2. st \in State
  BY DEF TypeOK
<1> QED  BY <1>1, <1>2, Agree, FrozenAgrees

\* The emulator (its op_s_* handlers) and the oracle (isa_oracle_scalar.py) do
\* the same with every instruction outside the six groups of Disputed, for
\* every operand and at every state, at every width of a word; and the frozen
\* emulator differs from the current one in the mask of s_andn2_saveexec_b32
\* alone.
THEOREM ReadingsCorrect == Spec => []ReadingsAgree
BY TypeCorrect, TypeGivesReadings, PTL

-----------------------------------------------------------------------------
(* Two additions with a carry between them.                                *)

\* A double word is its halves.
LEMMA PairRange ==
  ASSUME NEW lo \in Word, NEW hi \in Word
  PROVE  hi * M + lo \in 0 .. M * M - 1
<1>1. lo \in Nat /\ hi \in Nat /\ lo < M /\ hi < M /\ M \in Nat
  BY MType DEF Word, Top
<1>2. PICK e \in Nat : M = hi + 1 + e
  <2>1. M - hi - 1 \in Nat /\ M = hi + 1 + (M - hi - 1)
    BY <1>1
  <2> QED  BY <2>1
<1>3. M * M = hi * M + M + e * M
  <2>1. (hi + 1 + e) * M = hi * M + M + e * M
    BY <1>1
  <2> QED  BY <1>2, <2>1
<1>4. hi * M \in Nat /\ e * M \in Nat
  BY <1>1
<1> QED  BY ONLY <1>1, <1>3, <1>4

\* A sum of double words, by its halves: s is the sum of the low ones and t
\* that of the high ones with the carry.
LEMMA SumByHalves ==
  ASSUME NEW s \in Int, NEW t \in Int
  PROVE  Mask2(M * (t - (s \div M)) + s) = Pair(Mask(s), Mask(t))
<1>1. M \in Nat \ {0}
  BY MType
<1> DEFINE d == M * M
           c == s \div M
           q == t \div M
           x == Mask(s)
           y == Mask(t)
<1>2. d \in Nat \ {0}
  <2>1. \A m \in Nat : m > 0 => m * m \in Nat \ {0}
    OBVIOUS
  <2> QED  BY <1>1, <2>1
<1>3. c \in Int /\ x \in Word /\ s = M * c + x
  BY <1>1, MaskType, Division DEF Mask
<1>4. q \in Int /\ y \in Word /\ t = M * q + y
  BY <1>1, MaskType, Division DEF Mask
<1>5. y * M + x \in 0 .. d - 1
  BY <1>3, <1>4, PairRange
<1>6. M * (t - c) + s = d * q + (y * M + x)
  <2>1. x \in Int /\ y \in Int
    BY <1>3, <1>4 DEF Word
  <2>2. \A m, a, b, u, v \in Int : m * ((m * b + v) - a) + (m * a + u) = (m * m) * b + (v * m + u)
    <3> TAKE m, a, b, u, v \in Int
    <3>1. m * ((m * b + v) - a) = m * (m * b) + m * v - m * a
      OBVIOUS
    <3>2. m * (m * b) = (m * m) * b /\ m * v = v * m
      OBVIOUS
    <3> QED  BY <3>1, <3>2
  <2> HIDE DEF c, q, x, y
  <2>3. M * ((M * q + y) - c) + (M * c + x) = (M * M) * q + (y * M + x)
    BY <1>1, <1>3, <1>4, <2>1, <2>2
  <2> QED  BY <1>3, <1>4, <2>3
<1> HIDE DEF d
<1>7. (d * q + (y * M + x)) % d = y * M + x
  BY <1>2, <1>4, <1>5, Quotient
<1>8. Mask2(M * (t - c) + s) = (M * (t - c) + s) % d
  BY DEF Mask2, d
<1> QED  BY <1>6, <1>7, <1>8 DEF Pair

\* One carry is the quotient of the low sum.
LEMMA CarryBit ==
  ASSUME NEW s \in 0 .. Top + Top + 1
  PROVE  s \div M = IF s > Top THEN 1 ELSE 0
<1>1. M \in Nat \ {0} /\ Top = M - 1
  BY MType DEF Top
<1>2. CASE s > Top
  <2>1. s = M * 1 + (s - M) /\ s - M \in 0 .. M - 1
    BY <1>1, <1>2
  <2>2. (M * 1 + (s - M)) \div M = 1
    BY <1>1, <2>1, Quotient
  <2> QED  BY <1>2, <2>1, <2>2
<1>3. CASE ~(s > Top)
  <2>1. s = M * 0 + s /\ s \in 0 .. M - 1
    BY <1>1, <1>3
  <2>2. (M * 0 + s) \div M = 0
    BY <1>1, <2>1, Quotient
  <2> QED  BY <1>3, <2>1, <2>2
<1> QED  BY <1>2, <1>3

\* What is carried out of the sum of the high halves does not fit two words.
LEMMA CarryOut ==
  ASSUME NEW s \in 0 .. Top + Top, NEW t \in 0 .. Top + Top + 1, NEW sum,
         sum = M * (t - (s \div M)) + s
  PROVE  t > Top <=> sum # Mask2(sum)
<1>1. M \in Nat \ {0} /\ Top = M - 1
  BY MType DEF Top
<1> DEFINE d == M * M
           c == s \div M
           q == t \div M
           r == Mask2(sum)
<1>2. d \in Nat \ {0}
  <2>1. \A m \in Nat : m > 0 => m * m \in Nat \ {0}
    OBVIOUS
  <2> QED  BY <1>1, <2>1
<1>3. s \in Int /\ t \in Int
  BY <1>1
<1>4. q = IF t > Top THEN 1 ELSE 0
  BY CarryBit
<1>5. c \in Int /\ Mask(s) \in Int /\ s = M * c + Mask(s)
  BY <1>1, <1>3, MaskType, Division DEF Mask
<1>6. q \in Int /\ Mask(t) \in Int /\ t = M * q + Mask(t)
  BY <1>1, <1>3, MaskType, Division DEF Mask
<1>7. r = Mask(t) * M + Mask(s)
  BY <1>3, SumByHalves DEF Pair
<1>8. sum = d * q + r
  <2>1. \A m, a, b, u, v \in Int : m * ((m * b + v) - a) + (m * a + u) = (m * m) * b + (v * m + u)
    <3> TAKE m, a, b, u, v \in Int
    <3>1. m * ((m * b + v) - a) = m * (m * b) + m * v - m * a
      OBVIOUS
    <3>2. m * (m * b) = (m * m) * b /\ m * v = v * m
      OBVIOUS
    <3> QED  BY <3>1, <3>2
  <2> HIDE DEF c, q, r
  <2>2. M * ((M * q + Mask(t)) - c) + (M * c + Mask(s)) = (M * M) * q + (Mask(t) * M + Mask(s))
    BY <1>1, <1>5, <1>6, <2>1
  <2>3. sum = M * (t - c) + s
    BY DEF c
  <2> QED  BY <1>5, <1>6, <1>7, <2>2, <2>3
<1>9. r \in Int
  <2> HIDE DEF r
  <2> QED  BY <1>1, <1>5, <1>6, <1>7
<1> HIDE DEF d, q, r, c
<1>10. CASE t > Top
  <2>1. sum = d + r
    BY <1>2, <1>4, <1>8, <1>9, <1>10
  <2> QED  BY <1>2, <1>9, <1>10, <2>1 DEF r
<1>11. CASE ~(t > Top)
  <2>1. sum = r
    BY <1>2, <1>4, <1>8, <1>9, <1>11
  <2> QED  BY <1>11, <2>1 DEF r
<1> QED  BY <1>10, <1>11

\* The two instructions that add a literal to a pair.
AddsLow(i, p) == i.op = "s_add_u32" /\ i.d = S(p.n) /\ i.a = S(p.n) /\ i.b.t = "lit"
AddsHigh(i, p) == i.op = "s_addc_u32" /\ i.d = S(p.n + 1) /\ i.a = S(p.n + 1) /\ i.b.t = "lit"

\* What they leave in the registers.
LEMMA AddsWhat ==
  ASSUME NEW st0 \in State, NEW i, NEW j, NEW p \in Pairs, AddsLow(i, p), AddsHigh(j, p),
         i.b.n \in Int, j.b.n \in Int, NEW s, NEW t,
         s = st0.s[p.n] + i.b.n,
         t = st0.s[p.n + 1] + j.b.n + IF s > Top THEN 1 ELSE 0
  PROVE  /\ GetPair(Result(j, Result(i, st0)), p) = Pair(Mask(s), Mask(t))
         /\ Result(j, Result(i, st0)).scc = IF t > Top THEN 1 ELSE 0
<1>1. p.t = "pair" /\ p.n \in Reg /\ p.n + 1 \in Reg /\ p.n # p.n + 1
  BY Constants DEF Pairs, Reg
<1>2. st0.s \in [Reg -> Word] /\ st0 = [s |-> st0.s, scc |-> st0.scc, exec |-> st0.exec]
  BY DEF State
<1> DEFINE st1 == Result(i, st0)
           st2 == Result(j, st1)
<1>3. st1 = [s |-> [st0.s EXCEPT ![p.n] = Mask(s)], scc |-> IF s > Top THEN 1 ELSE 0, exec |-> st0.exec]
  <2>1. Get(st0, i.a) + Get(st0, i.b) = s
    BY <1>1 DEF AddsLow, Get, S
  <2>2. st1 = Flag(Set(st0, i.d, s), s > Top)
    BY <2>1, DoesOneOfMain DEF AddsLow, AddCarry
  <2>3. Set(st0, i.d, s) = [st0 EXCEPT !.s[p.n] = Mask(s)]
    BY DEF AddsLow, Set, S
  <2>4. Set(st0, i.d, s) = [s |-> [st0.s EXCEPT ![p.n] = Mask(s)], scc |-> st0.scc, exec |-> st0.exec]
    BY <1>2, <2>3
  <2> QED  BY <2>2, <2>4 DEF Flag
<1>4. st1.s = [st0.s EXCEPT ![p.n] = Mask(s)] /\ st1.s[p.n + 1] = st0.s[p.n + 1] /\ st1.scc = IF s > Top THEN 1 ELSE 0
  BY <1>1, <1>2, <1>3
<1>5. st2 = [s |-> [st1.s EXCEPT ![p.n + 1] = Mask(t)], scc |-> IF t > Top THEN 1 ELSE 0, exec |-> st1.exec]
  <2>1. Get(st1, j.a) + Get(st1, j.b) + st1.scc = t
    BY <1>1, <1>4 DEF AddsHigh, Get, S
  <2> HIDE DEF st1
  <2>2. st2 = Flag(Set(st1, j.d, t), t > Top)
    BY <2>1, DoesOneOfMain DEF AddsHigh, AddCarry
  <2>3. Set(st1, j.d, t) = [st1 EXCEPT !.s[p.n + 1] = Mask(t)]
    BY DEF AddsHigh, Set, S
  <2>4. Set(st1, j.d, t) = [s |-> [st1.s EXCEPT ![p.n + 1] = Mask(t)], scc |-> st1.scc, exec |-> st1.exec]
    BY <1>3, <2>3
  <2> QED  BY <2>2, <2>4 DEF Flag
<1> HIDE DEF st1, st2
<1>6. st2.s[p.n] = Mask(s) /\ st2.s[p.n + 1] = Mask(t) /\ st2.scc = IF t > Top THEN 1 ELSE 0
  BY <1>1, <1>2, <1>4, <1>5
<1>7. GetPair(st2, p) = Pair(Mask(s), Mask(t))
  BY <1>1, <1>6 DEF GetPair
<1> QED  BY <1>6, <1>7 DEF st1, st2

\* The two of them add a double word, and SCC is the carry out of it.  A high
\* literal that is no word is cut to one, but the carry is read before that.
LEMMA AddsPair ==
  ASSUME NEW st0 \in State, NEW i, NEW j, NEW p \in Pairs, AddsLow(i, p), AddsHigh(j, p),
         i.b.n \in Word, j.b.n \in Int, NEW sum, sum = GetPair(st0, p) + Pair(i.b.n, Mask(j.b.n))
  PROVE  /\ GetPair(Result(j, Result(i, st0)), p) = Mask2(sum)
         /\ j.b.n \in Word => (Result(j, Result(i, st0)).scc = 1 <=> sum # Mask2(sum))
<1> DEFINE x0 == st0.s[p.n]
           x1 == st0.s[p.n + 1]
           lo == i.b.n
           h == j.b.n
           s == x0 + lo
           c == IF s > Top THEN 1 ELSE 0
           t == x1 + h + c
           u == x1 + Mask(h) + c
           st2 == Result(j, Result(i, st0))
<1>1. p.t = "pair" /\ p.n \in Reg /\ p.n + 1 \in Reg
  BY Constants DEF Pairs, Reg
<1>2. x0 \in 0 .. Top /\ x1 \in 0 .. Top /\ lo \in 0 .. Top /\ h \in Int /\ Mask(h) \in 0 .. Top /\ Top \in Nat
      /\ M \in Nat
  BY <1>1, MType, MaskType DEF State, Word, Top
<1>3. GetPair(st0, p) = x1 * M + x0
  BY <1>1 DEF GetPair, Pair
<1>4. GetPair(st2, p) = Pair(Mask(s), Mask(t)) /\ st2.scc = IF t > Top THEN 1 ELSE 0
  <2>1. i.b.n \in Int
    BY <1>2
  <2> HIDE DEF st2
  <2> QED  BY <2>1, AddsWhat DEF st2
<1>5. sum = (x1 * M + x0) + (Mask(h) * M + lo)
  BY <1>3 DEF Pair
<1> HIDE DEF x0, x1, lo, h, st2
<1>6. s \in 0 .. Top + Top /\ c \in {0, 1} /\ u \in 0 .. Top + Top + 1 /\ t \in Int
  BY <1>2
<1>7. s \div M = c
  <2>1. s \in 0 .. Top + Top + 1
    BY <1>2, <1>6
  <2> HIDE DEF s
  <2> QED  BY <2>1, CarryBit
<1>8. Mask(t) = Mask(u)
  <2>1. Same(h, Mask(h)) /\ Same(x1 + c, x1 + c)
    <3>1. \A v \in Int : v = M * 0 + v
      BY <1>2
    <3>2. x1 + c \in Int
      BY <1>2, <1>6
    <3>3. \A v \in Int : Same(v, v)
      BY <3>1 DEF Same
    <3> HIDE DEF c
    <3> QED  BY <1>2, <3>2, <3>3, SameMask
  <2>2. Same((x1 + c) + h, (x1 + c) + Mask(h))
    <3>1. x1 + c \in Int /\ Mask(h) \in Int
      BY <1>2, <1>6
    <3> HIDE DEF c
    <3> QED  BY <1>2, <2>1, <3>1, SameSum
  <2>3. (x1 + c) + h = t /\ (x1 + c) + Mask(h) = u
    BY <1>2, <1>6
  <2>4. u \in Int
    BY <1>6
  <2> HIDE DEF t, u
  <2> QED  BY <1>6, <2>2, <2>3, <2>4, MaskSame
<1>9. sum = M * (u - c) + s
  <2>1. u - c = x1 + Mask(h)
    BY <1>2, <1>6
  <2>2. \A m, a, b, v, w \in Int : (a * m + v) + (b * m + w) = m * (a + b) + (v + w)
    OBVIOUS
  <2>3. (x1 * M + x0) + (Mask(h) * M + lo) = M * (x1 + Mask(h)) + (x0 + lo)
    BY <1>2, <2>2
  <2> QED  BY <1>5, <2>1, <2>3
<1>10. GetPair(st2, p) = Mask2(sum)
  <2>1. s \in Int /\ u \in Int
    BY <1>2, <1>6
  <2> HIDE DEF s, t, u, c
  <2> QED  BY <1>4, <1>7, <1>8, <1>9, <2>1, SumByHalves
<1>11. h \in Word => (st2.scc = 1 <=> sum # Mask2(sum))
  <2> SUFFICES ASSUME h \in Word PROVE st2.scc = 1 <=> sum # Mask2(sum)
    OBVIOUS
  <2>1. t = u
    BY MaskOfWord
  <2>2. t > Top <=> sum # Mask2(sum)
    <3> HIDE DEF s, t, u, c
    <3> QED  BY <1>6, <1>7, <1>9, <2>1, CarryOut
  <2>3. st2.scc = 1 <=> t > Top
    BY <1>4
  <2> QED  BY <2>2, <2>3
<1> QED  BY <1>10, <1>11 DEF h, st2

\* Two instructions, one after the other.
RunsBy(f, code, st0) == f = [n \in 0 .. Len(code) |-> IF n = 0 THEN st0 ELSE Result(code[n], f[n - 1])]

\* Two instructions, one after the other.
LEMMA RunOfTwo ==
  ASSUME NEW st0, NEW i, NEW j
  PROVE  Run(<<i, j>>, st0) = Result(j, Result(i, st0))
<1> DEFINE code == <<i, j>>
           one == Result(i, st0)
           two == Result(j, one)
           g == [n \in 0 .. 2 |-> IF n = 0 THEN st0 ELSE IF n = 1 THEN one ELSE two]
<1>1. Len(code) = 2 /\ code[1] = i /\ code[2] = j /\ 0 .. 2 = {0, 1, 2}
  OBVIOUS
<1>2. RunsBy(g, code, st0)
  <2> DEFINE h == [n \in 0 .. 2 |-> IF n = 0 THEN st0 ELSE Result(code[n], g[n - 1])]
  <2>1. h[0] = st0 /\ h[1] = Result(code[1], g[0]) /\ h[2] = Result(code[2], g[1])
    OBVIOUS
  <2>2. g[0] = st0 /\ g[1] = one /\ g[2] = two
    OBVIOUS
  <2>3. \A n \in 0 .. 2 : h[n] = g[n]
    <3> HIDE DEF h, g
    <3> QED  BY <1>1, <2>1, <2>2
  <2>4. g = h
    <3>1. g = [n \in 0 .. 2 |-> g[n]] /\ h = [n \in 0 .. 2 |-> h[n]]
      OBVIOUS
    <3> HIDE DEF g, h
    <3> QED  BY <2>3, <3>1
  <2> HIDE DEF g
  <2> QED  BY <1>1, <2>4 DEF RunsBy
<1> DEFINE f == CHOOSE f : RunsBy(f, code, st0)
<1>3. RunsBy(f, code, st0)
  <2> HIDE DEF g, code
  <2> QED  BY <1>2
<1>4. Run(code, st0) = f[2]
  BY <1>1 DEF Run, RunsBy
<1> HIDE DEF f
<1>5. f[0] = st0 /\ f[1] = Result(code[1], f[0]) /\ f[2] = Result(code[2], f[1])
  <2>1. \A n \in 0 .. 2 : f[n] = IF n = 0 THEN st0 ELSE Result(code[n], f[n - 1])
    <3> HIDE DEF code
    <3> QED  BY <1>1, <1>3 DEF RunsBy
  <2>2. 0 \in 0 .. 2 /\ 1 \in 0 .. 2 /\ 2 \in 0 .. 2 /\ 1 - 1 = 0 /\ 2 - 1 = 1 /\ 1 # 0 /\ 2 # 0
    OBVIOUS
  <2> HIDE DEF code
  <2> QED  BY <2>1, <2>2
<1> QED  BY <1>1, <1>4, <1>5

\* Additions on the first pair add up for all words.
AnySum == ~InSuite => \A lo, hi \in Word : AddsUp(lo, hi)

\* In a state two additions with carry are one of pairs.
LEMMA TypeGivesSum == NRegs > 1 /\ TypeOK => AnySum
<1> SUFFICES ASSUME NRegs > 1, TypeOK, ~InSuite, NEW lo \in Word, NEW hi \in Word PROVE AddsUp(lo, hi)
  BY DEF AnySum
<1> DEFINE i == I("s_add_u32", S(0), S(0), K(lo))
           j == I("s_addc_u32", S(1), S(1), K(hi))
           p == P(0)
           sum == GetPair(st, p) + Pair(lo, hi)
<1>1. st \in State
  BY DEF TypeOK
<1>2. p \in Pairs
  BY Constants DEF Pairs, P
<1>3. AddsLow(i, p) /\ AddsHigh(j, p) /\ i.b.n = lo /\ j.b.n = hi
  BY DEF AddsLow, AddsHigh, I, S, K, P
<1>4. Mask(hi) = hi /\ hi \in Int
  BY MaskOfWord
<1>5. sum = GetPair(st, p) + Pair(i.b.n, Mask(j.b.n))
  BY <1>3, <1>4
<1>6. Run(<<i, j>>, st) = Result(j, Result(i, st))
  BY RunOfTwo
<1> HIDE DEF i, j, p, sum
<1>7. i.b.n \in Word /\ j.b.n \in Int /\ j.b.n \in Word
  BY <1>3, <1>4
<1>9. GetPair(Result(j, Result(i, st)), p) = Mask2(sum) /\ (Result(j, Result(i, st)).scc = 1 <=> sum # Mask2(sum))
  BY <1>1, <1>2, <1>3, <1>5, <1>7, AddsPair
<1> QED  BY <1>6, <1>9 DEF AddsUp, i, j, p, sum

\* op_s_add_u32 and op_s_addc_u32 (emu.py), one behind the other, add a double
\* word to the first pair and leave the carry in SCC, for every two words and
\* at every state of a kernel, within a site or not; the run checks four words
\* of each half.
THEOREM WideSumCorrect == ASSUME NRegs > 1 PROVE Spec => [](AnySum /\ WideSum)
<1>1. TypeOK => AnySum /\ WideSum
  <2>1. {0, 1, Sign - 1, Top} \subseteq Word
    BY SignIsPower, PowStep, MType DEF Word, Top
  <2> QED  BY <2>1, TypeGivesSum DEF AnySum, WideSum
<1> QED  BY <1>1, TypeCorrect, PTL

-----------------------------------------------------------------------------
(* The sites.                                                              *)

\* The first instruction of a kind is one of that kind.
LEMMA FirstIs ==
  ASSUME NEW code \in Seq(Instrs), NEW op, NEW from \in Nat, First(code, op, from) # 0
  PROVE  LET k == First(code, op, from) IN k \in from .. Len(code) /\ IsAdd(code[k], op)
<1> DEFINE at == {k \in from .. Len(code) : IsAdd(code[k], op)}
<1>1. at # {}
  BY DEF First
<1>2. First(code, op, from) = CHOOSE k \in at : \A j \in at : k <= j
  BY <1>1 DEF First
<1>3. at \subseteq Nat
  OBVIOUS
<1>4. PICK x \in at : \A y \in at : ~(<<y, x>> \in OpToRel(<, Nat))
  <2> HIDE DEF at
  <2> QED  BY <1>1, <1>3, NatLessThanWellFounded, WFMin
<1>5. \A y \in at : x <= y
  <2> HIDE DEF at
  <2> SUFFICES ASSUME NEW y \in at PROVE x <= y
    OBVIOUS
  <2>1. x \in Nat /\ y \in Nat
    BY <1>3
  <2>2. ~(y < x)
    BY <1>4, <2>1, Zenon DEF OpToRel
  <2> QED  BY <2>1, <2>2
<1>6. First(code, op, from) \in at
  <2> HIDE DEF at
  <2> QED  BY <1>2, <1>4, <1>5
<1> QED  BY <1>6

\* What is written to a pair is read from it.
LEMMA PairKept ==
  ASSUME NEW st0 \in State, NEW p \in Pairs, NEW v \in DoubleWord
  PROVE  GetPair(SetPair(st0, p, v), p) = v
<1>1. p.t = "pair" /\ p.n \in Reg /\ p.n + 1 \in Reg /\ p.n # p.n + 1
  BY Constants DEF Pairs, Reg
<1>2. st0.s \in [Reg -> Word]
  BY DEF State
<1> DEFINE a == Mask(v)
           b == Mask(Shr(v, W))
           f == [[st0.s EXCEPT ![p.n] = a] EXCEPT ![p.n + 1] = b]
<1>3. SetPair(st0, p, v) = [st0 EXCEPT !.s[p.n] = a, !.s[p.n + 1] = b]
  BY <1>1 DEF SetPair
<1>4. SetPair(st0, p, v) = [st0 EXCEPT !.s = f]
  BY <1>3 DEF State
<1>5. f[p.n] = a /\ f[p.n + 1] = b
  <2> HIDE DEF a, b
  <2> QED  BY <1>1, <1>2
<1>6. GetPair(SetPair(st0, p, v), p) = b * M + a
  <2> HIDE DEF f, a, b
  <2> QED  BY <1>1, <1>4, <1>5 DEF GetPair, Pair, State
<1>7. v \in Nat /\ v < M * M /\ M \in Nat \ {0}
  BY MType, DoubleWordFits DEF DoubleWord
<1>8. v \div M \in 0 .. M - 1
  BY <1>7, SmallQuotient
<1>9. b = v \div M
  <2>1. Shr(v, W) = v \div M
    BY DEF Shr, M
  <2> QED  BY <1>8, <2>1, MaskOfWord DEF Word, Top
<1>10. v = M * (v \div M) + (v % M)
  BY <1>7, Division
<1>11. (v \div M) * M = M * (v \div M)
  BY <1>7, <1>8
<1> QED  BY <1>6, <1>7, <1>8, <1>9, <1>10, <1>11 DEF Mask

\* A sum modulo two words does not depend on what is cut from its terms.
LEMMA Mask2Sum ==
  ASSUME NEW u \in Int, NEW v \in Int
  PROVE  Mask2(u + Mask2(v)) = Mask2(u + v)
<1> DEFINE d == M * M
           q == v \div d
           r == Mask2(v)
<1>1. d \in Nat \ {0}
  <2>1. \A m \in Nat : m > 1 => m * m \in Nat \ {0}
    OBVIOUS
  <2> QED  BY <2>1, MType
<1>2. \A x : Mask2(x) = x % d
  BY DEF Mask2
<1> HIDE DEF d
<1>3. q \in Int /\ r \in Int /\ v = d * q + r
  BY <1>1, <1>2, Division
<1> HIDE DEF q, r
<1> DEFINE p == (u + r) \div d
           e == (u + r) % d
<1>4. p \in Int /\ e \in 0 .. d - 1 /\ u + r = d * p + e
  BY <1>1, <1>3, Division
<1> HIDE DEF p, e
<1>5. u + v = d * (p + q) + e
  <2>1. d * (p + q) = d * p + d * q
    BY <1>1, <1>3, <1>4
  <2>2. d * p \in Int /\ d * q \in Int
    BY <1>1, <1>3, <1>4
  <2> QED  BY <1>3, <1>4, <2>1, <2>2
<1>6. (d * (p + q) + e) % d = e
  BY <1>1, <1>3, <1>4, Quotient
<1> QED  BY <1>2, <1>5, <1>6 DEF e, r

\* The instructions up to n are skipped, and the base of the addresses.
Filled(code, n) == \A k \in 2 .. n : code[k].op \in Fillers
Base(code) == Mask2(NextPc(code[1].a.n))
Based(st0, code) == st0 \in State /\ GetPair(st0, code[1].d) = Base(code)

\* What a listing says of the state: with nothing but fillers in it, the pair
\* holds the base; with an addition to the low half at its end, the base has
\* been there one instruction ago, and with both additions two ago.
Skipping(code, s) == Filled(code, Len(code)) => Based(s, code)
AddedLow(code, s) ==
  Len(code) > 1 /\ Filled(code, Len(code) - 1) /\ AddsLow(code[Len(code)], code[1].d)
    => \E st0 : Based(st0, code) /\ s = Result(code[Len(code)], st0)
AddedBoth(code, s) ==
  /\ Len(code) > 2 /\ Filled(code, Len(code) - 2)
  /\ AddsLow(code[Len(code) - 1], code[1].d) /\ AddsHigh(code[Len(code)], code[1].d)
  => \E st0 : Based(st0, code) /\ s = Result(code[Len(code)], Result(code[Len(code) - 1], st0))

\* The instruction that begins a listing.
LEMMA SiteBegins ==
  ASSUME NEW i \in Instrs, i.op = "s_getpc_b64", NEW st0 \in State
  PROVE  LET code == <<i>> IN
         Skipping(code, Result(i, st0)) /\ AddedLow(code, Result(i, st0)) /\ AddedBoth(code, Result(i, st0))
<1> DEFINE v == Mask2(NextPc(i.a.n))
           code == <<i>>
<1>1. WellFormed(i)
  BY InstrsAssumption
<1>2. i.a \in [t : {"lit"}, n : Nat] /\ i.d \in Pairs
  <2>1. i.op \notin {"s_movk_i32", "s_addk_i32", "s_mulk_i32"} /\ i.op \notin {"s_bitcmp0_b32", "s_bitcmp1_b32"}
        /\ i.op \notin {"s_cmp_lg_u64", "s_mov_b64", "s_lshl_b64", "s_cmp_eq_u64"}
    OBVIOUS
  <2> QED  BY <1>1, <2>1 DEF WellFormed
<1>3. Get(st0, i.a) = i.a.n
  BY <1>2 DEF Get
<1>4. Result(i, st0) = SetPair(st0, i.d, v)
  BY <1>3, DoesSwin
<1>5. v \in DoubleWord
  <2>1. NextPc(i.a.n) \in Int
    BY <1>2, SizeAssumption DEF NextPc
  <2> QED  BY <2>1, Mask2Type
<1>6. Result(i, st0) \in State
  BY <1>1, ResultType
<1>7. Len(code) = 1 /\ code[1] = i
  OBVIOUS
<1>8. Based(Result(i, st0), code)
  <2> HIDE DEF code, v
  <2>1. GetPair(SetPair(st0, i.d, v), i.d) = v
    BY <1>2, <1>5, PairKept
  <2> QED  BY <1>4, <1>6, <1>7, <2>1 DEF Based, Base, v
<1> HIDE DEF code
<1> QED  BY <1>7, <1>8 DEF Skipping, AddedLow, AddedBoth, code

\* An instruction behind it.
LEMMA SiteGrows ==
  ASSUME NEW code \in Seq(Instrs), code # <<>>, NEW s \in State, NEW i \in Instrs,
         Fillers \subseteq {"s_nop", "s_delay_alu"},
         Skipping(code, s), AddedLow(code, s)
  PROVE  LET more == Append(code, i) IN
         Skipping(more, Result(i, s)) /\ AddedLow(more, Result(i, s)) /\ AddedBoth(more, Result(i, s))
<1> DEFINE n == Len(code)
           more == Append(code, i)
<1>1. n \in Nat /\ n > 0 /\ Len(more) = n + 1 /\ more[n + 1] = i
  OBVIOUS
<1>2. \A k \in 1 .. n : more[k] = code[k]
  OBVIOUS
<1> HIDE DEF n, more
<1>3. \A m \in 0 .. n : Filled(more, m) => Filled(code, m)
  BY <1>1, <1>2 DEF Filled
<1>4. more[1] = code[1] /\ (\A st0 : Based(st0, code) => Based(st0, more))
  BY <1>1, <1>2 DEF Based, Base
<1>5. Skipping(more, Result(i, s))
  <2> SUFFICES ASSUME Filled(more, n + 1) PROVE Based(Result(i, s), more)
    BY <1>1 DEF Skipping
  <2>1. Filled(code, n)
    BY <1>1, <1>2 DEF Filled
  <2>2. i.op \in Fillers
    BY <1>1 DEF Filled
  <2>3. Result(i, s) = s
    BY <2>2, DoesIsa
  <2> QED  BY <1>4, <2>1, <2>3 DEF Skipping, n
<1>6. AddedLow(more, Result(i, s))
  <2> SUFFICES ASSUME Filled(more, n) PROVE \E st0 : Based(st0, more) /\ Result(i, s) = Result(i, st0)
    BY <1>1 DEF AddedLow
  <2>1. Filled(code, n)
    BY <1>1, <1>3
  <2>2. Based(s, more)
    BY <1>4, <2>1 DEF Skipping, n
  <2> QED  BY <2>2
<1>7. AddedBoth(more, Result(i, s))
  <2> SUFFICES ASSUME n > 1, Filled(more, n - 1), AddsLow(more[n], more[1].d)
               PROVE  \E st0 : Based(st0, more) /\ Result(i, s) = Result(i, Result(more[n], st0))
    <3>1. Len(more) > 2 <=> n > 1
      BY <1>1
    <3>2. Len(more) - 2 = n - 1 /\ Len(more) - 1 = n
      BY <1>1
    <3> QED  BY <1>1, <3>1, <3>2 DEF AddedBoth
  <2>1. Filled(code, n - 1)
    <3>1. n - 1 \in 0 .. n
      BY <1>1
    <3> QED  BY <1>3, <3>1
  <2>2. more[n] = code[n] /\ AddsLow(code[n], code[1].d)
    BY <1>1, <1>2, <1>4
  <2>3. PICK st0 : Based(st0, code) /\ s = Result(code[n], st0)
    BY <2>1, <2>2 DEF AddedLow, n
  <2> QED  BY <1>4, <2>2, <2>3
<1> QED  BY <1>5, <1>6, <1>7 DEF more

\* All of it in one, of a listing and a state.
Tracks(code, s) ==
  code # <<>> => code[1].op = "s_getpc_b64" /\ Skipping(code, s) /\ AddedLow(code, s) /\ AddedBoth(code, s)
SiteInv == TypeOK /\ (InSuite => listing = <<>>) /\ Tracks(listing, st)

\* SiteInv is inductive, if what stands between the instructions of a site does nothing.
LEMMA SiteStep ==
  ASSUME Fillers \subseteq {"s_nop", "s_delay_alu"}
  PROVE  SiteInv /\ [Next]_vars => SiteInv'
<1> SUFFICES ASSUME SiteInv, [Next]_vars PROVE SiteInv'
  OBVIOUS
<1>1. TypeOK /\ TypeOK' /\ listing \in Seq(Instrs)
  <2>1. TypeOK
    BY DEF SiteInv
  <2> QED  BY <2>1, StepType DEF TypeOK
<1>2. SUFFICES (InSuite' => listing' = <<>>) /\ Tracks(listing', st')
  BY <1>1 DEF SiteInv, Tracks, Skipping, AddedLow, AddedBoth
<1>3. (InSuite => listing = <<>>) /\ Tracks(listing, st)
  BY DEF SiteInv
<1>4. CASE NextVector
  BY <1>3, <1>4 DEF NextVector, Tracks
<1>5. CASE Load
  BY <1>3, <1>5 DEF Load, Tracks, InSuite
<1>6. ASSUME NEW i \in (IF listing = <<>> THEN Kernel ELSE SiteInstrs), Execute(i)
      PROVE  (InSuite' => listing' = <<>>) /\ Tracks(listing', st')
  <2>1. i \in Instrs
    BY InstrsAssumption
  <2>2. ~InSuite /\ ~InSuite' /\ st \in State /\ st' = Result(i, st)
    BY <1>1, <1>6 DEF Execute, InSuite, TypeOK
  <2>3. CASE i.op = "s_getpc_b64"
    <3>1. listing' = <<i>>
      BY <1>6, <2>3 DEF Execute
    <3>2. Skipping(listing', st') /\ AddedLow(listing', st') /\ AddedBoth(listing', st')
      BY <2>1, <2>2, <2>3, <3>1, SiteBegins
    <3>3. listing'[1].op = "s_getpc_b64"
      BY <2>3, <3>1
    <3> QED  BY <2>2, <3>2, <3>3 DEF Tracks
  <2>4. CASE i.op # "s_getpc_b64" /\ listing # <<>> /\ Len(listing) < Window
    <3>1. listing' = Append(listing, i)
      BY <1>6, <2>4 DEF Execute
    <3>2. Skipping(listing', st') /\ AddedLow(listing', st') /\ AddedBoth(listing', st')
      BY <1>1, <1>3, <2>1, <2>2, <2>4, <3>1, SiteGrows DEF Tracks
    <3>3. listing'[1].op = "s_getpc_b64"
      BY <1>1, <1>3, <2>4, <3>1 DEF Tracks
    <3> QED  BY <2>2, <3>2, <3>3 DEF Tracks
  <2>5. CASE i.op # "s_getpc_b64" /\ ~(listing # <<>> /\ Len(listing) < Window)
    <3>1. listing' = <<>>
      BY <1>6, <2>5 DEF Execute
    <3> QED  BY <2>2, <3>1 DEF Tracks
  <2> QED  BY <2>3, <2>4, <2>5
<1>7. CASE UNCHANGED vars
  BY <1>3, <1>7 DEF vars, InSuite
<1> QED  BY <1>4, <1>5, <1>6, <1>7 DEF Next

\* A site that find_sites accepts, with its additions at the end and on the
\* pair: both are where SiteInv looks for them.
LEMMA SiteShape ==
  ASSUME NEW code \in Seq(Instrs), Site(code), HighAt(code) = Len(code), HighAt(code) = LowAt(code) + 1
  PROVE  /\ Len(code) > 2 /\ LowAt(code) = Len(code) - 1 /\ Filled(code, Len(code) - 2)
         /\ IsAdd(code[Len(code) - 1], "s_add_u32") /\ IsAdd(code[Len(code)], "s_addc_u32")
<1> DEFINE n == Len(code)
           lo == LowAt(code)
           hi == HighAt(code)
<1>1. n \in Nat
  BY LenProperties
<1>2. hi # 0 /\ (\A k \in Skipped(code) : code[k].op \in Fillers)
  BY DEF Site
<1>3. lo # 0
  BY <1>2 DEF HighAt
<1>4. lo \in 2 .. n /\ IsAdd(code[lo], "s_add_u32")
  BY <1>3, FirstIs DEF LowAt
<1>5. hi \in lo + 1 .. n /\ IsAdd(code[hi], "s_addc_u32")
  <2>1. hi = First(code, "s_addc_u32", lo + 1)
    BY <1>3 DEF HighAt
  <2>2. lo + 1 \in Nat
    BY <1>1, <1>4
  <2> HIDE DEF hi, lo
  <2> QED  BY <1>2, <2>1, <2>2, FirstIs
<1>6. Skipped(code) = 2 .. lo - 1
  BY <1>3 DEF Skipped
<1> HIDE DEF n, lo, hi
<1>7. hi = n /\ hi = lo + 1
  BY DEF n, lo, hi
<1>8. n > 2 /\ lo = n - 1 /\ lo - 1 = n - 2
  BY <1>1, <1>4, <1>7
<1>9. Filled(code, n - 2)
  BY <1>2, <1>6, <1>8 DEF Filled
<1> QED  BY <1>4, <1>5, <1>7, <1>8, <1>9 DEF n, lo, hi

\* It is what the property asks for where the site is complete.
LEMMA SiteGives == SiteInv => SiteIsComputed
<1> DEFINE code == listing
           n == Len(code)
           p == code[1].d
           i == code[n - 1]
           j == code[n]
<1> SUFFICES ASSUME SiteInv, code # <<>>, Site(code), HighAt(code) = n, HighAt(code) = LowAt(code) + 1,
                    \A o \in {code[LowAt(code)].d, code[LowAt(code)].a} : o = S(p.n),
                    \A o \in {code[HighAt(code)].d, code[HighAt(code)].a} : o = S(p.n + 1),
                    code[LowAt(code)].b.n >= 0
             PROVE  GetPair(st, p) = Mask2(TextBase + SiteTarget(code))
  BY DEF SiteIsComputed
<1>1. code \in Seq(Instrs) /\ n \in Nat
  <2>1. code \in Seq(Instrs)
    BY DEF SiteInv, TypeOK
  <2> QED  BY <2>1, LenProperties
<1>2. n > 2 /\ LowAt(code) = n - 1 /\ Filled(code, n - 2) /\ IsAdd(i, "s_add_u32") /\ IsAdd(j, "s_addc_u32")
  BY <1>1, SiteShape
<1>3. AddsLow(i, p) /\ AddsHigh(j, p)
  BY <1>2 DEF IsAdd, AddsLow, AddsHigh
<1>4. i \in Instrs /\ j \in Instrs /\ code[1] \in Instrs
  <2>1. 1 \in 1 .. n /\ n - 1 \in 1 .. n /\ n \in 1 .. n
    BY <1>1, <1>2
  <2> HIDE DEF code
  <2> QED  BY <1>1, <2>1, ElementOfSeq
<1>5. code[1].op = "s_getpc_b64"
  BY DEF SiteInv, Tracks
<1>6. PICK st0 : Based(st0, code) /\ st = Result(j, Result(i, st0))
  BY <1>2, <1>3 DEF SiteInv, Tracks, AddedBoth
<1>7. p \in Pairs /\ code[1].a \in [t : {"lit"}, n : Nat]
  <2>1. WellFormed(code[1])
    BY <1>4, InstrsAssumption
  <2>2. code[1].op \notin {"s_movk_i32", "s_addk_i32", "s_mulk_i32"} /\ code[1].op \notin {"s_bitcmp0_b32", "s_bitcmp1_b32"}
        /\ code[1].op \notin {"s_cmp_lg_u64", "s_mov_b64", "s_lshl_b64", "s_cmp_eq_u64"}
    BY <1>5
  <2> HIDE DEF code
  <2> QED  BY <1>5, <2>1, <2>2 DEF WellFormed
<1>8. ASSUME NEW k \in Instrs, k.op \in {"s_add_u32", "s_addc_u32"}, k.b.t = "lit"
      PROVE  k.b.n \in Int /\ (k.b.n >= 0 => k.b.n \in Word)
  <2>1. WellFormed(k)
    BY InstrsAssumption
  <2>2. k.op \notin CmpKs /\ k.op \notin {"s_bitcmp0_b32", "s_bitcmp1_b32"} /\ k.op \notin {"s_bfe_u32", "s_bfe_i32"}
        /\ k.op \notin {"s_cmp_eq_u64", "s_cmp_lg_u64"}
    BY <1>8 DEF CmpKs
  <2>3. k.b \in Sources
    BY <2>1, <2>2 DEF WellFormed
  <2>4. k.b \in Literals
    BY <1>8, <2>3 DEF Sources, Registers, ExecReg, Null
  <2> QED  BY <2>4, MType, SignIsPower DEF Literals, Word, Top
<1>9. i.b.n \in Word /\ j.b.n \in Int /\ Mask(i.b.n) = i.b.n
  <2>1. i.b.n >= 0
    BY <1>2
  <2>2. i.b.n \in Word /\ j.b.n \in Int
    <3> HIDE DEF i, j
    <3> QED  BY <1>3, <1>4, <1>8, <2>1 DEF AddsLow, AddsHigh
  <2> QED  BY <2>2, MaskOfWord
<1> DEFINE a == code[1].a.n
           h == Pair(i.b.n, Mask(j.b.n))
<1>10. GetPair(st, p) = Mask2(Base(code) + h)
  <2>1. GetPair(st0, p) = Base(code) /\ st0 \in State
    BY <1>6 DEF Based
  <2> HIDE DEF i, j, p, code
  <2> QED  BY <1>3, <1>6, <1>7, <1>9, <2>1, AddsPair
<1>11. SiteTarget(code) = Mask2(a + 4 + h)
  <2>1. HighAt(code) = n /\ LowAt(code) = n - 1
    BY <1>2
  <2> HIDE DEF code
  <2> QED  BY <1>9, <2>1 DEF SiteTarget
<1>12. a \in Nat /\ h \in Int
  <2>1. a \in Nat
    BY <1>7
  <2>2. Mask(j.b.n) \in Int /\ i.b.n \in Int /\ M \in Int
    BY <1>9, MaskType, MaskOfWord, MType
  <2>3. \A x, y, m \in Int : y * m + x \in Int
    OBVIOUS
  <2> HIDE DEF i, j, a
  <2> QED  BY <2>1, <2>2, <2>3 DEF Pair
<1>13. Base(code) = Mask2(TextBase + a + 4)
  BY DEF Base, NextPc
<1> HIDE DEF a, h, code, p
<1>14. Mask2(Mask2(TextBase + a + 4) + h) = Mask2(TextBase + a + 4 + h)
  <2> DEFINE u == TextBase + a + 4
  <2>1. u \in Int
    BY <1>12, SizeAssumption
  <2>2. Mask2(u) \in Int
    BY <2>1, Mask2Type
  <2> HIDE DEF u
  <2>3. Mask2(h + Mask2(u)) = Mask2(h + u)
    BY <1>12, <2>1, Mask2Sum
  <2>4. h + Mask2(u) = Mask2(u) + h /\ h + u = u + h
    BY <1>12, <2>1, <2>2
  <2> QED  BY <2>3, <2>4 DEF u
<1>15. Mask2(TextBase + Mask2(a + 4 + h)) = Mask2(TextBase + a + 4 + h)
  <2> DEFINE v == a + 4 + h
  <2>1. v \in Int /\ TextBase \in Int
    BY <1>12, SizeAssumption
  <2>2. TextBase + v = TextBase + a + 4 + h
    BY <1>12, SizeAssumption
  <2> HIDE DEF v
  <2>3. Mask2(TextBase + Mask2(v)) = Mask2(TextBase + v)
    BY <2>1, Mask2Sum
  <2> QED  BY <2>2, <2>3 DEF v
<1> QED  BY <1>10, <1>11, <1>13, <1>14, <1>15

\* What the wave computes at a site is the address find_sites (p16h_lib.py)
\* reports, when its profile lets nothing but s_nop and s_delay_alu stand
\* between: wherever the code lies, whatever the literals, the carry between
\* the halves included.
THEOREM SiteCorrect ==
  ASSUME Fillers \subseteq {"s_nop", "s_delay_alu"}
  PROVE  Spec => []SiteIsComputed
<1>1. Init => SiteInv
  <2>1. Len(Vectors) \in Nat /\ Len(Vectors) > 0
    BY SuiteLength
  <2> QED  BY <2>1 DEF Init, TypeOK, InSuite, Window, SiteInv, Tracks
<1>2. SiteInv /\ [Next]_vars => SiteInv'
  BY SiteStep
<1>3. SiteInv => SiteIsComputed
  BY SiteGives
<1> QED  BY <1>1, <1>2, <1>3, PTL DEF Spec

-----------------------------------------------------------------------------
(* Which handler an instruction has.                                       *)

OtherVectorOps ==
  {"v_add_co_u32", "v_add_co_ci_u32", "v_subrev_co_ci_u32", "v_cndmask_b32", "v_cmp", "v_cmpx",
   "v_mbcnt_lo_u32_b32", "v_mad_u64_u32", "v_mad_i64_i32", "v_lshlrev_b64", "v_lshrrev_b64",
   "v_readfirstlane_b32", "v_readlane_b32", "v_writelane_b32"}

\* The kinds of vector instructions are apart.
LEMMA OpClasses ==
  ASSUME NEW op
  PROVE  /\ op \in Bins => op \notin Tris
         /\ op \in OtherVectorOps => op \notin Bins /\ op \notin Tris
         /\ op \in Emulated => op \notin Bins /\ op \notin Tris /\ op \notin OtherVectorOps
<1>1. op \in Bins => op \notin Tris
  BY DEF Bins, CoreBins, Core8Bins, Tris, CoreTris, Core8Tris
<1>2. op \in OtherVectorOps => op \notin Bins
  BY DEF Bins, CoreBins, Core8Bins, OtherVectorOps
<1>3. op \in OtherVectorOps => op \notin Tris
  BY DEF Tris, CoreTris, Core8Tris, OtherVectorOps
<1>4. op \in Emulated => op \notin Bins
  BY DEF Bins, CoreBins, Core8Bins, Emulated, CoreOps, CoreCompares, CoreLogic,
         SaveExecs, CoreArith, CoreShifts, Core8Ops, CmpKs, SwinOps, E16Ops, IsaOps
<1>5. op \in Emulated => op \notin Tris
  BY DEF Tris, CoreTris, Core8Tris, Emulated, CoreOps, CoreCompares, CoreLogic,
         SaveExecs, CoreArith, CoreShifts, Core8Ops, CmpKs, SwinOps, E16Ops, IsaOps
<1>6. op \in Emulated => op \notin OtherVectorOps
  BY DEF OtherVectorOps, Emulated, CoreOps, CoreCompares, CoreLogic,
         SaveExecs, CoreArith, CoreShifts, Core8Ops, CmpKs, SwinOps, E16Ops, IsaOps
<1> QED  BY <1>1, <1>2, <1>3, <1>4, <1>5, <1>6

\* The operators of the values ask classes that have no member in common.
LEMMA ValueClasses ==
  ASSUME NEW op
  PROVE  /\ op \in CoreBins => op \notin Core8Bins \cup {"v_not_b32", "v_ffbh_u32", "v_mul_i32_i24"}
         /\ op \in Core8Bins => op \notin CoreBins \cup {"v_not_b32", "v_ffbh_u32", "v_mul_i32_i24"}
         /\ op \in {"v_not_b32", "v_ffbh_u32", "v_mul_i32_i24"} => op \notin CoreBins \cup Core8Bins
         /\ op \in CoreTris => op \notin Core8Tris \cup {"v_perm_b32", "v_alignbit_b32", "v_mad_i32_i24"}
         /\ op \in Core8Tris => op \notin CoreTris \cup {"v_perm_b32", "v_alignbit_b32", "v_mad_i32_i24"}
         /\ op \in {"v_perm_b32", "v_alignbit_b32", "v_mad_i32_i24"} => op \notin CoreTris \cup Core8Tris
BY DEF CoreBins, Core8Bins, CoreTris, Core8Tris

\* Where the value of an operation of two operands comes from.
LEMMA BinValues ==
  ASSUME NEW op, NEW a, NEW b
  PROVE  /\ op \in CoreBins => BinValue(op, a, b) = CoreBin(op, a, b)
         /\ op \in Core8Bins => BinValue(op, a, b) = Core8Bin(op, a, b)
         /\ op = "v_not_b32" => BinValue(op, a, b) = Not(a)
         /\ op = "v_ffbh_u32" => BinValue(op, a, b) = HighestBit(a)
         /\ op = "v_mul_i32_i24" => BinValue(op, a, b) = Signed24(a) * Signed24(b)
BY ValueClasses DEF BinValue

\* Where that of an operation of three operands comes from.
LEMMA TriValues ==
  ASSUME NEW op, NEW a, NEW b, NEW c
  PROVE  /\ op \in CoreTris => TriValue(op, a, b, c) = CoreTri(op, a, b, c)
         /\ op \in Core8Tris => TriValue(op, a, b, c) = Core8Tri(op, a, b, c)
         /\ op = "v_perm_b32" => TriValue(op, a, b, c) = Perm(Mask(a), Mask(b), Mask(c))
         /\ op = "v_alignbit_b32" => TriValue(op, a, b, c) = AlignBit(a, b, c)
         /\ op = "v_mad_i32_i24" => TriValue(op, a, b, c) = Signed24(a) * Signed24(b) + Signed(c)
BY ValueClasses DEF TriValue

\* The handler of each vector instruction.
LEMMA VDoes ==
  ASSUME NEW i, NEW st0
  PROVE  /\ i.op \in Bins => VResult(i, st0) = Bin(i, st0)
         /\ i.op \in Tris => VResult(i, st0) = Tri(i, st0)
         /\ i.op = "v_add_co_u32" => VResult(i, st0) = AddCo(i, st0)
         /\ i.op = "v_add_co_ci_u32" => VResult(i, st0) = AddCoCi(i, st0)
         /\ i.op = "v_subrev_co_ci_u32" => VResult(i, st0) = SubRevCoCi(i, st0)
         /\ i.op = "v_cndmask_b32" => VResult(i, st0) = CndMask(i, st0)
         /\ i.op \in {"v_cmp", "v_cmpx"} => VResult(i, st0) = VCompare(i, st0)
         /\ i.op \in Emulated => VResult(i, st0) = Result(i, st0)
<1>1. CASE i.op \in Bins
  <2>1. i.op \notin OtherVectorOps /\ i.op \notin Tris /\ i.op \notin Emulated  BY <1>1, OpClasses
  <2> QED  BY <1>1, <2>1 DEF VResult, OtherVectorOps
<1>2. CASE i.op \in Tris
  <2>1. i.op \notin OtherVectorOps /\ i.op \notin Bins /\ i.op \notin Emulated  BY <1>2, OpClasses
  <2> QED  BY <1>2, <2>1 DEF VResult, OtherVectorOps
<1>3. CASE i.op \in OtherVectorOps
  <2>1. i.op \notin Tris /\ i.op \notin Bins /\ i.op \notin Emulated  BY <1>3, OpClasses
  <2> QED  BY <2>1 DEF VResult
<1>4. CASE i.op \in Emulated
  <2>1. i.op \notin OtherVectorOps /\ i.op \notin Bins /\ i.op \notin Tris  BY <1>4, OpClasses
  <2> QED  BY <1>4, <2>1 DEF VResult, OtherVectorOps
<1> QED  BY <1>1, <1>2, <1>3, <1>4 DEF OtherVectorOps

\* The same of the wide and the cross-lane ones.
LEMMA VDoesMore ==
  ASSUME NEW i, NEW st0
  PROVE  /\ i.op = "v_mbcnt_lo_u32_b32" => VResult(i, st0) = MbCnt(i, st0)
         /\ i.op \in {"v_mad_u64_u32", "v_mad_i64_i32"} => VResult(i, st0) = WideMad(i, st0)
         /\ i.op \in {"v_lshlrev_b64", "v_lshrrev_b64"} => VResult(i, st0) = ShiftWide(i, st0)
         /\ i.op = "v_readfirstlane_b32" => VResult(i, st0) = ReadFirst(i, st0)
         /\ i.op = "v_readlane_b32" => VResult(i, st0) = ReadLane(i, st0)
         /\ i.op = "v_writelane_b32" => VResult(i, st0) = WriteLane(i, st0)
<1>1. CASE i.op \in OtherVectorOps
  <2>1. i.op \notin Tris /\ i.op \notin Bins /\ i.op \notin Emulated  BY <1>1, OpClasses
  <2> QED  BY <2>1 DEF VResult
<1> QED  BY <1>1 DEF OtherVectorOps

-----------------------------------------------------------------------------
(* What the repairs touched: the two emulators' handlers, compared.        *)

\* What the frozen emulator has of these, the current one has too.
LEMMA FrozenClasses ==
  ASSUME NEW op
  PROVE  /\ op \in FrozenBins => op \in Bins /\ op \in CoreBins /\ op \notin FrozenTris
         /\ op \in FrozenTris => op \in Tris
         /\ op \in FrozenTris /\ op # "v_perm_b32" => op \in CoreTris
         /\ op \in FrozenBins \cup FrozenTris => op \notin OtherVectorOps
         /\ "v_mov_b32" \in Bins /\ "v_mov_b32" \in CoreBins
<1>1. op \in FrozenTris => op \in Tris  BY DEF FrozenTris, Tris
<1>2. op \in FrozenBins => op \in Bins /\ op \in CoreBins  BY DEF FrozenBins, Bins
<1>3. "v_mov_b32" \in Bins /\ "v_mov_b32" \in CoreBins  BY DEF Bins, CoreBins
<1>4. op \in FrozenTris /\ op # "v_perm_b32" => op \in CoreTris  BY DEF FrozenTris
<1> QED  BY <1>1, <1>2, <1>3, <1>4, OpClasses

\* But for the four repairs the two emulators have the same handlers.
LEMMA SameHandlers ==
  ASSUME NEW i, NEW st0, InFrozen(i),
         i.op \notin {"v_lshl_or_b32", "v_lshl_add_u32", "v_perm_b32", "v_cmpx"}
  PROVE  FrozenV(i, st0) = VResult(i, st0)
<1>1. CASE i.op = "v_cmp"
  <2>1. VResult(i, st0) = VCompare(i, st0)  BY <1>1, VDoes
  <2>2. FrozenV(i, st0) = FrozenCompare(i, st0)  BY <1>1 DEF FrozenV
  <2> QED  BY <1>1, <2>1, <2>2 DEF FrozenCompare, VCompare
<1>2. CASE i.op \in {"v_add_co_u32", "v_add_co_ci_u32", "v_cndmask_b32", "v_readfirstlane_b32"}
  BY <1>2, VDoes, VDoesMore DEF FrozenV
<1>3. CASE i.op \in FrozenBins
  <2>1. /\ i.op \in Bins /\ i.op \in CoreBins
        /\ i.op \notin {"v_cmp", "v_cmpx", "v_add_co_u32", "v_add_co_ci_u32", "v_cndmask_b32", "v_readfirstlane_b32"}
    BY <1>3, FrozenClasses DEF OtherVectorOps
  <2>2. VResult(i, st0) = Bin(i, st0)  BY <2>1, VDoes
  <2>3. FrozenV(i, st0) = VSet(st0, i.d, [l \in Active(st0) |-> FrozenValue(i, st0, l)])  BY <2>1 DEF FrozenV
  <2>4. \A l : FrozenValue(i, st0, l) = BinValue(i.op, VGet(st0, l, i.a), VGet(st0, l, i.b))
    BY <1>3, <2>1, BinValues DEF FrozenValue
  <2> QED  BY <2>2, <2>3, <2>4 DEF Bin
<1>4. CASE i.op \in FrozenTris
  <2>1. /\ i.op \in Tris /\ i.op \in CoreTris /\ i.op \notin FrozenBins
        /\ i.op \notin {"v_cmp", "v_cmpx", "v_add_co_u32", "v_add_co_ci_u32", "v_cndmask_b32", "v_readfirstlane_b32"}
    BY <1>4, FrozenClasses DEF OtherVectorOps
  <2>2. VResult(i, st0) = Tri(i, st0)  BY <2>1, VDoes
  <2>3. FrozenV(i, st0) = VSet(st0, i.d, [l \in Active(st0) |-> FrozenValue(i, st0, l)])  BY <2>1 DEF FrozenV
  <2>4. \A l : FrozenValue(i, st0, l) = TriValue(i.op, VGet(st0, l, i.a), VGet(st0, l, i.b), VGet(st0, l, i.c))
    <3> TAKE l
    <3>1. FrozenValue(i, st0, l) = FrozenTri(i.op, VGet(st0, l, i.a), VGet(st0, l, i.b), VGet(st0, l, i.c))
      BY <2>1 DEF FrozenValue
    <3>2. \A a, b, c : FrozenTri(i.op, a, b, c) = CoreTri(i.op, a, b, c)  BY DEF FrozenTri
    <3> QED  BY <2>1, <3>1, <3>2, TriValues
  <2> QED  BY <2>2, <2>3, <2>4 DEF Tri
<1> QED  BY <1>1, <1>2, <1>3, <1>4 DEF InFrozen

\* The frozen one exchanged two operands of two instructions.
LEMMA SwappedHandlers ==
  ASSUME NEW i, NEW st0, i.op \in {"v_lshl_or_b32", "v_lshl_add_u32"}
  PROVE  FrozenV(i, st0) = VResult(V(i.op, i.d, i.out, i.b, i.a, i.c), st0)
<1> DEFINE j == V(i.op, i.d, i.out, i.b, i.a, i.c)
<1>1. i.op \in FrozenTris /\ i.op \in CoreTris  BY DEF FrozenTris, CoreTris
<1>2. i.op \in Tris /\ i.op \notin FrozenBins  BY <1>1, FrozenClasses
<1>3. VResult(j, st0) = Tri(j, st0)  BY <1>2, VDoes DEF V
<1>4. FrozenV(i, st0) = VSet(st0, i.d, [l \in Active(st0) |-> FrozenValue(i, st0, l)])  BY DEF FrozenV
<1>5. \A l : FrozenValue(i, st0, l) = TriValue(i.op, VGet(st0, l, i.b), VGet(st0, l, i.a), VGet(st0, l, i.c))
  <2> TAKE l
  <2>1. FrozenValue(i, st0, l) = FrozenTri(i.op, VGet(st0, l, i.a), VGet(st0, l, i.b), VGet(st0, l, i.c))
    BY <1>2 DEF FrozenValue
  <2>2. \A x, y, z : FrozenTri(i.op, x, y, z) = CoreTri(i.op, y, x, z)  BY DEF FrozenTri, CoreTri
  <2> QED  BY <1>1, <2>1, <2>2, TriValues
<1>6. Tri(j, st0) =
        VSet(st0, i.d, [l \in Active(st0) |-> TriValue(i.op, VGet(st0, l, i.b), VGet(st0, l, i.a), VGet(st0, l, i.c))])
  BY DEF Tri, V
<1> QED  BY <1>3, <1>4, <1>5, <1>6

\* Its byte permutation moved the second operand.
LEMMA PermHandler ==
  ASSUME NEW i, NEW st0, i.op = "v_perm_b32"
  PROVE  FrozenV(i, st0) = VResult(V("v_mov_b32", i.d, i.out, i.b, i.b, i.c), st0)
<1> DEFINE j == V("v_mov_b32", i.d, i.out, i.b, i.b, i.c)
<1>1. i.op \notin FrozenBins  BY FrozenClasses DEF FrozenTris
<1>2. VResult(j, st0) = Bin(j, st0)  BY FrozenClasses, VDoes DEF V
<1>3. FrozenV(i, st0) = VSet(st0, i.d, [l \in Active(st0) |-> FrozenValue(i, st0, l)])  BY DEF FrozenV
<1>4. \A l : FrozenValue(i, st0, l) = VGet(st0, l, i.b)  BY <1>1 DEF FrozenValue, FrozenTri
<1>5. \A x : BinValue("v_mov_b32", x, x) = x  BY FrozenClasses, BinValues DEF CoreBin
<1>6. Bin(j, st0) = VSet(st0, i.d, [l \in Active(st0) |-> BinValue("v_mov_b32", VGet(st0, l, i.b), VGet(st0, l, i.b))])
  BY DEF Bin, V
<1> QED  BY <1>2, <1>3, <1>4, <1>5, <1>6

\* Its v_cmpx compared the second operand with itself.
LEMMA CmpxHandler ==
  ASSUME NEW i, NEW st0, i.op = "v_cmpx"
  PROVE  FrozenV(i, st0) = VResult(Cmp(i.op, i.rel, i.type, i.d, i.b, i.b), st0)
BY VDoes DEF FrozenV, FrozenCompare, VCompare, Cmp

\* Together: the emulators differ by the repairs alone, at every state.
LEMMA RepairsDiffer == OnlyRepairsDiffer
BY RepairedAssumption, SwappedHandlers, PermHandler, CmpxHandler, SameHandlers DEF OnlyRepairsDiffer

\* The repairs of the emulator changed what four instructions do and no other.
THEOREM RepairsCorrect == VSpec => []OnlyRepairsDiffer
BY RepairsDiffer, PTL

-----------------------------------------------------------------------------
(* A scalar instruction does to the scalar part of a wave what it does to  *)
(* a state of the scalar instructions, and nothing to the rest.            *)

Part(w) == [s |-> w.s, scc |-> w.scc, exec |-> w.exec]
Over(w, r) == [s |-> r.s, scc |-> r.scc, exec |-> r.exec, vcc |-> w.vcc, v |-> w.v]

\* The scalar part of a wave is a state, and any state may take its place.
LEMMA PartType ==
  ASSUME NEW w \in VState
  PROVE  /\ Part(w) \in State /\ Over(w, Part(w)) = w
         /\ \A r \in State : Over(w, r) \in VState /\ Part(Over(w, r)) = r
<1>1. Part(w) \in State  BY DEF VState, State, Part
<1>2. Over(w, Part(w)) = w  BY DEF VState, Part, Over
<1>3. ASSUME NEW r \in State PROVE Over(w, r) \in VState /\ Part(Over(w, r)) = r
  <2>1. Over(w, r) \in VState  BY DEF VState, State, Over
  <2>2. Part(Over(w, r)) = r  BY DEF State, Over, Part
  <2> QED  BY <2>1, <2>2
<1> QED  BY <1>1, <1>2, <1>3

\* A scalar operand is read from the scalar part.
LEMMA PartReads ==
  ASSUME NEW w, NEW o
  PROVE  /\ Get(Part(w), o) = Get(w, o) /\ GetPair(Part(w), o) = GetPair(w, o)
         /\ Part(w).s = w.s /\ Part(w).scc = w.scc /\ Part(w).exec = w.exec
<1>1. Part(w).s = w.s /\ Part(w).scc = w.scc /\ Part(w).exec = w.exec  BY DEF Part
<1>2. Get(Part(w), o) = Get(w, o)  BY <1>1 DEF Get
<1> QED  BY <1>1, <1>2 DEF GetPair

\* A scalar destination is written in the scalar part.
LEMMA PartWrites ==
  ASSUME NEW w \in VState, NEW o, NEW v, o.t \in {"s", "exec", "scc", "null", "pair"}
  PROVE  /\ o.t # "pair" => Set(w, o, v) = Over(w, Set(Part(w), o, v))
         /\ SetPair(w, o, v) = Over(w, SetPair(Part(w), o, v))
<1> DEFINE p == Part(w)
<1>1. p \in State /\ Over(w, p) = w /\ p.s = w.s /\ p.scc = w.scc /\ p.exec = w.exec
  BY PartType, PartReads
<1>2. ASSUME NEW f PROVE [w EXCEPT !.s = f] = Over(w, [p EXCEPT !.s = f])
  BY DEF Over, VState, Part
<1>3. ASSUME NEW e PROVE [w EXCEPT !.exec = e] = Over(w, [p EXCEPT !.exec = e])
  BY DEF Over, VState, Part
<1>4. ASSUME NEW c PROVE [w EXCEPT !.scc = c] = Over(w, [p EXCEPT !.scc = c])
  BY DEF Over, VState, Part
<1> HIDE DEF p
<1>5. ASSUME o.t # "pair" PROVE Set(w, o, v) = Over(w, Set(p, o, v))
  BY <1>1, <1>2, <1>3, <1>4, <1>5 DEF Set
<1>6. CASE o.t = "pair"
  <2> DEFINE f(s) == [s EXCEPT ![o.n] = Mask(v), ![o.n + 1] = Mask(Shr(v, W))]
  <2>1. SetPair(w, o, v) = [w EXCEPT !.s = f(w.s)] BY <1>6 DEF SetPair, VState
  <2>2. SetPair(p, o, v) = [p EXCEPT !.s = f(p.s)] BY <1>1, <1>6 DEF SetPair, State
  <2> HIDE DEF f
  <2> QED  BY <1>1, <1>2, <1>6, <2>1, <2>2 DEF p
<1> QED  BY <1>5, <1>6 DEF SetPair, p

\* So are SCC and EXEC.
LEMMA PartFlag ==
  ASSUME NEW w \in VState, NEW r \in State
  PROVE  /\ \A b : Flag(Over(w, r), b) = Over(w, Flag(r, b))
         /\ \A e : [Over(w, r) EXCEPT !.exec = e] = Over(w, [r EXCEPT !.exec = e])
BY DEF Flag, Over, State

\* s_max_i32 and s_bcnt1_i32_b32, to the flag.
LEMMA DoesFlags ==
  ASSUME NEW st0, NEW i, i.op \in IsaOps
  PROVE  Result(i, st0) = IsaResult(i, st0)
<1>1. i.op \notin E16Ops /\ i.op \notin SwinOps /\ i.op \notin Core8Ops /\ i.op \notin {"s_bfe_u32", "s_bfe_i32"}
  BY DEF Core8Ops, CmpKs, IsaOps, E16Ops, SwinOps
<1>2. i.op \notin CoreOps
  BY DEF IsaOps, CoreOps, CoreCompares, CoreLogic, SaveExecs, CoreArith, CoreShifts
<1> QED  BY <1>1, <1>2 DEF Result, FieldForm

\* Instructions that write a register work on the scalar part.
LEMMA PartOfValues ==
  ASSUME NEW w \in VState, NEW i, WellFormed(i), i.op \notin PairOps,
         \/ FieldForm(i)
         \/ i.op \in CoreLogic \cup CoreArith \cup CoreShifts
         \/ i.op \in {"s_mov_b32", "s_cselect_b32", "s_bfe_u32", "s_bfe_i32", "s_min_i32"}
         \/ i.op \in {"s_sext_i32_i8", "s_sext_i32_i16", "s_movk_i32", "s_or_not1_b32", "s_not_b32"}
         \/ i.op \in {"s_addk_i32", "s_nor_b32", "s_orn2_b32", "s_mulk_i32"}
  PROVE  Result(i, w) = Over(w, Result(i, Part(w)))
<1> DEFINE p == Part(w)
<1>1. /\ p \in State /\ Over(w, p) = w /\ p.s = w.s /\ p.scc = w.scc /\ p.exec = w.exec
      /\ \A o : Get(p, o) = Get(w, o)
  BY PartType, PartReads
<1>2. i.d.t \in {"s", "exec", "scc", "null"}
  BY DEF WellFormed, PairOps, Registers, ExecReg, Null
<1>3. ASSUME NEW v PROVE Set(w, i.d, v) = Over(w, Set(p, i.d, v))
  BY <1>2, PartWrites
<1> HIDE DEF p
<1>4. CASE i.op \in CoreLogic
  BY <1>1, <1>3, <1>4, DoesMain DEF p
<1>5. CASE i.op \in CoreArith
  BY <1>1, <1>3, <1>5, IsArith DEF p
<1>6. CASE i.op \in CoreShifts
  BY <1>1, <1>3, <1>6, DoesMain DEF p
<1>7. CASE i.op \in {"s_mov_b32", "s_cselect_b32"}
  BY <1>1, <1>3, <1>7, DoesOneOfMain DEF p
<1>8. CASE i.op \in {"s_bfe_u32", "s_bfe_i32", "s_min_i32", "s_sext_i32_i8", "s_sext_i32_i16", "s_movk_i32"} /\ ~FieldForm(i)
  BY <1>1, <1>3, <1>8, DoesMore DEF MoreOps, p
<1>9. CASE i.op \in {"s_or_not1_b32", "s_not_b32"}
  BY <1>1, <1>3, <1>9, DoesCore8 DEF p
<1>10. CASE i.op \in {"s_addk_i32", "s_nor_b32", "s_orn2_b32"}
  BY <1>1, <1>3, <1>10, DoesSwin DEF p
<1>11. CASE i.op = "s_mulk_i32"
  BY <1>1, <1>3, <1>11, DoesE16 DEF p
<1>12. CASE FieldForm(i)
  <2> DEFINE x == Get(w, i.a)
             off == FieldOffset(Get(w, i.b))
             n == IF off + FieldWidth(Get(w, i.b)) >= W THEN W - off ELSE FieldWidth(Get(w, i.b))
             r == Mask(Shr(x, off))
             v == IF i.op = "s_bfe_u32" THEN Low(r, n) ELSE IF off + n < W THEN SignedLow(r, n) ELSE r
  <2>1. Result(i, w) = Set(w, i.d, v)  BY <1>12, DoesField DEF PackedField
  <2>2. Get(p, i.a) = Get(w, i.a) /\ Get(p, i.b) = Get(w, i.b)  BY <1>1
  <2>3. PackedField(i, p) = Set(p, i.d, v)  BY <2>2 DEF PackedField
  <2>4. Result(i, p) = Set(p, i.d, v)  BY <1>12, <2>3, DoesField
  <2> HIDE DEF v
  <2> QED  BY <1>3, <2>1, <2>4 DEF p
<1> QED  BY <1>4, <1>5, <1>6, <1>7, <1>8, <1>9, <1>10, <1>11, <1>12

\* So do those that write SCC alone.
LEMMA PartOfTests ==
  ASSUME NEW w \in VState, NEW i, WellFormed(i),
         \/ i.op \in CoreCompares \cup CmpKs \cup {"s_cmp_ge_i32", "s_cmp_lt_i32", "s_cmp_gt_u32", "s_cmp_eq_u64"}
         \/ i.op \in {"s_cmp_lg_u64", "s_bitcmp0_b32", "s_bitcmp1_b32"}
  PROVE  Result(i, w) = Over(w, Result(i, Part(w)))
<1> DEFINE p == Part(w)
<1>1. p \in State /\ Over(w, p) = w /\ \A o : Get(p, o) = Get(w, o) /\ GetPair(p, o) = GetPair(w, o)
  BY PartType, PartReads
<1>2. ASSUME NEW b PROVE Flag(w, b) = Over(w, Flag(p, b))
  BY <1>1, PartFlag
<1> HIDE DEF p
<1>3. CASE i.op \in CoreCompares
  BY <1>1, <1>2, <1>3, DoesMain DEF p
<1>4. CASE i.op \in CmpKs
  BY <1>1, <1>2, <1>4, DoesCore8 DEF p
<1>5. CASE i.op = "s_cmp_ge_i32"
  BY <1>1, <1>2, <1>5, DoesMore DEF MoreOps, FieldForm, p
<1>6. CASE i.op \in {"s_cmp_lt_i32", "s_cmp_gt_u32", "s_cmp_eq_u64"}
  BY <1>1, <1>2, <1>6, DoesCore8 DEF p
<1>7. CASE i.op = "s_cmp_lg_u64"
  BY <1>1, <1>2, <1>7, DoesSwin DEF p
<1>8. CASE i.op \in {"s_bitcmp0_b32", "s_bitcmp1_b32"}
  BY <1>1, <1>2, <1>8, DoesE16 DEF p
<1> QED  BY <1>3, <1>4, <1>5, <1>6, <1>7, <1>8

\* So do the rest.
LEMMA PartOfOthers ==
  ASSUME NEW w \in VState, NEW i, WellFormed(i),
         i.op \in SaveExecs \cup {"s_add_u32", "s_addc_u32", "s_max_i32", "s_bcnt1_i32_b32", "s_nop", "s_delay_alu"} \/
         i.op \in {"s_mov_b64", "s_lshl_b64", "s_getpc_b64"}
  PROVE  Result(i, w) = Over(w, Result(i, Part(w)))
<1> DEFINE p == Part(w)
<1>1. /\ p \in State /\ Over(w, p) = w /\ p.s = w.s /\ p.scc = w.scc /\ p.exec = w.exec
      /\ \A o : Get(p, o) = Get(w, o) /\ GetPair(p, o) = GetPair(w, o)
  BY PartType, PartReads
<1>2. i.op \notin {"s_mov_b64", "s_lshl_b64", "s_getpc_b64"} => i.d \in Registers
  <2> SUFFICES ASSUME i.op \notin {"s_mov_b64", "s_lshl_b64", "s_getpc_b64"} PROVE i.d \in Registers
    OBVIOUS
  <2>1. i.op \notin PairOps  BY DEF PairOps, SaveExecs
  <2> QED  BY <2>1 DEF WellFormed, PairOps
<1>3. i.d.t \in {"s", "exec", "scc", "null", "pair"}
  <2>1. i.d \in Registers \cup Pairs
    BY <1>2 DEF WellFormed, PairOps
  <2> QED  BY <2>1 DEF Registers, ExecReg, Null, Pairs
<1>4. i.d \in Registers => i.d.t # "pair"
  BY DEF Registers, ExecReg, Null
<1>5. ASSUME NEW v PROVE /\ i.d \in Registers => Set(w, i.d, v) = Over(w, Set(p, i.d, v))
                         /\ SetPair(w, i.d, v) = Over(w, SetPair(p, i.d, v))
  BY <1>3, <1>4, PartWrites
<1>6. ASSUME NEW v \in Int, NEW b, i.d \in Registers
      PROVE  /\ Flag(Set(w, i.d, v), b) = Over(w, Flag(Set(p, i.d, v), b))
             /\ [Set(w, i.d, v) EXCEPT !.exec = b] = Over(w, [Set(p, i.d, v) EXCEPT !.exec = b])
  <2> DEFINE r == Set(p, i.d, v)
             q == Set(w, i.d, v)
  <2>1. r \in State  BY <1>1, <1>6, PutType
  <2>2. q = Over(w, r)  BY <1>5, <1>6
  <2> HIDE DEF r, q
  <2> QED  BY <2>1, <2>2, PartFlag DEF r, q
<1>7. (Get(w, i.a) \in Int /\ Get(w, i.b) \in Int) \/ i.op \in {"s_mov_b64", "s_lshl_b64", "s_getpc_b64"}
  <2> SUFFICES ASSUME i.op \notin {"s_mov_b64", "s_lshl_b64", "s_getpc_b64"}
               PROVE  Get(w, i.a) \in Int /\ Get(w, i.b) \in Int
    OBVIOUS
  <2>1. i.op \notin PairOps /\ ~FieldForm(i)
    BY DEF SaveExecs, PairOps, FieldForm
  <2> QED  BY <1>1, <2>1, Plainly
<1>8. CASE i.op \in SaveExecs
  <2>1. p.exec \in Int  BY <1>1, MaskOfWord DEF State
  <2>2. i.d \in Registers  BY <1>2, <1>8 DEF SaveExecs
  <2> HIDE DEF p
  <2> DEFINE e == NewExec(i.op, w.exec, Get(w, i.a))
  <2>3. Result(i, w) = [Set(w, i.d, w.exec) EXCEPT !.exec = e]  BY <1>8, DoesMain DEF SaveExec
  <2>4. Result(i, p) = [Set(p, i.d, w.exec) EXCEPT !.exec = e]  BY <1>1, <1>8, DoesMain DEF SaveExec
  <2> HIDE DEF e
  <2> QED  BY <1>1, <1>6, <2>1, <2>2, <2>3, <2>4 DEF p
<1>9. CASE i.op \in {"s_add_u32", "s_addc_u32"}
  <2> DEFINE sum == IF i.op = "s_add_u32" THEN Get(w, i.a) + Get(w, i.b) ELSE Get(w, i.a) + Get(w, i.b) + w.scc
  <2>1. w.scc \in Int  BY DEF VState
  <2>2. sum \in Int  BY <1>7, <1>9, <2>1
  <2> HIDE DEF p
  <2>3. Result(i, w) = AddCarry(w, i.d, sum)  BY <1>9, DoesOneOfMain
  <2>4. Result(i, p) = AddCarry(p, i.d, sum)  BY <1>1, <1>9, DoesOneOfMain
  <2> HIDE DEF sum
  <2> QED  BY <1>2, <1>6, <1>9, <2>2, <2>3, <2>4 DEF AddCarry, p
<1>10. CASE i.op = "s_max_i32"
  <2> DEFINE x == Signed(Get(w, i.a))
             y == Signed(Get(w, i.b))
             v == IF x > y THEN x ELSE y
  <2>1. x \in Int /\ y \in Int  BY <1>7, <1>10, SignedSame
  <2>2. v \in Int  BY <2>1
  <2>3. i.op \in IsaOps  BY <1>10 DEF IsaOps
  <2>4. Result(i, w) = Flag(Set(w, i.d, v), x > y)  BY <1>10, <2>3, DoesFlags DEF IsaResult
  <2> HIDE DEF p
  <2>5. Result(i, p) = Flag(Set(p, i.d, v), x > y)  BY <1>1, <1>10, <2>3, DoesFlags DEF IsaResult
  <2> HIDE DEF x, y, v
  <2> QED  BY <1>2, <1>6, <1>10, <2>2, <2>4, <2>5 DEF p
<1>11. CASE i.op = "s_bcnt1_i32_b32"
  <2> DEFINE x == Signed(Get(w, i.a))
             v == Cardinality(Ones(x))
  <2>1. v \in Int
    <3>1. IsFiniteSet(0 .. W - 1)  BY MType, FS_Interval
    <3>2. Ones(x) \subseteq 0 .. W - 1  BY DEF Ones
    <3>3. IsFiniteSet(Ones(x))  BY <3>1, <3>2, FS_Subset
    <3> QED  BY <3>3, FS_CardinalityType
  <2>3. i.op \in IsaOps  BY <1>11 DEF IsaOps
  <2>4. Result(i, w) = Flag(Set(w, i.d, v), Mask(x) # 0)  BY <1>11, <2>3, DoesFlags DEF IsaResult
  <2> HIDE DEF p
  <2>5. Result(i, p) = Flag(Set(p, i.d, v), Mask(x) # 0)  BY <1>1, <1>11, <2>3, DoesFlags DEF IsaResult
  <2> HIDE DEF x, v
  <2> QED  BY <1>2, <1>6, <1>11, <2>1, <2>4, <2>5 DEF p
<1>12. CASE i.op \in {"s_nop", "s_delay_alu"}
  BY <1>1, <1>12, DoesIsa
<1>13. CASE i.op \in {"s_mov_b64", "s_lshl_b64", "s_getpc_b64"}
  <2> HIDE DEF p
  <2> QED  BY <1>1, <1>5, <1>13, DoesMoveWide, DoesOneOfMain, DoesSwin DEF p
<1> QED  BY <1>8, <1>9, <1>10, <1>11, <1>12, <1>13

\* A scalar instruction leads from a wave to a wave, by its scalar part.
LEMMA PartResult ==
  ASSUME NEW w \in VState, NEW i, WellFormed(i)
  PROVE  /\ Result(i, w) = Over(w, Result(i, Part(w)))
         /\ Result(i, w) \in VState
<1> SUFFICES Result(i, w) = Over(w, Result(i, Part(w)))
  BY PartType, ResultType
<1>1. i.op \in Emulated
  BY DEF WellFormed
<1>2. CASE i.op \in {"s_mov_b64", "s_lshl_b64", "s_getpc_b64"}
  BY <1>2, PartOfOthers
<1>3. CASE i.op \in CoreCompares \cup CmpKs \cup {"s_cmp_ge_i32", "s_cmp_lt_i32", "s_cmp_gt_u32", "s_cmp_eq_u64"}
  BY <1>3, PartOfTests
<1>4. CASE i.op \in {"s_cmp_lg_u64", "s_bitcmp0_b32", "s_bitcmp1_b32"}
  BY <1>4, PartOfTests
<1>5. CASE i.op \in SaveExecs \cup {"s_add_u32", "s_addc_u32", "s_max_i32", "s_bcnt1_i32_b32", "s_nop", "s_delay_alu"}
  BY <1>5, PartOfOthers
<1>6. CASE i.op \in CoreLogic \cup CoreArith \cup CoreShifts
  <2>1. i.op \notin PairOps
    BY <1>6 DEF PairOps, CoreLogic, CoreArith, CoreShifts
  <2> QED  BY <1>6, <2>1, PartOfValues
<1>7. CASE i.op \in {"s_bfe_u32", "s_bfe_i32", "s_mov_b32", "s_cselect_b32", "s_min_i32", "s_sext_i32_i8",
                     "s_sext_i32_i16", "s_movk_i32", "s_or_not1_b32", "s_not_b32", "s_addk_i32", "s_nor_b32",
                     "s_orn2_b32", "s_mulk_i32"}
  <2>1. i.op \notin PairOps
    BY <1>7 DEF PairOps
  <2> QED  BY <1>7, <2>1, PartOfValues
<1> QED
  BY <1>1, <1>2, <1>3, <1>4, <1>5, <1>6, <1>7 DEF Emulated, CoreOps, Core8Ops, SwinOps, E16Ops, IsaOps

-----------------------------------------------------------------------------
(* What the lanes read is an integer, what is written to them a word.      *)

\* What the constants say of lanes, registers, bytes and half words.
LEMMA VConstants ==
  /\ NLanes \in Nat /\ NLanes > 0 /\ NLanes <= W /\ NVgprs \in Nat /\ 0 \in Lane
  /\ Lane \subseteq 0 .. W - 1 /\ W \in Nat /\ W > 0
  /\ ByteBits \in Nat /\ ByteBits > 0 /\ HalfBits \in Nat /\ HalfBits > 0 /\ HalfBits < W /\ ByteBits < W
  /\ W = 4 * ByteBits /\ HalfBits = 2 * ByteBits
BY LanesAssumption, WidthAssumption DEF Lane, ByteBits, HalfBits

\* A bit is 0 or 1.
LEMMA BitType ==
  ASSUME NEW x \in Int, NEW n \in Nat
  PROVE  Bit(x, n) \in {0, 1} /\ Bit(x, n) \in Word /\ Bit(x, n) \in Nat
<1>1. Shr(x, n) \in Int
  BY ShiftOfMask
<1>2. Bit(x, n) = Shr(x, n) % 2
  BY DEF Bit, Shr
<1> HIDE DEF Bit
<1>3. Bit(x, n) \in {0, 1}
  BY <1>1, <1>2
<1> QED  BY <1>3, Constants

\* A lane reads a number.
LEMMA VGetType ==
  ASSUME NEW w \in VState, NEW l \in Lane, NEW o \in VSources
  PROVE  VGet(w, l, o) \in Int
<1>1. l \in Nat /\ Word \subseteq Int /\ Top \in Nat
  BY VConstants, Constants DEF Lane, Word
<1>2. CASE o \in VRegs
  <2>1. o.t = "v" /\ o.n \in Vgpr  BY <1>2 DEF VRegs
  <2> QED  BY <1>1, <2>1 DEF VGet, VState
<1>3. CASE o \in [t : {"negv"}, n : Vgpr]
  <2>1. o.t = "negv" /\ o.n \in Vgpr  BY <1>3
  <2>2. w.v[l][o.n] \in Int  BY <1>1, <2>1 DEF VState
  <2>3. -w.v[l][o.n] \in Int  BY <2>2
  <2> QED  BY <1>1, <2>1, <2>3, MaskType DEF VGet
<1>4. CASE o = VCC
  <2>1. o.t = "vcc"  BY <1>4 DEF VCC
  <2>2. w.vcc \in Int  BY <1>1 DEF VState
  <2> QED  BY <1>1, <2>1, <2>2, BitType DEF VGet
<1>5. CASE o = ExecReg
  <2>1. o.t = "exec"  BY <1>5 DEF ExecReg
  <2>2. w.exec \in Int  BY <1>1 DEF VState
  <2> QED  BY <1>1, <2>1, <2>2, BitType DEF VGet
<1>6. CASE o \in SRegs
  <2>1. o.t = "s" /\ o.n \in Reg  BY <1>6 DEF SRegs
  <2> QED  BY <1>1, <2>1 DEF VGet, VState
<1>7. CASE o \in Literals
  <2>1. o.t = "lit" /\ o.n \in -Sign .. Top  BY <1>7 DEF Literals
  <2> QED  BY <2>1, Constants DEF VGet
<1>8. CASE o = Null
  <2>1. o.t = "null"  BY <1>8 DEF Null
  <2> QED  BY <2>1 DEF VGet
<1>9. CASE o \in [t : {"hex"}, n : Word]
  <2>1. o.t = "hex" /\ o.n \in Word  BY <1>9
  <2>2. o.n \in Int  BY <1>1, <2>1
  <2> QED  BY <1>1, <2>1, <2>2, MaskType DEF VGet
<1> QED  BY <1>2, <1>3, <1>4, <1>5, <1>6, <1>7, <1>8, <1>9 DEF VSources, Shared

\* Two words make a number.
LEMMA PairInt ==
  ASSUME NEW x \in Word, NEW y \in Word
  PROVE  Pair(x, y) \in Int
<1>1. x \in Int /\ y \in Int /\ M \in Int  BY MType, Constants DEF Word
<1>2. y * M \in Int  BY <1>1
<1> QED  BY <1>1, <1>2 DEF Pair

\* A lane reads a number in a pair as well.
LEMMA VGetPairType ==
  ASSUME NEW w \in VState, NEW l \in Lane, NEW o \in VSources \cup VPairs \cup Pairs
  PROVE  VGetPair(w, l, o) \in Int
<1>1. CASE o \in VPairs
  <2>1. o.t = "vpair" /\ o.n \in Vgpr /\ o.n + 1 \in Vgpr  BY <1>1, VConstants DEF VPairs, Vgpr
  <2>2. w.v[l][o.n] \in Word /\ w.v[l][o.n + 1] \in Word  BY <2>1 DEF VState
  <2> QED  BY <2>1, <2>2, PairInt DEF VGetPair
<1>2. CASE o \in Pairs
  <2>1. o.t = "pair"  BY <1>2 DEF Pairs
  <2>2. VGetPair(w, l, o) = GetPair(Part(w), o)  BY <2>1, PartReads DEF VGetPair
  <2>3. GetPair(Part(w), o) \in DoubleWord  BY <1>2, PartType, PairOperand
  <2> QED  BY <2>2, <2>3 DEF DoubleWord
<1>3. CASE o \in VSources
  <2>1. o.t # "vpair" /\ o.t # "pair"  BY <1>3 DEF VSources, VRegs, VCC, ExecReg, Shared, SRegs, Literals, Null
  <2> QED  BY <1>3, <2>1, VGetType DEF VGetPair
<1> QED  BY <1>1, <1>2, <1>3

\* What lands in the VGPRs of a lane.
Landed(w, o, f, l) ==
  IF l \notin DOMAIN f THEN w.v[l]
  ELSE IF o.t = "vpair" THEN [w.v[l] EXCEPT ![o.n] = Mask(f[l]), ![o.n + 1] = Mask(Shr(f[l], W))]
  ELSE [w.v[l] EXCEPT ![o.n] = Mask(f[l])]

\* Writing to the lanes leads from a wave to a wave and touches the VGPRs alone.
LEMMA VSetType ==
  ASSUME NEW w \in VState, NEW o \in VRegs \cup VPairs, NEW f, \A l \in Lane : l \in DOMAIN f => f[l] \in Int
  PROVE  /\ VSet(w, o, f) \in VState
         /\ VSet(w, o, f).v = [l \in Lane |-> Landed(w, o, f, l)]
         /\ VSet(w, o, f).s = w.s /\ VSet(w, o, f).scc = w.scc
         /\ VSet(w, o, f).exec = w.exec /\ VSet(w, o, f).vcc = w.vcc
<1> DEFINE g == [l \in Lane |-> Landed(w, o, f, l)]
<1>1. ASSUME NEW l \in Lane PROVE Landed(w, o, f, l) \in [Vgpr -> Word]
  <2>1. w.v[l] \in [Vgpr -> Word]  BY DEF VState
  <2>2. CASE l \notin DOMAIN f  BY <2>1, <2>2 DEF Landed
  <2>3. CASE l \in DOMAIN f
    <3>1. f[l] \in Int /\ W \in Nat  BY <2>3, VConstants
    <3>2. Mask(f[l]) \in Word /\ Mask(Shr(f[l], W)) \in Word  BY <3>1, ShiftOfMask, MaskType
    <3>3. [w.v[l] EXCEPT ![o.n] = Mask(f[l])] \in [Vgpr -> Word]  BY <2>1, <3>2
    <3>4. [[w.v[l] EXCEPT ![o.n] = Mask(f[l])] EXCEPT ![o.n + 1] = Mask(Shr(f[l], W))] \in [Vgpr -> Word]  BY <3>2, <3>3
    <3> QED  BY <2>3, <3>3, <3>4 DEF Landed
  <2> QED  BY <2>2, <2>3
<1>2. g \in [Lane -> [Vgpr -> Word]]  BY <1>1
<1>3. VSet(w, o, f) = [w EXCEPT !.v = g]  BY DEF VSet, Landed
<1> HIDE DEF g
<1>4. VSet(w, o, f) \in VState  BY <1>2, <1>3 DEF VState
<1>5. VSet(w, o, f).v = g  BY <1>3 DEF VState
<1>6. /\ VSet(w, o, f).s = w.s /\ VSet(w, o, f).scc = w.scc
      /\ VSet(w, o, f).exec = w.exec /\ VSet(w, o, f).vcc = w.vcc
  BY <1>3 DEF VState
<1> QED  BY <1>4, <1>5, <1>6 DEF g

\* Writing a mask leads from a wave to a wave and leaves the VGPRs.
LEMMA SetMaskType ==
  ASSUME NEW w \in VState, NEW o, NEW m \in Word, o \in VMaskRegs \cup Pairs
  PROVE  SetMask(w, o, m) \in VState /\ SetMask(w, o, m).v = w.v
<1>1. o.t = "s" => o.n \in Reg  BY DEF VMaskRegs, SRegs, VCC, ExecReg, Null, Pairs
<1>2. CASE o.t = "vcc"  BY <1>2 DEF SetMask, VState
<1>3. CASE o.t = "exec"  BY <1>3 DEF SetMask, VState
<1>4. CASE o.t = "s"  BY <1>1, <1>4 DEF SetMask, VState
<1>5. CASE o.t \notin {"vcc", "exec", "s"}  BY <1>5 DEF SetMask
<1> QED  BY <1>2, <1>3, <1>4, <1>5

\* The lanes that are on are lanes.
LEMMA ActiveLanes == \A w : Active(w) \subseteq Lane
BY DEF Active

-----------------------------------------------------------------------------
(* A word is the sum of its bits, and the sum of bits has these bits.      *)

\* f adds up the powers whose numbers are in B.
Adds(f, B) ==
  /\ f \in [Nat -> Nat] /\ f[0] = 0
  /\ \A n \in Nat : f[n] < Pow2[n] /\ f[n + 1] = f[n] + IF n \in B THEN Pow2[n] ELSE 0

\* The number with given bits is the last of the partial sums.
LEMMA SumOfOnes == ASSUME NEW B PROVE \E f : Adds(f, B) /\ OfOnes(B) = f[W]
<1> DEFINE step == [n \in Nat |-> [v \in Int |-> v + IF n # 0 /\ n - 1 \in B THEN Pow2[n - 1] ELSE 0]]
           sum == CHOOSE below : below =
             [n \in Nat |-> IF n = 0 THEN 0 ELSE below[n - 1] + IF n - 1 \in B THEN Pow2[n - 1] ELSE 0]
<1>1. step \in [Nat -> [Int -> Int]]
  <2> SUFFICES ASSUME NEW n \in Nat, NEW v \in Int PROVE v + (IF n # 0 /\ n - 1 \in B THEN Pow2[n - 1] ELSE 0) \in Int
    OBVIOUS
  <2>1. CASE n = 0
    BY <2>1
  <2>2. CASE n # 0
    <3>1. Pow2[n - 1] \in Int
      BY <2>2, PowStep
    <3> QED  BY <3>1
  <2> QED  BY <2>1, <2>2
<1>2. PICK f \in [Nat -> Int] : Follows(f, 0, step)
  <2>1. 0 \in Int
    OBVIOUS
  <2> HIDE DEF step
  <2> QED  BY <1>1, <2>1, Recursion
<1>3. f = [n \in Nat |-> IF n = 0 THEN 0 ELSE f[n - 1] + IF n - 1 \in B THEN Pow2[n - 1] ELSE 0]
  <2>1. ASSUME NEW n \in Nat, n # 0 PROVE step[n][f[n - 1]] = f[n - 1] + IF n - 1 \in B THEN Pow2[n - 1] ELSE 0
    <3>1. f[n - 1] \in Int
      BY <2>1
    <3> QED  BY <2>1, <3>1
  <2>2. \A n \in Nat : (IF n = 0 THEN 0 ELSE step[n][f[n - 1]])
                         = IF n = 0 THEN 0 ELSE f[n - 1] + IF n - 1 \in B THEN Pow2[n - 1] ELSE 0
    <3> HIDE DEF step
    <3> QED  BY <2>1
  <2> HIDE DEF step
  <2> QED  BY <1>2, <2>2, Zenon DEF Follows
<1>4. sum = [n \in Nat |-> IF n = 0 THEN 0 ELSE sum[n - 1] + IF n - 1 \in B THEN Pow2[n - 1] ELSE 0]
  BY <1>3, Zenon
<1>5. sum[0] = 0 /\ \A n \in Nat : sum[n + 1] = sum[n] + IF n \in B THEN Pow2[n] ELSE 0
  <2> HIDE DEF sum
  <2>1. sum[0] = 0
    BY <1>4
  <2>2. ASSUME NEW n \in Nat PROVE sum[n + 1] = sum[n] + IF n \in B THEN Pow2[n] ELSE 0
    <3>1. n + 1 \in Nat /\ n + 1 # 0 /\ (n + 1) - 1 = n
      OBVIOUS
    <3>2. sum[n + 1] = sum[(n + 1) - 1] + IF (n + 1) - 1 \in B THEN Pow2[(n + 1) - 1] ELSE 0
      BY <1>4, <3>1
    <3> QED  BY <3>1, <3>2
  <2> QED  BY <2>1, <2>2
<1> DEFINE G == {n \in Nat : sum[n] \in 0 .. Pow2[n] - 1}
<1>6. Nat \subseteq G
  <2> HIDE DEF sum
  <2>1. 0 \in G
    BY <1>5, PowStep
  <2>2. ASSUME NEW n \in Nat, n \in G PROVE n + 1 \in G
    <3>1. sum[n] \in 0 .. Pow2[n] - 1 /\ Pow2[n] \in Nat /\ Pow2[n + 1] = 2 * Pow2[n]
      BY <2>2, PowStep
    <3>2. sum[n + 1] = sum[n] \/ sum[n + 1] = sum[n] + Pow2[n]
      BY <1>5, <3>1
    <3>3. sum[n + 1] \in 0 .. Pow2[n + 1] - 1
      BY <3>1, <3>2
    <3> QED  BY <3>3
  <2> HIDE DEF G
  <2> QED  BY <2>1, <2>2, Induction
<1>7. OfOnes(B) = sum[W]
  BY DEF OfOnes
<1>8. sum = [n \in Nat |-> sum[n]]
  <2> DEFINE g == [n \in Nat |-> IF n = 0 THEN 0 ELSE sum[n - 1] + IF n - 1 \in B THEN Pow2[n - 1] ELSE 0]
  <2>1. g = [n \in Nat |-> g[n]]
    OBVIOUS
  <2> HIDE DEF sum, g
  <2>2. sum = g
    BY <1>4 DEF g
  <2> QED  BY <2>1, <2>2
<1> HIDE DEF sum
<1>9. \A n \in Nat : sum[n] \in Nat /\ sum[n] < Pow2[n]
  BY <1>6, PowStep
<1>10. Adds(sum, B)
  BY <1>5, <1>8, <1>9 DEF Adds
<1> QED  BY <1>7, <1>10

\* One more low bit adds its power of two.
LEMMA LowStep ==
  ASSUME NEW x \in Int, NEW n \in Nat
  PROVE  Low(x, n + 1) = Low(x, n) + IF Bit(x, n) = 1 THEN Pow2[n] ELSE 0
<1> DEFINE p == Pow2[n]
<1>1. p \in Nat \ {0} /\ Pow2[n + 1] = 2 * p  BY PowStep
<1> HIDE DEF p
<1>2. PICK q \in Int, r \in 0 .. p - 1 : x = p * q + r /\ q = x \div p /\ r = x % p
  BY <1>1, Division
<1>3. PICK a \in Int, b \in 0 .. 1 : q = 2 * a + b /\ b = q % 2
  <2>1. 2 \in Nat \ {0} /\ 2 - 1 = 1  OBVIOUS
  <2> QED  BY <2>1, Division
<1>4. x = (2 * p) * a + (p * b + r) /\ p * b + r \in 0 .. 2 * p - 1 /\ 2 * p \in Nat \ {0}
  <2>1. \A u, v \in Int : p * (2 * u + v) = (2 * p) * u + p * v  BY <1>1
  <2>2. p * q = (2 * p) * a + p * b  BY <1>3, <2>1
  <2>3. p * b = 0 \/ p * b = p  BY <1>1
  <2>4. (2 * p) * a \in Int  BY <1>1
  <2> QED  BY <1>1, <1>2, <2>2, <2>3, <2>4
<1>5. x % (2 * p) = p * b + r
  BY <1>4, Quotient
<1>6. Bit(x, n) = b /\ Low(x, n) = r /\ Low(x, n + 1) = p * b + r
  BY <1>1, <1>2, <1>3, <1>5 DEF Bit, Low, p
<1>7. p * b = IF b = 1 THEN p ELSE 0
  <2>1. p * 1 = p /\ p * 0 = 0  BY <1>1
  <2>2. b = 1 \/ b = 0  OBVIOUS
  <2> QED  BY <2>1, <2>2
<1>8. p \in Int /\ r \in Int  BY <1>1
<1> QED  BY <1>6, <1>7, <1>8 DEF p

\* OfOnes undoes Ones.
LEMMA BitsOfWord == ASSUME NEW x \in Int PROVE OfOnes(Ones(x)) = Mask(x)
<1>1. PICK f : Adds(f, Ones(x)) /\ OfOnes(Ones(x)) = f[W]
  BY SumOfOnes
<1> DEFINE G == {n \in Nat : n <= W => f[n] = Low(x, n)}
<1>2. 0 \in G
  <2>1. Low(x, 0) = 0  BY PowStep DEF Low
  <2> QED  BY <1>1, <2>1 DEF Adds
<1>3. ASSUME NEW n \in Nat, n \in G PROVE n + 1 \in G
  <2> SUFFICES ASSUME n + 1 <= W PROVE f[n + 1] = Low(x, n + 1)
    OBVIOUS
  <2>1. n \in 0 .. W - 1 /\ f[n] = Low(x, n)  BY <1>3, MType
  <2>2. n \in Ones(x) <=> Bit(x, n) = 1  BY <2>1 DEF Ones
  <2> QED  BY <1>1, <2>1, <2>2, LowStep DEF Adds
<1>4. W \in G
  <2> HIDE DEF G
  <2> QED  BY <1>2, <1>3, Induction, MType
<1> QED  BY <1>1, <1>4, MType DEF Low, Mask, M

\* A multiple of a higher power leaves a bit alone.
LEMMA BitBelow ==
  ASSUME NEW x \in Int, NEW k \in Nat, NEW n \in Nat, k < n, NEW e \in Int
  PROVE  Bit(x + Pow2[n] * e, k) = Bit(x, k)
<1> DEFINE p == Pow2[k]
           r == Pow2[n - (k + 1)]
<1>1. p \in Nat \ {0} /\ r \in Nat /\ Pow2[n] = p * (2 * r)
  <2>1. k + 1 \in Nat /\ n - (k + 1) \in Nat /\ (k + 1) + (n - (k + 1)) = n  OBVIOUS
  <2>2. Pow2[k + 1] = 2 * p  BY PowStep
  <2>6. Pow2[(k + 1) + (n - (k + 1))] = Pow2[k + 1] * r  BY <2>1, PowSum
  <2>3. p \in Nat \ {0} /\ r \in Nat  BY <2>1, PowStep
  <2>4. \A a, b \in Nat : (2 * a) * b = a * (2 * b)  OBVIOUS
  <2>5. (2 * p) * r = p * (2 * r)
    <3> HIDE DEF p, r
    <3> QED  BY <2>3, <2>4
  <2> QED  BY <2>1, <2>2, <2>3, <2>5, <2>6
<1> HIDE DEF p, r
<1>2. PICK q \in Int, s \in 0 .. p - 1 : x = p * q + s /\ q = x \div p
  BY <1>1, Division
<1>3. PICK a \in Int, b \in 0 .. 1 : q = 2 * a + b /\ b = q % 2
  <2>1. 2 \in Nat \ {0} /\ 2 - 1 = 1  OBVIOUS
  <2> QED  BY <2>1, Division
<1>4. (p * (2 * r)) * e = p * (2 * (r * e)) /\ r * e \in Int
  BY <1>1
<1>5. x + Pow2[n] * e = p * (q + 2 * (r * e)) + s
  <2>1. \A u, v \in Int : p * (u + 2 * v) = p * u + p * (2 * v)  BY <1>1
  <2>2. p * q \in Int /\ p * (2 * (r * e)) \in Int  BY <1>1, <1>4
  <2>3. p * (q + 2 * (r * e)) = p * q + p * (2 * (r * e))  BY <1>4, <2>1
  <2> HIDE DEF Adds
  <2> QED  BY <1>1, <1>2, <1>4, <2>2, <2>3
<1>6. q + 2 * (r * e) \in Int  BY <1>4
<1>7. (x + Pow2[n] * e) \div p = q + 2 * (r * e)
  BY <1>1, <1>5, <1>6, Quotient
<1>8. (q + 2 * (r * e)) % 2 = b
  <2>1. q + 2 * (r * e) = 2 * (a + r * e) + b /\ a + r * e \in Int  BY <1>3, <1>4
  <2>2. 2 \in Nat \ {0} /\ b \in 0 .. 2 - 1  OBVIOUS
  <2>3. (2 * (a + r * e) + b) % 2 = b  BY <2>1, <2>2, Quotient
  <2> QED  BY <2>1, <2>3
<1> QED  BY <1>2, <1>3, <1>7, <1>8 DEF Bit, p

\* Ones undoes OfOnes.
LEMMA OnesOfSum == ASSUME NEW B PROVE Ones(OfOnes(B)) = B \cap 0 .. W - 1
<1>1. PICK f : Adds(f, B) /\ OfOnes(B) = f[W]
  BY SumOfOnes
<1> DEFINE G == {n \in Nat : \A k \in 0 .. n - 1 : Bit(f[n], k) = 1 <=> k \in B}
<1>2. 0 \in G  OBVIOUS
<1>3. ASSUME NEW n \in Nat, n \in G PROVE n + 1 \in G
  <2> SUFFICES ASSUME NEW k \in 0 .. n PROVE Bit(f[n + 1], k) = 1 <=> k \in B
    OBVIOUS
  <2>1. PICK e \in 0 .. 1 : f[n + 1] = f[n] + Pow2[n] * e /\ (e = 1 <=> n \in B)
    <3>1. f[n + 1] = f[n] + (IF n \in B THEN Pow2[n] ELSE 0) /\ f[n] \in Nat  BY <1>1 DEF Adds
    <3>2. Pow2[n] \in Nat  BY PowStep
    <3>3. CASE n \in B
      <4>1. f[n + 1] = f[n] + Pow2[n] * 1  BY <3>1, <3>2, <3>3
      <4> QED  BY <3>3, <4>1
    <3>4. CASE n \notin B
      <4>1. f[n + 1] = f[n] + Pow2[n] * 0  BY <3>1, <3>2, <3>4
      <4> QED  BY <3>4, <4>1
    <3> QED  BY <3>3, <3>4
  <2>2. f[n] \in Nat /\ f[n] < Pow2[n] /\ Pow2[n] \in Nat \ {0}  BY <1>1, PowStep DEF Adds
  <2>3. CASE k = n
    <3>1. f[n + 1] = Pow2[n] * e + f[n] /\ f[n] \in 0 .. Pow2[n] - 1
      <4>1. Pow2[n] * e \in Int  BY <2>2
      <4> QED  BY <2>1, <2>2, <4>1
    <3>2. f[n + 1] \div Pow2[n] = e
      <4>1. e \in Int  OBVIOUS
      <4>2. (Pow2[n] * e + f[n]) \div Pow2[n] = e  BY <2>2, <3>1, <4>1, Quotient
      <4> QED  BY <3>1, <4>2
    <3>3. e % 2 = e  OBVIOUS
    <3>4. Bit(f[n + 1], n) = e  BY <3>2, <3>3 DEF Bit
    <3> QED  BY <2>1, <2>3, <3>4
  <2>4. CASE k # n
    <3>1. k \in 0 .. n - 1 /\ k < n /\ k \in Nat /\ e \in Int  BY <2>4
    <3>2. Bit(f[n], k) = 1 <=> k \in B  BY <1>3, <3>1
    <3>3. Bit(f[n + 1], k) = Bit(f[n], k)
      <4>1. f[n] \in Int  BY <2>2
      <4> QED  BY <2>1, <3>1, <4>1, BitBelow
    <3> QED  BY <3>2, <3>3
  <2> QED  BY <2>3, <2>4
<1>4. W \in G
  <2> HIDE DEF G
  <2> QED  BY <1>2, <1>3, Induction, MType
<1>5. \A k \in 0 .. W - 1 : Bit(OfOnes(B), k) = 1 <=> k \in B
  BY <1>1, <1>4
<1> QED  BY <1>5 DEF Ones

\* The bit of a mask put together lane by lane.
LEMMA BitOfSum ==
  ASSUME NEW B, NEW k \in 0 .. W - 1
  PROVE  Bit(OfOnes(B), k) = IF k \in B THEN 1 ELSE 0
<1>1. Bit(OfOnes(B), k) \in {0, 1}
  <2>1. OfOnes(B) \in Int /\ k \in Nat  BY OfOnesType, MaskOfWord
  <2> QED  BY <2>1, BitType
<1>2. Bit(OfOnes(B), k) = 1 <=> k \in B
  <2>1. k \in Ones(OfOnes(B)) <=> k \in B  BY OnesOfSum
  <2> QED  BY <2>1 DEF Ones
<1> QED  BY <1>1, <1>2

\* Words with the same bits are equal.
LEMMA SameOnes ==
  ASSUME NEW x \in Word, NEW y \in Word, Ones(x) = Ones(y)
  PROVE  x = y
<1>1. OfOnes(Ones(x)) = Mask(x) /\ OfOnes(Ones(y)) = Mask(y)  BY BitsOfWord, MaskOfWord
<1> QED  BY <1>1, MaskOfWord

\* Without a bit the number is zero.
LEMMA NoBits == OfOnes({}) = 0
<1>1. PICK f : Adds(f, {}) /\ OfOnes({}) = f[W]
  BY SumOfOnes
<1> DEFINE G == {n \in Nat : f[n] = 0}
<1>2. 0 \in G  BY <1>1 DEF Adds
<1>3. ASSUME NEW n \in Nat, n \in G PROVE n + 1 \in G
  <2>1. f[n + 1] = f[n] + (IF n \in {} THEN Pow2[n] ELSE 0) /\ f[n] = 0  BY <1>1, <1>3 DEF Adds
  <2> QED  BY <2>1
<1>4. W \in G
  <2> HIDE DEF G
  <2> QED  BY <1>2, <1>3, Induction, MType
<1> QED  BY <1>1, <1>4

\* A set of positions that is not empty has a highest one.
LEMMA GreatestOf ==
  ASSUME NEW B, NEW w \in Nat, B \subseteq 0 .. w - 1, B # {}
  PROVE  \E n \in B : \A k \in B : k <= n
<1> DEFINE T == {n \in Nat : \A k \in B : k <= n}
<1>1. T # {}
  <2>1. w \in T  OBVIOUS
  <2> QED  BY <2>1
<1>2. PICK m \in T : \A y \in T : ~(<<y, m>> \in OpToRel(<, Nat))
  BY <1>1, WFMin, NatLessThanWellFounded, Zenon
<1>3. m \in B
  <2> SUFFICES ASSUME m \notin B PROVE FALSE
    OBVIOUS
  <2>1. \A k \in B : k < m /\ k \in Nat  OBVIOUS
  <2>2. m # 0
    <3>1. PICK k \in B : TRUE  OBVIOUS
    <3>2. k < m /\ k \in Nat  BY <2>1, <3>1
    <3> QED  BY <3>2
  <2>3. m - 1 \in T /\ m - 1 \in Nat /\ m \in Nat /\ m - 1 < m  BY <2>1, <2>2
  <2> QED  BY <1>2, <2>3, Zenon DEF OpToRel
<1> QED  BY <1>3

\* Half words, 24-bit numbers and shift counts are numbers in their ranges.
LEMMA LowTypes ==
  ASSUME NEW x \in Int
  PROVE  /\ Half(x) \in Nat /\ Low(x, WordBits24) \in Nat /\ Signed24(x) \in Int /\ Signed(x) \in Int
         /\ SignedLow(x, HalfBits) \in Int /\ Mask(x) \in Int
         /\ x % W \in 0 .. W - 1 /\ x % HalfBits \in 0 .. HalfBits - 1 /\ x % (2 * W) \in Nat
<1>1. WordBits24 \in Nat /\ HalfBits \in Nat  BY VConstants DEF WordBits24
<1>2. \A n \in Nat : SignedLow(x, n) \in Int /\ Low(x, n) \in Nat  BY SignedType
<1>3. x % W \in 0 .. W - 1 /\ x % HalfBits \in 0 .. HalfBits - 1 /\ x % (2 * W) \in Nat  BY VConstants
<1> QED  BY <1>1, <1>2, <1>3, SignedSame, MaskType DEF Half, Signed24

\* Products are numbers.
LEMMA Products == \A x, y \in Int : x * y \in Int
OBVIOUS

\* So are the lesser and the greater of two.
LEMMA Lesser == ASSUME NEW x \in Int, NEW y \in Int PROVE Smaller(x, y) \in Int /\ Larger(x, y) \in Int
BY DEF Smaller, Larger

\* The operations of two operands of emu.py give numbers.
LEMMA CoreBinType ==
  ASSUME NEW op \in CoreBins, NEW a \in Int, NEW b \in Int
  PROVE  CoreBin(op, a, b) \in Int
<1>1. CASE op \in {"v_and_b32", "v_or_b32", "v_xor_b32"}
  <2>1. And(a, b) \in Int /\ Or(a, b) \in Int /\ Xor(a, b) \in Int  BY LogicType
  <2> QED  BY <1>1, <2>1 DEF CoreBin, Bitwise2
<1>2. CASE op \in {"v_lshlrev_b32", "v_lshrrev_b32", "v_ashrrev_i32", "v_lshrrev_b16", "v_ashrrev_i16"}
  <2>1. a % W \in Nat /\ a % HalfBits \in Nat /\ Signed(b) \in Int /\ Half(b) \in Int /\ SignedLow(b, HalfBits) \in Int
    BY LowTypes
  <2>2. /\ Shl(b, a % W) \in Int /\ Shr(b, a % W) \in Int /\ Shr(Signed(b), a % W) \in Int
        /\ Shr(Half(b), a % HalfBits) \in Int /\ Shr(SignedLow(b, HalfBits), a % HalfBits) \in Int
    BY <2>1, ShiftOfMask
  <2>3. Half(Shr(SignedLow(b, HalfBits), a % HalfBits)) \in Int  BY <2>2, LowTypes
  <2>4. CoreShiftRev(op, a, b) \in Int  BY <1>2, <2>2, <2>3 DEF CoreShiftRev
  <2> QED  BY <1>2, <2>4 DEF CoreBin
<1>3. CASE op \in {"v_add_nc_u32", "v_sub_nc_u32", "v_subrev_nc_u32", "v_mov_b32"}
  BY <1>3 DEF CoreBin
<1>4. CASE op \in {"v_add_nc_u16", "v_sub_nc_u16"}
  <2>1. Half(a) + Half(b) \in Int /\ Half(a) - Half(b) \in Int  BY LowTypes
  <2>2. Half(Half(a) + Half(b)) \in Int /\ Half(Half(a) - Half(b)) \in Int  BY <2>1, LowTypes
  <2> QED  BY <1>4, <2>2 DEF CoreBin
<1>5. CASE op \in {"v_min_i32", "v_max_i32", "v_min_u32", "v_max_u32"}
  <2>1. Signed(a) \in Int /\ Signed(b) \in Int /\ Mask(a) \in Int /\ Mask(b) \in Int  BY LowTypes
  <2>2. /\ Smaller(Signed(a), Signed(b)) \in Int /\ Larger(Signed(a), Signed(b)) \in Int
        /\ Smaller(Mask(a), Mask(b)) \in Int /\ Larger(Mask(a), Mask(b)) \in Int
    BY <2>1, Lesser
  <2> QED  BY <1>5, <2>2 DEF CoreBin
<1> QED  BY <1>1, <1>2, <1>3, <1>4, <1>5 DEF CoreBins

\* So do those that Core8 adds.
LEMMA Core8BinType ==
  ASSUME NEW op \in Core8Bins, NEW a \in Int, NEW b \in Int
  PROVE  Core8Bin(op, a, b) \in Int
<1> DEFINE p24 == Low(a, WordBits24) * Low(b, WordBits24)
           p16 == Half(a) * Half(b)
           pm == Mask(a) * Mask(b)
           p == a * b
<1>1. p24 \in Int /\ p16 \in Int /\ pm \in Int /\ p \in Int
  <2>1. /\ Low(a, WordBits24) \in Int /\ Low(b, WordBits24) \in Int
        /\ Half(a) \in Int /\ Half(b) \in Int /\ Mask(a) \in Int /\ Mask(b) \in Int
    BY LowTypes
  <2> QED  BY ONLY <2>1, Products, a \in Int, b \in Int
<1>2. Core8Bin(op, a, b) \in {p24, Half(p16), Shr(pm, W), p, Smaller(Half(a), Half(b)),
                              Half(Shl(Half(b), a % HalfBits)), Shl(Half(a), HalfBits) + Half(b)}
  BY DEF Core8Bins, Core8Bin
<1> HIDE DEF p24, p16, pm, p
<1>3. Half(p16) \in Int /\ Shr(pm, W) \in Int
  <2>1. W \in Nat  BY VConstants
  <2>2. Half(p16) \in Nat  BY <1>1, LowTypes
  <2> QED  BY <1>1, <2>1, <2>2, ShiftOfMask
<1>4. Smaller(Half(a), Half(b)) \in Int  BY LowTypes, Lesser
<1>5. Half(a) \in Int /\ Half(b) \in Int /\ a % HalfBits \in Nat /\ HalfBits \in Nat
  <2>1. HalfBits \in Nat /\ HalfBits > 0  BY VConstants
  <2>2. Half(a) \in Int /\ Half(b) \in Int  BY LowTypes
  <2> QED  BY <2>1, <2>2
<1>6. Shl(Half(b), a % HalfBits) \in Int /\ Shl(Half(a), HalfBits) \in Int  BY <1>5, ShiftOfMask
<1>7. Half(Shl(Half(b), a % HalfBits)) \in Int /\ Shl(Half(a), HalfBits) + Half(b) \in Int  BY <1>5, <1>6, LowTypes
<1> QED  BY <1>1, <1>2, <1>3, <1>4, <1>7

\* So does the position of the highest bit.
LEMMA HighestType == ASSUME NEW a \in Int PROVE HighestBit(a) \in Int
<1>1. CASE Mask(a) = 0  BY <1>1, Constants DEF HighestBit
<1>2. CASE Mask(a) # 0
  <2> SUFFICES \E n \in Ones(a) : \A k \in Ones(a) : k <= n
    BY <1>2 DEF HighestBit, Ones
  <2> DEFINE B == Ones(a)
  <2>1. B \subseteq 0 .. W - 1 /\ W \in Nat  BY VConstants DEF Ones
  <2>2. B # {}
    <3> SUFFICES ASSUME B = {} PROVE FALSE
      OBVIOUS
    <3>1. Mask(a) = OfOnes(Ones(a))  BY BitsOfWord
    <3> QED  BY <1>2, <3>1, NoBits
  <2> HIDE DEF B
  <2> QED  BY <2>1, <2>2, GreatestOf DEF B
<1> QED  BY <1>1, <1>2

\* A shift count is a number.
LEMMA CountType == \A x \in Int : x % W \in Nat
BY LowTypes

\* The operations of three operands of emu.py give numbers.
LEMMA CoreTriType ==
  ASSUME NEW op \in CoreTris, NEW a \in Int, NEW b \in Int, NEW c \in Int
  PROVE  CoreTri(op, a, b, c) \in Int
<1>1. b % W \in Nat /\ c % W \in Nat  BY CountType
<1>2. Shl(a, b % W) \in Int /\ Shr(a, b % W) \in Int  BY <1>1, ShiftOfMask
<1>3. Or(Shl(a, b % W), c) \in Int  BY <1>2, LogicType
<1>4. Shl(a, b % W) + c \in Int /\ a + b + c \in Int  BY <1>2
<1>5. And(a, b) \in Int /\ Or(a, b) \in Int /\ Not(a) \in Int  BY LogicType
<1>6. And(Not(a), c) \in Int  BY <1>5, LogicType
<1>7. Or(And(a, b), c) \in Int /\ Or(Or(a, b), c) \in Int /\ Or(And(a, b), And(Not(a), c)) \in Int
  BY <1>5, <1>6, LogicType
<1>8. Low(Shr(a, b % W), c % W) \in Int  BY <1>1, <1>2, SignedType
<1>9. FieldI(a, b % W, c % W) \in Int  BY <1>1, FieldType
<1> QED  BY <1>3, <1>4, <1>7, <1>8, <1>9 DEF CoreTris, CoreTri

\* So do those that Core8 adds.
LEMMA Core8TriType ==
  ASSUME NEW op \in Core8Tris, NEW a \in Int, NEW b \in Int, NEW c \in Int
  PROVE  Core8Tri(op, a, b, c) \in Int
<1> DEFINE p24 == Low(a, WordBits24) * Low(b, WordBits24)
           p16 == Half(a) * Half(b)
<1>1. p24 \in Int /\ p16 \in Int
  <2>1. /\ Low(a, WordBits24) \in Int /\ Low(b, WordBits24) \in Int
        /\ Half(a) \in Int /\ Half(b) \in Int
    BY LowTypes
  <2> QED  BY ONLY <2>1, Products
<1>2. Core8Tri(op, a, b, c) \in {p24 + c, p16 + c, Xor(Xor(a, b), c), Xor(b, c), a + Shl(b, c % W)}
  BY DEF Core8Tris, Core8Tri
<1> HIDE DEF p24, p16
<1>3. Xor(a, b) \in Int /\ Xor(b, c) \in Int  BY LogicType
<1>4. Xor(Xor(a, b), c) \in Int  BY <1>3, LogicType
<1>5. c % W \in Nat  BY CountType
<1>6. Shl(b, c % W) \in Int  BY <1>5, ShiftOfMask
<1>7. p24 + c \in Int /\ p16 + c \in Int /\ a + Shl(b, c % W) \in Int  BY <1>1, <1>6
<1> QED  BY <1>2, <1>3, <1>4, <1>7

\* So does a byte of a permutation.
LEMMA PermByteType ==
  ASSUME NEW a \in Int, NEW b \in Int, NEW sel \in Nat
  PROVE  PermByte(a, b, sel) \in Int
<1> DEFINE ones == Pow2[ByteBits] - 1
           top == Pow2[ByteBits - 1]
<1>1. ones \in Int /\ top \in Int /\ ones - top \in Int
  <2>1. ByteBits \in Nat /\ ByteBits - 1 \in Nat  BY VConstants
  <2> QED  BY <2>1, PowStep
<1>2. Low(Shr(a, ByteBits * sel), ByteBits) \in Int
  <2>1. ByteBits * sel \in Nat /\ ByteBits \in Nat  BY VConstants
  <2> QED  BY <2>1, ShiftOfMask, SignedType
<1>3. sel \in 4 .. 7 => Low(Shr(b, ByteBits * (sel - 4)), ByteBits) \in Int
  <2> SUFFICES ASSUME sel \in 4 .. 7 PROVE Low(Shr(b, ByteBits * (sel - 4)), ByteBits) \in Int
    OBVIOUS
  <2>1. \A k \in Nat : ByteBits * k \in Nat  BY VConstants
  <2>2. sel - 4 \in Nat  OBVIOUS
  <2>3. ByteBits * (sel - 4) \in Nat /\ ByteBits \in Nat  BY <2>1, <2>2, VConstants
  <2>4. Shr(b, ByteBits * (sel - 4)) \in Int  BY <2>3, ShiftOfMask
  <2> QED  BY <2>3, <2>4, SignedType
<1>4. ASSUME NEW x \in Int, NEW n \in Nat PROVE ones * Bit(x, n) \in Int
  <2>1. Bit(x, n) \in Int  BY BitType
  <2> HIDE DEF ones
  <2> QED  BY <1>1, <2>1, Products
<1>5. W - 1 \in Nat /\ HalfBits - 1 \in Nat  BY VConstants
<1>6. /\ ones * Bit(a, W - 1) \in Int /\ ones * Bit(a, HalfBits - 1) \in Int
      /\ ones * Bit(b, W - 1) \in Int /\ ones * Bit(b, HalfBits - 1) \in Int
  BY <1>4, <1>5
<1> DEFINE fromA == Low(Shr(a, ByteBits * sel), ByteBits)
           fromB == Low(Shr(b, ByteBits * (sel - 4)), ByteBits)
           sa == ones * Bit(a, W - 1)
           ha == ones * Bit(a, HalfBits - 1)
           sb == ones * Bit(b, W - 1)
           hb == ones * Bit(b, HalfBits - 1)
<1>7. PermByte(a, b, sel) =
        CASE sel < 4  -> fromA [] sel \in 4 .. 7 -> fromB [] sel = 8  -> 0 [] sel = 9  -> ones
          [] sel = 10 -> top [] sel = 11 -> ones - top [] sel = 12 -> sa [] sel = 13 -> ha
          [] sel = 14 -> sb [] sel > 14 -> hb
  BY DEF PermByte
<1>8. fromA \in Int /\ (sel \in 4 .. 7 => fromB \in Int) /\ sa \in Int /\ ha \in Int /\ sb \in Int /\ hb \in Int
  BY <1>2, <1>3, <1>6
<1> HIDE DEF ones, top, fromA, fromB, sa, ha, sb, hb
<1>9. CASE sel < 4  BY <1>7, <1>8, <1>9
<1>10. CASE sel \in 4 .. 7  BY <1>7, <1>8, <1>10
<1>11. CASE sel \in {8, 9, 10, 11}  BY <1>1, <1>7, <1>11
<1>12. CASE sel \in {12, 13, 14}  BY <1>7, <1>8, <1>12
<1>13. CASE sel > 14  BY <1>7, <1>8, <1>13
<1>14. sel < 4 \/ sel \in 4 .. 7 \/ sel \in {8, 9, 10, 11} \/ sel \in {12, 13, 14} \/ sel > 14
  OBVIOUS
<1> QED  BY <1>9, <1>10, <1>11, <1>12, <1>13, <1>14

\* So does the permutation.
LEMMA PermType ==
  ASSUME NEW a \in Int, NEW b \in Int, NEW sel \in Int
  PROVE  Perm(a, b, sel) \in Int
<1> DEFINE byte(k) == Shl(PermByte(a, b, Low(Shr(sel, ByteBits * k), ByteBits)), ByteBits * k)
<1>1. ASSUME NEW k \in Nat PROVE byte(k) \in Int
  <2>1. ByteBits * k \in Nat /\ ByteBits \in Nat  BY VConstants
  <2>2. Low(Shr(sel, ByteBits * k), ByteBits) \in Nat  BY <2>1, ShiftOfMask, SignedType
  <2>3. PermByte(a, b, Low(Shr(sel, ByteBits * k), ByteBits)) \in Int  BY <2>2, PermByteType
  <2> QED  BY <2>1, <2>3, ShiftOfMask
<1>2. Perm(a, b, sel) = byte(0) + byte(1) + byte(2) + byte(3)  BY DEF Perm
<1> HIDE DEF byte
<1>3. byte(0) \in Int /\ byte(1) \in Int /\ byte(2) \in Int /\ byte(3) \in Int  BY <1>1
<1> QED  BY <1>2, <1>3

\* All operations on lanes give numbers.
LEMMA ValueTypes ==
  ASSUME NEW a \in Int, NEW b \in Int, NEW c \in Int
  PROVE  /\ \A op \in Bins : BinValue(op, a, b) \in Int
         /\ \A op \in Tris : TriValue(op, a, b, c) \in Int
<1>1. Signed24(a) \in Int /\ Signed24(b) \in Int /\ Signed(c) \in Int
      /\ Mask(a) \in Int /\ Mask(b) \in Int /\ Mask(c) \in Int
  BY LowTypes
<1>2. Signed24(a) * Signed24(b) \in Int /\ Signed24(a) * Signed24(b) + Signed(c) \in Int
  <2> DEFINE p == Signed24(a) * Signed24(b)
  <2>1. p \in Int  BY <1>1, Products
  <2> HIDE DEF p
  <2>2. p + Signed(c) \in Int  BY <1>1, <2>1
  <2> QED  BY <2>1, <2>2 DEF p
<1>3. Perm(Mask(a), Mask(b), Mask(c)) \in Int  BY <1>1, PermType
<1>4. AlignBit(a, b, c) \in Int
  <2>1. Pair(Mask(a), Mask(b)) \in Int  BY MaskType, PairInt
  <2>2. c % W \in Nat  BY CountType
  <2>3. Shr(Pair(Mask(a), Mask(b)), c % W) \in Int  BY <2>1, <2>2, ShiftOfMask
  <2> QED  BY <2>3, LowTypes DEF AlignBit
<1>5. ASSUME NEW op \in Bins PROVE BinValue(op, a, b) \in Int
  <2>1. Not(a) \in Int /\ HighestBit(a) \in Int  BY LogicType, HighestType
  <2>2. op \in CoreBins => BinValue(op, a, b) \in Int  BY BinValues, CoreBinType
  <2>3. op \in Core8Bins => BinValue(op, a, b) \in Int  BY BinValues, Core8BinType
  <2>4. op \in {"v_not_b32", "v_ffbh_u32", "v_mul_i32_i24"} => BinValue(op, a, b) \in Int
    BY <1>2, <2>1, BinValues
  <2> QED  BY <2>2, <2>3, <2>4 DEF Bins
<1>6. ASSUME NEW op \in Tris PROVE TriValue(op, a, b, c) \in Int
  <2>1. op \in CoreTris => TriValue(op, a, b, c) \in Int  BY TriValues, CoreTriType
  <2>2. op \in Core8Tris => TriValue(op, a, b, c) \in Int  BY TriValues, Core8TriType
  <2>3. op \in {"v_perm_b32", "v_alignbit_b32", "v_mad_i32_i24"} => TriValue(op, a, b, c) \in Int
    BY <1>2, <1>3, <1>4, TriValues
  <2> QED  BY <2>1, <2>2, <2>3 DEF Tris
<1> QED  BY <1>5, <1>6

-----------------------------------------------------------------------------
(* The handlers lead from a wave to a wave.                                *)

\* A mask of which some bits are replaced is a word.
LEMMA MergedType == \A old, lanes, on : MergeMask(old, lanes, on) \in Word
BY OfOnesType DEF MergeMask

\* What writes a VGPR or a pair of every active lane.
LEMMA LanesType ==
  ASSUME NEW w \in VState, NEW o \in VRegs \cup VPairs, NEW f, DOMAIN f = Active(w),
         \A l \in Active(w) : f[l] \in Int
  PROVE  VSet(w, o, f) \in VState
BY VSetType

\* Instructions of two operands lead from a wave to a wave.
LEMMA BinType ==
  ASSUME NEW w \in VState, NEW i, IsVector(i), i.op \in Bins
  PROVE  Bin(i, w) \in VState
<1> DEFINE f == [l \in Active(w) |-> BinValue(i.op, VGet(w, l, i.a), VGet(w, l, i.b))]
<1>1. \A l \in Active(w) : f[l] \in Int
  <2> SUFFICES ASSUME NEW l \in Active(w) PROVE BinValue(i.op, VGet(w, l, i.a), VGet(w, l, i.b)) \in Int
    OBVIOUS
  <2>1. VGet(w, l, i.a) \in Int /\ VGet(w, l, i.b) \in Int  BY ActiveLanes, VGetType DEF IsVector
  <2>2. 0 \in Int  OBVIOUS
  <2> QED  BY <2>1, <2>2, ValueTypes
<1>2. i.d \in VRegs \cup VPairs /\ DOMAIN f = Active(w) /\ Bin(i, w) = VSet(w, i.d, f)
  BY DEF IsVector, Bin
<1> HIDE DEF f
<1> QED  BY <1>1, <1>2, LanesType

\* So do those of three.
LEMMA TriType ==
  ASSUME NEW w \in VState, NEW i, IsVector(i), i.op \in Tris
  PROVE  Tri(i, w) \in VState
<1> DEFINE f == [l \in Active(w) |-> TriValue(i.op, VGet(w, l, i.a), VGet(w, l, i.b), VGet(w, l, i.c))]
<1>1. \A l \in Active(w) : f[l] \in Int
  <2> SUFFICES ASSUME NEW l \in Active(w)
               PROVE  TriValue(i.op, VGet(w, l, i.a), VGet(w, l, i.b), VGet(w, l, i.c)) \in Int
    OBVIOUS
  <2>1. VGet(w, l, i.a) \in Int /\ VGet(w, l, i.b) \in Int /\ VGet(w, l, i.c) \in Int
    BY ActiveLanes, VGetType DEF IsVector
  <2> QED  BY <2>1, ValueTypes
<1>2. i.d \in VRegs \cup VPairs /\ DOMAIN f = Active(w) /\ Tri(i, w) = VSet(w, i.d, f)
  BY DEF IsVector, Tri
<1> HIDE DEF f
<1> QED  BY <1>1, <1>2, LanesType

\* What comes in as a carry is 0 or 1.
LEMMA CarryInType ==
  ASSUME NEW w \in VState, NEW l \in Lane, NEW o \in VSources
  PROVE  CarryIn(w, l, o) \in {0, 1}
<1>1. l \in Nat /\ Word \subseteq Int  BY VConstants, Constants DEF Lane, Word
<1>2. CASE o.t = "vcc"
  <2>1. w.vcc \in Int  BY <1>1 DEF VState
  <2> QED  BY <1>1, <1>2, <2>1, BitType DEF CarryIn
<1>3. CASE o.t = "s"
  <2>1. o.n \in Reg  BY <1>3 DEF VSources, VRegs, VCC, ExecReg, Shared, SRegs, Literals, Null
  <2>2. w.s[o.n] \in Int  BY <1>1, <2>1 DEF VState
  <2> QED  BY <1>1, <1>3, <2>2, BitType DEF CarryIn
<1>4. CASE o.t \notin {"vcc", "s"}  BY <1>4 DEF CarryIn
<1> QED  BY <1>2, <1>3, <1>4

\* The addition with a carry out leads from a wave to a wave.
LEMMA AddCoType ==
  ASSUME NEW w \in VState, NEW i, IsVector(i), i.op = "v_add_co_u32"
  PROVE  AddCo(i, w) \in VState
<1> DEFINE sum(l) == Mask(VGet(w, l, i.a)) + Mask(VGet(w, l, i.b))
           carries == {l \in Active(w) : sum(l) > Top}
           f == [l \in Active(w) |-> sum(l)]
<1>1. AddCo(i, w) = SetMask(VSet(w, i.d, f), i.out, OfOnes(carries))  BY DEF AddCo
<1>2. \A l \in Active(w) : f[l] \in Int
  <2> SUFFICES ASSUME NEW l \in Active(w) PROVE sum(l) \in Int
    OBVIOUS
  <2>1. VGet(w, l, i.a) \in Int /\ VGet(w, l, i.b) \in Int  BY ActiveLanes, VGetType DEF IsVector
  <2>2. Mask(VGet(w, l, i.a)) \in Int /\ Mask(VGet(w, l, i.b)) \in Int  BY <2>1, LowTypes
  <2> QED  BY <2>2
<1>3. DOMAIN f = Active(w) /\ i.d \in VRegs \cup VPairs /\ i.out \in VMaskRegs \cup Pairs  BY DEF IsVector
<1> HIDE DEF f, carries
<1>4. VSet(w, i.d, f) \in VState /\ OfOnes(carries) \in Word  BY <1>2, <1>3, LanesType, OfOnesType
<1> QED  BY <1>1, <1>3, <1>4, SetMaskType

\* So does the one with a carry in and out.
LEMMA AddCoCiType ==
  ASSUME NEW w \in VState, NEW i, IsVector(i), i.op = "v_add_co_ci_u32"
  PROVE  AddCoCi(i, w) \in VState
<1> DEFINE sum(l) == Mask(VGet(w, l, i.a)) + Mask(VGet(w, l, i.b)) + CarryIn(w, l, i.c)
           f == [l \in Active(w) |-> sum(l)]
           after == VSet(w, i.d, f)
           m == MergeMask(w.vcc, Active(w), {l \in Active(w) : sum(l) > Top})
<1>1. AddCoCi(i, w) = IF i.out.t = "vcc" THEN [after EXCEPT !.vcc = m] ELSE after  BY DEF AddCoCi
<1>2. \A l \in Active(w) : f[l] \in Int
  <2> SUFFICES ASSUME NEW l \in Active(w) PROVE sum(l) \in Int
    OBVIOUS
  <2>1. VGet(w, l, i.a) \in Int /\ VGet(w, l, i.b) \in Int  BY ActiveLanes, VGetType DEF IsVector
  <2>2. Mask(VGet(w, l, i.a)) \in Int /\ Mask(VGet(w, l, i.b)) \in Int  BY <2>1, LowTypes
  <2>3. CarryIn(w, l, i.c) \in {0, 1}  BY ActiveLanes, CarryInType DEF IsVector
  <2> QED  BY <2>2, <2>3
<1>3. DOMAIN f = Active(w) /\ i.d \in VRegs \cup VPairs  BY DEF IsVector
<1> HIDE DEF f
<1>4. after \in VState /\ m \in Word  BY <1>2, <1>3, LanesType, MergedType
<1> HIDE DEF after, m
<1>5. [after EXCEPT !.vcc = m] \in VState  BY <1>4 DEF VState
<1> QED  BY <1>1, <1>4, <1>5

\* So does the subtraction with a borrow in and out.
LEMMA SubRevCoCiType ==
  ASSUME NEW w \in VState, NEW i, IsVector(i), i.op = "v_subrev_co_ci_u32"
  PROVE  SubRevCoCi(i, w) \in VState
<1> DEFINE diff(l) == Mask(VGet(w, l, i.b)) - Mask(VGet(w, l, i.a)) - (VGet(w, l, i.c) % 2)
           f == [l \in Active(w) |-> diff(l)]
           borrows == {l \in Active(w) : diff(l) < 0}
           after == VSet(w, i.d, f)
           mv == MergeMask(after.vcc, Active(w), borrows)
           ms == MergeMask(after.s[i.out.n], Active(w), borrows)
<1>1. SubRevCoCi(i, w) =
        CASE i.out.t = "vcc" -> [after EXCEPT !.vcc = mv]
          [] i.out.t = "pair" -> [after EXCEPT !.s[i.out.n] = ms]
          [] OTHER -> after
  BY DEF SubRevCoCi
<1>2. \A l \in Active(w) : f[l] \in Int
  <2> SUFFICES ASSUME NEW l \in Active(w) PROVE diff(l) \in Int
    OBVIOUS
  <2>1. VGet(w, l, i.a) \in Int /\ VGet(w, l, i.b) \in Int /\ VGet(w, l, i.c) \in Int
    BY ActiveLanes, VGetType DEF IsVector
  <2>2. Mask(VGet(w, l, i.a)) \in Int /\ Mask(VGet(w, l, i.b)) \in Int  BY <2>1, LowTypes
  <2>3. VGet(w, l, i.c) % 2 \in Int  BY <2>1
  <2> QED  BY <2>2, <2>3
<1>3. DOMAIN f = Active(w) /\ i.d \in VRegs \cup VPairs  BY DEF IsVector
<1> HIDE DEF f, borrows
<1>4. after \in VState /\ mv \in Word /\ ms \in Word  BY <1>2, <1>3, LanesType, MergedType
<1>5. i.out.t = "pair" => i.out.n \in Reg
  BY Constants DEF IsVector, VMaskRegs, VCC, ExecReg, Null, SRegs, Pairs, Reg
<1> HIDE DEF after, mv, ms
<1>6. [after EXCEPT !.vcc = mv] \in VState  BY <1>4 DEF VState
<1>7. i.out.t = "pair" => [after EXCEPT !.s[i.out.n] = ms] \in VState
  BY <1>4, <1>5 DEF VState
<1> QED  BY <1>1, <1>4, <1>6, <1>7

\* So does the select.
LEMMA CndMaskType ==
  ASSUME NEW w \in VState, NEW i, IsVector(i), i.op = "v_cndmask_b32"
  PROVE  CndMask(i, w) \in VState
<1> DEFINE bit(l) == IF i.c.t \in {"vcc", "s"} THEN CarryIn(w, l, i.c) ELSE VGet(w, l, i.c)
           f == [l \in Active(w) |-> IF bit(l) # 0 THEN VGet(w, l, i.b) ELSE VGet(w, l, i.a)]
<1>1. CndMask(i, w) = VSet(w, i.d, f)  BY DEF CndMask
<1>2. \A l \in Active(w) : f[l] \in Int
  <2> SUFFICES ASSUME NEW l \in Active(w) PROVE (IF bit(l) # 0 THEN VGet(w, l, i.b) ELSE VGet(w, l, i.a)) \in Int
    OBVIOUS
  <2>1. VGet(w, l, i.a) \in Int /\ VGet(w, l, i.b) \in Int  BY ActiveLanes, VGetType DEF IsVector
  <2> QED  BY <2>1
<1>3. DOMAIN f = Active(w) /\ i.d \in VRegs \cup VPairs  BY DEF IsVector
<1> HIDE DEF f
<1> QED  BY <1>1, <1>2, <1>3, LanesType

\* So do the compares.
LEMMA VCompareType ==
  ASSUME NEW w \in VState, NEW i, IsCompare(i)
  PROVE  VCompare(i, w) \in VState
<1> DEFINE yes == {l \in Active(w) : Asks(i.rel, i.type, VGet(w, l, i.a), VGet(w, l, i.b))}
           o == IF i.op = "v_cmpx" THEN [t |-> "exec", n |-> 0] ELSE i.d
<1>1. VCompare(i, w) = SetMask(w, o, OfOnes(yes))  BY DEF VCompare
<1>2. o \in VMaskRegs \cup Pairs  BY DEF IsCompare, VMaskRegs, ExecReg
<1> HIDE DEF o, yes
<1> QED  BY <1>1, <1>2, OfOnesType, SetMaskType

\* The number of bits that are 1 is a number.
LEMMA CardType == ASSUME NEW x PROVE Cardinality(Ones(x)) \in Int
<1>1. IsFiniteSet(0 .. W - 1)  BY FS_Interval, MType
<1>2. IsFiniteSet(Ones(x))  BY <1>1, FS_Subset DEF Ones
<1> QED  BY <1>2, FS_CardinalityType

\* The count of lower lanes leads from a wave to a wave.
LEMMA MbCntType ==
  ASSUME NEW w \in VState, NEW i, IsVector(i)
  PROVE  MbCnt(i, w) \in VState
<1> DEFINE f == [l \in Active(w) |-> Cardinality(Ones(Low(Mask(VGet(w, l, i.a)), l)))]
<1>1. \A l \in Active(w) : f[l] \in Int  BY CardType
<1>2. DOMAIN f = Active(w) /\ i.d \in VRegs \cup VPairs /\ MbCnt(i, w) = VSet(w, i.d, f)  BY DEF IsVector, MbCnt
<1> HIDE DEF f
<1> QED  BY <1>1, <1>2, LanesType

\* So do the wide products.
LEMMA WideMadType ==
  ASSUME NEW w \in VState, NEW i, IsWide(i), i.op \in {"v_mad_u64_u32", "v_mad_i64_i32"}
  PROVE  WideMad(i, w) \in VState
<1> DEFINE factor(l, o) == IF i.op = "v_mad_i64_i32" THEN Signed(VGet(w, l, o)) ELSE Mask(VGet(w, l, o))
           sum(l) == Mask2(factor(l, i.a) * factor(l, i.b) + VGetPair(w, l, i.c))
           f == [l \in Active(w) |-> sum(l)]
           after == VSet(w, i.d, f)
<1>1. WideMad(i, w) = IF i.out.t = "vcc" /\ Active(w) # {} THEN [after EXCEPT !.vcc = 0] ELSE after
  BY DEF WideMad
<1>2. {i.a, i.b} \subseteq VSources /\ i.c \in VSources \cup VPairs \cup Pairs /\ i.d \in VRegs \cup VPairs
  BY DEF IsWide, WideSources
<1>3. \A l \in Active(w) : f[l] \in Int
  <2> SUFFICES ASSUME NEW l \in Active(w) PROVE sum(l) \in Int
    OBVIOUS
  <2>1. VGetPair(w, l, i.c) \in Int  BY <1>2, ActiveLanes, VGetPairType
  <2>2. VGet(w, l, i.a) \in Int /\ VGet(w, l, i.b) \in Int  BY <1>2, ActiveLanes, VGetType
  <2>3. factor(l, i.a) \in Int /\ factor(l, i.b) \in Int  BY <2>2, LowTypes
  <2> DEFINE p == factor(l, i.a) * factor(l, i.b)
  <2>4. p \in Int
    <3> HIDE DEF factor
    <3> QED  BY <2>3, Products
  <2> HIDE DEF p
  <2>5. p + VGetPair(w, l, i.c) \in Int  BY <2>1, <2>4
  <2> QED  BY <2>5, Mask2Type DEF p
<1>4. DOMAIN f = Active(w)  OBVIOUS
<1> HIDE DEF f
<1>5. after \in VState  BY <1>2, <1>3, <1>4, LanesType
<1> HIDE DEF after
<1>6. [after EXCEPT !.vcc = 0] \in VState  BY <1>5, Constants DEF VState
<1> QED  BY <1>1, <1>5, <1>6

\* So do the shifts of pairs.
LEMMA ShiftWideType ==
  ASSUME NEW w \in VState, NEW i, IsWide(i), i.op \in {"v_lshlrev_b64", "v_lshrrev_b64"}
  PROVE  ShiftWide(i, w) \in VState
<1> DEFINE left(l) == IF i.a.n >= 2 * W THEN 0 ELSE Mask2(Shl(VGetPair(w, l, i.b), i.a.n))
           right(l) == Shr(Mask2(VGetPair(w, l, i.b)), VGet(w, l, i.a) % (2 * W))
           f == [l \in Active(w) |-> IF i.op = "v_lshlrev_b64" THEN left(l) ELSE right(l)]
<1>1. ShiftWide(i, w) = VSet(w, i.d, f)
  BY DEF ShiftWide
<1>2. i.b \in VSources \cup VPairs \cup Pairs /\ i.d \in VRegs \cup VPairs
  BY DEF IsWide, WideSources
<1>3. \A l \in Active(w) : f[l] \in Int
  <2> SUFFICES ASSUME NEW l \in Active(w) PROVE (IF i.op = "v_lshlrev_b64" THEN left(l) ELSE right(l)) \in Int
    OBVIOUS
  <2>1. VGetPair(w, l, i.b) \in Int  BY <1>2, ActiveLanes, VGetPairType
  <2>2. CASE i.op = "v_lshlrev_b64"
    <3>1. i.a.n \in Nat  BY <2>2, Constants DEF IsWide
    <3>2. Shl(VGetPair(w, l, i.b), i.a.n) \in Int  BY <2>1, <3>1, ShiftOfMask
    <3>3. Mask2(Shl(VGetPair(w, l, i.b), i.a.n)) \in Int  BY <3>2, Mask2Type
    <3>4. left(l) \in Int
      <4> DEFINE z == Mask2(Shl(VGetPair(w, l, i.b), i.a.n))
      <4> HIDE DEF z
      <4> QED  BY <3>3 DEF z
    <3> QED  BY <2>2, <3>4
  <2>3. CASE i.op = "v_lshrrev_b64"
    <3>1. i.a \in VSources  BY <2>3 DEF IsWide
    <3>2. VGet(w, l, i.a) \in Int  BY <3>1, ActiveLanes, VGetType
    <3>3. VGet(w, l, i.a) % (2 * W) \in Nat  BY <3>2, LowTypes
    <3>4. Mask2(VGetPair(w, l, i.b)) \in Int  BY <2>1, Mask2Type
    <3>5. right(l) \in Int  BY <3>3, <3>4, ShiftOfMask
    <3> QED  BY <2>3, <3>5
  <2> QED  BY <2>2, <2>3
<1>4. DOMAIN f = Active(w)  OBVIOUS
<1> HIDE DEF f
<1> QED  BY <1>1, <1>2, <1>3, <1>4, LanesType

\* A lane goes by a number there is a lane of.
LEMMA LaneNoType ==
  ASSUME NEW w \in VState, NEW i, IsLaneMove(i)
  PROVE  LaneNo(i, w) \in Lane
<1>1. CASE NLanes = W
  <2>1. VGet(w, 0, i.b) \in Int  BY <1>1, VConstants, VGetType DEF IsLaneMove
  <2>2. VGet(w, 0, i.b) % W \in 0 .. W - 1  BY <2>1, LowTypes
  <2> QED  BY <1>1, <2>2 DEF LaneNo, Lane
<1>2. CASE NLanes # W
  <2>1. VGet(w, 0, i.b) \in Lane
    <3>1. i.b = Null \/ (i.b.t = "lit" /\ i.b.n \in Lane)  BY <1>2 DEF IsLaneMove
    <3> QED  BY <3>1, VConstants DEF VGet, Null
  <2>2. \A k \in 0 .. W - 1 : k % W = k
    <3> SUFFICES ASSUME NEW k \in 0 .. W - 1 PROVE k % W = k
      OBVIOUS
    <3>1. W \in Nat \ {0}  BY VConstants
    <3>2. (W * 0 + k) % W = k  BY <3>1, Quotient
    <3>3. W * 0 + k = k  BY <3>1
    <3> QED  BY <3>2, <3>3
  <2> QED  BY <2>1, <2>2, VConstants DEF LaneNo
<1> QED  BY <1>1, <1>2

\* What scalar and vector instructions can both read, a lane can read.
LEMMA SharedSources == Shared \subseteq VSources /\ VRegs \subseteq VSources
BY DEF VSources

\* Every lane reads the same of what is shared.
LEMMA SharedReads == \A w, k, l : \A o \in Shared : VGet(w, k, o) = VGet(w, l, o)
<1> SUFFICES ASSUME NEW w, NEW k, NEW l, NEW o \in Shared PROVE VGet(w, k, o) = VGet(w, l, o)
  OBVIOUS
<1>1. o.t \in {"s", "lit", "null"}  BY DEF Shared, SRegs, Literals, Null
<1> QED  BY <1>1 DEF VGet

\* Writing an SGPR leads from a wave to a wave.
LEMMA PutsScalar ==
  ASSUME NEW w \in VState, NEW o \in SRegs, NEW x \in Int
  PROVE  Set(w, o, x) \in VState
<1>1. o \in Registers /\ o.t = "s"  BY DEF SRegs, Registers
<1>2. Set(w, o, x) = Over(w, Set(Part(w), o, x))  BY <1>1, PartWrites
<1>3. Set(Part(w), o, x) \in State  BY <1>1, PartType, PutType
<1> QED  BY <1>2, <1>3, PartType

\* So do the moves between lanes.
LEMMA LaneMoveType ==
  ASSUME NEW w \in VState, NEW i, IsLaneMove(i)
  PROVE  VResult(i, w) \in VState
<1>1. LaneNo(i, w) \in Lane  BY LaneNoType
<1>2. CASE i.op = "v_readfirstlane_b32"
  <2>1. i.d \in SRegs /\ i.a \in VRegs  BY <1>2 DEF IsLaneMove
  <2>2. w.v[0][i.a.n] \in Word  BY <2>1, VConstants DEF VRegs, VState
  <2>3. VResult(i, w) = Set(w, i.d, w.v[0][i.a.n])  BY <1>2, VDoesMore DEF ReadFirst
  <2> QED  BY <2>1, <2>2, <2>3, MaskOfWord, PutsScalar
<1>3. CASE i.op = "v_readlane_b32"
  <2>1. i.d \in SRegs /\ i.a \in VRegs  BY <1>3 DEF IsLaneMove
  <2>2. VGet(w, LaneNo(i, w), i.a) \in Int  BY <1>1, <2>1, SharedSources, VGetType
  <2>3. VResult(i, w) = Set(w, i.d, VGet(w, LaneNo(i, w), i.a))  BY <1>3, VDoesMore DEF ReadLane
  <2> QED  BY <2>1, <2>2, <2>3, PutsScalar
<1>4. CASE i.op = "v_writelane_b32"
  <2> DEFINE f == [l \in {LaneNo(i, w)} |-> VGet(w, 0, i.a)]
  <2>1. i.d \in VRegs /\ i.a \in Shared  BY <1>4 DEF IsLaneMove
  <2>2. VGet(w, 0, i.a) \in Int  BY <2>1, VConstants, SharedSources, VGetType
  <2>3. VResult(i, w) = VSet(w, i.d, f)  BY <1>4, VDoesMore DEF WriteLane
  <2>4. \A l \in Lane : l \in DOMAIN f => f[l] \in Int  BY <2>2
  <2> HIDE DEF f
  <2>5. i.d \in VRegs \cup VPairs  BY <2>1
  <2>6. VSet(w, i.d, f) \in VState  BY <2>4, <2>5, VSetType
  <2> QED  BY <2>3, <2>6
<1> QED  BY <1>2, <1>3, <1>4 DEF IsLaneMove, LaneOps

\* Every vector instruction leads from a wave to a wave.
LEMMA VectorType ==
  ASSUME NEW w \in VState, NEW i, IsVector(i)
  PROVE  VResult(i, w) \in VState
<1>1. CASE i.op \in Bins  BY <1>1, VDoes, BinType
<1>2. CASE i.op \in Tris  BY <1>2, VDoes, TriType
<1>3. CASE i.op = "v_add_co_u32"  BY <1>3, VDoes, AddCoType
<1>4. CASE i.op = "v_add_co_ci_u32"  BY <1>4, VDoes, AddCoCiType
<1>5. CASE i.op = "v_subrev_co_ci_u32"  BY <1>5, VDoes, SubRevCoCiType
<1>6. CASE i.op = "v_cndmask_b32"  BY <1>6, VDoes, CndMaskType
<1>7. CASE i.op = "v_mbcnt_lo_u32_b32"  BY <1>7, VDoesMore, MbCntType
<1> QED  BY <1>1, <1>2, <1>3, <1>4, <1>5, <1>6, <1>7 DEF IsVector, VectorOps, CarryOps

\* Every instruction, scalar or vector, leads from a wave to a wave.
LEMMA VResultType ==
  ASSUME NEW w \in VState, NEW i, VWellFormed(i)
  PROVE  VResult(i, w) \in VState
<1>1. CASE WellFormed(i)
  <2>1. i.op \in Emulated  BY <1>1 DEF WellFormed
  <2> QED  BY <1>1, <2>1, VDoes, PartResult
<1>2. CASE IsCompare(i)
  <2>1. i.op \in {"v_cmp", "v_cmpx"}  BY <1>2 DEF IsCompare
  <2> QED  BY <1>2, <2>1, VDoes, VCompareType
<1>3. CASE IsVector(i)  BY <1>3, VectorType
<1>4. CASE IsWide(i)
  <2>1. i.op \in {"v_mad_u64_u32", "v_mad_i64_i32"} \/ i.op \in {"v_lshlrev_b64", "v_lshrrev_b64"}
    BY <1>4 DEF IsWide
  <2> QED  BY <1>4, <2>1, VDoesMore, WideMadType, ShiftWideType
<1>5. CASE IsLaneMove(i)  BY <1>5, LaneMoveType
<1> QED  BY <1>1, <1>2, <1>3, <1>4, <1>5 DEF VWellFormed

\* The wave starts as one.
LEMMA VStartType == VStart \in VState
<1>1. Pow2[NLanes] - 1 \in Word
  <2>1. Pow2[NLanes] <= Pow2[W] /\ Pow2[NLanes] \in Nat /\ Pow2[NLanes] > 0 /\ Pow2[W] \in Nat
    BY VConstants, PowGrows, PowStep
  <2> QED  BY <2>1 DEF Word, Top, M
<1> QED  BY <1>1, Constants DEF VStart, VState

\* And stays one when a kernel is loaded.
LEMMA VLoadType == VTypeOK /\ VLoad => VTypeOK'
<1> SUFFICES ASSUME VTypeOK, VLoad PROVE VTypeOK'
  OBVIOUS
<1>1. PICK x \in Samples, y \in Samples, e \in VMasks, c \in VMasks :
        wave' = [wave EXCEPT
                 !.s = [n \in Reg |-> CASE n = 0 -> x [] n = 1 -> y [] OTHER -> 0],
                 !.v = [l \in Lane |-> [n \in Vgpr |->
                          IF n > 1 THEN 0 ELSE IF (l + n) % 2 = 0 THEN x ELSE y]],
                 !.exec = e, !.vcc = c]
  BY DEF VLoad
<1>2. x \in Word /\ y \in Word /\ e \in Word /\ c \in Word /\ 0 \in Word  BY SampleAssumption, Constants
<1> DEFINE fs == [n \in Reg |-> CASE n = 0 -> x [] n = 1 -> y [] OTHER -> 0]
           fv == [l \in Lane |-> [n \in Vgpr |-> IF n > 1 THEN 0 ELSE IF (l + n) % 2 = 0 THEN x ELSE y]]
<1>3. fs \in [Reg -> Word]  BY <1>2
<1>4. fv \in [Lane -> [Vgpr -> Word]]  BY <1>2
<1>5. wave' = [wave EXCEPT !.s = fs, !.v = fv, !.exec = e, !.vcc = c]  BY <1>1
<1> HIDE DEF fs, fv
<1>6. wave' \in VState  BY <1>2, <1>3, <1>4, <1>5 DEF VTypeOK, VState
<1>7. steps' \in -1 .. MaxSteps  BY SampleAssumption DEF VLoad
<1> QED  BY <1>6, <1>7 DEF VTypeOK

\* Every instruction of the kernel leads from a wave to a wave: registers keep
\* words, masks bits of a word, whatever EXEC switches off.
THEOREM VTypeCorrect == VSpec => []VTypeOK
<1>1. VInit => VTypeOK  BY VStartType, SampleAssumption DEF VInit, VTypeOK
<1>2. VTypeOK /\ [VNext]_vvars => VTypeOK'
  <2> SUFFICES ASSUME VTypeOK, [VNext]_vvars PROVE VTypeOK'
    OBVIOUS
  <2>1. CASE VLoad  BY <2>1, VLoadType
  <2>2. ASSUME NEW i \in VKernel, VExecute(i) PROVE VTypeOK'
    <3>1. wave' \in VState  BY <2>2, VKernelAssumption, VResultType DEF VTypeOK, VExecute
    <3>2. steps' \in -1 .. MaxSteps  BY <2>2, SampleAssumption DEF VTypeOK, VExecute
    <3> QED  BY <3>1, <3>2 DEF VTypeOK
  <2>3. CASE UNCHANGED vvars  BY <2>3 DEF VTypeOK, vvars
  <2> QED  BY <2>1, <2>2, <2>3 DEF VNext
<1> QED  BY <1>1, <1>2, PTL DEF VSpec

-----------------------------------------------------------------------------
(* A vector instruction and the scalar one of the same meaning.            *)

\* What is read back of what was written.
LEMMA LanesRead ==
  ASSUME NEW w \in VState, NEW o \in VRegs, NEW f, DOMAIN f = Active(w), NEW l \in Active(w),
         \A k \in Active(w) : f[k] \in Int
  PROVE  VGetPair(VSet(w, o, f), l, o) = Mask(f[l])
<1>1. o.t = "v" /\ o.n \in Vgpr  BY DEF VRegs
<1>2. l \in Lane /\ l \in DOMAIN f  BY ActiveLanes
<1>3. VSet(w, o, f).v = [k \in Lane |-> Landed(w, o, f, k)]  BY VSetType
<1>4. Landed(w, o, f, l) = [w.v[l] EXCEPT ![o.n] = Mask(f[l])]  BY <1>1, <1>2 DEF Landed
<1>5. w.v[l] \in [Vgpr -> Word]  BY <1>2 DEF VState
<1>6. VSet(w, o, f).v[l][o.n] = Mask(f[l])  BY <1>1, <1>2, <1>3, <1>4, <1>5
<1> QED  BY <1>1, <1>6 DEF VGetPair, VGet

\* A lane that is on reads in a pair the two words of what was written to it.
LEMMA LanesReadPair ==
  ASSUME NEW w \in VState, NEW o \in VPairs, NEW f, DOMAIN f = Active(w), NEW l \in Active(w),
         \A k \in Active(w) : f[k] \in Int
  PROVE  VGetPair(VSet(w, o, f), l, o) = Pair(Mask(f[l]), Mask(Shr(f[l], W)))
<1>1. o.t = "vpair" /\ o.n \in Vgpr /\ o.n + 1 \in Vgpr /\ o.n # o.n + 1  BY VConstants DEF VPairs, Vgpr
<1>2. l \in Lane /\ l \in DOMAIN f  BY ActiveLanes
<1>3. VSet(w, o, f).v = [k \in Lane |-> Landed(w, o, f, k)]  BY VSetType
<1>4. Landed(w, o, f, l) = [w.v[l] EXCEPT ![o.n] = Mask(f[l]), ![o.n + 1] = Mask(Shr(f[l], W))]
  BY <1>1, <1>2 DEF Landed
<1>5. w.v[l] \in [Vgpr -> Word]  BY <1>2 DEF VState
<1>6. VSet(w, o, f).v[l][o.n] = Mask(f[l]) /\ VSet(w, o, f).v[l][o.n + 1] = Mask(Shr(f[l], W))
  <2> DEFINE g == Landed(w, o, f, l)
             x == Mask(f[l])
             y == Mask(Shr(f[l], W))
  <2>1. g = [w.v[l] EXCEPT ![o.n] = x, ![o.n + 1] = y]  BY <1>4
  <2>2. VSet(w, o, f).v[l] = g  BY <1>2, <1>3
  <2> HIDE DEF g, x, y
  <2>3. g[o.n] = x /\ g[o.n + 1] = y  BY <1>1, <1>5, <2>1
  <2> QED  BY <2>2, <2>3 DEF x, y
<1> QED  BY <1>1, <1>6 DEF VGetPair

\* An SGPR holds the word written to it; SCC holds the flag.
LEMMA ScalarRead ==
  ASSUME NEW w \in VState, NEW o \in SRegs, NEW x
  PROVE  /\ GetPair(Set(w, o, x), o) = Mask(x)
         /\ \A b : GetPair(Flag(Set(w, o, x), b), o) = Mask(x)
         /\ \A b : Flag(Set(w, o, x), b).scc = IF b THEN 1 ELSE 0
         /\ \A b : Flag(w, b).scc = IF b THEN 1 ELSE 0
<1>1. o.t = "s" /\ o.n \in Reg  BY DEF SRegs
<1>2. Set(w, o, x) = [w EXCEPT !.s[o.n] = Mask(x)]  BY <1>1 DEF Set
<1> DEFINE y == Set(w, o, x)
<1>3. y.s[o.n] = Mask(x) /\ y \in [s : {y.s}, scc : {y.scc}, exec : {y.exec}, vcc : {y.vcc}, v : {y.v}]
  BY <1>1, <1>2 DEF VState
<1> HIDE DEF y
<1>4. \A b : Flag(y, b).s = y.s /\ Flag(y, b).scc = IF b THEN 1 ELSE 0  BY <1>3 DEF Flag
<1>5. \A b : Flag(w, b).scc = IF b THEN 1 ELSE 0  BY DEF Flag, VState
<1>6. \A z : GetPair(z, o) = z.s[o.n]  BY <1>1 DEF GetPair, Get
<1> QED  BY <1>3, <1>4, <1>5, <1>6 DEF y

\* A pair of SGPRs holds the two words written to it.
LEMMA ScalarReadPair ==
  ASSUME NEW w \in VState, NEW o \in Pairs, NEW x
  PROVE  GetPair(SetPair(w, o, x), o) = Pair(Mask(x), Mask(Shr(x, W)))
<1>1. o.t = "pair" /\ o.n \in Reg /\ o.n + 1 \in Reg /\ o.n # o.n + 1  BY Constants DEF Pairs, Reg
<1> DEFINE lo == Mask(x)
           hi == Mask(Shr(x, W))
<1>2. SetPair(w, o, x) = [w EXCEPT !.s[o.n] = lo, !.s[o.n + 1] = hi]  BY <1>1 DEF SetPair
<1> HIDE DEF lo, hi
<1>3. SetPair(w, o, x).s = [[w.s EXCEPT ![o.n] = lo] EXCEPT ![o.n + 1] = hi]  BY <1>2 DEF VState
<1>4. w.s \in [Reg -> Word]  BY DEF VState
<1>5. SetPair(w, o, x).s[o.n] = lo /\ SetPair(w, o, x).s[o.n + 1] = hi  BY <1>1, <1>3, <1>4
<1> QED  BY <1>1, <1>5 DEF GetPair, lo, hi

\* Both read the same of what is shared.
LEMMA SharedGets ==
  ASSUME NEW w \in VState, NEW l \in Lane, NEW o \in Shared
  PROVE  /\ VGet(w, l, o) = Get(w, o) /\ Get(w, o) \in Int
         /\ o \in SRegs => Get(w, o) \in Word
<1>1. VGet(w, l, o) = Get(w, o)
  <2>1. o.t \in {"s", "lit", "null"}  BY DEF Shared, SRegs, Literals, Null
  <2> QED  BY <2>1 DEF VGet, Get
<1>2. VGet(w, l, o) \in Int  BY SharedSources, VGetType
<1>3. o \in SRegs => Get(w, o) \in Word  BY DEF SRegs, Get, VState
<1> QED  BY <1>1, <1>2, <1>3

\* With the values of the sources a word each.
LEMMA SameSourcesAgree ==
  ASSUME NEW w \in VState, NEW v, NEW s, <<v.op, s.op>> \in SameSources, NEW x \in Word, NEW y \in Word,
         Get(w, s.a) = x, Get(w, s.b) = y, s.d \in SRegs
  PROVE  v.op \in Bins /\ Mask(BinValue(v.op, x, y)) = GetPair(Result(s, w), s.d)
<1>1. x \in Int /\ y \in Int /\ Mask(x) = x /\ Mask(y) = y  BY MaskOfWord
<1>2. CASE v.op \in {"v_and_b32", "v_or_b32", "v_xor_b32"}
  <2>1. v.op \in Bins /\ v.op \in CoreBins  BY <1>2 DEF Bins, CoreBins
  <2>2. s.op \in CoreLogic /\ Bitwise2(v.op, x, y) = CoreLogicValue(s.op, x, y)
    BY <1>2 DEF SameSources, CoreLogic, Bitwise2, CoreLogicValue
  <2>3. BinValue(v.op, x, y) = CoreLogicValue(s.op, x, y)  BY <1>2, <2>1, <2>2, BinValues DEF CoreBin
  <2>4. Result(s, w) = Set(w, s.d, CoreLogicValue(s.op, x, y))  BY <2>2, DoesMain
  <2> QED  BY <2>1, <2>3, <2>4, ScalarRead
<1>3. CASE v.op = "v_not_b32"
  <2>1. s.op = "s_not_b32"  BY <1>3 DEF SameSources
  <2>2. v.op \in Bins /\ BinValue(v.op, x, y) = Not(x)  BY <1>3, BinValues DEF Bins
  <2>3. Result(s, w) = Set(w, s.d, Not(x))  BY <2>1, DoesCore8
  <2> QED  BY <2>2, <2>3, ScalarRead
<1>4. CASE v.op \in {"v_add_nc_u32", "v_sub_nc_u32"}
  <2>1. v.op \in Bins /\ v.op \in CoreBins  BY <1>4 DEF Bins, CoreBins
  <2>2. s.op \in CoreArith /\ CoreBin(v.op, x, y) = CoreArithValue(s.op, x, y)
    BY <1>4 DEF SameSources, CoreArith, CoreBin, CoreArithValue
  <2>3. BinValue(v.op, x, y) = CoreArithValue(s.op, x, y)  BY <2>1, <2>2, BinValues
  <2>4. Result(s, w) = Set(w, s.d, CoreArithValue(s.op, x, y))  BY <2>2, IsArith
  <2> QED  BY <2>1, <2>3, <2>4, ScalarRead
<1>5. CASE v.op = "v_mul_lo_u32"
  <2>1. s.op = "s_mul_i32"  BY <1>5 DEF SameSources
  <2>2. v.op \in Bins /\ v.op \in Core8Bins  BY <1>5 DEF Bins, Core8Bins
  <2>3. BinValue(v.op, x, y) = x * y
    <3>1. Core8Bin(v.op, x, y) = x * y  BY <1>5 DEF Core8Bin
    <3> QED  BY <2>2, <3>1, BinValues
  <2>4. s.op \in CoreArith /\ CoreArithValue(s.op, x, y) = Signed(x) * Signed(y)
    BY <2>1 DEF CoreArith, CoreArithValue
  <2>5. Result(s, w) = Set(w, s.d, Signed(x) * Signed(y))  BY <2>4, IsArith
  <2>6. Mask(Signed(x) * Signed(y)) = Mask(x * y)
    <3>1. Signed(x) \in Int /\ Signed(y) \in Int /\ Same(Signed(x), x) /\ Same(Signed(y), y)
      BY <1>1, SignedSame
    <3>2. Same(Signed(x) * Signed(y), x * y)  BY <1>1, <3>1, SameProduct
    <3>3. Signed(x) * Signed(y) \in Int /\ x * y \in Int  BY <1>1, <3>1, Products
    <3> QED  BY <3>2, <3>3, MaskSame
  <2> QED  BY <2>2, <2>3, <2>5, <2>6, ScalarRead
<1>6. CASE v.op = "v_mul_hi_u32"
  <2>1. s.op = "s_mul_hi_u32"  BY <1>6 DEF SameSources
  <2>2. v.op \in Bins /\ v.op \in Core8Bins  BY <1>6 DEF Bins, Core8Bins
  <2>3. BinValue(v.op, x, y) = Shr(x * y, W)
    <3>1. Core8Bin(v.op, x, y) = Shr(x * y, W)  BY <1>1, <1>6 DEF Core8Bin
    <3> QED  BY <2>2, <3>1, BinValues
  <2>4. s.op \in CoreArith /\ CoreArithValue(s.op, x, y) = Shr(x * y, W)  BY <2>1 DEF CoreArith, CoreArithValue
  <2>5. Result(s, w) = Set(w, s.d, Shr(x * y, W))  BY <2>4, IsArith
  <2> QED  BY <2>2, <2>3, <2>5, ScalarRead
<1>7. CASE v.op = "v_min_i32"
  <2>1. s.op = "s_min_i32"  BY <1>7 DEF SameSources
  <2>2. v.op \in Bins /\ v.op \in CoreBins  BY <1>7 DEF Bins, CoreBins
  <2>3. BinValue(v.op, x, y) = IF Signed(y) < Signed(x) THEN Signed(y) ELSE Signed(x)
    <3>1. CoreBin(v.op, x, y) = Smaller(Signed(x), Signed(y))  BY <1>7 DEF CoreBin
    <3> QED  BY <2>2, <3>1, BinValues DEF Smaller
  <2>4. s.op \in MoreOps /\ ~FieldForm(s)  BY <2>1 DEF MoreOps, FieldForm
  <2>5. Result(s, w) = Set(w, s.d, IF Signed(y) < Signed(x) THEN Signed(y) ELSE Signed(x))  BY <2>1, <2>4, DoesMore
  <2> QED  BY <2>2, <2>3, <2>5, ScalarRead
<1>8. CASE v.op = "v_max_i32"
  <2>1. s.op = "s_max_i32"  BY <1>8 DEF SameSources
  <2>2. v.op \in Bins /\ v.op \in CoreBins  BY <1>8 DEF Bins, CoreBins
  <2> DEFINE m == IF Signed(x) > Signed(y) THEN Signed(x) ELSE Signed(y)
  <2>3. BinValue(v.op, x, y) = m
    <3>1. CoreBin(v.op, x, y) = Larger(Signed(x), Signed(y))  BY <1>8 DEF CoreBin
    <3>2. Signed(x) \in Int /\ Signed(y) \in Int  BY <1>1, SignedSame
    <3>3. Larger(Signed(x), Signed(y)) = m  BY <3>2 DEF Larger
    <3> QED  BY <2>2, <3>1, <3>3, BinValues
  <2>4. Result(s, w) = IsaResult(s, w)  BY <2>1, DoesFlags DEF IsaOps
  <2>5. Result(s, w) = Flag(Set(w, s.d, m), Signed(x) > Signed(y))  BY <2>1, <2>4 DEF IsaResult
  <2> HIDE DEF m
  <2> QED  BY <2>2, <2>3, <2>5, ScalarRead
<1>9. CASE v.op = "v_mov_b32"
  <2>1. s.op = "s_mov_b32"  BY <1>9 DEF SameSources
  <2>2. v.op \in Bins /\ v.op \in CoreBins  BY <1>9 DEF Bins, CoreBins
  <2>3. BinValue(v.op, x, y) = x
    <3>1. CoreBin(v.op, x, y) = x  BY <1>9 DEF CoreBin
    <3> QED  BY <2>2, <3>1, BinValues
  <2>4. Result(s, w) = Set(w, s.d, x)  BY <2>1, DoesOneOfMain
  <2> QED  BY <2>2, <2>3, <2>4, ScalarRead
<1> QED  BY <1>2, <1>3, <1>4, <1>5, <1>6, <1>7, <1>8, <1>9 DEF SameSources

\* A reversed shift has them the other way round.
LEMMA SwappedSourcesAgree ==
  ASSUME NEW w \in VState, NEW v, NEW s, <<v.op, s.op>> \in SwappedSources, NEW x \in Word, NEW y \in Word,
         Get(w, s.a) = x, Get(w, s.b) = y, s.d \in SRegs
  PROVE  v.op \in Bins /\ Mask(BinValue(v.op, y, x)) = GetPair(Result(s, w), s.d)
<1>1. v.op \in Bins /\ v.op \in CoreBins /\ s.op \in CoreShifts
  BY DEF SwappedSources, Bins, CoreBins, CoreShifts
<1>2. CoreBin(v.op, y, x) = CoreShiftRev(v.op, y, x)  BY DEF SwappedSources, CoreBin
<1>3. CoreShiftRev(v.op, y, x) = CoreShift(s.op, x, y)  BY DEF SwappedSources, CoreShiftRev, CoreShift
<1>4. Result(s, w) = Set(w, s.d, CoreShift(s.op, x, y))  BY <1>1, DoesMain
<1> QED  BY <1>1, <1>2, <1>3, <1>4, BinValues, ScalarRead

\* The bit field extracts of lanes and of scalars compute one value.
LEMMA FieldsAgree ==
  ASSUME NEW w \in VState, NEW v, NEW s, <<v.op, s.op>> \in FieldTwins, NEW x \in Int, NEW y \in Int, NEW z \in Int,
         Get(w, s.a) = x, Get(w, s.b) = y, Get(w, s.c) = z, s.d \in SRegs, s.b.t # "field"
  PROVE  v.op \in Tris /\ Mask(TriValue(v.op, x, y, z)) = GetPair(Result(s, w), s.d)
<1>1. v.op \in Tris /\ v.op \in CoreTris /\ s.op \in MoreOps /\ ~FieldForm(s)
  BY DEF FieldTwins, Tris, CoreTris, MoreOps, FieldForm
<1>2. CASE v.op = "v_bfe_u32"
  <2>1. s.op = "s_bfe_u32"  BY <1>2 DEF FieldTwins
  <2>2. TriValue(v.op, x, y, z) = Low(Shr(x, y % W), z % W)
    <3>1. CoreTri(v.op, x, y, z) = Low(Shr(x, y % W), z % W)  BY <1>2 DEF CoreTri
    <3> QED  BY <1>1, <3>1, TriValues
  <2>3. Low(Shr(x, y % W), z % W) = FieldU(x, y % W, z % W)
    <3>1. y % W \in Nat  BY CountType
    <3>2. Shr(x, y % W) \in Int  BY <3>1, ShiftOfMask
    <3>3. \A u \in Int : Low(u, 0) = 0  BY PowStep DEF Low
    <3> QED  BY <3>2, <3>3 DEF FieldU
  <2>4. Result(s, w) = Set(w, s.d, FieldU(x, y % W, z % W))  BY <1>1, <2>1, DoesMore
  <2> QED  BY <1>1, <2>2, <2>3, <2>4, ScalarRead
<1>3. CASE v.op = "v_bfe_i32"
  <2>1. s.op = "s_bfe_i32"  BY <1>3 DEF FieldTwins
  <2>2. TriValue(v.op, x, y, z) = FieldI(x, y % W, z % W)
    <3>1. CoreTri(v.op, x, y, z) = FieldI(x, y % W, z % W)  BY <1>3 DEF CoreTri
    <3> QED  BY <1>1, <3>1, TriValues
  <2>3. Result(s, w) = Set(w, s.d, FieldI(x, y % W, z % W))  BY <1>1, <2>1, DoesMore
  <2> QED  BY <1>1, <2>2, <2>3, ScalarRead
<1> QED  BY <1>2, <1>3 DEF FieldTwins

\* What an active lane has of a handler with two or three sources.
LEMMA BinReads ==
  ASSUME NEW w \in VState, NEW v, v.op \in Bins, v.d \in VRegs, {v.a, v.b} \subseteq VSources, NEW l \in Active(w)
  PROVE  VGetPair(VResult(v, w), l, v.d) = Mask(BinValue(v.op, VGet(w, l, v.a), VGet(w, l, v.b)))
<1> DEFINE f == [k \in Active(w) |-> BinValue(v.op, VGet(w, k, v.a), VGet(w, k, v.b))]
<1>1. \A k \in Active(w) : f[k] \in Int
  <2> SUFFICES ASSUME NEW k \in Active(w) PROVE BinValue(v.op, VGet(w, k, v.a), VGet(w, k, v.b)) \in Int
    OBVIOUS
  <2>1. VGet(w, k, v.a) \in Int /\ VGet(w, k, v.b) \in Int /\ 0 \in Int  BY ActiveLanes, VGetType
  <2> QED  BY <2>1, ValueTypes
<1>2. VResult(v, w) = VSet(w, v.d, f)  BY VDoes DEF Bin
<1>3. DOMAIN f = Active(w) /\ f[l] = BinValue(v.op, VGet(w, l, v.a), VGet(w, l, v.b))  OBVIOUS
<1> HIDE DEF f
<1>4. VGetPair(VSet(w, v.d, f), l, v.d) = Mask(f[l])  BY <1>1, <1>3, LanesRead
<1> QED  BY <1>2, <1>3, <1>4

\* A lane that is on reads what an instruction of three operands computed for it.
LEMMA TriReads ==
  ASSUME NEW w \in VState, NEW v, v.op \in Tris, v.d \in VRegs, {v.a, v.b, v.c} \subseteq VSources,
         NEW l \in Active(w)
  PROVE  VGetPair(VResult(v, w), l, v.d) =
           Mask(TriValue(v.op, VGet(w, l, v.a), VGet(w, l, v.b), VGet(w, l, v.c)))
<1> DEFINE f == [k \in Active(w) |-> TriValue(v.op, VGet(w, k, v.a), VGet(w, k, v.b), VGet(w, k, v.c))]
<1>1. \A k \in Active(w) : f[k] \in Int
  <2> SUFFICES ASSUME NEW k \in Active(w)
               PROVE  TriValue(v.op, VGet(w, k, v.a), VGet(w, k, v.b), VGet(w, k, v.c)) \in Int
    OBVIOUS
  <2>1. VGet(w, k, v.a) \in Int /\ VGet(w, k, v.b) \in Int /\ VGet(w, k, v.c) \in Int
    BY ActiveLanes, VGetType
  <2> QED  BY <2>1, ValueTypes
<1>2. VResult(v, w) = VSet(w, v.d, f)  BY VDoes DEF Tri
<1>3. DOMAIN f = Active(w) /\ f[l] = TriValue(v.op, VGet(w, l, v.a), VGet(w, l, v.b), VGet(w, l, v.c))  OBVIOUS
<1> HIDE DEF f
<1>4. VGetPair(VSet(w, v.d, f), l, v.d) = Mask(f[l])  BY <1>1, <1>3, LanesRead
<1> QED  BY <1>2, <1>3, <1>4

\* Twins that compute a word leave the same in every lane that is on.
LEMMA ValueTwinsAgree ==
  ASSUME NEW w \in VState, NEW v, NEW s, ValueTwins(v, s), NEW l \in Active(w)
  PROVE  VGetPair(VResult(v, w), l, v.d) = GetPair(Result(s, w), s.d)
<1>1. v.d \in VRegs /\ s.d \in SRegs /\ s.a \in SRegs /\ l \in Lane /\ SRegs \subseteq Shared
  BY ActiveLanes DEF ValueTwins, Shared
<1>2. CASE <<v.op, s.op>> \in SameSources /\ v.a = s.a /\ v.b = s.b /\ s.b \in SRegs
  <2>1. VGet(w, l, v.a) = Get(w, s.a) /\ VGet(w, l, v.b) = Get(w, s.b) /\ Get(w, s.a) \in Word /\ Get(w, s.b) \in Word
    BY <1>1, <1>2, SharedGets
  <2>2. {v.a, v.b} \subseteq VSources  BY <1>1, <1>2, SharedSources
  <2>3. v.op \in Bins /\ Mask(BinValue(v.op, Get(w, s.a), Get(w, s.b))) = GetPair(Result(s, w), s.d)
    BY <1>1, <1>2, <2>1, SameSourcesAgree
  <2>4. VGetPair(VResult(v, w), l, v.d) = Mask(BinValue(v.op, VGet(w, l, v.a), VGet(w, l, v.b)))
    BY <1>1, <2>2, <2>3, BinReads
  <2> QED  BY <2>1, <2>3, <2>4
<1>3. CASE <<v.op, s.op>> \in SwappedSources /\ v.a = s.b /\ v.b = s.a /\ s.b \in SRegs
  <2>1. VGet(w, l, v.a) = Get(w, s.b) /\ VGet(w, l, v.b) = Get(w, s.a) /\ Get(w, s.a) \in Word /\ Get(w, s.b) \in Word
    BY <1>1, <1>3, SharedGets
  <2>2. {v.a, v.b} \subseteq VSources  BY <1>1, <1>3, SharedSources
  <2>3. v.op \in Bins /\ Mask(BinValue(v.op, Get(w, s.b), Get(w, s.a))) = GetPair(Result(s, w), s.d)
    BY <1>1, <1>3, <2>1, SwappedSourcesAgree
  <2>4. VGetPair(VResult(v, w), l, v.d) = Mask(BinValue(v.op, VGet(w, l, v.a), VGet(w, l, v.b)))
    BY <1>1, <2>2, <2>3, BinReads
  <2> QED  BY <2>1, <2>3, <2>4
<1>4. CASE <<v.op, s.op>> \in FieldTwins /\ v.a = s.a /\ v.b = s.b /\ v.c = s.c /\ {s.b, s.c} \subseteq Shared
  <2>1. /\ VGet(w, l, v.a) = Get(w, s.a) /\ VGet(w, l, v.b) = Get(w, s.b) /\ VGet(w, l, v.c) = Get(w, s.c)
        /\ Get(w, s.a) \in Int /\ Get(w, s.b) \in Int /\ Get(w, s.c) \in Int
    BY <1>1, <1>4, SharedGets
  <2>2. {v.a, v.b, v.c} \subseteq VSources  BY <1>1, <1>4, SharedSources
  <2>3. s.b.t # "field"  BY <1>4 DEF Shared, SRegs, Literals, Null
  <2>4. v.op \in Tris /\ Mask(TriValue(v.op, Get(w, s.a), Get(w, s.b), Get(w, s.c))) = GetPair(Result(s, w), s.d)
    <3> DEFINE x == Get(w, s.a)
               y == Get(w, s.b)
               z == Get(w, s.c)
    <3>1. x \in Int /\ y \in Int /\ z \in Int /\ Get(w, s.a) = x /\ Get(w, s.b) = y /\ Get(w, s.c) = z  BY <2>1
    <3>2. <<v.op, s.op>> \in FieldTwins /\ s.d \in SRegs  BY <1>1, <1>4
    <3> HIDE DEF x, y, z
    <3>3. v.op \in Tris /\ Mask(TriValue(v.op, x, y, z)) = GetPair(Result(s, w), s.d)
      BY <2>3, <3>1, <3>2, FieldsAgree
    <3> QED  BY <3>3 DEF x, y, z
  <2>5. VGetPair(VResult(v, w), l, v.d) = Mask(TriValue(v.op, VGet(w, l, v.a), VGet(w, l, v.b), VGet(w, l, v.c)))
    BY <1>1, <2>2, <2>4, TriReads
  <2> QED  BY <2>1, <2>4, <2>5
<1> QED  BY <1>2, <1>3, <1>4 DEF ValueTwins

\* So do twins that compute a pair.
LEMMA WideTwinsAgree ==
  ASSUME NEW w \in VState, NEW v, NEW s, WideTwins(v, s), NEW l \in Active(w)
  PROVE  VGetPair(VResult(v, w), l, v.d) = GetPair(Result(s, w), s.d)
<1>1. /\ v.d \in VPairs /\ s.d \in Pairs /\ s.a \in Pairs /\ v.b = s.a /\ v.a = s.b /\ l \in Lane
      /\ v.op = "v_lshlrev_b64" /\ s.op = "s_lshl_b64"
      /\ v.a.t = "lit" /\ v.a.n \in 0 .. 2 * W - 1
  BY ActiveLanes DEF WideTwins
<1> DEFINE n == v.a.n
           x == Mask2(Shl(GetPair(w, s.a), n))
           f == [k \in Active(w) |-> x]
<1>2. Result(s, w) = SetPair(w, s.d, x)
  <2>1. Get(w, s.b) = n  BY <1>1 DEF Get
  <2>2. n % (2 * W) = n
    <3> DEFINE d == 2 * W
    <3>1. d \in Nat \ {0}  BY VConstants
    <3>2. n \in 0 .. d - 1  BY <1>1
    <3> HIDE DEF d, n
    <3>3. (d * 0 + n) % d = n  BY <3>1, <3>2, Quotient
    <3>4. d * 0 + n = n  BY <3>1, <3>2
    <3>5. n % d = n  BY <3>3, <3>4
    <3> QED  BY <3>5 DEF d
  <2>3. Result(s, w) = SetPair(w, s.d, Mask2(Shl(GetPair(w, s.a), Get(w, s.b) % (2 * W))))
    BY <1>1, DoesOneOfMain
  <2> QED  BY <2>1, <2>2, <2>3
<1>3. VResult(v, w) = VSet(w, v.d, f)
  <2>1. ~(n >= 2 * W)  BY <1>1, VConstants
  <2>2. \A k : VGetPair(w, k, v.b) = GetPair(w, s.a)
    <3>1. v.b.t = "pair"  BY <1>1 DEF Pairs
    <3> QED  BY <1>1, <3>1 DEF VGetPair
  <2>3. VResult(v, w) = ShiftWide(v, w)  BY <1>1, VDoesMore
  <2>4. ShiftWide(v, w) = VSet(w, v.d, f)  BY <1>1, <2>1, <2>2 DEF ShiftWide
  <2> QED  BY <2>3, <2>4
<1>4. x \in Int
  <2>1. VGetPair(w, l, v.b) \in Int  BY <1>1, VGetPairType
  <2>2. VGetPair(w, l, v.b) = GetPair(w, s.a)
    <3>1. v.b.t = "pair"  BY <1>1 DEF Pairs
    <3> QED  BY <1>1, <3>1 DEF VGetPair
  <2>3. n \in Nat /\ GetPair(w, s.a) \in Int  BY <1>1, <2>1, <2>2, VConstants
  <2>4. Shl(GetPair(w, s.a), n) \in Int
    <3> HIDE DEF n
    <3> QED  BY <2>3, ShiftOfMask
  <2> QED  BY <2>4, Mask2Type
<1> HIDE DEF x
<1>5. DOMAIN f = Active(w) /\ f[l] = x /\ \A k \in Active(w) : f[k] \in Int  BY <1>4
<1> HIDE DEF f
<1>6. VGetPair(VSet(w, v.d, f), l, v.d) = Pair(Mask(x), Mask(Shr(x, W)))  BY <1>1, <1>5, LanesReadPair
<1>7. GetPair(SetPair(w, s.d, x), s.d) = Pair(Mask(x), Mask(Shr(x, W)))  BY <1>1, ScalarReadPair
<1> QED  BY <1>2, <1>3, <1>6, <1>7

\* The carries of v_add_co_u32, and the answers of v_cmp, as masks.
LEMMA CarryTwinsAgree ==
  ASSUME NEW w \in VState, NEW v, NEW s, CarryTwins(v, s)
  PROVE  /\ \A l \in Active(w) : VGetPair(VResult(v, w), l, v.d) = GetPair(Result(s, w), s.d)
         /\ \A l \in Lane : Bit(VResult(v, w).vcc, l) = IF l \in Active(w) THEN Result(s, w).scc ELSE 0
<1>1. /\ v.op = "v_add_co_u32" /\ s.op = "s_add_u32" /\ v.d \in VRegs /\ v.out = VCC /\ s.d \in SRegs
      /\ v.a = s.a /\ v.b = s.b /\ s.a \in SRegs /\ s.b \in SRegs /\ SRegs \subseteq Shared
  BY DEF CarryTwins, Shared
<1> DEFINE x == Get(w, s.a)
           y == Get(w, s.b)
           carries == {l \in Active(w) : x + y > Top}
           f == [l \in Active(w) |-> x + y]
<1>2. x \in Word /\ y \in Word /\ x \in Int /\ y \in Int /\ Mask(x) = x /\ Mask(y) = y
  <2>1. x \in Word /\ y \in Word  BY <1>1, SharedGets, VConstants
  <2> HIDE DEF x, y
  <2> QED  BY <2>1, MaskOfWord
<1>3. \A l \in Active(w) : Mask(VGet(w, l, v.a)) + Mask(VGet(w, l, v.b)) = x + y
  BY <1>1, <1>2, ActiveLanes, SharedGets
<1>4. VResult(v, w) = SetMask(VSet(w, v.d, f), VCC, OfOnes(carries))
  <2>1. VResult(v, w) = AddCo(v, w)  BY <1>1, VDoes
  <2>2. [l \in Active(w) |-> Mask(VGet(w, l, v.a)) + Mask(VGet(w, l, v.b))] = f  BY <1>3
  <2>3. {l \in Active(w) : Mask(VGet(w, l, v.a)) + Mask(VGet(w, l, v.b)) > Top} = carries  BY <1>3
  <2> QED  BY <1>1, <2>1, <2>2, <2>3 DEF AddCo
<1>5. Result(s, w) = Flag(Set(w, s.d, x + y), x + y > Top)  BY <1>1, DoesOneOfMain DEF AddCarry
<1> HIDE DEF x, y
<1>6. DOMAIN f = Active(w) /\ (\A l \in Active(w) : f[l] = x + y) /\ \A l \in Active(w) : f[l] \in Int  BY <1>2
<1> HIDE DEF f
<1> DEFINE after == VSet(w, v.d, f)
<1>7. after \in VState  BY <1>1, <1>6, LanesType
<1>8. ASSUME NEW m PROVE SetMask(after, VCC, m).v = after.v /\ SetMask(after, VCC, m).vcc = m
  <2> HIDE DEF after
  <2> QED  BY <1>7 DEF SetMask, VCC, VState
<1>9. ASSUME NEW l \in Active(w) PROVE VGetPair(VResult(v, w), l, v.d) = GetPair(Result(s, w), s.d)
  <2>1. VGetPair(after, l, v.d) = Mask(x + y)  BY <1>1, <1>6, LanesRead
  <2>2. v.d.t = "v"  BY <1>1 DEF VRegs
  <2>3. \A z : VGetPair(z, l, v.d) = z.v[l][v.d.n]  BY <2>2 DEF VGetPair, VGet
  <2>4. VGetPair(VResult(v, w), l, v.d) = VGetPair(after, l, v.d)
    <3> HIDE DEF after
    <3> QED  BY <1>4, <1>8, <2>3 DEF after
  <2>5. GetPair(Result(s, w), s.d) = Mask(x + y)  BY <1>1, <1>5, ScalarRead
  <2> QED  BY <2>1, <2>4, <2>5
<1>10. ASSUME NEW l \in Lane PROVE Bit(VResult(v, w).vcc, l) = IF l \in Active(w) THEN Result(s, w).scc ELSE 0
  <2>1. VResult(v, w).vcc = OfOnes(carries)  BY <1>4, <1>8
  <2>2. l \in 0 .. W - 1  BY VConstants
  <2>3. Bit(OfOnes(carries), l) = IF l \in carries THEN 1 ELSE 0
    <3> HIDE DEF carries
    <3> QED  BY <2>2, BitOfSum
  <2> DEFINE q == x + y > Top
  <2>4. Result(s, w).scc = IF q THEN 1 ELSE 0
    <3>1. \A b : Flag(Set(w, s.d, x + y), b).scc = IF b THEN 1 ELSE 0  BY <1>1, ScalarRead
    <3> QED  BY <1>5, <3>1, Zenon
  <2>5. l \in carries <=> l \in Active(w) /\ x + y > Top  OBVIOUS
  <2> QED  BY <2>1, <2>3, <2>4, <2>5
<1> QED  BY <1>9, <1>10

\* A scalar compare sets SCC to what the vector compare asks of every lane.
LEMMA SameQuestion ==
  ASSUME NEW w \in VState, NEW v, NEW s, <<v.rel, v.type, s.op>> \in CompareTwins,
         NEW x \in Word, NEW y \in Word, Get(w, s.a) = x, Get(w, s.b) = y
  PROVE  Result(s, w) = Flag(w, Asks(v.rel, v.type, x, y))
<1>1. Low(x, W) = Mask(x) /\ Low(y, W) = Mask(y) /\ SignedLow(x, W) = Signed(x) /\ SignedLow(y, W) = Signed(y)
  BY DEF Low, Mask, M, Signed
<1>2. Mask(x) \in Int /\ Mask(y) \in Int /\ Signed(x) \in Int /\ Signed(y) \in Int
  BY MaskOfWord, MaskType, SignedSame
<1>3. CASE v.type = "i32"
  <2>1. Asks(v.rel, v.type, x, y) =
          CASE v.rel = "eq" -> Signed(x) = Signed(y) [] v.rel = "ne" -> Signed(x) # Signed(y)
            [] v.rel = "lt" -> Signed(x) < Signed(y) [] v.rel = "le" -> Signed(x) <= Signed(y)
            [] v.rel = "gt" -> Signed(x) > Signed(y) [] v.rel = "ge" -> Signed(x) >= Signed(y)
    BY <1>1, <1>3 DEF Asks
  <2>2. CASE v.rel = "gt"
    <3>1. Asks(v.rel, v.type, x, y) = (Signed(x) > Signed(y))  BY <2>1, <2>2
    <3>2. s.op = "s_cmp_gt_i32"  BY <1>3, <2>2 DEF CompareTwins
    <3>3. Result(s, w) = Flag(w, CoreCompare(s.op, x, y))  BY <3>2, DoesMain DEF CoreCompares
    <3> QED  BY <3>1, <3>2, <3>3 DEF CoreCompare
  <2>3. CASE v.rel = "ge"
    <3>1. Asks(v.rel, v.type, x, y) = (Signed(x) >= Signed(y))  BY <2>1, <2>3
    <3>2. s.op = "s_cmp_ge_i32"  BY <1>3, <2>3 DEF CompareTwins
    <3>3. s.op \in MoreOps /\ ~FieldForm(s)  BY <3>2 DEF MoreOps, FieldForm
    <3> QED  BY <3>1, <3>2, <3>3, DoesMore
  <2>4. CASE v.rel = "lt"
    <3>1. Asks(v.rel, v.type, x, y) = (Signed(x) < Signed(y))  BY <2>1, <2>4
    <3>2. s.op = "s_cmp_lt_i32"  BY <1>3, <2>4 DEF CompareTwins
    <3> QED  BY <3>1, <3>2, DoesCore8
  <2> QED  BY <1>3, <2>2, <2>3, <2>4 DEF CompareTwins
<1>4. CASE v.type = "u32"
  <2>1. Asks(v.rel, v.type, x, y) =
          CASE v.rel = "eq" -> Mask(x) = Mask(y) [] v.rel = "ne" -> Mask(x) # Mask(y)
            [] v.rel = "lt" -> Mask(x) < Mask(y) [] v.rel = "le" -> Mask(x) <= Mask(y)
            [] v.rel = "gt" -> Mask(x) > Mask(y) [] v.rel = "ge" -> Mask(x) >= Mask(y)
    BY <1>1, <1>4 DEF Asks
  <2>2. CASE v.rel = "gt"
    <3>1. Asks(v.rel, v.type, x, y) = (Mask(x) > Mask(y))  BY <2>1, <2>2
    <3>2. s.op = "s_cmp_gt_u32"  BY <1>4, <2>2 DEF CompareTwins
    <3> QED  BY <3>1, <3>2, DoesCore8
  <2>3. CASE v.rel \in {"eq", "ne", "lt", "ge"}
    <3>1. s.op \in CoreCompares  BY <1>4, <2>3 DEF CompareTwins, CoreCompares
    <3>2. Result(s, w) = Flag(w, CoreCompare(s.op, x, y))  BY <3>1, DoesMain
    <3>3. CoreCompare(s.op, x, y) = Asks(v.rel, v.type, x, y)
      <4>1. CASE v.rel = "eq"
        <5>1. s.op = "s_cmp_eq_u32"  BY <1>4, <4>1 DEF CompareTwins
        <5> QED  BY <2>1, <4>1, <5>1 DEF CoreCompare
      <4>2. CASE v.rel = "ne"
        <5>1. s.op = "s_cmp_lg_u32"  BY <1>4, <4>2 DEF CompareTwins
        <5> QED  BY <2>1, <4>2, <5>1 DEF CoreCompare
      <4>3. CASE v.rel = "lt"
        <5>1. s.op = "s_cmp_lt_u32"  BY <1>4, <4>3 DEF CompareTwins
        <5> QED  BY <2>1, <4>3, <5>1 DEF CoreCompare
      <4>4. CASE v.rel = "ge"
        <5>1. s.op = "s_cmp_ge_u32"  BY <1>4, <4>4 DEF CompareTwins
        <5> QED  BY <2>1, <4>4, <5>1 DEF CoreCompare
      <4> QED  BY <2>3, <4>1, <4>2, <4>3, <4>4
    <3> QED  BY <3>2, <3>3
  <2> QED  BY <1>4, <2>2, <2>3 DEF CompareTwins
<1> QED  BY <1>3, <1>4 DEF CompareTwins

\* A vector compare has the bit of SCC in the lanes that are on and 0 in the others.
LEMMA TestTwinsAgree ==
  ASSUME NEW w \in VState, NEW v, NEW s, TestTwins(v, s)
  PROVE  \A l \in Lane : Bit(VResult(v, w).vcc, l) = IF l \in Active(w) THEN Result(s, w).scc ELSE 0
<1>1. /\ v.op = "v_cmp" /\ <<v.rel, v.type, s.op>> \in CompareTwins /\ v.d = VCC
      /\ v.a = s.a /\ v.b = s.b /\ s.a \in SRegs /\ s.b \in SRegs /\ SRegs \subseteq Shared
  BY DEF TestTwins, Shared
<1> DEFINE x == Get(w, s.a)
           y == Get(w, s.b)
           yes == {l \in Active(w) : Asks(v.rel, v.type, x, y)}
<1>2. x \in Word /\ y \in Word  BY <1>1, SharedGets, VConstants
<1>3. \A l \in Active(w) : VGet(w, l, v.a) = x /\ VGet(w, l, v.b) = y  BY <1>1, ActiveLanes, SharedGets
<1>4. VResult(v, w) = SetMask(w, VCC, OfOnes(yes))
  <2>1. VResult(v, w) = VCompare(v, w)  BY <1>1, VDoes
  <2>2. {l \in Active(w) : Asks(v.rel, v.type, VGet(w, l, v.a), VGet(w, l, v.b))} = yes  BY <1>3
  <2> QED  BY <1>1, <2>1, <2>2 DEF VCompare
<1>5. Result(s, w) = Flag(w, Asks(v.rel, v.type, x, y))  BY <1>1, <1>2, SameQuestion
<1>6. \A m : SetMask(w, VCC, m).vcc = m  BY DEF SetMask, VCC, VState
<1> TAKE l \in Lane
<1>7. l \in 0 .. W - 1  BY VConstants
<1>8. Bit(OfOnes(yes), l) = IF l \in yes THEN 1 ELSE 0
  <2> HIDE DEF yes
  <2> QED  BY <1>7, BitOfSum
<1> DEFINE q == Asks(v.rel, v.type, x, y)
<1>9. l \in yes <=> l \in Active(w) /\ q  OBVIOUS
<1>10. Result(s, w).scc = IF q THEN 1 ELSE 0
  <2>1. \A b : Flag(w, b).scc = IF b THEN 1 ELSE 0  BY DEF Flag, VState
  <2> QED  BY <1>5, <2>1
<1> HIDE DEF yes, q
<1> QED  BY <1>4, <1>6, <1>8, <1>9, <1>10

\* In a wave all twins agree.
LEMMA TypeGivesTwins == VTypeOK => TwinsAgree
<1> SUFFICES ASSUME VTypeOK, NEW t \in Twins
             PROVE  /\ t.value => \A l \in Active(wave) :
                        VGetPair(VResult(t.vector, wave), l, t.vector.d) = GetPair(Result(t.scalar, wave), t.scalar.d)
                    /\ t.flag => \A l \in Lane :
                        Bit(VResult(t.vector, wave).vcc, l) = IF l \in Active(wave) THEN Result(t.scalar, wave).scc ELSE 0
  BY DEF TwinsAgree
<1>1. wave \in VState  BY DEF VTypeOK
<1>2. CASE ValueTwins(t.vector, t.scalar) /\ ~t.flag
  BY <1>1, <1>2, ValueTwinsAgree
<1>3. CASE WideTwins(t.vector, t.scalar) /\ ~t.flag
  BY <1>1, <1>3, WideTwinsAgree
<1>4. CASE CarryTwins(t.vector, t.scalar)
  BY <1>1, <1>4, CarryTwinsAgree
<1>5. CASE TestTwins(t.vector, t.scalar) /\ ~t.value
  BY <1>1, <1>5, TestTwinsAgree
<1> QED  BY <1>2, <1>3, <1>4, <1>5, TwinsAssumption

\* A vector instruction of what all lanes share gives every active lane what
\* the scalar instruction of the same meaning gives the wave.
THEOREM TwinsCorrect == VSpec => []TwinsAgree
BY VTypeCorrect, TypeGivesTwins, PTL
=============================================================================
