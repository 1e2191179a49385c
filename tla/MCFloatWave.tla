---------------------------- MODULE MCFloatWave -----------------------------
(***************************************************************************)
(* Singles of ten bits, every one a state, and halves of four.  The other  *)
(* operands: both zeros, infinities and NaNs, the ends of the subnormals   *)
(* and of the normal numbers, one and its neighbours, and a few between.   *)
(***************************************************************************)
EXTENDS FloatWave

One == Pack(Single, 0, Bias(Single), 0)
Minus(p) == Pack(Single, 1, 0, p)
MCSamples ==
  {0, 1, 2 ^ FS - 1, One, One + 1, One + 2 ^ (FS - 1), Inf(Single, 0) - 1, Inf(Single, 0), QNaN(Single)} \cup
  {Minus(0), Minus(One - 1), Minus(2 ^ FS), Minus(Inf(Single, 0) - 1), Minus(Inf(Single, 0)), Minus(Inf(Single, 0) + 1)}
=============================================================================
