----------------------------- MODULE MCLdsAccess ----------------------------
(* Instances of LdsAccess: bytes of two bits and registers of two bytes,   *)
(* so that 2^32 is 16; an image of eight bytes whose legacy partition is   *)
(* the lower half; two waves of two lanes over it.                         *)
EXTENDS LdsAccess

MCByte == 0 .. 3
MCCores == {0, 1}
MCNum == [word \in [0 .. 1 -> 0 .. 3] |-> word[0] + 4 * word[1]]
W(n) == [b \in 0 .. 1 |-> IF b = 0 THEN n % 4 ELSE n \div 4]

Model(sem, alloc) == [sem |-> sem, alloc |-> alloc]
MCModels == {Model("legacy", 4), Model("legacy", 8), Model("u32", 3),
             Model("u32", 8), Model("trunc16", 4)}

(* Register 0 holds addresses: low, near the end of the image, and so high *)
(* that an offset wraps it.                                                *)
MCFiles == {[w \in {0, 1} |-> [l \in 0 .. 1 |-> [q \in 0 .. 4 |->
              W(IF q = 0 THEN (IF w = 0 THEN 2 * l ELSE 15 - 8 * l)
                ELSE (5 * w + 6 * l + 3 * q) % 16)]]]}

Ins(op, addr, data, n, width, offs) ==
    [op |-> op, addr |-> addr, from |-> 2, data |-> data, n |-> n, w |-> width, offs |-> offs]
Single == {Ins("load", 0, 1, 1, 2, <<1>>), Ins("load", 1, 0, 1, 1, <<0>>),
           Ins("load", 0, 1, 2, 4, <<0>>), Ins("load_d16_hi", 0, 1, 1, 1, <<1>>),
           Ins("store", 0, 1, 1, 2, <<0>>), Ins("store", 1, 0, 1, 1, <<3>>),
           Ins("store", 0, 1, 2, 4, <<0>>)}
Pair == {Ins("load2_b64", 0, 1, 4, 4, <<0, 1>>), Ins("store2_b64", 0, 1, 4, 4, <<1, 0>>),
         Ins("load2_b32", 0, 1, 2, 2, <<0, 1>>), Ins("store2_b32", 0, 2, 2, 2, <<1, 0>>)}
Gather == {Ins("bpermute", 0, 2, 1, 2, <<0>>)}
MCInstrs == Single \cup Pair \cup Gather
(* Pairs of stride 64: offsets one and two are 64 and 128 registers away.  *)
Far == {Ins("load2st64_b32", 0, 1, 2, 4, <<0, 1>>), Ins("store2st64_b32", 0, 1, 2, 4, <<0, 1>>)}
(* A load of a pair into the register of its own address.                  *)
Overlapping == {Ins("store", 0, 1, 2, 4, <<0>>), Ins("load2_b64", 0, 0, 4, 4, <<0, 1>>)}
=============================================================================
