----------------------------- MODULE ByteMemory -----------------------------
(***************************************************************************)
(* What the emulator's global memory promises: "the ARCHITECTURAL,         *)
(* byte-addressed memory" of Core._mem_byte.  Every address holds one      *)
(* byte; a load returns the bytes it covers, widened to whole registers; a *)
(* store changes exactly the bytes it covers; a compare-and-swap is one    *)
(* step.  GlobalMemory implements it with a dictionary of mixed keys.      *)
(***************************************************************************)
EXTENDS Naturals

CONSTANTS Size,          \* addresses are 0 .. Size-1 and wrap (2^64 in the code)
          DwordBytes,    \* bytes of a dword, and of a register
          Byte, Zero, Ones, Negative,  \* bytes; 0x00, 0xFF, those >= 0x80
          Loads, Stores  \* the accesses <<address, width>> of the program

VARIABLES bytes,   \* the content of every address
          access   \* the access made last, with the data it moved

vars == <<bytes, access>>

Addr == 0 .. (Size - 1)
At(a, j) == IF a + j < Size THEN a + j ELSE (a + j) - Size
Data(n) == [0 .. (n - 1) -> Byte]

Content(m, a, n) == [j \in 0 .. (n - 1) |-> m[At(a, j)]]

Overlay(m, a, data, n) ==
    [x \in Addr |-> IF x \in a .. (a + n - 1) THEN data[x - a] ELSE m[x]]

(* A value narrower than a register fills it with zeros or with its sign.  *)
Widen(data, n, signed) ==
    [j \in 0 .. ((IF n < DwordBytes THEN DwordBytes ELSE n) - 1) |->
        IF j < n THEN data[j]
        ELSE IF signed /\ data[n - 1] \in Negative THEN Ones ELSE Zero]

Init == /\ bytes \in [Addr -> Byte]
        /\ access = [kind |-> "none", addr |-> 0, n |-> 0, data |-> <<>>]

Load(a, n, signed) ==
    /\ \E kind \in {"load", "sload"} :
          access' = [kind |-> kind, addr |-> a, n |-> n,
                     data |-> Widen(Content(bytes, a, n), n, signed)]
    /\ UNCHANGED bytes

Store(a, n) ==
    \E data \in Data(n) :
        /\ bytes' = Overlay(bytes, a, data, n)
        /\ access' = [kind |-> "store", addr |-> a, n |-> n, data |-> data]

CompareAndSwap(a) ==
    LET old == Content(bytes, a, DwordBytes) IN
    \E cmp, new \in Data(DwordBytes) :
        /\ bytes' = IF old = cmp THEN Overlay(bytes, a, new, DwordBytes) ELSE bytes
        /\ access' = [kind |-> "cas", addr |-> a, n |-> DwordBytes, data |-> old]

Next == \/ \E l \in Loads, signed \in BOOLEAN : Load(l[1], l[2], signed)
        \/ \E s \in Stores : Store(s[1], s[2])
        \/ \E s \in Stores : s[2] = DwordBytes /\ CompareAndSwap(s[1])

Spec == Init /\ [][Next]_vars
=============================================================================
