---------------------------- MODULE GlobalMemory ----------------------------
(***************************************************************************)
(* The emulator's global memory: a dictionary in which the harness puts    *)
(* whole dwords (kernarg, dispatch packet) or single bytes (the module     *)
(* image), in which every store puts single bytes, and which PatternMem    *)
(* backs with a synthesised pattern inside the declared buffers.  One      *)
(* reader, Core._mem_byte, makes bytes out of all three.                   *)
(*                                                                         *)
(* An action is what one active lane of one instruction does: the turn of  *)
(* the "for lane in range(lanes)" loop of _gld, _gst and cmpswap, with the *)
(* effective address and the data its registers happen to hold.            *)
(***************************************************************************)
EXTENDS Naturals, FiniteSets, Bytes

CONSTANTS Size, DwordBytes, Ones, Negative,
          Images,   \* the dictionaries the harness primes: key -> dword
          Synth,    \* addresses inside a declared pattern region
          Pattern,  \* the byte synthesised at each of them
          Loads, ScalarLoads, Stores,  \* accesses <<address, width>>
          CasWords  \* dwords a compare-and-swap finds in its data registers

VARIABLES mem,      \* the dictionary; a value is the sequence of its bytes
          access,   \* the access made last, with the data it moved
          operands  \* the registers of the access, if a compare-and-swap

vars == <<mem, access, operands>>

ASSUME GeometryAssumption == /\ DwordBytes \in {2, 4}
                             /\ Size \in Nat /\ Size >= DwordBytes
                             /\ Size % DwordBytes = 0
ASSUME ByteAssumption == /\ Zero \in Byte /\ Ones \in Byte
                         /\ Negative \subseteq Byte

Keys == 0 .. (Size - 1)
Base(a) == a - (a % DwordBytes)
WordOf(a) == Base(a) .. (Base(a) + DwordBytes - 1)
Dword == [0 .. (DwordBytes - 1) -> Byte]

ASSUME PatternAssumption == Synth \subseteq Keys /\ Pattern \in [Synth -> Byte]
ASSUME AccessAssumption ==
    /\ \A l \in Loads \cup ScalarLoads : l[1] \in Keys /\ l[2] \in 1 .. Size
    /\ \A s \in Stores :
          s[1] \in Keys /\ s[2] \in 1 .. Size /\ s[1] + s[2] <= Size
    /\ CasWords \subseteq Dword

(* A dictionary maps some keys to a dword.  A byte put under a key is the  *)
(* dword whose other bytes are zero: the dictionary cannot tell them apart.*)
ByteKey(b) == [j \in 0 .. (DwordBytes - 1) |-> IF j = 0 THEN b ELSE Zero]
ASSUME ImageAssumption ==
    \A m \in Images : DOMAIN m \subseteq Keys /\ \A k \in DOMAIN m : m[k] \in Dword

SynthByte(a) == IF a \in Synth THEN Pattern[a] ELSE Zero

(* Mutant: a dword key outranks the byte key of the address itself.        *)
MutReadDwordFirst(m, a) ==
    IF Base(a) \in DOMAIN m THEN m[Base(a)][a % DwordBytes]
    ELSE IF a \in DOMAIN m THEN m[a][0]
    ELSE SynthByte(a)

(* Core._mem_byte: the key itself, else the dword key below it, else the   *)
(* pattern, else zero.                                                     *)
ReadByte(m, a) ==
    IF a \in DOMAIN m THEN m[a][0]
    ELSE IF Base(a) \in DOMAIN m THEN m[Base(a)][a % DwordBytes]
    ELSE SynthByte(a)

(* What a reader sees at every address.                                    *)
View == [a \in Keys |-> ReadByte(mem, a)]

Arch == INSTANCE ByteMemory WITH bytes <- View, Loads <- Loads \cup ScalarLoads

NoOperands == [vdst |-> 0, vaddr |-> 0, first |-> ByteKey(Zero), second |-> ByteKey(Zero)]

(* self.mem[addr + 4*j + k] = byte, for every byte of the store.           *)
Put(m, a, data, n) ==
    [k \in DOMAIN m \cup (a .. (a + n - 1)) |->
        IF k \in a .. (a + n - 1) THEN ByteKey(data[k - a]) ELSE m[k]]

Init == /\ mem \in Images
        /\ access = [kind |-> "none", addr |-> 0, n |-> 0, data |-> <<>>]
        /\ operands = NoOperands

(* _gld: byte by byte through the reader, then widened to registers.       *)
VectorLoad(a, n, signed) ==
    /\ access' = [kind |-> "load", addr |-> a, n |-> n,
                  data |-> Arch!Widen(Arch!Content(View, a, n), n, signed)]
    /\ operands' = NoOperands
    /\ UNCHANGED mem

(* _sload: whole dwords through _read_u32.                                 *)
ScalarLoad(a, n) ==
    /\ access' = [kind |-> "sload", addr |-> a, n |-> n,
                  data |-> Arch!Widen(Arch!Content(View, a, n), n, FALSE)]
    /\ operands' = NoOperands
    /\ UNCHANGED mem

(* _gst: one byte key for every byte.                                      *)
VectorStore(a, n, data) ==
    /\ mem' = Put(mem, a, data, n)
    /\ access' = [kind |-> "store", addr |-> a, n |-> n, data |-> data]
    /\ operands' = NoOperands

(* op_global_atomic_cmpswap: the address comes from its first operand, the *)
(* value compared from the first data register, the new one from the       *)
(* second.                                                                 *)
CompareAndSwap(vdst, vaddr, first, second) ==
    LET old == Arch!Content(View, vdst, DwordBytes) IN
    /\ mem' = IF old = first THEN Put(mem, vdst, second, DwordBytes) ELSE mem
    /\ access' = [kind |-> "cas", addr |-> vdst, n |-> DwordBytes, data |-> old]
    /\ operands' = [vdst |-> vdst, vaddr |-> vaddr, first |-> first, second |-> second]

Load == \E l \in Loads, signed \in BOOLEAN : VectorLoad(l[1], l[2], signed)
Sload == \E l \in ScalarLoads : ScalarLoad(l[1], l[2])
Store == \E s \in Stores : \E data \in Arch!Data(s[2]) : VectorStore(s[1], s[2], data)
Swap == \E d, v \in {s \in Stores : s[2] = DwordBytes} :
            \E first, second \in CasWords : CompareAndSwap(d[1], v[1], first, second)

Next == Load \/ Sload \/ Store \/ Swap

Spec == Init /\ [][Next]_vars

-----------------------------------------------------------------------------
(* A word of which the dictionary can only ever hold bytes: no dword key   *)
(* was primed at its base and no pattern shows through it.                 *)
Plain(m, a) == /\ WordOf(a) \cap Synth = {}
               /\ Base(a) \in DOMAIN m => m[Base(a)] \in {ByteKey(b) : b \in Byte}

(* A store the dictionary can represent: every word it touches is either   *)
(* written as a whole or plain.                                            *)
Representable(m, s) ==
    \A a \in s[1] .. (s[1] + s[2] - 1) :
        WordOf(a) \subseteq s[1] .. (s[1] + s[2] - 1) \/ Plain(m, a)

StoresRepresentable == \A m \in Images, s \in Stores : Representable(m, s)

-----------------------------------------------------------------------------
(* The dictionary holds dwords under addresses, and the reader finds a     *)
(* byte at every address.                                                  *)
TypeOK == /\ DOMAIN mem \subseteq Keys
          /\ \A k \in DOMAIN mem : mem[k] \in Dword
          /\ View \in [Keys -> Byte]

(* _mem_byte makes the dictionary a byte-addressed memory: every load      *)
(* returns and every store leaves exactly the bytes that memory would      *)
(* hold, as long as the program's stores are representable.                *)
ImplementsByteMemory == Arch!Spec

(* PatternMem: "Writes go to the real dict and therefore shadow the        *)
(* pattern, which is what a store should do": a store changes what is read *)
(* at the addresses it covers and nowhere else.                            *)
StoreTouchesItsBytesOnly ==
    [][access'.kind = "store" =>
         \A a \in Keys \ (access'.addr .. (access'.addr + access'.n - 1)) :
            View'[a] = View[a]]_vars

(* The docstring of the compare-and-swap, "global_atomic_cmpswap vdst,     *)
(* vaddr, v[data:c]": the dword at vaddr is compared with the second data  *)
(* register and replaced by the first.                                     *)
SwapAsDocumented ==
    [][access'.kind = "cas" =>
         LET o == operands'
             old == Arch!Content(View, o.vaddr, DwordBytes)
         IN  View' = IF old = o.second THEN Arch!Overlay(View, o.vaddr, o.first, DwordBytes)
                     ELSE View]_vars
=============================================================================
