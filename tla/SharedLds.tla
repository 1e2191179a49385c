----------------------------- MODULE SharedLds ------------------------------
(***************************************************************************)
(* What the hardware-faithful LDS model of p14eh promises: a workgroup     *)
(* shares one byte memory with an allocation limit.  An instruction makes  *)
(* a set of accesses, one or two by active lane.  A load inside the limit  *)
(* returns the bytes it covers and any other returns zeros; a store inside *)
(* the limit writes the bytes it covers and any other is discarded.  Of    *)
(* overlapping stores of one instruction the last lane's wins, and of one  *)
(* lane's two the second.                                                  *)
(***************************************************************************)
EXTENDS Naturals

CONSTANTS Addr,   \* the byte addresses of the LDS image
          Byte,   \* the values of a byte
          Zero    \* the byte the image is filled with

VARIABLES lds,    \* the content of the image
          limit,  \* accesses end at or below it
          kind,   \* of the instruction made last: none, load, store, gather
          accs    \* its accesses [lane, slot, ea, w, ok, data]

vars == <<lds, limit, kind, accs>>

Covers(x, a) == a \in x.ea .. (x.ea + x.w - 1)
Inside(x) == x.ea + x.w <= limit
Before(y, x) == y.lane < x.lane \/ (y.lane = x.lane /\ y.slot <= x.slot)
Wins(x, W) == \A y \in W : Before(y, x)

Init == /\ lds = [a \in Addr |-> Zero]
        /\ limit \in Nat
        /\ kind = "none" /\ accs = {}

Load == /\ kind' = "load"
        /\ \A x \in accs' :
              x.data = [k \in 0 .. (x.w - 1) |-> IF Inside(x) THEN lds[x.ea + k] ELSE Zero]
        /\ UNCHANGED <<lds, limit>>

Store == /\ kind' = "store"
         /\ lds' \in [Addr -> Byte]
         /\ \A a \in Addr :
               LET W == {x \in accs' : Inside(x) /\ Covers(x, a)} IN
               IF W = {} THEN lds'[a] = lds[a]
               ELSE \E x \in W : Wins(x, W) /\ lds'[a] = x.data[a - x.ea]
         /\ UNCHANGED limit

Gather == /\ kind' = "gather" /\ accs' = {}
          /\ UNCHANGED <<lds, limit>>

Next == Load \/ Store \/ Gather

Spec == Init /\ [][Next]_vars
=============================================================================
