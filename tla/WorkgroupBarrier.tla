-------------------------- MODULE WorkgroupBarrier --------------------------
(***************************************************************************)
(* What one workgroup barrier promises to the waves of a workgroup, with   *)
(* no program, no scheduler and no step budget.                            *)
(*                                                                         *)
(* The header of src/emulator/wg_emu.py states it: every wave that reaches *)
(* the barrier parks, the barrier completes only when every wave that is   *)
(* still part of the workgroup has parked, a wave that is gone no longer   *)
(* counts, and all the waves of one completion have parked at one site.    *)
(*                                                                         *)
(* WorkgroupDriver implements this module; see BarrierContract there.      *)
(***************************************************************************)
EXTENDS Integers

CONSTANTS
  Wave,   \* the waves of the workgroup
  Site    \* the places where a wave can park: positive numbers

VARIABLES
  passed,   \* passed[w]: how many barriers wave w has been released from
  at        \* at[w]: the site wave w is parked at, or Inside, or Gone

vars == <<passed, at>>

Inside == 0    \* running between two barriers
Gone   == -1   \* ended or faulted: no longer a participant

Present == {w \in Wave : at[w] # Gone}

Init ==
  /\ passed = [w \in Wave |-> 0]
  /\ at = [w \in Wave |-> Inside]

\* Wave w reaches the barrier at site s and parks.
Arrive(w, s) ==
  /\ at[w] = Inside
  /\ at' = [at EXCEPT ![w] = s]
  /\ UNCHANGED passed

\* Wave w ends or faults between two barriers.
Leave(w) ==
  /\ at[w] = Inside
  /\ at' = [at EXCEPT ![w] = Gone]
  /\ UNCHANGED passed

\* Every wave still present is parked at s: all of them go on together.
Complete(s) ==
  /\ Present # {}
  /\ \A w \in Present : at[w] = s
  /\ at' = [w \in Wave |-> IF w \in Present THEN Inside ELSE Gone]
  /\ passed' = [w \in Wave |-> IF w \in Present THEN passed[w] + 1 ELSE passed[w]]

Next ==
  \/ \E w \in Wave : Leave(w)
  \/ \E w \in Wave, s \in Site : Arrive(w, s)
  \/ \E s \in Site : Complete(s)

Spec == Init /\ [][Next]_vars

-----------------------------------------------------------------------------

(***************************************************************************)
(* The reason to have a barrier: two waves that are both still running     *)
(* have passed the same number of barriers, so what one wrote to LDS       *)
(* before barrier k is there when another runs after barrier k.            *)
(***************************************************************************)
Rendezvous == \A v, w \in Present : passed[v] = passed[w]

=============================================================================
