----------------------------- MODULE CycleDetect ------------------------------
(***************************************************************************)
(* emu.Core.step as a whole: a step of ExecMask, and before every 256th    *)
(* the search for a cycle.  A wave that is again where it has been, with   *)
(* the same masks and scalar registers, is compared with what its vector   *)
(* registers and the memory were there at the last visit; if they are the  *)
(* same too it can only go on as it did, and the step halts it.            *)
(*                                                                         *)
(* The search sees the registers and the global memory, not the LDS (of    *)
(* which ExecMask has none), and every 256th state only: a wave that comes *)
(* to one control state with two contents in turn is never found, and the  *)
(* tools that use the search have a limit of steps beside it.  The         *)
(* workgroup drivers turn the search off (_NoKeys).                        *)
(***************************************************************************)
EXTENDS ExecMask

CONSTANT Period   \* 256 steps

ASSUME PeriodAssumption == Period \in Nat \ {0}

VARIABLES tick,  \* steps since the last search
          seen   \* _cyckeys, _cyckeys_full: the last content at a control state

cvars == <<vars, tick, seen>>

CInit == Init /\ tick = 0 /\ seen = <<>>

\* The key: pc, EXEC, VCC and the SGPRs.
Control == <<pc, mask>>

\* A pc behind the code is found before the step is counted.
Searching == Running /\ pc <= Len(Code) /\ tick = Period - 1

\* Mutant: the control state alone.
MutRepeated == Control \in DOMAIN seen

\* The control state was there before, and with it _v_signature.
Repeated == Control \in DOMAIN seen /\ seen[Control] = v

\* Mutant: the content of a first visit, which only the drivers' _NoKeys may do
\* without, is left out, and no other visit adds it.
MutRemember == UNCHANGED seen

\* The content of the last visit, the first one included.
Remember ==
  IF Searching
    THEN seen' = [c \in DOMAIN seen \cup {Control} |-> IF c = Control THEN v ELSE seen[c]]
    ELSE UNCHANGED seen

\* Halt("CYCLE") comes before the instruction.
CycleFound ==
  /\ Searching /\ Repeated
  /\ halted' = "CYCLE"
  /\ tick' = 0
  /\ UNCHANGED <<kernel, start, pc, mask, v, ran, seen>>

CountedStep ==
  /\ ~(Searching /\ Repeated)
  /\ Step
  /\ tick' = IF pc <= Len(Code) THEN (tick + 1) % Period ELSE tick
  /\ Remember

CStep == CycleFound \/ CountedStep

CNext == CStep \/ (Halted /\ UNCHANGED <<tick, seen>>)

CSpec == CInit /\ [][CNext]_cvars

\* The wave is stepped until it halts.
CFairSpec == CSpec /\ WF_cvars(CStep)
=============================================================================
