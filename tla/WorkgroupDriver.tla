--------------------------- MODULE WorkgroupDriver ---------------------------
(***************************************************************************)
(* The loop that runs all the waves of one workgroup on a shared LDS:      *)
(* run_workgroup of src/emulator/wg_emu.py (Variant = "legacy") and        *)
(* _run_wg_hw of src/emulator/p14eh.py (Variant = "hw"), which is a copy   *)
(* of it with explicit verdicts.  The two differ only in the verdict.      *)
(*                                                                         *)
(* One iteration of the while loop is a round.  turn is the position in    *)
(* it: LoopHead (about to count the round), a wave (about to look at it),  *)
(* LoopTail (after the for loop: verdict or barrier check).                *)
(*                                                                         *)
(* A program is a sequence of instructions.  What an instruction computes  *)
(* is abstracted to what the driver can observe of core.step():            *)
(*   alu      goes on to the next instruction                              *)
(*   branch   goes to to, or on, as the data say                           *)
(*   trap     goes on, or raises Halt / NotImpl / any exception            *)
(*   endpgm   raises Halt("END")                                           *)
(*   barrier  s_barrier: parked by the driver, a no-op when stepped        *)
(*   gws      an instruction whose mnemonic contains "barrier" and which   *)
(*            has no op_ handler (ds_gws_barrier): parked by the driver,   *)
(*            raises NotImpl when stepped                                  *)
(* Every instruction, one that raises included, has moved pc before its    *)
(* handler runs (emu.Core.step).  pc is 1-based here; the address of an    *)
(* instruction, which the code uses as the barrier's site, is its index.   *)
(***************************************************************************)
EXTENDS Integers, Sequences

CONSTANTS
  NWaves,      \* wave_count
  StepCap,     \* per_wave_step_cap
  RoundCap,    \* round_cap
  Programs,    \* the programs a run may start with
  Variant      \* "legacy" or "hw"

Op == {"alu", "branch", "trap", "endpgm", "barrier", "gws"}
Instr == [op : Op, to : Nat \ {0}]

ASSUME CapsAssumption == NWaves \in Nat /\ StepCap \in Nat /\ RoundCap \in Nat
ASSUME ProgramsAssumption == Programs \subseteq Seq(Instr)
ASSUME VariantAssumption == Variant \in {"legacy", "hw"}

VARIABLES
  prog,       \* the program, the same for every wave; never written
  pc,         \* core.pc of each wave
  state,      \* RUNNABLE, WAITING, ENDED or FAULTED
  fault,      \* what the wave's "fault" field says
  steps,      \* steps_done
  barSites,   \* bar_sites; n_bar is its length
  epochs,     \* barrier_epochs, reduced to the sites
  ticks,      \* rounds begun
  turn,       \* the wave whose turn it is, or Tail, or Head
  anyActive,  \* any_active
  outcome     \* outcome[0], "NONE" until the loop breaks

vars == <<prog, pc, state, fault, steps, barSites, epochs, ticks, turn,
          anyActive, outcome>>

Wave == 0 .. NWaves - 1
LoopTail == NWaves
LoopHead == NWaves + 1

\* Mutant: a faulted wave still counts as a participant.
MutDeadEndedOnly(w) == state[w] = "ENDED"

Dead(w)    == state[w] \in {"ENDED", "FAULTED"}

Alive      == {w \in Wave : ~Dead(w)}
Here(w)    == prog[pc[w]]
Overrun(w) == pc[w] > Len(prog)
NBar(w)    == Len(barSites[w])
LastSite(w) == barSites[w][NBar(w)]

\* The driver's test for a barrier: "barrier" in ins["mnemonic"].
AtBarrier(w) == ~Overrun(w) /\ Here(w).op \in {"barrier", "gws"}

Init ==
  /\ prog \in Programs
  /\ pc = [w \in Wave |-> 1]
  /\ state = [w \in Wave |-> "RUNNABLE"]
  /\ fault = [w \in Wave |-> "none"]
  /\ steps = [w \in Wave |-> 0]
  /\ barSites = [w \in Wave |-> <<>>]
  /\ epochs = <<>>
  /\ ticks = 0
  /\ turn = LoopHead
  /\ anyActive = FALSE
  /\ outcome = "NONE"

-----------------------------------------------------------------------------
(* The head of the loop.                                                   *)

BeginRound ==
  /\ outcome = "NONE" /\ turn = LoopHead
  /\ ticks' = ticks + 1
  /\ IF ticks' > RoundCap
       THEN outcome' = "ROUNDCAP" /\ UNCHANGED <<turn, anyActive>>
       ELSE turn' = 0 /\ anyActive' = FALSE /\ UNCHANGED outcome
  /\ UNCHANGED <<prog, pc, state, fault, steps, barSites, epochs>>

-----------------------------------------------------------------------------
(* The for loop: the turn of wave w.                                       *)

\* It is w's turn; whatever w does, the loop goes on to the next wave, and
\* a wave that is neither ended nor faulted makes the round an active one.
TakeTurn(w) ==
  /\ outcome = "NONE" /\ turn = w
  /\ turn' = w + 1
  /\ anyActive' = (anyActive \/ ~Dead(w))
  /\ UNCHANGED <<prog, epochs, ticks, outcome>>

Skip(w) ==
  /\ state[w] # "RUNNABLE"
  /\ TakeTurn(w)
  /\ UNCHANGED <<pc, state, fault, steps, barSites>>

FaultOverrun(w) ==
  /\ state[w] = "RUNNABLE" /\ Overrun(w)
  /\ TakeTurn(w)
  /\ state' = [state EXCEPT ![w] = "FAULTED"]
  /\ fault' = [fault EXCEPT ![w] = "PCOVERRUN"]
  /\ UNCHANGED <<pc, steps, barSites>>

Park(w) ==
  /\ state[w] = "RUNNABLE" /\ AtBarrier(w)
  /\ TakeTurn(w)
  /\ state' = [state EXCEPT ![w] = "WAITING"]
  /\ barSites' = [barSites EXCEPT ![w] = Append(@, pc[w])]
  /\ UNCHANGED <<pc, fault, steps>>

\* Where a step that raises nothing leaves pc.
NextPCs(w) ==
  IF Here(w).op = "branch" THEN {pc[w] + 1, Here(w).to} ELSE {pc[w] + 1}

\* The check after the try block: it overwrites whatever the step decided.
CheckCap(w, st, f) ==
  IF steps'[w] > StepCap
    THEN /\ state' = [state EXCEPT ![w] = "FAULTED"]
         /\ fault' = [fault EXCEPT ![w] = "STEPCAP"]
    ELSE /\ state' = [state EXCEPT ![w] = st]
         /\ fault' = [fault EXCEPT ![w] = f]

Step(w) ==
  /\ state[w] = "RUNNABLE" /\ ~Overrun(w)
  /\ Here(w).op \in {"alu", "branch", "trap"}
  /\ TakeTurn(w)
  /\ \E p \in NextPCs(w) : pc' = [pc EXCEPT ![w] = p]
  /\ steps' = [steps EXCEPT ![w] = @ + 1]
  /\ CheckCap(w, "RUNNABLE", fault[w])
  /\ UNCHANGED barSites

\* steps_done counts only a step that returned: s_endpgm raises.
EndProgram(w) ==
  /\ state[w] = "RUNNABLE" /\ ~Overrun(w)
  /\ Here(w).op = "endpgm"
  /\ TakeTurn(w)
  /\ pc' = [pc EXCEPT ![w] = @ + 1]
  /\ steps' = steps
  /\ CheckCap(w, "ENDED", fault[w])
  /\ UNCHANGED barSites

FaultStep(w) ==
  /\ state[w] = "RUNNABLE" /\ ~Overrun(w)
  /\ Here(w).op = "trap"
  /\ TakeTurn(w)
  /\ pc' = [pc EXCEPT ![w] = @ + 1]
  /\ steps' = steps
  /\ CheckCap(w, "FAULTED", "RAISED")
  /\ UNCHANGED barSites

Turn(w) ==
  \/ Skip(w) \/ FaultOverrun(w) \/ Park(w)
  \/ Step(w) \/ EndProgram(w) \/ FaultStep(w)

-----------------------------------------------------------------------------
(* The tail of the loop: a verdict, a barrier, or another round.           *)

\* Mutant: the fail-open verdict the hw driver replaced.
MutVerdictAlwaysEnded == "ALL_ENDED"

\* The verdict when no wave was active: the legacy driver has only one.
Verdict ==
  CASE Variant = "legacy"                        -> "ALL_ENDED"
    [] Variant = "hw" /\ NWaves = 0              -> "ERROR"
    [] Variant = "hw" /\ NWaves > 0 /\ \E w \in Wave : state[w] = "FAULTED"
                                                 -> "FAULTED"
    [] Variant = "hw" /\ NWaves > 0 /\ \A w \in Wave : state[w] = "ENDED"
                                                 -> "ALL_ENDED"
    [] OTHER                                     -> "DEADLOCK"

Conclude ==
  /\ outcome = "NONE" /\ turn = LoopTail
  /\ ~anyActive
  /\ outcome' = Verdict
  /\ UNCHANGED <<prog, pc, state, fault, steps, barSites, epochs, ticks, turn,
                 anyActive>>

\* if alive and all(w["state"] == "WAITING" for w in alive)
AllParked == Alive # {} /\ \A w \in Alive : state[w] = "WAITING"

\* Mutant: the sites of one epoch are not compared.
MutSitesNotCompared == TRUE

OneSite == \A v, w \in Alive : LastSite(v) = LastSite(w)

Diverge ==
  /\ outcome = "NONE" /\ turn = LoopTail
  /\ anyActive /\ AllParked /\ ~OneSite
  /\ outcome' = IF Variant = "hw" THEN "DEADLOCK" ELSE "BARRIER_SEQUENCE_DIVERGENCE"
  /\ UNCHANGED <<prog, pc, state, fault, steps, barSites, epochs, ticks, turn,
                 anyActive>>

\* Releasing a wave steps its barrier instruction.  One that raises gets a
\* RELEASE-EXC fault and is not counted, and is set RUNNABLE all the same.
ReleaseRaises(w) == w \in Alive /\ Here(w).op = "gws"

Release ==
  /\ outcome = "NONE" /\ turn = LoopTail
  /\ anyActive /\ AllParked /\ OneSite
  /\ epochs' = Append(epochs, LastSite(CHOOSE w \in Alive : TRUE))
  /\ pc' = [w \in Wave |-> IF w \in Alive THEN pc[w] + 1 ELSE pc[w]]
  /\ steps' = [w \in Wave |->
                 IF w \in Alive /\ ~ReleaseRaises(w) THEN steps[w] + 1 ELSE steps[w]]
  /\ fault' = [w \in Wave |-> IF ReleaseRaises(w) THEN "RELEASE-EXC" ELSE fault[w]]
  /\ state' = [w \in Wave |-> IF w \in Alive THEN "RUNNABLE" ELSE state[w]]
  /\ turn' = LoopHead
  /\ UNCHANGED <<prog, barSites, ticks, anyActive, outcome>>

\* Somebody is still running, or the last one stopped in this very round.
NextRound ==
  /\ outcome = "NONE" /\ turn = LoopTail
  /\ anyActive /\ ~AllParked
  /\ turn' = LoopHead
  /\ UNCHANGED <<prog, pc, state, fault, steps, barSites, epochs, ticks,
                 anyActive, outcome>>

-----------------------------------------------------------------------------

\* The driver has returned.
Terminating == outcome # "NONE" /\ UNCHANGED vars

Next ==
  \/ BeginRound
  \/ \E w \in Wave : Turn(w)
  \/ Conclude \/ Diverge \/ Release \/ NextRound
  \/ Terminating

Spec == Init /\ [][Next]_vars

\* The loop runs in one thread and every iteration ends: the scheduling is
\* the program's own, so each next step is eventually taken.
FairSpec == Spec /\ WF_vars(Next)

-----------------------------------------------------------------------------
(* Properties.                                                             *)

\* Every variable stays in its range.
TypeOK ==
  /\ prog \in Programs
  /\ pc \in [Wave -> Nat \ {0}]
  /\ state \in [Wave -> {"RUNNABLE", "WAITING", "ENDED", "FAULTED"}]
  /\ fault \in [Wave -> {"none", "PCOVERRUN", "STEPCAP", "RAISED", "RELEASE-EXC"}]
  /\ steps \in [Wave -> Nat]
  /\ barSites \in [Wave -> Seq(Nat \ {0})]
  /\ epochs \in Seq(Nat \ {0})
  /\ ticks \in Nat
  /\ turn \in 0 .. NWaves + 1
  /\ anyActive \in BOOLEAN
  /\ outcome \in {"NONE", "ROUNDCAP", "ALL_ENDED", "ERROR", "FAULTED", "DEADLOCK",
                  "BARRIER_SEQUENCE_DIVERGENCE"}

(***************************************************************************)
(* The waves agree on the barriers behind them: a running wave has parked  *)
(* at exactly the completed sites, in order; a parked one at these and     *)
(* then where it is; a dead one at the first few of them.  It relates the  *)
(* per-wave bar_sites lists to the workgroup's barrier_epochs, which the   *)
(* driver keeps separately and reports side by side.                       *)
(***************************************************************************)
SiteHistory ==
  \A w \in Wave :
    /\ state[w] = "RUNNABLE" => barSites[w] = epochs
    /\ state[w] = "WAITING" => AtBarrier(w) /\ barSites[w] = Append(epochs, pc[w])
    /\ Dead(w) => /\ NBar(w) <= Len(epochs)
                  /\ barSites[w] = SubSeq(epochs, 1, NBar(w))

(***************************************************************************)
(* The step budget.  A release counts a step and does not look at          *)
(* per_wave_step_cap, so a wave may exceed it; but only by the barriers it *)
(* has just crossed without any other instruction between them.            *)
(***************************************************************************)
StepBudget ==
  \A w \in Alive :
    \E k \in 0 .. pc[w] - 1 :
      /\ steps[w] <= StepCap + k
      /\ \A j \in pc[w] - k .. pc[w] - 1 :
            j <= Len(prog) /\ prog[j].op \in {"barrier", "gws"}

(***************************************************************************)
(* What the hw driver's verdict says about the waves: ALL_ENDED when every *)
(* wave has ended, FAULTED when none is left and one has faulted, DEADLOCK *)
(* when two waves wait at different sites for the same epoch - never by    *)
(* the last branch of the chain, which names a mixture of other states.    *)
(***************************************************************************)
VerdictSound ==
  Variant = "hw" =>
    /\ outcome = "ALL_ENDED" => NWaves > 0 /\ \A w \in Wave : state[w] = "ENDED"
    /\ outcome = "FAULTED" => Alive = {} /\ \E w \in Wave : state[w] = "FAULTED"
    /\ outcome = "DEADLOCK" =>
         \E v, w \in Alive : /\ NBar(v) = Len(epochs) + 1 /\ NBar(w) = Len(epochs) + 1
                             /\ LastSite(v) # LastSite(w)
    /\ outcome = "ERROR" => Wave = {}

(***************************************************************************)
(* The step caps alone end every run: whatever the program does, a         *)
(* round_cap above NWaves * (StepCap + 2) * (Len(prog) + 2) is never       *)
(* reached.  In particular no wave waits for one that is gone.             *)
(***************************************************************************)
RoundCapNotNeeded ==
  RoundCap > NWaves * (StepCap + 2) * (Len(prog) + 2) => outcome # "ROUNDCAP"

\* The abstract barrier this loop implements: a wave's released barriers
\* are the sites it parked at, less the one it is parked at now.
Barrier == INSTANCE WorkgroupBarrier WITH
  Wave <- Wave,
  Site <- UNION {DOMAIN p : p \in Programs},
  passed <- [w \in Wave |-> IF state[w] = "WAITING" THEN NBar(w) - 1 ELSE NBar(w)],
  at <- [w \in Wave |-> CASE state[w] = "RUNNABLE" -> 0
                          [] state[w] = "WAITING"  -> pc[w]
                          [] OTHER                 -> -1]

\* Every step of the loop is a step of the abstract barrier, or none.
BarrierContract == Barrier!Spec

\* Two waves still in the workgroup have crossed the same number of
\* barriers (Rendezvous of the abstract barrier, under the mapping): what
\* one wrote to the shared LDS before a barrier is there for the other
\* after it, whatever turns the scheduler gave them.
WavesMeet == Barrier!Rendezvous

(***************************************************************************)
(* What the comment on the verdict in _run_wg_hw asks for (p14eh.py:       *)
(* "Success requires every wave ENDED, zero faults, and no cap").          *)
(***************************************************************************)
SuccessHasNoFault ==
  outcome = "ALL_ENDED" => \A w \in Wave : state[w] = "ENDED" /\ fault[w] = "none"

=============================================================================
