----------------------- MODULE WorkgroupDriver_proofs -----------------------
(***************************************************************************)
(* Theorems about WorkgroupDriver, for any number of waves, any caps and   *)
(* any set of programs.                                                    *)
(***************************************************************************)
EXTENDS WorkgroupDriver, FiniteSetTheorems, TLAPS

-----------------------------------------------------------------------------

\* The one Boolean variable, apart from the rest for the provers' sake.
FlagOK == anyActive \in BOOLEAN

\* TypeOK, the flag left out, and what the release relies on to read the
\* last site of a parked wave: that there is one.
DataOK ==
  /\ prog \in Programs
  /\ pc \in [Wave -> Nat \ {0}]
  /\ state \in [Wave -> {"RUNNABLE", "WAITING", "ENDED", "FAULTED"}]
  /\ fault \in [Wave -> {"none", "PCOVERRUN", "STEPCAP", "RAISED", "RELEASE-EXC"}]
  /\ steps \in [Wave -> Nat]
  /\ barSites \in [Wave -> Seq(Nat \ {0})]
  /\ epochs \in Seq(Nat \ {0})
  /\ ticks \in Nat
  /\ turn \in 0 .. NWaves + 1
  /\ outcome \in {"NONE", "ROUNDCAP", "ALL_ENDED", "ERROR", "FAULTED", "DEADLOCK",
                  "BARRIER_SEQUENCE_DIVERGENCE"}
  /\ \A w \in Wave : state[w] = "WAITING" => barSites[w] # <<>>

LEMMA AppendNotEmpty ==
  ASSUME NEW s \in Seq(Nat \ {0}), NEW e \in Nat \ {0} PROVE Append(s, e) # <<>>
OBVIOUS

LEMMA TypeParts == DataOK /\ FlagOK => TypeOK
BY DEF TypeOK, DataOK, FlagOK

LEMMA FlagInit == Init => FlagOK
BY DEF Init, FlagOK

LEMMA FlagStep == FlagOK /\ [Next]_vars => FlagOK'
BY DEF FlagOK, Next, vars, BeginRound, Turn, Skip, FaultOverrun, Park, Step,
       EndProgram, FaultStep, TakeTurn, Conclude, Diverge, Release, NextRound,
       Terminating

\* A step leaves pc on an instruction number.
LEMMA NextPCsType ==
  ASSUME DataOK, NEW w \in Wave, ~Overrun(w)
  PROVE  NextPCs(w) \subseteq Nat \ {0}
<1>1. prog \in Seq(Instr)
  BY ProgramsAssumption DEF DataOK
<1>2. pc[w] \in 1 .. Len(prog)
  BY <1>1 DEF DataOK, Overrun
<1>3. Here(w) \in Instr
  BY <1>1, <1>2 DEF Here
<1> QED
  BY <1>2, <1>3 DEF NextPCs, Instr

LEMMA CheckCapType ==
  ASSUME DataOK, NEW w \in Wave,
         NEW st \in {"RUNNABLE", "ENDED", "FAULTED"},
         NEW f \in {"none", "PCOVERRUN", "STEPCAP", "RAISED", "RELEASE-EXC"},
         CheckCap(w, st, f)
  PROVE  /\ state' \in [Wave -> {"RUNNABLE", "WAITING", "ENDED", "FAULTED"}]
         /\ fault' \in [Wave -> {"none", "PCOVERRUN", "STEPCAP", "RAISED", "RELEASE-EXC"}]
         /\ state'[w] # "WAITING"
         /\ \A v \in Wave \ {w} : state'[v] = state[v]
BY DEF CheckCap, DataOK

\* A turn that steps or faults is one wave's own affair.
LEMMA MoverStates ==
  ASSUME DataOK, NEW w \in Wave,
         FaultOverrun(w) \/ Step(w) \/ EndProgram(w) \/ FaultStep(w)
  PROVE  /\ state[w] = "RUNNABLE" /\ state'[w] \in {"RUNNABLE", "ENDED", "FAULTED"}
         /\ \A v \in Wave : v # w => state'[v] = state[v]
<1>0. state \in [Wave -> {"RUNNABLE", "WAITING", "ENDED", "FAULTED"}]
  BY DEF DataOK
<1>1. state[w] = "RUNNABLE"
  BY DEF FaultOverrun, Step, EndProgram, FaultStep
<1>2. PICK st \in {"RUNNABLE", "ENDED", "FAULTED"} : state' = [state EXCEPT ![w] = st]
  BY DEF FaultOverrun, Step, EndProgram, FaultStep, CheckCap
<1> QED
  BY <1>0, <1>1, <1>2

LEMMA MoverCounts ==
  ASSUME DataOK, NEW w \in Wave,
         FaultOverrun(w) \/ Step(w) \/ EndProgram(w) \/ FaultStep(w)
  PROVE  \A v \in Wave : v # w => pc'[v] = pc[v] /\ steps'[v] = steps[v]
<1>0. pc \in [Wave -> Nat \ {0}] /\ steps \in [Wave -> Nat]
  BY DEF DataOK
<1>1. pc' = pc \/ \E p : pc' = [pc EXCEPT ![w] = p]
  BY DEF FaultOverrun, Step, EndProgram, FaultStep
<1>2. steps' = steps \/ \E n : steps' = [steps EXCEPT ![w] = n]
  BY DEF FaultOverrun, Step, EndProgram, FaultStep
<1> QED
  BY <1>0, <1>1, <1>2

\* What a turn leaves to be shown: the variables TakeTurn says nothing of.
LEMMA TurnKeepsData ==
  ASSUME DataOK, NEW w \in Wave, TakeTurn(w),
         pc' \in [Wave -> Nat \ {0}],
         state' \in [Wave -> {"RUNNABLE", "WAITING", "ENDED", "FAULTED"}],
         fault' \in [Wave -> {"none", "PCOVERRUN", "STEPCAP", "RAISED", "RELEASE-EXC"}],
         steps' \in [Wave -> Nat],
         barSites' \in [Wave -> Seq(Nat \ {0})],
         \A v \in Wave : state'[v] = "WAITING" => barSites'[v] # <<>>
  PROVE  DataOK'
<1>1. turn' \in 0 .. NWaves + 1
  BY CapsAssumption DEF TakeTurn, Wave
<1>2. prog' \in Programs /\ epochs' \in Seq(Nat \ {0}) /\ ticks' \in Nat
  BY DEF TakeTurn, DataOK
<1>3. outcome' \in {"NONE", "ROUNDCAP", "ALL_ENDED", "ERROR", "FAULTED", "DEADLOCK",
                    "BARRIER_SEQUENCE_DIVERGENCE"}
  BY DEF TakeTurn, DataOK
<1> QED
  BY ONLY <1>1, <1>2, <1>3,
     pc' \in [Wave -> Nat \ {0}],
     state' \in [Wave -> {"RUNNABLE", "WAITING", "ENDED", "FAULTED"}],
     fault' \in [Wave -> {"none", "PCOVERRUN", "STEPCAP", "RAISED", "RELEASE-EXC"}],
     steps' \in [Wave -> Nat],
     barSites' \in [Wave -> Seq(Nat \ {0})],
     \A v \in Wave : state'[v] = "WAITING" => barSites'[v] # <<>>
  DEF DataOK

LEMMA SkipKeepsData ==
  ASSUME DataOK, NEW w \in Wave, Skip(w) PROVE DataOK'
<1>1. TakeTurn(w) /\ UNCHANGED <<pc, state, fault, steps, barSites>>
  BY DEF Skip
<1> QED
  BY <1>1, TurnKeepsData DEF DataOK

LEMMA FaultOverrunKeepsData ==
  ASSUME DataOK, NEW w \in Wave, FaultOverrun(w) PROVE DataOK'
<1>1. TakeTurn(w) /\ UNCHANGED <<pc, steps, barSites>>
  BY DEF FaultOverrun
<1>2. /\ state' \in [Wave -> {"RUNNABLE", "WAITING", "ENDED", "FAULTED"}]
      /\ \A v \in Wave : state'[v] = "WAITING" => state[v] = "WAITING"
  BY DEF FaultOverrun, DataOK
<1>3. fault' \in [Wave -> {"none", "PCOVERRUN", "STEPCAP", "RAISED", "RELEASE-EXC"}]
  BY DEF FaultOverrun, DataOK
<1>4. \A v \in Wave : state'[v] = "WAITING" => barSites'[v] # <<>>
  BY <1>1, <1>2 DEF DataOK
<1>5. /\ pc' \in [Wave -> Nat \ {0}] /\ steps' \in [Wave -> Nat]
      /\ barSites' \in [Wave -> Seq(Nat \ {0})]
  BY <1>1 DEF DataOK
<1> QED
  BY <1>1, <1>2, <1>3, <1>4, <1>5, TurnKeepsData

LEMMA ParkKeepsData ==
  ASSUME DataOK, NEW w \in Wave, Park(w) PROVE DataOK'
<1>1. TakeTurn(w) /\ UNCHANGED <<pc, fault, steps>>
  BY DEF Park
<1>2. state' \in [Wave -> {"RUNNABLE", "WAITING", "ENDED", "FAULTED"}]
  BY DEF Park, DataOK
<1>3. \A v \in Wave : v # w => state'[v] = state[v] /\ barSites'[v] = barSites[v]
  BY DEF Park, DataOK
<1>4. barSites[w] \in Seq(Nat \ {0}) /\ pc[w] \in Nat \ {0}
  BY DEF DataOK
<1>5. barSites'[w] = Append(barSites[w], pc[w])
  BY DEF Park, DataOK
<1>A. Append(barSites[w], pc[w]) \in Seq(Nat \ {0})
  BY <1>4
<1>B. /\ barSites \in [Wave -> Seq(Nat \ {0})]
      /\ barSites' = [barSites EXCEPT ![w] = Append(barSites[w], pc[w])]
  BY DEF Park, DataOK
<1>6. barSites' \in [Wave -> Seq(Nat \ {0})]
  BY <1>A, <1>B
<1>7. barSites'[w] # <<>>
  BY ONLY <1>4, <1>5, AppendNotEmpty
<1>8. \A v \in Wave : state'[v] = "WAITING" => barSites'[v] # <<>>
  BY <1>3, <1>7 DEF DataOK
<1>9. /\ pc' \in [Wave -> Nat \ {0}] /\ steps' \in [Wave -> Nat]
      /\ fault' \in [Wave -> {"none", "PCOVERRUN", "STEPCAP", "RAISED", "RELEASE-EXC"}]
  BY <1>1 DEF DataOK
<1> QED
  BY <1>1, <1>2, <1>6, <1>8, <1>9, TurnKeepsData

\* The three turns that end in the step cap's check.
LEMMA SteppingKeepsData ==
  ASSUME DataOK, NEW w \in Wave, Step(w) \/ EndProgram(w) \/ FaultStep(w)
  PROVE  DataOK'
<1>1. TakeTurn(w) /\ barSites' = barSites
  BY DEF Step, EndProgram, FaultStep
<1>2. /\ state' \in [Wave -> {"RUNNABLE", "WAITING", "ENDED", "FAULTED"}]
      /\ fault' \in [Wave -> {"none", "PCOVERRUN", "STEPCAP", "RAISED", "RELEASE-EXC"}]
      /\ \A v \in Wave : state'[v] = "WAITING" => state[v] = "WAITING"
  <2>1. fault[w] \in {"none", "PCOVERRUN", "STEPCAP", "RAISED", "RELEASE-EXC"}
    BY DEF DataOK
  <2>2. \/ CheckCap(w, "RUNNABLE", fault[w]) \/ CheckCap(w, "ENDED", fault[w])
        \/ CheckCap(w, "FAULTED", "RAISED")
    BY DEF Step, EndProgram, FaultStep
  <2> QED
    BY <2>1, <2>2, CheckCapType
<1>3. pc' \in [Wave -> Nat \ {0}]
  <2>1. CASE Step(w)
    <3>1. ~Overrun(w) /\ \E p \in NextPCs(w) : pc' = [pc EXCEPT ![w] = p]
      BY <2>1 DEF Step
    <3> QED
      BY <3>1, NextPCsType DEF DataOK
  <2>2. CASE EndProgram(w) \/ FaultStep(w)
    <3>1. pc' = [pc EXCEPT ![w] = pc[w] + 1]
      BY <2>2 DEF EndProgram, FaultStep
    <3> QED
      BY <3>1 DEF DataOK
  <2> QED
    BY <2>1, <2>2
<1>4. steps' \in [Wave -> Nat]
  <2>1. steps' = steps \/ steps' = [steps EXCEPT ![w] = steps[w] + 1]
    BY DEF Step, EndProgram, FaultStep
  <2>2. steps \in [Wave -> Nat] /\ steps[w] + 1 \in Nat
    BY DEF DataOK
  <2> QED
    BY <2>1, <2>2
<1>5. barSites' \in [Wave -> Seq(Nat \ {0})]
  BY <1>1 DEF DataOK
<1>6. \A v \in Wave : state'[v] = "WAITING" => barSites'[v] # <<>>
  BY <1>1, <1>2 DEF DataOK
<1> QED
  BY <1>1, <1>2, <1>3, <1>4, <1>5, <1>6, TurnKeepsData

LEMMA ReleaseKeepsData ==
  ASSUME DataOK, Release PROVE DataOK'
<1>1. PICK u \in Alive : u = CHOOSE w \in Alive : TRUE
  BY DEF Release, AllParked
<1>2. u \in Wave /\ barSites[u] # <<>> /\ barSites[u] \in Seq(Nat \ {0})
  BY <1>1 DEF Release, AllParked, Alive, DataOK
<1>3. LastSite(u) \in Nat \ {0}
  BY <1>2 DEF LastSite, NBar
<1>4. epochs' \in Seq(Nat \ {0})
  BY <1>1, <1>3 DEF Release, DataOK
<1>5. pc' \in [Wave -> Nat \ {0}] /\ steps' \in [Wave -> Nat]
  BY DEF Release, DataOK
<1>6. /\ state' \in [Wave -> {"RUNNABLE", "WAITING", "ENDED", "FAULTED"}]
      /\ fault' \in [Wave -> {"none", "PCOVERRUN", "STEPCAP", "RAISED", "RELEASE-EXC"}]
  BY DEF Release, DataOK
<1>7. \A w \in Wave : state'[w] # "WAITING"
  BY DEF Release, AllParked, Alive, Dead
<1>8. turn' \in 0 .. NWaves + 1
  BY CapsAssumption DEF Release, LoopHead
<1>9. UNCHANGED <<prog, barSites, ticks, outcome>>
  BY DEF Release
<1> QED
  BY <1>4, <1>5, <1>6, <1>7, <1>8, <1>9 DEF DataOK

LEMMA DataCorrect == Spec => []DataOK
<1>1. Init => DataOK
  <2>1. NWaves + 1 \in 0 .. NWaves + 1
    BY CapsAssumption
  <2> QED
    BY <2>1 DEF Init, LoopHead, DataOK
<1>2. DataOK /\ [Next]_vars => DataOK'
  <2> SUFFICES ASSUME DataOK, [Next]_vars PROVE DataOK'
    OBVIOUS
  <2>1. CASE BeginRound
    <3>1. ticks' \in Nat
      BY <2>1 DEF BeginRound, DataOK
    <3>2. turn' \in 0 .. NWaves + 1
      BY <2>1, CapsAssumption DEF BeginRound, DataOK
    <3>3. outcome' \in {outcome, "ROUNDCAP"}
      BY <2>1 DEF BeginRound
    <3>4. UNCHANGED <<prog, pc, state, fault, steps, barSites, epochs>>
      BY <2>1 DEF BeginRound
    <3> QED
      BY <3>1, <3>2, <3>3, <3>4 DEF DataOK
  <2>2. ASSUME NEW w \in Wave, Turn(w) PROVE DataOK'
    BY <2>2, SkipKeepsData, FaultOverrunKeepsData, ParkKeepsData, SteppingKeepsData
       DEF Turn
  <2>3. CASE Conclude
    <3>1. outcome' \in {"ALL_ENDED", "ERROR", "FAULTED", "DEADLOCK"}
      BY <2>3 DEF Conclude, Verdict
    <3>2. UNCHANGED <<prog, pc, state, fault, steps, barSites, epochs, ticks, turn>>
      BY <2>3 DEF Conclude
    <3> QED
      BY <3>1, <3>2 DEF DataOK
  <2>4. CASE Diverge
    <3>1. outcome' \in {"DEADLOCK", "BARRIER_SEQUENCE_DIVERGENCE"}
      BY <2>4 DEF Diverge
    <3>2. UNCHANGED <<prog, pc, state, fault, steps, barSites, epochs, ticks, turn>>
      BY <2>4 DEF Diverge
    <3> QED
      BY <3>1, <3>2 DEF DataOK
  <2>5. CASE Release
    BY <2>5, ReleaseKeepsData
  <2>6. CASE NextRound
    <3>1. turn' \in 0 .. NWaves + 1
      BY <2>6, CapsAssumption DEF NextRound, LoopHead
    <3>2. UNCHANGED <<prog, pc, state, fault, steps, barSites, epochs, ticks, outcome>>
      BY <2>6 DEF NextRound
    <3> QED
      BY <3>1, <3>2 DEF DataOK
  <2>7. CASE UNCHANGED vars
    BY <2>7 DEF vars, DataOK
  <2> QED
    BY <2>1, <2>2, <2>3, <2>4, <2>5, <2>6, <2>7 DEF Next, Terminating
<1> QED
  BY <1>1, <1>2, PTL DEF Spec

\* The variables stay in their types (TypeOK).
THEOREM TypeCorrect == Spec => []TypeOK
<1>1. Spec => []FlagOK
  BY FlagInit, FlagStep, PTL DEF Spec
<1> QED
  BY <1>1, DataCorrect, TypeParts, PTL

-----------------------------------------------------------------------------

LEMMA SubSeqWhole ==
  ASSUME NEW S, NEW q \in Seq(S)
  PROVE  SubSeq(q, 1, Len(q)) = q
OBVIOUS

LEMMA SubSeqAppend ==
  ASSUME NEW S, NEW q \in Seq(S), NEW e \in S, NEW n \in 0 .. Len(q)
  PROVE  SubSeq(Append(q, e), 1, n) = SubSeq(q, 1, n)
OBVIOUS

\* Only the wave whose turn it is changes, and no epoch is added.
LEMMA OthersKeepHistory ==
  ASSUME DataOK, SiteHistory, NEW w \in Wave, NEW v \in Wave, v # w,
         epochs' = epochs, prog' = prog, pc'[v] = pc[v], state'[v] = state[v],
         barSites'[v] = barSites[v]
  PROVE  /\ state'[v] = "RUNNABLE" => barSites'[v] = epochs'
         /\ state'[v] = "WAITING" => AtBarrier(v)' /\ barSites'[v] = Append(epochs', pc'[v])
         /\ Dead(v)' => /\ NBar(v)' <= Len(epochs')
                        /\ barSites'[v] = SubSeq(epochs', 1, NBar(v)')
BY DEF SiteHistory, AtBarrier, Overrun, Here, Dead, NBar

\* A wave that stays runnable, ends or faults has the whole history.
LEMMA MoverKeepsHistory ==
  ASSUME DataOK, SiteHistory, NEW w \in Wave, state[w] = "RUNNABLE",
         epochs' = epochs, barSites' = barSites, state'[w] # "WAITING"
  PROVE  /\ barSites'[w] = epochs'
         /\ NBar(w)' <= Len(epochs')
         /\ barSites'[w] = SubSeq(epochs', 1, NBar(w)')
<1>1. barSites[w] = epochs /\ epochs \in Seq(Nat \ {0})
  BY DEF SiteHistory, DataOK
<1> QED
  BY <1>1, SubSeqWhole DEF NBar

\* The waves agree on the completed barriers (SiteHistory).
THEOREM SiteHistoryCorrect == Spec => []SiteHistory
<1>1. Init => SiteHistory
  BY DEF Init, SiteHistory, Dead
<1>2. DataOK /\ DataOK' /\ SiteHistory /\ [Next]_vars => SiteHistory'
  <2> SUFFICES ASSUME DataOK, DataOK', SiteHistory, [Next]_vars PROVE SiteHistory'
    OBVIOUS
  <2>1. ASSUME NEW w \in Wave, Turn(w) PROVE SiteHistory'
    <3>1. CASE Skip(w)
      BY <3>1 DEF Skip, TakeTurn, SiteHistory, AtBarrier, Overrun, Here, Dead, NBar
    <3>2. CASE Park(w)
      <4>1. /\ barSites'[w] = Append(epochs, pc[w]) /\ state'[w] = "WAITING"
            /\ AtBarrier(w)' /\ UNCHANGED <<pc, prog, epochs>>
        BY <3>2 DEF Park, TakeTurn, AtBarrier, Overrun, Here, SiteHistory, DataOK
      <4>2. \A v \in Wave : v # w => state'[v] = state[v] /\ barSites'[v] = barSites[v]
        BY <3>2 DEF Park, DataOK
      <4> QED
        BY <4>1, <4>2, OthersKeepHistory DEF SiteHistory, Dead
    <3>3. CASE FaultOverrun(w) \/ Step(w) \/ EndProgram(w) \/ FaultStep(w)
      <4>1. state[w] = "RUNNABLE" /\ state'[w] # "WAITING"
        BY <3>3, MoverStates
      <4>2. UNCHANGED <<epochs, barSites, prog>>
        BY <3>3 DEF FaultOverrun, Step, EndProgram, FaultStep, TakeTurn
      <4>3. \A v \in Wave : v # w => state'[v] = state[v] /\ pc'[v] = pc[v]
        BY <3>3, MoverStates, MoverCounts
      <4>4. /\ barSites'[w] = epochs'
            /\ NBar(w)' <= Len(epochs')
            /\ barSites'[w] = SubSeq(epochs', 1, NBar(w)')
        BY <4>1, <4>2, MoverKeepsHistory
      <4> QED
        BY <4>1, <4>2, <4>3, <4>4, OthersKeepHistory DEF SiteHistory
    <3> QED
      BY <2>1, <3>1, <3>2, <3>3 DEF Turn
  <2>2. CASE Release
    <3> DEFINE s == LastSite(CHOOSE w \in Alive : TRUE)
    <3>1. epochs' = Append(epochs, s) /\ barSites' = barSites
      BY <2>2 DEF Release
    <3>2. epochs \in Seq(Nat \ {0}) /\ epochs' \in Seq(Nat \ {0})
      BY DEF DataOK
    <3>3. \A w \in Alive : /\ w \in Wave /\ state[w] = "WAITING"
                           /\ barSites[w] = Append(epochs, pc[w])
                           /\ LastSite(w) = pc[w] /\ pc[w] = s
      <4>1. \A w \in Alive : w \in Wave /\ state[w] = "WAITING"
        BY <2>2 DEF Release, AllParked, Alive
      <4>2. \A w \in Alive : /\ barSites[w] = Append(epochs, pc[w])
                             /\ LastSite(w) = pc[w]
        BY <4>1, <3>2 DEF SiteHistory, LastSite, NBar, DataOK
      <4>3. Alive # {} /\ \A v, w \in Alive : LastSite(v) = LastSite(w)
        BY <2>2 DEF Release, AllParked, OneSite
      <4>4. \A w \in Alive : LastSite(w) = s
        BY <4>3
      <4> QED
        BY <4>1, <4>2, <4>4
    <3>4. ASSUME NEW w \in Alive PROVE state'[w] = "RUNNABLE" /\ barSites'[w] = epochs'
      BY <2>2, <3>1, <3>3, <3>4 DEF Release
    <3>5. ASSUME NEW w \in Wave, w \notin Alive
          PROVE  /\ state'[w] = state[w] /\ Dead(w)
                 /\ NBar(w)' <= Len(epochs')
                 /\ barSites'[w] = SubSeq(epochs', 1, NBar(w)')
      <4>1. state'[w] = state[w] /\ Dead(w)
        BY <2>2, <3>5 DEF Release, Alive
      <4>2. NBar(w) \in 0 .. Len(epochs) /\ barSites[w] = SubSeq(epochs, 1, NBar(w))
        BY <4>1, <3>2 DEF SiteHistory, NBar, DataOK
      <4>3. s \in Nat \ {0}
        BY <2>2, <3>3 DEF Release, AllParked, DataOK
      <4> QED
        BY <4>1, <4>2, <4>3, <3>1, <3>2, SubSeqAppend DEF NBar
    <3> QED
      BY <3>3, <3>4, <3>5 DEF SiteHistory, Dead, Alive
  <2>3. CASE UNCHANGED <<prog, pc, state, barSites, epochs>>
    BY <2>3 DEF SiteHistory, AtBarrier, Overrun, Here, Dead, NBar
  <2> QED
    BY <2>1, <2>2, <2>3 DEF Next, vars, BeginRound, Conclude, Diverge, NextRound, Terminating
<1> QED
  BY <1>1, <1>2, DataCorrect, PTL DEF Spec

-----------------------------------------------------------------------------

(***************************************************************************)
(* VerdictSound alone is not inductive: the verdict is taken when          *)
(* anyActive is false at the tail, and says something of the waves only    *)
(* because each of the waves already looked at in this round was dead.     *)
(***************************************************************************)
RoundQuiet ==
  turn \in 0 .. NWaves /\ ~anyActive => \A w \in Wave : w < turn => Dead(w)

LEMMA RoundQuietCorrect == Spec => []RoundQuiet
<1>1. Init => RoundQuiet
  BY CapsAssumption DEF Init, RoundQuiet, LoopHead
<1>2. DataOK /\ RoundQuiet /\ [Next]_vars => RoundQuiet'
  <2> SUFFICES ASSUME DataOK, RoundQuiet, [Next]_vars PROVE RoundQuiet'
    OBVIOUS
  <2>1. ASSUME NEW w \in Wave, Turn(w) PROVE RoundQuiet'
    <3>1. turn = w /\ turn' = w + 1 /\ w \in 0 .. NWaves
      BY <2>1, CapsAssumption DEF Turn, Skip, FaultOverrun, Park, Step, EndProgram,
         FaultStep, TakeTurn, Wave
    <3>2. anyActive' = (anyActive \/ ~Dead(w))
      BY <2>1 DEF Turn, Skip, FaultOverrun, Park, Step, EndProgram, FaultStep, TakeTurn
    <3>3. SUFFICES ASSUME ~anyActive, Dead(w) PROVE \A v \in Wave : v < w + 1 => Dead(v)'
      BY <3>1, <3>2 DEF RoundQuiet
    <3>4. Skip(w)
      BY <2>1, <3>3 DEF Turn, FaultOverrun, Park, Step, EndProgram, FaultStep, Dead
    <3>5. \A v \in Wave : v < w + 1 => v < w \/ v = w
      BY DEF Wave
    <3>6. \A v \in Wave : v < w => Dead(v)
      BY <3>1, <3>3 DEF RoundQuiet
    <3> QED
      BY <3>3, <3>4, <3>5, <3>6 DEF Skip, Dead
  <2>2. CASE BeginRound
    <3>1. \A w \in Wave : ~(w < 0)
      BY DEF Wave
    <3> QED
      BY <2>2, <3>1, CapsAssumption DEF BeginRound, RoundQuiet, LoopHead, Dead
  <2>3. CASE Conclude \/ Diverge \/ UNCHANGED vars
    BY <2>3 DEF Conclude, Diverge, RoundQuiet, Dead, vars
  <2>4. CASE Release \/ NextRound
    BY <2>4, CapsAssumption DEF Release, NextRound, RoundQuiet, LoopHead
  <2> QED
    BY <2>1, <2>2, <2>3, <2>4 DEF Next, Terminating
<1> QED
  BY <1>1, <1>2, DataCorrect, PTL DEF Spec

\* The verdict of the hw driver says what it should of the waves
\* (VerdictSound).
THEOREM VerdictSoundCorrect == Spec => []VerdictSound
<1>1. Init => VerdictSound
  BY DEF Init, VerdictSound
<1>2. DataOK /\ SiteHistory /\ RoundQuiet /\ VerdictSound /\ [Next]_vars => VerdictSound'
  <2> SUFFICES ASSUME DataOK, SiteHistory, RoundQuiet, VerdictSound, [Next]_vars,
                      Variant = "hw"
               PROVE  VerdictSound'
    BY DEF VerdictSound
  <2>1. CASE Conclude
    <3>1. \A w \in Wave : Dead(w)
      BY <2>1, CapsAssumption DEF Conclude, RoundQuiet, LoopTail, Wave
    <3>2. \A w \in Wave : state[w] = "ENDED" \/ state[w] = "FAULTED"
      BY <3>1 DEF Dead
    <3>3. NWaves = 0 => Wave = {}
      BY DEF Wave
    <3>4. NWaves # 0 => NWaves > 0
      BY CapsAssumption
    <3>5. outcome' = Verdict /\ UNCHANGED <<state, epochs, barSites>>
      BY <2>1 DEF Conclude
    <3>6. CASE NWaves = 0
      <4>1. outcome' = "ERROR"
        BY <3>5, <3>6 DEF Verdict
      <4> QED
        BY <4>1, <3>3, <3>6 DEF VerdictSound
    <3>7. CASE NWaves > 0 /\ \E w \in Wave : state[w] = "FAULTED"
      <4>1. outcome' = "FAULTED"
        BY <3>5, <3>7 DEF Verdict
      <4>2. Alive' = {}
        BY <3>1, <3>5 DEF Alive, Dead
      <4> QED
        BY <4>1, <4>2, <3>5, <3>7 DEF VerdictSound
    <3>8. CASE NWaves > 0 /\ \A w \in Wave : state[w] = "ENDED"
      <4>1. outcome' = "ALL_ENDED"
        BY <3>5, <3>8 DEF Verdict
      <4> QED
        BY <4>1, <3>5, <3>8 DEF VerdictSound
    <3> QED
      BY <3>2, <3>4, <3>6, <3>7, <3>8
  <2>2. CASE Diverge
    <3>1. PICK v \in Alive, w \in Alive : LastSite(v) # LastSite(w)
      BY <2>2 DEF Diverge, OneSite
    <3>2. \A u \in Alive : u \in Wave /\ barSites[u] = Append(epochs, pc[u])
      BY <2>2 DEF Diverge, AllParked, SiteHistory, Alive
    <3>3. \A u \in Alive : NBar(u) = Len(epochs) + 1
      BY <3>2 DEF DataOK, NBar
    <3>4. outcome' = "DEADLOCK" /\ UNCHANGED <<state, epochs, barSites>>
      BY <2>2 DEF Diverge
    <3> QED
      BY <3>1, <3>3, <3>4 DEF VerdictSound, Alive, Dead, NBar, LastSite
  <2>3. CASE outcome = "NONE" /\ outcome' \in {"NONE", "ROUNDCAP"}
    BY <2>3 DEF VerdictSound
  <2>4. CASE UNCHANGED vars
    BY <2>4 DEF VerdictSound, vars, Alive, Dead, NBar, LastSite
  <2>5. BeginRound => outcome = "NONE" /\ outcome' \in {"NONE", "ROUNDCAP"}
    BY DEF BeginRound
  <2>6. \A w \in Wave : Turn(w) => outcome = "NONE" /\ outcome' \in {"NONE", "ROUNDCAP"}
    BY DEF Turn, Skip, FaultOverrun, Park, Step, EndProgram, FaultStep, TakeTurn
  <2>7. Release \/ NextRound => outcome = "NONE" /\ outcome' \in {"NONE", "ROUNDCAP"}
    BY DEF Release, NextRound
  <2> QED
    BY <2>1, <2>2, <2>3, <2>4, <2>5, <2>6, <2>7 DEF Next, Terminating
<1> QED
  BY <1>1, <1>2, DataCorrect, SiteHistoryCorrect, RoundQuietCorrect, PTL DEF Spec

-----------------------------------------------------------------------------

\* A wave whose own variables do not change keeps its budget.
LEMMA SameBudget ==
  ASSUME StepBudget, NEW w \in Alive,
         prog' = prog, pc'[w] = pc[w], steps'[w] = steps[w]
  PROVE  \E k \in 0 .. pc'[w] - 1 :
           /\ steps'[w] <= StepCap + k
           /\ \A j \in pc'[w] - k .. pc'[w] - 1 :
                j <= Len(prog') /\ prog'[j].op \in {"barrier", "gws"}
BY DEF StepBudget

\* No live wave is past its step cap by more than the barriers it has just
\* crossed (StepBudget).
THEOREM StepBudgetCorrect == Spec => []StepBudget
<1>1. Init => StepBudget
  <2> SUFFICES ASSUME Init, NEW w \in Alive
               PROVE  \E k \in 0 .. pc[w] - 1 :
                        /\ steps[w] <= StepCap + k
                        /\ \A j \in pc[w] - k .. pc[w] - 1 :
                             j <= Len(prog) /\ prog[j].op \in {"barrier", "gws"}
    BY DEF StepBudget
  <2>1. pc[w] = 1 /\ steps[w] = 0
    BY DEF Init, Alive
  <2> QED
    BY <2>1, CapsAssumption
<1>2. DataOK /\ DataOK' /\ SiteHistory /\ StepBudget /\ [Next]_vars => StepBudget'
  <2> SUFFICES ASSUME DataOK, DataOK', SiteHistory, StepBudget, [Next]_vars,
                      NEW v \in Alive'
               PROVE  \E k \in 0 .. pc'[v] - 1 :
                        /\ steps'[v] <= StepCap + k
                        /\ \A j \in pc'[v] - k .. pc'[v] - 1 :
                             j <= Len(prog') /\ prog'[j].op \in {"barrier", "gws"}
    BY DEF StepBudget
  <2>0. v \in Wave /\ pc[v] \in Nat \ {0} /\ pc'[v] \in Nat \ {0} /\ steps[v] \in Nat
    BY DEF Alive, DataOK
  <2>1. ASSUME NEW w \in Wave, Turn(w)
        PROVE  \E k \in 0 .. pc'[v] - 1 :
                 /\ steps'[v] <= StepCap + k
                 /\ \A j \in pc'[v] - k .. pc'[v] - 1 :
                      j <= Len(prog') /\ prog'[j].op \in {"barrier", "gws"}
    <3>0. prog' = prog
      BY <2>1 DEF Turn, Skip, FaultOverrun, Park, Step, EndProgram, FaultStep, TakeTurn
    <3>1. CASE Skip(w) \/ Park(w) \/ FaultOverrun(w)
      <4>1. pc' = pc /\ steps' = steps
        BY <3>1 DEF Skip, Park, FaultOverrun
      <4>2. v \in Alive
        BY <3>1, <2>0 DEF Skip, Park, FaultOverrun, Alive, Dead, DataOK
      <4> QED
        BY <4>1, <4>2, <3>0, SameBudget
    <3>2. CASE Step(w) \/ EndProgram(w) \/ FaultStep(w)
      <4>1. CASE v = w
        <5>1. state'[w] \notin {"ENDED", "FAULTED"}
          BY <4>1 DEF Alive, Dead
        <5>2. Step(w)
          BY <3>2, <5>1 DEF EndProgram, FaultStep, CheckCap, DataOK
        <5>3. ~(steps'[w] > StepCap)
          BY <5>1, <5>2 DEF Step, CheckCap, DataOK
        <5>4. steps'[w] <= StepCap + 0
          BY <5>3, CapsAssumption DEF DataOK
        <5>5. 0 \in 0 .. pc'[v] - 1 /\ pc'[v] - 0 .. pc'[v] - 1 = {}
          BY <2>0
        <5> QED
          BY <4>1, <5>4, <5>5
      <4>2. CASE v # w
        <5>1. state'[v] = state[v] /\ pc'[v] = pc[v] /\ steps'[v] = steps[v]
          BY <3>2, <4>2, <2>0, MoverStates, MoverCounts
        <5>2. v \in Alive
          BY <5>1, <2>0 DEF Alive, Dead
        <5> QED
          BY <5>1, <5>2, <3>0, SameBudget
      <4> QED
        BY <4>1, <4>2
    <3> QED
      BY <2>1, <3>1, <3>2 DEF Turn
  <2>2. CASE Release
    <3>1. v \in Alive
      BY <2>2, <2>0 DEF Release, Alive, Dead
    <3>2. pc'[v] = pc[v] + 1 /\ prog' = prog
      BY <2>2, <2>0, <3>1 DEF Release
    <3>3. steps'[v] <= steps[v] + 1 /\ steps'[v] \in Nat
      BY <2>2, <2>0, <3>1 DEF Release, DataOK
    <3>4. pc[v] <= Len(prog) /\ prog[pc[v]].op \in {"barrier", "gws"}
      <4>1. AtBarrier(v)
        BY <2>2, <2>0, <3>1 DEF Release, AllParked, SiteHistory
      <4>2. prog \in Seq(Instr)
        BY ProgramsAssumption DEF DataOK
      <4> QED
        BY <4>1, <4>2, <2>0 DEF AtBarrier, Overrun, Here
    <3>5. PICK k \in 0 .. pc[v] - 1 :
            /\ steps[v] <= StepCap + k
            /\ \A j \in pc[v] - k .. pc[v] - 1 :
                 j <= Len(prog) /\ prog[j].op \in {"barrier", "gws"}
      BY <3>1 DEF StepBudget
    <3>6. k + 1 \in 0 .. pc'[v] - 1 /\ steps'[v] <= StepCap + (k + 1)
      <4>1. pc'[v] = pc[v] + 1 /\ k + 1 \in 0 .. pc'[v] - 1
        BY <3>2, <2>0
      <4>2. steps'[v] <= steps[v] + 1 /\ steps'[v] \in Nat
        BY <3>3, <2>0
      <4> QED
        BY <4>1, <4>2, <3>5, <2>0, CapsAssumption
    <3>7. ASSUME NEW j \in pc'[v] - (k + 1) .. pc'[v] - 1
          PROVE  j <= Len(prog') /\ prog'[j].op \in {"barrier", "gws"}
      <4>0. pc[v] \in Nat /\ k \in Int /\ pc'[v] = pc[v] + 1
        BY <2>0, <3>2
      <4>1. j \in pc[v] - k .. pc[v] - 1 \/ j = pc[v]
        BY ONLY <4>0, <3>7
      <4> QED
        BY <4>1, <3>2, <3>4, <3>5
    <3> QED
      BY <3>6, <3>7
  <2>3. CASE UNCHANGED <<prog, pc, state, steps>>
    <3>1. v \in Alive
      BY <2>3 DEF Alive, Dead
    <3> QED
      BY <2>3, <3>1, SameBudget
  <2>4. BeginRound \/ Conclude \/ Diverge \/ NextRound \/ Terminating \/ UNCHANGED vars
          => UNCHANGED <<prog, pc, state, steps>>
    BY DEF vars, BeginRound, Conclude, Diverge, NextRound, Terminating
  <2>5. \/ BeginRound \/ Conclude \/ Diverge \/ NextRound \/ Terminating \/ UNCHANGED vars
        \/ Release \/ \E w \in Wave : Turn(w)
    BY ONLY [Next]_vars DEF Next
  <2> QED
    BY <2>1, <2>2, <2>3, <2>4, <2>5
<1> QED
  BY <1>1, <1>2, DataCorrect, SiteHistoryCorrect, PTL DEF Spec

-----------------------------------------------------------------------------
(* The loop implements the abstract barrier.  The mapped variables:        *)

Passed(w) == IF state[w] = "WAITING" THEN NBar(w) - 1 ELSE NBar(w)
At(w) == CASE state[w] = "RUNNABLE" -> 0
           [] state[w] = "WAITING"  -> pc[w]
           [] OTHER                 -> -1

\* A step that leaves these alone is a stutter of the abstract barrier.
LEMMA MapStutter ==
  ASSUME \A w \in Wave : Passed(w)' = Passed(w) /\ At(w)' = At(w)
  PROVE  UNCHANGED Barrier!vars
BY DEF Passed, At, Barrier!vars

\* A wave that dies leaves the workgroup.
LEMMA MapLeave ==
  ASSUME NEW w \in Wave, state[w] = "RUNNABLE", At(w)' = -1, Passed(w)' = Passed(w),
         \A v \in Wave : v # w => Passed(v)' = Passed(v) /\ At(v)' = At(v)
  PROVE  Barrier!Leave(w)
BY DEF Passed, At, Barrier!Leave, Barrier!Inside, Barrier!Gone

\* A wave that parks arrives.
LEMMA MapArrive ==
  ASSUME NEW w \in Wave, NEW s \in UNION {DOMAIN p : p \in Programs},
         state[w] = "RUNNABLE", At(w)' = s, Passed(w)' = Passed(w),
         \A v \in Wave : v # w => Passed(v)' = Passed(v) /\ At(v)' = At(v)
  PROVE  Barrier!Next
<1>1. \E v \in Wave, r \in UNION {DOMAIN p : p \in Programs} : Barrier!Arrive(v, r)
  <2> WITNESS w \in Wave, s \in UNION {DOMAIN p : p \in Programs}
  <2> DEFINE at == [v \in Wave |-> At(v)]
             passed == [v \in Wave |-> Passed(v)]
  <2>1. at[w] = 0
    BY DEF At
  <2>2. at' = [at EXCEPT ![w] = s]
    BY ZenonT(30)
  <2>3. passed' = passed
    OBVIOUS
  <2> QED
    BY <2>1, <2>2, <2>3 DEF Passed, At, Barrier!Arrive, Barrier!Inside
<1> QED
  BY <1>1 DEF Barrier!Next

\* Waves released together complete a barrier.
LEMMA MapComplete ==
  ASSUME NEW s \in UNION {DOMAIN p : p \in Programs}, Alive # {}, Barrier!Present = Alive,
         \A w \in Alive : At(w) = s /\ At(w)' = 0 /\ Passed(w)' = Passed(w) + 1,
         \A w \in Wave : w \notin Alive => At(w)' = -1 /\ Passed(w)' = Passed(w)
  PROVE  Barrier!Next
<1> DEFINE at == [w \in Wave |-> At(w)]
           passed == [w \in Wave |-> Passed(w)]
<1>1. at' = [w \in Wave |-> IF w \in Alive THEN 0 ELSE -1]
  BY DEF Alive
<1>2. passed' = [w \in Wave |-> IF w \in Alive THEN passed[w] + 1 ELSE passed[w]]
  BY DEF Alive
<1>3. \A w \in Alive : at[w] = s
  BY DEF Alive
<1> QED
  BY <1>1, <1>2, <1>3 DEF Passed, At, Barrier!Next, Barrier!Complete, Barrier!Inside, Barrier!Gone

\* The driver implements the workgroup barrier (BarrierContract).
THEOREM ImplementsBarrier == Spec => BarrierContract
<1>1. Init => Barrier!Init
  BY DEF Init, Barrier!Init, Barrier!Inside, NBar
<1>2. DataOK /\ DataOK' /\ SiteHistory /\ [Next]_vars => [Barrier!Next]_(Barrier!vars)
  <2> SUFFICES ASSUME DataOK, DataOK', SiteHistory, [Next]_vars
               PROVE  [Barrier!Next]_(Barrier!vars)
    OBVIOUS
  <2>1. ASSUME NEW w \in Wave, Turn(w) PROVE [Barrier!Next]_(Barrier!vars)
    <3>1. CASE Skip(w)
      BY <3>1, MapStutter DEF Skip, Passed, At, NBar
    <3>2. CASE Park(w)
      <4>1. state[w] = "RUNNABLE" /\ state'[w] = "WAITING" /\ pc' = pc
        BY <3>2 DEF Park, DataOK
      <4>2. NBar(w)' = NBar(w) + 1 /\ NBar(w) \in Nat
        BY <3>2 DEF Park, NBar, DataOK
      <4>3. \A v \in Wave : v # w => state'[v] = state[v] /\ barSites'[v] = barSites[v]
        BY <3>2 DEF Park, DataOK
      <4>4. At(w)' = pc[w] /\ Passed(w)' = Passed(w)
        BY <4>1, <4>2 DEF At, Passed
      <4>5. \A v \in Wave : v # w => Passed(v)' = Passed(v) /\ At(v)' = At(v)
        BY <4>1, <4>3 DEF At, Passed, NBar
      <4>7. pc[w] \in UNION {DOMAIN p : p \in Programs}
        <5>1. prog \in Programs /\ prog \in Seq(Instr) /\ pc[w] \in Nat \ {0}
          BY ProgramsAssumption DEF DataOK
        <5>2. pc[w] \in DOMAIN prog
          BY <3>2, <5>1 DEF Park, AtBarrier, Overrun
        <5> QED
          BY <5>1, <5>2
      <4> QED
        BY <4>1, <4>4, <4>5, <4>7, MapArrive
    <3>3. CASE FaultOverrun(w) \/ Step(w) \/ EndProgram(w) \/ FaultStep(w)
      <4>1. state[w] = "RUNNABLE" /\ state'[w] \in {"RUNNABLE", "ENDED", "FAULTED"}
        BY <3>3, MoverStates
      <4>2. barSites' = barSites
        BY <3>3 DEF FaultOverrun, Step, EndProgram, FaultStep
      <4>3. \A v \in Wave : v # w => state'[v] = state[v] /\ pc'[v] = pc[v]
        BY <3>3, MoverStates, MoverCounts
      <4>4. \A v \in Wave : v # w => Passed(v)' = Passed(v) /\ At(v)' = At(v)
        BY <4>2, <4>3 DEF At, Passed, NBar
      <4>5. Passed(w)' = Passed(w)
        BY <4>1, <4>2 DEF Passed, NBar
      <4>6. CASE state'[w] = "RUNNABLE"
        <5>1. At(w)' = At(w)
          BY <4>1, <4>6 DEF At
        <5> QED
          BY <4>4, <4>5, <5>1, MapStutter
      <4>7. CASE state'[w] # "RUNNABLE"
        <5>1. At(w)' = -1
          BY <4>1, <4>7 DEF At
        <5> QED
          BY <4>1, <4>4, <4>5, <5>1, MapLeave DEF Barrier!Next
      <4> QED
        BY <4>6, <4>7
    <3> QED
      BY <2>1, <3>1, <3>2, <3>3 DEF Turn
  <2>2. CASE Release
    <3>1. PICK u \in Alive : TRUE
      BY <2>2 DEF Release, AllParked
    <3>2. \A w \in Alive : /\ w \in Wave /\ state[w] = "WAITING"
                           /\ barSites[w] = Append(epochs, pc[w]) /\ AtBarrier(w)
      BY <2>2 DEF Release, AllParked, Alive, SiteHistory
    <3>3. \A w \in Alive : LastSite(w) = pc[w]
      <4> SUFFICES ASSUME NEW w \in Alive PROVE LastSite(w) = pc[w]
        OBVIOUS
      <4>1. epochs \in Seq(Nat \ {0}) /\ pc[w] \in Nat \ {0}
        BY <3>2 DEF DataOK
      <4>2. barSites[w] = Append(epochs, pc[w])
        BY <3>2
      <4> QED
        BY <4>1, <4>2 DEF LastSite, NBar
    <3>4. \A w \in Alive : pc[w] = pc[u]
      BY <2>2, <3>3 DEF Release, OneSite
    <3>5. pc[u] \in UNION {DOMAIN p : p \in Programs}
      <4>1. prog \in Programs /\ prog \in Seq(Instr) /\ pc[u] \in Nat \ {0}
        BY <3>2, ProgramsAssumption DEF DataOK
      <4>2. pc[u] \in DOMAIN prog
        BY <3>2, <4>1 DEF AtBarrier, Overrun
      <4> QED
        BY <4>1, <4>2
    <3>6. \A w \in Wave : w \notin Alive => state[w] \in {"ENDED", "FAULTED"} /\ state'[w] = state[w]
      BY <2>2 DEF Release, Alive, Dead
    <3>7. \A w \in Alive : state'[w] = "RUNNABLE" /\ pc[w] \in Nat \ {0} /\ NBar(w) \in Nat
      BY <2>2, <3>2 DEF Release, DataOK, NBar
    <3>8. barSites' = barSites
      BY <2>2 DEF Release
    <3>9. \A w \in Wave : w \in Alive =>
            /\ At(w) = pc[u] /\ At(w)' = 0 /\ Passed(w)' = Passed(w) + 1
      BY <3>2, <3>4, <3>7, <3>8 DEF At, Passed, NBar
    <3>10. \A w \in Wave : w \notin Alive =>
             /\ At(w) = -1 /\ At(w)' = -1 /\ Passed(w)' = Passed(w)
      BY <3>6, <3>8 DEF At, Passed, NBar
    <3>11. pc[u] # -1
      BY <3>7
    <3>12. Barrier!Present = Alive
      BY <3>9, <3>10, <3>11 DEF Barrier!Present, Barrier!Gone, Alive, At
    <3> QED
      BY <3>1, <3>2, <3>5, <3>9, <3>10, <3>12, MapComplete
  <2>3. CASE UNCHANGED <<pc, state, barSites>>
    BY <2>3, MapStutter DEF Passed, At, NBar
  <2> QED
    BY <2>1, <2>2, <2>3 DEF Next, vars, BeginRound, Conclude, Diverge, NextRound, Terminating
<1> QED
  BY <1>1, <1>2, DataCorrect, SiteHistoryCorrect, PTL DEF Spec, BarrierContract, Barrier!Spec

\* Two waves still in the workgroup have crossed as many barriers as each
\* other (WavesMeet), because both have crossed all the completed ones.
THEOREM WavesMeetCorrect == Spec => []WavesMeet
<1>1. DataOK /\ SiteHistory => WavesMeet
  <2> SUFFICES ASSUME DataOK, SiteHistory PROVE Barrier!Rendezvous
    BY DEF WavesMeet
  <2>1. ASSUME NEW w \in Wave, At(w) # -1 PROVE Passed(w) = Len(epochs)
    <3>1. state[w] \in {"RUNNABLE", "WAITING"}
      BY <2>1 DEF At, DataOK
    <3>2. state[w] = "RUNNABLE" => NBar(w) = Len(epochs)
      BY DEF SiteHistory, NBar
    <3>3. state[w] = "WAITING" => NBar(w) = Len(epochs) + 1
      BY DEF SiteHistory, NBar, DataOK
    <3>4. Len(epochs) \in Nat
      BY DEF DataOK
    <3> QED
      BY <3>1, <3>2, <3>3, <3>4 DEF Passed
  <2> QED
    BY <2>1 DEF Barrier!Rendezvous, Barrier!Present, Barrier!Gone, At, Passed
<1> QED
  BY <1>1, DataCorrect, SiteHistoryCorrect, PTL

-----------------------------------------------------------------------------

(***************************************************************************)
(* RoundCapNotNeeded.  Every round that goes on has moved some wave on, and *)
(* how far a wave can move is bounded: it takes at most StepCap + 1 counted *)
(* steps alive, and between two of them pc only goes forward.               *)
(***************************************************************************)
Stage(w) == IF steps[w] > StepCap THEN StepCap + 1 ELSE steps[w]

\* Wave w has put place b of stage a behind it.
Behind(w, a, b) ==
  \/ Dead(w)
  \/ a < Stage(w)
  \/ a = Stage(w) /\ b < pc[w] /\ b <= Len(prog)

Places == (Wave \X (0 .. StepCap + 1)) \X (0 .. Len(prog) + 1)
Spent == {x \in Places : Behind(x[1][1], x[1][2], x[2])}

\* Nobody has moved in this round yet: the waves looked at were parked or
\* gone already, or have just parked.
Idle ==
  /\ \A w \in Wave : w < turn => state[w] # "RUNNABLE"
  /\ anyActive => \E w \in Wave : state[w] = "WAITING"

\* Every round begun but the present one is paid for.
RoundsPaid ==
  outcome = "NONE" =>
    \/ ticks <= Cardinality(Spent)
    \/ turn # LoopHead /\ Idle /\ ticks <= Cardinality(Spent) + 1

SpentOK ==
  /\ IsFiniteSet(Spent) /\ Cardinality(Spent) \in Nat
  /\ Cardinality(Spent) <= NWaves * (StepCap + 2) * (Len(prog) + 2)

LEMMA SpentFinite == DataOK => SpentOK
<1> SUFFICES ASSUME DataOK PROVE SpentOK
  OBVIOUS
<1>1. Len(prog) \in Nat /\ NWaves \in Nat /\ StepCap \in Nat
  BY ProgramsAssumption, CapsAssumption DEF DataOK
<1>2. IsFiniteSet(Wave) /\ Cardinality(Wave) = NWaves
  <2>1. /\ IsFiniteSet(0 .. NWaves - 1)
        /\ Cardinality(0 .. NWaves - 1) = IF 0 > NWaves - 1 THEN 0 ELSE (NWaves - 1) - 0 + 1
    BY <1>1, FS_Interval
  <2> QED  BY <1>1, <2>1 DEF Wave
<1>3. IsFiniteSet(0 .. StepCap + 1) /\ Cardinality(0 .. StepCap + 1) = StepCap + 2
  <2>1. /\ IsFiniteSet(0 .. StepCap + 1)
        /\ Cardinality(0 .. StepCap + 1) =
             IF 0 > StepCap + 1 THEN 0 ELSE (StepCap + 1) - 0 + 1
    BY <1>1, FS_Interval
  <2> QED  BY <1>1, <2>1
<1>4. IsFiniteSet(0 .. Len(prog) + 1) /\ Cardinality(0 .. Len(prog) + 1) = Len(prog) + 2
  <2>1. /\ IsFiniteSet(0 .. Len(prog) + 1)
        /\ Cardinality(0 .. Len(prog) + 1) =
             IF 0 > Len(prog) + 1 THEN 0 ELSE (Len(prog) + 1) - 0 + 1
    BY <1>1, FS_Interval
  <2> QED  BY <1>1, <2>1
<1>5. /\ IsFiniteSet(Wave \X (0 .. StepCap + 1))
      /\ Cardinality(Wave \X (0 .. StepCap + 1)) = NWaves * (StepCap + 2)
  BY <1>2, <1>3, FS_Product
<1>6. /\ IsFiniteSet(Places)
      /\ Cardinality(Places) = NWaves * (StepCap + 2) * (Len(prog) + 2)
  BY <1>4, <1>5, FS_Product DEF Places
<1>7. Spent \in SUBSET Places
  BY DEF Spent
<1>8. IsFiniteSet(Spent) /\ Cardinality(Spent) <= Cardinality(Places)
  BY <1>6, <1>7, FS_Subset
<1>9. Cardinality(Spent) \in Nat
  BY <1>8, FS_CardinalityType
<1> QED  BY <1>6, <1>8, <1>9 DEF SpentOK


\* A wave is at one of its stages.
LEMMA StageType ==
  ASSUME DataOK, DataOK', NEW w \in Wave
  PROVE  Stage(w) \in 0 .. StepCap + 1 /\ Stage(w)' \in 0 .. StepCap + 1
BY CapsAssumption DEF Stage, DataOK

\* Wave w has not gone back; and it has moved on.
Ahead(w) ==
  /\ Dead(w) => Dead(w)'
  /\ \/ Dead(w)' \/ Stage(w) < Stage(w)'
     \/ Stage(w) = Stage(w)' /\ pc[w] <= pc'[w]
Further(w) ==
  /\ ~Dead(w)
  /\ \/ Dead(w)' \/ Stage(w) < Stage(w)'
     \/ Stage(w) = Stage(w)' /\ pc[w] < pc'[w] /\ pc[w] <= Len(prog)

\* A wave that has not gone back keeps its places behind it.
LEMMA Forward ==
  ASSUME DataOK, DataOK', NEW w \in Wave, prog' = prog, Ahead(w),
         NEW a \in 0 .. StepCap + 1, NEW b \in 0 .. Len(prog) + 1, Behind(w, a, b)
  PROVE  Behind(w, a, b)'
<1>1. /\ Stage(w) \in Int /\ Stage(w)' \in Int /\ pc[w] \in Int /\ pc'[w] \in Int
      /\ a \in Int /\ b \in Int
  <2>1. Stage(w) \in Int /\ Stage(w)' \in Int
    BY StageType
  <2> QED  BY <2>1 DEF DataOK
<1>2. CASE Dead(w)'
  BY <1>2 DEF Behind
<1>3. CASE ~Dead(w)' /\ a < Stage(w)
  BY <1>1, <1>3 DEF Behind, Ahead
<1>4. CASE ~Dead(w)' /\ a = Stage(w) /\ b < pc[w] /\ b <= Len(prog)
  <2>1. CASE Stage(w) < Stage(w)'
    BY <1>4, <2>1 DEF Behind
  <2>2. CASE Stage(w) = Stage(w)' /\ pc[w] <= pc'[w]
    <3>1. b < pc'[w] /\ a = Stage(w)' /\ b <= Len(prog')
      BY <1>1, <1>4, <2>2
    <3> QED  BY <3>1 DEF Behind
  <2> QED  BY <1>4, <2>1, <2>2 DEF Ahead
<1> QED
  BY <1>2, <1>3, <1>4 DEF Behind, Ahead

\* A live wave that got somewhere adds a place.
LEMMA SpentAdvances ==
  ASSUME DataOK, DataOK', prog' = prog, \A w \in Wave : Ahead(w),
         NEW u \in Wave, Further(u)
  PROVE  Cardinality(Spent) + 1 <= Cardinality(Spent')
<1>1. Places' = Places
  BY DEF Places, Wave
<1>2. ASSUME NEW x \in Spent PROVE x \in Spent'
  <2>1. x \in Places /\ Behind(x[1][1], x[1][2], x[2])
    BY DEF Spent
  <2>2. x[1][1] \in Wave /\ x[1][2] \in 0 .. StepCap + 1 /\ x[2] \in 0 .. Len(prog) + 1
    BY <2>1 DEF Places
  <2>3. Behind(x[1][1], x[1][2], x[2])'
    BY <2>1, <2>2, Forward
  <2> QED  BY <1>1, <2>1, <2>3 DEF Spent
<1>3. /\ Stage(u) \in 0 .. StepCap + 1 /\ Stage(u)' \in 0 .. StepCap + 1
      /\ pc[u] \in Nat \ {0} /\ pc'[u] \in Nat \ {0} /\ Len(prog) \in Nat
  <2>1. Stage(u) \in 0 .. StepCap + 1 /\ Stage(u)' \in 0 .. StepCap + 1
    BY StageType
  <2> QED  BY <2>1, ProgramsAssumption DEF DataOK
<1>3a. PICK m \in 0 .. StepCap + 1, p \in Nat \ {0}, n \in Nat :
               m = Stage(u) /\ p = pc[u] /\ n = Len(prog)
  BY <1>3
<1>4. PICK a \in 0 .. StepCap + 1, b \in 0 .. n + 1 : ~Behind(u, a, b) /\ Behind(u, a, b)'
  <2>0. /\ StepCap \in Nat /\ Len(prog') = n /\ Stage(u)' \in Int /\ pc'[u] \in Int
        /\ m \in Int /\ m <= StepCap + 1
    BY <1>3, <1>3a, CapsAssumption
  <2>1. CASE Dead(u)'
    <3>1. ~Behind(u, StepCap + 1, n + 1)
      BY <1>3a, <2>0 DEF Behind, Further
    <3>2. Behind(u, StepCap + 1, n + 1)'
      BY <2>1 DEF Behind
    <3>3. StepCap + 1 \in 0 .. StepCap + 1 /\ n + 1 \in 0 .. n + 1
      BY <2>0
    <3> QED  BY <3>1, <3>2, <3>3
  <2>2. CASE Stage(u) < Stage(u)'
    <3>1. ~Behind(u, m, n + 1)
      BY <1>3a, <2>0 DEF Behind, Further
    <3>2. Behind(u, m, n + 1)'
      BY <1>3a, <2>2 DEF Behind
    <3>3. n + 1 \in 0 .. n + 1
      BY <2>0
    <3> QED  BY <3>1, <3>2, <3>3
  <2>3. CASE Stage(u) = Stage(u)' /\ pc[u] < pc'[u] /\ pc[u] <= Len(prog)
    <3>1. ~Behind(u, m, p)
      BY <1>3a, <2>0 DEF Behind, Further
    <3>2. Behind(u, m, p)'
      BY <1>3a, <2>0, <2>3 DEF Behind
    <3>3. p \in 0 .. n + 1
      BY <1>3a, <2>3
    <3> QED  BY <3>1, <3>2, <3>3
  <2> QED  BY <2>1, <2>2, <2>3 DEF Further
<1>5. <<<<u, a>>, b>> \in Places
  BY <1>3a, <1>4 DEF Places
<1>6. <<<<u, a>>, b>> \in Spent' /\ <<<<u, a>>, b>> \notin Spent
  BY <1>1, <1>4, <1>5 DEF Spent
<1>7. SpentOK'
  BY SpentFinite, PTL
<1>7a. IsFiniteSet(Spent') /\ Cardinality(Spent') \in Nat
  BY <1>7 DEF SpentOK
<1>8. /\ Cardinality(Spent) <= Cardinality(Spent')
      /\ Cardinality(Spent) # Cardinality(Spent')
  BY <1>2, <1>6, <1>7a, FS_Subset, Zenon
<1>9. Cardinality(Spent) \in Nat
  BY SpentFinite DEF SpentOK
<1> QED  BY <1>7a, <1>8, <1>9


\* A wave that steps, ends or faults moves on; the others stay.
LEMMA MoverAdvances ==
  ASSUME DataOK, DataOK', NEW w \in Wave,
         FaultOverrun(w) \/ Step(w) \/ EndProgram(w) \/ FaultStep(w)
  PROVE  Further(w) /\ \A v \in Wave : Ahead(v)
<1>1. state[w] = "RUNNABLE" /\ ~Dead(w)
  BY MoverStates DEF Dead
<1>2. ASSUME Step(w) PROVE Further(w)
  <2>1. /\ steps'[w] = steps[w] + 1 /\ steps[w] \in Nat
        /\ ~Dead(w)' => ~(steps'[w] > StepCap)
    BY <1>2 DEF Step, CheckCap, DataOK, Dead
  <2>2. ~Dead(w)' => Stage(w) < Stage(w)'
    BY <2>1, CapsAssumption DEF Stage
  <2> QED  BY <1>1, <2>2 DEF Further
<1>3. ASSUME FaultOverrun(w) \/ EndProgram(w) \/ FaultStep(w) PROVE Further(w)
  <2>1. Dead(w)'
    BY <1>3 DEF FaultOverrun, EndProgram, FaultStep, CheckCap, DataOK, Dead
  <2> QED  BY <1>1, <2>1 DEF Further
<1>4. Further(w)
  BY <1>2, <1>3
<1>5. ASSUME NEW v \in Wave, v # w PROVE Ahead(v)
  <2>1. state'[v] = state[v] /\ pc'[v] = pc[v] /\ steps'[v] = steps[v]
    BY <1>5, MoverStates, MoverCounts
  <2>2. Dead(v)' = Dead(v) /\ Stage(v)' = Stage(v)
    BY <2>1 DEF Dead, Stage
  <2>3. pc[v] <= pc'[v]
    BY <2>1 DEF DataOK
  <2> QED  BY <2>2, <2>3 DEF Ahead
<1>6. Ahead(w)
  <2>1. pc[w] \in Int /\ pc'[w] \in Int
    BY DEF DataOK
  <2> QED  BY <1>4, <2>1 DEF Ahead, Further
<1> QED  BY <1>4, <1>5, <1>6

\* A release moves every live wave on.
LEMMA ReleaseAdvances ==
  ASSUME DataOK, DataOK', SiteHistory, Release
  PROVE  (\E u \in Wave : Further(u)) /\ \A v \in Wave : Ahead(v)
<1>1. ASSUME NEW v \in Wave, ~Dead(v) PROVE Further(v) /\ Ahead(v)
  <2>1. v \in Alive
    BY <1>1 DEF Alive
  <2>2. pc'[v] = pc[v] + 1 /\ steps'[v] \in {steps[v], steps[v] + 1}
    BY <2>1 DEF Release
  <2>3. AtBarrier(v)
    BY <2>1 DEF Release, AllParked, SiteHistory
  <2>4. pc[v] \in Nat /\ steps[v] \in Nat /\ Len(prog) \in Nat
    BY ProgramsAssumption DEF DataOK
  <2>5. pc[v] <= Len(prog)
    BY <2>3, <2>4 DEF AtBarrier, Overrun
  <2>6. Stage(v) < Stage(v)' \/ Stage(v) = Stage(v)'
    BY <2>2, <2>4, CapsAssumption DEF Stage
  <2>7. pc[v] < pc'[v] /\ pc[v] <= pc'[v]
    BY <2>2, <2>4
  <2> QED  BY <1>1, <2>5, <2>6, <2>7 DEF Further, Ahead
<1>2. ASSUME NEW v \in Wave, Dead(v) PROVE Ahead(v)
  <2>1. state'[v] = state[v]
    BY <1>2 DEF Release, Alive
  <2> QED  BY <1>2, <2>1 DEF Ahead, Dead
<1>3. PICK u \in Wave : ~Dead(u)
  BY DEF Release, AllParked, Alive
<1> QED  BY <1>1, <1>2, <1>3

\* Between the moves nothing is spent.
LEMMA SpentKept ==
  ASSUME UNCHANGED <<prog, pc, steps>>, \A w \in Wave : Dead(w)' <=> Dead(w)
  PROVE  Cardinality(Spent') = Cardinality(Spent)
<1>1. Places' = Places
  BY DEF Places, Wave
<1>2. \A w \in Wave, a \in 0 .. StepCap + 1, b \in 0 .. Len(prog) + 1 :
         Behind(w, a, b)' <=> Behind(w, a, b)
  BY DEF Behind, Stage
<1>3. ASSUME NEW x \in Places PROVE x \in Spent' <=> x \in Spent
  <2>1. x[1][1] \in Wave /\ x[1][2] \in 0 .. StepCap + 1 /\ x[2] \in 0 .. Len(prog) + 1
    BY DEF Places
  <2> QED  BY <1>1, <1>2, <2>1 DEF Spent
<1>4. Spent' = Spent
  BY <1>1, <1>3 DEF Spent
<1> QED  BY <1>4

\* The turn of a wave: either somebody moves, or the round stays idle.
LEMMA TurnPaid ==
  ASSUME DataOK, DataOK', RoundsPaid, NEW w \in Wave, Turn(w)
  PROVE  RoundsPaid'
<1>1. /\ outcome = "NONE" /\ outcome' = "NONE" /\ turn = w /\ turn' = w + 1
      /\ prog' = prog /\ ticks' = ticks /\ anyActive' = (anyActive \/ ~Dead(w))
  BY DEF Turn, Skip, FaultOverrun, Park, Step, EndProgram, FaultStep, TakeTurn
<1>2. turn # LoopHead /\ turn' # LoopHead
  BY <1>1, CapsAssumption DEF LoopHead, Wave
<1>3. Cardinality(Spent) \in Nat /\ ticks \in Nat /\ Cardinality(Spent') \in Nat
  <2>1. SpentOK /\ SpentOK'
    BY SpentFinite, PTL
  <2> QED  BY <2>1 DEF SpentOK, DataOK
<1>4. CASE FaultOverrun(w) \/ Step(w) \/ EndProgram(w) \/ FaultStep(w)
  <2>1. Cardinality(Spent) + 1 <= Cardinality(Spent')
    BY <1>1, <1>4, MoverAdvances, SpentAdvances
  <2>2. ticks <= Cardinality(Spent) + 1
    BY <1>1, <1>3 DEF RoundsPaid
  <2>3. ticks' <= Cardinality(Spent')
    BY <1>1, <1>3, <2>1, <2>2
  <2> QED  BY <2>3 DEF RoundsPaid
<1>5. CASE Skip(w) \/ Park(w)
  <2>1. Cardinality(Spent') = Cardinality(Spent)
    <3>1. \A v \in Wave : Dead(v)' <=> Dead(v)
      BY <1>5 DEF Skip, Park, Dead, DataOK
    <3>2. pc' = pc /\ steps' = steps
      BY <1>5 DEF Skip, Park
    <3> QED  BY <1>1, <3>1, <3>2, SpentKept
  <2>2. Idle => Idle'
    <3> SUFFICES ASSUME Idle PROVE Idle'
      OBVIOUS
    <3>1. state'[w] # "RUNNABLE" /\ (~Dead(w) => state'[w] = "WAITING")
      BY <1>5 DEF Skip, Park, Dead, DataOK
    <3>2. \A v \in Wave : v # w => state'[v] = state[v]
      BY <1>5 DEF Skip, Park, DataOK
    <3>3. \A v \in Wave : state[v] = "WAITING" => state'[v] = "WAITING"
      BY <1>5 DEF Skip, Park, DataOK
    <3>4. ASSUME NEW v \in Wave, v < turn' PROVE state'[v] # "RUNNABLE"
      <4>1. v = w \/ v < turn
        BY <1>1, <3>4 DEF Wave
      <4> QED  BY <3>1, <3>2, <4>1 DEF Idle
    <3>5. ASSUME anyActive' PROVE \E v \in Wave : state'[v] = "WAITING"
      BY <1>1, <3>1, <3>3, <3>5 DEF Idle
    <3> QED  BY <3>4, <3>5 DEF Idle
  <2> QED  BY <1>1, <1>2, <2>1, <2>2 DEF RoundsPaid
<1> QED  BY <1>4, <1>5 DEF Turn

\* The bound, and the cap it makes superfluous.
Paid == RoundsPaid /\ RoundCapNotNeeded

LEMMA StepPaid ==
  ASSUME DataOK, DataOK', SiteHistory, Paid, [Next]_vars
  PROVE  Paid'
<1>1. Cardinality(Spent) \in Nat /\ ticks \in Nat /\ Cardinality(Spent') \in Nat
      /\ Cardinality(Spent) <= NWaves * (StepCap + 2) * (Len(prog) + 2)
  <2>1. SpentOK /\ SpentOK'
    BY SpentFinite, PTL
  <2> QED  BY <2>1 DEF SpentOK, DataOK
<1>2. CASE BeginRound
  <2>1. /\ outcome = "NONE" /\ turn = LoopHead /\ ticks' = ticks + 1
        /\ UNCHANGED <<prog, pc, state, steps>>
    BY <1>2 DEF BeginRound
  <2>2. ticks <= Cardinality(Spent)
    BY <2>1 DEF Paid, RoundsPaid
  <2>3. CASE ticks' > RoundCap
    <3>1. outcome' = "ROUNDCAP" /\ prog' = prog
      BY <1>2, <2>3 DEF BeginRound
    <3>2. RoundCap <= Cardinality(Spent)
      BY <1>1, <2>1, <2>2, <2>3, CapsAssumption
    <3>3. PICK m : m = NWaves * (StepCap + 2) * (Len(prog) + 2)
      OBVIOUS
    <3>4. m \in Int
      BY <3>3, CapsAssumption, ProgramsAssumption DEF DataOK
    <3>5. ~(RoundCap > m)
      BY <1>1, <3>2, <3>3, <3>4, CapsAssumption
    <3> QED  BY <3>1, <3>3, <3>5 DEF Paid, RoundsPaid, RoundCapNotNeeded
  <2>4. CASE ~(ticks' > RoundCap)
    <3>1. outcome' = "NONE" /\ turn' = 0 /\ ~anyActive'
      BY <1>2, <2>1, <2>4 DEF BeginRound
    <3>2. Idle' /\ turn' # LoopHead
      BY <3>1, CapsAssumption DEF Idle, Wave, LoopHead
    <3>3. Cardinality(Spent') = Cardinality(Spent)
      BY <2>1, SpentKept DEF Dead
    <3>4. ticks' <= Cardinality(Spent') + 1
      BY <1>1, <2>1, <2>2, <3>3
    <3> QED  BY <3>1, <3>2, <3>4 DEF Paid, RoundsPaid, RoundCapNotNeeded
  <2> QED  BY <2>3, <2>4
<1>3. ASSUME NEW w \in Wave, Turn(w) PROVE Paid'
  <2>1. outcome' = "NONE"
    BY <1>3 DEF Turn, Skip, FaultOverrun, Park, Step, EndProgram, FaultStep, TakeTurn
  <2> QED  BY <1>3, <2>1, TurnPaid DEF Paid, RoundCapNotNeeded
<1>4. CASE Conclude \/ Diverge
  <2>1. outcome' \notin {"NONE", "ROUNDCAP"}
    BY <1>4 DEF Conclude, Diverge, Verdict
  <2> QED  BY <2>1 DEF Paid, RoundsPaid, RoundCapNotNeeded
<1>5. CASE Release
  <2>1. Cardinality(Spent) + 1 <= Cardinality(Spent')
    BY <1>5, ReleaseAdvances, SpentAdvances DEF Release
  <2>2. outcome = "NONE" /\ outcome' = "NONE" /\ ticks' = ticks
    BY <1>5 DEF Release
  <2>3. ticks' <= Cardinality(Spent')
    BY <1>1, <2>1, <2>2 DEF Paid, RoundsPaid
  <2> QED  BY <2>2, <2>3 DEF Paid, RoundsPaid, RoundCapNotNeeded
<1>6. CASE NextRound
  <2>1. /\ outcome = "NONE" /\ outcome' = "NONE" /\ ticks' = ticks /\ anyActive
        /\ turn = LoopTail /\ ~AllParked /\ UNCHANGED <<prog, pc, state, steps>>
    BY <1>6 DEF NextRound
  <2>2. ~Idle
    <3> SUFFICES ASSUME Idle PROVE FALSE
      OBVIOUS
    <3>1. \A w \in Wave : state[w] # "RUNNABLE"
      BY <2>1, CapsAssumption DEF Idle, LoopTail, Wave
    <3>2. \E w \in Wave : state[w] = "WAITING"
      BY <2>1 DEF Idle
    <3> QED  BY <2>1, <3>1, <3>2 DEF AllParked, Alive, Dead, DataOK
  <2>3. ticks <= Cardinality(Spent)
    BY <2>1, <2>2 DEF Paid, RoundsPaid
  <2>4. Cardinality(Spent') = Cardinality(Spent)
    BY <2>1, SpentKept DEF Dead
  <2> QED  BY <2>1, <2>3, <2>4 DEF Paid, RoundsPaid, RoundCapNotNeeded
<1>7. CASE UNCHANGED vars
  <2>1. Cardinality(Spent') = Cardinality(Spent)
    BY <1>7, SpentKept DEF vars, Dead
  <2>2. Idle' <=> Idle
    BY <1>7 DEF vars, Idle
  <2> QED  BY <1>7, <2>1, <2>2 DEF vars, Paid, RoundsPaid, RoundCapNotNeeded
<1> QED  BY <1>2, <1>3, <1>4, <1>5, <1>6, <1>7 DEF Next, Terminating

\* The step caps alone end every run (RoundCapNotNeeded): a program of any
\* length, run by any number of waves, never needs the cap on rounds.
THEOREM RoundCapNotNeededCorrect == Spec => []RoundCapNotNeeded
<1>1. Init => DataOK
  <2>1. NWaves + 1 \in 0 .. NWaves + 1
    BY CapsAssumption
  <2> QED  BY <2>1 DEF Init, LoopHead, DataOK
<1>2. ASSUME Init PROVE Paid
  <2>1. SpentOK
    BY <1>1, <1>2, SpentFinite
  <2>2. outcome = "NONE" /\ ticks = 0
    BY <1>2 DEF Init
  <2>3. ticks <= Cardinality(Spent)
    BY <2>1, <2>2 DEF SpentOK
  <2> QED  BY <2>2, <2>3 DEF Paid, RoundsPaid, RoundCapNotNeeded
<1>3. Paid => RoundCapNotNeeded
  BY DEF Paid
<1> QED
  BY <1>2, <1>3, StepPaid, DataCorrect, SiteHistoryCorrect, PTL DEF Spec

=============================================================================
