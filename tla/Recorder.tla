------------------------------- MODULE Recorder -------------------------------
(***************************************************************************)
(* What the emulator keeps of the accesses it makes.  The core of every    *)
(* wave has a bounded AccessRecorder g_ops for its global accesses, fed by *)
(* RecCore._gl_addr before GateCore's gate counts the access, and a record *)
(* container for its DS operations, an AggRecords or a plain list.         *)
(*                                                                         *)
(* What g_ops keeps is decided by a configuration on the class, which      *)
(* tools install around a run by nested "with full_trace(...)" and         *)
(* "with targeted(...)"; a core reads it once, when it is built.  A full   *)
(* trace that reaches its budget raises in the wave that exceeds it: the   *)
(* driver calls that wave faulted and goes on with the others.             *)
(*                                                                         *)
(* An action is an action of GlobalGate with the record made of it.        *)
(***************************************************************************)
EXTENDS GlobalGate

CONSTANTS Requests,     \* what tools ask for, as [mode, targets, sampleCap, budget]
          DefaultRequest, \* the class attributes of RecorderConfig
          AggCap,       \* HWCore.agg_sample_cap
          MaxContexts   \* bound: contexts open at a time

Modes == {"AGGREGATE", "TARGETED_TRACE", "FULL_TRACE"}

ASSUME RequestAssumption ==
  /\ Requests \cup {DefaultRequest} \subseteq
       [mode : Modes, targets : SUBSET Sites, sampleCap : Nat, budget : Nat]
  /\ AggCap \in Nat /\ MaxContexts \in Nat

VARIABLES config,    \* the class attributes of RecorderConfig
          contexts,  \* the open contexts: what each asked for and will restore
          g_ops,     \* the recorder of each wave's core; empty before they are built
          ds_ops,    \* its container of DS records
          raised,    \* the waves that exceeded a budget
          asked,     \* observation: the innermost request when the cores were built
          dsLog      \* observation: the DS operations of the run, in order

rvars == <<gvars, config, contexts, g_ops, ds_ops, raised, asked, dsLog>>
recorders == <<g_ops, ds_ops, raised, asked, dsLog>>

Built == DOMAIN g_ops # {}

-----------------------------------------------------------------------------
(* RecorderConfig and the contexts.                                        *)

\* RecorderConfig.install refuses a targeted trace without targets and a full
\* trace without a budget; the with statement then raises and opens nothing.
Refused(r) ==
  \/ r.mode = "TARGETED_TRACE" /\ r.targets = {}
  \/ r.mode = "FULL_TRACE" /\ r.budget = 0

With(r) ==
  /\ Len(contexts) < MaxContexts /\ ~Refused(r)
  /\ contexts' = Append(contexts, [asks |-> r, prev |-> config])
  /\ config' = r
  /\ UNCHANGED <<gvars, recorders>>

Innermost == contexts[Len(contexts)]
Rest == SubSeq(contexts, 1, Len(contexts) - 1)

\* Mutant: only the mode is put back.
MutLeave ==
  /\ contexts # <<>>
  /\ contexts' = Rest
  /\ config' = [config EXCEPT !.mode = Innermost.prev.mode]
  /\ UNCHANGED <<gvars, recorders>>

\* __exit__, with or without an exception.
Leave ==
  /\ contexts # <<>>
  /\ contexts' = Rest
  /\ config' = Innermost.prev
  /\ UNCHANGED <<gvars, recorders>>

-----------------------------------------------------------------------------
(* The records.                                                            *)

\* recorder_for; lo > hi while no address has been seen.
New(c) ==
  [conf |-> c, n |-> 0, nRead |-> 0, nWrite |-> 0, lo |-> Size, hi |-> 0,
   byPc |-> [s \in Sites |-> 0], byOpcode |-> [k \in {"load", "store", "cas"} |-> 0],
   kept |-> <<>>, seen |-> {}, nKept |-> 0, nDropped |-> 0]

\* AggRecords of a capacity, or with cap 0 the plain list that keeps all.
NewDs(cap) == [cap |-> cap, n |-> 0, sample |-> <<>>]

\* The cores of all waves are built in one loop of _run_wg_hw, and agg_lds is
\* restored when the run returns.
Build ==
  /\ ~Built
  /\ g_ops' = [w \in Waves |-> New(config)]
  /\ \E cap \in {0, AggCap} : ds_ops' = [w \in Waves |-> NewDs(cap)]
  /\ asked' = IF contexts = <<>> THEN DefaultRequest ELSE Innermost.asks
  /\ UNCHANGED <<gvars, config, contexts, raised, dsLog>>

\* The budget is asked before anything is counted.
OverBudget(g) == g.conf.mode = "FULL_TRACE" /\ g.n >= g.conf.budget

\* A full trace keeps everything.
Keeps(g, s) ==
  /\ g.conf.mode = "TARGETED_TRACE" => s \in g.conf.targets
  /\ g.conf.mode = "AGGREGATE" => Len(g.kept) < g.conf.sampleCap \/ s \notin g.seen

\* Mutant: what is not kept is not counted for its site.
MutAppended(g, kind, a, s) ==
  LET keep == Keeps(g, s) IN
  [g EXCEPT !.n = @ + 1,
            !.nRead = IF kind = "load" THEN @ + 1 ELSE @,
            !.nWrite = IF kind = "load" THEN @ ELSE @ + 1,
            !.lo = IF a < @ THEN a ELSE @, !.hi = IF a > @ THEN a ELSE @,
            !.byPc[s] = IF keep THEN @ + 1 ELSE @, !.byOpcode[kind] = @ + 1,
            !.kept = IF keep THEN Append(@, <<kind # "load", a, s>>) ELSE @,
            !.seen = IF keep THEN @ \cup {s} ELSE @,
            !.nKept = IF keep THEN @ + 1 ELSE @, !.nDropped = IF keep THEN @ ELSE @ + 1]

\* AccessRecorder.append within its budget.
Appended(g, kind, a, s) ==
  LET keep == Keeps(g, s) IN
  [g EXCEPT !.n = @ + 1,
            !.nRead = IF kind = "load" THEN @ + 1 ELSE @,
            !.nWrite = IF kind = "load" THEN @ ELSE @ + 1,
            !.lo = IF a < @ THEN a ELSE @, !.hi = IF a > @ THEN a ELSE @,
            !.byPc[s] = @ + 1, !.byOpcode[kind] = @ + 1,
            !.kept = IF keep THEN Append(@, <<kind # "load", a, s>>) ELSE @,
            !.seen = IF keep THEN @ \cup {s} ELSE @,
            !.nKept = IF keep THEN @ + 1 ELSE @, !.nDropped = IF keep THEN @ ELSE @ + 1]

\* AggRecords.append, and the append of a list.
DsAppended(d, s) ==
  [d EXCEPT !.n = @ + 1,
            !.sample = IF d.cap = 0 \/ Len(@) < d.cap THEN Append(@, s) ELSE @]

-----------------------------------------------------------------------------
(* Accesses.                                                               *)

Runs(w) == Built /\ w \notin raised
NotFull == Len(log) + Len(dsLog) < MaxAccesses

\* _gl_addr of a vector access, and what its handler then does.
Vectored(w, s) ==
  /\ Runs(w) /\ NotFull /\ ~OverBudget(g_ops[w])
  /\ GatedAccess(w, s)
  /\ g_ops' = [g_ops EXCEPT ![w] = Appended(@, access'.kind, access'.addr, s)]
  /\ UNCHANGED <<config, contexts, ds_ops, raised, asked, dsLog>>

\* FullTraceBudgetExceeded: the gate hears nothing and the access is not made.
Exceeded(w) ==
  /\ Runs(w) /\ OverBudget(g_ops[w])
  /\ raised' = raised \cup {w}
  /\ UNCHANGED <<gvars, config, contexts, g_ops, ds_ops, asked, dsLog>>

\* A scalar load is not recorded.
Unrecorded(w, s) ==
  /\ Runs(w) /\ NotFull
  /\ UngatedAccess(w, s)
  /\ UNCHANGED <<config, contexts, recorders>>

\* One active lane of a DS operation (whose effect is modelled by LdsAccess).
DsOperation(w, s) ==
  /\ Runs(w) /\ NotFull
  /\ ds_ops' = [ds_ops EXCEPT ![w] = DsAppended(@, s)]
  /\ dsLog' = Append(dsLog, [wave |-> w, site |-> s])
  /\ UNCHANGED <<gvars, config, contexts, g_ops, raised, asked>>

RInit ==
  /\ GInit
  /\ config = DefaultRequest /\ contexts = <<>>
  /\ g_ops = <<>> /\ ds_ops = <<>> /\ raised = {}
  /\ asked = DefaultRequest /\ dsLog = <<>>

RNext ==
  \/ \E r \in Requests : With(r)
  \/ Leave \/ Build
  \/ \E w \in Waves : Exceeded(w)
  \/ \E w \in Waves, s \in Sites : Vectored(w, s) \/ Unrecorded(w, s) \/ DsOperation(w, s)

RSpec == RInit /\ [][RNext]_rvars

-----------------------------------------------------------------------------
(* What the recorder promises.                                             *)

\* The positions of the vector accesses of a wave, those of a kind and those at
\* a site, their addresses; and the positions of its DS operations.
Made(w) == {i \in DOMAIN log : log[i].wave = w /\ Vector(log[i])}
MadeBy(w, kind) == {i \in Made(w) : log[i].kind = kind}
MadeAt(w, s) == {i \in Made(w) : log[i].site = s}
MadeTo(w) == {log[i].addr : i \in Made(w)}
DsMade(w) == {i \in DOMAIN dsLog : dsLog[i].wave = w}

\* The i-th member of a set of positions is the one of rank i.
Rank(P, i) == Cardinality({j \in P : j <= i})

\* A sequence of records holds what happened at P, in the order it happened.
Lists(records, P, happened) ==
  /\ Len(records) = Cardinality(P)
  /\ \A i \in P : records[Rank(P, i)] = happened[i]

\* Every count is exact in every mode, whatever was kept or dropped: reads,
\* writes, the range of the addresses, each site and each opcode; and the
\* recorders of all waves together have counted what the gate has.
WaveExact(w) ==
  LET g == g_ops[w] IN
  /\ g.n = Cardinality(Made(w)) /\ g.n = g.nKept + g.nDropped /\ g.nKept = Len(g.kept)
  /\ g.nRead = Cardinality(MadeBy(w, "load")) /\ g.nWrite = g.n - g.nRead
  /\ MadeTo(w) # {} => {g.lo, g.hi} \subseteq MadeTo(w) /\ MadeTo(w) \subseteq g.lo .. g.hi
  /\ \A s \in Sites : g.byPc[s] = Cardinality(MadeAt(w, s))
  /\ \A k \in DOMAIN g.byOpcode : g.byOpcode[k] = Cardinality(MadeBy(w, k))

RecorderExact ==
  Built => /\ \A w \in Waves : WaveExact(w) /\ ds_ops[w].n = Cardinality(DsMade(w))
           /\ gate.ops = Cardinality({i \in DOMAIN log : Vector(log[i])})

\* The counters of the gate and of the recorders, which count the same accesses
\* apart from one another, stay exact while the records of both are bounded.
AllCountsExact == CountsExact /\ RecordsWithinCap /\ RecorderExact

Records == [i \in DOMAIN log |-> <<log[i].kind # "load", log[i].addr, log[i].site>>]
DsRecords == [i \in DOMAIN dsLog |-> dsLog[i].site]

\* Whether the request promises the record of the access at position i: a full
\* trace of every one, a targeted trace of those at the targets, and else of
\* the first sampleCap and of the first at every site.
Promised(w, i) ==
  /\ asked.mode = "TARGETED_TRACE" => log[i].site \in asked.targets
  /\ asked.mode = "AGGREGATE" =>
       \/ Rank(Made(w), i) <= asked.sampleCap
       \/ \A j \in Made(w) : j < i => log[j].site # log[i].site

\* Complete, or a prefix of the capacity.
DsPromised(w, i) == ds_ops[w].cap = 0 \/ Rank(DsMade(w), i) <= ds_ops[w].cap

\* What is kept is what the innermost open context promised when the cores were
\* built, "so no site is invisible"; a full trace that reaches its budget is an
\* exception in that wave and never a truncated record.  DS records are
\* complete or a prefix whose loss is counted.
KeptAsPromised ==
  Built => \A w \in Waves :
    /\ Lists(g_ops[w].kept, {i \in Made(w) : Promised(w, i)}, Records)
    /\ asked.mode = "FULL_TRACE" => Cardinality(Made(w)) <= asked.budget
    /\ w \in raised => asked.mode = "FULL_TRACE" /\ Cardinality(Made(w)) = asked.budget
    /\ Lists(ds_ops[w].sample, {i \in DsMade(w) : DsPromised(w, i)}, DsRecords)
=============================================================================
