------------------------------ MODULE GlobalGate ------------------------------
(***************************************************************************)
(* The global-OOB gate over the memory of GlobalMemory.  GateCore checks   *)
(* the effective address of every vector access against the declared       *)
(* regions before the access is made, counts it, and keeps a bounded       *)
(* number of detail records; the run passes if nothing was out of bounds   *)
(* and nothing was of unknown width.                                       *)
(*                                                                         *)
(* An action of this module is an action of GlobalMemory made by one wave  *)
(* at one instruction of the program, with the gate's note of it.          *)
(***************************************************************************)
EXTENDS GlobalMemory, Sequences

CONSTANTS Waves,        \* indices of the waves; the first is 0
          Sites,        \* addresses of the instructions
          Regions,      \* the declared regions <<lo, hi>>, hi excluded
          RecCap,       \* P14_OOB_REC_CAP; 0 keeps every record
          MaxAccesses   \* bound: accesses of a run

VARIABLES gate,  \* the counters of GlobalGate
          log    \* observation: every access in order, as made

gvars == <<mem, access, operands, gate, log>>

ASSUME GateAssumption ==
    /\ 0 \in Waves
    /\ RecCap \in Nat /\ MaxAccesses \in Nat
    /\ \A r \in Regions : r[1] \in Nat /\ r[2] \in Nat

Declared == UNION {r[1] .. (r[2] - 1) : r \in Regions}

(* Mutant: only the first byte of the access is located.                 *)
MutLocate(a, n) == \E r \in Regions : r[1] <= a /\ a < r[2]

(* GlobalGate.locate: one region holds the whole access.                   *)
Locate(a, n) == \E r \in Regions : r[1] <= a /\ a + n <= r[2]

(* GateCore._width_of knows the loads and the stores; the mnemonic of the  *)
(* compare-and-swap matches no entry of the table and gets width 0.        *)
Measured(kind) == kind \in {"load", "store"}

(* GateCore.wave_index: a class attribute that run_case sets to 0.         *)
WaveIndex(w) == 0

GateInit == [ops |-> 0, reads |-> 0, writes |-> 0, oobReads |-> 0, oobWrites |-> 0,
             bySite |-> [s \in Sites |-> [read |-> 0, write |-> 0]],
             byWave |-> [w \in Waves |-> 0],
             kept |-> 0, dropped |-> 0, unmeasured |-> 0]

Ok(g) == g.oobReads = 0 /\ g.oobWrites = 0 /\ g.unmeasured = 0

(* GlobalGate.note for an access that no region holds.                     *)
NoteOob(g, store, w, s) ==
    LET keep == RecCap = 0 \/ g.kept < RecCap IN
    [g EXCEPT !.oobReads = IF store THEN @ ELSE @ + 1,
              !.oobWrites = IF store THEN @ + 1 ELSE @,
              !.bySite[s].read = IF store THEN @ ELSE @ + 1,
              !.bySite[s].write = IF store THEN @ + 1 ELSE @,
              !.byWave[WaveIndex(w)] = @ + 1,
              !.kept = IF keep THEN @ + 1 ELSE @,
              !.dropped = IF keep THEN @ ELSE @ + 1]

(* GateCore._gl_addr: count the access, then measure it, then locate it.   *)
Note(g, kind, a, n, w, s) ==
    LET store == kind # "load"
        counted == [g EXCEPT !.ops = @ + 1]
        sorted == IF store THEN [counted EXCEPT !.writes = @ + 1]
                           ELSE [counted EXCEPT !.reads = @ + 1]
    IN  IF ~Measured(kind) THEN [counted EXCEPT !.unmeasured = @ + 1]
        ELSE IF Locate(a, n) THEN sorted
        ELSE NoteOob(sorted, store, w, s)

Record(w, s) ==
    log' = Append(log, [wave |-> w, site |-> s, kind |-> access'.kind,
                        addr |-> access'.addr, n |-> access'.n])

(* A vector access goes through _gl_addr.                                  *)
GatedAccess(w, s) ==
    /\ Len(log) < MaxAccesses
    /\ Load \/ Store \/ Swap
    /\ gate' = Note(gate, access'.kind, access'.addr, access'.n, w, s)
    /\ Record(w, s)

(* A scalar load goes through _sload, which asks no gate.                  *)
UngatedAccess(w, s) ==
    /\ Len(log) < MaxAccesses
    /\ Sload
    /\ UNCHANGED gate
    /\ Record(w, s)

GInit == Init /\ gate = GateInit /\ log = <<>>

GNext == \E w \in Waves, s \in Sites : GatedAccess(w, s) \/ UngatedAccess(w, s)

GSpec == GInit /\ [][GNext]_gvars

-----------------------------------------------------------------------------
Vector(e) == e.kind # "sload"
OutOfBounds(e) == Measured(e.kind) /\ Vector(e) /\ ~Locate(e.addr, e.n)
Count(P(_)) == Cardinality({i \in DOMAIN log : P(log[i])})

(* The counts stay exact however many records the cap drops: every counter *)
(* is the number of accesses of its kind in the run.                       *)
CountsExact ==
    LET reads(e) == e.kind = "load"
        writes(e) == e.kind = "store"
        oobReads(e) == e.kind = "load" /\ OutOfBounds(e)
        oobWrites(e) == e.kind = "store" /\ OutOfBounds(e)
        vector(e) == Vector(e)
        unmeasured(e) == Vector(e) /\ e.kind = "cas"
    IN  /\ gate.ops = Count(vector)
        /\ gate.reads = Count(reads) /\ gate.writes = Count(writes)
        /\ gate.oobReads = Count(oobReads) /\ gate.oobWrites = Count(oobWrites)
        /\ gate.unmeasured = Count(unmeasured)
        /\ \A s \in Sites :
              LET at(e) == OutOfBounds(e) /\ e.site = s
              IN  gate.bySite[s].read + gate.bySite[s].write = Count(at)

(* The detail records are bounded, and the summary's counted form is used  *)
(* exactly when a record was dropped because the cap was reached.          *)
RecordsWithinCap ==
    /\ RecCap > 0 => gate.kept <= RecCap
    /\ gate.kept + gate.dropped = gate.oobReads + gate.oobWrites
    /\ gate.dropped > 0 => gate.kept = RecCap

(* The verdict: the gate passes exactly when every vector access of the    *)
(* run had a known width and lay inside one region.                        *)
VerdictExact ==
    Ok(gate) <=> \A i \in DOMAIN log :
                    Vector(log[i]) => /\ log[i].kind # "cas"
                                      /\ \E r \in Regions : /\ r[1] <= log[i].addr
                                                            /\ log[i].addr + log[i].n <= r[2]

(* What a pass is for: as long as the gate passes, nothing a program reads *)
(* outside the declared regions has changed.                               *)
PassMeansConfined ==
    [][Ok(gate') => \A a \in Keys \ Declared : View'[a] = View[a]]_gvars
=============================================================================
