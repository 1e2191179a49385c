# Formal models of gfx1030-dlss-nr-research

TLA+ modules, TLC configurations and TLAPS proofs for the code of this
repository. Paths below are relative to the repository root (`src/emulator/...`
is `src/src/emulator/...` in `PROJECT.json`, which keeps, for every definition,
the lines it models).

- [The system](#the-system)
- [Where the hard behaviour is](#where-the-hard-behaviour-is)
- [Modules](#modules)
- [Runs and bounds](#runs-and-bounds)
- [Fairness](#fairness)
- [Proofs](#proofs)
- [Disagreements between the code and what is said of it](#disagreements-between-the-code-and-what-is-said-of-it)
- [What is not modelled](#what-is-not-modelled)
- [Plan](#plan)

## The system

The repository studies running GPU kernels compiled for another target on
gfx1030. It contains an emulator of the instruction set in Python, the evidence
tools around it, a bridge DLL that forwards the HIP runtime's API, and the
scripts by which a private research tree is published.

```
 code object ── decode / rebuild ──> instructions ──> emulator core
                                                       │      │
              scalar oracle (independent semantics) ───┘      │
                                                              v
   memory image ── global memory ── OOB gate        waves ── workgroup driver ── LDS
                                                              │
                                      access recorder <───────┤
                                                              v
                                             reports, evidence tools, publication

 application ── amdhip64_7.dll (bridge) ── amdhip64_6.dll (real runtime or mock)
```

| component | code | state it keeps | operations |
|---|---|---|---|
| Workgroup driver | `src/emulator/wg_emu.py`, `p14eh.py` (`_run_wg_hw`) | state, pc, parked site and step count of each wave; round; completed barrier epochs; faults | a round-robin turn for each wave, park, release, fault, end, verdict |
| Wave core | `src/emulator/emu.py`, `p14d8_core.py`, `p14e_emu.py`, `src/isa/p16i_isa.py` | SGPR, VGPR, EXEC, VCC, SCC, pc | one handler for each mnemonic |
| Global memory | `emu.py`, `p14d8_core.py`, `tools/p16j_input.py` | a dictionary of addresses to dwords *and* bytes; pattern-backed regions | vector and scalar loads, stores, compare-and-swap |
| Global-OOB gate | `src/isa/p16h_global_gate.py` | declared regions, counters, capped detail records | note an access, verdict |
| LDS | `p14eh.py` (`HWCore`), `p14e_emu.py`, `p16i_isa.py` | one byte image for each workgroup; M0, allocation and hypothesis of the run | DS loads and stores, pairs, permutes |
| Access recorder | `p16k_recorder.py`, `p14d11_emu.py` | events, counts, samples, budget | record before a step, summarise |
| Scratch | `src/isa/p16e_rec.py` | private bytes of each lane | scratch loads and stores |
| Entry state | `p14d11_emu.py`, `p14d_dec.py`, `p14d_kd.py`, `p14d8_core.py` | declared registers of a kernel descriptor | set up a wave, report reads of undeclared registers |
| Cycle detection | `emu.py` (`Core.step`) | signatures of earlier states | compare every 256 steps |
| Float conversion | `emu.py` | none | f16/f32 conversions, classes, comparisons |
| Scalar oracle | `src/oracle/` | none | a second reading of the scalar instructions |
| Dependence analyses | `src/isa/p14d_live.py`, `p16g_isa.py`, `tools/p16g_*.py` | fixpoints over a control-flow graph | definitions, uses, reads before definition |
| Decode and rebuild | `src/isa/p14d_mcbitmap.py`, `p14d_rebuild.py`, `p16e_lib.py`, `p16h_lib.py` | none between calls | parse, patch and disassemble a code object |
| HIP bridge | `src/bridge/amdhip64_7.cpp` | the lazily loaded backend and its exports, the two gates, the last error of the backend | one wrapper for each HIP export |
| Fatbin identity | `src/bridge/registry_ident.cpp` | none | decide whether a bundle is the one the bridge substitutes |
| Bridge log | `amdhip64_7.cpp` | a file with a size cap | append a line |
| Host jobs | `scripts/run_host_job.ps1`, `tools/p16j_job_status.py` | heartbeat, completion and marker files | launch, watch, time out, report |
| Evidence tools | `tools/p16j_*.py`, `c_freeze.py`, `k_readiness.py` | result files | compare, hash, decide |
| Publication helper | `scripts/prepare_publication_sync.py` | private tree, public tree, manifest, `.tmp` files, backups | scan, report, apply, verify, roll back |
| Publication verifier | `scripts/verify_publication.py` | none | independent checks of the public tree |
| Emulator reports, static scanners, harnesses, smoke tests, CI | | none that outlives a call | tables, listings, host programs |

The parts interact by calls and by shared mutable state:

- all waves of a workgroup share one LDS image and one global-memory dictionary;
  the driver interleaves them at barriers only, one wave at a time;
- the recorder and the gate parse the operands *before* the step, with their own
  code, and the handler parses them again;
- bridge wrappers run on the application's threads; they share function-local
  statics and environment-variable gates that may be switched between calls;
- the publication helper shares the private tree with an editor and the public
  tree with the maintainer's own git commands, and it may be killed anywhere.

## Where the hard behaviour is

`PROJECT.json` lists each hazard at its line with the properties that would
catch it. In short:

- *barriers*: waves park, end and fault in any order. A release must wait for
  all that are still in, never for one that is gone, and never pair two sites;
- *verdicts*: "no wave is active" is true of success, of failure and of an empty
  workgroup, and a fault can be overwritten while the release loop runs;
- *mixed representations*: the memory dictionary holds dwords and bytes under
  the same keys, so one address can have three sources;
- *two readings of one instruction*: recorder against handler, unified LDS
  bodies against the ones they replaced;
- *caps*: bounded records must not change exact counters or verdicts;
- *time of check, time of use*: the private file that was scanned against the
  bytes that are published and the hash that is recorded;
- *crash and partial failure*: a kill between two writes, a failing write, a
  failing rollback, a failing `git status`;
- *first calls from several threads*, a backend with missing exports, a gate
  that is switched while calls are under way;
- *what one instruction means*: a tower of classes that override each other's
  handlers, operands that are Python integers and not words, lanes that are off,
  carries that go to VCC or to an SGPR, roundings that happen twice, NaN;
- *a configuration that a tool installs around a run* and that each core copies
  when it is built, with a budget that raises in the middle of a wave;
- *a job and those who watch it*: a runner that may be killed between two files, a
  worker that survives its parent, a reader that takes four snapshots at four
  moments.

What makes each component correct, in one sentence:

- driver: it is a barrier, for every program, and its verdict is what the
  waves' states say;
- global memory: what is read at an address is what was last stored there, else
  what was primed, else the pattern;
- gate: a pass means every access was inside one region, and nothing outside
  has changed;
- LDS: one byte memory for each workgroup that ends at the limit, and the
  records are the accesses;
- helper: nothing unscanned or sensitive is published, a manifest entry speaks
  of one version of one file, and no tree is called current that is torn;
- bridge: the backend is loaded once, launches and substitutions obey the gates,
  and no call that misses the backend reports success;
- instructions: two programs written apart, and two instructions that mean the
  same, give the same result wherever no disagreement is named;
- floats: what leaves an operation is within a place of the exact value, on the
  right side of its neighbours;
- recorder: counts are exact whatever is kept, and what a mode promises to keep
  is kept or the wave stops;
- cycle search: a wave is halted for a cycle only if it would never end;
- host job: a record says what happened, and a job that is started gets one.

## Modules

Each component has a module of its own, an `MC...` module with the values of its
constants, and (where proved) a `..._proofs` module; `Memory_proofs` has the theorems on
global memory, on the gate before it and the recorders beside it, and on the LDS. Abstract specifications are
separate modules that the detailed one instantiates under a refinement mapping.
A definition whose name begins with `Mut` is a plausible bug in the definition
below it; no specification uses it. It is there to show that the property it is
listed with notices.

### `WorkgroupBarrier`, `WorkgroupDriver`: the workgroup loop

`WorkgroupBarrier` is what a barrier promises, with no program and no scheduler:
a wave arrives at a site, leaves for good, or all that are present at one site
go on together (`Arrive`, `Leave`, `Complete`). `Rendezvous` says why one wants
it: waves still present have passed the same number of barriers.

`WorkgroupDriver` is `_run_wg_hw` (`p14eh.py`) and `run_workgroup`
(`wg_emu.py`), chosen by `Variant`; the loops are copies that differ in their
verdict. `turn` is the position in the loop: its head (`BeginRound`: count the
round, test `round_cap`), a wave's turn in the `for` (`Turn`: skip, overrun,
park, step, end, fault), or the tail (`Conclude`, `Diverge`, `Release`,
`NextRound`). A program is a sequence of instructions reduced to what the driver
sees of `core.step()`; `gws` is an instruction the driver parks on because its
mnemonic contains "barrier" although no handler exists. `CheckCap` is the test
*after* the `try`, which overwrites what the step decided; `Release` has no such
test. `Barrier` is the refinement mapping: sites parked at, less the current.

### `PublicationSync`: the publication helper

`prepare_publication_sync.py`, with one step for one manifest entry, because an
editor may change the private tree (`EditSource`) between two of them. A run is
`Start`, the scan (`ScanDrift`, `ScanUnchanged`, `ScanSensitive`, `ScanChange`),
then `Conclude`, `Refuse` or an apply (`Accept`, `WriteFile`, `SkipFile`,
`WriteManifest`, the verifier, `RestoreFile`, `RestoreManifest`). A write can
raise with or without its `.tmp` file left (`litter`), the verifier and
`git status` can fail, and `Killed` may come at any step. `Commit` and
`Restore` are the maintainer's own git commands between runs. A content stands
for its own hash.

### `Bridge`: the HIP bridge

`amdhip64_7.cpp` as threads see it. A call is `Enter`, then the resolution of
its export (`UseStatic`, or `BeginLoad`/`EndLoad` by the first thread while
others wait on the function-local static, then `Resolve` or `ResolveFails`), then
the body: `Identify` and `CallRegister`, the launch gate (`GateOpen`,
`GateClosed`), or a plain forward. `Toggle` is a change of either environment
variable by any thread. The wrappers `BRIDGE_FWD_ERR` defines are one member of
`Wrapper`, `forward`. The backend runtime is outside the repository and is
modelled from how the wrappers use it: exports present or not, a handle for a
registration, an error for each thread.

### `ByteMemory`, `GlobalMemory`: global memory

`ByteMemory` is a byte-addressed memory. `GlobalMemory` is the dictionary
`Core8` really keeps: a key maps to a dword or to a byte, and `ReadByte` asks
the byte key, then the dword key, then the pattern, in the order of
`_mem_byte`. `VectorLoad`, `ScalarLoad`, `VectorStore` and `CompareAndSwap` are
the handlers. `View`, the function from addresses to what is read there, is the
refinement mapping. It is a refinement for *representable* stores only
(`StoresRepresentable`): a byte stored at a dword's own key changes its neighbours
(see [Disagreements](#disagreements-between-the-code-and-what-is-said-of-it)).
`Bytes` declares the bytes that global memory and LDS both hold.

### `GlobalGate`, `Recorder`: who watches the accesses

An action of `GlobalGate` is an action of `GlobalMemory` with the gate's note of
it, made by a wave at a site. `log` is an observer: the accesses in order, against
which the counters, the capped records and the verdict are compared.

`Recorder` composes it with what each wave's core keeps for itself: the
`AccessRecorder` `g_ops`, which `RecCore._gl_addr` feeds before the gate counts, and
the container of DS records, an `AggRecords` or a list (`DsOperation`). `With` and
`Leave` are the nested contexts in which tools ask for a mode (`RecorderConfig`);
`Build` is the moment a core copies the configuration; `Exceeded` is the full trace
that raises at its budget, before the gate has counted; `Unrecorded` is a scalar
load, which no one notes. The trace tools that force a full trace on a core of
their own are left out.

### `SharedLds`, `LdsAccess`: LDS

`SharedLds` is one byte memory that ends at a limit: loads beyond it give
zeros, stores beyond it nothing, and of the stores of one instruction that overlap the
last lane's wins, of one lane's two the second (`Wins`). `LdsAccess` has
the forms `HWCore` executes (`DsLoad`, `DsStore`, `DsLoad2`, `DsStore2`,
`DsLoad2B32`, `DsStore2B32`, `Bpermute`) with the address hypotheses of the class
(`Models`), beside two other readings of the same instruction: what the
recorder writes down before the step (`Recorded`) and what the legacy bodies
did. `Disciplined` restricts a program to the instructions on which the three
are meant to agree; `MCLdsAccess` keeps instructions of the other kind
(`Overlapping`, `Far`) for a run without the restriction.

### `ExecMask`: divergent control flow

The part of `Core` that decides which lanes an instruction works on. A mask is
the set of the lanes whose bit is 1. `MaskAlu`, `SaveExec`, `Compare`,
`CompareX` and `Branch` are the handlers that move masks and the pc; `Vector`,
`AddCarryOut` and `AddCarryIn` give the compares something to compare, and carry
masks through SGPRs; every other vector instruction is a `Mark`, which the
active lanes note in `ran`. What is compared with is not another model of masks:
each kernel of `MCExecMask` is a structured program, `Lane` says what it does for
one lane alone, `Compile` writes it with the idioms of the disassembled kernels.

### `CycleDetect`: the search for cycles

`Core.step` as a whole: a step of `ExecMask`, and at every 256th (`Period`) the
comparison with what the wave was at its last visit to the same pc and masks
(`Searching`, `Repeated`, `Remember`, `CycleFound`). The waves of `ExecMask` have no
LDS and no memory, so what `_v_signature` hashes is their VGPRs. Some kernels of
`MCExecMask` have a loop that some inputs never leave.

### `Words`, `ScalarIsa`, `ScalarOracle`, `ScalarSuite`, `ScalarWave`: scalar instructions

`Words` is a machine word of `W` bits and Python's integers on it. `ScalarIsa` is
what the handlers `op_s_*` do, one operator for each class of the tower and `Result`
in the order of the class of a wave. Powers of two are the recursive function `Pow2`, whose
laws the proofs derive. `ScalarOracle` is the independent program of
`src/oracle/`, and the scalar handlers of the frozen emulator beside it;
`ScalarSuite` is the oracle's list of vectors with what their notes claim: where a note
names a wrong implementation, the instruction that implementation would have executed
(`Trap`), where it gives the answer, the answer (`Saying`); a vector without a note
claims nothing. Three notes do not hold of their vectors (`Misnoted`), and `SuiteTells`
checks that these three are all. `ScalarWave` runs the suite and then kernels, and
compares at every state. `Disputed` names each known
disagreement by the operands that meet it; everything outside must agree. `WellFormed`
is the operands each handler takes: a literal is as wide as a word, a K form's half as
wide, and a pair stands only where a handler reads or writes one. `Site` is
`find_sites`: it reads an address off the listing that the wave computes. `Laws` are
instructions with others that do the same together, of the families that
`LawsAssumption` admits: an inverted operand or result (`Inverts`), a doubled or moved
pair (`ShiftsPair`), a field by two shifts or in its other form (`TakesField`), a sign
extension as a field (`Extends`), a choice by compare and select (`Chooses`).

### `VectorIsa`, `VectorFrozen`, `VectorWave`: vector integer instructions

The same for `op_v_*`: `VResult` is the handlers as they are, `VectorFrozen` those of
the frozen emulator. `wave` has VGPRs as well as SGPRs; `VLoad` gives lanes and masks
their values, `VExecute` is one instruction. A loop over lanes is one step, since a lane writes only what
it has read of itself and of what all share. `VectorWave` compares instructions
with combinations of others, vector with scalar instructions (`Twins`, of the
families `ValueTwins`, `WideTwins`, `CarryTwins` and `TestTwins`),
carries with sums of the wide numbers (`WideLanes`), cross-lane moves with what they
leave alone (`CrossLane`), and the emulator with its former self (`Repaired`).
The combinations are `VLaws`, of the families that `VLawsAssumption` admits: three
operands in one step (`Fuses`), a difference as a sum (`Subtracts`), a choice by compare
and select (`VChooses`), half words and 24-bit numbers by masking (`Halves`), a field by
two shifts (`VTakesField`), a product of double width by its two words and a sum with
carry (`VMultiplies`), a shifted pair (`VShiftsPair`). `Apart` says what a combination may
not read after it has written its destination.

### `Floats`, `FloatIsa`, `FloatWave`: floating point

`Floats` is formats given by the widths of exponent and fraction, exact values as
fractions, and the conversions of `emu.py` bit by bit (`F32BitsToF16`,
`FmaBits`). `FloatIsa` is the handlers, each class's in turn; what Python
computes in binary64 is rounded where Python rounds it; the conversions between floats
and integers have the format and the width as parameters. `FloatWave` is a register
that takes every pattern, with the instructions held against exact arithmetic.
`ScalesBack` has three parts: mantissas and scaling (`Scales`), rounding to integral
floats (`RoundsToIntegers`), and the conversions (`IntegersConvert`), where an integer that
fits a significand comes back as it was and a longer one as near as a rounding leaves it
(`ComesBack`): in the code 16777217 comes back as 16777216.

### `HostJob`: a job, its runner and its readers

`run_host_job.ps1`, the `cmd.exe` it starts, the interpreter under that, and
`p16j_job_status.py`, as processes that share files. The runner is `Begin`,
`CleanMarker`, `CleanRecord`, `StartProcess`, then `Look`, `Beat`, `Kill`, `Collect`,
`OpenRecord`, `WriteRecord`, `Mark`; `RunnerKilled` may come at any of them, and
what an earlier run left is there at the next. `Spawn`, `Persist`, `WorkerEnds` and
`CmdExits` are the job; a `cmd.exe` that cannot open a log or find the interpreter
exits without a `Spawn`. The status tool reads the record, the processes and the
results one after the other (`ReadRecord`, `ReadProcs`, `Walk`, `Report`); its question for
the processes may fail, which finds none; and its
open file can make the runner's removal of an old record fail.

## Runs and bounds

| run | instance | what it shows |
|---|---|---|
| `driver` | 3 waves, `StepCap` 2, `RoundCap` 85; every program of 3 instructions over the alphabet, branches to every place and one past the end, and 5 kernel shapes | site history, verdict, no need of the round cap, refinement of `WorkgroupBarrier` |
| `driver_release_fault` | 2 waves, one `gws` | a violation: a fault during a release is lost |
| `publication` | 2 files (one normalised), 4 contents (one sensitive), 3 edits, 3 faults, 3 runs | provenance, nothing sensitive, nothing torn, rollback, termination |
| `bridge` | 2 threads, 3 calls, 1 toggle; backends complete, partial, absent | one load, gates, substitution, lifecycle, no invented success, return |
| `global_memory` | 6 addresses, dwords of 2 bytes, bytes of one bit; dword-primed, byte-primed and pattern-backed images | refinement of `ByteMemory` |
| `global_gate` | 2 waves, 2 sites, 2 adjacent regions, 3 accesses, 1 record kept; 2 nested contexts of any mode, a full trace with a budget of 1 | exact counts of gate and recorders, what each mode keeps, verdict, confinement |
| `lds_access` | 2 waves of 2 lanes and 5 registers, an image of 8 bytes, registers of 2 bytes, arithmetic modulo 16, 5 choices of the class parameters, 3 steps | records are accesses, refinement of `SharedLds`, agreement with the legacy bodies |
| `exec_mask` | 3 lanes with any of 4 inputs each, words of 2 bits, a search every 3 steps; 40 kernels: every way to write an if (5) or a loop (3) inside every other, loops that some lanes never leave, one kernel without `s_endpgm` | each lane goes its own way, joins restore EXEC, every wave ends, a cycle is one |
| `scalar` | words of 4 bits, 2 SGPRs besides those of the suite, any order of a kernel's instructions | two readings agree, the suite is what its notes say but for three vectors, laws, call sites |
| `vector` | 2 lanes, words of 8 bits at sampled values, every EXEC and VCC, 1 step after the loads | laws, scalar twins, agreement with the frozen emulator |
| `float` | singles of 10 bits (3 of exponent, 6 of fraction), halves of 4, binary64 with 14 bits of fraction; for the conversions integers of 7 bits and a float of 9 (4 of exponent, 4 of fraction) | conversions, rounding, order, scaling |
| `host_job` | 2 results, a timeout of 2 heartbeats, 2 runs | the record is true, a marker has its record, a report agrees, every job is recorded |

Type correctness is proved and not repeated in the runs, where the theorems reach it.

Why the bounds are enough. In `driver` three waves are what it takes for one to
wait, one to end and one to run; three instructions give every pair of
barriers, branches around them and an overrun, and the longer shapes bring loops
with two barriers. `RoundCapNotNeeded` asks something only where `RoundCap` is
above waves times (`StepCap` + 2) times (length + 2); that is 84 for the longest
shape, of five instructions, so with 85 it does for every program. In
`publication` two files make a tree torn, three faults a failed write, a failed
rollback and a kill in one behaviour, and three runs an apply that follows the
repair of an earlier one. In `bridge` two threads race for the load and three
calls allow register, unregister and a third that meets them. In the memory and
LDS modules widths are scaled down together: a dword has two bytes and not four,
so that one, two and four-byte accesses become fractions, units and multiples of
it, and the address space is as small as lets a wide access start inside and end
outside, and a sum wrap. In `global_gate` two contexts are the least that can be
left in the wrong order, and a budget of 1 under 3 accesses is exceeded by one wave
while the other goes on. In `exec_mask` three lanes let one wait at a join
and one in a loop while the third runs; the four inputs take every branch and leave
each loop after a different number of rounds. `Period` 3 stands for 256: a search
falls on every instruction of a loop in turn, sooner in a small kernel.

The three instruction runs scale widths the way the code uses them: a byte is a
quarter of a word, a half word its half, a shift count is taken modulo the width.
Four bits hold every sum, borrow, sign and bit field of the scalar instructions; the
vector run needs eight for bytes of more than one bit, and takes the values where
carries and signs change instead of all. In `float` the small formats keep what
the conversions depend on (`FormatAssumption`): a half's values are normal singles,
three guard bits below a half's fraction, a product exact in binary64. Exponents of
binary64 are unbounded and NaN is one quiet NaN. An integer of the code has more bits
than a significand (32, 24), signed or not, so that the conversion rounds, and singles go
beyond the integers, so that the conversion back saturates; singles of 10 bits whose
products TLC can count have no room for both. `EW`, `FW` and `NW`, 4, 4 and 7, have
(`WideAssumption`): 7 and 6 bits go into a significand of 5, and the largest float is 248.
`IntBits` 4 is the width of the exponent that `v_ldexp_f32` takes in the run. In `host_job` two runs let files and a worker of the
first meet the second, and two results let a reader's walk be overtaken.

`CHECK_DEADLOCK FALSE` stands where the bounds stop a model (calls, runs, steps);
`driver`, `global_memory`, `exec_mask`, `float` and `host_job` check deadlock.

## Fairness

Four properties are temporal.

- `RunEnds` assumes `WF_vars(Helper)`: a helper that was started goes on. Nothing
  is asked of the editor or the maintainer, and the faults are not fair.
- `EveryCallReturns` assumes weak fairness of each thread's `Run`: a thread in
  the DLL is scheduled. A thread that waits for the static has no step until the
  loader has finished, so the property says the loader always does. Nothing is
  asked of the application.
- `KernelEnds` assumes `WF_cvars(CStep)`: a driver calls `Core.step` until it
  raises `Halt`.
- `JobRecorded` assumes `WF_vars(Runner)` and a timeout: a runner that is not killed
  goes on. Nothing is asked of the worker, which may hang, or of the reader.

`WorkgroupDriver!FairSpec` is stated (one thread, each iteration ends) and no run
needs it: `RoundCapNotNeeded` is the safety form of "the loop ends".

## Proofs

`tlapm` checks every theorem for all values of the constants.

- `WorkgroupDriver_proofs`. `TypeOK` alone is not inductive, as a waiting wave
  must have parked somewhere for `LastSite` to exist; `TypeCorrect` adds it.
  `SiteHistoryCorrect` follows with it. `VerdictSoundCorrect` needs
  `RoundQuiet`: while no wave has been active in this round, those already looked
  at are dead, so that at the tail all are. `StepBudgetCorrect` carries the
  witness `k` over a release. `RoundCapNotNeededCorrect` counts places, a wave with the
  steps it has taken and a pc: `Spent` is the set of those that are behind, a finite
  subset of `Places`, and every round that goes on has put another into it
  (`RoundsPaid`). `ImplementsBarrier` uses `SiteHistory`: all parked
  waves have one site because they have one history. `WavesMeetCorrect` follows.
- `PublicationSync_proofs`. `ProvenanceCorrect` needs `Honesty`: the same of the
  manifest in memory, of payloads, of backups and of commits.
  `NothingSensitiveCorrect` needs `Harmless`, the same closure for contents.
  `NeverTornCorrect` and `OneFailureIsUndoneCorrect` need `Course`, which says,
  for each phase and position, which files are already new and which still old;
  `RollbackCompleteCorrect` needs `CleanCourse`, the same for a clean start with
  the `.tmp` files.
- `Bridge_proofs`. The inductive invariant has four parts beside `TypeOK`: `Lock`, the
  function-local static is held by one thread, the one that loads, and nothing is
  resolved before it is done; `InCall`, the gates as each thread has met them inside
  its call, and what they have let it do so far; `Registrations`, what the runtime holds
  for a handle is what was given, or ours in its place; and `NoSilentSuccess`. `LoadedOnceCorrect` follows from the first,
  `GatesObeyedCorrect` from the second, `LifecycleCorrect` from the third.
- `HostJob_proofs`. `Processes` ties `cmd.exe`, the worker and the results of each
  run; `Course` says what each place of the runner knows of the process it started, and
  that `timedOut` is the timeout reached; `Written`, that what stands in the directory was
  written by a run that had seen it, and by an earlier one while the present one is watched;
  `Seen`, that each snapshot of the reader still holds of files that only grow.
  `BackedStays` is the frame condition: what a record says stays true.
- `Memory_proofs`, first on the global memory, the gate in front of it and the recorders
  beside the gate. The memory from `StoresRepresentable`, with `MemInv`: every key in the
  dictionary is a byte key or a dword key, never in the way of each other.
  `MemoryRefines` is the theorem that a reader wants; `StoresStayInside` is the frame
  condition. `VerdictCorrect` by induction over the log (`GInv`); `PassConfines` from
  `RegionsAligned` (regions begin and end on dword boundaries): then even a store that
  is not representable disturbs no byte outside its region.
  `CountsCorrect` and `KeptCorrect` speak of positions in the log. `OneMore` says that
  an entry adds itself to the positions it belongs to and nothing to the others, and
  `CountInv` follows for the gate. What a recorder has kept is `Lists` of its promised
  positions; `Ranks` says that a position's rank does not change when the log grows,
  so that a sample taken early is still right at the end. `WaveInv` and `DsInv` say it
  for each wave, and `Nested` what the recorders depend on: an open context will restore
  what the one around it asked for. `RecorderKeepsGate` and `GateKeepsMemory` are
  refinements, and `RecordedMemory` is what they add up to: the theorems on the memory
  hold of the program with everything that watches it.
- `Memory_proofs` on the LDS. `RecordedIsMadeCorrect` and `LdsRefinement` from
  `Disciplined = TRUE`. They need the last lane of a store as the maximum of a
  set, shown with the well-foundedness of `<` on `Nat`. `LegacyParityCorrect` asks in
  addition that the size of a partition divides 2^32, as 16 KiB (0x4000) does: the new path cuts
  an address to 32 bits first and the old bodies do not, which the modulus then forgets.
- `ExecMask_proofs`, about waves without the search, as the workgroup drivers run
  them. `TypeCorrect` from `KernelsAssumption`: operands are of the kinds the
  handlers accept. `IfElseIsRight` is about all kernels that have the shape of the
  docstring of `op_s_andn2_saveexec_b32`, with any number of lanes and any
  instructions on both sides; `IfElseInv` gives, for each address, EXEC, the saved
  mask and what each lane has done. The run `exec_mask` has such a kernel, which an
  `ASSUME` of `MCExecMask` checks. Loops and nesting are model-checked.

- `Wave_proofs`, on the scalar and the vector instructions. The scalar part is about
  every width of a word that `WidthAssumption` and `CountAssumption` admit (32 does),
  every number of SGPRs and every kernel of well-formed instructions. The library's induction theorems cannot be used, so the
  module begins with its own: `Induction` over a set, from the well-foundedness of `<`,
  and `Recursion`, that a function defined from its predecessor exists and follows its
  definition. From there the laws of `Pow2`, division with remainder (`Quotient`), and
  congruence modulo a word (`Same`). `ReadingsCorrect` is the lemma `Agree`, by groups of
  instructions: the emulator computes with Python's integers and cuts the result, the
  oracle cuts the operands first, and `MaskSame`, `LowOfMask`, `FieldOfMask`,
  `LogicOfMask`, `CountOfMask` and `ShiftOfMask` say what of an operand survives.
  `FrozenAgrees` is the same for the frozen emulator. `WideSumCorrect` says for all words
  what the run checks for four: two additions and the carry between them are one
  addition of double words (`SumByHalves`, `CarryOut`). `SiteCorrect` uses that:
  `SiteInv` follows a listing instruction by instruction (the base in the pair while
  fillers go by, the low half added, both halves added), and what the wave ends up with
  is the address `find_sites` reports. It assumes `Fillers` to be among `s_nop` and
  `s_delay_alu`, which leave registers alone.
- The vector part of `Wave_proofs`, for any number of lanes and VGPRs too.
  `RepairsCorrect` splits the handlers by their tables (`OpClasses`, `SameHandlers`) and
  names the four that were repaired. `VTypeCorrect` is one lemma for each kind of
  handler; its scalar instructions are those of `ScalarIsa` on the part of a wave they
  see (`PartResult`). A mask is a number given by its bits, and what a handler
  does to it is done to the set of them: `BitsOfWord` and `OnesOfSum` are the two
  directions, by induction over the width. `TwinsCorrect` needs them for the compares
  and carries; for the values it shows that all lanes read from an SGPR what the scalar
  handler reads (`LanesRead`, `ScalarRead`) and that both then compute the same, though
  written apart (`SameSourcesAgree`, `FieldsAgree`).
- `Laws_proofs`, on the instructions that stand for several.
  `LawsCorrect` is about any registers, places and widths of the families. `RunIs`
  unfolds the recursive function `Run`; then each family needs what one instruction
  leaves for the next, and a fact of arithmetic: an inverted subtrahend with one added is
  a difference (`InvertedSum`), a compare decides a maximum of signed numbers
  (`GreaterOfBoth`), a field moved to the top of a word and down again is what remains
  (`ThreeParts`, `FieldOnTop`, `ShiftsTwice`), a sum with carry of a pair with itself is
  its double (`Doubled`).
- `VLawsCorrect`, there too, has any registers, literals and EXEC, and needs
  four VGPRs and two SGPRs since `WideLanes` and `CrossLane` name them. `Wrote` (and
  `Altered`, where VCC changes too) says what an instruction leaves as it was, so that
  the next one of a combination reads either the source or the intermediate value
  (`BinWrites`, `TriWrites`, `BinThen`, `AddsOut`, `AddsInAndOut`, `SubtractsInAndOut`);
  `VLawOf` and `LawOfPair` then leave an equation of one lane, an off lane keeping its
  registers on both sides. The equations are arithmetic: a field split off a number
  (`LowSplit`), a bit select by exclusive ors, a pair split by a product (`ProductWords`),
  the carry and the borrow out of a lower word (`CarriesOver`, `BorrowsOver`), the sign of
  a word as the upper word of a pair (`SignWord`). That `v_mbcnt` numbers the active lanes without
  a gap is an induction over the lanes (`Numbered`).

Two things the last proofs found. The operands `UncutLiteral` named as disputed were not
all of them: `s_lshl_b64` and a packed `s_bfe_i32` read a negative literal uncut as
well, and a packed field may be wider than a word. And two guards of `Result`
overlapped, so that the model left open which handler a packed field meets; `FieldForm`
tells them apart as `Core8` does, by the number of operands. Both are corrected, and the
run has instructions for them.

Only model-checked: the four liveness properties; the cycle search; `SuiteTells`, which
is about the numbers of one suite at the width of the run; and the four properties of the float instructions, which `Floats` writes with
the built-in `^`, of whose laws the provers know none, and with logarithms chosen below a
bound that suits the small formats of the run. Out of this prover's reach in any case: liveness under fairness and `ENABLED`, induction with an
operator as its parameter (what is proved by induction here is proved of a set), and
whatever is written with `RECURSIVE`.

## Disagreements between the code and what is said of it

One is a run that violates a property (`findings` quotes the lines): a barrier that
raises during the release (`p14eh.py:704`).

Others can be shown by a change of one cfg:

- narrow stores over dword keys (`p14d8_core.py:378`): `Stores <- AnyStores` and
  `PROPERTY StoreTouchesItsBytesOnly` in `MCGlobalMemory.cfg`;
- the compare-and-swap's operands (`p16i_isa.py:264`): `PROPERTY SwapAsDocumented`
  there;
- pair loads that overwrite their address (`p14eh.py:487`) and stride-64 pairs the
  recorder reads as stride 4 (`p16i_isa.py:214`): `Disciplined = FALSE` with
  `Instrs <- Overlapping` or `Instrs <- Far` in `MCLds.cfg`;
- halves that are not the nearest ones: `INVARIANT HalfIsNearest` in
  `MCFloatWave.cfg`. `p14e_emu.py:46` says "round-to-nearest-even, exact." and
  `f32_bits_to_f16` (`emu.py:119`) rounds three bits too low and cuts the rest:
  1 + 0.75 * 2^-10 gives 0x3c00, and the nearest half is 0x3c01;
- a call site whose instructions write another pair: `INVARIANT SiteWritesItsPair` in
  `MCScalarWave.cfg`. With a profile, `find_sites` looks at neither what stands
  between `s_add_u32` and `s_addc_u32` nor their registers.

Seen while modelling, and modelled as the code has it.

*Scalar instructions* (`Disputed` in `ScalarWave`):

- `s_andn2_saveexec` and `s_and_not1_saveexec` invert opposite operands
  (`emu.py:614`, `622`) although the plain forms are aliases (`emu.py:572`). The oracle
  (`isa_oracle_scalar.py:356`) and the frozen emulator have the reading of the first
  that `emu.py:583` calls wrong; it adds that the oracle's inputs "happen to make
  both readings equal", and the suite's vector tells them apart;
- the suite's vector that says "a non-zero bit index must not be ignored"
  (`isa_oracle_scalar.py:479`) has index 0 and passes for an implementation that ignores
  it; the one above it (`:477`), with index 31 and no note, does not;
- `bfe_u32_mid` says "offset 8, width 16 -> bits [23:8] = 0xADBE" (`:565`), but its literal
  0x10008 has offset 1 and width 8 both in the oracle (`:681`) and in `_sbfe_imm`;
  `bfe_u32_width_zero` says "width 0 -> 0" (`:567`), and 0x00008 has offset 0 and width 8;
- negative literals reach the scalar handlers unmasked (`emu.py:374`), so `s_add_u32`
  with -1 has the wrong carry, and `s_lshl_b64` and a packed `s_bfe_i32` of one move
  the sign in;
- `s_bfe_i32` of a field that reaches the end of the word is not sign-extended;
  `s_bfe` of width 32 gives the oracle 0; one with four operands is read as packed;
- `s_movk_i32` takes a literal as it stands where the oracle extends its sign, and
  `s_max_i32` sets SCC where the oracle has it unchanged; several compares and `s_subb_u32`, `s_min_u32`, `s_nand`, `s_xnor`,
  `s_orn2_saveexec`, `s_bfm`, `s_lshr_b64` and `s_cselect_b64` exist on one side only.

*Vector instructions* (`VectorIsa`):

- `v_add_co_ci_u32` drops a carry that goes to an SGPR (`emu.py:1414`), and the borrow
  forms write none and read bit 0 of an SGPR for every lane;
- `v_mad_u64_u32` and `v_mad_i64_i32` report no carry; `v_mbcnt` ignores its second
  source, `v_xad_u32` its first; `v_readfirstlane` reads lane 0 even when it is off;
- `v_bfe_i32` of a field that reaches the end of the word is not sign-extended; a
  negative decimal literal is shifted right arithmetically by `v_lshrrev_b32`; a
  minus sign before a VGPR negates an integer's bits.

*Floating point* (`FloatIsa`):

- `op_v_cvt_f16_f32` takes the sign from bit 16 and clamps subnormals, although
  `emu.py:86-95` says that "All three are repaired";
- `v_fma_f32` rounds twice, though `fma_f32_bits` calls itself the contract of both;
  `fma_f32_bits` gives an infinity for 0 * inf and loses the sign of zero;
- `v_frexp_mant_f32` is in [1, 2), and its docstring says "[0.5, 1)";
- `v_cmp_nle_f16` compares raw registers; `v_cmp_lg_f32` is true of NaN;
  `v_cvt_i32_f32` of an infinity is 0 while the unsigned form saturates;
  `v_floor_f32` raises for an infinity or NaN; floor and round lose the sign of zero;
- later classes let minimum and maximum propagate NaN, the first did not, and a
  median with NaN depends on the order of its operands.

*Recorders and cycles*:

- a full trace "raises rather than being quietly exceeded" (`p16k_recorder.py:27`), and
  the step that records LDS accesses for the trace tools swallows every exception
  (`p14d11_emu.py:164`), the budget's too;
- `RecCore._gl_width` and the gate's own table give different widths for some
  spellings of a load;
- the cycle search says "on full state" (`emu.py:6`) and leaves the LDS out of its
  signature; a wave that comes to one control state with two contents in turn is
  never found.

*Host jobs* (`HostJob`): a process that ends during the last interval is recorded as
TIMEOUT with its exit code 0 (`run_host_job.ps1:113`); after a kill the worker goes on
and persists into the next run's directory; `Remove-Item` fails silently while the
status tool has the record open; the tool may say FINISHED_NO_COMPLETION_JSON of a
job whose record stands by then, and STOPPED_MID_DISPATCH of one that has yet to
start, or of one that runs when `live_pids` gets no answer (`p16j_job_status.py:80`); a
`cmd.exe` that starts no interpreter is recorded as FAILED like a job that crashed.

*Elsewhere*:

- `git_out` turns a failing git command into `""`, so a failing `git status`
  passes for a clean tree (`prepare_publication_sync.py:132`) and an apply writes
  over uncommitted files; `PublicationSync` has it as `AcceptUnseen`. A helper killed
  between the manifest and the verifier's answer leaves a tree that the next check
  finds unchanged;
- a launch the bridge refuses does not set the error that a later
  `hipGetLastError` returns, and the `void` registration wrappers report nothing
  when their export is missing;
- the gate's `wave_index` is always 0, so the table of violations by wave has
  one row; out-of-bounds accesses are counted and then made, where the module
  comment (`p16h_global_gate.py:36-38`) discards them; scalar loads pass no gate;
- the 32-bit pair forms ignore the LDS allocation; the legacy bodies drop bytes
  beyond an allocation smaller than the path;
- the entry state primes two hidden arguments that overlap (`p14d11_emu.py:220`).

## What is not modelled

Every component is in `PROJECT.json` with its status and reason. Three kinds stay
out for good: readers and writers of formats (decode and rebuild, static
scanners, reports), host programs whose result is what a GPU does (harnesses,
benchmarks, smoke tests), and one-pass comparisons of documents (most evidence
tools). Inside the modelled components left out are logging, hashes of traces,
the per-site tables of the gate, the status markers and per-entry eligibility of
the helper, the heartbeat lines and figures of a job, and the fields of records no
one compares. Of the instructions, what goes to the host's doubles is left out
(exponentials, logarithms, square roots, division scaling, 64-bit floats), and byte
conversions, messages and hardware registers. The trace tools that run a core of
their own with a forced full trace are not modelled, nor is the LDS in the cycle
search.

## Plan

Done, by what most depends on the part: `WorkgroupBarrier`, `WorkgroupDriver`,
`PublicationSync`, `Bridge`, `ByteMemory`, `Bytes`, `GlobalMemory`, `GlobalGate`, `Recorder`,
`SharedLds`, `LdsAccess`, `ExecMask`, `CycleDetect`, the scalar, vector and float
instructions, and `HostJob`; proofs for the driver, the helper, the bridge, the host job,
memory, gate, recorders, LDS, masks, scalar and vector instructions.

Left, with what each needs:

1. `EntryState` with scratch (`p14d11_emu.py`, `p14d_kd.py`, `p16e_rec.py`): for every set
   of enabled descriptor fields each value where the kernel expects it, no read
   of an undeclared register unnoticed, scratch of a lane private.
2. `BridgeLog` and `FatbinIdentity`, composed with `Bridge`: the file that is never
   locked at its cap, and the walk over an entry table with its bounds.
3. `ReadBeforeDef` (`p14d_live.py`, `p16g_isa.py`): the fixpoint on all graphs of
   four blocks against paths; to prove, that a fixpoint contains what paths reach.
4. `FrozenSources` (`c_freeze.py`), the review status of `PublicationSync`, and
   the lane mapping of the soft-WMMA fragments as a bijection.
5. `CycleDetect` with two waves and an LDS flag, where a reported cycle is none.

Further proofs worth having, in order: the loop idioms of `ExecMask`; that a rounding of
`Floats` is monotone.
