----------------------------- MODULE LdsAccess ------------------------------
(***************************************************************************)
(* The LDS of a workgroup as HWCore of p14eh executes it: one byte image   *)
(* shared by every wave, reached by three families of code -- the unified  *)
(* _xfer for the single-address forms, _ds2_hw for the pairs of 64 bits,   *)
(* and, for the pairs of 32 bits, the handlers inherited from Core8 and    *)
(* those of stride 64 mixed in by p16i_isa.  Before                        *)
(* each instruction a recorder derives, from the same registers, which     *)
(* accesses are going to be made and which of them are violations.         *)
(*                                                                         *)
(* A step is one instruction of one wave over its active lanes, the grain  *)
(* at which the driver interleaves waves.                                  *)
(***************************************************************************)
EXTENDS Integers, Sequences, Bytes

CONSTANTS Cores, Lanes,   \* the waves; the number of lanes of a wave
          Regs,           \* the number of vector registers of a lane
          RegBytes,       \* bytes of a register (4)
          Stride,         \* registers between two offsets of stride 64 (64)
          U32, Num,       \* 2^32; the number a register holds
          PartSize,       \* legacy partition (0x4000)
          PathSize,       \* truncated data path (0x10000)
          ImgSize,        \* bytes of the image, HWCore.lds_img (0x10000)
          Models,         \* the class parameters [sem, alloc] of a run
          Files,          \* register contents the waves may start with
          Instrs,         \* the ds instructions of the program
          Disciplined,    \* the program keeps to Tame below
          MaxSteps        \* bound on the instructions of a behaviour

VARIABLES v,         \* the registers of every lane of every wave
          lds,       \* the shared image
          model,     \* oob_sem and alloc of the run
          event,     \* the instruction made last and the accesses it made
          recorded,  \* the accesses the recorder derived for it
          steps

lvars == <<v, lds, model, event, recorded, steps>>

Lane == 0 .. (Lanes - 1)
Reg == 0 .. (Regs - 1)
Addr == 0 .. (ImgSize - 1)
Word == [0 .. (RegBytes - 1) -> Byte]
File == [Reg -> Word]

(* An instruction: the register that holds the address, the first register *)
(* and the number of registers of data, the bytes of one access, and the   *)
(* offset fields.  "bpermute" reads the register from of other lanes.  The *)
(* bytes are those _w_from_mnem reads in the mnemonic, which takes the     *)
(* stride of ds_read2st64_b32 for a width.                                 *)
Singles == {"load", "load_d16_hi", "store"}
Pairs64 == {"load2_b64", "store2_b64"}
Strided == {"load2st64_b32", "store2st64_b32"}
Pairs32 == {"load2_b32", "store2_b32"} \cup Strided

WellFormed(i) ==
    /\ i.op \in Singles \cup Pairs64 \cup Pairs32 \cup {"bpermute"}
    /\ i.addr \in Reg /\ i.from \in Reg /\ i.data \in Reg
    /\ i.w \in Nat \ {0} /\ i.offs \in Seq(Nat)
    /\ i.n \in Nat \ {0} /\ i.data + i.n - 1 \in Reg
    /\ i.op \notin Pairs64 \cup Pairs32 => Len(i.offs) = 1 /\ i.w <= i.n * RegBytes
    /\ i.op \in Singles => (i.n - 1) * RegBytes < i.w
    /\ i.op = "load_d16_hi" => i.w + i.w = RegBytes
    /\ i.op \in Pairs64 => Len(i.offs) = 2 /\ i.w = 2 * RegBytes /\ i.n = 4
    /\ i.op \in Pairs32 => Len(i.offs) = 2 /\ i.n = 2
    /\ i.op \in Pairs32 => i.w = (IF i.op \in Strided THEN 2 ELSE 1) * RegBytes

ASSUME SizeAssumption ==
    /\ Lanes \in Nat \ {0} /\ Regs \in Nat \ {0} /\ RegBytes \in {2, 4} /\ Stride \in Nat
    /\ Zero \in Byte
    /\ U32 \in Nat \ {0} /\ Num \in [Word -> 0 .. (U32 - 1)]
    /\ PartSize \in Nat \ {0} /\ PathSize \in Nat \ {0} /\ ImgSize \in Nat
    /\ PartSize <= ImgSize
(* The legacy partition lies inside the allocation, as it does with every  *)
(* caller: the default is 16384 for both.                                  *)
ASSUME ModelAssumption ==
    \A m \in Models : /\ m.sem \in {"legacy", "u32", "trunc16"}
                      /\ m.alloc \in 0 .. ImgSize
                      /\ m.sem = "legacy" => PartSize <= m.alloc
ASSUME ProgramAssumption == /\ \A i \in Instrs : WellFormed(i)
                            /\ Files \subseteq [Cores -> [Lane -> File]]
                            /\ Disciplined \in BOOLEAN

Slots(i) == 0 .. (Len(i.offs) - 1)

(* ds_form: a single offset counts bytes, those of a pair count accesses.  *)
Imm(i, j) == i.offs[j + 1] * (IF i.op \in Singles THEN 1 ELSE i.w)

-----------------------------------------------------------------------------
(* _ea: the sum wraps at 32 bits before anything else is decided.          *)
Raw(word, imm) == (Num[word] + imm) % U32

FinalEa(raw) == raw % (CASE model.sem = "legacy"  -> PartSize
                         [] model.sem = "trunc16" -> PathSize
                         [] OTHER                 -> U32)

Limit == IF model.sem = "legacy" THEN PartSize ELSE model.alloc

InRange(ea, w) == ea + w <= Limit

(* The place an access of slot j reaches, its address register being word. *)
Place(word, i, l, j) ==
    LET ea == FinalEa(Raw(word, Imm(i, j))) IN
    [lane |-> l, slot |-> j, ea |-> ea, w |-> i.w, ok |-> InRange(ea, i.w)]

(* Mutant: the recorder scales both offsets of a pair as if they were one. *)
MutRecordDs(w, i, active) ==
    IF i.op = "bpermute" THEN {}
    ELSE {[lane |-> l, slot |-> j, ea |-> FinalEa(Raw(v[w][l][i.addr], i.offs[j + 1])),
           w |-> i.w, ok |-> InRange(FinalEa(Raw(v[w][l][i.addr], i.offs[j + 1])), i.w)] :
             l \in active, j \in Slots(i)}

(* _record_ds, before the step: one record by active lane and access.  A   *)
(* bpermute is counted but is no access to memory.                         *)
RecordDs(w, i, active) ==
    IF i.op = "bpermute" THEN {}
    ELSE {Place(v[w][l][i.addr], i, l, j) : l \in active, j \in Slots(i)}

Access(p, data) == [lane |-> p.lane, slot |-> p.slot, ea |-> p.ea, w |-> p.w,
                    ok |-> p.ok, data |-> data]
PlaceOf(x) == [lane |-> x.lane, slot |-> x.slot, ea |-> x.ea, w |-> x.w, ok |-> x.ok]

-----------------------------------------------------------------------------
(* The bytes below top that a load finds; zeros when it is out of range.   *)
Fetch(p, top) ==
    Access(p, [k \in 0 .. (p.w - 1) |->
                  IF p.ok /\ p.ea + k < top THEN lds[p.ea + k] ELSE Zero])

(* A lane's registers with data put into n of them from first on.  The     *)
(* d16_hi form merges a half; the others fill with zeros.                  *)
IntoHigh(r, first, data) ==
    [r EXCEPT ![first] = [b \in 0 .. (RegBytes - 1) |->
        IF b + b >= RegBytes THEN data[b - (RegBytes \div 2)] ELSE r[first][b]]]
Into(r, first, n, data) ==
    [q \in Reg |->
        IF q \in first .. (first + n - 1)
        THEN [b \in 0 .. (RegBytes - 1) |->
                 IF (q - first) * RegBytes + b \in DOMAIN data
                 THEN data[(q - first) * RegBytes + b] ELSE Zero]
        ELSE r[q]]

(* The w bytes a store takes from the registers of a lane from first on.   *)
Source(r, first, w) ==
    [k \in 0 .. (w - 1) |-> r[first + (k \div RegBytes)][k % RegBytes]]

(* Lanes in order, and the slots of a lane in order: the last store wins.  *)
Later(x, y) == x.lane < y.lane \/ (x.lane = y.lane /\ x.slot <= y.slot)
Covers(x, a) == a \in x.ea .. (x.ea + x.w - 1)

(* Mutant: an out-of-range store is clipped, not discarded.                *)
MutWritten(m, accs, top) ==
    [a \in Addr |->
        LET W == {x \in accs : Covers(x, a) /\ a < top}
        IN  IF W = {} THEN m[a]
            ELSE LET x == CHOOSE x \in W : \A y \in W : Later(y, x)
                 IN  x.data[a - x.ea]]

Written(m, accs, top) ==
    [a \in Addr |->
        LET W == {x \in accs : x.ok /\ Covers(x, a) /\ a < top}
        IN  IF W = {} THEN m[a]
            ELSE LET x == CHOOSE x \in W : \A y \in W : Later(y, x)
                 IN  x.data[a - x.ea]]

Happened(kind, w, i, active, accs) ==
    event' = [kind |-> kind, wave |-> w, ins |-> i, active |-> active, accs |-> accs]

(* The registers of wave w, those of its active lanes replaced.            *)
Updated(w, active, new) ==
    [v EXCEPT ![w] = [l \in Lane |-> IF l \in active THEN new[l] ELSE v[w][l]]]

-----------------------------------------------------------------------------
(* _xfer of a load, with _byte_load and _oob_zero_lane.                    *)
Loaded(w, i, l) == Fetch(Place(v[w][l][i.addr], i, l, 0), model.alloc)
DsLoad(w, i, active) ==
    /\ i.op \in {"load", "load_d16_hi"}
    /\ v' = Updated(w, active, [l \in Lane |->
               IF i.op = "load_d16_hi"
               THEN IntoHigh(v[w][l], i.data, Loaded(w, i, l).data)
               ELSE Into(v[w][l], i.data, i.n, Loaded(w, i, l).data)])
    /\ Happened("load", w, i, active, {Loaded(w, i, l) : l \in active})
    /\ UNCHANGED lds

(* _xfer of a store, with _byte_store.                                     *)
Stored(w, i, l, j, first) ==
    Access(Place(v[w][l][i.addr], i, l, j), Source(v[w][l], first, i.w))
DsStore(w, i, active) ==
    LET accs == {Stored(w, i, l, 0, i.data) : l \in active} IN
    /\ i.op = "store"
    /\ lds' = Written(lds, accs, model.alloc)
    /\ Happened("store", w, i, active, accs)
    /\ UNCHANGED v

(* Mutant: both halves of a pair are taken from the first data operand.    *)
MutDsStore2(w, i, active) ==
    LET accs == {Stored(w, i, l, j, i.data) : l \in active, j \in Slots(i)}
    IN  /\ i.op = "store2_b64"
        /\ lds' = Written(lds, accs, model.alloc)
        /\ Happened("store", w, i, active, accs)
        /\ UNCHANGED v

(* _ds2_hw of a load: the address of the second access is read from the    *)
(* lane's registers after the first access has written its destination.    *)
Pair0(w, i, l) == Fetch(Place(v[w][l][i.addr], i, l, 0), model.alloc)
File0(w, i, l) == Into(v[w][l], i.data, 2, Pair0(w, i, l).data)
Pair1(w, i, l) == Fetch(Place(File0(w, i, l)[i.addr], i, l, 1), model.alloc)
DsLoad2(w, i, active) ==
    /\ i.op = "load2_b64"
    /\ v' = Updated(w, active, [l \in Lane |->
               Into(File0(w, i, l), i.data + 2, 2, Pair1(w, i, l).data)])
    /\ Happened("load", w, i, active,
                {Pair0(w, i, l) : l \in active} \cup {Pair1(w, i, l) : l \in active})
    /\ UNCHANGED lds

(* _ds2_hw of a store, with _byte_store_pair.                              *)
DsStore2(w, i, active) ==
    LET accs == {Stored(w, i, l, j, i.data + 2 * j) : l \in active, j \in Slots(i)}
    IN  /\ i.op = "store2_b64"
        /\ lds' = Written(lds, accs, model.alloc)
        /\ Happened("store", w, i, active, accs)
        /\ UNCHANGED v

(* The pairs of 32 bits: no wrap, no mask, no allocation; only the end of  *)
(* the image stops them.  _ds2st64 takes its second operand for the        *)
(* address, which for a store is the register of the first data, and the   *)
(* two operands after it for the data, of which a store has only one.      *)
AddressReg(i) == IF i.op = "store2st64_b32" THEN i.data ELSE i.addr
Unit(i) == IF i.op \in Strided THEN Stride * RegBytes ELSE RegBytes
Place32(w, i, l, j) ==
    [lane |-> l, slot |-> j, ea |-> Num[v[w][l][AddressReg(i)]] + i.offs[j + 1] * Unit(i),
     w |-> RegBytes, ok |-> TRUE]
Joined(w, i, l) ==
    [k \in 0 .. (2 * RegBytes - 1) |->
        Fetch(Place32(w, i, l, k \div RegBytes), ImgSize).data[k % RegBytes]]
DsLoad2B32(w, i, active) ==
    /\ i.op \in {"load2_b32", "load2st64_b32"}
    /\ v' = Updated(w, active, [l \in Lane |->
               Into(v[w][l], i.data, i.n, Joined(w, i, l))])
    /\ Happened("load", w, i, active,
                {Fetch(Place32(w, i, l, j), ImgSize) : l \in active, j \in Slots(i)})
    /\ UNCHANGED lds

Source32(w, i, l, j) ==
    IF i.op # "store2st64_b32" THEN Source(v[w][l], i.data + j, RegBytes)
    ELSE IF j = 0 THEN Source(v[w][l], i.data + 1, RegBytes)
    ELSE [k \in 0 .. (RegBytes - 1) |-> Zero]
DsStore2B32(w, i, active) ==
    LET accs == {Access(Place32(w, i, l, j), Source32(w, i, l, j)) :
                    l \in active, j \in Slots(i)}
    IN  /\ i.op \in {"store2_b32", "store2st64_b32"}
        /\ lds' = Written(lds, accs, ImgSize)
        /\ Happened("store", w, i, active, accs)
        /\ UNCHANGED v

(* ds_bpermute: every active lane's source is read before any is written.  *)
SourceLane(w, i, l) == (Num[v[w][l][i.addr]] \div RegBytes) % Lanes
Bpermute(w, i, active) ==
    /\ i.op = "bpermute"
    /\ v' = Updated(w, active, [l \in Lane |->
               [v[w][l] EXCEPT ![i.data] = v[w][SourceLane(w, i, l)][i.from]]])
    /\ Happened("gather", w, i, active, {})
    /\ UNCHANGED lds

-----------------------------------------------------------------------------
NoInstr == [op |-> "none"]

LInit == /\ v \in Files
         /\ lds = [a \in Addr |-> Zero]
         /\ model \in Models
         /\ event = [kind |-> "none", wave |-> 0, ins |-> NoInstr, active |-> {}, accs |-> {}]
         /\ recorded = {}
         /\ steps = 0

(* What a disciplined program does: it issues pairs of 32 bits only inside *)
(* the allocation and without wrapping, none of stride 64 by any lane, and *)
(* no load of a pair of 64 bits into the register that holds its address.  *)
Tame(w, i, active) ==
    /\ i.op \in Pairs32 => \A l \in active, j \in Slots(i) :
          /\ Place32(w, i, l, j) = Place(v[w][l][i.addr], i, l, j)
    /\ i.op = "load2_b64" => i.addr \notin {i.data, i.data + 1}

Step(w, i, active) ==
    /\ steps < MaxSteps /\ steps' = steps + 1
    /\ Disciplined => Tame(w, i, active)
    /\ recorded' = RecordDs(w, i, active)
    /\ UNCHANGED model
    /\ \/ DsLoad(w, i, active)
       \/ DsStore(w, i, active)
       \/ DsLoad2(w, i, active)
       \/ DsStore2(w, i, active)
       \/ DsLoad2B32(w, i, active)
       \/ DsStore2B32(w, i, active)
       \/ Bpermute(w, i, active)

LNext == \E w \in Cores, i \in Instrs, active \in SUBSET Lane : Step(w, i, active)

LSpec == LInit /\ [][LNext]_lvars

-----------------------------------------------------------------------------
(* Registers hold words and the image holds bytes, whatever the form.      *)
LTypeOK == /\ v \in [Cores -> [Lane -> File]]
           /\ lds \in [Addr -> Byte]
           /\ model \in Models
           /\ steps \in Nat

(* "RDNA2 OOB behavior (read -> zero, write -> discarded, MEMVIOL event    *)
(* recorded)": what the recorder wrote before the step -- place, width and *)
(* whether it is a violation -- is what the step then did, lane by lane.   *)
RecordedIsMade == recorded = {PlaceOf(x) : x \in event.accs}

(* Whatever the datapath hypothesis, the waves of a workgroup share one    *)
(* byte memory that ends at the limit.                                     *)
Shared == INSTANCE SharedLds WITH limit <- Limit, kind <- event.kind, accs <- event.accs
ImplementsSharedLds == Shared!Spec

-----------------------------------------------------------------------------
(* The legacy bodies of p14e_emu: (vaddr + offset) & (PART - 1), the base  *)
(* of a pair read once, and every byte of the partition there.             *)
LegacyPlace(w, i, l, j) ==
    [lane |-> l, slot |-> j, ea |-> (Num[v[w][l][i.addr]] + Imm(i, j)) % PartSize,
     w |-> i.w, ok |-> TRUE]
LegacyLoad(w, i, l, j) == Fetch(LegacyPlace(w, i, l, j), PartSize).data
LegacyFile(w, i, l) ==
    CASE i.op = "load"        -> Into(v[w][l], i.data, i.n, LegacyLoad(w, i, l, 0))
      [] i.op = "load_d16_hi" -> IntoHigh(v[w][l], i.data, LegacyLoad(w, i, l, 0))
      [] i.op = "load2_b64"   -> Into(Into(v[w][l], i.data, 2, LegacyLoad(w, i, l, 0)),
                                      i.data + 2, 2, LegacyLoad(w, i, l, 1))
      [] OTHER                -> v[w][l]
LegacyStores(w, i, active) ==
    IF i.op \notin {"store", "store2_b64"} THEN {}
    ELSE {Access(LegacyPlace(w, i, l, j), Source(v[w][l], i.data + 2 * j, i.w)) :
             l \in active, j \in Slots(i)}
LegacyStep(w, i, active) ==
    /\ v' = Updated(w, active, [l \in Lane |-> LegacyFile(w, i, l)])
    /\ lds' = Written(lds, LegacyStores(w, i, active), PartSize)

(* "byte-transfer identical to the validated legacy bodies for in-range    *)
(* accesses": under legacy semantics a unified form whose accesses are all *)
(* recorded in range leaves the registers and the image of the old body.   *)
LegacyParity ==
    [][LET e == event' IN
       (model.sem = "legacy" /\ e.ins.op \in Singles \cup Pairs64 /\ \A x \in recorded' : x.ok)
          => LegacyStep(e.wave, e.ins, e.active)]_lvars
=============================================================================
