---------------------------- MODULE Memory_proofs ----------------------------
(***************************************************************************)
(* The memories the handlers reach.                                        *)
(*                                                                         *)
(* The global memory: the dictionary of GlobalMemory is a byte-addressed   *)
(* memory; the verdict of the global-OOB gate in front of it means what it *)
(* says; and the counters of the gate and of the recorders beside it are   *)
(* exact and keep what they promised.  For every size and image, every     *)
(* program whose stores the dictionary can represent, every set of         *)
(* regions, every number of waves and every cap, budget and nesting of     *)
(* contexts.                                                               *)
(*                                                                         *)
(* The LDS: for every number of waves and lanes, every image, datapath     *)
(* hypothesis, allocation and disciplined program, the recorder tells the  *)
(* truth, and the three families of handlers implement the memory of       *)
(* SharedLds.                                                              *)
(***************************************************************************)
EXTENDS Recorder, LdsAccess, FiniteSetTheorems, SequenceTheorems, WellFoundedInduction, TLAPS

-----------------------------------------------------------------------------
(* The memory.                                                             *)

DictOK(m) == /\ DOMAIN m \subseteq Keys
             /\ \A k \in DOMAIN m : m[k] \in Dword

MemInv == /\ DictOK(mem)
          /\ \A s \in Stores : Representable(mem, s)

-----------------------------------------------------------------------------
(* Base rounds an address down to its dword.                               *)
LEMMA BaseFacts ==
    ASSUME NEW a \in Keys
    PROVE  /\ Base(a) \in Keys
           /\ a % DwordBytes \in 0 .. (DwordBytes - 1)
           /\ a \in WordOf(a)
           /\ Base(Base(a)) = Base(a)
           /\ a # Base(a) => a % DwordBytes # 0
<1>1. CASE DwordBytes = 2
  BY <1>1, GeometryAssumption DEF Keys, Base, WordOf
<1>2. CASE DwordBytes = 4
  BY <1>2, GeometryAssumption DEF Keys, Base, WordOf
<1> QED  BY <1>1, <1>2, GeometryAssumption

(* Whatever the dictionary holds, a reader finds a byte at every address.  *)
LEMMA ReadByteType ==
    ASSUME NEW m, DictOK(m), NEW a \in Keys
    PROVE  ReadByte(m, a) \in Byte
<1>1. 0 \in 0 .. (DwordBytes - 1)
  BY GeometryAssumption
<1>2. CASE a \in DOMAIN m
  BY <1>1, <1>2 DEF ReadByte, DictOK, Dword
<1>3. CASE a \notin DOMAIN m /\ Base(a) \in DOMAIN m
  BY <1>3, BaseFacts DEF ReadByte, DictOK, Dword
<1>4. CASE a \notin DOMAIN m /\ Base(a) \notin DOMAIN m
  BY <1>4, PatternAssumption, ByteAssumption DEF ReadByte, SynthByte
<1> QED  BY <1>2, <1>3, <1>4

(* A byte put under a key is a dword.                                      *)
LEMMA ByteKeyType ==
    ASSUME NEW b \in Byte
    PROVE  ByteKey(b) \in Dword /\ ByteKey(b)[0] = b
BY ByteAssumption, GeometryAssumption DEF ByteKey, Dword

(* The other bytes of a byte key read zero.                                *)
LEMMA ByteKeyRest ==
    ASSUME NEW b, NEW j \in 1 .. (DwordBytes - 1)
    PROVE  ByteKey(b)[j] = Zero
BY GeometryAssumption DEF ByteKey

(* A store whose bytes fit keeps the dictionary a dictionary of dwords.    *)
LEMMA PutType ==
    ASSUME NEW m, DictOK(m), NEW a \in Keys, NEW n \in 1 .. Size, a + n <= Size,
           NEW data \in [0 .. (n - 1) -> Byte]
    PROVE  DictOK(Put(m, a, data, n))
<1> DEFINE p == Put(m, a, data, n)
<1>1. DOMAIN p = DOMAIN m \cup (a .. (a + n - 1))
  BY DEF Put
<1>2. a .. (a + n - 1) \subseteq Keys
  BY GeometryAssumption DEF Keys
<1>3. ASSUME NEW k \in DOMAIN p PROVE p[k] \in Dword
  <2>1. CASE k \in a .. (a + n - 1)
    <3>1. k - a \in 0 .. (n - 1)
      BY <2>1 DEF Keys
    <3>2. data[k - a] \in Byte
      BY <3>1
    <3>3. p[k] = ByteKey(data[k - a])
      BY <2>1 DEF Put
    <3> QED  BY <3>2, <3>3, ByteKeyType
  <2>2. CASE k \notin a .. (a + n - 1)
    BY <2>2, <1>1 DEF Put, DictOK
  <2> QED  BY <2>1, <2>2
<1> QED  BY <1>1, <1>2, <1>3 DEF DictOK

(* The heart of the argument: after a representable store a reader sees    *)
(* the stored bytes where they were stored and the old ones elsewhere.     *)
LEMMA PutView ==
    ASSUME NEW m, DictOK(m), NEW a \in Keys, NEW n \in 1 .. Size, a + n <= Size,
           NEW data \in [0 .. (n - 1) -> Byte],
           Representable(m, <<a, n>>), NEW x \in Keys
    PROVE  ReadByte(Put(m, a, data, n), x) =
             IF x \in a .. (a + n - 1) THEN data[x - a] ELSE ReadByte(m, x)
<1> DEFINE p == Put(m, a, data, n)
           R == a .. (a + n - 1)
<1>1. DOMAIN p = DOMAIN m \cup R
  BY DEF Put
<1>2. \A k \in R : p[k] = ByteKey(data[k - a]) /\ data[k - a] \in Byte
  BY DEF Put, Keys
<1>3. \A k \in DOMAIN m \ R : p[k] = m[k]
  BY DEF Put
<1>4. CASE x \in R
  BY <1>1, <1>2, <1>4, ByteKeyType DEF ReadByte
<1>5. CASE x \notin R /\ x \in DOMAIN m
  BY <1>1, <1>3, <1>5 DEF ReadByte
<1>6. CASE x \notin R /\ x \notin DOMAIN m /\ Base(x) \notin R
  BY <1>1, <1>3, <1>6 DEF ReadByte
<1>7. CASE x \notin R /\ x \notin DOMAIN m /\ Base(x) \in R
  <2>1. x # Base(x)
    BY <1>7
  <2>2. x % DwordBytes \in 1 .. (DwordBytes - 1)
    BY <2>1, BaseFacts, GeometryAssumption
  <2>3. Base(Base(x)) = Base(x) /\ WordOf(Base(x)) = WordOf(x) /\ x \in WordOf(x)
    BY BaseFacts DEF WordOf
  <2>4. Plain(m, Base(x))
    BY <1>7, <2>3 DEF Representable
  <2>5. x \notin Synth
    BY <2>3, <2>4 DEF Plain
  <2>6. ReadByte(m, x) = Zero
    <3>1. CASE Base(x) \in DOMAIN m
      <4>1. PICK b \in Byte : m[Base(x)] = ByteKey(b)
        BY <3>1, <2>3, <2>4 DEF Plain
      <4> QED  BY <4>1, <3>1, <1>7, <2>2, ByteKeyRest DEF ReadByte
    <3>2. CASE Base(x) \notin DOMAIN m
      BY <3>2, <1>7, <2>5 DEF ReadByte, SynthByte
    <3> QED  BY <3>1, <3>2
  <2>7. ReadByte(p, x) = Zero
    BY <1>1, <1>2, <1>7, <2>2, ByteKeyRest DEF ReadByte
  <2> QED  BY <1>7, <2>6, <2>7
<1> QED  BY <1>4, <1>5, <1>6, <1>7

(* No store takes away what makes another store representable: only byte   *)
(* keys are ever added.                                                    *)
LEMMA PutRepresentable ==
    ASSUME NEW m, NEW a \in Keys, NEW n \in 1 .. Size,
           NEW data \in [0 .. (n - 1) -> Byte],
           NEW s, Representable(m, s)
    PROVE  Representable(Put(m, a, data, n), s)
<1> DEFINE p == Put(m, a, data, n)
           R == a .. (a + n - 1)
<1>1. \A k \in R : p[k] = ByteKey(data[k - a]) /\ data[k - a] \in Byte
  BY DEF Put, Keys
<1>2. \A k \in DOMAIN p \ R : k \in DOMAIN m /\ p[k] = m[k]
  BY DEF Put
<1>3. ASSUME NEW x, Plain(m, x) PROVE Plain(p, x)
  <2>1. CASE Base(x) \in R
    BY <2>1, <1>1, <1>3 DEF Plain
  <2>2. CASE Base(x) \notin R
    BY <2>2, <1>2, <1>3 DEF Plain
  <2> QED  BY <2>1, <2>2
<1>4. SUFFICES ASSUME NEW x \in s[1] .. (s[1] + s[2] - 1)
               PROVE  WordOf(x) \subseteq s[1] .. (s[1] + s[2] - 1) \/ Plain(p, x)
  BY DEF Representable
<1>5. WordOf(x) \subseteq s[1] .. (s[1] + s[2] - 1) \/ Plain(m, x)
  BY DEF Representable
<1> QED  BY <1>3, <1>5

(* The view of the dictionary after a representable store is the byte      *)
(* memory's after the same store.                                          *)
LEMMA PutOverlay ==
    ASSUME NEW a \in Keys, NEW n \in 1 .. Size, a + n <= Size,
           NEW data \in [0 .. (n - 1) -> Byte],
           DictOK(mem), Representable(mem, <<a, n>>),
           mem' = Put(mem, a, data, n)
    PROVE  View' = Arch!Overlay(View, a, data, n)
<1>1. View' = [x \in Keys |-> ReadByte(mem', x)]
  BY DEF View, ReadByte, Base, SynthByte
<1>2. \A x \in Keys : ReadByte(mem', x) =
             IF x \in a .. (a + n - 1) THEN data[x - a] ELSE View[x]
  BY PutView DEF View
<1> QED  BY <1>1, <1>2 DEF Arch!Overlay, Arch!Addr, Keys

-----------------------------------------------------------------------------
LEMMA InitMemInv == ASSUME StoresRepresentable, Init PROVE MemInv
BY ImageAssumption DEF StoresRepresentable, Init, MemInv, DictOK

LEMMA NextMemInv == ASSUME MemInv, [Next]_vars PROVE MemInv'
<1> USE DEF MemInv
<1>1. CASE UNCHANGED mem
  BY <1>1 DEF DictOK, Representable, Plain, Base
<1>2. ASSUME NEW s \in Stores, NEW data \in Arch!Data(s[2]), mem' = Put(mem, s[1], data, s[2])
      PROVE  MemInv'
  <2>1. /\ s[1] \in Keys /\ s[2] \in 1 .. Size /\ s[1] + s[2] <= Size
        /\ data \in [0 .. (s[2] - 1) -> Byte]
    BY <1>2, AccessAssumption DEF Arch!Data
  <2>2. DictOK(mem')
    BY <1>2, <2>1, PutType
  <2>3. \A t \in Stores : Representable(mem', t)
    BY <1>2, <2>1, PutRepresentable
  <2> QED  BY <2>2, <2>3 DEF DictOK, Representable, Plain, Base
<1>3. CASE Store
  BY <1>2, <1>3 DEF Store, VectorStore
<1>4. CASE Swap
  <2>1. PICK d \in {s \in Stores : s[2] = DwordBytes}, u \in {s \in Stores : s[2] = DwordBytes},
             first \in CasWords, second \in CasWords :
             CompareAndSwap(d[1], u[1], first, second)
    BY <1>4 DEF Swap
  <2>2. second \in Arch!Data(d[2])
    BY AccessAssumption DEF Dword, Arch!Data
  <2>3. mem' = Put(mem, d[1], second, d[2]) \/ mem' = mem
    BY <2>1 DEF CompareAndSwap
  <2> QED  BY <1>1, <1>2, <2>2, <2>3
<1> QED  BY <1>1, <1>3, <1>4 DEF Next, vars, Load, Sload, VectorLoad, ScalarLoad

(* The dictionary stays a dictionary of dwords and the reader finds a byte *)
(* at every address: GlobalMemory's TypeOK.                                *)
THEOREM MemoryTypeCorrect == ASSUME StoresRepresentable PROVE Spec => []TypeOK
<1>1. MemInv => TypeOK
  BY ReadByteType DEF MemInv, TypeOK, DictOK, View
<1> QED  BY InitMemInv, NextMemInv, <1>1, PTL DEF Spec

-----------------------------------------------------------------------------
(* Every step of the dictionary is a step of the byte memory, or none.     *)
LEMMA StepRefines == ASSUME MemInv, [Next]_vars PROVE [Arch!Next]_(Arch!vars)
<1>1. CASE UNCHANGED vars
  BY <1>1 DEF vars, Arch!vars, View, ReadByte, Base, SynthByte
<1>2. CASE Load
  <2>1. PICK l \in Loads, signed \in BOOLEAN : VectorLoad(l[1], l[2], signed)
    BY <1>2 DEF Load
  <2>2. View' = View
    BY <2>1 DEF VectorLoad, View, ReadByte, Base, SynthByte
  <2> QED  BY <2>1, <2>2 DEF VectorLoad, Arch!Next, Arch!Load
<1>3. CASE Sload
  <2>1. PICK l \in ScalarLoads : ScalarLoad(l[1], l[2])
    BY <1>3 DEF Sload
  <2>2. View' = View
    BY <2>1 DEF ScalarLoad, View, ReadByte, Base, SynthByte
  <2> QED  BY <2>1, <2>2 DEF ScalarLoad, Arch!Next, Arch!Load
<1>4. CASE Store
  <2>1. PICK s \in Stores : \E data \in Arch!Data(s[2]) : VectorStore(s[1], s[2], data)
    BY <1>4 DEF Store
  <2>2. PICK data \in Arch!Data(s[2]) : VectorStore(s[1], s[2], data)
    BY <2>1
  <2>3. /\ s[1] \in Keys /\ s[2] \in 1 .. Size /\ s[1] + s[2] <= Size
        /\ data \in [0 .. (s[2] - 1) -> Byte]
    BY <2>2, AccessAssumption DEF Arch!Data
  <2>4. Representable(mem, <<s[1], s[2]>>)
    BY DEF MemInv, Representable
  <2>5. View' = Arch!Overlay(View, s[1], data, s[2])
    BY <2>2, <2>3, <2>4, PutOverlay DEF MemInv, VectorStore
  <2>6. Arch!Store(s[1], s[2])
    BY <2>2, <2>5 DEF VectorStore, Arch!Store
  <2> QED  BY <2>6 DEF Arch!Next
<1>5. CASE Swap
  <2>1. PICK d \in {s \in Stores : s[2] = DwordBytes}, u \in {s \in Stores : s[2] = DwordBytes},
             first \in CasWords, second \in CasWords :
             CompareAndSwap(d[1], u[1], first, second)
    BY <1>5 DEF Swap
  <2> DEFINE old == Arch!Content(View, d[1], DwordBytes)
  <2>2. /\ d[1] \in Keys /\ DwordBytes \in 1 .. Size /\ d[1] + DwordBytes <= Size
        /\ first \in Arch!Data(DwordBytes) /\ second \in Arch!Data(DwordBytes)
        /\ second \in [0 .. (DwordBytes - 1) -> Byte]
    BY AccessAssumption DEF Dword, Arch!Data
  <2>3. Representable(mem, <<d[1], DwordBytes>>)
    BY DEF MemInv, Representable
  <2>4. View' = IF old = first THEN Arch!Overlay(View, d[1], second, DwordBytes) ELSE View
    <3>1. CASE old = first
      BY <3>1, <2>1, <2>2, <2>3, PutOverlay DEF MemInv, CompareAndSwap
    <3>2. CASE old # first
      BY <3>2, <2>1 DEF CompareAndSwap, View, ReadByte, Base, SynthByte
    <3> QED  BY <3>1, <3>2
  <2>5. access' = [kind |-> "cas", addr |-> d[1], n |-> DwordBytes, data |-> old]
    BY <2>1 DEF CompareAndSwap
  <2>6. Arch!CompareAndSwap(d[1])
    BY <2>2, <2>4, <2>5 DEF Arch!CompareAndSwap
  <2> QED  BY <2>6 DEF Arch!Next
<1> QED  BY <1>1, <1>2, <1>3, <1>4, <1>5 DEF Next

(* The mixed dictionary implements the byte-addressed memory: every load   *)
(* returns, and every store leaves, what the byte memory would, for every  *)
(* image and every program of representable stores.                        *)
THEOREM MemoryRefines == ASSUME StoresRepresentable PROVE Spec => ImplementsByteMemory
<1>1. ASSUME Init PROVE Arch!Init
  <2>1. View \in [Keys -> Byte]
    BY <1>1, InitMemInv, ReadByteType DEF MemInv, View
  <2> QED  BY <1>1, <2>1 DEF Init, Arch!Init, Arch!Addr, Keys
<1> QED  BY InitMemInv, NextMemInv, StepRefines, <1>1, PTL DEF Spec, ImplementsByteMemory, Arch!Spec

(* A representable store changes what is read at its own addresses only.   *)
THEOREM StoresStayInside ==
    ASSUME StoresRepresentable PROVE Spec => StoreTouchesItsBytesOnly
<1>1. ASSUME MemInv, [Next]_vars
      PROVE  [access'.kind = "store" =>
               \A a \in Keys \ (access'.addr .. (access'.addr + access'.n - 1)) :
                  View'[a] = View[a]]_vars
  <2>1. CASE UNCHANGED vars
    BY <2>1
  <2>2. CASE Load \/ Sload \/ Swap
    <3>1. Load => access'.kind = "load"
      BY DEF Load, VectorLoad
    <3>2. Sload => access'.kind = "sload"
      BY DEF Sload, ScalarLoad
    <3>3. Swap => access'.kind = "cas"
      BY DEF Swap, CompareAndSwap
    <3> QED  BY <2>2, <3>1, <3>2, <3>3
  <2>3. CASE Store
    <3>1. PICK s \in Stores : \E data \in Arch!Data(s[2]) : VectorStore(s[1], s[2], data)
      BY <2>3 DEF Store
    <3>2. PICK data \in Arch!Data(s[2]) : VectorStore(s[1], s[2], data)
      BY <3>1
    <3>3. /\ s[1] \in Keys /\ s[2] \in 1 .. Size /\ s[1] + s[2] <= Size
          /\ data \in [0 .. (s[2] - 1) -> Byte]
      BY <3>2, AccessAssumption DEF Arch!Data
    <3>4. Representable(mem, <<s[1], s[2]>>)
      BY <1>1 DEF MemInv, Representable
    <3>5. View' = Arch!Overlay(View, s[1], data, s[2])
      BY <1>1, <3>2, <3>3, <3>4, PutOverlay DEF MemInv, VectorStore
    <3>6. access'.addr = s[1] /\ access'.n = s[2]
      BY <3>2 DEF VectorStore
    <3> QED  BY <3>5, <3>6 DEF Arch!Overlay, Arch!Addr, Keys
  <2> QED  BY <1>1, <2>1, <2>2, <2>3 DEF Next
<1> QED  BY InitMemInv, NextMemInv, <1>1, PTL DEF Spec, StoreTouchesItsBytesOnly

-----------------------------------------------------------------------------
(* The gate.                                                               *)

(* The regions begin and end on dword boundaries.                          *)
RegionsAligned ==
    \A r \in Regions : r[1] % DwordBytes = 0 /\ r[2] % DwordBytes = 0

Entries == [wave : Waves, site : Sites, kind : {"load", "store", "cas", "sload"},
            addr : Keys, n : Nat]
One(c) == IF c THEN 1 ELSE 0

(* An entry of the log the gate has nothing against.                       *)
Clean(e) == Vector(e) => e.kind # "cas" /\ Locate(e.addr, e.n)

Counters(g) ==
  /\ DOMAIN g = DOMAIN GateInit
  /\ g.ops \in Nat /\ g.reads \in Nat /\ g.writes \in Nat /\ g.unmeasured \in Nat
  /\ g.oobReads \in Nat /\ g.oobWrites \in Nat /\ g.kept \in Nat /\ g.dropped \in Nat
  /\ g.bySite \in [Sites -> [read : Nat, write : Nat]]

GInv == /\ Counters(gate)
        /\ log \in Seq(Entries)
        /\ Ok(gate) <=> \A i \in DOMAIN log : Clean(log[i])

-----------------------------------------------------------------------------
(* The four kinds of access, with the bounds of what they touch.           *)
LEMMA AccessKinds ==
    /\ Load => access'.kind = "load" /\ access'.addr \in Keys /\ access'.n \in Nat
    /\ Sload => access'.kind = "sload" /\ access'.addr \in Keys /\ access'.n \in Nat
    /\ Store => access'.kind = "store" /\ access'.addr \in Keys /\ access'.n \in Nat
    /\ Swap => access'.kind = "cas" /\ access'.addr \in Keys /\ access'.n \in Nat
<1>1. Load => access'.kind = "load" /\ access'.addr \in Keys /\ access'.n \in Nat
  <2>1. SUFFICES ASSUME NEW l \in Loads, NEW signed \in BOOLEAN, VectorLoad(l[1], l[2], signed)
                 PROVE  access'.kind = "load" /\ access'.addr \in Keys /\ access'.n \in Nat
    BY DEF Load
  <2>2. access'.kind = "load" /\ access'.addr = l[1] /\ access'.n = l[2]
    BY <2>1 DEF VectorLoad
  <2> QED  BY <2>2, AccessAssumption, GeometryAssumption
<1>2. Sload => access'.kind = "sload" /\ access'.addr \in Keys /\ access'.n \in Nat
  <2>1. SUFFICES ASSUME NEW l \in ScalarLoads, ScalarLoad(l[1], l[2])
                 PROVE  access'.kind = "sload" /\ access'.addr \in Keys /\ access'.n \in Nat
    BY DEF Sload
  <2>2. access'.kind = "sload" /\ access'.addr = l[1] /\ access'.n = l[2]
    BY <2>1 DEF ScalarLoad
  <2> QED  BY <2>2, AccessAssumption, GeometryAssumption
<1>3. Store => access'.kind = "store" /\ access'.addr \in Keys /\ access'.n \in Nat
  <2>1. SUFFICES ASSUME NEW s \in Stores, NEW data, VectorStore(s[1], s[2], data)
                 PROVE  access'.kind = "store" /\ access'.addr \in Keys /\ access'.n \in Nat
    BY DEF Store
  <2>2. access'.kind = "store" /\ access'.addr = s[1] /\ access'.n = s[2]
    BY <2>1 DEF VectorStore
  <2> QED  BY <2>2, AccessAssumption, GeometryAssumption
<1>4. Swap => access'.kind = "cas" /\ access'.addr \in Keys /\ access'.n \in Nat
  <2>1. SUFFICES ASSUME NEW d \in Stores, NEW u, NEW x, NEW y,
                        CompareAndSwap(d[1], u, x, y)
                 PROVE  access'.kind = "cas" /\ access'.addr \in Keys /\ access'.n \in Nat
    BY DEF Swap
  <2>2. access'.kind = "cas" /\ access'.addr = d[1] /\ access'.n = DwordBytes
    BY <2>1 DEF CompareAndSwap
  <2> QED  BY <2>2, AccessAssumption, GeometryAssumption
<1> QED  BY <1>1, <1>2, <1>3, <1>4

(* What one note does to the counters.                                    *)
Oob(kind, a, n) == Measured(kind) /\ ~Locate(a, n)
KeepsRecord(g) == RecCap = 0 \/ g.kept < RecCap

SiteNoted(m, s, kind) == [m EXCEPT ![s].read = IF kind # "load" THEN @ ELSE @ + 1,
                                   ![s].write = IF kind # "load" THEN @ + 1 ELSE @]

(* The count of a site goes up by one.                                     *)
LEMMA OobSite ==
    ASSUME NEW m \in [Sites -> [read : Nat, write : Nat]], NEW s \in Sites, NEW kind,
           NEW m2, m2 = SiteNoted(m, s, kind)
    PROVE  /\ m2 \in [Sites -> [read : Nat, write : Nat]]
           /\ \A t \in Sites : m2[t].read + m2[t].write = m[t].read + m[t].write + One(t = s)
<1>1. \A t \in Sites : /\ m[t] \in [read : Nat, write : Nat]
                       /\ m[t].read \in Nat /\ m[t].write \in Nat
  OBVIOUS
<1> DEFINE m1 == [m EXCEPT ![s].read = IF kind # "load" THEN @ ELSE @ + 1]
<1>2. /\ m1 \in [Sites -> [read : Nat, write : Nat]]
      /\ m1[s].read = (IF kind # "load" THEN m[s].read ELSE m[s].read + 1)
      /\ m1[s].write = m[s].write
      /\ \A t \in Sites : t # s => m1[t] = m[t]
  BY <1>1
<1>3. m2 = [m1 EXCEPT ![s].write = IF kind # "load" THEN @ + 1 ELSE @]
  BY DEF SiteNoted
<1> HIDE DEF m1
<1>t. m1 \in [Sites -> [read : Nat, write : Nat]] /\ s \in Sites
  BY <1>2
<1>4. /\ m2 \in [Sites -> [read : Nat, write : Nat]]
      /\ m2[s].read = m1[s].read
      /\ m2[s].write = (IF kind # "load" THEN m1[s].write + 1 ELSE m1[s].write)
      /\ \A t \in Sites : t # s => m2[t] = m1[t]
  <2>1. m2 \in [Sites -> [read : Nat, write : Nat]]
    BY ONLY <1>3, <1>t
  <2>2. m2[s].write = (IF kind # "load" THEN m1[s].write + 1 ELSE m1[s].write)
    BY ONLY <1>3, <1>t
  <2>3. m2[s].read = m1[s].read /\ \A t \in Sites : t # s => m2[t] = m1[t]
    BY ONLY <1>3, <1>t
  <2> QED  BY <2>1, <2>2, <2>3
<1>5. ASSUME NEW t \in Sites
      PROVE  m2[t].read + m2[t].write = m[t].read + m[t].write + One(t = s)
  <2>1. CASE t = s
    BY <2>1, <1>1, <1>2, <1>4 DEF One
  <2>2. CASE t # s
    BY <2>2, <1>1, <1>2, <1>4 DEF One
  <2> QED  BY <2>1, <2>2
<1> QED  BY <1>4, <1>5

Noted(g, h, kind, a, n, s) ==
  /\ Counters(h)
  /\ h.ops = g.ops + 1 /\ h.unmeasured = g.unmeasured + One(kind = "cas")
  /\ h.reads = g.reads + One(kind = "load")
  /\ h.writes = g.writes + One(kind = "store")
  /\ h.oobReads = g.oobReads + One(kind = "load" /\ ~Locate(a, n))
  /\ h.oobWrites = g.oobWrites + One(kind = "store" /\ ~Locate(a, n))
  /\ h.kept = g.kept + One(Oob(kind, a, n) /\ KeepsRecord(g))
  /\ h.dropped = g.dropped + One(Oob(kind, a, n) /\ ~KeepsRecord(g))
  /\ \A t \in Sites : h.bySite[t].read + h.bySite[t].write =
         g.bySite[t].read + g.bySite[t].write + One(Oob(kind, a, n) /\ t = s)

(* One note adds one to the counters the access belongs to and keeps or    *)
(* drops one record.                                                       *)
LEMMA NoteCounts ==
    ASSUME NEW g, NEW a, NEW n, NEW kind \in {"load", "store", "cas"},
           NEW w \in Waves, NEW s \in Sites, Counters(g)
    PROVE  Noted(g, Note(g, kind, a, n, w, s), kind, a, n, s)
<1> DEFINE h == Note(g, kind, a, n, w, s)
<1>d. {"ops", "reads", "writes", "oobReads", "oobWrites", "bySite", "byWave",
       "kept", "dropped", "unmeasured"} = DOMAIN g
  BY DEF GateInit, Counters
<1>n. /\ g.ops \in Nat /\ g.reads \in Nat /\ g.writes \in Nat /\ g.unmeasured \in Nat
      /\ g.oobReads \in Nat /\ g.oobWrites \in Nat /\ g.kept \in Nat /\ g.dropped \in Nat
      /\ g.bySite \in [Sites -> [read : Nat, write : Nat]]
      /\ \A t \in Sites : g.bySite[t].read \in Nat /\ g.bySite[t].write \in Nat
  BY DEF Counters
<1> DEFINE counted == [g EXCEPT !.ops = @ + 1]
           sorted == IF kind # "load" THEN [counted EXCEPT !.writes = @ + 1]
                                      ELSE [counted EXCEPT !.reads = @ + 1]
           Untouched(x) == /\ x.oobReads = g.oobReads /\ x.oobWrites = g.oobWrites
                      /\ x.bySite = g.bySite /\ x.kept = g.kept /\ x.dropped = g.dropped
           D(x) == DOMAIN x = DOMAIN g
<1>1. /\ counted.ops = g.ops + 1 /\ counted.unmeasured = g.unmeasured
      /\ counted.reads = g.reads /\ counted.writes = g.writes
      /\ Untouched(counted) /\ D(counted)
  BY <1>d
<1>2. /\ sorted.ops = g.ops + 1 /\ sorted.unmeasured = g.unmeasured
      /\ sorted.reads = (IF kind = "load" THEN g.reads + 1 ELSE g.reads)
      /\ sorted.writes = (IF kind # "load" THEN g.writes + 1 ELSE g.writes)
      /\ Untouched(sorted) /\ D(sorted)
  <2> HIDE DEF counted
  <2>1. CASE kind # "load"
    BY <2>1, <1>1, <1>d
  <2>2. CASE kind = "load"
    BY <2>2, <1>1, <1>d
  <2> QED  BY <2>1, <2>2
<1>3. ASSUME ~Measured(kind)
      PROVE  Noted(g, h, kind, a, n, s)
  <2>1. kind = "cas"
    BY <1>3 DEF Measured
  <2>2. h = [counted EXCEPT !.unmeasured = @ + 1]
    BY <1>3 DEF Note
  <2> HIDE DEF counted, h
  <2>3. /\ h.ops = g.ops + 1 /\ h.unmeasured = g.unmeasured + 1
        /\ h.reads = g.reads /\ h.writes = g.writes /\ Untouched(h) /\ D(h)
    BY <1>1, <1>d, <2>2
  <2>4. Counters(h)
    BY <2>3, <1>n DEF Counters
  <2> QED  BY <1>3, <1>n, <2>1, <2>3, <2>4 DEF One, Oob, Noted
<1>4. ASSUME Measured(kind) /\ Locate(a, n)
      PROVE  Noted(g, h, kind, a, n, s)
  <2>1. h = sorted
    BY <1>4 DEF Note
  <2> HIDE DEF sorted, h
  <2>2. Counters(h)
    BY <1>2, <2>1, <1>n DEF Counters
  <2>3. kind = "load" \/ kind = "store"
    BY <1>4 DEF Measured
  <2> QED  BY <1>2, <1>4, <1>n, <2>1, <2>2, <2>3 DEF One, Oob, Noted
<1>5. ASSUME Measured(kind) /\ ~Locate(a, n)
      PROVE  Noted(g, h, kind, a, n, s)
  <2>0. h = NoteOob(sorted, kind # "load", w, s)
    BY <1>5 DEF Note
  <2> HIDE DEF sorted, h
  <2>1. /\ h.ops = sorted.ops /\ h.reads = sorted.reads /\ h.writes = sorted.writes
        /\ h.unmeasured = sorted.unmeasured /\ D(h)
    BY <1>2, <1>d, <2>0 DEF NoteOob
  <2>2. /\ h.oobReads = (IF kind # "load" THEN sorted.oobReads ELSE sorted.oobReads + 1)
        /\ h.oobWrites = (IF kind # "load" THEN sorted.oobWrites + 1 ELSE sorted.oobWrites)
    BY <1>2, <1>d, <2>0 DEF NoteOob
  <2>3. /\ h.kept = (IF KeepsRecord(sorted) THEN sorted.kept + 1 ELSE sorted.kept)
        /\ h.dropped = (IF KeepsRecord(sorted) THEN sorted.dropped ELSE sorted.dropped + 1)
    BY <1>2, <1>d, <2>0 DEF NoteOob, KeepsRecord
  <2>4. h.bySite = SiteNoted(g.bySite, s, kind)
    BY <1>2, <1>d, <2>0 DEF NoteOob, SiteNoted
  <2>5. KeepsRecord(sorted) = KeepsRecord(g)
    BY <1>2 DEF KeepsRecord
  <2>6. /\ h.bySite \in [Sites -> [read : Nat, write : Nat]]
        /\ \A t \in Sites : h.bySite[t].read + h.bySite[t].write =
                              g.bySite[t].read + g.bySite[t].write + One(t = s)
    BY <1>n, <2>4, OobSite
  <2>7. Counters(h)
    BY <2>1, <2>2, <2>3, <2>6, <1>2, <1>n DEF Counters
  <2>8. kind = "load" \/ kind = "store"
    BY <1>5 DEF Measured
  <2>9. Oob(kind, a, n)
    BY <1>5 DEF Oob
  <2>10. \A t \in Sites : h.bySite[t].read + h.bySite[t].write =
            g.bySite[t].read + g.bySite[t].write + One(Oob(kind, a, n) /\ t = s)
    BY <2>6, <2>9 DEF One
  <2>11. /\ h.kept = g.kept + One(Oob(kind, a, n) /\ KeepsRecord(g))
         /\ h.dropped = g.dropped + One(Oob(kind, a, n) /\ ~KeepsRecord(g))
    BY <1>2, <1>n, <2>3, <2>5, <2>9 DEF One
  <2> QED  BY <1>2, <1>5, <1>n, <2>1, <2>2, <2>7, <2>8, <2>10, <2>11 DEF One, Noted
<1> QED  BY <1>3, <1>4, <1>5

(* One note: the gate stays clean exactly when it was and the access is.   *)
LEMMA NoteVerdict ==
    \A g, a, n : \A kind \in {"load", "store", "cas"}, w \in Waves, s \in Sites :
       Counters(g) =>
          /\ Counters(Note(g, kind, a, n, w, s))
          /\ Ok(Note(g, kind, a, n, w, s)) <=> Ok(g) /\ kind # "cas" /\ Locate(a, n)
<1> SUFFICES ASSUME NEW g, NEW a, NEW n, NEW kind \in {"load", "store", "cas"},
                    NEW w \in Waves, NEW s \in Sites, Counters(g)
             PROVE  /\ Counters(Note(g, kind, a, n, w, s))
                    /\ Ok(Note(g, kind, a, n, w, s)) <=>
                          Ok(g) /\ kind # "cas" /\ Locate(a, n)
  OBVIOUS
<1> DEFINE h == Note(g, kind, a, n, w, s)
<1>1. Noted(g, h, kind, a, n, s)
  BY NoteCounts
<1> HIDE DEF h
<1>2. /\ Counters(h) /\ h.unmeasured = g.unmeasured + One(kind = "cas")
      /\ h.oobReads = g.oobReads + One(kind = "load" /\ ~Locate(a, n))
      /\ h.oobWrites = g.oobWrites + One(kind = "store" /\ ~Locate(a, n))
  BY <1>1 DEF Noted
<1>3. g.unmeasured \in Nat /\ g.oobReads \in Nat /\ g.oobWrites \in Nat
  BY DEF Counters
<1>4. Ok(h) <=> Ok(g) /\ kind # "cas" /\ Locate(a, n)
  BY <1>2, <1>3 DEF Ok, One
<1> QED  BY <1>2, <1>4 DEF h

-----------------------------------------------------------------------------
(* One access appends one entry to the log, and a gated one is noted.      *)
LEMMA OneAccess ==
    ASSUME GInv, NEW w \in Waves, NEW s \in Sites, GatedAccess(w, s) \/ UngatedAccess(w, s)
    PROVE  \E e \in Entries :
              /\ log' = Append(log, e) /\ log' \in Seq(Entries) /\ Len(log') = Len(log) + 1
              /\ log'[Len(log) + 1] = e /\ \A i \in 1 .. Len(log) : log'[i] = log[i]
              /\ e.wave = w /\ e.site = s
              /\ e.kind = access'.kind /\ e.addr = access'.addr
              /\ GatedAccess(w, s) => /\ e.kind \in {"load", "store", "cas"}
                                      /\ gate' = Note(gate, e.kind, e.addr, e.n, w, s)
              /\ UngatedAccess(w, s) => e.kind = "sload" /\ gate' = gate
<1> DEFINE e == [wave |-> w, site |-> s, kind |-> access'.kind,
                 addr |-> access'.addr, n |-> access'.n]
<1>1. /\ access'.kind \in {"load", "store", "cas", "sload"}
      /\ access'.addr \in Keys /\ access'.n \in Nat
      /\ GatedAccess(w, s) => access'.kind \in {"load", "store", "cas"}
      /\ UngatedAccess(w, s) => access'.kind = "sload"
  BY AccessKinds DEF GatedAccess, UngatedAccess
<1>2. log' = Append(log, e)
  BY DEF GatedAccess, UngatedAccess, Record
<1>3. e \in Entries
  BY <1>1 DEF Entries
<1>4. log \in Seq(Entries)
  BY DEF GInv
<1>5. /\ e.wave = w /\ e.site = s
      /\ e.kind = access'.kind /\ e.addr = access'.addr /\ e.n = access'.n
  OBVIOUS
<1>6. GatedAccess(w, s) => gate' = Note(gate, e.kind, e.addr, e.n, w, s)
  BY <1>5 DEF GatedAccess
<1>7. UngatedAccess(w, s) => gate' = gate
  BY DEF UngatedAccess
<1> HIDE DEF e
<1>8. /\ log' \in Seq(Entries) /\ Len(log') = Len(log) + 1
      /\ log'[Len(log) + 1] = e /\ \A i \in 1 .. Len(log) : log'[i] = log[i]
  BY <1>2, <1>3, <1>4
<1> QED  BY <1>1, <1>2, <1>3, <1>5, <1>6, <1>7, <1>8

(* Nothing is against the gate at first.                                   *)
LEMMA InitGInv == ASSUME GInit PROVE GInv
<1>1. Counters(GateInit)
  BY DEF Counters, GateInit
<1> QED  BY <1>1 DEF GInit, GInv, GateInit, Ok

(* The gate stays clean as long as the log is.                             *)
LEMMA NextGInv == ASSUME GInv, [GNext]_gvars PROVE GInv'
<1>1. CASE UNCHANGED gvars
  BY <1>1 DEF gvars, GInv, Counters, Ok, Clean, Vector, Locate
<1>2. ASSUME NEW w \in Waves, NEW s \in Sites, GatedAccess(w, s) \/ UngatedAccess(w, s)
      PROVE  GInv'
  <2>1. PICK e \in Entries :
              /\ log' = Append(log, e) /\ log' \in Seq(Entries) /\ Len(log') = Len(log) + 1
              /\ log'[Len(log) + 1] = e /\ \A i \in 1 .. Len(log) : log'[i] = log[i]
              /\ e.wave = w /\ e.site = s
              /\ e.kind = access'.kind /\ e.addr = access'.addr
              /\ GatedAccess(w, s) => /\ e.kind \in {"load", "store", "cas"}
                                      /\ gate' = Note(gate, e.kind, e.addr, e.n, w, s)
              /\ UngatedAccess(w, s) => e.kind = "sload" /\ gate' = gate
    BY <1>2, OneAccess
  <2>2. /\ log \in Seq(Entries) /\ Counters(gate)
        /\ Ok(gate) <=> \A i \in DOMAIN log : Clean(log[i])
    BY DEF GInv
  <2>3. (\A i \in DOMAIN log' : Clean(log'[i])) <=>
           (\A i \in DOMAIN log : Clean(log[i])) /\ Clean(e)
    <3>1. /\ Len(log) \in Nat /\ DOMAIN log = 1 .. Len(log) /\ DOMAIN log' = 1 .. (Len(log) + 1)
      BY <2>1, <2>2
    <3>2. \A i \in DOMAIN log' : i \in DOMAIN log \/ i = Len(log) + 1
      BY <3>1
    <3>3. DOMAIN log \subseteq DOMAIN log' /\ Len(log) + 1 \in DOMAIN log'
      BY <3>1
    <3> QED  BY <2>1, <3>1, <3>2, <3>3
  <2>4. CASE GatedAccess(w, s)
    <3>1. Clean(e) <=> e.kind # "cas" /\ Locate(e.addr, e.n)
      BY <2>1, <2>4 DEF Clean, Vector
    <3>2. Counters(gate') /\ (Ok(gate') <=> Ok(gate) /\ e.kind # "cas" /\ Locate(e.addr, e.n))
      <4>1. gate' = Note(gate, e.kind, e.addr, e.n, w, s) /\ e.kind \in {"load", "store", "cas"}
        BY <2>1, <2>4
      <4>2. /\ Counters(Note(gate, e.kind, e.addr, e.n, w, s))
            /\ Ok(Note(gate, e.kind, e.addr, e.n, w, s)) <=>
                  Ok(gate) /\ e.kind # "cas" /\ Locate(e.addr, e.n)
        BY <2>2, <4>1, NoteVerdict
      <4> QED  BY <4>1, <4>2
    <3> QED  BY <2>1, <2>2, <2>3, <3>1, <3>2 DEF GInv
  <2>5. CASE UngatedAccess(w, s)
    <3>1. gate' = gate /\ Clean(e)
      BY <2>1, <2>5 DEF Clean, Vector
    <3> QED  BY <2>1, <2>2, <2>3, <3>1 DEF GInv
  <2> QED  BY <1>2, <2>4, <2>5
<1> QED  BY <1>1, <1>2 DEF GNext

(* The gate passes exactly when every vector access of the run had a known *)
(* width and lay inside one declared region, whatever the record cap.      *)
THEOREM VerdictCorrect == GSpec => []VerdictExact
<1>1. GInv => VerdictExact
  BY DEF GInv, VerdictExact, Clean, Locate
<1> QED  BY InitGInv, NextGInv, <1>1, PTL DEF GSpec

-----------------------------------------------------------------------------
(* With aligned regions a dword is declared as a whole or not at all.      *)
LEMMA WordDeclared ==
    ASSUME RegionsAligned, NEW r \in Regions, NEW x \in Keys,
           r[1] <= Base(x), Base(x) < r[2]
    PROVE  r[1] <= x /\ x < r[2]
<1>0. r[1] \in Nat /\ r[2] \in Nat /\ r[1] % DwordBytes = 0 /\ r[2] % DwordBytes = 0
  BY GateAssumption DEF RegionsAligned
<1>1. CASE DwordBytes = 2
  BY <1>0, <1>1 DEF Base, Keys
<1>2. CASE DwordBytes = 4
  BY <1>0, <1>2 DEF Base, Keys
<1> QED  BY <1>1, <1>2, GeometryAssumption

(* If the regions begin and end on dword boundaries, then while the gate   *)
(* passes no byte outside them changes, even by the stores that disturb    *)
(* their neighbours.                                                       *)
THEOREM PassConfines == ASSUME RegionsAligned PROVE GSpec => PassMeansConfined
<1>1. ASSUME GInv, [GNext]_gvars
      PROVE  [Ok(gate') => \A a \in Keys \ Declared : View'[a] = View[a]]_gvars
  <2>1. CASE UNCHANGED gvars
    BY <2>1
  <2>2. CASE mem' = mem
    BY <2>2 DEF View, ReadByte, Base, SynthByte
  <2>3. ASSUME NEW w \in Waves, NEW s \in Sites, GatedAccess(w, s), mem' # mem, Ok(gate'),
               NEW x \in Keys \ Declared
        PROVE  View'[x] = View[x]
    <3>1. gate' = Note(gate, access'.kind, access'.addr, access'.n, w, s)
      BY <2>3 DEF GatedAccess
    <3>2. access'.kind \in {"load", "store", "cas"}
      BY <2>3, AccessKinds DEF GatedAccess
    <3>3. access'.kind # "cas" /\ Locate(access'.addr, access'.n)
      <4>1. Counters(gate)
        BY <1>1 DEF GInv
      <4>2. Ok(Note(gate, access'.kind, access'.addr, access'.n, w, s)) =>
               access'.kind # "cas" /\ Locate(access'.addr, access'.n)
        BY <4>1, <3>2, NoteVerdict
      <4> QED  BY <2>3, <3>1, <4>2
    <3>4. Load => mem' = mem
      BY DEF Load, VectorLoad
    <3>5. Store
      BY <2>3, <3>3, <3>4, AccessKinds DEF GatedAccess
    <3>6. PICK t \in Stores : \E data \in Arch!Data(t[2]) : VectorStore(t[1], t[2], data)
      BY <3>5 DEF Store
    <3>7. PICK data \in Arch!Data(t[2]) : VectorStore(t[1], t[2], data)
      BY <3>6
    <3>8. mem' = Put(mem, t[1], data, t[2]) /\ access'.addr = t[1] /\ access'.n = t[2]
      BY <3>7 DEF VectorStore
    <3>9. PICK r \in Regions : r[1] <= t[1] /\ t[1] + t[2] <= r[2]
      BY <3>3, <3>8 DEF Locate
    <3> DEFINE R == t[1] .. (t[1] + t[2] - 1)
    <3>10. t[1] \in Nat /\ t[2] \in Nat /\ r[1] \in Nat /\ r[2] \in Nat
      BY AccessAssumption, GateAssumption, GeometryAssumption DEF Keys
    <3>11. x \in Nat /\ ~(r[1] <= x /\ x < r[2])
      BY <3>10 DEF Declared, Keys
    <3>12. x \notin R
      BY <3>9, <3>10, <3>11
    <3>13. Base(x) \notin R
      <4>1. ~(r[1] <= Base(x) /\ Base(x) < r[2])
        BY <3>11, WordDeclared
      <4>2. Base(x) \in R => r[1] <= Base(x) /\ Base(x) < r[2]
        BY <3>9, <3>10
      <4> QED  BY <4>1, <4>2
    <3>14. ReadByte(mem', x) = ReadByte(mem, x)
      BY <3>8, <3>12, <3>13 DEF ReadByte, Put
    <3> QED  BY <3>14 DEF View, ReadByte, Base, SynthByte
  <2>4. ASSUME NEW w \in Waves, NEW s \in Sites, UngatedAccess(w, s)
        PROVE  mem' = mem
    BY <2>4 DEF UngatedAccess, Sload, ScalarLoad
  <2> QED  BY <1>1, <2>1, <2>2, <2>3, <2>4 DEF GNext
<1> QED  BY InitGInv, NextGInv, <1>1, PTL DEF GSpec, PassMeansConfined

-----------------------------------------------------------------------------
(* The counters of the gate.                                               *)

(* A set of positions and the same set one position later.                 *)
LEMMA OneMore ==
    ASSUME NEW n \in Nat, NEW P, NEW Q, P \subseteq 1 .. n, Q \subseteq 1 .. (n + 1),
           \A i \in 1 .. n : i \in Q <=> i \in P
    PROVE  /\ IsFiniteSet(P) /\ Cardinality(P) \in Nat
           /\ Cardinality(Q) = Cardinality(P) + One(n + 1 \in Q)
<1>1. IsFiniteSet(1 .. n)
  BY FS_Interval
<1>2. IsFiniteSet(P) /\ Cardinality(P) \in Nat
  BY <1>1, FS_Subset, FS_CardinalityType
<1>3. n + 1 \notin P
  OBVIOUS
<1>r. \A i : i \in 1 .. (n + 1) <=> i \in 1 .. n \/ i = n + 1
  OBVIOUS
<1>4. CASE n + 1 \in Q
  <2>1. Q = P \cup {n + 1}
    <3>1. \A i : i \in Q <=> i \in P \cup {n + 1}
      BY <1>4, <1>r, Zenon
    <3> QED  BY <3>1, Zenon
  <2>2. Cardinality(P \cup {n + 1}) = Cardinality(P) + 1
    BY <1>2, <1>3, FS_AddElement
  <2> QED  BY <1>2, <1>4, <2>1, <2>2 DEF One
<1>5. CASE n + 1 \notin Q
  <2>1. Q = P
    <3>1. \A i : i \in Q <=> i \in P
      BY <1>5, <1>r, Zenon
    <3> QED  BY <3>1, Zenon
  <2> QED  BY <1>2, <1>5, <2>1 DEF One
<1> QED  BY <1>4, <1>5

(* The positions of the entries each counter is about.                     *)
VectorAt == {i \in DOMAIN log : Vector(log[i])}
KindAt(k) == {i \in DOMAIN log : log[i].kind = k}
OobAt(k) == {i \in DOMAIN log : log[i].kind = k /\ OutOfBounds(log[i])}
SiteAt(s) == {i \in DOMAIN log : OutOfBounds(log[i]) /\ log[i].site = s}

CountedAt ==
    /\ gate.ops = Cardinality(VectorAt)
    /\ gate.reads = Cardinality(KindAt("load")) /\ gate.writes = Cardinality(KindAt("store"))
    /\ gate.oobReads = Cardinality(OobAt("load"))
    /\ gate.oobWrites = Cardinality(OobAt("store"))
    /\ gate.unmeasured = Cardinality(KindAt("cas"))
    /\ \A s \in Sites : gate.bySite[s].read + gate.bySite[s].write = Cardinality(SiteAt(s))

(* The counters are the sizes of these sets.                               *)
LEMMA Counts ==
   CountsExact <=> CountedAt
<1>1. KindAt("cas") = {i \in DOMAIN log : Vector(log[i]) /\ log[i].kind = "cas"}
  BY DEF KindAt, Vector
<1> QED BY <1>1 DEF CountsExact, CountedAt, Count, VectorAt, KindAt, OobAt, SiteAt

(* The counters are exact; and without a cap no record is ever dropped.    *)
CountInv == CountsExact /\ RecordsWithinCap /\ (RecCap = 0 => gate.dropped = 0)

(* What one more entry does to the numbers of entries of each kind.        *)
LEMMA LogCounts ==
    ASSUME log \in Seq(Entries), NEW e \in Entries, log' \in Seq(Entries),
           Len(log') = Len(log) + 1, log'[Len(log) + 1] = e,
           \A i \in 1 .. Len(log) : log'[i] = log[i]
    PROVE  /\ Cardinality(VectorAt') = Cardinality(VectorAt) + One(Vector(e))
           /\ \A k : Cardinality(KindAt(k)') = Cardinality(KindAt(k)) + One(e.kind = k)
           /\ \A k : Cardinality(OobAt(k)') =
                       Cardinality(OobAt(k)) + One(e.kind = k /\ OutOfBounds(e))
           /\ \A s : Cardinality(SiteAt(s)') =
                       Cardinality(SiteAt(s)) + One(OutOfBounds(e) /\ e.site = s)
<1> DEFINE N == Len(log)
<1>1. /\ N \in Nat /\ DOMAIN log = 1 .. N /\ DOMAIN log' = 1 .. (N + 1)
      /\ 1 .. N \subseteq 1 .. (N + 1) /\ N + 1 \in 1 .. (N + 1)
  OBVIOUS
<1>2. log'[N + 1] = e /\ \A i \in 1 .. N : log'[i] = log[i]
  OBVIOUS
<1> HIDE DEF N
<1>3. Cardinality(VectorAt') = Cardinality(VectorAt) + One(Vector(e))
  <2>1. /\ VectorAt \subseteq 1 .. N /\ VectorAt' \subseteq 1 .. (N + 1)
        /\ \A i \in 1 .. N : i \in VectorAt' <=> i \in VectorAt
        /\ N + 1 \in VectorAt' <=> Vector(e)
    BY <1>1, <1>2 DEF VectorAt, Vector
  <2> QED  BY <1>1, <2>1, OneMore DEF One
<1>4. ASSUME NEW k
      PROVE  Cardinality(KindAt(k)') = Cardinality(KindAt(k)) + One(e.kind = k)
  <2>1. /\ KindAt(k) \subseteq 1 .. N /\ KindAt(k)' \subseteq 1 .. (N + 1)
        /\ \A i \in 1 .. N : i \in KindAt(k)' <=> i \in KindAt(k)
        /\ N + 1 \in KindAt(k)' <=> e.kind = k
    BY <1>1, <1>2 DEF KindAt
  <2> QED  BY <1>1, <2>1, OneMore DEF One
<1>5. ASSUME NEW k
      PROVE  Cardinality(OobAt(k)') =
                Cardinality(OobAt(k)) + One(e.kind = k /\ OutOfBounds(e))
  <2>1. /\ OobAt(k) \subseteq 1 .. N /\ OobAt(k)' \subseteq 1 .. (N + 1)
        /\ \A i \in 1 .. N : i \in OobAt(k)' <=> i \in OobAt(k)
        /\ N + 1 \in OobAt(k)' <=> e.kind = k /\ OutOfBounds(e)
    BY <1>1, <1>2 DEF OobAt, OutOfBounds, Vector, Locate, Measured
  <2> QED  BY <1>1, <2>1, OneMore DEF One
<1>6. ASSUME NEW s
      PROVE  Cardinality(SiteAt(s)') =
                Cardinality(SiteAt(s)) + One(OutOfBounds(e) /\ e.site = s)
  <2>1. /\ SiteAt(s) \subseteq 1 .. N /\ SiteAt(s)' \subseteq 1 .. (N + 1)
        /\ \A i \in 1 .. N : i \in SiteAt(s)' <=> i \in SiteAt(s)
        /\ N + 1 \in SiteAt(s)' <=> OutOfBounds(e) /\ e.site = s
    BY <1>1, <1>2 DEF SiteAt, OutOfBounds, Vector, Locate, Measured
  <2> QED  BY <1>1, <2>1, OneMore DEF One
<1> QED  BY <1>3, <1>4, <1>5, <1>6

(* Nothing is counted at first.                                            *)
LEMMA InitCountInv == ASSUME GInit PROVE CountInv
<1>1. log = <<>> /\ gate = GateInit
  BY DEF GInit
<1>3. /\ VectorAt = {} /\ \A k : KindAt(k) = {} /\ \A j : OobAt(j) = {}
      /\ \A s : SiteAt(s) = {}
  BY <1>1 DEF VectorAt, KindAt, OobAt, SiteAt
<1>4. /\ gate.ops = 0 /\ gate.reads = 0 /\ gate.writes = 0 /\ gate.oobReads = 0
      /\ gate.oobWrites = 0 /\ gate.unmeasured = 0 /\ gate.kept = 0 /\ gate.dropped = 0
      /\ \A s \in Sites : gate.bySite[s].read = 0 /\ gate.bySite[s].write = 0
  BY <1>1 DEF GateInit
<1>5. CountsExact
  BY <1>3, <1>4, FS_EmptySet, Counts DEF CountedAt
<1>6. RecordsWithinCap /\ (RecCap = 0 => gate.dropped = 0)
  BY <1>4, GateAssumption DEF RecordsWithinCap
<1> QED  BY <1>5, <1>6 DEF CountInv

(* Every access is counted as what it is.                                  *)
LEMMA NextCountInv == ASSUME GInv, CountInv, [GNext]_gvars PROVE CountInv'
<1>1. CASE UNCHANGED gvars
  BY <1>1 DEF gvars, CountInv, CountsExact, RecordsWithinCap, Count, OutOfBounds,
              Vector, Locate, Measured
<1>2. ASSUME NEW w \in Waves, NEW s \in Sites, GatedAccess(w, s) \/ UngatedAccess(w, s)
      PROVE  CountInv'
  <2>1. PICK e \in Entries :
              /\ log' = Append(log, e) /\ log' \in Seq(Entries) /\ Len(log') = Len(log) + 1
              /\ log'[Len(log) + 1] = e /\ \A i \in 1 .. Len(log) : log'[i] = log[i]
              /\ e.wave = w /\ e.site = s
              /\ e.kind = access'.kind /\ e.addr = access'.addr
              /\ GatedAccess(w, s) => /\ e.kind \in {"load", "store", "cas"}
                                      /\ gate' = Note(gate, e.kind, e.addr, e.n, w, s)
              /\ UngatedAccess(w, s) => e.kind = "sload" /\ gate' = gate
    BY <1>2, OneAccess
  <2>2. log \in Seq(Entries)
    BY DEF GInv
  <2>3. /\ Cardinality(VectorAt') = Cardinality(VectorAt) + One(Vector(e))
        /\ \A k : Cardinality(KindAt(k)') = Cardinality(KindAt(k)) + One(e.kind = k)
        /\ \A k : Cardinality(OobAt(k)') =
                       Cardinality(OobAt(k)) + One(e.kind = k /\ OutOfBounds(e))
        /\ \A t : Cardinality(SiteAt(t)') =
                       Cardinality(SiteAt(t)) + One(OutOfBounds(e) /\ e.site = t)
    BY <2>1, <2>2, LogCounts
  <2>4. Counters(gate) /\ RecordsWithinCap /\ (RecCap = 0 => gate.dropped = 0) /\ CountedAt
    BY Counts DEF CountInv, GInv
  <2>5. CountsExact' <=> CountedAt'
    BY Counts, PTL
  <2>6. CASE UngatedAccess(w, s)
    <3>1. gate' = gate /\ ~Vector(e) /\ ~OutOfBounds(e) /\ e.kind = "sload"
      BY <2>1, <2>6 DEF OutOfBounds, Vector
    <3>2. /\ Cardinality(VectorAt') = Cardinality(VectorAt) + 0
          /\ \A k \in {"load", "store", "cas"} :
                /\ Cardinality(KindAt(k)') = Cardinality(KindAt(k)) + 0
                /\ Cardinality(OobAt(k)') = Cardinality(OobAt(k)) + 0
          /\ \A t : Cardinality(SiteAt(t)') = Cardinality(SiteAt(t)) + 0
      BY <2>3, <3>1 DEF One
    <3>3. CountedAt'
      BY <2>4, <3>1, <3>2 DEF CountedAt, Counters
    <3>4. RecordsWithinCap' /\ (RecCap = 0 => gate'.dropped = 0)
      BY <2>4, <3>1 DEF RecordsWithinCap
    <3> QED  BY <3>3, <3>4, <2>5 DEF CountInv
  <2>7. CASE GatedAccess(w, s)
    <3>1. /\ e.kind \in {"load", "store", "cas"} /\ Vector(e)
          /\ gate' = Note(gate, e.kind, e.addr, e.n, w, s)
      BY <2>1, <2>7 DEF Vector
    <3>2. /\ OutOfBounds(e) <=> Oob(e.kind, e.addr, e.n)
          /\ e.kind = "cas" => ~OutOfBounds(e)
          /\ \A k \in {"load", "store"} :
                e.kind = k /\ OutOfBounds(e) <=> e.kind = k /\ ~Locate(e.addr, e.n)
      BY <3>1 DEF OutOfBounds, Oob, Measured
    <3> DEFINE h == gate'
    <3>3. /\ Counters(h)
          /\ h.ops = gate.ops + 1 /\ h.unmeasured = gate.unmeasured + One(e.kind = "cas")
          /\ h.reads = gate.reads + One(e.kind = "load")
          /\ h.writes = gate.writes + One(e.kind = "store")
          /\ h.oobReads = gate.oobReads + One(e.kind = "load" /\ ~Locate(e.addr, e.n))
          /\ h.oobWrites = gate.oobWrites + One(e.kind = "store" /\ ~Locate(e.addr, e.n))
          /\ h.kept = gate.kept + One(Oob(e.kind, e.addr, e.n) /\ KeepsRecord(gate))
          /\ h.dropped = gate.dropped + One(Oob(e.kind, e.addr, e.n) /\ ~KeepsRecord(gate))
          /\ \A t \in Sites : h.bySite[t].read + h.bySite[t].write =
                  gate.bySite[t].read + gate.bySite[t].write
                     + One(Oob(e.kind, e.addr, e.n) /\ t = s)
      <4>1. Counters(gate) /\ w \in Waves /\ s \in Sites
        BY <2>4
      <4>2. Noted(gate, h, e.kind, e.addr, e.n, s)
        BY <3>1, <4>1, NoteCounts
      <4> QED  BY <4>2 DEF Noted
    <3>4. CountedAt'
      <4>1. /\ h.ops = Cardinality(VectorAt')
            /\ h.reads = Cardinality(KindAt("load")') /\ h.writes = Cardinality(KindAt("store")')
            /\ h.unmeasured = Cardinality(KindAt("cas")')
        BY <2>3, <2>4, <3>1, <3>3 DEF CountedAt, One
      <4>2. /\ h.oobReads = Cardinality(OobAt("load")')
            /\ h.oobWrites = Cardinality(OobAt("store")')
        BY <2>3, <2>4, <3>2, <3>3 DEF CountedAt, One
      <4>3. \A t \in Sites : h.bySite[t].read + h.bySite[t].write = Cardinality(SiteAt(t)')
        <5>1. \A t : Cardinality(SiteAt(t)') =
                        Cardinality(SiteAt(t)) + One(Oob(e.kind, e.addr, e.n) /\ t = s)
          BY <2>1, <2>3, <3>2 DEF One
        <5> QED  BY <2>4, <3>3, <5>1 DEF CountedAt
      <4> QED  BY <4>1, <4>2, <4>3 DEF CountedAt
    <3>5. RecordsWithinCap' /\ (RecCap = 0 => gate'.dropped = 0)
      <4>1. One(Oob(e.kind, e.addr, e.n)) =
               One(e.kind = "load" /\ ~Locate(e.addr, e.n))
                  + One(e.kind = "store" /\ ~Locate(e.addr, e.n))
        BY <3>1 DEF One, Oob, Measured
      <4>2. /\ gate.kept \in Nat /\ gate.dropped \in Nat /\ RecCap \in Nat
            /\ gate.oobReads \in Nat /\ gate.oobWrites \in Nat
        BY <2>4, GateAssumption DEF Counters
      <4>3. /\ RecCap > 0 => gate.kept <= RecCap
            /\ gate.kept + gate.dropped = gate.oobReads + gate.oobWrites
            /\ gate.dropped > 0 => gate.kept = RecCap
            /\ RecCap = 0 => gate.dropped = 0
        BY <2>4 DEF RecordsWithinCap
      <4>4. CASE ~Oob(e.kind, e.addr, e.n)
        <5>1. /\ h.kept = gate.kept /\ h.dropped = gate.dropped
              /\ h.oobReads = gate.oobReads /\ h.oobWrites = gate.oobWrites
          BY <3>3, <4>1, <4>2, <4>4 DEF One
        <5> QED  BY <4>3, <5>1 DEF RecordsWithinCap
      <4>5. CASE Oob(e.kind, e.addr, e.n)
        <5>1. h.oobReads + h.oobWrites = gate.oobReads + gate.oobWrites + 1
          BY <3>3, <4>1, <4>2, <4>5 DEF One
        <5>2. CASE KeepsRecord(gate)
          <6>1. h.kept = gate.kept + 1 /\ h.dropped = gate.dropped
            BY <3>3, <4>2, <4>5, <5>2 DEF One
          <6> QED  BY <4>2, <4>3, <5>1, <5>2, <6>1 DEF KeepsRecord, RecordsWithinCap
        <5>3. CASE ~KeepsRecord(gate)
          <6>1. h.kept = gate.kept /\ h.dropped = gate.dropped + 1
            BY <3>3, <4>2, <4>5, <5>3 DEF One
          <6> QED  BY <4>2, <4>3, <5>1, <5>3, <6>1 DEF KeepsRecord, RecordsWithinCap
        <5> QED  BY <5>2, <5>3
      <4> QED  BY <4>4, <4>5
    <3> QED  BY <3>3, <3>4, <3>5, <2>5 DEF CountInv
  <2> QED  BY <1>2, <2>6, <2>7
<1> QED  BY <1>1, <1>2 DEF GNext

-----------------------------------------------------------------------------
(* Lists of records.                                                       *)

(* One more member above all others leaves the ranks below as they were.   *)
LEMMA Ranks ==
    ASSUME NEW n \in Nat, NEW P, P \subseteq 1 .. n
    PROVE  /\ \A i \in P : Rank(P, i) \in 1 .. Cardinality(P)
           /\ \A i \in 1 .. n : Rank(P \cup {n + 1}, i) = Rank(P, i)
           /\ Rank(P \cup {n + 1}, n + 1) = Cardinality(P) + 1
<1>0. IsFiniteSet(P) /\ Cardinality(P) \in Nat
  <2>1. IsFiniteSet(1 .. n)
    BY FS_Interval
  <2> QED  BY <2>1, FS_Subset, FS_CardinalityType
<1>1. ASSUME NEW i \in P
      PROVE  Rank(P, i) \in 1 .. Cardinality(P)
  <2> DEFINE B == {j \in P : j <= i}
  <2>1. i \in B /\ B \subseteq P
    OBVIOUS
  <2>2. Cardinality(B) \in Nat /\ Cardinality(P) \in Nat /\ Cardinality(B) <= Cardinality(P)
    BY <1>0, <2>1, FS_Subset, FS_CardinalityType
  <2>3. Cardinality(B) # 0
    <3>1. IsFiniteSet(B) /\ B # {}
      BY <1>0, <2>1, FS_Subset
    <3> QED  BY <3>1, FS_EmptySet
  <2> QED  BY <2>2, <2>3 DEF Rank
<1>2. ASSUME NEW i \in 1 .. n
      PROVE  Rank(P \cup {n + 1}, i) = Rank(P, i)
  <2>1. \A j : j \in P \cup {n + 1} /\ j <= i <=> j \in P /\ j <= i
    OBVIOUS
  <2>2. {j \in P \cup {n + 1} : j <= i} = {j \in P : j <= i}
    BY <2>1
  <2> QED  BY <2>2 DEF Rank
<1>3. Rank(P \cup {n + 1}, n + 1) = Cardinality(P) + 1
  <2>1. {j \in P \cup {n + 1} : j <= n + 1} = P \cup {n + 1}
    <3>1. \A j \in P \cup {n + 1} : j <= n + 1
      OBVIOUS
    <3> QED  BY <3>1, Zenon
  <2>2. n + 1 \notin P
    OBVIOUS
  <2> QED  BY <1>0, <2>1, <2>2, FS_AddElement DEF Rank
<1> QED  BY <1>1, <1>2, <1>3

(* A list of records stays one when the next event is put at its end.      *)
LEMMA ListsMore ==
    ASSUME NEW n \in Nat, NEW P, P \subseteq 1 .. n, NEW R, NEW recs \in Seq(R), NEW r \in R,
           NEW f, NEW f2, Lists(recs, P, f), \A i \in P : f2[i] = f[i], f2[n + 1] = r
    PROVE  Lists(Append(recs, r), P \cup {n + 1}, f2)
<1>1. /\ \A i \in P : Rank(P, i) \in 1 .. Cardinality(P)
      /\ \A i \in 1 .. n : Rank(P \cup {n + 1}, i) = Rank(P, i)
      /\ Rank(P \cup {n + 1}, n + 1) = Cardinality(P) + 1
  BY Ranks
<1>2. Cardinality(P \cup {n + 1}) = Cardinality(P) + 1
  <2>1. IsFiniteSet(1 .. n)
    BY FS_Interval
  <2>2. IsFiniteSet(P)
    BY <2>1, FS_Subset
  <2>3. n + 1 \notin P
    OBVIOUS
  <2> QED  BY <2>2, <2>3, FS_AddElement
<1>3. Len(recs) = Cardinality(P) /\ \A i \in P : recs[Rank(P, i)] = f[i]
  BY DEF Lists
<1> DEFINE more == Append(recs, r)
<1>4. /\ Len(more) = Len(recs) + 1 /\ more[Len(recs) + 1] = r
      /\ \A k \in 1 .. Len(recs) : more[k] = recs[k]
  OBVIOUS
<1> HIDE DEF more
<1>5. ASSUME NEW i \in P
      PROVE  more[Rank(P \cup {n + 1}, i)] = f2[i]
  <2>1. Rank(P \cup {n + 1}, i) = Rank(P, i) /\ Rank(P, i) \in 1 .. Len(recs)
    BY <1>1, <1>3
  <2> QED  BY <1>3, <1>4, <2>1
<1>6. more[Rank(P \cup {n + 1}, n + 1)] = f2[n + 1]
  BY <1>1, <1>3, <1>4
<1>7. Lists(more, P \cup {n + 1}, f2)
  BY <1>2, <1>3, <1>4, <1>5, <1>6 DEF Lists
<1> QED  BY <1>7 DEF more

(* Nothing is a list of nothing.                                           *)
LEMMA ListsNone == \A f : Lists(<<>>, {}, f)
BY FS_EmptySet DEF Lists

-----------------------------------------------------------------------------
(* One recorder.                                                           *)
Kinds == {"load", "store", "cas"}
Events == BOOLEAN \X Keys \X Sites
AllRequests == Requests \cup {DefaultRequest}

RTyped(g) ==
  /\ DOMAIN g = DOMAIN New(DefaultRequest)
  /\ g.n \in Nat /\ g.nRead \in Nat /\ g.nWrite \in Nat /\ g.nKept \in Nat /\ g.nDropped \in Nat
  /\ g.lo \in Nat /\ g.hi \in Nat
  /\ g.byPc \in [Sites -> Nat] /\ g.byOpcode \in [Kinds -> Nat]
  /\ g.kept \in Seq(Events) /\ g.seen \subseteq Sites

(* The record of an access, and what its append does to the recorder.      *)
Event(kind, a, s) == <<kind # "load", a, s>>

Counted(g, h, kind, a, s) ==
  /\ RTyped(h) /\ h.conf = g.conf
  /\ h.n = g.n + 1 /\ h.nRead = g.nRead + One(kind = "load")
  /\ h.nWrite = g.nWrite + One(kind # "load")
  /\ h.lo = (IF a < g.lo THEN a ELSE g.lo) /\ h.hi = (IF a > g.hi THEN a ELSE g.hi)
  /\ \A t \in Sites : h.byPc[t] = g.byPc[t] + One(t = s)
  /\ \A k \in Kinds : h.byOpcode[k] = g.byOpcode[k] + One(k = kind)
  /\ h.nKept = g.nKept + One(Keeps(g, s)) /\ h.nDropped = g.nDropped + One(~Keeps(g, s))
  /\ h.kept = (IF Keeps(g, s) THEN Append(g.kept, Event(kind, a, s)) ELSE g.kept)
  /\ h.seen = (IF Keeps(g, s) THEN g.seen \cup {s} ELSE g.seen)

(* An append counts the event in full and keeps it if the mode keeps it.   *)
LEMMA AppendCounts ==
    ASSUME NEW g, RTyped(g), NEW kind \in Kinds, NEW a \in Keys, NEW s \in Sites
    PROVE  Counted(g, Appended(g, kind, a, s), kind, a, s)
<1> DEFINE h == Appended(g, kind, a, s)
<1>d. {"conf", "n", "nRead", "nWrite", "lo", "hi", "byPc", "byOpcode", "kept", "seen",
       "nKept", "nDropped"} = DOMAIN g
  BY DEF RTyped, New
<1>1. DOMAIN h = DOMAIN g /\ h.conf = g.conf
  BY <1>d DEF Appended
<1>2. /\ h.n = g.n + 1
      /\ h.nRead = (IF kind = "load" THEN g.nRead + 1 ELSE g.nRead)
      /\ h.nWrite = (IF kind = "load" THEN g.nWrite ELSE g.nWrite + 1)
  BY <1>d DEF Appended
<1>3. h.lo = (IF a < g.lo THEN a ELSE g.lo) /\ h.hi = (IF a > g.hi THEN a ELSE g.hi)
  BY <1>d DEF Appended
<1>4. /\ h.byPc = [g.byPc EXCEPT ![s] = @ + 1]
      /\ h.byOpcode = [g.byOpcode EXCEPT ![kind] = @ + 1]
  BY <1>d DEF Appended
<1>5. /\ h.kept = (IF Keeps(g, s) THEN Append(g.kept, Event(kind, a, s)) ELSE g.kept)
      /\ h.seen = (IF Keeps(g, s) THEN g.seen \cup {s} ELSE g.seen)
  BY <1>d DEF Appended, Event
<1>6. /\ h.nKept = (IF Keeps(g, s) THEN g.nKept + 1 ELSE g.nKept)
      /\ h.nDropped = (IF Keeps(g, s) THEN g.nDropped ELSE g.nDropped + 1)
  BY <1>d DEF Appended
<1> HIDE DEF h
<1>n. /\ g.n \in Nat /\ g.nRead \in Nat /\ g.nWrite \in Nat /\ g.nKept \in Nat
      /\ g.nDropped \in Nat /\ g.lo \in Nat /\ g.hi \in Nat /\ a \in Nat
  BY DEF RTyped, Keys
<1>m. /\ g.byPc \in [Sites -> Nat] /\ g.byOpcode \in [Kinds -> Nat]
      /\ g.kept \in Seq(Events) /\ g.seen \subseteq Sites
  BY DEF RTyped
<1>7. /\ h.byPc \in [Sites -> Nat] /\ h.byOpcode \in [Kinds -> Nat]
      /\ \A t \in Sites : h.byPc[t] = g.byPc[t] + One(t = s)
      /\ \A k \in Kinds : h.byOpcode[k] = g.byOpcode[k] + One(k = kind)
  <2>1. /\ h.byPc \in [Sites -> Nat]
        /\ \A t \in Sites : h.byPc[t] = g.byPc[t] + One(t = s)
    BY ONLY <1>4, <1>m, s \in Sites DEF One
  <2>2. /\ h.byOpcode \in [Kinds -> Nat]
        /\ \A k \in Kinds : h.byOpcode[k] = g.byOpcode[k] + One(k = kind)
    BY ONLY <1>4, <1>m, kind \in Kinds DEF One
  <2> QED  BY <2>1, <2>2
<1>8. Event(kind, a, s) \in Events
  BY DEF Event, Events
<1>9. h.kept \in Seq(Events) /\ h.seen \subseteq Sites
  <2>1. CASE Keeps(g, s)
    <3>1. h.kept = Append(g.kept, Event(kind, a, s)) /\ h.seen = g.seen \cup {s}
      BY <1>5, <2>1, Zenon
    <3> QED  BY ONLY <1>8, <1>m, <3>1, s \in Sites
  <2>2. CASE ~Keeps(g, s)
    BY <1>5, <1>m, <2>2, Zenon
  <2> QED  BY <2>1, <2>2
<1>10. RTyped(h)
  <2>1. /\ h.n \in Nat /\ h.nRead \in Nat /\ h.nWrite \in Nat /\ h.nKept \in Nat
        /\ h.nDropped \in Nat /\ h.lo \in Nat /\ h.hi \in Nat
    <3>0. h.nRead \in {g.nRead, g.nRead + 1} /\ h.nWrite \in {g.nWrite, g.nWrite + 1}
      BY <1>2, Zenon
    <3>1. h.n \in Nat /\ h.nRead \in Nat /\ h.nWrite \in Nat
      BY ONLY <1>2, <1>n, <3>0
    <3>2. h.nKept \in {g.nKept, g.nKept + 1} /\ h.nDropped \in {g.nDropped, g.nDropped + 1}
      BY <1>6, Zenon
    <3>3. h.lo \in {a, g.lo} /\ h.hi \in {a, g.hi}
      BY <1>3, Zenon
    <3>4. h.nKept \in Nat /\ h.nDropped \in Nat
      BY ONLY <1>n, <3>2
    <3>5. h.lo \in Nat /\ h.hi \in Nat
      BY ONLY <1>n, <3>3
    <3> QED  BY <3>1, <3>4, <3>5
  <2>2. DOMAIN h = DOMAIN New(DefaultRequest)
    BY <1>1, Zenon DEF RTyped
  <2> QED  BY <1>7, <1>9, <2>1, <2>2 DEF RTyped
<1>11. /\ h.nRead = g.nRead + One(kind = "load") /\ h.nWrite = g.nWrite + One(kind # "load")
       /\ h.nKept = g.nKept + One(Keeps(g, s)) /\ h.nDropped = g.nDropped + One(~Keeps(g, s))
  <2>1. /\ h.nRead = g.nRead + One(kind = "load")
        /\ h.nWrite = g.nWrite + One(kind # "load")
    BY ONLY <1>2, <1>n DEF One
  <2>2. CASE Keeps(g, s)
    <3>1. /\ h.nKept = g.nKept + 1 /\ h.nDropped = g.nDropped
          /\ One(Keeps(g, s)) = 1 /\ One(~Keeps(g, s)) = 0
      BY <1>6, <2>2, Zenon DEF One
    <3> QED  BY ONLY <1>n, <2>1, <3>1
  <2>3. CASE ~Keeps(g, s)
    <3>1. /\ h.nKept = g.nKept /\ h.nDropped = g.nDropped + 1
          /\ One(Keeps(g, s)) = 0 /\ One(~Keeps(g, s)) = 1
      BY <1>6, <2>3, Zenon DEF One
    <3> QED  BY ONLY <1>n, <2>1, <3>1
  <2> QED  BY <2>2, <2>3
<1>12. Counted(g, h, kind, a, s)
  BY <1>1, <1>2, <1>3, <1>5, <1>7, <1>10, <1>11 DEF Counted
<1> QED  BY <1>12 DEF h

-----------------------------------------------------------------------------
(* The recorder of one wave.                                               *)
Kept(w) == {i \in Made(w) : Promised(w, i)}

(* The recorder of a wave against the log: its counts, its records, and    *)
(* for the aggregate mode the sites it has seen and how full its sample is.*)
WaveInv(w) ==
  LET g == g_ops[w] IN
  /\ RTyped(g) /\ g.conf = asked
  /\ WaveExact(w)
  /\ Made(w) = {} => g.lo = Size /\ g.hi = 0
  /\ Lists(g.kept, Kept(w), Records)
  /\ asked.mode = "AGGREGATE" =>
       /\ g.seen = {log[i].site : i \in Made(w)}
       /\ g.n <= asked.sampleCap => Len(g.kept) = g.n
       /\ g.n > asked.sampleCap => Len(g.kept) >= asked.sampleCap
  /\ asked.mode = "FULL_TRACE" => g.n <= asked.budget

(* The log has become one entry longer.                                    *)
LogGrown(e) ==
  /\ log \in Seq(Entries) /\ log' \in Seq(Entries) /\ Len(log') = Len(log) + 1
  /\ log'[Len(log) + 1] = e /\ \A i \in 1 .. Len(log) : log'[i] = log[i]

(* The positions of a wave grow by its own recorded accesses only.         *)
LEMMA MadeGrows ==
    ASSUME NEW e \in Entries, LogGrown(e), NEW w
    PROVE  /\ Made(w) \subseteq 1 .. Len(log)
           /\ \A i \in Made(w) : log'[i] = log[i]
           /\ e.wave = w /\ Vector(e) => Made(w)' = Made(w) \cup {Len(log) + 1}
           /\ ~(e.wave = w /\ Vector(e)) => Made(w)' = Made(w)
<1> DEFINE N == Len(log)
<1>1. /\ N \in Nat /\ DOMAIN log = 1 .. N /\ DOMAIN log' = 1 .. (N + 1)
      /\ \A i : i \in 1 .. (N + 1) <=> i \in 1 .. N \/ i = N + 1
  BY DEF LogGrown
<1>2. log'[N + 1] = e /\ \A i \in 1 .. N : log'[i] = log[i]
  BY DEF LogGrown
<1> HIDE DEF N
<1>3. Made(w) \subseteq 1 .. N
  BY <1>1 DEF Made
<1>4. \A i : i \in Made(w)' <=> i \in Made(w) \/ (i = N + 1 /\ e.wave = w /\ Vector(e))
  <2>1. N + 1 \notin 1 .. N
    BY <1>1
  <2> QED  BY <1>1, <1>2, <2>1 DEF Made, Vector
<1>5. e.wave = w /\ Vector(e) => Made(w)' = Made(w) \cup {N + 1}
  BY <1>4, Zenon
<1>6. ~(e.wave = w /\ Vector(e)) => Made(w)' = Made(w)
  BY <1>4, Zenon
<1> QED  BY <1>2, <1>3, <1>5, <1>6 DEF N

(* An access of another wave, or one that is not recorded, leaves it alone.*)
LEMMA OtherWave ==
    ASSUME NEW e \in Entries, LogGrown(e), NEW w, ~(e.wave = w /\ Vector(e)),
           WaveInv(w), g_ops'[w] = g_ops[w], asked' = asked
    PROVE  WaveInv(w)'
<1>1. /\ Made(w)' = Made(w) /\ \A i \in Made(w) : log'[i] = log[i]
      /\ Made(w) \subseteq DOMAIN log /\ DOMAIN log \subseteq DOMAIN log'
  BY MadeGrows DEF LogGrown
<1>2. Kept(w)' = Kept(w)
  BY <1>1 DEF Kept, Promised
<1>3. \A i \in Made(w) : Records'[i] = Records[i]
  BY <1>1 DEF Records
<1>4. Lists(g_ops'[w].kept, Kept(w)', Records')
  <2>1. Lists(g_ops[w].kept, Kept(w), Records) /\ g_ops'[w].kept = g_ops[w].kept
    BY DEF WaveInv
  <2>2. \A i \in Kept(w) : Records'[i] = Records[i]
    BY <1>3 DEF Kept
  <2> QED  BY <1>2, <2>1, <2>2 DEF Lists
<1>5. WaveExact(w)'
  <2>1. /\ \A k : MadeBy(w, k)' = MadeBy(w, k)
        /\ \A s : MadeAt(w, s)' = MadeAt(w, s)
        /\ MadeTo(w)' = MadeTo(w)
    BY <1>1 DEF MadeBy, MadeAt, MadeTo
  <2>2. WaveExact(w)
    BY DEF WaveInv
  <2> QED  BY <1>1, <2>1, <2>2 DEF WaveExact
<1>6. {log'[i].site : i \in Made(w)'} = {log[i].site : i \in Made(w)}
  BY <1>1
<1> QED  BY <1>1, <1>4, <1>5, <1>6 DEF WaveInv

(* A request has one of the three modes.                                   *)
LEMMA RequestTypes ==
    ASSUME NEW r \in AllRequests
    PROVE  /\ r.mode \in {"AGGREGATE", "TARGETED_TRACE", "FULL_TRACE"}
           /\ r.targets \subseteq Sites /\ r.sampleCap \in Nat /\ r.budget \in Nat
BY RequestAssumption DEF AllRequests, Modes

(* What one more access of the wave adds to each set of positions.         *)
LEMMA MadeCounts ==
    ASSUME NEW e \in Entries, LogGrown(e), NEW w, e.wave = w, Vector(e)
    PROVE  /\ Cardinality(Made(w)) \in Nat
           /\ Cardinality(Made(w)') = Cardinality(Made(w)) + 1
           /\ \A k : Cardinality(MadeBy(w, k)') = Cardinality(MadeBy(w, k)) + One(k = e.kind)
           /\ \A s : Cardinality(MadeAt(w, s)') = Cardinality(MadeAt(w, s)) + One(s = e.site)
           /\ MadeTo(w)' = MadeTo(w) \cup {e.addr}
           /\ {log'[i].site : i \in Made(w)'} = {log[i].site : i \in Made(w)} \cup {e.site}
<1> DEFINE N == Len(log)
<1>1. /\ Made(w) \subseteq 1 .. N /\ Made(w)' = Made(w) \cup {N + 1}
      /\ \A i \in Made(w) : log'[i] = log[i]
  BY MadeGrows
<1>2. N \in Nat /\ log'[N + 1] = e
  BY DEF LogGrown
<1> HIDE DEF N
<1>3. /\ 1 .. N \subseteq 1 .. (N + 1) /\ N + 1 \in 1 .. (N + 1) /\ N + 1 \notin 1 .. N
  BY <1>2
<1>4. Cardinality(Made(w)) \in Nat /\ Cardinality(Made(w)') = Cardinality(Made(w)) + 1
  <2>1. /\ Made(w)' \subseteq 1 .. (N + 1) /\ N + 1 \in Made(w)'
        /\ \A i \in 1 .. N : i \in Made(w)' <=> i \in Made(w)
    BY <1>1, <1>3
  <2> QED  BY <1>1, <1>2, <2>1, OneMore DEF One
<1>5. ASSUME NEW k
      PROVE  Cardinality(MadeBy(w, k)') = Cardinality(MadeBy(w, k)) + One(k = e.kind)
  <2>1. /\ MadeBy(w, k) \subseteq 1 .. N /\ MadeBy(w, k)' \subseteq 1 .. (N + 1)
        /\ \A i \in 1 .. N : i \in MadeBy(w, k)' <=> i \in MadeBy(w, k)
        /\ N + 1 \in MadeBy(w, k)' <=> k = e.kind
    BY <1>1, <1>2, <1>3 DEF MadeBy
  <2> QED  BY <1>2, <2>1, OneMore DEF One
<1>6. ASSUME NEW s
      PROVE  Cardinality(MadeAt(w, s)') = Cardinality(MadeAt(w, s)) + One(s = e.site)
  <2>1. /\ MadeAt(w, s) \subseteq 1 .. N /\ MadeAt(w, s)' \subseteq 1 .. (N + 1)
        /\ \A i \in 1 .. N : i \in MadeAt(w, s)' <=> i \in MadeAt(w, s)
        /\ N + 1 \in MadeAt(w, s)' <=> s = e.site
    BY <1>1, <1>2, <1>3 DEF MadeAt
  <2> QED  BY <1>2, <2>1, OneMore DEF One
<1>7. MadeTo(w)' = MadeTo(w) \cup {e.addr}
  BY <1>1, <1>2 DEF MadeTo
<1>8. {log'[i].site : i \in Made(w)'} = {log[i].site : i \in Made(w)} \cup {e.site}
  BY <1>1, <1>2
<1> QED  BY <1>4, <1>5, <1>6, <1>7, <1>8

(* The recorder keeps an access exactly when the request promises it.      *)
LEMMA KeepsPromised ==
    ASSUME NEW e \in Entries, LogGrown(e), NEW w, e.wave = w, Vector(e),
           WaveInv(w), asked \in AllRequests, asked' = asked
    PROVE  /\ Keeps(g_ops[w], e.site) => Kept(w)' = Kept(w) \cup {Len(log) + 1}
           /\ ~Keeps(g_ops[w], e.site) => Kept(w)' = Kept(w)
<1>0. PICK N \in Nat : N = Len(log)
  BY DEF LogGrown
<1> DEFINE g == g_ops[w]
<1>1. /\ Made(w) \subseteq 1 .. N /\ Made(w)' = Made(w) \cup {N + 1}
      /\ \A i \in Made(w) : log'[i] = log[i]
  BY <1>0, MadeGrows
<1>2. N \in Nat /\ log'[N + 1] = e
  BY <1>0 DEF LogGrown
<1>3. /\ g.conf = asked /\ g.n = Cardinality(Made(w)) /\ RTyped(g)
      /\ asked.mode = "AGGREGATE" =>
           /\ g.seen = {log[i].site : i \in Made(w)}
           /\ g.n <= asked.sampleCap => Len(g.kept) = g.n
           /\ g.n > asked.sampleCap => Len(g.kept) >= asked.sampleCap
  BY DEF WaveInv, WaveExact
<1>4. /\ asked.mode \in {"AGGREGATE", "TARGETED_TRACE", "FULL_TRACE"}
      /\ asked.sampleCap \in Nat
  BY RequestTypes
<1>5. /\ \A i \in Made(w) : Rank(Made(w)', i) = Rank(Made(w), i)
      /\ Rank(Made(w)', N + 1) = g.n + 1
  <2> HIDE DEF g
  <2>1. /\ \A i \in 1 .. N : Rank(Made(w) \cup {N + 1}, i) = Rank(Made(w), i)
        /\ Rank(Made(w) \cup {N + 1}, N + 1) = Cardinality(Made(w)) + 1
    BY <1>1, <1>2, Ranks
  <2> QED  BY <1>1, <1>3, <2>1
<1>6. g.n \in Nat /\ Len(g.kept) \in Nat
  BY <1>3 DEF RTyped
<1> HIDE DEF g
<1>7. ASSUME NEW i \in Made(w)
      PROVE  Promised(w, i)' <=> Promised(w, i)
  <2>1. log'[i] = log[i] /\ i \in Nat /\ i <= N
    BY <1>1, <1>2
  <2>2. (\A j \in Made(w)' : j < i => log'[j].site # log'[i].site) <=>
           (\A j \in Made(w) : j < i => log[j].site # log[i].site)
    <3>1. ~(N + 1 < i)
      BY <1>2, <2>1
    <3>2. \A j : j \in Made(w)' <=> j \in Made(w) \/ j = N + 1
      BY <1>1
    <3>3. \A j \in Made(w) : log'[j].site = log[j].site
      BY <1>1
    <3> QED  BY <2>1, <3>1, <3>2, <3>3, Zenon
  <2>3. Rank(Made(w)', i) = Rank(Made(w), i)
    BY <1>5
  <2>4. CASE asked.mode \in {"FULL_TRACE", "TARGETED_TRACE"}
    BY <2>1, <2>4 DEF Promised
  <2>5. CASE asked.mode = "AGGREGATE"
    BY <2>2, <2>3, <2>5 DEF Promised
  <2> QED  BY <1>4, <2>4, <2>5
<1>8. Promised(w, N + 1)' <=> Keeps(g, e.site)
  <2>1. CASE asked.mode = "FULL_TRACE"
    BY <1>3, <2>1 DEF Promised, Keeps
  <2>2. CASE asked.mode = "TARGETED_TRACE"
    BY <1>2, <1>3, <2>2 DEF Promised, Keeps
  <2>3. CASE asked.mode = "AGGREGATE"
    <3>1. Len(g.kept) < asked.sampleCap <=> g.n + 1 <= asked.sampleCap
      <4>1. /\ g.n <= asked.sampleCap => Len(g.kept) = g.n
            /\ g.n > asked.sampleCap => Len(g.kept) >= asked.sampleCap
            /\ asked.sampleCap \in Nat /\ g.n \in Nat /\ Len(g.kept) \in Nat
        BY <1>3, <1>4, <1>6, <2>3
      <4> QED  BY ONLY <4>1
    <3>2. e.site \notin g.seen <=>
             \A j \in Made(w)' : j < N + 1 => log'[j].site # log'[N + 1].site
      <4>1. /\ \A j \in Made(w) : j < N + 1
            /\ ~(N + 1 < N + 1)
        BY <1>1, <1>2
      <4>2. \A j : j \in Made(w)' <=> j \in Made(w) \/ j = N + 1
        BY <1>1
      <4>3. \A j \in Made(w) : log'[j].site = log[j].site
        BY <1>1
      <4>4. e.site \notin g.seen <=> \A j \in Made(w) : log[j].site # e.site
        BY <1>3, <2>3
      <4>5. log'[N + 1].site = e.site
        BY <1>2
      <4> QED  BY <4>1, <4>2, <4>3, <4>4, <4>5, Zenon
    <3>3. Keeps(g, e.site) <=> Len(g.kept) < asked.sampleCap \/ e.site \notin g.seen
      BY <1>3, <2>3 DEF Keeps
    <3>4. Promised(w, N + 1)' <=>
             \/ Rank(Made(w)', N + 1) <= asked.sampleCap
             \/ \A j \in Made(w)' : j < N + 1 => log'[j].site # log'[N + 1].site
      BY <2>3 DEF Promised
    <3> QED  BY <1>5, <3>1, <3>2, <3>3, <3>4
  <2> QED  BY <1>4, <2>1, <2>2, <2>3
<1>9. \A i : i \in Kept(w)' <=> i \in Kept(w) \/ (i = N + 1 /\ Keeps(g, e.site))
  <2>1. N + 1 \notin Made(w)
    BY <1>1, <1>2
  <2>2. \A i : i \in Made(w)' <=> i \in Made(w) \/ i = N + 1
    BY <1>1
  <2>3. \A i : i \in Kept(w) <=> i \in Made(w) /\ Promised(w, i)
    BY DEF Kept
  <2>4. \A i : i \in Kept(w)' <=> i \in Made(w)' /\ Promised(w, i)'
    BY DEF Kept
  <2> QED  BY <1>7, <1>8, <2>1, <2>2, <2>3, <2>4, Zenon
<1> QED  BY <1>0, <1>9, Zenon DEF g

(* One recorded access of the wave.                                        *)
LEMMA OwnAccess ==
    ASSUME NEW e \in Entries, LogGrown(e), NEW w \in Waves, e.wave = w, e.kind \in Kinds,
           WaveInv(w), asked \in AllRequests, asked' = asked, ~OverBudget(g_ops[w]),
           g_ops'[w] = Appended(g_ops[w], e.kind, e.addr, e.site)
    PROVE  WaveInv(w)'
<1> DEFINE g == g_ops[w]
           h == g_ops'[w]
<1>0. PICK N \in Nat : N = Len(log)
  BY DEF LogGrown
<1>1. Vector(e) /\ e.addr \in Keys /\ e.site \in Sites
  BY DEF Vector, Kinds, Entries
<1>2. RTyped(g) /\ g.conf = asked /\ WaveExact(w) /\ Lists(g.kept, Kept(w), Records)
  BY DEF WaveInv
<1>3. Counted(g, h, e.kind, e.addr, e.site)
  BY <1>1, <1>2, AppendCounts
<1>4. /\ Cardinality(Made(w)) \in Nat
      /\ Cardinality(Made(w)') = Cardinality(Made(w)) + 1
      /\ \A k : Cardinality(MadeBy(w, k)') = Cardinality(MadeBy(w, k)) + One(k = e.kind)
      /\ \A s : Cardinality(MadeAt(w, s)') = Cardinality(MadeAt(w, s)) + One(s = e.site)
      /\ MadeTo(w)' = MadeTo(w) \cup {e.addr}
      /\ {log'[i].site : i \in Made(w)'} = {log[i].site : i \in Made(w)} \cup {e.site}
  BY <1>1, MadeCounts
<1>5. /\ Made(w) \subseteq 1 .. N /\ Made(w)' = Made(w) \cup {N + 1}
      /\ \A i \in Made(w) : log'[i] = log[i]
  BY <1>0, <1>1, MadeGrows
<1>6. /\ g.n = Cardinality(Made(w)) /\ g.n = g.nKept + g.nDropped /\ g.nKept = Len(g.kept)
      /\ g.nRead = Cardinality(MadeBy(w, "load")) /\ g.nWrite = g.n - g.nRead
      /\ MadeTo(w) # {} => {g.lo, g.hi} \subseteq MadeTo(w) /\ MadeTo(w) \subseteq g.lo .. g.hi
      /\ \A s \in Sites : g.byPc[s] = Cardinality(MadeAt(w, s))
      /\ \A k \in Kinds : g.byOpcode[k] = Cardinality(MadeBy(w, k))
  <2>1. DOMAIN g.byOpcode = Kinds
    BY <1>2 DEF RTyped
  <2> QED  BY <1>2, <2>1 DEF WaveExact
<1>7. /\ RTyped(h) /\ h.conf = g.conf
      /\ h.n = g.n + 1 /\ h.nRead = g.nRead + One(e.kind = "load")
      /\ h.nWrite = g.nWrite + One(e.kind # "load")
      /\ h.lo = (IF e.addr < g.lo THEN e.addr ELSE g.lo)
      /\ h.hi = (IF e.addr > g.hi THEN e.addr ELSE g.hi)
      /\ \A t \in Sites : h.byPc[t] = g.byPc[t] + One(t = e.site)
      /\ \A k \in Kinds : h.byOpcode[k] = g.byOpcode[k] + One(k = e.kind)
      /\ h.nKept = g.nKept + One(Keeps(g, e.site))
      /\ h.nDropped = g.nDropped + One(~Keeps(g, e.site))
      /\ h.kept = (IF Keeps(g, e.site) THEN Append(g.kept, Event(e.kind, e.addr, e.site))
                                       ELSE g.kept)
      /\ h.seen = (IF Keeps(g, e.site) THEN g.seen \cup {e.site} ELSE g.seen)
  BY <1>3 DEF Counted
<1>8. /\ g.n \in Nat /\ g.nRead \in Nat /\ g.nWrite \in Nat /\ g.nKept \in Nat
      /\ g.nDropped \in Nat /\ g.lo \in Nat /\ g.hi \in Nat /\ g.kept \in Seq(Events)
      /\ Len(g.kept) \in Nat
  BY <1>2 DEF RTyped
<1>9. /\ asked.mode \in {"AGGREGATE", "TARGETED_TRACE", "FULL_TRACE"}
      /\ asked.sampleCap \in Nat /\ asked.budget \in Nat
  BY RequestTypes
<1> HIDE DEF g, h
<1>10. /\ Keeps(g, e.site) => Len(h.kept) = Len(g.kept) + 1
       /\ ~Keeps(g, e.site) => h.kept = g.kept
  <2>1. Event(e.kind, e.addr, e.site) \in Events
    BY <1>1 DEF Event, Events
  <2> QED  BY <1>7, <1>8, <2>1
<1>11. WaveExact(w)'
  <2>1. h.n = Cardinality(Made(w)')
    BY <1>4, <1>6, <1>7
  <2>2. h.n = h.nKept + h.nDropped /\ h.nKept = Len(h.kept)
    <3>1. CASE Keeps(g, e.site)
      <4>1. h.nKept = g.nKept + 1 /\ h.nDropped = g.nDropped /\ Len(h.kept) = Len(g.kept) + 1
        BY <1>7, <1>8, <1>10, <3>1 DEF One
      <4> QED  BY ONLY <4>1, <1>6, <1>7, <1>8
    <3>2. CASE ~Keeps(g, e.site)
      <4>1. h.nKept = g.nKept /\ h.nDropped = g.nDropped + 1 /\ Len(h.kept) = Len(g.kept)
        BY <1>7, <1>8, <1>10, <3>2 DEF One
      <4> QED  BY ONLY <4>1, <1>6, <1>7, <1>8
    <3> QED  BY <3>1, <3>2
  <2>3. h.nRead = Cardinality(MadeBy(w, "load")') /\ h.nWrite = h.n - h.nRead
    <3>1. h.nRead = Cardinality(MadeBy(w, "load")')
      BY <1>4, <1>6, <1>7 DEF One
    <3>2. One(e.kind = "load") + One(e.kind # "load") = 1
          /\ One(e.kind = "load") \in Nat /\ One(e.kind # "load") \in Nat
      BY DEF One
    <3>3. /\ h.n = g.n + 1 /\ h.nRead = g.nRead + One(e.kind = "load")
          /\ h.nWrite = g.nWrite + One(e.kind # "load") /\ g.nWrite = g.n - g.nRead
      BY <1>6, <1>7
    <3>4. g.n \in Nat /\ g.nRead \in Nat /\ g.nWrite \in Nat
      BY <1>8
    <3>5. h.nWrite = h.n - h.nRead
      BY ONLY <3>2, <3>3, <3>4
    <3> QED  BY <3>1, <3>5
  <2>4. {h.lo, h.hi} \subseteq MadeTo(w)' /\ MadeTo(w)' \subseteq h.lo .. h.hi
    <3>0. e.addr \in Nat /\ e.addr < Size /\ Size \in Nat
      BY <1>1, GeometryAssumption DEF Keys
    <3>1. CASE Made(w) = {}
      <4>1. MadeTo(w)' = {e.addr}
        BY <1>4, <3>1 DEF MadeTo
      <4>2. g.lo = Size /\ g.hi = 0
        BY <3>1 DEF WaveInv, g
      <4>3. h.lo = e.addr /\ h.hi = e.addr
        BY <1>7, <3>0, <4>2
      <4> QED  BY <3>0, <4>1, <4>3
    <3>2. CASE Made(w) # {}
      <4>1. MadeTo(w) # {}
        BY <3>2 DEF MadeTo
      <4>2. g.lo \in MadeTo(w) /\ g.hi \in MadeTo(w) /\ MadeTo(w) \subseteq g.lo .. g.hi
        BY <1>6, <4>1
      <4>3. h.lo \in MadeTo(w)' /\ h.hi \in MadeTo(w)'
        BY <1>4, <1>7, <4>2
      <4>4. /\ h.lo \in Nat /\ h.hi \in Nat /\ h.lo <= g.lo /\ h.hi >= g.hi
            /\ h.lo <= e.addr /\ h.hi >= e.addr
        BY <1>7, <1>8, <3>0
      <4>5. \A a \in MadeTo(w)' : a \in h.lo .. h.hi
        <5>1. ASSUME NEW a \in g.lo .. g.hi PROVE a \in h.lo .. h.hi
          BY ONLY <1>8, <4>4, <5>1
        <5>2. e.addr \in h.lo .. h.hi
          BY ONLY <3>0, <4>4
        <5>3. \A a \in MadeTo(w)' : a \in MadeTo(w) \/ a = e.addr
          BY <1>4
        <5> QED  BY ONLY <4>2, <5>1, <5>2, <5>3
      <4> QED  BY <4>3, <4>5
    <3> QED  BY <3>1, <3>2
  <2>5. /\ \A s \in Sites : h.byPc[s] = Cardinality(MadeAt(w, s)')
        /\ \A k \in Kinds : h.byOpcode[k] = Cardinality(MadeBy(w, k)')
    BY <1>4, <1>6, <1>7
  <2>6. DOMAIN h.byOpcode = Kinds
    BY <1>7 DEF RTyped
  <2> QED  BY <2>1, <2>2, <2>3, <2>4, <2>5, <2>6 DEF WaveExact, h
<1>12. Lists(h.kept, Kept(w)', Records')
  <2>1. Records'[N + 1] = Event(e.kind, e.addr, e.site)
    BY <1>0 DEF Records, Event, LogGrown
  <2>2. Kept(w) \subseteq 1 .. N /\ \A i \in Kept(w) : Records'[i] = Records[i]
    <3>1. Kept(w) \subseteq Made(w)
      BY DEF Kept
    <3>2. DOMAIN log = 1 .. N /\ DOMAIN log' = 1 .. (N + 1) /\ 1 .. N \subseteq 1 .. (N + 1)
      BY <1>0 DEF LogGrown
    <3>3. \A i \in Made(w) : i \in DOMAIN log /\ i \in DOMAIN log'
      BY <1>5, <3>2
    <3>4. \A i \in Made(w) : Records'[i] = Records[i]
      BY <1>5, <3>3 DEF Records
    <3> QED  BY <1>5, <3>1, <3>4
  <2>3. Event(e.kind, e.addr, e.site) \in Events
    BY <1>1 DEF Event, Events
  <2>4. Lists(g.kept, Kept(w), Records)
    BY <1>2 DEF g
  <2>5. CASE Keeps(g, e.site)
    <3>1. Kept(w)' = Kept(w) \cup {N + 1}
      BY <1>0, <1>1, <2>5, KeepsPromised DEF g
    <3>2. Lists(Append(g.kept, Event(e.kind, e.addr, e.site)), Kept(w) \cup {N + 1}, Records')
      BY <1>8, <2>1, <2>2, <2>3, <2>4, ListsMore
    <3> QED  BY <1>7, <2>5, <3>1, <3>2
  <2>6. CASE ~Keeps(g, e.site)
    <3>1. Kept(w)' = Kept(w) /\ h.kept = g.kept
      BY <1>1, <1>7, <2>6, KeepsPromised DEF g
    <3> QED  BY <2>2, <2>4, <3>1 DEF Lists
  <2> QED  BY <2>5, <2>6
<1>13. asked.mode = "AGGREGATE" =>
         /\ h.seen = {log'[i].site : i \in Made(w)'}
         /\ h.n <= asked.sampleCap => Len(h.kept) = h.n
         /\ h.n > asked.sampleCap => Len(h.kept) >= asked.sampleCap
  <2> SUFFICES ASSUME asked.mode = "AGGREGATE"
               PROVE  /\ h.seen = {log'[i].site : i \in Made(w)'}
                      /\ h.n <= asked.sampleCap => Len(h.kept) = h.n
                      /\ h.n > asked.sampleCap => Len(h.kept) >= asked.sampleCap
    OBVIOUS
  <2>1. /\ g.seen = {log[i].site : i \in Made(w)}
        /\ g.n <= asked.sampleCap => Len(g.kept) = g.n
        /\ g.n > asked.sampleCap => Len(g.kept) >= asked.sampleCap
    BY DEF WaveInv, g
  <2>2. Keeps(g, e.site) <=> Len(g.kept) < asked.sampleCap \/ e.site \notin g.seen
    BY <1>2 DEF Keeps, g
  <2>3. h.seen = g.seen \cup {e.site}
    BY <1>7, <2>2
  <2>4. h.n = g.n + 1 /\ (Len(h.kept) = Len(g.kept) \/ Len(h.kept) = Len(g.kept) + 1)
    BY <1>7, <1>10
  <2>5. Len(g.kept) < asked.sampleCap => Len(h.kept) = Len(g.kept) + 1
    BY <1>10, <2>2
  <2>6. /\ h.n <= asked.sampleCap => Len(h.kept) = h.n
        /\ h.n > asked.sampleCap => Len(h.kept) >= asked.sampleCap
    BY ONLY <1>8, <1>9, <2>1, <2>4, <2>5
  <2> QED  BY <1>4, <2>1, <2>3, <2>6
<1>14. asked.mode = "FULL_TRACE" => h.n <= asked.budget
  BY <1>2, <1>7, <1>8, <1>9 DEF OverBudget, g
<1>15. Made(w)' # {}
  BY <1>5
<1> QED  BY <1>2, <1>7, <1>11, <1>12, <1>13, <1>14, <1>15 DEF WaveInv, g, h

-----------------------------------------------------------------------------
(* The DS operations.                                                      *)
DsEntries == [wave : Waves, site : Sites]
DsKept(w) == {i \in DsMade(w) : DsPromised(w, i)}

DsTyped(d) == /\ DOMAIN d = {"cap", "n", "sample"}
              /\ d.cap \in Nat /\ d.n \in Nat /\ d.sample \in Seq(Sites)

(* The container of a wave against the DS operations of the run.           *)
DsInv(w) ==
  LET d == ds_ops[w] IN
  /\ DsTyped(d)
  /\ d.n = Cardinality(DsMade(w))
  /\ Lists(d.sample, DsKept(w), DsRecords)
  /\ d.cap # 0 => /\ d.n <= d.cap => Len(d.sample) = d.n
                  /\ d.n > d.cap => Len(d.sample) = d.cap

DsGrown(e) ==
  /\ dsLog \in Seq(DsEntries) /\ dsLog' \in Seq(DsEntries) /\ Len(dsLog') = Len(dsLog) + 1
  /\ dsLog'[Len(dsLog) + 1] = e /\ \A i \in 1 .. Len(dsLog) : dsLog'[i] = dsLog[i]

(* The positions of a wave grow by its own operations only.                *)
LEMMA DsMadeGrows ==
    ASSUME NEW e \in DsEntries, DsGrown(e), NEW w
    PROVE  /\ DsMade(w) \subseteq 1 .. Len(dsLog)
           /\ \A i \in DsMade(w) : dsLog'[i] = dsLog[i]
           /\ e.wave = w => DsMade(w)' = DsMade(w) \cup {Len(dsLog) + 1}
           /\ e.wave # w => DsMade(w)' = DsMade(w)
<1> DEFINE N == Len(dsLog)
<1>1. /\ N \in Nat /\ DOMAIN dsLog = 1 .. N /\ DOMAIN dsLog' = 1 .. (N + 1)
      /\ \A i : i \in 1 .. (N + 1) <=> i \in 1 .. N \/ i = N + 1
  BY DEF DsGrown
<1>2. dsLog'[N + 1] = e /\ \A i \in 1 .. N : dsLog'[i] = dsLog[i]
  BY DEF DsGrown
<1> HIDE DEF N
<1>3. DsMade(w) \subseteq 1 .. N
  BY <1>1 DEF DsMade
<1>4. \A i : i \in DsMade(w)' <=> i \in DsMade(w) \/ (i = N + 1 /\ e.wave = w)
  <2>1. N + 1 \notin 1 .. N
    BY <1>1
  <2> QED  BY <1>1, <1>2, <2>1 DEF DsMade
<1>5. e.wave = w => DsMade(w)' = DsMade(w) \cup {N + 1}
  BY <1>4, Zenon
<1>6. e.wave # w => DsMade(w)' = DsMade(w)
  BY <1>4, Zenon
<1> QED  BY <1>2, <1>3, <1>5, <1>6 DEF N

(* An operation of another wave leaves the container alone.                *)
LEMMA OtherDs ==
    ASSUME NEW e \in DsEntries, DsGrown(e), NEW w, e.wave # w, DsInv(w), ds_ops'[w] = ds_ops[w]
    PROVE  DsInv(w)'
<1>1. /\ DsMade(w)' = DsMade(w) /\ \A i \in DsMade(w) : dsLog'[i] = dsLog[i]
      /\ DsMade(w) \subseteq DOMAIN dsLog /\ DOMAIN dsLog \subseteq DOMAIN dsLog'
  BY DsMadeGrows DEF DsGrown
<1>2. DsKept(w)' = DsKept(w)
  BY <1>1 DEF DsKept, DsPromised
<1>3. \A i \in DsMade(w) : DsRecords'[i] = DsRecords[i]
  BY <1>1 DEF DsRecords
<1>4. Lists(ds_ops'[w].sample, DsKept(w)', DsRecords')
  <2>1. Lists(ds_ops[w].sample, DsKept(w), DsRecords)
    BY DEF DsInv
  <2>2. \A i \in DsKept(w) : DsRecords'[i] = DsRecords[i]
    BY <1>3 DEF DsKept
  <2> QED  BY <1>2, <2>1, <2>2 DEF Lists
<1> QED  BY <1>1, <1>4 DEF DsInv

(* One DS operation of the wave.                                           *)
LEMMA OwnDs ==
    ASSUME NEW e \in DsEntries, DsGrown(e), NEW w, e.wave = w, DsInv(w),
           ds_ops'[w] = DsAppended(ds_ops[w], e.site)
    PROVE  DsInv(w)'
<1> DEFINE d == ds_ops[w]
           h == ds_ops'[w]
<1>0. PICK N \in Nat : N = Len(dsLog)
  BY DEF DsGrown
<1>1. /\ DsMade(w) \subseteq 1 .. N /\ DsMade(w)' = DsMade(w) \cup {N + 1}
      /\ \A i \in DsMade(w) : dsLog'[i] = dsLog[i] /\ dsLog'[N + 1] = e
  BY <1>0, DsMadeGrows DEF DsGrown
<1>2. /\ DOMAIN d = {"cap", "n", "sample"}
      /\ d.cap \in Nat /\ d.n \in Nat /\ d.sample \in Seq(Sites) /\ Len(d.sample) \in Nat
      /\ d.n = Cardinality(DsMade(w)) /\ Lists(d.sample, DsKept(w), DsRecords)
      /\ d.cap # 0 => /\ d.n <= d.cap => Len(d.sample) = d.n
                      /\ d.n > d.cap => Len(d.sample) = d.cap
  BY DEF DsInv, DsTyped
<1>3. e.site \in Sites
  BY DEF DsEntries
<1>4. /\ DOMAIN h = DOMAIN d /\ h.cap = d.cap /\ h.n = d.n + 1
      /\ h.sample = IF d.cap = 0 \/ Len(d.sample) < d.cap THEN Append(d.sample, e.site)
                                                          ELSE d.sample
  BY <1>2 DEF DsAppended
<1>r. /\ \A i \in DsMade(w) : Rank(DsMade(w)', i) = Rank(DsMade(w), i)
      /\ Rank(DsMade(w)', N + 1) = d.n + 1
  <2> HIDE DEF d
  <2>1. /\ \A i \in 1 .. N : Rank(DsMade(w) \cup {N + 1}, i) = Rank(DsMade(w), i)
        /\ Rank(DsMade(w) \cup {N + 1}, N + 1) = Cardinality(DsMade(w)) + 1
    BY <1>1, Ranks
  <2> QED  BY <1>1, <1>2, <2>1
<1> DEFINE keeps == d.cap = 0 \/ Len(d.sample) < d.cap
<1>5. \A i \in DsMade(w) : DsPromised(w, i)' <=> DsPromised(w, i)
  BY <1>r, <1>4 DEF DsPromised
<1>p. DsPromised(w, N + 1)' <=> h.cap = 0 \/ d.n + 1 <= h.cap
  BY <1>r DEF DsPromised
<1> HIDE DEF d, h
<1>6. keeps <=> d.cap = 0 \/ d.n + 1 <= d.cap
  BY ONLY <1>2
<1>7. \A i : i \in DsKept(w)' <=> i \in DsKept(w) \/ (i = N + 1 /\ keeps)
  <2>1. N + 1 \notin DsMade(w)
    BY <1>1
  <2>2. \A i : i \in DsMade(w)' <=> i \in DsMade(w) \/ i = N + 1
    BY <1>1
  <2>3. \A i : i \in DsKept(w) <=> i \in DsMade(w) /\ DsPromised(w, i)
    BY DEF DsKept
  <2>4. \A i : i \in DsKept(w)' <=> i \in DsMade(w)' /\ DsPromised(w, i)'
    BY DEF DsKept
  <2>5. DsPromised(w, N + 1)' <=> keeps
    BY <1>4, <1>6, <1>p
  <2> HIDE DEF keeps
  <2> QED  BY <1>5, <2>1, <2>2, <2>3, <2>4, <2>5, Zenon
<1>8. DsRecords'[N + 1] = e.site /\ \A i \in DsMade(w) : DsRecords'[i] = DsRecords[i]
  <2>1. DOMAIN dsLog = 1 .. N /\ DOMAIN dsLog' = 1 .. (N + 1) /\ 1 .. N \subseteq 1 .. (N + 1)
    BY <1>0 DEF DsGrown
  <2>2. N + 1 \in DOMAIN dsLog' /\ dsLog'[N + 1] = e
    BY <1>0, <2>1 DEF DsGrown
  <2>3. \A i \in DsMade(w) : i \in DOMAIN dsLog /\ i \in DOMAIN dsLog'
    BY <1>1, <2>1
  <2> QED  BY <1>1, <2>2, <2>3 DEF DsRecords
<1>9. DsKept(w) \subseteq 1 .. N /\ \A i \in DsKept(w) : DsRecords'[i] = DsRecords[i]
  BY <1>1, <1>8 DEF DsKept
<1>10. h.n = Cardinality(DsMade(w)')
  <2>1. IsFiniteSet(1 .. N)
    BY FS_Interval
  <2>2. IsFiniteSet(DsMade(w))
    BY <1>1, <2>1, FS_Subset
  <2>3. N + 1 \notin DsMade(w)
    BY <1>1
  <2>4. Cardinality(DsMade(w) \cup {N + 1}) = Cardinality(DsMade(w)) + 1
    BY <2>2, <2>3, FS_AddElement
  <2> QED  BY <1>1, <1>2, <1>4, <2>4
<1>11. CASE keeps
  <2>1. DsKept(w)' = DsKept(w) \cup {N + 1}
    BY <1>7, <1>11, Zenon
  <2>2. /\ h.sample = Append(d.sample, e.site) /\ h.sample \in Seq(Sites)
        /\ Len(h.sample) = Len(d.sample) + 1
    BY <1>2, <1>3, <1>4, <1>11
  <2>3. Lists(h.sample, DsKept(w)', DsRecords')
    <3>1. Lists(d.sample, DsKept(w), DsRecords) /\ d.sample \in Seq(Sites)
      BY <1>2
    <3>2. DsRecords'[N + 1] = e.site
      BY <1>8
    <3>3. Lists(Append(d.sample, e.site), DsKept(w) \cup {N + 1}, DsRecords')
      BY <1>3, <1>9, <3>1, <3>2, ListsMore
    <3> QED  BY <2>1, <2>2, <3>3
  <2>4. h.cap # 0 => /\ h.n <= h.cap => Len(h.sample) = h.n
                     /\ h.n > h.cap => Len(h.sample) = h.cap
    <3>1. h.n = d.n + 1 /\ h.cap = d.cap /\ (d.cap = 0 \/ Len(d.sample) < d.cap)
      BY <1>4, <1>11
    <3>2. Len(h.sample) = Len(d.sample) + 1
      BY <2>2
    <3> QED  BY ONLY <1>2, <3>1, <3>2
  <2>5. DsTyped(h)
    BY <1>2, <1>4, <2>2 DEF DsTyped
  <2> QED  BY <1>10, <2>3, <2>4, <2>5 DEF DsInv, h
<1>12. CASE ~keeps
  <2>1. DsKept(w)' = DsKept(w)
    BY <1>7, <1>12, Zenon
  <2>2. h.sample = d.sample
    BY <1>4, <1>12
  <2>3. Lists(h.sample, DsKept(w)', DsRecords')
    BY <1>2, <1>9, <2>1, <2>2 DEF Lists
  <2>4. h.cap # 0 => /\ h.n <= h.cap => Len(h.sample) = h.n
                     /\ h.n > h.cap => Len(h.sample) = h.cap
    <3>1. h.n = d.n + 1 /\ h.cap = d.cap /\ ~(d.cap = 0 \/ Len(d.sample) < d.cap)
      BY <1>4, <1>12
    <3> QED  BY ONLY <1>2, <3>1, <2>2
  <2>5. DsTyped(h)
    BY <1>2, <1>4, <2>2 DEF DsTyped
  <2> QED  BY <1>10, <2>3, <2>4, <2>5 DEF DsInv, h
<1> QED  BY <1>11, <1>12

-----------------------------------------------------------------------------
(* The contexts.                                                           *)
Contexts == [asks : Requests, prev : AllRequests]
Top(c) == IF c = <<>> THEN DefaultRequest ELSE c[Len(c)].asks

(* Every open context will restore what the one around it asked for.       *)
Nested ==
  /\ contexts \in Seq(Contexts) /\ config = Top(contexts)
  /\ \A k \in DOMAIN contexts :
        contexts[k].prev = IF k = 1 THEN DefaultRequest ELSE contexts[k - 1].asks

(* The recorders, once built, against the logs.                            *)
Recorded ==
  /\ asked \in AllRequests /\ dsLog \in Seq(DsEntries)
  /\ ~Built => log = <<>> /\ dsLog = <<>> /\ raised = {}
  /\ Built => /\ DOMAIN g_ops = Waves /\ DOMAIN ds_ops = Waves
              /\ \A w \in Waves : WaveInv(w) /\ DsInv(w)
              /\ \A w \in Waves \cap raised :
                   asked.mode = "FULL_TRACE" /\ g_ops[w].n = asked.budget

(* The configuration is always a request or the default.                   *)
LEMMA NestedConfig == ASSUME Nested PROVE config \in AllRequests
<1>1. CASE contexts = <<>>
  BY <1>1 DEF Nested, Top, AllRequests
<1>2. CASE contexts # <<>>
  <2>1. contexts \in Seq(Contexts) /\ Len(contexts) \in Nat /\ Len(contexts) # 0
    BY <1>2 DEF Nested
  <2>2. contexts[Len(contexts)] \in Contexts
    BY <2>1
  <2> QED  BY <1>2, <2>2 DEF Nested, Top, AllRequests, Contexts
<1> QED  BY <1>1, <1>2

(* Contexts nest, however they are entered and left.                       *)
LEMMA NextNested == ASSUME Nested, [RNext]_rvars PROVE Nested'
<1>0. contexts \in Seq(Contexts) /\ Len(contexts) \in Nat /\ DOMAIN contexts = 1 .. Len(contexts)
  BY DEF Nested
<1>1. ASSUME NEW r \in Requests, With(r)
      PROVE  Nested'
  <2> DEFINE c == [asks |-> r, prev |-> config]
  <2>1. contexts' = Append(contexts, c) /\ config' = r
    BY <1>1 DEF With
  <2>2. c \in Contexts /\ c.asks = r /\ c.prev = Top(contexts)
    BY NestedConfig DEF Contexts, Nested
  <2> HIDE DEF c
  <2>3. /\ contexts' \in Seq(Contexts) /\ Len(contexts') = Len(contexts) + 1
        /\ contexts'[Len(contexts) + 1] = c
        /\ \A k \in 1 .. Len(contexts) : contexts'[k] = contexts[k]
    BY <1>0, <2>1, <2>2
  <2>4. config' = Top(contexts')
    <3>1. contexts' # <<>>
      BY <1>0, <2>3
    <3> QED  BY <2>1, <2>2, <2>3, <3>1 DEF Top
  <2>5. ASSUME NEW k \in DOMAIN contexts'
        PROVE  contexts'[k].prev = IF k = 1 THEN DefaultRequest ELSE contexts'[k - 1].asks
    <3>1. k \in 1 .. Len(contexts) \/ k = Len(contexts) + 1
      BY <1>0, <2>3, <2>5
    <3>2. CASE k \in 1 .. Len(contexts)
      <4>1. contexts[k].prev = IF k = 1 THEN DefaultRequest ELSE contexts[k - 1].asks
        BY <1>0, <3>2 DEF Nested
      <4>2. k # 1 => k - 1 \in 1 .. Len(contexts)
        BY <1>0, <3>2
      <4> QED  BY <2>3, <3>2, <4>1, <4>2
    <3>3. CASE k = Len(contexts) + 1 /\ contexts = <<>>
      BY <1>0, <2>2, <2>3, <3>3 DEF Top
    <3>4. CASE k = Len(contexts) + 1 /\ contexts # <<>>
      <4>1. Len(contexts) \in 1 .. Len(contexts) /\ k # 1 /\ k - 1 = Len(contexts)
        BY <1>0, <3>4
      <4> QED  BY <2>2, <2>3, <3>4, <4>1 DEF Top
    <3> QED  BY <3>1, <3>2, <3>3, <3>4
  <2> QED  BY <2>3, <2>4, <2>5 DEF Nested
<1>2. CASE Leave
  <2>1. contexts # <<>> /\ contexts' = SubSeq(contexts, 1, Len(contexts) - 1)
        /\ config' = contexts[Len(contexts)].prev
    BY <1>2 DEF Leave, Rest, Innermost
  <2>2. PICK n \in Nat : Len(contexts) = n + 1
    <3>1. Len(contexts) # 0
      BY <1>0, <2>1
    <3>2. Len(contexts) - 1 \in Nat /\ Len(contexts) = (Len(contexts) - 1) + 1
      BY <1>0, <3>1
    <3> QED  BY <3>2, Zenon
  <2>3. /\ contexts' \in Seq(Contexts) /\ Len(contexts') = n
        /\ DOMAIN contexts' = 1 .. n /\ \A k \in 1 .. n : contexts'[k] = contexts[k]
    <3>1. contexts' = SubSeq(contexts, 1, n)
      BY <2>1, <2>2
    <3>2. \A k \in 1 .. n : contexts[k] \in Contexts
      BY <1>0, <2>2
    <3>3. /\ contexts' \in Seq(Contexts) /\ Len(contexts') = IF 1 <= n THEN n - 1 + 1 ELSE 0
          /\ \A k \in 1 .. (n - 1 + 1) : contexts'[k] = contexts[1 + k - 1]
      BY <3>1, <3>2, SubSeqProperties
    <3>4. Len(contexts') = n /\ \A k \in 1 .. n : contexts'[k] = contexts[k]
      BY <3>3
    <3> QED  BY <3>3, <3>4
  <2>4. config' = IF n + 1 = 1 THEN DefaultRequest ELSE contexts[n].asks
    <3>1. n + 1 \in DOMAIN contexts
      BY <1>0, <2>2
    <3>2. contexts[n + 1].prev = IF n + 1 = 1 THEN DefaultRequest ELSE contexts[(n + 1) - 1].asks
      BY <3>1 DEF Nested
    <3> QED  BY <2>1, <2>2, <3>2
  <2>5. config' = Top(contexts')
    <3>1. CASE n = 0
      BY <2>3, <2>4, <3>1 DEF Top
    <3>2. CASE n # 0
      <4>1. contexts' # <<>> /\ n \in 1 .. n
        BY <2>3, <3>2
      <4> QED  BY <2>3, <2>4, <3>2, <4>1 DEF Top
    <3> QED  BY <3>1, <3>2
  <2>6. ASSUME NEW k \in DOMAIN contexts'
        PROVE  contexts'[k].prev = IF k = 1 THEN DefaultRequest ELSE contexts'[k - 1].asks
    <3>1. k \in DOMAIN contexts /\ k \in 1 .. n /\ (k # 1 => k - 1 \in 1 .. n)
      BY <1>0, <2>2, <2>3
    <3>2. contexts[k].prev = IF k = 1 THEN DefaultRequest ELSE contexts[k - 1].asks
      BY <3>1 DEF Nested
    <3> QED  BY <2>3, <3>1, <3>2
  <2> QED  BY <2>3, <2>5, <2>6 DEF Nested
<1>3. CASE UNCHANGED <<config, contexts>>
  BY <1>3 DEF Nested, Top
<1>4. CASE UNCHANGED rvars
  BY <1>3, <1>4 DEF rvars
<1>5. CASE Build
  BY <1>3, <1>5 DEF Build
<1>6. ASSUME NEW w \in Waves, Exceeded(w)
      PROVE  Nested'
  BY <1>3, <1>6 DEF Exceeded
<1>7. ASSUME NEW w \in Waves, NEW s \in Sites,
             Vectored(w, s) \/ Unrecorded(w, s) \/ DsOperation(w, s)
      PROVE  Nested'
  BY <1>3, <1>7 DEF Vectored, Unrecorded, DsOperation
<1> QED  BY <1>1, <1>2, <1>4, <1>5, <1>6, <1>7 DEF RNext

(* A step of the recorded program is a step of the gated program.          *)
LEMMA StepIsGated == [RNext]_rvars => [GNext]_gvars
<1>1. ASSUME NEW r \in Requests, With(r) PROVE UNCHANGED gvars
  BY <1>1 DEF With
<1>2. Leave \/ Build => UNCHANGED gvars
  BY DEF Leave, Build
<1>3. ASSUME NEW w \in Waves, Exceeded(w) PROVE UNCHANGED gvars
  BY <1>3 DEF Exceeded
<1>4. ASSUME NEW w \in Waves, NEW s \in Sites,
             Vectored(w, s) \/ Unrecorded(w, s) \/ DsOperation(w, s)
      PROVE  [GNext]_gvars
  BY <1>4 DEF Vectored, Unrecorded, DsOperation, GNext
<1>5. UNCHANGED rvars => UNCHANGED gvars
  BY DEF rvars
<1> QED  BY <1>1, <1>2, <1>3, <1>4, <1>5 DEF RNext

(* A step that touches neither the log nor the recorder of a wave.         *)
LEMMA SameLog ==
    ASSUME NEW w, UNCHANGED <<log, asked>>, g_ops'[w] = g_ops[w], WaveInv(w)
    PROVE  WaveInv(w)'
<1>1. /\ Made(w)' = Made(w) /\ Kept(w)' = Kept(w) /\ Records' = Records /\ MadeTo(w)' = MadeTo(w)
      /\ \A k : MadeBy(w, k)' = MadeBy(w, k)
      /\ \A s : MadeAt(w, s)' = MadeAt(w, s)
  BY DEF Made, Kept, Promised, Records, MadeTo, MadeBy, MadeAt, Vector
<1>2. WaveExact(w)'
  BY <1>1 DEF WaveExact, WaveInv
<1> QED  BY <1>1, <1>2 DEF WaveInv

(* The same for its DS container.                                          *)
LEMMA SameDsLog ==
    ASSUME NEW w, UNCHANGED dsLog, ds_ops'[w] = ds_ops[w], DsInv(w)
    PROVE  DsInv(w)'
<1>1. DsMade(w)' = DsMade(w) /\ DsKept(w)' = DsKept(w) /\ DsRecords' = DsRecords
  BY DEF DsMade, DsKept, DsPromised, DsRecords
<1> QED  BY <1>1 DEF DsInv

-----------------------------------------------------------------------------
(* The inductive invariant.                                                *)
RInv == GInv /\ CountInv /\ Nested /\ Recorded

(* It holds before anything is built.                                      *)
LEMMA InitRInv == ASSUME RInit PROVE RInv
<1>1. GInv /\ CountInv
  BY InitGInv, InitCountInv DEF RInit
<1>2. Nested
  BY DEF RInit, Nested, Top
<1>3. Recorded
  <2>1. ~Built
    BY DEF RInit, Built
  <2>2. log = <<>> /\ dsLog = <<>> /\ raised = {} /\ asked = DefaultRequest
    BY DEF RInit, GInit
  <2> QED  BY <2>1, <2>2 DEF Recorded, AllRequests
<1> QED  BY <1>1, <1>2, <1>3 DEF RInv

(* The cores are built before anything is recorded, with what the innermost*)
(* open context asks for.                                                  *)
LEMMA BuildRecorded == ASSUME RInv, Build PROVE Recorded'
<1>0. ~Built /\ log = <<>> /\ dsLog = <<>> /\ raised = {}
  BY DEF RInv, Recorded, Build
<1>1. config \in AllRequests /\ asked' = config
  BY NestedConfig DEF RInv, Nested, Build, Top, Innermost
<1>2. PICK cap \in {0, AggCap} : ds_ops' = [w \in Waves |-> NewDs(cap)]
  BY DEF Build
<1>3. /\ g_ops' = [w \in Waves |-> New(config)] /\ log' = log /\ dsLog' = dsLog
      /\ raised' = raised
  BY DEF Build, gvars
<1>4. DOMAIN g_ops' = Waves /\ DOMAIN ds_ops' = Waves /\ Built'
  BY <1>2, <1>3, GateAssumption DEF Built
<1>5. ASSUME NEW w \in Waves
      PROVE  WaveInv(w)'
  <2> DEFINE g == g_ops'[w]
  <2>1. g = New(config)
    BY <1>3
  <2>2. /\ g.conf = config /\ g.n = 0 /\ g.nRead = 0 /\ g.nWrite = 0 /\ g.lo = Size /\ g.hi = 0
        /\ g.byPc = [s \in Sites |-> 0] /\ g.byOpcode = [k \in Kinds |-> 0]
        /\ g.kept = <<>> /\ g.seen = {} /\ g.nKept = 0 /\ g.nDropped = 0
        /\ DOMAIN g = DOMAIN New(DefaultRequest)
    BY <2>1 DEF New, Kinds
  <2> HIDE DEF g
  <2>3. RTyped(g)
    BY <2>2, GeometryAssumption DEF RTyped, Kinds
  <2>4. /\ Made(w)' = {} /\ Kept(w)' = {} /\ MadeTo(w)' = {}
        /\ \A k : MadeBy(w, k)' = {}
        /\ \A s : MadeAt(w, s)' = {}
    BY <1>0, <1>3 DEF Made, Kept, MadeTo, MadeBy, MadeAt
  <2>5. WaveExact(w)'
    <3>1. /\ DOMAIN g.byOpcode = Kinds /\ \A k \in Kinds : g.byOpcode[k] = 0
          /\ \A t \in Sites : g.byPc[t] = 0
      BY <2>2
    <3>2. Cardinality({}) = 0 /\ Len(g.kept) = 0
      BY <2>2, FS_EmptySet
    <3>3. /\ g.n = Cardinality(Made(w)') /\ g.n = g.nKept + g.nDropped /\ g.nKept = Len(g.kept)
          /\ g.nRead = Cardinality(MadeBy(w, "load")') /\ g.nWrite = g.n - g.nRead
      <4>1. g.n = 0 /\ g.nKept = 0 /\ g.nDropped = 0 /\ g.nRead = 0 /\ g.nWrite = 0
        BY <2>2
      <4>2. Cardinality(Made(w)') = 0 /\ Cardinality(MadeBy(w, "load")') = 0
        BY <2>4, <3>2
      <4> QED  BY ONLY <3>2, <4>1, <4>2
    <3>4. /\ \A t \in Sites : g.byPc[t] = Cardinality(MadeAt(w, t)')
          /\ \A k \in DOMAIN g.byOpcode : g.byOpcode[k] = Cardinality(MadeBy(w, k)')
      BY <2>4, <3>1, <3>2
    <3> QED  BY <2>4, <3>3, <3>4 DEF WaveExact, g
  <2>6. Lists(g.kept, Kept(w)', Records')
    BY <2>2, <2>4, ListsNone
  <2>7. config.sampleCap \in Nat /\ config.budget \in Nat
    BY <1>1, RequestTypes
  <2> QED  BY <1>1, <2>2, <2>3, <2>4, <2>5, <2>6, <2>7 DEF WaveInv, g
<1>6. ASSUME NEW w \in Waves
      PROVE  DsInv(w)'
  <2> DEFINE d == ds_ops'[w]
  <2>1. d = NewDs(cap) /\ cap \in Nat
    BY <1>2, RequestAssumption
  <2>2. /\ d.cap = cap /\ d.n = 0 /\ d.sample = <<>> /\ DOMAIN d = {"cap", "n", "sample"}
    BY <2>1 DEF NewDs
  <2> HIDE DEF d
  <2>3. DsMade(w)' = {} /\ DsKept(w)' = {}
    BY <1>0, <1>3 DEF DsMade, DsKept
  <2>4. Lists(d.sample, DsKept(w)', DsRecords')
    BY <2>2, <2>3, ListsNone
  <2>5. d.n = Cardinality(DsMade(w)') /\ DsTyped(d)
    BY <2>1, <2>2, <2>3, FS_EmptySet DEF DsTyped
  <2> QED  BY <2>1, <2>2, <2>4, <2>5 DEF DsInv, d
<1>7. asked' \in AllRequests /\ dsLog' \in Seq(DsEntries)
  BY <1>0, <1>1, <1>3
<1> QED  BY <1>0, <1>3, <1>4, <1>5, <1>6, <1>7 DEF Recorded

(* An access counts in its wave and in no other.                           *)
LEMMA AccessRecorded ==
    ASSUME RInv, NEW w \in Waves, NEW s \in Sites, Vectored(w, s) \/ Unrecorded(w, s)
    PROVE  Recorded'
<1>0. /\ Built /\ w \notin raised /\ DOMAIN g_ops = Waves /\ DOMAIN ds_ops = Waves
      /\ asked \in AllRequests /\ dsLog \in Seq(DsEntries)
      /\ \A u \in Waves : WaveInv(u) /\ DsInv(u)
      /\ \A u \in Waves \cap raised : asked.mode = "FULL_TRACE" /\ g_ops[u].n = asked.budget
  BY DEF RInv, Recorded, Vectored, Unrecorded, Runs
<1>1. GatedAccess(w, s) \/ UngatedAccess(w, s)
  BY DEF Vectored, Unrecorded
<1>2. PICK e \in Entries :
          /\ log' = Append(log, e) /\ log' \in Seq(Entries) /\ Len(log') = Len(log) + 1
          /\ log'[Len(log) + 1] = e /\ \A i \in 1 .. Len(log) : log'[i] = log[i]
          /\ e.wave = w /\ e.site = s
          /\ e.kind = access'.kind /\ e.addr = access'.addr
          /\ GatedAccess(w, s) => /\ e.kind \in {"load", "store", "cas"}
                                  /\ gate' = Note(gate, e.kind, e.addr, e.n, w, s)
          /\ UngatedAccess(w, s) => e.kind = "sload" /\ gate' = gate
  BY <1>1, OneAccess DEF RInv
<1>3. LogGrown(e)
  BY <1>2 DEF LogGrown, RInv, GInv
<1>4. /\ asked' = asked /\ dsLog' = dsLog /\ ds_ops' = ds_ops /\ raised' = raised
  BY DEF Vectored, Unrecorded, recorders
<1>5. \A u \in Waves : DsInv(u)'
  BY <1>0, <1>4, SameDsLog
<1>6. CASE Unrecorded(w, s)
  <2>1. g_ops' = g_ops /\ ~Vector(e)
    BY <1>2, <1>6 DEF Unrecorded, recorders, Vector
  <2>2. \A u \in Waves : WaveInv(u)'
    BY <1>0, <1>3, <1>4, <2>1, OtherWave
  <2>3. Built'
    BY <1>0, <2>1 DEF Built
  <2> QED  BY <1>0, <1>4, <1>5, <2>1, <2>2, <2>3 DEF Recorded
<1>7. CASE Vectored(w, s)
  <2>1. /\ ~OverBudget(g_ops[w]) /\ GatedAccess(w, s)
        /\ g_ops' = [g_ops EXCEPT ![w] = Appended(@, access'.kind, access'.addr, s)]
    BY <1>7 DEF Vectored
  <2>2. /\ DOMAIN g_ops' = Waves
        /\ g_ops'[w] = Appended(g_ops[w], e.kind, e.addr, e.site)
        /\ \A u \in Waves : u # w => g_ops'[u] = g_ops[u]
    BY <1>0, <1>2, <2>1
  <2>3. e.kind \in Kinds
    BY <1>2, <2>1 DEF Kinds
  <2>4. WaveInv(w)'
    BY <1>0, <1>2, <1>3, <1>4, <2>1, <2>2, <2>3, OwnAccess
  <2>5. ASSUME NEW u \in Waves, u # w
        PROVE  WaveInv(u)'
    BY <1>0, <1>2, <1>3, <1>4, <2>2, <2>5, OtherWave
  <2>6. Built'
    BY <2>2, GateAssumption DEF Built
  <2>7. \A u \in Waves \cap raised : g_ops'[u] = g_ops[u]
    BY <1>0, <2>2
  <2> QED  BY <1>0, <1>4, <1>5, <2>2, <2>4, <2>5, <2>6, <2>7 DEF Recorded
<1> QED  BY <1>6, <1>7

(* So does a DS operation.                                                 *)
LEMMA DsRecorded ==
    ASSUME RInv, NEW w \in Waves, NEW s \in Sites, DsOperation(w, s)
    PROVE  Recorded'
<1>0. /\ Built /\ DOMAIN g_ops = Waves /\ DOMAIN ds_ops = Waves
      /\ asked \in AllRequests /\ dsLog \in Seq(DsEntries)
      /\ \A u \in Waves : WaveInv(u) /\ DsInv(u)
      /\ \A u \in Waves \cap raised : asked.mode = "FULL_TRACE" /\ g_ops[u].n = asked.budget
  BY DEF RInv, Recorded, DsOperation, Runs
<1> DEFINE e == [wave |-> w, site |-> s]
<1>1. /\ ds_ops' = [ds_ops EXCEPT ![w] = DsAppended(@, s)] /\ dsLog' = Append(dsLog, e)
      /\ log' = log /\ asked' = asked /\ g_ops' = g_ops /\ raised' = raised
  BY DEF DsOperation, gvars
<1>2. e \in DsEntries /\ e.wave = w /\ e.site = s
  BY DEF DsEntries
<1> HIDE DEF e
<1>3. DsGrown(e)
  BY <1>0, <1>1, <1>2 DEF DsGrown
<1>4. /\ DOMAIN ds_ops' = Waves /\ ds_ops'[w] = DsAppended(ds_ops[w], e.site)
      /\ \A u \in Waves : u # w => ds_ops'[u] = ds_ops[u]
  BY <1>0, <1>1, <1>2
<1>5. DsInv(w)'
  BY <1>0, <1>2, <1>3, <1>4, OwnDs
<1>6. ASSUME NEW u \in Waves, u # w
      PROVE  DsInv(u)'
  BY <1>0, <1>2, <1>3, <1>4, <1>6, OtherDs
<1>7. \A u \in Waves : WaveInv(u)'
  BY <1>0, <1>1, SameLog
<1>8. Built' /\ dsLog' \in Seq(DsEntries)
  BY <1>0, <1>1, <1>3 DEF Built, DsGrown
<1> QED  BY <1>0, <1>1, <1>4, <1>5, <1>6, <1>7, <1>8 DEF Recorded

(* A wave raises with exactly its budget recorded.                         *)
LEMMA ExceededRecorded ==
    ASSUME RInv, NEW w \in Waves, Exceeded(w)
    PROVE  Recorded'
<1>0. /\ Built /\ DOMAIN g_ops = Waves /\ DOMAIN ds_ops = Waves
      /\ asked \in AllRequests /\ dsLog \in Seq(DsEntries)
      /\ \A u \in Waves : WaveInv(u) /\ DsInv(u)
      /\ \A u \in Waves \cap raised : asked.mode = "FULL_TRACE" /\ g_ops[u].n = asked.budget
  BY DEF RInv, Recorded, Exceeded, Runs
<1>1. /\ log' = log /\ asked' = asked /\ g_ops' = g_ops /\ ds_ops' = ds_ops /\ dsLog' = dsLog
      /\ raised' = raised \cup {w} /\ OverBudget(g_ops[w])
  BY DEF Exceeded, gvars
<1>2. \A u \in Waves : WaveInv(u)' /\ DsInv(u)'
  BY <1>0, <1>1, SameLog, SameDsLog
<1>3. asked.mode = "FULL_TRACE" /\ g_ops[w].n = asked.budget
  <2>1. /\ g_ops[w].conf = asked /\ g_ops[w].n \in Nat
        /\ asked.mode = "FULL_TRACE" => g_ops[w].n <= asked.budget
    BY <1>0 DEF WaveInv, RTyped
  <2>2. asked.budget \in Nat
    BY <1>0, RequestTypes
  <2> QED  BY <1>1, <2>1, <2>2 DEF OverBudget
<1>4. Built'
  BY <1>0, <1>1 DEF Built
<1> QED  BY <1>0, <1>1, <1>2, <1>3, <1>4 DEF Recorded

(* Steps that touch no recorder.                                           *)
LEMMA QuietRecorded ==
    ASSUME RInv, UNCHANGED <<log, recorders>>
    PROVE  Recorded'
<1>1. /\ log' = log /\ asked' = asked /\ g_ops' = g_ops /\ ds_ops' = ds_ops /\ dsLog' = dsLog
      /\ raised' = raised
  BY DEF recorders
<1>2. Recorded /\ (Built' <=> Built)
  BY <1>1 DEF RInv, Built
<1>3. ASSUME NEW u \in Waves, WaveInv(u), DsInv(u)
      PROVE  WaveInv(u)' /\ DsInv(u)'
  BY <1>1, <1>3, SameLog, SameDsLog
<1> QED  BY <1>1, <1>2, <1>3 DEF Recorded

(* Every step preserves the invariant.                                     *)
LEMMA NextRInv == ASSUME RInv, [RNext]_rvars PROVE RInv'
<1>1. GInv' /\ CountInv' /\ Nested'
  BY StepIsGated, NextGInv, NextCountInv, NextNested DEF RInv
<1>2. Recorded'
  <2>1. ASSUME NEW r \in Requests, With(r) PROVE Recorded'
    BY <2>1, QuietRecorded DEF With, gvars
  <2>2. CASE Leave
    BY <2>2, QuietRecorded DEF Leave, gvars
  <2>3. CASE UNCHANGED rvars
    BY <2>3, QuietRecorded DEF rvars, gvars, recorders
  <2>4. CASE Build
    BY <2>4, BuildRecorded
  <2>5. ASSUME NEW w \in Waves, Exceeded(w) PROVE Recorded'
    BY <2>5, ExceededRecorded
  <2>6. ASSUME NEW w \in Waves, NEW s \in Sites,
               Vectored(w, s) \/ Unrecorded(w, s) \/ DsOperation(w, s)
        PROVE  Recorded'
    BY <2>6, AccessRecorded, DsRecorded
  <2> QED  BY <2>1, <2>2, <2>3, <2>4, <2>5, <2>6 DEF RNext
<1> QED  BY <1>1, <1>2 DEF RInv

(* Every count of the gate and of every recorder is exact, in every mode,  *)
(* for every cap and every interleaving of the waves.                      *)
THEOREM CountsCorrect == RSpec => []AllCountsExact
<1>1. RInv => AllCountsExact
  <2> SUFFICES ASSUME RInv PROVE AllCountsExact
    OBVIOUS
  <2>1. CountsExact /\ RecordsWithinCap
    BY DEF RInv, CountInv
  <2>2. gate.ops = Cardinality({i \in DOMAIN log : Vector(log[i])})
    BY <2>1, Counts DEF CountedAt, VectorAt
  <2>3. Built => \A w \in Waves : WaveExact(w) /\ ds_ops[w].n = Cardinality(DsMade(w))
    BY DEF RInv, Recorded, WaveInv, DsInv
  <2> QED  BY <2>1, <2>2, <2>3 DEF AllCountsExact, RecorderExact
<1> QED  BY InitRInv, NextRInv, <1>1, PTL DEF RSpec

(* What is kept is what the innermost context open at the build promised,  *)
(* for any nesting of contexts and any interleaving of the waves.          *)
THEOREM KeptCorrect == RSpec => []KeptAsPromised
<1>1. RInv => KeptAsPromised
  <2> SUFFICES ASSUME RInv, Built, NEW w \in Waves
               PROVE  /\ Lists(g_ops[w].kept, Kept(w), Records)
                      /\ asked.mode = "FULL_TRACE" => Cardinality(Made(w)) <= asked.budget
                      /\ w \in raised => /\ asked.mode = "FULL_TRACE"
                                         /\ Cardinality(Made(w)) = asked.budget
                      /\ Lists(ds_ops[w].sample, DsKept(w), DsRecords)
    BY DEF KeptAsPromised, Kept, DsKept
  <2>1. WaveInv(w) /\ DsInv(w)
    BY DEF RInv, Recorded
  <2>2. w \in raised => asked.mode = "FULL_TRACE" /\ g_ops[w].n = asked.budget
    BY DEF RInv, Recorded
  <2> QED  BY <2>1, <2>2 DEF WaveInv, WaveExact, DsInv
<1> QED  BY InitRInv, NextRInv, <1>1, PTL DEF RSpec

(* Recording changes nothing the gate sees: a run with recorders is a run  *)
(* of the gated program, so the verdict keeps its meaning.                 *)
THEOREM RecorderKeepsGate == RSpec => GSpec
<1>1. RInit => GInit
  BY DEF RInit
<1> QED  BY <1>1, StepIsGated, PTL DEF RSpec, GSpec

(* Nor does the gate change what the memory does: it looks at an address   *)
(* and lets the access through.                                            *)
THEOREM GateKeepsMemory == GSpec => Spec
<1>1. [GNext]_gvars => [Next]_vars
  <2>1. GNext => Next
    BY DEF GNext, GatedAccess, UngatedAccess, Next
  <2>2. UNCHANGED gvars => UNCHANGED vars
    BY DEF gvars, vars
  <2> QED  BY <2>1, <2>2
<1>2. GInit => Init
  BY DEF GInit
<1> QED  BY <1>1, <1>2, PTL DEF GSpec, Spec

(* So a program under the recorders and behind the gate works on a memory  *)
(* of bytes, and its stores stay inside the bytes they name.               *)
THEOREM RecordedMemory ==
    ASSUME StoresRepresentable PROVE RSpec => ImplementsByteMemory /\ StoreTouchesItsBytesOnly
BY RecorderKeepsGate, GateKeepsMemory, MemoryRefines, StoresStayInside

-----------------------------------------------------------------------------
(* The LDS.                                                                *)

Data(n) == [0 .. (n - 1) -> Byte]

PlaceOK(p) == /\ p.lane \in Lane /\ p.slot \in {0, 1}
              /\ p.ea \in Nat /\ p.w \in Nat /\ p.ok \in BOOLEAN
AccOK(x) == PlaceOK(x) /\ x.data \in Data(x.w)

(* The stores of accs that reach byte a.                                   *)
Hits(accs, top, a) == {x \in accs : x.ok /\ Covers(x, a) /\ a < top}
(* What a store gives that byte.                                           *)
Given(x, a) == x.data[a - x.ea]

-----------------------------------------------------------------------------
(* Arithmetic.                                                             *)
LEMMA ModRange ==
    ASSUME NEW a \in Nat, NEW b \in Nat \ {0}
    PROVE  a % b \in 0 .. (b - 1)
OBVIOUS

LEMMA RegisterOfByte ==
    ASSUME NEW k \in Nat, NEW n \in Nat, k < n * RegBytes
    PROVE  /\ k \div RegBytes \in 0 .. (n - 1)
           /\ k % RegBytes \in 0 .. (RegBytes - 1)
<1>1. CASE RegBytes = 2
  BY <1>1
<1>2. CASE RegBytes = 4
  BY <1>2
<1> QED  BY <1>1, <1>2, SizeAssumption

(* A nonempty set of naturals has a least element.                         *)
LEMMA LeastNatural ==
    ASSUME NEW T, T \subseteq Nat, T # {}
    PROVE  \E x \in T : \A y \in T : ~(y < x)
<1>1. PICK m \in T : \A y \in T : ~(<<y, m>> \in OpToRel(<, Nat))
  BY WFMin, NatLessThanWellFounded, Zenon
<1>2. ASSUME NEW y \in T PROVE ~(y < m)
  <2>1. y \in Nat /\ m \in Nat
    OBVIOUS
  <2>2. ~(<<y, m>> \in OpToRel(<, Nat))
    BY <1>1
  <2> QED  BY <2>1, <2>2, Zenon DEF OpToRel
<1> QED  BY <1>2

(* A nonempty set of accesses has a last one in the order of the loops.    *)
LEMMA LastAccess ==
    ASSUME NEW W, W # {}, \A x \in W : x.lane \in Lane /\ x.slot \in {0, 1}
    PROVE  \E x \in W : \A y \in W : Later(y, x)
<1> DEFINE rank(x) == 2 * Lanes - (2 * x.lane + x.slot)
<1> DEFINE T == {rank(x) : x \in W}
<1>1. \A x \in W : rank(x) \in Nat
  BY SizeAssumption DEF Lane
<1>2. T \subseteq Nat /\ T # {}
  BY <1>1
<1>3. PICK m \in T : \A y \in T : ~(y < m)
  <2> HIDE DEF T
  <2> QED  BY <1>2, LeastNatural
<1>4. PICK x \in W : m = rank(x)
  BY <1>3
<1>5. ASSUME NEW y \in W PROVE Later(y, x)
  <2>1. rank(y) \in T
    OBVIOUS
  <2>2. ~(rank(y) < rank(x))
    BY <1>3, <1>4, <2>1
  <2>3. y.lane \in Int /\ x.lane \in Int /\ y.slot \in {0, 1} /\ x.slot \in {0, 1}
    BY DEF Lane
  <2>4. 2 * y.lane + y.slot <= 2 * x.lane + x.slot
    BY <2>2, <2>3, SizeAssumption
  <2> QED  BY <2>3, <2>4 DEF Later
<1> QED  BY <1>5

-----------------------------------------------------------------------------
(* The helpers return what their names say.                                *)
LEMMA ImmType ==
    ASSUME NEW i \in Instrs, NEW j \in Slots(i)
    PROVE  Imm(i, j) \in Nat
<1>1. i.offs \in Seq(Nat) /\ i.w \in Nat
  BY ProgramAssumption DEF WellFormed
<1>2. j + 1 \in 1 .. Len(i.offs)
  BY <1>1 DEF Slots
<1>3. i.offs[j + 1] \in Nat
  BY <1>1, <1>2
<1> QED  BY <1>1, <1>3 DEF Imm

LEMMA SlotRange ==
    ASSUME NEW i \in Instrs
    PROVE  /\ i.op \notin Pairs64 \cup Pairs32 => Slots(i) = {0}
           /\ i.op \in Pairs64 \cup Pairs32 => Slots(i) = {0, 1}
           /\ Slots(i) \subseteq {0, 1} /\ 0 \in Slots(i)
<1>1. CASE i.op \notin Pairs64 \cup Pairs32
  <2>1. Len(i.offs) = 1
    BY <1>1, ProgramAssumption DEF WellFormed
  <2>2. Slots(i) = {0}
    BY <2>1 DEF Slots
  <2> QED  BY <1>1, <2>2
<1>2. CASE i.op \in Pairs64 \cup Pairs32
  <2>1. Len(i.offs) = 2
    BY <1>2, ProgramAssumption DEF WellFormed
  <2>2. Slots(i) = {0, 1}
    BY <2>1 DEF Slots
  <2> QED  BY <1>2, <2>2
<1> QED  BY <1>1, <1>2

LEMMA PlaceType ==
    ASSUME model \in Models, NEW word \in Word, NEW i \in Instrs,
           NEW l \in Lane, NEW j \in Slots(i)
    PROVE  PlaceOK(Place(word, i, l, j)) /\ Place(word, i, l, j).w = i.w
<1> DEFINE raw == Raw(word, Imm(i, j))
<1>1. Num[word] + Imm(i, j) \in Nat
  BY ImmType, SizeAssumption
<1>2. raw \in Nat
  BY <1>1, ModRange, SizeAssumption DEF Raw
<1>3. FinalEa(raw) \in Nat
  <2> HIDE DEF raw
  <2>1. raw % PartSize \in Nat /\ raw % PathSize \in Nat /\ raw % U32 \in Nat
    BY <1>2, ModRange, SizeAssumption
  <2> QED  BY <2>1 DEF FinalEa
<1>4. InRange(FinalEa(raw), i.w) \in BOOLEAN
  BY DEF InRange
<1>5. i.w \in Nat
  BY ProgramAssumption DEF WellFormed
<1> QED  BY <1>3, <1>4, <1>5, SlotRange DEF PlaceOK, Place

LEMMA FetchType ==
    ASSUME lds \in [Addr -> Byte], NEW p, PlaceOK(p), NEW top \in Nat, top <= ImgSize
    PROVE  AccOK(Fetch(p, top)) /\ PlaceOf(Fetch(p, top)) = PlaceOf(p)
<1>1. ASSUME NEW k \in 0 .. (p.w - 1)
      PROVE  (IF p.ok /\ p.ea + k < top THEN lds[p.ea + k] ELSE Zero) \in Byte
  <2>1. CASE p.ok /\ p.ea + k < top
    <3>1. p.ea + k \in Addr
      BY <2>1, SizeAssumption DEF Addr, PlaceOK
    <3> QED  BY <2>1, <3>1
  <2>2. CASE ~(p.ok /\ p.ea + k < top)
    BY <2>2, SizeAssumption
  <2> QED  BY <2>1, <2>2
<1>2. Fetch(p, top).data \in Data(p.w)
  BY <1>1 DEF Fetch, Access, Data
<1> QED  BY <1>2 DEF AccOK, PlaceOK, Fetch, Access, PlaceOf

LEMMA IntoType ==
    ASSUME NEW r \in File, NEW first \in Nat, NEW n \in Nat, NEW m \in Nat,
           NEW data \in Data(m)
    PROVE  Into(r, first, n, data) \in File
<1>1. ASSUME NEW q \in Reg, q \in first .. (first + n - 1)
      PROVE  [b \in 0 .. (RegBytes - 1) |->
                 IF (q - first) * RegBytes + b \in DOMAIN data
                 THEN data[(q - first) * RegBytes + b] ELSE Zero] \in Word
  BY SizeAssumption DEF Word, Data
<1> QED  BY <1>1 DEF Into, File

LEMMA IntoHighType ==
    ASSUME NEW r \in File, NEW first \in Reg, NEW w \in Nat, w + w = RegBytes,
           NEW data \in Data(w)
    PROVE  IntoHigh(r, first, data) \in File
<1>1. [b \in 0 .. (RegBytes - 1) |->
         IF b + b >= RegBytes THEN data[b - (RegBytes \div 2)] ELSE r[first][b]] \in Word
  <2>1. RegBytes \div 2 = w
    BY SizeAssumption
  <2>2. ASSUME NEW b \in 0 .. (RegBytes - 1), b + b >= RegBytes
        PROVE  data[b - w] \in Byte
    BY <2>2, SizeAssumption DEF Data
  <2>3. ASSUME NEW b \in 0 .. (RegBytes - 1)
        PROVE  r[first][b] \in Byte
    BY DEF File, Word
  <2> QED  BY <2>1, <2>2, <2>3 DEF Word
<1> QED  BY <1>1 DEF IntoHigh, File

LEMMA RegisterReached ==
    ASSUME NEW first \in Nat, NEW n \in Nat, first + n - 1 \in Reg,
           NEW d \in 0 .. (n - 1)
    PROVE  first + d \in Reg
<1>1. first + n - 1 <= Regs - 1 /\ Regs \in Nat
  BY SizeAssumption DEF Reg
<1>2. first + d <= first + n - 1 /\ first + d >= 0 /\ first + d \in Int
  OBVIOUS
<1>3. first + d <= Regs - 1
  BY <1>1, <1>2
<1> QED  BY <1>2, <1>3, <1>1 DEF Reg

LEMMA SourceType ==
    ASSUME NEW r \in File, NEW first \in Nat, NEW w \in Nat, NEW n \in Nat,
           w <= n * RegBytes, first + n - 1 \in Reg
    PROVE  Source(r, first, w) \in Data(w)
<1>1. ASSUME NEW k \in 0 .. (w - 1)
      PROVE  r[first + (k \div RegBytes)][k % RegBytes] \in Byte
  <2>1. k \in Nat /\ k < n * RegBytes
    <3>1. CASE RegBytes = 2
      BY <3>1
    <3>2. CASE RegBytes = 4
      BY <3>2
    <3> QED  BY <3>1, <3>2, SizeAssumption
  <2>2. k \div RegBytes \in 0 .. (n - 1) /\ k % RegBytes \in 0 .. (RegBytes - 1)
    BY <2>1, RegisterOfByte
  <2>3. first + (k \div RegBytes) \in Reg
    BY <2>2, RegisterReached
  <2> QED  BY <2>2, <2>3 DEF File, Word
<1> QED  BY <1>1 DEF Source, Data

(* A byte keeps its value or takes it from a store that covers it.         *)
LEMMA WrittenByte ==
    ASSUME NEW m, NEW accs, \A x \in accs : AccOK(x), NEW top, NEW a \in Addr
    PROVE  /\ Hits(accs, top, a) = {} => Written(m, accs, top)[a] = m[a]
           /\ Hits(accs, top, a) # {} =>
                 \E x \in Hits(accs, top, a) :
                    /\ \A y \in Hits(accs, top, a) : Later(y, x)
                    /\ Written(m, accs, top)[a] = Given(x, a)
<1> DEFINE W == Hits(accs, top, a)
<1>1. CASE W = {}
  BY <1>1 DEF Written, Hits
<1>2. CASE W # {}
  <2> DEFINE last == CHOOSE x \in W : \A y \in W : Later(y, x)
  <2>1. \A x \in W : x.lane \in Lane /\ x.slot \in {0, 1}
    BY DEF AccOK, PlaceOK, Hits
  <2>2. \E x \in W : \A y \in W : Later(y, x)
    <3> HIDE DEF W
    <3> QED  BY <1>2, <2>1, LastAccess
  <2>3. last \in W /\ \A y \in W : Later(y, last)
    BY <2>2
  <2>4. Written(m, accs, top)[a] = Given(last, a)
    BY <1>2 DEF Written, Hits, Given
  <2> QED  BY <1>2, <2>3, <2>4
<1> QED  BY <1>1, <1>2

LEMMA WrittenType ==
    ASSUME NEW m \in [Addr -> Byte], NEW accs, \A x \in accs : AccOK(x), NEW top
    PROVE  Written(m, accs, top) \in [Addr -> Byte]
<1>1. ASSUME NEW a \in Addr PROVE Written(m, accs, top)[a] \in Byte
  <2> DEFINE W == Hits(accs, top, a)
  <2>1. /\ W = {} => Written(m, accs, top)[a] = m[a]
        /\ W # {} => \E x \in W : Written(m, accs, top)[a] = Given(x, a)
    BY WrittenByte
  <2>2. \A x \in W : AccOK(x) /\ Covers(x, a)
    BY DEF Hits
  <2> HIDE DEF W
  <2>3. CASE W = {}
    BY <2>1, <2>3
  <2>4. CASE W # {}
    <3>1. PICK x \in W : Written(m, accs, top)[a] = Given(x, a)
      BY <2>1, <2>4
    <3>2. x.data \in Data(x.w) /\ x.ea \in Nat /\ x.w \in Nat /\ a \in x.ea .. (x.ea + x.w - 1)
      BY <2>2 DEF AccOK, PlaceOK, Covers
    <3>3. a - x.ea \in 0 .. (x.w - 1)
      BY <3>2
    <3> QED  BY <3>1, <3>2, <3>3 DEF Data, Given
  <2> QED  BY <2>3, <2>4
<1> QED  BY <1>1 DEF Written

(* The limit of a run lies inside its allocation, that inside the image.   *)
LEMMA LimitRange ==
    ASSUME model \in Models
    PROVE  /\ model.alloc \in Nat /\ model.alloc <= ImgSize
           /\ Limit \in Nat /\ Limit <= model.alloc
BY ModelAssumption, SizeAssumption DEF Limit

LEMMA UpdatedType ==
    ASSUME LTypeOK, NEW w \in Cores, NEW active \in SUBSET Lane,
           NEW new, \A l \in active : new[l] \in File
    PROVE  Updated(w, active, new) \in [Cores -> [Lane -> File]]
BY DEF Updated, LTypeOK

-----------------------------------------------------------------------------
(* The accesses each family makes are where Place puts them.               *)
LEMMA AddressType ==
    ASSUME LTypeOK, NEW w \in Cores, NEW i \in Instrs, NEW l \in Lane
    PROVE  v[w][l] \in File /\ v[w][l][i.addr] \in Word
BY ProgramAssumption DEF LTypeOK, File, WellFormed

LEMMA LoadedType ==
    ASSUME LTypeOK, NEW w \in Cores, NEW i \in Instrs, NEW l \in Lane
    PROVE  /\ AccOK(Loaded(w, i, l))
           /\ PlaceOf(Loaded(w, i, l)) = Place(v[w][l][i.addr], i, l, 0)
           /\ Loaded(w, i, l).w = i.w
<1> DEFINE p == Place(v[w][l][i.addr], i, l, 0)
<1>1. PlaceOK(p) /\ p.w = i.w
  BY AddressType, PlaceType, SlotRange DEF LTypeOK
<1>2. PlaceOf(p) = p
  BY DEF Place, PlaceOf
<1> HIDE DEF p
<1>3. AccOK(Fetch(p, model.alloc)) /\ PlaceOf(Fetch(p, model.alloc)) = PlaceOf(p)
  BY <1>1, FetchType, LimitRange DEF LTypeOK
<1>4. Fetch(p, model.alloc).w = p.w
  BY DEF Fetch, Access
<1> QED  BY <1>1, <1>2, <1>3, <1>4 DEF Loaded, p

LEMMA StoredType ==
    ASSUME LTypeOK, NEW w \in Cores, NEW i \in Instrs, NEW l \in Lane, NEW j \in Slots(i),
           NEW first \in Nat, NEW n \in Nat, i.w <= n * RegBytes, first + n - 1 \in Reg
    PROVE  /\ AccOK(Stored(w, i, l, j, first))
           /\ PlaceOf(Stored(w, i, l, j, first)) = Place(v[w][l][i.addr], i, l, j)
<1> DEFINE p == Place(v[w][l][i.addr], i, l, j)
           d == Source(v[w][l], first, i.w)
<1>1. PlaceOK(p) /\ p.w = i.w
  BY AddressType, PlaceType DEF LTypeOK
<1>2. i.w \in Nat
  BY ProgramAssumption DEF WellFormed
<1>3. d \in Data(i.w)
  BY <1>2, AddressType, SourceType
<1>4. PlaceOf(p) = p
  BY DEF Place, PlaceOf
<1> HIDE DEF p, d
<1>5. AccOK(Access(p, d)) /\ PlaceOf(Access(p, d)) = PlaceOf(p)
  BY <1>1, <1>3 DEF AccOK, PlaceOK, Access, PlaceOf
<1> QED  BY <1>4, <1>5 DEF Stored, p, d

(* The two accesses of a 64-bit pair load; the second looks for its        *)
(* address in the registers the first has left.                            *)
LEMMA PairType ==
    ASSUME LTypeOK, NEW w \in Cores, NEW i \in Instrs, NEW l \in Lane, i.op = "load2_b64"
    PROVE  /\ AccOK(Pair0(w, i, l)) /\ AccOK(Pair1(w, i, l))
           /\ Pair0(w, i, l).w = i.w /\ Pair1(w, i, l).w = i.w
           /\ File0(w, i, l) \in File
           /\ PlaceOf(Pair0(w, i, l)) = Place(v[w][l][i.addr], i, l, 0)
           /\ PlaceOf(Pair1(w, i, l)) = Place(File0(w, i, l)[i.addr], i, l, 1)
<1>1. /\ AccOK(Pair0(w, i, l)) /\ Pair0(w, i, l).w = i.w
      /\ PlaceOf(Pair0(w, i, l)) = Place(v[w][l][i.addr], i, l, 0)
  BY LoadedType DEF Loaded, Pair0
<1>2. i.data \in Nat /\ i.addr \in Reg /\ i.w \in Nat
  BY ProgramAssumption DEF WellFormed, Reg
<1>3. File0(w, i, l) \in File
  BY <1>1, <1>2, AddressType, IntoType DEF AccOK, File0
<1> DEFINE p == Place(File0(w, i, l)[i.addr], i, l, 1)
<1>4. PlaceOK(p) /\ p.w = i.w
  <2>1. File0(w, i, l)[i.addr] \in Word
    BY <1>2, <1>3 DEF File
  <2>2. 1 \in Slots(i)
    BY SlotRange DEF Pairs64
  <2> QED  BY <2>1, <2>2, PlaceType DEF LTypeOK
<1>5. PlaceOf(p) = p
  BY DEF Place, PlaceOf
<1> HIDE DEF p
<1>6. AccOK(Fetch(p, model.alloc)) /\ PlaceOf(Fetch(p, model.alloc)) = PlaceOf(p)
  BY <1>4, FetchType, LimitRange DEF LTypeOK
<1>7. Fetch(p, model.alloc).w = p.w
  BY DEF Fetch, Access
<1> QED  BY <1>1, <1>3, <1>4, <1>5, <1>6, <1>7 DEF Pair1, p

LEMMA Place32Type ==
    ASSUME LTypeOK, NEW w \in Cores, NEW i \in Instrs, NEW l \in Lane, NEW j \in Slots(i)
    PROVE  PlaceOK(Place32(w, i, l, j)) /\ Place32(w, i, l, j).w = RegBytes
<1>1. Num[v[w][l][AddressReg(i)]] \in Nat
  <2>1. AddressReg(i) \in Reg
    BY ProgramAssumption DEF WellFormed, AddressReg
  <2>2. v[w][l][AddressReg(i)] \in Word
    BY <2>1, AddressType DEF File
  <2> QED  BY <2>2, SizeAssumption
<1>2. i.offs[j + 1] \in Nat
  <2>1. i.offs \in Seq(Nat)
    BY ProgramAssumption DEF WellFormed
  <2>2. j + 1 \in 1 .. Len(i.offs)
    BY <2>1 DEF Slots
  <2> QED  BY <2>1, <2>2
<1>3. RegBytes \in Nat /\ Stride * RegBytes \in Nat
  <2>1. CASE RegBytes = 2
    BY <2>1, SizeAssumption
  <2>2. CASE RegBytes = 4
    BY <2>2, SizeAssumption
  <2> QED  BY <2>1, <2>2, SizeAssumption
<1>4. Unit(i) \in Nat
  BY <1>3 DEF Unit
<1>5. Num[v[w][l][AddressReg(i)]] + i.offs[j + 1] * Unit(i) \in Nat
  BY <1>1, <1>2, <1>4
<1> QED  BY <1>3, <1>5, SlotRange DEF PlaceOK, Place32

LEMMA Fetch32Type ==
    ASSUME LTypeOK, NEW w \in Cores, NEW i \in Instrs, NEW l \in Lane, NEW j \in Slots(i)
    PROVE  /\ AccOK(Fetch(Place32(w, i, l, j), ImgSize))
           /\ Fetch(Place32(w, i, l, j), ImgSize).w = RegBytes
           /\ PlaceOf(Fetch(Place32(w, i, l, j), ImgSize)) = Place32(w, i, l, j)
<1> DEFINE p == Place32(w, i, l, j)
<1>1. PlaceOK(p) /\ p.w = RegBytes
  BY Place32Type
<1>2. PlaceOf(p) = p
  BY DEF Place32, PlaceOf
<1> HIDE DEF p
<1>3. AccOK(Fetch(p, ImgSize)) /\ PlaceOf(Fetch(p, ImgSize)) = PlaceOf(p)
  BY <1>1, FetchType, SizeAssumption DEF LTypeOK
<1>4. Fetch(p, ImgSize).w = p.w
  BY DEF Fetch, Access
<1> QED  BY <1>1, <1>2, <1>3, <1>4 DEF p

LEMMA Stored32Type ==
    ASSUME LTypeOK, NEW w \in Cores, NEW i \in Instrs, NEW l \in Lane, NEW j \in Slots(i),
           i.op \in Pairs32
    PROVE  LET x == Access(Place32(w, i, l, j), Source32(w, i, l, j)) IN
           AccOK(x) /\ PlaceOf(x) = Place32(w, i, l, j)
<1> DEFINE p == Place32(w, i, l, j)
           d == Source32(w, i, l, j)
<1>1. PlaceOK(p) /\ p.w = RegBytes
  BY Place32Type
<1>2. i.n = 2 /\ i.data \in Nat /\ i.data + 1 \in Reg /\ i.data \in Reg
  BY ProgramAssumption DEF WellFormed, Reg
<1>3. ASSUME NEW n \in {0, 1}
      PROVE  Source(v[w][l], i.data + n, RegBytes) \in Data(RegBytes)
  <2>1. /\ i.data + n \in Nat /\ (i.data + n) + 1 - 1 \in Reg
        /\ RegBytes <= 1 * RegBytes /\ RegBytes \in Nat
    BY <1>2, SizeAssumption
  <2> QED  BY <2>1, AddressType, SourceType
<1>4. [k \in 0 .. (RegBytes - 1) |-> Zero] \in Data(RegBytes)
  BY SizeAssumption DEF Data
<1>5. d \in Data(RegBytes)
  BY <1>3, <1>4, SlotRange DEF Source32
<1>6. PlaceOf(p) = p
  BY DEF Place32, PlaceOf
<1> HIDE DEF p, d
<1>7. AccOK(Access(p, d)) /\ PlaceOf(Access(p, d)) = PlaceOf(p)
  BY <1>1, <1>5 DEF AccOK, PlaceOK, Access, PlaceOf
<1> QED  BY <1>6, <1>7 DEF p, d

-----------------------------------------------------------------------------
(* The accesses of an instruction, by family, with what is known of them.  *)
LEMMA StoreWidths ==
    ASSUME NEW i \in Instrs
    PROVE  /\ i.op = "store" => i.w <= i.n * RegBytes /\ i.data + i.n - 1 \in Reg
           /\ i.op = "store2_b64" => \A j \in {0, 1} : /\ i.w <= 2 * RegBytes
                                                       /\ i.data + 2 * j \in Nat
                                                       /\ (i.data + 2 * j) + 2 - 1 \in Reg
           /\ i.data \in Nat /\ i.n \in Nat
<1>1. i.data \in Nat /\ i.n \in Nat /\ i.data \in Reg /\ i.data + i.n - 1 \in Reg
  BY ProgramAssumption DEF WellFormed, Reg
<1>2. i.op = "store" => i.w <= i.n * RegBytes
  BY ProgramAssumption DEF WellFormed, Pairs32, Pairs64
<1>3. ASSUME i.op = "store2_b64" PROVE i.w = 2 * RegBytes /\ i.n = 4
  BY <1>3, ProgramAssumption DEF WellFormed, Pairs64
<1>4. ASSUME i.op = "store2_b64", NEW j \in {0, 1}
      PROVE  /\ i.w <= 2 * RegBytes
             /\ i.data + 2 * j \in Nat
             /\ (i.data + 2 * j) + 2 - 1 \in Reg
  BY <1>1, <1>3, <1>4, SizeAssumption DEF Reg
<1> QED  BY <1>1, <1>2, <1>4

LEMMA DsStoreAccs ==
    ASSUME LTypeOK, NEW w \in Cores, NEW i \in Instrs, NEW active \in SUBSET Lane,
           i.op = "store"
    PROVE  LET accs == {Stored(w, i, l, 0, i.data) : l \in active} IN
           \A x \in accs : AccOK(x)
<1>1. ASSUME NEW l \in active PROVE AccOK(Stored(w, i, l, 0, i.data))
  BY StoreWidths, StoredType, SlotRange
<1> QED  BY <1>1

LEMMA DsStore2Accs ==
    ASSUME LTypeOK, NEW w \in Cores, NEW i \in Instrs, NEW active \in SUBSET Lane,
           i.op = "store2_b64"
    PROVE  LET accs == {Stored(w, i, l, j, i.data + 2 * j) : l \in active, j \in Slots(i)} IN
           \A x \in accs : AccOK(x)
<1>1. ASSUME NEW l \in active, NEW j \in Slots(i)
      PROVE  AccOK(Stored(w, i, l, j, i.data + 2 * j))
  <2>1. /\ i.w <= 2 * RegBytes /\ i.data + 2 * j \in Nat
        /\ (i.data + 2 * j) + 2 - 1 \in Reg
    BY StoreWidths, SlotRange
  <2> QED  BY <2>1, StoredType
<1> QED  BY <1>1

LEMMA DsStore2B32Accs ==
    ASSUME LTypeOK, NEW w \in Cores, NEW i \in Instrs, NEW active \in SUBSET Lane,
           i.op \in {"store2_b32", "store2st64_b32"}
    PROVE  LET accs == {Access(Place32(w, i, l, j), Source32(w, i, l, j)) :
                            l \in active, j \in Slots(i)} IN
           \A x \in accs : AccOK(x)
<1>1. ASSUME NEW l \in active, NEW j \in Slots(i)
      PROVE  AccOK(Access(Place32(w, i, l, j), Source32(w, i, l, j)))
  BY Stored32Type DEF Pairs32, Strided
<1> QED  BY <1>1

-----------------------------------------------------------------------------
(* Whatever the form, registers hold words and the image bytes.            *)
LEMMA LdsStepType ==
    ASSUME LTypeOK, NEW w \in Cores, NEW i \in Instrs, NEW active \in SUBSET Lane,
           Step(w, i, active)
    PROVE  LTypeOK'
<1>1. model' \in Models /\ steps' \in Nat
  BY DEF Step, LTypeOK
<1>2. i.data \in Reg /\ i.data \in Nat /\ i.data + 2 \in Nat /\ i.n \in Nat /\ i.w \in Nat
  BY ProgramAssumption DEF WellFormed, Reg
<1>3. CASE DsLoad(w, i, active)
  <2> DEFINE new == [l \in Lane |->
                       IF i.op = "load_d16_hi"
                       THEN IntoHigh(v[w][l], i.data, Loaded(w, i, l).data)
                       ELSE Into(v[w][l], i.data, i.n, Loaded(w, i, l).data)]
  <2>1. ASSUME NEW l \in active PROVE new[l] \in File
    <3>1. Loaded(w, i, l).data \in Data(i.w) /\ v[w][l] \in File
      BY LoadedType, AddressType DEF AccOK
    <3>2. i.op = "load_d16_hi" => i.w + i.w = RegBytes
      BY ProgramAssumption DEF WellFormed
    <3> QED  BY <1>2, <3>1, <3>2, IntoType, IntoHighType
  <2>2. v' = Updated(w, active, new) /\ lds' = lds
    BY <1>3 DEF DsLoad
  <2> HIDE DEF new
  <2>3. v' \in [Cores -> [Lane -> File]]
    BY <2>1, <2>2, UpdatedType
  <2> QED  BY <1>1, <2>2, <2>3 DEF LTypeOK
<1>4. CASE DsStore(w, i, active)
  <2> DEFINE accs == {Stored(w, i, l, 0, i.data) : l \in active}
  <2>2. lds' = Written(lds, accs, model.alloc) /\ v' = v /\ i.op = "store"
    BY <1>4 DEF DsStore
  <2>3. \A x \in accs : AccOK(x)
    BY <2>2, DsStoreAccs
  <2> HIDE DEF accs
  <2>1. lds' \in [Addr -> Byte] /\ v' = v
    BY <2>2, <2>3, WrittenType DEF LTypeOK
  <2> QED  BY <1>1, <2>1 DEF LTypeOK
<1>5. CASE DsLoad2(w, i, active)
  <2> DEFINE new == [l \in Lane |-> Into(File0(w, i, l), i.data + 2, 2, Pair1(w, i, l).data)]
  <2>1. ASSUME NEW l \in active PROVE new[l] \in File
    <3>1. Pair1(w, i, l).data \in Data(i.w) /\ File0(w, i, l) \in File
      BY <1>5, PairType DEF AccOK, DsLoad2
    <3> QED  BY <1>2, <3>1, IntoType
  <2>2. v' = Updated(w, active, new) /\ lds' = lds
    BY <1>5 DEF DsLoad2
  <2> HIDE DEF new
  <2>3. v' \in [Cores -> [Lane -> File]]
    BY <2>1, <2>2, UpdatedType
  <2> QED  BY <1>1, <2>2, <2>3 DEF LTypeOK
<1>6. CASE DsStore2(w, i, active)
  <2> DEFINE accs == {Stored(w, i, l, j, i.data + 2 * j) : l \in active, j \in Slots(i)}
  <2>2. lds' = Written(lds, accs, model.alloc) /\ v' = v /\ i.op = "store2_b64"
    BY <1>6 DEF DsStore2
  <2>3. \A x \in accs : AccOK(x)
    BY <2>2, DsStore2Accs
  <2> HIDE DEF accs
  <2>1. lds' \in [Addr -> Byte] /\ v' = v
    BY <2>2, <2>3, WrittenType DEF LTypeOK
  <2> QED  BY <1>1, <2>1 DEF LTypeOK
<1>7. CASE DsLoad2B32(w, i, active)
  <2> DEFINE new == [l \in Lane |-> Into(v[w][l], i.data, i.n, Joined(w, i, l))]
  <2>1. ASSUME NEW l \in active PROVE new[l] \in File
    <3>1. ASSUME NEW k \in 0 .. (2 * RegBytes - 1)
          PROVE  Fetch(Place32(w, i, l, k \div RegBytes), ImgSize).data[k % RegBytes] \in Byte
      <4>1. k \in Nat /\ k < 2 * RegBytes
        BY SizeAssumption
      <4>2. k \div RegBytes \in 0 .. (2 - 1) /\ k % RegBytes \in 0 .. (RegBytes - 1)
        BY <4>1, RegisterOfByte
      <4>3. Slots(i) = {0, 1}
        BY <1>7, SlotRange DEF DsLoad2B32, Pairs32, Strided
      <4>4. k \div RegBytes \in Slots(i)
        BY <4>2, <4>3
      <4>5. Fetch(Place32(w, i, l, k \div RegBytes), ImgSize).data \in Data(RegBytes)
        BY <4>3, <4>4, Fetch32Type DEF AccOK
      <4> QED  BY <4>2, <4>5 DEF Data
    <3>2. Joined(w, i, l) \in Data(2 * RegBytes)
      BY <3>1 DEF Joined, Data
    <3>3. 2 * RegBytes \in Nat
      BY SizeAssumption
    <3> QED  BY <1>2, <3>2, <3>3, AddressType, IntoType
  <2>2. v' = Updated(w, active, new) /\ lds' = lds
    BY <1>7 DEF DsLoad2B32
  <2> HIDE DEF new
  <2>3. v' \in [Cores -> [Lane -> File]]
    BY <2>1, <2>2, UpdatedType
  <2> QED  BY <1>1, <2>2, <2>3 DEF LTypeOK
<1>8. CASE DsStore2B32(w, i, active)
  <2> DEFINE accs == {Access(Place32(w, i, l, j), Source32(w, i, l, j)) :
                       l \in active, j \in Slots(i)}
  <2>2. lds' = Written(lds, accs, ImgSize) /\ v' = v /\ i.op \in {"store2_b32", "store2st64_b32"}
    BY <1>8 DEF DsStore2B32
  <2>3. \A x \in accs : AccOK(x)
    BY <2>2, DsStore2B32Accs
  <2> HIDE DEF accs
  <2>1. lds' \in [Addr -> Byte] /\ v' = v
    BY <2>2, <2>3, WrittenType DEF LTypeOK
  <2> QED  BY <1>1, <2>1 DEF LTypeOK
<1>9. CASE Bpermute(w, i, active)
  <2> DEFINE new == [l \in Lane |->
                       [v[w][l] EXCEPT ![i.data] = v[w][SourceLane(w, i, l)][i.from]]]
  <2>1. ASSUME NEW l \in active PROVE new[l] \in File
    <3>1. SourceLane(w, i, l) \in Lane
      <4>1. Num[v[w][l][i.addr]] \in Nat
        BY AddressType, SizeAssumption
      <4>2. Num[v[w][l][i.addr]] \div RegBytes \in Nat
        BY <4>1, SizeAssumption
      <4> QED  BY <4>2, ModRange, SizeAssumption DEF SourceLane, Lane
    <3>2. v[w][SourceLane(w, i, l)][i.from] \in Word
      BY <3>1, ProgramAssumption DEF LTypeOK, File, WellFormed
    <3> QED  BY <1>2, <3>2, AddressType DEF File
  <2>2. v' = Updated(w, active, new) /\ lds' = lds
    BY <1>9 DEF Bpermute
  <2> HIDE DEF new
  <2>3. v' \in [Cores -> [Lane -> File]]
    BY <2>1, <2>2, UpdatedType
  <2> QED  BY <1>1, <2>2, <2>3 DEF LTypeOK
<1> QED  BY <1>3, <1>4, <1>5, <1>6, <1>7, <1>8, <1>9 DEF Step

(* LdsTypeCorrect: the registers of every lane hold words and the shared   *)
(* image holds bytes, for every program of well-formed instructions.       *)
THEOREM LdsTypeCorrect == LSpec => []LTypeOK
<1>1. LInit => LTypeOK
  BY ProgramAssumption, SizeAssumption DEF LInit, LTypeOK
<1>2. LTypeOK /\ [LNext]_lvars => LTypeOK'
  <2>1. ASSUME LTypeOK, LNext PROVE LTypeOK'
    BY <2>1, LdsStepType DEF LNext
  <2>2. ASSUME LTypeOK, UNCHANGED lvars PROVE LTypeOK'
    BY <2>2 DEF lvars, LTypeOK
  <2> QED  BY <2>1, <2>2
<1> QED  BY <1>1, <1>2, PTL DEF LSpec

-----------------------------------------------------------------------------
(* A pair whose first destination spares the address register computes the *)
(* second address from the same word.                                      *)
LEMMA AddressSpared ==
    ASSUME LTypeOK, NEW w \in Cores, NEW i \in Instrs, NEW l \in Lane,
           i.addr \notin {i.data, i.data + 1}
    PROVE  File0(w, i, l)[i.addr] = v[w][l][i.addr]
<1>1. i.addr \in Reg /\ i.addr \in Nat /\ i.data \in Nat
  BY ProgramAssumption DEF WellFormed, Reg
<1>2. i.addr \notin i.data .. (i.data + 2 - 1)
  BY <1>1
<1> QED  BY <1>1, <1>2 DEF File0, Into

(* What a step did is what was recorded before it.                         *)
LEMMA StepRecorded ==
    ASSUME LTypeOK, Disciplined, NEW w \in Cores, NEW i \in Instrs,
           NEW active \in SUBSET Lane, Step(w, i, active)
    PROVE  RecordDs(w, i, active) = {PlaceOf(x) : x \in event'.accs}
<1> DEFINE P(l, j) == Place(v[w][l][i.addr], i, l, j)
<1>1. Tame(w, i, active)
  BY DEF Step
<1>2. CASE DsLoad(w, i, active)
  <2>1. event'.accs = {Loaded(w, i, l) : l \in active}
    BY <1>2 DEF DsLoad, Happened
  <2>2. Slots(i) = {0} /\ i.op # "bpermute"
    BY <1>2, SlotRange DEF DsLoad, Pairs64, Pairs32, Strided
  <2>3. \A l \in active : PlaceOf(Loaded(w, i, l)) = P(l, 0)
    BY LoadedType
  <2> QED  BY <2>1, <2>2, <2>3 DEF RecordDs
<1>3. CASE DsStore(w, i, active)
  <2>1. event'.accs = {Stored(w, i, l, 0, i.data) : l \in active} /\ i.op = "store"
    BY <1>3 DEF DsStore, Happened
  <2>2. Slots(i) = {0} /\ i.op # "bpermute"
    BY <2>1, SlotRange DEF Pairs64, Pairs32, Strided
  <2>3. \A l \in active : PlaceOf(Stored(w, i, l, 0, i.data)) = P(l, 0)
    BY <2>1, StoreWidths, StoredType, SlotRange
  <2> QED  BY <2>1, <2>2, <2>3 DEF RecordDs
<1>4. CASE DsLoad2(w, i, active)
  <2>1. /\ event'.accs = {Pair0(w, i, l) : l \in active} \cup {Pair1(w, i, l) : l \in active}
        /\ i.op = "load2_b64"
    BY <1>4 DEF DsLoad2, Happened
  <2>2. Slots(i) = {0, 1} /\ i.op # "bpermute"
    BY <2>1, SlotRange DEF Pairs64
  <2>3. ASSUME NEW l \in active
        PROVE  PlaceOf(Pair0(w, i, l)) = P(l, 0) /\ PlaceOf(Pair1(w, i, l)) = P(l, 1)
    <3>1. File0(w, i, l)[i.addr] = v[w][l][i.addr]
      BY <1>1, <2>1, AddressSpared DEF Tame
    <3> QED  BY <2>1, <3>1, PairType
  <2> HIDE DEF P
  <2>4. {PlaceOf(x) : x \in event'.accs} = {P(l, j) : l \in active, j \in {0, 1}}
    BY <2>1, <2>3
  <2> QED  BY <2>2, <2>4 DEF RecordDs, P
<1>5. CASE DsStore2(w, i, active)
  <2>1. /\ event'.accs = {Stored(w, i, l, j, i.data + 2 * j) : l \in active, j \in Slots(i)}
        /\ i.op = "store2_b64"
    BY <1>5 DEF DsStore2, Happened
  <2>2. ASSUME NEW l \in active, NEW j \in Slots(i)
        PROVE  PlaceOf(Stored(w, i, l, j, i.data + 2 * j)) = P(l, j)
    <3>1. /\ i.w <= 2 * RegBytes /\ i.data + 2 * j \in Nat
          /\ (i.data + 2 * j) + 2 - 1 \in Reg
      BY <2>1, StoreWidths, SlotRange
    <3> QED  BY <3>1, StoredType
  <2> QED  BY <2>1, <2>2 DEF RecordDs
<1>6. CASE DsLoad2B32(w, i, active)
  <2>1. /\ event'.accs = {Fetch(Place32(w, i, l, j), ImgSize) : l \in active, j \in Slots(i)}
        /\ i.op \in {"load2_b32", "load2st64_b32"}
    BY <1>6 DEF DsLoad2B32, Happened
  <2>2. ASSUME NEW l \in active, NEW j \in Slots(i)
        PROVE  PlaceOf(Fetch(Place32(w, i, l, j), ImgSize)) = P(l, j)
    BY <1>1, <2>1, Fetch32Type DEF Tame, Pairs32, Strided
  <2> QED  BY <2>1, <2>2 DEF RecordDs
<1>7. CASE DsStore2B32(w, i, active)
  <2>1. /\ event'.accs = {Access(Place32(w, i, l, j), Source32(w, i, l, j)) :
                             l \in active, j \in Slots(i)}
        /\ i.op \in {"store2_b32", "store2st64_b32"}
    BY <1>7 DEF DsStore2B32, Happened
  <2>2. ASSUME NEW l \in active, NEW j \in Slots(i)
        PROVE  PlaceOf(Access(Place32(w, i, l, j), Source32(w, i, l, j))) = P(l, j)
    BY <1>1, <2>1, Stored32Type DEF Tame, Pairs32, Strided
  <2> QED  BY <2>1, <2>2 DEF RecordDs
<1>8. CASE Bpermute(w, i, active)
  BY <1>8 DEF Bpermute, Happened, RecordDs
<1> QED  BY <1>2, <1>3, <1>4, <1>5, <1>6, <1>7, <1>8 DEF Step

(* RecordedIsMadeCorrect: under a disciplined program the recorder, which  *)
(* looks before the step, tells where every lane reaches and whether that  *)
(* is a violation, for every hypothesis of the datapath.                   *)
THEOREM RecordedIsMadeCorrect ==
    ASSUME Disciplined
    PROVE  LSpec => []RecordedIsMade
<1>1. LInit => RecordedIsMade
  BY DEF LInit, RecordedIsMade
<1>2. LTypeOK /\ RecordedIsMade /\ [LNext]_lvars => RecordedIsMade'
  <2>1. ASSUME LTypeOK, LNext PROVE RecordedIsMade'
    <3>1. PICK w \in Cores, i \in Instrs, active \in SUBSET Lane : Step(w, i, active)
      BY <2>1 DEF LNext
    <3>2. recorded' = RecordDs(w, i, active)
      BY <3>1 DEF Step
    <3> QED  BY <2>1, <3>1, <3>2, StepRecorded DEF RecordedIsMade
  <2>2. ASSUME RecordedIsMade, UNCHANGED lvars PROVE RecordedIsMade'
    BY <2>2 DEF lvars, RecordedIsMade
  <2> QED  BY <2>1, <2>2
<1> QED  BY <1>1, <1>2, LdsTypeCorrect, PTL DEF LSpec

-----------------------------------------------------------------------------
(* A place is all right exactly when it ends below the limit.              *)
LEMMA PlaceInside ==
    ASSUME NEW word, NEW i, NEW l, NEW j
    PROVE  LET p == Place(word, i, l, j) IN p.ok <=> p.ea + p.w <= Limit
BY DEF Place, InRange

(* What a load of a place finds below any top from the limit up is what    *)
(* SharedLds says it finds.                                                *)
LEMMA FetchAgrees ==
    ASSUME LTypeOK, NEW p, PlaceOK(p), p.ok <=> p.ea + p.w <= Limit,
           NEW top \in Nat, Limit <= top
    PROVE  LET x == Fetch(p, top) IN
           x.data = [k \in 0 .. (x.w - 1) |->
                        IF x.ea + x.w <= Limit THEN lds[x.ea + k] ELSE Zero]
<1>1. Limit \in Nat
  BY LimitRange DEF LTypeOK
<1>2. ASSUME NEW k \in 0 .. (p.w - 1), p.ea + p.w <= Limit
      PROVE  p.ea + k < top
  BY <1>1, <1>2 DEF PlaceOK
<1>3. CASE p.ea + p.w <= Limit
  BY <1>2, <1>3 DEF Fetch, Access
<1>4. CASE ~(p.ea + p.w <= Limit)
  BY <1>4 DEF Fetch, Access
<1> QED  BY <1>3, <1>4

(* Every access of a disciplined step is all right exactly when it ends    *)
(* below the limit, whichever family of handlers made it.                  *)
LEMMA StepInside ==
    ASSUME LTypeOK, Disciplined, NEW w \in Cores, NEW i \in Instrs,
           NEW active \in SUBSET Lane, Step(w, i, active), NEW x \in event'.accs
    PROVE  x.ok <=> x.ea + x.w <= Limit
<1>1. PlaceOf(x) \in RecordDs(w, i, active)
  BY StepRecorded
<1>2. PICK l \in active, j \in Slots(i) : PlaceOf(x) = Place(v[w][l][i.addr], i, l, j)
  BY <1>1 DEF RecordDs
<1> DEFINE p == Place(v[w][l][i.addr], i, l, j)
<1>3. p.ok <=> p.ea + p.w <= Limit
  BY PlaceInside
<1>4. PlaceOf(x) = p
  BY <1>2
<1> HIDE DEF p
<1>5. x.ok = p.ok /\ x.ea = p.ea /\ x.w = p.w
  BY <1>4 DEF PlaceOf
<1> QED  BY <1>3, <1>5

(* The loop of byte stores is a store of SharedLds.                        *)
LEMMA WrittenAgrees ==
    ASSUME LTypeOK, NEW accs, \A x \in accs : AccOK(x),
           \A x \in accs : x.ok <=> x.ea + x.w <= Limit,
           NEW top \in Nat, Limit <= top, NEW a \in Addr
    PROVE  LET W == {x \in accs : Shared!Inside(x) /\ Shared!Covers(x, a)} IN
           IF W = {} THEN Written(lds, accs, top)[a] = lds[a]
           ELSE \E x \in W : Shared!Wins(x, W) /\ Written(lds, accs, top)[a] = x.data[a - x.ea]
<1> DEFINE W == {x \in accs : Shared!Inside(x) /\ Shared!Covers(x, a)}
<1>1. Limit \in Nat
  BY LimitRange DEF LTypeOK
<1>2. ASSUME NEW x \in accs
      PROVE  (x.ok /\ Covers(x, a) /\ a < top) <=> (Shared!Inside(x) /\ Shared!Covers(x, a))
  <2>1. x.ea \in Nat /\ x.w \in Nat
    BY DEF AccOK, PlaceOK
  <2>2. ASSUME x.ea + x.w <= Limit, a \in x.ea .. (x.ea + x.w - 1) PROVE a < top
    BY <1>1, <2>1, <2>2
  <2>3. x.ok <=> x.ea + x.w <= Limit
    OBVIOUS
  <2> QED  BY <2>2, <2>3 DEF Covers, Shared!Inside, Shared!Covers
<1>3. Hits(accs, top, a) = W
  BY <1>2 DEF Hits
<1> HIDE DEF W
<1>4. /\ W = {} => Written(lds, accs, top)[a] = lds[a]
      /\ W # {} => \E x \in W : (\A y \in W : Later(y, x)) /\ Written(lds, accs, top)[a] = Given(x, a)
  BY <1>3, WrittenByte
<1>5. ASSUME NEW x, \A y \in W : Later(y, x) PROVE Shared!Wins(x, W)
  BY <1>5 DEF Later, Shared!Before, Shared!Wins
<1>6. W # {} => \E x \in W : Shared!Wins(x, W) /\ Written(lds, accs, top)[a] = x.data[a - x.ea]
  BY <1>4, <1>5 DEF Given
<1> QED  BY <1>4, <1>6 DEF W

(* A store of any family, its accesses known, is a store of SharedLds.     *)
LEMMA StoreRefines ==
    ASSUME LTypeOK, NEW accs, \A x \in accs : AccOK(x),
           \A x \in accs : x.ok <=> x.ea + x.w <= Limit,
           NEW top \in Nat, Limit <= top,
           lds' = Written(lds, accs, top), event'.kind = "store", event'.accs = accs,
           model' = model
    PROVE  Shared!Store
<1>1. Limit' = Limit
  BY DEF Limit
<1>2. lds' \in [Addr -> Byte]
  BY WrittenType DEF LTypeOK
<1>3. ASSUME NEW a \in Addr
      PROVE  LET W == {x \in accs : Shared!Inside(x) /\ Shared!Covers(x, a)} IN
             IF W = {} THEN lds'[a] = lds[a]
             ELSE \E x \in W : Shared!Wins(x, W) /\ lds'[a] = x.data[a - x.ea]
  <2>1. LET W == {x \in accs : Shared!Inside(x) /\ Shared!Covers(x, a)} IN
        IF W = {} THEN Written(lds, accs, top)[a] = lds[a]
        ELSE \E x \in W : Shared!Wins(x, W) /\ Written(lds, accs, top)[a] = x.data[a - x.ea]
    BY ONLY WrittenAgrees, LTypeOK, \A x \in accs : AccOK(x),
            \A x \in accs : x.ok <=> x.ea + x.w <= Limit, Limit <= top, a \in Addr,
            top \in Nat, Zenon
  <2> QED  BY ONLY <2>1, lds' = Written(lds, accs, top)
<1>4. \A a \in Addr :
         LET W == {x \in event'.accs : Shared!Inside(x) /\ Shared!Covers(x, a)} IN
         IF W = {} THEN lds'[a] = lds[a]
             ELSE \E x \in W : Shared!Wins(x, W) /\ lds'[a] = x.data[a - x.ea]
  BY ONLY <1>3, event'.accs = accs
<1> QED  BY ONLY <1>1, <1>2, <1>4, event'.kind = "store" DEF Shared!Store

(* A load of any family is a load of SharedLds.                            *)
LEMMA LoadRefines ==
    ASSUME lds' = lds, event'.kind = "load", model' = model,
           \A x \in event'.accs :
              x.data = [k \in 0 .. (x.w - 1) |->
                           IF x.ea + x.w <= Limit THEN lds[x.ea + k] ELSE Zero]
    PROVE  Shared!Load
<1>1. Limit' = Limit
  BY DEF Limit
<1> QED  BY <1>1 DEF Shared!Load, Shared!Inside

LEMMA LdsStepRefines ==
    ASSUME LTypeOK, Disciplined, NEW w \in Cores, NEW i \in Instrs,
           NEW active \in SUBSET Lane, Step(w, i, active)
    PROVE  Shared!Next
<1> DEFINE Finds(x) == x.data = [k \in 0 .. (x.w - 1) |->
                           IF x.ea + x.w <= Limit THEN lds[x.ea + k] ELSE Zero]
<1>1. model' = model /\ Tame(w, i, active)
  BY DEF Step
<1>2. /\ model.alloc \in Nat /\ Limit <= model.alloc /\ Limit \in Nat
      /\ ImgSize \in Nat /\ Limit <= ImgSize
  BY LimitRange, SizeAssumption DEF LTypeOK
<1>3. \A x \in event'.accs : x.ok <=> x.ea + x.w <= Limit
  BY StepInside
<1>4. ASSUME NEW word \in Word, NEW l \in Lane, NEW j \in Slots(i)
      PROVE  Finds(Fetch(Place(word, i, l, j), model.alloc))
  BY <1>2, PlaceType, PlaceInside, FetchAgrees DEF LTypeOK
<1>5. CASE DsLoad(w, i, active)
  <2>1. /\ event'.accs = {Loaded(w, i, l) : l \in active}
        /\ event'.kind = "load" /\ lds' = lds
    BY <1>5 DEF DsLoad, Happened
  <2>2. ASSUME NEW l \in active PROVE Finds(Loaded(w, i, l))
    <3>1. 0 \in Slots(i) /\ v[w][l][i.addr] \in Word
      BY AddressType, SlotRange
    <3> HIDE DEF Finds
    <3> QED  BY <1>4, <3>1 DEF Loaded
  <2>3. \A x \in event'.accs : Finds(x)
    <3> HIDE DEF Finds
    <3> QED  BY <2>1, <2>2
  <2> QED  BY <1>1, <2>1, <2>3, LoadRefines DEF Shared!Next
<1>6. CASE DsStore(w, i, active)
  <2> DEFINE accs == {Stored(w, i, l, 0, i.data) : l \in active}
  <2>1. /\ lds' = Written(lds, accs, model.alloc) /\ i.op = "store"
        /\ event'.kind = "store" /\ event'.accs = accs
    BY <1>6 DEF DsStore, Happened
  <2>2. \A x \in accs : AccOK(x)
    BY <2>1, DsStoreAccs
  <2> HIDE DEF accs
  <2> QED  BY <1>1, <1>2, <1>3, <2>1, <2>2, StoreRefines DEF Shared!Next
<1>7. CASE DsLoad2(w, i, active)
  <2>1. /\ event'.accs = {Pair0(w, i, l) : l \in active} \cup {Pair1(w, i, l) : l \in active}
        /\ event'.kind = "load" /\ lds' = lds /\ i.op = "load2_b64"
    BY <1>7 DEF DsLoad2, Happened
  <2>2. ASSUME NEW l \in active PROVE Finds(Pair0(w, i, l)) /\ Finds(Pair1(w, i, l))
    <3>1. Slots(i) = {0, 1}
      BY <2>1, SlotRange DEF Pairs64
    <3>2. File0(w, i, l)[i.addr] \in Word
      BY <2>1, PairType, ProgramAssumption DEF File, WellFormed
    <3> HIDE DEF Finds
    <3> QED  BY <1>4, <3>1, <3>2, AddressType DEF Pair0, Pair1
  <2>3. \A x \in event'.accs : Finds(x)
    <3> HIDE DEF Finds
    <3> QED  BY <2>1, <2>2
  <2> QED  BY <1>1, <2>1, <2>3, LoadRefines DEF Shared!Next
<1>8. CASE DsStore2(w, i, active)
  <2> DEFINE accs == {Stored(w, i, l, j, i.data + 2 * j) : l \in active, j \in Slots(i)}
  <2>1. /\ lds' = Written(lds, accs, model.alloc) /\ i.op = "store2_b64"
        /\ event'.kind = "store" /\ event'.accs = accs
    BY <1>8 DEF DsStore2, Happened
  <2>2. \A x \in accs : AccOK(x)
    BY <2>1, DsStore2Accs
  <2> HIDE DEF accs
  <2> QED  BY <1>1, <1>2, <1>3, <2>1, <2>2, StoreRefines DEF Shared!Next
<1>9. CASE DsLoad2B32(w, i, active)
  <2>1. /\ event'.accs = {Fetch(Place32(w, i, l, j), ImgSize) : l \in active, j \in Slots(i)}
        /\ event'.kind = "load" /\ lds' = lds /\ i.op \in {"load2_b32", "load2st64_b32"}
    BY <1>9 DEF DsLoad2B32, Happened
  <2>2. ASSUME NEW l \in active, NEW j \in Slots(i)
        PROVE  Finds(Fetch(Place32(w, i, l, j), ImgSize))
    <3> DEFINE p == Place32(w, i, l, j)
    <3>1. p = Place(v[w][l][i.addr], i, l, j)
      BY <1>1, <2>1 DEF Tame, Pairs32, Strided
    <3>2. PlaceOK(p)
      BY Place32Type
    <3>3. p.ok <=> p.ea + p.w <= Limit
      BY <3>1, PlaceInside
    <3> HIDE DEF p
    <3>4. Finds(Fetch(p, ImgSize))
      BY <1>2, <3>2, <3>3, FetchAgrees
    <3> QED  BY <3>4 DEF p
  <2>3. \A x \in event'.accs : Finds(x)
    <3> HIDE DEF Finds
    <3> QED  BY <2>1, <2>2
  <2> QED  BY <1>1, <2>1, <2>3, LoadRefines DEF Shared!Next
<1>10. CASE DsStore2B32(w, i, active)
  <2> DEFINE accs == {Access(Place32(w, i, l, j), Source32(w, i, l, j)) :
                         l \in active, j \in Slots(i)}
  <2>1. /\ lds' = Written(lds, accs, ImgSize) /\ i.op \in {"store2_b32", "store2st64_b32"}
        /\ event'.kind = "store" /\ event'.accs = accs
    BY <1>10 DEF DsStore2B32, Happened
  <2>2. \A x \in accs : AccOK(x)
    BY <2>1, DsStore2B32Accs
  <2> HIDE DEF accs
  <2> QED  BY <1>1, <1>2, <1>3, <2>1, <2>2, StoreRefines DEF Shared!Next
<1>11. CASE Bpermute(w, i, active)
  <2>1. Limit' = Limit
    BY <1>1 DEF Limit
  <2> QED  BY <1>11, <2>1 DEF Bpermute, Happened, Shared!Next, Shared!Gather
<1> QED  BY <1>5, <1>6, <1>7, <1>8, <1>9, <1>10, <1>11 DEF Step

(* LdsRefinement: for every hypothesis of the datapath and every           *)
(* allocation, the three families of handlers make the image of a          *)
(* disciplined program the memory of SharedLds, out-of-range accesses      *)
(* included.                                                               *)
THEOREM LdsRefinement ==
    ASSUME Disciplined
    PROVE  LSpec => ImplementsSharedLds
<1>1. LInit => Shared!Init
  BY ModelAssumption, SizeAssumption DEF LInit, Shared!Init, Limit
<1>2. LTypeOK /\ [LNext]_lvars => [Shared!Next]_(Shared!vars)
  <2>1. ASSUME LTypeOK, LNext PROVE Shared!Next
    BY <2>1, LdsStepRefines DEF LNext
  <2>2. ASSUME UNCHANGED lvars PROVE UNCHANGED Shared!vars
    BY <2>2 DEF lvars, Shared!vars, Limit
  <2> QED  BY <2>1, <2>2
<1> QED  BY <1>1, <1>2, LdsTypeCorrect, PTL DEF LSpec, Shared!Spec, ImplementsSharedLds

-----------------------------------------------------------------------------
(* A quotient and a remainder are one.                                     *)
LEMMA OneRemainder ==
    ASSUME NEW p \in Nat \ {0}, NEW c \in Nat, NEW d \in Nat,
           NEW s \in 0 .. (p - 1), NEW t \in 0 .. (p - 1), p * c + s = p * d + t
    PROVE  s = t
<1>1. ASSUME NEW x \in Nat, NEW y \in Nat, x < y
      PROVE  p * x + p <= p * y
  <2>1. PICK e \in Nat : y = x + 1 + e
    <3>1. y - x - 1 \in Nat /\ y = x + 1 + (y - x - 1)
      BY <1>1
    <3> QED  BY <3>1
  <2>2. p * y = p * x + p + p * e
    BY <2>1
  <2>3. p * e \in Nat /\ p * x \in Nat
    OBVIOUS
  <2> QED  BY ONLY <2>2, <2>3, p \in Nat
<1>2. p * c \in Nat /\ p * d \in Nat /\ s \in Nat /\ t \in Nat /\ s < p /\ t < p /\ p \in Nat
  OBVIOUS
<1>3. CASE c < d
  <2>1. p * c + p <= p * d
    BY <1>1, <1>3
  <2> QED  BY ONLY <1>2, <2>1, p * c + s = p * d + t
<1>4. CASE d < c
  <2>1. p * d + p <= p * c
    BY <1>1, <1>4
  <2> QED  BY ONLY <1>2, <2>1, p * c + s = p * d + t
<1>5. CASE c = d
  BY <1>2, <1>5
<1> QED  BY <1>3, <1>4, <1>5

LEMMA Division ==
    ASSUME NEW a \in Nat, NEW p \in Nat \ {0}
    PROVE  a \div p \in Nat /\ a % p \in 0 .. (p - 1) /\ a = p * (a \div p) + (a % p)
OBVIOUS

(* Reducing by a divisor of the modulus first or last makes no difference. *)
LEMMA ModOfMod ==
    ASSUME NEW a \in Nat, NEW u \in Nat \ {0}, NEW p \in Nat \ {0}, u % p = 0
    PROVE  (a % u) % p = a % p
<1> DEFINE k == u \div p
           q == a \div u
           r == a % u
           m == r \div p
<1>1. k \in Nat /\ u = p * k
  BY Division
<1>2. q \in Nat /\ r \in Nat /\ a = u * q + r
  BY Division
<1>3. m \in Nat /\ r % p \in 0 .. (p - 1) /\ r = p * m + (r % p)
  BY <1>2, Division
<1>4. a \div p \in Nat /\ a % p \in 0 .. (p - 1) /\ a = p * (a \div p) + (a % p)
  BY Division
<1> HIDE DEF k, q, r, m
<1>5. k * q \in Nat /\ u * q = p * (k * q)
  <2>1. (p * k) * q = p * (k * q) /\ k * q \in Nat
    BY ONLY p \in Nat, <1>1, <1>2, Z3
  <2> QED  BY <1>1, <2>1
<1>6. k * q + m \in Nat /\ p * (k * q + m) = p * (k * q) + p * m
  BY <1>1, <1>2, <1>3, <1>5
<1>7. PICK d \in Nat, c \in Nat, s \in 0 .. (p - 1), t \in 0 .. (p - 1) :
           d = k * q + m /\ c = a \div p /\ s = r % p /\ t = a % p
  BY <1>3, <1>4, <1>6
<1>8. p * d + s = p * c + t
  <2>1. PICK x \in Nat, y \in Nat : x = p * (k * q) /\ y = p * m
    <3>1. p * (k * q) \in Nat /\ p * m \in Nat
      BY <1>3, <1>5
    <3> QED  BY <3>1
  <2>2. a = x + r /\ r = y + s /\ p * d = x + y /\ a = p * c + t
    BY <1>2, <1>3, <1>4, <1>5, <1>6, <1>7, <2>1
  <2>3. p * d + s = a
    BY ONLY <2>1, <2>2, <1>2, s \in 0 .. (p - 1)
  <2> QED  BY <2>2, <2>3
<1>9. s = t
  BY <1>8, OneRemainder
<1> QED  BY <1>7, <1>9 DEF r


(* An access in range of the legacy partition is where the old bodies have *)
(* it: the wrap at 32 bits is lost in the mask.                            *)
LEMMA LegacyPlaceAgrees ==
    ASSUME LTypeOK, U32 % PartSize = 0, model.sem = "legacy", NEW w \in Cores, NEW i \in Instrs,
           NEW l \in Lane, NEW j \in Slots(i), Place(v[w][l][i.addr], i, l, j).ok
    PROVE  /\ Place(v[w][l][i.addr], i, l, j) = LegacyPlace(w, i, l, j)
           /\ LegacyPlace(w, i, l, j).ea + i.w <= PartSize
<1> DEFINE word == v[w][l][i.addr]
           n == Num[word] + Imm(i, j)
<1>1. n \in Nat
  <2>1. word \in Word
    BY AddressType
  <2>2. Num[word] \in Nat /\ Imm(i, j) \in Nat
    BY <2>1, ImmType, SizeAssumption
  <2> QED  BY <2>2
<1>2. FinalEa(Raw(word, Imm(i, j))) = n % PartSize
  <2>1. U32 \in Nat \ {0} /\ PartSize \in Nat \ {0}
    BY SizeAssumption
  <2>2. (n % U32) % PartSize = n % PartSize
    BY <1>1, <2>1, ModOfMod
  <2> QED  BY <2>2 DEF FinalEa, Raw
<1>3. InRange(n % PartSize, i.w) = TRUE /\ (n % PartSize) + i.w <= PartSize
  BY <1>2 DEF Place, InRange, Limit
<1> QED  BY <1>2, <1>3 DEF Place, LegacyPlace

(* Such a load finds what the old bodies find.                             *)
LEMMA LegacyFetchAgrees ==
    ASSUME LTypeOK, U32 % PartSize = 0, model.sem = "legacy", NEW w \in Cores, NEW i \in Instrs,
           NEW l \in Lane, NEW j \in Slots(i), Place(v[w][l][i.addr], i, l, j).ok
    PROVE  Fetch(Place(v[w][l][i.addr], i, l, j), model.alloc).data = LegacyLoad(w, i, l, j)
<1> DEFINE p == LegacyPlace(w, i, l, j)
<1>1. Place(v[w][l][i.addr], i, l, j) = p /\ p.ea + i.w <= PartSize
  BY LegacyPlaceAgrees
<1>2. p.w = i.w /\ p.ea \in Nat /\ i.w \in Nat
  <2>1. PlaceOK(p) /\ p.w = i.w
    BY <1>1, AddressType, PlaceType DEF LTypeOK
  <2> QED  BY <2>1, ProgramAssumption DEF PlaceOK, WellFormed
<1>3. PartSize \in Nat /\ PartSize <= model.alloc /\ model.alloc \in Nat
  BY SizeAssumption, ModelAssumption DEF LTypeOK
<1>4. ASSUME NEW k \in 0 .. (p.w - 1) PROVE p.ea + k < model.alloc /\ p.ea + k < PartSize
  BY <1>1, <1>2, <1>3
<1> QED  BY <1>1, <1>4 DEF Fetch, Access, LegacyLoad

(* So does a store give what they give.                                    *)
LEMMA LegacyWrittenAgrees ==
    ASSUME LTypeOK, NEW accs,
           \A x \in accs : x.ok /\ x.ea \in Nat /\ x.w \in Nat /\ x.ea + x.w <= PartSize,
           model.sem = "legacy"
    PROVE  Written(lds, accs, model.alloc) = Written(lds, accs, PartSize)
<1>1. PartSize \in Nat /\ PartSize <= model.alloc /\ model.alloc \in Nat
  BY SizeAssumption, ModelAssumption DEF LTypeOK
<1>2. ASSUME NEW a \in Addr
      PROVE  {x \in accs : x.ok /\ Covers(x, a) /\ a < model.alloc} =
             {x \in accs : x.ok /\ Covers(x, a) /\ a < PartSize}
  <2>1. ASSUME NEW x \in accs, Covers(x, a) PROVE a < model.alloc /\ a < PartSize
    <3>1. x.ea \in Nat /\ x.w \in Nat /\ x.ea + x.w <= PartSize
      OBVIOUS
    <3>2. a \in x.ea .. (x.ea + x.w - 1)
      BY <2>1 DEF Covers
    <3> QED  BY ONLY <1>1, <3>1, <3>2
  <2> QED  BY <2>1
<1>3. ASSUME NEW a \in Addr
      PROVE  Written(lds, accs, model.alloc)[a] = Written(lds, accs, PartSize)[a]
  <2> DEFINE G(W) == IF W = {} THEN lds[a]
                     ELSE LET x == CHOOSE x \in W : \A y \in W : Later(y, x)
                          IN  x.data[a - x.ea]
             H(top) == {x \in accs : x.ok /\ Covers(x, a) /\ a < top}
  <2>1. \A top : Written(lds, accs, top)[a] = G(H(top))
    BY DEF Written
  <2>2. H(model.alloc) = H(PartSize)
    BY <1>2
  <2> HIDE DEF G, H
  <2> QED  BY <2>1, <2>2
<1>4. \A top : Written(lds, accs, top) = [a \in Addr |-> Written(lds, accs, top)[a]]
  BY DEF Written
<1> QED  BY <1>3, <1>4, Zenon

(* Nothing is stored, nothing changes.                                     *)
LEMMA NothingWritten == ASSUME LTypeOK PROVE Written(lds, {}, PartSize) = lds
BY DEF Written, LTypeOK

(* One step of a disciplined program, all of its accesses recorded in      *)
(* range, is a step of the old bodies.                                     *)
LEMMA StepIsLegacy ==
    ASSUME LTypeOK, Disciplined, U32 % PartSize = 0, NEW w \in Cores, NEW i \in Instrs,
           NEW active \in SUBSET Lane, Step(w, i, active),
           model.sem = "legacy", i.op \in Singles \cup Pairs64, \A x \in recorded' : x.ok
    PROVE  LegacyStep(w, i, active)
<1>1. ASSUME NEW l \in active, NEW j \in Slots(i)
      PROVE  l \in Lane /\ Place(v[w][l][i.addr], i, l, j).ok
  <2>1. recorded' = RecordDs(w, i, active) /\ i.op # "bpermute"
    BY DEF Step, Singles, Pairs64
  <2>2. Place(v[w][l][i.addr], i, l, j) \in recorded'
    BY <2>1 DEF RecordDs
  <2> QED  BY <2>2
<1>2. ASSUME NEW l \in active, NEW j \in Slots(i)
      PROVE  /\ Place(v[w][l][i.addr], i, l, j) = LegacyPlace(w, i, l, j)
             /\ LegacyPlace(w, i, l, j).ea + i.w <= PartSize
             /\ Fetch(Place(v[w][l][i.addr], i, l, j), model.alloc).data = LegacyLoad(w, i, l, j)
  BY <1>1, LegacyPlaceAgrees, LegacyFetchAgrees
<1>3. CASE i.op \in {"load", "load_d16_hi"}
  <2>1. DsLoad(w, i, active)
    BY <1>3 DEF Step, DsLoad, DsStore, DsLoad2, DsStore2, DsLoad2B32, DsStore2B32, Bpermute
  <2>2. \A l \in active : Loaded(w, i, l).data = LegacyLoad(w, i, l, 0)
    BY <1>2, SlotRange DEF Loaded
  <2>3. v' = Updated(w, active, [l \in Lane |-> LegacyFile(w, i, l)])
    BY <1>3, <2>1, <2>2 DEF DsLoad, Updated, LegacyFile
  <2>4. lds' = lds /\ LegacyStores(w, i, active) = {}
    BY <1>3, <2>1 DEF DsLoad, LegacyStores
  <2> QED  BY <2>3, <2>4, NothingWritten DEF LegacyStep
<1>4. CASE i.op = "load2_b64"
  <2>1. DsLoad2(w, i, active) /\ Tame(w, i, active)
    BY <1>4 DEF Step, DsLoad, DsStore, DsLoad2, DsStore2, DsLoad2B32, DsStore2B32, Bpermute
  <2>2. Slots(i) = {0, 1}
    BY <1>4, SlotRange DEF Pairs64
  <2>3. ASSUME NEW l \in active
        PROVE  /\ Pair0(w, i, l).data = LegacyLoad(w, i, l, 0)
               /\ Pair1(w, i, l).data = LegacyLoad(w, i, l, 1)
    <3>1. File0(w, i, l)[i.addr] = v[w][l][i.addr]
      BY <1>4, <2>1, AddressSpared DEF Tame
    <3> QED  BY <1>2, <2>2, <3>1 DEF Pair0, Pair1
  <2>4. v' = Updated(w, active, [l \in Lane |-> LegacyFile(w, i, l)])
    BY <1>4, <2>1, <2>3 DEF DsLoad2, Updated, LegacyFile, File0
  <2>5. lds' = lds /\ LegacyStores(w, i, active) = {}
    BY <1>4, <2>1 DEF DsLoad2, LegacyStores
  <2> QED  BY <2>4, <2>5, NothingWritten DEF LegacyStep
<1>5. CASE i.op \in {"store", "store2_b64"}
  <2> DEFINE S(l, j) == Stored(w, i, l, j, i.data + 2 * j)
             accs == {S(l, j) : l \in active, j \in Slots(i)}
  <2>1. lds' = Written(lds, accs, model.alloc) /\ v' = v
    <3>1. CASE i.op = "store"
      <4>1. DsStore(w, i, active)
        BY <3>1 DEF Step, DsLoad, DsStore, DsLoad2, DsStore2, DsLoad2B32, DsStore2B32, Bpermute
      <4>2. Slots(i) = {0} /\ i.data \in Nat
        BY <3>1, SlotRange, StoreWidths DEF Pairs64, Pairs32, Strided
      <4>3. i.data + 2 * 0 = i.data
        BY <4>2
      <4>4. accs = {Stored(w, i, l, 0, i.data) : l \in active}
        BY <4>2, <4>3
      <4> HIDE DEF accs
      <4> QED  BY <4>1, <4>4, Zenon DEF DsStore
    <3>2. CASE i.op = "store2_b64"
      <4>1. DsStore2(w, i, active)
        BY <3>2 DEF Step, DsLoad, DsStore, DsLoad2, DsStore2, DsLoad2B32, DsStore2B32, Bpermute
      <4> QED  BY <4>1 DEF DsStore2
    <3> QED  BY <1>5, <3>1, <3>2
  <2>2. accs = LegacyStores(w, i, active)
    <3>1. \A l \in active, j \in Slots(i) :
             S(l, j) = Access(LegacyPlace(w, i, l, j), Source(v[w][l], i.data + 2 * j, i.w))
      BY <1>2 DEF Stored
    <3> QED  BY <1>5, <3>1 DEF LegacyStores
  <2>3. ASSUME NEW x \in accs
        PROVE  x.ok /\ x.ea \in Nat /\ x.w \in Nat /\ x.ea + x.w <= PartSize
    <3>1. PICK l \in active, j \in Slots(i) : x = S(l, j)
      OBVIOUS
    <3> DEFINE p == LegacyPlace(w, i, l, j)
    <3>2. PlaceOK(p) /\ p.w = i.w /\ p.ok /\ p.ea + i.w <= PartSize
      BY <1>1, <1>2, AddressType, PlaceType DEF LTypeOK
    <3>3. x.ok = p.ok /\ x.ea = p.ea /\ x.w = p.w
      <4>1. x = Access(p, Source(v[w][l], i.data + 2 * j, i.w))
        BY <1>2, <3>1 DEF Stored
      <4> HIDE DEF p
      <4> QED  BY <4>1 DEF Access
    <3> QED  BY <3>2, <3>3 DEF PlaceOK
  <2> HIDE DEF accs
  <2>4. Written(lds, accs, model.alloc) = Written(lds, accs, PartSize)
    BY <2>3, LegacyWrittenAgrees
  <2>5. v' = Updated(w, active, [l \in Lane |-> LegacyFile(w, i, l)])
    <3>1. \A l \in Lane : LegacyFile(w, i, l) = v[w][l]
      BY <1>5 DEF LegacyFile
    <3>2. v \in [Cores -> [Lane -> File]]
      BY DEF LTypeOK
    <3>3. [l \in Lane |-> IF l \in active THEN [m \in Lane |-> LegacyFile(w, i, m)][l]
                         ELSE v[w][l]] = v[w]
      <4>1. v[w] \in [Lane -> File]
        BY <3>2
      <4>2. \A l \in Lane : (IF l \in active THEN [m \in Lane |-> LegacyFile(w, i, m)][l]
                             ELSE v[w][l]) = v[w][l]
        BY <3>1
      <4> QED  BY <4>1, <4>2
    <3>4. v = [v EXCEPT ![w] = v[w]]
      BY <3>2
    <3> QED  BY <2>1, <3>3, <3>4 DEF Updated
  <2> QED  BY <2>1, <2>2, <2>4, <2>5 DEF LegacyStep
<1> QED  BY <1>3, <1>4, <1>5 DEF Singles, Pairs64

(* LegacyParityCorrect: with the image in whole partitions below 2^32, as  *)
(* it is, the unified path of a disciplined program is the validated old   *)
(* bodies wherever the accesses are in range, for every file and program.  *)
THEOREM LegacyParityCorrect ==
    ASSUME Disciplined, U32 % PartSize = 0
    PROVE  LSpec => LegacyParity
<1> DEFINE Parity == (model.sem = "legacy" /\ event'.ins.op \in Singles \cup Pairs64
                      /\ \A x \in recorded' : x.ok)
                         => LegacyStep(event'.wave, event'.ins, event'.active)
<1>1. ASSUME LTypeOK, LNext PROVE Parity
  <2>1. PICK w \in Cores, i \in Instrs, active \in SUBSET Lane : Step(w, i, active)
    BY <1>1 DEF LNext
  <2>2. event'.wave = w /\ event'.ins = i /\ event'.active = active
    BY <2>1 DEF Step, DsLoad, DsStore, DsLoad2, DsStore2, DsLoad2B32, DsStore2B32, Bpermute,
                Happened
  <2> QED  BY <1>1, <2>1, <2>2, StepIsLegacy
<1>2. LTypeOK /\ [LNext]_lvars => [Parity]_lvars
  BY <1>1
<1> QED  BY <1>2, LdsTypeCorrect, PTL DEF LSpec, LegacyParity
=============================================================================
