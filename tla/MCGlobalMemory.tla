--------------------------- MODULE MCGlobalMemory ---------------------------
(* Instances of GlobalMemory: three dwords of two one-bit "bytes".  The    *)
(* first dword is primed as a dword (kernarg), the second lies in a        *)
(* pattern region, the third holds bytes of the module image or nothing.   *)
EXTENDS GlobalMemory

MCByte == {0, 1}
MCNegative == {1}
MCSynth == {2, 3}
MCPattern == [a \in {2, 3} |-> 1]

MCImages == {[k \in {0} |-> [j \in 0 .. 1 |-> 1]],
             [k \in {0, 4, 5} |-> IF k = 0 THEN [j \in 0 .. 1 |-> j] ELSE ByteKey(1)]}

MCLoads == {<<1, 1>>, <<4, 1>>, <<0, 2>>, <<1, 2>>, <<5, 2>>, <<3, 2>>, <<1, 4>>}
MCScalarLoads == {<<0, 2>>, <<4, 4>>}
WholeWords == {<<0, 2>>, <<2, 2>>, <<4, 2>>, <<2, 4>>}
(* Representable in every image; AnyStores are not.                        *)
MCStores == WholeWords \cup {<<4, 1>>, <<5, 1>>}
AnyStores == MCStores \cup {<<0, 1>>, <<2, 1>>, <<1, 1>>, <<1, 2>>}
MCCasWords == {[j \in 0 .. 1 |-> 0], [j \in 0 .. 1 |-> 1]}

=============================================================================
