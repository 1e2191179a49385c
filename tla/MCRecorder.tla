------------------------------ MODULE MCRecorder ------------------------------
(* Instances of GlobalGate with its recorders: two adjacent declared dwords, *)
(* one primed as a dword and one under the pattern, and one undeclared dword *)
(* above them.                                                               *)
EXTENDS Recorder

CONSTANTS s1, s2

MCByte == {0, 1}
MCNegative == {1}
MCSynth == {2, 3}
MCPattern == [a \in {2, 3} |-> 1]
MCImages == {[k \in {0} |-> [j \in 0 .. 1 |-> 1]]}
MCLoads == {<<0, 2>>, <<3, 2>>}
MCScalarLoads == {<<4, 2>>}
MCStores == {<<2, 1>>, <<3, 2>>}
MCCasWords == {[j \in 0 .. 1 |-> 0]}
MCWaves == {0, 1}
MCSites == {s1, s2}
MCRegions == {<<0, 2>>, <<2, 4>>}

Request(mode, targets, cap, budget) ==
  [mode |-> mode, targets |-> targets, sampleCap |-> cap, budget |-> budget]
MCDefault == Request("AGGREGATE", {}, 1, 3)
MCRequests == {Request("FULL_TRACE", {}, 2, 1), Request("TARGETED_TRACE", {s2}, 2, 3),
               Request("TARGETED_TRACE", {}, 2, 3), Request("FULL_TRACE", {}, 2, 0)}
=============================================================================
