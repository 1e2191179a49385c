-------------------------- MODULE MCWorkgroupDriver --------------------------
(***************************************************************************)
(* Small instances of WorkgroupDriver.                                     *)
(***************************************************************************)
EXTENDS WorkgroupDriver

Plain(op) == [op |-> op, to |-> 1]
Branch(i) == [op |-> "branch", to |-> i]

\* Every program of three instructions, branches to anywhere included, one
\* past the end too.
AllShortPrograms ==
  LET Alphabet == {Plain(op) : op \in Op \ {"branch"}} \cup {Branch(i) : i \in 1 .. 4}
  IN  {<<a, b, c>> : a, b, c \in Alphabet}

\* The shapes of the analysed kernels: staging loops with a barrier in the
\* body, a loop over two adjacent barriers, one of unequal ways, an early exit
\* around a barrier, a divergent barrier, a trap that takes one wave out while
\* the rest go on.
KernelShapes ==
  { <<Plain("barrier"), Plain("barrier"), Branch(1), Plain("endpgm")>>,
    <<Plain("barrier"), Branch(1), Branch(1), Plain("endpgm")>>,
    <<Plain("trap"), Plain("barrier"), Branch(1), Plain("barrier"), Plain("endpgm")>>,
    <<Branch(4), Plain("barrier"), Plain("alu"), Plain("barrier"), Plain("endpgm")>>,
    <<Branch(5), Plain("alu"), Plain("barrier"), Plain("gws"), Plain("endpgm")>> }

AllPrograms == AllShortPrograms \cup KernelShapes

GwsPrograms ==
  { <<Plain("alu"), Plain("gws"), Branch(1), Plain("endpgm")>> }

=============================================================================
