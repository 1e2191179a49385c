------------------------------- MODULE MCBridge -------------------------------
(* Two threads that call any wrapper, and backends with all, some or none of *)
(* the exports.                                                              *)
EXTENDS Bridge

CONSTANTS t1, t2

Threads == {t1, t2}

\* A complete runtime, one without two registration exports and the launch,
\* and one that cannot be loaded.
Complete == [loadable |-> TRUE, exports |-> Wrapper]
Partial == [loadable |-> TRUE,
            exports |-> Wrapper \ {"registerFunction", "unregisterFatBinary", "launchKernel"}]
Absent == [loadable |-> FALSE, exports |-> {}]
AllBackends == {Complete, Partial, Absent}
=============================================================================
