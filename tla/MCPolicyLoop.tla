---------------------------- MODULE MCPolicyLoop ----------------------------
(***************************************************************************)
(* Instances of PolicyLoop and Oracle for TLC: a source without locks, and *)
(* the dependencies between services that a look-ahead may follow.         *)
(***************************************************************************)
EXTENDS Oracle

\* What SyntheticEventSource pushes for every workload except lock_contention.
SyntheticSource == {"Arrival"}

\* Each service depends on the one before it, as in tests/test_oracle.cpp.
ChainOf(services) == {<<i, i + 1>> : i \in services \ {NumProcs}}

\* All other services depend on the last one, so one completion wakes several.
HubOf(services) == {<<NumProcs, dependent>> : dependent \in services \ {NumProcs}}

ServiceGraphs == {ChainOf(1 .. NumProcs), HubOf(1 .. NumProcs)}

=============================================================================
