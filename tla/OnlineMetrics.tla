--------------------------- MODULE OnlineMetrics ----------------------------
(***************************************************************************)
(* The per-tick accumulators (core/OnlineMetrics.cpp), as a record and     *)
(* operators on it.  Left out: the hybrid-mode counters and the decision   *)
(* time, which only copy fields of the decision.  The vector of processes  *)
(* is passed as the sequence of its records.                               *)
(***************************************************************************)
EXTENDS Integers, Sequences, Functions

CONSTANTS
    NumProcs,     \* num_processes_: how many processes the snapshot covers
    Window        \* window_size_: ticks in the rolling throughput window

ASSUME OnlineMetricsAssumption == /\ NumProcs \in Nat \ {0}
                                  /\ Window   \in Nat \ {0}

OnlineReset ==
    [tick_count      |-> 0,
     current_v       |-> 0,
     drift           |-> 0,
     ring            |-> [s \in 0 .. Window - 1 |-> 0],  \* completed_in_tick_
     window_sum      |-> 0,
     busy_ticks      |-> 0,
     total_completed |-> 0,
     total_arrived   |-> 0]

\* A counter, summed over all processes.
SumOver(ps, field) == SumFunction([i \in DOMAIN ps |-> ps[i][field]])

\* V(t): the sum of the squared queue lengths of the configured processes.
LyapunovV(ps) ==
    SumFunctionOnSet([i \in DOMAIN ps |-> ps[i].queue_length * ps[i].queue_length],
                     {i \in DOMAIN ps : i <= NumProcs})

\* update(): "busy" is the validity of this tick's decision.
OnlineUpdate(om, ps, busy) ==
    LET done  == IF busy THEN 1 ELSE 0
        count == om.tick_count + 1
        slot  == count % Window
        v     == LyapunovV(ps)
    IN  [tick_count      |-> count,
         current_v       |-> v,
         drift           |-> v - om.current_v,
         ring            |-> [om.ring EXCEPT ![slot] = done],
         window_sum      |-> om.window_sum - om.ring[slot] + done,
         busy_ticks      |-> om.busy_ticks + done,
         total_completed |-> om.total_completed + done,
         total_arrived   |-> SumOver(ps, "arrival_count")]

=============================================================================
