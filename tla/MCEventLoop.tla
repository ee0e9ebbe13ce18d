---------------------------- MODULE MCEventLoop -----------------------------
(***************************************************************************)
(* Instances of EventLoop for TLC: what each kind of event source pushes.  *)
(***************************************************************************)
EXTENDS EventLoop

\* SyntheticEventSource without and with the lock_contention workload.
SyntheticSource == {"Arrival"}
LockingSource   == {"Arrival", "LockAcquire"}

\* ReplayEngine: a trace of calls and lock events, and every type of record it knows.
CallSource      == {"Arrival", "LockAcquire", "LockRelease"}
TraceSource     == {"Arrival", "LockAcquire", "LockRelease", "Service"}

=============================================================================
