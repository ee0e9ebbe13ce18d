--------------------------- MODULE QueueingSystem ---------------------------
(***************************************************************************)
(* What the simulator promises to simulate: a slotted-time single server   *)
(* with one FIFO queue per service.  In every slot jobs arrive first, then *)
(* at most one job, the oldest of some queue, is served, and the server    *)
(* may not stay idle while any queue holds a job.                          *)
(***************************************************************************)
EXTENDS Integers, Sequences

CONSTANT Services

VARIABLES
    now,      \* the current slot
    queue,    \* queue[s]: the slots in which the jobs waiting at s arrived
    busy      \* has a job been served in this slot?

systemVars == <<now, queue, busy>>

Init ==
    /\ now   = 0
    /\ queue = [s \in Services |-> <<>>]
    /\ busy  = FALSE

Arrive(s) ==
    /\ ~busy
    /\ queue' = [queue EXCEPT ![s] = Append(@, now)]
    /\ UNCHANGED <<now, busy>>

Serve(s) ==
    /\ ~busy
    /\ queue[s] # <<>>
    /\ queue' = [queue EXCEPT ![s] = Tail(@)]
    /\ busy'  = TRUE
    /\ UNCHANGED now

Advance ==
    /\ busy \/ \A s \in Services : queue[s] = <<>>
    /\ now'  = now + 1
    /\ busy' = FALSE
    /\ UNCHANGED queue

Next ==
    \/ \E s \in Services : Arrive(s)
    \/ \E s \in Services : Serve(s)
    \/ Advance

Spec == Init /\ [][Next]_systemVars

=============================================================================
