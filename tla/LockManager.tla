---------------------------- MODULE LockManager -----------------------------
(***************************************************************************)
(* Lock ownership and FIFO waiting (core/LockManager.cpp).  The manager    *)
(* checks nothing about its callers: a process may ask for a lock it       *)
(* already owns or already waits for, and is then queued once more.        *)
(***************************************************************************)
EXTENDS Integers, Sequences

CONSTANTS
    Locks,        \* lock ids 0 .. num_locks - 1
    Clients       \* process indices, from 1 on; 0 stands for the code's -1

NoOwner == 0

VARIABLES
    owner,        \* owner[l]: the client that owns l, or NoOwner
    waiters       \* waiters[l]: the clients queued for l, oldest first

lockVars == <<owner, waiters>>

TypeOK ==
    /\ owner   \in [Locks -> Clients \cup {NoOwner}]
    /\ waiters \in [Locks -> Seq(Clients)]

Init ==
    /\ owner   = [l \in Locks |-> NoOwner]
    /\ waiters = [l \in Locks |-> <<>>]

\* acquire() returns TRUE: the lock was free.
Grant(l, p) ==
    /\ owner[l] = NoOwner
    /\ owner' = [owner EXCEPT ![l] = p]
    /\ UNCHANGED waiters

\* acquire() returns FALSE: the caller is queued.
Enqueue(l, p) ==
    /\ owner[l] # NoOwner
    /\ waiters' = [waiters EXCEPT ![l] = Append(@, p)]
    /\ UNCHANGED owner

Acquire(l, p) == Grant(l, p) \/ Enqueue(l, p)

\* Fault: the lock is freed although a client waits for it.
FreeWithWaiters(l) ==
    /\ owner' = [owner EXCEPT ![l] = NoOwner]
    /\ UNCHANGED waiters

\* release() finds no waiter: the lock becomes free.
Free(l) ==
    /\ waiters[l] = <<>>
    /\ owner' = [owner EXCEPT ![l] = NoOwner]
    /\ UNCHANGED waiters

\* Fault: the newest waiter is promoted.
PromoteNewest(l) ==
    /\ waiters[l] # <<>>
    /\ owner'   = [owner EXCEPT ![l] = waiters[l][Len(waiters[l])]]
    /\ waiters' = [waiters EXCEPT ![l] = SubSeq(@, 1, Len(@) - 1)]

\* release() hands the lock to the oldest waiter.
Promote(l) ==
    /\ waiters[l] # <<>>
    /\ owner'   = [owner EXCEPT ![l] = Head(waiters[l])]
    /\ waiters' = [waiters EXCEPT ![l] = Tail(@)]

Release(l) == Free(l) \/ Promote(l)

Reset ==
    /\ owner'   = [l \in Locks |-> NoOwner]
    /\ waiters' = [l \in Locks |-> <<>>]

\* The documented precondition of release() is that the lock is held.
Next ==
    \/ \E l \in Locks, p \in Clients : Grant(l, p)
    \/ \E l \in Locks, p \in Clients : Enqueue(l, p)
    \/ \E l \in Locks : owner[l] # NoOwner /\ Free(l)
    \/ \E l \in Locks : owner[l] # NoOwner /\ Promote(l)
    \/ Reset

Spec == Init /\ [][Next]_lockVars

-----------------------------------------------------------------------------

(***************************************************************************)
(* No lock is free while a process is queued for it: release() always      *)
(* promotes before it frees, and acquire() only queues behind an owner.    *)
(***************************************************************************)
NoWaiterOnFreeLock == \A l \in Locks : owner[l] = NoOwner => waiters[l] = <<>>

(***************************************************************************)
(* The abstract lock: one line of requests per lock, whose head owns it.   *)
(***************************************************************************)
Line == INSTANCE RequestLine
            WITH line <- [l \in Locks |-> IF owner[l] = NoOwner
                                          THEN <<>>
                                          ELSE <<owner[l]>> \o waiters[l]]

(***************************************************************************)
(* LockManager implements RequestLine: requests are served strictly in the *)
(* order in which they were made, and none is lost or invented.            *)
(***************************************************************************)
ServesInOrder == Line!Spec

=============================================================================
