------------------------- MODULE LockManager_proofs -------------------------
(***************************************************************************)
(* Proofs about LockManager: type correctness, no waiter on a free lock,   *)
(* and that the manager implements the abstract line of requests.          *)
(***************************************************************************)
EXTENDS LockManager, TLAPS

(***************************************************************************)
(* Owners are clients or nobody, and queues are sequences of clients.      *)
(***************************************************************************)
THEOREM TypeCorrect == Spec => []TypeOK
<1>1. Init => TypeOK
  BY DEF Init, TypeOK
<1>2. TypeOK /\ [Next]_lockVars => TypeOK'
  <2> SUFFICES ASSUME TypeOK, [Next]_lockVars PROVE TypeOK'
    OBVIOUS
  <2> USE DEF TypeOK
  <2>1. ASSUME NEW l \in Locks, NEW p \in Clients, Grant(l, p) PROVE TypeOK'
    BY <2>1 DEF Grant
  <2>2. ASSUME NEW l \in Locks, NEW p \in Clients, Enqueue(l, p) PROVE TypeOK'
    BY <2>2 DEF Enqueue
  <2>3. ASSUME NEW l \in Locks, Free(l) PROVE TypeOK'
    BY <2>3 DEF Free
  <2>4. ASSUME NEW l \in Locks, Promote(l) PROVE TypeOK'
    <3>1. Head(waiters[l]) \in Clients /\ Tail(waiters[l]) \in Seq(Clients)
      BY <2>4 DEF Promote
    <3> QED BY <2>4, <3>1 DEF Promote
  <2>5. CASE Reset
    BY <2>5 DEF Reset
  <2>6. CASE UNCHANGED lockVars
    BY <2>6 DEF lockVars
  <2> QED BY <2>1, <2>2, <2>3, <2>4, <2>5, <2>6 DEF Next
<1> QED BY <1>1, <1>2, PTL DEF Spec

-----------------------------------------------------------------------------

(***************************************************************************)
(* A free lock has no waiter: acquire() queues behind an owner only, and   *)
(* release() frees a lock only when its queue is empty.                    *)
(***************************************************************************)
THEOREM FreeLocksHaveNoWaiter ==
    ASSUME NoOwner \notin Clients
    PROVE  Spec => []NoWaiterOnFreeLock
<1>1. Init => NoWaiterOnFreeLock
  BY DEF Init, NoWaiterOnFreeLock
<1>2. TypeOK /\ NoWaiterOnFreeLock /\ [Next]_lockVars => NoWaiterOnFreeLock'
  <2> SUFFICES ASSUME TypeOK, NoWaiterOnFreeLock, [Next]_lockVars
               PROVE  NoWaiterOnFreeLock'
    OBVIOUS
  <2> USE DEF TypeOK, NoWaiterOnFreeLock
  <2>1. ASSUME NEW l \in Locks, NEW p \in Clients, Grant(l, p)
        PROVE  NoWaiterOnFreeLock'
    BY <2>1 DEF Grant
  <2>2. ASSUME NEW l \in Locks, NEW p \in Clients, Enqueue(l, p)
        PROVE  NoWaiterOnFreeLock'
    BY <2>2 DEF Enqueue
  <2>3. ASSUME NEW l \in Locks, Free(l) PROVE NoWaiterOnFreeLock'
    BY <2>3 DEF Free
  <2>4. ASSUME NEW l \in Locks, Promote(l) PROVE NoWaiterOnFreeLock'
    <3>1. Head(waiters[l]) # NoOwner
      BY <2>4 DEF Promote
    <3> QED BY <2>4, <3>1 DEF Promote
  <2>5. CASE Reset
    BY <2>5 DEF Reset
  <2>6. CASE UNCHANGED lockVars
    BY <2>6 DEF lockVars
  <2> QED BY <2>1, <2>2, <2>3, <2>4, <2>5, <2>6 DEF Next
<1> QED BY <1>1, <1>2, TypeCorrect, PTL DEF Spec

-----------------------------------------------------------------------------
(* The line of requests of one lock.                                       *)

\* An owned lock's line has the owner at its head and the waiters behind it.
LEMMA OwnedLine ==
    ASSUME NEW o \in Clients, NEW ws \in Seq(Clients)
    PROVE  /\ <<o>> \o ws \in Seq(Clients)
           /\ <<o>> \o ws # <<>>
           /\ Tail(<<o>> \o ws) = ws
  OBVIOUS

\* Whoever joins a line stands last in it.
LEMMA Joins ==
    ASSUME NEW p \in Clients, NEW ws \in Seq(Clients)
    PROVE  Append(ws, p) # <<>> /\ Append(ws, p)[Len(Append(ws, p))] = p
  OBVIOUS

\* Asking for an owned lock is joining the end of its line.
LEMMA JoinLine ==
    ASSUME NEW o \in Clients, NEW p \in Clients, NEW ws \in Seq(Clients)
    PROVE  <<o>> \o Append(ws, p) = Append(<<o>> \o ws, p)
  OBVIOUS

\* A non-empty queue is its head followed by its tail.
LEMMA HeadThenTail ==
    ASSUME NEW ws \in Seq(Clients), ws # <<>>
    PROVE  <<Head(ws)>> \o Tail(ws) = ws
  OBVIOUS

\* Every line is a sequence of clients.
LEMMA LineTyped ==
    ASSUME TypeOK
    PROVE  [l \in Locks |-> IF owner[l] = NoOwner THEN <<>> ELSE <<owner[l]>> \o waiters[l]]
               \in [Locks -> Seq(Clients)]
<1>1. ASSUME NEW l \in Locks, owner[l] # NoOwner
      PROVE  <<owner[l]>> \o waiters[l] \in Seq(Clients)
  BY <1>1, OwnedLine DEF TypeOK
<1> QED BY <1>1

(***************************************************************************)
(* LockManager implements RequestLine: for any number of locks and clients *)
(* and any history, each lock serves its requests in the order made.       *)
(***************************************************************************)
THEOREM ManagerServesInOrder ==
    ASSUME NoOwner \notin Clients
    PROVE  Spec => ServesInOrder
<1> DEFINE line == [l \in Locks |-> IF owner[l] = NoOwner
                                    THEN <<>>
                                    ELSE <<owner[l]>> \o waiters[l]]
<1>1. Init => Line!Init
  BY DEF Init, Line!Init
<1>2. TypeOK /\ TypeOK' /\ NoWaiterOnFreeLock /\ [Next]_lockVars => [Line!Next]_line
  <2> SUFFICES ASSUME TypeOK, NoWaiterOnFreeLock, [Next]_lockVars
               PROVE  Line!Next \/ UNCHANGED line
    OBVIOUS
  <2>0. line \in [Locks -> Seq(Clients)]
    BY LineTyped
  <2> USE DEF TypeOK
  <2>1. ASSUME NEW l \in Locks, NEW p \in Clients, Grant(l, p)
        PROVE  Line!Request(l)
    <3>1. waiters[l] = <<>> /\ line[l] = <<>>
      BY <2>1 DEF Grant, NoWaiterOnFreeLock
    <3>2. <<p>> \o <<>> = Append(<<>>, p)
      OBVIOUS
    <3>3. line' = [line EXCEPT ![l] = Append(@, p)]
      BY <2>1, <3>1, <3>2 DEF Grant
    <3>4. line'[l] # <<>> /\ line'[l][Len(line'[l])] = p
      <4> HIDE DEF line
      <4>1. line[l] \in Seq(Clients) /\ line'[l] = Append(line[l], p)
        BY <2>0, <3>3
      <4> QED BY <4>1, Joins
    <3> QED BY <3>3, <3>4 DEF Line!Request
  <2>2. ASSUME NEW l \in Locks, NEW p \in Clients, Enqueue(l, p)
        PROVE  Line!Request(l)
    <3>1. owner[l] \in Clients /\ waiters[l] \in Seq(Clients)
      BY <2>2 DEF Enqueue
    <3>2. <<owner[l]>> \o Append(waiters[l], p) = Append(<<owner[l]>> \o waiters[l], p)
      BY <3>1, JoinLine
    <3>3. line' = [line EXCEPT ![l] = Append(@, p)]
      BY <2>2, <3>1, <3>2 DEF Enqueue
    <3>4. line'[l] # <<>> /\ line'[l][Len(line'[l])] = p
      <4> HIDE DEF line
      <4>1. line[l] \in Seq(Clients) /\ line'[l] = Append(line[l], p)
        BY <2>0, <3>3
      <4> QED BY <4>1, Joins
    <3> QED BY <3>3, <3>4 DEF Line!Request
  <2>3. ASSUME NEW l \in Locks, owner[l] # NoOwner, Free(l)
        PROVE  Line!Leave(l)
    <3>1. owner[l] \in Clients /\ waiters[l] = <<>>
      BY <2>3 DEF Free
    <3>2. line[l] = <<owner[l]>> \o waiters[l]
      BY <3>1
    <3>3. line[l] # <<>> /\ Tail(line[l]) = <<>>
      BY <3>1, <3>2, OwnedLine
    <3> QED BY <2>3, <3>3 DEF Free, Line!Leave
  <2>4. ASSUME NEW l \in Locks, owner[l] # NoOwner, Promote(l)
        PROVE  Line!Leave(l)
    <3>1. owner[l] \in Clients /\ waiters[l] \in Seq(Clients) /\ waiters[l] # <<>>
      BY <2>4 DEF Promote
    <3>2. line[l] # <<>> /\ Tail(line[l]) = waiters[l]
      BY <3>1, OwnedLine
    <3>3. Head(waiters[l]) # NoOwner /\ <<Head(waiters[l])>> \o Tail(waiters[l]) = waiters[l]
      BY <3>1, HeadThenTail
    <3> QED BY <2>4, <3>2, <3>3 DEF Promote, Line!Leave
  <2>5. CASE Reset
    BY <2>5 DEF Reset, Line!Next, Line!Clear
  <2>6. CASE UNCHANGED lockVars
    BY <2>6 DEF lockVars
  <2> QED BY <2>1, <2>2, <2>3, <2>4, <2>5, <2>6 DEF Next, Line!Next
<1> QED BY <1>1, <1>2, TypeCorrect, FreeLocksHaveNoWaiter, PTL
        DEF Spec, ServesInOrder, Line!Spec

=============================================================================
