---------------------------- MODULE RequestLine -----------------------------
(***************************************************************************)
(* What a lock with FIFO waiting promises.  Requests stand in line; the    *)
(* one at the head has the lock; a release lets exactly the head go.       *)
(***************************************************************************)
EXTENDS Integers, Sequences

CONSTANTS Locks, Clients

VARIABLE line     \* line[l]: the clients in line for l, the owner first

Init == line = [l \in Locks |-> <<>>]

\* A client joins the line: it is the one that stands last in it now.
Request(l) ==
    LET newcomer == line'[l][Len(line'[l])]
    IN  /\ line'[l] # <<>>
        /\ newcomer \in Clients
        /\ line' = [line EXCEPT ![l] = Append(@, newcomer)]

Leave(l) == line[l] # <<>> /\ line' = [line EXCEPT ![l] = Tail(@)]

Clear == line' = [l \in Locks |-> <<>>]

Next ==
    \/ \E l \in Locks : Request(l)
    \/ \E l \in Locks : Leave(l)
    \/ Clear

Spec == Init /\ [][Next]_line

=============================================================================
