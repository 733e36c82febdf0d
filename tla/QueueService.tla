---------------------------- MODULE QueueService ----------------------------
(***************************************************************************)
(* What the queues of PDM promise: the items that one thread inserts into  *)
(* a queue reach the consumer of the queue in the order of the insertions, *)
(* each once, and leave the queue only when the consumer takes them.       *)
(* Nothing is promised about the order of different threads.               *)
(***************************************************************************)
EXTENDS Sequences

CONSTANTS
    Queues, Threads, Items, Nil,
    Losing      \* the queues that do not keep the last sentence

VARIABLES
    line,       \* the items of each thread in each queue, the oldest first
    taken       \* the item that a consumer has taken and that is not yet free again

vars == <<line, taken>>

Init ==
    /\ line = [q \in Queues |-> [th \in Threads |-> <<>>]]
    /\ taken = Nil

Waiting(q) ==
    UNION {{line[q][th][k] : k \in DOMAIN line[q][th]} : th \in Threads}

Insert(q, th, item) ==
    /\ item \notin Waiting(q)
    /\ line' = [line EXCEPT ![q][th] = Append(@, item)]
    /\ UNCHANGED taken

\* The item leaves the queue.
Leave(q, th) ==
    /\ line[q][th] # <<>>
    /\ line' = [line EXCEPT ![q][th] = Tail(@)]

\* The consumer is given an item and takes it.
Serve(q, th) ==
    /\ taken = Nil
    /\ Leave(q, th)
    /\ taken' = Head(line[q][th])

Release ==
    /\ taken' = Nil
    /\ UNCHANGED line

\* The consumer is given an item and refuses it, and the item is gone all the same:
\* pdmqueue.h:54 says that it will not be removed.
Lose(q, th) ==
    /\ q \in Losing
    /\ Leave(q, th)
    /\ UNCHANGED taken

Next ==
    \/ \E q \in Queues, th \in Threads :
          Serve(q, th) \/ Lose(q, th) \/ \E item \in Items : Insert(q, th, item)
    \/ Release

Spec == Init /\ [][Next]_vars
=============================================================================
