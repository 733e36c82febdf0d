--------------------------- MODULE RequestService ---------------------------
(***************************************************************************)
(* What VMR3ReqCall promises its callers, without packets, lists and       *)
(* events: the requests of other threads are executed one at a time in the *)
(* order in which they were queued, each once; EMT's own at once; and a    *)
(* call returns after its request was executed.                            *)
(***************************************************************************)
EXTENDS Sequences

CONSTANTS Callers, EMT, Nil

VARIABLES
    queue,     \* the callers whose requests are queued, in order
    running,   \* the caller whose request EMT executes, or Nil
    result     \* "none", "waiting" or "done": how far the call of a thread is

vars == <<queue, running, result>>

Init == /\ queue = <<>>
        /\ running = Nil
        /\ result = [th \in Callers \union {EMT} |-> "none"]

Submit(th) == /\ result[th] = "none"
              /\ queue' = Append(queue, th)
              /\ result' = [result EXCEPT ![th] = "waiting"]
              /\ UNCHANGED running

Start == /\ running = Nil /\ queue # <<>>
         /\ running' = Head(queue)
         /\ queue' = Tail(queue)
         /\ UNCHANGED result

StartOwn == /\ running = Nil /\ result[EMT] = "none"
            /\ running' = EMT
            /\ result' = [result EXCEPT ![EMT] = "waiting"]
            /\ UNCHANGED queue

Finish == /\ running # Nil
          /\ running' = Nil
          /\ result' = [result EXCEPT ![running] = "done"]
          /\ UNCHANGED queue

Return(th) == /\ result[th] = "done"
              /\ result' = [result EXCEPT ![th] = "none"]
              /\ UNCHANGED <<queue, running>>

Next == \/ \E th \in Callers : Submit(th) \/ Return(th)
        \/ Start \/ StartOwn \/ Finish \/ Return(EMT)

Spec == Init /\ [][Next]_vars
=============================================================================
