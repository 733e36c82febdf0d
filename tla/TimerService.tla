---------------------------- MODULE TimerService ----------------------------
(***************************************************************************)
(* What the timer API promises its callers, without queues and states: a   *)
(* timer has at most one deadline; a call takes effect at one moment       *)
(* between its start and its return; a timer fires only at or after its    *)
(* deadline, and once for each time it is set.                             *)
(***************************************************************************)
EXTENDS Integers

CONSTANTS Timers, Threads, Times, None

VARIABLES
    deadline,   \* the time each timer is set to, or None
    req,        \* the call of each thread that has not taken effect, or None
    now

vars == <<deadline, req, now>>

Requests == [op : {"Set", "Stop", "Destroy"}, timer : Timers, expire : Times]

Init == /\ deadline = [t \in Timers |-> None]
        /\ req = [th \in Threads |-> None]
        /\ now = 0

Request(th) == /\ req[th] = None
               /\ \E r \in Requests : req' = [req EXCEPT ![th] = r]
               /\ UNCHANGED <<deadline, now>>

\* Setting a timer anew first takes its old deadline away.
Cancel(th) == /\ req[th] # None
              /\ req[th].op = "Set"
              /\ deadline' = [deadline EXCEPT ![req[th].timer] = None]
              /\ UNCHANGED <<req, now>>

Apply(th) == /\ req[th] # None
             /\ deadline' = [deadline EXCEPT ![req[th].timer] =
                                IF req[th].op = "Set" THEN req[th].expire ELSE None]
             /\ req' = [req EXCEPT ![th] = None]
             /\ UNCHANGED now

Fire(t) == /\ deadline[t] # None
           /\ deadline[t] <= now
           /\ deadline' = [deadline EXCEPT ![t] = None]
           /\ UNCHANGED <<req, now>>

Tick == now' = now + 1 /\ UNCHANGED <<deadline, req>>

Next == \/ \E th \in Threads : Request(th) \/ Cancel(th) \/ Apply(th)
        \/ \E t \in Timers : Fire(t)
        \/ Tick

Spec == Init /\ [][Next]_vars
=============================================================================
