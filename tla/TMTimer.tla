------------------------------ MODULE TMTimer ------------------------------
(***************************************************************************)
(* One timer queue of the VMM time manager (VMM/VMMAll/TMAll.cpp and       *)
(* VMM/TM.cpp).                                                            *)
(*                                                                         *)
(* Any thread may set, stop or destroy a timer.  It changes the state of   *)
(* the timer with a compare-and-swap and pushes the timer on a lock-free   *)
(* LIFO, the schedule list of the queue.  Only the emulation thread, EMT,  *)
(* touches the doubly linked active list: it takes the whole schedule list *)
(* at once, moves each timer of that batch in or out of the active list,   *)
(* and runs the timers that are due.  A thread of its own polls the queue  *)
(* 100 times a second and raises VM_FF_TIMER.                              *)
(*                                                                         *)
(* One action is one access to a variable that other threads access.       *)
(***************************************************************************)
EXTENDS Integers, Sequences, FiniteSets, Functions

CONSTANTS
    Timers,      \* the timers of the queue
    EMT,         \* the emulation thread
    Others,      \* the other threads that call the timer API
    Nil,         \* the null pointer
    EmtOps,      \* the operations EMT calls ...
    OtherOps,    \* ... and those the other threads call
    Serialised,  \* TRUE: there is one call on a timer at a time
    Avoided,     \* the races that the callers avoid
    MaxTime,     \* bound on the clock and on expire times
    MaxCalls,    \* bound on the number of API calls of a behaviour
    MaxRetries   \* cRetries, 1000 in the code

Ops == {"Set", "Stop", "Destroy"}
Threads == Others \union {EMT}

\* Races of serialised calls with EMT, which nothing in the code or its
\* comments rules out and which a run leaves out by naming them in Avoided:
\* "Overtake", a call changes a timer between EMT's reading of its state
\* (TMAll.cpp:1031) and EMT's storing of the new one over it (:1060, :1088);
\* "DestroyStopped", a timer is destroyed that was stopped before EMT had
\* scheduled it, which EMT then unlinks from a list it is not on.
Races == {"Overtake", "DestroyStopped"}

ASSUME ThreadAssumption == EMT \notin Others /\ Nil \notin Timers
ASSUME OpsAssumption == EmtOps \subseteq Ops /\ OtherOps \subseteq Ops
ASSUME BoundAssumption ==
    /\ MaxTime \in Nat /\ MaxCalls \in Nat /\ MaxRetries \in Nat
    /\ Serialised \in BOOLEAN /\ Avoided \subseteq Races

\* TMTIMERSTATE: the states a timer has while it waits for EMT ...
Pending == {"PENDING_STOP", "PENDING_STOP_SCHEDULE",
            "PENDING_SCHEDULE_SET_EXPIRE", "PENDING_SCHEDULE",
            "PENDING_RESCHEDULE_SET_EXPIRE", "PENDING_RESCHEDULE",
            "PENDING_STOP_DESTROY", "PENDING_DESTROY"}
\* ... and those in which nothing is left to do.
Settled == {"STOPPED", "ACTIVE", "EXPIRED", "FREE"}
States == Pending \union Settled
SettingExpire == {"PENDING_SCHEDULE_SET_EXPIRE", "PENDING_RESCHEDULE_SET_EXPIRE"}

Infinity == MaxTime + 1               \* INT64_MAX, the expire time of no timer
Times == 0 .. MaxTime
Requests == [op : Ops, timer : Timers, expire : Times]
ASSUME NilAssumption == Nil \notin Times \union Requests
NoCall == [op |-> "none", timer |-> Nil, expire |-> 0, seen |-> "FREE", tries |-> 0]

VARIABLES
    state, expire,   \* enmState and u64Expire of each timer
    next, prev,      \* offNext and offPrev of each timer
    head, qExpire,   \* offActive and u64Expire of the queue
    sched,           \* the list from offSchedule on, latest link first
    ff,              \* VM_FF_TIMER
    now,             \* the clock of the queue
    handles,         \* the timers some owner may still use
    pc, call,        \* where each thread is, and the API call it is making
    calls,           \* API calls made so far
    batch, cur,      \* EMT: what is left of the batch, and the timer at hand
    curState,        \* EMT: the state it read of that timer
    walk, key,       \* EMT: pCur and u64Expire of the insertion loop
    phase,           \* EMT: where TMR3TimerQueuesDo is
    firing, runNext, runNow  \* EMT: tmR3TimerQueueRun's pTimer, pNext, u64Now

timerVars == <<state, expire>>
listVars  == <<next, prev, head, qExpire>>
emtVars   == <<batch, cur, curState, walk, key>>
runVars   == <<phase, firing, runNext, runNow>>
callVars  == <<pc, call>>
envVars   == <<now, handles, calls>>
vars == <<timerVars, listVars, sched, ff, callVars, envVars, emtVars, runVars>>

Goto(th, label) == pc' = [pc EXCEPT ![th] = label]

\* The call of th is over.
Return(th) ==
    /\ Goto(th, "ready")
    /\ call' = [call EXCEPT ![th] = NoCall]

----------------------------------------------------------------------------
(* Callers *)

Init ==
    /\ state = [t \in Timers |-> "STOPPED"]
    /\ expire = [t \in Timers |-> 0]
    /\ next = [t \in Timers |-> Nil]
    /\ prev = [t \in Timers |-> Nil]
    /\ head = Nil
    /\ qExpire = Infinity
    /\ sched = <<>>
    /\ ff = FALSE
    /\ now = 0
    /\ handles = Timers
    /\ pc = [th \in Threads |-> "ready"]
    /\ call = [th \in Threads |-> NoCall]
    /\ calls = 0
    /\ batch = <<>> /\ cur = Nil /\ curState = "FREE" /\ walk = Nil /\ key = 0
    /\ phase = "none" /\ firing = Nil /\ runNext = Nil /\ runNow = 0

InCall(t) == \E th \in Threads : call[th].timer = t

\* What the owner of a timer must respect.  Nobody uses a timer that is being
\* destroyed.  With Serialised the calls on one timer come one after the other
\* (by the lock of its device); EMT may be anywhere with the calls before.
MayCall(th, o, t) ==
    /\ t \in handles
    /\ o \in IF th = EMT THEN EmtOps ELSE OtherOps
    /\ o = "Destroy" \/ Serialised => ~InCall(t)
    /\ o = "Destroy" /\ state[t] = "PENDING_STOP_SCHEDULE" => "DestroyStopped" \notin Avoided

\* EMT calls from the code it emulates or from a timer callback.
Begin(th, o, t, e) ==
    /\ pc[th] = "ready"
    /\ calls < MaxCalls
    /\ MayCall(th, o, t)
    /\ calls' = calls + 1
    /\ handles' = IF o = "Destroy" THEN handles \ {t} ELSE handles
    /\ call' = [call EXCEPT ![th] = [NoCall EXCEPT !.op = o, !.timer = t, !.expire = e]]
    /\ Goto(th, "read")
    /\ UNCHANGED <<timerVars, listVars, sched, ff, now, emtVars, runVars>>

----------------------------------------------------------------------------
(* TMTimerSet, TMTimerStop, TMTimerDestroy: one turn of the retry loop *)

\* The states from which op has nothing to do or refuses.
Final(th, op, s) ==
    CASE op = "Set"     -> s \in {"PENDING_DESTROY", "PENDING_STOP_DESTROY", "FREE"}
      [] op = "Stop"    -> s \in {"EXPIRED", "STOPPED", "PENDING_STOP", "PENDING_STOP_SCHEDULE",
                                  "PENDING_DESTROY", "PENDING_STOP_DESTROY", "FREE"}
      [] op = "Destroy" -> \/ s \in {"PENDING_DESTROY", "PENDING_STOP_DESTROY", "FREE"}
                           \/ s = "EXPIRED" /\ th # EMT

\* The state the compare-and-swap of each operation puts in place of s.
\* Mutant: TMTimerSet takes a timer that is being stopped for one off the list.
SetTarget_StopIsOff(s) ==
    IF s \in {"EXPIRED", "STOPPED", "PENDING_SCHEDULE", "PENDING_STOP_SCHEDULE", "PENDING_STOP"}
    THEN "PENDING_SCHEDULE_SET_EXPIRE" ELSE "PENDING_RESCHEDULE_SET_EXPIRE"
SetTarget(s) ==
    IF s \in {"EXPIRED", "STOPPED", "PENDING_SCHEDULE", "PENDING_STOP_SCHEDULE"}
    THEN "PENDING_SCHEDULE_SET_EXPIRE" ELSE "PENDING_RESCHEDULE_SET_EXPIRE"

StopTarget(s) == IF s = "PENDING_SCHEDULE" THEN "PENDING_STOP_SCHEDULE" ELSE "PENDING_STOP"

DestroyTarget(s) ==
    IF s \in {"EXPIRED", "STOPPED", "PENDING_SCHEDULE"}
    THEN "PENDING_DESTROY" ELSE "PENDING_STOP_DESTROY"

Target(op, s) ==
    IF op = "Set" THEN SetTarget(s) ELSE IF op = "Stop" THEN StopTarget(s) ELSE DestroyTarget(s)

\* tmTimerTryWithLink or tmTimerTry: a timer that is not pending has to be linked.
\* Mutant: every operation links.
NeedsLink_Always(s) == TRUE
NeedsLink(s) == s \in Settled

\* The turn failed: another, unless cRetries has run out.
\* Mutant: the retries are not counted.
Retry_Unbounded(th) ==
    /\ Goto(th, "read")
    /\ call' = [call EXCEPT ![th].tries = @ + 1]
Retry(th) ==
    IF call[th].tries < MaxRetries
    THEN /\ Goto(th, "read")
         /\ call' = [call EXCEPT ![th].tries = @ + 1]
    ELSE Return(th)

\* The switch on the state of the timer.
Read(th) ==
    LET s == state[call[th].timer] IN
    /\ pc[th] = "read"
    /\ \/ /\ Final(th, call[th].op, s)
          /\ Return(th)
       \/ /\ s \in SettingExpire
          /\ Retry(th)
       \/ /\ ~Final(th, call[th].op, s) /\ s \notin SettingExpire
          /\ call' = [call EXCEPT ![th].seen = s]
          /\ Goto(th, "try")
    /\ UNCHANGED <<timerVars, listVars, sched, ff, envVars, emtVars, runVars>>

\* EMT is about to overwrite the state of t.
Overtakes(t) == pc[EMT] = "one" /\ cur = t /\ curState \notin SettingExpire

\* tmTimerTry: the compare-and-swap.  A timer that was not pending is linked next.
Try(th) ==
    LET t == call[th].timer
        s == call[th].seen
        o == call[th].op IN
    /\ pc[th] = "try"
    /\ \/ /\ state[t] = s
          /\ Overtakes(t) => "Overtake" \notin Avoided
          /\ state' = [state EXCEPT ![t] = Target(o, s)]
          /\ Goto(th, IF NeedsLink(s) THEN "link" ELSE IF o = "Set" THEN "write" ELSE "schedule")
          /\ UNCHANGED call
       \/ /\ state[t] # s
          /\ UNCHANGED state
          /\ IF o = "Stop" /\ s = "PENDING_SCHEDULE"
             THEN Goto(th, "fall") /\ UNCHANGED call
             ELSE Retry(th)
    /\ UNCHANGED <<expire, listVars, sched, ff, envVars, emtVars, runVars>>

\* TMTimerStop has no break after the case of PENDING_SCHEDULE: when its
\* compare-and-swap fails, that of PENDING_RESCHEDULE is tried, still with
\* PENDING_SCHEDULE as the state expected.
StopFallThrough(th) ==
    LET t == call[th].timer IN
    /\ pc[th] = "fall"
    /\ \/ /\ state[t] = call[th].seen
          /\ Overtakes(t) => "Overtake" \notin Avoided
          /\ state' = [state EXCEPT ![t] = "PENDING_STOP"]
          /\ Goto(th, "schedule")
          /\ UNCHANGED call
       \/ /\ state[t] # call[th].seen
          /\ Retry(th)
          /\ UNCHANGED state
    /\ UNCHANGED <<expire, listVars, sched, ff, envVars, emtVars, runVars>>

\* tmTimerLink.
Link(th) ==
    /\ pc[th] = "link"
    /\ sched' = <<call[th].timer>> \o sched
    /\ Goto(th, IF call[th].op = "Set" THEN "write" ELSE "schedule")
    /\ UNCHANGED <<timerVars, listVars, ff, call, envVars, emtVars, runVars>>

WriteExpire(th) ==
    /\ pc[th] = "write"
    /\ expire' = [expire EXCEPT ![call[th].timer] = call[th].expire]
    /\ Goto(th, "arm")
    /\ UNCHANGED <<state, listVars, sched, ff, call, envVars, emtVars, runVars>>

\* TM_SET_STATE after the expire time is in place.
Arm(th) ==
    /\ pc[th] = "arm"
    /\ state' = [state EXCEPT ![call[th].timer] =
                    IF SetTarget(call[th].seen) = "PENDING_SCHEDULE_SET_EXPIRE"
                    THEN "PENDING_SCHEDULE" ELSE "PENDING_RESCHEDULE"]
    /\ Goto(th, "schedule")
    /\ UNCHANGED <<expire, listVars, sched, ff, call, envVars, emtVars, runVars>>

\* tmSchedule: EMT schedules the queue itself, another thread raises VM_FF_TIMER.
Schedule(th) ==
    /\ pc[th] = "schedule"
    /\ call' = [call EXCEPT ![th] = NoCall]
    /\ IF th = EMT
       THEN Goto(th, "xchg") /\ UNCHANGED ff
       ELSE Goto(th, "ready") /\ ff' = TRUE
    /\ UNCHANGED <<timerVars, listVars, sched, envVars, emtVars, runVars>>

----------------------------------------------------------------------------
(* EMT: tmTimerQueueSchedule *)

\* What follows when b is left of the batch.
\* Mutant: the last timer of the batch is left.
AfterBatch_Early(b) ==
    IF Len(b) > 1 THEN "pick" ELSE IF phase \in {"schedule", "reset"} THEN "run" ELSE "ready"
AfterBatch(b) ==
    IF b # <<>> THEN "pick" ELSE IF phase \in {"schedule", "reset"} THEN "run" ELSE "ready"

\* The whole schedule list is taken at once.
TakeSchedule ==
    /\ pc[EMT] = "xchg"
    /\ batch' = sched
    /\ sched' = <<>>
    /\ Goto(EMT, AfterBatch(sched))
    /\ UNCHANGED <<timerVars, listVars, ff, call, envVars, cur, curState, walk, key, runVars>>

\* The head of the batch is unlinked from it and its state is read, once.
Pick ==
    /\ pc[EMT] = "pick"
    /\ cur' = Head(batch)
    /\ batch' = Tail(batch)
    /\ curState' = state[Head(batch)]
    /\ Goto(EMT, "one")
    /\ UNCHANGED <<timerVars, listVars, sched, ff, call, envVars, walk, key, runVars>>

\* The unlinking of t from the active list.
\* Mutant: the links of t itself stay.
Unlink_KeepsLinks(t) ==
    LET p == prev[t]
        n == next[t] IN
    /\ next' = [u \in Timers |-> IF u = p THEN n ELSE next[u]]
    /\ prev' = [u \in Timers |-> IF u = n THEN p ELSE prev[u]]
    /\ IF p = Nil
       THEN head' = n /\ qExpire' = IF n = Nil THEN Infinity ELSE expire[n]
       ELSE UNCHANGED <<head, qExpire>>
\* Mutant: the expire time of the queue stays while there is another timer.
Unlink_KeepsExpire(t) ==
    LET p == prev[t]
        n == next[t] IN
    /\ next' = [u \in Timers |-> IF u = t THEN Nil ELSE IF u = p THEN n ELSE next[u]]
    /\ prev' = [u \in Timers |-> IF u = t THEN Nil ELSE IF u = n THEN p ELSE prev[u]]
    /\ IF p = Nil
       THEN head' = n /\ qExpire' = IF n = Nil THEN Infinity ELSE qExpire
       ELSE UNCHANGED <<head, qExpire>>
Unlink(t) ==
    LET p == prev[t]
        n == next[t] IN
    /\ next' = [u \in Timers |-> IF u = t THEN Nil ELSE IF u = p THEN n ELSE next[u]]
    /\ prev' = [u \in Timers |-> IF u = t THEN Nil ELSE IF u = n THEN p ELSE prev[u]]
    /\ IF p = Nil
       THEN head' = n /\ qExpire' = IF n = Nil THEN Infinity ELSE expire[n]
       ELSE UNCHANGED <<head, qExpire>>

\* The timer at hand is dealt with.
BatchStep ==
    /\ cur' = Nil
    /\ curState' = "FREE"
    /\ Goto(EMT, AfterBatch(batch))

\* tmTimerQueueScheduleOne, up to the insertion: s is the state Pick read, and
\* the new state is stored whatever it is by now.  A settled state is a failed
\* assertion of the code, and never met (LinkedOnce).
ScheduleOne ==
    LET s == curState IN
    /\ pc[EMT] = "one"
    /\ IF s \in {"PENDING_RESCHEDULE", "PENDING_STOP", "PENDING_STOP_DESTROY"}
       THEN Unlink(cur) ELSE UNCHANGED listVars
    /\ \/ /\ s \in {"PENDING_RESCHEDULE", "PENDING_SCHEDULE"}
          /\ state' = [state EXCEPT ![cur] = "ACTIVE"]
          /\ Goto(EMT, "load")
          /\ UNCHANGED <<sched, cur, curState>>
       \/ /\ s \in {"PENDING_STOP", "PENDING_STOP_SCHEDULE"}
          /\ state' = [state EXCEPT ![cur] = "STOPPED"]
          /\ BatchStep /\ UNCHANGED sched
       \/ /\ s \in {"PENDING_STOP_DESTROY", "PENDING_DESTROY"}
          /\ state' = [state EXCEPT ![cur] = "FREE"]
          /\ BatchStep /\ UNCHANGED sched
       \/ /\ s \in SettingExpire               \* postponed
          /\ sched' = <<cur>> \o sched
          /\ BatchStep /\ UNCHANGED state
    /\ UNCHANGED <<expire, ff, call, envVars, batch, walk, key, runVars>>

\* The insertion: the list is empty, or the loop starts at its head.
LoadKey ==
    /\ pc[EMT] = "load"
    /\ IF head = Nil
       THEN /\ head' = cur
            /\ qExpire' = expire[cur]
            /\ BatchStep
            /\ UNCHANGED <<walk, key>>
       ELSE /\ walk' = head
            /\ key' = expire[cur]
            /\ Goto(EMT, "walk")
            /\ UNCHANGED <<head, qExpire, cur, curState>>
    /\ UNCHANGED <<timerVars, next, prev, sched, ff, call, envVars, batch, runVars>>

\* pCur->u64Expire > u64Expire.  Mutant: the comparison is reversed.
InsertHere_Reversed == expire[walk] < key
InsertHere == expire[walk] > key

\* One turn of the insertion loop: before walk, after it, or on to the next.
WalkStep ==
    LET p == prev[walk] IN
    /\ pc[EMT] = "walk"
    /\ \/ /\ InsertHere
          /\ next' = [u \in Timers |-> IF u = p THEN cur ELSE IF u = cur THEN walk ELSE next[u]]
          /\ prev' = [u \in Timers |-> IF u = walk THEN cur ELSE IF u = cur THEN p ELSE prev[u]]
          /\ IF p = Nil
             THEN head' = cur /\ qExpire' = key
             ELSE UNCHANGED <<head, qExpire>>
          /\ walk' = Nil /\ key' = 0
          /\ BatchStep
       \/ /\ ~InsertHere /\ next[walk] = Nil
          /\ next' = [next EXCEPT ![walk] = cur]
          /\ prev' = [prev EXCEPT ![cur] = walk]
          /\ walk' = Nil /\ key' = 0
          /\ BatchStep
          /\ UNCHANGED <<head, qExpire>>
       \/ /\ ~InsertHere /\ next[walk] # Nil
          /\ walk' = next[walk]
          /\ UNCHANGED <<pc, listVars, cur, curState, key>>
    /\ UNCHANGED <<timerVars, sched, ff, call, envVars, batch, runVars>>

----------------------------------------------------------------------------
(* EMT: TMR3TimerQueuesDo, tmR3TimerQueueRun, tmr3TimerCreate *)

QueuesDo ==
    /\ pc[EMT] = "ready" /\ phase = "none" /\ ff
    /\ phase' = "schedule"
    /\ Goto(EMT, "xchg")
    /\ UNCHANGED <<timerVars, listVars, sched, ff, call, envVars, emtVars,
                   firing, runNext, runNow>>

\* The clock is read once for the whole run.
RunStart ==
    /\ pc[EMT] = "run" /\ phase = "schedule"
    /\ phase' = "run"
    /\ runNext' = head
    /\ runNow' = now
    /\ UNCHANGED <<timerVars, listVars, sched, ff, callVars, envVars, emtVars, firing>>

DueNext == runNext # Nil /\ expire[runNext] <= runNow

\* The next timer is due: if it is ACTIVE it is unlinked and its callback starts.
RunOne ==
    /\ pc[EMT] = "run" /\ phase = "run" /\ DueNext
    /\ runNext' = next[runNext]
    /\ IF state[runNext] = "ACTIVE"
       THEN /\ state' = [state EXCEPT ![runNext] = "EXPIRED"]
            /\ Unlink(runNext)
            /\ firing' = runNext
            /\ Goto(EMT, "ready")
       ELSE UNCHANGED <<state, listVars, firing, pc>>
    /\ UNCHANGED <<expire, sched, ff, call, envVars, emtVars, phase, runNow>>

\* The state after the callback: STOPPED, unless it was changed meanwhile.
\* Mutant: it is stored whatever happened.
AfterCallback_Always(t) == "STOPPED"
AfterCallback(t) == IF state[t] = "EXPIRED" THEN "STOPPED" ELSE state[t]

CallbackReturn ==
    /\ pc[EMT] = "ready" /\ firing # Nil
    /\ state' = [state EXCEPT ![firing] = AfterCallback(firing)]
    /\ firing' = Nil
    /\ Goto(EMT, "run")
    /\ UNCHANGED <<expire, listVars, sched, ff, call, envVars, emtVars, phase, runNext, runNow>>

\* The end of the run: VM_FF_TIMER is cleared.
RunEnd ==
    /\ pc[EMT] = "run" /\ phase = "run" /\ ~DueNext
    /\ ff' = FALSE
    /\ phase' = "none" /\ runNext' = Nil /\ runNow' = 0
    /\ Goto(EMT, "ready")
    /\ UNCHANGED <<timerVars, listVars, sched, call, envVars, emtVars, firing>>

\* TMR3Reset: the queue is scheduled and VM_FF_TIMER cleared, nothing is run.
Reset ==
    /\ pc[EMT] = "ready" /\ phase = "none" /\ calls < MaxCalls
    /\ calls' = calls + 1
    /\ phase' = "reset"
    /\ Goto(EMT, "xchg")
    /\ UNCHANGED <<timerVars, listVars, sched, ff, call, now, handles, emtVars,
                   firing, runNext, runNow>>

ResetEnd ==
    /\ pc[EMT] = "run" /\ phase = "reset"
    /\ ff' = FALSE
    /\ phase' = "none"
    /\ Goto(EMT, "ready")
    /\ UNCHANGED <<timerVars, listVars, sched, call, envVars, emtVars, firing, runNext, runNow>>

\* A timer is created in a freed block.
Create(t) ==
    /\ pc[EMT] = "ready" /\ phase = "none"
    /\ state[t] = "FREE" /\ t \notin handles
    /\ calls < MaxCalls
    /\ state' = [state EXCEPT ![t] = "STOPPED"]
    /\ expire' = [expire EXCEPT ![t] = 0]
    /\ next' = [next EXCEPT ![t] = Nil]
    /\ prev' = [prev EXCEPT ![t] = Nil]
    /\ handles' = handles \union {t}
    /\ UNCHANGED <<head, qExpire, sched, ff, callVars, now, calls, emtVars, runVars>>

----------------------------------------------------------------------------
(* The timer thread and the clock *)

\* tmR3AnyExpiredTimers, or a schedule list that is not empty.
\* Mutant: the schedule list is not looked at.
PollDue_ExpireOnly == qExpire <= now
PollDue == sched # <<>> \/ qExpire <= now

\* tmR3TimerCallback.
Poll ==
    /\ ~ff /\ PollDue
    /\ ff' = TRUE
    /\ UNCHANGED <<timerVars, listVars, sched, callVars, envVars, emtVars, runVars>>

Tick ==
    /\ now < MaxTime
    /\ now' = now + 1
    /\ UNCHANGED <<timerVars, listVars, sched, ff, callVars, handles, calls, emtVars, runVars>>

----------------------------------------------------------------------------
BeginSome(th) == \E o \in Ops, t \in Timers, e \in Times :
                    (o # "Set" => e = 0) /\ Begin(th, o, t, e)

\* The steps of a call, and those of EMT once it works on the queue.
CallStep(th) == \/ Read(th) \/ Try(th) \/ StopFallThrough(th) \/ Link(th)
                \/ WriteExpire(th) \/ Arm(th) \/ Schedule(th)

EmtStep == \/ TakeSchedule \/ Pick \/ ScheduleOne \/ LoadKey \/ WalkStep
           \/ QueuesDo \/ RunStart \/ RunOne \/ CallbackReturn \/ RunEnd
           \/ ResetEnd

Next == \/ \E th \in Threads : BeginSome(th) \/ CallStep(th)
        \/ EmtStep \/ Reset
        \/ \E t \in Timers : Create(t)
        \/ Poll
        \/ Tick

Spec == Init /\ [][Next]_vars

\* Threads in a call run on, EMT serves the forced action, the 100 Hz timer
\* keeps polling and time passes.  Nobody has to make another call.
Fairness == /\ \A th \in Threads : WF_vars(CallStep(th))
            /\ WF_vars(EmtStep)
            /\ WF_vars(Poll)
            /\ WF_vars(Tick)

FairSpec == Spec /\ Fairness

----------------------------------------------------------------------------
(* What is promised *)

Labels == {"ready", "read", "try", "fall", "link", "write", "arm", "schedule"}
EmtLabels == {"xchg", "pick", "one", "load", "walk", "run"}
Calls == [op : Ops \union {"none"}, timer : Timers \union {Nil}, expire : Times,
          seen : States, tries : 0 .. MaxRetries]

\* Every variable has its type: the states are those of TMTIMERSTATE, and the
\* offsets and list heads are timers of the queue or null.
TypeOK ==
    /\ state \in [Timers -> States]
    /\ expire \in [Timers -> Times]
    /\ next \in [Timers -> Timers \union {Nil}]
    /\ prev \in [Timers -> Timers \union {Nil}]
    /\ head \in Timers \union {Nil}
    /\ qExpire \in 0 .. Infinity
    /\ sched \in Seq(Timers) /\ batch \in Seq(Timers)
    /\ ff \in BOOLEAN
    /\ now \in Times /\ runNow \in Times /\ key \in Times
    /\ handles \subseteq Timers
    /\ pc \in [Threads -> Labels \union EmtLabels]
    /\ \A th \in Others : pc[th] \in Labels
    /\ call \in [Threads -> Calls]
    /\ calls \in 0 .. MaxCalls
    /\ {cur, walk, firing, runNext} \subseteq Timers \union {Nil}
    /\ curState \in States
    /\ phase \in {"none", "schedule", "run", "reset"}

\* Thread th has won the compare-and-swap and is about to link t.
Linking(th, t) == pc[th] = "link" /\ call[th].timer = t

\* What EMT still has to schedule of t: it is on the schedule list, in the
\* batch, or picked from it and not dealt with.
Listed(t) == t \in Range(sched) \union Range(batch)
Picked(t) == pc[EMT] = "one" /\ cur = t

\* A timer is linked on the schedule list once, whoever races whom: the list
\* and the batch hold no timer twice nor both, nobody links a timer they hold,
\* only one thread links it, and what is linked is pending, so tmTimerLink's
\* Assert(!pTimer->offScheduleNext) and tmTimerQueueScheduleOne's "Timer in the
\* scheduling list has an invalid state" never fail.
LinkedOnce ==
    /\ IsInjective(sched) /\ IsInjective(batch)
    /\ Range(sched) \cap Range(batch) = {}
    /\ \A t \in Timers : Listed(t) =>
          /\ state[t] \in Pending
          /\ ~Picked(t)
    /\ \A t \in Timers, th \in Threads : Linking(th, t) =>
          /\ state[t] \in Pending
          /\ ~Listed(t) /\ ~Picked(t)
          /\ \A other \in Threads : Linking(other, t) => other = th

\* A pending timer is never forgotten: EMT will find it, or its thread is
\* about to link it.  (A timer left pending and unlinked would never fire, and
\* no later TMTimerSet would link it.)
PendingFound ==
    \A t \in Timers : state[t] \in Pending =>
        Listed(t) \/ Picked(t) \/ \E th \in Threads : Linking(th, t)

\* The active list: what the next links lead to from head on.
FromHead(S) == head # Nil => head \in S
Followed(S) == \A t \in S : next[t] # Nil => next[t] \in S
Active == {t \in Timers : \A S \in SUBSET Timers : FromHead(S) /\ Followed(S) => t \in S}

Inserting(t) == pc[EMT] \in {"load", "walk"} /\ cur = t

OnListStates == {"ACTIVE", "PENDING_STOP", "PENDING_STOP_DESTROY",
                 "PENDING_RESCHEDULE", "PENDING_RESCHEDULE_SET_EXPIRE"}

\* tmTimerQueuesSanityChecks, the back links: the active list is doubly linked
\* and every timer with a link is on it.
ActiveLinked ==
    /\ head # Nil => prev[head] = Nil
    /\ \A t \in Active : next[t] # Nil => prev[next[t]] = t
    /\ \A t \in Timers \ Active : next[t] = Nil /\ prev[t] = Nil

\* tmTimerQueuesSanityChecks, the states: the active list holds exactly the
\* timers whose state says so, but for the one EMT is inserting.  A timer that
\* drops off the list never fires; one that stays on it is used after it is freed.
ActiveByState ==
    \A t \in Timers : t \in Active <=> state[t] \in OnListStates /\ ~Inserting(t)

\* Where EMT may run tmTimerQueuesSanityChecks: at the end of tmSchedule or
\* TMR3TimerQueuesDo.
AtSanityCheck == pc[EMT] = "ready"

\* "check that active timers all are in the active lists".
ActiveTimersListed ==
    AtSanityCheck => \A t \in Timers : state[t] = "ACTIVE" => t \in Active

\* "u64Expire: Time of the first timer in the active list", what the pollers
\* look at: whenever the first timer is ACTIVE, a poll notices it in time.
HeadCached ==
    /\ head = Nil => qExpire = Infinity
    /\ head # Nil /\ state[head] = "ACTIVE" => qExpire = expire[head]

\* "When no scheduling is pending, this list is will be ordered by expire time
\* (ascending)" (TMInternal.h, offActive).
Sorted ==
    (\A t \in Timers : state[t] \in Settled /\ ~Inserting(t)) =>
        \A t \in Active : next[t] # Nil => expire[t] <= expire[next[t]]

\* The calls that have not taken effect yet: a set takes effect when the timer
\* is armed, a stop or a destruction with its compare-and-swap.
Unapplied(th) == \/ pc[th] \in {"read", "try", "fall"}
                 \/ pc[th] \in {"link", "write", "arm"} /\ call[th].op = "Set"

Armed(t) == state[t] \in {"PENDING_SCHEDULE", "PENDING_RESCHEDULE", "ACTIVE"}

Service == INSTANCE TimerService WITH
    None <- Nil,
    deadline <- [t \in Timers |-> IF Armed(t) THEN expire[t] ELSE Nil],
    req <- [th \in Threads |->
               IF Unapplied(th)
               THEN [op |-> call[th].op, timer |-> call[th].timer, expire |-> call[th].expire]
               ELSE Nil]

\* The queue implements the service: no set is lost, a timer that was stopped
\* or destroyed does not fire, none fires early or twice, whatever EMT was
\* doing when the call came, but for the two races above: a stop that overtakes
\* EMT is lost, and a destroyed timer that was stopped unlinks another.
ServiceSpec == Service!Spec

\* A timer that is armed is in time settled: it fires, or is stopped or set anew.
ArmedFires == \A t \in Timers : Armed(t) ~> ~Armed(t)
=============================================================================
