------------------------------- MODULE VMReq -------------------------------
(***************************************************************************)
(* Requests to the emulation thread (VMM/VMReq.cpp) and the loop in which  *)
(* EMT of a suspended VM serves them and waits for more (VMM/VMEmt.cpp).   *)
(*                                                                         *)
(* A requester takes a packet from the free lists, pushes it on the        *)
(* lock-free LIFO pReqs, raises VM_FF_REQUEST and wakes EMT.  Then it      *)
(* waits on the event semaphore of the packet and frees it, or, with       *)
(* VMREQFLAGS_NO_WAIT, leaves that to EMT.  EMT takes the whole LIFO,      *)
(* reverses it and processes the packets one by one.                       *)
(*                                                                         *)
(* The nine free lists are one set here, and taking a packet or freeing it *)
(* is one action; otherwise an action is one access to what threads share. *)
(***************************************************************************)
EXTENDS Integers, SequencesExt

CONSTANTS
    Packets,      \* the memory blocks packets live in
    Requesters,   \* the threads other than EMT
    EMT, Nil,
    Modes,        \* how the callers wait: see AllModes
    Inline,       \* TRUE: EMT calls too, and processes its requests at once
    PoolMax,      \* packets kept in the free lists, 128 in the code
    MaxCalls,     \* bound on the number of calls of a behaviour ...
    MaxPolls      \* ... and on those with "poll"

\* "wait": RT_INDEFINITE_WAIT.  "poll": cMillies is 0, and on VERR_TIMEOUT an
\* indefinite VMR3ReqWait (VMR3Reset, VMR3Destroy).  "noWait": cMillies is 0 and
\* fFlags has VMREQFLAGS_NO_WAIT.
AllModes == {"wait", "poll", "noWait"}
Threads == Requesters \union {EMT}

ASSUME RequestAssumption == /\ EMT \notin Requesters /\ Nil \notin Packets \union Threads
                            /\ Modes \subseteq AllModes /\ Inline \in BOOLEAN
                            /\ PoolMax \in Nat /\ MaxCalls \in Nat /\ MaxPolls \in Nat

VARIABLES
    state,      \* enmState of each packet; HEAP: not allocated
    noWait,     \* VMREQFLAGS_NO_WAIT in its fFlags
    sem,        \* its EventSem is signalled (an event is reset by the wait)
    semClear,   \* its fEventSemClear
    pool,       \* the packets in apReqFree
    reqs,       \* the list from pReqs on, latest push first
    ff,         \* VM_FF_REQUEST
    fWait, wake,\* EMT is about to block; EventSemWait is signalled
    pc, pkt, mode, \* where each thread is, its packet, how it waits
    batch, cur, \* EMT: the requests it has taken, the one at hand
    calls, polls

pktVars  == <<state, noWait, sem, semClear>>
wakeVars == <<ff, fWait, wake>>
callVars == <<mode, calls, polls>>
emtVars  == <<batch, cur>>
vars == <<pktVars, pool, reqs, wakeVars, pc, pkt, callVars, emtVars>>

Goto(th, label) == pc' = [pc EXCEPT ![th] = label]
Set(f, p, v) == [f EXCEPT ![p] = v]
Idle(th) == IF th = EMT THEN "top" ELSE "idle"

Init ==
    /\ state = [p \in Packets |-> "HEAP"]
    /\ noWait = [p \in Packets |-> FALSE]
    /\ sem = [p \in Packets |-> FALSE]
    /\ semClear = [p \in Packets |-> TRUE]
    /\ pool = {} /\ reqs = <<>>
    /\ ff = FALSE /\ fWait = FALSE /\ wake = FALSE
    /\ pc = [th \in Threads |-> Idle(th)]
    /\ pkt = [th \in Threads |-> Nil]
    /\ mode = [th \in Threads |-> "wait"]
    /\ batch = <<>> /\ cur = Nil
    /\ calls = 0 /\ polls = 0

----------------------------------------------------------------------------
(* The requester: VMR3ReqCallV, VMR3ReqAlloc, VMR3ReqQueue *)

Call(th, m) ==
    /\ pc[th] = Idle(th) /\ calls < MaxCalls
    /\ th = EMT => Inline /\ m = "wait"
    /\ m = "poll" => polls < MaxPolls
    /\ calls' = calls + 1
    /\ polls' = IF m = "poll" THEN polls + 1 ELSE polls
    /\ mode' = Set(mode, th, m)
    /\ Goto(th, "take")
    /\ UNCHANGED <<pktVars, pool, reqs, wakeVars, pkt, emtVars>>

\* A packet from the free lists, or a new one: the walk over the lists misses
\* packets while others walk them.
Take(th, p) ==
    /\ pc[th] = "take"
    /\ pkt' = Set(pkt, th, p)
    /\ \/ /\ p \in pool
          /\ pool' = pool \ {p}
          /\ Goto(th, "prep")
          /\ UNCHANGED pktVars
       \/ /\ state[p] = "HEAP"
          /\ state' = Set(state, p, "ALLOCATED")
          /\ noWait' = Set(noWait, p, FALSE)
          /\ sem' = Set(sem, p, FALSE)
          /\ semClear' = Set(semClear, p, TRUE)
          /\ Goto(th, "fill")
          /\ UNCHANGED pool
    /\ UNCHANGED <<reqs, wakeVars, callVars, emtVars>>

\* A recycled packet: its event is reset if EMT said it may be signalled.
\* Mutant: it is not reset.
MustReset_Never(p) == FALSE
MustReset(p) == ~semClear[p]

Prepare(th) ==
    LET p == pkt[th] IN
    /\ pc[th] = "prep"
    /\ sem' = IF MustReset(p) THEN Set(sem, p, FALSE) ELSE sem
    /\ semClear' = Set(semClear, p, TRUE)
    /\ state' = Set(state, p, "ALLOCATED")
    /\ noWait' = Set(noWait, p, FALSE)
    /\ Goto(th, "fill")
    /\ UNCHANGED <<pool, reqs, wakeVars, pkt, callVars, emtVars>>

\* pVM->NativeThreadEMT == RTThreadNativeSelf().  Mutant: every thread processes its own.
ProcessesOwn_Always(th) == TRUE
ProcessesOwn(th) == th = EMT

\* The flags and the state; EMT goes on to process its own request at once.
Fill(th) ==
    LET p == pkt[th] IN
    /\ pc[th] = "fill"
    /\ noWait' = Set(noWait, p, mode[th] = "noWait")
    /\ state' = Set(state, p, "QUEUED")
    /\ IF ProcessesOwn(th)
       THEN cur' = p /\ Goto(th, "begin")
       ELSE UNCHANGED cur /\ Goto(th, "push")
    /\ UNCHANGED <<sem, semClear, pool, reqs, wakeVars, pkt, callVars, batch>>

Push(th) ==
    /\ pc[th] = "push"
    /\ reqs' = <<pkt[th]>> \o reqs
    /\ Goto(th, "setff")
    /\ UNCHANGED <<pktVars, pool, wakeVars, pkt, callVars, emtVars>>

SetFF(th) ==
    /\ pc[th] = "setff"
    /\ ff' = TRUE
    /\ Goto(th, "notify")
    /\ UNCHANGED <<pktVars, pool, reqs, fWait, wake, pkt, callVars, emtVars>>

\* vmR3DefaultNotifyFF.
Notify(th) ==
    /\ pc[th] = "notify"
    /\ wake' = (wake \/ fWait)
    /\ Goto(th, "flags")
    /\ UNCHANGED <<pktVars, pool, reqs, ff, fWait, pkt, callVars, emtVars>>

\* The call of th is over.
Return(th) == Goto(th, Idle(th)) /\ pkt' = Set(pkt, th, Nil)

\* fFlags is read again, from a packet that may not be the thread's any more.
ReadFlags(th) ==
    /\ pc[th] = "flags"
    /\ IF noWait[pkt[th]]
       THEN Return(th)
       ELSE Goto(th, "enter") /\ UNCHANGED pkt
    /\ UNCHANGED <<pktVars, pool, reqs, wakeVars, callVars, emtVars>>

----------------------------------------------------------------------------
(* VMR3ReqWait and VMR3ReqFree *)

\* VMR3ReqFree: refused unless ALLOCATED or COMPLETED, and to the heap if the
\* free lists are long.
Free(p) ==
    IF state[p] \in {"ALLOCATED", "COMPLETED"}
    THEN IF Cardinality(pool) < PoolMax
         THEN state' = Set(state, p, "FREE") /\ pool' = pool \union {p}
         ELSE state' = Set(state, p, "HEAP") /\ UNCHANGED pool
    ELSE UNCHANGED <<state, pool>>

\* The states that may be waited for; otherwise VMR3ReqCallV frees the packet.
EnterWait(th) ==
    /\ pc[th] = "enter"
    /\ IF state[pkt[th]] \in {"QUEUED", "PROCESSING", "COMPLETED"}
       THEN /\ Goto(th, IF mode[th] = "wait" THEN "wait" ELSE "poll")
            /\ UNCHANGED <<state, pool, pkt>>
       ELSE Free(pkt[th]) /\ Return(th)
    /\ UNCHANGED <<noWait, sem, semClear, reqs, wakeVars, callVars, emtVars>>

\* The indefinite wait ends with a signal ...
Wait(th) ==
    /\ pc[th] = "wait" /\ sem[pkt[th]]
    /\ sem' = Set(sem, pkt[th], FALSE)
    /\ Goto(th, "woken")
    /\ UNCHANGED <<state, noWait, semClear, pool, reqs, wakeVars, pkt, callVars, emtVars>>

\* ... and is taken up again until the request is completed.
\* Mutant: any signal will do.
Done_AnySignal(p) == TRUE
Done(p) == state[p] = "COMPLETED"

Woken(th) ==
    /\ pc[th] = "woken"
    /\ Goto(th, IF Done(pkt[th]) THEN "signalled" ELSE "wait")
    /\ UNCHANGED <<pktVars, pool, reqs, wakeVars, pkt, callVars, emtVars>>

\* The wait succeeded, so the event is clear and the rc VINF_SUCCESS.
Signalled(th) ==
    /\ pc[th] = "signalled"
    /\ semClear' = Set(semClear, pkt[th], TRUE)
    /\ Goto(th, "got")
    /\ UNCHANGED <<state, noWait, sem, pool, reqs, wakeVars, pkt, callVars, emtVars>>

\* cMillies = 0.
Poll(th) ==
    /\ pc[th] = "poll"
    /\ sem' = Set(sem, pkt[th], FALSE)
    /\ Goto(th, IF sem[pkt[th]] THEN "signalled" ELSE "timeout")
    /\ UNCHANGED <<state, noWait, semClear, pool, reqs, wakeVars, pkt, callVars, emtVars>>

\* Without a signal a completed request makes it VINF_SUCCESS all the same.
\* Otherwise it is VERR_TIMEOUT, and the caller waits without a timeout; a
\* caller that did not mean to wait is done.
PollTimeout(th) ==
    /\ pc[th] = "timeout"
    /\ IF state[pkt[th]] = "COMPLETED"
       THEN Goto(th, "got") /\ UNCHANGED pkt
       ELSE IF mode[th] = "poll"
       THEN Goto(th, "wait") /\ UNCHANGED pkt
       ELSE Return(th)
    /\ UNCHANGED <<pktVars, pool, reqs, wakeVars, callVars, emtVars>>

\* The caller has VINF_SUCCESS: it reads iStatus and frees the packet, which
\* with VMREQFLAGS_NO_WAIT it has no pointer to.
FreeOwn(th) ==
    /\ pc[th] = "got"
    /\ IF mode[th] = "noWait" THEN UNCHANGED <<state, pool>> ELSE Free(pkt[th])
    /\ Return(th)
    /\ UNCHANGED <<noWait, sem, semClear, reqs, wakeVars, callVars, emtVars>>

----------------------------------------------------------------------------
(* EMT: VMR3ReqProcess and vmR3ReqProcessOne *)

ClearFF ==
    /\ pc[EMT] = "clear"
    /\ ff' = FALSE
    /\ Goto(EMT, "xchg")
    /\ UNCHANGED <<pktVars, pool, reqs, fWait, wake, pkt, callVars, emtVars>>

\* All requests are taken at once and reversed.  Mutant: they are not reversed.
InOrder_Latest(s) == s
InOrder(s) == Reverse(s)

\* What the exchange leaves on pReqs.  Mutant: the list is read, not exchanged.
Left_Same(s) == s
Left(s) == <<>>

TakeAll ==
    /\ pc[EMT] = "xchg"
    /\ reqs' = Left(reqs)
    /\ IF reqs = <<>>
       THEN Goto(EMT, "top") /\ UNCHANGED emtVars
       ELSE /\ cur' = Head(InOrder(reqs))
            /\ batch' = Tail(InOrder(reqs))
            /\ Goto(EMT, "begin")
    /\ UNCHANGED <<pktVars, pool, wakeVars, pkt, callVars>>

Begin ==
    /\ pc[EMT] = "begin"
    /\ state' = Set(state, cur, "PROCESSING")
    /\ Goto(EMT, "execute")
    /\ UNCHANGED <<noWait, sem, semClear, pool, reqs, wakeVars, pkt, callVars, emtVars>>

\* The function has been called.
Complete ==
    /\ pc[EMT] = "execute"
    /\ state' = Set(state, cur, "COMPLETED")
    /\ Goto(EMT, "completed")
    /\ UNCHANGED <<noWait, sem, semClear, pool, reqs, wakeVars, pkt, callVars, emtVars>>

\* fFlags is read after the state says COMPLETED.
\* Mutant: EMT leaves every packet to its caller.
FreesIt_Never(p) == FALSE
FreesIt(p) == noWait[p]

CheckNoWait ==
    /\ pc[EMT] = "completed"
    /\ Goto(EMT, IF FreesIt(cur) THEN "freeit" ELSE "mark")
    /\ UNCHANGED <<pktVars, pool, reqs, wakeVars, pkt, callVars, emtVars>>

\* On to the next request, to VMR3ReqProcess's loop, or back to EMT's own call.
NextOne ==
    IF pkt[EMT] # Nil
    THEN cur' = Nil /\ Goto(EMT, "got") /\ UNCHANGED batch
    ELSE IF batch = <<>>
    THEN cur' = Nil /\ Goto(EMT, "clear") /\ UNCHANGED batch
    ELSE cur' = Head(batch) /\ batch' = Tail(batch) /\ Goto(EMT, "begin")

FreeForOther ==
    /\ pc[EMT] = "freeit"
    /\ Free(cur)
    /\ NextOne
    /\ UNCHANGED <<noWait, sem, semClear, reqs, wakeVars, pkt, callVars>>

MarkSem ==
    /\ pc[EMT] = "mark"
    /\ semClear' = Set(semClear, cur, FALSE)
    /\ Goto(EMT, "signal")
    /\ UNCHANGED <<state, noWait, sem, pool, reqs, wakeVars, pkt, callVars, emtVars>>

Signal ==
    /\ pc[EMT] = "signal"
    /\ sem' = Set(sem, cur, TRUE)
    /\ NextOne
    /\ UNCHANGED <<state, noWait, semClear, pool, reqs, wakeVars, pkt, callVars>>

----------------------------------------------------------------------------
(* EMT: vmR3EmulationThread, VMR3Wait and vmR3DefaultWait *)

Top ==
    /\ pc[EMT] = "top"
    /\ Goto(EMT, IF reqs # <<>> THEN "clear" ELSE "check")
    /\ UNCHANGED <<pktVars, pool, reqs, wakeVars, pkt, callVars, emtVars>>

WaitCheck ==
    /\ pc[EMT] = "check"
    /\ Goto(EMT, IF ff THEN "top" ELSE "setwait")
    /\ UNCHANGED <<pktVars, pool, reqs, wakeVars, pkt, callVars, emtVars>>

SetWait ==
    /\ pc[EMT] = "setwait"
    /\ fWait' = TRUE
    /\ Goto(EMT, "recheck")
    /\ UNCHANGED <<pktVars, pool, reqs, ff, wake, pkt, callVars, emtVars>>

\* The loop of vmR3DefaultWait.
\* Mutant: the forced actions are not looked at again before EMT blocks.
MustNotBlock_Unchecked == FALSE
MustNotBlock == ff

Recheck ==
    /\ pc[EMT] = "recheck"
    /\ Goto(EMT, IF MustNotBlock THEN "unwait" ELSE "blocked")
    /\ UNCHANGED <<pktVars, pool, reqs, wakeVars, pkt, callVars, emtVars>>

\* RTSemEventWait: woken by the event ...
WakeUp ==
    /\ pc[EMT] = "blocked" /\ wake
    /\ wake' = FALSE
    /\ Goto(EMT, "recheck")
    /\ UNCHANGED <<pktVars, pool, reqs, ff, fWait, pkt, callVars, emtVars>>

\* ... or after a second.
WaitTimeout ==
    /\ pc[EMT] = "blocked" /\ ~wake
    /\ Goto(EMT, "recheck")
    /\ UNCHANGED <<pktVars, pool, reqs, wakeVars, pkt, callVars, emtVars>>

Unwait ==
    /\ pc[EMT] = "unwait"
    /\ fWait' = FALSE
    /\ Goto(EMT, "top")
    /\ UNCHANGED <<pktVars, pool, reqs, ff, wake, pkt, callVars, emtVars>>

----------------------------------------------------------------------------
CallStep(th) ==
    \/ \E p \in Packets : Take(th, p)
    \/ Prepare(th) \/ Fill(th) \/ Push(th) \/ SetFF(th) \/ Notify(th) \/ ReadFlags(th)
    \/ EnterWait(th) \/ Wait(th) \/ Woken(th)
    \/ Signalled(th) \/ Poll(th) \/ PollTimeout(th) \/ FreeOwn(th)

EmtStep == \/ ClearFF \/ TakeAll \/ Begin \/ Complete \/ CheckNoWait
           \/ FreeForOther \/ MarkSem \/ Signal
           \/ Top \/ WaitCheck \/ SetWait \/ Recheck \/ WakeUp \/ Unwait

Next == \/ \E th \in Threads : (\E m \in Modes : Call(th, m)) \/ CallStep(th)
        \/ EmtStep
        \/ WaitTimeout

Spec == Init /\ [][Next]_vars

\* Every thread in a call runs on, and so does EMT.  Nobody has to call, and
\* EMT is woken by the event alone: its timeout need not save a lost wakeup.
FairSpec == /\ Spec
            /\ \A th \in Threads : WF_vars(CallStep(th))
            /\ WF_vars(EmtStep)
----------------------------------------------------------------------------
(* What is promised *)

PacketStates == {"HEAP", "FREE", "ALLOCATED", "QUEUED", "PROCESSING", "COMPLETED"}
Labels == {"idle", "top", "take", "prep", "fill", "push", "setff", "notify", "flags",
           "enter", "wait", "woken", "signalled", "poll", "timeout", "got"}
EmtLabels == {"clear", "xchg", "begin", "execute", "completed", "freeit", "mark", "signal",
              "check", "setwait", "recheck", "blocked", "unwait"}

\* Every variable has its type.
TypeOK ==
    /\ state \in [Packets -> PacketStates]
    /\ {noWait, sem, semClear} \subseteq [Packets -> BOOLEAN]
    /\ pool \subseteq Packets
    /\ reqs \in Seq(Packets) /\ batch \in Seq(Packets)
    /\ {ff, fWait, wake} \subseteq BOOLEAN
    /\ pc \in [Threads -> Labels \union EmtLabels]
    /\ \A th \in Requesters : pc[th] \in Labels
    /\ pkt \in [Threads -> Packets \union {Nil}]
    /\ mode \in [Threads -> AllModes]
    /\ cur \in Packets \union {Nil}
    /\ calls \in 0 .. MaxCalls /\ polls \in 0 .. MaxPolls

\* The threads that still use their packet: NO_WAIT gives it away with the push.
Uses(th, p) == /\ pkt[th] = p
               /\ mode[th] = "noWait" => pc[th] \in {"prep", "fill", "push"}

\* What EMT is working on; a caller that polls may free the packet as soon as
\* it is completed, and EMT still marks and signals it.
AtWork == IF polls = 0 \/ pc[EMT] \in {"begin", "execute"} THEN {cur} ELSE {}

\* A packet is in one place: free, or queued once, or EMT's current one, and no
\* two callers hold it, so nobody writes into the packet of another.
OneHolder ==
    /\ IsInjective(reqs) /\ IsInjective(batch)
    /\ Range(reqs) \cap Range(batch) = {}
    /\ AtWork \cap (Range(reqs) \union Range(batch)) = {}
    /\ \A p \in pool : /\ state[p] = "FREE"
                       /\ p \notin Range(reqs) \union Range(batch) \union AtWork
                       /\ \A th \in Threads : ~Uses(th, p)
    /\ \A p \in Packets : \A t1, t2 \in Threads : Uses(t1, p) /\ Uses(t2, p) => t1 = t2

\* VMR3ReqWait: "VERR_TIMEOUT if cMillies was reached without the packet being
\* completed": the caller that has VINF_SUCCESS has a completed request, and
\* may read its iStatus.
SuccessIsCompletion ==
    \A th \in Threads : pc[th] = "got" /\ mode[th] # "noWait" => state[pkt[th]] = "COMPLETED"

\* The promise as RequestService states it: every request is executed once, in
\* the order of the calls, by EMT, and a caller that waits returns after that.
Owner(p) == CHOOSE th \in Threads : pkt[th] = p

Untaken == (IF pc[EMT] = "begin" /\ pkt[EMT] = Nil THEN <<cur>> ELSE <<>>)
               \o batch \o Reverse(reqs)

Service == INSTANCE RequestService WITH
    Callers <- Requesters,
    queue <- [i \in 1 .. Len(Untaken) |-> Owner(Untaken[i])],
    running <- IF pc[EMT] = "execute" THEN Owner(cur) ELSE Nil,
    result <- [th \in Threads |->
                 IF \/ pc[th] \in {"take", "prep", "fill", "push"} \/ pkt[th] = Nil
                    \/ th = EMT /\ pc[th] = "begin"
                 THEN "none"
                 ELSE IF state[pkt[th]] = "COMPLETED" THEN "done" ELSE "waiting"]

ServiceSpec == Service!Spec

\* Every call of a requester returns, however its push, its forced action and
\* its wakeup fall between the steps with which EMT goes to sleep.
CallsReturn == \A th \in Requesters : pc[th] = "take" ~> pc[th] = "idle"

\* Every packet comes back to the free lists or the heap, that of a NO_WAIT
\* request too.
PacketsReturn == \A p \in Packets : state[p] = "QUEUED" ~> state[p] \in {"FREE", "HEAP"}
=============================================================================
