----------------------------- MODULE PDMThread -----------------------------
(***************************************************************************)
(* The threads that devices and drivers have PDM create                    *)
(* (VMM/PDMThread.cpp), over the threads of IPRT (Runtime/thread.cpp).     *)
(*                                                                         *)
(* EMT controls a thread by its state, enmState, which both change with a  *)
(* compare-and-swap, and by two manual-reset events: EMT waits for the     *)
(* user event of the thread, the thread sleeps on its BlockEvent while it  *)
(* is suspended.  One action is one access to what EMT and the thread      *)
(* share.  The function of a thread is the device's: here it sleeps on an  *)
(* event of its own, which the device's wakeup call signals, and returns   *)
(* when it finds that the thread is not to run.                            *)
(***************************************************************************)
EXTENDS Naturals

CONSTANTS
    Threads,     \* the PDM threads
    Nil,
    Slow         \* the calls of EMT whose wait may run out while the thread goes on

Calls == {"Create", "Suspend", "Resume", "Destroy"}

ASSUME PDMThreadAssumption == Nil \notin Threads /\ Slow \subseteq Calls

VARIABLES
    state,       \* enmState
    user,        \* the user event of the IPRT thread is signalled
    block,       \* BlockEvent is signalled
    wake,        \* the event of the thread's function is signalled
    ended,       \* the IPRT thread has ended, EventTerminated is signalled
    handle,      \* PDMTHREAD::Thread holds the handle of the IPRT thread
    freed,       \* the PDMTHREAD has been freed
    pc, seen,    \* the next step of the thread; enmState in PDMR3ThreadIAmSuspending,
                 \* INVALID before and after
    emt, on,     \* the next step of EMT; the thread of its call
    told,        \* what the calls have told EMT of the thread
    late         \* history: the threads whose resume came before the signal of their
                 \* suspension

eventVars  == <<user, block, wake, ended>>
dataVars   == <<handle, freed>>
threadVars == <<pc, seen>>
emtVars    == <<emt, on, told, late>>
vars == <<state, dataVars, eventVars, threadVars, emtVars>>

Init ==
    /\ state = [t \in Threads |-> "INVALID"]
    /\ user = [t \in Threads |-> FALSE]
    /\ block = [t \in Threads |-> FALSE]
    /\ wake = [t \in Threads |-> FALSE]
    /\ ended = [t \in Threads |-> FALSE]
    /\ handle = [t \in Threads |-> FALSE]
    /\ freed = [t \in Threads |-> TRUE]
    /\ pc = [t \in Threads |-> "gone"]
    /\ seen = [t \in Threads |-> "INVALID"]
    /\ emt = "idle" /\ on = Nil
    /\ told = [t \in Threads |-> "nothing"] /\ late = {}

----------------------------------------------------------------------------
(* The thread: pdmR3ThreadMain and the function it calls *)

Goto(t, step) == pc' = [pc EXCEPT ![t] = step] /\ UNCHANGED seen
At(t, step) == pc[t] = step
SetState(t, new) == state' = [state EXCEPT ![t] = new]
Set(event, t) == [event EXCEPT ![t] = TRUE]
Reset(event, t) == [event EXCEPT ![t] = FALSE]

\* pfnThread goes to sleep while the thread runs, and otherwise returns.
Function(t) ==
    /\ At(t, "run")
    /\ Goto(t, IF state[t] = "RUNNING" THEN "sleep" ELSE "returned")
    /\ UNCHANGED <<state, dataVars, eventVars, emtVars>>

FunctionFails(t) ==
    /\ At(t, "run")
    /\ Goto(t, "advance")
    /\ UNCHANGED <<state, dataVars, eventVars, emtVars>>

Awake(t) ==
    /\ At(t, "sleep") /\ wake[t]
    /\ wake' = Reset(wake, t)
    /\ Goto(t, "run")
    /\ UNCHANGED <<state, dataVars, user, block, ended, emtVars>>

\* The device has work for the thread.
Work(t) ==
    /\ At(t, "sleep")
    /\ Goto(t, "run")
    /\ UNCHANGED <<state, dataVars, eventVars, emtVars>>

\* A simple function has returned to be suspended, or the thread ends.
Returned(t) ==
    /\ At(t, "returned")
    /\ Goto(t, IF state[t] \in {"SUSPENDING", "INITIALIZING"} THEN "suspending" ELSE "advance")
    /\ UNCHANGED <<state, dataVars, eventVars, emtVars>>

\* PDMR3ThreadIAmSuspending takes the state it finds for the one to leave.
Suspending(t) ==
    /\ At(t, "suspending")
    /\ seen' = [seen EXCEPT ![t] = state[t]]
    /\ pc' = [pc EXCEPT ![t] = "suspended"]
    /\ UNCHANGED <<state, dataVars, eventVars, emtVars>>

Suspended(t) ==
    /\ At(t, "suspended")
    /\ seen' = [seen EXCEPT ![t] = "INVALID"]
    /\ IF state[t] = seen[t]
       THEN SetState(t, "SUSPENDED") /\ pc' = [pc EXCEPT ![t] = "signal"]
       ELSE pc' = [pc EXCEPT ![t] = "bail"] /\ UNCHANGED state
    /\ UNCHANGED <<dataVars, eventVars, emtVars>>

\* EMT has freed the thread without having seen it end.
Abandoned(t) == told[t] = "abandoned"

\* The thread signals itself through the handle that its creator stores.
SignalSuspended(t) ==
    /\ At(t, "signal")
    /\ IF handle[t]
       THEN user' = Set(user, t) /\ Goto(t, "block")
       ELSE Goto(t, "bail") /\ UNCHANGED user
    /\ UNCHANGED <<state, dataVars, block, wake, ended, emtVars>>

\* The creator that gives up destroys BlockEvent: the wait fails.
Block(t) ==
    /\ At(t, "block") /\ (block[t] \/ Abandoned(t))
    /\ Goto(t, IF Abandoned(t) THEN "bail" ELSE "woken")
    /\ UNCHANGED <<state, dataVars, eventVars, emtVars>>

Woken(t) ==
    /\ At(t, "woken")
    /\ Goto(t, IF state[t] = "SUSPENDED" THEN "bail" ELSE "resuming")
    /\ UNCHANGED <<state, dataVars, eventVars, emtVars>>

Resuming(t) ==
    /\ At(t, "resuming")
    /\ Goto(t, IF state[t] = "RESUMING" THEN "running" ELSE "advance")
    /\ UNCHANGED <<state, dataVars, eventVars, emtVars>>

\* PDMR3ThreadIAmRunning: the compare-and-swap succeeds only while the thread is
\* still to be resumed.  Mutant: the state is just written.
StillResuming_Unchecked(t) == TRUE
StillResuming(t) == state[t] = "RESUMING"

Running(t) ==
    /\ At(t, "running")
    /\ IF StillResuming(t)
       THEN SetState(t, "RUNNING") /\ Goto(t, "announce")
       ELSE Goto(t, "bail") /\ UNCHANGED state
    /\ UNCHANGED <<dataVars, eventVars, emtVars>>

Announce(t) ==
    /\ At(t, "announce")
    /\ user' = Set(user, t)
    /\ Goto(t, "run")
    /\ UNCHANGED <<state, dataVars, block, wake, ended, emtVars>>

\* pdmR3ThreadBailMeOut.
BailMeOut(t) ==
    /\ At(t, "bail")
    /\ IF state[t] \in {"SUSPENDING", "SUSPENDED", "RESUMING", "RUNNING"}
       THEN SetState(t, "TERMINATING")
       ELSE UNCHANGED state
    /\ Goto(t, "advance")
    /\ UNCHANGED <<dataVars, eventVars, emtVars>>

Advance(t) ==
    /\ At(t, "advance")
    /\ SetState(t, "TERMINATING")
    /\ Goto(t, "terminate")
    /\ UNCHANGED <<dataVars, eventVars, emtVars>>

Terminate(t) ==
    /\ At(t, "terminate")
    /\ SetState(t, "TERMINATED")
    /\ Goto(t, "farewell")
    /\ UNCHANGED <<dataVars, eventVars, emtVars>>

\* A thread that ends signals the user event as well.
Farewell(t) ==
    /\ At(t, "farewell")
    /\ user' = Set(user, t)
    /\ Goto(t, "end")
    /\ UNCHANGED <<state, dataVars, block, wake, ended, emtVars>>

\* rtThreadTerminate.
End(t) ==
    /\ At(t, "end")
    /\ ended' = Set(ended, t)
    /\ Goto(t, "gone")
    /\ UNCHANGED <<state, dataVars, user, block, wake, emtVars>>

----------------------------------------------------------------------------
(* EMT: the calls *)

Then(step) == emt' = step /\ UNCHANGED <<on, told, late>>
In(step) == emt = step

Begin(t, step) ==
    /\ emt = "idle"
    /\ emt' = step /\ on' = t

Return(result) ==
    /\ emt' = "idle" /\ on' = Nil
    /\ told' = [told EXCEPT ![on] = result]
    /\ UNCHANGED late

\* The thread cannot go on by itself.
Stuck(t) == (At(t, "block") /\ ~block[t]) \/ (At(t, "sleep") /\ ~wake[t])

\* A wait of EMT for the event runs out.
RunsOut(call, event) == call \in Slow \/ (Stuck(on) /\ ~event[on])

----------------------------------------------------------------------------
(* pdmR3ThreadNew, pdmR3ThreadInit *)

\* The IPRT thread runs before RTThreadCreate returns its handle.
Create(t) ==
    /\ freed[t] /\ (Abandoned(t) => ended[t])
    /\ Begin(t, "store")
    /\ told' = [told EXCEPT ![t] = "nothing"] /\ late' = late \ {t}
    /\ SetState(t, "INITIALIZING")
    /\ handle' = [handle EXCEPT ![t] = FALSE]
    /\ freed' = [freed EXCEPT ![t] = FALSE]
    /\ user' = Reset(user, t) /\ block' = Reset(block, t)
    /\ wake' = Reset(wake, t) /\ ended' = Reset(ended, t)
    /\ pc' = [pc EXCEPT ![t] = "run"]
    /\ seen' = [seen EXCEPT ![t] = "INVALID"]

StoreHandle ==
    /\ In("store")
    /\ handle' = [handle EXCEPT ![on] = TRUE]
    /\ Then("createWait")
    /\ UNCHANGED <<state, freed, eventVars, threadVars>>

CreateWait ==
    /\ In("createWait") /\ user[on]
    /\ Then("createCheck")
    /\ UNCHANGED <<state, dataVars, eventVars, threadVars>>

CreateCheck ==
    /\ In("createCheck")
    /\ Then(IF state[on] = "SUSPENDED" THEN "createReset" ELSE "createBail")
    /\ UNCHANGED <<state, dataVars, eventVars, threadVars>>

CreateReset ==
    /\ In("createReset")
    /\ user' = Reset(user, on)
    /\ Return("suspended")
    /\ UNCHANGED <<state, dataVars, block, wake, ended, threadVars>>

CreateTimeout ==
    /\ In("createWait") /\ RunsOut("Create", user)
    /\ Then("createBail")
    /\ UNCHANGED <<state, dataVars, eventVars, threadVars>>

\* The result of RTThreadWait is not looked at: what the thread uses is freed also
\* when it goes on.  What it finds there then is taken to be what was there.
CreateBail ==
    /\ In("createBail")
    /\ freed' = [freed EXCEPT ![on] = TRUE]
    /\ \/ ended[on] /\ SetState(on, "INVALID") /\ Return("nothing")
       \/ ~ended[on] /\ RunsOut("Create", ended) /\ UNCHANGED state /\ Return("abandoned")
    /\ UNCHANGED <<handle, eventVars, threadVars>>

----------------------------------------------------------------------------
(* PDMR3ThreadSuspend, of a running thread *)

\* Mutant: a suspend leaves BlockEvent as the last resume set it.
BlocksAgain_Never(t) == block
BlocksAgain(t) == Reset(block, t)

Suspend(t) ==
    /\ told[t] = "running"
    /\ Begin(t, "suspendReset")
    /\ block' = BlocksAgain(t)
    /\ UNCHANGED <<state, dataVars, user, wake, ended, threadVars, told, late>>

SuspendReset ==
    /\ In("suspendReset")
    /\ user' = Reset(user, on)
    /\ Then("suspend")
    /\ UNCHANGED <<state, dataVars, block, wake, ended, threadVars>>

SuspendState ==
    /\ In("suspend")
    /\ IF state[on] = "RUNNING"
       THEN SetState(on, "SUSPENDING") /\ Then("suspendWakeup")
       ELSE Then("bailOut") /\ UNCHANGED state
    /\ UNCHANGED <<dataVars, eventVars, threadVars>>

\* Mutant: the thread is not woken.
Wakeup_Skipped(t) == wake
Wakeup(t) == Set(wake, t)

\* The user event is left alone from here on.  Mutant: it is reset only now.
UserEvent_ResetLate(t) == Reset(user, t)
UserEvent(t) == user

SuspendWakeup ==
    /\ In("suspendWakeup")
    /\ wake' = Wakeup(on) /\ user' = UserEvent(on)
    /\ Then("suspendLook")
    /\ UNCHANGED <<state, dataVars, block, ended, threadVars>>

SuspendLook ==
    /\ In("suspendLook")
    /\ Then(IF state[on] = "SUSPENDED" THEN "suspendCheck" ELSE "suspendWait")
    /\ UNCHANGED <<state, dataVars, eventVars, threadVars>>

SuspendWait ==
    /\ In("suspendWait") /\ user[on]
    /\ Then("suspendCheck")
    /\ UNCHANGED <<state, dataVars, eventVars, threadVars>>

SuspendTimeout ==
    /\ In("suspendWait") /\ RunsOut("Suspend", user)
    /\ Then("bailOut")
    /\ UNCHANGED <<state, dataVars, eventVars, threadVars>>

SuspendCheck ==
    /\ In("suspendCheck")
    /\ IF state[on] = "SUSPENDED" THEN Return("suspended") ELSE Then("bailOut")
    /\ UNCHANGED <<state, dataVars, eventVars, threadVars>>

----------------------------------------------------------------------------
(* PDMR3ThreadResume, of a suspended thread *)

\* Mutant: a resume leaves the user event as the thread set it to be suspended.
AsksAgain_Never(t) == user
AsksAgain(t) == Reset(user, t)

Resume(t) ==
    /\ told[t] = "suspended"
    /\ Begin(t, "resume")
    /\ user' = AsksAgain(t)
    /\ late' = IF At(t, "signal") THEN late \union {t} ELSE late
    /\ UNCHANGED <<state, dataVars, block, wake, ended, threadVars, told>>

ResumeState ==
    /\ In("resume")
    /\ IF state[on] = "SUSPENDED"
       THEN SetState(on, "RESUMING") /\ Then("resumeSignal")
       ELSE Then("bailOut") /\ UNCHANGED state
    /\ UNCHANGED <<dataVars, eventVars, threadVars>>

ResumeSignal ==
    /\ In("resumeSignal")
    /\ block' = Set(block, on)
    /\ Then("resumeWait")
    /\ UNCHANGED <<state, dataVars, user, wake, ended, threadVars>>

ResumeWait ==
    /\ In("resumeWait") /\ user[on]
    /\ Then("resumeCheck")
    /\ UNCHANGED <<state, dataVars, eventVars, threadVars>>

ResumeTimeout ==
    /\ In("resumeWait") /\ RunsOut("Resume", user)
    /\ Then("bailOut")
    /\ UNCHANGED <<state, dataVars, eventVars, threadVars>>

ResumeCheck ==
    /\ In("resumeCheck")
    /\ IF state[on] = "RUNNING" THEN Return("running") ELSE Then("bailOut")
    /\ UNCHANGED <<state, dataVars, eventVars, threadVars>>

----------------------------------------------------------------------------
(* pdmR3ThreadBailOut, after a suspend or a resume that failed *)

BailOut ==
    /\ In("bailOut")
    /\ IF state[on] \in {"SUSPENDING", "SUSPENDED", "RESUMING", "RUNNING"}
       THEN SetState(on, "TERMINATING")
       ELSE UNCHANGED state
    /\ CASE state[on] \in {"SUSPENDING", "SUSPENDED"} -> Then("bailOutSignal")
         [] state[on] = "RUNNING" -> Then("bailOutWakeup")
         [] OTHER -> Return("failed")
    /\ UNCHANGED <<dataVars, eventVars, threadVars>>

\* Mutant: the bail-out does not wake the thread, as a destroy does not.
Unblocks_Never(t) == block
Unblocks(t) == Set(block, t)

BailOutSignal ==
    /\ In("bailOutSignal")
    /\ block' = Unblocks(on)
    /\ Return("failed")
    /\ UNCHANGED <<state, dataVars, user, wake, ended, threadVars>>

BailOutWakeup ==
    /\ In("bailOutWakeup")
    /\ wake' = Wakeup(on)
    /\ Return("failed")
    /\ UNCHANGED <<state, dataVars, user, block, ended, threadVars>>

----------------------------------------------------------------------------
(* PDMR3ThreadDestroy *)

\* Only a running thread is woken.
Destroy(t) ==
    /\ told[t] \notin {"nothing", "abandoned"}
    /\ Begin(t, IF state[t] = "RUNNING" THEN "destroyWakeup" ELSE "destroyWait")
    /\ IF state[t] = "TERMINATED" THEN UNCHANGED state ELSE SetState(t, "TERMINATING")
    /\ UNCHANGED <<dataVars, eventVars, threadVars, told, late>>

DestroyWakeup ==
    /\ In("destroyWakeup")
    /\ wake' = Wakeup(on)
    /\ Then("destroyWait")
    /\ UNCHANGED <<state, dataVars, user, block, ended, threadVars>>

DestroyWait ==
    /\ In("destroyWait") /\ ended[on]
    /\ Then("destroyFree")
    /\ UNCHANGED <<state, dataVars, eventVars, threadVars>>

\* EMT destroys, or has tried to destroy, a thread that it knew to be suspended.
Stranding(t) ==
    told[t] = "stranded" \/ (told[t] = "suspended" /\ on = t /\ emt \in {"destroyWakeup", "destroyWait"})

\* What EMT does when the thread has not ended in time.  Mutant: it frees the
\* thread nevertheless.
AfterTimeout_Frees == Then("destroyFree")
AfterTimeout == Return(IF Stranding(on) THEN "stranded" ELSE "failed")

DestroyTimeout ==
    /\ In("destroyWait") /\ RunsOut("Destroy", ended)
    /\ AfterTimeout
    /\ UNCHANGED <<state, dataVars, eventVars, threadVars>>

DestroyFree ==
    /\ In("destroyFree")
    /\ SetState(on, "INVALID")
    /\ handle' = [handle EXCEPT ![on] = FALSE]
    /\ freed' = [freed EXCEPT ![on] = TRUE]
    /\ Return("nothing")
    /\ UNCHANGED <<eventVars, threadVars>>

----------------------------------------------------------------------------
ThreadStep(t) ==
    \/ Function(t) \/ Awake(t) \/ Returned(t)
    \/ Suspending(t) \/ Suspended(t) \/ SignalSuspended(t) \/ Block(t) \/ Woken(t)
    \/ Resuming(t) \/ Running(t) \/ Announce(t)
    \/ BailMeOut(t) \/ Advance(t) \/ Terminate(t) \/ Farewell(t) \/ End(t)

BeginSome(t) == Create(t) \/ Suspend(t) \/ Resume(t) \/ Destroy(t)

EmtStep ==
    \/ StoreHandle \/ CreateWait \/ CreateCheck \/ CreateReset \/ CreateBail
    \/ SuspendReset \/ SuspendState \/ SuspendWakeup \/ SuspendLook
    \/ SuspendWait \/ SuspendCheck
    \/ ResumeState \/ ResumeSignal \/ ResumeWait \/ ResumeCheck
    \/ BailOut \/ BailOutSignal \/ BailOutWakeup
    \/ DestroyWakeup \/ DestroyWait \/ DestroyFree

Timeout == CreateTimeout \/ SuspendTimeout \/ ResumeTimeout \/ DestroyTimeout

Next ==
    \/ \E t \in Threads : ThreadStep(t) \/ FunctionFails(t) \/ Work(t) \/ BeginSome(t)
    \/ EmtStep
    \/ Timeout

Spec == Init /\ [][Next]_vars

\* The host runs the threads and EMT.  Nobody has to call, no function has to
\* fail or to get work, and no wait has to run out.
FairSpec ==
    /\ Spec
    /\ \A t \in Threads : WF_vars(ThreadStep(t))
    /\ WF_vars(EmtStep)

----------------------------------------------------------------------------
(* What is promised *)

States == {"INVALID", "INITIALIZING", "SUSPENDING", "SUSPENDED", "RESUMING",
           "RUNNING", "TERMINATING", "TERMINATED"}

FunctionSteps == {"run", "sleep", "returned"}
MainSteps == {"suspending", "suspended", "signal", "block", "woken", "resuming", "running",
              "announce", "bail", "advance", "terminate"}
LastSteps == {"farewell", "end", "gone"}
EmtSteps == {"idle", "store", "createWait", "createCheck", "createReset", "createBail",
             "suspendReset", "suspend", "suspendWakeup", "suspendLook", "suspendWait",
             "suspendCheck", "resume", "resumeSignal", "resumeWait", "resumeCheck",
             "bailOut", "bailOutSignal", "bailOutWakeup",
             "destroyWakeup", "destroyWait", "destroyFree"}

\* Every variable has its type, a PDMTHREAD is freed exactly when its state is
\* invalid, unless it was abandoned, and EMT is in a call exactly when the call has
\* a thread.
TypeOK ==
    /\ state \in [Threads -> States]
    /\ {user, block, wake, ended, handle, freed} \subseteq [Threads -> BOOLEAN]
    /\ pc \in [Threads -> FunctionSteps \union MainSteps \union LastSteps]
    /\ seen \in [Threads -> States]
    /\ emt \in EmtSteps /\ on \in Threads \union {Nil}
    /\ told \in [Threads -> {"nothing", "suspended", "running", "failed", "stranded", "abandoned"}]
    /\ late \subseteq Threads
    /\ \A t \in Threads : ~Abandoned(t) => (freed[t] <=> state[t] = "INVALID")
    /\ (emt = "idle") <=> (on = Nil)

\* A thread that EMT was told is suspended stays where it is until EMT calls for
\* it again: it is on its way into the wait for BlockEvent or in it, and no
\* signal that is left over lets it through.
SuspendedStays ==
    \A t \in Threads : told[t] = "suspended" /\ on # t =>
        state[t] = "SUSPENDED" /\ pc[t] \in {"signal", "block"} /\ ~block[t]

\* The thread does not touch its PDMTHREAD any more once that is freed, whether it
\* ended in time, failed while it was created or outlived the wait of a destroy.
\* The one exception is named: a creation whose waits run out frees the thread and
\* does not look whether it has ended (PDMThread.cpp:158).
NoUseAfterFree ==
    \A t \in Threads : freed[t] /\ ~Abandoned(t) => pc[t] \in LastSteps

\* The signal that ends a wait of EMT for the user event is the answer to the call
\* that waits and none left over from an earlier one: the thread has left the state
\* that the call put it in, and no call fails for having looked too early.  The one
\* exception is named: a suspend that finds the thread SUSPENDED does not wait for
\* its signal (PDMThread.cpp:843), and a resume that then resets the event before
\* that signal comes takes it for its own answer.
SignalIsAnswer ==
    on \notin late =>
        /\ emt = "createCheck" => state[on] # "INITIALIZING"
        /\ emt = "suspendCheck" => state[on] # "SUSPENDING"
        /\ emt = "resumeCheck" => state[on] # "RESUMING"

\* A thread that was told to terminate does not run again: whatever state the
\* calls of EMT and the steps of the thread overwrite, none makes it RUNNING.
NotRevived ==
    [][\A t \in Threads : state[t] \in {"TERMINATING", "TERMINATED"}
                              => state'[t] \notin {"RESUMING", "RUNNING"}]_vars

\* No call that waits for the user event needs the 60 seconds: the signal that
\* ends its wait comes, though the event is reset before the state is changed
\* and the thread may end at any time.
Waits == {"createWait", "suspendWait", "resumeWait"}
CallsReturn == emt \in Waits ~> emt \notin Waits

\* A thread that was told to terminate, by a bail-out, a destroy or itself, does so,
\* unless EMT destroys it while it is suspended: nothing wakes that one, although
\* PDMR3ThreadDestroy says that it will (PDMThread.cpp:329).
Terminates ==
    \A t \in Threads : state[t] = "TERMINATING" ~> pc[t] = "gone" \/ Stranding(t)
=============================================================================
