-------------------------- MODULE PDMThread_proofs --------------------------
(***************************************************************************)
(* Proofs about PDMThread, for any number of threads and whichever waits   *)
(* may run out.                                                            *)
(***************************************************************************)
EXTENDS PDMThread, TLAPS

\* The calls of EMT, by the steps that they have in common.
Creating == {"store", "createWait", "createCheck", "createReset", "createBail"}
Suspends == {"suspendWakeup", "suspendLook", "suspendWait", "suspendCheck"}
Resumes == {"resumeWait", "resumeCheck"}

\* EMT is in one of these steps of a call on t; it is in no call on t.
Within(t, steps) == on = t /\ emt \in steps
Elsewhere(t) == on # t

\* Where a thread is that runs or is to be suspended.
Active == {"announce", "run", "sleep", "advance"}
Ending == {"advance", "terminate"}

\* A PDMTHREAD that EMT knows, or has in its hands, is not freed, and it is only
\* freed when its thread has ended or is abandoned.
FreeInv ==
    /\ NoUseAfterFree
    /\ \A t \in Threads : /\ ended[t] => pc[t] = "gone"
                          /\ told[t] \notin {"nothing", "abandoned"} \/ on = t => ~freed[t]
                          /\ Abandoned(t) => freed[t] /\ "Create" \in Slow
    /\ emt = "destroyFree" => ended[on]

\* While a thread is created its event is clear, and the signal that EMT waits for
\* comes from a thread that sleeps or has ended.
CreateInv(t) ==
    Within(t, Creating) =>
        /\ told[t] = "nothing" /\ ~block[t]
        /\ state[t] \in {"INITIALIZING", "SUSPENDED", "TERMINATING", "TERMINATED"}
        /\ state[t] = "INITIALIZING" =>
              pc[t] \in {"run", "returned", "suspending", "suspended", "bail", "advance"}
        /\ state[t] = "SUSPENDED" => pc[t] \in {"signal", "block", "bail"}
        /\ state[t] = "TERMINATING" => pc[t] \in Ending
        /\ state[t] = "TERMINATED" => pc[t] \in LastSteps
        /\ user[t] => pc[t] \in {"block", "end", "gone"}
        /\ emt # "store" => handle[t]
        /\ emt \in {"createCheck", "createReset"} => user[t]
        /\ emt = "createReset" => state[t] = "SUSPENDED"
        /\ emt = "createBail" /\ "Create" \notin Slow => state[t] \in {"TERMINATING", "TERMINATED"}
        /\ pc[t] = "block" => user[t] /\ state[t] = "SUSPENDED"

\* A thread that was told to run runs, unless it ends by itself ...
RunInv(t) ==
    told[t] = "running" /\ (Elsewhere(t) \/ Within(t, {"suspendReset", "suspend"})) =>
        /\ state[t] \in {"RUNNING", "TERMINATING", "TERMINATED"}
        /\ state[t] = "RUNNING" => pc[t] \in Active
        /\ state[t] = "TERMINATING" => pc[t] \in Ending
        /\ state[t] = "TERMINATED" => pc[t] \in LastSteps

\* ... and in a suspend it finds its event clear and gets to its wait.
SuspendInv(t) ==
    /\ Within(t, {"suspendReset", "suspend"} \union Suspends) => told[t] = "running" /\ ~block[t]
    /\ Within(t, Suspends) =>
          /\ state[t] \in {"SUSPENDING", "SUSPENDED", "TERMINATING", "TERMINATED"}
          /\ state[t] = "SUSPENDING" =>
                pc[t] \in Active \union {"returned", "suspending", "suspended", "bail"}
          /\ state[t] = "SUSPENDED" => pc[t] \in {"signal", "block"}
          /\ state[t] = "TERMINATING" => pc[t] \in Ending
          /\ state[t] = "TERMINATED" => pc[t] \in LastSteps

\* A suspended thread stays so until EMT resumes it; then it gets to run.
ResumeInv(t) ==
    /\ Within(t, {"resume"}) =>
          state[t] = "SUSPENDED" /\ pc[t] \in {"signal", "block"} /\ ~block[t]
    /\ Within(t, {"resumeSignal"}) =>
          state[t] = "RESUMING" /\ pc[t] \in {"signal", "block"} /\ ~block[t]
    /\ Within(t, Resumes) =>
          /\ state[t] \in {"RESUMING", "RUNNING", "TERMINATING", "TERMINATED"}
          /\ state[t] = "RESUMING" =>
                pc[t] \in {"signal", "block", "woken", "resuming", "running"}
          /\ state[t] = "RUNNING" => pc[t] \in Active
          /\ state[t] = "TERMINATING" => pc[t] \in Ending
          /\ state[t] = "TERMINATED" => pc[t] \in LastSteps
    /\ Within(t, {"resume", "resumeSignal"} \union Resumes) => told[t] = "suspended"

\* The user event is clear while the thread has not done what EMT asks of it, unless
\* a resume came before the signal of the suspension.
SignalInv(t) ==
    t \notin late =>
        /\ Within(t, {"resume", "resumeSignal"}) => pc[t] = "block" /\ ~user[t]
        /\ Within(t, Resumes) =>
              /\ state[t] = "RESUMING" => pc[t] \notin {"signal"} /\ ~user[t]
              /\ state[t] = "RUNNING" /\ pc[t] = "announce" => ~user[t]
              /\ emt = "resumeCheck" => user[t]
        /\ told[t] = "running" /\ (Elsewhere(t) \/ Within(t, {"suspendReset"})) =>
              state[t] # "RUNNING" \/ pc[t] # "announce"
        /\ Within(t, {"suspend"} \union Suspends) =>
              (state[t] \in {"RUNNING", "SUSPENDING"} => pc[t] # "announce" /\ ~user[t])
        /\ Within(t, {"suspendCheck"}) => state[t] # "SUSPENDING"

\* The handle is there from its store until the thread is freed.
HandleInv == \A t \in Threads : told[t] \in {"suspended", "running"} => handle[t]

\* The inductive invariant.
ThreadInv ==
    /\ TypeOK /\ FreeInv /\ SuspendedStays /\ HandleInv
    /\ \A t \in Threads : CreateInv(t) /\ RunInv(t) /\ SuspendInv(t) /\ ResumeInv(t) /\ SignalInv(t)

----------------------------------------------------------------------------
(* Types and freed threads *)

LEMMA InitThread == Init => ThreadInv
  BY PDMThreadAssumption
  DEF Init, ThreadInv, TypeOK, States, FunctionSteps, MainSteps, LastSteps, EmtSteps, FreeInv,
      NoUseAfterFree, SuspendedStays, HandleInv, CreateInv, RunInv, SuspendInv, ResumeInv,
      SignalInv, Abandoned, Within, Elsewhere, Creating, Suspends, Resumes

\* The steps of a thread keep the types, and a freed one takes none but the last.
LEMMA TypeThread ==
    ASSUME ThreadInv, NEW t \in Threads, ThreadStep(t) \/ FunctionFails(t) \/ Work(t)
    PROVE  TypeOK' /\ FreeInv'
<1> USE PDMThreadAssumption DEF ThreadInv, TypeOK, FreeInv, NoUseAfterFree, States,
        FunctionSteps, MainSteps, LastSteps, EmtSteps, At, Goto, SetState, Set, Reset, Then, In,
        Return, Begin, Abandoned, eventVars, dataVars, threadVars, emtVars
<1>1. CASE Function(t)
  BY <1>1 DEF Function
<1>2. CASE Awake(t)
  BY <1>2 DEF Awake
<1>3. CASE Returned(t)
  BY <1>3 DEF Returned
<1>4. CASE Suspending(t)
  BY <1>4 DEF Suspending
<1>5. CASE Suspended(t)
  BY <1>5 DEF Suspended
<1>6. CASE SignalSuspended(t)
  <2>1. CASE handle[t]
    <3>1. user' = [user EXCEPT ![t] = TRUE] /\ pc' = [pc EXCEPT ![t] = "block"] /\ pc[t] = "signal"
          /\ UNCHANGED <<seen, state, handle, freed, block, wake, ended, emt, on, told, late>>
      BY <1>6, <2>1 DEF SignalSuspended
    <3>2. TypeOK'
      BY <3>1
    <3>3. FreeInv'
      BY <3>1
    <3> QED BY <3>2, <3>3
  <2>2. CASE ~handle[t]
    BY <1>6, <2>2 DEF SignalSuspended
  <2> QED BY <2>1, <2>2
<1>7. CASE Block(t)
  BY <1>7 DEF Block
<1>8. CASE Woken(t)
  BY <1>8 DEF Woken
<1>9. CASE Resuming(t)
  BY <1>9 DEF Resuming
<1>10. CASE Running(t)
  BY <1>10 DEF Running
<1>11. CASE Announce(t)
  BY <1>11 DEF Announce
<1>12. CASE BailMeOut(t)
  BY <1>12 DEF BailMeOut
<1>13. CASE Advance(t)
  BY <1>13 DEF Advance
<1>14. CASE Terminate(t)
  BY <1>14 DEF Terminate
<1>15. CASE Farewell(t)
  BY <1>15 DEF Farewell
<1>16. CASE End(t)
  BY <1>16 DEF End
<1>17. CASE FunctionFails(t)
  BY <1>17 DEF FunctionFails
<1>18. CASE Work(t)
  BY <1>18 DEF Work
<1> QED BY <1>1, <1>2, <1>3, <1>4, <1>5, <1>6, <1>7, <1>8, <1>9, <1>10, <1>11, <1>12, <1>13,
           <1>14, <1>15, <1>16, <1>17, <1>18 DEF ThreadStep

\* A wait of a creation does not run out because the thread is stuck.
LEMMA CreationGoesOn ==
    ASSUME ThreadInv
    PROVE  /\ emt = "createWait" /\ RunsOut("Create", user) => "Create" \in Slow
           /\ emt = "createBail" /\ RunsOut("Create", ended) => "Create" \in Slow
<1>1. SUFFICES ASSUME emt \in {"createWait", "createBail"}, Stuck(on), "Create" \notin Slow
               PROVE  emt = "createWait" /\ user[on]
  BY DEF RunsOut
<1>2. on \in Threads /\ CreateInv(on) /\ Within(on, Creating)
  BY <1>1 DEF ThreadInv, TypeOK, Within, Creating
<1>3. pc[on] # "sleep"
  BY <1>1, <1>2 DEF CreateInv, Ending, LastSteps
<1>4. pc[on] = "block"
  BY <1>1, <1>3 DEF Stuck, At
<1> QED BY <1>1, <1>2, <1>4 DEF CreateInv

\* So do the calls of EMT when they begin ...
LEMMA TypeBegin ==
    ASSUME ThreadInv, NEW t \in Threads, BeginSome(t)
    PROVE  TypeOK' /\ FreeInv'
<1> USE PDMThreadAssumption DEF ThreadInv, TypeOK, FreeInv, NoUseAfterFree, States,
        FunctionSteps, MainSteps, LastSteps, EmtSteps, At, Goto, SetState, Set, Reset, Then, In,
        Return, Begin, Abandoned, eventVars, dataVars, threadVars, emtVars
<1>1. CASE Create(t)
  BY <1>1 DEF Create
<1>2. CASE Suspend(t)
  BY <1>2 DEF Suspend, BlocksAgain
<1>3. CASE Resume(t)
  BY <1>3 DEF Resume, AsksAgain
<1>4. CASE Destroy(t)
  BY <1>4 DEF Destroy
<1> QED BY <1>1, <1>2, <1>3, <1>4 DEF BeginSome

\* ... and when they go on.
LEMMA TypeEmt ==
    ASSUME ThreadInv, EmtStep \/ Timeout
    PROVE  TypeOK' /\ FreeInv'
<1> USE PDMThreadAssumption DEF ThreadInv, TypeOK, FreeInv, NoUseAfterFree, States,
        FunctionSteps, MainSteps, LastSteps, EmtSteps, At, Goto, SetState, Set, Reset, Then, In,
        Return, Begin, Abandoned, eventVars, dataVars, threadVars, emtVars
<1>1. CASE StoreHandle
  BY <1>1 DEF StoreHandle
<1>2. CASE CreateWait
  BY <1>2 DEF CreateWait
<1>3. CASE CreateCheck
  BY <1>3 DEF CreateCheck
<1>4. CASE CreateReset
  BY <1>4 DEF CreateReset
<1>5. CASE CreateBail
  <2>1. CASE ended[on]
    BY <1>5, <2>1 DEF CreateBail
  <2>2. CASE ~ended[on]
    <3>1. /\ emt = "createBail" /\ emt' = "idle" /\ on \in Threads /\ on' = Nil
          /\ freed' = [freed EXCEPT ![on] = TRUE] /\ told' = [told EXCEPT ![on] = "abandoned"]
          /\ UNCHANGED <<state, handle, user, block, wake, ended, pc, seen, late>>
      BY <1>5, <2>2 DEF CreateBail
    <3>2. "Create" \in Slow
      BY <1>5, <2>2, CreationGoesOn DEF CreateBail
    <3>3. TypeOK'
      BY <3>1
    <3>4. FreeInv'
      BY <3>1, <3>2
    <3> QED BY <3>3, <3>4
  <2> QED BY <2>1, <2>2
<1>6. CASE SuspendReset
  BY <1>6 DEF SuspendReset
<1>7. CASE SuspendState
  BY <1>7 DEF SuspendState
<1>8. CASE SuspendWakeup
  BY <1>8 DEF SuspendWakeup, Wakeup, UserEvent
<1>9. CASE SuspendLook
  BY <1>9 DEF SuspendLook
<1>10. CASE SuspendWait
  BY <1>10 DEF SuspendWait
<1>11. CASE SuspendCheck
  BY <1>11 DEF SuspendCheck
<1>12. CASE ResumeState
  BY <1>12 DEF ResumeState
<1>13. CASE ResumeSignal
  BY <1>13 DEF ResumeSignal
<1>14. CASE ResumeWait
  BY <1>14 DEF ResumeWait
<1>15. CASE ResumeCheck
  BY <1>15 DEF ResumeCheck
<1>16. CASE BailOut
  BY <1>16 DEF BailOut
<1>17. CASE BailOutSignal
  BY <1>17 DEF BailOutSignal, Unblocks
<1>18. CASE BailOutWakeup
  BY <1>18 DEF BailOutWakeup, Wakeup
<1>19. CASE DestroyWakeup
  BY <1>19 DEF DestroyWakeup, Wakeup
<1>20. CASE DestroyWait
  BY <1>20 DEF DestroyWait
<1>21. CASE DestroyFree
  BY <1>21 DEF DestroyFree
<1>22. CASE SuspendTimeout
  BY <1>22 DEF SuspendTimeout
<1>23. CASE ResumeTimeout
  BY <1>23 DEF ResumeTimeout
<1>24. CASE DestroyTimeout
  BY <1>24, SMTT(30) DEF DestroyTimeout, AfterTimeout, Stranding
<1>25. CASE CreateTimeout
  BY <1>25 DEF CreateTimeout
<1> QED BY <1>1, <1>2, <1>3, <1>4, <1>5, <1>6, <1>7, <1>8, <1>9, <1>10, <1>11, <1>12, <1>13,
           <1>14, <1>15, <1>16, <1>17, <1>18, <1>19, <1>20, <1>21, <1>22, <1>23, <1>24, <1>25 DEF
           ThreadStep, EmtStep, Timeout, BeginSome

----------------------------------------------------------------------------
(* The calls *)

\* What EMT knows of its threads.
CallInv == /\ SuspendedStays /\ HandleInv
           /\ \A t \in Threads : CreateInv(t) /\ RunInv(t) /\ SuspendInv(t) /\ ResumeInv(t) /\ SignalInv(t)

\* The steps of a thread are where EMT expects them.
LEMMA CallThread ==
    ASSUME ThreadInv, NEW t \in Threads, ThreadStep(t) \/ FunctionFails(t) \/ Work(t)
    PROVE  CallInv'
<1> USE PDMThreadAssumption DEF CallInv, ThreadInv, TypeOK, FreeInv, NoUseAfterFree, LastSteps,
        At, Goto, SetState, Set, Reset, Then, In, Return, Begin, eventVars, dataVars,
        threadVars, emtVars, SuspendedStays, HandleInv, CreateInv, RunInv, SuspendInv,
        ResumeInv, SignalInv, Abandoned, Within, Elsewhere, Creating, Suspends, Resumes, Active, Ending
<1>1. CASE Function(t)
  BY <1>1 DEF Function
<1>2. CASE Awake(t)
  BY <1>2 DEF Awake
<1>3. CASE Returned(t)
  BY <1>3 DEF Returned
<1>4. CASE Suspending(t)
  BY <1>4 DEF Suspending
<1>5. CASE Suspended(t)
  BY <1>5 DEF Suspended
<1>6. CASE SignalSuspended(t)
  BY <1>6 DEF SignalSuspended
<1>7. CASE Block(t)
  BY <1>7 DEF Block
<1>8. CASE Woken(t)
  BY <1>8 DEF Woken
<1>9. CASE Resuming(t)
  BY <1>9 DEF Resuming
<1>10. CASE Running(t)
  <2>1. CASE state[t] = "RESUMING"
    <3>1. /\ pc[t] = "running" /\ state' = [state EXCEPT ![t] = "RUNNING"]
          /\ pc' = [pc EXCEPT ![t] = "announce"]
          /\ UNCHANGED <<user, block, handle, emt, on, told, late>>
      BY <1>10, <2>1 DEF Running, StillResuming
    <3>2. SuspendedStays' /\ HandleInv'
      BY <2>1, <3>1
    <3>3. \A u \in Threads : CreateInv(u)'
      BY <2>1, <3>1
    <3>7. \A u \in Threads : SuspendInv(u)'
      BY <2>1, <3>1
    <3>4. \A u \in Threads : RunInv(u)'
      <4>1. ~(told[t] = "running" /\ (Elsewhere(t) \/ Within(t, {"suspendReset", "suspend"})))
        BY <2>1
      <4>2. \A u \in Threads \ {t} : state'[u] = state[u] /\ pc'[u] = pc[u]
        BY <3>1
      <4> QED BY <3>1, <4>1, <4>2
    <3>5. \A u \in Threads : ResumeInv(u)'
      <4>1. ResumeInv(t)'
        <5>1. state'[t] = "RUNNING" /\ pc'[t] = "announce" /\ on' = on /\ emt' = emt /\ told' = told
          BY <3>1
        <5>2. ~Within(t, {"resume", "resumeSignal"})
          BY <2>1, <3>1
        <5> QED BY <5>1, <5>2
      <4>2. \A u \in Threads \ {t} : ResumeInv(u)'
        BY <3>1
      <4> QED BY <4>1, <4>2
    <3>6. \A u \in Threads : SignalInv(u)'
      <4>1. SignalInv(t)'
        <5>1. /\ state'[t] = "RUNNING" /\ pc'[t] = "announce" /\ user'[t] = user[t]
              /\ on' = on /\ emt' = emt /\ told' = told /\ late' = late
          BY <3>1
        <5>2. /\ ~Within(t, {"resume", "resumeSignal"}) /\ ~Within(t, {"suspend"} \union Suspends)
              /\ t \notin late /\ Within(t, Resumes) => ~user[t] /\ emt # "resumeCheck"
              /\ ~(told[t] = "running" /\ (Elsewhere(t) \/ Within(t, {"suspendReset"})))
          <6>1. ~Within(t, {"resume", "resumeSignal"}) /\ ~Within(t, {"suspend"} \union Suspends)
            BY <2>1, <3>1
          <6>2. t \notin late /\ Within(t, Resumes) => ~user[t] /\ emt # "resumeCheck"
            BY <2>1, <3>1
          <6>3. ~(told[t] = "running" /\ (Elsewhere(t) \/ Within(t, {"suspendReset"})))
            BY <2>1, <3>1
          <6> QED BY <6>1, <6>2, <6>3
        <5> QED BY <5>1, <5>2
      <4>2. \A u \in Threads \ {t} : SignalInv(u)'
        BY <3>1
      <4> QED BY <4>1, <4>2
    <3> QED BY <3>2, <3>3, <3>4, <3>5, <3>6, <3>7
  <2>2. CASE state[t] # "RESUMING"
    BY <1>10, <2>2 DEF Running, StillResuming
  <2> QED BY <2>1, <2>2
<1>11. CASE Announce(t)
  BY <1>11 DEF Announce
<1>12. CASE BailMeOut(t)
  BY <1>12 DEF BailMeOut
<1>13. CASE Advance(t)
  BY <1>13 DEF Advance
<1>14. CASE Terminate(t)
  BY <1>14 DEF Terminate
<1>15. CASE Farewell(t)
  BY <1>15 DEF Farewell
<1>16. CASE End(t)
  BY <1>16 DEF End
<1>17. CASE FunctionFails(t)
  BY <1>17 DEF FunctionFails
<1>18. CASE Work(t)
  BY <1>18 DEF Work
<1> QED BY <1>1, <1>2, <1>3, <1>4, <1>5, <1>6, <1>7, <1>8, <1>9, <1>10, <1>11, <1>12, <1>13,
           <1>14, <1>15, <1>16, <1>17, <1>18 DEF ThreadStep

\* The calls of EMT begin ...
LEMMA CallBegin ==
    ASSUME ThreadInv, NEW t \in Threads, BeginSome(t)
    PROVE  CallInv'
<1> USE PDMThreadAssumption DEF CallInv, ThreadInv, TypeOK, FreeInv, NoUseAfterFree, LastSteps,
        At, Goto, SetState, Set, Reset, Then, In, Return, Begin, eventVars, dataVars,
        threadVars, emtVars, SuspendedStays, HandleInv, CreateInv, RunInv, SuspendInv,
        ResumeInv, SignalInv, Abandoned, Within, Elsewhere, Creating, Suspends, Resumes, Active, Ending
<1>1. CASE Create(t)
  BY <1>1 DEF Create
<1>2. CASE Suspend(t)
  BY <1>2 DEF Suspend, BlocksAgain
<1>3. CASE Resume(t)
  BY <1>3 DEF Resume, AsksAgain
<1>4. CASE Destroy(t)
  BY <1>4, SMTT(30) DEF Destroy
<1> QED BY <1>1, <1>2, <1>3, <1>4 DEF BeginSome

\* ... and go on.
LEMMA CallEmt ==
    ASSUME ThreadInv, EmtStep \/ Timeout
    PROVE  CallInv'
<1> USE PDMThreadAssumption DEF CallInv, ThreadInv, TypeOK, FreeInv, NoUseAfterFree, LastSteps,
        At, Goto, SetState, Set, Reset, Then, In, Return, Begin, eventVars, dataVars,
        threadVars, emtVars, SuspendedStays, HandleInv, CreateInv, RunInv, SuspendInv,
        ResumeInv, SignalInv, Abandoned, Within, Elsewhere, Creating, Suspends, Resumes, Active, Ending
<1>1. CASE StoreHandle
  BY <1>1 DEF StoreHandle
<1>2. CASE CreateWait
  BY <1>2 DEF CreateWait
<1>3. CASE CreateCheck
  BY <1>3 DEF CreateCheck
<1>4. CASE CreateReset
  BY <1>4 DEF CreateReset
<1>5. CASE CreateBail
  BY <1>5 DEF CreateBail, RunsOut, Stuck
<1>6. CASE SuspendReset
  BY <1>6 DEF SuspendReset
<1>7. CASE SuspendState
  <2>1. CASE state[on] = "RUNNING"
    <3>1. /\ on' = on /\ emt = "suspend" /\ emt' = "suspendWakeup"
          /\ state' = [state EXCEPT ![on] = "SUSPENDING"]
          /\ UNCHANGED <<pc, told, block, user, handle, late>>
      BY <1>7, <2>1 DEF SuspendState
    <3>2. on \in Threads
      BY <3>1
    <3>3. told[on] = "running" /\ ~block[on] /\ pc[on] \in Active
      BY <2>1, <3>1, <3>2
    <3>4. \A t \in Threads \ {on} : state'[t] = state[t]
      BY <3>1, <3>2
    <3>5. state'[on] = "SUSPENDING"
      BY <3>1, <3>2
    <3>6. \A t \in Threads : SignalInv(t)'
      BY <2>1, <3>1, <3>2, <3>4, <3>5
    <3>7. SuspendedStays' /\ HandleInv'
      BY <3>1, <3>2, <3>3, <3>4, <3>5
    <3>8. \A t \in Threads : CreateInv(t)' /\ RunInv(t)' /\ SuspendInv(t)' /\ ResumeInv(t)'
      BY <3>1, <3>2, <3>3, <3>4, <3>5
    <3> QED BY <3>6, <3>7, <3>8
  <2>2. CASE state[on] # "RUNNING"
    BY <1>7, <2>2 DEF SuspendState
  <2> QED BY <2>1, <2>2
<1>8. CASE SuspendWakeup
  BY <1>8 DEF SuspendWakeup, Wakeup, UserEvent
<1>9. CASE SuspendLook
  BY <1>9 DEF SuspendLook
<1>10. CASE SuspendWait
  BY <1>10 DEF SuspendWait
<1>11. CASE SuspendCheck
  BY <1>11 DEF SuspendCheck
<1>12. CASE ResumeState
  BY <1>12 DEF ResumeState
<1>13. CASE ResumeSignal
  BY <1>13 DEF ResumeSignal
<1>14. CASE ResumeWait
  BY <1>14 DEF ResumeWait
<1>15. CASE ResumeCheck
  BY <1>15 DEF ResumeCheck
<1>16. CASE BailOut
  BY <1>16 DEF BailOut
<1>17. CASE BailOutSignal
  BY <1>17 DEF BailOutSignal, Unblocks
<1>18. CASE BailOutWakeup
  BY <1>18 DEF BailOutWakeup, Wakeup
<1>19. CASE DestroyWakeup
  BY <1>19 DEF DestroyWakeup, Wakeup
<1>20. CASE DestroyWait
  BY <1>20 DEF DestroyWait
<1>21. CASE DestroyFree
  BY <1>21 DEF DestroyFree
<1>22. CASE SuspendTimeout
  BY <1>22 DEF SuspendTimeout
<1>23. CASE ResumeTimeout
  BY <1>23 DEF ResumeTimeout
<1>24. CASE DestroyTimeout
  BY <1>24 DEF DestroyTimeout, AfterTimeout, Stranding
<1>25. CASE CreateTimeout
  <2>1. "Create" \in Slow
    BY <1>25, CreationGoesOn DEF CreateTimeout
  <2> QED BY <1>25, <2>1 DEF CreateTimeout
<1> QED BY <1>1, <1>2, <1>3, <1>4, <1>5, <1>6, <1>7, <1>8, <1>9, <1>10, <1>11, <1>12, <1>13,
           <1>14, <1>15, <1>16, <1>17, <1>18, <1>19, <1>20, <1>21, <1>22, <1>23, <1>24, <1>25 DEF
           ThreadStep, EmtStep, Timeout, BeginSome

----------------------------------------------------------------------------
(* The theorems *)

LEMMA NextThread == ThreadInv /\ [Next]_vars => ThreadInv'
<1> SUFFICES ASSUME ThreadInv, [Next]_vars PROVE TypeOK' /\ FreeInv' /\ CallInv'
  BY DEF ThreadInv, CallInv
<1>1. ASSUME NEW t \in Threads, ThreadStep(t) \/ FunctionFails(t) \/ Work(t)
      PROVE  TypeOK' /\ FreeInv' /\ CallInv'
  BY <1>1, TypeThread, CallThread
<1>2. ASSUME NEW t \in Threads, BeginSome(t) PROVE TypeOK' /\ FreeInv' /\ CallInv'
  BY <1>2, TypeBegin, CallBegin
<1>3. CASE EmtStep \/ Timeout
  BY <1>3, TypeEmt, CallEmt
<1>4. CASE UNCHANGED vars
  BY <1>4 DEF vars, eventVars, dataVars, threadVars, emtVars, ThreadInv, TypeOK, FreeInv, CallInv,
              NoUseAfterFree, SuspendedStays, HandleInv, CreateInv, RunInv, SuspendInv, ResumeInv,
              SignalInv, Abandoned, Within, Elsewhere
<1> QED BY <1>1, <1>2, <1>3, <1>4 DEF Next

\* The invariant holds for ever.
THEOREM ThreadAlways == Spec => []ThreadInv
  BY InitThread, NextThread, PTL DEF Spec

\* Every variable has its type, and a PDMTHREAD is freed exactly when its state is
\* invalid, for any number of threads.
THEOREM ThreadTypes == Spec => []TypeOK
<1>1. ThreadInv => TypeOK
  BY DEF ThreadInv
<1> QED BY <1>1, ThreadAlways, PTL

\* PDMR3ThreadDestroy and a failed pdmR3ThreadInit free a PDMTHREAD only when its
\* thread does not touch it any more, unless the creation abandons it.
THEOREM NoUseAfterFreeAlways == Spec => []NoUseAfterFree
<1>1. ThreadInv => NoUseAfterFree
  BY DEF ThreadInv, FreeInv
<1> QED BY <1>1, ThreadAlways, PTL

\* No thread is abandoned, and none touches what is freed, if it is only the waits
\* of pdmR3ThreadInit that do not run out while the thread goes on.
THEOREM SafeIfCreatedInTime ==
    ASSUME "Create" \notin Slow
    PROVE  Spec => [](\A t \in Threads : freed[t] => pc[t] \in LastSteps)
<1>1. ThreadInv => \A t \in Threads : freed[t] => pc[t] \in LastSteps
  BY DEF ThreadInv, FreeInv, NoUseAfterFree
<1> QED BY <1>1, ThreadAlways, PTL

\* The signal that ends a wait of EMT is the answer to its call, unless a resume
\* came before the signal of the suspension.
THEOREM SignalIsAnswerAlways == Spec => []SignalIsAnswer
<1>1. ASSUME ThreadInv, on \notin late, emt \in {"createCheck", "suspendCheck", "resumeCheck"}
      PROVE  on \in Threads /\ CreateInv(on) /\ SignalInv(on)
  BY <1>1, PDMThreadAssumption DEF ThreadInv, TypeOK
<1>2. ThreadInv => SignalIsAnswer
  BY <1>1 DEF SignalIsAnswer, CreateInv, SignalInv, Within, Creating, Suspends, Resumes
<1> QED BY <1>2, ThreadAlways, PTL

\* A thread that PDMR3ThreadSuspend or pdmR3ThreadNew has reported to be suspended
\* stays suspended until EMT calls for it again.
THEOREM SuspendedStaysAlways == Spec => []SuspendedStays
<1>1. ThreadInv => SuspendedStays
  BY DEF ThreadInv
<1> QED BY <1>1, ThreadAlways, PTL

\* What a step of the thread makes of the state of a thread that is to terminate.
LEMMA ThreadRevivesNone ==
    ASSUME TypeOK, NEW t \in Threads, ThreadStep(t) \/ FunctionFails(t) \/ Work(t),
           NEW u \in Threads, state[u] \in {"TERMINATING", "TERMINATED"}
    PROVE  state'[u] \notin {"RESUMING", "RUNNING"}
  BY DEF TypeOK, ThreadStep, SetState, StillResuming, Function, FunctionFails, Awake, Work,
     Returned,
         Suspending, Suspended, SignalSuspended, Block, Woken, Resuming, Running, Announce,
         BailMeOut, Advance, Terminate, Farewell, End

\* The same of a call of EMT.
LEMMA EmtRevivesNone ==
    ASSUME TypeOK, EmtStep \/ Timeout \/ \E t \in Threads : BeginSome(t),
           NEW u \in Threads, state[u] \in {"TERMINATING", "TERMINATED"}
    PROVE  state'[u] \notin {"RESUMING", "RUNNING"}
<1> USE DEF TypeOK, SetState
<1>1. CASE \E t \in Threads : BeginSome(t)
  BY <1>1 DEF BeginSome, Create, Suspend, Resume, Destroy
<1>2. CASE StoreHandle \/ CreateWait \/ CreateCheck \/ CreateReset \/ CreateBail
  BY <1>2 DEF StoreHandle, CreateWait, CreateCheck, CreateReset, CreateBail
<1>3. CASE \/ SuspendReset \/ SuspendState \/ SuspendWakeup \/ SuspendLook
           \/ SuspendWait \/ SuspendCheck
  BY <1>3 DEF SuspendReset, SuspendState, SuspendWakeup, SuspendLook, SuspendWait, SuspendCheck
<1>4. CASE ResumeState \/ ResumeSignal \/ ResumeWait \/ ResumeCheck
  BY <1>4 DEF ResumeState, ResumeSignal, ResumeWait, ResumeCheck
<1>5. CASE BailOut \/ BailOutSignal \/ BailOutWakeup
  BY <1>5 DEF BailOut, BailOutSignal, BailOutWakeup
<1>6. CASE DestroyWakeup \/ DestroyWait \/ DestroyFree
  BY <1>6 DEF DestroyWakeup, DestroyWait, DestroyFree
<1>7. CASE Timeout
  BY <1>7 DEF Timeout, CreateTimeout, SuspendTimeout, ResumeTimeout, DestroyTimeout
<1> QED BY <1>1, <1>2, <1>3, <1>4, <1>5, <1>6, <1>7 DEF EmtStep

\* Whatever EMT and the thread overwrite, a thread that was told to terminate is not
\* made to run again.
THEOREM NotRevivedAlways == Spec => NotRevived
<1>1. TypeOK /\ [Next]_vars =>
        [\A t \in Threads : state[t] \in {"TERMINATING", "TERMINATED"}
                               => state'[t] \notin {"RESUMING", "RUNNING"}]_vars
  BY ThreadRevivesNone, EmtRevivesNone DEF Next
<1> QED BY <1>1, ThreadTypes, PTL DEF Spec, NotRevived
=============================================================================
