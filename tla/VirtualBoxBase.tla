--------------------------- MODULE VirtualBoxBase ---------------------------
(***************************************************************************)
(* The state of an object of Main (Main/VirtualBoxBase.cpp,                *)
(* VirtualBoxBaseNEXT_base): an init span, callers that are counted while  *)
(* they use it, re-initialisation after a limited one, and an uninit span  *)
(* that waits for the callers to go.  The object is a Machine: a client    *)
(* asks with a limited call whether it is accessible, which under its      *)
(* write lock tries to initialise it once more (Machine::get_Accessible).  *)
(*                                                                         *)
(* mState and the counters change under mStateLock, which is left only to  *)
(* wait: one action is one stretch under it, or the end of a wait.  Calls  *)
(* of the thread whose span it is succeed and are not counted: they change *)
(* nothing and are left out.                                               *)
(***************************************************************************)
EXTENDS Naturals, FiniteSets

CONSTANTS
    Clients,   \* the threads that call methods of the object
    Owner,     \* the thread that initialises it
    Closers,   \* the threads that uninitialise it
    MaxCalls,  \* bound: calls of each client
    Avoided,   \* the races that do not happen in a run
    Nil

\* Races that the code does not stand.
Races == {"ReleaseInSpan",  \* a method ends while another thread re-initialises the object
          "UninitInSpan"}   \* uninit is called while another thread (re-)initialises it

Threads == Clients \union Closers \union {Owner}

ASSUME BaseAssumption ==
    /\ Clients \intersect Closers = {} /\ Owner \notin Clients \union Closers
    /\ IsFiniteSet(Clients) /\ Nil \notin Threads
    /\ MaxCalls \in Nat /\ Avoided \subseteq Races

VARIABLES
    mState, mCallers,
    mZeroCallersSem,             \* "none" (not created yet), "clear" or "set"
    mInitDoneSem,                \* likewise
    mInitDoneSemUsers,
    mAccessible,                 \* of the data of the Machine
    locked,                      \* the thread that owns the write lock of the object
    pc,
    limited,                     \* the call of a client is a limited one
    calls                        \* the calls of a client so far

callerVars == <<mCallers, mZeroCallersSem>>
doneVars   == <<mInitDoneSem, mInitDoneSemUsers>>
dataVars   == <<mAccessible, locked>>
callVars   == <<limited, calls>>
vars == <<mState, callerVars, doneVars, dataVars, pc, callVars>>

Init ==
    /\ mState = "NotReady" /\ mCallers = 0
    /\ mZeroCallersSem = "none"
    /\ mInitDoneSem = "none" /\ mInitDoneSemUsers = 0
    /\ mAccessible = TRUE /\ locked = Nil
    /\ pc = [t \in Threads |-> "outside"]
    /\ limited = [t \in Clients |-> FALSE] /\ calls = [t \in Clients |-> 0]

At(t, step) == pc[t] = step
Goto(t, step) == pc' = [pc EXCEPT ![t] = step]

----------------------------------------------------------------------------
(* Callers: addCaller and releaseCaller *)

Serves(lim) == mState = "Ready" \/ (lim /\ mState = "Limited")

AddCaller(t, lim) ==
    /\ At(t, "outside") /\ calls[t] < MaxCalls
    /\ calls' = [calls EXCEPT ![t] = @ + 1]
    /\ limited' = [limited EXCEPT ![t] = lim]
    /\ \/ Serves(lim) /\ mCallers' = mCallers + 1 /\ Goto(t, "inside") /\ UNCHANGED doneVars
       \/ /\ mState = "InInit"
          /\ mCallers' = mCallers + 1
          /\ mInitDoneSem' = IF mInitDoneSem = "none" THEN "clear" ELSE mInitDoneSem
          /\ mInitDoneSemUsers' = mInitDoneSemUsers + 1
          /\ Goto(t, "waiting")
       \/ ~Serves(lim) /\ mState # "InInit" /\ UNCHANGED <<mCallers, doneVars, pc>>
    /\ UNCHANGED <<mState, mZeroCallersSem, dataVars>>

InitHeard(t) ==
    /\ At(t, "waiting") /\ mInitDoneSem = "set"
    /\ Goto(t, "woken")
    /\ UNCHANGED <<mState, callerVars, doneVars, dataVars, callVars>>

\* Mutant: a caller that gives up after the wait does not tell the uninit span.
TellsUninit_Released == FALSE
\* The last caller that goes tells the uninit span.
TellsUninit == mState = "InUninit" /\ mCallers = 1

\* One caller less.
Uncount ==
    /\ mCallers' = mCallers - 1
    /\ mZeroCallersSem' = IF TellsUninit THEN "set" ELSE mZeroCallersSem

\* Mutant: the event stays, signalled, for the next who waits.
LastUser_Never == FALSE
LastUser == mInitDoneSemUsers = 1

\* A limited call, too, is only let in if the object is Ready now.
Reenter(t) ==
    /\ At(t, "woken")
    /\ mInitDoneSemUsers' = mInitDoneSemUsers - 1
    /\ mInitDoneSem' = IF LastUser THEN "none" ELSE mInitDoneSem
    /\ \/ mState = "Ready" /\ Goto(t, "inside") /\ UNCHANGED callerVars
       \/ mState # "Ready" /\ Goto(t, "outside") /\ Uncount
    /\ UNCHANGED <<mState, dataVars, callVars>>

\* A caller that goes is only counted off in these states (the code asserts them).
Releasable == mState \in {"Ready", "Limited", "InUninit"}

Release(t) ==
    /\ pc[t] \in {"inside", "leaving"}
    /\ "ReleaseInSpan" \in Avoided => mState # "InInit"
    /\ Goto(t, "outside")
    /\ IF Releasable THEN Uncount ELSE UNCHANGED callerVars
    /\ UNCHANGED <<mState, doneVars, dataVars, callVars>>

----------------------------------------------------------------------------
(* Initialisation: AutoInitSpan, and AutoReadySpan in get_Accessible *)

\* The end of a span, whatever its result, wakes those who wait for it.
DoneSignalled == IF mCallers > 0 /\ mInitDoneSemUsers > 0 THEN "set" ELSE mInitDoneSem

BeginInit ==
    /\ At(Owner, "outside") /\ mState = "NotReady"
    /\ mState' = "InInit"
    /\ Goto(Owner, "initialising")
    /\ UNCHANGED <<callerVars, doneVars, dataVars, callVars>>

EndInit ==
    /\ At(Owner, "initialising")
    /\ \/ mState' = "Ready" /\ Goto(Owner, "done") /\ UNCHANGED mAccessible
       \/ mState' = "Limited" /\ Goto(Owner, "done") /\ mAccessible' = FALSE
       \/ mState' = "InitFailed" /\ Goto(Owner, "failed") /\ UNCHANGED mAccessible
    /\ mInitDoneSem' = DoneSignalled
    /\ UNCHANGED <<callerVars, mInitDoneSemUsers, locked, callVars>>

Lock(t) ==
    /\ At(t, "inside") /\ limited[t] /\ locked = Nil
    /\ locked' = t
    /\ Goto(t, IF mAccessible THEN "unlock" ELSE "again")
    /\ UNCHANGED <<mState, callerVars, doneVars, mAccessible, callVars>>

\* A span in any other state than Limited is refused.
BeginReadySpan(t) ==
    /\ At(t, "again")
    /\ IF mState = "Limited" THEN mState' = "InInit" /\ Goto(t, "span")
                             ELSE Goto(t, "unlock") /\ UNCHANGED mState
    /\ UNCHANGED <<callerVars, doneVars, dataVars, callVars>>

EndReadySpan(t) ==
    /\ At(t, "span")
    /\ mAccessible' \in BOOLEAN
    /\ mInitDoneSem' = DoneSignalled
    /\ mState' = IF mAccessible' THEN "Ready" ELSE "Limited"
    /\ Goto(t, "unlock")
    /\ UNCHANGED <<callerVars, mInitDoneSemUsers, locked, callVars>>

Unlock(t) ==
    /\ At(t, "unlock")
    /\ locked' = Nil
    /\ Goto(t, "leaving")
    /\ UNCHANGED <<mState, callerVars, doneVars, mAccessible, callVars>>

----------------------------------------------------------------------------
(* uninit: AutoUninitSpan *)

\* Mutant: only callers that were there before the initialisation count.
MustWait_Served == mCallers > mInitDoneSemUsers
\* uninit waits while somebody is counted.
MustWait == mCallers > 0

Uninit(t) ==
    /\ pc[t] = IF t = Owner THEN "failed" ELSE "outside"
    /\ "UninitInSpan" \in Avoided => mState # "InInit"
    /\ IF mState \in {"NotReady", "InUninit"}
         THEN Goto(t, "done") /\ UNCHANGED <<mState, mZeroCallersSem>>
         ELSE /\ mState' = "InUninit"
              /\ mZeroCallersSem' = IF MustWait THEN "clear" ELSE mZeroCallersSem
              /\ Goto(t, IF MustWait THEN "emptying" ELSE "uninitialising")
    /\ UNCHANGED <<mCallers, doneVars, dataVars, callVars>>

Emptied(t) ==
    /\ At(t, "emptying") /\ mZeroCallersSem = "set"
    /\ mZeroCallersSem' = "clear"
    /\ Goto(t, "uninitialising")
    /\ UNCHANGED <<mState, mCallers, doneVars, dataVars, callVars>>

EndUninit(t) ==
    /\ At(t, "uninitialising")
    /\ mState' = "NotReady"
    /\ Goto(t, "done")
    /\ UNCHANGED <<callerVars, doneVars, dataVars, callVars>>

----------------------------------------------------------------------------
(* Clients may call again, and closers need not call; whoever has begun a  *)
(* call goes on with it.                                                   *)

Proceed(t) ==
    InitHeard(t) \/ Reenter(t) \/ Lock(t) \/ BeginReadySpan(t) \/ EndReadySpan(t)
    \/ Unlock(t) \/ Release(t)

Close(t) == Emptied(t) \/ EndUninit(t)

Next ==
    \/ \E t \in Clients : (\E lim \in BOOLEAN : AddCaller(t, lim)) \/ Proceed(t)
    \/ BeginInit \/ EndInit
    \/ \E t \in Closers \union {Owner} : Uninit(t) \/ Close(t)

Spec == Init /\ [][Next]_vars

Fairness ==
    /\ \A t \in Clients : WF_vars(Proceed(t))
    /\ WF_vars(EndInit) /\ WF_vars(Uninit(Owner))
    /\ \A t \in Closers \union {Owner} : WF_vars(Close(t))

FairSpec == Spec /\ Fairness

----------------------------------------------------------------------------
(* What is promised *)

Steps == {"outside", "waiting", "woken", "inside", "again", "span", "unlock", "leaving",
          "initialising", "failed", "emptying", "uninitialising", "done"}

\* Every variable has its type; the bounds of the counters are in CountsAreTrue.
TypeOK ==
    /\ mState \in {"NotReady", "InInit", "Ready", "Limited", "InitFailed", "InUninit"}
    /\ mCallers \in Nat /\ mInitDoneSemUsers \in Nat
    /\ mZeroCallersSem \in {"none", "clear", "set"}
    /\ mInitDoneSem \in {"none", "clear", "set"}
    /\ mAccessible \in BOOLEAN /\ locked \in Clients \union {Nil}
    /\ pc \in [Threads -> Steps]
    /\ limited \in [Clients -> BOOLEAN] /\ calls \in [Clients -> 0..MaxCalls]

Counted == {t \in Clients : ~At(t, "outside")}
Hearing == {t \in Clients : pc[t] \in {"waiting", "woken"}}

\* mCallers counts the threads that use the object or wait until they may,
\* mInitDoneSemUsers those that have not come back from the wait, and the
\* event exists exactly while there are such: nobody waits for an event that
\* another has destroyed.
CountsAreTrue ==
    /\ TypeOK
    /\ mCallers = Cardinality(Counted)
    /\ mInitDoneSemUsers = Cardinality(Hearing)
    /\ (mInitDoneSem = "none") <=> Hearing = {}

\* While an uninit span runs, and after it, nobody uses the object: the data
\* that uninit takes down have no other user, also when it was limited, was
\* re-initialised, or its initialisation failed with callers waiting.
UninitAlone ==
    /\ \A t, u \in Closers \union {Owner} :
          At(t, "uninitialising") => Counted = {} /\ (At(u, "uninitialising") => u = t)
    /\ mState = "NotReady" => Counted = {}

\* A call that waits for the end of an initialisation comes back, whatever
\* its end, and an uninit that waits for callers does.
WaitsEnd ==
    /\ \A t \in Clients : At(t, "waiting") ~> At(t, "outside")
    /\ \A t \in Closers \union {Owner} : At(t, "emptying") ~> At(t, "done")
=============================================================================
