----------------------- MODULE VirtualBoxBase_proofs -----------------------
(***************************************************************************)
(* Proofs about VirtualBoxBase, for any clients, closers and number of     *)
(* calls, outside the two races that the code does not stand.              *)
(***************************************************************************)
EXTENDS VirtualBoxBase, FiniteSetTheorems, TLAPS

Users == {"inside", "again", "span", "unlock", "leaving"}
Closing == {"emptying", "uninitialising"}
Uninits == Closers \union {Owner}

\* mCallers counts the callers.
CountInv == mCallers = Cardinality(Counted)

\* mInitDoneSemUsers counts those who wait for the end of an initialisation or have
\* yet to come back, and the event exists while there are any.
HearInv ==
    /\ mInitDoneSemUsers = Cardinality(Hearing)
    /\ (mInitDoneSem = "none") <=> Hearing = {}

\* Nobody is past addCaller while the object is first initialised, before that,
\* or when it has failed.
UserInv ==
    \A t \in Clients : pc[t] \in Users =>
        mState \notin {"NotReady", "InitFailed"} /\ ~At(Owner, "initialising")

\* A span has the object in the state InInit, and its thread owns the lock.
SpanInv ==
    /\ At(Owner, "initialising") => mState = "InInit"
    /\ \A t \in Clients : /\ pc[t] \in {"again", "span", "unlock"} => locked = t
                          /\ At(t, "span") => mState = "InInit"

\* One thread at a time is in an uninit span; it hears of the end of the last
\* call no sooner than that.
CloseInv ==
    \A t \in Uninits : pc[t] \in Closing =>
        /\ mState = "InUninit"
        /\ \A u \in Uninits : pc[u] \in Closing => u = t
        /\ At(t, "emptying") /\ mZeroCallersSem = "set" => Counted = {}

\* The inductive invariant.
ObjectInv == TypeOK /\ CountInv /\ HearInv /\ UserInv /\ SpanInv /\ CloseInv /\ UninitAlone

\* The races that the theorem leaves out.
NoRace == "ReleaseInSpan" \in Avoided /\ "UninitInSpan" \in Avoided

----------------------------------------------------------------------------
(* Counting *)

LEMMA CountedFinite ==
    IsFiniteSet(Counted) /\ IsFiniteSet(Counted') /\ IsFiniteSet(Hearing) /\ IsFiniteSet(Hearing')
  BY BaseAssumption, FS_Subset DEF Counted, Hearing

\* addCaller counts one more.
LEMMA CountIn ==
    ASSUME TypeOK, CountInv, NEW t \in Clients, At(t, "outside"),
           NEW s \in Steps \ {"outside"}, Goto(t, s), mCallers' = mCallers + 1
    PROVE  CountInv' /\ mCallers' \in Nat
<1>1. Counted' = Counted \union {t} /\ t \notin Counted
  BY DEF TypeOK, Counted, At, Goto, Threads
<1>2. Cardinality(Counted') = Cardinality(Counted) + 1
  BY <1>1, CountedFinite, FS_AddElement
<1> QED BY <1>2 DEF CountInv, TypeOK

\* Who is counted off has been counted, and the last one leaves none behind.
LEMMA CountOut ==
    ASSUME TypeOK, CountInv, NEW t \in Clients, ~At(t, "outside"),
           Goto(t, "outside"), mCallers' = mCallers - 1
    PROVE  /\ CountInv' /\ mCallers' \in Nat
           /\ Counted' \subseteq Counted
           /\ mCallers = 1 => Counted' = {}
<1>1. Counted' = Counted \ {t} /\ t \in Counted
  BY DEF TypeOK, Counted, At, Goto, Threads
<1>2. Cardinality(Counted') = Cardinality(Counted) - 1
  BY <1>1, CountedFinite, FS_RemoveElement
<1>3. Cardinality(Counted') \in Nat
  BY CountedFinite, FS_CardinalityType
<1>4. mCallers = 1 => Cardinality(Counted') = 0
  BY <1>2 DEF CountInv
<1>5. mCallers = 1 => Counted' = {}
  BY <1>4, CountedFinite, FS_EmptySet
<1> QED BY <1>1, <1>2, <1>3, <1>5 DEF CountInv

\* The same for those who wait.
LEMMA HearIn ==
    ASSUME TypeOK, HearInv, NEW t \in Clients, At(t, "outside"), Goto(t, "waiting"),
           mInitDoneSemUsers' = mInitDoneSemUsers + 1, mInitDoneSem' # "none"
    PROVE  HearInv' /\ mInitDoneSemUsers' \in Nat
<1>1. Hearing' = Hearing \union {t} /\ t \notin Hearing
  BY DEF TypeOK, Hearing, At, Goto, Threads
<1>2. Cardinality(Hearing') = Cardinality(Hearing) + 1
  BY <1>1, CountedFinite, FS_AddElement
<1> QED BY <1>1, <1>2 DEF HearInv, TypeOK

LEMMA HearOut ==
    ASSUME TypeOK, HearInv, NEW t \in Clients, At(t, "woken"),
           NEW s \in {"inside", "outside"}, Goto(t, s),
           mInitDoneSemUsers' = mInitDoneSemUsers - 1,
           mInitDoneSem' = IF LastUser THEN "none" ELSE mInitDoneSem
    PROVE  HearInv' /\ mInitDoneSemUsers' \in Nat
<1>1. Hearing' = Hearing \ {t} /\ t \in Hearing
  BY DEF TypeOK, Hearing, At, Goto, Threads
<1>2. Cardinality(Hearing') = Cardinality(Hearing) - 1
  BY <1>1, CountedFinite, FS_RemoveElement
<1>3. Cardinality(Hearing') \in Nat
  BY CountedFinite, FS_CardinalityType
<1>4. LastUser <=> Cardinality(Hearing') = 0
  BY <1>2, <1>3 DEF HearInv, LastUser, TypeOK
<1>5. LastUser <=> Hearing' = {}
  BY <1>4, CountedFinite, FS_EmptySet
<1>6. mInitDoneSem # "none"
  BY <1>1 DEF HearInv
<1> QED BY <1>2, <1>3, <1>5, <1>6 DEF HearInv

LEMMA HearSame ==
    ASSUME TypeOK, HearInv, NEW t \in Threads, NEW s \in Steps, Goto(t, s),
           t \in Clients => (pc[t] \in {"waiting", "woken"} <=> s \in {"waiting", "woken"}),
           UNCHANGED mInitDoneSemUsers, (mInitDoneSem' = "none") <=> (mInitDoneSem = "none")
    PROVE  HearInv'
<1>1. Hearing' = Hearing
  BY DEF TypeOK, Hearing, At, Goto, Threads
<1> QED BY <1>1 DEF HearInv

\* The end of a span signals the event only if it exists.
LEMMA SignalledExists ==
    ASSUME TypeOK, HearInv, mInitDoneSem' = DoneSignalled
    PROVE  /\ mInitDoneSem' \in {"none", "clear", "set"}
           /\ (mInitDoneSem' = "none") <=> (mInitDoneSem = "none")
<1>1. mInitDoneSemUsers > 0 => Hearing # {}
  BY FS_EmptySet DEF HearInv
<1> QED BY <1>1 DEF HearInv, DoneSignalled, TypeOK

\* The other steps of a thread leave the count alone.
LEMMA CountSame ==
    ASSUME TypeOK, CountInv, NEW t \in Threads, NEW s \in Steps, Goto(t, s),
           t \in Clients => ~At(t, "outside") /\ s # "outside", mCallers' = mCallers
    PROVE  CountInv' /\ Counted' = Counted
<1>1. Counted' = Counted
  BY DEF TypeOK, Counted, At, Goto, Threads
<1> QED BY <1>1 DEF CountInv

----------------------------------------------------------------------------
(* The actions *)

LEMMA InitObject == Init => ObjectInv
<1> SUFFICES ASSUME Init PROVE ObjectInv
  OBVIOUS
<1> USE DEF Init
<1>1. Counted = {} /\ Hearing = {}
  BY DEF Counted, Hearing, At, Threads
<1>2. CountInv /\ HearInv
  BY <1>1, FS_EmptySet DEF CountInv, HearInv
<1>3. TypeOK
  BY BaseAssumption DEF TypeOK, Steps
<1>4. UserInv /\ SpanInv /\ CloseInv
  BY DEF UserInv, SpanInv, CloseInv, Users, Closing, Uninits, Threads, At
<1>5. UninitAlone
  BY <1>1 DEF UninitAlone, Threads, At
<1> QED BY <1>2, <1>3, <1>4, <1>5 DEF ObjectInv

LEMMA AddCallerObject ==
    ASSUME ObjectInv, NEW t \in Clients, NEW lim \in BOOLEAN, AddCaller(t, lim)
    PROVE  ObjectInv'
<1> USE DEF ObjectInv
<1>0. t \in Threads /\ t \notin Uninits /\ calls[t] + 1 \in 0..MaxCalls
  BY BaseAssumption DEF Threads, Uninits, AddCaller, TypeOK
<1>1. CASE UNCHANGED <<mCallers, doneVars, pc>>
  <2>1. TypeOK'
    BY <1>0, <1>1 DEF TypeOK, AddCaller, doneVars, dataVars
  <2>2. Counted' = Counted /\ Hearing' = Hearing
    BY <1>1 DEF Counted, Hearing, At
  <2> QED BY <1>1, <2>1, <2>2
        DEF AddCaller, dataVars, doneVars, CountInv, HearInv, UserInv, SpanInv, CloseInv, UninitAlone, At
<1>2. CASE Serves(lim) /\ mCallers' = mCallers + 1 /\ Goto(t, "inside") /\ UNCHANGED doneVars
  <2>1. CountInv' /\ mCallers' \in Nat
    BY <1>2, CountIn DEF AddCaller, Steps
  <2>6. HearInv'
    BY <1>0, <1>2, HearSame DEF AddCaller, Steps, doneVars, At
  <2>2. TypeOK'
    BY <1>0, <1>2, <2>1 DEF TypeOK, AddCaller, Goto, doneVars, dataVars, Steps
  <2>3. mState \in {"Ready", "Limited"}
    BY <1>2 DEF Serves
  <2>4. \A u \in Threads : pc'[u] = IF u = t THEN "inside" ELSE pc[u]
    BY <1>2 DEF Goto, TypeOK
  <2>5. UserInv' /\ SpanInv' /\ CloseInv' /\ UninitAlone'
    BY <1>0, <2>3, <2>4
       DEF AddCaller, dataVars, UserInv, SpanInv, CloseInv, UninitAlone, At, Users, Closing,
           Uninits, Threads
  <2> QED BY <2>1, <2>2, <2>5, <2>6
<1>3. CASE /\ mState = "InInit" /\ mCallers' = mCallers + 1
           /\ mInitDoneSem' = IF mInitDoneSem = "none" THEN "clear" ELSE mInitDoneSem
           /\ mInitDoneSemUsers' = mInitDoneSemUsers + 1 /\ Goto(t, "waiting")
  <2>1. CountInv' /\ mCallers' \in Nat
    BY <1>3, CountIn DEF AddCaller, Steps
  <2>6. HearInv'
    BY <1>3, HearIn DEF AddCaller
  <2>2. TypeOK'
    BY <1>0, <1>3, <2>1 DEF TypeOK, AddCaller, Goto, dataVars, Steps
  <2>4. \A u \in Threads : pc'[u] = IF u = t THEN "waiting" ELSE pc[u]
    BY <1>3 DEF Goto, TypeOK
  <2>5. UserInv' /\ SpanInv' /\ CloseInv' /\ UninitAlone'
    BY <1>0, <1>3, <2>4
       DEF AddCaller, dataVars, UserInv, SpanInv, CloseInv, UninitAlone, At, Users, Closing,
           Uninits, Threads
  <2> QED BY <2>1, <2>2, <2>5, <2>6
<1> QED BY <1>1, <1>2, <1>3 DEF AddCaller

\* A step of thread t to s that is neither counted nor uncounted.
LEMMA Moved ==
    ASSUME TypeOK, NEW t \in Threads, NEW s, Goto(t, s)
    PROVE  \A u \in Threads : pc'[u] = IF u = t THEN s ELSE pc[u]
  BY DEF Goto, TypeOK

LEMMA InitHeardObject ==
    ASSUME ObjectInv, NEW t \in Clients, InitHeard(t)
    PROVE  ObjectInv'
<1> USE DEF ObjectInv, InitHeard
<1>0. t \in Threads /\ t \notin Uninits
  BY BaseAssumption DEF Threads, Uninits
<1>1. CountInv' /\ Counted' = Counted
  BY <1>0, CountSame DEF Steps, callerVars, At
<1>5. HearInv'
  BY <1>0, HearSame DEF Steps, doneVars, At
<1>2. TypeOK'
  BY <1>0 DEF TypeOK, Goto, callerVars, doneVars, dataVars, callVars, Steps
<1>3. \A u \in Threads : pc'[u] = IF u = t THEN "woken" ELSE pc[u]
  BY <1>0, Moved
<1>4. UserInv' /\ SpanInv' /\ CloseInv' /\ UninitAlone'
  BY <1>0, <1>1, <1>3
     DEF callerVars, dataVars, UserInv, SpanInv, CloseInv, UninitAlone, At, Users, Closing,
         Uninits, Threads
<1> QED BY <1>1, <1>2, <1>4, <1>5

\* A thread that is counted off, in a state in which no span begins or ends.
LEMMA UncountObject ==
    ASSUME ObjectInv, NEW t \in Clients, ~At(t, "outside"), Uncount, Goto(t, "outside"),
           UNCHANGED <<mState, dataVars, callVars>>,
           HearInv', mInitDoneSemUsers' \in Nat, mInitDoneSem' \in {"none", "clear", "set"}
    PROVE  ObjectInv'
<1> USE DEF ObjectInv, Uncount
<1>0. t \in Threads /\ t \notin Uninits
  BY BaseAssumption DEF Threads, Uninits
<1>1. /\ CountInv' /\ mCallers' \in Nat
      /\ Counted' \subseteq Counted
      /\ mCallers = 1 => Counted' = {}
  BY CountOut
<1>2. TypeOK'
  BY <1>0, <1>1 DEF TypeOK, Goto, dataVars, callVars, Steps
<1>3. \A u \in Threads : pc'[u] = IF u = t THEN "outside" ELSE pc[u]
  BY <1>0, Moved
<1>4. UserInv' /\ SpanInv' /\ UninitAlone'
  BY <1>0, <1>1, <1>3
     DEF dataVars, UserInv, SpanInv, UninitAlone, At, Users, Uninits, Threads
<1>5. CloseInv'
  BY <1>0, <1>1, <1>3 DEF CloseInv, TellsUninit, At, Closing, Uninits, Threads
<1> QED BY <1>1, <1>2, <1>4, <1>5

LEMMA ReenterObject ==
    ASSUME ObjectInv, NEW t \in Clients, Reenter(t)
    PROVE  ObjectInv'
<1> USE DEF ObjectInv, Reenter
<1>0. t \in Threads /\ t \notin Uninits
  BY BaseAssumption DEF Threads, Uninits
<1>1. HearInv' /\ mInitDoneSemUsers' \in Nat /\ mInitDoneSem' \in {"none", "clear", "set"}
  <2>1. \E s \in {"inside", "outside"} : Goto(t, s)
    OBVIOUS
  <2> QED BY <2>1, HearOut DEF TypeOK
<1>2. CASE mState = "Ready" /\ Goto(t, "inside") /\ UNCHANGED callerVars
  <2>1. CountInv' /\ Counted' = Counted
    BY <1>0, <1>2, CountSame DEF Steps, callerVars, At
  <2>2. TypeOK'
    BY <1>0, <1>1, <1>2 DEF TypeOK, Goto, callerVars, dataVars, callVars, Steps
  <2>3. \A u \in Threads : pc'[u] = IF u = t THEN "inside" ELSE pc[u]
    BY <1>0, <1>2, Moved
  <2>4. UserInv' /\ SpanInv' /\ CloseInv' /\ UninitAlone'
    BY <1>0, <1>2, <2>1, <2>3
       DEF callerVars, dataVars, UserInv, SpanInv, CloseInv, UninitAlone, At, Users, Closing,
           Uninits, Threads
  <2> QED BY <1>1, <2>1, <2>2, <2>4
<1>3. CASE mState # "Ready" /\ Goto(t, "outside") /\ Uncount
  BY <1>1, <1>3, UncountObject DEF At
<1> QED BY <1>2, <1>3

LEMMA ReleaseObject ==
    ASSUME NoRace, ObjectInv, NEW t \in Clients, Release(t)
    PROVE  ObjectInv'
<1> USE DEF ObjectInv, Release
<1>1. pc[t] \in Users /\ ~At(t, "outside")
  BY DEF Users, At
<1>2. Releasable
  BY <1>1 DEF NoRace, UserInv, Releasable, TypeOK
<1>0. t \in Threads /\ pc[t] \notin {"waiting", "woken"}
  BY DEF Threads
<1>3. HearInv' /\ mInitDoneSemUsers' \in Nat /\ mInitDoneSem' \in {"none", "clear", "set"}
  BY <1>0, HearSame DEF TypeOK, doneVars, Steps
<1> QED BY <1>1, <1>2, <1>3, UncountObject

LEMMA BeginInitObject == ASSUME ObjectInv, BeginInit PROVE ObjectInv'
<1> USE DEF ObjectInv, BeginInit
<1>0. Owner \in Threads /\ Owner \notin Clients /\ Owner \notin Closers
  BY BaseAssumption DEF Threads
<1>1. CountInv' /\ Counted' = Counted
  BY <1>0, CountSame DEF Steps, callerVars
<1>5. HearInv'
  BY <1>0, HearSame DEF Steps, doneVars
<1>2. TypeOK'
  BY <1>0 DEF TypeOK, Goto, callerVars, doneVars, dataVars, callVars, Steps
<1>3. \A u \in Threads : pc'[u] = IF u = Owner THEN "initialising" ELSE pc[u]
  BY <1>0, Moved
<1>4. UserInv' /\ SpanInv' /\ CloseInv' /\ UninitAlone'
  BY <1>0, <1>1, <1>3
     DEF callerVars, dataVars, UserInv, SpanInv, CloseInv, UninitAlone, At, Users, Closing,
         Uninits, Threads
<1> QED BY <1>1, <1>2, <1>4, <1>5

LEMMA EndInitObject == ASSUME ObjectInv, EndInit PROVE ObjectInv'
<1> USE DEF ObjectInv
<1>0. Owner \in Threads /\ Owner \notin Clients /\ Owner \notin Closers
  BY BaseAssumption DEF Threads
<1>1. PICK s \in {"done", "failed"} :
        Goto(Owner, s) /\ mState' \in {"Ready", "Limited", "InitFailed"} /\ mAccessible' \in BOOLEAN
  BY DEF EndInit, TypeOK
<1>2. CountInv' /\ Counted' = Counted
  BY <1>0, <1>1, CountSame DEF EndInit, Steps, callerVars
<1>7. mInitDoneSem' \in {"none", "clear", "set"} /\ HearInv'
  BY <1>0, <1>1, SignalledExists, HearSame DEF EndInit, Steps
<1>3. TypeOK'
  BY <1>0, <1>1, <1>7 DEF EndInit, TypeOK, Goto, callerVars, callVars, Steps
<1>4. \A u \in Threads : pc'[u] = IF u = Owner THEN s ELSE pc[u]
  BY <1>0, <1>1, Moved
<1>5. mState = "InInit" /\ \A t \in Clients : pc[t] \notin Users
  BY DEF EndInit, SpanInv, UserInv, At
<1>6. UserInv' /\ SpanInv' /\ CloseInv' /\ UninitAlone'
  BY <1>0, <1>1, <1>2, <1>4, <1>5
     DEF UserInv, SpanInv, CloseInv, UninitAlone, At, Users, Closing, Uninits, Threads
<1> QED BY <1>2, <1>3, <1>6, <1>7

LEMMA LockObject ==
    ASSUME ObjectInv, NEW t \in Clients, Lock(t)
    PROVE  ObjectInv'
<1> USE DEF ObjectInv
<1>0. t \in Threads /\ t \notin Uninits
  BY BaseAssumption DEF Threads, Uninits
<1>1. PICK s \in {"unlock", "again"} : Goto(t, s)
  BY DEF Lock
<1>2. CountInv' /\ Counted' = Counted
  BY <1>0, <1>1, CountSame DEF Lock, Steps, callerVars, At
<1>3. HearInv'
  BY <1>0, <1>1, HearSame DEF Lock, Steps, doneVars, At
<1>4. TypeOK'
  BY <1>0, <1>1
     DEF Lock, TypeOK, Goto, callerVars, doneVars, dataVars, callVars, Steps
<1>5. \A u \in Threads : pc'[u] = IF u = t THEN s ELSE pc[u]
  BY <1>0, <1>1, Moved
<1>6. \A u \in Clients : pc[u] \notin {"again", "span", "unlock"}
  BY BaseAssumption DEF Lock, SpanInv, Threads
<1>7. UserInv' /\ SpanInv' /\ CloseInv' /\ UninitAlone'
  BY <1>0, <1>1, <1>2, <1>5, <1>6
     DEF Lock, callerVars, dataVars, UserInv, SpanInv, CloseInv, UninitAlone, At, Users,
         Closing, Uninits, Threads
<1> QED BY <1>2, <1>3, <1>4, <1>7

LEMMA BeginReadySpanObject ==
    ASSUME ObjectInv, NEW t \in Clients, BeginReadySpan(t)
    PROVE  ObjectInv'
<1> USE DEF ObjectInv
<1>0. t \in Threads /\ t \notin Uninits
  BY BaseAssumption DEF Threads, Uninits
<1>1. PICK s \in {"unlock", "span"} : Goto(t, s) /\ (s = "span" => mState = "Limited" /\ mState' = "InInit")
                                      /\ (s = "unlock" => UNCHANGED mState)
  BY DEF BeginReadySpan
<1>2. CountInv' /\ Counted' = Counted
  BY <1>0, <1>1, CountSame DEF BeginReadySpan, Steps, callerVars, At
<1>3. HearInv'
  BY <1>0, <1>1, HearSame DEF BeginReadySpan, Steps, doneVars, At
<1>4. TypeOK'
  BY <1>0, <1>1
     DEF BeginReadySpan, TypeOK, Goto, callerVars, doneVars, dataVars, callVars, Steps
<1>5. \A u \in Threads : pc'[u] = IF u = t THEN s ELSE pc[u]
  BY <1>0, <1>1, Moved
<1>7. UserInv' /\ SpanInv' /\ CloseInv' /\ UninitAlone'
  BY <1>0, <1>1, <1>2, <1>5
     DEF BeginReadySpan, callerVars, dataVars, UserInv, SpanInv, CloseInv, UninitAlone, At, Users,
         Closing, Uninits, Threads
<1> QED BY <1>2, <1>3, <1>4, <1>7

LEMMA EndReadySpanObject ==
    ASSUME ObjectInv, NEW t \in Clients, EndReadySpan(t)
    PROVE  ObjectInv'
<1> USE DEF ObjectInv
<1>0. t \in Threads /\ t \notin Uninits
  BY BaseAssumption DEF Threads, Uninits
<1>1. PICK s \in {"unlock"} : Goto(t, s)
  BY DEF EndReadySpan
<1>2. CountInv' /\ Counted' = Counted
  BY <1>0, <1>1, CountSame DEF EndReadySpan, Steps, callerVars, At
<1>3. mInitDoneSem' \in {"none", "clear", "set"} /\ HearInv'
  BY <1>0, <1>1, SignalledExists, HearSame DEF EndReadySpan, Steps, At
<1>4. TypeOK'
  BY <1>0, <1>1, <1>3
     DEF EndReadySpan, TypeOK, Goto, callerVars, doneVars, dataVars, callVars, Steps
<1>5. \A u \in Threads : pc'[u] = IF u = t THEN s ELSE pc[u]
  BY <1>0, <1>1, Moved
<1>6. mState = "InInit"
  BY DEF EndReadySpan, SpanInv
<1>7. UserInv' /\ SpanInv' /\ CloseInv' /\ UninitAlone'
  BY <1>0, <1>1, <1>2, <1>5, <1>6
     DEF EndReadySpan, callerVars, dataVars, UserInv, SpanInv, CloseInv, UninitAlone, At, Users,
         Closing, Uninits, Threads
<1> QED BY <1>2, <1>3, <1>4, <1>7

LEMMA UnlockObject ==
    ASSUME ObjectInv, NEW t \in Clients, Unlock(t)
    PROVE  ObjectInv'
<1> USE DEF ObjectInv
<1>0. t \in Threads /\ t \notin Uninits
  BY BaseAssumption DEF Threads, Uninits
<1>1. PICK s \in {"leaving"} : Goto(t, s)
  BY DEF Unlock
<1>2. CountInv' /\ Counted' = Counted
  BY <1>0, <1>1, CountSame DEF Unlock, Steps, callerVars, At
<1>3. HearInv'
  BY <1>0, <1>1, HearSame DEF Unlock, Steps, doneVars, At
<1>4. TypeOK'
  BY <1>0, <1>1
     DEF Unlock, TypeOK, Goto, callerVars, doneVars, dataVars, callVars, Steps
<1>5. \A u \in Threads : pc'[u] = IF u = t THEN s ELSE pc[u]
  BY <1>0, <1>1, Moved
<1>7. UserInv' /\ SpanInv' /\ CloseInv' /\ UninitAlone'
  BY <1>0, <1>1, <1>2, <1>5
     DEF Unlock, callerVars, dataVars, UserInv, SpanInv, CloseInv, UninitAlone, At, Users,
         Closing, Uninits, Threads
<1> QED BY <1>2, <1>3, <1>4, <1>7

----------------------------------------------------------------------------
(* uninit *)

\* The part of the invariant that a step of a closer or the owner keeps.
LEMMA CloserMoves ==
    ASSUME ObjectInv, NEW t \in Uninits, NEW s \in Steps, Goto(t, s), UNCHANGED <<mCallers, doneVars>>
    PROVE  /\ t \in Threads /\ t \notin Clients
           /\ CountInv' /\ Counted' = Counted /\ HearInv'
           /\ \A u \in Threads : pc'[u] = IF u = t THEN s ELSE pc[u]
<1> USE DEF ObjectInv
<1>0. t \in Threads /\ t \notin Clients
  BY BaseAssumption DEF Threads, Uninits
<1>1. CountInv' /\ Counted' = Counted
  BY <1>0, CountSame
<1>2. HearInv'
  BY <1>0, HearSame DEF doneVars
<1> QED BY <1>0, <1>1, <1>2, Moved

LEMMA UninitObject ==
    ASSUME NoRace, ObjectInv, NEW t \in Uninits, Uninit(t)
    PROVE  ObjectInv'
<1> USE DEF ObjectInv
<1>0. UNCHANGED <<mCallers, doneVars>> /\ mState # "InInit" /\ ~At(t, "initialising")
  BY DEF Uninit, NoRace, At
<1>1. CASE mState \in {"NotReady", "InUninit"}
  <2>1. Goto(t, "done") /\ UNCHANGED <<mState, mZeroCallersSem>>
    BY <1>1 DEF Uninit
  <2>2. /\ t \in Threads /\ t \notin Clients
        /\ CountInv' /\ Counted' = Counted /\ HearInv'
        /\ \A u \in Threads : pc'[u] = IF u = t THEN "done" ELSE pc[u]
    BY <1>0, <2>1, CloserMoves DEF Steps
  <2>3. TypeOK'
    BY <2>1, <2>2 DEF Uninit, TypeOK, Goto, doneVars, dataVars, callVars, Steps
  <2>4. UserInv' /\ SpanInv' /\ CloseInv' /\ UninitAlone'
    BY <2>1, <2>2
       DEF Uninit, dataVars, UserInv, SpanInv, CloseInv, UninitAlone, At, Users, Closing,
           Uninits, Threads
  <2> QED BY <2>2, <2>3, <2>4
<1>2. CASE mState \notin {"NotReady", "InUninit"}
  <2> DEFINE s == IF MustWait THEN "emptying" ELSE "uninitialising"
  <2>1. /\ Goto(t, s) /\ mState' = "InUninit"
        /\ mZeroCallersSem' = IF MustWait THEN "clear" ELSE mZeroCallersSem
    BY <1>2 DEF Uninit
  <2>2. /\ t \in Threads /\ t \notin Clients
        /\ CountInv' /\ Counted' = Counted /\ HearInv'
        /\ \A u \in Threads : pc'[u] = IF u = t THEN s ELSE pc[u]
    BY <1>0, <2>1, CloserMoves DEF Steps
  <2>3. TypeOK'
    BY <2>1, <2>2 DEF Uninit, TypeOK, Goto, doneVars, dataVars, callVars, Steps
  <2>4. ~MustWait => Counted = {}
    BY CountedFinite, FS_EmptySet DEF MustWait, CountInv, TypeOK
  <2>5. \A u \in Uninits : pc[u] \notin Closing
    BY <1>2 DEF CloseInv
  <2>6. UserInv' /\ SpanInv'
    BY <1>0, <2>1, <2>2
       DEF Uninit, dataVars, UserInv, SpanInv, At, Users, Uninits, Threads
  <2>7. CloseInv' /\ UninitAlone'
    BY <2>1, <2>2, <2>4, <2>5 DEF CloseInv, UninitAlone, At, Closing, Uninits, Threads
  <2> QED BY <2>2, <2>3, <2>6, <2>7
<1> QED BY <1>1, <1>2

LEMMA EmptiedObject ==
    ASSUME ObjectInv, NEW t \in Uninits, Emptied(t)
    PROVE  ObjectInv'
<1> USE DEF ObjectInv
<1>1. /\ t \in Threads /\ t \notin Clients
      /\ CountInv' /\ Counted' = Counted /\ HearInv'
      /\ \A u \in Threads : pc'[u] = IF u = t THEN "uninitialising" ELSE pc[u]
  BY CloserMoves DEF Emptied, Steps
<1>2. TypeOK'
  BY <1>1 DEF Emptied, TypeOK, Goto, doneVars, dataVars, callVars, Steps
<1>3. Counted = {} /\ mState = "InUninit" /\ \A u \in Uninits : pc[u] \in Closing => u = t
  BY DEF Emptied, CloseInv, Closing, At
<1>4. UserInv' /\ SpanInv' /\ CloseInv' /\ UninitAlone'
  BY <1>1, <1>3
     DEF Emptied, dataVars, UserInv, SpanInv, CloseInv, UninitAlone, At, Users, Closing,
         Uninits, Threads
<1> QED BY <1>1, <1>2, <1>4

LEMMA EndUninitObject ==
    ASSUME ObjectInv, NEW t \in Uninits, EndUninit(t)
    PROVE  ObjectInv'
<1> USE DEF ObjectInv
<1>1. /\ t \in Threads /\ t \notin Clients
      /\ CountInv' /\ Counted' = Counted /\ HearInv'
      /\ \A u \in Threads : pc'[u] = IF u = t THEN "done" ELSE pc[u]
  BY CloserMoves DEF EndUninit, Steps, callerVars
<1>2. TypeOK'
  BY <1>1 DEF EndUninit, TypeOK, Goto, callerVars, doneVars, dataVars, callVars, Steps
<1>3. Counted = {} /\ mState = "InUninit" /\ \A u \in Uninits : pc[u] \in Closing => u = t
  BY DEF EndUninit, CloseInv, UninitAlone, Uninits, Closing, At
<1>4. \A u \in Clients : pc[u] = "outside"
  BY <1>3 DEF Counted, At
<1>5. UserInv' /\ SpanInv' /\ CloseInv' /\ UninitAlone'
  BY <1>1, <1>3, <1>4
     DEF EndUninit, dataVars, UserInv, SpanInv, CloseInv, UninitAlone, At, Users, Closing,
         Uninits, Threads
<1> QED BY <1>1, <1>2, <1>5

----------------------------------------------------------------------------
(* The theorems *)

LEMMA NextObject == ASSUME NoRace, ObjectInv, [Next]_vars PROVE ObjectInv'
<1>1. ASSUME NEW t \in Clients, NEW lim \in BOOLEAN, AddCaller(t, lim) PROVE ObjectInv'
  BY <1>1, AddCallerObject
<1>2. ASSUME NEW t \in Clients, Proceed(t) PROVE ObjectInv'
  BY <1>2, InitHeardObject, ReenterObject, LockObject, BeginReadySpanObject,
     EndReadySpanObject, UnlockObject, ReleaseObject DEF Proceed
<1>3. CASE BeginInit \/ EndInit
  BY <1>3, BeginInitObject, EndInitObject
<1>4. ASSUME NEW t \in Uninits, Uninit(t) \/ Close(t) PROVE ObjectInv'
  BY <1>4, UninitObject, EmptiedObject, EndUninitObject DEF Close
<1>5. CASE UNCHANGED vars
  BY <1>5 DEF vars, callerVars, doneVars, dataVars, callVars, ObjectInv, TypeOK, CountInv,
              HearInv, UserInv, SpanInv, CloseInv, UninitAlone, Counted, Hearing, At
<1> QED BY <1>1, <1>2, <1>3, <1>4, <1>5 DEF Next, Uninits

\* The invariant holds for ever if the races are avoided.
THEOREM ObjectAlways == ASSUME NoRace PROVE Spec => []ObjectInv
<1>1. Init => ObjectInv
  BY InitObject
<1>2. ObjectInv /\ [Next]_vars => ObjectInv'
  BY NextObject
<1> QED BY <1>1, <1>2, PTL DEF Spec

\* uninit is alone with the object (AutoUninitSpan), for any number of clients and
\* closers and of calls.
THEOREM UninitAloneAlways == ASSUME NoRace PROVE Spec => []UninitAlone
<1>1. ObjectInv => UninitAlone
  BY DEF ObjectInv
<1> QED BY <1>1, ObjectAlways, PTL

\* The counters count, and the event is there while somebody needs it (addCaller,
\* releaseCaller), for any number of clients and closers and of calls.
THEOREM CountsAreTrueAlways == ASSUME NoRace PROVE Spec => []CountsAreTrue
<1>1. ObjectInv => CountsAreTrue
  BY DEF ObjectInv, CountInv, HearInv, CountsAreTrue
<1> QED BY <1>1, ObjectAlways, PTL
=============================================================================
