--------------------------- MODULE TMTimer_proofs ---------------------------
(***************************************************************************)
(* Proofs about TMTimer, for any timers, threads and bounds: what holds    *)
(* however the callers race, what holds when the calls on one timer come   *)
(* one after the other and neither race of Races is met, and the order     *)
(* when besides EMT alone sets timers.                                     *)
(***************************************************************************)
EXTENDS TMTimer, TLAPS

----------------------------------------------------------------------------
(* The sequences *)

\* Pushing t in front of a list that does not hold it (tmTimerLink).
LEMMA PushFacts ==
    ASSUME NEW S, NEW s \in Seq(S), NEW t \in S
    PROVE  /\ <<t>> \o s \in Seq(S)
           /\ Range(<<t>> \o s) = Range(s) \union {t}
           /\ IsInjective(s) /\ t \notin Range(s) => IsInjective(<<t>> \o s)
<1> DEFINE p == <<t>> \o s
<1>1. p \in Seq(S) /\ Len(p) = Len(s) + 1 /\ p[1] = t
  OBVIOUS
<1>2. \A i \in 1 .. Len(s) : p[i + 1] = s[i]
  OBVIOUS
<1>3. DOMAIN p = 1 .. Len(s) + 1 /\ DOMAIN s = 1 .. Len(s) /\ Len(s) \in Nat
  BY <1>1
<1>4. \A i \in DOMAIN p : i = 1 \/ (i - 1 \in 1 .. Len(s) /\ p[i] = s[i - 1])
  BY <1>2, <1>3
<1>5. Range(p) = Range(s) \union {t}
  <2>1. ASSUME NEW x \in Range(p) PROVE x \in Range(s) \union {t}
    BY <1>1, <1>3, <1>4 DEF Range
  <2>2. ASSUME NEW x \in Range(s) PROVE x \in Range(p)
    <3>1. PICK i \in 1 .. Len(s) : x = s[i]
      BY <1>3 DEF Range
    <3>2. i + 1 \in DOMAIN p /\ p[i + 1] = x
      BY <3>1, <1>2, <1>3
    <3> QED BY <3>2 DEF Range
  <2>3. t \in Range(p)
    BY <1>1, <1>3 DEF Range
  <2> QED BY <2>1, <2>2, <2>3
<1>6. ASSUME IsInjective(s), t \notin Range(s) PROVE IsInjective(p)
  <2> SUFFICES ASSUME NEW i \in DOMAIN p, NEW j \in DOMAIN p, p[i] = p[j] PROVE i = j
    BY DEF IsInjective
  <2>1. \A k \in 1 .. Len(s) : s[k] # t
    BY <1>3, <1>6 DEF Range
  <2>2. \A k, l \in 1 .. Len(s) : s[k] = s[l] => k = l
    BY <1>3, <1>6 DEF IsInjective
  <2> QED BY <2>1, <2>2, <1>1, <1>3, <1>4
<1> QED BY <1>1, <1>5, <1>6

\* Taking the head off a list without repetitions (the batch).
LEMMA PopFacts ==
    ASSUME NEW S, NEW s \in Seq(S), s # <<>>
    PROVE  /\ Head(s) \in S /\ Tail(s) \in Seq(S)
           /\ Head(s) \in Range(s) /\ Range(Tail(s)) \subseteq Range(s)
           /\ IsInjective(s) => IsInjective(Tail(s)) /\ Head(s) \notin Range(Tail(s))
<1> DEFINE r == Tail(s)
<1>1. Head(s) \in S /\ r \in Seq(S) /\ Len(s) \in Nat \ {0} /\ Len(r) = Len(s) - 1
  OBVIOUS
<1>2. Head(s) = s[1] /\ \A i \in 1 .. Len(r) : r[i] = s[i + 1] /\ i + 1 \in 1 .. Len(s)
  BY <1>1
<1>3. DOMAIN r = 1 .. Len(r) /\ DOMAIN s = 1 .. Len(s) /\ Len(r) \in Nat
  BY <1>1
<1>4. Head(s) \in Range(s) /\ Range(r) \subseteq Range(s)
  BY <1>1, <1>2, <1>3 DEF Range
<1>5. ASSUME IsInjective(s) PROVE IsInjective(r) /\ Head(s) \notin Range(r)
  <2>1. \A k, l \in 1 .. Len(s) : s[k] = s[l] => k = l
    BY <1>3, <1>5 DEF IsInjective
  <2>2. IsInjective(r)
    BY <2>1, <1>2, <1>3 DEF IsInjective
  <2>3. \A i \in 1 .. Len(r) : r[i] # s[1]
    BY <2>1, <1>1, <1>2, <1>3
  <2> QED BY <2>2, <2>3, <1>2, <1>3 DEF Range
<1> QED BY <1>1, <1>4, <1>5

\* What is in a list is at its head or behind it.
LEMMA RestFacts ==
    ASSUME NEW S, NEW s \in Seq(S), s # <<>>
    PROVE  Range(s) = Range(Tail(s)) \union {Head(s)}
<1> DEFINE r == Tail(s)
<1>1. r \in Seq(S) /\ Len(s) \in Nat \ {0} /\ Len(r) = Len(s) - 1
  OBVIOUS
<1>2. Head(s) = s[1] /\ \A i \in 1 .. Len(r) : r[i] = s[i + 1]
  BY <1>1
<1>3. DOMAIN s = 1 .. Len(s) /\ DOMAIN r = 1 .. Len(r)
  BY <1>1
<1>4. ASSUME NEW x \in Range(s) PROVE x = Head(s) \/ x \in Range(r)
  <2>1. PICK i \in 1 .. Len(s) : x = s[i]
    BY <1>3 DEF Range
  <2>2. CASE i = 1
    BY <1>2, <2>1, <2>2
  <2>3. CASE i # 1
    <3>1. i - 1 \in 1 .. Len(r) /\ r[i - 1] = x
      BY <1>1, <1>2, <2>1, <2>3
    <3> QED BY <1>3, <3>1 DEF Range
  <2> QED BY <2>2, <2>3
<1>5. Head(s) \in Range(s) /\ Range(r) \subseteq Range(s)
  BY PopFacts
<1> QED BY <1>4, <1>5

\* The empty list.
LEMMA EmptyFacts ==
    ASSUME NEW S
    PROVE  <<>> \in Seq(S) /\ Range(<<>>) = {} /\ IsInjective(<<>>)
BY DEF Range, IsInjective

----------------------------------------------------------------------------
(* Types *)

CallLabels == Labels \ {"ready"}

\* What the places of the threads say: in a call there is an operation and a
\* timer, and the pointers EMT is about to follow are not null.
Shape ==
    /\ \A th \in Threads : pc[th] \in CallLabels =>
          call[th].timer \in Timers /\ call[th].op \in Ops
    /\ pc[EMT] = "pick" => batch # <<>>
    /\ pc[EMT] \in {"one", "load", "walk"} => cur \in Timers
    /\ pc[EMT] = "walk" => walk \in Timers

TypeInv == TypeOK /\ Shape

LEMMA EmtIsThread == EMT \in Threads /\ \A th \in Others : th \in Threads /\ th # EMT
BY ThreadAssumption DEF Threads

LEMMA NoCallType == NoCall \in Calls /\ NoCall.timer = Nil
BY BoundAssumption DEF NoCall, Calls, Times, States, Settled, Pending

LEMMA TypeInit == Init => TypeInv
<1> SUFFICES ASSUME Init PROVE TypeInv
  OBVIOUS
<1> USE BoundAssumption, EmtIsThread, NoCallType
<1>1. sched \in Seq(Timers) /\ batch \in Seq(Timers) /\ call \in [Threads -> Calls]
  BY DEF Init
<1>2. /\ qExpire \in 0 .. Infinity /\ calls \in 0 .. MaxCalls
      /\ 0 \in Times /\ now = 0 /\ runNow = 0 /\ key = 0
  BY DEF Init, Times, Infinity
<1>3. TypeOK
  BY <1>1, <1>2 DEF Init, TypeOK, Labels, EmtLabels, States, Settled
<1>4. Shape
  BY DEF Init, Shape, CallLabels, Labels
<1> QED BY <1>3, <1>4 DEF TypeInv

LEMMA TargetType ==
    ASSUME NEW op \in Ops, NEW s
    PROVE  Target(op, s) \in Pending
BY DEF Ops, Target, SetTarget, StopTarget, DestroyTarget, Pending

\* A turn that fails leaves the types alone, and the operation and the timer.
LEMMA CallUpdate ==
    ASSUME NEW c \in Calls
    PROVE  /\ \A n \in 0 .. MaxRetries :
                 LET d == [c EXCEPT !.tries = n] IN
                 d \in Calls /\ d.timer = c.timer /\ d.op = c.op
           /\ \A s \in States :
                 LET d == [c EXCEPT !.seen = s] IN
                 d \in Calls /\ d.timer = c.timer /\ d.op = c.op
BY DEF Calls

LEMMA RetryType ==
    ASSUME TypeInv, NEW th \in Threads, pc[th] \in {"read", "try", "fall"}, Retry(th)
    PROVE  /\ pc' \in [Threads -> Labels \union EmtLabels]
           /\ pc'[th] \in {"ready", "read"}
           /\ \A other \in Threads \ {th} : pc'[other] = pc[other] /\ call'[other] = call[other]
           /\ call' \in [Threads -> Calls]
           /\ pc'[th] = "read" => call'[th].timer = call[th].timer /\ call'[th].op = call[th].op
<1>1. pc \in [Threads -> Labels \union EmtLabels] /\ call \in [Threads -> Calls]
  BY DEF TypeInv, TypeOK
<1>2. CASE call[th].tries < MaxRetries
  <2>1. call[th].tries + 1 \in 0 .. MaxRetries
    BY <1>1, <1>2, BoundAssumption DEF Calls
  <2>2. call' = [call EXCEPT ![th] = [call[th] EXCEPT !.tries = call[th].tries + 1]]
    BY <1>2 DEF Retry
  <2>3. pc' = [pc EXCEPT ![th] = "read"]
    BY <1>2 DEF Retry, Goto
  <2> QED BY <1>1, <2>1, <2>2, <2>3, CallUpdate DEF Labels
<1>3. CASE ~(call[th].tries < MaxRetries)
  BY <1>1, <1>3, NoCallType DEF Retry, Return, Goto, Labels
<1> QED BY <1>2, <1>3

LEMMA TypeCall ==
    ASSUME TypeInv, NEW th \in Threads, BeginSome(th) \/ CallStep(th)
    PROVE  TypeInv'
<1> USE EmtIsThread, NoCallType, BoundAssumption
       DEF TypeInv, TypeOK, Shape, CallLabels, Labels,
           timerVars, listVars, emtVars, runVars, callVars, envVars, Goto, Return
<1>1. CASE BeginSome(th)
  <2>1. PICK o \in Ops, t \in Timers, e \in Times : Begin(th, o, t, e)
    BY <1>1 DEF BeginSome
  <2> DEFINE c == [NoCall EXCEPT !.op = o, !.timer = t, !.expire = e]
  <2>2. c \in Calls /\ c.timer = t /\ c.op = o
    BY <2>1 DEF NoCall, Calls, States, Settled
  <2>3. call' = [call EXCEPT ![th] = c] /\ pc' = [pc EXCEPT ![th] = "read"]
    BY <2>1 DEF Begin
  <2> HIDE DEF c
  <2> QED BY <2>1, <2>2, <2>3 DEF Begin
<1>2. CASE Read(th)
  <2>1. CASE Retry(th)
    BY <1>2, <2>1, RetryType DEF Read
  <2>2. CASE Return(th)
    BY <1>2, <2>2 DEF Read
  <2>3. CASE /\ call' = [call EXCEPT ![th].seen = state[call[th].timer]]
             /\ Goto(th, "try")
    <3>1. call' = [call EXCEPT ![th] = [call[th] EXCEPT !.seen = state[call[th].timer]]]
      BY <2>3
    <3> QED BY <1>2, <2>3, <3>1, CallUpdate DEF Read
  <2> QED BY <1>2, <2>1, <2>2, <2>3 DEF Read
<1>3. CASE Try(th)
  <2>1. CASE Retry(th) /\ UNCHANGED state
    BY <1>3, <2>1, RetryType DEF Try
  <2>2. CASE ~(Retry(th) /\ UNCHANGED state)
    BY <1>3, <2>2, TargetType, SMTT(30) DEF Try, States
  <2> QED BY <2>1, <2>2
<1>4. CASE StopFallThrough(th)
  <2>1. CASE Retry(th) /\ UNCHANGED state
    BY <1>4, <2>1, RetryType, SMTT(30) DEF StopFallThrough
  <2>2. CASE ~(Retry(th) /\ UNCHANGED state)
    BY <1>4, <2>2 DEF StopFallThrough, States, Pending
  <2> QED BY <2>1, <2>2
<1>5. CASE Link(th)
  BY <1>5, PushFacts DEF Link
<1>6. CASE WriteExpire(th)
  BY <1>6 DEF WriteExpire, Calls
<1>7. CASE Arm(th)
  BY <1>7 DEF Arm, States, Pending
<1>8. CASE Schedule(th)
  BY <1>8, ZenonT(30) DEF Schedule, EmtLabels
<1> QED BY <1>1, <1>2, <1>3, <1>4, <1>5, <1>6, <1>7, <1>8 DEF CallStep

LEMMA TimeFacts == 0 \in Times /\ Infinity \in 0 .. Infinity /\ Times \subseteq 0 .. Infinity
BY BoundAssumption DEF Times, Infinity

LEMMA StateFacts == Settled \subseteq States /\ {"STOPPED", "ACTIVE", "EXPIRED", "FREE"} \subseteq States
BY DEF States, Settled

LEMMA TypeEmt ==
    ASSUME TypeInv, EmtStep
    PROVE  TypeInv'
<1> USE EmtIsThread, TimeFacts, StateFacts
       DEF TypeInv, TypeOK, Shape, CallLabels, Labels, EmtLabels, AfterBatch,
           timerVars, listVars, emtVars, runVars, callVars, envVars, Goto
<1>1. CASE TakeSchedule
  BY <1>1, EmptyFacts DEF TakeSchedule
<1>2. CASE Pick
  BY <1>2, PopFacts DEF Pick
<1>3. CASE ScheduleOne
  <2>1. /\ next' \in [Timers -> Timers \union {Nil}]
        /\ prev' \in [Timers -> Timers \union {Nil}]
        /\ head' \in Timers \union {Nil}
        /\ qExpire' \in 0 .. Infinity
    <3>1. CASE UNCHANGED listVars
      BY <3>1
    <3>2. CASE Unlink(cur)
      BY <1>3, <3>2 DEF ScheduleOne, Unlink
    <3> QED BY <1>3, <3>1, <3>2 DEF ScheduleOne
  <2> DEFINE Done == /\ state' \in [Timers -> States] /\ sched' \in Seq(Timers)
                     /\ cur' \in Timers \union {Nil} /\ curState' \in States
                     /\ pc' \in [Threads -> Labels \union EmtLabels]
                     /\ pc'[EMT] \in {"pick", "run", "ready", "load"}
                     /\ pc'[EMT] = "load" => cur' \in Timers
                     /\ pc'[EMT] = "pick" => batch # <<>>
                     /\ \A th \in Threads \ {EMT} : pc'[th] = pc[th]
  <2>2. ASSUME curState \in {"PENDING_RESCHEDULE", "PENDING_SCHEDULE"} PROVE Done
    <3>1. /\ state' = [state EXCEPT ![cur] = "ACTIVE"]
          /\ pc' = [pc EXCEPT ![EMT] = "load"]
          /\ UNCHANGED <<sched, cur, curState>>
      BY <1>3, <2>2 DEF ScheduleOne, SettingExpire
    <3> QED BY <1>3, <3>1 DEF ScheduleOne
  <2>3. ASSUME curState \notin {"PENDING_RESCHEDULE", "PENDING_SCHEDULE"} PROVE Done
    <3>1. /\ cur' = Nil /\ curState' = "FREE"
          /\ pc' = [pc EXCEPT ![EMT] = AfterBatch(batch)]
      BY <1>3, <2>3 DEF ScheduleOne, BatchStep
    <3>2. sched' = sched \/ sched' = <<cur>> \o sched
      BY <1>3, <2>3 DEF ScheduleOne
    <3>3. cur \in Timers
      BY <1>3 DEF ScheduleOne
    <3>4. sched' \in Seq(Timers)
      BY <3>2, <3>3, PushFacts, SMTT(30)
    <3>5. state' \in [Timers -> States]
      BY <1>3, <2>3 DEF ScheduleOne
    <3> QED BY <3>1, <3>4, <3>5
  <2>4. UNCHANGED <<expire, ff, call, envVars, batch, walk, key, runVars>>
    BY <1>3 DEF ScheduleOne
  <2>5. Done
    BY <2>2, <2>3
  <2> QED BY <2>1, <2>4, <2>5
<1>4. CASE LoadKey
  <2>1. CASE head = Nil
    <3>1. /\ head' = cur /\ qExpire' = expire[cur] /\ cur' = Nil /\ curState' = "FREE"
          /\ pc' = [pc EXCEPT ![EMT] = AfterBatch(batch)]
          /\ UNCHANGED <<walk, key>>
      BY <1>4, <2>1 DEF LoadKey, BatchStep
    <3>2. cur \in Timers /\ expire[cur] \in Times
      BY <1>4 DEF LoadKey
    <3>3. head' \in Timers /\ qExpire' \in 0 .. Infinity
      BY <3>1, <3>2
    <3>4. UNCHANGED <<timerVars, next, prev, sched, ff, call, envVars, batch, runVars>>
      BY <1>4 DEF LoadKey
    <3> QED BY <3>1, <3>3, <3>4
  <2>2. CASE head # Nil
    BY <1>4, <2>2 DEF LoadKey
  <2> QED BY <2>1, <2>2
<1>5. CASE WalkStep
  <2>1. cur \in Timers /\ walk \in Timers
    BY <1>5 DEF WalkStep
  <2>2. UNCHANGED <<timerVars, sched, ff, call, envVars, batch, runVars>>
    BY <1>5 DEF WalkStep
  <2>3. CASE cur' = Nil
    <3>1. /\ curState' = "FREE" /\ walk' = Nil /\ key' = 0
          /\ pc' = [pc EXCEPT ![EMT] = AfterBatch(batch)]
      BY <1>5, <2>1, <2>3, ThreadAssumption DEF WalkStep, BatchStep
    <3>2. /\ next' \in [Timers -> Timers \union {Nil}]
          /\ prev' \in [Timers -> Timers \union {Nil}]
      BY <1>5, <2>1, SMTT(30) DEF WalkStep
    <3>3. head' \in Timers \union {Nil} /\ qExpire' \in 0 .. Infinity
      <4>1. \/ head' = cur /\ qExpire' = key
            \/ UNCHANGED <<head, qExpire>>
        BY <1>5 DEF WalkStep
      <4> QED BY <4>1, <2>1
    <3> QED BY <2>2, <2>3, <3>1, <3>2, <3>3
  <2>4. CASE cur' # Nil
    BY <1>5, <2>1, <2>4 DEF WalkStep, BatchStep
  <2> QED BY <2>3, <2>4
<1>6. CASE QueuesDo
  BY <1>6 DEF QueuesDo
<1>7. CASE RunStart
  BY <1>7 DEF RunStart
<1>8. CASE RunOne
  <2>1. runNext \in Timers
    BY <1>8 DEF RunOne, DueNext
  <2>2. CASE state[runNext] = "ACTIVE"
    <3>1. Unlink(runNext)
      BY <1>8, <2>2 DEF RunOne
    <3>2. /\ next' \in [Timers -> Timers \union {Nil}]
          /\ prev' \in [Timers -> Timers \union {Nil}]
          /\ head' \in Timers \union {Nil}
          /\ qExpire' \in 0 .. Infinity
      BY <2>1, <3>1 DEF Unlink
    <3>3. /\ state' = [state EXCEPT ![runNext] = "EXPIRED"]
          /\ firing' = runNext /\ runNext' = next[runNext]
          /\ pc' = [pc EXCEPT ![EMT] = "ready"]
          /\ UNCHANGED <<expire, sched, ff, call, envVars, emtVars, phase, runNow>>
      BY <1>8, <2>2 DEF RunOne
    <3> QED BY <2>1, <3>2, <3>3
  <2>3. CASE state[runNext] # "ACTIVE"
    BY <1>8, <2>1, <2>3 DEF RunOne
  <2> QED BY <2>2, <2>3
<1>9. CASE CallbackReturn
  BY <1>9 DEF CallbackReturn, AfterCallback, States, Settled
<1>10. CASE RunEnd
  BY <1>10 DEF RunEnd
<1>11. CASE ResetEnd
  BY <1>11 DEF ResetEnd
<1> QED BY <1>1, <1>2, <1>3, <1>4, <1>5, <1>6, <1>7, <1>8, <1>9, <1>10, <1>11 DEF EmtStep

LEMMA TypeRest ==
    ASSUME TypeInv, Reset \/ (\E t \in Timers : Create(t)) \/ Poll \/ Tick \/ UNCHANGED vars
    PROVE  TypeInv'
<1> USE EmtIsThread, BoundAssumption
       DEF TypeInv, TypeOK, Shape, CallLabels, Labels, EmtLabels,
           timerVars, listVars, emtVars, runVars, callVars, envVars, Goto
<1>1. CASE Reset
  BY <1>1 DEF Reset
<1>2. CASE \E t \in Timers : Create(t)
  BY <1>2 DEF Create, States, Settled, Times
<1>3. CASE Poll
  BY <1>3 DEF Poll
<1>4. CASE Tick
  BY <1>4, SMTT(30) DEF Tick, Times
<1>5. CASE UNCHANGED vars
  BY <1>5 DEF vars
<1> QED BY <1>1, <1>2, <1>3, <1>4, <1>5

LEMMA TypeNext == TypeInv /\ [Next]_vars => TypeInv'
BY TypeCall, TypeEmt, TypeRest DEF Next

\* Every variable has its type in every reachable state.
THEOREM TypeCorrect == Spec => []TypeOK
<1>1. Spec => []TypeInv
  BY TypeInit, TypeNext, PTL DEF Spec
<1>2. TypeInv => TypeOK
  BY DEF TypeInv
<1> QED BY <1>1, <1>2, PTL

----------------------------------------------------------------------------
(* LinkedOnce.  It is inductive once the timer EMT has picked is known to be *)
(* pending too: what is linked or picked is pending, only a settled timer    *)
(* gets linked, and only EMT, for the timer it picked or runs, settles one.  *)

LinkInv ==
    /\ TypeInv
    /\ LinkedOnce
    /\ \A t \in Timers : Picked(t) => state[t] \in Pending

LEMMA SettledNotPending == Settled \cap Pending = {}
BY DEF Settled, Pending

LEMMA LinkInit == Init => LinkInv
<1> SUFFICES ASSUME Init PROVE LinkInv
  OBVIOUS
<1>1. sched = <<>> /\ batch = <<>> /\ \A th \in Threads : pc[th] = "ready"
  BY DEF Init
<1> QED BY <1>1, TypeInit, EmptyFacts, EmtIsThread DEF LinkInv, LinkedOnce, Listed, Linking, Picked

\* A step that leaves the lists and the pick alone, lets nobody start to link
\* and takes no pending timer out of the pending states keeps the invariant.
LEMMA LinkFrame ==
    ASSUME LinkInv, TypeInv',
           UNCHANGED <<sched, batch>>,
           \A t \in Timers : Picked(t)' => Picked(t),
           \A t \in Timers, th \in Threads : Linking(th, t)' => Linking(th, t),
           \A t \in Timers : state[t] \in Pending => state'[t] \in Pending
    PROVE  LinkInv'
BY DEF LinkInv, LinkedOnce, Listed

LEMMA LinkCall ==
    ASSUME LinkInv, NEW th \in Threads, BeginSome(th) \/ CallStep(th)
    PROVE  LinkInv'
<1>1. TypeInv /\ TypeInv'
  BY TypeCall DEF LinkInv
<1>2. /\ pc \in [Threads -> Labels \union EmtLabels] /\ call \in [Threads -> Calls]
      /\ state \in [Timers -> States] /\ EMT \in Threads
  BY <1>1, EmtIsThread DEF TypeInv, TypeOK
<1>3. pc[th] \in CallLabels => call[th].timer \in Timers /\ call[th].op \in Ops
  BY <1>1 DEF TypeInv, Shape
<1> DEFINE Same == UNCHANGED <<sched, batch, cur>>
           Still == \A other \in Threads \ {th} :
                        pc'[other] = pc[other] /\ call'[other] = call[other]
<1>4. CASE BeginSome(th)
  <2>1. pc' = [pc EXCEPT ![th] = "read"] /\ Still /\ Same /\ UNCHANGED state
    BY <1>2, <1>4 DEF BeginSome, Begin, Goto, emtVars, timerVars
  <2> QED BY <2>1, <1>1, <1>2, LinkFrame DEF Linking, Picked
<1>5. CASE Read(th)
  <2>1. Still /\ Same /\ UNCHANGED state /\ pc'[th] \in {"ready", "read", "try"}
    BY <1>1, <1>2, <1>5, RetryType DEF Read, Return, Goto, emtVars, timerVars
  <2> QED BY <2>1, <1>1, <1>2, LinkFrame DEF Linking, Picked
<1>6. CASE Try(th)
  <2> DEFINE t == call[th].timer
  <2>1. t \in Timers /\ call[th].op \in Ops
    BY <1>3, <1>6 DEF Try, CallLabels, Labels
  <2>2. CASE UNCHANGED state /\ (Retry(th) \/ (Goto(th, "fall") /\ UNCHANGED call))
    <3>1. Still /\ Same /\ pc'[th] \in {"ready", "read", "fall"}
      BY <1>1, <1>2, <1>6, <2>2, RetryType DEF Try, Goto, emtVars
    <3> QED BY <2>2, <3>1, <1>1, <1>2, LinkFrame DEF Linking, Picked
  <2>3. CASE /\ state[t] = call[th].seen
             /\ state' = [state EXCEPT ![t] = Target(call[th].op, call[th].seen)]
             /\ UNCHANGED call
    <3>1. Same /\ Still /\ pc[th] = "try" /\ pc'[th] \in Labels /\ pc' = [pc EXCEPT ![th] = pc'[th]]
      BY <1>2, <1>6, <2>3 DEF Try, Goto, emtVars, Retry, Return, Labels
    <3>2. state'[t] \in Pending /\ \A u \in Timers \ {t} : state'[u] = state[u]
      BY <1>2, <2>1, <2>3, TargetType
    <3>3. CASE pc'[th] # "link"
      <4>1. \A u \in Timers : Picked(u)' => Picked(u)
        BY <3>1, <1>2 DEF Picked, Labels
      <4>2. \A u \in Timers, other \in Threads : Linking(other, u)' => Linking(other, u)
        BY <3>1, <3>3, <1>2 DEF Linking
      <4>3. \A u \in Timers : state[u] \in Pending => state'[u] \in Pending
        BY <3>2
      <4> QED BY <3>1, <4>1, <4>2, <4>3, <1>1, LinkFrame
    <3>4. CASE pc'[th] = "link"
      <4>1. state[t] \in Settled
        BY <1>2, <1>6, <2>3, <3>4 DEF Try, Goto, NeedsLink, Retry, Return
      <4>2. ~Listed(t) /\ ~Picked(t) /\ \A other \in Threads : ~Linking(other, t)
        BY <4>1, <2>1, SettledNotPending DEF LinkInv, LinkedOnce
      <4>3. \A u \in Timers : Picked(u)' => Picked(u)
        BY <3>1, <3>4, <1>2 DEF Picked
      <4>4. \A u \in Timers, other \in Threads :
               Linking(other, u)' <=> Linking(other, u) \/ (other = th /\ u = t)
        BY <3>1, <3>4, <2>1, <2>3 DEF Linking
      <4>5. \A u \in Timers : Listed(u)' = Listed(u)
        BY <3>1 DEF Listed
      <4>6. LinkedOnce'
        BY <3>1, <3>2, <4>2, <4>3, <4>4, <4>5 DEF LinkInv, LinkedOnce
      <4> QED BY <1>1, <3>2, <4>3, <4>6 DEF LinkInv
    <3> QED BY <3>3, <3>4
  <2> QED BY <1>6, <2>2, <2>3 DEF Try
<1>7. CASE StopFallThrough(th)
  <2>1. call[th].timer \in Timers
    BY <1>3, <1>7 DEF StopFallThrough, CallLabels, Labels
  <2>2. Still /\ Same /\ pc'[th] \in {"ready", "read", "schedule"}
    BY <1>1, <1>2, <1>7, RetryType DEF StopFallThrough, Goto, emtVars
  <2>3. \A u \in Timers : state[u] \in Pending => state'[u] \in Pending
    BY <1>2, <1>7, <2>1 DEF StopFallThrough, Pending
  <2> QED BY <2>2, <2>3, <1>1, <1>2, LinkFrame DEF Linking, Picked
<1>8. CASE Link(th)
  <2> DEFINE t == call[th].timer
  <2>1. t \in Timers /\ Linking(th, t)
    BY <1>3, <1>8 DEF Link, CallLabels, Labels, Linking
  <2>2. /\ sched' = <<t>> \o sched /\ pc'[th] \in {"write", "schedule"} /\ Still
        /\ UNCHANGED <<state, batch, cur>>
    BY <1>2, <1>8 DEF Link, Goto, timerVars, emtVars
  <2>3. sched \in Seq(Timers)
    BY <1>1 DEF TypeInv, TypeOK
  <2>4. Range(sched') = Range(sched) \union {t}
    BY <2>1, <2>2, <2>3, PushFacts
  <2>5. /\ state[t] \in Pending /\ ~Listed(t) /\ ~Picked(t)
        /\ \A other \in Threads : Linking(other, t) => other = th
    BY <2>1 DEF LinkInv, LinkedOnce
  <2>6. IsInjective(sched')
    BY <2>1, <2>2, <2>3, <2>5, PushFacts DEF LinkInv, LinkedOnce, Listed
  <2>7. \A u \in Timers, other \in Threads :
            Linking(other, u)' <=> Linking(other, u) /\ other # th
    BY <2>2 DEF Linking
  <2>8. \A u \in Timers : Listed(u)' <=> Listed(u) \/ u = t
    BY <2>2, <2>4 DEF Listed
  <2>9. \A u \in Timers : Picked(u)' => Picked(u)
    BY <1>2, <2>2 DEF Picked
  <2>10. Range(sched') \cap Range(batch') = {}
    BY <2>2, <2>4, <2>5 DEF LinkInv, LinkedOnce, Listed
  <2>11. \A u \in Timers : Listed(u)' => state'[u] \in Pending /\ ~Picked(u)'
    BY <2>2, <2>5, <2>8, <2>9 DEF LinkInv, LinkedOnce
  <2>12. \A u \in Timers, other \in Threads : Linking(other, u)' =>
            /\ state'[u] \in Pending
            /\ ~Listed(u)' /\ ~Picked(u)'
            /\ \A third \in Threads : Linking(third, u)' => third = other
    BY <2>2, <2>5, <2>7, <2>8, <2>9 DEF LinkInv, LinkedOnce
  <2>13. LinkedOnce'
    BY <2>2, <2>6, <2>10, <2>11, <2>12 DEF LinkInv, LinkedOnce
  <2> QED BY <1>1, <2>2, <2>9, <2>13 DEF LinkInv
<1>9. CASE WriteExpire(th)
  <2>1. pc' = [pc EXCEPT ![th] = "arm"] /\ Still /\ Same /\ UNCHANGED <<state, call>>
    BY <1>2, <1>9 DEF WriteExpire, Goto, emtVars
  <2> QED BY <2>1, <1>1, <1>2, LinkFrame DEF Linking, Picked
<1>10. CASE Arm(th)
  <2>1. pc' = [pc EXCEPT ![th] = "schedule"] /\ Still /\ Same
    BY <1>2, <1>10 DEF Arm, Goto, emtVars
  <2>2. \A u \in Timers : state[u] \in Pending => state'[u] \in Pending
    BY <1>2, <1>10 DEF Arm, Pending
  <2> QED BY <2>1, <2>2, <1>1, <1>2, LinkFrame DEF Linking, Picked
<1>11. CASE Schedule(th)
  <2>1. Still /\ Same /\ UNCHANGED state /\ pc'[th] \in {"xchg", "ready"}
    BY <1>2, <1>11 DEF Schedule, Goto, emtVars, timerVars
  <2> QED BY <2>1, <1>1, <1>2, LinkFrame DEF Linking, Picked
<1> QED BY <1>4, <1>5, <1>6, <1>7, <1>8, <1>9, <1>10, <1>11 DEF CallStep

LEMMA LinkEmt ==
    ASSUME LinkInv, EmtStep
    PROVE  LinkInv'
<1>1. TypeInv /\ TypeInv'
  BY TypeEmt DEF LinkInv
<1>2. /\ pc \in [Threads -> Labels \union EmtLabels] /\ state \in [Timers -> States]
      /\ sched \in Seq(Timers) /\ batch \in Seq(Timers) /\ EMT \in Threads
  BY <1>1, EmtIsThread DEF TypeInv, TypeOK
<1> DEFINE EmtMoves == /\ \A other \in Threads \ {EMT} : pc'[other] = pc[other]
                       /\ pc[EMT] # "link" /\ pc'[EMT] # "link" /\ UNCHANGED call
<1>3. ASSUME EmtMoves PROVE \A u \in Timers, other \in Threads :
          Linking(other, u)' <=> Linking(other, u)
  BY <1>3 DEF Linking
<1>4. CASE TakeSchedule
  <2>1. EmtMoves
    BY <1>2, <1>4 DEF TakeSchedule, Goto, AfterBatch
  <2>2. pc[EMT] = "xchg" /\ pc'[EMT] # "one" /\ batch' = sched /\ sched' = <<>> /\ UNCHANGED state
    BY <1>2, <1>4 DEF TakeSchedule, Goto, AfterBatch, timerVars
  <2>3. \A u \in Timers : ~Picked(u)'
    BY <2>2 DEF Picked
  <2>4. Range(sched') = {} /\ IsInjective(sched')
    BY <2>2, EmptyFacts
  <2>5. \A u \in Timers : Listed(u)' => Listed(u)
    BY <2>2, <2>4 DEF Listed
  <2>6. LinkedOnce'
    BY <1>3, <2>1, <2>2, <2>3, <2>4, <2>5 DEF LinkInv, LinkedOnce
  <2> QED BY <1>1, <2>3, <2>6 DEF LinkInv
<1>5. CASE Pick
  <2> DEFINE t == Head(batch)
  <2>1. pc[EMT] = "pick" /\ batch # <<>>
    BY <1>1, <1>5 DEF Pick, TypeInv, Shape
  <2>2. /\ t \in Timers /\ t \in Range(batch) /\ Range(Tail(batch)) \subseteq Range(batch)
        /\ IsInjective(Tail(batch)) /\ t \notin Range(Tail(batch))
    BY <1>2, <2>1, PopFacts DEF LinkInv, LinkedOnce
  <2>3. EmtMoves /\ cur' = t /\ batch' = Tail(batch) /\ UNCHANGED <<sched, state>>
    BY <1>2, <1>5 DEF Pick, Goto, timerVars
  <2>4. \A u \in Timers : Picked(u)' => u = t
    BY <2>3 DEF Picked
  <2>5. Listed(t) /\ state[t] \in Pending /\ \A other \in Threads : ~Linking(other, t)
    BY <2>2 DEF LinkInv, LinkedOnce, Listed
  <2>6. t \notin Range(sched)
    BY <2>2 DEF LinkInv, LinkedOnce
  <2>7. \A u \in Timers : Listed(u)' => Listed(u) /\ u # t
    BY <2>2, <2>3, <2>6 DEF Listed
  <2>8. LinkedOnce'
    BY <1>3, <2>2, <2>3, <2>4, <2>5, <2>7 DEF LinkInv, LinkedOnce
  <2> QED BY <1>1, <2>3, <2>4, <2>5, <2>8 DEF LinkInv
<1>6. CASE ScheduleOne
  <2>1. pc[EMT] = "one" /\ cur \in Timers
    BY <1>1, <1>6 DEF ScheduleOne, TypeInv, Shape
  <2>2. Picked(cur)
    BY <2>1 DEF Picked
  <2>3. /\ state[cur] \in Pending /\ ~Listed(cur)
        /\ \A other \in Threads : ~Linking(other, cur)
    BY <2>1, <2>2 DEF LinkInv, LinkedOnce
  <2>4. EmtMoves /\ pc'[EMT] # "one" /\ UNCHANGED batch
    BY <1>2, <1>6 DEF ScheduleOne, BatchStep, Goto, AfterBatch
  <2>5. \A u \in Timers : ~Picked(u)'
    BY <2>4 DEF Picked
  <2>6. \A u \in Timers \ {cur} : state'[u] = state[u]
    BY <1>2, <1>6 DEF ScheduleOne
  <2>7. CASE UNCHANGED sched
    <3>1. \A u \in Timers : Listed(u)' <=> Listed(u)
      BY <2>4, <2>7 DEF Listed
    <3>2. LinkedOnce'
      BY <1>3, <2>3, <2>4, <2>5, <2>6, <2>7, <3>1 DEF LinkInv, LinkedOnce
    <3> QED BY <1>1, <2>5, <3>2 DEF LinkInv
  <2>8. CASE sched' = <<cur>> \o sched /\ UNCHANGED state
    <3>1. Range(sched') = Range(sched) \union {cur} /\ IsInjective(sched')
      BY <1>2, <2>1, <2>3, <2>8, PushFacts DEF LinkInv, LinkedOnce, Listed
    <3>2. \A u \in Timers : Listed(u)' <=> Listed(u) \/ u = cur
      BY <2>4, <3>1 DEF Listed
    <3>3. Range(sched') \cap Range(batch') = {}
      BY <2>3, <2>4, <3>1 DEF LinkInv, LinkedOnce, Listed
    <3>4. LinkedOnce'
      BY <1>3, <2>3, <2>4, <2>5, <2>8, <3>1, <3>2, <3>3 DEF LinkInv, LinkedOnce
    <3> QED BY <1>1, <2>5, <3>4 DEF LinkInv
  <2> QED BY <1>6, <2>7, <2>8 DEF ScheduleOne
<1>7. CASE LoadKey \/ WalkStep \/ QueuesDo \/ RunStart \/ RunEnd \/ ResetEnd
  <2>1. EmtMoves /\ pc[EMT] # "one" /\ pc'[EMT] # "one" /\ UNCHANGED <<sched, batch, state>>
    <3> USE <1>2 DEF Goto, AfterBatch, BatchStep, timerVars, callVars, emtVars
    <3>1. CASE LoadKey
      BY <3>1 DEF LoadKey
    <3>2. CASE WalkStep
      BY <3>2 DEF WalkStep
    <3>3. CASE QueuesDo \/ RunStart \/ RunEnd \/ ResetEnd
      BY <3>3 DEF QueuesDo, RunStart, RunEnd, ResetEnd
    <3> QED BY <1>7, <3>1, <3>2, <3>3
  <2>2. \A u \in Timers : ~Picked(u)'
    BY <2>1 DEF Picked
  <2> QED BY <1>1, <1>3, <2>1, <2>2, LinkFrame
<1>8. CASE RunOne \/ CallbackReturn
  <2>1. EmtMoves /\ pc'[EMT] # "one" /\ UNCHANGED <<sched, batch>>
    BY <1>2, <1>8 DEF RunOne, CallbackReturn, Goto, emtVars
  <2>2. \A u \in Timers : ~Picked(u)'
    BY <2>1 DEF Picked
  <2>3. \A u \in Timers : state[u] \in Pending => state'[u] \in Pending
    <3>1. CASE RunOne
      BY <1>2, <3>1 DEF RunOne, Pending
    <3>2. CASE CallbackReturn
      BY <1>2, <3>2 DEF CallbackReturn, AfterCallback, Pending
    <3> QED BY <1>8, <3>1, <3>2
  <2> QED BY <1>1, <1>3, <2>1, <2>2, <2>3, LinkFrame
<1> QED BY <1>4, <1>5, <1>6, <1>7, <1>8 DEF EmtStep

LEMMA LinkRest ==
    ASSUME LinkInv, Reset \/ (\E t \in Timers : Create(t)) \/ Poll \/ Tick \/ UNCHANGED vars
    PROVE  LinkInv'
<1>1. TypeInv /\ TypeInv'
  BY TypeRest DEF LinkInv
<1>2. pc \in [Threads -> Labels \union EmtLabels] /\ state \in [Timers -> States] /\ EMT \in Threads
  BY <1>1, EmtIsThread DEF TypeInv, TypeOK
<1>3. UNCHANGED <<sched, batch, cur, call>>
  BY DEF Reset, Create, Poll, Tick, vars, callVars, emtVars
<1>4. UNCHANGED pc \/ (pc[EMT] = "ready" /\ pc' = [pc EXCEPT ![EMT] = "xchg"])
  BY DEF Reset, Create, Poll, Tick, vars, callVars, Goto
<1>5. \A u \in Timers : state[u] \in Pending => state'[u] \in Pending
  BY <1>2 DEF Reset, Create, Poll, Tick, vars, timerVars, Pending
<1>6. \A u \in Timers : Picked(u)' => Picked(u)
  BY <1>2, <1>3, <1>4 DEF Picked
<1>7. \A u \in Timers, th \in Threads : Linking(th, u)' => Linking(th, u)
  BY <1>2, <1>3, <1>4 DEF Linking
<1> QED BY <1>1, <1>3, <1>5, <1>6, <1>7, LinkFrame

\* However many threads race on however many timers, no timer is linked twice
\* and no settled timer is linked: the two assertions about the schedule list
\* hold, even where the other sanity checks do not.
THEOREM LinkedOnceAlways == Spec => []LinkedOnce
<1>1. LinkInv /\ [Next]_vars => LinkInv'
  BY LinkCall, LinkEmt, LinkRest DEF Next
<1>2. Spec => []LinkInv
  BY LinkInit, <1>1, PTL DEF Spec
<1>3. LinkInv => LinkedOnce
  BY DEF LinkInv
<1> QED BY <1>2, <1>3, PTL

----------------------------------------------------------------------------
(* Serialised callers: no other call uses the timer of a call, so that only  *)
(* EMT can come between its steps, and EMT only brings a timer forward, from *)
(* pending to active, to expired and to stopped.                             *)

\* The calls that have not yet changed the state of their timer.
Before(th) == pc[th] \in {"read", "try", "fall"}

\* The calls that are about to write the expire time, or to arm the timer.
Setting(th) == pc[th] \in {"link", "write", "arm"} /\ call[th].op = "Set"

\* The states of a timer that is destroyed, or is about to be.
Gone == {"PENDING_DESTROY", "PENDING_STOP_DESTROY", "FREE"}

\* How far EMT has brought a timer: it never goes back.
Rank(s) == CASE s = "STOPPED" -> 3 [] s = "EXPIRED" -> 2 [] s = "ACTIVE" -> 1 [] OTHER -> 0

\* The state that Arm puts in place of s.
Arms(s) == CASE s = "PENDING_SCHEDULE_SET_EXPIRE"   -> "PENDING_SCHEDULE"
             [] s = "PENDING_RESCHEDULE_SET_EXPIRE" -> "PENDING_RESCHEDULE"
             [] OTHER                               -> s

\* Nobody calls for a timer somebody else is calling for.
Serial ==
    /\ \A th, other \in Threads :
          call[th].timer # Nil /\ call[other].timer = call[th].timer => other = th
    /\ \A th \in Threads : pc[th] \notin CallLabels => call[th] = NoCall

\* What the place of th says about its timer t, and the state s it has read.
SeenOne(th) ==
    LET t == call[th].timer
        s == call[th].seen
    IN  /\ Before(th) => /\ state[t] \notin SettingExpire \union Gone
                         /\ call[th].op = "Destroy" =>
                               t \notin handles /\ state[t] # "PENDING_STOP_SCHEDULE"
        /\ pc[th] = "read" => call[th].tries <= Rank(state[t])
        /\ pc[th] \in {"try", "fall"} =>
              /\ call[th].tries <= Rank(s)
              /\ ~Final(th, call[th].op, s) /\ s \notin SettingExpire
              /\ call[th].op = "Destroy" => s # "PENDING_STOP_SCHEDULE"
              /\ state[t] = s \/ (th # EMT /\ Rank(state[t]) > Rank(s))
        /\ pc[th] = "fall" => state[t] # s /\ call[th].op = "Stop" /\ s = "PENDING_SCHEDULE"
        /\ pc[th] = "link" => s \in Settled
        /\ pc[th] \in {"link", "write", "arm"} => state[t] = Target(call[th].op, s)
        /\ pc[th] \in {"write", "arm"} => call[th].op = "Set"
        /\ pc[th] = "arm" => expire[t] = call[th].expire

\* The states that only pass, and whom they wait for.
WaitOne(t) ==
    /\ state[t] \in SettingExpire => \E th \in Threads : Setting(th) /\ call[th].timer = t
    /\ state[t] \in Gone => t \notin handles

\* What EMT has read of the timer it picked is still so, unless that is a state
\* it will not store over; and the batch is empty when EMT does not work on it.
PickInv ==
    /\ pc[EMT] = "one" /\ curState \notin SettingExpire => state[cur] = curState
    /\ pc[EMT] \notin {"pick", "one", "load", "walk"} => batch = <<>>

SerialInv ==
    /\ LinkInv /\ PendingFound /\ Serial
    /\ \A th \in Threads : SeenOne(th)
    /\ \A t \in Timers : WaitOne(t)
    /\ PickInv

LEMMA SerialInit == Init => SerialInv
<1> SUFFICES ASSUME Init PROVE SerialInv
  OBVIOUS
<1>1. /\ pc = [th \in Threads |-> "ready"] /\ call = [th \in Threads |-> NoCall]
      /\ state = [t \in Timers |-> "STOPPED"] /\ batch = <<>>
  BY DEF Init
<1>2. NoCall.timer = Nil
  BY NoCallType
<1>3. PendingFound
  BY <1>1 DEF PendingFound, Pending
<1>4. Serial
  BY <1>1, <1>2 DEF Serial
<1>5. \A th \in Threads : SeenOne(th)
  BY <1>1 DEF SeenOne, Before
<1>6. \A t \in Timers : WaitOne(t)
  BY <1>1 DEF WaitOne, SettingExpire, Gone
<1>7. PickInv
  BY <1>1, EmtIsThread DEF PickInv
<1> QED BY LinkInit, <1>3, <1>4, <1>5, <1>6, <1>7 DEF SerialInv

\* What a call changes: its own thread and the state and expire time of its own
\* timer, to which nobody else's call refers.
Moves(th) ==
    /\ \A other \in Threads \ {th} : pc'[other] = pc[other] /\ call'[other] = call[other]
    /\ \A t \in Timers : t # call[th].timer => state'[t] = state[t] /\ expire'[t] = expire[t]
    /\ UNCHANGED <<batch, cur, curState, handles>>

LEMMA SeenMoves ==
    ASSUME SerialInv, NEW th \in Threads, Moves(th), call[th].timer \in Timers,
           NEW other \in Threads, other # th
    PROVE  SeenOne(other)'
<1> DEFINE t == call[other].timer
<1>1. /\ pc'[other] = pc[other] /\ call'[other] = call[other]
      /\ call \in [Threads -> Calls] /\ SeenOne(other) /\ UNCHANGED handles
  BY DEF Moves, SerialInv, LinkInv, TypeInv, TypeOK
<1>2. pc[other] \in CallLabels => t \in Timers /\ t # call[th].timer
  <2>1. pc[other] \in CallLabels => t \in Timers
    BY DEF SerialInv, LinkInv, TypeInv, Shape
  <2>2. Nil \notin Timers
    BY ThreadAssumption
  <2> QED BY <2>1, <2>2 DEF SerialInv, Serial
<1>3. pc[other] \in CallLabels => state'[t] = state[t] /\ expire'[t] = expire[t]
  BY <1>2 DEF Moves
<1>4. pc[other] \in {"fall", "read", "try", "link", "write", "arm"} => pc[other] \in CallLabels
  BY DEF CallLabels, Labels
<1>5. CASE pc[other] \in CallLabels
  BY <1>1, <1>3, <1>5 DEF SeenOne, Before
<1>6. CASE pc[other] \notin CallLabels
  BY <1>1, <1>4, <1>6 DEF SeenOne, Before
<1> QED BY <1>5, <1>6


\* What is left to show of a step of a call: what it does to its own timer.
LEMMA SerialMoves ==
    ASSUME SerialInv, LinkInv', NEW th \in Threads, Moves(th), pc[th] \in CallLabels,
           SeenOne(th)',
           call'[th] = NoCall \/ (call'[th].timer = call[th].timer /\ pc'[th] \in CallLabels),
           pc'[th] \in CallLabels \/ pc'[th] \in {"ready", "xchg"},
           pc[th] = "schedule" => pc'[th] \in {"ready", "xchg"},
           th = EMT /\ pc[th] = "schedule" => pc'[th] = "xchg",
           \A u \in Timers : u # call[th].timer => (Listed(u) => Listed(u)'),
           NEW t \in Timers, t = call[th].timer,
           state'[t] \in Pending => Listed(t)' \/ Picked(t)' \/ Linking(th, t)',
           WaitOne(t)',
           Picked(t) /\ curState \notin SettingExpire => state'[t] = curState
    PROVE  SerialInv'
<1>1. /\ call \in [Threads -> Calls] /\ pc \in [Threads -> Labels \union EmtLabels]
      /\ EMT \in Threads /\ Nil \notin Timers /\ NoCall.timer = Nil
      /\ TypeInv /\ Serial /\ PickInv /\ PendingFound
  BY EmtIsThread, ThreadAssumption, NoCallType DEF SerialInv, LinkInv, TypeInv, TypeOK
<1>2. /\ \A other \in Threads : other # th => pc'[other] = pc[other] /\ call'[other] = call[other]
      /\ \A u \in Timers : u # t => state'[u] = state[u]
      /\ UNCHANGED <<batch, cur, curState, handles>>
  BY DEF Moves
<1>3. \A u \in Timers : Picked(u)' <=> Picked(u)
  BY <1>1, <1>2 DEF Picked, CallLabels, Labels
<1>4. \A u \in Timers : u # t => \A other \in Threads : Linking(other, u)' <=> Linking(other, u)
  BY <1>1, <1>2 DEF Linking
<1>5. PendingFound'
  <2> SUFFICES ASSUME NEW u \in Timers, state'[u] \in Pending
               PROVE  Listed(u)' \/ Picked(u)' \/ \E other \in Threads : Linking(other, u)'
    BY DEF PendingFound
  <2>1. CASE u = t
    BY <2>1
  <2>2. CASE u # t
    BY <1>1, <1>2, <1>3, <1>4, <2>2 DEF PendingFound
  <2> QED BY <2>1, <2>2
<1>6. Serial'
  <2>1. \A other \in Threads : call'[other].timer \in {call[other].timer, Nil}
    BY <1>1, <1>2
  <2>2. \A other \in Threads : pc'[other] \notin CallLabels => call'[other] = NoCall
    <3>1. pc'[th] \notin CallLabels => call'[th] = NoCall
      OBVIOUS
    <3> QED BY <1>1, <1>2, <3>1 DEF Serial
  <2> QED BY <1>1, <2>1, <2>2 DEF Serial
<1>7. \A other \in Threads : SeenOne(other)'
  <2>1. \A other \in Threads : other # th => SeenOne(other)'
    BY SeenMoves
  <2> QED BY <2>1
<1>8. ASSUME NEW u \in Timers PROVE WaitOne(u)'
  <2>1. CASE u = t
    BY <2>1
  <2>2. CASE u # t
    <3>1. WaitOne(u) /\ state'[u] = state[u]
      BY <1>2, <2>2 DEF SerialInv
    <3>2. state'[u] \in SettingExpire => \E other \in Threads : (Setting(other) /\ call[other].timer = u)'
      <4> SUFFICES ASSUME state'[u] \in SettingExpire
                   PROVE  \E other \in Threads : (Setting(other) /\ call[other].timer = u)'
        OBVIOUS
      <4>1. PICK other \in Threads : Setting(other) /\ call[other].timer = u
        BY <3>1 DEF WaitOne
      <4>2. other # th
        BY <2>2, <4>1
      <4> QED BY <1>2, <4>1, <4>2 DEF Setting
    <3> QED BY <1>2, <3>1, <3>2 DEF WaitOne
  <2> QED BY <2>1, <2>2
<1>9. PickInv'
  <2>1. pc'[EMT] = "one" /\ curState \notin SettingExpire => state'[cur] = curState
    <3> SUFFICES ASSUME pc'[EMT] = "one", curState \notin SettingExpire
                 PROVE  state'[cur] = curState
      OBVIOUS
    <3>1. th # EMT /\ pc[EMT] = "one"
      BY <1>1, <1>2 DEF CallLabels, Labels
    <3>2. cur \in Timers
      BY <1>1, <3>1 DEF TypeInv, Shape
    <3>3. CASE cur = t
      BY <3>1, <3>3 DEF Picked
    <3>4. CASE cur # t
      BY <1>1, <1>2, <3>1, <3>2, <3>4 DEF PickInv
    <3> QED BY <3>3, <3>4
  <2>2. pc'[EMT] \notin {"pick", "one", "load", "walk"} => batch = <<>>
    BY <1>1, <1>2 DEF PickInv, CallLabels, Labels
  <2> QED BY <1>2, <2>1, <2>2 DEF PickInv
<1> QED BY <1>5, <1>6, <1>7, <1>8, <1>9 DEF SerialInv


\* A step of a call that neither touches a timer nor links one.
LEMMA SerialStay ==
    ASSUME SerialInv, LinkInv', NEW th \in Threads, Moves(th), Before(th),
           SeenOne(th)',
           \/ call'[th] = NoCall /\ pc'[th] = "ready"
           \/ call'[th].timer = call[th].timer /\ Before(th)',
           UNCHANGED <<state, sched>>
    PROVE  SerialInv'
<1>0. call[th].timer \in Timers
  BY DEF SerialInv, LinkInv, TypeInv, Shape, CallLabels, Labels, Before
<1> SUFFICES ASSUME NEW t \in Timers, t = call[th].timer PROVE SerialInv'
  BY <1>0
<1>1. /\ pc[th] \in CallLabels /\ pc \in [Threads -> Labels \union EmtLabels]
      /\ EMT \in Threads
  BY EmtIsThread DEF SerialInv, LinkInv, TypeInv, TypeOK, Shape, CallLabels, Labels, Before
<1>2. UNCHANGED <<batch, cur, handles>> /\ \A other \in Threads :
          other # th => pc'[other] = pc[other] /\ call'[other] = call[other]
  BY DEF Moves
<1>3. pc'[th] \in CallLabels \/ pc'[th] \in {"ready", "xchg"}
  BY DEF CallLabels, Labels, Before
<1>4. \A u \in Timers : (Listed(u)' <=> Listed(u)) /\ (Picked(u)' <=> Picked(u))
  BY <1>1, <1>2 DEF Listed, Picked, Before
<1>5. state'[t] \in Pending => Listed(t)' \/ Picked(t)' \/ Linking(th, t)'
  <2>1. ASSUME NEW other \in Threads, Linking(other, t) PROVE FALSE
    <3>1. other = th
      BY <1>1, <2>1, ThreadAssumption DEF SerialInv, Serial, Linking
    <3> QED BY <2>1, <3>1 DEF Linking, Before
  <2> QED BY <1>1, <1>4, <2>1 DEF SerialInv, PendingFound
<1>6. WaitOne(t)'
  <2>1. WaitOne(t) /\ UNCHANGED <<state, batch, handles>>
    BY <1>1, <1>2 DEF SerialInv
  <2>2. \A other \in Threads : Setting(other) => Setting(other)' /\ call'[other] = call[other]
    BY <1>2 DEF Setting, Before
  <2> QED BY <2>1, <2>2 DEF WaitOne
<1>7. Picked(t) /\ curState \notin SettingExpire => state'[t] = curState
  BY DEF SerialInv, PickInv, Picked
<1>8. call'[th] = NoCall \/ (call'[th].timer = call[th].timer /\ pc'[th] \in CallLabels)
  BY DEF CallLabels, Labels, Before
<1>9. pc[th] # "schedule"
  BY DEF Before
<1> QED BY <1>1, <1>3, <1>4, <1>5, <1>6, <1>7, <1>8, <1>9, SerialMoves


\* A call begins: nobody calls for its timer.
LEMMA SerialBegin ==
    ASSUME SerialInv, Serialised, Races \subseteq Avoided, NEW th \in Threads, BeginSome(th)
    PROVE  SerialInv'
<1>1. PICK o \in Ops, t \in Timers, e \in Times : Begin(th, o, t, e)
  BY DEF BeginSome
<1> DEFINE c == [NoCall EXCEPT !.op = o, !.timer = t, !.expire = e]
<1>2. c.timer = t /\ c.op = o /\ c.tries = 0
  BY DEF NoCall
<1>3. /\ call \in [Threads -> Calls] /\ pc \in [Threads -> Labels \union EmtLabels]
      /\ EMT \in Threads /\ Nil \notin Timers /\ NoCall.timer = Nil
      /\ TypeInv /\ Serial /\ PickInv /\ PendingFound /\ state \in [Timers -> States]
  BY EmtIsThread, ThreadAssumption, NoCallType DEF SerialInv, LinkInv, TypeInv, TypeOK
<1>4. /\ pc[th] = "ready" /\ t \in handles /\ ~InCall(t)
      /\ o = "Destroy" => state[t] # "PENDING_STOP_SCHEDULE"
      /\ handles' = IF o = "Destroy" THEN handles \ {t} ELSE handles
      /\ UNCHANGED <<state, expire, sched, batch, cur, curState>>
  BY <1>1 DEF Begin, MayCall, timerVars, emtVars, Races
<1>5. call' = [call EXCEPT ![th] = c] /\ pc' = [pc EXCEPT ![th] = "read"]
  BY <1>1 DEF Begin, Goto
<1> HIDE DEF c
<1>6. /\ call'[th] = c /\ pc'[th] = "read"
      /\ \A other \in Threads : other # th => call'[other] = call[other] /\ pc'[other] = pc[other]
  BY <1>3, <1>5
<1>7. LinkInv'
  BY LinkCall DEF SerialInv
<1>8. \A u \in Timers : /\ Picked(u)' <=> Picked(u)
                        /\ Listed(u)' <=> Listed(u)
                        /\ \A other \in Threads : Linking(other, u) => Linking(other, u)'
  BY <1>3, <1>4, <1>6 DEF Picked, Listed, Linking
<1>9. PendingFound'
  BY <1>3, <1>4, <1>8 DEF PendingFound
<1>10. Serial'
  <2>1. \A other \in Threads : call[other].timer # t
    BY <1>4 DEF InCall
  <2>2. \A other \in Threads : pc'[other] \notin CallLabels => call'[other] = NoCall
    BY <1>3, <1>6 DEF Serial, CallLabels, Labels
  <2> QED BY <1>2, <1>3, <1>6, <2>1, <2>2 DEF Serial
<1>11. ASSUME NEW other \in Threads PROVE SeenOne(other)'
  <2>1. CASE other # th
    <3>1. SeenOne(other) /\ pc'[other] = pc[other] /\ call'[other] = call[other]
      BY <1>6, <2>1 DEF SerialInv
    <3>2. handles' \subseteq handles
      BY <1>4
    <3> QED BY <1>4, <3>1, <3>2 DEF SeenOne, Before
  <2>2. CASE other = th
    <3>1. WaitOne(t) /\ state[t] \notin SettingExpire
      BY <1>4 DEF SerialInv, WaitOne, InCall
    <3>2. state[t] \notin Gone
      BY <1>4, <3>1 DEF WaitOne
    <3>3. o = "Destroy" => t \notin handles'
      BY <1>4
    <3>4. 0 <= Rank(state[t])
      BY DEF Rank
    <3> QED BY <1>2, <1>4, <1>6, <2>2, <3>1, <3>2, <3>3, <3>4 DEF SeenOne, Before
  <2> QED BY <2>1, <2>2
<1>12. ASSUME NEW u \in Timers PROVE WaitOne(u)'
  <2>1. WaitOne(u) /\ handles' \subseteq handles
    BY <1>4 DEF SerialInv
  <2>2. \A other \in Threads : Setting(other) /\ call[other].timer = u =>
                                   (Setting(other) /\ call[other].timer = u)'
    BY <1>4, <1>6 DEF Setting
  <2> QED BY <1>4, <2>1, <2>2 DEF WaitOne
<1>13. PickInv'
  BY <1>3, <1>4, <1>6 DEF PickInv
<1> QED BY <1>7, <1>9, <1>10, <1>11, <1>12, <1>13 DEF SerialInv

LEMMA RankFacts ==
    /\ \A s \in States : Rank(s) \in 0 .. 3
    /\ Rank("STOPPED") = 3 /\ Rank("EXPIRED") = 2 /\ Rank("ACTIVE") = 1
    /\ \A s \in Pending : Rank(s) = 0
BY DEF Rank, Pending

LEMMA SerialRead ==
    ASSUME SerialInv, NEW th \in Threads, Read(th)
    PROVE  SerialInv'
<1>0. call[th].timer \in Timers
  BY DEF Read, SerialInv, LinkInv, TypeInv, Shape, CallLabels, Labels
<1> SUFFICES ASSUME NEW t \in Timers, t = call[th].timer, NEW s, s = state[t] PROVE SerialInv'
  BY <1>0
<1>1. /\ call \in [Threads -> Calls] /\ pc \in [Threads -> Labels \union EmtLabels]
      /\ TypeInv /\ SeenOne(th) /\ state \in [Timers -> States] /\ s \in States /\ PendingFound
      /\ pc[th] = "read" /\ pc[th] \in CallLabels /\ call[th].op \in Ops /\ Before(th)
  BY DEF SerialInv, LinkInv, TypeInv, TypeOK, Shape, Read, CallLabels, Labels, Before
<1>2. LinkInv'
  BY LinkCall DEF CallStep, SerialInv
<1>3. /\ UNCHANGED <<state, expire, sched, batch, cur, curState, handles>>
  BY DEF Read, timerVars, envVars, emtVars
<1>4. \A u \in Timers : Listed(u)' <=> Listed(u)
  BY <1>3 DEF Listed
<1>5. s \notin SettingExpire
  BY <1>1 DEF SeenOne
<1>6. CASE Return(th)
  <2>1. /\ pc'[th] = "ready" /\ call'[th] = NoCall
        /\ \A other \in Threads : other # th => pc'[other] = pc[other] /\ call'[other] = call[other]
    BY <1>1, <1>6 DEF Return, Goto
  <2>2. Moves(th)
    BY <1>3, <2>1 DEF Moves
  <2>3. SeenOne(th)'
    BY <2>1 DEF SeenOne, Before
  <2> QED BY <1>1, <1>2, <1>3, <1>4, <2>1, <2>2, <2>3, SerialStay
<1>7. CASE /\ ~Final(th, call[th].op, s)
           /\ call' = [call EXCEPT ![th].seen = s]
           /\ Goto(th, "try")
  <2>1. /\ pc'[th] = "try" /\ call'[th] = [call[th] EXCEPT !.seen = s]
        /\ \A other \in Threads : other # th => pc'[other] = pc[other] /\ call'[other] = call[other]
    BY <1>1, <1>7 DEF Goto
  <2>2. /\ call'[th].timer = t /\ call'[th].op = call[th].op /\ call'[th].tries = call[th].tries
        /\ call'[th].seen = s
    BY <1>1, <2>1 DEF Calls
  <2>3. Moves(th)
    BY <1>3, <2>1 DEF Moves
  <2>4. SeenOne(th)'
    <3>1. /\ s \notin Gone /\ call[th].tries <= Rank(s)
          /\ call[th].op = "Destroy" => t \notin handles /\ s # "PENDING_STOP_SCHEDULE"
      BY <1>1 DEF SeenOne
    <3>2. ~Final(th, call'[th].op, call'[th].seen)
      BY <1>7, <2>2
    <3>3. state'[t] = s /\ handles' = handles
      BY <1>3
    <3> QED BY <1>5, <2>1, <2>2, <3>1, <3>2, <3>3 DEF SeenOne, Before
  <2>5. Before(th)'
    BY <2>1 DEF Before
  <2> QED BY <1>1, <1>2, <1>3, <1>4, <2>1, <2>2, <2>3, <2>4, <2>5, SerialStay
<1> QED BY <1>5, <1>6, <1>7 DEF Read


\* The compare-and-swap of another thread fails only if EMT has come between;
\* EMT's never does.  The one TMTimerStop falls through to fails for the same
\* reason as the one before it.
LEMMA TryFails ==
    ASSUME SerialInv, NEW th \in Threads, Try(th) \/ StopFallThrough(th),
           state[call[th].timer] # call[th].seen
    PROVE  SerialInv'
<1>0. call[th].timer \in Timers
  BY DEF Try, StopFallThrough, SerialInv, LinkInv, TypeInv, Shape, CallLabels, Labels
<1> SUFFICES ASSUME NEW t \in Timers, t = call[th].timer, NEW s, s = call[th].seen PROVE SerialInv'
  BY <1>0
<1>1. /\ call \in [Threads -> Calls] /\ pc \in [Threads -> Labels \union EmtLabels]
      /\ TypeInv /\ SeenOne(th) /\ state \in [Timers -> States] /\ s \in States
      /\ pc[th] \in {"try", "fall"} /\ call[th].op \in Ops /\ Before(th) /\ call[th].tries \in Nat
  BY BoundAssumption
     DEF SerialInv, LinkInv, TypeInv, TypeOK, Shape, Try, StopFallThrough, CallLabels, Labels, Before, Calls
<1>2. LinkInv'
  BY LinkCall DEF CallStep, SerialInv
<1>3. /\ s \notin SettingExpire /\ th # EMT
      /\ Rank(state[t]) > Rank(s) /\ call[th].tries <= Rank(s)
  BY <1>1 DEF SeenOne
<1>4. UNCHANGED <<state, expire, sched, batch, cur, curState, handles>>
  BY <1>1, <1>3 DEF Try, StopFallThrough, envVars, emtVars
<1>5. CASE Retry(th) /\ call[th].tries < MaxRetries
  <2>1. call[th].tries + 1 <= Rank(state[t])
    BY <1>1, <1>3, RankFacts
  <2>2. /\ pc'[th] = "read" /\ call'[th] = [call[th] EXCEPT !.tries = call[th].tries + 1]
        /\ \A other \in Threads : other # th => pc'[other] = pc[other] /\ call'[other] = call[other]
    BY <1>1, <1>5 DEF Retry, Goto
  <2>3. /\ call'[th].timer = t /\ call'[th].op = call[th].op /\ call'[th].tries = call[th].tries + 1
    BY <1>1, <2>2 DEF Calls
  <2>4. Moves(th)
    BY <1>4, <2>2 DEF Moves
  <2>5. SeenOne(th)'
    <3>1. /\ state[t] \notin SettingExpire \union Gone
          /\ call[th].op = "Destroy" => t \notin handles /\ state[t] # "PENDING_STOP_SCHEDULE"
      BY <1>1 DEF SeenOne
    <3> QED BY <1>4, <2>1, <2>2, <2>3, <3>1 DEF SeenOne, Before
  <2>6. Before(th)'
    BY <2>2 DEF Before
  <2> QED BY <1>1, <1>2, <1>4, <2>2, <2>3, <2>4, <2>5, <2>6, SerialStay
<1>6. CASE Retry(th) /\ ~(call[th].tries < MaxRetries)
  <2>1. /\ pc'[th] = "ready" /\ call'[th] = NoCall
        /\ \A other \in Threads : other # th => pc'[other] = pc[other] /\ call'[other] = call[other]
    BY <1>1, <1>6 DEF Retry, Return, Goto
  <2>2. Moves(th)
    BY <1>4, <2>1 DEF Moves
  <2>3. SeenOne(th)'
    BY <2>1 DEF SeenOne, Before
  <2> QED BY <1>1, <1>2, <1>4, <2>1, <2>2, <2>3, SerialStay
<1>7. CASE Try(th) /\ call[th].op = "Stop" /\ s = "PENDING_SCHEDULE"
  <2>1. /\ pc'[th] = "fall" /\ call' = call
        /\ \A other \in Threads : other # th => pc'[other] = pc[other]
    BY <1>1, <1>7 DEF Try, Goto
  <2>2. Moves(th)
    BY <1>4, <2>1 DEF Moves
  <2>3. SeenOne(th)'
    <3>1. pc[th] = "try" /\ UNCHANGED <<state, expire, call, handles>>
      BY <1>4, <1>7, <2>1 DEF Try
    <3> QED BY <1>1, <1>7, <2>1, <3>1 DEF SeenOne, Before
  <2>4. Before(th)'
    BY <2>1 DEF Before
  <2> QED BY <1>1, <1>2, <1>4, <2>1, <2>2, <2>3, <2>4, SerialStay
<1>8. Retry(th) \/ (Try(th) /\ call[th].op = "Stop" /\ s = "PENDING_SCHEDULE")
  BY <1>1, <1>3 DEF Try, StopFallThrough
<1> QED BY <1>5, <1>6, <1>7, <1>8

LEMMA TargetFacts ==
    ASSUME NEW op \in Ops, NEW s
    PROVE  /\ Target(op, s) \in Pending
           /\ Target(op, s) \in SettingExpire <=> op = "Set"
           /\ op = "Set" => Target(op, s) = SetTarget(s)
           /\ Target(op, s) \in Gone <=> op = "Destroy"
           /\ Target(op, s) = "PENDING_STOP_SCHEDULE" => s \notin Settled
BY DEF Ops, Target, SetTarget, StopTarget, DestroyTarget, Pending, SettingExpire, Gone, Settled

\* The compare-and-swap succeeds: what was settled is about to be linked, what
\* was pending is found already.
LEMMA TrySucceeds ==
    ASSUME SerialInv, Races \subseteq Avoided, NEW th \in Threads, Try(th), state[call[th].timer] = call[th].seen
    PROVE  SerialInv'
<1>0. call[th].timer \in Timers
  BY DEF Try, SerialInv, LinkInv, TypeInv, Shape, CallLabels, Labels
<1> SUFFICES ASSUME NEW t \in Timers, t = call[th].timer, NEW s, s = call[th].seen,
                    NEW o, o = call[th].op PROVE SerialInv'
  BY <1>0
<1>1. /\ call \in [Threads -> Calls] /\ pc \in [Threads -> Labels \union EmtLabels]
      /\ TypeInv /\ SeenOne(th) /\ state \in [Timers -> States] /\ s \in States
      /\ pc[th] = "try" /\ pc[th] \in CallLabels /\ o \in Ops /\ Before(th) /\ EMT \in Threads
      /\ PendingFound /\ Nil \notin Timers /\ LinkInv
  BY EmtIsThread, ThreadAssumption
     DEF SerialInv, LinkInv, TypeInv, TypeOK, Shape, Try, CallLabels, Labels, Before, Calls
<1>2. LinkInv'
  BY LinkCall DEF CallStep, SerialInv
<1>3. /\ state' = [state EXCEPT ![t] = Target(o, s)]
      /\ Goto(th, IF NeedsLink(s) THEN "link" ELSE IF o = "Set" THEN "write" ELSE "schedule")
      /\ UNCHANGED <<call, expire, sched, batch, cur, curState, handles>>
  BY DEF Try, envVars, emtVars
<1>4. /\ pc'[th] = IF s \in Settled THEN "link" ELSE IF o = "Set" THEN "write" ELSE "schedule"
      /\ \A other \in Threads : other # th => pc'[other] = pc[other]
      /\ state'[t] = Target(o, s) /\ \A u \in Timers : u # t => state'[u] = state[u]
  BY <1>1, <1>3 DEF Goto, NeedsLink
<1>5. Moves(th) /\ pc'[th] \in CallLabels
  BY <1>3, <1>4 DEF Moves, CallLabels, Labels
<1>6. /\ Target(o, s) \in Pending
      /\ Target(o, s) \in SettingExpire <=> o = "Set"
      /\ Target(o, s) \in Gone <=> o = "Destroy"
      /\ Target(o, s) = "PENDING_STOP_SCHEDULE" => s \notin Settled
  BY <1>1, TargetFacts
<1>7. SeenOne(th)'
  BY <1>3, <1>4 DEF SeenOne, Before
<1>8. \A u \in Timers : (Listed(u)' <=> Listed(u)) /\ (Picked(u)' <=> Picked(u))
  BY <1>1, <1>3, <1>4 DEF Listed, Picked
<1>9. state'[t] \in Pending => Listed(t)' \/ Picked(t)' \/ Linking(th, t)'
  <2>1. CASE s \in Settled
    BY <1>3, <1>4, <2>1 DEF Linking
  <2>2. CASE s \notin Settled
    <3>1. state[t] \in Pending
      BY <1>1, <2>2 DEF States
    <3>2. ASSUME NEW other \in Threads, Linking(other, t) PROVE FALSE
      <4>1. other = th
        BY <1>1, <3>2 DEF SerialInv, Serial, Linking
      <4> QED BY <1>1, <3>2, <4>1 DEF Linking
    <3> QED BY <1>1, <1>8, <3>1, <3>2 DEF PendingFound
  <2> QED BY <2>1, <2>2
<1>10. WaitOne(t)'
  <2>1. o = "Set" => Setting(th)' /\ call'[th].timer = t
    BY <1>3, <1>4 DEF Setting
  <2>2. o = "Destroy" => t \notin handles
    BY <1>1 DEF SeenOne
  <2> QED BY <1>3, <1>4, <1>6, <2>1, <2>2 DEF WaitOne
<1>11. Picked(t) => curState \in SettingExpire
  BY DEF Try, Overtakes, Picked, Races
<1> QED BY <1>1, <1>2, <1>3, <1>4, <1>5, <1>7, <1>8, <1>9, <1>10, <1>11, SerialMoves


LEMMA SerialLink ==
    ASSUME SerialInv, NEW th \in Threads, Link(th)
    PROVE  SerialInv'
<1>0. call[th].timer \in Timers
  BY DEF Link, SerialInv, LinkInv, TypeInv, Shape, CallLabels, Labels
<1> SUFFICES ASSUME NEW t \in Timers, t = call[th].timer PROVE SerialInv'
  BY <1>0
<1>1. /\ pc \in [Threads -> Labels \union EmtLabels] /\ sched \in Seq(Timers)
      /\ pc[th] = "link" /\ pc[th] \in CallLabels /\ EMT \in Threads /\ call[th].op \in Ops
      /\ SeenOne(th) /\ WaitOne(t) /\ LinkInv
  BY EmtIsThread
     DEF SerialInv, LinkInv, TypeInv, TypeOK, Shape, Link, CallLabels, Labels
<1>2. LinkInv'
  BY LinkCall DEF CallStep, SerialInv
<1>3. /\ sched' = <<t>> \o sched /\ Goto(th, IF call[th].op = "Set" THEN "write" ELSE "schedule")
      /\ UNCHANGED <<state, expire, call, batch, cur, curState, handles>>
  BY DEF Link, timerVars, envVars, emtVars
<1>4. /\ pc'[th] = (IF call[th].op = "Set" THEN "write" ELSE "schedule")
      /\ \A other \in Threads : other # th => pc'[other] = pc[other]
  BY <1>1, <1>3 DEF Goto
<1>5. Moves(th) /\ pc'[th] \in CallLabels
  BY <1>3, <1>4 DEF Moves, CallLabels, Labels
<1>6. Range(sched') = Range(sched) \union {t}
  BY <1>1, <1>3, PushFacts
<1>7. \A u \in Timers : (Listed(u)' <=> Listed(u) \/ u = t) /\ (Picked(u)' <=> Picked(u))
  BY <1>1, <1>3, <1>4, <1>6 DEF Listed, Picked
<1>8. SeenOne(th)'
  BY <1>1, <1>3, <1>4 DEF SeenOne, Before
<1>9. state[t] = Target(call[th].op, call[th].seen) /\ call[th].seen \in Settled
  BY <1>1 DEF SeenOne
<1>10. WaitOne(t)'
  <2>1. state[t] \in SettingExpire => Setting(th)'
    BY <1>1, <1>3, <1>4, <1>9, TargetFacts DEF Setting
  <2> QED BY <1>1, <1>3, <2>1 DEF WaitOne
<1>11. ~Picked(t)
  BY <1>1 DEF LinkInv, LinkedOnce, Linking
<1> QED BY <1>1, <1>2, <1>3, <1>4, <1>5, <1>7, <1>8, <1>10, <1>11, SerialMoves

LEMMA SerialWrite ==
    ASSUME SerialInv, NEW th \in Threads, WriteExpire(th)
    PROVE  SerialInv'
<1>0. call[th].timer \in Timers
  BY DEF WriteExpire, SerialInv, LinkInv, TypeInv, Shape, CallLabels, Labels
<1> SUFFICES ASSUME NEW t \in Timers, t = call[th].timer PROVE SerialInv'
  BY <1>0
<1>1. /\ pc \in [Threads -> Labels \union EmtLabels] /\ expire \in [Timers -> Times]
      /\ pc[th] = "write" /\ pc[th] \in CallLabels /\ EMT \in Threads /\ call[th].op \in Ops
      /\ SeenOne(th) /\ WaitOne(t) /\ LinkInv /\ PendingFound /\ Serial /\ Nil \notin Timers /\ PickInv
  BY EmtIsThread, ThreadAssumption
     DEF SerialInv, LinkInv, TypeInv, TypeOK, Shape, WriteExpire, CallLabels, Labels
<1>2. LinkInv'
  BY LinkCall DEF CallStep, SerialInv
<1>3. /\ expire' = [expire EXCEPT ![t] = call[th].expire] /\ Goto(th, "arm")
      /\ UNCHANGED <<state, sched, call, batch, cur, curState, handles>>
  BY DEF WriteExpire, envVars, emtVars
<1>4. /\ pc'[th] = "arm" /\ expire'[t] = call[th].expire
      /\ \A other \in Threads : other # th => pc'[other] = pc[other]
      /\ \A u \in Timers : u # t => expire'[u] = expire[u]
  BY <1>1, <1>3 DEF Goto
<1>5. Moves(th) /\ pc'[th] \in CallLabels
  BY <1>3, <1>4 DEF Moves, CallLabels, Labels
<1>6. \A u \in Timers : (Listed(u)' <=> Listed(u)) /\ (Picked(u)' <=> Picked(u))
  BY <1>1, <1>3, <1>4 DEF Listed, Picked
<1>7. SeenOne(th)'
  BY <1>1, <1>3, <1>4 DEF SeenOne, Before
<1>8. ~\E other \in Threads : Linking(other, t)
  BY <1>1 DEF Serial, Linking
<1>9. state'[t] \in Pending => Listed(t)' \/ Picked(t)' \/ Linking(th, t)'
  BY <1>1, <1>3, <1>6, <1>8 DEF PendingFound
<1>10. WaitOne(t)'
  <2>1. Setting(th)' /\ call'[th].timer = t
    BY <1>1, <1>3, <1>4 DEF Setting, SeenOne
  <2> QED BY <1>1, <1>3, <2>1 DEF WaitOne
<1>11. Picked(t) /\ curState \notin SettingExpire => state'[t] = curState
  BY <1>1, <1>3 DEF PickInv, Picked
<1> QED BY <1>1, <1>2, <1>3, <1>4, <1>5, <1>6, <1>7, <1>9, <1>10, <1>11, SerialMoves

LEMMA SerialArm ==
    ASSUME SerialInv, NEW th \in Threads, Arm(th)
    PROVE  SerialInv'
<1>0. call[th].timer \in Timers
  BY DEF Arm, SerialInv, LinkInv, TypeInv, Shape, CallLabels, Labels
<1> SUFFICES ASSUME NEW t \in Timers, t = call[th].timer, NEW s, s = state[t] PROVE SerialInv'
  BY <1>0
<1>1. /\ pc \in [Threads -> Labels \union EmtLabels] /\ state \in [Timers -> States]
      /\ pc[th] = "arm" /\ pc[th] \in CallLabels /\ EMT \in Threads /\ call[th].op \in Ops
      /\ SeenOne(th) /\ LinkInv /\ PendingFound /\ Serial /\ Nil \notin Timers /\ PickInv
  BY EmtIsThread, ThreadAssumption
     DEF SerialInv, LinkInv, TypeInv, TypeOK, Shape, Arm, CallLabels, Labels
<1>2. LinkInv'
  BY LinkCall DEF CallStep, SerialInv
<1>3. s = SetTarget(call[th].seen) /\ s \in SettingExpire
  BY <1>1 DEF SeenOne, Target, SetTarget, SettingExpire
<1>4. /\ state' = [state EXCEPT ![t] = Arms(s)] /\ Goto(th, "schedule")
      /\ UNCHANGED <<expire, sched, call, batch, cur, curState, handles>>
  BY <1>3 DEF Arm, SettingExpire, Arms, envVars, emtVars
<1>5. /\ pc'[th] = "schedule" /\ state'[t] = Arms(s)
      /\ \A other \in Threads : other # th => pc'[other] = pc[other]
      /\ \A u \in Timers : u # t => state'[u] = state[u]
  BY <1>1, <1>4 DEF Goto
<1>6. Moves(th) /\ pc'[th] \in CallLabels
  BY <1>4, <1>5 DEF Moves, CallLabels, Labels
<1>7. \A u \in Timers : (Listed(u)' <=> Listed(u)) /\ (Picked(u)' <=> Picked(u))
  BY <1>1, <1>4, <1>5 DEF Listed, Picked
<1>8. SeenOne(th)'
  BY <1>5 DEF SeenOne, Before
<1>9. ~\E other \in Threads : Linking(other, t)
  BY <1>1 DEF Serial, Linking
<1>10. state'[t] \in Pending => Listed(t)' \/ Picked(t)' \/ Linking(th, t)'
  <2>1. s \in Pending
    BY <1>3 DEF SettingExpire, Pending
  <2> QED BY <1>1, <1>7, <1>9, <2>1 DEF PendingFound
<1>11. Arms(s) \in {"PENDING_SCHEDULE", "PENDING_RESCHEDULE"}
  BY <1>3 DEF Arms, SettingExpire
<1>12. WaitOne(t)'
  BY <1>5, <1>11 DEF WaitOne, SettingExpire, Gone
<1>13. Picked(t) => curState \in SettingExpire
  BY <1>1, <1>3 DEF PickInv, Picked
<1> QED BY <1>1, <1>2, <1>4, <1>5, <1>6, <1>7, <1>8, <1>10, <1>12, <1>13, SerialMoves

LEMMA SerialSchedule ==
    ASSUME SerialInv, NEW th \in Threads, Schedule(th)
    PROVE  SerialInv'
<1>0. call[th].timer \in Timers
  BY DEF Schedule, SerialInv, LinkInv, TypeInv, Shape, CallLabels, Labels
<1> SUFFICES ASSUME NEW t \in Timers, t = call[th].timer PROVE SerialInv'
  BY <1>0
<1>1. /\ pc \in [Threads -> Labels \union EmtLabels] /\ call \in [Threads -> Calls]
      /\ pc[th] = "schedule" /\ pc[th] \in CallLabels /\ EMT \in Threads
      /\ WaitOne(t) /\ LinkInv /\ PendingFound /\ Serial /\ Nil \notin Timers /\ PickInv
  BY EmtIsThread, ThreadAssumption
     DEF SerialInv, LinkInv, TypeInv, TypeOK, Shape, Schedule, CallLabels, Labels
<1>2. LinkInv'
  BY LinkCall DEF CallStep, SerialInv
<1>3. /\ call' = [call EXCEPT ![th] = NoCall] /\ Goto(th, IF th = EMT THEN "xchg" ELSE "ready")
      /\ UNCHANGED <<state, expire, sched, batch, cur, curState, handles>>
  BY DEF Schedule, timerVars, envVars, emtVars
<1>4. /\ pc'[th] = (IF th = EMT THEN "xchg" ELSE "ready") /\ call'[th] = NoCall
      /\ \A other \in Threads : other # th => pc'[other] = pc[other] /\ call'[other] = call[other]
  BY <1>1, <1>3 DEF Goto
<1>5. Moves(th)
  BY <1>3, <1>4 DEF Moves
<1>6. \A u \in Timers : (Listed(u)' <=> Listed(u)) /\ (Picked(u)' <=> Picked(u))
  BY <1>1, <1>3, <1>4 DEF Listed, Picked
<1>7. SeenOne(th)'
  BY <1>4 DEF SeenOne, Before
<1>8. ~\E other \in Threads : Linking(other, t)
  BY <1>1 DEF Serial, Linking
<1>9. state'[t] \in Pending => Listed(t)' \/ Picked(t)' \/ Linking(th, t)'
  BY <1>1, <1>3, <1>6, <1>8 DEF PendingFound
<1>10. WaitOne(t)'
  <2>1. state[t] \notin SettingExpire
    BY <1>1 DEF WaitOne, Setting, Serial
  <2> QED BY <1>1, <1>3, <2>1 DEF WaitOne
<1>11. Picked(t) /\ curState \notin SettingExpire => state'[t] = curState
  BY <1>1, <1>3 DEF PickInv, Picked
<1> QED BY <1>1, <1>2, <1>3, <1>4, <1>5, <1>6, <1>7, <1>9, <1>10, <1>11, SerialMoves

LEMMA SerialCall ==
    ASSUME SerialInv, Serialised, Races \subseteq Avoided, NEW th \in Threads, BeginSome(th) \/ CallStep(th)
    PROVE  SerialInv'
<1>1. CASE StopFallThrough(th)
  <2>1. state[call[th].timer] # call[th].seen
    BY <1>1 DEF SerialInv, SeenOne, StopFallThrough
  <2> QED BY <1>1, <2>1, TryFails
<1>2. CASE Try(th)
  BY <1>2, TryFails, TrySucceeds
<1> QED BY <1>1, <1>2, SerialBegin, SerialRead, SerialLink, SerialWrite, SerialArm, SerialSchedule
        DEF CallStep


----------------------------------------------------------------------------
(* The steps of EMT on the queue *)

\* A timer that EMT brings from active to expired, and to stopped.
Advances(u) ==
    /\ state[u] \in {"ACTIVE", "EXPIRED"} /\ state'[u] \in {"EXPIRED", "STOPPED"}
    /\ Rank(state'[u]) > Rank(state[u])

\* A timer whose call EMT carries out: it is freed only if it was to be destroyed.
Settles(u) ==
    /\ state[u] \in Pending \ SettingExpire /\ state'[u] \in Settled
    /\ state'[u] = "FREE" => state[u] \in Gone
    /\ \A th \in Threads : ~Linking(th, u)

\* Neither comes between the steps of a call in a way it does not notice.
LEMMA EmtSeen ==
    ASSUME SerialInv, UNCHANGED <<call, expire, handles>>,
           \A th \in Threads : th # EMT => pc'[th] = pc[th],
           pc[EMT] \notin CallLabels, pc'[EMT] \notin CallLabels,
           \A u \in Timers : state'[u] = state[u] \/ Advances(u) \/ Settles(u)
    PROVE  /\ Serial'
           /\ \A th \in Threads : SeenOne(th)'
           /\ \A u \in Timers : state'[u] \in SettingExpire =>
                  \E th \in Threads : (Setting(th) /\ call[th].timer = u)'
<1>1. EMT \in Threads /\ Serial
  BY EmtIsThread DEF SerialInv
<1>2. Serial'
  BY <1>1 DEF Serial
<1>3. ASSUME NEW th \in Threads PROVE SeenOne(th)'
  <2>1. CASE th = EMT
    BY <2>1 DEF SeenOne, Before, CallLabels, Labels
  <2>2. CASE th # EMT /\ pc[th] \notin CallLabels
    BY <2>2 DEF SeenOne, Before, CallLabels, Labels
  <2>3. CASE th # EMT /\ pc[th] \in CallLabels
    <3>0. call[th].timer \in Timers
      BY <2>3 DEF SerialInv, LinkInv, TypeInv, Shape
    <3> SUFFICES ASSUME NEW t \in Timers, t = call[th].timer PROVE SeenOne(th)'
      BY <3>0
    <3>1. SeenOne(th) /\ pc'[th] = pc[th] /\ call'[th] = call[th] /\ call[th].op \in Ops
          /\ call[th].seen \in States
      BY <2>3 DEF SerialInv, LinkInv, TypeInv, Shape, TypeOK, Calls
    <3>2. CASE state'[t] = state[t]
      BY <3>1, <3>2 DEF SeenOne, Before
    <3>3. CASE Advances(t)
      <4>1. state[t] \in Settled /\ state[t] \notin Pending /\ state'[t] \in Settled
            /\ state'[t] \notin SettingExpire \union Gone
        BY <3>3 DEF Advances, Settled, Pending, SettingExpire, Gone
      <4>2. pc[th] \notin {"link", "write", "arm"}
        BY <3>1, <4>1, TargetFacts DEF SeenOne
      <4>3. Rank(state'[t]) > Rank(state[t])
        BY <3>3 DEF Advances
      <4>4. /\ Rank(state[t]) \in Nat /\ Rank(state'[t]) \in Nat /\ Rank(call[th].seen) \in Nat
            /\ call[th].tries \in Nat
        <5>1. state[t] \in States /\ state'[t] \in States
          BY <4>1 DEF States
        <5>2. call[th].tries \in Nat
          BY BoundAssumption DEF SerialInv, LinkInv, TypeInv, TypeOK, Calls
        <5> QED BY <3>1, <5>1, <5>2, RankFacts
      <4>5. pc[th] = "read" => call[th].tries <= Rank(state'[t])
        BY <3>1, <4>3, <4>4 DEF SeenOne
      <4>6. pc[th] \in {"try", "fall"} => Rank(state'[t]) > Rank(call[th].seen)
        BY <3>1, <4>3, <4>4 DEF SeenOne
      <4>7. Before(th)' <=> Before(th)
        BY <3>1 DEF Before
      <4>8. state'[t] # "PENDING_STOP_SCHEDULE"
        BY <4>1 DEF Settled
      <4>9. pc[th] = "fall" => state'[t] # call[th].seen
        BY <4>4, <4>6
      <4> QED BY <2>3, <3>1, <4>1, <4>2, <4>5, <4>6, <4>7, <4>8, <4>9 DEF SeenOne
    <3>4. CASE Settles(t)
      <4>1. CASE ~Before(th)
        <5>1. pc[th] # "link"
          BY <3>4 DEF Settles, Linking
        <5>2. pc[th] \notin {"write", "arm"}
          BY <3>1, <3>4, TargetFacts DEF Settles, SeenOne
        <5> QED BY <3>1, <4>1, <5>1, <5>2 DEF SeenOne, Before
      <4>2. CASE Before(th)
        <5>1. /\ state[t] \in Pending /\ state[t] \notin Gone
              /\ state'[t] \in {"STOPPED", "ACTIVE", "EXPIRED"}
          BY <3>1, <3>4, <4>2 DEF Settles, SeenOne, Settled
        <5>2. Rank(state[t]) = 0 /\ Rank(state'[t]) \in 1 .. 3
          BY <5>1, RankFacts
        <5>3. Rank(call[th].seen) \in Nat /\ call[th].tries \in Nat
          BY <3>1, RankFacts, BoundAssumption DEF SerialInv, LinkInv, TypeInv, TypeOK, Calls
        <5>4. pc[th] = "read" => call[th].tries <= Rank(state'[t])
          BY <3>1, <5>2, <5>3 DEF SeenOne
        <5>5. pc[th] \in {"try", "fall"} => Rank(state'[t]) > Rank(call[th].seen)
          <6>1. pc[th] \in {"try", "fall"} => state[t] = call[th].seen \/ Rank(state[t]) > Rank(call[th].seen)
            BY <3>1 DEF SeenOne
          <6> QED BY <5>2, <5>3, <6>1
        <5>6. /\ state'[t] \notin SettingExpire \union Gone /\ state'[t] # "PENDING_STOP_SCHEDULE"
              /\ Before(th)'
          BY <3>1, <4>2, <5>1 DEF SettingExpire, Gone, Before
        <5>7. pc[th] = "fall" => state'[t] # call[th].seen
          BY <5>2, <5>5
        <5>8. pc[th] \in {"read", "try", "fall"}
          BY <4>2 DEF Before
        <5> QED BY <2>3, <3>1, <4>2, <5>4, <5>5, <5>6, <5>7, <5>8 DEF SeenOne
      <4> QED BY <4>1, <4>2
    <3> QED BY <3>2, <3>3, <3>4
  <2> QED BY <2>1, <2>2, <2>3
<1>4. ASSUME NEW u \in Timers, state'[u] \in SettingExpire
      PROVE  \E th \in Threads : (Setting(th) /\ call[th].timer = u)'
  <2>1. state[u] \in SettingExpire
    BY <1>4 DEF Advances, Settles, SettingExpire, Settled
  <2>2. PICK th \in Threads : Setting(th) /\ call[th].timer = u
    BY <2>1 DEF SerialInv, WaitOne
  <2>3. th # EMT
    BY <2>2 DEF Setting, CallLabels, Labels
  <2> QED BY <2>2, <2>3 DEF Setting
<1> QED BY <1>2, <1>3, <1>4


\* The steps of EMT that leave the schedule list and the batch alone.
LEMMA SerialRun ==
    ASSUME SerialInv, LinkInv', UNCHANGED <<call, expire, handles, sched, batch, cur, curState>>,
           \A th \in Threads : th # EMT => pc'[th] = pc[th],
           pc[EMT] \in {"ready", "run"}, pc'[EMT] \in {"ready", "run", "xchg"},
           \A u \in Timers : state'[u] = state[u] \/ Advances(u)
    PROVE  SerialInv'
<1>1. /\ EMT \in Threads /\ pc[EMT] \notin CallLabels /\ pc'[EMT] \notin CallLabels
      /\ PendingFound /\ PickInv
  BY EmtIsThread DEF CallLabels, Labels, SerialInv
<1>2. /\ Serial'
      /\ \A th \in Threads : SeenOne(th)'
      /\ \A u \in Timers : state'[u] \in SettingExpire =>
             \E th \in Threads : (Setting(th) /\ call[th].timer = u)'
  BY <1>1, EmtSeen
<1>3. \A u \in Timers : state'[u] \in Pending \union Gone => state'[u] = state[u]
  BY DEF Advances, Pending, Gone
<1>4. \A u \in Timers : (Listed(u)' <=> Listed(u)) /\ ~Picked(u) /\ ~Picked(u)'
  BY DEF Listed, Picked
<1>5. \A th \in Threads, u \in Timers : Linking(th, u) => Linking(th, u)'
  BY <1>1 DEF Linking
<1>6. PendingFound'
  BY <1>1, <1>3, <1>4, <1>5 DEF PendingFound
<1>7. ASSUME NEW u \in Timers PROVE WaitOne(u)'
  <2>1. state'[u] \in Gone => u \notin handles'
    BY <1>3 DEF SerialInv, WaitOne
  <2> QED BY <1>2, <2>1 DEF WaitOne
<1>8. PickInv'
  BY <1>1 DEF PickInv
<1> QED BY <1>2, <1>6, <1>7, <1>8 DEF SerialInv

LEMMA SerialTake ==
    ASSUME SerialInv, TakeSchedule
    PROVE  SerialInv'
<1>1. /\ EMT \in Threads /\ pc \in [Threads -> Labels \union EmtLabels] /\ pc[EMT] = "xchg"
      /\ PendingFound /\ PickInv /\ call \in [Threads -> Calls]
  BY EmtIsThread DEF SerialInv, LinkInv, TypeInv, TypeOK, TakeSchedule
<1>2. LinkInv'
  BY LinkEmt DEF EmtStep, SerialInv
<1>3. /\ batch' = sched /\ sched' = <<>> /\ UNCHANGED <<state, expire, call, handles, cur, curState>>
      /\ Goto(EMT, AfterBatch(sched))
  BY DEF TakeSchedule, timerVars, envVars
<1>4. /\ pc'[EMT] \in {"pick", "run", "ready"} /\ (pc'[EMT] # "pick" => sched = <<>>)
      /\ \A th \in Threads : th # EMT => pc'[th] = pc[th]
  BY <1>1, <1>3 DEF Goto, AfterBatch
<1>5. pc[EMT] \notin CallLabels /\ pc'[EMT] \notin CallLabels
  BY <1>1, <1>4 DEF CallLabels, Labels
<1>6. /\ Serial'
      /\ \A th \in Threads : SeenOne(th)'
      /\ \A u \in Timers : state'[u] \in SettingExpire =>
             \E th \in Threads : (Setting(th) /\ call[th].timer = u)'
  BY <1>3, <1>4, <1>5, EmtSeen
<1>7. \A u \in Timers : (Listed(u)' <=> u \in Range(sched)) /\ ~Picked(u) /\ ~Picked(u)'
  BY <1>1, <1>3, <1>4, EmptyFacts DEF Listed, Picked
<1>8. \A u \in Timers : Listed(u) <=> u \in Range(sched)
  BY <1>1, EmptyFacts DEF Listed, PickInv
<1>9. \A th \in Threads, u \in Timers : Linking(th, u) => Linking(th, u)'
  BY <1>1, <1>3, <1>4 DEF Linking
<1>10. PendingFound'
  BY <1>1, <1>3, <1>7, <1>8, <1>9 DEF PendingFound
<1>11. ASSUME NEW u \in Timers PROVE WaitOne(u)'
  <2>1. state[u] \in Gone => u \notin handles
    BY DEF SerialInv, WaitOne
  <2> QED BY <1>3, <1>6, <2>1 DEF WaitOne
<1>12. PickInv'
  BY <1>3, <1>4 DEF PickInv
<1> QED BY <1>2, <1>6, <1>10, <1>11, <1>12 DEF SerialInv

LEMMA SerialPick ==
    ASSUME SerialInv, Pick
    PROVE  SerialInv'
<1>1. /\ EMT \in Threads /\ pc \in [Threads -> Labels \union EmtLabels] /\ pc[EMT] = "pick"
      /\ PendingFound /\ call \in [Threads -> Calls] /\ batch \in Seq(Timers) /\ batch # <<>>
  BY EmtIsThread DEF SerialInv, LinkInv, TypeInv, TypeOK, Shape, Pick
<1>2. LinkInv'
  BY LinkEmt DEF EmtStep, SerialInv
<1>3. /\ batch' = Tail(batch) /\ cur' = Head(batch) /\ curState' = state[Head(batch)]
      /\ UNCHANGED <<state, expire, call, handles, sched>> /\ Goto(EMT, "one")
  BY DEF Pick, timerVars, envVars
<1>4. pc'[EMT] = "one" /\ \A th \in Threads : th # EMT => pc'[th] = pc[th]
  BY <1>1, <1>3 DEF Goto
<1>5. pc[EMT] \notin CallLabels /\ pc'[EMT] \notin CallLabels
  BY <1>1, <1>4 DEF CallLabels, Labels
<1>6. /\ Serial'
      /\ \A th \in Threads : SeenOne(th)'
      /\ \A u \in Timers : state'[u] \in SettingExpire =>
             \E th \in Threads : (Setting(th) /\ call[th].timer = u)'
  BY <1>3, <1>4, <1>5, EmtSeen
<1>7. Range(batch) = Range(Tail(batch)) \union {Head(batch)}
  BY <1>1, RestFacts
<1>8. \A u \in Timers : u \in Range(batch) => u \in Range(batch') \/ Picked(u)'
  BY <1>3, <1>4, <1>7 DEF Picked
<1>9. \A u \in Timers : ~Picked(u) /\ (Listed(u) => Listed(u)' \/ Picked(u)')
  BY <1>1, <1>3, <1>8 DEF Listed, Picked
<1>10. \A th \in Threads, u \in Timers : Linking(th, u) => Linking(th, u)'
  BY <1>1, <1>3, <1>4 DEF Linking
<1>11. PendingFound'
  BY <1>1, <1>3, <1>9, <1>10 DEF PendingFound
<1>12. ASSUME NEW u \in Timers PROVE WaitOne(u)'
  <2>1. WaitOne(u)
    BY DEF SerialInv
  <2> QED BY <1>3, <1>6, <2>1 DEF WaitOne
<1>13. PickInv'
  BY <1>3, <1>4 DEF PickInv
<1> QED BY <1>2, <1>6, <1>11, <1>12, <1>13 DEF SerialInv


\* What EMT stores over the state of the timer it picked is what the state it
\* has read calls for, because that state is still there.
LEMMA SerialOne ==
    ASSUME SerialInv, ScheduleOne
    PROVE  SerialInv'
<1>1. /\ EMT \in Threads /\ pc \in [Threads -> Labels \union EmtLabels] /\ pc[EMT] = "one"
      /\ PendingFound /\ call \in [Threads -> Calls] /\ cur \in Timers /\ LinkInv
      /\ state \in [Timers -> States] /\ curState \in States /\ sched \in Seq(Timers)
  BY EmtIsThread DEF SerialInv, LinkInv, TypeInv, TypeOK, Shape, ScheduleOne
<1>2. LinkInv'
  BY LinkEmt DEF EmtStep, SerialInv
<1>3. UNCHANGED <<expire, call, handles, batch>>
  BY DEF ScheduleOne, envVars
<1>4. /\ Picked(cur) /\ state[cur] \in Pending
      /\ curState \notin SettingExpire => state[cur] = curState
      /\ \A th \in Threads : ~Linking(th, cur)
      /\ \A u \in Timers : u # cur => ~Picked(u)
  BY <1>1 DEF Picked, SerialInv, PickInv, LinkInv, LinkedOnce
<1>5. /\ pc'[EMT] \in {"pick", "run", "ready", "load"}
      /\ pc'[EMT] \in {"run", "ready"} => batch = <<>>
      /\ \A th \in Threads : th # EMT => pc'[th] = pc[th]
  BY <1>1 DEF ScheduleOne, BatchStep, Goto, AfterBatch
<1>6. pc[EMT] \notin CallLabels /\ pc'[EMT] \notin CallLabels
  BY <1>1, <1>5 DEF CallLabels, Labels
<1>7. \/ Settles(cur) /\ state' = [state EXCEPT ![cur] = state'[cur]] /\ sched' = sched
         /\ (state'[cur] \in Gone => state[cur] \in Gone)
      \/ state' = state /\ sched' = <<cur>> \o sched /\ curState \in SettingExpire
  <2>1. CASE curState \in SettingExpire
    BY <2>1 DEF ScheduleOne, SettingExpire
  <2>2. CASE curState \notin SettingExpire
    <3>1. state[cur] = curState /\ curState \in Pending
      BY <1>4, <2>2
    <3>2. /\ state' = [state EXCEPT ![cur] = state'[cur]] /\ sched' = sched
          /\ state'[cur] \in Settled
          /\ state'[cur] \in Gone => curState \in Gone
      BY <1>1, <2>2 DEF ScheduleOne, Settled, Gone
    <3>3. Settles(cur)
      BY <1>4, <2>2, <3>1, <3>2 DEF Settles, Gone
    <3> QED BY <3>1, <3>2, <3>3
  <2> QED BY <2>1, <2>2
<1>8. \A u \in Timers : state'[u] = state[u] \/ Settles(u)
  BY <1>1, <1>7
<1>9. /\ Serial'
      /\ \A th \in Threads : SeenOne(th)'
      /\ \A u \in Timers : state'[u] \in SettingExpire =>
             \E th \in Threads : (Setting(th) /\ call[th].timer = u)'
  BY <1>3, <1>5, <1>6, <1>8, EmtSeen
<1>10. \A u \in Timers : u # cur => state'[u] = state[u] /\ (Listed(u) => Listed(u)')
  <2>1. Range(sched) \subseteq Range(sched')
    <3>1. Range(<<cur>> \o sched) = Range(sched) \union {cur}
      BY <1>1, PushFacts
    <3> QED BY <1>7, <3>1
  <2> QED BY <1>1, <1>3, <1>7, <2>1 DEF Listed
<1>11. state'[cur] \in Pending => cur \in Range(sched') /\ state' = state
  <2>1. CASE Settles(cur)
    BY <2>1, SettledNotPending DEF Settles
  <2>2. CASE state' = state /\ sched' = <<cur>> \o sched
    <3>1. Range(<<cur>> \o sched) = Range(sched) \union {cur}
      BY <1>1, PushFacts
    <3> QED BY <2>2, <3>1
  <2> QED BY <1>7, <2>1, <2>2
<1>12. \A th \in Threads, u \in Timers : Linking(th, u) => Linking(th, u)'
  BY <1>1, <1>3, <1>5 DEF Linking
<1>13. PendingFound'
  <2> SUFFICES ASSUME NEW u \in Timers, state'[u] \in Pending
               PROVE  Listed(u)' \/ \E th \in Threads : Linking(th, u)'
    BY DEF PendingFound
  <2>1. CASE u = cur
    BY <1>11, <2>1 DEF Listed
  <2>2. CASE u # cur
    BY <1>1, <1>4, <1>10, <1>12, <2>2 DEF PendingFound
  <2> QED BY <2>1, <2>2
<1>14. ASSUME NEW u \in Timers PROVE WaitOne(u)'
  <2>1. WaitOne(u)
    BY DEF SerialInv
  <2>2. CASE u # cur
    BY <1>3, <1>9, <1>10, <2>1, <2>2 DEF WaitOne
  <2>3. CASE u = cur
    <3>1. state'[u] \in Gone => u \notin handles
      BY <1>7, <2>1, <2>3 DEF WaitOne
    <3> QED BY <1>3, <1>9, <2>3, <3>1 DEF WaitOne
  <2> QED BY <2>2, <2>3
<1>15. PickInv'
  BY <1>3, <1>5 DEF PickInv
<1> QED BY <1>2, <1>9, <1>13, <1>14, <1>15 DEF SerialInv

LEMMA SerialInsert ==
    ASSUME SerialInv, LoadKey \/ WalkStep
    PROVE  SerialInv'
<1>1. /\ EMT \in Threads /\ pc \in [Threads -> Labels \union EmtLabels]
      /\ pc[EMT] \in {"load", "walk"}
      /\ PendingFound /\ call \in [Threads -> Calls]
  BY EmtIsThread DEF SerialInv, LinkInv, TypeInv, TypeOK, LoadKey, WalkStep
<1>2. LinkInv'
  BY LinkEmt DEF EmtStep, SerialInv
<1>3. UNCHANGED <<state, expire, call, handles, batch, sched>>
  BY DEF LoadKey, WalkStep, envVars, timerVars
<1>4. /\ pc'[EMT] \in {"pick", "run", "ready", "walk"}
      /\ pc'[EMT] \in {"run", "ready"} => batch = <<>>
      /\ \A th \in Threads : th # EMT => pc'[th] = pc[th]
  BY <1>1 DEF LoadKey, WalkStep, BatchStep, Goto, AfterBatch
<1>5. pc[EMT] \notin CallLabels /\ pc'[EMT] \notin CallLabels
  BY <1>1, <1>4 DEF CallLabels, Labels
<1>6. /\ Serial'
      /\ \A th \in Threads : SeenOne(th)'
      /\ \A u \in Timers : state'[u] \in SettingExpire =>
             \E th \in Threads : (Setting(th) /\ call[th].timer = u)'
  BY <1>3, <1>4, <1>5, EmtSeen
<1>7. \A u \in Timers : ~Picked(u) /\ (Listed(u) <=> Listed(u)')
  BY <1>1, <1>3 DEF Listed, Picked
<1>8. \A th \in Threads, u \in Timers : Linking(th, u) => Linking(th, u)'
  BY <1>1, <1>3, <1>4 DEF Linking
<1>9. PendingFound'
  BY <1>1, <1>3, <1>7, <1>8 DEF PendingFound
<1>10. ASSUME NEW u \in Timers PROVE WaitOne(u)'
  <2>1. WaitOne(u)
    BY DEF SerialInv
  <2> QED BY <1>3, <1>6, <2>1 DEF WaitOne
<1>11. PickInv'
  BY <1>3, <1>4 DEF PickInv
<1> QED BY <1>2, <1>6, <1>9, <1>10, <1>11 DEF SerialInv

LEMMA SerialEmt ==
    ASSUME SerialInv, EmtStep
    PROVE  SerialInv'
<1>1. /\ EMT \in Threads /\ pc \in [Threads -> Labels \union EmtLabels]
      /\ state \in [Timers -> States]
  BY EmtIsThread DEF SerialInv, LinkInv, TypeInv, TypeOK
<1>2. LinkInv'
  BY LinkEmt DEF SerialInv
<1>3. CASE QueuesDo \/ RunStart \/ RunEnd \/ ResetEnd
  <2>1. /\ UNCHANGED <<state, call, expire, handles, sched, batch, cur, curState>>
        /\ pc[EMT] \in {"ready", "run"} /\ pc'[EMT] \in {"ready", "run", "xchg"}
        /\ \A th \in Threads : th # EMT => pc'[th] = pc[th]
    BY <1>1, <1>3
       DEF QueuesDo, RunStart, RunEnd, ResetEnd, Goto, timerVars, callVars, envVars, emtVars
  <2> QED BY <1>2, <2>1, SerialRun
<1>4. CASE RunOne
  <2>1. /\ UNCHANGED <<call, expire, handles, sched, batch, cur, curState>>
        /\ pc[EMT] = "run" /\ pc'[EMT] \in {"ready", "run"}
        /\ \A th \in Threads : th # EMT => pc'[th] = pc[th]
    BY <1>1, <1>4 DEF RunOne, Goto, envVars, emtVars
  <2>2. \A u \in Timers : state'[u] = state[u] \/ Advances(u)
    <3>1. CASE state[runNext] = "ACTIVE"
      BY <1>1, <1>4, <3>1, RankFacts DEF RunOne, Advances
    <3>2. CASE state[runNext] # "ACTIVE"
      BY <1>4, <3>2 DEF RunOne
    <3> QED BY <3>1, <3>2
  <2> QED BY <1>2, <2>1, <2>2, SerialRun
<1>5. CASE CallbackReturn
  <2>1. /\ UNCHANGED <<call, expire, handles, sched, batch, cur, curState>>
        /\ pc[EMT] = "ready" /\ pc'[EMT] = "run"
        /\ \A th \in Threads : th # EMT => pc'[th] = pc[th]
    BY <1>1, <1>5 DEF CallbackReturn, Goto, envVars, emtVars
  <2>2. \A u \in Timers : state'[u] = state[u] \/ Advances(u)
    BY <1>1, <1>5, RankFacts DEF CallbackReturn, AfterCallback, Advances
  <2> QED BY <1>2, <2>1, <2>2, SerialRun
<1> QED BY <1>3, <1>4, <1>5, SerialTake, SerialPick, SerialOne, SerialInsert DEF EmtStep

LEMMA SerialRest ==
    ASSUME SerialInv, Reset \/ (\E t \in Timers : Create(t)) \/ Poll \/ Tick \/ UNCHANGED vars
    PROVE  SerialInv'
<1>1. /\ EMT \in Threads /\ pc \in [Threads -> Labels \union EmtLabels]
      /\ state \in [Timers -> States] /\ expire \in [Timers -> Times]
      /\ Serial /\ PendingFound /\ PickInv
  BY EmtIsThread DEF SerialInv, LinkInv, TypeInv, TypeOK
<1>2. LinkInv'
  BY LinkRest DEF SerialInv
<1>3. CASE Reset
  <2>1. /\ UNCHANGED <<state, call, expire, handles, sched, batch, cur, curState>>
        /\ pc[EMT] = "ready" /\ pc'[EMT] = "xchg"
        /\ \A th \in Threads : th # EMT => pc'[th] = pc[th]
    BY <1>1, <1>3 DEF Reset, Goto, timerVars, emtVars
  <2> QED BY <1>2, <2>1, SerialRun
<1>4. CASE Poll \/ Tick \/ UNCHANGED vars
  <2>1. UNCHANGED <<state, pc, call, expire, handles, sched, batch, cur, curState>>
    BY <1>4 DEF Poll, Tick, vars, timerVars, callVars, envVars, emtVars
  <2>2. PendingFound' /\ Serial' /\ PickInv'
    BY <1>1, <2>1 DEF PendingFound, Serial, PickInv, Listed, Picked, Linking
  <2>3. \A th \in Threads : SeenOne(th)'
    BY <2>1 DEF SerialInv, SeenOne, Before
  <2>4. \A u \in Timers : WaitOne(u)'
    BY <2>1 DEF SerialInv, WaitOne, Setting, Picked
  <2> QED BY <1>2, <2>2, <2>3, <2>4 DEF SerialInv
<1>5. ASSUME NEW t \in Timers, Create(t) PROVE SerialInv'
  <2>1. /\ state[t] = "FREE" /\ pc[EMT] = "ready"
        /\ state' = [state EXCEPT ![t] = "STOPPED"] /\ expire' = [expire EXCEPT ![t] = 0]
        /\ handles' = handles \union {t}
        /\ UNCHANGED <<sched, pc, call, batch, cur, curState>>
    BY <1>5 DEF Create, callVars, emtVars
  <2>2. /\ state'[t] = "STOPPED"
        /\ \A u \in Timers : u # t => state'[u] = state[u] /\ expire'[u] = expire[u]
    BY <1>1, <2>1
  <2>3. \A u \in Timers : state'[u] \in Pending => state'[u] = state[u]
    BY <2>2 DEF Pending
  <2>4. PendingFound' /\ Serial' /\ PickInv'
    BY <1>1, <2>1, <2>3 DEF PendingFound, Serial, PickInv, Listed, Picked, Linking
  <2>5. ASSUME NEW th \in Threads PROVE SeenOne(th)'
    <3>1. SeenOne(th)
      BY DEF SerialInv
    <3>2. CASE pc[th] \notin CallLabels
      BY <2>1, <3>2 DEF SeenOne, Before, CallLabels, Labels
    <3>3. CASE pc[th] \in CallLabels /\ call[th].timer # t
      <4>1. call[th].timer \in Timers
        BY <3>3 DEF SerialInv, LinkInv, TypeInv, Shape
      <4> QED BY <2>1, <2>2, <3>1, <3>3, <4>1 DEF SeenOne, Before
    <3>4. CASE pc[th] \in CallLabels /\ call[th].timer = t
      <4>1. ~Before(th)
        BY <2>1, <3>1, <3>4 DEF SeenOne, Gone
      <4>2. pc[th] \notin {"link", "write", "arm"}
        <5>1. call[th].op \in Ops
          BY <3>4 DEF SerialInv, LinkInv, TypeInv, Shape
        <5>2. "FREE" \notin Pending
          BY DEF Pending
        <5> QED BY <2>1, <3>1, <3>4, <5>1, <5>2, TargetFacts DEF SeenOne
      <4> QED BY <2>1, <3>1, <4>1, <4>2 DEF SeenOne, Before
    <3> QED BY <3>2, <3>3, <3>4
  <2>6. ASSUME NEW u \in Timers PROVE WaitOne(u)'
    <3>1. CASE u = t
      BY <2>2, <3>1 DEF WaitOne, SettingExpire, Gone
    <3>2. CASE u # t
      BY <2>1, <2>2, <3>2 DEF SerialInv, WaitOne, Setting, Picked
    <3> QED BY <3>1, <3>2
  <2> QED BY <1>2, <2>4, <2>5, <2>6 DEF SerialInv
<1> QED BY <1>3, <1>4, <1>5

LEMMA SerialAlways == ASSUME Serialised, Races \subseteq Avoided PROVE Spec => []SerialInv
<1>1. SerialInv /\ [Next]_vars => SerialInv'
  BY SerialCall, SerialEmt, SerialRest DEF Next
<1> QED BY SerialInit, <1>1, PTL DEF Spec

\* When the calls on each timer are serialised and meet neither race of Races,
\* a pending timer is never forgotten: it is on the schedule list, in the batch,
\* in EMT's hand, or its thread is about to link it (the compare-and-swap of
\* TMAll.cpp comes first).  EMT may be anywhere with the calls before: a thread
\* does not wait until EMT has carried out its last call.
THEOREM PendingFoundAlways == ASSUME Serialised, Races \subseteq Avoided PROVE Spec => []PendingFound
<1>1. SerialInv => PendingFound
  BY DEF SerialInv
<1> QED BY SerialAlways, <1>1, PTL


----------------------------------------------------------------------------
(* The active list.  It is the least set that holds the head and, with a     *)
(* timer, the next one: what is shown of every such set is shown of it.      *)

ListTypes ==
    /\ next \in [Timers -> Timers \union {Nil}] /\ prev \in [Timers -> Timers \union {Nil}]
    /\ head \in Timers \union {Nil} /\ Nil \notin Timers

LEMMA ActiveClosed ==
    ASSUME ListTypes
    PROVE  /\ Active \subseteq Timers /\ FromHead(Active) /\ Followed(Active)
           /\ \A S \in SUBSET Timers : FromHead(S) /\ Followed(S) => Active \subseteq S
<1>1. FromHead(Active)
  BY DEF ListTypes, Active, FromHead
<1>2. Followed(Active)
  <2> SUFFICES ASSUME NEW t \in Active, next[t] # Nil PROVE next[t] \in Active
    BY DEF Followed
  <2>1. t \in Timers /\ next[t] \in Timers
    BY DEF Active, ListTypes
  <2>2. ASSUME NEW S \in SUBSET Timers, FromHead(S), Followed(S) PROVE next[t] \in S
    <3>1. t \in S
      BY <2>2 DEF Active
    <3> QED BY <2>2, <3>1 DEF Followed
  <2> QED BY <2>1, <2>2 DEF Active
<1> QED BY <1>1, <1>2 DEF Active

\* A timer of the list is its head, or the timer before it leads to it; it is
\* not its own neighbour.
LEMMA NodeFacts ==
    ASSUME ListTypes, ActiveLinked, NEW t \in Active
    PROVE  /\ t \in Timers /\ next[t] # t
           /\ head = t <=> prev[t] = Nil
           /\ head # t => prev[t] \in Active /\ next[prev[t]] = t /\ prev[t] # t
           /\ next[t] # Nil => next[t] \in Active /\ prev[next[t]] = t
           /\ \A u \in Active : next[u] = t => u = prev[t]
<1>1. /\ Active \subseteq Timers /\ t \in Timers /\ FromHead(Active) /\ Followed(Active)
      /\ head # Nil => head \in Active /\ prev[head] = Nil
      /\ \A u \in Active : next[u] # Nil => next[u] \in Active /\ prev[next[u]] = u
  BY ActiveClosed DEF ActiveLinked, FromHead, Followed
<1>2. \A u \in Active : next[u] = t => u = prev[t]
  BY <1>1 DEF ListTypes
<1> DEFINE S == Active \ {t}
<1>3. \/ head = t \/ \E u \in S : next[u] = t
  <2> SUFFICES ASSUME head # t, \A u \in S : next[u] # t PROVE FALSE
    OBVIOUS
  <2>1. FromHead(S) /\ Followed(S) /\ S \in SUBSET Timers
    BY <1>1 DEF FromHead, Followed
  <2>2. Active \subseteq S
    BY <2>1, ActiveClosed
  <2> QED BY <2>2
<1>4. head # t => prev[t] \in Active /\ next[prev[t]] = t /\ prev[t] # t
  BY <1>2, <1>3
<1>5. head = t <=> prev[t] = Nil
  BY <1>1, <1>4 DEF ListTypes
<1>6. next[t] # t
  <2> SUFFICES ASSUME next[t] = t PROVE FALSE
    OBVIOUS
  <2>1. prev[t] = t
    BY <1>2
  <2> QED BY <1>1, <1>4, <1>5, <2>1 DEF ListTypes
<1> QED BY <1>1, <1>2, <1>4, <1>5, <1>6

\* Unlink takes the timer out of the list and nothing else.
LEMMA UnlinkFacts ==
    ASSUME ListTypes, ListTypes', ActiveLinked, NEW t \in Active, Unlink(t)
    PROVE  /\ Active' = Active \ {t} /\ ActiveLinked'
           /\ head' = IF head = t THEN next[t] ELSE head
           /\ head # t => qExpire' = qExpire
           /\ head = t => qExpire' = IF next[t] = Nil THEN Infinity ELSE expire[next[t]]
<1> DEFINE p == prev[t]
           n == next[t]
<1>1. /\ Active \subseteq Timers /\ FromHead(Active) /\ Followed(Active) /\ Nil \notin Timers
      /\ head # Nil => head \in Active /\ prev[head] = Nil
      /\ \A u \in Active : next[u] # Nil => next[u] \in Active /\ prev[next[u]] = u
      /\ \A u \in Timers \ Active : next[u] = Nil /\ prev[u] = Nil
  BY ActiveClosed DEF ActiveLinked, FromHead, Followed, ListTypes
<1>2. /\ t \in Timers /\ n # t /\ (head = t <=> p = Nil)
      /\ head # t => p \in Active /\ next[p] = t /\ p # t
      /\ n # Nil => n \in Active /\ prev[n] = t
      /\ \A u \in Active : next[u] = t => u = p
  BY NodeFacts
<1>3. /\ \A u \in Timers : next'[u] = IF u = t THEN Nil ELSE IF u = p THEN n ELSE next[u]
      /\ \A u \in Timers : prev'[u] = IF u = t THEN Nil ELSE IF u = n THEN p ELSE prev[u]
      /\ head' = IF p = Nil THEN n ELSE head
      /\ qExpire' = IF p = Nil THEN IF n = Nil THEN Infinity ELSE expire[n] ELSE qExpire
  BY DEF Unlink
<1> HIDE DEF p, n
<1>4. Active' \subseteq Active \ {t}
  <2> DEFINE S == Active \ {t}
  <2>1. S \in SUBSET Timers
    BY <1>1
  <2>2. head' # Nil => head' \in S
    BY <1>1, <1>2, <1>3
  <2>3. \A u \in S : next'[u] # Nil => next'[u] \in S
    BY <1>1, <1>2, <1>3
  <2> SUFFICES ASSUME NEW x \in Active', NEW R \in SUBSET Timers, R = S PROVE x \in R
    BY <2>1
  <2>4. FromHead(R)' /\ Followed(R)'
    BY <2>2, <2>3 DEF FromHead, Followed
  <2> QED BY <2>4 DEF Active
<1>5. ASSUME NEW x \in Active \ {t} PROVE x \in Active'
  <2> SUFFICES ASSUME NEW R \in SUBSET Timers, FromHead(R)', Followed(R)' PROVE x \in R
    BY <1>1 DEF Active
  <2>1. /\ head' # Nil => head' \in R
        /\ \A u \in R : next'[u] # Nil => next'[u] \in R
    BY DEF FromHead, Followed
  <2> DEFINE S == (R \cap Active) \ {t}
             T == S \union (IF p = Nil \/ p \in R THEN {t} ELSE {})
  <2>2. T \in SUBSET Timers
    BY <1>2
  <2>3. head # Nil => head \in T
    BY <1>1, <1>2, <1>3, <2>1
  <2>4. ASSUME NEW u \in T, next[u] # Nil PROVE next[u] \in T
    <3>1. u \in Active /\ u \in Timers
      BY <1>1
    <3>2. CASE u = t
      <4>1. p = Nil \/ p \in R
        BY <3>2, <2>4
      <4>2. next[u] = n
        BY <3>2 DEF n
      <4>3. n \in R
        BY <1>1, <1>2, <1>3, <2>1, <2>4, <4>1, <4>2
      <4> QED BY <1>2, <2>4, <4>2, <4>3
    <3>3. CASE u # t /\ next[u] = t
      BY <1>2, <3>1, <3>3, <2>4
    <3>4. CASE u # t /\ next[u] # t
      <4>1. u # p
        BY <1>1, <1>2, <3>1, <3>4
      <4>2. next'[u] = next[u]
        BY <1>3, <3>1, <3>4, <4>1
      <4> QED BY <1>1, <2>1, <2>4, <3>1, <3>4, <4>2
    <3> QED BY <3>2, <3>3, <3>4
  <2>5. Active \subseteq T
    BY <2>2, <2>3, <2>4, ActiveClosed DEF FromHead, Followed
  <2> QED BY <2>5
<1>6. Active' = Active \ {t}
  BY <1>4, <1>5
<1>7. ActiveLinked'
  <2>1. head' # Nil => prev'[head'] = Nil
    BY <1>1, <1>2, <1>3
  <2>2. \A u \in Active \ {t} : next'[u] # Nil => prev'[next'[u]] = u
    BY <1>1, <1>2, <1>3
  <2>3. \A u \in Timers : u \notin Active \/ u = t => next'[u] = Nil /\ prev'[u] = Nil
    BY <1>1, <1>2, <1>3
  <2> QED BY <1>6, <2>1, <2>2, <2>3 DEF ActiveLinked
<1> QED BY <1>2, <1>3, <1>6, <1>7 DEF p, n


\* An insertion before a timer of the list, or of the first timer.
LEMMA InsertBefore ==
    ASSUME ListTypes, ListTypes', ActiveLinked, NEW t \in Timers \ Active, NEW w \in Active,
           next' = [u \in Timers |-> IF u = prev[w] THEN t ELSE IF u = t THEN w ELSE next[u]],
           prev' = [u \in Timers |-> IF u = w THEN t ELSE IF u = t THEN prev[w] ELSE prev[u]],
           head' = IF prev[w] = Nil THEN t ELSE head
    PROVE  Active' = Active \union {t} /\ ActiveLinked'
<1> DEFINE p == prev[w]
<1>1. /\ Active \subseteq Timers /\ FromHead(Active) /\ Followed(Active) /\ Nil \notin Timers
      /\ head # Nil => head \in Active /\ prev[head] = Nil
      /\ \A u \in Active : next[u] # Nil => next[u] \in Active /\ prev[next[u]] = u
      /\ \A u \in Timers \ Active : next[u] = Nil /\ prev[u] = Nil
  BY ActiveClosed DEF ActiveLinked, FromHead, Followed, ListTypes
<1>2. /\ w \in Timers /\ w # t /\ (head = w <=> p = Nil)
      /\ p # t /\ (head # w => p \in Active /\ next[p] = w /\ p # w)
      /\ \A u \in Active : next[u] = w => u = p
  BY <1>1, NodeFacts
<1>3. /\ \A u \in Timers : next'[u] = IF u = p THEN t ELSE IF u = t THEN w ELSE next[u]
      /\ \A u \in Timers : prev'[u] = IF u = w THEN t ELSE IF u = t THEN p ELSE prev[u]
      /\ head' = IF p = Nil THEN t ELSE head
  OBVIOUS
<1> HIDE DEF p
<1>4. Active' \subseteq Active \union {t}
  <2> DEFINE S == Active \union {t}
  <2>1. S \in SUBSET Timers
    BY <1>1
  <2>2. head' # Nil => head' \in S
    BY <1>1, <1>3
  <2>3. \A u \in S : next'[u] # Nil => next'[u] \in S
    BY <1>1, <1>2, <1>3
  <2> SUFFICES ASSUME NEW x \in Active', NEW R \in SUBSET Timers, R = S PROVE x \in R
    BY <2>1
  <2>4. FromHead(R)' /\ Followed(R)'
    BY <2>2, <2>3 DEF FromHead, Followed
  <2> QED BY <2>4 DEF Active
<1>5. ASSUME NEW x \in Active \union {t} PROVE x \in Active'
  <2> SUFFICES ASSUME NEW R \in SUBSET Timers, FromHead(R)', Followed(R)' PROVE x \in R
    BY <1>1 DEF Active
  <2>1. /\ head' # Nil => head' \in R
        /\ \A u \in R : next'[u] # Nil => next'[u] \in R
    BY DEF FromHead, Followed
  <2> DEFINE S == R \cap Active
  <2>2. S \in SUBSET Timers
    OBVIOUS
  <2>3. head # Nil => head \in S
    <3>1. CASE p = Nil
      <4>1. t \in R /\ next'[t] = w /\ head = w
        BY <1>1, <1>2, <1>3, <2>1, <3>1
      <4> QED BY <1>1, <1>2, <2>1, <4>1
    <3>2. CASE p # Nil
      BY <1>1, <1>3, <2>1, <3>2
    <3> QED BY <3>1, <3>2
  <2>4. ASSUME NEW u \in S, next[u] # Nil PROVE next[u] \in S
    <3>1. CASE u = p
      <4>1. head # w /\ next[u] = w
        BY <1>1, <1>2, <3>1
      <4>2. t \in R /\ next'[t] = w
        BY <1>1, <1>2, <1>3, <2>1, <3>1
      <4> QED BY <1>1, <1>2, <2>1, <4>1, <4>2
    <3>2. CASE u # p
      <4>1. next'[u] = next[u]
        BY <1>3, <3>2
      <4> QED BY <1>1, <2>1, <2>4, <4>1
    <3> QED BY <3>1, <3>2
  <2>5. Active \subseteq S
    BY <2>2, <2>3, <2>4, ActiveClosed DEF FromHead, Followed
  <2>6. t \in R
    BY <1>1, <1>2, <1>3, <2>1, <2>5
  <2> QED BY <2>5, <2>6
<1>6. Active' = Active \union {t}
  BY <1>4, <1>5
<1>7. ActiveLinked'
  <2>1. head' # Nil => prev'[head'] = Nil
    BY <1>1, <1>2, <1>3
  <2>2. \A u \in Active \union {t} : next'[u] # Nil => prev'[next'[u]] = u
    <3> SUFFICES ASSUME NEW u \in Active \union {t}, next'[u] # Nil PROVE prev'[next'[u]] = u
      OBVIOUS
    <3>1. CASE u = t
      BY <1>1, <1>2, <1>3, <3>1
    <3>2. CASE u = p
      BY <1>1, <1>2, <1>3, <3>2
    <3>3. CASE u # t /\ u # p
      <4>1. u \in Active /\ u \in Timers /\ next'[u] = next[u]
        BY <1>1, <1>3, <3>3
      <4>2. next[u] \in Active /\ prev[next[u]] = u /\ next[u] # w /\ next[u] # t
        BY <1>1, <1>2, <3>3, <4>1
      <4> QED BY <1>1, <1>3, <4>1, <4>2
    <3> QED BY <3>1, <3>2, <3>3
  <2>3. \A u \in Timers \ (Active \union {t}) : next'[u] = Nil /\ prev'[u] = Nil
    BY <1>1, <1>2, <1>3
  <2> QED BY <1>6, <2>1, <2>2, <2>3 DEF ActiveLinked
<1> QED BY <1>6, <1>7

\* An insertion behind the last timer.
LEMMA InsertLast ==
    ASSUME ListTypes, ListTypes', ActiveLinked, NEW t \in Timers \ Active, NEW w \in Active,
           next[w] = Nil,
           next' = [next EXCEPT ![w] = t], prev' = [prev EXCEPT ![t] = w], head' = head
    PROVE  Active' = Active \union {t} /\ ActiveLinked'
<1>1. /\ Active \subseteq Timers /\ FromHead(Active) /\ Followed(Active) /\ Nil \notin Timers
      /\ head # Nil => head \in Active /\ prev[head] = Nil
      /\ \A u \in Active : next[u] # Nil => next[u] \in Active /\ prev[next[u]] = u
      /\ \A u \in Timers \ Active : next[u] = Nil /\ prev[u] = Nil
  BY ActiveClosed DEF ActiveLinked, FromHead, Followed, ListTypes
<1>2. w \in Timers /\ w # t
  BY <1>1
<1>3. /\ \A u \in Timers : next'[u] = IF u = w THEN t ELSE next[u]
      /\ \A u \in Timers : prev'[u] = IF u = t THEN w ELSE prev[u]
  BY <1>2 DEF ListTypes
<1>4. Active' \subseteq Active \union {t}
  <2> DEFINE S == Active \union {t}
  <2>1. S \in SUBSET Timers /\ FromHead(Active)
    BY <1>1
  <2>2. \A u \in S : next'[u] # Nil => next'[u] \in S
    BY <1>1, <1>3
  <2> SUFFICES ASSUME NEW x \in Active', NEW R \in SUBSET Timers, R = S PROVE x \in R
    BY <2>1
  <2>3. FromHead(R)' /\ Followed(R)'
    BY <2>1, <2>2 DEF FromHead, Followed
  <2> QED BY <2>3 DEF Active
<1>5. ASSUME NEW x \in Active \union {t} PROVE x \in Active'
  <2> SUFFICES ASSUME NEW R \in SUBSET Timers, FromHead(R)', Followed(R)' PROVE x \in R
    BY <1>1 DEF Active
  <2>1. /\ head # Nil => head \in R
        /\ \A u \in R : next'[u] # Nil => next'[u] \in R
    BY DEF FromHead, Followed
  <2> DEFINE S == R \cap Active
  <2>2. S \in SUBSET Timers /\ (head # Nil => head \in S)
    BY <1>1, <2>1
  <2>3. \A u \in S : next[u] # Nil => next[u] \in S
    BY <1>1, <1>3, <2>1
  <2>4. Active \subseteq S
    BY <2>2, <2>3, ActiveClosed DEF FromHead, Followed
  <2>5. t \in R
    BY <1>1, <1>2, <1>3, <2>1, <2>4
  <2> QED BY <2>4, <2>5
<1>6. Active' = Active \union {t}
  BY <1>4, <1>5
<1>7. ActiveLinked'
  <2>1. head' # Nil => prev'[head'] = Nil
    BY <1>1, <1>3
  <2>2. \A u \in Active \union {t} : next'[u] # Nil => prev'[next'[u]] = u
    BY <1>1, <1>2, <1>3
  <2>3. \A u \in Timers \ (Active \union {t}) : next'[u] = Nil /\ prev'[u] = Nil
    BY <1>1, <1>2, <1>3
  <2> QED BY <1>6, <2>1, <2>2, <2>3 DEF ActiveLinked
<1> QED BY <1>6, <1>7

\* An insertion into the empty list.
LEMMA InsertFirst ==
    ASSUME ListTypes, ActiveLinked, NEW t \in Timers, head = Nil, head' = t, UNCHANGED <<next, prev>>
    PROVE  Active = {} /\ Active' = {t} /\ ActiveLinked'
<1>1. Active = {}
  <2>1. {} \in SUBSET Timers /\ FromHead({}) /\ Followed({})
    BY DEF FromHead, Followed
  <2> QED BY <2>1, ActiveClosed
<1>2. \A u \in Timers : next[u] = Nil /\ prev[u] = Nil
  BY <1>1 DEF ActiveLinked
<1>3. Active' = {t}
  <2>1. {t} \in SUBSET Timers /\ FromHead({t})' /\ Followed({t})'
    BY <1>2 DEF FromHead, Followed
  <2>2. Active' \subseteq {t}
    BY <2>1 DEF Active
  <2>3. \A R \in SUBSET Timers : FromHead(R)' => t \in R
    BY DEF FromHead, ListTypes
  <2> QED BY <2>2, <2>3 DEF Active
<1>4. ActiveLinked'
  BY <1>2, <1>3 DEF ActiveLinked
<1> QED BY <1>1, <1>3, <1>4

----------------------------------------------------------------------------
(* The active list holds the timers whose state says so.  Its links change   *)
(* only under EMT, and a call keeps its timer on the list or off it.         *)

\* The timer EMT is inserting is set to be active, though its owner may by now
\* have changed its mind, and the insertion loop is at a timer of the list.
InsInv ==
    /\ \A t \in Timers : Inserting(t) => state[t] \in OnListStates
    /\ pc[EMT] = "walk" => walk \in Active /\ (state[cur] = "ACTIVE" => key = expire[cur])

ActiveInv == SerialInv /\ ActiveLinked /\ ActiveByState /\ HeadCached /\ InsInv

LEMMA ActiveTypes == TypeInv => ListTypes
BY ThreadAssumption DEF TypeInv, TypeOK, ListTypes

LEMMA ActiveInit == Init => ActiveInv
<1> SUFFICES ASSUME Init PROVE ActiveInv
  OBVIOUS
<1>1. /\ pc[EMT] = "ready" /\ head = Nil /\ qExpire = Infinity
      /\ \A t \in Timers : state[t] = "STOPPED" /\ next[t] = Nil /\ prev[t] = Nil
  BY EmtIsThread DEF Init
<1>2. Active = {}
  <2>1. {} \in SUBSET Timers /\ FromHead({}) /\ Followed({})
    BY <1>1 DEF FromHead, Followed
  <2> QED BY <2>1, TypeInit, ActiveTypes, ActiveClosed
<1>3. ActiveLinked /\ ActiveByState
  BY <1>1, <1>2 DEF ActiveLinked, ActiveByState, OnListStates
<1>4. HeadCached /\ InsInv
  BY <1>1 DEF HeadCached, InsInv, Inserting
<1> QED BY SerialInit, <1>3, <1>4 DEF ActiveInv

\* No timer moves on the list or off it, and the expire time of an active timer
\* stays.
Stays(t) ==
    /\ state'[t] \in OnListStates <=> state[t] \in OnListStates
    /\ state'[t] = "ACTIVE" => state[t] = "ACTIVE" /\ expire'[t] = expire[t]

LEMMA ActiveFrame ==
    ASSUME ActiveInv, SerialInv', UNCHANGED <<next, prev, head, qExpire>>,
           \A t \in Timers : Stays(t),
           \A t \in Timers : Inserting(t)' <=> Inserting(t),
           pc'[EMT] = "walk" => pc[EMT] = "walk" /\ UNCHANGED <<cur, walk, key>>
    PROVE  ActiveInv'
<1>1. Active' = Active
  BY DEF Active, FromHead, Followed
<1>2. ListTypes /\ ListTypes' /\ TypeInv /\ TypeInv'
  BY ThreadAssumption DEF ActiveInv, SerialInv, LinkInv, TypeInv, TypeOK, ListTypes
<1>3. ActiveLinked'
  BY <1>1 DEF ActiveInv, ActiveLinked
<1>4. ActiveByState'
  BY <1>1 DEF ActiveInv, ActiveByState, Stays
<1>5. HeadCached'
  <2>1. head # Nil => Stays(head)
    BY <1>2 DEF ListTypes
  <2> QED BY <2>1 DEF ActiveInv, HeadCached, Stays
<1>6. InsInv'
  <2>1. pc'[EMT] = "walk" => cur \in Timers /\ walk \in Active /\ (state[cur] = "ACTIVE" => key = expire[cur])
    BY <1>2 DEF ActiveInv, InsInv, TypeInv, Shape
  <2>2. pc'[EMT] = "walk" => Stays(cur)
    BY <2>1
  <2> QED BY <1>1, <2>1, <2>2 DEF ActiveInv, InsInv, Stays
<1> QED BY <1>3, <1>4, <1>5, <1>6 DEF ActiveInv

\* The compare-and-swap TMTimerStop falls through to fails: only the state moved.
LEMMA FallFails ==
    ASSUME SerialInv, NEW th \in Threads, StopFallThrough(th)
    PROVE  /\ th # EMT /\ Retry(th)
           /\ UNCHANGED <<state, expire, listVars, sched, ff, envVars, emtVars, runVars>>
<1>1. SeenOne(th) /\ pc[th] = "fall"
  BY DEF SerialInv, StopFallThrough
<1>2. state[call[th].timer] # call[th].seen /\ th # EMT
  BY <1>1 DEF SeenOne
<1> QED BY <1>2 DEF StopFallThrough

\* The compare-and-swap of a call keeps its timer on the list or off it.  Only
\* a destruction that met PENDING_STOP_SCHEDULE would not.
LEMMA TryStays ==
    ASSUME SerialInv, NEW th \in Threads, Try(th)
    PROVE  \A t \in Timers : Stays(t)
<1>1. /\ pc[th] = "try" /\ call[th].timer \in Timers /\ call[th].op \in Ops /\ SeenOne(th)
      /\ state \in [Timers -> States] /\ expire' = expire
  BY DEF Try, SerialInv, LinkInv, TypeInv, TypeOK, Shape, CallLabels, Labels
<1> SUFFICES ASSUME NEW t \in Timers, t = call[th].timer, NEW s, s = call[th].seen,
                    NEW o \in Ops, o = call[th].op
             PROVE  \A u \in Timers : Stays(u)
  BY <1>1
<1>2. CASE state[t] # s
  <2>1. state' = state
    BY <1>2 DEF Try
  <2> QED BY <1>1, <2>1 DEF Stays
<1>3. CASE state[t] = s
  <2>1. state' = [state EXCEPT ![t] = Target(o, s)]
    BY <1>3 DEF Try
  <2>2. ~Final(th, o, s) /\ s \notin SettingExpire \union Gone /\ s \in States
    BY <1>1, <1>3 DEF SeenOne, Before
  <2>3. o = "Destroy" => s # "PENDING_STOP_SCHEDULE"
    BY <1>1 DEF SeenOne
  <2>4. Target(o, s) \in OnListStates <=> s \in OnListStates
    BY <2>2, <2>3 DEF Ops, Final, Target, SetTarget, StopTarget, DestroyTarget, OnListStates,
                      States, Settled, Pending, SettingExpire, Gone
  <2>5. Target(o, s) # "ACTIVE"
    BY DEF Ops, Target, SetTarget, StopTarget, DestroyTarget
  <2> QED BY <1>1, <1>3, <2>1, <2>4, <2>5 DEF Stays
<1> QED BY <1>2, <1>3

LEMMA ArmStays ==
    ASSUME SerialInv, NEW th \in Threads, WriteExpire(th) \/ Arm(th)
    PROVE  \A t \in Timers : Stays(t)
<1>1. /\ pc[th] \in {"write", "arm"} /\ call[th].timer \in Timers /\ SeenOne(th)
      /\ state \in [Timers -> States] /\ expire \in [Timers -> Times]
  BY DEF WriteExpire, Arm, SerialInv, LinkInv, TypeInv, TypeOK, Shape, CallLabels, Labels
<1> SUFFICES ASSUME NEW t \in Timers, t = call[th].timer, NEW s, s = call[th].seen
             PROVE  \A u \in Timers : Stays(u)
  BY <1>1
<1>2. state[t] = SetTarget(s) /\ state[t] # "ACTIVE"
  BY <1>1, TargetFacts DEF SeenOne, Ops, SetTarget
<1>3. CASE WriteExpire(th)
  BY <1>1, <1>2, <1>3 DEF WriteExpire, Stays
<1>4. CASE Arm(th)
  <2>1. /\ expire' = expire /\ \A u \in Timers : u # t => state'[u] = state[u]
        /\ state'[t] = IF state[t] = "PENDING_SCHEDULE_SET_EXPIRE"
                       THEN "PENDING_SCHEDULE" ELSE "PENDING_RESCHEDULE"
    BY <1>1, <1>2, <1>4 DEF Arm
  <2>2. state[t] \in {"PENDING_SCHEDULE_SET_EXPIRE", "PENDING_RESCHEDULE_SET_EXPIRE"}
    BY <1>2 DEF SetTarget
  <2> QED BY <2>1, <2>2 DEF Stays, OnListStates
<1> QED BY <1>1, <1>3, <1>4

LEMMA ActiveCall ==
    ASSUME ActiveInv, Serialised, Races \subseteq Avoided, NEW th \in Threads, BeginSome(th) \/ CallStep(th)
    PROVE  ActiveInv'
<1>1. SerialInv /\ SerialInv'
  BY SerialCall DEF ActiveInv
<1>2. UNCHANGED <<next, prev, head, qExpire, cur, walk, key>>
  BY DEF BeginSome, Begin, CallStep, Read, Try, StopFallThrough, Link, WriteExpire, Arm, Schedule,
         listVars, emtVars
<1>3. \A t \in Timers : Stays(t)
  <2>1. CASE BeginSome(th) \/ Read(th) \/ Link(th) \/ Schedule(th) \/ StopFallThrough(th)
    <3>1. UNCHANGED <<state, expire>>
      BY <1>1, <2>1, FallFails DEF BeginSome, Begin, Read, Link, Schedule, timerVars
    <3> QED BY <3>1 DEF Stays
  <2> QED BY <1>1, <2>1, TryStays, ArmStays DEF CallStep
<1>4. (pc[EMT] \in {"load", "walk"} <=> pc'[EMT] \in {"load", "walk"})
      /\ (pc'[EMT] = "walk" => pc[EMT] = "walk")
  <2>1. CASE th # EMT
    <3>1. pc'[EMT] = pc[EMT]
      BY <1>1, <2>1, EmtIsThread
         DEF BeginSome, Begin, CallStep, Read, Try, StopFallThrough, Link, WriteExpire, Arm, Schedule,
             Goto, Return, Retry, SerialInv, LinkInv, TypeInv, TypeOK
    <3> QED BY <3>1
  <2>2. CASE th = EMT
    <3>1. pc[EMT] \in Labels /\ pc'[EMT] \in Labels \union {"xchg"}
      <4>1. pc \in [Threads -> Labels \union EmtLabels] /\ EMT \in Threads
        BY <1>1, EmtIsThread DEF SerialInv, LinkInv, TypeInv, TypeOK
      <4>2. CASE BeginSome(EMT) \/ Link(EMT) \/ WriteExpire(EMT) \/ Arm(EMT) \/ Schedule(EMT)
        BY <4>1, <4>2 DEF BeginSome, Begin, Link, WriteExpire, Arm, Schedule, Goto, Labels
      <4>3. CASE Read(EMT) \/ Try(EMT)
        BY <4>1, <4>3 DEF Read, Try, Goto, Return, Retry, Labels
      <4>4. ~StopFallThrough(EMT)
        BY <1>1, <4>1, FallFails
      <4> QED BY <2>2, <4>2, <4>3, <4>4 DEF CallStep
    <3> QED BY <3>1 DEF Labels
  <2> QED BY <2>1, <2>2
<1>5. \A t \in Timers : Inserting(t)' <=> Inserting(t)
  BY <1>2, <1>4 DEF Inserting
<1> QED BY <1>1, <1>2, <1>3, <1>4, <1>5, ActiveFrame

\* What holds in every step of EMT: the types, and where Active is.
LEMMA ActiveNow ==
    ASSUME ActiveInv
    PROVE  /\ TypeInv /\ ListTypes /\ EMT \in Threads
           /\ state \in [Timers -> States] /\ expire \in [Timers -> Times]
           /\ pc \in [Threads -> Labels \union EmtLabels]
           /\ Active \subseteq Timers /\ (head # Nil => head \in Active)
           /\ head = Nil => Active = {}
           /\ \A t \in Timers : t \in Active <=> state[t] \in OnListStates /\ ~Inserting(t)
<1>1. TypeInv /\ ListTypes /\ ActiveByState
  BY ActiveTypes DEF ActiveInv, SerialInv, LinkInv
<1>2. Active \subseteq Timers /\ (head # Nil => head \in Active)
  BY <1>1, ActiveClosed DEF FromHead
<1>3. head = Nil => Active = {}
  <2> SUFFICES ASSUME head = Nil PROVE Active = {}
    OBVIOUS
  <2>1. {} \in SUBSET Timers /\ FromHead({}) /\ Followed({})
    BY DEF FromHead, Followed
  <2> QED BY <1>1, <2>1, ActiveClosed
<1> QED BY <1>1, <1>2, <1>3, EmtIsThread DEF TypeInv, TypeOK, ActiveByState

\* A timer of the list is unlinked and its state says so.
LEMMA ActiveUnlink ==
    ASSUME ActiveInv, SerialInv', expire' = expire,
           NEW t \in Timers, state[t] \in OnListStates, ~Inserting(t), Unlink(t),
           \A u \in Timers : u # t => state'[u] = state[u],
           state'[t] \in OnListStates => Inserting(t)',
           \A u \in Timers : Inserting(u) => u = t,
           \A u \in Timers : Inserting(u)' => u = t /\ state'[t] \in OnListStates,
           pc'[EMT] # "walk"
    PROVE  ActiveInv'
<1>1. /\ TypeInv /\ ListTypes /\ Active \subseteq Timers /\ t \in Active
      /\ \A u \in Timers : u \in Active <=> state[u] \in OnListStates /\ ~Inserting(u)
  BY ActiveNow
<1>2. ListTypes' /\ ActiveLinked
  BY ThreadAssumption DEF SerialInv, LinkInv, TypeInv, TypeOK, ListTypes, ActiveInv
<1>3. /\ Active' = Active \ {t} /\ ActiveLinked'
      /\ head' = IF head = t THEN next[t] ELSE head
      /\ head # t => qExpire' = qExpire
      /\ head = t => qExpire' = IF next[t] = Nil THEN Infinity ELSE expire[next[t]]
  BY <1>1, <1>2, UnlinkFacts
<1>4. \A u \in Timers : u \in Active' <=> state'[u] \in OnListStates /\ ~Inserting(u)'
  BY <1>1, <1>3
<1>5. HeadCached'
  <2>1. HeadCached /\ (head # Nil => head \in Timers)
    BY <1>1 DEF ActiveInv, ListTypes
  <2> QED BY <1>1, <1>3, <2>1 DEF HeadCached
<1>6. InsInv'
  BY DEF InsInv
<1> QED BY <1>3, <1>4, <1>5, <1>6 DEF ActiveInv, ActiveByState

LEMMA ActiveOne ==
    ASSUME ActiveInv, ScheduleOne
    PROVE  ActiveInv'
<1>1. /\ TypeInv /\ ListTypes /\ EMT \in Threads /\ state \in [Timers -> States]
      /\ pc \in [Threads -> Labels \union EmtLabels] /\ pc[EMT] = "one" /\ cur \in Timers
      /\ curState \in States
  BY ActiveNow DEF ScheduleOne, TypeInv, TypeOK, Shape
<1>2. SerialInv /\ SerialInv'
  BY SerialEmt DEF ActiveInv, EmtStep
<1>3. /\ (curState \notin SettingExpire => state[cur] = curState) /\ state[cur] \in Pending
      /\ \A u \in Timers : ~Inserting(u)
  BY <1>1, <1>2 DEF SerialInv, LinkInv, PickInv, Picked, Inserting
<1>4. expire' = expire /\ pc'[EMT] # "walk"
  BY <1>1 DEF ScheduleOne, BatchStep, Goto, AfterBatch
<1>5. CASE curState \in SettingExpire
  <2>1. /\ UNCHANGED <<state, next, prev, head, qExpire>>
        /\ pc'[EMT] \notin {"load", "walk"}
    BY <1>1, <1>5 DEF ScheduleOne, SettingExpire, listVars, BatchStep, Goto, AfterBatch
  <2>2. \A u \in Timers : Stays(u) /\ (Inserting(u)' <=> Inserting(u))
    BY <1>3, <1>4, <2>1 DEF Stays, Inserting
  <2> QED BY <1>2, <1>4, <2>1, <2>2, ActiveFrame
<1>6. CASE curState \notin SettingExpire
  <2>1. state[cur] = curState
    BY <1>3, <1>6
  <2>2. \A u \in Timers : u # cur => state'[u] = state[u]
    BY <1>1 DEF ScheduleOne
  <2>3. CASE curState \in {"PENDING_RESCHEDULE", "PENDING_STOP", "PENDING_STOP_DESTROY"}
    <3>1. Unlink(cur) /\ state[cur] \in OnListStates
      BY <2>1, <2>3 DEF ScheduleOne, OnListStates
    <3>2. CASE curState = "PENDING_RESCHEDULE"
      <4>1. state'[cur] = "ACTIVE" /\ pc'[EMT] = "load" /\ cur' = cur
        BY <1>1, <3>2 DEF ScheduleOne, SettingExpire, Goto
      <4>2. state'[cur] \in OnListStates /\ \A u \in Timers : Inserting(u)' <=> u = cur
        BY <4>1 DEF Inserting, OnListStates
      <4> QED BY <1>1, <1>2, <1>3, <1>4, <2>2, <3>1, <4>2, ActiveUnlink
    <3>3. CASE curState \in {"PENDING_STOP", "PENDING_STOP_DESTROY"}
      <4>1. state'[cur] \in {"STOPPED", "FREE"} /\ pc'[EMT] \notin {"load", "walk"}
        BY <1>1, <3>3 DEF ScheduleOne, SettingExpire, BatchStep, Goto, AfterBatch
      <4>2. state'[cur] \notin OnListStates /\ \A u \in Timers : ~Inserting(u)'
        BY <4>1 DEF Inserting, OnListStates
      <4> QED BY <1>1, <1>2, <1>3, <1>4, <2>2, <3>1, <4>2, ActiveUnlink
    <3> QED BY <2>3, <3>2, <3>3
  <2>4. CASE curState \in {"PENDING_STOP_SCHEDULE", "PENDING_DESTROY"}
    <3>1. /\ UNCHANGED <<next, prev, head, qExpire>> /\ state'[cur] \in {"STOPPED", "FREE"}
          /\ pc'[EMT] \notin {"load", "walk"}
      BY <1>1, <2>4 DEF ScheduleOne, SettingExpire, listVars, BatchStep, Goto, AfterBatch
    <3>2. \A u \in Timers : Stays(u) /\ (Inserting(u)' <=> Inserting(u))
      BY <1>3, <1>4, <2>1, <2>2, <2>4, <3>1 DEF Stays, Inserting, OnListStates
    <3> QED BY <1>2, <1>4, <3>1, <3>2, ActiveFrame
  <2>5. CASE curState = "PENDING_SCHEDULE"
    <3>1. /\ UNCHANGED <<next, prev, head, qExpire>> /\ state'[cur] = "ACTIVE"
          /\ pc'[EMT] = "load" /\ cur' = cur
      BY <1>1, <2>5 DEF ScheduleOne, SettingExpire, listVars, Goto
    <3>2. Active' = Active
      BY <3>1 DEF Active, FromHead, Followed
    <3>3. cur \notin Active /\ \A u \in Timers : Inserting(u)' <=> u = cur
      BY <1>1, <2>1, <2>5, <3>1, ActiveNow DEF Inserting, OnListStates
    <3>4. ActiveLinked'
      BY <3>1, <3>2 DEF ActiveInv, ActiveLinked
    <3>5. ActiveByState'
      BY <1>3, <2>2, <3>2, <3>3, ActiveNow DEF ActiveByState
    <3>6. HeadCached'
      <4>1. head # cur /\ (head # Nil => head \in Timers)
        BY <1>1, <3>3, ActiveNow DEF ListTypes
      <4> QED BY <1>4, <2>2, <3>1, <4>1 DEF ActiveInv, HeadCached
    <3>7. InsInv'
      BY <3>1, <3>3 DEF InsInv, OnListStates
    <3> QED BY <1>2, <3>4, <3>5, <3>6, <3>7 DEF ActiveInv
  <2> QED BY <1>3, <1>6, <2>1, <2>3, <2>4, <2>5 DEF Pending, SettingExpire
<1> QED BY <1>5, <1>6

\* The timer at hand is put into the list: its state says it is on it.
LEMMA ActiveInsert ==
    ASSUME ActiveInv, SerialInv', UNCHANGED state, pc[EMT] \in {"load", "walk"},
           pc'[EMT] \notin {"load", "walk"},
           Active' = Active \union {cur}, ActiveLinked', HeadCached'
    PROVE  ActiveInv'
<1>1. /\ \A t \in Timers : ~Inserting(t)'
      /\ \A t \in Timers : Inserting(t) <=> t = cur
      /\ \A t \in Timers : Inserting(t) => state[t] \in OnListStates
  BY DEF ActiveInv, InsInv, Inserting
<1>2. ActiveByState'
  BY <1>1, ActiveNow DEF ActiveByState
<1>3. InsInv'
  BY <1>1 DEF InsInv
<1> QED BY <1>2, <1>3 DEF ActiveInv

LEMMA ActiveLoad ==
    ASSUME ActiveInv, LoadKey
    PROVE  ActiveInv'
<1>1. /\ TypeInv /\ ListTypes /\ EMT \in Threads /\ pc \in [Threads -> Labels \union EmtLabels]
      /\ pc[EMT] = "load" /\ cur \in Timers /\ Inserting(cur) /\ ActiveLinked
      /\ UNCHANGED <<state, expire, next, prev>>
  BY ActiveNow DEF LoadKey, TypeInv, Shape, Inserting, timerVars, ActiveInv
<1>2. SerialInv' /\ ListTypes'
  <2>1. SerialInv'
    BY SerialEmt DEF ActiveInv, EmtStep
  <2> QED BY <2>1, ThreadAssumption DEF SerialInv, LinkInv, TypeInv, TypeOK, ListTypes
<1>3. CASE head = Nil
  <2>1. /\ head' = cur /\ qExpire' = expire[cur] /\ pc'[EMT] \notin {"load", "walk"}
    BY <1>1, <1>3 DEF LoadKey, BatchStep, Goto, AfterBatch
  <2>2. Active = {} /\ Active' = {cur} /\ ActiveLinked'
    BY <1>1, <1>3, <2>1, InsertFirst
  <2>3. HeadCached'
    BY <1>1, <2>1 DEF HeadCached, ListTypes
  <2> QED BY <1>1, <1>2, <2>1, <2>2, <2>3, ActiveInsert
<1>4. CASE head # Nil
  <2>1. /\ walk' = head /\ key' = expire[cur] /\ pc'[EMT] = "walk"
        /\ UNCHANGED <<head, qExpire, cur>>
    BY <1>1, <1>4 DEF LoadKey, Goto
  <2>2. Active' = Active
    BY <1>1, <2>1 DEF Active, FromHead, Followed
  <2>3. \A t \in Timers : Inserting(t)' <=> Inserting(t)
    BY <1>1, <2>1 DEF Inserting
  <2>4. ActiveLinked' /\ HeadCached' /\ ActiveByState'
    BY <1>1, <2>1, <2>2, <2>3 DEF ActiveInv, ActiveLinked, HeadCached, ActiveByState
  <2>5. InsInv'
    BY <1>1, <1>4, <2>1, <2>2, <2>3, ActiveNow DEF ActiveInv, InsInv
  <2> QED BY <1>2, <2>4, <2>5 DEF ActiveInv
<1> QED BY <1>3, <1>4

LEMMA ActiveWalk ==
    ASSUME ActiveInv, WalkStep
    PROVE  ActiveInv'
<1>1. /\ TypeInv /\ ListTypes /\ EMT \in Threads /\ pc \in [Threads -> Labels \union EmtLabels]
      /\ pc[EMT] = "walk" /\ cur \in Timers /\ Inserting(cur) /\ ActiveLinked
      /\ UNCHANGED <<state, expire>>
  BY ActiveNow DEF WalkStep, TypeInv, Shape, Inserting, timerVars, ActiveInv
<1>2. /\ walk \in Active /\ walk \in Timers /\ (state[cur] = "ACTIVE" => key = expire[cur])
      /\ head # Nil /\ cur \in Timers \ Active
  BY <1>1, ActiveNow DEF ActiveInv, InsInv
<1>3. SerialInv' /\ ListTypes'
  <2>1. SerialInv'
    BY SerialEmt DEF ActiveInv, EmtStep
  <2> QED BY <2>1, ThreadAssumption DEF SerialInv, LinkInv, TypeInv, TypeOK, ListTypes
<1>4. CASE InsertHere
  <2>1. /\ next' = [u \in Timers |-> IF u = prev[walk] THEN cur
                                     ELSE IF u = cur THEN walk ELSE next[u]]
        /\ prev' = [u \in Timers |-> IF u = walk THEN cur
                                     ELSE IF u = cur THEN prev[walk] ELSE prev[u]]
        /\ head' = IF prev[walk] = Nil THEN cur ELSE head
        /\ qExpire' = IF prev[walk] = Nil THEN key ELSE qExpire
        /\ pc'[EMT] \notin {"load", "walk"}
    BY <1>1, <1>4 DEF WalkStep, BatchStep, Goto, AfterBatch
  <2>2. Active' = Active \union {cur} /\ ActiveLinked'
    BY <1>1, <1>2, <1>3, <2>1, InsertBefore
  <2>3. HeadCached'
    BY <1>1, <1>2, <2>1 DEF ActiveInv, HeadCached, ListTypes
  <2> QED BY <1>1, <1>3, <2>1, <2>2, <2>3, ActiveInsert
<1>5. CASE ~InsertHere /\ next[walk] = Nil
  <2>1. /\ next' = [next EXCEPT ![walk] = cur] /\ prev' = [prev EXCEPT ![cur] = walk]
        /\ UNCHANGED <<head, qExpire>> /\ pc'[EMT] \notin {"load", "walk"}
    BY <1>1, <1>5 DEF WalkStep, BatchStep, Goto, AfterBatch
  <2>2. Active' = Active \union {cur} /\ ActiveLinked'
    BY <1>1, <1>2, <1>3, <1>5, <2>1, InsertLast
  <2>3. HeadCached'
    BY <1>1, <2>1 DEF ActiveInv, HeadCached
  <2> QED BY <1>1, <1>3, <2>1, <2>2, <2>3, ActiveInsert
<1>6. CASE ~InsertHere /\ next[walk] # Nil
  <2>1. /\ walk' = next[walk] /\ UNCHANGED <<pc, next, prev, head, qExpire, cur, key>>
    BY <1>6 DEF WalkStep, listVars
  <2>2. Active' = Active
    BY <2>1 DEF Active, FromHead, Followed
  <2>3. next[walk] \in Active
    BY <1>1, <1>2, <1>6, ActiveClosed DEF Followed
  <2>4. ActiveLinked' /\ HeadCached' /\ ActiveByState' /\ InsInv'
    BY <1>1, <1>2, <2>1, <2>2, <2>3
       DEF ActiveInv, ActiveLinked, HeadCached, ActiveByState, InsInv, Inserting
  <2> QED BY <1>3, <2>4 DEF ActiveInv
<1> QED BY <1>4, <1>5, <1>6

LEMMA ActiveRun ==
    ASSUME ActiveInv, RunOne
    PROVE  ActiveInv'
<1>1. /\ TypeInv /\ EMT \in Threads /\ pc \in [Threads -> Labels \union EmtLabels]
      /\ state \in [Timers -> States] /\ pc[EMT] = "run" /\ pc'[EMT] \in {"run", "ready"}
      /\ runNext \in Timers /\ expire' = expire
  BY ActiveNow DEF RunOne, DueNext, TypeInv, TypeOK, Goto
<1>2. SerialInv'
  BY SerialEmt DEF ActiveInv, EmtStep
<1>3. \A t \in Timers : ~Inserting(t) /\ ~Inserting(t)'
  BY <1>1 DEF Inserting
<1>4. CASE state[runNext] = "ACTIVE"
  <2>1. /\ Unlink(runNext) /\ state[runNext] \in OnListStates
        /\ state'[runNext] \notin OnListStates
        /\ \A t \in Timers : t # runNext => state'[t] = state[t]
    BY <1>1, <1>4 DEF RunOne, OnListStates
  <2> QED BY <1>1, <1>2, <1>3, <2>1, ActiveUnlink
<1>5. CASE state[runNext] # "ACTIVE"
  <2>1. UNCHANGED <<state, next, prev, head, qExpire>>
    BY <1>5 DEF RunOne, listVars
  <2>2. \A t \in Timers : Stays(t)
    BY <1>1, <2>1 DEF Stays
  <2> QED BY <1>1, <1>2, <1>3, <2>1, <2>2, ActiveFrame
<1> QED BY <1>4, <1>5

LEMMA ActiveEmt ==
    ASSUME ActiveInv, EmtStep
    PROVE  ActiveInv'
<1>1. /\ EMT \in Threads /\ pc \in [Threads -> Labels \union EmtLabels]
      /\ state \in [Timers -> States]
  BY ActiveNow
<1>2. SerialInv'
  BY SerialEmt DEF ActiveInv
<1>3. CASE TakeSchedule \/ Pick \/ QueuesDo \/ RunStart \/ CallbackReturn \/ RunEnd \/ ResetEnd
  <2>1. /\ UNCHANGED <<expire, next, prev, head, qExpire>>
        /\ pc[EMT] \notin {"load", "walk"} /\ pc'[EMT] \notin {"load", "walk"}
    <3>1. UNCHANGED <<expire, next, prev, head, qExpire>>
      BY <1>3 DEF TakeSchedule, Pick, QueuesDo, RunStart, CallbackReturn, RunEnd, ResetEnd,
                  timerVars, listVars
    <3>2. CASE TakeSchedule \/ Pick
      BY <1>1, <3>1, <3>2 DEF TakeSchedule, Pick, Goto, AfterBatch
    <3>3. CASE QueuesDo \/ RunStart \/ CallbackReturn \/ RunEnd \/ ResetEnd
      BY <1>1, <3>1, <3>3 DEF QueuesDo, RunStart, CallbackReturn, RunEnd, ResetEnd, Goto, callVars
    <3> QED BY <1>3, <3>2, <3>3
  <2>2. \A t \in Timers : Stays(t)
    <3>1. CASE CallbackReturn
      BY <1>1, <2>1, <3>1 DEF CallbackReturn, AfterCallback, Stays, OnListStates
    <3>2. CASE ~CallbackReturn
      <4>1. state' = state
        BY <1>3, <3>2 DEF TakeSchedule, Pick, QueuesDo, RunStart, RunEnd, ResetEnd, timerVars
      <4> QED BY <2>1, <4>1 DEF Stays
    <3> QED BY <3>1, <3>2
  <2>3. \A t \in Timers : Inserting(t)' <=> Inserting(t)
    BY <2>1 DEF Inserting
  <2> QED BY <1>2, <2>1, <2>2, <2>3, ActiveFrame
<1> QED BY <1>3, ActiveOne, ActiveLoad, ActiveWalk, ActiveRun DEF EmtStep

LEMMA ActiveRest ==
    ASSUME ActiveInv, Reset \/ (\E t \in Timers : Create(t)) \/ Poll \/ Tick \/ UNCHANGED vars
    PROVE  ActiveInv'
<1>1. /\ EMT \in Threads /\ pc \in [Threads -> Labels \union EmtLabels]
      /\ state \in [Timers -> States] /\ TypeInv /\ expire \in [Timers -> Times]
  BY ActiveNow
<1>2. SerialInv'
  BY SerialRest DEF ActiveInv
<1>3. CASE Reset \/ Poll \/ Tick \/ UNCHANGED vars
  <2>1. UNCHANGED <<state, expire, next, prev, head, qExpire, cur, walk, key>>
    BY <1>3 DEF Reset, Poll, Tick, vars, timerVars, listVars, emtVars
  <2>2. pc' = pc \/ (pc[EMT] = "ready" /\ pc'[EMT] = "xchg")
    <3>1. CASE Reset
      BY <1>1, <3>1 DEF Reset, Goto
    <3>2. CASE Poll \/ Tick \/ UNCHANGED vars
      BY <3>2 DEF Poll, Tick, vars, callVars
    <3> QED BY <1>3, <3>1, <3>2
  <2>3. \A t \in Timers : Stays(t) /\ (Inserting(t)' <=> Inserting(t))
    BY <2>1, <2>2 DEF Stays, Inserting
  <2> QED BY <1>2, <2>1, <2>2, <2>3, ActiveFrame
<1>4. ASSUME NEW t \in Timers, Create(t) PROVE ActiveInv'
  <2>1. /\ state[t] = "FREE" /\ pc[EMT] = "ready"
        /\ state' = [state EXCEPT ![t] = "STOPPED"] /\ expire' = [expire EXCEPT ![t] = 0]
        /\ next' = [next EXCEPT ![t] = Nil] /\ prev' = [prev EXCEPT ![t] = Nil]
        /\ UNCHANGED <<head, qExpire, pc, cur, walk, key>>
    BY <1>4 DEF Create, callVars, emtVars
  <2>2. t \notin Active
    BY <2>1, ActiveNow DEF OnListStates
  <2>3. next[t] = Nil /\ prev[t] = Nil
    BY <2>2 DEF ActiveInv, ActiveLinked
  <2>4. UNCHANGED <<next, prev>>
    BY <1>1, <2>1, <2>3 DEF TypeInv, TypeOK
  <2>5. \A u \in Timers : Stays(u) /\ (Inserting(u)' <=> Inserting(u))
    BY <1>1, <2>1 DEF Stays, Inserting, OnListStates
  <2> QED BY <1>2, <2>1, <2>4, <2>5, ActiveFrame
<1> QED BY <1>3, <1>4

LEMMA ActiveAlways == ASSUME Serialised, Races \subseteq Avoided PROVE Spec => []ActiveInv
<1>1. ActiveInv /\ [Next]_vars => ActiveInv'
  BY ActiveCall, ActiveEmt, ActiveRest DEF Next
<1> QED BY ActiveInit, <1>1, PTL DEF Spec

\* When the calls on each timer are serialised and meet neither race of Races,
\* the active list is a sound doubly linked list, and no timer off it has a link: tmTimerQueuesSanityChecks
\* finds every back link in place.
THEOREM ActiveLinkedAlways == ASSUME Serialised, Races \subseteq Avoided PROVE Spec => []ActiveLinked
<1>1. ActiveInv => ActiveLinked
  BY DEF ActiveInv
<1> QED BY ActiveAlways, <1>1, PTL

\* When the calls on each timer are serialised and meet neither race of Races,
\* the active list holds exactly the timers whose state says so, but for the one EMT is inserting.
THEOREM ActiveByStateAlways == ASSUME Serialised, Races \subseteq Avoided PROVE Spec => []ActiveByState
<1>1. ActiveInv => ActiveByState
  BY DEF ActiveInv
<1> QED BY ActiveAlways, <1>1, PTL

\* When the calls on each timer are serialised and meet neither race of Races,
\* the expire time of the queue is that of its first timer whenever that timer is active, so a poll notices it.
THEOREM HeadCachedAlways == ASSUME Serialised, Races \subseteq Avoided PROVE Spec => []HeadCached
<1>1. ActiveInv => HeadCached
  BY DEF ActiveInv
<1> QED BY ActiveAlways, <1>1, PTL

----------------------------------------------------------------------------
(* The queue implements the timer service.  What is proved of each step is   *)
(* how it changes the deadlines and the calls that have not taken effect.    *)

Deadline == [t \in Timers |-> IF Armed(t) THEN expire[t] ELSE Nil]
Asked(th) == [op |-> call[th].op, timer |-> call[th].timer, expire |-> call[th].expire]
Req == [th \in Threads |-> IF Unapplied(th) THEN Asked(th) ELSE Nil]

\* The steps of the service, in these terms.
LEMMA ServiceIdle ==
    ASSUME UNCHANGED <<Deadline, Req, now>>
    PROVE  UNCHANGED Service!vars
BY DEF Deadline, Req, Asked, Service!vars

LEMMA ServiceRequest ==
    ASSUME NEW th \in Threads, NEW r \in Requests,
           Req[th] = Nil, Req' = [Req EXCEPT ![th] = r], UNCHANGED <<Deadline, now>>
    PROVE  Service!Next
<1>1. r \in Service!Requests
  BY DEF Requests, Service!Requests, Ops
<1>2. Service!Request(th)
  BY <1>1 DEF Deadline, Req, Asked, Service!Request
<1> QED BY <1>2 DEF Service!Next

LEMMA ServiceCancel ==
    ASSUME NEW th \in Threads, Req[th] # Nil, Req[th].op = "Set",
           Deadline' = [Deadline EXCEPT ![Req[th].timer] = Nil], UNCHANGED <<Req, now>>
    PROVE  Service!Next
<1>1. Service!Cancel(th)
  BY DEF Deadline, Req, Asked, Service!Cancel
<1> QED BY <1>1 DEF Service!Next

LEMMA ServiceApply ==
    ASSUME NEW th \in Threads, Req[th] # Nil, Req' = [Req EXCEPT ![th] = Nil], now' = now,
           Deadline' = [Deadline EXCEPT ![Req[th].timer] =
                           IF Req[th].op = "Set" THEN Req[th].expire ELSE Nil]
    PROVE  Service!Next
<1>1. Service!Apply(th)
  BY DEF Deadline, Req, Asked, Service!Apply
<1> QED BY <1>1 DEF Service!Next

LEMMA ServiceFire ==
    ASSUME NEW t \in Timers, Deadline[t] # Nil, Deadline[t] <= now,
           Deadline' = [Deadline EXCEPT ![t] = Nil], UNCHANGED <<Req, now>>
    PROVE  Service!Next
<1>1. Service!Fire(t)
  BY DEF Deadline, Req, Asked, Service!Fire
<1> QED BY <1>1 DEF Service!Next

LEMMA ServiceTick ==
    ASSUME now' = now + 1, UNCHANGED <<Deadline, Req>>
    PROVE  Service!Next
<1>1. Service!Tick
  BY DEF Deadline, Req, Asked, Service!Tick
<1> QED BY <1>1 DEF Service!Next

\* EMT fires what was due when it read the clock, which does not go back.
RefInv == ActiveInv /\ runNow <= now

\* The deadline of t stays, and what th has asked for.
Holds(t) == (Armed(t)' <=> Armed(t)) /\ (Armed(t) => expire'[t] = expire[t])
Waits(th) == (Unapplied(th)' <=> Unapplied(th)) /\ (Unapplied(th) => Asked(th)' = Asked(th))

LEMMA DeadlineFacts ==
    ASSUME ActiveInv
    PROVE  /\ \A t \in Timers : Deadline[t] # Nil <=> Armed(t)
           /\ \A t \in Timers : Armed(t) => Deadline[t] = expire[t]
           /\ \A th \in Threads : Unapplied(th) =>
                 Req[th] = Asked(th) /\ Asked(th) \in Requests /\ Req[th] # Nil
           /\ \A th \in Threads : ~Unapplied(th) => Req[th] = Nil
<1>1. expire \in [Timers -> Times] /\ call \in [Threads -> Calls] /\ TypeInv
  BY ActiveNow DEF TypeInv, TypeOK
<1>2. \A t \in Timers : expire[t] # Nil
  BY <1>1, NilAssumption
<1>3. ASSUME NEW th \in Threads, Unapplied(th) PROVE Asked(th) \in Requests
  <2>1. pc[th] \in CallLabels
    BY <1>3 DEF Unapplied, CallLabels, Labels
  <2> QED BY <1>1, <2>1 DEF Asked, Requests, TypeInv, Shape, Calls
<1> QED BY <1>2, <1>3, NilAssumption DEF Deadline, Req

LEMMA ReqFrame ==
    ASSUME \A th \in Threads : Waits(th)
    PROVE  Req' = Req
BY DEF Waits, Req

LEMMA DeadlineFrame ==
    ASSUME \A t \in Timers : Holds(t)
    PROVE  Deadline' = Deadline
BY DEF Holds, Deadline

\* A call changes what its own thread has asked for.
LEMMA CallReq ==
    ASSUME ActiveInv, NEW th \in Threads, BeginSome(th) \/ CallStep(th)
    PROVE  /\ \A other \in Threads : other # th => Waits(other)
           /\ Req' = [Req EXCEPT ![th] = IF Unapplied(th)' THEN Asked(th)' ELSE Nil]
           /\ UNCHANGED <<now, runNow>>
           /\ pc \in [Threads -> Labels \union EmtLabels] /\ call \in [Threads -> Calls]
<1>1. pc \in [Threads -> Labels \union EmtLabels] /\ call \in [Threads -> Calls]
  BY ActiveNow DEF TypeInv, TypeOK
<1>2. \A other \in Threads : other # th => pc'[other] = pc[other] /\ call'[other] = call[other]
  BY <1>1 DEF BeginSome, Begin, CallStep, Read, Try, StopFallThrough, Link, WriteExpire, Arm,
              Schedule, Goto, Return, Retry
<1>3. UNCHANGED <<now, runNow>>
  BY DEF BeginSome, Begin, CallStep, Read, Try, StopFallThrough, Link, WriteExpire, Arm, Schedule,
         runVars, envVars
<1>4. \A other \in Threads : other # th => Waits(other)
  BY <1>2 DEF Waits, Unapplied, Asked
<1>5. Req' = [Req EXCEPT ![th] = IF Unapplied(th)' THEN Asked(th)' ELSE Nil]
  BY <1>4 DEF Req, Waits
<1> QED BY <1>1, <1>3, <1>4, <1>5

\* A call is in the places of CallLabels; what its place says of its timer.
LEMMA CallNow ==
    ASSUME ActiveInv, NEW th \in Threads, pc[th] \in CallLabels
    PROVE  /\ call[th].timer \in Timers /\ call[th].op \in Ops /\ SeenOne(th)
           /\ state \in [Timers -> States] /\ expire \in [Timers -> Times]
           /\ WaitOne(call[th].timer)
BY ActiveNow DEF ActiveInv, SerialInv, LinkInv, TypeInv, Shape

LEMMA RefBegin ==
    ASSUME ActiveInv, NEW th \in Threads, BeginSome(th)
    PROVE  Service!Next
<1> PICK o \in Ops, t \in Timers, e \in Times : Begin(th, o, t, e)
  BY DEF BeginSome
<1>1. /\ Req' = [Req EXCEPT ![th] = IF Unapplied(th)' THEN Asked(th)' ELSE Nil] /\ now' = now
      /\ pc \in [Threads -> Labels \union EmtLabels] /\ call \in [Threads -> Calls]
  BY CallReq
<1>2. pc[th] = "ready" /\ pc'[th] = "read" /\ UNCHANGED <<state, expire>>
  BY <1>1 DEF Begin, Goto, timerVars
<1>3. Req[th] = Nil /\ Unapplied(th)'
  BY <1>2, DeadlineFacts DEF Unapplied
<1>4. Asked(th)' = [op |-> o, timer |-> t, expire |-> e]
  BY <1>1 DEF Begin, Asked, NoCall
<1>5. Asked(th)' \in Requests
  BY <1>4 DEF Requests
<1>6. Deadline' = Deadline
  BY <1>2, DeadlineFrame DEF Holds, Armed
<1> QED BY <1>1, <1>3, <1>5, <1>6, ServiceRequest

\* A call that has nothing to do takes effect when it finds that out.
LEMMA RefRead ==
    ASSUME ActiveInv, NEW th \in Threads, Read(th)
    PROVE  Service!Next \/ UNCHANGED Service!vars
<1>0. pc[th] = "read" /\ pc[th] \in CallLabels /\ Before(th) /\ Unapplied(th)
  BY DEF Read, CallLabels, Labels, Before, Unapplied
<1>1. /\ Req' = [Req EXCEPT ![th] = IF Unapplied(th)' THEN Asked(th)' ELSE Nil] /\ now' = now
      /\ pc \in [Threads -> Labels \union EmtLabels] /\ call \in [Threads -> Calls]
      /\ \A other \in Threads : other # th => Waits(other)
  BY CallReq DEF CallStep
<1>2. /\ call[th].timer \in Timers /\ call[th].op \in Ops /\ SeenOne(th)
      /\ state \in [Timers -> States] /\ UNCHANGED <<state, expire>>
  BY <1>0, CallNow DEF Read, timerVars
<1> SUFFICES ASSUME NEW t \in Timers, t = call[th].timer, NEW s \in States, s = state[t]
             PROVE  Service!Next \/ UNCHANGED Service!vars
  BY <1>2
<1>3. s \notin SettingExpire \union Gone
  BY <1>0, <1>2 DEF SeenOne
<1>4. Deadline' = Deadline
  BY <1>2, DeadlineFrame DEF Holds, Armed
<1>5. CASE Final(th, call[th].op, s) /\ Return(th)
  <2>1. pc'[th] = "ready" /\ ~Unapplied(th)'
    BY <1>1, <1>5 DEF Return, Goto, Unapplied
  <2>2. call[th].op # "Set" /\ ~Armed(t)
    BY <1>2, <1>3, <1>5 DEF Final, Gone, Armed, Ops
  <2>3. /\ Req[th] = Asked(th) /\ Req[th] # Nil /\ Deadline[t] = Nil
    BY <1>0, <2>2, DeadlineFacts
  <2>4. Req[th].timer = t /\ Req[th].op # "Set"
    BY <2>2, <2>3 DEF Asked
  <2>5. Deadline' = [Deadline EXCEPT ![t] = Nil]
    BY <1>4, <2>3 DEF Deadline
  <2> QED BY <1>1, <2>1, <2>3, <2>4, <2>5, ServiceApply
<1>6. CASE call' = [call EXCEPT ![th].seen = s] /\ Goto(th, "try")
  <2>1. /\ Unapplied(th)' /\ call'[th] = [call[th] EXCEPT !.seen = s]
    BY <1>1, <1>6 DEF Goto, Unapplied
  <2>2. Asked(th)' = Asked(th)
    BY <1>1, <2>1 DEF Asked, Calls
  <2>3. Req' = Req
    BY <1>0, <1>1, <2>1, <2>2, ReqFrame DEF Waits
  <2> QED BY <1>1, <1>4, <2>3, ServiceIdle
<1> QED BY <1>3, <1>5, <1>6 DEF Read

\* The retries never run out: EMT brings a timer on at most three times.
LEMMA RefTryFails ==
    ASSUME ActiveInv, MaxRetries >= 3, NEW th \in Threads, Try(th) \/ StopFallThrough(th),
           state[call[th].timer] # call[th].seen
    PROVE  UNCHANGED Service!vars
<1>0. pc[th] \in {"try", "fall"} /\ pc[th] \in CallLabels /\ Unapplied(th)
  BY DEF Try, StopFallThrough, CallLabels, Labels, Unapplied
<1>1. /\ now' = now /\ pc \in [Threads -> Labels \union EmtLabels] /\ call \in [Threads -> Calls]
      /\ \A other \in Threads : other # th => Waits(other)
  BY CallReq DEF CallStep
<1>2. /\ call[th].timer \in Timers /\ call[th].op \in Ops /\ SeenOne(th)
      /\ state \in [Timers -> States] /\ UNCHANGED <<state, expire>>
  BY <1>0, CallNow DEF Try, StopFallThrough
<1> SUFFICES ASSUME NEW t \in Timers, t = call[th].timer, NEW s \in States, s = call[th].seen
             PROVE  UNCHANGED Service!vars
  BY <1>1, <1>2 DEF Calls
<1>3. th # EMT /\ Rank(state[t]) > Rank(s) /\ call[th].tries <= Rank(s)
  BY <1>0, <1>2 DEF SeenOne
<1>4. Retry(th) \/ (pc'[th] = "fall" /\ call' = call)
  BY <1>1, <1>3 DEF Try, StopFallThrough, Goto
<1>5. call[th].tries < MaxRetries
  <2>1. Rank(state[t]) \in 0 .. 3 /\ Rank(s) \in 0 .. 3 /\ call[th].tries \in Nat
    BY <1>1, <1>2, RankFacts, BoundAssumption DEF Calls
  <2> QED BY <1>3, <2>1, BoundAssumption
<1>6. /\ Unapplied(th)'
      /\ call'[th] \in {call[th], [call[th] EXCEPT !.tries = call[th].tries + 1]}
  BY <1>1, <1>4, <1>5 DEF Retry, Goto, Unapplied
<1>7. Asked(th)' = Asked(th)
  BY <1>1, <1>6 DEF Asked, Calls
<1>8. Req' = Req
  BY <1>0, <1>1, <1>6, <1>7, ReqFrame DEF Waits
<1>9. Deadline' = Deadline
  BY <1>2, DeadlineFrame DEF Holds, Armed
<1> QED BY <1>1, <1>8, <1>9, ServiceIdle

\* The compare-and-swap disarms the timer: a set has yet to take effect, a stop
\* or a destruction has.
LEMMA RefTrySucceeds ==
    ASSUME ActiveInv, NEW th \in Threads, Try(th), state[call[th].timer] = call[th].seen
    PROVE  Service!Next
<1>0. pc[th] = "try" /\ pc[th] \in CallLabels /\ Unapplied(th)
  BY DEF Try, CallLabels, Labels, Unapplied
<1>1. /\ now' = now /\ pc \in [Threads -> Labels \union EmtLabels] /\ call \in [Threads -> Calls]
      /\ Req' = [Req EXCEPT ![th] = IF Unapplied(th)' THEN Asked(th)' ELSE Nil]
      /\ \A other \in Threads : other # th => Waits(other)
  BY CallReq DEF CallStep
<1>2. /\ call[th].timer \in Timers /\ call[th].op \in Ops /\ expire' = expire
      /\ state \in [Timers -> States]
  BY <1>0, CallNow DEF Try
<1> SUFFICES ASSUME NEW t \in Timers, t = call[th].timer, NEW o \in Ops, o = call[th].op
             PROVE  Service!Next
  BY <1>1, <1>2
<1>3. /\ Req[th] = Asked(th) /\ Req[th] # Nil /\ Req[th].timer = t /\ Req[th].op = o
  <2>1. Req[th] = Asked(th) /\ Req[th] # Nil
    BY <1>0, DeadlineFacts
  <2> QED BY <2>1 DEF Asked
<1>4. /\ state' = [state EXCEPT ![t] = Target(o, call[th].seen)] /\ call' = call
      /\ pc'[th] \in IF o = "Set" THEN {"link", "write"} ELSE {"link", "schedule"}
  BY <1>1, <1>2 DEF Try, Goto
<1>5. Target(o, call[th].seen) \notin {"PENDING_SCHEDULE", "PENDING_RESCHEDULE", "ACTIVE"}
  BY DEF Target, SetTarget, StopTarget, DestroyTarget
<1>6. Deadline' = [Deadline EXCEPT ![t] = Nil]
  BY <1>2, <1>4, <1>5 DEF Deadline, Armed
<1>7. CASE o = "Set"
  <2>1. Unapplied(th)' /\ Asked(th)' = Asked(th)
    BY <1>4, <1>7 DEF Unapplied, Asked
  <2>2. Req' = Req
    BY <1>0, <1>1, <2>1, ReqFrame DEF Waits
  <2> QED BY <1>1, <1>3, <1>6, <1>7, <2>2, ServiceCancel
<1>8. CASE o # "Set"
  <2>1. ~Unapplied(th)'
    BY <1>4, <1>8 DEF Unapplied
  <2> QED BY <1>1, <1>3, <1>6, <1>8, <2>1, ServiceApply
<1> QED BY <1>7, <1>8

\* A set takes effect when the timer is armed; its expire time is in place by
\* then.
LEMMA RefArm ==
    ASSUME ActiveInv, NEW th \in Threads, Arm(th)
    PROVE  Service!Next
<1>0. pc[th] = "arm" /\ pc[th] \in CallLabels
  BY DEF Arm, CallLabels, Labels
<1>1. /\ now' = now /\ pc \in [Threads -> Labels \union EmtLabels]
      /\ Req' = [Req EXCEPT ![th] = IF Unapplied(th)' THEN Asked(th)' ELSE Nil]
  BY CallReq DEF CallStep
<1>2. /\ call[th].timer \in Timers /\ SeenOne(th) /\ expire' = expire
      /\ state \in [Timers -> States]
  BY <1>0, CallNow DEF Arm
<1> SUFFICES ASSUME NEW t \in Timers, t = call[th].timer PROVE Service!Next
  BY <1>2
<1>3. call[th].op = "Set" /\ expire[t] = call[th].expire
  BY <1>0, <1>2 DEF SeenOne
<1>4. Req[th] = Asked(th) /\ Req[th] # Nil
  BY <1>0, <1>3, DeadlineFacts DEF Unapplied
<1>5. Req[th].timer = t /\ Req[th].op = "Set" /\ Req[th].expire = expire[t]
  BY <1>3, <1>4 DEF Asked
<1>6. /\ state'[t] \in {"PENDING_SCHEDULE", "PENDING_RESCHEDULE"}
      /\ \A u \in Timers : u # t => state'[u] = state[u]
  BY <1>2 DEF Arm
<1>7. Deadline' = [Deadline EXCEPT ![t] = expire[t]]
  BY <1>2, <1>6 DEF Deadline, Armed
<1>8. ~Unapplied(th)'
  BY <1>1 DEF Arm, Goto, Unapplied
<1> QED BY <1>1, <1>4, <1>5, <1>7, <1>8, ServiceApply

\* The other steps of a call are its own business.
LEMMA RefLink ==
    ASSUME ActiveInv, NEW th \in Threads, Link(th) \/ WriteExpire(th) \/ Schedule(th)
    PROVE  UNCHANGED Service!vars
<1>0. pc[th] \in {"link", "write", "schedule"} /\ pc[th] \in CallLabels
  BY DEF Link, WriteExpire, Schedule, CallLabels, Labels
<1>1. /\ now' = now /\ pc \in [Threads -> Labels \union EmtLabels]
      /\ \A other \in Threads : other # th => Waits(other)
  BY CallReq DEF CallStep
<1>2. /\ call[th].timer \in Timers /\ call[th].op \in Ops /\ SeenOne(th)
      /\ state \in [Timers -> States] /\ expire \in [Timers -> Times]
  BY <1>0, CallNow
<1>3. Waits(th)
  <2>1. CASE Link(th)
    BY <1>1, <2>1 DEF Link, Goto, Waits, Unapplied, Asked
  <2>2. CASE WriteExpire(th)
    <3>1. call[th].op = "Set" /\ pc[th] = "write" /\ pc'[th] = "arm" /\ call' = call
      BY <1>1, <1>2, <2>2 DEF WriteExpire, Goto, SeenOne
    <3> QED BY <3>1 DEF Waits, Unapplied, Asked
  <2>3. CASE Schedule(th)
    <3>1. pc[th] = "schedule" /\ pc'[th] \in {"xchg", "ready"}
      BY <1>1, <2>3 DEF Schedule, Goto
    <3> QED BY <3>1 DEF Waits, Unapplied
  <2> QED BY <2>1, <2>2, <2>3
<1>4. ASSUME NEW t \in Timers PROVE Holds(t)
  <2>1. CASE Link(th) \/ Schedule(th)
    BY <2>1 DEF Link, Schedule, timerVars, Holds, Armed
  <2>2. CASE WriteExpire(th)
    <3>1. /\ state' = state /\ pc[th] = "write"
          /\ t # call[th].timer => expire'[t] = expire[t]
      BY <1>2, <2>2 DEF WriteExpire
    <3>2. ~Armed(call[th].timer)
      BY <1>2, <3>1, TargetFacts DEF SeenOne, SettingExpire, Armed, Ops
    <3> QED BY <3>1, <3>2 DEF Holds, Armed
  <2> QED BY <2>1, <2>2
<1> QED BY <1>1, <1>3, <1>4, ReqFrame, DeadlineFrame, ServiceIdle

LEMMA RefCall ==
    ASSUME ActiveInv, MaxRetries >= 3, NEW th \in Threads, BeginSome(th) \/ CallStep(th)
    PROVE  [Service!Next]_(Service!vars)
<1>1. CASE StopFallThrough(th)
  <2>1. state[call[th].timer] # call[th].seen
    BY <1>1 DEF ActiveInv, SerialInv, SeenOne, StopFallThrough
  <2> QED BY <1>1, <2>1, RefTryFails
<1>2. CASE Try(th)
  BY <1>2, RefTryFails, RefTrySucceeds
<1> QED BY <1>1, <1>2, RefBegin, RefRead, RefArm, RefLink DEF CallStep

\* EMT asks for nothing while it works on the queue.
LEMMA EmtReq ==
    ASSUME ActiveInv, EmtStep \/ Reset
    PROVE  Req' = Req /\ now' = now
<1>1. pc \in [Threads -> Labels \union EmtLabels] /\ EMT \in Threads
  BY ActiveNow
<1>2. call' = call /\ now' = now
  BY DEF EmtStep, TakeSchedule, Pick, ScheduleOne, LoadKey, WalkStep, QueuesDo, RunStart, RunOne,
         CallbackReturn, RunEnd, ResetEnd, Reset, callVars, envVars
<1>3. \A th \in Threads : th # EMT => pc'[th] = pc[th]
  BY <1>1 DEF EmtStep, TakeSchedule, Pick, ScheduleOne, LoadKey, WalkStep, QueuesDo, RunStart,
              RunOne, CallbackReturn, RunEnd, ResetEnd, Reset, callVars, Goto, BatchStep
<1>4. pc[EMT] \notin CallLabels /\ pc'[EMT] \notin CallLabels
  <2>1. CASE TakeSchedule \/ Pick \/ ScheduleOne
    BY <1>1, <2>1 DEF TakeSchedule, Pick, ScheduleOne, Goto, BatchStep, AfterBatch, CallLabels, Labels
  <2>2. CASE LoadKey \/ WalkStep
    BY <1>1, <2>2 DEF LoadKey, WalkStep, Goto, BatchStep, AfterBatch, CallLabels, Labels
  <2>3. CASE QueuesDo \/ RunStart \/ RunOne \/ CallbackReturn \/ RunEnd \/ ResetEnd \/ Reset
    BY <1>1, <2>3 DEF QueuesDo, RunStart, RunOne, CallbackReturn, RunEnd, ResetEnd, Reset, callVars,
                      Goto, CallLabels, Labels
  <2> QED BY <2>1, <2>2, <2>3 DEF EmtStep
<1>5. ASSUME NEW th \in Threads PROVE Waits(th)
  <2>1. pc'[th] = pc[th] \/ (pc[th] \notin CallLabels /\ pc'[th] \notin CallLabels)
    BY <1>3, <1>4
  <2> QED BY <1>2, <2>1 DEF Waits, Unapplied, Asked, CallLabels, Labels
<1> QED BY <1>2, <1>5, ReqFrame

\* Scheduling a timer keeps it armed or not; the callback's return keeps it
\* disarmed.
LEMMA RefSchedule ==
    ASSUME ActiveInv, ScheduleOne
    PROVE  \A t \in Timers : Holds(t)
<1>1. /\ state \in [Timers -> States] /\ pc[EMT] = "one" /\ cur \in Timers /\ expire' = expire
      /\ (curState \notin SettingExpire => state[cur] = curState) /\ curState \in States
  BY ActiveNow DEF ScheduleOne, TypeInv, TypeOK, Shape, ActiveInv, SerialInv, PickInv
<1>2. CASE curState \in SettingExpire
  <2>1. state' = state
    BY <1>2 DEF ScheduleOne, SettingExpire
  <2> QED BY <1>1, <2>1 DEF Holds, Armed
<1>3. CASE curState \notin SettingExpire
  <2>1. state[cur] = curState
    BY <1>1, <1>3
  <2>2. \A u \in Timers : u # cur => state'[u] = state[u]
    BY <1>1 DEF ScheduleOne
  <2>3. /\ curState \in {"PENDING_RESCHEDULE", "PENDING_SCHEDULE"} => state'[cur] = "ACTIVE"
        /\ curState \notin {"PENDING_RESCHEDULE", "PENDING_SCHEDULE", "ACTIVE"} =>
              state'[cur] \notin {"PENDING_RESCHEDULE", "PENDING_SCHEDULE", "ACTIVE"}
    BY <1>1, <1>3 DEF ScheduleOne
  <2>4. state[cur] # "ACTIVE"
    BY <1>1 DEF ActiveInv, SerialInv, LinkInv, Picked, Pending
  <2> QED BY <1>1, <2>1, <2>2, <2>3, <2>4 DEF Holds, Armed
<1> QED BY <1>2, <1>3

\* The first due timer fires.
LEMMA RefRun ==
    ASSUME RefInv, RunOne
    PROVE  [Service!Next]_(Service!vars)
<1>1. /\ ActiveInv /\ runNext \in Timers /\ expire[runNext] <= runNow /\ runNow <= now
      /\ state \in [Timers -> States] /\ expire \in [Timers -> Times] /\ expire' = expire
      /\ runNow \in Times /\ now \in Times
  BY ActiveNow DEF RefInv, RunOne, DueNext, TypeInv, TypeOK
<1>2. Req' = Req /\ now' = now
  BY <1>1, EmtReq DEF EmtStep
<1>3. CASE state[runNext] = "ACTIVE"
  <2>1. state' = [state EXCEPT ![runNext] = "EXPIRED"]
    BY <1>3 DEF RunOne
  <2>2. Deadline[runNext] # Nil /\ Deadline[runNext] = expire[runNext]
    BY <1>1, <1>3, DeadlineFacts DEF Armed
  <2>3. Deadline[runNext] <= now
    BY <1>1, <2>2, BoundAssumption DEF Times
  <2>4. Deadline' = [Deadline EXCEPT ![runNext] = Nil]
    BY <1>1, <2>1 DEF Deadline, Armed
  <2> QED BY <1>1, <1>2, <2>2, <2>3, <2>4, ServiceFire
<1>4. CASE state[runNext] # "ACTIVE"
  <2>1. state' = state
    BY <1>4 DEF RunOne
  <2> QED BY <1>1, <1>2, <2>1, DeadlineFrame, ServiceIdle DEF Holds, Armed
<1> QED BY <1>3, <1>4

LEMMA RefEmt ==
    ASSUME RefInv, EmtStep
    PROVE  [Service!Next]_(Service!vars)
<1>1. ActiveInv /\ state \in [Timers -> States] /\ Req' = Req /\ now' = now
  BY ActiveNow, EmtReq DEF RefInv
<1>2. CASE ScheduleOne
  BY <1>1, <1>2, RefSchedule, DeadlineFrame, ServiceIdle
<1>3. CASE CallbackReturn
  <2>1. expire' = expire /\ \A t \in Timers : Armed(t)' <=> Armed(t)
    BY <1>1, <1>3 DEF CallbackReturn, AfterCallback, Armed
  <2> QED BY <1>1, <2>1, DeadlineFrame, ServiceIdle DEF Holds
<1>4. CASE TakeSchedule \/ Pick \/ LoadKey \/ WalkStep \/ QueuesDo \/ RunStart \/ RunEnd \/ ResetEnd
  <2>1. UNCHANGED <<state, expire>>
    BY <1>4 DEF TakeSchedule, Pick, LoadKey, WalkStep, QueuesDo, RunStart, RunEnd, ResetEnd, timerVars
  <2> QED BY <1>1, <2>1, DeadlineFrame, ServiceIdle DEF Holds, Armed
<1> QED BY <1>2, <1>3, <1>4, RefRun DEF EmtStep

LEMMA RefRest ==
    ASSUME ActiveInv, Reset \/ (\E t \in Timers : Create(t)) \/ Poll \/ Tick \/ UNCHANGED vars
    PROVE  [Service!Next]_(Service!vars)
<1>1. CASE Reset
  <2>1. UNCHANGED <<state, expire>>
    BY <1>1 DEF Reset, timerVars
  <2> QED BY <1>1, <2>1, EmtReq, DeadlineFrame, ServiceIdle DEF Holds, Armed
<1>2. CASE Poll \/ Tick \/ UNCHANGED vars
  <2>1. UNCHANGED <<state, expire, pc, call>>
    BY <1>2 DEF Poll, Tick, vars, timerVars, callVars
  <2>2. now' = now \/ now' = now + 1
    BY <1>2 DEF Poll, Tick, vars, envVars
  <2>3. Req' = Req /\ Deadline' = Deadline
    BY <2>1, ReqFrame, DeadlineFrame DEF Waits, Unapplied, Asked, Holds, Armed
  <2> QED BY <2>2, <2>3, ServiceTick, ServiceIdle
<1>3. ASSUME NEW t \in Timers, Create(t) PROVE [Service!Next]_(Service!vars)
  <2>1. /\ state[t] = "FREE" /\ UNCHANGED <<pc, call, now>>
        /\ state' = [state EXCEPT ![t] = "STOPPED"] /\ expire' = [expire EXCEPT ![t] = 0]
    BY <1>3 DEF Create, callVars
  <2>2. \A u \in Timers : Holds(u)
    BY <2>1, ActiveNow DEF Holds, Armed
  <2>3. Req' = Req
    BY <2>1, ReqFrame DEF Waits, Unapplied, Asked
  <2> QED BY <2>1, <2>2, <2>3, DeadlineFrame, ServiceIdle
<1> QED BY <1>1, <1>2, <1>3

LEMMA RefInit == Init => RefInv /\ Service!Init
<1> SUFFICES ASSUME Init PROVE RefInv /\ Service!Init
  OBVIOUS
<1>1. /\ \A t \in Timers : ~Armed(t)
      /\ \A th \in Threads : ~Unapplied(th)
      /\ now = 0 /\ runNow = 0
  BY DEF Init, Armed, Unapplied
<1>2. Service!Init
  BY <1>1 DEF Service!Init
<1> QED BY <1>1, <1>2, ActiveInit DEF RefInv

LEMMA RefClock ==
    ASSUME ActiveInv, runNow <= now, [Next]_vars
    PROVE  runNow' <= now'
<1>1. now \in Times /\ runNow \in Times
  BY ActiveNow DEF TypeInv, TypeOK
<1>2. \/ UNCHANGED <<now, runNow>>
      \/ now' = now /\ runNow' \in {now, 0}
      \/ now' = now + 1 /\ runNow' = runNow
  <2>1. CASE \E th \in Threads : BeginSome(th) \/ CallStep(th)
    BY <2>1, CallReq
  <2>2. CASE EmtStep
    BY <2>2 DEF EmtStep, TakeSchedule, Pick, ScheduleOne, LoadKey, WalkStep, QueuesDo, RunStart,
                RunOne, CallbackReturn, RunEnd, ResetEnd, envVars, runVars
  <2>3. CASE Reset \/ (\E t \in Timers : Create(t)) \/ Poll \/ Tick \/ UNCHANGED vars
    BY <2>3 DEF Reset, Create, Poll, Tick, vars, envVars, runVars
  <2> QED BY <2>1, <2>2, <2>3 DEF Next
<1> QED BY <1>1, <1>2, BoundAssumption DEF Times

\* When the calls on each timer are serialised and meet neither race of Races,
\* the queue implements the timer service: no set is lost, a timer that was
\* stopped or destroyed does not fire, none fires early or twice.  The retries
\* never run out (the code has 1000, three are enough).
THEOREM ServiceRefined ==
    ASSUME Serialised, Races \subseteq Avoided, MaxRetries >= 3 PROVE Spec => ServiceSpec
<1>1. RefInv /\ [Next]_vars => RefInv'
  BY ActiveCall, ActiveEmt, ActiveRest, RefClock DEF RefInv, Next
<1>2. RefInv /\ [Next]_vars => [Service!Next]_(Service!vars)
  BY RefCall, RefEmt, RefRest DEF RefInv, Next
<1> QED BY RefInit, <1>1, <1>2, PTL DEF Spec, ServiceSpec, Service!Spec

----------------------------------------------------------------------------
(* The order of the active list.  When EMT alone sets timers, it carries out *)
(* each set before it begins another call: one timer at most is at a place   *)
(* of the list that is not that of its expire time, and the others are in    *)
(* order around it.                                                          *)

\* The states of a timer that was set and that EMT has yet to schedule.
Due == SettingExpire \union {"PENDING_SCHEDULE", "PENDING_RESCHEDULE"}

\* EMT is in the call that sets o, or it is going to find o.
SetAt(o) == \/ pc[EMT] \in {"link", "write", "arm", "schedule"} /\ call[EMT].timer = o
            \/ pc[EMT] = "xchg"
            \/ pc[EMT] \in {"pick", "one"} /\ (o \in Range(batch) \/ Picked(o))

\* The list without o is in order.
OrderedBut(o) ==
    \A t \in Active : t # o /\ next[t] # Nil =>
        /\ next[t] # o => expire[t] <= expire[next[t]]
        /\ next[t] = o /\ next[o] # Nil => expire[t] <= expire[next[o]]

\* The timer o, if any, is the one EMT has set; another thread may since have
\* stopped it, and left it where it is.
LastSet(o) ==
    /\ o # Nil => /\ state[o] \in Pending /\ SetAt(o)
                  /\ \A th \in Others : ~Linking(th, o)
    /\ \A t \in Timers : state[t] \in Due => t = o
    /\ OrderedBut(o)

SetInv ==
    /\ \A th \in Others : call[th].op # "Set"
    /\ pc[EMT] = "one" => curState \notin SettingExpire

\* The insertion loop has passed only timers that are due before the new one.
Passed ==
    pc[EMT] = "walk" => key = expire[cur] /\ (prev[walk] # Nil => expire[prev[walk]] <= key)

OrderInv == ActiveInv /\ SetInv /\ Passed /\ \E o \in Timers \union {Nil} : LastSet(o)

LEMMA OrderInit == Init => OrderInv
<1> SUFFICES ASSUME Init PROVE OrderInv
  OBVIOUS
<1>1. /\ pc[EMT] = "ready" /\ \A t \in Timers : state[t] = "STOPPED" /\ next[t] = Nil
      /\ \A th \in Others : call[th] = NoCall
  BY EmtIsThread DEF Init
<1>2. SetInv /\ Passed
  BY <1>1 DEF SetInv, Passed, NoCall
<1>3. LastSet(Nil)
  BY <1>1 DEF LastSet, OrderedBut, Active, Due, SettingExpire
<1> QED BY ActiveInit, <1>2, <1>3 DEF OrderInv

\* What is known of every state.
LEMMA OrderNow ==
    ASSUME OrderInv
    PROVE  /\ ActiveInv /\ SerialInv /\ SetInv /\ Passed /\ ActiveLinked /\ ListTypes /\ TypeInv
           /\ pc \in [Threads -> Labels \union EmtLabels] /\ call \in [Threads -> Calls]
           /\ state \in [Timers -> States] /\ expire \in [Timers -> Times] /\ Times \subseteq Int
           /\ EMT \in Threads /\ Nil \notin Timers /\ Active \subseteq Timers
           /\ batch \in Seq(Timers) /\ sched \in Seq(Timers)
           /\ \A th \in Threads : SeenOne(th)
           /\ \A th \in Threads : pc[th] \in CallLabels => call[th].timer \in Timers /\ call[th].op \in Ops
<1>1. ActiveInv /\ SerialInv /\ SetInv /\ Passed /\ ActiveLinked
  BY DEF OrderInv, ActiveInv
<1>2. TypeInv /\ ListTypes /\ Active \subseteq Timers /\ Nil \notin Timers /\ Times \subseteq Int
  BY <1>1, ActiveNow, ThreadAssumption DEF Times
<1>3. /\ pc \in [Threads -> Labels \union EmtLabels] /\ call \in [Threads -> Calls]
      /\ state \in [Timers -> States] /\ expire \in [Timers -> Times]
      /\ batch \in Seq(Timers) /\ sched \in Seq(Timers)
      /\ \A th \in Threads : pc[th] \in CallLabels => call[th].timer \in Timers /\ call[th].op \in Ops
  BY <1>2 DEF TypeInv, TypeOK, Shape
<1>4. \A th \in Threads : SeenOne(th)
  BY <1>1 DEF SerialInv
<1> QED BY <1>1, <1>2, <1>3, <1>4, EmtIsThread

\* No timer is out of place where EMT neither sets one nor looks for it.
LEMMA NoneSet ==
    ASSUME OrderInv, pc[EMT] \notin {"link", "write", "arm", "schedule", "xchg", "pick", "one"}
    PROVE  LastSet(Nil)
BY DEF OrderInv, LastSet, SetAt

\* The list stays and so do the expire times, but for that of the one timer.
LEMMA OrderFrame ==
    ASSUME OrderInv, NEW o \in Timers \union {Nil}, OrderedBut(o), UNCHANGED <<next, prev, head>>,
           NEW p \in Timers \union {Nil}, o \in {p, Nil},
           \A t \in Active : t # p => expire'[t] = expire[t]
    PROVE  OrderedBut(p)'
<1>1. /\ ListTypes /\ Active \subseteq Timers /\ expire \in [Timers -> Times] /\ Times \subseteq Int
      /\ ActiveLinked /\ Nil \notin Timers
  BY OrderNow
<1>2. Active' = Active
  BY DEF Active, FromHead, Followed
<1> SUFFICES ASSUME NEW t \in Active, t # p, next[t] # Nil
             PROVE  /\ next[t] # p => expire'[t] <= expire'[next[t]]
                    /\ next[t] = p /\ next[p] # Nil => expire'[t] <= expire'[next[p]]
  BY <1>2 DEF OrderedBut
<1> DEFINE n == next[t]
<1>3. /\ t \in Timers /\ n \in Active /\ n \in Timers /\ n # t /\ expire'[t] = expire[t]
      /\ expire[t] \in Int /\ expire[n] \in Int /\ t # o
  <2>1. n \in Active /\ n # t
    BY <1>1, NodeFacts
  <2>2. t \in Timers /\ n \in Timers /\ t # o /\ expire'[t] = expire[t]
    BY <1>1, <2>1
  <2>3. expire[t] \in Int /\ expire[n] \in Int
    BY <1>1, <2>2
  <2> QED BY <2>1, <2>2, <2>3
<1>4. ASSUME n # p PROVE expire'[t] <= expire'[n]
  <2>1. n # o
    BY <1>1, <1>3, <1>4
  <2> QED BY <1>3, <1>4, <2>1 DEF OrderedBut
<1>5. ASSUME n = p, next[p] # Nil PROVE expire'[t] <= expire'[next[p]]
  <2> DEFINE m == next[p]
  <2>1. m \in Active /\ m # p /\ expire[m] \in Int /\ expire'[m] = expire[m]
    BY <1>1, <1>3, <1>5, NodeFacts
  <2>2. CASE o = p
    BY <1>3, <1>5, <2>1, <2>2 DEF OrderedBut
  <2>3. CASE o = Nil
    <3>1. expire[t] <= expire[n] /\ expire[n] <= expire[m]
      BY <1>1, <1>3, <1>5, <2>1, <2>3 DEF OrderedBut
    <3> QED BY <1>3, <2>1, <3>1
  <2> QED BY <2>2, <2>3
<1> QED BY <1>4, <1>5

\* A timer that is not on the list is not out of place.
LEMMA OrderOff ==
    ASSUME OrderInv, NEW o \in Timers, OrderedBut(o), o \notin Active
    PROVE  OrderedBut(Nil)
<1>1. \A t \in Active : t # o /\ (next[t] # Nil => next[t] \in Active)
  BY OrderNow, NodeFacts
<1> QED BY <1>1 DEF OrderedBut

\* The types of the list behind a step.
LEMMA ActiveNext == ASSUME ActiveInv' PROVE ListTypes'
BY ThreadAssumption DEF ActiveInv, SerialInv, LinkInv, TypeInv, TypeOK, ListTypes

\* What is left of the list when a timer is unlinked is in order.
LEMMA OrderUnlink ==
    ASSUME OrderInv, ActiveInv', NEW o \in Timers \union {Nil}, OrderedBut(o),
           NEW t \in Active, Unlink(t), expire' = expire
    PROVE  OrderedBut(IF o = t THEN Nil ELSE o)'
<1>1. /\ ListTypes /\ Active \subseteq Timers /\ expire \in [Timers -> Times] /\ Times \subseteq Int
      /\ ActiveLinked /\ ListTypes' /\ t \in Timers /\ Nil \notin Timers
  BY OrderNow, ActiveNext
<1>2. Active' = Active \ {t}
  BY <1>1, UnlinkFacts
<1>3. \A u \in Timers : u # t => next'[u] = IF u = prev[t] THEN next[t] ELSE next[u]
  BY DEF Unlink
<1>4. \A x \in Active : /\ x \in Timers /\ expire[x] \in Int /\ next[x] # x
                        /\ next[x] # Nil => next[x] \in Active /\ prev[next[x]] = x
                        /\ prev[x] # Nil => next[prev[x]] = x
                        /\ \A y \in Active : next[y] = x => y = prev[x]
  BY <1>1, NodeFacts
<1>5. \A x \in Active : x # o /\ next[x] # Nil =>
          /\ next[x] # o => expire[x] <= expire[next[x]]
          /\ next[x] = o /\ next[o] # Nil => expire[x] <= expire[next[o]]
  BY DEF OrderedBut
<1> SUFFICES ASSUME NEW u \in Active \ {t}, NEW n, n = next'[u], n # Nil, u # o
             PROVE  /\ n # o => expire[u] <= expire[n]
                    /\ n = o /\ next'[o] # Nil => expire[u] <= expire[next'[o]]
  <2>1. \A u \in Active' : next'[u] # t
    BY <1>1, <1>2, <1>3, <1>4 DEF ListTypes
  <2> QED BY <1>1, <1>2, <2>1 DEF OrderedBut
<1>6. CASE u = prev[t]
  <2>1. n = next[t] /\ n \in Active /\ n # t /\ next[u] = t
    BY <1>1, <1>3, <1>4, <1>6
  <2>2. CASE t = o
    <3>1. u \in Active /\ u # o /\ next[u] = o /\ next[o] = n
      BY <2>1, <2>2
    <3>2. expire[u] <= expire[next[o]]
      <4>1. o # Nil
        BY <1>1, <2>2
      <4> QED BY <1>5, <3>1, <4>1
    <3> QED BY <2>1, <2>2, <3>1, <3>2
  <2>3. CASE t # o
    <3>1. expire[u] <= expire[t] /\ expire[u] \in Int /\ expire[t] \in Int
      BY <1>1, <1>4, <1>5, <2>1, <2>3
    <3>2. CASE n # o
      <4>1. expire[t] <= expire[n] /\ expire[n] \in Int
        BY <1>4, <1>5, <2>1, <2>3, <3>2
      <4> QED BY <3>1, <3>2, <4>1
    <3>3. CASE n = o /\ next'[o] # Nil
      <4>1. next'[n] = next[n]
        BY <1>3, <1>4, <1>6, <2>1, <3>3
      <4>2. expire[t] <= expire[next[n]] /\ expire[next[n]] \in Int
        BY <1>4, <1>5, <2>1, <2>3, <3>3, <4>1
      <4> QED BY <3>1, <3>3, <4>1, <4>2
    <3> QED BY <3>2, <3>3
  <2> QED BY <2>2, <2>3
<1>7. CASE u # prev[t]
  <2>1. n = next[u] /\ n \in Active /\ n # t /\ n # u /\ prev[n] = u
    <3>1. n = next[u]
      BY <1>3, <1>4, <1>7
    <3> QED BY <1>4, <1>7, <3>1
  <2>2. CASE n # o
    BY <1>5, <2>1, <2>2
  <2>3. CASE n = o /\ next'[o] # Nil
    <3>1. CASE o # prev[t]
      <4>1. next'[o] = next[o]
        BY <1>3, <1>4, <2>1, <2>3, <3>1
      <4> QED BY <1>5, <2>1, <2>3, <4>1
    <3>2. CASE o = prev[t]
      <4> DEFINE m == next[t]
      <4>1. next'[o] = m /\ m \in Active /\ m # Nil
        BY <1>1, <1>3, <1>4, <2>1, <2>3, <3>2
      <4>2. next[o] = t /\ t # Nil /\ t # o
        BY <1>1, <1>4, <2>1, <2>3, <3>2
      <4>3. m # o
        <5>1. m = o => prev[m] = u
          BY <2>1, <2>3
        <5> QED BY <1>4, <4>1, <5>1
      <4>4. expire[u] <= expire[t]
        BY <1>5, <2>1, <2>3, <4>2
      <4>5. expire[t] <= expire[m]
        BY <1>5, <4>1, <4>2, <4>3
      <4>6. expire[u] \in Int /\ expire[t] \in Int /\ expire[m] \in Int
        BY <1>4, <4>1
      <4> QED BY <2>3, <4>1, <4>4, <4>5, <4>6
    <3> QED BY <2>3, <3>1, <3>2
  <2> QED BY <2>2, <2>3
<1> QED BY <1>6, <1>7

\* A call but for a set leaves no timer due.
LEMMA OtherTarget ==
    ASSUME NEW o \in Ops, o # "Set", NEW s
    PROVE  Target(o, s) \notin Due
BY DEF Ops, Target, StopTarget, DestroyTarget, Due, SettingExpire

LEMMA SetIsDue ==
    ASSUME NEW s
    PROVE  /\ Target("Set", s) = SetTarget(s)
           /\ SetTarget(s) \in SettingExpire /\ SetTarget(s) \in Due
BY DEF Target, SetTarget, Due, SettingExpire

\* A turn that fails changes neither the operation nor the timer, unless it was
\* the last one.
LEMMA RetryOp ==
    ASSUME NEW th \in Threads, call \in [Threads -> Calls], Retry(th)
    PROVE  /\ \A other \in Threads : other # th => call'[other] = call[other]
           /\ call'[th].op \in {call[th].op, "none"}
BY DEF Retry, Return, Calls, NoCall

\* The calls of the other threads are none that set a timer.
LEMMA SetCall ==
    ASSUME OrderInv, "Set" \notin OtherOps, NEW th \in Threads, BeginSome(th) \/ CallStep(th)
    PROVE  SetInv'
<1>1. /\ call \in [Threads -> Calls] /\ SetInv /\ EMT \in Threads
      /\ pc \in [Threads -> Labels \union EmtLabels]
  BY OrderNow
<1>2. ASSUME NEW other \in Others PROVE call'[other].op # "Set"
  <2>1. other \in Threads /\ other # EMT /\ call[other].op # "Set"
    BY <1>1, EmtIsThread DEF SetInv
  <2>2. CASE BeginSome(th)
    BY <1>1, <2>1, <2>2 DEF BeginSome, Begin, MayCall, NoCall
  <2>3. CASE Read(th) \/ Try(th) \/ StopFallThrough(th)
    BY <1>1, <2>1, <2>3, RetryOp DEF Read, Try, StopFallThrough, Return, NoCall, Calls
  <2>4. CASE Link(th) \/ WriteExpire(th) \/ Arm(th) \/ Schedule(th)
    BY <1>1, <2>1, <2>4 DEF Link, WriteExpire, Arm, Schedule, NoCall
  <2> QED BY <2>2, <2>3, <2>4 DEF CallStep
<1>3. pc'[EMT] = "one" => pc[EMT] = "one" /\ curState' = curState
  BY <1>1 DEF BeginSome, Begin, CallStep, Read, Try, StopFallThrough, Link, WriteExpire, Arm, Schedule,
              Goto, Return, Retry, emtVars
<1> QED BY <1>1, <1>2, <1>3 DEF SetInv

\* Another thread's call leaves the timer that EMT has set pending, where it is.
LEMMA OrderOther ==
    ASSUME OrderInv, SetInv', NEW th \in Threads, th # EMT, BeginSome(th) \/ CallStep(th),
           NEW o \in Timers \union {Nil}, LastSet(o)
    PROVE  LastSet(o)' /\ expire' = expire
<1>1. /\ SerialInv /\ SetInv /\ SeenOne(th) /\ EMT \in Threads /\ th \in Others /\ Nil \notin Timers
      /\ pc \in [Threads -> Labels \union EmtLabels] /\ call \in [Threads -> Calls]
      /\ state \in [Timers -> States]
      /\ pc[th] \in CallLabels => call[th].timer \in Timers /\ call[th].op \in Ops
  BY OrderNow DEF Threads
<1>2. call[th].op # "Set"
  BY <1>1 DEF SetInv
<1>3. ~WriteExpire(th) /\ ~Arm(th)
  BY <1>1, <1>2 DEF WriteExpire, Arm, SeenOne
<1>4. /\ UNCHANGED <<next, prev, head, batch, cur, expire>>
      /\ pc'[EMT] = pc[EMT] /\ call'[EMT] = call[EMT]
      /\ \A other \in Others : other # th => pc'[other] = pc[other] /\ call'[other] = call[other]
  BY <1>1, <1>3, EmtIsThread
     DEF BeginSome, Begin, CallStep, Read, Try, StopFallThrough, Link, Schedule,
         Goto, Return, Retry, emtVars, listVars, timerVars
<1>5. CASE Try(th) /\ state[call[th].timer] = call[th].seen
  <2>1. /\ pc[th] = "try" /\ pc[th] \in CallLabels
        /\ call[th].timer \in Timers /\ call[th].op \in Ops /\ call' = call
    BY <1>1, <1>5 DEF Try, CallLabels, Labels
  <2> SUFFICES ASSUME NEW t \in Timers, t = call[th].timer, NEW s \in States, s = call[th].seen
               PROVE  LastSet(o)'
    BY <1>1, <1>4, <2>1 DEF Calls
  <2>2. /\ state' = [state EXCEPT ![t] = Target(call[th].op, s)] /\ state[t] = s
        /\ pc'[th] = "link" => s \in Settled
    BY <1>1, <1>5 DEF Try, Goto, NeedsLink
  <2>3. Target(call[th].op, s) \in Pending /\ Target(call[th].op, s) \notin Due
    BY <1>2, <2>1, TargetFacts, OtherTarget
  <2>4. o # Nil => state[o] \in Pending /\ state'[o] \in Pending
    BY <1>1, <2>2, <2>3 DEF LastSet
  <2>5. o # Nil => ~Linking(th, o)'
    BY <2>1, <2>2, <2>4, SettledNotPending DEF Linking
  <2>6. \A other \in Others : o # Nil => ~Linking(other, o)'
    BY <1>4, <2>5 DEF LastSet, Linking
  <2>7. \A u \in Timers : state'[u] \in Due => u = o
    BY <1>1, <2>2, <2>3 DEF LastSet
  <2>8. OrderedBut(o)'
    BY <1>4, OrderFrame DEF LastSet
  <2>9. SetAt(o) => SetAt(o)'
    BY <1>4 DEF SetAt, Picked
  <2> QED BY <1>4, <2>4, <2>6, <2>7, <2>8, <2>9 DEF LastSet
<1>6. CASE ~(Try(th) /\ state[call[th].timer] = call[th].seen)
  <2>1. state' = state /\ (pc'[th] = "link" => pc[th] = "link" /\ call'[th] = call[th])
    BY <1>1, <1>3, <1>6, FallFails
       DEF BeginSome, Begin, CallStep, Read, Try, Link, Schedule, Goto, Return, Retry, timerVars
  <2>2. \A other \in Others : o # Nil => ~Linking(other, o)'
    BY <1>4, <2>1 DEF LastSet, Linking
  <2>3. OrderedBut(o)'
    BY <1>4, OrderFrame DEF LastSet
  <2>4. SetAt(o) => SetAt(o)'
    BY <1>4 DEF SetAt, Picked
  <2> QED BY <1>4, <2>1, <2>2, <2>3, <2>4 DEF LastSet
<1> QED BY <1>4, <1>5, <1>6

\* EMT's own call: the timer it sets is the one.
LEMMA OrderOwn ==
    ASSUME OrderInv, ActiveInv', SetInv', BeginSome(EMT) \/ CallStep(EMT)
    PROVE  \E o \in Timers \union {Nil} : LastSet(o)'
<1>1. /\ SerialInv /\ SetInv /\ SeenOne(EMT) /\ EMT \in Threads /\ Nil \notin Timers
      /\ pc \in [Threads -> Labels \union EmtLabels] /\ call \in [Threads -> Calls]
      /\ state \in [Timers -> States] /\ expire \in [Timers -> Times]
      /\ pc[EMT] \in CallLabels => call[EMT].timer \in Timers /\ call[EMT].op \in Ops
      /\ Serial /\ Active \subseteq Timers
  BY OrderNow DEF SerialInv
<1>2. UNCHANGED <<next, prev, head>>
  BY DEF BeginSome, Begin, CallStep, Read, Try, StopFallThrough, Link, WriteExpire, Arm, Schedule,
         listVars
<1>3. \A th \in Others : pc'[th] = pc[th] /\ call'[th] = call[th] /\ th # EMT /\ th \in Threads
  BY <1>1, EmtIsThread
     DEF BeginSome, Begin, CallStep, Read, Try, StopFallThrough, Link, WriteExpire, Arm, Schedule,
         Goto, Return, Retry
<1>4. CASE BeginSome(EMT) \/ Read(EMT) \/ (Try(EMT) /\ state' = state)
  <2>1. pc[EMT] \in {"ready", "read", "try"} /\ UNCHANGED <<state, expire>>
    BY <1>4 DEF BeginSome, Begin, Read, Try, timerVars
  <2>2. LastSet(Nil)
    BY <2>1, NoneSet
  <2>3. OrderedBut(Nil)'
    BY <1>2, <2>1, <2>2, OrderFrame DEF LastSet
  <2>4. LastSet(Nil)'
    BY <2>1, <2>2, <2>3 DEF LastSet
  <2> QED BY <2>4
<1>5. CASE Try(EMT) /\ state' # state
  <2>1. /\ pc[EMT] = "try" /\ pc[EMT] \in CallLabels /\ call' = call /\ expire' = expire
        /\ state[call[EMT].timer] = call[EMT].seen
    BY <1>1, <1>5 DEF Try, CallLabels, Labels
  <2> SUFFICES ASSUME NEW t \in Timers, t = call[EMT].timer, NEW o \in Ops, o = call[EMT].op
               PROVE  \E p \in Timers \union {Nil} : LastSet(p)'
    BY <1>1, <2>1
  <2>2. /\ state' = [state EXCEPT ![t] = Target(o, call[EMT].seen)]
        /\ pc'[EMT] \in {"link", "write", "schedule"}
    BY <1>1, <1>5, <2>1 DEF Try, Goto
  <2>3. LastSet(Nil)
    BY <2>1, NoneSet
  <2>4. CASE o = "Set"
    <3>1. OrderedBut(t)'
      BY <1>2, <2>1, <2>3, OrderFrame DEF LastSet
    <3>2. SetAt(t)'
      BY <2>1, <2>2 DEF SetAt
    <3>3. state'[t] \in Pending
      BY <1>1, <2>2, TargetFacts
    <3>4. \A th \in Others : ~Linking(th, t)'
      BY <1>1, <1>3, <2>1 DEF Linking, Serial
    <3>5. \A u \in Timers : state'[u] \in Due => u = t
      BY <1>1, <2>2, <2>3 DEF LastSet
    <3>6. LastSet(t)'
      BY <3>1, <3>2, <3>3, <3>4, <3>5 DEF LastSet
    <3> QED BY <3>6
  <2>5. CASE o # "Set"
    <3>1. OrderedBut(Nil)'
      BY <1>2, <2>1, <2>3, OrderFrame DEF LastSet
    <3>2. \A u \in Timers : state'[u] \in Due => u = Nil
      BY <1>1, <2>2, <2>3, <2>5, OtherTarget DEF LastSet
    <3>3. LastSet(Nil)'
      BY <3>1, <3>2 DEF LastSet
    <3> QED BY <3>3
  <2> QED BY <2>4, <2>5
<1>6. ASSUME NEW o \in Timers \union {Nil}, LastSet(o), Link(EMT) \/ Schedule(EMT) PROVE LastSet(o)'
  <2>1. /\ pc[EMT] \in {"link", "schedule"} /\ UNCHANGED <<state, expire>>
        /\ pc'[EMT] \in {"write", "schedule", "xchg"} /\ (pc'[EMT] # "xchg" => call' = call)
    BY <1>1, <1>6 DEF Link, Schedule, Goto, timerVars
  <2>2. OrderedBut(o)'
    BY <1>2, <1>6, <2>1, OrderFrame DEF LastSet
  <2>3. SetAt(o) => SetAt(o)'
    BY <2>1 DEF SetAt
  <2>4. \A th \in Others : Linking(th, o)' <=> Linking(th, o)
    BY <1>3 DEF Linking
  <2> QED BY <1>6, <2>1, <2>2, <2>3, <2>4 DEF LastSet
<1>7. ASSUME NEW o \in Timers \union {Nil}, LastSet(o), WriteExpire(EMT) \/ Arm(EMT) PROVE LastSet(o)'
  <2>1. /\ pc[EMT] \in {"write", "arm"} /\ pc[EMT] \in CallLabels /\ pc'[EMT] \in {"arm", "schedule"}
        /\ call' = call
    BY <1>1, <1>7 DEF WriteExpire, Arm, Goto, CallLabels, Labels
  <2> SUFFICES ASSUME NEW t \in Timers, t = call[EMT].timer PROVE LastSet(o)'
    BY <1>1, <2>1
  <2>2. state[t] = SetTarget(call[EMT].seen)
    BY <1>1, <2>1, SetIsDue DEF SeenOne
  <2>3. o = t
    BY <1>7, <2>2, SetIsDue DEF LastSet
  <2>4. /\ state'[t] \in Pending /\ \A u \in Timers : u # t => state'[u] = state[u]
        /\ \A u \in Timers : u # t => expire'[u] = expire[u]
    BY <1>1, <1>7, <2>3 DEF WriteExpire, Arm, LastSet, Pending
  <2>5. OrderedBut(o)'
    BY <1>1, <1>2, <1>7, <2>3, <2>4, OrderFrame DEF LastSet
  <2>6. SetAt(o)'
    BY <2>1, <2>3 DEF SetAt
  <2>7. \A th \in Others : Linking(th, o)' <=> Linking(th, o)
    BY <1>3 DEF Linking
  <2> QED BY <1>7, <2>3, <2>4, <2>5, <2>6, <2>7 DEF LastSet
<1>8. ~StopFallThrough(EMT)
  BY <1>1, FallFails
<1> QED BY <1>4, <1>5, <1>6, <1>7, <1>8 DEF CallStep, OrderInv

LEMMA OrderCall ==
    ASSUME OrderInv, Serialised, Races \subseteq Avoided, "Set" \notin OtherOps,
           NEW th \in Threads, BeginSome(th) \/ CallStep(th)
    PROVE  OrderInv'
<1>1. ActiveInv' /\ SetInv'
  BY ActiveCall, SetCall DEF OrderInv
<1>2. \E o \in Timers \union {Nil} : LastSet(o)'
  BY <1>1, OrderOther, OrderOwn DEF OrderInv
<1>3. Passed'
  <2>1. /\ Passed /\ EMT \in Threads /\ pc \in [Threads -> Labels \union EmtLabels]
    BY OrderNow
  <2>2. CASE th = EMT
    <3>1. pc'[EMT] # "walk"
      BY <2>1, <2>2 DEF BeginSome, Begin, CallStep, Read, Try, StopFallThrough, Link, WriteExpire, Arm,
                        Schedule, Goto, Return, Retry
    <3> QED BY <3>1 DEF Passed
  <2>3. CASE th # EMT
    <3>1. expire' = expire
      BY <1>1, <2>3, OrderOther DEF OrderInv
    <3>2. pc'[EMT] = pc[EMT] /\ UNCHANGED <<prev, cur, walk, key>>
      BY <2>1, <2>3 DEF BeginSome, Begin, CallStep, Read, Try, StopFallThrough, Link, WriteExpire, Arm,
                        Schedule, Goto, Return, Retry, listVars, emtVars
    <3> QED BY <2>1, <3>1, <3>2 DEF Passed
  <2> QED BY <2>2, <2>3
<1> QED BY <1>1, <1>2, <1>3 DEF OrderInv

\* Before a timer that is due later, behind those that are not.
LEMMA OrderBefore ==
    ASSUME OrderInv, ActiveInv', OrderedBut(Nil), NEW t \in Timers \ Active, NEW w \in Active,
           expire' = expire, Active' = Active \union {t},
           next' = [u \in Timers |-> IF u = prev[w] THEN t ELSE IF u = t THEN w ELSE next[u]],
           expire[t] <= expire[w], prev[w] # Nil => expire[prev[w]] <= expire[t]
    PROVE  OrderedBut(Nil)'
<1>1. /\ ListTypes /\ Active \subseteq Timers /\ ActiveLinked /\ w # t /\ ListTypes' /\ Nil \notin Timers
  BY OrderNow, ActiveNext
<1> SUFFICES ASSUME NEW u \in Active \union {t}, NEW n \in Timers, n = next'[u]
             PROVE  expire[u] <= expire[n]
  <2>1. \A u \in Active' : next'[u] # Nil => next'[u] \in Timers
    BY <1>1 DEF ListTypes
  <2> QED BY <1>1, <2>1 DEF OrderedBut
<1>2. CASE u = t
  <2>1. prev[w] # t
    BY <1>1, NodeFacts DEF ListTypes
  <2> QED BY <1>2, <2>1
<1>3. CASE u # t /\ u = prev[w]
  BY <1>1, <1>3 DEF ListTypes
<1>4. CASE u # t /\ u # prev[w]
  BY <1>1, <1>4 DEF OrderedBut, ListTypes
<1> QED BY <1>2, <1>3, <1>4

LEMMA OrderWalk ==
    ASSUME OrderInv, ActiveInv', WalkStep
    PROVE  LastSet(Nil)' /\ Passed'
<1>1. /\ ActiveInv /\ Passed /\ ListTypes /\ ListTypes' /\ ActiveLinked /\ EMT \in Threads
      /\ pc \in [Threads -> Labels \union EmtLabels] /\ pc[EMT] = "walk" /\ cur \in Timers
      /\ UNCHANGED <<state, expire>> /\ expire \in [Timers -> Times] /\ Times \subseteq Int
      /\ Active \subseteq Timers /\ Nil \notin Timers
  BY OrderNow, ActiveNext DEF WalkStep, TypeInv, Shape, timerVars
<1>2. LastSet(Nil) /\ OrderedBut(Nil)
  BY <1>1, NoneSet DEF LastSet
<1>3. /\ walk \in Active /\ walk \in Timers /\ cur \in Timers \ Active
      /\ key = expire[cur] /\ (prev[walk] # Nil => expire[prev[walk]] <= expire[cur])
      /\ expire[walk] \in Int /\ expire[cur] \in Int
  <2>1. walk \in Active /\ cur \notin Active
    BY <1>1, ActiveNow DEF ActiveInv, InsInv, Inserting
  <2> QED BY <1>1, <2>1 DEF Passed
<1>4. ASSUME OrderedBut(Nil)' PROVE LastSet(Nil)'
  BY <1>1, <1>2, <1>4 DEF LastSet
<1>5. CASE InsertHere
  <2>1. /\ next' = [u \in Timers |-> IF u = prev[walk] THEN cur
                                     ELSE IF u = cur THEN walk ELSE next[u]]
        /\ prev' = [u \in Timers |-> IF u = walk THEN cur
                                     ELSE IF u = cur THEN prev[walk] ELSE prev[u]]
        /\ head' = IF prev[walk] = Nil THEN cur ELSE head
        /\ pc'[EMT] # "walk"
    BY <1>1, <1>5 DEF WalkStep, BatchStep, Goto, AfterBatch
  <2>2. Active' = Active \union {cur}
    BY <1>1, <1>3, <2>1, InsertBefore
  <2>3. expire[cur] <= expire[walk]
    BY <1>3, <1>5 DEF InsertHere
  <2>4. OrderedBut(Nil)'
    BY <1>1, <1>2, <1>3, <2>1, <2>2, <2>3, OrderBefore
  <2> QED BY <1>4, <2>1, <2>4 DEF Passed
<1>6. CASE ~InsertHere /\ next[walk] = Nil
  <2>1. /\ next' = [next EXCEPT ![walk] = cur] /\ prev' = [prev EXCEPT ![cur] = walk]
        /\ head' = head /\ pc'[EMT] # "walk"
    BY <1>1, <1>6 DEF WalkStep, BatchStep, Goto, AfterBatch
  <2>2. Active' = Active \union {cur} /\ next[cur] = Nil
    <3>1. Active' = Active \union {cur}
      BY <1>1, <1>3, <1>6, <2>1, InsertLast
    <3> QED BY <1>1, <1>3, <3>1 DEF ActiveLinked
  <2>3. expire[walk] <= expire[cur]
    BY <1>3, <1>6 DEF InsertHere
  <2>4. ASSUME NEW u \in Active', next'[u] # Nil PROVE expire[u] <= expire[next'[u]]
    <3>1. u # cur
      BY <1>1, <1>3, <2>1, <2>2, <2>4 DEF ListTypes
    <3>2. CASE u = walk
      BY <1>1, <1>3, <2>1, <2>3, <3>2 DEF ListTypes
    <3>3. CASE u # walk
      <4>1. next'[u] = next[u] /\ u \in Active /\ next[u] \in Timers /\ u # Nil
        BY <1>1, <2>1, <2>2, <2>4, <3>1, <3>3 DEF ListTypes
      <4> QED BY <1>1, <1>2, <2>4, <4>1 DEF OrderedBut
    <3> QED BY <3>2, <3>3
  <2>5. OrderedBut(Nil)'
    BY <1>1, <2>4 DEF OrderedBut
  <2> QED BY <1>4, <2>1, <2>5 DEF Passed
<1>7. CASE ~InsertHere /\ next[walk] # Nil
  <2>1. /\ walk' = next[walk] /\ UNCHANGED <<pc, next, prev, head, qExpire, cur, key>>
    BY <1>7 DEF WalkStep, listVars
  <2>2. OrderedBut(Nil)'
    BY <1>1, <1>2, <2>1, OrderFrame
  <2>3. prev[next[walk]] = walk
    BY <1>1, <1>3, <1>7, NodeFacts
  <2>4. expire[walk] <= key
    BY <1>3, <1>7 DEF InsertHere
  <2> QED BY <1>1, <1>3, <1>4, <2>1, <2>2, <2>3, <2>4 DEF Passed
<1> QED BY <1>5, <1>6, <1>7

\* The timer that was set is put where it belongs, or taken off the list.
LEMMA OrderOne ==
    ASSUME OrderInv, ScheduleOne, ActiveInv', NEW o \in Timers \union {Nil}, LastSet(o)
    PROVE  \E p \in Timers \union {Nil} : LastSet(p)'
<1>1. /\ ActiveInv /\ SerialInv /\ EMT \in Threads /\ pc[EMT] = "one" /\ cur \in Timers
      /\ pc \in [Threads -> Labels \union EmtLabels] /\ batch \in Seq(Timers) /\ Nil \notin Timers
      /\ state \in [Timers -> States] /\ curState \notin SettingExpire /\ expire' = expire
      /\ \A t \in Timers : t # cur => state'[t] = state[t]
      /\ call' = call /\ batch' = batch
  BY OrderNow DEF SetInv, ScheduleOne, TypeInv, Shape
<1>2. state[cur] = curState /\ ~Inserting(cur) /\ state[cur] \in Pending
  BY <1>1 DEF SerialInv, PickInv, Inserting, LinkInv, Picked
<1>3. state'[cur] \notin Due
  BY <1>1, <1>2 DEF ScheduleOne, Due, SettingExpire, Pending
<1>4. ASSUME NEW q \in Timers \union {Nil}, q = IF o = cur THEN Nil ELSE o
      PROVE  OrderedBut(q)'
  <2>1. CASE curState \in {"PENDING_RESCHEDULE", "PENDING_STOP", "PENDING_STOP_DESTROY"}
    <3>1. Unlink(cur) /\ cur \in Active
      BY <1>1, <1>2, <2>1, ActiveNow DEF ScheduleOne, OnListStates
    <3>2. OrderedBut(o)
      BY DEF LastSet
    <3>3. ASSUME NEW t \in Active, t = cur PROVE OrderedBut(q)'
      BY <1>1, <1>4, <3>1, <3>2, <3>3, OrderUnlink
    <3> QED BY <3>1, <3>3
  <2>2. CASE curState \notin {"PENDING_RESCHEDULE", "PENDING_STOP", "PENDING_STOP_DESTROY"}
    <3>1. UNCHANGED <<next, prev, head>>
      BY <2>2 DEF ScheduleOne, listVars
    <3>2. cur \notin Active
      <4>1. state[cur] \notin OnListStates
        BY <1>1, <1>2, <2>2 DEF OnListStates, SettingExpire, Pending
      <4> QED BY <1>1, <4>1, ActiveNow
    <3>3. o = cur => OrderedBut(Nil)
      BY <3>2, OrderOff DEF LastSet
    <3>4. CASE o = cur
      BY <1>1, <1>4, <3>1, <3>3, <3>4, OrderFrame
    <3>5. CASE o # cur
      <4>1. OrderedBut(o)'
        BY <1>1, <3>1, OrderFrame DEF LastSet
      <4>2. q = o
        BY <1>4, <3>5
      <4> QED BY <4>1, <4>2
    <3> QED BY <3>4, <3>5
  <2> QED BY <2>1, <2>2
<1>5. CASE o = cur \/ o = Nil
  <2>1. OrderedBut(Nil)'
    BY <1>4, <1>5
  <2>2. \A t \in Timers : state'[t] \notin Due
    BY <1>1, <1>3, <1>5 DEF LastSet
  <2>3. LastSet(Nil)'
    BY <2>1, <2>2 DEF LastSet
  <2> QED BY <2>3
<1>6. CASE o # cur /\ o # Nil
  <2>1. o \in Timers /\ o \in Range(batch) /\ state'[o] = state[o] /\ state[o] \in Pending
    BY <1>1, <1>6 DEF LastSet, SetAt, Picked
  <2>2. curState \notin Due
    BY <1>1, <1>2, <1>6 DEF LastSet
  <2>3. pc'[EMT] = "pick" /\ \A th \in Others : pc'[th] = pc[th]
    <3>1. batch # <<>>
      BY <2>1, EmptyFacts
    <3> QED BY <1>1, <2>2, <3>1, EmtIsThread DEF ScheduleOne, BatchStep, Goto, AfterBatch, Due
  <2>4. OrderedBut(o)'
    BY <1>4, <1>6
  <2>5. SetAt(o)'
    BY <1>1, <2>1, <2>3 DEF SetAt
  <2>6. \A t \in Timers : state'[t] \in Due => t = o
    BY <1>1, <1>3 DEF LastSet
  <2>7. \A th \in Others : ~Linking(th, o)'
    BY <1>1, <1>6, <2>3 DEF LastSet, Linking
  <2>8. LastSet(o)'
    BY <2>1, <2>4, <2>5, <2>6, <2>7 DEF LastSet
  <2> QED BY <2>8
<1> QED BY <1>5, <1>6

\* EMT finds the timer that was set.
LEMMA OrderTake ==
    ASSUME OrderInv, TakeSchedule \/ Pick, NEW o \in Timers \union {Nil}, LastSet(o)
    PROVE  LastSet(o)' /\ SetInv'
<1>1. /\ SerialInv /\ EMT \in Threads /\ SetInv /\ pc \in [Threads -> Labels \union EmtLabels]
      /\ batch \in Seq(Timers) /\ sched \in Seq(Timers) /\ TypeInv /\ PickInv /\ PendingFound
      /\ Nil \notin Timers
  BY OrderNow DEF SerialInv
<1>2. /\ UNCHANGED <<state, expire, next, prev, head, call>>
      /\ \A th \in Others : pc'[th] = pc[th]
  BY <1>1, EmtIsThread DEF TakeSchedule, Pick, timerVars, listVars, Goto
<1>3. OrderedBut(o)'
  BY <1>2, OrderFrame DEF LastSet
<1>4. \A th \in Others : o # Nil => ~Linking(th, o)'
  BY <1>2 DEF LastSet, Linking
<1>5. CASE TakeSchedule
  <2>1. /\ pc[EMT] = "xchg" /\ batch' = sched
        /\ pc'[EMT] \in {"pick", "run", "ready"} /\ (pc'[EMT] # "pick" => sched = <<>>)
    BY <1>1, <1>5 DEF TakeSchedule, Goto, AfterBatch
  <2>2. o # Nil => o \in Range(sched)
    <3> SUFFICES ASSUME o # Nil PROVE o \in Range(sched)
      OBVIOUS
    <3>1. \A th \in Threads : ~Linking(th, o)
      BY <2>1 DEF LastSet, Linking, Threads
    <3>2. Listed(o) \/ Picked(o)
      BY <1>1, <3>1 DEF LastSet, PendingFound
    <3> QED BY <1>1, <2>1, <3>2, EmptyFacts DEF Listed, Picked, PickInv
  <2>3. o # Nil => SetAt(o)'
    BY <2>1, <2>2, EmptyFacts DEF SetAt
  <2>4. SetInv'
    BY <1>1, <1>2, <2>1 DEF SetInv
  <2> QED BY <1>2, <1>3, <1>4, <2>3, <2>4 DEF LastSet
<1>6. CASE Pick
  <2>1. /\ pc[EMT] = "pick" /\ pc'[EMT] = "one" /\ batch # <<>> /\ batch' = Tail(batch)
        /\ cur' = Head(batch) /\ curState' = state[Head(batch)]
    BY <1>1, <1>6 DEF Pick, Goto, TypeInv, Shape
  <2>2. Range(batch) = Range(Tail(batch)) \union {Head(batch)} /\ Head(batch) \in Timers
    BY <1>1, <2>1, RestFacts, PopFacts
  <2>3. o # Nil => SetAt(o)'
    <3>1. o # Nil => o \in Range(batch)
      BY <2>1 DEF LastSet, SetAt, Picked
    <3> QED BY <2>1, <2>2, <3>1 DEF SetAt, Picked
  <2>4. state[Head(batch)] \notin SettingExpire
    <3>1. \A th \in Threads : ~Setting(th)
      BY <1>1, <2>1 DEF Setting, SetInv, Threads
    <3> QED BY <2>2, <3>1 DEF SerialInv, WaitOne, OrderInv, ActiveInv
  <2>5. SetInv'
    BY <1>1, <1>2, <2>1, <2>4 DEF SetInv
  <2> QED BY <1>2, <1>3, <1>4, <2>3, <2>5 DEF LastSet
<1> QED BY <1>5, <1>6

LEMMA OrderLoad ==
    ASSUME OrderInv, ActiveInv', LoadKey
    PROVE  LastSet(Nil)' /\ Passed'
<1>1. /\ EMT \in Threads /\ pc \in [Threads -> Labels \union EmtLabels] /\ pc[EMT] = "load"
      /\ cur \in Timers /\ UNCHANGED <<state, expire, next, prev>> /\ ActiveLinked /\ ListTypes
  BY OrderNow DEF LoadKey, timerVars, TypeInv, Shape
<1>2. LastSet(Nil)
  BY <1>1, NoneSet
<1>3. ASSUME OrderedBut(Nil)' PROVE LastSet(Nil)'
  BY <1>1, <1>2, <1>3 DEF LastSet
<1>4. CASE head = Nil
  <2>1. head' = cur /\ pc'[EMT] # "walk"
    BY <1>1, <1>4 DEF LoadKey, BatchStep, Goto, AfterBatch
  <2>2. Active = {} /\ Active' = {cur}
    BY <1>1, <1>4, <2>1, InsertFirst
  <2>3. next[cur] = Nil
    BY <1>1, <2>2 DEF ActiveLinked
  <2>4. OrderedBut(Nil)'
    BY <1>1, <2>2, <2>3 DEF OrderedBut
  <2> QED BY <1>3, <2>1, <2>4 DEF Passed
<1>5. CASE head # Nil
  <2>1. walk' = head /\ key' = expire[cur] /\ cur' = cur /\ head' = head
    BY <1>5 DEF LoadKey
  <2>2. OrderedBut(Nil)'
    BY <1>1, <1>2, <2>1, OrderFrame DEF LastSet
  <2>3. prev'[walk'] = Nil
    BY <1>1, <1>5, <2>1 DEF ActiveLinked
  <2>4. Passed'
    BY <1>1, <2>1, <2>3 DEF Passed
  <2> QED BY <1>3, <2>2, <2>4
<1> QED BY <1>4, <1>5

LEMMA OrderRun ==
    ASSUME OrderInv, ActiveInv',
           QueuesDo \/ RunStart \/ RunOne \/ CallbackReturn \/ RunEnd \/ ResetEnd
    PROVE  LastSet(Nil)' /\ Passed'
<1>1. /\ EMT \in Threads /\ pc \in [Threads -> Labels \union EmtLabels]
      /\ state \in [Timers -> States] /\ TypeInv /\ Active \subseteq Timers /\ Nil \notin Timers
      /\ \A t \in Timers : t \in Active <=> state[t] \in OnListStates /\ ~Inserting(t)
  BY OrderNow DEF OrderInv, ActiveInv, ActiveByState
<1>2. pc[EMT] \in {"ready", "run"} /\ pc'[EMT] \in {"ready", "run", "xchg"} /\ expire' = expire
  BY <1>1 DEF QueuesDo, RunStart, RunOne, CallbackReturn, RunEnd, ResetEnd, Goto, callVars, timerVars
<1>3. LastSet(Nil)
  BY <1>2, NoneSet
<1>4. \A t \in Timers : state'[t] \in Due => state[t] \in Due
  <2>1. CASE RunOne
    BY <1>1, <2>1 DEF RunOne, Due, SettingExpire
  <2>2. CASE CallbackReturn
    BY <1>1, <2>2 DEF CallbackReturn, AfterCallback, Due, SettingExpire
  <2>3. CASE QueuesDo \/ RunStart \/ RunEnd \/ ResetEnd
    BY <2>3 DEF QueuesDo, RunStart, RunEnd, ResetEnd, timerVars
  <2> QED BY <2>1, <2>2, <2>3
<1>5. OrderedBut(Nil)'
  <2>1. CASE RunOne /\ state[runNext] = "ACTIVE"
    <3>1. runNext \in Timers
      BY <1>1, <2>1 DEF RunOne, DueNext, TypeInv, TypeOK
    <3>2. runNext \in Active /\ Unlink(runNext)
      BY <1>1, <1>2, <2>1, <3>1 DEF RunOne, OnListStates, Inserting
    <3> QED BY <1>1, <1>2, <1>3, <3>1, <3>2, OrderUnlink DEF LastSet
  <2>2. CASE ~(RunOne /\ state[runNext] = "ACTIVE")
    <3>1. UNCHANGED <<next, prev, head>>
      BY <2>2 DEF QueuesDo, RunStart, RunOne, CallbackReturn, RunEnd, ResetEnd, listVars
    <3> QED BY <1>2, <1>3, <3>1, OrderFrame DEF LastSet
  <2> QED BY <2>1, <2>2
<1> QED BY <1>2, <1>3, <1>4, <1>5 DEF LastSet, Passed

LEMMA OrderEmt ==
    ASSUME OrderInv, EmtStep
    PROVE  OrderInv'
<1>1. /\ EMT \in Threads /\ pc \in [Threads -> Labels \union EmtLabels] /\ SetInv
  BY OrderNow
<1>2. ActiveInv'
  BY ActiveEmt DEF OrderInv
<1>3. ASSUME ~Pick PROVE SetInv'
  <2>1. call' = call
    BY DEF EmtStep, TakeSchedule, Pick, ScheduleOne, LoadKey, WalkStep, QueuesDo, RunStart, RunOne,
           CallbackReturn, RunEnd, ResetEnd, callVars
  <2>2. pc'[EMT] # "one"
    BY <1>1, <1>3 DEF EmtStep, TakeSchedule, ScheduleOne, LoadKey, WalkStep, QueuesDo, RunStart, RunOne,
           CallbackReturn, RunEnd, ResetEnd, callVars, BatchStep, Goto, AfterBatch
  <2> QED BY <1>1, <2>1, <2>2 DEF SetInv
<1>4. CASE TakeSchedule \/ Pick
  <2>1. \E o \in Timers \union {Nil} : LastSet(o)' /\ SetInv'
    BY <1>4, OrderTake DEF OrderInv
  <2>2. pc'[EMT] # "walk"
    BY <1>1, <1>4 DEF TakeSchedule, Pick, Goto, AfterBatch
  <2> QED BY <1>2, <2>1, <2>2 DEF OrderInv, Passed
<1>5. CASE ScheduleOne
  <2>1. pc'[EMT] # "walk" /\ ~Pick
    BY <1>1, <1>5 DEF ScheduleOne, BatchStep, Goto, AfterBatch, Pick
  <2>2. \E o \in Timers \union {Nil} : LastSet(o)'
    BY <1>2, <1>5, OrderOne DEF OrderInv
  <2> QED BY <1>2, <1>3, <2>1, <2>2 DEF OrderInv, Passed
<1>6. CASE LoadKey \/ WalkStep \/ QueuesDo \/ RunStart \/ RunOne \/ CallbackReturn \/ RunEnd \/ ResetEnd
  <2>1. LastSet(Nil)' /\ Passed'
    BY <1>2, <1>6, OrderLoad, OrderWalk, OrderRun
  <2>2. ~Pick
    BY <1>6 DEF LoadKey, WalkStep, QueuesDo, RunStart, RunOne, CallbackReturn, RunEnd, ResetEnd, Pick
  <2> QED BY <1>2, <1>3, <2>1, <2>2 DEF OrderInv
<1> QED BY <1>4, <1>5, <1>6 DEF EmtStep

LEMMA OrderRest ==
    ASSUME OrderInv, Reset \/ (\E t \in Timers : Create(t)) \/ Poll \/ Tick \/ UNCHANGED vars
    PROVE  OrderInv'
<1>1. /\ EMT \in Threads /\ pc \in [Threads -> Labels \union EmtLabels]
      /\ state \in [Timers -> States] /\ expire \in [Timers -> Times] /\ Passed /\ SetInv
      /\ Nil \notin Timers /\ ActiveLinked /\ ListTypes /\ Active \subseteq Timers
      /\ \A t \in Timers : t \in Active <=> state[t] \in OnListStates /\ ~Inserting(t)
  BY OrderNow DEF OrderInv, ActiveInv, ActiveByState
<1>2. ActiveInv'
  BY ActiveRest DEF OrderInv
<1>3. UNCHANGED <<call, cur, curState, walk, key, batch, prev, next, head>>
  <2>1. CASE Reset \/ Poll \/ Tick \/ UNCHANGED vars
    BY <2>1 DEF Reset, Poll, Tick, vars, callVars, listVars, emtVars
  <2>2. ASSUME NEW t \in Timers, Create(t)
        PROVE  UNCHANGED <<call, cur, curState, walk, key, batch, prev, next, head>>
    <3>1. t \notin Active
      BY <1>1, <2>2 DEF Create, OnListStates
    <3>2. next[t] = Nil /\ prev[t] = Nil
      BY <1>1, <3>1 DEF ActiveLinked
    <3> QED BY <1>1, <2>2, <3>2 DEF Create, ListTypes, callVars, emtVars
  <2> QED BY <2>1, <2>2
<1>4. \/ pc' = pc
      \/ pc[EMT] = "ready" /\ pc'[EMT] = "xchg" /\ \A th \in Others : pc'[th] = pc[th]
  BY <1>1, EmtIsThread DEF Reset, Create, Poll, Tick, vars, callVars, Goto
<1>5. SetInv'
  BY <1>1, <1>3, <1>4 DEF SetInv
<1>6. ASSUME NEW o \in Timers \union {Nil}, LastSet(o),
             \A t \in Timers : t # o => (state'[t] \in Due => state[t] \in Due),
             \A t \in Active : expire'[t] = expire[t], o # Nil => state'[o] = state[o]
      PROVE  LastSet(o)'
  <2>1. OrderedBut(o)'
    BY <1>3, <1>6, OrderFrame DEF LastSet
  <2>2. o # Nil => SetAt(o)'
    BY <1>3, <1>4, <1>6 DEF LastSet, SetAt, Picked
  <2>3. \A th \in Others : Linking(th, o)' <=> Linking(th, o)
    BY <1>3, <1>4 DEF Linking
  <2> QED BY <1>6, <2>1, <2>2, <2>3 DEF LastSet
<1>7. CASE Reset \/ Poll \/ Tick \/ UNCHANGED vars
  <2>1. UNCHANGED <<state, expire>>
    BY <1>7 DEF Reset, Poll, Tick, vars, timerVars
  <2>2. \E o \in Timers \union {Nil} : LastSet(o)'
    BY <1>6, <2>1 DEF OrderInv
  <2>3. Passed'
    BY <1>1, <1>3, <1>4, <2>1 DEF Passed
  <2> QED BY <1>2, <1>5, <2>2, <2>3 DEF OrderInv
<1>8. ASSUME NEW t \in Timers, Create(t) PROVE OrderInv'
  <2>1. /\ state[t] = "FREE" /\ state'[t] = "STOPPED" /\ pc[EMT] = "ready" /\ pc' = pc
        /\ \A u \in Timers : u # t => state'[u] = state[u] /\ expire'[u] = expire[u]
    BY <1>1, <1>8 DEF Create, callVars
  <2>2. t \notin Active
    BY <1>1, <2>1 DEF OnListStates
  <2>3. ASSUME NEW o \in Timers \union {Nil}, LastSet(o) PROVE LastSet(o)'
    <3>1. o # t
      BY <1>1, <2>1, <2>3 DEF LastSet, Pending
    <3>2. o # Nil => state'[o] = state[o]
      BY <2>1, <3>1
    <3>3. \A u \in Timers : u # o => (state'[u] \in Due => state[u] \in Due)
      BY <2>1 DEF Due, SettingExpire
    <3>4. \A u \in Active : expire'[u] = expire[u]
      BY <1>1, <2>1, <2>2
    <3> QED BY <1>6, <2>3, <3>2, <3>3, <3>4
  <2>4. Passed'
    BY <2>1 DEF Passed
  <2> QED BY <1>2, <1>5, <2>3, <2>4 DEF OrderInv
<1> QED BY <1>7, <1>8

\* "When no scheduling is pending, this list is will be ordered by expire time
\* (ascending)" (TMInternal.h, offActive): so it is when the calls on each timer
\* are serialised and meet neither race of Races, and EMT alone sets timers,
\* whoever stops and destroys them.
THEOREM SortedAlways ==
    ASSUME Serialised, Races \subseteq Avoided, "Set" \notin OtherOps PROVE Spec => []Sorted
<1>1. OrderInv /\ [Next]_vars => OrderInv'
  BY OrderCall, OrderEmt, OrderRest DEF Next
<1>2. Spec => []OrderInv
  BY OrderInit, <1>1, PTL DEF Spec
<1>3. OrderInv => Sorted
  <2> SUFFICES ASSUME OrderInv, \A t \in Timers : state[t] \in Settled,
                      NEW t \in Active, next[t] # Nil
               PROVE  expire[t] <= expire[next[t]]
    BY DEF Sorted
  <2>1. ListTypes /\ Active \subseteq Timers /\ Nil \notin Timers
    BY OrderNow
  <2>2. LastSet(Nil)
    BY SettledNotPending DEF OrderInv, LastSet
  <2> QED BY <2>1, <2>2 DEF LastSet, OrderedBut, ListTypes
<1> QED BY <1>2, <1>3, PTL
=============================================================================
