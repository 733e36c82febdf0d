------------------------------ MODULE CritSect ------------------------------
(***************************************************************************)
(* The critical sections of IPRT (Runtime/generic/critsect-generic.cpp)    *)
(* and those of PDM made of them (VMM/VMMAll/PDMAllCritSect.cpp,           *)
(* VMM/PDMCritSect.cpp), which EMT also enters in ring-0 and in the guest  *)
(* context, where it can neither wait nor signal.                          *)
(*                                                                         *)
(* There an enter that finds the section busy returns rcBusy, and a leave  *)
(* that finds somebody waiting is queued: EMT stays the owner until it is  *)
(* back in ring-3 and the forced action VM_FF_PDM_CRITSECT has the section *)
(* left.  One action is one access to what threads share; what only the    *)
(* owner of a section writes goes with it.                                 *)
(***************************************************************************)
EXTENDS Integers, SequencesExt

CONSTANTS
    Sects,       \* the critical sections; callers that wait enter them in their order
    Others,      \* the threads other than EMT
    EMT, Nil,
    Arrays,      \* the arrays RTCritSectEnterMultiple is called with
    MaxHold      \* bound on the entries of a thread until it holds none again

Threads == Others \union {EMT}

ASSUME CritSectAssumption ==
    /\ Sects \subseteq Nat /\ EMT \notin Others /\ Nil \notin Threads
    /\ \A a \in Arrays : a \in Seq(Sects) /\ IsInjective(a)
    /\ MaxHold \in Nat \ {0}

VARIABLES
    cLockers, cNestings, owner,  \* of each section
    sem,        \* its EventSem is signalled
    context,    \* of EMT: "R3", "R0" (or the guest context), "FF" in PDMR3CritSectFF
    queue,      \* apQueuedCritSectsLeaves
    ff, toR3,   \* VM_FF_PDM_CRITSECT, VM_FF_TO_R3
    pc,         \* the next step of each thread
    todo,       \* the entries and leaves of its call, the one at hand first
    array, miss,\* RTCritSectEnterMultiple: papCritSects, and i (0: the first pass)
    depth,      \* how often each thread has entered and not left each section
    entries     \* its entries since it held none

sectVars == <<cLockers, cNestings, owner, sem>>
emtVars  == <<context, queue, ff, toR3>>
callVars == <<pc, todo, array, miss>>
useVars  == <<depth, entries>>
vars == <<sectVars, emtVars, callVars, useVars>>

Init ==
    /\ cLockers = [s \in Sects |-> -1]
    /\ cNestings = [s \in Sects |-> 0]
    /\ owner = [s \in Sects |-> Nil]
    /\ sem = [s \in Sects |-> FALSE]
    /\ context = "R3" /\ queue = <<>> /\ ff = FALSE /\ toR3 = FALSE
    /\ pc = [th \in Threads |-> "ready"]
    /\ todo = [th \in Threads |-> <<>>]
    /\ array = [th \in Threads |-> <<>>]
    /\ miss = [th \in Threads |-> 0]
    /\ depth = [th \in Threads |-> [s \in Sects |-> 0]]
    /\ entries = [th \in Threads |-> 0]

----------------------------------------------------------------------------
(* Callers *)

Op(step, s) == [step |-> step, sect |-> s]
Sect(th) == Head(todo[th]).sect
At(th, step) == pc[th] = step

\* The thread goes on with ops, for a call on the array a, or with a step of an op.
Perform(th, ops, a, i) ==
    /\ todo' = [todo EXCEPT ![th] = ops]
    /\ pc' = [pc EXCEPT ![th] = IF ops = <<>> THEN "ready" ELSE Head(ops).step]
    /\ array' = [array EXCEPT ![th] = IF ops = <<>> THEN <<>> ELSE a]
    /\ miss' = [miss EXCEPT ![th] = IF ops = <<>> THEN 0 ELSE i]

Finish(th) == Perform(th, Tail(todo[th]), array[th], miss[th])
Goto(th, step) == pc' = [pc EXCEPT ![th] = step] /\ UNCHANGED <<todo, array, miss>>

HoldsNone(th) == \A s \in Sects : depth[th][s] = 0
Waits(th) == th # EMT \/ context = "R3"
MayEnter(th) ==
    /\ At(th, "ready") /\ (th = EMT => context # "FF")
    /\ HoldsNone(th) \/ entries[th] < MaxHold

Start(th, a, ops) ==
    /\ Perform(th, ops, a, 0)
    /\ entries' = [entries EXCEPT ![th] = IF HoldsNone(th) THEN 1 ELSE @ + 1]
    /\ UNCHANGED <<sectVars, emtVars, depth>>

\* RTCritSectEnter; the callers respect an order of the sections.
BeginEnter(th, s) ==
    /\ MayEnter(th) /\ Waits(th)
    /\ \A held \in Sects : depth[th][held] > 0 => held <= s
    /\ Start(th, <<>>, <<Op("inc", s)>>)

\* RTCritSectTryEnter, and PDMCritSectEnter outside ring-3.
BeginTry(th, s) ==
    /\ MayEnter(th)
    /\ Start(th, <<>>, <<Op("try", s)>>)

\* RTCritSectEnterMultiple, with the sections in any order.
BeginMultiple(th, a) ==
    /\ MayEnter(th) /\ Waits(th) /\ HoldsNone(th)
    /\ Start(th, a, [k \in 1 .. Len(a) |-> Op("try", a[k])])

\* A thread leaves only what it has entered.
BeginLeave(th, s) ==
    /\ At(th, "ready") /\ depth[th][s] > 0
    /\ Perform(th, <<Op(IF Waits(th) THEN "leave" ELSE "r0leave", s)>>, <<>>, 0)
    /\ UNCHANGED <<sectVars, emtVars, useVars>>

----------------------------------------------------------------------------
(* RTCritSectEnter, RTCritSectTryEnter *)

Entered(th, s) == depth' = [depth EXCEPT ![th][s] = @ + 1]

Inc(th) ==
    LET s == Sect(th) IN
    /\ At(th, "inc")
    /\ cLockers' = [cLockers EXCEPT ![s] = @ + 1]
    /\ Goto(th, IF cLockers[s] + 1 > 0 THEN "nested" ELSE "own")
    /\ UNCHANGED <<cNestings, owner, sem, emtVars, useVars>>

\* The owner nests, anybody else waits.
Nested(th) ==
    LET s == Sect(th) IN
    /\ At(th, "nested")
    /\ IF owner[s] = th
       THEN /\ cNestings' = [cNestings EXCEPT ![s] = @ + 1]
            /\ Entered(th, s) /\ Finish(th)
       ELSE Goto(th, "wait") /\ UNCHANGED <<cNestings, depth>>
    /\ UNCHANGED <<cLockers, owner, sem, emtVars, entries>>

Wait(th) ==
    LET s == Sect(th) IN
    /\ At(th, "wait") /\ sem[s]
    /\ sem' = [sem EXCEPT ![s] = FALSE]
    /\ Goto(th, "own")
    /\ UNCHANGED <<cLockers, cNestings, owner, emtVars, useVars>>

Own(th) ==
    LET s == Sect(th) IN
    /\ At(th, "own")
    /\ cNestings' = [cNestings EXCEPT ![s] = 1]
    /\ owner' = [owner EXCEPT ![s] = th]
    /\ Entered(th, s) /\ Finish(th)
    /\ UNCHANGED <<cLockers, sem, emtVars, entries>>

\* ASMAtomicCmpXchgS32(&cLockers, 0, -1).
Try(th) ==
    LET s == Sect(th) IN
    /\ At(th, "try")
    /\ IF cLockers[s] = -1
       THEN cLockers' = [cLockers EXCEPT ![s] = 0] /\ Goto(th, "own")
       ELSE Goto(th, "perhaps") /\ UNCHANGED cLockers
    /\ UNCHANGED <<cNestings, owner, sem, emtVars, useVars>>

\* "Perhaps it's us?"
TryNested(th) ==
    LET s == Sect(th) IN
    /\ At(th, "perhaps") /\ owner[s] = th
    /\ cLockers' = [cLockers EXCEPT ![s] = @ + 1]
    /\ cNestings' = [cNestings EXCEPT ![s] = @ + 1]
    /\ Entered(th, s) /\ Finish(th)
    /\ UNCHANGED <<owner, sem, emtVars, entries>>

----------------------------------------------------------------------------
(* RTCritSectEnterMultiple: a section was busy *)

\* Having entered the i-th section and those before the j-th, which is busy,
\* it leaves them, the i-th first if it is behind, before it waits for the j-th.
\* Mutant: the i-th is taken for one of those before the j-th.
ToLeave_Before(a, i, j) == Reverse(SubSeq(a, 1, j - 1))
ToLeave(a, i, j) == (IF i > j THEN <<a[i]>> ELSE <<>>) \o Reverse(SubSeq(a, 1, j - 1))

\* Then it waits for the j-th and tries the others.
Retry(a, i, j) ==
    LET Ops(step, s) == [k \in 1 .. Len(s) |-> Op(step, s[k])]
    IN  Ops("leave", ToLeave(a, i, j)) \o <<Op("inc", a[j])>> \o Ops("try", RemoveAt(a, j))

\* VERR_SEM_BUSY, or rcBusy.
Busy(th) ==
    LET s == Sect(th)
        a == array[th]
        j == CHOOSE k \in DOMAIN a : a[k] = s IN
    /\ At(th, "perhaps") /\ owner[s] # th
    /\ IF a = <<>>
       THEN Finish(th)
       ELSE Perform(th, Retry(a, miss[th], j), a, j)
    /\ UNCHANGED <<sectVars, emtVars, useVars>>

----------------------------------------------------------------------------
(* RTCritSectLeave *)

Left(th, s) == depth' = [depth EXCEPT ![th][s] = @ - 1]

\* A nested leave only counts.  Mutant: it does not take its entry off cLockers.
CountNested_Forgotten(s) == UNCHANGED cLockers
CountNested(s) == cLockers' = [cLockers EXCEPT ![s] = @ - 1]

Leave(th) ==
    LET s == Sect(th) IN
    /\ At(th, "leave")
    /\ cNestings' = [cNestings EXCEPT ![s] = @ - 1]
    /\ Left(th, s)
    /\ IF cNestings[s] > 1
       THEN CountNested(s) /\ Finish(th) /\ UNCHANGED owner
       ELSE /\ owner' = [owner EXCEPT ![s] = Nil]
            /\ Goto(th, "dec") /\ UNCHANGED cLockers
    /\ UNCHANGED <<sem, emtVars, entries>>

Dec(th) ==
    LET s == Sect(th) IN
    /\ At(th, "dec")
    /\ cLockers' = [cLockers EXCEPT ![s] = @ - 1]
    /\ IF cLockers[s] - 1 >= 0 THEN Goto(th, "signal") ELSE Finish(th)
    /\ UNCHANGED <<cNestings, owner, sem, emtVars, useVars>>

Signal(th) ==
    LET s == Sect(th) IN
    /\ At(th, "signal")
    /\ sem' = [sem EXCEPT ![s] = TRUE]
    /\ Finish(th)
    /\ UNCHANGED <<cLockers, cNestings, owner, emtVars, useVars>>

----------------------------------------------------------------------------
(* PDMCritSectLeave outside ring-3 *)

R0Leave ==
    LET s == Sect(EMT) IN
    /\ At(EMT, "r0leave")
    /\ cNestings' = [cNestings EXCEPT ![s] = @ - 1]
    /\ Left(EMT, s)
    /\ IF cNestings[s] > 1
       THEN CountNested(s) /\ Finish(EMT)
       ELSE Goto(EMT, "r0test") /\ UNCHANGED cLockers
    /\ UNCHANGED <<owner, sem, emtVars, entries>>

\* If nobody seems to wait the owner is taken off ...
R0Test ==
    LET s == Sect(EMT) IN
    /\ At(EMT, "r0test")
    /\ IF cLockers[s] = 0
       THEN owner' = [owner EXCEPT ![s] = Nil] /\ Goto(EMT, "r0free")
       ELSE UNCHANGED owner /\ Goto(EMT, "queue")
    /\ UNCHANGED <<cLockers, cNestings, sem, emtVars, useVars>>

\* ... and cLockers exchanged, "darn", unless someone raced in.
\* Mutant: cLockers is not compared.
RacedIn_Unchecked(s) == FALSE
RacedIn(s) == cLockers[s] # 0

\* The owner when somebody did.  Mutant: nobody.
OwnerAgain_Forgotten == Nil
OwnerAgain == EMT

R0Free ==
    LET s == Sect(EMT) IN
    /\ At(EMT, "r0free")
    /\ IF RacedIn(s)
       THEN owner' = [owner EXCEPT ![s] = OwnerAgain] /\ Goto(EMT, "queue") /\ UNCHANGED cLockers
       ELSE cLockers' = [cLockers EXCEPT ![s] = -1] /\ Finish(EMT) /\ UNCHANGED owner
    /\ UNCHANGED <<cNestings, sem, emtVars, useVars>>

\* VM_FF_TO_R3.  Mutant: it is not raised.
SendsToR3_Never == toR3
SendsToR3 == TRUE

Queue ==
    LET s == Sect(EMT) IN
    /\ At(EMT, "queue")
    /\ cNestings' = [cNestings EXCEPT ![s] = 1]
    /\ queue' = Append(queue, s)
    /\ ff' = TRUE /\ toR3' = SendsToR3
    /\ Finish(EMT)
    /\ UNCHANGED <<cLockers, owner, sem, context, useVars>>

----------------------------------------------------------------------------
(* EMT: the guest is run, and PDMR3CritSectFF *)

EnterGuest ==
    /\ context = "R3" /\ At(EMT, "ready") /\ HoldsNone(EMT)
    /\ context' = "R0"
    /\ UNCHANGED <<sectVars, queue, ff, toR3, callVars, useVars>>

\* Back in ring-3 emR3HighPriorityPostForcedActions comes first.
ExitGuest ==
    /\ context = "R0" /\ At(EMT, "ready") /\ HoldsNone(EMT)
    /\ context' = IF ff THEN "FF" ELSE "R3"
    /\ toR3' = FALSE
    /\ UNCHANGED <<sectVars, queue, ff, callVars, useVars>>

\* The queued sections are EMT's again, to be left one by one.
LeaveQueued ==
    LET s == Head(queue) IN
    /\ context = "FF" /\ At(EMT, "ready") /\ queue # <<>>
    /\ queue' = Tail(queue)
    /\ Entered(EMT, s)
    /\ Perform(EMT, <<Op("leave", s)>>, <<>>, 0)
    /\ UNCHANGED <<sectVars, context, ff, toR3, entries>>

FFEnd ==
    /\ context = "FF" /\ At(EMT, "ready") /\ queue = <<>>
    /\ context' = "R3"
    /\ ff' = FALSE
    /\ UNCHANGED <<sectVars, queue, toR3, callVars, useVars>>

----------------------------------------------------------------------------
BeginSome(th) == \/ \E s \in Sects : BeginEnter(th, s) \/ BeginTry(th, s)
                 \/ \E a \in Arrays : BeginMultiple(th, a)

LeaveSome(th) == \E s \in Sects : BeginLeave(th, s)

CallStep(th) == \/ Inc(th) \/ Nested(th) \/ Wait(th) \/ Own(th)
                \/ Try(th) \/ TryNested(th) \/ Busy(th)
                \/ Leave(th) \/ Dec(th) \/ Signal(th)

EmtStep == \/ R0Leave \/ R0Test \/ R0Free \/ Queue
           \/ LeaveQueued \/ FFEnd

Next == \/ \E th \in Threads : BeginSome(th) \/ LeaveSome(th) \/ CallStep(th)
        \/ EmtStep
        \/ EnterGuest \/ ExitGuest

Spec == Init /\ [][Next]_vars

\* Threads in a call run on and leave what they entered, and the host does not
\* for ever wake another waiter.  EMT, which may stay in the guest for good, comes
\* back when VM_FF_TO_R3 is raised: that is checked each time before the guest is
\* resumed.
FairSpec == /\ Spec
            /\ \A th \in Threads : /\ WF_vars(CallStep(th)) /\ WF_vars(LeaveSome(th))
                                   /\ SF_vars(Wait(th))
            /\ WF_vars(EmtStep)
            /\ SF_vars(ExitGuest /\ toR3)

----------------------------------------------------------------------------
(* What is promised *)

Steps == {"ready", "inc", "nested", "wait", "own", "try", "perhaps", "leave", "dec", "signal"}
R0Steps == {"r0leave", "r0test", "r0free", "queue"}
MostLockers == (MaxHold + 1) * Cardinality(Threads)

\* Every variable has its type; cLockers is -1 or counts entries, and no more
\* than there may be.
TypeOK ==
    /\ cLockers \in [Sects -> -1 .. MostLockers]
    /\ cNestings \in [Sects -> 0 .. MaxHold + 1]
    /\ owner \in [Sects -> Threads \union {Nil}]
    /\ sem \in [Sects -> BOOLEAN]
    /\ context \in {"R3", "R0", "FF"}
    /\ queue \in Seq(Sects) /\ {ff, toR3} \subseteq BOOLEAN
    /\ pc \in [Threads -> Steps \union R0Steps]
    /\ \A th \in Others : pc[th] \in Steps
    /\ \A th \in Threads : \A op \in Range(todo[th]) : op.sect \in Sects
    /\ array \in [Threads -> Arrays \union {<<>>}]
    /\ \A th \in Threads : miss[th] \in 0 .. Len(array[th])
    /\ depth \in [Threads -> [Sects -> 0 .. MaxHold + 1]]
    /\ entries \in [Threads -> 0 .. MaxHold]

\* Who has the section, or has it in its hands to take or to pass on: a thread
\* that entered it, EMT for a leave it queued, and the signalled semaphore.
Passing == {"own", "dec", "signal", "r0test", "r0free", "queue"}
Keeps(th, s) == \/ depth[th][s] > 0
                \/ pc[th] \in Passing /\ Sect(th) = s
                \/ th = EMT /\ s \in Range(queue)
Keepers(s) == {th \in Threads : Keeps(th, s)} \union (IF sem[s] THEN {Nil} ELSE {})

\* The entries into s, with those that wait or are under way (as the 0th of their
\* threads) and a leave that is queued.
Entering == {"nested", "wait"} \union (Passing \ {"signal"})
UnderWay(s) == {th \in Threads : pc[th] \in Entering /\ Sect(th) = s}
EntriesInto(s) ==
    (UNION {{th} \X (1 .. depth[th][s]) : th \in Threads})
        \union (UnderWay(s) \X {0})
        \union (IF s \in Range(queue) THEN {<<Nil, 0>>} ELSE {})

\* cLockers counts the entries into a section, and while there is one the section
\* has one keeper.  Two keepers: two threads inside, or a wakeup too many.  None:
\* the wakeup is lost and whoever waits, waits for good.
OneKeeper ==
    \A s \in Sects : /\ cLockers[s] + 1 = Cardinality(EntriesInto(s))
                     /\ Cardinality(Keepers(s)) = IF EntriesInto(s) = {} THEN 0 ELSE 1

\* RTCritSectEnterMultiple holds nothing while it waits, whatever it had already
\* entered, so that the order of its sections cannot make threads wait for each
\* other in a circle.
WaitsEmptyHanded ==
    \A th \in Threads : pc[th] = "wait" /\ array[th] # <<>> => HoldsNone(th)

\* A section whose leave is queued is EMT's with one entry more than EMT still
\* counts, and is queued once, so a section takes one of the 8 places.
QueuedIsOwned ==
    /\ IsInjective(queue)
    /\ \A s \in Range(queue) : owner[s] = EMT /\ cNestings[s] = depth[EMT][s] + 1

\* Whoever waits for a section enters it, with EMT's leave queued in the guest too.
WaitEnds == \A th \in Threads : At(th, "wait") ~> At(th, "own")
=============================================================================
