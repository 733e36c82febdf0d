------------------------ MODULE AtaController_proofs ------------------------
(***************************************************************************)
(* Proofs about AtaController: the request that the thread fetches fits    *)
(* the state of the channel, the ring has room, a suspended VM has no      *)
(* access to the medium under way, and a command or reset that is over     *)
(* has left nothing behind, for commands of any length and any number of   *)
(* failures, suspensions and resets.                                       *)
(***************************************************************************)
EXTENDS AtaController, TLAPS

\* The races that break these properties.  The other two of Races, AccessInFailure and
\* SplitBuffer, only keep the thread or EMT from ever going on.
Harmful == {"FailUnderReset", "ResetInDma", "ResetInRedo", "SuspendInRedo", "ResumeInRedo",
            "SlowMedium", "ResetAgain", "SlowFetch"}

----------------------------------------------------------------------------
(* The vocabulary of the invariant *)

Jobs == {"NEW", "DMA", "PIO"}

\* The ring holds one request, or two.
First == slot[tail]
Second == slot[Next4(tail)]
One(kinds) == head = Next4(tail) /\ First.type \in kinds
Two(a, b) == head = Next4(Next4(tail)) /\ First.type = a /\ Second.type = b

\* The thread has no request in hand; it has fetched the first of the ring; it has
\* one of some kinds in hand, which may since have been cleared from the ring.
Working == pc \notin {"top", "asleep", "wait", "get"}
Resting == pc \in {"wait", "get"} \/ (pc = "top" /\ cur = Nil)
Fetched == pc = "top" /\ cur = tail
Has(kinds) ==
    \/ pc = "top" /\ cur # Nil /\ slot[cur].type \in kinds
    \/ Working /\ type \in kinds
On(kinds) == cur = tail /\ Has(kinds)

\* The channel works, is being reset, or has its requests replaced by ataReset.
Rebuilding == emt \in {"resetClear", "resetAssert", "resetClearing", "resetWait"}
Calm == ~fReset /\ ~Rebuilding
Resetting == fReset /\ ~Rebuilding

----------------------------------------------------------------------------
(* The inductive invariant: the thread, the redo, the VM and the bus master *)

\* The step of the thread tells the type of its request.
StepTypes ==
    /\ pc \in {"filled", "putDma"} => type = "NEW"
    /\ pc = "moved" => type = "PIO"
    /\ pc \in {"copy", "sink", "spin", "descriptor", "end", "delayed", "finish", "relock"} =>
          type = "DMA"
    /\ pc \in {"io", "report", "redo", "suspend", "ask", "suspending"} => type \in Jobs
    /\ pc \in {"wait", "get"} => cur = Nil
    /\ Working => cur # Nil

Typed == TypeOK /\ StepTypes

\* The state of the channel is that of the transfer in hand, be it cleared or not.
StepFits ==
    /\ pc = "asleep" => cur = tail
    /\ Has(Jobs) /\ pc \notin {"putDma", "remove"} =>
          state = IF pc = "top" THEN slot[cur].type ELSE type

\* A redo is flagged from the report of the failure to the answer of the medium,
\* outside resets; the thread keeps still from then until the VM is resumed, and EMT
\* has a request of it only while it waits.
RedoFits ==
    /\ fRedo => ss /\ Calm /\ ~InVmReset
    /\ pc \in {"filled", "putDma", "moved", "copy", "descriptor", "end", "delayed", "finish"} =>
          ~fRedo
    /\ pc = "report" => ss /\ Calm /\ ~InVmReset
    /\ Failing /\ pc # "report" => fRedo
    /\ fRedoIdle => fRedo /\ (pc \in {"ask", "suspending", "remove", "asleep"} \/ Fetched)
    /\ pc \in {"ask", "suspending", "asleep"} => fRedoIdle
    /\ SuspendIOSem => fRedoIdle /\ pc # "ask" /\ ~request /\ vm = "running"
    /\ request => pc \in {"report", "suspending"}
    /\ emt = "serving" => request /\ pc = "suspending"

\* A VM that has been suspended has an empty ring, but for a transfer that has failed,
\* and gets no transfer before it is resumed, not even by a reset.
VmFits ==
    /\ emt \in {"enter", "leave"} => vm = "running"
    /\ vm = "suspended" /\ emt = "guest" => Empty \/ Failing \/ fRedoIdle
    /\ vm = "suspended" /\ InVmReset =>
          ~Has(Jobs) /\ (emt \in {"resetFlags", "resetClear"} => Empty)

\* DMA is the current command's, and the VM is not reset under it.
DmaFits ==
    /\ \/ Has({"DMA"}) \/ One({"DMA"}) \/ Two("NEW", "DMA") \/ Two("DMA", "DMA")
       \/ pc = "putDma" \/ start
       => dma /\ driver # "idle"
    /\ InVmReset => ~dma \/ driver = "idle"

\* A reset that is under way, unless it is the VM's, is the driver's.
LineFits ==
    /\ line => Resetting /\ ~InVmReset
    /\ Resetting => driver = "resetting" /\ status = "busy"
    /\ pc = "putDma" => Calm

----------------------------------------------------------------------------
(* The inductive invariant: the ring *)

\* One transfer, and a second request only until the thread removes the first: the
\* DMA that is to follow a NEW, or the copy of the request to be redone.
CalmRing ==
    \/ Empty /\ Resting
    \/ /\ One(Jobs)
       /\ \/ Resting \/ pc = "asleep" \/ Fetched
          \/ /\ cur = tail /\ type = First.type
             /\ pc \notin {"suspend", "ask", "suspending"} /\ ~(fRedo /\ pc = "remove")
    \/ One({"RESET_CLEARED"}) /\ pc = "remove" /\ type = "RESET_CLEARED"
    \/ Two("NEW", "DMA") /\ pc = "remove" /\ type = "NEW" /\ ~fRedo
    \/ /\ Two(type, type) /\ type \in Jobs /\ (type = "NEW" => First = Second)
       /\ cur = tail /\ pc \in {"suspend", "ask", "suspending", "remove"} /\ fRedo

\* The requests of the reset, the first of them perhaps while the thread still has
\* a transfer in hand that has been cleared.
ResettingRing ==
    \/ line /\ Empty /\ Resting
    \/ line /\ One({"RESET_ASSERTED"}) /\ (Resting \/ Has(Jobs) \/ On({"RESET_ASSERTED"}))
    \/ /\ ~line /\ Two("RESET_ASSERTED", "RESET_CLEARED")
       /\ Resting \/ (Working /\ type \in Jobs) \/ On({"RESET_ASSERTED"})
    \/ ~line /\ One({"RESET_CLEARED"}) /\ (Resting \/ On({"RESET_CLEARED"}))

\* What the reset of the VM finds, and what it puts instead.
RebuildingRing ==
    /\ emt = "resetClear" =>
          \/ Empty /\ Resting
          \/ Two("RESET_ASSERTED", "RESET_CLEARED")
          \/ One({"RESET_ASSERTED", "RESET_CLEARED"})
          \/ /\ One(Jobs) /\ fReset
             /\ \/ Resting /\ state = First.type
                \/ cur = tail /\ (pc = "top" \/ (Working /\ type = First.type))
    /\ emt = "resetAssert" => Empty /\ tail = 0
    /\ emt = "resetClearing" => (Empty /\ Resting) \/ One({"RESET_ASSERTED"})
    /\ emt = "resetWait" =>
          \/ Empty /\ Resting
          \/ Two("RESET_ASSERTED", "RESET_CLEARED")
          \/ One({"RESET_CLEARED"}) /\ (Resting \/ On({"RESET_CLEARED"}))

RingFits ==
    /\ Calm => CalmRing
    /\ Resetting => ResettingRing
    /\ Rebuilding => RebuildingRing

\* RESET_ASSERTED ends what is left of a transfer and RESET_CLEARED comes last.
ResetFits ==
    /\ pc = "remove" /\ type = "RESET_ASSERTED" => state = "RESET_CLEARED" /\ ~ss
    /\ Resetting /\ (Empty \/ One({"RESET_CLEARED"})) => state = "RESET_CLEARED" /\ ~ss
    /\ pc = "remove" /\ type = "RESET_CLEARED" => state = "NEW"
    /\ emt = "resetWait" /\ pc = "remove" /\ One({"RESET_CLEARED"}) => ~fReset
    /\ emt = "resetWait" /\ Empty => state = "NEW" /\ ~fReset

----------------------------------------------------------------------------
(* The inductive invariant: the command *)

\* The source or sink is there for the next access to the medium; with n pieces to
\* go the sink of a read has put itself out if the last of them has been read.
Wanted == ss /\ dir # "none"
Sound(n) == dir # "none" /\ n >= 1 /\ (ss <=> dir = "write" \/ n > 1)

DmaUnderWay == ~irq /\ state = "DMA" /\ (start \/ driver = "stopped")

\* A request that the thread has not begun, or is to redo, finds what it needs.
NewAhead ==
    /\ state = "NEW" /\ status = "busy" /\ ~(dma /\ irq) /\ First.ss
    /\ IF First.dir = "none" THEN First.n = 0 ELSE First.n >= 1
    /\ fRedo => dir = First.dir /\ dir = "read"
PioAhead == ~dma /\ state = "PIO" /\ status = "busy" /\ Wanted
DmaAhead == DmaUnderWay /\ (IF fRedo THEN Wanted ELSE Sound(total))

Ahead == CASE First.type = "NEW" -> NewAhead
           [] First.type = "PIO" -> PioAhead
           [] First.type = "DMA" -> DmaAhead
           [] OTHER -> FALSE

\* When the thread is through with a request the command is over, or the driver is
\* to move data or to start the bus master.
Settled == state = "NEW" /\ ~ss /\ status = "ready"
AsksData ==
    /\ ~dma /\ driver = "waits" /\ status = "drq"
    /\ \/ state = "PIO" /\ Wanted
       \/ state = "NEW" /\ ~ss /\ dir = "read"
AwaitsStart == dma /\ ~irq /\ state = "DMA" /\ Sound(total)
Over == (Settled /\ (dma => irq)) \/ AsksData \/ AwaitsStart

\* What the steps of a transfer hand on to each other.
UnderWay ==
    /\ pc \in {"io", "report"} /\ type = "NEW" =>
          /\ NewAhead /\ ss /\ dir = First.dir /\ dir # "write"
          /\ IF dir = "none" THEN total = 0 ELSE total >= 1
    /\ pc = "filled" => status = "ready" /\ ~(dma /\ irq) /\ (total > 0 => Sound(total))
    /\ pc = "putDma" => DmaAhead
    /\ pc \in {"io", "report"} /\ type = "PIO" => PioAhead
    /\ pc = "moved" => ~dma /\ status = "ready" /\ (total > 0 => Sound(total))
    /\ type = "DMA" /\ pc \in {"copy", "sink", "io", "report", "relock", "descriptor", "end",
                               "delayed", "finish"} => DmaUnderWay
    /\ pc \in {"copy", "descriptor"} => Sound(left)
    /\ pc = "sink" => Wanted
    /\ pc # "spin"
    /\ pc \in {"io", "relock"} /\ type = "DMA" => Wanted
    /\ pc = "report" => Wanted
    /\ pc \in {"end", "delayed", "finish"} => ~ss

NoCommand == driver \in {"idle", "resetting"}

BeforeIo ==
    \/ pc \in {"top", "asleep", "wait", "get", "enter", "redo", "suspend", "ask", "suspending"}
    \/ pc = "remove" /\ fRedo

NoneFits == Calm /\ NoCommand =>
    Settled /\ (Empty \/ One({"RESET_CLEARED"})) /\ (driver = "idle" => ~irq)

CommandFits == Calm /\ ~NoCommand =>
    /\ driver = "stopped" => dma
    /\ Empty => Over
    /\ ~Empty /\ BeforeIo => Ahead
    /\ pc = "remove" /\ ~fRedo => IF head = Next4(tail) THEN Over ELSE DmaAhead
    /\ UnderWay

IInv ==
    /\ Typed
    /\ StepFits /\ RedoFits /\ VmFits /\ DmaFits /\ LineFits
    /\ RingFits /\ ResetFits
    /\ NoneFits /\ CommandFits

\* The vocabulary of the steps and of the invariant is expanded in every proof; what
\* a leaf cites are the action, what the code does in it and the conjuncts it needs.
USE DEF At, Goto, EmtAt, EmtGoto, Starts, Handles, Empty, Slots, Next4, InVmReset,
        ringVars, flagVars, deviceVars, lineVars, lockVars, semVars, threadVars, vmVars, guestVars,
        Jobs, First, Second, One, Two, Working, Resting, Fetched, Has, On, Failing, Rebuilding,
        Calm, Resetting, CalmRing, ResettingRing, RebuildingRing, Wanted, Sound, DmaUnderWay,
        NewAhead, PioAhead, DmaAhead, Ahead, Settled, AsksData, AwaitsStart, Over, UnderWay,
        NoCommand, BeforeIo

----------------------------------------------------------------------------
(* Every variable has its type, in whatever order the three touch the channel *)

\* What is put into the ring without parameters is a request ...
LEMMA PlainIsRequest ==
    \A kind \in Jobs \union {"RESET_ASSERTED", "RESET_CLEARED"} : Plain(kind) \in Requests
  BY AtaAssumption DEF Plain, Requests, Directions

\* ... and what is put into it leaves it a ring of requests.
LEMMA PutTypes ==
  ASSUME TypeOK, NEW r \in Requests, Put(r)
  PROVE  slot' \in [Slots -> Requests] /\ {head', tail'} \subseteq Slots
  BY DEF TypeOK, Put

\* The parameters that a NEW takes from its slot.
LEMMA FetchedTypes ==
  ASSUME Typed, Working
  PROVE  slot[cur].dir \in Directions /\ slot[cur].n \in 0..MaxPieces /\ slot[cur].ss \in BOOLEAN
<1>1. cur \in Slots
  BY DEF Typed, TypeOK, StepTypes
<1>2. slot[cur] \in Requests
  BY <1>1 DEF Typed, TypeOK
<1>3. slot[cur].ss \in BOOLEAN
  BY <1>2, Zenon DEF Requests
<1> QED
  BY <1>2, <1>3 DEF Requests

\* The parameters that the guest gives.
LEMMA CommandTypes ==
  ASSUME NEW c \in Commands
  PROVE  /\ [type |-> "NEW", dir |-> c.dir, n |-> c.n, ss |-> TRUE] \in Requests
         /\ c.dma \in BOOLEAN
<1>1. CASE c \in [dir : {"read", "write"}, n : 1..MaxPieces, dma : BOOLEAN]
  <2>1. c.dma \in BOOLEAN
    BY <1>1, Zenon
  <2> QED
    BY <1>1, <2>1, AtaAssumption DEF Requests, Directions
<1>2. CASE c = [dir |-> "none", n |-> 0, dma |-> FALSE]
  <2>1. c.dma = FALSE
    BY <1>2, Zenon
  <2>2. c.dma \in BOOLEAN
    BY <2>1, Zenon
  <2> QED
    BY <1>2, <2>2, AtaAssumption DEF Requests, Directions
<1> QED
  BY <1>1, <1>2, AtaAssumption

\* The flags, each of which is set from another or by a comparison.
LEMMA FlagsKept == ASSUME Typed, [Next]_vars PROVE Flags'
<1>0. Flags
  BY DEF Typed, TypeOK
<1> USE DEF Flags
<1>1. CASE Top
  BY <1>0, <1>1, Zenon DEF Top, KeepsStill
<1>2. CASE Resumed
  BY <1>0, <1>2, Zenon DEF Resumed
<1>3. CASE Woken
  BY <1>0, <1>3, Zenon DEF Woken
<1>4. CASE GetRequest
  BY <1>0, <1>4, Zenon DEF GetRequest, CurrentRequest
<1>5. CASE NewTransfer
  <2>1. slot[cur].ss \in BOOLEAN
    BY <1>5, FetchedTypes DEF NewTransfer
  <2> QED
    BY <1>0, <1>5, <2>1, Zenon DEF NewTransfer, SetStatus
<1>6. CASE PioTransfer
  BY <1>0, <1>6, Zenon DEF PioTransfer, SetStatus
<1>7. CASE DmaTransfer
  BY <1>0, <1>7, Zenon DEF DmaTransfer
<1>8. CASE ResetAsserted
  BY <1>0, <1>8, Zenon DEF ResetAsserted, Enter, TransferStop
<1>9. CASE ResetCleared
  BY <1>0, <1>9, Zenon DEF ResetCleared, Enter, ReadyAgain
<1>10. CASE IoDone
  BY <1>0, <1>10, Zenon DEF IoDone, Relocked, SinkAfter, SetStatus, AfterIo
<1>11. CASE IoError
  BY <1>0, <1>11, Zenon DEF IoError, Relocked, TransferStop, SetStatus, AfterIo
<1>12. CASE IoFails
  BY <1>0, <1>12, Zenon DEF IoFails, Enter
<1>13. CASE Relock
  BY <1>0, <1>13, Zenon DEF Relock, Enter
<1>14. CASE Redo
  BY <1>0, <1>14, Zenon DEF Redo, RedoRequest, PutRequest, Plain, Put
<1>15. CASE SuspendRedo
  BY <1>0, <1>15, Zenon DEF SuspendRedo
<1>16. CASE SuspendDone
  BY <1>0, <1>16, Zenon DEF SuspendDone
<1>17. CASE Filled
  BY <1>0, <1>17, Zenon DEF Filled, InterruptedByReset, NextPiece, TransferStop
<1>18. CASE PutDma
  BY <1>0, <1>18, Zenon DEF PutDma, PutRequest, Plain, Put
<1>19. CASE Moved
  BY <1>0, <1>19, Zenon DEF Moved, InterruptedByReset, NextPiece, TransferStop
<1>20. CASE CopyPiece
  BY <1>0, <1>20, Zenon DEF CopyPiece
<1>21. CASE Sink
  BY <1>0, <1>21, Zenon DEF Sink
<1>22. CASE SinkGone
  BY <1>0, <1>22, Zenon DEF SinkGone, AfterSinkGone
<1>23. CASE NextDescriptor
  BY <1>0, <1>23, Zenon DEF NextDescriptor, TransferStop
<1>24. CASE DmaEnd
  BY <1>0, <1>24, Zenon DEF DmaEnd
<1>25. CASE Delayed
  BY <1>0, <1>25, Zenon DEF Delayed, Enter
<1>26. CASE DmaFinish
  BY <1>0, <1>26, Zenon DEF DmaFinish, SetStatus
<1>27. CASE RemoveRequest
  BY <1>0, <1>27, Zenon DEF RemoveRequest, RemovesTail, Plain, CurrentRequest, Leave, Signalled
<1>28. CASE Access
  BY <1>0, <1>28, Zenon DEF Access
<1>29. ASSUME NEW c \in Commands, Command(c) PROVE Flags'
  BY <1>0, <1>29, CommandTypes, Zenon DEF Command, Put, SetStatus
<1>30. CASE StartDma
  BY <1>0, <1>30, Zenon DEF StartDma, ReadyForDma, Put, Plain
<1>31. CASE StopDma
  BY <1>0, <1>31, Zenon DEF StopDma
<1>32. CASE Data
  BY <1>0, <1>32, Zenon DEF Data, SetStatus, Put, Plain, TransferStop
<1>33. CASE Done
  BY <1>0, <1>33, Zenon DEF Done
<1>34. CASE Poll
  BY <1>0, <1>34, Zenon DEF Poll
<1>35. CASE AssertReset
  BY <1>0, <1>35, Zenon DEF AssertReset, TransferStop, Plain, Stale
<1>36. CASE DeassertReset
  BY <1>0, <1>36, Zenon DEF DeassertReset, Put, Plain
<1>37. CASE LeavePort
  BY <1>0, <1>37, Zenon DEF LeavePort, Leave, Signalled
<1>38. CASE Suspend
  BY <1>0, <1>38, Zenon DEF Suspend
<1>39. CASE ServeSuspend
  BY <1>0, <1>39, Zenon DEF ServeSuspend
<1>40. CASE Suspended
  BY <1>0, <1>40, Zenon DEF Suspended, IsIdle
<1>41. CASE Resume
  BY <1>0, <1>41, Zenon DEF Resume, WakesRedo
<1>42. CASE VmReset
  BY <1>0, <1>42, Zenon DEF VmReset
<1>43. CASE VmResetFlags
  BY <1>0, <1>43, Zenon DEF VmResetFlags
<1>44. CASE VmResetClear
  BY <1>0, <1>44, Zenon DEF VmResetClear, ClearRequests, Stale, Plain
<1>45. CASE VmResetPut
  BY <1>0, <1>45, Zenon DEF VmResetPut, Put, Plain
<1>46. CASE VmResetDone
  BY <1>0, <1>46, Zenon DEF VmResetDone, IsIdle, TransferStop, SetStatus
<1>47. CASE UNCHANGED vars
  BY <1>0, <1>47, Zenon DEF vars
<1>48. CASE Reported
  BY <1>0, <1>48, Zenon DEF Reported, Leave, Signalled
<1>49. CASE AskSuspend
  BY <1>0, <1>49, Zenon DEF AskSuspend
<1>50. CASE ServeReport
  BY <1>0, <1>50, Zenon DEF ServeReport
<1>51. CASE GiveUp
  BY <1>0, <1>51, Zenon DEF GiveUp
<1> QED
  BY <1>1, <1>2, <1>3, <1>4, <1>5, <1>6, <1>7, <1>8, <1>9, <1>10, <1>11, <1>12, <1>13, <1>14,
     <1>15, <1>16, <1>17, <1>18, <1>19, <1>20, <1>21, <1>22, <1>23, <1>24, <1>25, <1>26, <1>27,
     <1>28, <1>29, <1>30, <1>31, <1>32, <1>33, <1>34, <1>35, <1>36, <1>37, <1>38, <1>39, <1>40,
     <1>41, <1>42, <1>43, <1>44, <1>45, <1>46, <1>47, <1>48, <1>49, <1>50, <1>51
  DEF Next, ThreadStep, DriverStep, Serve, EmtStep

\* The types, and what the step of the thread says of its request, are kept by every
\* step, with no regard to the races.
LEMMA TypesKept == ASSUME Typed, [Next]_vars PROVE Typed'
<1>0. Flags'
  BY FlagsKept
<1>1. ASSUME Top PROVE TypeOK' /\ StepTypes'
  BY <1>0, <1>1, AtaAssumption DEF Typed, TypeOK, StepTypes, Requests, Directions, ThreadSteps,
       EmtSteps, Top, KeepsStill
<1>2. ASSUME Resumed PROVE TypeOK' /\ StepTypes'
  BY <1>0, <1>2 DEF Typed, TypeOK, StepTypes, ThreadSteps, Resumed
<1>3. ASSUME Woken PROVE TypeOK' /\ StepTypes'
  BY <1>0, <1>3 DEF Typed, TypeOK, StepTypes, ThreadSteps, Woken
<1>4. ASSUME GetRequest PROVE TypeOK' /\ StepTypes'
  BY <1>0, <1>4 DEF Typed, TypeOK, StepTypes, ThreadSteps, GetRequest, CurrentRequest
<1>5. ASSUME NewTransfer PROVE TypeOK' /\ StepTypes'
  BY <1>0, <1>5, AtaAssumption DEF Typed, TypeOK, StepTypes, Requests, Directions, ThreadSteps,
       EmtSteps, NewTransfer, SetStatus
<1>6. ASSUME PioTransfer PROVE TypeOK' /\ StepTypes'
  BY <1>0, <1>6, AtaAssumption DEF Typed, TypeOK, StepTypes, ThreadSteps, EmtSteps, PioTransfer,
       SetStatus
<1>7. ASSUME DmaTransfer PROVE TypeOK' /\ StepTypes'
  BY <1>0, <1>7 DEF Typed, TypeOK, StepTypes, ThreadSteps, DmaTransfer
<1>8. ASSUME ResetAsserted PROVE TypeOK' /\ StepTypes'
  BY <1>0, <1>8, AtaAssumption DEF Typed, TypeOK, StepTypes, ThreadSteps, EmtSteps,
       ResetAsserted, Enter, TransferStop
<1>9. ASSUME ResetCleared PROVE TypeOK' /\ StepTypes'
  BY <1>0, <1>9, AtaAssumption DEF Typed, TypeOK, StepTypes, ThreadSteps, EmtSteps,
       ResetCleared, Enter, ReadyAgain
<1>10. ASSUME IoDone PROVE TypeOK' /\ StepTypes'
  BY <1>0, <1>10, AtaAssumption DEF Typed, TypeOK, StepTypes, ThreadSteps, EmtSteps, IoDone,
       Relocked, SinkAfter, SetStatus, AfterIo
<1>11. ASSUME IoError PROVE TypeOK' /\ StepTypes'
  BY <1>0, <1>11, AtaAssumption DEF Typed, TypeOK, StepTypes, Requests, Directions, ThreadSteps,
       EmtSteps, IoError, Relocked, TransferStop, SetStatus, AfterIo
<1>12. ASSUME IoFails PROVE TypeOK' /\ StepTypes'
  BY <1>0, <1>12, AtaAssumption DEF Typed, TypeOK, StepTypes, ThreadSteps, EmtSteps, IoFails,
       Enter
<1>13. ASSUME Relock PROVE TypeOK' /\ StepTypes'
  BY <1>0, <1>13, AtaAssumption DEF Typed, TypeOK, StepTypes, ThreadSteps, EmtSteps, Relock,
       Enter
<1>14. ASSUME Redo PROVE TypeOK' /\ StepTypes'
  BY <1>0, <1>14, AtaAssumption DEF Typed, TypeOK, StepTypes, Requests, Directions, ThreadSteps,
       EmtSteps, Redo, RedoRequest, PutRequest, Plain, Put
<1>15. ASSUME SuspendRedo PROVE TypeOK' /\ StepTypes'
  BY <1>0, <1>15 DEF Typed, TypeOK, StepTypes, ThreadSteps, SuspendRedo
<1>16. ASSUME SuspendDone PROVE TypeOK' /\ StepTypes'
  BY <1>0, <1>16 DEF Typed, TypeOK, StepTypes, ThreadSteps, SuspendDone
<1>17. ASSUME Filled PROVE TypeOK' /\ StepTypes'
  BY <1>0, <1>17, AtaAssumption DEF Typed, TypeOK, StepTypes, ThreadSteps, EmtSteps, Filled,
       InterruptedByReset, NextPiece, TransferStop
<1>18. ASSUME PutDma PROVE TypeOK' /\ StepTypes'
  BY <1>0, <1>18, AtaAssumption DEF Typed, TypeOK, StepTypes, Requests, Directions, ThreadSteps,
       EmtSteps, PutDma, PutRequest, Plain, Put
<1>19. ASSUME Moved PROVE TypeOK' /\ StepTypes'
  BY <1>0, <1>19, AtaAssumption DEF Typed, TypeOK, StepTypes, ThreadSteps, EmtSteps, Moved,
       InterruptedByReset, NextPiece, TransferStop
<1>20. ASSUME CopyPiece PROVE TypeOK' /\ StepTypes'
  BY <1>0, <1>20, AtaAssumption DEF Typed, TypeOK, StepTypes, ThreadSteps, EmtSteps, CopyPiece
<1>21. ASSUME Sink PROVE TypeOK' /\ StepTypes'
  BY <1>0, <1>21 DEF Typed, TypeOK, StepTypes, ThreadSteps, Sink
<1>22. ASSUME SinkGone PROVE TypeOK' /\ StepTypes'
  BY <1>0, <1>22 DEF Typed, TypeOK, StepTypes, ThreadSteps, SinkGone, AfterSinkGone
<1>23. ASSUME NextDescriptor PROVE TypeOK' /\ StepTypes'
  BY <1>0, <1>23, AtaAssumption DEF Typed, TypeOK, StepTypes, ThreadSteps, EmtSteps,
       NextDescriptor, TransferStop
<1>24. ASSUME DmaEnd PROVE TypeOK' /\ StepTypes'
  BY <1>0, <1>24, AtaAssumption DEF Typed, TypeOK, StepTypes, ThreadSteps, EmtSteps, DmaEnd
<1>25. ASSUME Delayed PROVE TypeOK' /\ StepTypes'
  BY <1>0, <1>25, AtaAssumption DEF Typed, TypeOK, StepTypes, ThreadSteps, EmtSteps, Delayed,
       Enter
<1>26. ASSUME DmaFinish PROVE TypeOK' /\ StepTypes'
  BY <1>0, <1>26 DEF Typed, TypeOK, StepTypes, ThreadSteps, DmaFinish, SetStatus
<1>27. ASSUME RemoveRequest PROVE TypeOK' /\ StepTypes'
  BY <1>0, <1>27, AtaAssumption, PlainIsRequest DEF Typed, TypeOK, StepTypes, ThreadSteps,
       EmtSteps, RemoveRequest, RemovesTail, CurrentRequest, Leave, Signalled
<1>28. ASSUME Access PROVE TypeOK' /\ StepTypes'
  BY <1>0, <1>28 DEF Typed, TypeOK, StepTypes, EmtSteps, Access
<1>29. ASSUME NEW c \in Commands, Command(c) PROVE TypeOK' /\ StepTypes'
  BY <1>0, <1>29, AtaAssumption, PutTypes, CommandTypes DEF Typed, TypeOK, StepTypes,
       ThreadSteps, EmtSteps, Command, IsIdle, SetStatus
<1>30. ASSUME StartDma PROVE TypeOK' /\ StepTypes'
  BY <1>0, <1>30, AtaAssumption, PutTypes, PlainIsRequest DEF Typed, TypeOK, StepTypes,
       ThreadSteps, EmtSteps, StartDma, ReadyForDma
<1>31. ASSUME StopDma PROVE TypeOK' /\ StepTypes'
  BY <1>0, <1>31, AtaAssumption DEF Typed, TypeOK, StepTypes, ThreadSteps, EmtSteps, StopDma
<1>32. ASSUME Data PROVE TypeOK' /\ StepTypes'
  BY <1>0, <1>32, AtaAssumption, PutTypes, PlainIsRequest DEF Typed, TypeOK, StepTypes,
       ThreadSteps, EmtSteps, Data, SetStatus, TransferStop
<1>33. ASSUME Done PROVE TypeOK' /\ StepTypes'
  BY <1>0, <1>33, AtaAssumption DEF Typed, TypeOK, StepTypes, ThreadSteps, EmtSteps, Done
<1>34. ASSUME Poll PROVE TypeOK' /\ StepTypes'
  BY <1>0, <1>34, AtaAssumption DEF Typed, TypeOK, StepTypes, ThreadSteps, EmtSteps, Poll
<1>35. ASSUME AssertReset PROVE TypeOK' /\ StepTypes'
  BY <1>0, <1>35, AtaAssumption DEF Typed, TypeOK, StepTypes, Requests, Directions, ThreadSteps,
       EmtSteps, AssertReset, TransferStop, Plain, Stale
<1>36. ASSUME DeassertReset PROVE TypeOK' /\ StepTypes'
  BY <1>0, <1>36, AtaAssumption DEF Typed, TypeOK, StepTypes, Requests, Directions, ThreadSteps,
       EmtSteps, DeassertReset, Put, Plain
<1>37. ASSUME LeavePort PROVE TypeOK' /\ StepTypes'
  BY <1>0, <1>37, AtaAssumption DEF Typed, TypeOK, StepTypes, ThreadSteps, EmtSteps, LeavePort,
       Leave, Signalled
<1>38. ASSUME Suspend PROVE TypeOK' /\ StepTypes'
  BY <1>0, <1>38, AtaAssumption DEF Typed, TypeOK, StepTypes, ThreadSteps, EmtSteps, Suspend
<1>39. ASSUME ServeSuspend PROVE TypeOK' /\ StepTypes'
  <2>1. CASE vm = "running"
    BY <1>0, <1>39, <2>1 DEF Typed, TypeOK, StepTypes, EmtSteps, ServeSuspend
  <2>2. CASE vm # "running"
    BY <1>0, <1>39, <2>2 DEF Typed, TypeOK, StepTypes, EmtSteps, ServeSuspend
  <2> QED
    BY <2>1, <2>2
<1>40. ASSUME Suspended PROVE TypeOK' /\ StepTypes'
  BY <1>0, <1>40 DEF Typed, TypeOK, StepTypes, EmtSteps, Suspended, IsIdle
<1>41. ASSUME Resume PROVE TypeOK' /\ StepTypes'
  BY <1>0, <1>41 DEF Typed, TypeOK, StepTypes, Resume, WakesRedo
<1>42. ASSUME VmReset PROVE TypeOK' /\ StepTypes'
  BY <1>0, <1>42, AtaAssumption DEF Typed, TypeOK, StepTypes, ThreadSteps, EmtSteps, VmReset
<1>43. ASSUME VmResetFlags PROVE TypeOK' /\ StepTypes'
  BY <1>0, <1>43 DEF Typed, TypeOK, StepTypes, EmtSteps, VmResetFlags
<1>44. ASSUME VmResetClear PROVE TypeOK' /\ StepTypes'
  BY <1>0, <1>44, AtaAssumption DEF Typed, TypeOK, StepTypes, Requests, Directions, ThreadSteps,
       EmtSteps, VmResetClear, ClearRequests, Stale, Plain
<1>45. ASSUME VmResetPut PROVE TypeOK' /\ StepTypes'
  BY <1>0, <1>45, AtaAssumption, PutTypes, PlainIsRequest DEF Typed, TypeOK, StepTypes,
       ThreadSteps, EmtSteps, VmResetPut
<1>46. ASSUME VmResetDone PROVE TypeOK' /\ StepTypes'
  BY <1>0, <1>46, AtaAssumption DEF Typed, TypeOK, StepTypes, ThreadSteps, EmtSteps,
       VmResetDone, IsIdle, TransferStop, SetStatus
<1>47. ASSUME UNCHANGED vars PROVE TypeOK' /\ StepTypes'
  BY <1>0, <1>47 DEF vars, Typed, TypeOK, StepTypes
<1>48. ASSUME Reported PROVE TypeOK' /\ StepTypes'
  BY <1>0, <1>48, AtaAssumption DEF Typed, TypeOK, StepTypes, ThreadSteps, EmtSteps, Reported,
       Leave, Signalled
<1>49. ASSUME AskSuspend PROVE TypeOK' /\ StepTypes'
  BY <1>0, <1>49 DEF Typed, TypeOK, StepTypes, ThreadSteps, AskSuspend
<1>50. ASSUME ServeReport PROVE TypeOK' /\ StepTypes'
  BY <1>0, <1>50 DEF Typed, TypeOK, StepTypes, ServeReport
<1>51. ASSUME GiveUp PROVE TypeOK' /\ StepTypes'
  BY <1>0, <1>51 DEF Typed, TypeOK, StepTypes, EmtSteps, GiveUp, IsIdle
<1> QED
  BY <1>1, <1>2, <1>3, <1>4, <1>5, <1>6, <1>7, <1>8, <1>9, <1>10, <1>11, <1>12, <1>13, <1>14,
     <1>15, <1>16, <1>17, <1>18, <1>19, <1>20, <1>21, <1>22, <1>23, <1>24, <1>25, <1>26, <1>27,
     <1>28, <1>29, <1>30, <1>31, <1>32, <1>33, <1>34, <1>35, <1>36, <1>37, <1>38, <1>39, <1>40,
     <1>41, <1>42, <1>43, <1>44, <1>45, <1>46, <1>47, <1>48, <1>49, <1>50, <1>51
  DEF Typed, Next, ThreadStep, DriverStep, Serve, EmtStep

----------------------------------------------------------------------------
(* The invariant is kept by the thread: it fetches and begins a request *)

\* The thread sleeps while a redo is to wait; otherwise it takes up what it fetched,
\* whose type fits the ring as long as nothing is reset before it is read.
LEMMA TopKeeps == ASSUME IInv, Typed', Top PROVE IInv'
<1>1. RedoFits' /\ VmFits' /\ DmaFits' /\ LineFits' /\ ResetFits' /\ NoneFits' /\
     CommandFits'
  BY DEF IInv, Top, RedoFits, VmFits, DmaFits, LineFits, ResetFits, NoneFits, CommandFits,
       KeepsStill
<1>2. StepFits'
  BY DEF IInv, Top, StepFits, RedoFits, KeepsStill
<1>3. RingFits'
  BY AtaAssumption DEF IInv, Typed, TypeOK, Top, RingFits, RedoFits, KeepsStill
<1> QED
  BY <1>1, <1>2, <1>3 DEF IInv

\* What is to be redone is still the first of the ring.
LEMMA ResumedKeeps == ASSUME IInv, Typed', Resumed PROVE IInv'
<1>1. RedoFits' /\ LineFits' /\ ResetFits' /\ NoneFits' /\ CommandFits'
  BY DEF IInv, Resumed, RedoFits, LineFits, ResetFits, NoneFits, CommandFits
<1>2. StepFits'
  BY AtaAssumption DEF IInv, Typed, TypeOK, Resumed, StepFits, RedoFits, RingFits, NoneFits,
       CommandFits
<1>3. VmFits'
  BY DEF IInv, Resumed, VmFits, RedoFits
<1>4. DmaFits'
  BY DEF IInv, Resumed, DmaFits, StepFits, RedoFits, RingFits
<1>5. RingFits'
  BY DEF IInv, Resumed, RingFits, StepFits
<1> QED
  BY <1>1, <1>2, <1>3, <1>4, <1>5 DEF IInv

\* The thread has yet to look at the ring.
LEMMA WokenKeeps == ASSUME IInv, Typed', Woken PROVE IInv'
<1>1. RedoFits' /\ VmFits' /\ DmaFits' /\ LineFits' /\ RingFits' /\ ResetFits' /\
     NoneFits' /\ CommandFits'
  BY DEF IInv, Woken, RedoFits, VmFits, DmaFits, LineFits, RingFits, ResetFits, NoneFits,
       CommandFits
<1>2. StepFits'
  BY DEF IInv, Woken, StepFits
<1> QED
  BY <1>1, <1>2 DEF IInv

\* What the thread fetches is ahead, or asks for or ends a reset.
LEMMA GetRequestKeeps == ASSUME IInv, Typed', GetRequest PROVE IInv'
<1>1. RedoFits' /\ LineFits' /\ RingFits' /\ ResetFits' /\ NoneFits' /\ CommandFits'
  BY DEF IInv, GetRequest, RedoFits, LineFits, RingFits, ResetFits, NoneFits, CommandFits,
       CurrentRequest
<1>2. StepFits'
  BY DEF IInv, GetRequest, StepFits, RingFits, NoneFits, CommandFits, CurrentRequest
<1>3. VmFits'
  BY DEF IInv, GetRequest, VmFits, RingFits, CurrentRequest
<1>4. DmaFits'
  BY DEF IInv, GetRequest, DmaFits, RingFits, CurrentRequest
<1> QED
  BY <1>1, <1>2, <1>3, <1>4 DEF IInv

\* The parameters of a NEW are its slot's, unless it has been cleared.
LEMMA NewTransferKeeps == ASSUME IInv, Typed', NewTransfer PROVE IInv'
<1>1. StepFits' /\ VmFits' /\ DmaFits' /\ LineFits' /\ RingFits'
  BY DEF IInv, NewTransfer, StepFits, VmFits, DmaFits, LineFits, RingFits, SetStatus
<1>2. RedoFits'
  BY AtaAssumption DEF IInv, Typed, TypeOK, NewTransfer, RedoFits, RingFits, NoneFits,
       CommandFits, SetStatus
<1>3. ResetFits'
  BY AtaAssumption DEF IInv, Typed, TypeOK, NewTransfer, ResetFits, RingFits, SetStatus
<1>4. NoneFits'
  BY AtaAssumption DEF IInv, Typed, TypeOK, NewTransfer, NoneFits, RingFits, SetStatus
<1>5. CommandFits'
  BY AtaAssumption DEF IInv, Typed, TypeOK, NewTransfer, CommandFits, RingFits, SetStatus
<1> QED
  BY <1>1, <1>2, <1>3, <1>4, <1>5 DEF IInv

\* A PIO finds the source or sink of its transfer.
LEMMA PioTransferKeeps == ASSUME IInv, Typed', PioTransfer PROVE IInv'
<1>1. StepFits' /\ RedoFits' /\ VmFits' /\ DmaFits' /\ LineFits' /\ RingFits' /\
     ResetFits' /\ NoneFits'
  BY DEF IInv, PioTransfer, StepFits, RedoFits, VmFits, DmaFits, LineFits, RingFits, ResetFits,
       NoneFits, SetStatus
<1>2. CommandFits'
  BY AtaAssumption DEF IInv, Typed, TypeOK, PioTransfer, CommandFits, RingFits, SetStatus
<1> QED
  BY <1>1, <1>2 DEF IInv

\* A DMA begins with the data that is ready, a redo with the medium.
LEMMA DmaTransferKeeps == ASSUME IInv, Typed', DmaTransfer PROVE IInv'
<1>1. StepFits' /\ RedoFits' /\ VmFits' /\ DmaFits' /\ LineFits' /\ RingFits' /\
     ResetFits' /\ NoneFits'
  BY DEF IInv, DmaTransfer, StepFits, RedoFits, VmFits, DmaFits, LineFits, RingFits, ResetFits,
       NoneFits
<1>2. CommandFits'
  BY AtaAssumption DEF IInv, Typed, TypeOK, DmaTransfer, CommandFits, RingFits
<1> QED
  BY <1>1, <1>2 DEF IInv

\* From here to RESET_CLEARED nothing is left of a transfer.
LEMMA ResetAssertedKeeps == ASSUME IInv, Typed', ResetAsserted PROVE IInv'
<1>1. VmFits' /\ DmaFits' /\ LineFits' /\ RingFits'
  BY DEF IInv, ResetAsserted, VmFits, DmaFits, LineFits, RingFits, Enter, TransferStop
<1>2. StepFits'
  BY DEF IInv, ResetAsserted, StepFits, Enter, TransferStop
<1>3. RedoFits'
  BY DEF IInv, ResetAsserted, RedoFits, RingFits, Enter, TransferStop
<1>4. ResetFits'
  BY AtaAssumption DEF IInv, Typed, TypeOK, ResetAsserted, ResetFits, RingFits, Enter,
       TransferStop
<1>5. NoneFits'
  BY DEF IInv, ResetAsserted, NoneFits, RingFits, Enter, TransferStop
<1>6. CommandFits'
  BY DEF IInv, ResetAsserted, CommandFits, RingFits, Enter, TransferStop
<1> QED
  BY <1>1, <1>2, <1>3, <1>4, <1>5, <1>6 DEF IInv

\* The reset is over, and the ring had nothing after it.
LEMMA ResetClearedKeeps == ASSUME IInv, Typed', ResetCleared PROVE IInv'
<1>1. RedoFits' /\ VmFits' /\ DmaFits' /\ RingFits'
  BY DEF IInv, ResetCleared, RedoFits, VmFits, DmaFits, RingFits, Enter, ReadyAgain
<1>2. StepFits'
  BY DEF IInv, ResetCleared, StepFits, Enter, ReadyAgain
<1>3. LineFits'
  BY DEF IInv, ResetCleared, LineFits, RingFits, Enter, ReadyAgain
<1>4. ResetFits'
  BY DEF IInv, ResetCleared, ResetFits, Enter, ReadyAgain
<1>5. NoneFits'
  BY DEF IInv, ResetCleared, NoneFits, LineFits, RingFits, ResetFits, Enter, ReadyAgain
<1>6. CommandFits'
  BY DEF IInv, ResetCleared, CommandFits, LineFits, RingFits, Enter, ReadyAgain
<1> QED
  BY <1>1, <1>2, <1>3, <1>4, <1>5, <1>6 DEF IInv

----------------------------------------------------------------------------
(* ... by the medium, and by a failure until the VM has been suspended for it *)

\* The medium has answered: the transfer goes on where it was left.
LEMMA IoDoneKeeps == ASSUME IInv, Typed', IoDone PROVE IInv'
<1>1. StepFits' /\ RedoFits' /\ VmFits' /\ DmaFits' /\ LineFits' /\ RingFits' /\
     ResetFits' /\ NoneFits'
  BY AtaAssumption DEF IInv, Typed, TypeOK, IoDone, StepFits, RedoFits, VmFits, DmaFits,
       LineFits, RingFits, ResetFits, NoneFits, Relocked, SinkAfter, SetStatus, AfterIo
<1>2. CommandFits'
  BY AtaAssumption DEF IInv, Typed, TypeOK, Requests, Flags, Directions, ThreadSteps, EmtSteps,
       StepTypes, IoDone, CommandFits, Relocked, SinkAfter, SetStatus, AfterIo
<1> QED
  BY <1>1, <1>2 DEF IInv

\* The medium has answered with an error, which ends the transfer.
LEMMA IoErrorKeeps == ASSUME IInv, Typed', IoError PROVE IInv'
<1>1. StepFits' /\ RedoFits' /\ VmFits' /\ DmaFits' /\ LineFits' /\ RingFits' /\
     ResetFits' /\ NoneFits'
  BY DEF IInv, IoError, StepFits, RedoFits, VmFits, DmaFits, LineFits, RingFits, ResetFits,
       NoneFits, Relocked, TransferStop, SetStatus, AfterIo
<1>2. CommandFits'
  BY AtaAssumption DEF IInv, Typed, TypeOK, IoError, CommandFits, RingFits, Relocked,
       TransferStop, SetStatus, AfterIo
<1> QED
  BY <1>1, <1>2 DEF IInv

\* A transfer fails outside resets only: the redo may be flagged after the report.
LEMMA IoFailsKeeps == ASSUME IInv, Typed', Harmful \subseteq Avoided, IoFails PROVE IInv'
<1>1. StepFits' /\ VmFits' /\ DmaFits' /\ LineFits' /\ RingFits' /\ ResetFits' /\ NoneFits'
  BY DEF IInv, IoFails, StepFits, VmFits, DmaFits, LineFits, RingFits, ResetFits, NoneFits,
       Enter, Harmful
<1>2. RedoFits'
  BY AtaAssumption DEF IInv, Typed, TypeOK, IoFails, RedoFits, RingFits, NoneFits, CommandFits,
       Enter, Harmful
<1>3. CommandFits'
  BY AtaAssumption DEF IInv, Typed, TypeOK, StepTypes, IoFails, CommandFits, RingFits, Enter,
       Harmful
<1> QED
  BY <1>1, <1>2, <1>3 DEF IInv

\* EMT has passed the report on: the redo is flagged, for a transfer that still stands.
LEMMA ReportedKeeps == ASSUME IInv, Typed', Reported PROVE IInv'
<1>1. StepFits' /\ RedoFits' /\ VmFits' /\ DmaFits' /\ LineFits' /\ RingFits' /\
     ResetFits' /\ NoneFits'
  BY DEF IInv, Reported, StepFits, RedoFits, VmFits, DmaFits, LineFits, RingFits, ResetFits,
       NoneFits, Leave, Signalled
<1>2. CommandFits'
  BY AtaAssumption DEF IInv, Typed, TypeOK, Directions, StepTypes, Reported, CommandFits,
       RedoFits, RingFits, Leave, Signalled
<1> QED
  BY <1>1, <1>2 DEF IInv

\* The lock is taken to put the request back.
LEMMA RelockKeeps == ASSUME IInv, Typed', Relock PROVE IInv'
<1>1. StepFits' /\ RedoFits' /\ VmFits' /\ DmaFits' /\ LineFits' /\ RingFits' /\
     ResetFits' /\ NoneFits'
  BY DEF IInv, Relock, StepFits, RedoFits, VmFits, DmaFits, LineFits, RingFits, ResetFits,
       NoneFits, Enter
<1>2. CommandFits'
  BY DEF IInv, Typed, TypeOK, StepTypes, Relock, CommandFits, RedoFits, RingFits, Enter
<1> QED
  BY <1>1, <1>2 DEF IInv

\* The copy of the request follows the request, which is the only one.
LEMMA RedoKeeps == ASSUME IInv, Typed', Redo PROVE IInv'
<1>1. StepFits' /\ RedoFits' /\ LineFits'
  BY DEF IInv, Redo, StepFits, RedoFits, LineFits, RedoRequest, PutRequest, Plain, Put
<1>2. VmFits'
  BY AtaAssumption DEF IInv, Typed, TypeOK, Redo, VmFits, RingFits, RedoRequest, PutRequest,
       Plain, Put
<1>3. DmaFits'
  BY AtaAssumption DEF IInv, Typed, TypeOK, Redo, DmaFits, RedoFits, RingFits, RedoRequest,
       PutRequest, Plain, Put
<1>4. RingFits'
  BY AtaAssumption DEF IInv, Typed, TypeOK, Redo, RingFits, RedoFits, RedoRequest, PutRequest,
       Plain, Put
<1>5. ResetFits'
  BY AtaAssumption DEF IInv, Typed, TypeOK, Redo, ResetFits, RingFits, RedoRequest, PutRequest,
       Plain, Put
<1>6. NoneFits'
  BY DEF IInv, Redo, NoneFits, RingFits, RedoRequest, PutRequest, Plain, Put
<1>7. CommandFits'
  BY AtaAssumption DEF IInv, Typed, TypeOK, Redo, CommandFits, RingFits, RedoRequest,
       PutRequest, Plain, Put
<1> QED
  BY <1>1, <1>2, <1>3, <1>4, <1>5, <1>6, <1>7 DEF IInv

\* The thread is to keep still from here to the resumption of the VM.
LEMMA SuspendRedoKeeps == ASSUME IInv, Typed', SuspendRedo PROVE IInv'
<1>1. StepFits' /\ RedoFits' /\ VmFits' /\ DmaFits' /\ LineFits' /\ RingFits' /\
     ResetFits' /\ NoneFits' /\ CommandFits'
  BY DEF IInv, SuspendRedo, StepFits, RedoFits, VmFits, DmaFits, LineFits, RingFits, ResetFits,
       NoneFits, CommandFits
<1> QED
  BY <1>1 DEF IInv

\* EMT has the request to suspend the VM.
LEMMA AskSuspendKeeps == ASSUME IInv, Typed', AskSuspend PROVE IInv'
<1>1. StepFits' /\ RedoFits' /\ VmFits' /\ DmaFits' /\ LineFits' /\ RingFits' /\
     ResetFits' /\ NoneFits' /\ CommandFits'
  BY DEF IInv, AskSuspend, StepFits, RedoFits, VmFits, DmaFits, LineFits, RingFits, ResetFits,
       NoneFits, CommandFits
<1> QED
  BY <1>1 DEF IInv

\* The request that failed may go now, its copy stays.
LEMMA SuspendDoneKeeps == ASSUME IInv, Typed', SuspendDone PROVE IInv'
<1>1. RedoFits' /\ VmFits' /\ DmaFits' /\ LineFits' /\ RingFits' /\ NoneFits'
  BY DEF IInv, SuspendDone, RedoFits, VmFits, DmaFits, LineFits, RingFits, NoneFits
<1>2. StepFits'
  BY DEF IInv, SuspendDone, StepFits
<1>3. ResetFits'
  BY DEF IInv, Typed, TypeOK, StepTypes, SuspendDone, ResetFits, RingFits
<1>4. CommandFits'
  BY DEF IInv, SuspendDone, CommandFits, RingFits
<1> QED
  BY <1>1, <1>2, <1>3, <1>4 DEF IInv

----------------------------------------------------------------------------
(* ... by the rest of a transfer *)

\* The rest of a NEW leaves the channel as it is, if it has been reset, or asks for
\* data, or for the bus master, or is the end of the command.
LEMMA FilledKeeps == ASSUME IInv, Typed', Filled PROVE IInv'
<1>1. RedoFits' /\ VmFits' /\ DmaFits'
  BY DEF IInv, Filled, RedoFits, VmFits, DmaFits, InterruptedByReset, NextPiece, TransferStop
<1>2. StepFits'
  BY DEF IInv, Filled, StepFits, InterruptedByReset, NextPiece, TransferStop
<1>3. LineFits'
  BY DEF IInv, Filled, LineFits, DmaFits, InterruptedByReset, NextPiece, TransferStop
<1>4. RingFits'
  BY DEF IInv, Filled, RingFits, RedoFits, InterruptedByReset, NextPiece, TransferStop
<1>5. ResetFits'
  BY DEF IInv, Typed, TypeOK, StepTypes, Filled, ResetFits, RingFits, InterruptedByReset,
       NextPiece, TransferStop
<1>6. NoneFits'
  BY AtaAssumption DEF IInv, Typed, TypeOK, Filled, NoneFits, RingFits, InterruptedByReset,
       NextPiece, TransferStop
<1>7. CommandFits'
  BY AtaAssumption DEF IInv, Typed, TypeOK, Requests, Flags, Directions, ThreadSteps, EmtSteps,
       StepTypes, Filled, CommandFits, RedoFits, RingFits, InterruptedByReset, NextPiece,
       TransferStop
<1> QED
  BY <1>1, <1>2, <1>3, <1>4, <1>5, <1>6, <1>7 DEF IInv

\* The DMA follows its NEW, which is the only one.
LEMMA PutDmaKeeps == ASSUME IInv, Typed', PutDma PROVE IInv'
<1>1. RedoFits' /\ DmaFits' /\ LineFits'
  BY DEF IInv, PutDma, RedoFits, DmaFits, LineFits, PutRequest, Plain, Put
<1>2. StepFits'
  BY DEF IInv, PutDma, StepFits, PutRequest, Plain, Put
<1>3. VmFits'
  BY DEF IInv, PutDma, VmFits, RingFits, PutRequest, Plain, Put
<1>4. RingFits'
  BY AtaAssumption DEF IInv, Typed, TypeOK, StepTypes, PutDma, RingFits, RedoFits, LineFits,
       PutRequest, Plain, Put
<1>5. ResetFits'
  BY DEF IInv, Typed, TypeOK, StepTypes, PutDma, ResetFits, RingFits, PutRequest, Plain, Put
<1>6. NoneFits'
  BY DEF IInv, PutDma, NoneFits, RingFits, PutRequest, Plain, Put
<1>7. CommandFits'
  BY AtaAssumption DEF IInv, Typed, TypeOK, PutDma, CommandFits, RedoFits, RingFits, PutRequest,
       Plain, Put
<1> QED
  BY <1>1, <1>2, <1>3, <1>4, <1>5, <1>6, <1>7 DEF IInv

\* The rest of a PIO asks for the next piece or is the end of the command.
LEMMA MovedKeeps == ASSUME IInv, Typed', Moved PROVE IInv'
<1>1. RedoFits' /\ VmFits' /\ DmaFits' /\ LineFits'
  BY DEF IInv, Moved, RedoFits, VmFits, DmaFits, LineFits, InterruptedByReset, NextPiece,
       TransferStop
<1>2. StepFits'
  BY DEF IInv, Moved, StepFits, InterruptedByReset, NextPiece, TransferStop
<1>3. RingFits'
  BY DEF IInv, Moved, RingFits, RedoFits, InterruptedByReset, NextPiece, TransferStop
<1>4. ResetFits'
  BY DEF IInv, Typed, TypeOK, StepTypes, Moved, ResetFits, RingFits, InterruptedByReset,
       NextPiece, TransferStop
<1>5. NoneFits'
  BY AtaAssumption DEF IInv, Typed, TypeOK, Moved, NoneFits, RingFits, InterruptedByReset,
       NextPiece, TransferStop
<1>6. CommandFits'
  BY AtaAssumption DEF IInv, Typed, TypeOK, Requests, Flags, Directions, ThreadSteps, EmtSteps,
       StepTypes, Moved, CommandFits, RedoFits, RingFits, InterruptedByReset, NextPiece,
       TransferStop
<1> QED
  BY <1>1, <1>2, <1>3, <1>4, <1>5, <1>6 DEF IInv

\* A piece has been copied, with the source or sink still there.
LEMMA CopyPieceKeeps == ASSUME IInv, Typed', CopyPiece PROVE IInv'
<1>1. StepFits' /\ RedoFits' /\ VmFits' /\ DmaFits' /\ LineFits' /\ RingFits' /\
     ResetFits' /\ NoneFits' /\ CommandFits'
  BY DEF IInv, CopyPiece, StepFits, RedoFits, VmFits, DmaFits, LineFits, RingFits, ResetFits,
       NoneFits, CommandFits
<1> QED
  BY <1>1 DEF IInv

\* The source or sink is called for the next piece.
LEMMA SinkKeeps == ASSUME IInv, Typed', Sink PROVE IInv'
<1>1. StepFits' /\ RedoFits' /\ VmFits' /\ DmaFits' /\ LineFits' /\ RingFits' /\
     ResetFits' /\ NoneFits'
  BY DEF IInv, Sink, StepFits, RedoFits, VmFits, DmaFits, LineFits, RingFits, ResetFits,
       NoneFits
<1>2. CommandFits'
  BY DEF IInv, Typed, TypeOK, StepTypes, Sink, CommandFits, RingFits
<1> QED
  BY <1>1, <1>2 DEF IInv

\* Only a reset takes the sink away: the spin is outside the command.
LEMMA SinkGoneKeeps == ASSUME IInv, Typed', SinkGone PROVE IInv'
<1>1. StepFits' /\ RedoFits' /\ VmFits' /\ DmaFits' /\ LineFits' /\ RingFits' /\
     ResetFits' /\ NoneFits' /\ CommandFits'
  BY DEF IInv, SinkGone, StepFits, RedoFits, VmFits, DmaFits, LineFits, RingFits, ResetFits,
       NoneFits, CommandFits, AfterSinkGone
<1> QED
  BY <1>1 DEF IInv

\* A stop of the bus master ends the transfer, a reset the loop.
LEMMA NextDescriptorKeeps == ASSUME IInv, Typed', NextDescriptor PROVE IInv'
<1>1. StepFits' /\ RedoFits' /\ VmFits' /\ DmaFits' /\ LineFits' /\ RingFits' /\
     ResetFits' /\ NoneFits'
  BY DEF IInv, NextDescriptor, StepFits, RedoFits, VmFits, DmaFits, LineFits, RingFits,
       ResetFits, NoneFits, TransferStop
<1>2. CommandFits'
  BY AtaAssumption DEF IInv, Typed, TypeOK, NextDescriptor, CommandFits, RingFits, TransferStop
<1> QED
  BY <1>1, <1>2 DEF IInv

\* The loop over the descriptors has ended with nothing more to move.
LEMMA DmaEndKeeps == ASSUME IInv, Typed', DmaEnd PROVE IInv'
<1>1. StepFits' /\ RedoFits' /\ VmFits' /\ DmaFits' /\ LineFits' /\ RingFits' /\
     ResetFits' /\ NoneFits'
  BY DEF IInv, DmaEnd, StepFits, RedoFits, VmFits, DmaFits, LineFits, RingFits, ResetFits,
       NoneFits
<1>2. CommandFits'
  BY AtaAssumption DEF IInv, Typed, TypeOK, DmaEnd, CommandFits, RingFits
<1> QED
  BY <1>1, <1>2 DEF IInv

\* The interrupt of a write is still to come.
LEMMA DelayedKeeps == ASSUME IInv, Typed', Delayed PROVE IInv'
<1>1. StepFits' /\ RedoFits' /\ VmFits' /\ DmaFits' /\ LineFits' /\ RingFits' /\
     ResetFits' /\ NoneFits' /\ CommandFits'
  BY DEF IInv, Delayed, StepFits, RedoFits, VmFits, DmaFits, LineFits, RingFits, ResetFits,
       NoneFits, CommandFits, Enter
<1> QED
  BY <1>1 DEF IInv

\* The end of a DMA is the end of its command.
LEMMA DmaFinishKeeps == ASSUME IInv, Typed', DmaFinish PROVE IInv'
<1>1. RedoFits' /\ VmFits' /\ DmaFits' /\ LineFits'
  BY DEF IInv, DmaFinish, RedoFits, VmFits, DmaFits, LineFits, SetStatus
<1>2. StepFits'
  BY DEF IInv, DmaFinish, StepFits, SetStatus
<1>3. RingFits'
  BY DEF IInv, DmaFinish, RingFits, RedoFits, SetStatus
<1>4. ResetFits'
  BY DEF IInv, Typed, TypeOK, StepTypes, DmaFinish, ResetFits, RingFits, SetStatus
<1>5. NoneFits'
  BY AtaAssumption DEF IInv, Typed, TypeOK, DmaFinish, NoneFits, RingFits, SetStatus
<1>6. CommandFits'
  BY DEF IInv, DmaFinish, CommandFits, RedoFits, RingFits, SetStatus
<1> QED
  BY <1>1, <1>2, <1>3, <1>4, <1>5, <1>6 DEF IInv

----------------------------------------------------------------------------
(* ... by the end of a request *)

\* If the request is the one that was processed, the ring is one shorter.  If a reset
\* has cleared it, the ring stays as the reset has made it.
LEMMA RemoveRequestKeeps == ASSUME IInv, Typed', RemoveRequest PROVE IInv'
<1>1. tail \in Slots /\ head \in Slots /\ Nil \notin Slots
  BY AtaAssumption DEF IInv, Typed, TypeOK
<1>2. CASE RemovesTail(type)
  <2>1. /\ tail' = Next4(tail) /\ head' = head /\ head # tail
        /\ slot[tail].type = type
        /\ slot'[tail'] = slot[tail']
        /\ slot'[Next4(tail')] = slot[Next4(tail')]
    BY <1>1, <1>2 DEF IInv, Typed, TypeOK, RemoveRequest, RemovesTail
  <2>2. StepFits'
    BY <1>1, <2>1 DEF IInv, RemoveRequest, CurrentRequest, StepFits, RingFits, NoneFits, CommandFits
  <2>3. RedoFits'
    BY <1>1, <2>1 DEF IInv, RemoveRequest, CurrentRequest, Leave, RedoFits, RingFits, NoneFits,
           CommandFits
  <2>4. VmFits'
    BY <1>1, <2>1 DEF IInv, RemoveRequest, CurrentRequest, VmFits, RingFits
  <2>5. DmaFits'
    BY <1>1, <2>1 DEF IInv, RemoveRequest, CurrentRequest, DmaFits, RingFits
  <2>6. RingFits'
    BY <1>1, <2>1 DEF IInv, RemoveRequest, CurrentRequest, RingFits, ResetFits
  <2>7. ResetFits'
    BY <1>1, <2>1 DEF IInv, RemoveRequest, CurrentRequest, RingFits, ResetFits
  <2>8. CommandFits'
    BY <1>1, <2>1 DEF IInv, RemoveRequest, CurrentRequest, RingFits, CommandFits
  <2>9. LineFits' /\ NoneFits'
    BY <1>1, <2>1 DEF IInv, RemoveRequest, CurrentRequest, LineFits, NoneFits
  <2> QED
    BY <2>2, <2>3, <2>4, <2>5, <2>6, <2>7, <2>8, <2>9 DEF IInv
<1>3. CASE ~RemovesTail(type)
  <2>1. UNCHANGED ringVars /\ cur' = CurrentRequest(head, tail)
    BY <1>3 DEF RemoveRequest
  <2>2. Empty \/ First.type # type
    BY <1>3 DEF RemovesTail
  <2>3. StepFits' /\ RedoFits' /\ VmFits' /\ DmaFits'
    BY <1>1, <2>1, <2>2 DEF IInv, RemoveRequest, CurrentRequest, Leave, StepFits, RedoFits,
           VmFits, DmaFits, RingFits, NoneFits, CommandFits
  <2>4. RingFits' /\ ResetFits'
    BY <1>1, <2>1, <2>2 DEF IInv, RemoveRequest, CurrentRequest, RingFits, ResetFits
  <2>5. CommandFits'
    BY <1>1, <2>1, <2>2 DEF IInv, RemoveRequest, CurrentRequest, RingFits, CommandFits
  <2>6. LineFits' /\ NoneFits'
    BY <1>1, <2>1, <2>2 DEF IInv, RemoveRequest, CurrentRequest, LineFits, NoneFits
  <2> QED
    BY <2>3, <2>4, <2>5, <2>6 DEF IInv
<1> QED
  BY <1>2, <1>3

----------------------------------------------------------------------------
(* ... by the ports that the guest's driver accesses *)

\* A port is accessed: nothing has happened yet.
LEMMA AccessKeeps == ASSUME IInv, Typed', Access PROVE IInv'
<1>1. StepFits' /\ RedoFits' /\ DmaFits' /\ LineFits' /\ RingFits' /\ ResetFits' /\
     NoneFits' /\ CommandFits'
  BY DEF IInv, Access, StepFits, RedoFits, DmaFits, LineFits, RingFits, ResetFits, NoneFits,
       CommandFits
<1>2. VmFits'
  BY DEF IInv, Access, VmFits
<1> QED
  BY <1>1, <1>2 DEF IInv

\* A command finds the ring empty, or is refused by a channel under reset.
LEMMA CommandKeeps == ASSUME IInv, Typed', NEW c \in Commands, Command(c) PROVE IInv'
<1>1. StepFits' /\ RedoFits' /\ VmFits' /\ LineFits' /\ ResetFits'
  BY AtaAssumption DEF IInv, Typed, TypeOK, Command, StepFits, RedoFits, VmFits, LineFits,
       ResetFits, IsIdle, Put, SetStatus
<1>2. DmaFits'
  BY AtaAssumption DEF IInv, Typed, TypeOK, Command, DmaFits, IsIdle, Put, SetStatus
<1>3. RingFits'
  BY AtaAssumption DEF IInv, Typed, TypeOK, Command, RingFits, NoneFits, IsIdle, Put, SetStatus
<1>4. NoneFits'
  BY DEF IInv, Command, NoneFits, IsIdle, Put, SetStatus
<1>5. CommandFits'
  BY AtaAssumption DEF IInv, Typed, TypeOK, Command, CommandFits, RedoFits, RingFits, NoneFits,
       IsIdle, Put, SetStatus
<1> QED
  BY <1>1, <1>2, <1>3, <1>4, <1>5 DEF IInv

\* The bus master is started: its DMA comes now, if the disk waits for it.
LEMMA StartDmaKeeps == ASSUME IInv, Typed', StartDma PROVE IInv'
<1>1. RedoFits' /\ VmFits' /\ LineFits' /\ ResetFits'
  BY DEF IInv, StartDma, RedoFits, VmFits, LineFits, ResetFits, ReadyForDma, Put, Plain
<1>2. StepFits'
  BY AtaAssumption DEF IInv, Typed, TypeOK, StartDma, StepFits, CommandFits, ReadyForDma, Put,
       Plain
<1>3. DmaFits'
  BY DEF IInv, StartDma, DmaFits, ReadyForDma, Put, Plain
<1>4. RingFits'
  BY AtaAssumption DEF IInv, Typed, TypeOK, Requests, Flags, Directions, ThreadSteps, EmtSteps,
       StepTypes, StartDma, RingFits, CommandFits, ReadyForDma, Put, Plain
<1>5. NoneFits'
  BY DEF IInv, StartDma, NoneFits, ReadyForDma, Put, Plain
<1>6. CommandFits'
  BY AtaAssumption DEF IInv, Typed, TypeOK, Requests, Flags, Directions, ThreadSteps, EmtSteps,
       StepTypes, StartDma, CommandFits, RedoFits, ReadyForDma, Put, Plain
<1> QED
  BY <1>1, <1>2, <1>3, <1>4, <1>5, <1>6 DEF IInv

\* The command is given up, and goes on as far as the thread has taken it.
LEMMA StopDmaKeeps == ASSUME IInv, Typed', StopDma PROVE IInv'
<1>1. StepFits' /\ RedoFits' /\ VmFits' /\ DmaFits' /\ LineFits' /\ RingFits' /\
     ResetFits'
  BY DEF IInv, StopDma, StepFits, RedoFits, VmFits, DmaFits, LineFits, RingFits, ResetFits
<1>2. NoneFits'
  BY DEF IInv, StopDma, NoneFits
<1>3. CommandFits'
  BY DEF IInv, StopDma, CommandFits, DmaFits
<1> QED
  BY <1>1, <1>2, <1>3 DEF IInv

\* A piece has been moved: the next PIO comes now, or the command is over.
LEMMA DataKeeps == ASSUME IInv, Typed', Data PROVE IInv'
<1>1. RedoFits' /\ VmFits' /\ LineFits'
  BY DEF IInv, Data, RedoFits, VmFits, LineFits, SetStatus, Put, Plain, TransferStop
<1>2. StepFits'
  BY AtaAssumption DEF IInv, Typed, TypeOK, Data, StepFits, LineFits, RingFits, SetStatus, Put,
       Plain, TransferStop
<1>3. DmaFits'
  BY AtaAssumption DEF IInv, Typed, TypeOK, Data, DmaFits, SetStatus, Put, Plain, TransferStop
<1>4. RingFits'
  BY AtaAssumption DEF IInv, Typed, TypeOK, Requests, Flags, Directions, ThreadSteps, EmtSteps,
       StepTypes, Data, RingFits, DmaFits, LineFits, CommandFits, SetStatus, Put, Plain,
       TransferStop
<1>5. ResetFits'
  BY AtaAssumption DEF IInv, Typed, TypeOK, Data, ResetFits, RingFits, SetStatus, Put, Plain,
       TransferStop
<1>6. NoneFits'
  BY DEF IInv, Data, NoneFits, SetStatus, Put, Plain, TransferStop
<1>7. CommandFits'
  BY AtaAssumption DEF IInv, Typed, TypeOK, Requests, Flags, Directions, ThreadSteps, EmtSteps,
       StepTypes, Data, CommandFits, DmaFits, SetStatus, Put, Plain, TransferStop
<1> QED
  BY <1>1, <1>2, <1>3, <1>4, <1>5, <1>6, <1>7 DEF IInv

\* The driver takes the command or the reset to be over, and it is.
LEMMA DoneKeeps == ASSUME IInv, Typed', Done PROVE IInv'
<1>1. StepFits' /\ RedoFits' /\ VmFits' /\ LineFits' /\ RingFits' /\ ResetFits'
  BY DEF IInv, Done, StepFits, RedoFits, VmFits, LineFits, RingFits, ResetFits
<1>2. DmaFits'
  BY AtaAssumption DEF IInv, Typed, TypeOK, Requests, Flags, Directions, ThreadSteps, EmtSteps,
       StepTypes, Done, DmaFits, LineFits, RingFits, NoneFits, CommandFits
<1>3. NoneFits'
  BY AtaAssumption DEF IInv, Typed, TypeOK, Requests, Flags, Directions, ThreadSteps, EmtSteps,
       StepTypes, Done, NoneFits, DmaFits, CommandFits
<1>4. CommandFits'
  BY DEF IInv, Done, CommandFits
<1> QED
  BY <1>1, <1>2, <1>3, <1>4 DEF IInv

\* The driver looks.
LEMMA PollKeeps == ASSUME IInv, Typed', Poll PROVE IInv'
<1>1. StepFits' /\ RedoFits' /\ VmFits' /\ DmaFits' /\ LineFits' /\ RingFits' /\
     ResetFits' /\ NoneFits' /\ CommandFits'
  BY DEF IInv, Poll, StepFits, RedoFits, VmFits, DmaFits, LineFits, RingFits, ResetFits,
       NoneFits, CommandFits
<1> QED
  BY <1>1 DEF IInv

\* The ring is replaced; what the thread has in hand of it is cleared.
LEMMA AssertResetKeeps ==
  ASSUME IInv, Typed', Harmful \subseteq Avoided, AssertReset PROVE IInv'
<1>1. RedoFits' /\ VmFits' /\ DmaFits' /\ ResetFits'
  BY AtaAssumption DEF IInv, Typed, TypeOK, AssertReset, RedoFits, VmFits, DmaFits, ResetFits,
       TransferStop, Plain, Stale, Harmful
<1>2. StepFits'
  BY AtaAssumption DEF IInv, Typed, TypeOK, AssertReset, StepFits, RedoFits, TransferStop,
       Plain, Stale, Harmful
<1>3. LineFits'
  BY AtaAssumption DEF IInv, Typed, TypeOK, AssertReset, LineFits, TransferStop, Plain, Stale,
       Harmful
<1>4. RingFits'
  BY AtaAssumption DEF IInv, Typed, TypeOK, AssertReset, RingFits, RedoFits, TransferStop,
       Plain, Stale, Harmful
<1>5. NoneFits'
  BY DEF IInv, AssertReset, NoneFits, TransferStop, Plain, Stale, Harmful
<1>6. CommandFits'
  BY DEF IInv, AssertReset, CommandFits, TransferStop, Plain, Stale, Harmful
<1> QED
  BY <1>1, <1>2, <1>3, <1>4, <1>5, <1>6 DEF IInv

\* RESET_CLEARED follows RESET_ASSERTED, if that has not been processed yet.
LEMMA DeassertResetKeeps ==
  ASSUME IInv, Typed', Harmful \subseteq Avoided, DeassertReset PROVE IInv'
<1>1. StepFits' /\ RedoFits' /\ VmFits' /\ LineFits'
  BY DEF IInv, DeassertReset, StepFits, RedoFits, VmFits, LineFits, Put, Plain, Harmful
<1>2. DmaFits'
  BY AtaAssumption DEF IInv, Typed, TypeOK, DeassertReset, DmaFits, Put, Plain, Harmful
<1>3. RingFits'
  BY AtaAssumption DEF IInv, Typed, TypeOK, DeassertReset, RingFits, LineFits, Put, Plain,
       Harmful
<1>4. ResetFits'
  BY DEF IInv, DeassertReset, ResetFits, RingFits, Put, Plain, Harmful
<1>5. NoneFits'
  BY AtaAssumption DEF IInv, Typed, TypeOK, DeassertReset, NoneFits, RingFits, Put, Plain,
       Harmful
<1>6. CommandFits'
  BY DEF IInv, DeassertReset, CommandFits, LineFits, Put, Plain, Harmful
<1> QED
  BY <1>1, <1>2, <1>3, <1>4, <1>5, <1>6 DEF IInv

\* The handler is through.
LEMMA LeavePortKeeps == ASSUME IInv, Typed', LeavePort PROVE IInv'
<1>1. StepFits' /\ RedoFits' /\ VmFits' /\ DmaFits' /\ LineFits' /\ RingFits' /\
     ResetFits' /\ NoneFits' /\ CommandFits'
  BY DEF IInv, LeavePort, StepFits, RedoFits, VmFits, DmaFits, LineFits, RingFits, ResetFits,
       NoneFits, CommandFits, Leave, Signalled
<1> QED
  BY <1>1 DEF IInv

----------------------------------------------------------------------------
(* ... by the suspension, resumption and reset of the VM *)

\* The VM is to be suspended, with no resumption still on its way.
LEMMA SuspendKeeps == ASSUME IInv, Typed', Harmful \subseteq Avoided, Suspend PROVE IInv'
<1>1. StepFits' /\ RedoFits' /\ DmaFits' /\ LineFits' /\ RingFits' /\ ResetFits' /\
     NoneFits' /\ CommandFits'
  BY DEF IInv, Suspend, StepFits, RedoFits, DmaFits, LineFits, RingFits, ResetFits, NoneFits,
       CommandFits, Harmful
<1>2. VmFits'
  BY DEF IInv, Suspend, VmFits, Harmful
<1> QED
  BY <1>1, <1>2 DEF IInv

\* The thread may go on with its redo.
LEMMA ServeReportKeeps == ASSUME IInv, Typed', ServeReport PROVE IInv'
<1>1. StepFits' /\ RedoFits' /\ VmFits' /\ DmaFits' /\ LineFits' /\ RingFits' /\
     ResetFits' /\ NoneFits' /\ CommandFits'
  BY DEF IInv, ServeReport, StepFits, RedoFits, VmFits, DmaFits, LineFits, RingFits, ResetFits,
       NoneFits, CommandFits
<1> QED
  BY <1>1 DEF IInv

\* The VM is to be suspended for the redo, or the thread told that it cannot be.
LEMMA ServeSuspendKeeps == ASSUME IInv, Typed', ServeSuspend PROVE IInv'
<1>1. StepFits' /\ RedoFits' /\ VmFits' /\ DmaFits' /\ LineFits' /\ RingFits' /\
     ResetFits' /\ NoneFits' /\ CommandFits'
  BY DEF IInv, ServeSuspend, StepFits, RedoFits, VmFits, DmaFits, LineFits, RingFits, ResetFits,
       NoneFits, CommandFits
<1> QED
  BY <1>1 DEF IInv

\* The ring is empty or the redo waits: the VM is suspended.
LEMMA SuspendedKeeps == ASSUME IInv, Typed', Suspended PROVE IInv'
<1>1. StepFits' /\ RedoFits' /\ DmaFits' /\ LineFits' /\ RingFits' /\ ResetFits' /\
     NoneFits' /\ CommandFits'
  BY DEF IInv, Suspended, StepFits, RedoFits, DmaFits, LineFits, RingFits, ResetFits, NoneFits,
       CommandFits, IsIdle
<1>2. VmFits'
  BY DEF IInv, Suspended, VmFits, IsIdle
<1> QED
  BY <1>1, <1>2 DEF IInv

\* The wait for an idle channel has run out: the thread itself waits for EMT.
LEMMA GiveUpKeeps == ASSUME IInv, Typed', Harmful \subseteq Avoided, GiveUp PROVE IInv'
<1>1. At("report") /\ emt = "suspending"
  BY DEF IInv, RedoFits, GiveUp, Harmful
<1>2. StepFits' /\ RedoFits' /\ DmaFits' /\ LineFits' /\ RingFits' /\ ResetFits' /\
     NoneFits' /\ CommandFits'
  BY <1>1 DEF IInv, GiveUp, StepFits, RedoFits, DmaFits, LineFits, RingFits, ResetFits, NoneFits,
       CommandFits
<1>3. VmFits'
  BY <1>1 DEF IInv, GiveUp, VmFits
<1> QED
  BY <1>2, <1>3 DEF IInv

\* The redo, if there is one, is told to go on; EMT has served its request by then.
LEMMA ResumeKeeps == ASSUME IInv, Typed', Harmful \subseteq Avoided, Resume PROVE IInv'
<1>1. StepFits'
  BY DEF IInv, Resume, StepFits, WakesRedo
<1>2. RedoFits'
  BY DEF IInv, Resume, RedoFits, WakesRedo, Harmful
<1>3. DmaFits'
  BY DEF IInv, Resume, DmaFits, WakesRedo
<1>4. LineFits'
  BY DEF IInv, Resume, LineFits, WakesRedo
<1>5. RingFits'
  BY DEF IInv, Resume, RingFits, WakesRedo
<1>6. ResetFits'
  BY DEF IInv, Resume, ResetFits, WakesRedo
<1>7. NoneFits'
  BY DEF IInv, Resume, NoneFits, WakesRedo
<1>8. CommandFits'
  BY DEF IInv, Resume, CommandFits, WakesRedo
<1>9. VmFits'
  BY DEF IInv, Resume, VmFits, WakesRedo
<1> QED
  BY <1>1, <1>2, <1>3, <1>4, <1>5, <1>6, <1>7, <1>8, <1>9 DEF IInv

\* No DMA, redo or reset is under way when the VM is reset.
LEMMA VmResetKeeps == ASSUME IInv, Typed', Harmful \subseteq Avoided, VmReset PROVE IInv'
<1>1. StepFits' /\ RedoFits' /\ DmaFits' /\ LineFits' /\ RingFits' /\ ResetFits' /\
     NoneFits'
  BY DEF IInv, VmReset, StepFits, RedoFits, DmaFits, LineFits, RingFits, ResetFits, NoneFits,
       Harmful
<1>2. VmFits'
  BY AtaAssumption DEF IInv, Typed, TypeOK, VmReset, VmFits, RedoFits, RingFits, Harmful
<1>3. CommandFits'
  BY DEF IInv, VmReset, CommandFits, DmaFits, Harmful
<1> QED
  BY <1>1, <1>2, <1>3 DEF IInv

\* From here on the requests are those that ataReset is about to clear.
LEMMA VmResetFlagsKeeps == ASSUME IInv, Typed', VmResetFlags PROVE IInv'
<1>1. StepFits' /\ RedoFits' /\ VmFits' /\ DmaFits' /\ ResetFits'
  BY DEF IInv, VmResetFlags, StepFits, RedoFits, VmFits, DmaFits, ResetFits
<1>2. LineFits'
  BY DEF IInv, VmResetFlags, LineFits, DmaFits
<1>3. RingFits'
  BY DEF IInv, VmResetFlags, RingFits, RedoFits, DmaFits, NoneFits, CommandFits
<1>4. NoneFits'
  BY DEF IInv, VmResetFlags, NoneFits
<1>5. CommandFits'
  BY DEF IInv, VmResetFlags, CommandFits
<1> QED
  BY <1>1, <1>2, <1>3, <1>4, <1>5 DEF IInv

\* The requests are cleared, whichever the thread has in hand.
LEMMA VmResetClearKeeps == ASSUME IInv, Typed', VmResetClear PROVE IInv'
<1>1. RedoFits' /\ DmaFits' /\ LineFits' /\ ResetFits'
  BY AtaAssumption DEF IInv, Typed, TypeOK, VmResetClear, RedoFits, DmaFits, LineFits,
       ResetFits, ClearRequests, Stale, Plain
<1>2. StepFits'
  BY AtaAssumption DEF IInv, Typed, TypeOK, VmResetClear, StepFits, RedoFits, ClearRequests,
       Stale, Plain
<1>3. VmFits'
  BY AtaAssumption DEF IInv, Typed, TypeOK, VmResetClear, VmFits, ClearRequests, Stale, Plain
<1>4. RingFits'
  BY DEF IInv, VmResetClear, RingFits, ClearRequests, Stale, Plain
<1>5. NoneFits'
  BY DEF IInv, VmResetClear, NoneFits, ClearRequests, Stale, Plain
<1>6. CommandFits'
  BY DEF IInv, VmResetClear, CommandFits, ClearRequests, Stale, Plain
<1> QED
  BY <1>1, <1>2, <1>3, <1>4, <1>5, <1>6 DEF IInv

\* RESET_ASSERTED and RESET_CLEARED are put into a ring that only they are in.
LEMMA VmResetPutKeeps == ASSUME IInv, Typed', VmResetPut PROVE IInv'
<1>1. StepFits' /\ RedoFits' /\ VmFits' /\ LineFits'
  BY AtaAssumption DEF IInv, Typed, TypeOK, VmResetPut, StepFits, RedoFits, VmFits, LineFits,
       Put, Plain
<1>2. DmaFits'
  BY AtaAssumption DEF IInv, Typed, TypeOK, VmResetPut, DmaFits, Put, Plain
<1>3. RingFits'
  BY AtaAssumption DEF IInv, Typed, TypeOK, VmResetPut, RingFits, Put, Plain
<1>4. ResetFits'
  BY AtaAssumption DEF IInv, Typed, TypeOK, VmResetPut, ResetFits, RingFits, Put, Plain
<1>5. NoneFits'
  BY DEF IInv, VmResetPut, NoneFits, Put, Plain
<1>6. CommandFits'
  BY DEF IInv, VmResetPut, CommandFits, Put, Plain
<1> QED
  BY <1>1, <1>2, <1>3, <1>4, <1>5, <1>6 DEF IInv

\* The ring is empty again only when RESET_CLEARED has been processed.
LEMMA VmResetDoneKeeps == ASSUME IInv, Typed', VmResetDone PROVE IInv'
<1>1. StepFits' /\ RedoFits' /\ DmaFits'
  BY DEF IInv, VmResetDone, StepFits, RedoFits, DmaFits, IsIdle, TransferStop, SetStatus
<1>2. VmFits'
  BY DEF IInv, VmResetDone, VmFits, IsIdle, TransferStop, SetStatus
<1>3. LineFits'
  BY DEF IInv, VmResetDone, LineFits, RedoFits, ResetFits, IsIdle, TransferStop, SetStatus
<1>4. RingFits'
  BY AtaAssumption DEF IInv, Typed, TypeOK, VmResetDone, RingFits, RedoFits, ResetFits, IsIdle,
       TransferStop, SetStatus
<1>5. ResetFits'
  BY DEF IInv, VmResetDone, ResetFits, RedoFits, IsIdle, TransferStop, SetStatus
<1>6. NoneFits'
  BY DEF IInv, VmResetDone, NoneFits, RedoFits, ResetFits, IsIdle, TransferStop, SetStatus
<1>7. CommandFits'
  BY DEF IInv, VmResetDone, CommandFits, IsIdle, TransferStop, SetStatus
<1> QED
  BY <1>1, <1>2, <1>3, <1>4, <1>5, <1>6, <1>7 DEF IInv

----------------------------------------------------------------------------
(* The invariant holds *)

\* At first the channel is at rest.
LEMMA IInvHolds == Init => IInv
<1> SUFFICES ASSUME Init PROVE IInv
  OBVIOUS
<1>1. Flags
  BY Zenon DEF Init, Flags
<1>2. Typed
  BY <1>1, AtaAssumption DEF Init, Typed, TypeOK, StepTypes, Plain, Requests, Directions,
       ThreadSteps, EmtSteps
<1>3. StepFits /\ RedoFits /\ VmFits /\ DmaFits /\ LineFits
  BY AtaAssumption DEF Init, StepFits, RedoFits, VmFits, DmaFits, LineFits, Plain
<1>4. RingFits /\ ResetFits /\ NoneFits /\ CommandFits
  BY DEF Init, RingFits, ResetFits, NoneFits, CommandFits
<1> QED
  BY <1>2, <1>3, <1>4 DEF IInv

\* A step of whichever of the three keeps it.
LEMMA IInvKept == ASSUME Harmful \subseteq Avoided, IInv, [Next]_vars PROVE IInv'
<1>1. Typed'
  BY TypesKept DEF IInv
<1> USE <1>1
<1>2. CASE Top \/ Resumed \/ Woken \/ GetRequest \/ NewTransfer \/ PioTransfer \/
         DmaTransfer \/ ResetAsserted \/ ResetCleared
  BY <1>2, TopKeeps, ResumedKeeps, WokenKeeps, GetRequestKeeps, NewTransferKeeps,
     PioTransferKeeps, DmaTransferKeeps, ResetAssertedKeeps, ResetClearedKeeps
<1>3. CASE IoDone \/ IoError \/ IoFails \/ Reported \/ Relock \/ Redo \/ SuspendRedo \/
         AskSuspend \/ SuspendDone
  BY <1>3, IoDoneKeeps, IoErrorKeeps, IoFailsKeeps, ReportedKeeps, RelockKeeps, RedoKeeps,
     SuspendRedoKeeps, AskSuspendKeeps, SuspendDoneKeeps
<1>4. CASE Filled \/ PutDma \/ Moved \/ CopyPiece \/ Sink \/ SinkGone \/
         NextDescriptor \/ DmaEnd \/ Delayed \/ DmaFinish \/ RemoveRequest
  BY <1>4, FilledKeeps, PutDmaKeeps, MovedKeeps, CopyPieceKeeps, SinkKeeps, SinkGoneKeeps,
     NextDescriptorKeeps, DmaEndKeeps, DelayedKeeps, DmaFinishKeeps, RemoveRequestKeeps
<1>5. CASE Access \/ StartDma \/ StopDma \/ Data \/ Done \/ Poll \/ AssertReset \/
         DeassertReset \/ LeavePort
  BY <1>5, AccessKeeps, StartDmaKeeps, StopDmaKeeps, DataKeeps, DoneKeeps, PollKeeps,
     AssertResetKeeps, DeassertResetKeeps, LeavePortKeeps
<1>6. CASE Suspend \/ ServeReport \/ ServeSuspend \/ Suspended \/ GiveUp \/ Resume \/ VmReset
         \/ VmResetFlags \/ VmResetClear \/ VmResetPut \/ VmResetDone
  BY <1>6, SuspendKeeps, ServeReportKeeps, ServeSuspendKeeps, SuspendedKeeps, GiveUpKeeps,
     ResumeKeeps, VmResetKeeps, VmResetFlagsKeeps, VmResetClearKeeps, VmResetPutKeeps,
     VmResetDoneKeeps
<1>7. ASSUME NEW c \in Commands, Command(c) PROVE IInv'
  BY <1>7, CommandKeeps
<1>8. CASE UNCHANGED vars
  BY <1>8 DEF vars, IInv, StepFits, RedoFits, VmFits, DmaFits, LineFits, RingFits, ResetFits,
       NoneFits, CommandFits
<1> QED
  BY <1>2, <1>3, <1>4, <1>5, <1>6, <1>7, <1>8 DEF Next, ThreadStep, DriverStep, Serve, EmtStep

LEMMA IInvAlways == Harmful \subseteq Avoided => (Spec => []IInv)
<1> SUFFICES ASSUME Harmful \subseteq Avoided PROVE Spec => []IInv
  OBVIOUS
<1>1. IInv /\ [Next]_vars => IInv'
  BY IInvKept
<1> QED
  BY IInvHolds, <1>1, PTL DEF Spec

----------------------------------------------------------------------------
(* The theorems *)

\* Every variable has its type, and the lock of the channel belongs to the thread and
\* to EMT exactly where the code holds it, whatever races the guest, the medium and
\* the user bring about.
THEOREM AtaTypes == Spec => []TypeOK
<1>1. Init => Typed
  BY IInvHolds DEF IInv
<1>2. Typed /\ [Next]_vars => Typed'
  BY TypesKept
<1>3. Typed => TypeOK
  BY DEF Typed
<1> QED
  BY <1>1, <1>2, <1>3, PTL DEF Spec

\* The release assertion on uAsyncIOState in ataAsyncIOLoop holds, for commands of any
\* length and any number of failures, suspensions and resets, as long as none of the
\* harmful races comes.
THEOREM StateConsistentAlways == Harmful \subseteq Avoided => (Spec => []StateConsistent)
<1> SUFFICES ASSUME Harmful \subseteq Avoided PROVE Spec => []StateConsistent
  OBVIOUS
<1>1. IInv => StateConsistent
  BY DEF IInv, Typed, TypeOK, StepFits, StateConsistent
<1> QED
  BY IInvAlways, <1>1, PTL

\* No request is ever put over the others: ataAsyncIOPutRequest finds a slot free, and
\* another one after it, so that the ring does not look empty.
THEOREM RoomForOneAlways == Harmful \subseteq Avoided => (Spec => []RoomForOne)
<1> SUFFICES ASSUME Harmful \subseteq Avoided PROVE Spec => []RoomForOne
  OBVIOUS
<1>1. IInv => RoomForOne
  BY DEF IInv, Typed, TypeOK, RingFits, RoomForOne
<1> QED
  BY IInvAlways, <1>1, PTL

\* When ataSuspend has let the VM be suspended the thread does not access the medium
\* until the VM is resumed.
THEOREM SuspendedIsQuietAlways == Harmful \subseteq Avoided => (Spec => []SuspendedIsQuiet)
<1> SUFFICES ASSUME Harmful \subseteq Avoided PROVE Spec => []SuspendedIsQuiet
  OBVIOUS
<1>1. IInv => SuspendedIsQuiet
  BY DEF IInv, Typed, TypeOK, StepTypes, EmtSteps, StepFits, RedoFits, VmFits,
       RingFits, SuspendedIsQuiet
<1> QED
  BY IInvAlways, <1>1, PTL

\* What the driver takes for the end of its command or reset is the end.
THEOREM IdleIsFreeAlways == Harmful \subseteq Avoided => (Spec => []IdleIsFree)
<1> SUFFICES ASSUME Harmful \subseteq Avoided PROVE Spec => []IdleIsFree
  OBVIOUS
<1>1. IInv => IdleIsFree
  <2> SUFFICES ASSUME IInv, driver = "idle", lock = Nil, emt \in {"guest", "enter"}
               PROVE  Empty /\ state = "NEW" /\ ~fReset /\ ~ss /\ status = "ready"
    BY DEF IdleIsFree
  <2>1. Calm
    BY DEF IInv, LineFits
  <2>2. pc # "remove"
    BY AtaAssumption DEF IInv, Typed, TypeOK
  <2> QED
    BY <2>1, <2>2 DEF IInv, RingFits, NoneFits
<1> QED
  BY IInvAlways, <1>1, PTL
=============================================================================
