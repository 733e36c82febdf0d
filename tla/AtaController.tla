--------------------------- MODULE AtaController ---------------------------
(***************************************************************************)
(* One channel of the IDE controller, with one hard disk                   *)
(* (Devices/Storage/DevATA.cpp), and the EMT that the guest's driver runs  *)
(* on.  The port handlers of EMT send requests to the asynchronous I/O     *)
(* thread of the channel through a ring of four slots.  Both change the    *)
(* channel under its lock, which the thread gives up while it reads or     *)
(* writes the medium; the reset and the suspension of the VM change it on  *)
(* EMT without the lock.                                                   *)
(*                                                                         *)
(* A stretch of code under the lock is one action up to the next access    *)
(* that ataReset or ataSuspend, which do without it, could come between.   *)
(* Data is counted in the pieces, of cbElementaryTransfer bytes, that the  *)
(* thread moves to or from the medium at a time.  The guest is a driver    *)
(* that gives one command at a time and starts the bus master once for it. *)
(***************************************************************************)
EXTENDS Naturals

CONSTANTS
    Commands,     \* the commands of the driver: direction, pieces, by DMA
    MaxPieces,    \* the pieces of the longest transfer
    MaxTrouble,   \* bound: failures, suspensions and resets of a run
    Avoided,      \* the races that do not happen in a run
    Nil

\* Races that the code does not stand.
Races == {"FailUnderReset",      \* a transfer fails, and the channel is reset before it is redone
          "AccessInFailure",     \* the guest accesses a port before a failure has suspended the VM
          "ResetInDma",          \* the VM is reset while the guest waits for a DMA command
          "ResetInRedo",         \* the VM is reset while a transfer that failed waits for its redo
          "SuspendInRedo",       \* a resumed VM is suspended before the thread has woken up
          "ResumeInRedo",        \* the VM is resumed while the thread is to keep still but EMT
                                 \* has not yet served its request to suspend the VM
          "SlowMedium",          \* the medium does not answer within the 20 s that ataSuspend waits
          "ResetAgain",          \* RESET is asserted before the last reset is over, or
                                 \* while it is asserted the VM is reset
          "SlowFetch",           \* RESET is asserted and deasserted while the thread has a request
                                 \* but has not yet read its type
          "SplitBuffer"}         \* a piece ends in the middle of a DMA descriptor

ASSUME AtaAssumption ==
    /\ MaxPieces \in Nat \ {0} /\ MaxTrouble \in Nat
    /\ Avoided \subseteq Races
    /\ Nil \notin 0..3 /\ Nil \notin {"io", "emt"}
    /\ Commands \subseteq [dir : {"read", "write"}, n : 1..MaxPieces, dma : BOOLEAN]
                          \union {[dir |-> "none", n |-> 0, dma |-> FALSE]}

Slots == 0..3
Directions == {"read", "write", "none"}
Requests == [type : {"NEW", "DMA", "PIO", "RESET_ASSERTED", "RESET_CLEARED"},
             dir : Directions, n : 0..MaxPieces, ss : BOOLEAN]

\* The requests without parameters, and the one the slots hold at first.
Plain(type) == [type |-> type, dir |-> "none", n |-> 0, ss |-> FALSE]

VARIABLES
    slot, head, tail,       \* aAsyncIORequests, AsyncIOReqHead, AsyncIOReqTail
    state,                  \* uAsyncIOState
    fReset, fRedo, fRedoIdle,
    dir, total, ss,         \* uTxDir, cbTotalTransfer, iSourceSink # ATAFN_SS_NULL
    dma,                    \* fDMA
    status,                 \* uATARegStatus: "ready", "busy" or "drq"
    irq,                    \* fIrqPending
    line,                   \* the guest asserts RESET
    start,                  \* BM_CMD_START is set
    lock, exit,             \* the owner of the lock; its exit event is scheduled
    AsyncIOSem, SuspendIOSem,
    pc, cur, type, left,    \* the thread: next step, pReq, ReqType, its copy of total
    emt, vm, request,       \* the next step of EMT; the state of the VM; EMT has a request of the thread
    driver, trouble         \* what the driver is doing; the troubles so far

ringVars   == <<slot, head, tail>>
flagVars   == <<fReset, fRedo, fRedoIdle>>
deviceVars == <<dir, total, ss, dma, status, irq>>
lineVars   == <<line, start>>
lockVars   == <<lock, exit>>
semVars    == <<AsyncIOSem, SuspendIOSem>>
threadVars == <<pc, cur, type, left>>
vmVars     == <<vm, request>>
guestVars  == <<driver, trouble>>
vars == <<ringVars, state, flagVars, deviceVars, lineVars, lockVars, semVars,
          threadVars, emt, vmVars, guestVars>>

Init ==
    /\ slot = [i \in Slots |-> Plain("NEW")] /\ head = 0 /\ tail = 0
    /\ state = "NEW"
    /\ fReset = FALSE /\ fRedo = FALSE /\ fRedoIdle = FALSE
    /\ dir = "none" /\ total = 0 /\ ss = FALSE /\ dma = FALSE
    /\ status = "ready" /\ irq = FALSE
    /\ line = FALSE /\ start = FALSE
    /\ lock = Nil /\ exit = FALSE
    /\ AsyncIOSem = FALSE /\ SuspendIOSem = FALSE
    /\ pc = "top" /\ cur = Nil /\ type = "NEW" /\ left = 0
    /\ emt = "guest" /\ vm = "running" /\ request = FALSE
    /\ driver = "idle" /\ trouble = 0

----------------------------------------------------------------------------
(* The ring of requests, the lock and the registers *)

Next4(i) == (i + 1) % 4
Empty == head = tail

\* What a free slot holds does not matter, unless the thread is about to read it.
Stale(i) == IF i = cur THEN slot[i] ELSE Plain("NEW")

ClearRequests == head' = 0 /\ tail' = 0 /\ slot' = [i \in Slots |-> Stale(i)]

Put(request4) ==
    /\ slot' = [slot EXCEPT ![head] = request4]
    /\ head' = Next4(head)
    /\ UNCHANGED tail

\* The owner of the lock has its leave signal the thread.
PutRequest(request4) == Put(request4) /\ exit' = TRUE /\ UNCHANGED lock

CurrentRequest(h, t) == IF h # t THEN t ELSE Nil

\* Mutant: the request at the tail is removed blindly.
RemovesTail_Blindly(type4) == ~Empty
\* Only a request of the type that was processed goes: it may have been cleared
\* and replaced by the request of a reset.
RemovesTail(type4) == ~Empty /\ slot[tail].type = type4

IsIdle == fRedoIdle \/ Empty

Enter(who) == lock = Nil /\ lock' = who /\ UNCHANGED exit

Signalled == AsyncIOSem \/ exit

Leave ==
    /\ lock' = Nil
    /\ AsyncIOSem' = Signalled
    /\ exit' = FALSE
    /\ UNCHANGED SuspendIOSem

\* Status changes are suppressed while the reset flag is set.
SetStatus(new) == status' = IF fReset THEN status ELSE new

TransferStop == total' = 0 /\ ss' = FALSE

----------------------------------------------------------------------------
(* The thread: ataAsyncIOLoop *)

Goto(step) == pc' = step
At(step) == pc = step

\* Mutant: the thread does not look whether it is to keep still.
KeepsStill_Never == FALSE
KeepsStill == fRedoIdle

\* The type is read before the lock is taken; the slot may have been reused.
Top ==
    /\ At("top")
    /\ \/ KeepsStill /\ Goto("asleep") /\ UNCHANGED type
       \/ ~KeepsStill /\ cur = Nil /\ Goto("wait") /\ UNCHANGED type
       \/ ~KeepsStill /\ cur # Nil /\ Goto("enter") /\ type' = slot[cur].type
    /\ UNCHANGED <<ringVars, state, flagVars, deviceVars, lineVars, lockVars, semVars, cur, left,
                   emt, vmVars, guestVars>>

Resumed ==
    /\ At("asleep") /\ SuspendIOSem
    /\ SuspendIOSem' = FALSE /\ fRedoIdle' = FALSE
    /\ Goto("top")
    /\ UNCHANGED <<ringVars, state, fReset, fRedo, deviceVars, lineVars, lockVars, AsyncIOSem,
                   cur, type, left, emt, vmVars, guestVars>>

Woken ==
    /\ At("wait") /\ AsyncIOSem
    /\ AsyncIOSem' = FALSE
    /\ Goto("get")
    /\ UNCHANGED <<ringVars, state, flagVars, deviceVars, lineVars, lockVars, SuspendIOSem,
                   cur, type, left, emt, vmVars, guestVars>>

GetRequest ==
    /\ At("get")
    /\ cur' = CurrentRequest(head, tail)
    /\ Goto("top")
    /\ UNCHANGED <<ringVars, state, flagVars, deviceVars, lineVars, lockVars, semVars, type, left,
                   emt, vmVars, guestVars>>

Starts(kind) == At("enter") /\ type = kind /\ lock = Nil

\* What is without data for the medium is done at once, a read or a flush goes
\* there first, without the lock; a write waits for the guest's data.
NewTransfer ==
    /\ Starts("NEW")
    /\ dir' = slot[cur].dir /\ total' = slot[cur].n /\ ss' = slot[cur].ss
    /\ IF slot[cur].dir # "write" /\ slot[cur].ss
       THEN Goto("io") /\ UNCHANGED <<lock, status>>
       ELSE Goto("filled") /\ lock' = "io" /\ SetStatus("ready")
    /\ UNCHANGED <<ringVars, state, flagVars, dma, irq, lineVars, exit, semVars,
                   cur, type, left, emt, vmVars, guestVars>>

PioTransfer ==
    /\ Starts("PIO")
    /\ IF ss
       THEN Goto("io") /\ UNCHANGED <<lock, status>>
       ELSE Goto("moved") /\ lock' = "io" /\ SetStatus("ready")
    /\ UNCHANGED <<ringVars, state, flagVars, dir, total, ss, dma, irq, lineVars, exit, semVars,
                   cur, type, left, emt, vmVars, guestVars>>

DmaTransfer ==
    /\ Starts("DMA")
    /\ left' = total
    /\ Goto(IF fRedo THEN "sink" ELSE "copy")
    /\ UNCHANGED <<ringVars, state, flagVars, deviceVars, lineVars, lockVars, semVars, cur, type,
                   emt, vmVars, guestVars>>

ResetAsserted ==
    /\ Starts("RESET_ASSERTED")
    /\ Enter("io")
    /\ state' = "RESET_CLEARED"
    /\ TransferStop
    /\ Goto("remove")
    /\ UNCHANGED <<ringVars, flagVars, dir, dma, status, irq, lineVars, semVars, cur, type, left,
                   emt, vmVars, guestVars>>

\* Mutant: the status is written before the reset flag is cleared.
ReadyAgain_Early == SetStatus("ready")
ReadyAgain == status' = "ready"

ResetCleared ==
    /\ Starts("RESET_CLEARED")
    /\ Enter("io")
    /\ state' = "NEW"
    /\ fReset' = FALSE
    /\ ReadyAgain
    /\ Goto("remove")
    /\ UNCHANGED <<ringVars, fRedo, fRedoIdle, dir, total, ss, dma, irq, lineVars, semVars,
                   cur, type, left, emt, vmVars, guestVars>>

----------------------------------------------------------------------------
(* Access to the medium, for which the lock has been left *)

\* A source or sink that got to the end of the transfer puts itself out: a read
\* with the last piece read, a write with no more to come from the guest.
SinkAfter ==
    ss /\ ~(dir = "read" /\ total <= 1) /\ ~(dir = "write" /\ total = 0)

\* The step after the medium has answered, for the request being processed.
AfterIo == CASE type = "NEW" -> "filled" [] type = "PIO" -> "moved" [] OTHER -> "copy"

\* The lock is taken again; ataDMATransfer leaves it at once.
Relocked == IF type = "DMA" THEN UNCHANGED lock ELSE lock' = "io"

IoDone ==
    /\ At("io") /\ lock = Nil /\ Relocked
    /\ ss' = SinkAfter
    /\ SetStatus("ready")
    /\ fRedo' = FALSE
    /\ IF type # "DMA"
       THEN Goto(AfterIo) /\ UNCHANGED left
       ELSE /\ left' = total
            /\ \/ Goto(IF total = 0 THEN "end" ELSE "copy")
               \/ total > 0 /\ Goto("descriptor")
    /\ UNCHANGED <<ringVars, state, fReset, fRedoIdle, dir, total, dma, irq, lineVars, exit, semVars,
                   cur, type, emt, vmVars, guestVars>>

\* An error is reported to the guest and ends the transfer.
IoError ==
    /\ At("io") /\ dir # "none" /\ lock = Nil /\ Relocked
    /\ trouble < MaxTrouble /\ trouble' = trouble + 1
    /\ TransferStop /\ dir' = "none"
    /\ SetStatus("ready")
    /\ fRedo' = FALSE /\ left' = 0
    /\ Goto(IF type = "DMA" THEN "end" ELSE AfterIo)
    /\ UNCHANGED <<ringVars, state, fReset, fRedoIdle, dma, irq, lineVars, exit, semVars,
                   cur, type, emt, vmVars, driver>>

InVmReset == emt \in {"resetFlags", "resetClear", "resetAssert", "resetClearing", "resetWait"}

\* The host has no room or no connection.  The thread reports it to EMT and waits
\* for EMT to serve the report, with the lock (VMSetRuntimeError) ...
IoFails ==
    /\ At("io") /\ dir # "none" /\ Enter("io")
    /\ "FailUnderReset" \in Avoided => ~fReset /\ ~InVmReset
    /\ "AccessInFailure" \in Avoided => emt # "enter"
    /\ trouble < MaxTrouble /\ trouble' = trouble + 1
    /\ request' = TRUE
    /\ Goto("report")
    /\ UNCHANGED <<ringVars, state, flagVars, deviceVars, lineVars, semVars, cur, type, left,
                   emt, vm, driver>>

\* ... the transfer is to be redone once the VM, which is suspended first, is resumed ...
Reported ==
    /\ At("report") /\ ~request
    /\ fRedo' = TRUE
    /\ IF type = "DMA"
       THEN Goto("relock") /\ Leave
       ELSE Goto("redo") /\ UNCHANGED <<lockVars, semVars>>
    /\ UNCHANGED <<ringVars, state, fReset, fRedoIdle, deviceVars, lineVars, cur, type, left,
                   emt, vmVars, guestVars>>

\* ... the thread puts the request it could not finish back into the ring ...
Relock ==
    /\ At("relock") /\ Enter("io")
    /\ Goto("redo")
    /\ UNCHANGED <<ringVars, state, flagVars, deviceVars, lineVars, semVars, cur, type, left,
                   emt, vmVars, guestVars>>

\* Mutant: the request that failed is not put back.
RedoRequest_Dropped == UNCHANGED ringVars /\ UNCHANGED lockVars
RedoRequest == PutRequest(IF type = "NEW" THEN slot[cur] ELSE Plain(type))

Redo ==
    /\ At("redo") /\ RedoRequest
    /\ Goto("suspend")
    /\ UNCHANGED <<state, flagVars, deviceVars, lineVars, semVars, cur, type, left,
                   emt, vmVars, guestVars>>

\* ... is to keep still from now on, which is idle enough for ataSuspend ...
SuspendRedo ==
    /\ At("suspend")
    /\ fRedoIdle' = TRUE
    /\ Goto("ask")
    /\ UNCHANGED <<ringVars, state, fReset, fRedo, deviceVars, lineVars, lockVars, semVars,
                   cur, type, left, emt, vmVars, guestVars>>

\* ... asks EMT to suspend the VM and waits, with the lock, until it has.
AskSuspend ==
    /\ At("ask")
    /\ request' = TRUE
    /\ Goto("suspending")
    /\ UNCHANGED <<ringVars, state, flagVars, deviceVars, lineVars, lockVars, semVars,
                   cur, type, left, emt, vm, guestVars>>

SuspendDone ==
    /\ At("suspending") /\ ~request
    /\ Goto("remove")
    /\ UNCHANGED <<ringVars, state, flagVars, deviceVars, lineVars, lockVars, semVars,
                   cur, type, left, emt, vmVars, guestVars>>

Failing == pc \in {"report", "relock", "redo", "suspend", "ask", "suspending"}

----------------------------------------------------------------------------
(* The end of a request *)

\* A piece is ready for the guest, or room for one; the last piece of a read
\* needs the thread no more.
NextPiece ==
    /\ total' = total - 1 /\ UNCHANGED ss
    /\ status' = "drq"
    /\ state' = IF dir = "write" \/ ss THEN "PIO" ELSE "NEW"

\* Mutant: the transfer goes on although the channel has been reset meanwhile.
InterruptedByReset_Never == FALSE
InterruptedByReset == fReset

\* The rest of ATA_AIO_NEW.
Filled ==
    /\ At("filled")
    /\ \/ /\ InterruptedByReset
          /\ Goto("remove") /\ UNCHANGED <<total, ss, status, irq, state>>
       \/ /\ ~InterruptedByReset /\ dma /\ total > 0
          /\ state' = "DMA" /\ status' = "drq"
          /\ Goto(IF start THEN "putDma" ELSE "remove") /\ UNCHANGED <<total, ss, irq>>
       \/ /\ ~InterruptedByReset /\ ~dma /\ total > 0
          /\ NextPiece /\ irq' = (irq \/ dir # "write")
          /\ Goto("remove")
       \/ /\ ~InterruptedByReset /\ total = 0
          /\ TransferStop /\ irq' = TRUE /\ state' = "NEW"
          /\ Goto("remove") /\ UNCHANGED status
    /\ UNCHANGED <<ringVars, flagVars, dir, dma, lineVars, lockVars, semVars, cur, type, left,
                   emt, vmVars, guestVars>>

PutDma ==
    /\ At("putDma") /\ PutRequest(Plain("DMA"))
    /\ Goto("remove")
    /\ UNCHANGED <<state, flagVars, deviceVars, lineVars, semVars, cur, type, left,
                   emt, vmVars, guestVars>>

\* The rest of ATA_AIO_PIO.
Moved ==
    /\ At("moved")
    /\ \/ InterruptedByReset /\ UNCHANGED <<total, ss, status, irq, state>>
       \/ ~InterruptedByReset /\ total > 0 /\ NextPiece /\ irq' = TRUE
       \/ /\ ~InterruptedByReset /\ total = 0
          /\ TransferStop /\ irq' = (irq \/ dir # "read") /\ state' = "NEW"
          /\ UNCHANGED status
    /\ Goto("remove")
    /\ UNCHANGED <<ringVars, flagVars, dir, dma, lineVars, lockVars, semVars, cur, type, left,
                   emt, vmVars, guestVars>>

\* ataDMATransfer moves a piece, without the lock, ...
CopyPiece ==
    /\ At("copy")
    /\ left' = IF left = 0 THEN 0 ELSE left - 1
    /\ Goto(IF left # 0 /\ (dir = "write" \/ left > 1) THEN "sink" ELSE "end")
    /\ UNCHANGED <<ringVars, state, flagVars, deviceVars, lineVars, lockVars, semVars, cur, type,
                   emt, vmVars, guestVars>>

\* ... gets the next one from the medium or writes this one there ...
Sink ==
    /\ At("sink") /\ lock = Nil /\ ss
    /\ total' = left
    /\ Goto("io")
    /\ UNCHANGED <<ringVars, state, flagVars, dir, ss, dma, status, irq, lineVars, lockVars,
                   semVars, cur, type, left, emt, vmVars, guestVars>>

\* ... unless a reset has taken the sink away.  Then no other descriptor is taken;
\* but with the rest of this one to fill the inner loop goes on and moves nothing,
\* and a redo that the reset has left flagged fails again or goes on likewise.
AfterSinkGone ==
    IF fRedo THEN {IF dir = "write" THEN "relock" ELSE "spin"}
    ELSE {IF left = 0 THEN "end" ELSE "descriptor"}
         \union (IF left > 0 /\ "SplitBuffer" \notin Avoided THEN {"spin"} ELSE {})

SinkGone ==
    /\ At("sink") /\ lock = Nil /\ ~ss
    /\ \E step \in AfterSinkGone : Goto(step)
    /\ UNCHANGED <<ringVars, state, flagVars, deviceVars, lineVars, lockVars, semVars, cur, type,
                   left, emt, vmVars, guestVars>>

\* ... and looks after each descriptor whether it is to go on.
NextDescriptor ==
    /\ At("descriptor") /\ lock = Nil
    /\ \/ start /\ ~fReset /\ Goto("copy") /\ UNCHANGED <<total, ss>>
       \/ ~start /\ ~fReset /\ TransferStop /\ Goto("end")
       \/ fReset /\ Goto("end") /\ UNCHANGED <<total, ss>>
    /\ UNCHANGED <<ringVars, state, flagVars, dir, dma, status, irq, lineVars, lockVars, semVars,
                   cur, type, left, emt, vmVars, guestVars>>

\* The interrupt of a write may be delayed, which again leaves the lock.
DmaEnd ==
    /\ At("end") /\ lock = Nil
    /\ total' = left /\ left' = 0
    /\ \/ lock' = "io" /\ Goto("finish")
       \/ dir = "write" /\ left = 0 /\ Goto("delayed") /\ UNCHANGED lock
    /\ UNCHANGED <<ringVars, state, flagVars, dir, ss, dma, status, irq, lineVars, exit, semVars,
                   cur, type, emt, vmVars, guestVars>>

Delayed ==
    /\ At("delayed") /\ Enter("io")
    /\ Goto("finish")
    /\ UNCHANGED <<ringVars, state, flagVars, deviceVars, lineVars, semVars, cur, type, left,
                   emt, vmVars, guestVars>>

DmaFinish ==
    /\ At("finish")
    /\ SetStatus("ready") /\ irq' = TRUE /\ state' = "NEW"
    /\ Goto("remove")
    /\ UNCHANGED <<ringVars, flagVars, dir, total, ss, dma, lineVars, lockVars, semVars,
                   cur, type, left, emt, vmVars, guestVars>>

\* The request that was processed goes, if it is still there, the next one is
\* looked up and the lock left.
RemoveRequest ==
    /\ At("remove")
    /\ IF RemovesTail(type)
       THEN tail' = Next4(tail) /\ slot' = [slot EXCEPT ![tail] = Plain("NEW")]
       ELSE UNCHANGED <<tail, slot>>
    /\ cur' = CurrentRequest(head, tail') /\ type' = "NEW"
    /\ Leave
    /\ Goto("top")
    /\ UNCHANGED <<head, state, flagVars, deviceVars, lineVars, left, emt, vmVars, guestVars>>

----------------------------------------------------------------------------
(* EMT: the ports that the guest's driver accesses *)

EmtGoto(step) == emt' = step
EmtAt(step) == emt = step

\* The guest executes an access to a port, whose handler takes the lock.
Access ==
    /\ EmtAt("guest") /\ vm = "running"
    /\ "AccessInFailure" \in Avoided => ~Failing
    /\ EmtGoto("enter")
    /\ UNCHANGED <<ringVars, state, flagVars, deviceVars, lineVars, lockVars, semVars,
                   threadVars, vmVars, guestVars>>

Handles == EmtAt("enter") /\ lock = Nil /\ lock' = "emt" /\ EmtGoto("leave")

\* The command is one of the disk's: ataParseCmd and ataStartTransfer.
Command(c) ==
    /\ driver = "idle"
    /\ Handles
    /\ dma' = c.dma
    /\ IF fReset \/ ~IsIdle \/ state # "NEW"
       THEN UNCHANGED <<ringVars, status, exit>>
       ELSE /\ Put([type |-> "NEW", dir |-> c.dir, n |-> c.n, ss |-> TRUE])
            /\ exit' = TRUE
            /\ SetStatus("busy")
    /\ driver' = "waits"
    /\ UNCHANGED <<state, flagVars, dir, total, ss, irq, lineVars, semVars, threadVars, vmVars, trouble>>

\* Mutant: the bus master is started without regard to what the disk is ready for.
ReadyForDma_Always == ~fReset
ReadyForDma == ~fReset /\ status = "drq"

\* The driver starts the bus master for its command (ataBMDMACmdWriteB).
StartDma ==
    /\ driver = "waits" /\ dma /\ ~start
    /\ Handles
    /\ start' = TRUE
    /\ IF ReadyForDma
       THEN Put(Plain("DMA")) /\ exit' = TRUE
       ELSE UNCHANGED <<ringVars, exit>>
    /\ UNCHANGED <<state, flagVars, deviceVars, line, semVars, threadVars, vmVars, guestVars>>

\* The driver gives a command by DMA up, before it resets the channel.
StopDma ==
    /\ driver = "waits" /\ start
    /\ trouble < MaxTrouble /\ trouble' = trouble + 1
    /\ Handles
    /\ start' = FALSE
    /\ driver' = "stopped"
    /\ UNCHANGED <<ringVars, state, flagVars, deviceVars, line, exit, semVars, threadVars, vmVars>>

\* The driver moves the last word of a piece (ataPIOTransferFinish).
Data ==
    /\ driver = "waits" /\ status = "drq" /\ ~dma
    /\ Handles
    /\ IF dir = "write" \/ ss
       THEN SetStatus("busy") /\ Put(Plain("PIO")) /\ exit' = TRUE /\ UNCHANGED <<total, ss>>
       ELSE SetStatus("ready") /\ TransferStop /\ UNCHANGED <<ringVars, exit>>
    /\ irq' = FALSE
    /\ UNCHANGED <<state, flagVars, dir, dma, lineVars, semVars, threadVars, vmVars, guestVars>>

\* The driver finds its command done, or its reset.
Done ==
    /\ \/ driver \in {"waits", "stopped"} /\ status = "ready" /\ (dma => irq)
       \/ driver = "resetting" /\ ~line /\ status = "ready"
    /\ Handles
    /\ irq' = FALSE /\ start' = FALSE
    /\ driver' = "idle"
    /\ UNCHANGED <<ringVars, state, flagVars, dir, total, ss, dma, status, line, exit, semVars,
                   threadVars, vmVars, trouble>>

\* The driver looks, to no effect.
Poll ==
    /\ driver # "idle"
    /\ Handles
    /\ UNCHANGED <<ringVars, state, flagVars, deviceVars, lineVars, exit, semVars, threadVars,
                   vmVars, guestVars>>

\* The driver asserts RESET, when its command takes too long or to begin with,
\* and has it deasserted again (ataControlWrite).
AssertReset ==
    /\ ~line
    /\ "ResetAgain" \in Avoided => ~fReset
    /\ "FailUnderReset" \in Avoided => ~fRedo
    /\ trouble < MaxTrouble /\ trouble' = trouble + 1
    /\ Handles
    /\ line' = TRUE /\ fReset' = TRUE
    /\ TransferStop
    /\ irq' = FALSE /\ status' = "busy"
    /\ slot' = [i \in Slots |-> IF i = 0 THEN Plain("RESET_ASSERTED") ELSE Stale(i)]
    /\ tail' = 0 /\ head' = 1
    /\ exit' = TRUE
    /\ driver' = "resetting"
    /\ UNCHANGED <<state, fRedo, fRedoIdle, dir, dma, start, semVars, threadVars, vmVars>>

DeassertReset ==
    /\ line
    /\ "SlowFetch" \in Avoided => ~(At("top") /\ cur # Nil)
    /\ Handles
    /\ line' = FALSE
    /\ Put(Plain("RESET_CLEARED")) /\ exit' = TRUE
    /\ UNCHANGED <<state, flagVars, deviceVars, start, semVars, threadVars, vmVars, guestVars>>

LeavePort ==
    /\ EmtAt("leave")
    /\ Leave
    /\ EmtGoto("guest")
    /\ UNCHANGED <<ringVars, state, flagVars, deviceVars, lineVars, threadVars, vmVars, guestVars>>

----------------------------------------------------------------------------
(* EMT: suspension, resumption and reset of the VM *)

\* The user has the VM suspended; ataSuspend waits until the channel is idle.
Suspend ==
    /\ EmtAt("guest") /\ vm = "running"
    /\ "SuspendInRedo" \in Avoided => ~SuspendIOSem
    /\ trouble < MaxTrouble /\ trouble' = trouble + 1
    /\ vm' = "suspended"
    /\ EmtGoto("suspending")
    /\ UNCHANGED <<ringVars, state, flagVars, deviceVars, lineVars, lockVars, semVars, threadVars,
                   request, driver>>

\* EMT passes the report of the thread on to the user.
ServeReport ==
    /\ EmtAt("guest") /\ request /\ At("report")
    /\ request' = FALSE
    /\ UNCHANGED <<ringVars, state, flagVars, deviceVars, lineVars, lockVars, semVars, threadVars,
                   emt, vm, guestVars>>

\* The request of the thread to suspend the VM; it fails if the VM does not run.
ServeSuspend ==
    /\ EmtAt("guest") /\ request /\ At("suspending")
    /\ IF vm = "running"
       THEN vm' = "suspended" /\ EmtGoto("serving") /\ UNCHANGED request
       ELSE request' = FALSE /\ UNCHANGED <<vm, emt>>
    /\ UNCHANGED <<ringVars, state, flagVars, deviceVars, lineVars, lockVars, semVars, threadVars,
                   guestVars>>

Suspended ==
    /\ emt \in {"suspending", "serving"} /\ IsIdle
    /\ request' = IF EmtAt("serving") THEN FALSE ELSE request
    /\ EmtGoto("guest")
    /\ UNCHANGED <<ringVars, state, flagVars, deviceVars, lineVars, lockVars, semVars, threadVars,
                   vm, guestVars>>

\* After 20 s ataSuspend goes on anyhow: the medium does not answer, or the thread
\* waits in turn for EMT to serve its report.  (The 30 s of ataReset end in a
\* release assertion, with which the program stops.)
GiveUp ==
    /\ emt \in {"suspending", "serving"} /\ ~IsIdle
    /\ "SlowMedium" \in Avoided => At("report")
    /\ request' = IF EmtAt("serving") THEN FALSE ELSE request
    /\ EmtGoto("guest")
    /\ UNCHANGED <<ringVars, state, flagVars, deviceVars, lineVars, lockVars, semVars, threadVars,
                   vm, guestVars>>

WakesRedo == SuspendIOSem \/ (fRedo /\ fRedoIdle)

\* The user resumes the VM (ataResume).
Resume ==
    /\ EmtAt("guest") /\ vm = "suspended"
    /\ "ResumeInRedo" \in Avoided => ~At("ask") /\ ~(At("suspending") /\ request)
    /\ vm' = "running"
    /\ SuspendIOSem' = WakesRedo
    /\ UNCHANGED <<ringVars, state, flagVars, deviceVars, lineVars, lockVars, AsyncIOSem,
                   threadVars, emt, request, guestVars>>

\* The VM is reset: ataReset, without the lock.
VmReset ==
    /\ EmtAt("guest")
    /\ "ResetInDma" \in Avoided => ~(dma /\ driver # "idle")
    /\ "ResetInRedo" \in Avoided => ~fRedo /\ ~At("report")
    /\ "ResetAgain" \in Avoided => ~line
    /\ trouble < MaxTrouble /\ trouble' = trouble + 1
    /\ start' = FALSE
    /\ EmtGoto("resetFlags")
    /\ UNCHANGED <<ringVars, state, flagVars, deviceVars, line, lockVars, semVars, threadVars,
                   vmVars, driver>>

VmResetFlags ==
    /\ EmtAt("resetFlags")
    /\ fReset' = TRUE /\ fRedo' = FALSE /\ fRedoIdle' = FALSE
    /\ EmtGoto("resetClear")
    /\ UNCHANGED <<ringVars, state, deviceVars, lineVars, lockVars, semVars, threadVars, vmVars, guestVars>>

VmResetClear ==
    /\ EmtAt("resetClear") /\ ClearRequests
    /\ EmtGoto("resetAssert")
    /\ UNCHANGED <<state, flagVars, deviceVars, lineVars, lockVars, semVars, threadVars, vmVars, guestVars>>

VmResetPut ==
    /\ \/ EmtAt("resetAssert") /\ Put(Plain("RESET_ASSERTED")) /\ EmtGoto("resetClearing")
       \/ EmtAt("resetClearing") /\ Put(Plain("RESET_CLEARED")) /\ EmtGoto("resetWait")
    /\ AsyncIOSem' = TRUE
    /\ UNCHANGED <<state, flagVars, deviceVars, lineVars, lockVars, SuspendIOSem, threadVars,
                   vmVars, guestVars>>

VmResetDone ==
    /\ EmtAt("resetWait") /\ IsIdle
    /\ TransferStop
    /\ irq' = FALSE /\ SetStatus("ready")
    /\ driver' = IF line THEN "resetting" ELSE "idle"
    /\ EmtGoto("guest")
    /\ UNCHANGED <<ringVars, state, flagVars, dir, dma, lineVars, lockVars, semVars, threadVars,
                   vmVars, trouble>>

----------------------------------------------------------------------------
(* Specification *)

ThreadStep ==
    \/ Top \/ Resumed \/ Woken \/ GetRequest
    \/ NewTransfer \/ PioTransfer \/ DmaTransfer \/ ResetAsserted \/ ResetCleared
    \/ IoDone \/ Reported \/ Relock \/ Redo \/ SuspendRedo \/ AskSuspend \/ SuspendDone
    \/ Filled \/ PutDma \/ Moved
    \/ CopyPiece \/ Sink \/ SinkGone \/ NextDescriptor \/ DmaEnd \/ Delayed \/ DmaFinish
    \/ RemoveRequest

DriverStep == StartDma \/ Data \/ Done \/ DeassertReset

Serve == ServeReport \/ ServeSuspend

EmtStep == LeavePort \/ Suspended \/ GiveUp \/ VmResetFlags \/ VmResetClear \/ VmResetPut \/ VmResetDone

Next ==
    \/ ThreadStep \/ IoError \/ IoFails
    \/ Access \/ DriverStep \/ StopDma \/ Poll \/ AssertReset
    \/ \E c \in Commands : Command(c)
    \/ Suspend \/ Serve \/ Resume \/ VmReset
    \/ EmtStep

Spec == Init /\ [][Next]_vars

\* The medium answers and the lock goes to who waits for it; EMT serves requests
\* before it lets the guest go on, the guest's driver does what its command
\* needs, and a VM that was suspended is resumed.
FairSpec ==
    /\ Spec
    /\ SF_vars(ThreadStep) /\ WF_vars(EmtStep) /\ SF_vars(Serve)
    /\ WF_vars(Access) /\ SF_vars(DriverStep) /\ SF_vars(Resume)

----------------------------------------------------------------------------
(* What is promised *)

ThreadSteps == {"top", "asleep", "wait", "get", "enter", "io", "filled", "putDma", "moved",
                "report", "relock", "redo", "suspend", "ask", "suspending", "copy", "sink", "spin",
                "descriptor", "end", "delayed", "finish", "remove"}
EmtSteps == {"guest", "enter", "leave", "suspending", "serving", "resetFlags", "resetClear",
             "resetAssert", "resetClearing", "resetWait"}

\* The flags of the controller and of the thread, and whether EMT is asked to suspend.
Flags ==
    /\ fReset \in BOOLEAN /\ fRedo \in BOOLEAN /\ fRedoIdle \in BOOLEAN
    /\ ss \in BOOLEAN /\ dma \in BOOLEAN /\ irq \in BOOLEAN
    /\ line \in BOOLEAN /\ start \in BOOLEAN /\ exit \in BOOLEAN
    /\ AsyncIOSem \in BOOLEAN /\ SuspendIOSem \in BOOLEAN /\ request \in BOOLEAN

\* Every variable has its type; the thread owns the lock exactly in the steps
\* that the code takes under it, and EMT while it handles an access.
TypeOK ==
    /\ Flags
    /\ slot \in [Slots -> Requests] /\ {head, tail} \subseteq Slots
    /\ state \in {"NEW", "DMA", "PIO", "RESET_CLEARED"}
    /\ dir \in Directions /\ {total, left} \subseteq 0..MaxPieces
    /\ status \in {"ready", "busy", "drq"}
    /\ pc \in ThreadSteps /\ cur \in Slots \union {Nil}
    /\ type \in {"NEW", "DMA", "PIO", "RESET_ASSERTED", "RESET_CLEARED"}
    /\ emt \in EmtSteps /\ vm \in {"running", "suspended"}
    /\ driver \in {"idle", "waits", "stopped", "resetting"} /\ trouble \in 0..MaxTrouble
    /\ lock \in {Nil, "io", "emt"}
    /\ lock = "io" <=> pc \in {"filled", "putDma", "moved", "report", "redo", "suspend", "ask",
                               "suspending", "finish", "remove"}
    /\ lock = "emt" <=> emt = "leave"

\* The request that the thread has fetched fits the state the channel is in (the
\* release assertion on uAsyncIOState), whatever has been cleared, reset or put
\* back while it was waiting, or while the medium was accessed.
StateConsistent ==
    /\ TypeOK
    /\ pc = "enter" => type \in {"RESET_ASSERTED", "RESET_CLEARED"} \/ type = state

\* There is always room for one more request in the ring, so that none is put
\* over the others: besides the one that is processed at most one waits.
RoomForOne == Next4(head) # tail

\* What the driver takes for the end of its command or reset is the end: the ring
\* is empty, the channel takes the next command and nothing is left of a transfer
\* that was reset, not even what the thread stored when it was through with it.
IdleIsFree ==
    driver = "idle" /\ lock = Nil /\ emt \in {"guest", "enter"} =>
        Empty /\ state = "NEW" /\ ~fReset /\ ~ss /\ status = "ready"

\* A VM that ataSuspend has let suspend has no access to the medium under way:
\* the thread has nothing to do, reports a failure or prepares its redo, or
\* sleeps until the VM is resumed.
SuspendedIsQuiet ==
    vm = "suspended" /\ emt \notin {"suspending"} =>
        pc \notin {"io", "copy", "sink", "spin", "descriptor", "end", "delayed"}

\* Every command comes to an end for the driver, unless it resets the channel or
\* stops the bus master: no request, signal or redo gets lost between the
\* thread, the handlers, and a suspension or reset of the VM.
CommandEnds == driver = "waits" ~> driver # "waits"

\* Every reset comes to an end: the driver sees the channel ready again.
ResetEnds == driver = "resetting" ~> driver # "resetting"
=============================================================================
