# Verification of VirtualBox 1.4.0 (svn 4130)

TLA+ models of the concurrent core of the virtual machine monitor, of a device
with a thread of its own and of the objects of the API; the TLC runs that check
them on small instances, and theorems that TLAPS proves for instances of any
size. Paths below are relative to `src/virtualbox-1.4.0svn4130/`;
`VMM/` stands for `src/VBox/VMM/`, `Runtime/` for `src/VBox/Runtime/`.

## 1. The system

VirtualBox runs a guest in one *emulation thread*, EMT. All that belongs to the
VM (processor state, page tables, devices) is EMT's; everybody else (the API in
Main and the front ends, disk and network threads of devices, the host's timer
thread) reaches EMT through a few small protocols, mostly lock-free, and those
are what a test hardly exercises. They are the core modelled here.

### 1.1 Components

| Component | State it keeps | Operations | Talks to | Hard behaviour | Status |
|---|---|---|---|---|---|
| TM timer queues (`VMM/TM.cpp`, `VMMAll/TMAll.cpp`) | state, expire time and links of each timer; schedule list; active list; cached expire time | set, stop, destroy from any thread; schedule, run, reset, poll | raises `VM_FF_TIMER`; calls devices back | CAS, then link; EMT reads states others change | modelled in part |
| TM clocks (`TMAllVirtual.cpp`, ...) | offsets, catch-up | read, pause, resume | TM queues | arithmetic | not modelled |
| Requests (`VMM/VMReq.cpp`) | packets, free lists, `pReqs` | alloc, queue, wait, free, process | raises `VM_FF_REQUEST`, wakes EMT | recycling, lost wakeups, late signals | modelled in part |
| EMT loop (`VMM/VMEmt.cpp`) | `fWait`, event | wait, notify | requests, TM | sleeping against being woken | modelled in part |
| Critical sections (`Runtime/generic/critsect-generic.cpp`) | `cLockers`, `cNestings`, owner, event | enter, try, enter many, leave, delete | every device | counting waiters, order of locks | modelled in part |
| PDM critical sections (`VMMAll/PDMAllCritSect.cpp`, `PDMCritSect.cpp`) | queue of deferred leaves | enter/leave in ring-0 and GC, flush in ring-3 | raises `VM_FF_PDM_CRITSECT`, `VM_FF_TO_R3` | EMT can neither wait nor signal | modelled in part |
| EM (`VMM/EM.cpp`) | execution state | run the guest, forced actions | all of the VMM | order of forced actions | environment of `CritSect` |
| PDM threads (`VMM/PDMThread.cpp`) | state word, two events, list | create, suspend, resume, destroy | devices, drivers | both sides change the state; waits that run out | modelled in part |
| PDM queues (`VMM/PDMQueue.cpp`, `VMMAll/PDMAllQueue.cpp`) | pending LIFOs, ring of free items | allocate, insert, flush | raises `VM_FF_PDM_QUEUES`; calls devices back | items put back behind newer ones, a ring read before it is changed | modelled in part |
| VM life cycle (`VMM/VM.cpp`) | `VMSTATE` | power on, suspend, resume, reset, off | requests | requests in the wrong state | planned |
| ATA controller (`Devices/Storage/DevATA.cpp`) | request ring, state, reset and redo flags | port handlers, I/O thread, reset, suspend, resume | PDM sections, requests | reset or suspension during a transfer, a failure and its redo | modelled in part |
| Objects of Main (`Main/VirtualBoxBase.cpp`) | state, number of callers, two events | add and release callers; init, ready and uninit spans | all of Main | uninit against callers, a limited object that is initialised again | modelled in part |
| PDM devices/drivers, PGM, MM, CPUM, SELM, TRPM, HWACCM, IOM, SSM, CFGM, STAM, DBGF, PATM/CSAM, switchers | the machine | sequential, on EMT | - | size of the data | not modelled |
| REM, disassembler, debugger console | - | decode, translate, print | - | vendored or pure | not modelled |
| Other devices, host services, host drivers, rest of IPRT | register machines, host resources | - | PDM, HGCM | some candidates, see section 7 | not modelled |
| Rest of Main, HGCM, front ends | COM objects | the API | requests | candidates | not modelled |
| XPCOM, liblzf, BIOS, Etherboot, build programs | - | - | - | vendored | not modelled |

`PROJECT.json` has one entry for each of these, with the files it consists of.

### 1.2 How they interact

* *Forced actions.* A flag word of the VM tells EMT what is to be done:
  `VM_FF_TIMER`, `VM_FF_REQUEST`, `VM_FF_PDM_QUEUES`, `VM_FF_PDM_CRITSECT`,
  `VM_FF_TO_R3`. A flag is always raised after the work it announces was queued,
  and never with it. Many liveness properties here are about that gap.
* *Lock-free LIFOs.* Timers to schedule, requests and items of queues are pushed
  with a compare-and-swap and taken by EMT all at once with an exchange. So a
  LIFO never suffers from ABA; what can go wrong is an element pushed twice, one
  recycled while somebody still holds it, and the order. The ring of free items
  of a PDM queue is not a LIFO, and there ABA is possible.
* *Threads of devices.* A disk or network thread is controlled through states
  that both sides change, and signals that may be left over from before. The
  I/O thread of the ATA controller in turn asks EMT, by a request, to suspend
  the VM.
* *Contexts.* EMT executes device code in ring-3, in ring-0 and in the guest
  context. In the last two it cannot block or wake a thread: it returns
  "busy" or defers the work until it is back in ring-3.

### 1.3 What makes each component correct

* Timers: a pending timer is found by EMT, once; the active list holds exactly
  the timers whose state says so; a timer fires when it is due, once, not after
  it was stopped; an armed timer is not forgotten.
* Requests: a packet is in one hand; a request is executed once and in order; a
  caller that returns with success has a completed request; every call returns;
  EMT sleeps when there is nothing to do.
* Sections: one thread inside, whatever its context; no waiter is stranded; no
  circle of waiters; a deferred leave happens, once.
* PDM threads: what EMT was told of a thread is so; a thread that was told to
  terminate does, and never runs again; it does not touch freed memory; the
  calls do not need their timeouts.
* PDM queues: an item is in one place; the flag is not lost; items of one
  producer keep their order; what is not refused is consumed.
* ATA: the thread finds requests that fit its state and the ring has room; a
  command or reset ends and leaves nothing behind; a suspended VM is quiet.
* Objects: the counts are true; uninit is alone with the object; who waits for
  an initialisation or for the callers to go comes back.

## 2. Modules

| Module | What it is | Source |
|---|---|---|
| `TMTimer` | one timer queue, any threads | `VMM/VMMAll/TMAll.cpp`, `VMM/TM.cpp` |
| `TimerService` | what the timer API promises | abstract |
| `TMTimer_proofs` | theorems about `TMTimer` | - |
| `VMReq` | request packets and the waiting EMT | `VMM/VMReq.cpp`, `VMM/VMEmt.cpp` |
| `RequestService` | what `VMR3ReqCall` promises | abstract |
| `VMReq_proofs` | theorems about `VMReq` | - |
| `CritSect` | IPRT and PDM critical sections, with EMT in and out of the guest | `Runtime/generic/critsect-generic.cpp`, `VMM/VMMAll/PDMAllCritSect.cpp`, `VMM/PDMCritSect.cpp` |
| `CritSect_proofs` | theorems about `CritSect` | - |
| `PDMThread` | threads of devices and drivers, and EMT | `VMM/PDMThread.cpp`, `Runtime/thread.cpp` |
| `PDMThread_proofs` | theorems about `PDMThread` | - |
| `PDMQueue` | queues, their producers in all contexts, and the flush on EMT | `VMM/PDMQueue.cpp`, `VMM/VMMAll/PDMAllQueue.cpp` |
| `QueueService` | what the queues promise | abstract |
| `PDMQueue_proofs` | theorems about `PDMQueue` | - |
| `AtaController` | one IDE channel, its I/O thread, EMT and the guest's driver | `Devices/Storage/DevATA.cpp`, `VMM/VM.cpp` |
| `AtaController_proofs` | theorems about `AtaController` | - |
| `VirtualBoxBase` | an object of the API with callers and spans | `Main/VirtualBoxBase.cpp`, `Main/MachineImpl.cpp` |
| `VirtualBoxBase_proofs` | theorems about `VirtualBoxBase` | - |
| `SequenceFacts` | lemmas about sequences | - |
| `MCTMTimer`, `MCVMReq`, `MCCritSect`, `MCPDMThread`, `MCPDMQueue`, `MCAtaController`, `MCVirtualBoxBase` | definitions for the `.cfg` files | - |

The component modules are built alike. Each thread has a label `pc`; one
action is one access to a variable that threads share (an atomic operation, a
load, a store), together with what follows of it in variables that only this
thread uses until the next such access. A condition of the code that a plausible
mistake could change is an operator of its own, with that mistake, marked
*Mutant*, next to it.

### 2.1 TMTimer

`state` and `expire` are `enmState` and `u64Expire`; `next`, `prev`, `head` the
offsets of the active list; `qExpire` the cached expire time; `sched` the
schedule list with the latest link first. `Begin` starts `TMTimerSet`,
`TMTimerStop` or `TMTimerDestroy`; `Read` is one turn of its retry loop up to
the `switch`, with the new state given by `SetTarget`, `StopTarget` and
`DestroyTarget`, and `Try` the compare-and-swap. Setting has three further
steps: the state `..._SET_EXPIRE`, the expire time (`WriteExpire`), the final
state (`Arm`). `StopFallThrough` is the missing `break` at `TMAll.cpp:538`.
`Schedule` is `tmSchedule`: EMT goes on with `tmTimerQueueSchedule`
(`TakeSchedule`, `Pick`, `ScheduleOne`; insertion into the active list is
`LoadKey` and one `WalkStep` for each timer it passes, since other threads
change the expire times it compares with), another thread raises the flag if it
sees it cleared. `QueuesDo`, `RunStart`, `RunOne`, `CallbackReturn`, `RunEnd`
are `TMR3TimerQueuesDo` with `tmR3TimerQueueRun`; between `RunOne` and
`CallbackReturn` EMT is in the callback and may call the API. `Poll` is the
timer thread of the host.

Assumed of callers (`MayCall`): nobody uses a timer that is being destroyed.
With `Serialised` there is also one call on *one* timer at a time, as when they
come from a device that holds its lock; EMT may be anywhere with what the calls
before have left it to do. Serialised calls still meet two races that the code does
not stand, and that nothing in it rules out. `Avoided` names those that a run or a
theorem leaves out:

* `Overtake`: a call changes the state of a timer between EMT's reading of it
  (`TMAll.cpp:1031`) and EMT's storing of the new one (`:1060`, `:1088`). The call is
  lost, though it reported success. The model with this race avoided holds back just
  the compare-and-swap in that stretch (`Overtakes`), of any call, not the call itself.
* `DestroyStopped`: a timer is destroyed that was stopped before EMT had scheduled it
  (`:305`, run `timer_destroy`).

### 2.2 VMReq

A packet is a block of memory that is never given back to the operating system
in the model (`HEAP` means not allocated), with its `enmState`, the flag
`NO_WAIT`, its event and `fEventSemClear`. The nine free lists are one set, and
taking a packet from them or putting it back is one action. `Take` to `FreeOwn`
are the steps of a caller in `VMR3ReqCallV`, `VMR3ReqAlloc`, `VMR3ReqQueue`,
`VMR3ReqWait` and `VMR3ReqFree`; `ClearFF` to `Signal` those of EMT in
`VMR3ReqProcess` and `vmR3ReqProcessOne`; `Top` to `Unwait` the loop of EMT with
`vmR3DefaultWait`. A caller waits (`RT_INDEFINITE_WAIT`), polls first and then
waits (`VMR3Reset`, `VMR3Destroy` with `cMillies` 0), or does not wait. With
`Inline` EMT calls too and processes its own request at once.

### 2.3 CritSect

A call is a list `todo` of entries and leaves, of which
`RTCritSectEnterMultiple` has many. `Inc`, `Nested`, `Wait`, `Own` are
`RTCritSectEnter`; `Try`, `TryNested`, `Own`, `Busy` are `RTCritSectTryEnter`
and `PDMCritSectEnter` outside ring-3, which do the same; `Busy` also rewrites
`todo` as the retry loop of `RTCritSectEnterMultiple` goes on: leave what was
entered, wait for the section that was busy, try the others. `Leave`, `Dec`,
`Signal` are `RTCritSectLeave`; `R0Leave`, `R0Test`, `R0Free`, `Queue`
`PDMCritSectLeave` outside ring-3; `LeaveQueued` and `FFEnd`
`PDMR3CritSectFF`. `EnterGuest` and `ExitGuest` switch the context of EMT, with
the flags as `VMXR0RunGuestCode` and `emR3HwAccExecute` treat them. Callers
leave what they entered, EMT holds nothing when it switches, and callers of
`RTCritSectEnter` that already hold a section respect the order of `Sects`;
`RTCritSectEnterMultiple` is given its arrays in any order and by callers that
hold nothing.

### 2.4 PDMThread

The steps of a thread are `pdmR3ThreadMain` with `PDMR3ThreadIAmSuspending` and
`PDMR3ThreadIAmRunning`, one for each compare-and-swap, signal and wait:
`Returned` (the function of the device came back), `Suspending`, `Suspended`,
`SignalSuspended`, `Block`, `Woken`, then `Resuming`, `Running`, `Announce` or
`Advance`, `Terminate`, `Farewell`; a compare-and-swap that fails goes to
`BailMeOut`. The function itself is the device's: it sleeps on an event of its
own, works, fails, or returns when it sees that the state is not `RUNNING`
(`Function`, `Awake`, `Work`, `FunctionFails`). EMT makes one call at a time:
`Create...`, `Suspend...`, `Resume...`, `BailOut...`, `Destroy...`. The user
event of an IPRT thread is `user`, its end `ended`; `Slow` names the calls whose
waits may run out while the thread goes on, in the run all four. That a thread has its
handle before its creator knows it is the variable `handle`. A wait of 60 seconds may
also run out whenever the thread it waits for is stuck (`RunsOut`).

`pdmR3ThreadInit` waits for the thread to be suspended (`CreateTimeout`), on failure
waits for its end, and frees it without a look at the result of that wait
(`CreateBail`): then EMT has *abandoned* a thread that may go on with freed memory.
Three places where the code does less than it says are operators that the properties
name as their exceptions, so that all other cases are checked: `Abandoned` for
`NoUseAfterFree`; `late`, the threads whose resume came before the signal of their
suspension, for `SignalIsAnswer`; `Stranding`, a thread that EMT knew to be suspended
when it destroyed it, for `Terminates`. Each property fails without its exception.

Left out: the list of threads of the VM. `pdmR3ThreadInit` does not link the new
thread, so the list is empty and what walks it (`pdmR3ThreadSuspendAll`,
`ResumeAll`, the destruction by device, USB device or driver) does nothing.

### 2.5 PDMQueue

`ring`, `freeHead`, `freeTail` are `aFreeItems`, `iFreeHead`, `iFreeTail`;
`pendingHC` and `pendingGC` the LIFOs of the host and the guest context.
`Alloc`, `Take` are `PDMQueueAlloc` (`AllocAgain` if the tail has moved). The exchange
of `Take` also succeeds if the tail has moved and come round to where it was (`Lapped`,
which the history variable `moved` tells); the constant `MayLap` says whether that
happens. `Insert`, `Push`, `PushGuest`, `Raise` `PDMQueueInsert`. EMT flushes with
`FlushAll`, `Scan`, `TakePending` (exchange and reversal), `Accept` or `Refuse`
for each item, `FreeItem` and `FreeHead`, `ScanEnd`, and in one case by
`PDMR3QueueFlushWorker` (`Clear`, `Recalc`). `PutBack` puts refused items and
those behind them back: the code has a loop over the LIFO there, during which
others push; the model does it in one step that keeps what they pushed.

### 2.6 AtaController

One channel with one hard disk. `slot`, `head`, `tail` are the request ring,
`state` is `uAsyncIOState`, `pc` the place of the I/O thread in
`ataAsyncIOLoop`: `Top` (suspended, asleep or with work), `GetRequest`, then
under the lock `NewTransfer`, `DmaTransfer`, `PioTransfer`, `ResetAsserted`,
`ResetCleared`; in the medium without it (`IoDone`, `IoError`); `Filled`,
`PutDma`, `Moved`, and for DMA a descriptor at a time (`CopyPiece`, `Sink`,
`NextDescriptor`, `DmaEnd`, `DmaFinish`); after a failure (`IoFails`) `Reported`, `Relock`,
`Redo`, `SuspendRedo`, `AskSuspend`, `SuspendDone`; `RemoveRequest`. EMT runs a guest whose driver gives a command,
starts the bus master, moves data, polls, and may reset the channel (`Access`,
then `Command`, `StartDma`, `StopDma`, `Data`, `AssertReset`, `DeassertReset`,
`LeavePort`); and the VM is suspended, resumed and reset (`Suspend`,
`Suspended` or `GiveUp`, `Resume`, `VmReset...`). Data is counted in pieces, and what a
free slot or a variable holds that nobody reads before it is written is made
equal, to keep the states few.

A failure of the medium takes the thread to EMT twice, each time with the lock of the
channel and until EMT has served the request. First it reports what is wrong
(`VMSetRuntimeError`; `IoFails`, `ServeReport`, `Reported`), before the channel counts as
idle. Then it puts the request back (`Redo`), becomes idle (`SuspendRedo`,
`DevATA.cpp:4094`), and only then asks EMT to suspend the VM (`AskSuspend`, `:4095`;
`ServeSuspend`). An `ataSuspend` that finds the channel busy waits 20 s for it and goes
on (`GiveUp`); while the thread waits for its report to be served, this is what ends the
wait. When the 30 s of `ataReset` are over a release assertion stops the program, which
is no step of the model.

The thread lets go of the lock for the medium, and `ataReset`, `ataSuspend` and
`ataResume` do not take it. That opens races which the code does not stand. They
are the constant `Avoided`: a run excludes them one by one, by a guard each,
and the list is part of the result (section 4). Eight of them are harmful: they break
a safety property. The other two, `AccessInFailure` and `SplitBuffer`, only keep
somebody from ever going on: the run excludes them, since it asks for an end of every
command, and the theorems let them happen.

### 2.7 VirtualBoxBase

One action is one stretch under `mStateLock`. `AddCaller`, `InitHeard`,
`Reenter`, `Release` are `addCaller` and `releaseCaller`; `BeginInit` and
`EndInit` the `AutoInitSpan` of the thread that creates the object; `Lock`,
`BeginReadySpan`, `EndReadySpan`, `Unlock` `Machine::get_Accessible`, in which
the owner of the write lock tries to initialise a limited object once more;
`Uninit`, `Emptied`, `EndUninit` the `AutoUninitSpan`. The event
`mZeroCallersSem` resets itself, `mInitDoneSem` does not.

### 2.8 The abstract specifications

`TimerService`: a timer has at most one deadline; a call takes effect at one
moment between its start and its return; a timer fires at or after its deadline
and only once for each time it is set. `TMTimer` maps `deadline` to the expire
time of the timers in `PENDING_SCHEDULE`, `PENDING_RESCHEDULE` and `ACTIVE`.

`RequestService`: a queue of callers, served in order, one at a time, each once;
EMT's own requests at once; a call returns after its request was executed.
`VMReq` maps `queue` to the packets EMT has not begun: its batch, then `pReqs`
reversed.

`QueueService`: for each queue and thread a line of items, served in order. An item
leaves its line when the consumer takes it (`taken` until it is free again). That an
item a consumer refuses is gone all the same is an action of its own, `Lose`, allowed
for the queues in `Losing` only: the specification of a service that keeps what
`pdmqueue.h:54` says has `Losing = {}`, and the code does not implement it for a queue
whose consumer refuses. `PDMQueue` maps a line to what EMT would still feed the consumer, its own list
and the two LIFOs reversed, restricted to the items of that thread.

## 3. Runs

Every action of a model is exercised by them. Each run finishes within four
minutes.

| Run | What it asks | Bounds |
|---|---|---|
| `timer_serial` | `PendingFound`, `ActiveLinked`, `ActiveByState`, `HeadCached`, `ServiceSpec` (refinement), `ArmedFires` (liveness), with serialised calls outside the two races | 2 timers, EMT and one thread, times 0..1, 3 calls, 3 retries |
| `timer_race` | `TypeOK`, `LinkedOnce`, `Sorted` with unserialised callers | 3 timers, EMT sets and stops, a thread stops, times 0..2, 4 calls, 1 retry |
| `timer_destroy` | violated: `ActiveTimersListed` | 2 timers, 4 calls |
| `req_wait` | `TypeOK`, `OneHolder`, `SuccessIsCompletion`, `ServiceSpec` (refinement) | 3 packets, 2 callers and EMT, 4 calls, one of which polls; 1 free packet kept |
| `req_nowait` | `CallsReturn`, `PacketsReturn` (liveness) | 3 packets, one caller, 3 calls |
| `req_polls` | violated: `SuccessIsCompletion` | 2 packets, 2 callers, 3 polls |
| `critsect` | `TypeOK`, `OneKeeper`, `WaitsEmptyHanded`, `QueuedIsOwned`, no deadlock | 2 sections, EMT and two threads, 2 entries each until all is left |
| `critsect_live` | `WaitEnds` (liveness) | 1 section, EMT and two threads |
| `pdmthread` | `TypeOK`, `SuspendedStays`, `NoUseAfterFree`, `SignalIsAnswer`, `NotRevived`, `CallsReturn`, `Terminates` (liveness), no deadlock | 2 threads, any number of calls, of all of which the waits may run out |
| `pdmqueue` | `OnePlace`, `PendingIsFlagged`, `ServiceSpec` (refinement), `Served` (liveness), no deadlock | a queue of 1 and one of 2 items, ring slack 1, EMT and a thread; no lap of the ring; the second queue refuses, and is the one in `Losing` |
| `ata_commands` | `StateConsistent`, `RoomForOne`, `SuspendedIsQuiet`, `IdleIsFree`, `CommandEnds`, `ResetEnds` (liveness), no deadlock, outside all ten races | commands of 0, 1 and 2 pieces, by PIO and DMA; 3 failures, suspensions and resets |
| `object` | `CountsAreTrue`, `UninitAlone`, `WaitsEnd` (liveness) | 3 clients with 2 calls each, 2 closers, the owner |

Why the bounds suffice: two timers make every shape of list operation (head,
tail, middle needs three: `timer_race`); a compare-and-swap is lost to one other
thread, and what more threads can do about `LinkedOnce` is proved; a further
timer or call repeats these interleavings (three calls are what it takes to show
either race of section 2.1; with four, 1.5 million states and no error, `timer_serial`
takes too long to be run each time). Three packets with two
callers let a packet be recycled while another is queued and a third is EMT's;
the cap of one on the free lists makes packets go back to the heap. Two threads
can both wait while a third passes a section on, and two sections taken in both
orders make the smallest circle. `MaxHold` lets a section be nested once, which
is what distinguishes the last leave. Counters that only bound the behaviours
(`calls`, `polls`, `entries`) have no counterpart in the code; where a run stops
because of them (`TMTimer`, `VirtualBoxBase`), deadlock is not checked; the
others never stop and are checked for it.

Two PDM threads, since EMT calls one at a time and the threads share nothing: the
second shows that a call on one disturbs no other. A ring of two and one of three
places go round after a few items, and a flush of two items has a last one and one
before it; a thread is not passed by a whole round of the ring while it is
between reading and exchanging the tail (`MayLap = FALSE`), which in the code takes 17
allocations, because of `PDMQUEUE_FREE_SLACK`. With `MayLap = TRUE` TLC finds `OnePlace`
violated, and with `Losing = {}` `ServiceSpec`. Two pieces give a transfer a first and
a last one, which is where it pauses for the guest; three troubles let a transfer
fail and the VM be suspended and reset before it is redone. Three clients let one
re-initialise the object while another waits for that and a third uses it, and two
closers meet.

The timer runs differ in what callers may do, and so in what holds. With
unserialised callers `LinkedOnce` holds, but not the properties of the active
list: EMT stores `ACTIVE` or `STOPPED` over a state another thread has changed
since EMT read it (`TMAll.cpp:1031`, `1060`), and a stop that loses its race
falls through (`:538`). Serialising the calls ends the second (the fall-through is
still reached, but its compare-and-swap cannot succeed) and not the first: a set and a
stop, one after the other, both fit into the stretch between EMT's read and its store.
Without `Overtake` in `Avoided` TLC finds `PendingFound`, `ActiveByState`, `HeadCached`
and `ServiceSpec` violated, without `DestroyStopped` `ActiveByState`. With serialised
callers that avoid both everything but the order of the active list holds. So
`timer_serial` shows what the queue keeps where the two races do not come, and not that
they do not; `timer_race` has the race `Overtake`. The order needs that EMT alone sets timers, because an
insertion compares with timers whose expire time was changed by calls EMT has yet
to carry out (`:1067`). The comment "When no scheduling is pending, this list is
will be ordered by expire time" (`TMInternal.h:236`) is true in that setting only.

`OneHolder` speaks of what EMT holds only while nobody has polled (`AtWork`):
once a caller can free a packet that is completed but not yet signalled, EMT
still touches it; that is the subject of `req_polls`.

### Fairness

Threads that are in a call run on (weak fairness of their steps): the host
schedules every thread. EMT runs on as well. Nobody has to make another call,
and no property relies on the second after which a sleeping EMT looks again
(`WaitTimeout` is not fair), so a lost wakeup is seen. The 100 Hz timer keeps
polling and the clock of the queue advances up to its bound. In `CritSect`
threads leave what they entered (a convention of all callers), an auto-reset
event does not for ever wake another waiter (strong fairness of `Wait`), and
EMT comes back from the guest only if `VM_FF_TO_R3` is raised: the flag is
tested each time before the guest is resumed (strong fairness of
`ExitGuest /\ toR3`), while nothing else need ever bring it back. In `PDMQueue`
EMT does come back by itself: interrupts of the host, the 100 Hz timer at least,
end every stay in the guest, and nothing else would announce an item to it.

In `PDMThread` EMT goes on with its call and every thread with its steps, while
no wait has to run out and nobody has to call: what ends a wait is the other's
signal. In `AtaController` the medium answers and the section is handed to who
waits for it (strong fairness of the thread), EMT goes on and serves requests when
it comes by (strong fairness of `Serve`), the driver goes on with a command
as it is able to, and the user resumes a suspended VM in the end: else no command
would have to end. In `VirtualBoxBase` whoever has begun a call goes on with it;
nobody has to call, to initialise or to uninitialise.

## 4. Disagreements found

* `timer_destroy` (`TMAll.cpp:305`). A timer that was set and stopped but not
  yet scheduled is in `PENDING_STOP_SCHEDULE` and on no active list.
  `TMTimerDestroy` makes it `PENDING_STOP_DESTROY`, whose handling unlinks it:
  a timer with no predecessor is taken for the head, and the head becomes its
  (null) successor. The other active timers are lost. The sanity check of the
  queues, "check that active timers all are in the active lists"
  (`TMAll.cpp:1277`), fails.
* `req_polls` (`VMReq.cpp:837`). A request is `COMPLETED` before its event is
  signalled. A caller that polls, as `VMR3Reset` and `VMR3Destroy` do, may free
  the packet in between. Another caller recycles it, and the late signal ends
  its wait: `VMR3ReqWait` says success for a request that is still queued.

Met while modelling, without a run of its own:

* `VMReq.cpp:545`. EMT of a VM that does not execute finds requests through
  `pReqs`, but `VMR3ReqProcess` clears `VM_FF_REQUEST` before the requester has
  raised it. The flag stays, every wait returns at once, and EMT spins until the
  next request. Nothing is lost; a processor is.
* `TMAll.cpp:1031`, `:1060`. EMT stores the state it has worked out over the one a call
  has made meanwhile, and the call, which has returned, is lost. That calls on one timer
  are serialised does not help (the race `Overtake`, section 2.1).
* `PDMQueue.cpp:719`. "If false the item will not be removed and the flushing will
  stop" (`include/VBox/pdmqueue.h:54`), but the last item of a flush, when it is
  refused, is neither put back nor freed. `QueueService` has this as the action `Lose`;
  without it (`Losing = {}`) the refinement fails. `OnePlace` asks for no loss only of
  the queues whose consumer refuses nothing. Items that are put back wait for the next insertion:
  nobody raises the flag for them.
* `PDMAllQueue.cpp:58`. If the ring goes round between the read of an item and the
  exchange of the tail, two producers hold the same item (`MayLap`).
* `PDMThread.cpp:843`, `:608`. `PDMR3ThreadSuspend` may see the state `SUSPENDED`
  before the thread has signalled its user event. The next resume resets the event,
  the late signal ends its wait while the state is still `RESUMING`, and it
  terminates the thread: the wait is not the one "for the thread to reach the running
  state" (`:928`). A thread that is suspended when it is destroyed is
  never woken (`:368`), though the comment at `:329` says that destroying "will wakeup
  the thread", and the list of threads has no members (2.4), in spite of the
  assertion at `:407`.
* `PDMThread.cpp:146`, `:158`. A creation whose wait runs out waits once more, ignores
  the result and frees what the thread goes on to use. It frees it with `MMHyperFree`
  (`:163`), though it comes from `MMR3HeapAllocZEx` (`:103`).
* `DevATA.cpp:4094`, `:4095`. Between becoming idle and asking EMT to suspend the VM, the
  VM may be suspended and resumed. The resume signals the thread, and the request that
  comes after it suspends the VM again while the thread works (`ResumeInRedo`).
* `DevATA.cpp:5196`, `:5604`. After 20 s `ataSuspend` goes on, with an assertion that
  release builds do not have, and the VM is suspended with an access to the medium under
  way (`SlowMedium`).
* `DevATA.cpp:1372`. The failure is reported to EMT with the lock held and before the
  channel is idle. If EMT waits for idle in `ataSuspend`, each waits for the other for
  20 s; if the guest has entered a port handler, for ever (`AccessInFailure`).
* `ataSuspendRedo` (`DevATA.cpp:4088`): "Also suspends EMT, because it's waiting for
  I/O to make progress" (`:4081`). The thread holds the lock while it waits for EMT to
  serve the request. If EMT enters the section for a port access first, both wait for
  ever (`AccessInFailure`).
* A method that ends while another thread re-initialises the object hits the assertion
  at the end of `releaseCaller` (`VirtualBoxBase.cpp:246`) and stays counted, so that
  a later uninit hangs (`ReleaseInSpan`); yet "it is guaranted that the object will
  remain in the Ready (or in the Limited) state at least until #releaseCaller()"
  (`:75`). An uninit that begins during the span is only asserted not to, and the end
  of the span makes the object usable again while it is taken down (`UninitInSpan`).
  And a limited caller that had to wait fails if the initialisation ends in the state
  `Limited` (`:180`), in which it would have been let in without the wait.

The races that `AtaController` avoids, and what TLC finds if one is let in:

| Race | What happens |
|---|---|
| `FailUnderReset`: a transfer fails and the channel is reset before the redo | `RoomForOne`: the request is put again beside those of the reset |
| `AccessInFailure`: the guest accesses a port before the failure has suspended the VM | `CommandEnds`: EMT waits for the lock, its owner for EMT |
| `ResetInDma`: the VM is reset during a DMA command | `RoomForOne`, or a request that does not fit the state: `ataReset` clears the ring while the thread puts its own request |
| `ResetInRedo`: the VM is reset while a failed transfer waits for its redo | `RoomForOne`, `IdleIsFree`, `SuspendedIsQuiet`: the redo is forgotten while its request is still in the ring; or `ataReset` waits for a thread that sleeps |
| `SuspendInRedo`: a resumed VM is suspended before the thread woke up | `SuspendedIsQuiet`: "Keep this thread from doing anything as long as EMT is suspended" (`DevATA.cpp:4118`) |
| `ResumeInRedo`: the VM is resumed while the thread keeps still but EMT has not served its request to suspend the VM | `SuspendedIsQuiet`: the request suspends the VM while the thread, which was signalled, goes on |
| `SlowMedium`: the medium takes longer than the 20 s that `ataSuspend` waits | `SuspendedIsQuiet` |
| `ResetAgain`: a reset is asserted before the last one is over | `IdleIsFree`: the `RESET_CLEARED` of the first ends the second |
| `SlowFetch`: a whole reset comes between fetching a request and reading its type | `IdleIsFree`: the thread reads the request of the reset in the old slot |
| `SplitBuffer`: a piece ends within a DMA descriptor, and the channel is reset | the inner loop of `ataDMATransfer` does not end: "This forces the loop to exit immediately" (`:4027`) leaves only the outer one |

## 5. Theorems

Each component has its theorems in a module of its own, `<module>_proofs`. They hold
for every value of the constants that the assumptions of the module allow (sets of
threads, timers, packets, sections and so on of any size, every bound), and under the
hypotheses in the table; TLC evaluates the assumptions in the runs. `SequenceFacts`
has the lemmas on sequences that several of them need: prefixes, rests, reversals and
removals, and what becomes of their ranges and of injectivity.

| Theorem | States | Hypotheses |
|---|---|---|
| `TMTimer_proofs!TypeCorrect` | `[]TypeOK` | - |
| `LinkedOnceAlways` | `[]LinkedOnce` | - |
| `PendingFoundAlways` | `[]PendingFound` | `Serialised`, `Races \subseteq Avoided` |
| `ActiveLinkedAlways`, `ActiveByStateAlways`, `HeadCachedAlways` | `[]ActiveLinked`, `[]ActiveByState`, `[]HeadCached` | the same |
| `SortedAlways` | `[]Sorted` | the same, `"Set" \notin OtherOps` |
| `TMTimer_proofs!ServiceRefined` | `TMTimer` implements `TimerService` | the same, `MaxRetries >= 3` |
| `VMReq_proofs!ReqTypes` | `[]TypeOK` | - |
| `OneHolderAlways` | `[]OneHolder` | `"noWait" \notin Modes` |
| `SuccessAlways` | `[]SuccessIsCompletion` | `"noWait" \notin Modes`, `MaxPolls <= 1` |
| `VMReq_proofs!ServiceRefined` | `VMReq` implements `RequestService` | the same |
| `CritSect_proofs!SectTypes` | `[]TypeOK`, with the bounds of the counters | `IsFiniteSet(Others)` |
| `OneKeeperAlways`, `WaitsEmptyHandedAlways`, `QueuedIsOwnedAlways` | `[]OneKeeper`, `[]WaitsEmptyHanded`, `[]QueuedIsOwned` | - |
| `PDMThread_proofs!ThreadTypes` | `[]TypeOK` | - |
| `SuspendedStaysAlways`, `NoUseAfterFreeAlways`, `SignalIsAnswerAlways`, `NotRevivedAlways` | `[]SuspendedStays`, `[]NoUseAfterFree`, `[]SignalIsAnswer`, the action property `NotRevived` | - |
| `SafeIfCreatedInTime` | no thread at all touches what is freed | `"Create" \notin Slow` |
| `PDMQueue_proofs!OnePlaceAlways`, `FlaggedAlways` | `[]OnePlace`, `[]PendingIsFlagged` | `~MayLap` |
| `AtaController_proofs!AtaTypes` | `[]TypeOK`, the owner of the lock included | - |
| `StateConsistentAlways`, `RoomForOneAlways`, `SuspendedIsQuietAlways`, `IdleIsFreeAlways` | `[]StateConsistent`, `[]RoomForOne`, `[]SuspendedIsQuiet`, `[]IdleIsFree` | `Harmful \subseteq Avoided` |
| `VirtualBoxBase_proofs!UninitAloneAlways`, `CountsAreTrueAlways` | `[]UninitAlone`, `[]CountsAreTrue` | `NoRace` |

The hypotheses are what the runs assume as well, and they are needed: without them
the code does not do what the theorem says (`SafeIfCreatedInTime` says more than its run,
in which creations do run out). The calls on one timer are serialised and meet neither
of the two races of section 2.1, and the retry loops of the timer API give up after 1000
turns in the code, of which three are enough. `FlaggedAlways` is the exception:
`~MayLap` is what makes the list of pending items one that can be spoken of.
The order of the active list needs that EMT alone sets timers (section 3); the others
may stop and destroy them.
A caller that does not wait reads the flags of a packet that may be somebody else's
(`VMReq.cpp:551`), and a second poll leads to the disagreement `req_polls`. The code
has finitely many threads; only the bound on `cLockers` depends on it. `Harmful`: the
eight races of `AtaController` that break a safety property (section 4): without
`ResetInRedo`, `SuspendInRedo`, `ResumeInRedo` or `SlowMedium` among them TLC finds
`SuspendedIsQuiet` violated, without `FailUnderReset`, `ResetInDma` or `ResetInRedo`
`StateConsistent` or `RoomForOne`, without `FailUnderReset`, `ResetInRedo`, `ResetAgain`
or `SlowFetch` `IdleIsFree`. `NoRace`: the two races of section 4, which the run `object` avoids too.

### Timers

`LinkedOnce` is strengthened to `LinkInv`: the types; the shape of the local variables
(which label goes with which call and which state was read); `LinkedOnce`; and that
the timer EMT has picked is still pending until EMT deals with it. A thread links a
timer only after a compare-and-swap that took it from a settled state to a pending
one. Before it, the timer was on no list, in no batch, picked by nobody and about to
be linked by nobody, since all of these are pending. After it, every other
compare-and-swap sees a pending state and does not link. EMT settles a timer only when
it has picked it, when it is on no list and nobody links it. The two cases in which
EMT links a timer again, because its expire time is being written, leave it pending.

With serialised calls `SerialInv` adds whose timer it is: one thread at most has a call
on a timer, what it has read of the state is still so unless EMT has since dealt with
the timer, and what EMT has read is so unless that is a state EMT does not store over (`PickInv`).
From this a pending timer is found.

`ActiveInv` adds the active list. `Active` is the least set that holds the head and is
closed under `next`, so what is reachable can be reasoned about without recursion: the
lemmas show which set it becomes when a timer is put in front, behind another one or
taken out. Its other parts are that back links are right, that the states agree with
it but for the timer being inserted (`Inserting`), that the cached expire time is that
of the head, and that the insertion loop stands on a timer of the list (`InsInv`).

`OrderInv` adds the order. EMT carries out a set before it begins another call, so one
timer at most is `Due`, set and not yet scheduled, and EMT is on its way to it
(`DueInv`). While that one is still on the list, at its old place with its new expire
time, only the timers around it are in order (`Ordered`): an invariant that speaks of
the whole list would not be inductive. EMT unlinks it before it inserts it, and the
insertion loop has passed only timers that are due before it (`Passed`).

For the refinement (`RefInv` adds `runNow <= now`) every step maps to a step of
`TimerService` or a stutter: a call begins with `Begin`; it takes effect with the
compare-and-swap, for a set with the store of the final state; returning is a
step of its own; `RunOne` fires; all that EMT schedules, links and unlinks is a
stutter, since the deadlines are those of the timers whose state says that they are armed.

### Requests

`ReqInv` says where each packet is: in one list, once, with state `QUEUED`; EMT's, in
the state of its label; with the caller that has it in `pkt`, in the state of *its*
label; or free and with nobody (`HolderInv`). No two threads have the same packet.
For the events (`EventsInv`) it says who may still be signalled, up to the end of the
first call that polls (`FirstPoll`): an event is only signalled for a request that is
done with, and a caller that has been woken finds its packet completed and out of
EMT's hands.

The refinement adds `OwnedInv`, a request that is not completed has its caller, and
`BatchInv`, EMT has a batch only while it works on one. `RequestService!queue` is then
the owners of the packets EMT has not begun: the push is `Submit`; `Begin` is `Start`,
or `StartOwn` for a request of EMT's own; `Complete` is `Finish`; freeing the packet is
`Return`; all else stutters, among it the exchange that takes the list and its
reversal, which leave the sequence as it is.

### Critical sections

`SectInv` counts. `EntriesInto(s)` is the set of entries into a section, nested ones,
those under way and a queued leave; `cLockers` is its cardinality less one
(`CountInv`), and while it is not empty exactly one of the threads and the signalled
event keeps the section (`KeepInv`). `OwnInv` ties owner and nesting to the entries,
with EMT's exception for a section it has in its hands or has queued. For
`RTCritSectEnterMultiple` the invariant describes what is left of a call (`Script`):
leaves first, then the section that was missed, then tries in the order of the array,
so that what the thread holds is what is not to come (`Held`). `BoundInv`, inductive
beside it, has the bounds: a thread is no deeper in a section than it has made entries,
and has an entry left while it enters; in `PDMR3CritSectFF` EMT holds the section it
is leaving and no other.

### Threads, queues, objects

`ThreadInv` relates what EMT knows of a thread to where the thread is, for each of
EMT's calls (`CreateInv`, `SuspendInv`, `ResumeInv`, `RunInv`): which states the thread
may be in while EMT waits, and that a signal EMT waits for comes from a thread that
sleeps or has ended, whichever earlier wait has run out. `SignalInv` says whose signal it
is: outside `late` the user event is clear until the step that answers the call.
Of an abandoned thread only the types are claimed.

`QueueInv` puts every item in one place (`Once`, `Apart`): a free slot of the ring, a
producer, one of the LIFOs, or EMT; and says what a producer that has read the tail
will find when it exchanges it, by how far the tail has moved since (`ReadInv`).
`FlaggedAlways` needs only the types beside it, as the order of raising and clearing
does the rest.

In `ObjectInv` both counters equal the cardinality of the sets of threads they stand
for (`CountInv`, `HearInv`); without this nothing follows from a counter that is 0.
`UserInv` says that nobody is past `addCaller` in the states before and during the
first initialisation. `SpanInv` ties a span to the state `InInit` and to the write
lock, so that two clients are never in a ready span at a time. `CloseInv` says that
only one thread is in an uninit span and that the event it waits for is set only after
the last caller has gone. Uninit goes on at once only if the count is 0, and after the
wait only if the event is set; callers are refused from `InUninit` on, so that the set
stays empty once it is.

### ATA controller

Nothing can be said of the ring without the thread: what may be in it depends on
where the thread is and on which request it has in hand, which a reset may have
cleared from the ring since. `IInv` therefore describes the ring separately for the
three conditions the channel can be in. `CalmRing`: one transfer, and a second
request only until the thread removes the first, the DMA that is to follow a NEW or
the copy of the request to be redone. `ResettingRing`: the requests of a reset of the
driver, the first of them perhaps while the thread still has a transfer in hand.
`RebuildingRing`: what `ataReset` finds, and what it puts instead. `RoomForOne` is
then to be seen, as no condition has more than two requests.

What is to come and what the thread does next must fit the registers: `StepFits` has
the state that the release assertion asks for; `CommandFits` says that a request
which has not been begun finds its parameters, status and source or sink (`Ahead`),
what the steps of a transfer hand on to each other (`UnderWay`), and that when the
thread is through the command is over, asks for data or waits for the bus master
(`Over`); `NoneFits` that nothing is left when there is no command, from which
`IdleIsFree` follows; `ResetFits` that from `RESET_ASSERTED` on nothing is left of
a transfer. `RedoFits` says from when to when a redo is flagged and the thread keeps
still, `VmFits` what a suspended VM leaves in the ring, `LineFits` and `DmaFits` who
resets and for which command there is DMA. The types, with what the step of the
thread says of its request (`StepTypes`), are inductive by themselves, whatever
races there are; each of the other parts needs the others. There is one lemma for
each action, in which each part that the action disturbs is a step of its own and
cites the parts it follows from. A report that EMT serves does not depend on the ring:
`RedoFits` and `VmFits` treat a thread that reports like one that is about to redo, and
a suspension that has given up waiting leaves just that thread.

### Model-checked only

* Liveness (`ArmedFires`, `CallsReturn`, `PacketsReturn`, `WaitEnds`, `Terminates`,
  `Served`, `CommandEnds`, `ResetEnds`, `WaitsEnd`): proofs about fairness are out of
  the prover's reach.
* `PDMQueue` implementing `QueueService`: the refinement mapping selects the items of
  one thread with `SelectSeq`, and what a recursive definition computes needs an
  induction over data.

## 6. Plan

Done: the protocols through which threads reach EMT, the threads and queues of
devices, the ATA controller on top of them, the objects of Main. Next:

1. `VMState`: the life cycle on top of `RequestService`, and with it the
   suspension that `AtaController` has as an environment.
2. Proofs: `OneHolder` of `VMReq` with a caller that does not wait, and what of
   `QueueService` can be said of `PDMQueue` without selecting from a sequence.
3. The nine free lists of `VMReq`; the second drive and the abort of `AtaController`;
   the candidates of section 7.

One further abstract specification is worth stating: a plain lock, which
`CritSect` implements.

## 7. Not modelled

* TM: the run loop of the virtual-sync queue with catch-up; `TMR3TimerSave` and
  `Load`; `VM_FF_TIMER` shared by four queues (it is raised more often than in
  the model); clocks as arithmetic.
* VMReq: the nine free lists (a list of more than 25 packets is split in a way
  that loses the first part, `VMReq.cpp:276`); requests EMT makes while it
  serves another; termination; callers that do not wait together with others,
  where `VMReq.cpp:551` reads the flags of a packet EMT may have given to
  somebody else.
* CritSect: deletion with waiters; `RTCRITSECT_FLAGS_NO_NESTING`; the list of
  sections of the VM (`pdmR3CritSectDeleteByKey` stops after the first section
  of a device, `PDMCritSect.cpp:234`). The exit event is in `AtaController`, as one
  step with the leave; that a nested leave signals it too (`PDMAllCritSect.cpp:116`) is
  not seen there, as the port handlers do not nest the section.
* PDMThread: the list (2.4), from which destroying its last thread would take away the
  tail, correctly only if nothing is left (`PDMThread.cpp:411`); what an abandoned thread finds in the memory that was
  freed, which is taken to be what was there; the heap a block belongs to.
* PDMQueue: queues flushed by a timer (`pdmR3QueueTimer`), creation and
  destruction; `PDMQueueFlush`, whose only use is compiled out. Consumers of
  queues that the guest context uses do not refuse items, an assumption.
* AtaController: ATAPI and transfers in several parts, the second drive, aborts
  (`IDLE IMMEDIATE`, `DEVICE RESET`), saved state, power off, the handlers in the
  guest context, reads of the data port within a transfer.
* VirtualBoxBase: dependent children, calls of the thread whose span it is, a
  second initialisation after an uninit.
* Memory is sequentially consistent: the code uses locked instructions of x86
  at every hand-over, and its plain stores are not reordered with one another
  there.
* The rest of the VMM, the devices, Main and the front ends, for the reasons in
  `PROJECT.json`: emulated hardware needs a model of the machine before a
  property of it can be stated, and what is I/O or presentation has none.
  Candidates after the plan: `Main/hgcm/HGCMThread.cpp`,
  `Runtime/generic/semsrw-generic.cpp`, the ring buffers of
  `Devices/Network/SrvIntNetR0.cpp`, the ping-pong of `VMM/DBGF.cpp`.

## 8. Running

`tlc -config MCTMTimer_serial.cfg MCTMTimer` checks a run, with the module and
configuration `PROJECT.json` names for it. `tlapm TMTimer_proofs.tla` checks the
proofs of a module; likewise `VMReq_proofs`, `CritSect_proofs`, `PDMThread_proofs`,
`PDMQueue_proofs`, `AtaController_proofs`, `VirtualBoxBase_proofs` and `SequenceFacts`.
