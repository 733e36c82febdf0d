------------------------------ MODULE PDMQueue ------------------------------
(***************************************************************************)
(* The queues of PDM (VMM/PDMQueue.cpp, VMM/VMMAll/PDMAllQueue.cpp), by    *)
(* which any thread in ring-3, and EMT in ring-0 and in the guest context, *)
(* hands items to a device or a driver that consumes them on EMT.          *)
(*                                                                         *)
(* Free items are kept in a ring that all producers take from.  Pending    *)
(* ones are pushed on one of two lock-free LIFOs, that of the host or that *)
(* of the guest context; then the forced action VM_FF_PDM_QUEUES is raised *)
(* and EMT flushes the queues.  A consumer may refuse an item: then it and *)
(* those behind it are put back.  One action is one access to what threads *)
(* share.                                                                  *)
(***************************************************************************)
EXTENDS Naturals, SequencesExt

CONSTANTS
    Queues,      \* pQueuesForced: the queues flushed by forced action, in order
    cItems,      \* the number of items of each queue
    Slack,       \* PDMQUEUE_FREE_SLACK
    Others,      \* the threads other than EMT
    EMT, Nil,
    Producers,   \* the threads that insert into each queue
    GCEnabled,   \* the queues that can be used in the guest context
    Refusing,    \* the queues whose consumer may refuse an item
    MayLap       \* the free ring may go round while a thread allocates

Threads == Others \union {EMT}
QueueSet == ToSet(Queues)
Ring(q) == cItems[q] + Slack
Slots(q) == 0 .. Ring(q) - 1
ItemsOf(q) == {<<q, i>> : i \in 0 .. cItems[q] - 1}
Items == UNION {ItemsOf(q) : q \in QueueSet}

ASSUME PDMQueueAssumption ==
    /\ EMT \notin Others /\ Nil \notin Threads \union Items \union QueueSet
    /\ Queues \in Seq(QueueSet)
    /\ cItems \in [QueueSet -> Nat \ {0}] /\ Slack \in Nat \ {0}
    /\ Producers \in [QueueSet -> SUBSET Threads]
    /\ GCEnabled \subseteq QueueSet /\ Refusing \subseteq QueueSet \ GCEnabled
    /\ MayLap \in BOOLEAN

VARIABLES
    ring, freeHead, freeTail,   \* aFreeItems, iFreeHead, iFreeTail of each queue
    pendingHC, pendingGC,       \* the LIFOs of each queue, the latest item first
    ff,                         \* VM_FF_PDM_QUEUES
    pc, on, item,               \* the next step of each thread, its queue and its item
    slot, top,                  \* iFreeTail and pPending as the thread read them
    moved,                      \* history: iFreeTail was written since the thread read it
    by,                         \* the thread that has allocated each item
    emt,                        \* the next step of EMT
    scan, flushed, mode,        \* the queues ahead, the one being flushed, and for whom
    list, cur,                  \* pItems and pCur of pdmR3QueueFlush
    refused                     \* the queues with items put back and not taken since

freeVars  == <<ring, freeHead, freeTail>>
pendVars  == <<pendingHC, pendingGC>>
callVars  == <<pc, on, item, slot, top, moved, by>>
flushVars == <<emt, scan, flushed, mode, list, cur, refused>>
vars == <<freeVars, pendVars, ff, callVars, flushVars>>

Init ==
    /\ ring = [q \in QueueSet |-> [i \in Slots(q) |-> IF i < cItems[q] THEN <<q, i>> ELSE Nil]]
    /\ freeHead = cItems
    /\ freeTail = [q \in QueueSet |-> 0]
    /\ pendingHC = [q \in QueueSet |-> <<>>]
    /\ pendingGC = [q \in QueueSet |-> <<>>]
    /\ ff = FALSE
    /\ pc = [th \in Threads |-> "ready"]
    /\ on = [th \in Threads |-> Nil]
    /\ item = [th \in Threads |-> Nil]
    /\ slot = [th \in Threads |-> 0]
    /\ top = [th \in Threads |-> Nil]
    /\ moved = [th \in Threads |-> FALSE]
    /\ by = [i \in Items |-> Nil]
    /\ emt = "ring3" /\ scan = <<>> /\ flushed = Nil /\ mode = Nil
    /\ list = <<>> /\ cur = Nil
    /\ refused = {}

----------------------------------------------------------------------------
(* PDMQueueAlloc *)

At(th, step) == pc[th] = step
Goto(th, step) == pc' = [pc EXCEPT ![th] = step]
MayCall(th) == At(th, "ready") /\ (th = EMT => emt \in {"guest", "ring3"})

\* A thread that is done forgets what it read.
Done(th) ==
    /\ Goto(th, "ready")
    /\ on' = [on EXCEPT ![th] = Nil]
    /\ item' = [item EXCEPT ![th] = Nil]
    /\ slot' = [slot EXCEPT ![th] = 0]
    /\ top' = [top EXCEPT ![th] = Nil]
    /\ moved' = [moved EXCEPT ![th] = FALSE]
    /\ UNCHANGED by

NextSlot(q, i) == (i + 1) % Ring(q)

\* Mutant: an empty ring is not recognised.
Exhausted_Never(q) == FALSE
Exhausted(q) == freeTail[q] = freeHead[q]

ReadTail(th, q) ==
    /\ IF Exhausted(q)
       THEN Done(th)
       ELSE /\ Goto(th, "take")
            /\ on' = [on EXCEPT ![th] = q]
            /\ slot' = [slot EXCEPT ![th] = freeTail[q]]
            /\ item' = [item EXCEPT ![th] = ring[q][freeTail[q]]]
            /\ moved' = [moved EXCEPT ![th] = FALSE]
            /\ UNCHANGED <<top, by>>
    /\ UNCHANGED <<freeVars, pendVars, ff, flushVars>>

Alloc(th, q) ==
    /\ MayCall(th) /\ th \in Producers[q]
    /\ (th = EMT /\ emt = "guest") => q \in GCEnabled
    /\ ReadTail(th, q)

AllocAgain(th) == At(th, "again") /\ ReadTail(th, on[th])

Taking(q) == {th \in Threads : At(th, "take") /\ on[th] = q}

\* Mutant: the tail is written whatever it is by now.
TailUnchanged_Unchecked(th) == TRUE
TailUnchanged(th) == freeTail[on[th]] = slot[th]

\* The tail is what the thread read, but not for having stayed so: the ring went
\* round in between and the item read may be anybody's.
Lapped(th) == freeTail[on[th]] = slot[th] /\ moved[th]

Take(th) ==
    /\ At(th, "take")
    /\ Lapped(th) => MayLap
    /\ slot' = [slot EXCEPT ![th] = 0]
    /\ LET q == on[th] IN
         IF TailUnchanged(th)
         THEN /\ freeTail' = [freeTail EXCEPT ![q] = NextSlot(q, slot[th])]
              /\ moved' = [u \in Threads |-> u # th /\ (u \in Taking(q) \/ moved[u])]
              /\ by' = [by EXCEPT ![item[th]] = th]
              /\ Goto(th, "insert")
              /\ UNCHANGED item
         ELSE /\ item' = [item EXCEPT ![th] = Nil]
              /\ moved' = [moved EXCEPT ![th] = FALSE]
              /\ Goto(th, "again")
              /\ UNCHANGED <<freeTail, by>>
    /\ UNCHANGED <<ring, freeHead, pendVars, ff, on, top, flushVars>>

----------------------------------------------------------------------------
(* PDMQueueInsert *)

InGuest(th) == th = EMT /\ emt = "guest"
Top(q) == IF pendingHC[q] = <<>> THEN Nil ELSE Head(pendingHC[q])

Insert(th) ==
    /\ At(th, "insert") /\ ~InGuest(th)
    /\ top' = [top EXCEPT ![th] = Top(on[th])]
    /\ Goto(th, "push")
    /\ UNCHANGED <<freeVars, pendVars, ff, on, item, slot, moved, by, flushVars>>

Push(th) ==
    /\ At(th, "push")
    /\ LET q == on[th] IN
         IF Top(q) = top[th]
         THEN pendingHC' = [pendingHC EXCEPT ![q] = <<item[th]>> \o @] /\ Goto(th, "raise")
         ELSE Goto(th, "insert") /\ UNCHANGED pendingHC
    /\ UNCHANGED <<freeVars, pendingGC, ff, on, item, slot, top, moved, by, flushVars>>

\* Nobody else uses the LIFO of the guest context meanwhile.
PushGuest(th) ==
    /\ At(th, "insert") /\ InGuest(th)
    /\ pendingGC' = [pendingGC EXCEPT ![on[th]] = <<item[th]>> \o @]
    /\ Goto(th, "raise")
    /\ UNCHANGED <<freeVars, pendingHC, ff, on, item, slot, top, moved, by, flushVars>>

Raise(th) ==
    /\ At(th, "raise")
    /\ ff' = TRUE
    /\ Done(th)
    /\ UNCHANGED <<freeVars, pendVars, flushVars>>

----------------------------------------------------------------------------
(* EMT between the guest and the forced actions *)

Then(step) == emt' = step
In(step) == emt = step

ExitGuest ==
    /\ In("guest") /\ At(EMT, "ready")
    /\ Then("ring3")
    /\ UNCHANGED <<freeVars, pendVars, ff, callVars, scan, flushed, mode, list, cur, refused>>

EnterGuest ==
    /\ In("ring3") /\ At(EMT, "ready") /\ ~ff
    /\ Then("guest")
    /\ UNCHANGED <<freeVars, pendVars, ff, callVars, scan, flushed, mode, list, cur, refused>>

\* PDMR3QueueFlushAll.
FlushAll ==
    /\ In("ring3") /\ At(EMT, "ready") /\ ff
    /\ ff' = FALSE
    /\ scan' = Queues
    /\ Then("scan")
    /\ UNCHANGED <<freeVars, pendVars, callVars, flushed, mode, list, cur, refused>>

\* PDMQueueFlush has EMT execute PDMR3QueueFlushWorker, as a request: these come
\* after the queues.
FlushWorker(q) ==
    /\ In("ring3") /\ At(EMT, "ready") /\ ~ff
    /\ flushed' = q /\ mode' = "worker"
    /\ Then("take")
    /\ UNCHANGED <<freeVars, pendVars, ff, callVars, scan, list, cur, refused>>

Pending(q) == pendingHC[q] # <<>> \/ pendingGC[q] # <<>>

Scan ==
    /\ In("scan") /\ scan # <<>>
    /\ scan' = Tail(scan)
    /\ IF Pending(Head(scan))
       THEN flushed' = Head(scan) /\ mode' = "first" /\ Then("take")
       ELSE UNCHANGED <<flushed, mode, emt>>
    /\ UNCHANGED <<freeVars, pendVars, ff, callVars, list, cur, refused>>

\* Mutant: the forced action is cleared once the queues are flushed.
FlagAfter_Cleared == FALSE
FlagAfter == ff

ScanEnd ==
    /\ In("scan") /\ scan = <<>>
    /\ ff' = FlagAfter
    /\ Then("guest")
    /\ UNCHANGED <<freeVars, pendVars, callVars, scan, flushed, mode, list, cur, refused>>

----------------------------------------------------------------------------
(* pdmR3QueueFlush *)

\* Both LIFOs are reversed, and the items of the guest context come first.
TakePending ==
    /\ In("take")
    /\ list' = Reverse(pendingGC[flushed]) \o Reverse(pendingHC[flushed])
    /\ pendingHC' = [pendingHC EXCEPT ![flushed] = <<>>]
    /\ pendingGC' = [pendingGC EXCEPT ![flushed] = <<>>]
    /\ refused' = refused \ {flushed}
    /\ Then("feed")
    /\ UNCHANGED <<freeVars, ff, callVars, scan, flushed, mode, cur>>

FlushEnds(step) == flushed' = Nil /\ mode' = Nil /\ Then(step)

\* What EMT does after a flush, and after one that the consumer has stopped.
AfterFlush ==
    CASE mode = "first" /\ pendingHC[flushed] # <<>> ->
            mode' = "second" /\ Then("take") /\ UNCHANGED <<flushed, scan>>
      [] mode = "worker" -> FlushEnds("clear") /\ UNCHANGED scan
      [] OTHER -> FlushEnds("scan") /\ UNCHANGED scan
AfterStop == FlushEnds(IF mode = "worker" THEN "guest" ELSE "scan") /\ UNCHANGED scan

Accept ==
    /\ In("feed") /\ list # <<>>
    /\ cur' = Head(list) /\ list' = Tail(list)
    /\ Then("free")
    /\ UNCHANGED <<freeVars, pendVars, ff, callVars, scan, flushed, mode, refused>>

\* Nothing is put back after the last item, and the item is not freed either.
RefuseLast ==
    /\ In("feed") /\ flushed \in Refusing /\ Len(list) = 1
    /\ list' = <<>>
    /\ Then("feed")
    /\ UNCHANGED <<freeVars, pendVars, ff, callVars, scan, flushed, mode, cur, refused>>

Refuse ==
    /\ In("feed") /\ flushed \in Refusing /\ Len(list) > 1
    /\ Then("putBack")
    /\ UNCHANGED <<freeVars, pendVars, ff, callVars, scan, flushed, mode, list, cur, refused>>

\* What is put back is older than what is pending.  Mutant: it is not reversed.
WithOlder_InOrder(pending) == pending \o list
WithOlder(pending) == pending \o Reverse(list)

PutBack ==
    /\ In("putBack")
    /\ pendingHC' = [pendingHC EXCEPT ![flushed] = WithOlder(@)]
    /\ refused' = refused \union {flushed}
    /\ list' = <<>>
    /\ AfterStop
    /\ UNCHANGED <<freeVars, pendingGC, ff, callVars, cur>>

FlushDone ==
    /\ In("feed") /\ list = <<>>
    /\ AfterFlush
    /\ UNCHANGED <<freeVars, pendVars, ff, callVars, list, cur, refused>>

\* pdmR3QueueFree: the item, then the head.
FreeItem ==
    /\ In("free")
    /\ ring' = [ring EXCEPT ![flushed][freeHead[flushed]] = cur]
    /\ Then("freed")
    /\ UNCHANGED <<freeHead, freeTail, pendVars, ff, callVars, scan, flushed, mode, list, cur, refused>>

FreeHead ==
    /\ In("freed")
    /\ freeHead' = [freeHead EXCEPT ![flushed] = NextSlot(flushed, @)]
    /\ cur' = Nil
    /\ by' = [by EXCEPT ![cur] = Nil]
    /\ Then("feed")
    /\ UNCHANGED <<ring, freeTail, pendVars, ff, pc, on, item, slot, top, moved,
                   scan, flushed, mode, list, refused>>

----------------------------------------------------------------------------
(* The end of PDMR3QueueFlushWorker: the forced action is worked out anew *)

Clear ==
    /\ In("clear")
    /\ ff' = FALSE
    /\ scan' = Queues
    /\ Then("recalc")
    /\ UNCHANGED <<freeVars, pendVars, callVars, flushed, mode, list, cur, refused>>

\* Mutant: only one of the LIFOs is looked at.
NeedsFlush_Guest(q) == pendingGC[q] # <<>>
NeedsFlush(q) == Pending(q)

Recalc ==
    /\ In("recalc")
    /\ IF scan # <<>> /\ ~NeedsFlush(Head(scan))
       THEN scan' = Tail(scan) /\ UNCHANGED <<emt, ff>>
       ELSE scan' = <<>> /\ ff' = (scan # <<>> \/ ff) /\ Then("guest")
    /\ UNCHANGED <<freeVars, pendVars, callVars, flushed, mode, list, cur, refused>>

----------------------------------------------------------------------------
CallStep(th) ==
    \/ AllocAgain(th) \/ Take(th)
    \/ Insert(th) \/ Push(th) \/ PushGuest(th) \/ Raise(th)

EmtStep ==
    \/ ExitGuest \/ EnterGuest \/ FlushAll \/ Scan \/ ScanEnd
    \/ TakePending \/ Accept \/ PutBack \/ FlushDone \/ FreeItem \/ FreeHead
    \/ Clear \/ Recalc

Next ==
    \/ \E th \in Threads, q \in QueueSet : Alloc(th, q)
    \/ \E th \in Threads : CallStep(th)
    \/ EmtStep
    \/ RefuseLast \/ Refuse
    \/ \E q \in QueueSet : FlushWorker(q)

Spec == Init /\ [][Next]_vars

\* Threads run on in a call, and EMT runs on.  Nobody has to insert an item.
FairSpec ==
    /\ Spec
    /\ \A th \in Threads : WF_vars(CallStep(th))
    /\ WF_vars(EmtStep)

----------------------------------------------------------------------------
(* What is promised *)

CallSteps == {"ready", "take", "again", "insert", "push", "raise"}
EmtSteps == {"guest", "ring3", "scan", "take", "feed", "putBack", "free", "freed",
             "clear", "recalc"}

\* Every variable has its type; a thread has an item in hand between the steps
\* that take and publish it, and EMT has items in hand only while it flushes.
TypeOK ==
    /\ \A q \in QueueSet :
          /\ ring[q] \in [Slots(q) -> ItemsOf(q) \union {Nil}]
          /\ freeHead[q] \in Slots(q) /\ freeTail[q] \in Slots(q)
          /\ pendingHC[q] \in Seq(ItemsOf(q)) /\ pendingGC[q] \in Seq(ItemsOf(q))
          /\ q \notin GCEnabled => pendingGC[q] = <<>>
    /\ ff \in BOOLEAN
    /\ pc \in [Threads -> CallSteps]
    /\ \A th \in Threads :
          /\ pc[th] = "ready" => on[th] = Nil
          /\ pc[th] # "ready" => on[th] \in QueueSet
          /\ pc[th] \in {"take", "insert", "push", "raise"} => item[th] \in ItemsOf(on[th])
          /\ moved[th] \in BOOLEAN /\ (moved[th] => pc[th] = "take")
    /\ by \in [Items -> Threads \union {Nil}]
    /\ emt \in EmtSteps
    /\ flushed \in QueueSet \union {Nil} /\ mode \in {"first", "second", "worker", Nil}
    /\ flushed = Nil => list = <<>> /\ cur = Nil

\* Where an item is: free in the ring, with a producer, pending, or with EMT.
Free(q, i) ==
    \E s \in Slots(q) :
        /\ ring[q][s] = i
        /\ IF freeTail[q] <= freeHead[q]
           THEN s \in freeTail[q] .. freeHead[q] - 1
           ELSE s \notin freeHead[q] .. freeTail[q] - 1

Holders(i) == {th \in Threads : pc[th] \in {"insert", "push"} /\ item[th] = i}

Places(q, i) ==
    Cardinality(Holders(i)) + Cardinality({k \in DOMAIN pendingHC[q] : pendingHC[q][k] = i})
      + Cardinality({k \in DOMAIN pendingGC[q] : pendingGC[q][k] = i})
      + Cardinality({k \in DOMAIN list : list[k] = i})
      + (IF Free(q, i) THEN 1 ELSE 0) + (IF cur = i THEN 1 ELSE 0)

\* No item is in two places, in the free ring, in a producer's hands, on a LIFO or
\* with EMT, although producers read the ring before they take from it and EMT
\* fills it meanwhile, as long as the ring does not go round while one of them
\* allocates; and none is lost whose consumer takes everything (an item that is
\* refused as the last of a flush is lost, PDMQueue.cpp:719).
OnePlace ==
    /\ TypeOK
    /\ \A q \in QueueSet : \A i \in ItemsOf(q) :
          /\ Places(q, i) <= 1
          /\ q \notin Refusing => Places(q, i) = 1

Raising(q) == \E th \in Threads : At(th, "raise") /\ on[th] = q
Ahead(q) ==
    \/ emt \in {"scan", "take", "feed", "putBack", "free", "freed"} /\ q \in ToSet(scan)
    \/ emt = "take" /\ flushed = q
    \/ emt = "clear"
    \/ emt = "recalc" /\ q \in ToSet(scan)

\* The forced action is not lost: when items are pending it is raised, or the
\* producer is about to raise it, or EMT, which clears it first, is still to look
\* at the queue; unless they have been put back, when nobody raises it.
PendingIsFlagged ==
    \A q \in QueueSet : Pending(q) => ff \/ Raising(q) \/ Ahead(q) \/ q \in refused

\* What EMT will feed the consumer if nothing else happens.
Left(q) ==
    (IF flushed = q THEN list ELSE <<>>) \o Reverse(pendingGC[q]) \o Reverse(pendingHC[q])

\* The items of a thread reach the consumer in the order it inserted them, also
\* when some of them were put back meanwhile, and none goes anywhere else, but for
\* what a consumer that refuses loses.
Service == INSTANCE QueueService WITH
    Queues <- QueueSet,
    Losing <- Refusing, taken <- cur,
    line <- [q \in QueueSet |-> [th \in Threads |-> SelectSeq(Left(q), LAMBDA i : by[i] = th)]]
ServiceSpec == Service!Spec

\* An item whose consumer takes everything is consumed, though nobody inserts
\* another one after it.
Served ==
    \A q \in QueueSet \ Refusing : \A i \in ItemsOf(q) :
        i \in ToSet(Left(q)) ~> i \notin ToSet(Left(q))
=============================================================================
