--------------------------- MODULE PDMQueue_proofs ---------------------------
(***************************************************************************)
(* Proofs about PDMQueue: as long as no ring goes round while a thread     *)
(* allocates from it, no item is in two places, none is lost whose         *)
(* consumer takes everything, and the forced action is raised when items   *)
(* are pending, for any number of queues, of items and of threads, and     *)
(* rings of any length.                                                    *)
(***************************************************************************)
EXTENDS PDMQueue, SequenceFacts, FiniteSetTheorems, TLAPS

\* The steps of EMT in pdmR3QueueFlush.
Flushing == {"take", "feed", "putBack", "free", "freed"}

\* A function of the queues.
OfQueues(f) == f = [q \in QueueSet |-> f[q]]

\* What is kept for each queue.
QueueTypes ==
    /\ OfQueues(ring) /\ OfQueues(freeHead) /\ OfQueues(freeTail)
    /\ OfQueues(pendingHC) /\ OfQueues(pendingGC)
    /\ \A q \in QueueSet :
          /\ ring[q] \in [Slots(q) -> ItemsOf(q) \union {Nil}]
          /\ freeHead[q] \in Slots(q) /\ freeTail[q] \in Slots(q)
          /\ pendingHC[q] \in Seq(ItemsOf(q)) /\ pendingGC[q] \in Seq(ItemsOf(q))
          /\ q \notin GCEnabled => pendingGC[q] = <<>>
    /\ ff \in BOOLEAN /\ by \in [Items -> Threads \union {Nil}]

\* A thread in a call has its queue, and an item from ReadTail on.
CallTypes ==
    /\ pc \in [Threads -> CallSteps]
    /\ on \in [Threads -> QueueSet \union {Nil}] /\ item \in [Threads -> Items \union {Nil}]
    /\ slot \in [Threads -> Nat] /\ top \in [Threads -> Items \union {Nil}]
    /\ moved \in [Threads -> BOOLEAN]
    /\ \A th \in Threads :
          /\ pc[th] = "ready" <=> on[th] = Nil
          /\ pc[th] \in {"take", "insert", "push", "raise"} => item[th] \in ItemsOf(on[th])
          /\ pc[th] # "take" => moved[th] = FALSE

\* EMT is in a call, or it flushes; it has queues ahead only after a forced action.
EmtTypes ==
    /\ emt \in EmtSteps /\ scan \in Seq(QueueSet)
    /\ emt \notin {"guest", "ring3"} => pc[EMT] = "ready"
    /\ emt = "guest" /\ pc[EMT] # "ready" => on[EMT] \in GCEnabled
    /\ emt \in {"guest", "ring3", "clear"} \/ (emt \in Flushing /\ mode = "worker") => scan = <<>>
    /\ IF emt \in Flushing
       THEN /\ flushed \in QueueSet /\ mode \in {"first", "second", "worker"}
            /\ list \in Seq(ItemsOf(flushed))
       ELSE flushed = Nil /\ mode = Nil /\ list = <<>>
    /\ emt = "take" => list = <<>>
    /\ IF emt \in {"free", "freed"} THEN cur \in ItemsOf(flushed) ELSE cur = Nil

Typed == QueueTypes /\ CallTypes /\ EmtTypes

\* The slot is in the ring's free part.
FreeSlot(q, s) ==
    IF freeTail[q] <= freeHead[q]
    THEN s \in freeTail[q] .. freeHead[q] - 1
    ELSE s \notin freeHead[q] .. freeTail[q] - 1

Holding(th) == pc[th] \in {"insert", "push"}

\* Nothing is in one of the places twice.
Once ==
    /\ \A q \in QueueSet :
          /\ \A s \in Slots(q) : FreeSlot(q, s) => ring[q][s] \in ItemsOf(q)
          /\ \A s, t \in Slots(q) : FreeSlot(q, s) /\ FreeSlot(q, t) /\ ring[q][s] = ring[q][t] => s = t
          /\ IsInjective(pendingHC[q]) /\ IsInjective(pendingGC[q])
    /\ IsInjective(list)
    /\ \A t, u \in Threads : Holding(t) /\ Holding(u) /\ item[t] = item[u] => t = u

Wheres == {"ring", "hand", "host", "guest", "list", "cur"}

Found(w, q, i) ==
    \/ w = "ring" /\ \E s \in Slots(q) : FreeSlot(q, s) /\ ring[q][s] = i
    \/ w = "hand" /\ \E th \in Threads : Holding(th) /\ item[th] = i
    \/ w = "host" /\ i \in Range(pendingHC[q])
    \/ w = "guest" /\ i \in Range(pendingGC[q])
    \/ w = "list" /\ i \in Range(list)
    \/ w = "cur" /\ cur = i

\* An item is in one of them, or the consumer has refused it as the last one.
Apart ==
    \A q \in QueueSet : \A i \in ItemsOf(q) :
        /\ \A v, w \in Wheres : Found(v, q, i) /\ Found(w, q, i) => v = w
        /\ q \notin Refusing => \E w \in Wheres : Found(w, q, i)

\* What a thread has read of the ring is true while nobody has moved the tail.  FreeItem
\* has written the item before the head moves.
ReadOf(th) == pc[th] = "take" =>
    LET q == on[th] IN
    /\ slot[th] \in Slots(q)
    /\ moved[th] = FALSE => /\ freeTail[q] = slot[th] /\ freeTail[q] # freeHead[q]
                            /\ item[th] = ring[q][slot[th]]

ReadInv ==
    /\ \A th \in Threads : ReadOf(th)
    /\ emt = "freed" => ring[flushed][freeHead[flushed]] = cur

QueueInv == Typed /\ Once /\ Apart /\ ReadInv

----------------------------------------------------------------------------
(* The ring and the items *)

\* What the assumption says, in parts.
LEMMA Given ==
    /\ EMT \in Threads /\ Nil \notin Threads /\ Nil \notin Items /\ Nil \notin QueueSet
    /\ Queues \in Seq(QueueSet) /\ GCEnabled \subseteq QueueSet
    /\ Refusing \subseteq QueueSet \ GCEnabled
    /\ \A q \in QueueSet : /\ cItems[q] \in Nat \ {0} /\ Slack \in Nat \ {0}
                           /\ Ring(q) \in Nat /\ Ring(q) > cItems[q] /\ Ring(q) > 1
                           /\ Slots(q) = 0 .. Ring(q) - 1 /\ Slots(q) \subseteq Nat
                           /\ Producers[q] \subseteq Threads
  BY PDMQueueAssumption DEF Threads, Ring, Slots

\* The items of a queue are its own, and Nil is none.
LEMMA ItemsAre ==
    /\ \A q \in QueueSet : ItemsOf(q) \subseteq Items /\ Nil \notin ItemsOf(q)
    /\ \A i \in Items : \E q \in QueueSet : i \in ItemsOf(q)
    /\ \A q, r \in QueueSet : \A i : i \in ItemsOf(q) /\ i \in ItemsOf(r) => q = r
<1>1. \A q \in QueueSet : ItemsOf(q) \subseteq Items
  BY DEF Items
<1>2. \A i \in Items : \E q \in QueueSet : i \in ItemsOf(q)
  BY DEF Items
<1>3. \A q, r \in QueueSet : \A i : i \in ItemsOf(q) /\ i \in ItemsOf(r) => q = r
  BY DEF ItemsOf
<1> QED BY <1>1, <1>2, <1>3, Given

\* There are cItems of them.
LEMMA ItemsCount ==
    ASSUME NEW q \in QueueSet
    PROVE  IsFiniteSet(ItemsOf(q)) /\ Cardinality(ItemsOf(q)) = cItems[q]
<1> DEFINE n == cItems[q]
           f == [k \in 0 .. n - 1 |-> <<q, k>>]
<1>1. n \in Nat
  BY Given
<1>2. f \in Bijection(0 .. n - 1, ItemsOf(q))
  <2>1. f \in [0 .. n - 1 -> ItemsOf(q)] /\ \A i \in ItemsOf(q) : \E k \in 0 .. n - 1 : f[k] = i
    BY DEF ItemsOf
  <2>2. \A k, m \in 0 .. n - 1 : f[k] = f[m] => k = m
    OBVIOUS
  <2> QED BY <2>1, <2>2 DEF Bijection, Injection, Surjection, IsInjective
<1>3. IsFiniteSet(0 .. n - 1) /\ Cardinality(0 .. n - 1) = n
  BY <1>1, FS_Interval, SMTT(30)
<1> QED BY <1>2, <1>3, FS_Bijection DEF ExistsBijection

\* The remainder of a number that is small already, and that of the divisor.
LEMMA RemainderIs ==
    ASSUME NEW R \in Nat, R > 1
    PROVE  R % R = 0 /\ \A s \in 0 .. R - 1 : s % R = s
<1>1. ASSUME NEW s \in 0 .. R - 1 PROVE s % R = s
  OBVIOUS
<1> QED BY <1>1

\* The next slot, without the division.
LEMMA NextSlotIs ==
    ASSUME NEW q \in QueueSet, NEW s \in Slots(q)
    PROVE  NextSlot(q, s) \in Slots(q) /\ NextSlot(q, s) = IF s + 1 = Ring(q) THEN 0 ELSE s + 1
<1>1. Ring(q) \in Nat /\ Ring(q) > 1 /\ Slots(q) = 0 .. Ring(q) - 1
  BY Given
<1>2. Ring(q) % Ring(q) = 0 /\ (s + 1 # Ring(q) => (s + 1) % Ring(q) = s + 1)
  <2> HIDE DEF Ring
  <2> QED BY <1>1, RemainderIs
<1> QED BY <1>1, <1>2 DEF NextSlot

\* An allocation makes the free part shorter by the slot at its tail ...
LEMMA FreeShrinks ==
    ASSUME NEW q \in QueueSet, freeTail[q] \in Slots(q), freeHead[q] \in Slots(q),
           freeTail[q] # freeHead[q], freeTail'[q] = NextSlot(q, freeTail[q]),
           freeHead'[q] = freeHead[q]
    PROVE  /\ FreeSlot(q, freeTail[q])
           /\ \A s \in Slots(q) : FreeSlot(q, s)' <=> (FreeSlot(q, s) /\ s # freeTail[q])
<1> DEFINE R == Ring(q)
           n == freeTail'[q]
<1> SUFFICES ASSUME NEW t \in 0 .. R - 1, t = freeTail[q], NEW h \in 0 .. R - 1, h = freeHead[q]
             PROVE  /\ FreeSlot(q, t)
                    /\ \A s \in 0 .. R - 1 : FreeSlot(q, s)' <=> (FreeSlot(q, s) /\ s # t)
  BY Given
<1>1. R \in Nat /\ R > 1 /\ n = IF t + 1 = R THEN 0 ELSE t + 1
  BY Given, NextSlotIs
<1> HIDE DEF R, n
<1>2. t # h
  OBVIOUS
<1>3. \A s \in 0 .. R - 1 : FreeSlot(q, s) <=> IF t <= h THEN t <= s /\ s < h ELSE s < h \/ t <= s
  BY <1>1 DEF FreeSlot
<1>4. \A s \in 0 .. R - 1 : FreeSlot(q, s)' <=> IF n <= h THEN n <= s /\ s < h ELSE s < h \/ n <= s
  BY <1>1 DEF FreeSlot, n
<1> QED BY <1>1, <1>2, <1>3, <1>4

\* ... and an item that is freed makes it longer by the one at its head, unless the ring is
\* full.
LEMMA FreeGrows ==
    ASSUME NEW q \in QueueSet, freeTail[q] \in Slots(q), freeHead[q] \in Slots(q),
           freeHead'[q] = NextSlot(q, freeHead[q]), freeTail'[q] = freeTail[q]
    PROVE  /\ ~FreeSlot(q, freeHead[q])
           /\ freeHead'[q] # freeTail[q] =>
                 \A s \in Slots(q) : FreeSlot(q, s)' <=> (FreeSlot(q, s) \/ s = freeHead[q])
           /\ freeHead'[q] = freeTail[q] =>
                 \A s \in Slots(q) : s # freeHead[q] => FreeSlot(q, s)
<1> DEFINE R == Ring(q)
           n == freeHead'[q]
<1>0. Slots(q) = 0 .. R - 1
  BY Given
<1> SUFFICES ASSUME NEW t \in 0 .. R - 1, t = freeTail[q], NEW h \in 0 .. R - 1, h = freeHead[q]
             PROVE  /\ ~FreeSlot(q, h)
                    /\ n # t => \A s \in 0 .. R - 1 : FreeSlot(q, s)' <=> (FreeSlot(q, s) \/ s = h)
                    /\ n = t => \A s \in 0 .. R - 1 : s # h => FreeSlot(q, s)
  BY <1>0
<1>1. R \in Nat /\ R > 1 /\ n = IF h + 1 = R THEN 0 ELSE h + 1
  BY Given, NextSlotIs
<1> HIDE DEF R, n
<1>2. \A s \in 0 .. R - 1 : FreeSlot(q, s) <=> IF t <= h THEN t <= s /\ s < h ELSE s < h \/ t <= s
  BY <1>1 DEF FreeSlot
<1>3. \A s \in 0 .. R - 1 : FreeSlot(q, s)' <=> IF t <= n THEN t <= s /\ s < n ELSE s < n \/ t <= s
  BY <1>1 DEF FreeSlot, n
<1> QED BY <1>1, <1>2, <1>3

----------------------------------------------------------------------------
(* Types *)

\* Where the ring is not empty, the slot at its tail is free and has an item.
LEMMA TailItem ==
    ASSUME Typed, Once, NEW q \in QueueSet, freeTail[q] # freeHead[q]
    PROVE  freeTail[q] \in Slots(q) /\ FreeSlot(q, freeTail[q]) /\ ring[q][freeTail[q]] \in ItemsOf(q)
<1>1. freeTail[q] \in Slots(q) /\ freeHead[q] \in Slots(q)
  BY DEF Typed, QueueTypes
<1>2. FreeSlot(q, freeTail[q])
  <2> SUFFICES ASSUME NEW t \in 0 .. Ring(q) - 1, t = freeTail[q], NEW h \in 0 .. Ring(q) - 1, h = freeHead[q]
               PROVE  FreeSlot(q, t)
    BY <1>1, Given
  <2>1. Ring(q) \in Nat
    BY Given
  <2> QED BY <2>1 DEF FreeSlot
<1> QED BY <1>1, <1>2 DEF Once

\* A step of a call leaves what EMT does otherwise.
LEMMA EmtTypesSame ==
    ASSUME Typed, UNCHANGED flushVars, NEW th \in Threads,
           \A u \in Threads : u # th => pc'[u] = pc[u] /\ on'[u] = on[u],
           th = EMT => emt \in {"guest", "ring3"},
           th = EMT /\ emt = "guest" /\ pc'[th] # "ready" => on'[th] \in GCEnabled
    PROVE  EmtTypes'
  BY Given DEF Typed, EmtTypes, flushVars

\* EMT is in a call only in the guest or in ring-3.
LEMMA InCall ==
    ASSUME Typed, NEW th \in Threads, pc[th] # "ready"
    PROVE  /\ on[th] \in QueueSet
           /\ th = EMT => emt \in {"guest", "ring3"} /\ (emt = "guest" => on[th] \in GCEnabled)
  BY DEF Typed, EmtTypes, CallTypes

\* A thread that is done.
LEMMA DoneTypes ==
    ASSUME Typed, NEW th \in Threads, Done(th), UNCHANGED flushVars,
           th = EMT => emt \in {"guest", "ring3"}
    PROVE  CallTypes' /\ EmtTypes' /\ by' = by
<1>1. CallTypes
  BY DEF Typed
<1>2. /\ pc'[th] = "ready" /\ on'[th] = Nil /\ moved'[th] = FALSE
      /\ \A u \in Threads : u # th => pc'[u] = pc[u] /\ on'[u] = on[u] /\ item'[u] = item[u]
                                      /\ moved'[u] = moved[u]
      /\ pc' \in [Threads -> CallSteps]
      /\ on' \in [Threads -> QueueSet \union {Nil}] /\ item' \in [Threads -> Items \union {Nil}]
      /\ slot' \in [Threads -> Nat] /\ top' \in [Threads -> Items \union {Nil}]
      /\ moved' \in [Threads -> BOOLEAN]
  BY <1>1 DEF CallTypes, Done, Goto, CallSteps
<1>3. CallTypes'
  BY <1>1, <1>2 DEF CallTypes
<1> QED BY <1>2, <1>3, EmtTypesSame DEF Done

\* PDMQueueAlloc reads the tail of the ring.
LEMMA ReadTypes ==
    ASSUME Typed, Once, NEW th \in Threads, NEW q \in QueueSet, ReadTail(th, q),
           th = EMT => emt \in {"guest", "ring3"} /\ (emt = "guest" => q \in GCEnabled)
    PROVE  Typed'
<1>1. CallTypes /\ QueueTypes /\ UNCHANGED flushVars
  BY DEF Typed, ReadTail
<1>2. CASE Exhausted(q)
  <2>1. Done(th) /\ UNCHANGED <<freeVars, pendVars, ff>>
    BY <1>2 DEF ReadTail
  <2>2. CallTypes' /\ EmtTypes' /\ by' = by
    BY <1>1, <2>1, DoneTypes
  <2>3. QueueTypes'
    BY <1>1, <2>1, <2>2 DEF QueueTypes, freeVars, pendVars, OfQueues, FreeSlot
  <2> QED BY <2>2, <2>3 DEF Typed
<1>3. CASE ~Exhausted(q)
  <2>1. /\ Goto(th, "take") /\ on' = [on EXCEPT ![th] = q]
        /\ slot' = [slot EXCEPT ![th] = freeTail[q]] /\ item' = [item EXCEPT ![th] = ring[q][freeTail[q]]]
        /\ moved' = [moved EXCEPT ![th] = FALSE] /\ UNCHANGED <<top, by, freeVars, pendVars, ff>>
    BY <1>3 DEF ReadTail
  <2>2. freeTail[q] \in Nat /\ ring[q][freeTail[q]] \in ItemsOf(q) /\ ring[q][freeTail[q]] \in Items
    BY <1>3, TailItem, ItemsAre, Given DEF Exhausted
  <2>3. /\ pc'[th] = "take" /\ on'[th] = q /\ item'[th] \in ItemsOf(q)
        /\ \A u \in Threads : u # th => pc'[u] = pc[u] /\ on'[u] = on[u] /\ item'[u] = item[u]
                                        /\ moved'[u] = moved[u]
        /\ pc' \in [Threads -> CallSteps]
        /\ on' \in [Threads -> QueueSet \union {Nil}] /\ item' \in [Threads -> Items \union {Nil}]
        /\ slot' \in [Threads -> Nat] /\ top' \in [Threads -> Items \union {Nil}]
        /\ moved' \in [Threads -> BOOLEAN]
    BY <1>1, <2>1, <2>2 DEF CallTypes, Goto, CallSteps
  <2>4. CallTypes'
    <3>1. ASSUME NEW u \in Threads
          PROVE  /\ pc'[u] = "ready" <=> on'[u] = Nil
                 /\ pc'[u] \in {"take", "insert", "push", "raise"} => item'[u] \in ItemsOf(on'[u])
                 /\ pc'[u] # "take" => moved'[u] = FALSE
      <4>1. CASE u = th
        BY <2>3, <4>1, Given
      <4>2. CASE u # th
        BY <1>1, <2>3, <4>2 DEF CallTypes
      <4> QED BY <4>1, <4>2
    <3> QED BY <2>3, <3>1 DEF CallTypes
  <2>5. QueueTypes'
    BY <1>1, <2>1 DEF QueueTypes, freeVars, pendVars, OfQueues
  <2>6. EmtTypes'
    BY <1>1, <2>3, EmtTypesSame
  <2> QED BY <2>4, <2>5, <2>6 DEF Typed
<1> QED BY <1>2, <1>3

\* A thread that goes on in its call, with its queue and its item.
LEMMA CallGoesOn ==
    ASSUME Typed, NEW th \in Threads, NEW to \in {"insert", "push", "raise"}, Goto(th, to),
           pc[th] \in {"take", "insert", "push"}, UNCHANGED <<on, item, flushVars>>,
           moved' \in [Threads -> BOOLEAN], moved'[th] = FALSE,
           \A u \in Threads : u # th /\ pc[u] # "take" => moved'[u] = FALSE,
           slot' \in [Threads -> Nat], top' \in [Threads -> Items \union {Nil}]
    PROVE  CallTypes' /\ EmtTypes'
<1>1. CallTypes /\ on[th] \in QueueSet
  BY InCall DEF Typed
<1>2. /\ pc' \in [Threads -> CallSteps] /\ pc'[th] = to
      /\ \A u \in Threads : u # th => pc'[u] = pc[u]
  BY <1>1 DEF CallTypes, Goto, CallSteps
<1>3. CallTypes'
  BY <1>1, <1>2, Given DEF CallTypes
<1>4. EmtTypes'
  <2>1. pc[th] # "ready"
    OBVIOUS
  <2> QED BY <1>2, <2>1, InCall, EmtTypesSame
<1> QED BY <1>3, <1>4

\* The item at the tail is taken, or somebody else has been faster.
LEMMA TakeTypes ==
    ASSUME Typed, NEW th \in Threads, Take(th)
    PROVE  Typed'
<1>1. CallTypes /\ QueueTypes /\ UNCHANGED <<ring, freeHead, pendVars, ff, on, top, flushVars>>
  BY DEF Typed, Take
<1> SUFFICES ASSUME NEW q \in QueueSet, q = on[th] PROVE Typed'
  BY InCall DEF Take, At
<1>2. pc[th] = "take" /\ item[th] \in ItemsOf(q) /\ item[th] \in Items
  BY <1>1, ItemsAre DEF Take, At, CallTypes
<1>3. CASE TailUnchanged(th)
  <2>1. /\ freeTail' = [freeTail EXCEPT ![q] = NextSlot(q, slot[th])]
        /\ moved' = [u \in Threads |-> u # th /\ (u \in Taking(q) \/ moved[u])]
        /\ slot' = [slot EXCEPT ![th] = 0] /\ by' = [by EXCEPT ![item[th]] = th]
        /\ Goto(th, "insert") /\ UNCHANGED item
    BY <1>3 DEF Take
  <2>2. /\ moved' \in [Threads -> BOOLEAN] /\ moved'[th] = FALSE
        /\ \A u \in Threads : u # th /\ pc[u] # "take" => moved'[u] = FALSE
    BY <1>1, <2>1 DEF CallTypes, Taking, At
  <2>3. slot' \in [Threads -> Nat] /\ top' \in [Threads -> Items \union {Nil}]
    BY <1>1, <2>1 DEF CallTypes
  <2>4. CallTypes' /\ EmtTypes'
    BY <1>1, <1>2, <2>1, <2>2, <2>3, CallGoesOn
  <2>5. slot[th] = freeTail[q] /\ freeTail[q] \in Slots(q)
    BY <1>1, <1>3 DEF TailUnchanged, QueueTypes
  <2>6. NextSlot(q, slot[th]) \in Slots(q)
    BY <2>5, NextSlotIs
  <2>7. OfQueues(freeTail)' /\ \A r \in QueueSet : freeTail'[r] \in Slots(r)
    BY <1>1, <2>1, <2>6 DEF QueueTypes, OfQueues
  <2>8. by' \in [Items -> Threads \union {Nil}]
    BY <1>1, <2>1 DEF QueueTypes
  <2>9. QueueTypes'
    BY <1>1, <2>7, <2>8 DEF QueueTypes, pendVars, OfQueues
  <2> QED BY <2>4, <2>9 DEF Typed
<1>4. CASE ~TailUnchanged(th)
  <2>1. /\ item' = [item EXCEPT ![th] = Nil] /\ slot' = [slot EXCEPT ![th] = 0]
        /\ moved' = [moved EXCEPT ![th] = FALSE] /\ Goto(th, "again") /\ UNCHANGED <<freeTail, by>>
    BY <1>4 DEF Take
  <2>2. /\ pc'[th] = "again"
        /\ \A u \in Threads : u # th => pc'[u] = pc[u] /\ item'[u] = item[u] /\ moved'[u] = moved[u]
        /\ pc' \in [Threads -> CallSteps] /\ item' \in [Threads -> Items \union {Nil}]
        /\ slot' \in [Threads -> Nat] /\ moved' \in [Threads -> BOOLEAN] /\ moved'[th] = FALSE
    BY <1>1, <2>1 DEF CallTypes, Goto, CallSteps
  <2>3. CallTypes'
    BY <1>1, <2>2, Given DEF CallTypes
  <2>4. EmtTypes'
    <3>1. pc[th] # "ready"
      BY <1>2
    <3> QED BY <1>1, <2>2, <3>1, InCall, EmtTypesSame
  <2>5. QueueTypes'
    BY <1>1, <2>1 DEF QueueTypes, pendVars, OfQueues
  <2> QED BY <2>3, <2>4, <2>5 DEF Typed
<1> QED BY <1>3, <1>4

\* The steps of PDMQueueInsert.
LEMMA InsertTypes ==
    ASSUME Typed, NEW th \in Threads, Insert(th) \/ Push(th) \/ PushGuest(th) \/ Raise(th)
    PROVE  Typed'
<1>1. CallTypes /\ QueueTypes /\ UNCHANGED <<freeVars, flushVars>> /\ pc[th] # "ready"
  BY DEF Typed, Insert, Push, PushGuest, Raise, At
<1> SUFFICES ASSUME NEW q \in QueueSet, q = on[th] PROVE Typed'
  BY <1>1, InCall
<1>2. CASE Raise(th)
  <2>1. CallTypes' /\ EmtTypes' /\ by' = by
    BY <1>1, <1>2, InCall, DoneTypes DEF Raise
  <2>2. QueueTypes'
    BY <1>1, <1>2, <2>1 DEF Raise, QueueTypes, freeVars, pendVars, OfQueues
  <2> QED BY <2>1, <2>2 DEF Typed
<1>3. CASE Insert(th) \/ Push(th) \/ PushGuest(th)
  <2>1. /\ UNCHANGED <<on, item, slot, moved, ff, by>> /\ pc[th] \in {"insert", "push"}
        /\ item[th] \in ItemsOf(q)
    BY <1>1, <1>3 DEF Insert, Push, PushGuest, At, CallTypes
  <2>2. top' \in [Threads -> Items \union {Nil}]
    <3>1. Top(q) \in Items \union {Nil}
      <4>1. pendingHC[q] \in Seq(ItemsOf(q))
        BY <1>1 DEF QueueTypes
      <4>2. pendingHC[q] # <<>> => Head(pendingHC[q]) \in ItemsOf(q)
        BY <4>1, TailOf
      <4> QED BY <4>2, ItemsAre DEF Top
    <3>2. top' = top \/ top' = [top EXCEPT ![th] = Top(q)]
      BY <1>3 DEF Insert, Push, PushGuest
    <3> QED BY <1>1, <3>1, <3>2 DEF CallTypes
  <2>3. \E to \in {"insert", "push", "raise"} : Goto(th, to)
    BY <1>3 DEF Insert, Push, PushGuest
  <2>4. /\ moved' \in [Threads -> BOOLEAN] /\ moved'[th] = FALSE /\ slot' \in [Threads -> Nat]
        /\ \A u \in Threads : u # th /\ pc[u] # "take" => moved'[u] = FALSE
    BY <1>1, <2>1 DEF CallTypes
  <2>5. CallTypes' /\ EmtTypes'
    BY <1>1, <2>1, <2>2, <2>3, <2>4, CallGoesOn
  <2>6. QueueTypes'
    <3>1. /\ <<item[th]>> \o pendingHC[q] \in Seq(ItemsOf(q))
          /\ <<item[th]>> \o pendingGC[q] \in Seq(ItemsOf(q))
      <4>1. pendingHC[q] \in Seq(ItemsOf(q)) /\ pendingGC[q] \in Seq(ItemsOf(q))
        BY <1>1 DEF QueueTypes
      <4>2. <<item[th]>> \in Seq(ItemsOf(q))
        BY <2>1
      <4> QED BY <4>1, <4>2, ConcatIs
    <3>2. CASE UNCHANGED pendVars
      BY <1>1, <2>1, <3>2 DEF QueueTypes, freeVars, pendVars, OfQueues
    <3>3. CASE pendingHC' = [pendingHC EXCEPT ![q] = <<item[th]>> \o @] /\ pendingGC' = pendingGC
      BY <1>1, <2>1, <3>1, <3>3 DEF QueueTypes, freeVars, OfQueues
    <3>4. CASE PushGuest(th)
      <4>1. q \in GCEnabled
        BY <1>1, <3>4, InCall DEF PushGuest, InGuest
      <4>2. pendingGC' = [pendingGC EXCEPT ![q] = <<item[th]>> \o @] /\ pendingHC' = pendingHC
        BY <3>4 DEF PushGuest
      <4> QED BY <1>1, <2>1, <3>1, <4>1, <4>2 DEF QueueTypes, freeVars, OfQueues
    <3> QED BY <1>3, <3>2, <3>3, <3>4 DEF Insert, Push, pendVars
  <2> QED BY <2>5, <2>6 DEF Typed
<1> QED BY <1>2, <1>3

\* What EMT takes from the LIFOs, and what it puts back.
LEMMA BothReversed ==
    ASSUME NEW S, NEW x \in Seq(S), NEW y \in Seq(S)
    PROVE  /\ Reverse(x) \o Reverse(y) \in Seq(S) /\ x \o Reverse(y) \in Seq(S)
  BY ReverseIs, ConcatIs

\* The steps of EMT that touch no queue.
LEMMA EmtGoesOn ==
    ASSUME Typed,
           \/ ExitGuest \/ EnterGuest \/ FlushAll \/ Scan \/ ScanEnd \/ Refuse \/ Clear \/ Recalc
           \/ \E q \in QueueSet : FlushWorker(q)
    PROVE  Typed'
<1>1. CallTypes /\ QueueTypes /\ EmtTypes /\ UNCHANGED <<freeVars, pendVars, callVars, list, cur, refused>>
  BY DEF Typed, ExitGuest, EnterGuest, FlushAll, Scan, ScanEnd, Refuse, Clear, Recalc, FlushWorker
<1>2. ff' \in BOOLEAN
  <2>1. ff' = ff \/ ff' = FALSE \/ ff' = (scan # <<>> \/ ff)
    BY DEF ExitGuest, EnterGuest, FlushAll, Scan, ScanEnd, Refuse, Clear, Recalc, FlushWorker, FlagAfter
  <2> QED BY <1>1, <2>1 DEF QueueTypes
<1>3. QueueTypes' /\ CallTypes'
  BY <1>1, <1>2 DEF QueueTypes, CallTypes, callVars, freeVars, pendVars, OfQueues
<1>4. /\ pc' = pc /\ on' = on /\ list' = list /\ cur' = cur
      /\ Queues \in Seq(QueueSet) /\ <<>> \in Seq(QueueSet)
  BY <1>1, Given DEF callVars
<1>5. scan # <<>> => Head(scan) \in QueueSet /\ Tail(scan) \in Seq(QueueSet)
  BY <1>1, TailOf DEF EmtTypes
<1>6. EmtTypes'
  <2>1. CASE ExitGuest \/ EnterGuest \/ FlushAll \/ \E q \in QueueSet : FlushWorker(q)
    BY <1>1, <1>4, <2>1 DEF EmtTypes, ExitGuest, EnterGuest, FlushAll, FlushWorker, At, In, Then, EmtSteps,
       Flushing
  <2>2. CASE Scan
    BY <1>1, <1>4, <1>5, <2>2 DEF EmtTypes, Scan, In, Then, EmtSteps, Flushing
  <2>3. CASE ScanEnd \/ Refuse \/ Clear
    BY <1>1, <1>4, <2>3, Given DEF EmtTypes, ScanEnd, Refuse, Clear, In, Then, EmtSteps, Flushing
  <2>4. CASE Recalc
    BY <1>1, <1>4, <1>5, <2>4 DEF EmtTypes, Recalc, In, Then, EmtSteps, Flushing
  <2> QED BY <2>1, <2>2, <2>3, <2>4
<1> QED BY <1>3, <1>6 DEF Typed

\* The steps of pdmR3QueueFlush.
LEMMA FlushTypes ==
    ASSUME Typed,
           \/ TakePending \/ Accept \/ RefuseLast \/ PutBack \/ FlushDone \/ FreeItem \/ FreeHead
    PROVE  Typed'
<1>1. CallTypes /\ QueueTypes /\ EmtTypes /\ UNCHANGED <<ff, pc, on, item, slot, top, moved>>
  BY DEF Typed, TakePending, Accept, RefuseLast, PutBack, FlushDone, FreeItem, FreeHead, callVars
<1>2. CallTypes'
  BY <1>1 DEF CallTypes
<1> SUFFICES ASSUME NEW q \in QueueSet, q = flushed, emt \in Flushing, mode \in {"first", "second", "worker"}
             PROVE  QueueTypes' /\ EmtTypes'
  BY <1>1, <1>2 DEF EmtTypes, Typed, TakePending, Accept, RefuseLast, PutBack, FlushDone, FreeItem, FreeHead,
     Flushing, In
<1>3. /\ list \in Seq(ItemsOf(q)) /\ pendingHC[q] \in Seq(ItemsOf(q)) /\ pendingGC[q] \in Seq(ItemsOf(q))
      /\ pc[EMT] = "ready" /\ q # Nil /\ scan \in Seq(QueueSet)
      /\ freeHead[q] \in Slots(q) /\ <<>> \in Seq(ItemsOf(q))
  BY <1>1, Given DEF EmtTypes, QueueTypes, Flushing
<1>4. CASE TakePending
  <2>1. Reverse(pendingGC[q]) \o Reverse(pendingHC[q]) \in Seq(ItemsOf(q))
    BY <1>3, BothReversed
  <2>2. QueueTypes'
    BY <1>1, <1>3, <1>4 DEF TakePending, QueueTypes, OfQueues, freeVars, callVars
  <2>3. EmtTypes'
    BY <1>1, <1>3, <1>4, <2>1 DEF TakePending, EmtTypes, In, Then, Flushing, EmtSteps
  <2> QED BY <2>2, <2>3
<1>5. CASE Accept \/ RefuseLast
  <2>1. QueueTypes'
    BY <1>1, <1>5 DEF Accept, RefuseLast, QueueTypes, OfQueues, freeVars, pendVars, callVars
  <2>2. list # <<>> => Head(list) \in ItemsOf(q) /\ Tail(list) \in Seq(ItemsOf(q))
    BY <1>3, TailOf
  <2>3. EmtTypes'
    BY <1>1, <1>3, <1>5, <2>2 DEF Accept, RefuseLast, EmtTypes, In, Then, Flushing, EmtSteps
  <2> QED BY <2>1, <2>3
<1>6. CASE PutBack
  <2>1. pendingHC[q] \o Reverse(list) \in Seq(ItemsOf(q))
    BY <1>3, BothReversed
  <2>2. QueueTypes'
    BY <1>1, <1>6, <2>1 DEF PutBack, QueueTypes, OfQueues, freeVars, callVars, WithOlder
  <2>3. /\ flushed' = Nil /\ mode' = Nil /\ scan' = scan /\ list' = <<>> /\ cur' = cur /\ emt = "putBack"
        /\ emt' = IF mode = "worker" THEN "guest" ELSE "scan"
    BY <1>6 DEF PutBack, AfterStop, FlushEnds, Then, In
  <2>4. EmtTypes'
    BY <1>1, <1>3, <2>3 DEF EmtTypes, Flushing, EmtSteps
  <2> QED BY <2>2, <2>4
<1>7. CASE FlushDone
  <2>1. QueueTypes'
    BY <1>1, <1>7 DEF FlushDone, QueueTypes, OfQueues, freeVars, pendVars, callVars
  <2>2. /\ scan' = scan /\ list' = list /\ cur' = cur /\ emt = "feed" /\ list = <<>>
        /\ \/ mode' = "second" /\ mode = "first" /\ emt' = "take" /\ flushed' = flushed
           \/ flushed' = Nil /\ mode' = Nil /\ emt' = "clear" /\ mode = "worker"
           \/ flushed' = Nil /\ mode' = Nil /\ emt' = "scan"
    BY <1>7 DEF FlushDone, AfterFlush, FlushEnds, Then, In
  <2>3. EmtTypes'
    BY <1>1, <1>3, <2>2 DEF EmtTypes, Flushing, EmtSteps
  <2> QED BY <2>1, <2>3
<1>8. CASE FreeItem
  <2>1. cur \in ItemsOf(q) /\ ring' = [ring EXCEPT ![q] = [ring[q] EXCEPT ![freeHead[q]] = cur]]
    BY <1>1, <1>8 DEF FreeItem, EmtTypes, In
  <2>2. OfQueues(ring)' /\ \A r \in QueueSet : ring'[r] \in [Slots(r) -> ItemsOf(r) \union {Nil}]
    BY <1>1, <1>3, <2>1 DEF QueueTypes, OfQueues
  <2>3. QueueTypes'
    BY <1>1, <1>8, <2>2 DEF FreeItem, QueueTypes, OfQueues, pendVars, callVars
  <2>4. EmtTypes'
    BY <1>1, <1>3, <1>8 DEF FreeItem, EmtTypes, In, Then, Flushing, EmtSteps
  <2> QED BY <2>3, <2>4
<1>9. CASE FreeHead
  <2>1. NextSlot(q, freeHead[q]) \in Slots(q)
    BY <1>3, NextSlotIs
  <2>2. OfQueues(freeHead)' /\ \A r \in QueueSet : freeHead'[r] \in Slots(r)
    BY <1>1, <1>9, <2>1 DEF FreeHead, QueueTypes, OfQueues
  <2>3. by' \in [Items -> Threads \union {Nil}]
    BY <1>1, <1>9 DEF FreeHead, QueueTypes
  <2>4. QueueTypes'
    BY <1>1, <1>9, <2>2, <2>3 DEF FreeHead, QueueTypes, OfQueues, pendVars
  <2>5. EmtTypes'
    BY <1>1, <1>3, <1>9 DEF FreeHead, EmtTypes, In, Then, Flushing, EmtSteps
  <2> QED BY <2>4, <2>5
<1> QED BY <1>4, <1>5, <1>6, <1>7, <1>8, <1>9

----------------------------------------------------------------------------
(* Places *)

\* Nothing in the ring's free part changes, and nothing in the producers' hands.
RingSame == \A q \in QueueSet : \A s \in Slots(q) :
    (FreeSlot(q, s)' <=> FreeSlot(q, s)) /\ (FreeSlot(q, s) => ring'[q][s] = ring[q][s])
HandSame == \A u \in Threads : (Holding(u)' <=> Holding(u)) /\ (Holding(u) => item'[u] = item[u])

\* A place that does not change has what it had.
LEMMA FoundSame ==
    ASSUME NEW q \in QueueSet, NEW i
    PROVE  /\ RingSame => (Found("ring", q, i)' <=> Found("ring", q, i))
           /\ HandSame => (Found("hand", q, i)' <=> Found("hand", q, i))
           /\ pendingHC'[q] = pendingHC[q] => (Found("host", q, i)' <=> Found("host", q, i))
           /\ pendingGC'[q] = pendingGC[q] => (Found("guest", q, i)' <=> Found("guest", q, i))
           /\ list' = list => (Found("list", q, i)' <=> Found("list", q, i))
           /\ cur' = cur => (Found("cur", q, i)' <=> Found("cur", q, i))
<1>1. RingSame => (Found("ring", q, i)' <=> Found("ring", q, i))
  <2> SUFFICES ASSUME RingSame PROVE Found("ring", q, i)' <=> Found("ring", q, i)
    OBVIOUS
  <2>1. \A s \in Slots(q) : (FreeSlot(q, s)' /\ ring'[q][s] = i) <=> (FreeSlot(q, s) /\ ring[q][s] = i)
    BY DEF RingSame
  <2>2. Found("ring", q, i)' <=> \E s \in Slots(q) : FreeSlot(q, s)' /\ ring'[q][s] = i
    BY DEF Found
  <2>3. Found("ring", q, i) <=> \E s \in Slots(q) : FreeSlot(q, s) /\ ring[q][s] = i
    BY DEF Found
  <2> QED BY <2>1, <2>2, <2>3
<1>2. HandSame => (Found("hand", q, i)' <=> Found("hand", q, i))
  <2> SUFFICES ASSUME HandSame PROVE Found("hand", q, i)' <=> Found("hand", q, i)
    OBVIOUS
  <2>1. \A u \in Threads : (Holding(u)' /\ item'[u] = i) <=> (Holding(u) /\ item[u] = i)
    BY DEF HandSame
  <2>2. Found("hand", q, i)' <=> \E u \in Threads : Holding(u)' /\ item'[u] = i
    BY DEF Found
  <2>3. Found("hand", q, i) <=> \E u \in Threads : Holding(u) /\ item[u] = i
    BY DEF Found
  <2> QED BY <2>1, <2>2, <2>3
<1>3. /\ pendingHC'[q] = pendingHC[q] => (Found("host", q, i)' <=> Found("host", q, i))
      /\ pendingGC'[q] = pendingGC[q] => (Found("guest", q, i)' <=> Found("guest", q, i))
      /\ list' = list => (Found("list", q, i)' <=> Found("list", q, i))
      /\ cur' = cur => (Found("cur", q, i)' <=> Found("cur", q, i))
  BY DEF Found
<1> QED BY <1>1, <1>2, <1>3

\* An item goes from one place to another.
LEMMA ApartMoved ==
    ASSUME Apart, NEW b \in Wheres, NEW i,
           \A q \in QueueSet : \A j \in ItemsOf(q) : \A w \in Wheres :
              Found(w, q, j)' <=> IF j = i THEN w = b ELSE Found(w, q, j)
    PROVE  Apart'
<1> SUFFICES ASSUME NEW q \in QueueSet, NEW j \in ItemsOf(q)
             PROVE  /\ \A v, w \in Wheres : Found(v, q, j)' /\ Found(w, q, j)' => v = w
                    /\ q \notin Refusing => \E w \in Wheres : Found(w, q, j)'
  BY DEF Apart
<1>1. CASE j = i
  BY <1>1
<1>2. CASE j # i
  <2>1. \A w \in Wheres : Found(w, q, j)' <=> Found(w, q, j)
    BY <1>2
  <2> QED BY <2>1 DEF Apart
<1> QED BY <1>1, <1>2

\* Nothing moves.
LEMMA NothingMoves ==
    ASSUME Once, Apart, RingSame, HandSame, UNCHANGED <<pendingHC, pendingGC, list, cur>>
    PROVE  Once' /\ Apart'
<1>1. ASSUME NEW q \in QueueSet, NEW i \in ItemsOf(q), NEW w \in Wheres
      PROVE  Found(w, q, i)' <=> Found(w, q, i)
  BY FoundSame DEF Wheres
<1>2. Apart'
  BY <1>1 DEF Apart
<1>3. /\ \A q \in QueueSet :
            /\ \A s \in Slots(q) : FreeSlot(q, s)' => ring'[q][s] \in ItemsOf(q)
            /\ \A s, t \in Slots(q) :
                  FreeSlot(q, s)' /\ FreeSlot(q, t)' /\ ring'[q][s] = ring'[q][t] => s = t
      /\ \A t, u \in Threads : Holding(t)' /\ Holding(u)' /\ item'[t] = item'[u] => t = u
  BY DEF Once, RingSame, HandSame
<1>4. Once'
  BY <1>3 DEF Once
<1> QED BY <1>2, <1>4

\* The ring's variables and the threads' that Found looks at.
LEMMA SameWhen ==
    /\ UNCHANGED freeVars => RingSame
    /\ UNCHANGED <<pc, item>> => HandSame
<1>1. UNCHANGED freeVars => RingSame
  BY DEF RingSame, FreeSlot, freeVars
<1>2. UNCHANGED <<pc, item>> => HandSame
  BY DEF HandSame, Holding
<1> QED BY <1>1, <1>2

\* What a thread has read stays true when nothing of the ring changes.
LEMMA ReadSame ==
    ASSUME NEW u \in Threads, ReadOf(u), UNCHANGED freeVars, pc'[u] = pc[u], on'[u] = on[u],
           item'[u] = item[u], slot'[u] = slot[u], moved'[u] = moved[u]
    PROVE  ReadOf(u)'
  BY DEF ReadOf, freeVars

\* A step of a call that neither takes an item nor pushes one.
LEMMA QuietCall ==
    ASSUME Typed, Once, Apart, ReadInv, NEW th \in Threads, UNCHANGED <<freeVars, pendVars, flushVars>>,
           \A u \in Threads : u # th => /\ pc'[u] = pc[u] /\ on'[u] = on[u] /\ item'[u] = item[u]
                                        /\ slot'[u] = slot[u] /\ moved'[u] = moved[u],
           Holding(th)' <=> Holding(th), Holding(th) => item'[th] = item[th], ReadOf(th)'
    PROVE  Once' /\ Apart' /\ ReadInv'
<1>1. HandSame
  <2>1. ASSUME NEW u \in Threads PROVE (Holding(u)' <=> Holding(u)) /\ (Holding(u) => item'[u] = item[u])
    <3>1. CASE u # th
      BY <3>1 DEF Holding
    <3> QED BY <3>1
  <2> QED BY <2>1 DEF HandSame
<1>2. Once' /\ Apart'
  BY <1>1, SameWhen, NothingMoves DEF pendVars, flushVars
<1>3. \A u \in Threads : ReadOf(u)'
  BY ReadSame DEF ReadInv
<1>4. (emt = "freed" => ring[flushed][freeHead[flushed]] = cur)'
  BY DEF ReadInv, freeVars, flushVars
<1> QED BY <1>2, <1>3, <1>4 DEF ReadInv

\* The tail is read: no item moves.
LEMMA ReadPlaces ==
    ASSUME Typed, Once, Apart, ReadInv, NEW th \in Threads, NEW q \in QueueSet, ReadTail(th, q),
           pc[th] \in {"ready", "again"}
    PROVE  Once' /\ Apart' /\ ReadInv'
<1>1. CallTypes /\ QueueTypes /\ UNCHANGED <<freeVars, pendVars, flushVars>>
  BY DEF Typed, ReadTail
<1>2. /\ pc'[th] \in {"ready", "take"}
      /\ \A u \in Threads : u # th => /\ pc'[u] = pc[u] /\ on'[u] = on[u] /\ item'[u] = item[u]
                                      /\ slot'[u] = slot[u] /\ moved'[u] = moved[u]
  BY <1>1 DEF ReadTail, Done, Goto, CallTypes
<1>3. ReadOf(th)'
  <2>1. CASE Exhausted(q)
    <3>1. pc'[th] = "ready"
      BY <1>1, <2>1 DEF ReadTail, Done, Goto, CallTypes
    <3> QED BY <3>1 DEF ReadOf
  <2>2. CASE ~Exhausted(q)
    <3>1. /\ on'[th] = q /\ slot'[th] = freeTail[q] /\ item'[th] = ring[q][freeTail[q]] /\ moved'[th] = FALSE
          /\ freeTail' = freeTail /\ freeHead' = freeHead /\ ring' = ring /\ freeTail[q] # freeHead[q]
      BY <1>1, <2>2 DEF ReadTail, CallTypes, Exhausted, freeVars
    <3>2. freeTail[q] \in Slots(q) /\ freeTail[q] \in 0 .. Ring(q) - 1 /\ Ring(q) \in Nat /\ Ring(q) > 1
      BY <1>1, Given DEF QueueTypes
    <3> QED BY <3>1, <3>2 DEF ReadOf
  <2> QED BY <2>1, <2>2
<1>4. ~Holding(th) /\ ~Holding(th)'
  BY <1>2 DEF Holding
<1> QED BY <1>1, <1>2, <1>3, <1>4, QuietCall

\* An item that is in one place is in no other.
LEMMA Nowhere ==
    ASSUME Apart, NEW q \in QueueSet, NEW i \in ItemsOf(q), NEW a \in Wheres, Found(a, q, i)
    PROVE  \A w \in Wheres : w # a => ~Found(w, q, i)
  BY DEF Apart

\* If the tail has stayed where the thread has read it, the item it has read is the one there.
LEMMA ReadIsTrue ==
    ASSUME Typed, ReadInv, NEW th \in Threads, NEW q \in QueueSet, q = on[th], At(th, "take"), moved[th] = FALSE
    PROVE  /\ slot[th] = freeTail[q] /\ freeTail[q] \in Slots(q) /\ freeTail[q] # freeHead[q]
           /\ item[th] = ring[q][freeTail[q]] /\ item[th] \in ItemsOf(q)
<1>1. pc[th] = "take" /\ item[th] \in ItemsOf(q) /\ ReadOf(th)
  BY DEF Typed, CallTypes, At, ReadInv
<1> QED BY <1>1 DEF ReadOf

\* PDMQueueAlloc takes the item at the tail: it is in the thread's hands.
LEMMA TakenPlaces ==
    ASSUME Typed, Once, Apart, ReadInv, ~MayLap, NEW th \in Threads, Take(th), TailUnchanged(th)
    PROVE  Once' /\ Apart' /\ ReadInv'
<1> SUFFICES ASSUME NEW q \in QueueSet, q = on[th] PROVE Once' /\ Apart' /\ ReadInv'
  BY InCall DEF Take, At
<1> DEFINE i == item[th]
           t == freeTail[q]
<1>1. /\ CallTypes /\ QueueTypes /\ UNCHANGED <<ring, freeHead, pendVars, on, item, flushVars>> /\ pc[th] = "take"
      /\ freeTail' = [freeTail EXCEPT ![q] = NextSlot(q, slot[th])]
      /\ moved' = [u \in Threads |-> u # th /\ (u \in Taking(q) \/ moved[u])]
      /\ slot' = [slot EXCEPT ![th] = 0] /\ Goto(th, "insert")
  BY DEF Typed, Take, At
<1>2. /\ slot[th] = t /\ t \in Slots(q) /\ t # freeHead[q] /\ i = ring[q][t] /\ i \in ItemsOf(q)
      /\ freeHead[q] \in Slots(q)
  <2>1. moved[th] = FALSE
    BY <1>1 DEF Take, Lapped, TailUnchanged, CallTypes
  <2> QED BY <1>1, <2>1, ReadIsTrue DEF At, QueueTypes
<1>3. /\ freeTail'[q] = NextSlot(q, t) /\ freeHead' = freeHead
      /\ \A r \in QueueSet : r # q => freeTail'[r] = freeTail[r]
  BY <1>1, <1>2 DEF QueueTypes, OfQueues
<1>4. /\ FreeSlot(q, t) /\ \A s \in Slots(q) : FreeSlot(q, s)' <=> (FreeSlot(q, s) /\ s # t)
  BY <1>2, <1>3, FreeShrinks
<1>5. \A r \in QueueSet : r # q => \A s \in Slots(r) : FreeSlot(r, s)' <=> FreeSlot(r, s)
  BY <1>3 DEF FreeSlot
<1>6. \A u \in Threads : Holding(u)' <=> (Holding(u) \/ u = th)
  BY <1>1 DEF Holding, Goto, CallTypes
<1>7. \A w \in Wheres : w # "ring" => ~Found(w, q, i)
  <2>1. Found("ring", q, i) /\ "ring" \in Wheres
    BY <1>2, <1>4 DEF Found, Wheres
  <2> QED BY <1>2, <2>1, Nowhere
<1>8. ASSUME NEW r \in QueueSet, NEW j \in ItemsOf(r), NEW w \in Wheres
      PROVE  Found(w, r, j)' <=> IF j = i THEN w = "hand" ELSE Found(w, r, j)
  <2>1. j = i => r = q
    BY <1>2, ItemsAre
  <2>2. CASE w = "ring"
    <3>1. Found("ring", r, j)' <=> \E s \in Slots(r) : FreeSlot(r, s)' /\ ring[r][s] = j
      BY <1>1 DEF Found
    <3>2. Found("ring", r, j) <=> \E s \in Slots(r) : FreeSlot(r, s) /\ ring[r][s] = j
      BY DEF Found
    <3>3. r # q => (Found("ring", r, j)' <=> Found("ring", r, j))
      BY <1>5, <3>1, <3>2
    <3>4. r = q /\ j # i => (Found("ring", r, j)' <=> Found("ring", r, j))
      BY <1>2, <1>4, <3>1, <3>2
    <3>5. r = q /\ j = i => ~Found("ring", r, j)'
      BY <1>2, <1>4, <3>1 DEF Once
    <3> QED BY <2>1, <2>2, <3>3, <3>4, <3>5
  <2>3. CASE w = "hand"
    <3>1. Found("hand", r, j)' <=> \E u \in Threads : Holding(u)' /\ item[u] = j
      BY <1>1 DEF Found
    <3>2. Found("hand", r, j) <=> \E u \in Threads : Holding(u) /\ item[u] = j
      BY DEF Found
    <3> QED BY <1>6, <2>3, <3>1, <3>2
  <2>4. CASE w \notin {"ring", "hand"}
    <3>1. Found(w, r, j)' <=> Found(w, r, j)
      BY <1>1, <2>4, FoundSame DEF Wheres, pendVars, flushVars
    <3> QED BY <1>7, <2>1, <2>4, <3>1
  <2> QED BY <2>2, <2>3, <2>4
<1>9. Apart'
  <2>1. "hand" \in Wheres
    BY DEF Wheres
  <2> QED BY <1>8, <2>1, ApartMoved
<1>10. Once'
  <2>1. \A u \in Threads : Holding(u) => item[u] # i
    BY <1>7 DEF Found, Wheres
  <2>2. \A v, u \in Threads : Holding(v)' /\ Holding(u)' /\ item'[v] = item'[u] => v = u
    BY <1>1, <1>6, <2>1 DEF Once
  <2>3. ASSUME NEW r \in QueueSet
        PROVE  /\ \A s \in Slots(r) : FreeSlot(r, s)' => ring'[r][s] \in ItemsOf(r)
               /\ \A s, v \in Slots(r) :
                     FreeSlot(r, s)' /\ FreeSlot(r, v)' /\ ring'[r][s] = ring'[r][v] => s = v
               /\ IsInjective(pendingHC'[r]) /\ IsInjective(pendingGC'[r])
    <3>1. \A s \in Slots(r) : FreeSlot(r, s)' => FreeSlot(r, s)
      BY <1>4, <1>5
    <3> QED BY <1>1, <3>1 DEF Once, pendVars
  <2>4. IsInjective(list')
    BY <1>1 DEF Once, flushVars
  <2> QED BY <2>2, <2>3, <2>4 DEF Once
<1>11. ASSUME NEW u \in Threads PROVE ReadOf(u)'
  <2>1. CASE u = th \/ pc[u] # "take"
    <3>1. pc'[u] # "take"
      BY <1>1, <2>1 DEF Goto, CallTypes
    <3> QED BY <3>1 DEF ReadOf
  <2> SUFFICES ASSUME u # th, pc[u] = "take" PROVE ReadOf(u)'
    BY <2>1
  <2>2. pc'[u] = "take" /\ on'[u] = on[u] /\ item'[u] = item[u] /\ slot'[u] = slot[u] /\ ring' = ring
    BY <1>1 DEF Goto, CallTypes
  <2>3. CASE on[u] # q
    <3>1. moved'[u] = moved[u] /\ on[u] \in QueueSet
      <4>1. moved'[u] = (u # th /\ (u \in Taking(q) \/ moved[u])) /\ u \notin Taking(q)
        BY <1>1, <2>3 DEF Taking
      <4>2. moved[u] \in BOOLEAN
        BY <1>1 DEF CallTypes
      <4>3. moved'[u] = moved[u]
        BY <4>1, <4>2
      <4> QED BY <4>3, InCall
    <3>2. freeTail'[on[u]] = freeTail[on[u]] /\ freeHead' = freeHead
      BY <1>3, <2>3, <3>1
    <3> QED BY <2>2, <3>1, <3>2 DEF ReadInv, ReadOf
  <2>4. CASE on[u] = q
    <3>1. moved'[u] = TRUE /\ slot[u] \in Slots(q)
      BY <1>1, <2>4 DEF Taking, At, ReadInv, ReadOf
    <3> QED BY <2>2, <2>4, <3>1 DEF ReadOf
  <2> QED BY <2>3, <2>4
<1>12. (emt = "freed" => ring[flushed][freeHead[flushed]] = cur)'
  BY <1>1 DEF ReadInv, flushVars
<1> QED BY <1>9, <1>10, <1>11, <1>12 DEF ReadInv

\* Somebody else has been faster: no item moves.
LEMMA AgainPlaces ==
    ASSUME Typed, Once, Apart, ReadInv, NEW th \in Threads, Take(th), ~TailUnchanged(th)
    PROVE  Once' /\ Apart' /\ ReadInv'
<1>1. /\ CallTypes /\ UNCHANGED <<freeVars, pendVars, flushVars, on>> /\ pc[th] = "take"
      /\ item' = [item EXCEPT ![th] = Nil] /\ slot' = [slot EXCEPT ![th] = 0]
      /\ moved' = [moved EXCEPT ![th] = FALSE] /\ Goto(th, "again")
  BY DEF Typed, Take, At, freeVars
<1>2. /\ pc'[th] = "again"
      /\ \A u \in Threads : u # th => /\ pc'[u] = pc[u] /\ on'[u] = on[u] /\ item'[u] = item[u]
                                      /\ slot'[u] = slot[u] /\ moved'[u] = moved[u]
  BY <1>1 DEF Goto, CallTypes
<1>3. ReadOf(th)' /\ ~Holding(th) /\ ~Holding(th)'
  BY <1>1, <1>2 DEF ReadOf, Holding
<1> QED BY <1>1, <1>2, <1>3, QuietCall

\* The steps of PDMQueueInsert that push nothing: no item moves.
LEMMA InsertPlaces ==
    ASSUME Typed, Once, Apart, ReadInv, NEW th \in Threads, Insert(th) \/ Push(th) \/ Raise(th),
           pendingHC' = pendingHC
    PROVE  Once' /\ Apart' /\ ReadInv'
<1>1. CallTypes /\ UNCHANGED <<freeVars, pendVars, flushVars>>
  BY DEF Typed, Insert, Push, Raise, pendVars
<1>2. \A u \in Threads : u # th => /\ pc'[u] = pc[u] /\ on'[u] = on[u] /\ item'[u] = item[u]
                                   /\ slot'[u] = slot[u] /\ moved'[u] = moved[u]
  BY <1>1 DEF Insert, Push, Raise, Done, Goto, CallTypes
<1>3. CASE Raise(th)
  <2>1. pc[th] = "raise" /\ pc'[th] = "ready"
    BY <1>1, <1>3 DEF Raise, At, Done, Goto, CallTypes
  <2>2. ReadOf(th)' /\ ~Holding(th) /\ ~Holding(th)'
    BY <2>1 DEF ReadOf, Holding
  <2> QED BY <1>1, <1>2, <2>2, QuietCall
<1>4. CASE Insert(th) \/ Push(th)
  <2>1. <<item[th]>> \o pendingHC[on[th]] # pendingHC[on[th]]
    <3> SUFFICES ASSUME NEW S, NEW x, NEW y \in Seq(S) PROVE <<x>> \o y # y
      <4>1. on[th] \in QueueSet
        BY <1>4, InCall DEF Insert, Push, At
      <4>2. pendingHC[on[th]] \in Seq(ItemsOf(on[th]))
        BY <4>1 DEF Typed, QueueTypes
      <4> QED BY <4>2
    <3>1. Len(<<x>> \o y) = Len(y) + 1 /\ Len(y) \in Nat
      OBVIOUS
    <3> QED BY <3>1
  <2>2. pc[th] \in {"insert", "push"} /\ pc'[th] \in {"insert", "push"} /\ item' = item
    <3>1. CASE Push(th)
      <4>1. on[th] \in QueueSet
        BY <3>1, InCall DEF Push, At
      <4>2. Goto(th, "insert")
        BY <2>1, <3>1, <4>1 DEF Push, Typed, QueueTypes, OfQueues
      <4> QED BY <1>1, <3>1, <4>2 DEF Push, At, Goto, CallTypes
    <3>2. CASE Insert(th)
      BY <1>1, <3>2 DEF Insert, At, Goto, CallTypes
    <3> QED BY <1>4, <3>1, <3>2
  <2>3. ReadOf(th)' /\ Holding(th) /\ Holding(th)' /\ item'[th] = item[th]
    BY <2>2 DEF ReadOf, Holding
  <2> QED BY <1>1, <1>2, <2>3, QuietCall
<1> QED BY <1>3, <1>4

\* The item in a thread's hands becomes the latest on one of the LIFOs.
LEMMA PushPlaces ==
    ASSUME Typed, Once, Apart, ReadInv, NEW th \in Threads, NEW q \in QueueSet, q = on[th], Holding(th),
           Goto(th, "raise"), UNCHANGED <<freeVars, on, item, slot, moved, by, flushVars>>,
           \/ /\ pendingHC' = [pendingHC EXCEPT ![q] = <<item[th]>> \o @] /\ UNCHANGED pendingGC
           \/ /\ pendingGC' = [pendingGC EXCEPT ![q] = <<item[th]>> \o @] /\ UNCHANGED pendingHC
    PROVE  Once' /\ Apart' /\ ReadInv'
<1> DEFINE i == item[th]
<1>1. /\ CallTypes /\ QueueTypes /\ i \in ItemsOf(q) /\ pc'[th] = "raise"
      /\ \A u \in Threads : u # th => pc'[u] = pc[u]
      /\ pendingHC[q] \in Seq(ItemsOf(q)) /\ pendingGC[q] \in Seq(ItemsOf(q))
      /\ IsInjective(pendingHC[q]) /\ IsInjective(pendingGC[q])
  BY DEF Typed, QueueTypes, CallTypes, Holding, Goto, Once
<1>2. \A w \in Wheres : w # "hand" => ~Found(w, q, i)
  <2>1. Found("hand", q, i) /\ "hand" \in Wheres
    BY DEF Found, Wheres
  <2> QED BY <1>1, <2>1, Nowhere
<1>3. i \notin Range(pendingHC[q]) /\ i \notin Range(pendingGC[q])
  BY <1>2 DEF Found, Wheres
<1>4. PICK b \in {"host", "guest"} :
        /\ b = "host" => pendingHC' = [pendingHC EXCEPT ![q] = <<i>> \o @] /\ pendingGC' = pendingGC
        /\ b = "guest" => pendingGC' = [pendingGC EXCEPT ![q] = <<i>> \o @] /\ pendingHC' = pendingHC
  OBVIOUS
<1>5. /\ IsInjective(<<i>> \o pendingHC[q]) /\ Range(<<i>> \o pendingHC[q]) = Range(pendingHC[q]) \union {i}
      /\ IsInjective(<<i>> \o pendingGC[q]) /\ Range(<<i>> \o pendingGC[q]) = Range(pendingGC[q]) \union {i}
  BY <1>1, <1>3, PushIs
<1>6. /\ \A r \in QueueSet : r # q => pendingHC'[r] = pendingHC[r] /\ pendingGC'[r] = pendingGC[r]
      /\ b = "host" => /\ Range(pendingHC'[q]) = Range(pendingHC[q]) \union {i} /\ IsInjective(pendingHC'[q])
                       /\ pendingGC'[q] = pendingGC[q]
      /\ b = "guest" => /\ Range(pendingGC'[q]) = Range(pendingGC[q]) \union {i} /\ IsInjective(pendingGC'[q])
                        /\ pendingHC'[q] = pendingHC[q]
  BY <1>1, <1>4, <1>5 DEF QueueTypes, OfQueues
<1>7. \A u \in Threads : Holding(u)' <=> (Holding(u) /\ u # th)
  BY <1>1 DEF Holding
<1>8. ASSUME NEW r \in QueueSet, NEW j \in ItemsOf(r), NEW w \in Wheres
      PROVE  Found(w, r, j)' <=> IF j = i THEN w = b ELSE Found(w, r, j)
  <2>1. j = i => r = q
    BY <1>1, ItemsAre
  <2>2. CASE w = "hand"
    <3>1. Found("hand", r, j)' <=> \E u \in Threads : Holding(u)' /\ item[u] = j
      BY DEF Found
    <3>2. Found("hand", r, j) <=> \E u \in Threads : Holding(u) /\ item[u] = j
      BY DEF Found
    <3>3. Holding(th) /\ \A u \in Threads : Holding(u) /\ item[u] = i => u = th
      BY DEF Once
    <3> QED BY <1>7, <2>2, <3>1, <3>2, <3>3
  <2>3. CASE w = "host"
    <3>1. CASE r = q
      BY <1>2, <1>6, <2>3, <3>1 DEF Found, Wheres
    <3>2. CASE r # q
      BY <1>6, <2>1, <2>3, <3>2, FoundSame
    <3> QED BY <3>1, <3>2
  <2>4. CASE w = "guest"
    <3>1. CASE r = q
      BY <1>2, <1>6, <2>4, <3>1 DEF Found, Wheres
    <3>2. CASE r # q
      BY <1>6, <2>1, <2>4, <3>2, FoundSame
    <3> QED BY <3>1, <3>2
  <2>5. CASE w \notin {"host", "guest", "hand"}
    <3>1. Found(w, r, j)' <=> Found(w, r, j)
      BY <2>5, FoundSame, SameWhen DEF Wheres, flushVars
    <3> QED BY <1>2, <2>1, <2>5, <3>1
  <2> QED BY <2>2, <2>3, <2>4, <2>5
<1>9. Apart'
  <2>1. b \in Wheres
    BY DEF Wheres
  <2> QED BY <1>8, <2>1, ApartMoved
<1>10. Once'
  <2>1. RingSame
    BY SameWhen
  <2>2. ASSUME NEW r \in QueueSet
        PROVE  /\ \A s \in Slots(r) : FreeSlot(r, s)' => ring'[r][s] \in ItemsOf(r)
               /\ \A s, v \in Slots(r) :
                     FreeSlot(r, s)' /\ FreeSlot(r, v)' /\ ring'[r][s] = ring'[r][v] => s = v
    BY <2>1 DEF Once, RingSame
  <2>3. ASSUME NEW r \in QueueSet PROVE IsInjective(pendingHC'[r]) /\ IsInjective(pendingGC'[r])
    <3>1. CASE r = q
      BY <1>1, <1>6, <3>1
    <3>2. CASE r # q
      <4>1. IsInjective(pendingHC[r]) /\ IsInjective(pendingGC[r])
        BY DEF Once
      <4> QED BY <1>6, <3>2, <4>1
    <3> QED BY <3>1, <3>2
  <2>4. IsInjective(list')
    BY DEF Once, flushVars
  <2>5. \A v, u \in Threads : Holding(v)' /\ Holding(u)' /\ item'[v] = item'[u] => v = u
    BY <1>7 DEF Once
  <2> QED BY <2>2, <2>3, <2>4, <2>5 DEF Once
<1>11. ASSUME NEW u \in Threads PROVE ReadOf(u)'
  <2>1. CASE u = th
    BY <1>1, <2>1 DEF ReadOf
  <2>2. CASE u # th
    BY <1>1, <2>2, ReadSame DEF ReadInv
  <2> QED BY <2>1, <2>2
<1>12. (emt = "freed" => ring[flushed][freeHead[flushed]] = cur)'
  BY DEF ReadInv, freeVars, flushVars
<1> QED BY <1>9, <1>10, <1>11, <1>12 DEF ReadInv

\* A step of EMT that touches no item, other than FreeItem.
LEMMA EmtQuiet ==
    ASSUME Typed, Once, Apart, ReadInv, UNCHANGED <<freeVars, pendVars, callVars, list, cur>>, emt' # "freed"
    PROVE  Once' /\ Apart' /\ ReadInv'
<1>1. Once' /\ Apart'
  BY SameWhen, NothingMoves DEF pendVars, callVars
<1>2. \A u \in Threads : ReadOf(u)'
  BY ReadSame DEF ReadInv, callVars
<1> QED BY <1>1, <1>2 DEF ReadInv

\* pdmR3QueueFlush takes what is pending: it is in its list, which was empty.
LEMMA TakePendingPlaces ==
    ASSUME Typed, Once, Apart, ReadInv, TakePending
    PROVE  Once' /\ Apart' /\ ReadInv'
<1> SUFFICES ASSUME NEW q \in QueueSet, q = flushed PROVE Once' /\ Apart' /\ ReadInv'
  BY DEF Typed, EmtTypes, TakePending, In, Flushing
<1>1. /\ QueueTypes /\ list = <<>> /\ UNCHANGED <<freeVars, callVars, cur>> /\ emt' = "feed"
      /\ pendingHC' = [pendingHC EXCEPT ![q] = <<>>] /\ pendingGC' = [pendingGC EXCEPT ![q] = <<>>]
      /\ list' = Reverse(pendingGC[q]) \o Reverse(pendingHC[q])
      /\ pendingHC[q] \in Seq(ItemsOf(q)) /\ pendingGC[q] \in Seq(ItemsOf(q))
  BY DEF Typed, QueueTypes, EmtTypes, TakePending, In, Then
<1>2. /\ pendingHC'[q] = <<>> /\ pendingGC'[q] = <<>>
      /\ \A r \in QueueSet : r # q => pendingHC'[r] = pendingHC[r] /\ pendingGC'[r] = pendingGC[r]
  BY <1>1 DEF QueueTypes, OfQueues
<1>3. /\ Reverse(pendingGC[q]) \in Seq(ItemsOf(q)) /\ Range(Reverse(pendingGC[q])) = Range(pendingGC[q])
      /\ Reverse(pendingHC[q]) \in Seq(ItemsOf(q)) /\ Range(Reverse(pendingHC[q])) = Range(pendingHC[q])
      /\ IsInjective(Reverse(pendingGC[q])) /\ IsInjective(Reverse(pendingHC[q]))
  BY <1>1, ReverseIs DEF Once
<1>4. \A i \in ItemsOf(q) : ~(i \in Range(pendingGC[q]) /\ i \in Range(pendingHC[q]))
  <2> SUFFICES ASSUME NEW i \in ItemsOf(q), Found("guest", q, i), Found("host", q, i) PROVE FALSE
    BY DEF Found
  <2>1. "guest" \in Wheres /\ "host" \in Wheres
    BY DEF Wheres
  <2> QED BY <2>1 DEF Apart
<1>5. IsInjective(list') /\ Range(list') = Range(pendingGC[q]) \union Range(pendingHC[q])
  BY <1>1, <1>3, <1>4, JoinIs
<1>6. Range(<<>>) = {} /\ IsInjective(<<>>)
  BY DEF Range, IsInjective
<1>7. ASSUME NEW r \in QueueSet, NEW j \in ItemsOf(r)
      PROVE  /\ Found("list", r, j)' <=> (r = q /\ (Found("host", r, j) \/ Found("guest", r, j)))
             /\ Found("host", r, j)' <=> (r # q /\ Found("host", r, j))
             /\ Found("guest", r, j)' <=> (r # q /\ Found("guest", r, j))
             /\ ~Found("list", r, j)
             /\ Found("ring", r, j)' <=> Found("ring", r, j)
             /\ Found("hand", r, j)' <=> Found("hand", r, j)
             /\ Found("cur", r, j)' <=> Found("cur", r, j)
  <2>1. /\ Found("ring", r, j)' <=> Found("ring", r, j)
        /\ Found("hand", r, j)' <=> Found("hand", r, j)
        /\ Found("cur", r, j)' <=> Found("cur", r, j)
    BY <1>1, SameWhen, FoundSame DEF callVars
  <2>2. ~Found("list", r, j)
    BY <1>1, <1>6 DEF Found
  <2>3. /\ Found("host", r, j)' <=> (r # q /\ Found("host", r, j))
        /\ Found("guest", r, j)' <=> (r # q /\ Found("guest", r, j))
    BY <1>2, <1>6 DEF Found
  <2>4. Found("list", r, j)' <=> (r = q /\ (Found("host", r, j) \/ Found("guest", r, j)))
    <3>1. Found("list", r, j)' <=> (j \in Range(pendingGC[q]) \/ j \in Range(pendingHC[q]))
      BY <1>5 DEF Found
    <3>2. \A x \in Range(pendingGC[q]) \union Range(pendingHC[q]) : x \in ItemsOf(q)
      BY <1>1 DEF Range
    <3>3. j \in Range(pendingGC[q]) \/ j \in Range(pendingHC[q]) => r = q
      BY <3>2, ItemsAre
    <3> QED BY <3>1, <3>3 DEF Found
  <2> QED BY <2>1, <2>2, <2>3, <2>4
<1>8. Apart'
  <2> SUFFICES ASSUME NEW r \in QueueSet, NEW j \in ItemsOf(r)
               PROVE  /\ \A v, w \in Wheres : Found(v, r, j)' /\ Found(w, r, j)' => v = w
                      /\ r \notin Refusing => \E w \in Wheres : Found(w, r, j)'
    BY DEF Apart
  <2>1. CASE r # q
    <3>1. \A w \in Wheres : Found(w, r, j)' <=> Found(w, r, j)
      BY <1>7, <2>1 DEF Wheres
    <3> QED BY <3>1 DEF Apart
  <2>2. CASE r = q
    <3>1. \A v, w \in Wheres : Found(v, r, j) /\ Found(w, r, j) => v = w
      BY DEF Apart
    <3>2. \A v, w \in Wheres : Found(v, r, j)' /\ Found(w, r, j)' => v = w
      BY <1>7, <2>2, <3>1 DEF Wheres
    <3>3. \A w \in Wheres : Found(w, r, j) => \E v \in Wheres : Found(v, r, j)'
      BY <1>7, <2>2 DEF Wheres
    <3> QED BY <3>2, <3>3 DEF Apart
  <2> QED BY <2>1, <2>2
<1>9. Once'
  <2>1. RingSame /\ HandSame
    BY <1>1, SameWhen DEF callVars
  <2>2. \A r \in QueueSet : IsInjective(pendingHC'[r]) /\ IsInjective(pendingGC'[r])
    BY <1>2, <1>6 DEF Once
  <2>3. \A r \in QueueSet :
            /\ \A s \in Slots(r) : FreeSlot(r, s)' => ring'[r][s] \in ItemsOf(r)
            /\ \A s, v \in Slots(r) :
                  FreeSlot(r, s)' /\ FreeSlot(r, v)' /\ ring'[r][s] = ring'[r][v] => s = v
    BY <2>1 DEF Once, RingSame
  <2>4. \A v, u \in Threads : Holding(v)' /\ Holding(u)' /\ item'[v] = item'[u] => v = u
    BY <2>1 DEF Once, HandSame
  <2> QED BY <1>5, <2>2, <2>3, <2>4 DEF Once
<1>10. ReadInv'
  <2>1. \A u \in Threads : ReadOf(u)'
    BY <1>1, ReadSame DEF ReadInv, callVars
  <2> QED BY <1>1, <2>1 DEF ReadInv
<1> QED BY <1>8, <1>9, <1>10

\* The first item of the list is fed to the consumer, which takes it.
LEMMA AcceptPlaces ==
    ASSUME Typed, Once, Apart, ReadInv, Accept
    PROVE  Once' /\ Apart' /\ ReadInv'
<1> SUFFICES ASSUME NEW q \in QueueSet, q = flushed PROVE Once' /\ Apart' /\ ReadInv'
  BY DEF Typed, EmtTypes, Accept, In, Flushing
<1> DEFINE i == Head(list)
<1>1. /\ list \in Seq(ItemsOf(q)) /\ list # <<>> /\ cur = Nil /\ emt' = "free"
      /\ UNCHANGED <<freeVars, pendVars, callVars>> /\ cur' = i /\ list' = Tail(list) /\ IsInjective(list)
  BY DEF Typed, EmtTypes, Accept, In, Then, Flushing, Once
<1>2. i \in ItemsOf(q) /\ i \in Range(list) /\ IsInjective(list') /\ Range(list') = Range(list) \ {i}
  BY <1>1, RestIs
<1>3. Found("list", q, i) /\ "list" \in Wheres /\ "cur" \in Wheres
  BY <1>2 DEF Found, Wheres
<1>4. \A w \in Wheres : w # "list" => ~Found(w, q, i)
  BY <1>2, <1>3, Nowhere
<1>5. RingSame /\ HandSame
  BY <1>1, SameWhen DEF callVars
<1>6. ASSUME NEW r \in QueueSet, NEW j \in ItemsOf(r), NEW w \in Wheres
      PROVE  Found(w, r, j)' <=> IF j = i THEN w = "cur" ELSE Found(w, r, j)
  <2>1. (j = i => r = q) /\ j # Nil
    BY <1>2, ItemsAre
  <2>2. CASE w = "list"
    BY <1>2, <2>2 DEF Found
  <2>3. CASE w = "cur"
    BY <1>1, <2>1, <2>3 DEF Found
  <2>4. CASE w \notin {"list", "cur"}
    <3>1. Found(w, r, j)' <=> Found(w, r, j)
      BY <1>1, <1>5, <2>4, FoundSame DEF Wheres, pendVars
    <3> QED BY <1>4, <2>1, <2>4, <3>1
  <2> QED BY <2>2, <2>3, <2>4
<1>7. Apart'
  BY <1>3, <1>6, ApartMoved
<1>8. Once'
  <2>1. \A r \in QueueSet :
            /\ \A s \in Slots(r) : FreeSlot(r, s)' => ring'[r][s] \in ItemsOf(r)
            /\ \A s, v \in Slots(r) :
                  FreeSlot(r, s)' /\ FreeSlot(r, v)' /\ ring'[r][s] = ring'[r][v] => s = v
            /\ IsInjective(pendingHC'[r]) /\ IsInjective(pendingGC'[r])
    BY <1>1, <1>5 DEF Once, RingSame, pendVars
  <2>2. \A v, u \in Threads : Holding(v)' /\ Holding(u)' /\ item'[v] = item'[u] => v = u
    BY <1>5 DEF Once, HandSame
  <2> QED BY <1>2, <2>1, <2>2 DEF Once
<1>9. ReadInv'
  <2>1. \A u \in Threads : ReadOf(u)'
    BY <1>1, ReadSame DEF ReadInv, callVars
  <2> QED BY <1>1, <2>1 DEF ReadInv
<1> QED BY <1>7, <1>8, <1>9

\* A consumer that refuses the last item: it is nowhere from then on.
LEMMA RefusePlaces ==
    ASSUME Typed, Once, Apart, ReadInv, RefuseLast
    PROVE  Once' /\ Apart' /\ ReadInv'
<1> SUFFICES ASSUME NEW q \in QueueSet, q = flushed PROVE Once' /\ Apart' /\ ReadInv'
  BY DEF Typed, EmtTypes, RefuseLast, In, Flushing
<1>1. /\ list \in Seq(ItemsOf(q)) /\ q \in Refusing /\ emt' = "feed" /\ list' = <<>>
      /\ UNCHANGED <<freeVars, pendVars, callVars, cur>>
  BY DEF Typed, EmtTypes, RefuseLast, In, Then, Flushing
<1>2. Range(<<>>) = {} /\ IsInjective(<<>>)
  BY DEF Range, IsInjective
<1>3. RingSame /\ HandSame
  BY <1>1, SameWhen DEF callVars
<1>4. ASSUME NEW r \in QueueSet, NEW j \in ItemsOf(r), NEW w \in Wheres
      PROVE  Found(w, r, j)' <=> (Found(w, r, j) /\ w # "list")
  <2>1. CASE w = "list"
    BY <1>1, <1>2, <2>1 DEF Found
  <2>2. CASE w # "list"
    BY <1>1, <1>3, <2>2, FoundSame DEF Wheres, pendVars
  <2> QED BY <2>1, <2>2
<1>5. ASSUME NEW r \in QueueSet, r # q, NEW j \in ItemsOf(r) PROVE ~Found("list", r, j)
  <2>1. \A x \in Range(list) : x \in ItemsOf(q)
    BY <1>1 DEF Range
  <2> QED BY <1>5, <2>1, ItemsAre DEF Found
<1>6. Apart'
  <2>1. \A r \in QueueSet : \A j \in ItemsOf(r) : \A v, w \in Wheres :
            Found(v, r, j)' /\ Found(w, r, j)' => v = w
    BY <1>4 DEF Apart
  <2>2. \A r \in QueueSet \ Refusing : \A j \in ItemsOf(r) : \E w \in Wheres : Found(w, r, j)'
    BY <1>1, <1>4, <1>5 DEF Apart
  <2> QED BY <2>1, <2>2 DEF Apart
<1>7. Once'
  <2>1. \A r \in QueueSet :
            /\ \A s \in Slots(r) : FreeSlot(r, s)' => ring'[r][s] \in ItemsOf(r)
            /\ \A s, v \in Slots(r) :
                  FreeSlot(r, s)' /\ FreeSlot(r, v)' /\ ring'[r][s] = ring'[r][v] => s = v
            /\ IsInjective(pendingHC'[r]) /\ IsInjective(pendingGC'[r])
    BY <1>1, <1>3 DEF Once, RingSame, pendVars
  <2>2. \A v, u \in Threads : Holding(v)' /\ Holding(u)' /\ item'[v] = item'[u] => v = u
    BY <1>3 DEF Once, HandSame
  <2> QED BY <1>1, <1>2, <2>1, <2>2 DEF Once
<1>8. ReadInv'
  <2>1. \A u \in Threads : ReadOf(u)'
    BY <1>1, ReadSame DEF ReadInv, callVars
  <2> QED BY <1>1, <2>1 DEF ReadInv
<1> QED BY <1>6, <1>7, <1>8

\* What the consumer has refused and what was behind it is pending again.
LEMMA PutBackPlaces ==
    ASSUME Typed, Once, Apart, ReadInv, PutBack
    PROVE  Once' /\ Apart' /\ ReadInv'
<1> SUFFICES ASSUME NEW q \in QueueSet, q = flushed PROVE Once' /\ Apart' /\ ReadInv'
  BY DEF Typed, EmtTypes, PutBack, In, Flushing
<1>1. /\ QueueTypes /\ list \in Seq(ItemsOf(q)) /\ list' = <<>> /\ IsInjective(list)
      /\ UNCHANGED <<freeVars, pendingGC, callVars, cur>> /\ emt' # "freed"
      /\ pendingHC' = [pendingHC EXCEPT ![q] = @ \o Reverse(list)]
      /\ pendingHC[q] \in Seq(ItemsOf(q)) /\ IsInjective(pendingHC[q])
  BY DEF Typed, QueueTypes, EmtTypes, PutBack, In, Then, AfterStop, FlushEnds, WithOlder, Once, Flushing
<1>2. /\ pendingHC'[q] = pendingHC[q] \o Reverse(list)
      /\ \A r \in QueueSet : r # q => pendingHC'[r] = pendingHC[r]
  BY <1>1 DEF QueueTypes, OfQueues
<1>3. /\ Reverse(list) \in Seq(ItemsOf(q)) /\ Range(Reverse(list)) = Range(list)
      /\ IsInjective(Reverse(list))
  BY <1>1, ReverseIs
<1>4. \A i \in ItemsOf(q) : ~(i \in Range(pendingHC[q]) /\ i \in Range(list))
  <2> SUFFICES ASSUME NEW i \in ItemsOf(q), Found("host", q, i), Found("list", q, i) PROVE FALSE
    BY DEF Found
  <2>1. "list" \in Wheres /\ "host" \in Wheres
    BY DEF Wheres
  <2> QED BY <2>1 DEF Apart
<1>5. IsInjective(pendingHC'[q]) /\ Range(pendingHC'[q]) = Range(pendingHC[q]) \union Range(list)
  <2>1. \A i \in ItemsOf(q) : ~(i \in Range(pendingHC[q]) /\ i \in Range(Reverse(list)))
    BY <1>3, <1>4
  <2>2. /\ IsInjective(pendingHC[q] \o Reverse(list))
        /\ Range(pendingHC[q] \o Reverse(list)) = Range(pendingHC[q]) \union Range(Reverse(list))
    BY <1>1, <1>3, <2>1, JoinIs
  <2> QED BY <1>2, <1>3, <2>2
<1>6. Range(<<>>) = {} /\ IsInjective(<<>>)
  BY DEF Range, IsInjective
<1>7. RingSame /\ HandSame
  BY <1>1, SameWhen DEF callVars
<1>8. ASSUME NEW r \in QueueSet, NEW j \in ItemsOf(r)
      PROVE  /\ Found("host", r, j)' <=> (Found("host", r, j) \/ Found("list", r, j))
             /\ ~Found("list", r, j)'
             /\ Found("guest", r, j)' <=> Found("guest", r, j)
             /\ Found("ring", r, j)' <=> Found("ring", r, j)
             /\ Found("hand", r, j)' <=> Found("hand", r, j)
             /\ Found("cur", r, j)' <=> Found("cur", r, j)
  <2>1. /\ Found("guest", r, j)' <=> Found("guest", r, j)
        /\ Found("ring", r, j)' <=> Found("ring", r, j)
        /\ Found("hand", r, j)' <=> Found("hand", r, j)
        /\ Found("cur", r, j)' <=> Found("cur", r, j)
    BY <1>1, <1>7, FoundSame
  <2>2. ~Found("list", r, j)'
    BY <1>1, <1>6 DEF Found
  <2>3. CASE r = q
    BY <1>5, <2>1, <2>2, <2>3 DEF Found
  <2>4. CASE r # q
    <3>1. \A x \in Range(list) : x \in ItemsOf(q)
      BY <1>1 DEF Range
    <3>2. j \notin Range(list)
      BY <2>4, <3>1, ItemsAre
    <3> QED BY <1>2, <2>1, <2>2, <2>4, <3>2 DEF Found
  <2> QED BY <2>3, <2>4
<1>9. Apart'
  <2> SUFFICES ASSUME NEW r \in QueueSet, NEW j \in ItemsOf(r)
               PROVE  /\ \A v, w \in Wheres : Found(v, r, j)' /\ Found(w, r, j)' => v = w
                      /\ r \notin Refusing => \E w \in Wheres : Found(w, r, j)'
    BY DEF Apart
  <2>1. \A v, w \in Wheres : Found(v, r, j) /\ Found(w, r, j) => v = w
    BY DEF Apart
  <2>2. \A v, w \in Wheres : Found(v, r, j)' /\ Found(w, r, j)' => v = w
    BY <1>8, <2>1 DEF Wheres
  <2>3. \A w \in Wheres : Found(w, r, j) => \E v \in Wheres : Found(v, r, j)'
    BY <1>8 DEF Wheres
  <2> QED BY <2>2, <2>3 DEF Apart
<1>10. Once'
  <2>1. ASSUME NEW r \in QueueSet PROVE IsInjective(pendingHC'[r]) /\ IsInjective(pendingGC'[r])
    <3>1. CASE r = q
      BY <1>1, <1>5, <3>1 DEF Once
    <3>2. CASE r # q
      BY <1>1, <1>2, <3>2 DEF Once
    <3> QED BY <3>1, <3>2
  <2>2. \A r \in QueueSet :
            /\ \A s \in Slots(r) : FreeSlot(r, s)' => ring'[r][s] \in ItemsOf(r)
            /\ \A s, v \in Slots(r) :
                  FreeSlot(r, s)' /\ FreeSlot(r, v)' /\ ring'[r][s] = ring'[r][v] => s = v
    BY <1>7 DEF Once, RingSame
  <2>3. \A v, u \in Threads : Holding(v)' /\ Holding(u)' /\ item'[v] = item'[u] => v = u
    BY <1>7 DEF Once, HandSame
  <2> QED BY <1>1, <1>6, <2>1, <2>2, <2>3 DEF Once
<1>11. ReadInv'
  <2>1. \A u \in Threads : ReadOf(u)'
    BY <1>1, ReadSame DEF ReadInv, callVars
  <2> QED BY <1>1, <2>1 DEF ReadInv
<1> QED BY <1>9, <1>10, <1>11

\* pdmR3QueueFree writes the item where the head is: that slot is not free yet.
LEMMA FreeItemPlaces ==
    ASSUME Typed, Once, Apart, ReadInv, FreeItem
    PROVE  Once' /\ Apart' /\ ReadInv'
<1> SUFFICES ASSUME NEW q \in QueueSet, q = flushed PROVE Once' /\ Apart' /\ ReadInv'
  BY DEF Typed, EmtTypes, FreeItem, In, Flushing
<1> DEFINE h == freeHead[q]
<1>1. /\ QueueTypes /\ CallTypes /\ UNCHANGED <<freeHead, freeTail, pendVars, callVars, list, cur, flushed>>
      /\ ring' = [ring EXCEPT ![q] = [ring[q] EXCEPT ![h] = cur]]
  BY DEF Typed, FreeItem
<1>2. /\ h \in Slots(q) /\ freeTail[q] \in Slots(q) /\ ring'[q][h] = cur
      /\ \A r \in QueueSet : \A s \in Slots(r) : (r # q \/ s # h) => ring'[r][s] = ring[r][s]
  BY <1>1 DEF QueueTypes, OfQueues
<1>3. ~FreeSlot(q, h)
  <2> SUFFICES ASSUME NEW t \in 0 .. Ring(q) - 1, t = freeTail[q], NEW k \in 0 .. Ring(q) - 1, k = h
               PROVE  ~FreeSlot(q, k)
    BY <1>2, Given
  <2>1. Ring(q) \in Nat
    BY Given
  <2> QED BY <2>1 DEF FreeSlot
<1>4. RingSame
  <2>1. \A r \in QueueSet : \A s \in Slots(r) : FreeSlot(r, s)' <=> FreeSlot(r, s)
    BY <1>1 DEF FreeSlot
  <2> QED BY <1>2, <1>3, <2>1 DEF RingSame
<1>5. Once' /\ Apart'
  BY <1>1, <1>4, SameWhen, NothingMoves DEF pendVars, callVars
<1>6. ASSUME NEW u \in Threads PROVE ReadOf(u)'
  <2>1. UNCHANGED <<pc, on, item, slot, moved>>
    BY <1>1 DEF callVars
  <2>2. CASE pc[u] = "take"
    <3>1. on[u] \in QueueSet
      BY <1>1, <2>2, InCall DEF CallTypes
    <3>2. ASSUME moved[u] = FALSE
          PROVE  ring'[on[u]][slot[u]] = ring[on[u]][slot[u]]
      <4>1. slot[u] \in Slots(on[u])
        BY <2>2 DEF ReadInv, ReadOf
      <4>2. CASE on[u] = q
        <5>1. freeTail[q] = slot[u] /\ freeTail[q] # h
          BY <2>2, <3>2, <4>2 DEF ReadInv, ReadOf
        <5> QED BY <1>2, <4>1, <4>2, <5>1
      <4>3. CASE on[u] # q
        BY <1>2, <3>1, <4>1, <4>3
      <4> QED BY <4>2, <4>3
    <3> QED BY <1>1, <2>1, <2>2, <3>2 DEF ReadInv, ReadOf
  <2>3. CASE pc[u] # "take"
    BY <2>1, <2>3 DEF ReadOf
  <2> QED BY <2>2, <2>3
<1>7. (emt = "freed" => ring[flushed][freeHead[flushed]] = cur)'
  BY <1>1, <1>2
<1> QED BY <1>5, <1>6, <1>7 DEF ReadInv

\* There is a slot for every item and Slack more: with one item in EMT's hands the head
\* cannot come up to the tail, where a full ring would look like an empty one.
LEMMA NeverFull ==
    ASSUME Typed, Once, Apart, NEW q \in QueueSet, NEW i \in ItemsOf(q), Found("cur", q, i)
    PROVE  NextSlot(q, freeHead[q]) # freeTail[q]
<1> SUFFICES ASSUME NextSlot(q, freeHead[q]) = freeTail[q] PROVE FALSE
  OBVIOUS
<1> DEFINE h == freeHead[q]
           R == Ring(q)
           S == Slots(q) \ {h}
           T == ItemsOf(q) \ {i}
<1>1. h \in Slots(q) /\ freeTail[q] \in Slots(q) /\ R \in Nat /\ R > cItems[q] /\ R > 1 /\ Slots(q) = 0 .. R - 1
      /\ cItems[q] \in Nat
  BY Given DEF Typed, QueueTypes
<1>2. \A s \in S : FreeSlot(q, s)
  <2> SUFFICES ASSUME NEW t \in 0 .. R - 1, t = freeTail[q], NEW k \in 0 .. R - 1, k = h, NEW s \in 0 .. R - 1,
                      s # k
               PROVE  FreeSlot(q, s)
    BY <1>1
  <2>1. t = IF k + 1 = R THEN 0 ELSE k + 1
    BY <1>1, NextSlotIs
  <2> HIDE DEF R
  <2> QED BY <1>1, <2>1 DEF FreeSlot
<1>3. \A s \in S : ring[q][s] \in T
  <2>1. "ring" \in Wheres /\ "cur" \in Wheres /\ "ring" # "cur"
    BY DEF Wheres
  <2>2. ~Found("ring", q, i)
    BY <2>1, Nowhere
  <2> QED BY <1>2, <2>2 DEF Once, Found
<1>4. [s \in S |-> ring[q][s]] \in Injection(S, T)
  BY <1>2, <1>3 DEF Once, Injection, IsInjective
<1>5. IsFiniteSet(S) /\ Cardinality(S) = R - 1
  <2> HIDE DEF R
  <2>1. IsFiniteSet(0 .. R - 1) /\ Cardinality(0 .. R - 1) = R
    BY <1>1, FS_Interval
  <2>2. /\ IsFiniteSet((0 .. R - 1) \ {h})
        /\ Cardinality((0 .. R - 1) \ {h}) =
              IF h \in 0 .. R - 1 THEN Cardinality(0 .. R - 1) - 1 ELSE Cardinality(0 .. R - 1)
    BY <2>1, FS_RemoveElement
  <2> QED BY <1>1, <2>1, <2>2
<1>6. IsFiniteSet(T) /\ Cardinality(T) = cItems[q] - 1
  BY ItemsCount, FS_RemoveElement
<1>7. Cardinality(S) <= Cardinality(T)
  BY <1>4, <1>6, FS_Injection
<1> HIDE DEF S, T, R
<1> QED BY <1>1, <1>5, <1>6, <1>7

\* Then the head moves on, and the item is in the free part of the ring.
LEMMA FreeHeadPlaces ==
    ASSUME Typed, Once, Apart, ReadInv, FreeHead
    PROVE  Once' /\ Apart' /\ ReadInv'
<1> SUFFICES ASSUME NEW q \in QueueSet, q = flushed PROVE Once' /\ Apart' /\ ReadInv'
  BY DEF Typed, EmtTypes, FreeHead, In, Flushing
<1> DEFINE h == freeHead[q]
           i == cur
<1>1. /\ QueueTypes /\ CallTypes /\ UNCHANGED <<ring, freeTail, pendVars, list>>
      /\ UNCHANGED <<pc, on, item, slot, moved>> /\ cur' = Nil /\ emt' = "feed"
      /\ i \in ItemsOf(q) /\ ring[q][h] = i
      /\ freeHead' = [freeHead EXCEPT ![q] = NextSlot(q, h)]
  BY DEF Typed, EmtTypes, FreeHead, In, Then, ReadInv
<1>2. /\ h \in Slots(q) /\ freeTail[q] \in Slots(q) /\ freeHead'[q] = NextSlot(q, h)
      /\ \A r \in QueueSet : r # q => freeHead'[r] = freeHead[r]
  BY <1>1 DEF QueueTypes, OfQueues
<1>3. Found("cur", q, i) /\ "cur" \in Wheres /\ "ring" \in Wheres
  BY DEF Found, Wheres
<1>4. \A w \in Wheres : w # "cur" => ~Found(w, q, i)
  BY <1>1, <1>3, Nowhere
<1>5. freeHead'[q] # freeTail[q] /\ freeTail' = freeTail
  BY <1>1, <1>2, <1>3, NeverFull
<1>6. \A s \in Slots(q) : FreeSlot(q, s)' <=> (FreeSlot(q, s) \/ s = h)
  <2>1. freeTail'[q] = freeTail[q]
    BY <1>1
  <2> QED BY <1>2, <1>5, <2>1, FreeGrows
<1>7. \A r \in QueueSet : r # q => \A s \in Slots(r) : FreeSlot(r, s)' <=> FreeSlot(r, s)
  BY <1>1, <1>2 DEF FreeSlot
<1>8. \A s \in Slots(q) : FreeSlot(q, s) => ring[q][s] # i
  BY <1>4 DEF Found, Wheres
<1>9. HandSame
  BY <1>1, SameWhen
<1>10. ASSUME NEW r \in QueueSet, NEW j \in ItemsOf(r), NEW w \in Wheres
       PROVE  Found(w, r, j)' <=> IF j = i THEN w = "ring" ELSE Found(w, r, j)
  <2>1. (j = i => r = q) /\ j # Nil
    BY <1>1, ItemsAre
  <2>2. CASE w = "ring"
    <3>1. Found("ring", r, j)' <=> \E s \in Slots(r) : FreeSlot(r, s)' /\ ring[r][s] = j
      BY <1>1 DEF Found
    <3>2. Found("ring", r, j) <=> \E s \in Slots(r) : FreeSlot(r, s) /\ ring[r][s] = j
      BY DEF Found
    <3>3. r # q => (Found("ring", r, j)' <=> Found("ring", r, j))
      BY <1>7, <3>1, <3>2
    <3>4. r = q => (Found("ring", r, j)' <=> (Found("ring", r, j) \/ j = i))
      BY <1>1, <1>2, <1>6, <3>1, <3>2
    <3> QED BY <2>1, <2>2, <3>3, <3>4
  <2>3. CASE w = "cur"
    BY <1>1, <2>1, <2>3 DEF Found
  <2>4. CASE w \notin {"ring", "cur"}
    <3>1. Found(w, r, j)' <=> Found(w, r, j)
      BY <1>1, <1>9, <2>4, FoundSame DEF Wheres, pendVars
    <3> QED BY <1>4, <2>1, <2>4, <3>1
  <2> QED BY <2>2, <2>3, <2>4
<1>11. Apart'
  BY <1>3, <1>10, ApartMoved
<1>12. Once'
  <2>1. ASSUME NEW r \in QueueSet
        PROVE  /\ \A s \in Slots(r) : FreeSlot(r, s)' => ring'[r][s] \in ItemsOf(r)
               /\ \A s, v \in Slots(r) :
                     FreeSlot(r, s)' /\ FreeSlot(r, v)' /\ ring'[r][s] = ring'[r][v] => s = v
    <3>1. CASE r = q
      BY <1>1, <1>6, <1>8, <3>1 DEF Once
    <3>2. CASE r # q
      BY <1>1, <1>7, <3>2 DEF Once
    <3> QED BY <3>1, <3>2
  <2>2. \A r \in QueueSet : IsInjective(pendingHC'[r]) /\ IsInjective(pendingGC'[r])
    BY <1>1 DEF Once, pendVars
  <2>3. IsInjective(list') /\ \A v, u \in Threads : Holding(v)' /\ Holding(u)' /\ item'[v] = item'[u] => v = u
    BY <1>1, <1>9 DEF Once, HandSame
  <2> QED BY <2>1, <2>2, <2>3 DEF Once
<1>13. ASSUME NEW u \in Threads PROVE ReadOf(u)'
  <2>1. CASE pc[u] = "take"
    <3>1. on[u] \in QueueSet
      BY <2>1, InCall
    <3>2. moved[u] = FALSE => freeTail[on[u]] # freeHead'[on[u]]
      BY <1>2, <1>5, <2>1, <3>1 DEF ReadInv, ReadOf
    <3> QED BY <1>1, <2>1, <3>2 DEF ReadInv, ReadOf
  <2>2. CASE pc[u] # "take"
    BY <1>1, <2>2 DEF ReadOf
  <2> QED BY <2>1, <2>2
<1>14. ReadInv'
  BY <1>1, <1>13 DEF ReadInv
<1> QED BY <1>11, <1>12, <1>14

----------------------------------------------------------------------------
(* No item is lost or in two places *)

\* All items are in the ring at first.
LEMMA QueueInit == Init => QueueInv
<1> SUFFICES ASSUME Init PROVE QueueInv
  OBVIOUS
<1> USE DEF Init
<1>1. ASSUME NEW q \in QueueSet
      PROVE  /\ ring[q] = [i \in Slots(q) |-> IF i < cItems[q] THEN <<q, i>> ELSE Nil]
             /\ ring[q] \in [Slots(q) -> ItemsOf(q) \union {Nil}]
             /\ freeHead[q] = cItems[q] /\ freeHead[q] \in Slots(q)
             /\ freeTail[q] = 0 /\ freeTail[q] \in Slots(q)
             /\ pendingHC[q] = <<>> /\ pendingGC[q] = <<>>
             /\ cItems[q] \in Nat /\ Slots(q) \subseteq Nat
  <2>1. cItems[q] \in Nat /\ Ring(q) \in Nat /\ Ring(q) > cItems[q] /\ Slots(q) = 0 .. Ring(q) - 1
    BY Given
  <2>2. \A s \in Slots(q) : s < cItems[q] => <<q, s>> \in ItemsOf(q)
    BY <2>1 DEF ItemsOf
  <2> HIDE DEF Ring
  <2> QED BY <2>1, <2>2
<1>2. QueueTypes
  <2>1. OfQueues(freeHead)
    BY PDMQueueAssumption DEF OfQueues
  <2>2. OfQueues(ring) /\ OfQueues(freeTail) /\ OfQueues(pendingHC) /\ OfQueues(pendingGC)
    BY DEF OfQueues
  <2>3. \A q \in QueueSet : <<>> \in Seq(ItemsOf(q))
    OBVIOUS
  <2>4. ff \in BOOLEAN /\ by \in [Items -> Threads \union {Nil}]
    OBVIOUS
  <2> HIDE DEF Init
  <2> QED BY <1>1, <2>1, <2>2, <2>3, <2>4 DEF QueueTypes
<1>3. CallTypes
  BY Given DEF CallTypes, CallSteps
<1>4. EmtTypes
  BY Given DEF EmtTypes, EmtSteps, Flushing
<1>5. ASSUME NEW q \in QueueSet, NEW s \in Slots(q)
      PROVE  (FreeSlot(q, s) <=> s < cItems[q]) /\ (FreeSlot(q, s) => ring[q][s] = <<q, s>>)
  <2>1. FreeSlot(q, s) <=> s < cItems[q]
    BY <1>1 DEF FreeSlot
  <2> QED BY <1>1, <2>1
<1>6. Once
  <2>1. IsInjective(<<>>)
    BY DEF IsInjective
  <2>2. ASSUME NEW q \in QueueSet, NEW s \in Slots(q), FreeSlot(q, s) PROVE ring[q][s] \in ItemsOf(q)
    <3>1. s \in 0 .. cItems[q] - 1
      <4>1. s \in Nat /\ s < cItems[q] /\ cItems[q] \in Nat
        BY <1>1, <1>5, <2>2
      <4> HIDE DEF Init
      <4> QED BY <4>1
    <3> QED BY <1>5, <2>2, <3>1 DEF ItemsOf
  <2>3. ASSUME NEW q \in QueueSet, NEW s \in Slots(q), NEW t \in Slots(q), FreeSlot(q, s), FreeSlot(q, t),
               ring[q][s] = ring[q][t]
        PROVE  s = t
    BY <1>5, <2>3
  <2>4. \A u \in Threads : ~Holding(u)
    BY DEF Holding
  <2> QED BY <1>1, <2>1, <2>2, <2>3, <2>4 DEF Once
<1>7. Apart
  <2> SUFFICES ASSUME NEW q \in QueueSet, NEW i \in ItemsOf(q)
               PROVE  /\ \A v, w \in Wheres : Found(v, q, i) /\ Found(w, q, i) => v = w
                      /\ \E w \in Wheres : Found(w, q, i)
    BY DEF Apart
  <2>1. Range(<<>>) = {} /\ i # Nil
    BY ItemsAre DEF Range
  <2>2. \A w \in Wheres : Found(w, q, i) => w = "ring"
    BY <1>1, <2>1 DEF Found, Holding
  <2>3. Found("ring", q, i)
    <3>1. PICK k \in 0 .. cItems[q] - 1 : i = <<q, k>>
      BY DEF ItemsOf
    <3>2. k \in Slots(q) /\ k < cItems[q]
      <4>1. Ring(q) \in Nat /\ Ring(q) > cItems[q] /\ Slots(q) = 0 .. Ring(q) - 1 /\ cItems[q] \in Nat
        BY Given
      <4> HIDE DEF Ring
      <4> QED BY <4>1
    <3>3. FreeSlot(q, k) /\ ring[q][k] = i
      BY <1>5, <3>1, <3>2
    <3> QED BY <3>2, <3>3 DEF Found
  <2>4. "ring" \in Wheres
    BY DEF Wheres
  <2> QED BY <2>2, <2>3, <2>4
<1>8. ReadInv
  BY DEF ReadInv, ReadOf
<1> QED BY <1>2, <1>3, <1>4, <1>6, <1>7, <1>8 DEF QueueInv, Typed

\* Every step keeps it.
LEMMA QueueStep ==
    ASSUME ~MayLap, QueueInv, [Next]_vars
    PROVE  QueueInv'
<1> USE DEF QueueInv
<1>1. ASSUME NEW th \in Threads, NEW q \in QueueSet, Alloc(th, q) PROVE QueueInv'
  <2>1. pc[th] = "ready" /\ ReadTail(th, q) /\ (th = EMT => emt \in {"guest", "ring3"})
        /\ (th = EMT /\ emt = "guest" => q \in GCEnabled)
    BY <1>1 DEF Alloc, MayCall, At
  <2>2. Typed'
    BY <2>1, ReadTypes
  <2> QED BY <2>1, <2>2, ReadPlaces
<1>2. ASSUME NEW th \in Threads, AllocAgain(th) PROVE QueueInv'
  <2>1. pc[th] = "again" /\ ReadTail(th, on[th])
    BY <1>2 DEF AllocAgain, At
  <2>2. /\ on[th] \in QueueSet
        /\ th = EMT => emt \in {"guest", "ring3"} /\ (emt = "guest" => on[th] \in GCEnabled)
    BY <2>1, InCall
  <2>3. Typed'
    BY <2>1, <2>2, ReadTypes
  <2> QED BY <2>1, <2>2, <2>3, ReadPlaces
<1>3. ASSUME NEW th \in Threads, Take(th) PROVE QueueInv'
  BY <1>3, TakeTypes, TakenPlaces, AgainPlaces
<1>4. ASSUME NEW th \in Threads, Insert(th) \/ Push(th) \/ PushGuest(th) \/ Raise(th) PROVE QueueInv'
  <2>1. Typed'
    BY <1>4, InsertTypes
  <2>2. CASE pendingHC' = pendingHC /\ (Insert(th) \/ Push(th) \/ Raise(th))
    BY <2>1, <2>2, InsertPlaces
  <2>3. CASE PushGuest(th) \/ (Push(th) /\ pendingHC' # pendingHC)
    <3>1. /\ Holding(th) /\ Goto(th, "raise") /\ UNCHANGED <<freeVars, on, item, slot, moved, by, flushVars>>
          /\ \/ /\ pendingHC' = [pendingHC EXCEPT ![on[th]] = <<item[th]>> \o @] /\ UNCHANGED pendingGC
             \/ /\ pendingGC' = [pendingGC EXCEPT ![on[th]] = <<item[th]>> \o @] /\ UNCHANGED pendingHC
      BY <2>3 DEF Push, PushGuest, Holding, At
    <3>2. on[th] \in QueueSet
      BY <3>1, InCall DEF Holding
    <3> QED BY <2>1, <3>1, <3>2, PushPlaces
  <2> QED BY <1>4, <2>2, <2>3 DEF Insert, Raise, pendVars
<1>5. CASE \/ ExitGuest \/ EnterGuest \/ FlushAll \/ Scan \/ ScanEnd \/ Refuse \/ Clear \/ Recalc
           \/ \E q \in QueueSet : FlushWorker(q)
  <2>1. Typed'
    BY <1>5, EmtGoesOn
  <2>2. UNCHANGED <<freeVars, pendVars, callVars, list, cur>> /\ emt' # "freed"
    BY <1>5 DEF ExitGuest, EnterGuest, FlushAll, Scan, ScanEnd, Refuse, Clear, Recalc, FlushWorker, In, Then
  <2> QED BY <2>1, <2>2, EmtQuiet
<1>6. CASE FlushDone
  <2>1. UNCHANGED <<freeVars, pendVars, callVars, list, cur>> /\ emt' # "freed"
    BY <1>6 DEF FlushDone, AfterFlush, FlushEnds, Then
  <2> QED BY <1>6, <2>1, EmtQuiet, FlushTypes
<1>7. CASE TakePending \/ Accept \/ RefuseLast \/ PutBack \/ FreeItem \/ FreeHead
  <2>1. Typed'
    BY <1>7, FlushTypes
  <2> QED BY <1>7, <2>1, TakePendingPlaces, AcceptPlaces, RefusePlaces, PutBackPlaces, FreeItemPlaces,
          FreeHeadPlaces
<1>8. CASE UNCHANGED vars
  <2>1. UNCHANGED <<freeVars, pendVars, callVars, list, cur, ff, emt, scan, flushed, mode>>
    BY <1>8 DEF vars, flushVars
  <2>2. Typed'
    BY <2>1 DEF Typed, QueueTypes, OfQueues, CallTypes, EmtTypes, freeVars, pendVars, callVars
  <2>3. RingSame /\ HandSame
    BY <2>1, SameWhen DEF callVars
  <2>4. Once' /\ Apart'
    BY <2>1, <2>3, NothingMoves DEF pendVars
  <2>5. \A u \in Threads : ReadOf(u)'
    BY <2>1, ReadSame DEF ReadInv, callVars
  <2> QED BY <2>1, <2>2, <2>4, <2>5 DEF ReadInv, freeVars
<1> QED BY <1>1, <1>2, <1>3, <1>4, <1>5, <1>6, <1>7, <1>8 DEF Next, CallStep, EmtStep

\* The inductive invariant.
LEMMA QueueAlways ==
    ASSUME ~MayLap
    PROVE  Spec => []QueueInv
<1>1. QueueInv /\ [Next]_vars => QueueInv'
  BY QueueStep
<1> QED BY <1>1, QueueInit, PTL DEF Spec

\* A set without two elements has one or none.
LEMMA AtMostOne ==
    ASSUME NEW S, \A x, y \in S : x = y
    PROVE  Cardinality(S) = IF S = {} THEN 0 ELSE 1
<1>1. CASE S = {}
  BY <1>1, FS_EmptySet
<1>2. ASSUME NEW x \in S PROVE Cardinality(S) = 1
  <2>1. S = {x}
    BY <1>2
  <2> QED BY <2>1, FS_Singleton
<1> QED BY <1>1, <1>2

\* The places an item is in, counted as Places counts them.
LEMMA PlacesAre ==
    ASSUME Once, NEW q \in QueueSet, NEW i \in ItemsOf(q)
    PROVE  Places(q, i) =
              (IF Found("hand", q, i) THEN 1 ELSE 0) + (IF Found("host", q, i) THEN 1 ELSE 0)
                + (IF Found("guest", q, i) THEN 1 ELSE 0) + (IF Found("list", q, i) THEN 1 ELSE 0)
                + (IF Found("ring", q, i) THEN 1 ELSE 0) + (IF Found("cur", q, i) THEN 1 ELSE 0)
<1>1. Cardinality(Holders(i)) = IF Found("hand", q, i) THEN 1 ELSE 0
  <2>1. \A t, u \in Holders(i) : t = u
    BY DEF Holders, Once, Holding
  <2>2. Holders(i) = {} <=> ~Found("hand", q, i)
    BY DEF Holders, Found, Holding
  <2> QED BY <2>1, <2>2, AtMostOne
<1>2. ASSUME NEW s, IsInjective(s)
      PROVE  Cardinality({k \in DOMAIN s : s[k] = i}) = IF i \in Range(s) THEN 1 ELSE 0
  <2> DEFINE K == {k \in DOMAIN s : s[k] = i}
  <2>1. \A k, m \in K : k = m
    BY <1>2 DEF IsInjective
  <2>2. K = {} <=> i \notin Range(s)
    BY DEF Range
  <2> HIDE DEF K
  <2>3. Cardinality(K) = IF i \in Range(s) THEN 1 ELSE 0
    BY <2>1, <2>2, AtMostOne
  <2> QED BY <2>3 DEF K
<1>3. /\ Cardinality({k \in DOMAIN pendingHC[q] : pendingHC[q][k] = i}) = IF Found("host", q, i) THEN 1 ELSE 0
      /\ Cardinality({k \in DOMAIN pendingGC[q] : pendingGC[q][k] = i}) = IF Found("guest", q, i) THEN 1 ELSE 0
      /\ Cardinality({k \in DOMAIN list : list[k] = i}) = IF Found("list", q, i) THEN 1 ELSE 0
  <2>1. IsInjective(pendingHC[q]) /\ IsInjective(pendingGC[q]) /\ IsInjective(list)
    BY DEF Once
  <2>2. /\ Found("host", q, i) <=> i \in Range(pendingHC[q])
        /\ Found("guest", q, i) <=> i \in Range(pendingGC[q])
        /\ Found("list", q, i) <=> i \in Range(list)
    BY DEF Found
  <2> QED BY <1>2, <2>1, <2>2
<1>4. (Free(q, i) <=> Found("ring", q, i)) /\ (cur = i <=> Found("cur", q, i))
  <2>1. Free(q, i) <=> \E s \in Slots(q) : ring[q][s] = i /\ FreeSlot(q, s)
    BY DEF Free, FreeSlot
  <2>2. (Found("ring", q, i) <=> \E s \in Slots(q) : FreeSlot(q, s) /\ ring[q][s] = i)
        /\ (cur = i <=> Found("cur", q, i))
    BY DEF Found
  <2> QED BY <2>1, <2>2
<1> QED BY <1>1, <1>3, <1>4 DEF Places

\* The places of an item are one, or none if its consumer may refuse it.
LEMMA AllApart ==
    ASSUME Once, Apart, NEW q \in QueueSet, NEW i \in ItemsOf(q)
    PROVE  Places(q, i) <= 1 /\ (q \notin Refusing => Places(q, i) = 1)
<1>1. /\ \A v, w \in Wheres : Found(v, q, i) /\ Found(w, q, i) => v = w
      /\ q \notin Refusing => \E w \in Wheres : Found(w, q, i)
  BY DEF Apart
<1>2. CASE \A w \in Wheres : ~Found(w, q, i)
  BY <1>1, <1>2, PlacesAre DEF Wheres
<1>3. ASSUME NEW a \in Wheres, Found(a, q, i) PROVE Places(q, i) = 1
  <2>1. \A w \in Wheres : Found(w, q, i) <=> w = a
    BY <1>1, <1>3
  <2> QED BY <2>1, PlacesAre DEF Wheres
<1> QED BY <1>2, <1>3

\* The invariant is one of the types the runs check, and of OnePlace.
LEMMA TypesMean == Typed => TypeOK
<1> SUFFICES ASSUME Typed PROVE TypeOK
  OBVIOUS
<1>1. flushed \in QueueSet \union {Nil} /\ mode \in {"first", "second", "worker", Nil}
  BY DEF Typed, EmtTypes
<1>2. flushed = Nil => list = <<>> /\ cur = Nil
  BY Given DEF Typed, EmtTypes, Flushing
<1>3. \A th \in Threads :
          /\ pc[th] = "ready" => on[th] = Nil
          /\ pc[th] # "ready" => on[th] \in QueueSet
          /\ pc[th] \in {"take", "insert", "push", "raise"} => item[th] \in ItemsOf(on[th])
          /\ moved[th] \in BOOLEAN /\ (moved[th] => pc[th] = "take")
  BY DEF Typed, CallTypes
<1> QED BY <1>1, <1>2, <1>3 DEF Typed, QueueTypes, CallTypes, EmtTypes, TypeOK

\* As long as no ring goes round while a thread allocates from it, no item is in two places,
\* and none is lost of a queue whose consumer takes everything: each is in one of the ring's
\* free slots, in one producer's hands, on one of the LIFOs once, or with EMT; for all numbers
\* of producers and queues, and rings of all lengths.
THEOREM OnePlaceAlways ==
    ASSUME ~MayLap
    PROVE  Spec => []OnePlace
<1>1. QueueInv => OnePlace
  BY TypesMean, AllApart DEF QueueInv, OnePlace
<1> QED BY <1>1, QueueAlways, PTL

----------------------------------------------------------------------------
(* The forced action *)

\* Somebody is to look at the queue.
Watched(q) == ff \/ Raising(q) \/ Ahead(q) \/ q \in refused

\* Where the scan is.
LEMMA ScanOf ==
    /\ \A q \in QueueSet : q \in ToSet(Queues) /\ q \notin ToSet(<<>>)
    /\ \A s \in Seq(QueueSet) : s # <<>> =>
          \A q \in QueueSet : q \in ToSet(s) <=> (q = Head(s) \/ q \in ToSet(Tail(s)))
<1>1. \A q \in QueueSet : q \in ToSet(Queues) /\ q \notin ToSet(<<>>)
  BY DEF QueueSet, ToSet
<1>2. ASSUME NEW s \in Seq(QueueSet), s # <<>>, NEW q \in QueueSet
      PROVE  q \in ToSet(s) <=> (q = Head(s) \/ q \in ToSet(Tail(s)))
  <2> DEFINE r == Tail(s)
             n == Len(s)
  <2>1. /\ n \in Nat \ {0} /\ DOMAIN s = 1 .. n /\ DOMAIN r = 1 .. (n - 1) /\ Head(s) = s[1]
        /\ \A p \in 1 .. (n - 1) : r[p] = s[p + 1]
    BY <1>2, TailOf
  <2> HIDE DEF r, n
  <2>2. /\ 1 \in DOMAIN s /\ \A p \in DOMAIN r : p + 1 \in DOMAIN s /\ r[p] = s[p + 1]
        /\ \A p \in DOMAIN s : p # 1 => p - 1 \in DOMAIN r /\ r[p - 1] = s[p]
    BY <2>1
  <2>3. q \in ToSet(s) <=> (q = Head(s) \/ q \in ToSet(r))
    BY <2>1, <2>2 DEF ToSet
  <2> QED BY <2>3 DEF r
<1> QED BY <1>1, <1>2

\* A step of a call.
LEMMA CallFlag ==
    ASSUME Typed, NEW th \in Threads, CallStep(th) \/ (\E r \in QueueSet : Alloc(th, r)),
           NEW q \in QueueSet, Pending(q) => Watched(q), Pending(q)'
    PROVE  Watched(q)'
<1>1. /\ CallTypes /\ QueueTypes /\ UNCHANGED <<emt, scan, flushed, refused>>
      /\ pc[th] # "ready" => on[th] \in QueueSet
  BY InCall DEF Typed, CallStep, Alloc, AllocAgain, ReadTail, Take, Insert, Push, PushGuest, Raise, flushVars
<1>2. Ahead(q)' <=> Ahead(q)
  BY <1>1 DEF Ahead
<1>3. CASE Raise(th)
  BY <1>3 DEF Raise, Watched
<1>4. CASE ~Raise(th)
  <2>1. /\ ff' = ff /\ pc[th] # "raise"
        /\ \A u \in Threads : u # th => pc'[u] = pc[u] /\ on'[u] = on[u]
    BY <1>1, <1>4 DEF CallStep, Alloc, MayCall, AllocAgain, ReadTail, Take, Insert, Push, PushGuest, Done, Goto, At,
       CallTypes
  <2>2. Raising(q) => Raising(q)'
    BY <2>1 DEF Raising, At
  <2>3. CASE pendingHC'[q] = pendingHC[q] /\ pendingGC'[q] = pendingGC[q]
    BY <1>1, <1>2, <2>1, <2>2, <2>3 DEF Watched, Pending
  <2>4. CASE pendingHC'[q] # pendingHC[q] \/ pendingGC'[q] # pendingGC[q]
    <3>1. (Push(th) \/ PushGuest(th)) /\ on' = on /\ q = on[th]
      BY <1>1, <1>4, <2>4 DEF CallStep, Alloc, AllocAgain, ReadTail, Take, Insert, Push, PushGuest, pendVars,
         QueueTypes, OfQueues
    <3>2. Goto(th, "raise")
      BY <2>4, <3>1 DEF Push, PushGuest
    <3>3. pc'[th] = "raise"
      BY <1>1, <3>2 DEF Goto, CallTypes
    <3> QED BY <3>1, <3>3, SMTT(30) DEF Watched, Raising, At
  <2> QED BY <2>3, <2>4
<1> QED BY <1>3, <1>4

\* A step of EMT.
LEMMA EmtFlag ==
    ASSUME Typed, EmtStep \/ RefuseLast \/ Refuse \/ (\E r \in QueueSet : FlushWorker(r)),
           NEW q \in QueueSet, Pending(q) => Watched(q), Pending(q)'
    PROVE  Watched(q)'
<1>1. /\ QueueTypes /\ UNCHANGED <<pc, on>> /\ ff \in BOOLEAN
      /\ scan \in Seq(QueueSet)
      /\ emt \in {"guest", "ring3", "clear"} \/ (emt \in Flushing /\ mode = "worker") => scan = <<>>
      /\ emt \in Flushing => flushed \in QueueSet
  BY DEF Typed, QueueTypes, EmtTypes, EmtStep, ExitGuest, EnterGuest, FlushAll, Scan, ScanEnd, TakePending, Accept,
     PutBack, FlushDone, FreeItem, FreeHead, Clear, Recalc, RefuseLast, Refuse, FlushWorker, callVars
<1>2. Raising(q)' <=> Raising(q)
  BY <1>1 DEF Raising, At
<1>3. CASE ~(TakePending \/ PutBack)
  <2>0. UNCHANGED pendVars
    BY <1>3 DEF EmtStep, ExitGuest, EnterGuest, FlushAll, Scan, ScanEnd, Accept, FlushDone, FreeItem, FreeHead, Clear,
       Recalc, RefuseLast, Refuse, FlushWorker
  <2>1. Pending(q) /\ (ff \/ Raising(q) \/ Ahead(q) \/ q \in refused)
    BY <2>0 DEF Pending, pendVars, Watched
  <2>2. CASE ExitGuest \/ EnterGuest
    <3>1. ff' = ff /\ refused' = refused /\ emt \in {"guest", "ring3"}
      BY <2>2 DEF ExitGuest, EnterGuest, In
    <3>2. ~Ahead(q)
      BY <3>1 DEF Ahead
    <3> QED BY <1>2, <2>1, <3>1, <3>2 DEF Watched
  <2>3. CASE FlushAll \/ Clear
    <3>1. scan' = Queues /\ emt' \in {"scan", "recalc"}
      BY <2>3 DEF FlushAll, Clear, Then
    <3> QED BY <3>1, ScanOf DEF Watched, Ahead
  <2>4. CASE \E r \in QueueSet : FlushWorker(r)
    <3>1. ff' = ff /\ refused' = refused /\ emt = "ring3"
      BY <2>4 DEF FlushWorker, In
    <3>2. ~Ahead(q)
      BY <3>1 DEF Ahead
    <3> QED BY <1>2, <2>1, <3>1, <3>2 DEF Watched
  <2>5. CASE Scan
    <3>1. /\ ff' = ff /\ refused' = refused /\ emt = "scan" /\ scan # <<>> /\ scan' = Tail(scan)
          /\ IF Pending(Head(scan)) THEN flushed' = Head(scan) /\ emt' = "take" ELSE emt' = "scan"
      BY <2>5 DEF Scan, In, Then
    <3>2. q \in ToSet(scan) => Ahead(q)'
      <4>1. q \in ToSet(scan) => q = Head(scan) \/ q \in ToSet(Tail(scan))
        BY <1>1, <3>1, ScanOf
      <4> QED BY <2>1, <3>1, <4>1 DEF Ahead
    <3>3. Ahead(q) => q \in ToSet(scan)
      BY <3>1 DEF Ahead
    <3> QED BY <1>2, <2>1, <3>1, <3>2, <3>3 DEF Watched
  <2>6. CASE ScanEnd
    <3>1. ff' = ff /\ refused' = refused /\ emt = "scan" /\ scan = <<>>
      BY <2>6 DEF ScanEnd, In, FlagAfter
    <3>2. ~Ahead(q)
      BY <3>1, ScanOf DEF Ahead
    <3> QED BY <1>2, <2>1, <3>1, <3>2 DEF Watched
  <2>7. CASE Accept \/ RefuseLast \/ Refuse \/ FreeItem \/ FreeHead
    <3>1. /\ ff' = ff /\ refused' = refused /\ emt \in {"feed", "free", "freed"} /\ scan' = scan
          /\ emt' \in {"feed", "putBack", "free", "freed"}
      BY <2>7 DEF Accept, RefuseLast, Refuse, FreeItem, FreeHead, In, Then
    <3>2. Ahead(q) => Ahead(q)'
      BY <3>1 DEF Ahead
    <3> QED BY <1>2, <2>1, <3>1, <3>2 DEF Watched
  <2>8. CASE FlushDone
    <3>1. /\ ff' = ff /\ refused' = refused /\ emt = "feed" /\ scan' = scan
          /\ emt' \in {"take", "scan", "clear"}
      BY <2>8 DEF FlushDone, In, AfterFlush, FlushEnds, Then
    <3>2. Ahead(q) => Ahead(q)'
      BY <3>1 DEF Ahead
    <3> QED BY <1>2, <2>1, <3>1, <3>2 DEF Watched
  <2>9. CASE Recalc
    <3>1. /\ refused' = refused /\ emt = "recalc"
          /\ \/ scan # <<>> /\ ~Pending(Head(scan)) /\ scan' = Tail(scan) /\ emt' = emt /\ ff' = ff
             \/ (scan = <<>> \/ Pending(Head(scan))) /\ ff' = (scan # <<>> \/ ff)
      BY <2>9 DEF Recalc, In, NeedsFlush
    <3>2. CASE scan # <<>> /\ ~Pending(Head(scan)) /\ scan' = Tail(scan) /\ emt' = emt /\ ff' = ff
      <4>1. q \in ToSet(scan) => q \in ToSet(Tail(scan))
        BY <1>1, <2>1, <3>2, ScanOf
      <4>2. Ahead(q) => Ahead(q)'
        BY <3>1, <3>2, <4>1 DEF Ahead
      <4> QED BY <1>2, <2>1, <3>1, <3>2, <4>2 DEF Watched
    <3>3. CASE ff' = (scan # <<>> \/ ff)
      <4>1. scan = <<>> => ~Ahead(q)
        BY <3>1, ScanOf DEF Ahead
      <4> QED BY <1>2, <2>1, <3>1, <3>3, <4>1 DEF Watched
    <3> QED BY <3>1, <3>2, <3>3
  <2> QED BY <1>3, <2>2, <2>3, <2>4, <2>5, <2>6, <2>7, <2>8, <2>9 DEF EmtStep
<1>4. CASE TakePending
  <2>1. /\ refused' = refused \ {flushed} /\ ff' = ff /\ scan' = scan /\ emt = "take" /\ emt' = "feed"
        /\ flushed \in QueueSet
    BY <1>1, <1>4 DEF TakePending, In, Then, Flushing
  <2>2. pendingHC'[flushed] = <<>> /\ pendingGC'[flushed] = <<>>
    BY <1>1, <1>4, <2>1 DEF TakePending, QueueTypes, OfQueues
  <2>3. q # flushed
    BY <2>2 DEF Pending
  <2>4. Pending(q)
    BY <1>1, <1>4, <2>3 DEF TakePending, Pending, QueueTypes, OfQueues
  <2>5. Ahead(q) => Ahead(q)'
    BY <2>1, <2>3 DEF Ahead
  <2> QED BY <1>2, <2>1, <2>3, <2>4, <2>5 DEF Watched
<1>5. CASE PutBack
  <2>1. /\ refused' = refused \union {flushed} /\ ff' = ff /\ scan' = scan /\ emt = "putBack"
        /\ emt' = IF mode = "worker" THEN "guest" ELSE "scan"
    BY <1>5 DEF PutBack, AfterStop, FlushEnds, In, Then
  <2>2. CASE q = flushed
    BY <2>1, <2>2 DEF Watched
  <2>3. CASE q # flushed
    <3>1. Pending(q)
      BY <1>1, <1>5, <2>3 DEF PutBack, Pending, QueueTypes, OfQueues
    <3>2. mode = "worker" => q \notin ToSet(scan)
      BY <1>1, <2>1, ScanOf DEF Flushing
    <3>3. Ahead(q) => Ahead(q)'
      BY <2>1, <3>2 DEF Ahead
    <3> QED BY <1>2, <2>1, <3>1, <3>3 DEF Watched
  <2> QED BY <2>2, <2>3
<1> QED BY <1>3, <1>4, <1>5

\* When items are pending the forced action is raised, or a producer is about to raise it, or
\* EMT is still to look at the queue, or they have been put back.  EMT clears the forced action
\* before it looks, and producers raise it after they push, so no item is left behind.  (Where
\* a ring has gone round there is no telling which items are pending.)
THEOREM FlaggedAlways ==
    ASSUME ~MayLap
    PROVE  Spec => []PendingIsFlagged
<1>1. Init => PendingIsFlagged
  BY DEF Init, PendingIsFlagged, Pending
<1>2. QueueInv /\ PendingIsFlagged /\ [Next]_vars => PendingIsFlagged'
  <2> SUFFICES ASSUME Typed, NEW q \in QueueSet, Pending(q) => Watched(q), [Next]_vars, Pending(q)'
               PROVE  Watched(q)'
    BY DEF QueueInv, PendingIsFlagged, Watched
  <2>1. ASSUME NEW th \in Threads, CallStep(th) \/ (\E r \in QueueSet : Alloc(th, r)) PROVE Watched(q)'
    BY <2>1, CallFlag
  <2>2. CASE EmtStep \/ RefuseLast \/ Refuse \/ (\E r \in QueueSet : FlushWorker(r))
    BY <2>2, EmtFlag
  <2>3. CASE UNCHANGED vars
    BY <2>3 DEF vars, pendVars, callVars, flushVars, Watched, Pending, Raising, At, Ahead
  <2> QED BY <2>1, <2>2, <2>3 DEF Next
<1> QED BY <1>1, <1>2, QueueAlways, PTL DEF Spec

==============================================================================
