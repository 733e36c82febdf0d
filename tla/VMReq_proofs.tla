---------------------------- MODULE VMReq_proofs ----------------------------
(***************************************************************************)
(* Proofs about VMReq: a packet is in one place and has one caller, and a  *)
(* caller that is told of success has a completed request, for any number  *)
(* of packets, of requesters and of calls.                                 *)
(***************************************************************************)
EXTENDS VMReq, SequenceFacts, TLAPS

\* Where a packet is past its push, and where EMT has one in hand.
Past == {"setff", "notify", "flags", "enter", "wait", "woken", "signalled", "poll",
         "timeout", "got"}
Work == {"begin", "execute", "completed", "freeit", "mark", "signal"}

\* A thread has a packet in a call from Take on, and EMT one at hand while it works.
LabelInv(th) ==
    /\ pc[th] \in {"idle", "top", "take"} \union (EmtLabels \ Work) => pkt[th] = Nil
    /\ pc[th] \in {"prep", "fill", "push"} \union Past => pkt[th] \in Packets

EmtInv ==
    /\ pc[EMT] \notin {"idle", "push"} \union (Past \ {"got"})
    /\ pc[EMT] \in Work => cur \in Packets /\ pkt[EMT] \in {Nil, cur}
    /\ pc[EMT] \notin Work => cur = Nil
    /\ mode[EMT] = "wait"

TypeInv == TypeOK /\ EmtInv /\ \A th \in Threads : LabelInv(th)

----------------------------------------------------------------------------
(* Who has a packet; without VMREQFLAGS_NO_WAIT *)

Queued == Range(reqs) \union Range(batch)

\* The lists hold a packet once.
ListInv ==
    /\ IsInjective(reqs) /\ IsInjective(batch)
    /\ Range(reqs) \cap Range(batch) = {}

\* No packet has two callers, and none is given away.
AloneInv ==
    /\ \A t, u \in Threads : pkt[t] \in Packets /\ pkt[t] = pkt[u] => t = u
    /\ \A th \in Threads : mode[th] # "noWait"
    /\ \A p \in Packets : noWait[p] = FALSE
    /\ pc[EMT] # "freeit"

\* The state of a packet tells where it is.
FreeInv == \A p \in pool : state[p] = "FREE" /\ \A th \in Threads : pkt[th] # p

QueuedInv ==
    \A p \in Queued : /\ state[p] = "QUEUED"
                      /\ \A th \in Threads : pkt[th] = p => th # EMT /\ pc[th] \in Past

WorkInv ==
    /\ pc[EMT] = "begin" => state[cur] = "QUEUED"
    /\ pc[EMT] = "execute" => state[cur] = "PROCESSING"
    /\ pc[EMT] \in {"begin", "execute"} =>
          /\ cur \notin Queued
          /\ \A th \in Threads : pkt[th] = cur => th = EMT \/ pc[th] \in Past

UserInv(th) ==
    /\ pc[th] = "prep" => state[pkt[th]] = "FREE"
    /\ pc[th] = "fill" => state[pkt[th]] = "ALLOCATED"
    /\ pc[th] = "push" => state[pkt[th]] = "QUEUED"
    /\ pc[th] \in Past => state[pkt[th]] \in {"QUEUED", "PROCESSING", "COMPLETED"}
    /\ th = EMT /\ pkt[th] # Nil /\ pc[th] \in {"completed", "mark", "signal", "got"} =>
          state[pkt[th]] = "COMPLETED"
    /\ mode[th] = "wait" /\ pc[th] \in {"signalled", "got"} => state[pkt[th]] = "COMPLETED"
    /\ pc[th] \in {"poll", "timeout"} => mode[th] # "wait"

HolderInv ==
    /\ TypeInv /\ ListInv /\ AloneInv /\ FreeInv /\ QueuedInv /\ WorkInv
    /\ \A th \in Threads : UserInv(th)

----------------------------------------------------------------------------
(* The events; up to the end of the first call that polls *)

InWork(p) == pc[EMT] \in Work /\ cur = p

FirstPoll ==
    \/ polls = 0
    \/ polls = 1 /\ \E th \in Threads : mode[th] = "poll" /\ pc[th] # "idle"

PollInv ==
    /\ polls = 0 => \A th \in Threads : mode[th] # "poll"
    /\ polls = 1 => \A t, u \in Threads : mode[t] = "poll" /\ mode[u] = "poll" => t = u

\* A signalled event says so, and is that of a request that is done with.
SemInv ==
    \A p \in Packets : sem[p] => ~semClear[p] /\ p \notin Queued /\ ~InWork(p)

\* What is not executed has a caller, and what EMT has executed has it still.
DoneInv ==
    /\ \A p \in Packets : state[p] \in {"QUEUED", "PROCESSING"} => \E th \in Threads : pkt[th] = p
    /\ pc[EMT] \in {"completed", "mark", "signal"} =>
          /\ state[cur] = "COMPLETED"
          /\ \E th \in Threads : pkt[th] = cur
          /\ pc[EMT] = "signal" => ~semClear[cur]

\* How far a caller is with its event.
EventInv(th) ==
    /\ pc[th] \in {"fill", "push"} => ~sem[pkt[th]]
    /\ pc[th] \in Past /\ sem[pkt[th]] => state[pkt[th]] = "COMPLETED"
    /\ pc[th] \in {"woken", "signalled"} =>
          state[pkt[th]] = "COMPLETED" /\ ~sem[pkt[th]] /\ ~InWork(pkt[th])
    /\ pc[th] = "got" =>
          /\ state[pkt[th]] = "COMPLETED"
          /\ mode[th] = "wait" => ~InWork(pkt[th])

EventsInv == SemInv /\ DoneInv /\ \A th \in Threads : EventInv(th)

\* The inductive invariant.
ReqInv == HolderInv /\ PollInv /\ (FirstPoll => EventsInv)

----------------------------------------------------------------------------
(* Types *)

\* A thread goes on to another step, with its packet or without.
LEMMA GotoTypes ==
    ASSUME TypeInv, NEW th \in Threads, NEW to \in Labels \union EmtLabels, Goto(th, to),
           to \in EmtLabels => th = EMT,
           NEW q \in Packets \union {Nil}, pkt' = Set(pkt, th, q),
           to \in {"idle", "top", "take"} \union (EmtLabels \ Work) => q = Nil,
           to \in {"prep", "fill", "push"} \union Past => q \in Packets
    PROVE  /\ pc' \in [Threads -> Labels \union EmtLabels] /\ pkt' \in [Threads -> Packets \union {Nil}]
           /\ pc'[th] = to /\ pkt'[th] = q
           /\ \A u \in Threads : u # th => pc'[u] = pc[u] /\ pkt'[u] = pkt[u]
           /\ \A u \in Requesters : pc'[u] \in Labels
           /\ \A u \in Threads : LabelInv(u)'
<1> USE DEF TypeInv, TypeOK
<1>1. /\ pc' \in [Threads -> Labels \union EmtLabels] /\ pkt' \in [Threads -> Packets \union {Nil}]
      /\ pc'[th] = to /\ pkt'[th] = q
      /\ \A u \in Threads : u # th => pc'[u] = pc[u] /\ pkt'[u] = pkt[u]
  BY DEF Goto, Set
<1>2. ASSUME NEW u \in Requesters PROVE pc'[u] \in Labels
  <2>1. u \in Threads /\ u # EMT
    BY RequestAssumption DEF Threads
  <2>2. CASE u = th
    BY <1>1, <2>1, <2>2
  <2>3. CASE u # th
    BY <1>1, <2>1, <2>3
  <2> QED BY <2>2, <2>3
<1>3. ASSUME NEW u \in Threads PROVE LabelInv(u)'
  BY <1>1 DEF LabelInv
<1> QED BY <1>1, <1>2, <1>3

\* EMT is a thread, and no packet nor thread is Nil.
LEMMA EmtIs == /\ EMT \in Threads /\ EMT \notin Requesters /\ Nil \notin Packets /\ Nil \notin Threads
               /\ \A th \in Threads : th # EMT => th \in Requesters
  BY RequestAssumption DEF Threads

\* A step of another thread leaves what EMT does.
LEMMA EmtSame ==
    ASSUME TypeInv, pc'[EMT] = pc[EMT], pkt'[EMT] = pkt[EMT], UNCHANGED cur, mode'[EMT] = mode[EMT]
    PROVE  EmtInv'
  BY DEF TypeInv, EmtInv

\* The same if it keeps what it had.
LEMMA GotoSame ==
    ASSUME TypeInv, NEW th \in Threads, NEW to \in Labels \union EmtLabels, Goto(th, to),
           to \in EmtLabels => th = EMT, UNCHANGED pkt,
           to \in {"idle", "top", "take"} \union (EmtLabels \ Work) => pkt[th] = Nil,
           to \in {"prep", "fill", "push"} \union Past => pkt[th] \in Packets
    PROVE  /\ pc' \in [Threads -> Labels \union EmtLabels]
           /\ pc'[th] = to
           /\ \A u \in Threads : u # th => pc'[u] = pc[u]
           /\ \A u \in Requesters : pc'[u] \in Labels
           /\ \A u \in Threads : LabelInv(u)'
<1>1. pkt[th] \in Packets \union {Nil} /\ pkt' = Set(pkt, th, pkt[th])
  BY DEF TypeInv, TypeOK, Set
<1> QED BY <1>1, GotoTypes

\* What the rest of a state's types is.
VarTypes ==
    /\ state \in [Packets -> PacketStates]
    /\ {noWait, sem, semClear} \subseteq [Packets -> BOOLEAN]
    /\ pool \subseteq Packets
    /\ reqs \in Seq(Packets) /\ batch \in Seq(Packets)
    /\ {ff, fWait, wake} \subseteq BOOLEAN
    /\ mode \in [Threads -> AllModes]
    /\ cur \in Packets \union {Nil}
    /\ calls \in 0 .. MaxCalls /\ polls \in 0 .. MaxPolls

\* The steps of a call keep the types: those that only go on ...
LEMMA CallTypes ==
    ASSUME TypeInv, NEW th \in Threads,
           \/ Prepare(th) \/ Push(th) \/ SetFF(th) \/ Notify(th) \/ Wait(th) \/ Woken(th)
           \/ Signalled(th) \/ Poll(th)
    PROVE  TypeInv'
<1> USE EmtIs
<1>1. LabelInv(th) /\ EmtInv /\ TypeOK
  BY DEF TypeInv
<1>2. PICK to \in {"fill", "setff", "notify", "flags", "woken", "signalled", "wait", "got",
                   "timeout"} : Goto(th, to)
  BY DEF Prepare, Push, SetFF, Notify, Wait, Woken, Signalled, Poll
<1>3. UNCHANGED <<pkt, mode, cur>> /\ pkt[th] \in Packets /\ pc[th] # "got" /\ (th = EMT => to = "fill")
  BY <1>1, <1>2 DEF LabelInv, EmtInv, Past, callVars, emtVars,
     Prepare, Push, SetFF, Notify, Wait, Woken, Signalled, Poll, Goto, TypeOK
<1>4. /\ pc' \in [Threads -> Labels \union EmtLabels] /\ pc'[th] = to
      /\ \A u \in Threads : u # th => pc'[u] = pc[u]
      /\ \A u \in Requesters : pc'[u] \in Labels
      /\ \A u \in Threads : LabelInv(u)'
  BY <1>2, <1>3, GotoSame DEF Labels, EmtLabels
<1>5. VarTypes'
  <2>1. <<pkt[th]>> \o reqs \in Seq(Packets)
    BY <1>1, <1>3 DEF TypeOK
  <2>2. CASE Push(th)
    BY <1>1, <2>1, <2>2 DEF VarTypes, TypeOK, Push, pktVars, wakeVars, callVars, emtVars
  <2>3. CASE Prepare(th)
    <3>1. state' \in [Packets -> PacketStates] /\ {noWait', sem', semClear'} \subseteq [Packets -> BOOLEAN]
      BY <1>1, <2>3 DEF TypeOK, Set, PacketStates, Prepare
    <3> QED BY <1>1, <2>3, <3>1 DEF VarTypes, TypeOK, wakeVars, callVars, emtVars, Prepare
  <2>4. CASE SetFF(th) \/ Notify(th) \/ Woken(th)
    BY <1>1, <2>4 DEF VarTypes, TypeOK, pktVars, callVars, emtVars, wakeVars, SetFF, Notify, Woken
  <2>5. CASE Wait(th) \/ Signalled(th) \/ Poll(th)
    <3>1. state' = state /\ noWait' = noWait
      BY <2>5 DEF Wait, Signalled, Poll
    <3>2. sem' \in [Packets -> BOOLEAN] /\ semClear' \in [Packets -> BOOLEAN]
      BY <1>1, <2>5 DEF TypeOK, Set, Wait, Signalled, Poll
    <3> QED BY <1>1, <2>5, <3>1, <3>2 DEF VarTypes, TypeOK, callVars, emtVars, wakeVars, Wait,
               Signalled, Poll
  <2> QED BY <2>2, <2>3, <2>4, <2>5
<1>6. EmtInv'
  BY <1>1, <1>2, <1>3, <1>4 DEF EmtInv, Work, Past, Prepare, Push, SetFF, Notify, Wait, Woken,
     Signalled, Poll
<1> QED BY <1>1, <1>3, <1>4, <1>5, <1>6 DEF TypeInv, TypeOK, VarTypes

\* Freeing a packet keeps the types of what it changes.
LEMMA FreeTypes ==
    ASSUME TypeOK, NEW p \in Packets, Free(p)
    PROVE  state' \in [Packets -> PacketStates] /\ pool' \subseteq Packets
  BY DEF TypeOK, Free, Set, PacketStates

\* ... those that take a packet or give it up ...
LEMMA PktTypes ==
    ASSUME TypeInv, NEW th \in Threads,
           \/ \E m \in Modes : Call(th, m)
           \/ \E p \in Packets : Take(th, p)
           \/ Fill(th) \/ ReadFlags(th) \/ EnterWait(th) \/ PollTimeout(th) \/ FreeOwn(th)
    PROVE  TypeInv'
<1> USE EmtIs
<1>1. LabelInv(th) /\ EmtInv /\ TypeOK
  BY DEF TypeInv
<1>2. CASE \E m \in Modes : Call(th, m)
  <2>1. PICK m \in Modes : Call(th, m)
    BY <1>2
  <2>2. UNCHANGED pkt /\ Goto(th, "take") /\ pkt[th] = Nil
    BY <1>1, <2>1 DEF Call, LabelInv, Idle, EmtLabels, Work
  <2>3. /\ pc' \in [Threads -> Labels \union EmtLabels] /\ pc'[th] = "take"
        /\ \A u \in Threads : u # th => pc'[u] = pc[u]
        /\ \A u \in Requesters : pc'[u] \in Labels
        /\ \A u \in Threads : LabelInv(u)'
    BY <2>2, GotoSame DEF Labels, EmtLabels, Past
  <2>4. mode' \in [Threads -> AllModes] /\ mode'[EMT] = "wait"
    BY <1>1, <2>1, RequestAssumption DEF Call, TypeOK, Set, EmtInv
  <2>5. calls' \in 0 .. MaxCalls /\ polls' \in 0 .. MaxPolls
    BY <1>1, <2>1, RequestAssumption DEF Call, TypeOK
  <2>6. VarTypes'
    BY <1>1, <2>1, <2>4, <2>5 DEF Call, VarTypes, TypeOK, pktVars, wakeVars, emtVars
  <2>7. EmtInv'
    BY <1>1, <2>1, <2>2, <2>3, <2>4 DEF EmtInv, Call, emtVars, Work, Past, Idle
  <2> QED BY <1>1, <2>2, <2>3, <2>6, <2>7 DEF TypeInv, TypeOK, VarTypes
<1>3. CASE \E p \in Packets : Take(th, p)
  <2>1. PICK p \in Packets : Take(th, p)
    BY <1>3
  <2>2. PICK to \in {"prep", "fill"} : Goto(th, to)
    BY <2>1 DEF Take
  <2>3. pkt' = Set(pkt, th, p) /\ mode' = mode /\ cur' = cur /\ pc[th] = "take"
    BY <2>1 DEF Take, callVars, emtVars
  <2>4. /\ pc' \in [Threads -> Labels \union EmtLabels] /\ pkt' \in [Threads -> Packets \union {Nil}]
        /\ pc'[th] = to /\ pkt'[th] = p
        /\ \A u \in Threads : u # th => pc'[u] = pc[u] /\ pkt'[u] = pkt[u]
        /\ \A u \in Requesters : pc'[u] \in Labels
        /\ \A u \in Threads : LabelInv(u)'
    BY <2>2, <2>3, GotoTypes DEF Labels, EmtLabels
  <2>5. /\ state' \in [Packets -> PacketStates] /\ pool' \subseteq Packets
        /\ noWait' \in [Packets -> BOOLEAN] /\ sem' \in [Packets -> BOOLEAN]
        /\ semClear' \in [Packets -> BOOLEAN]
    BY <1>1, <2>1 DEF Take, TypeOK, Set, PacketStates, pktVars
  <2>6. VarTypes'
    BY <1>1, <2>1, <2>5 DEF Take, VarTypes, TypeOK, wakeVars, emtVars, callVars
  <2>7. EmtInv'
    BY <1>1, <2>2, <2>3, <2>4 DEF EmtInv, Work, Past
  <2> QED BY <2>4, <2>6, <2>7 DEF TypeInv, TypeOK, VarTypes
<1>4. CASE Fill(th)
  <2>1. pkt' = pkt /\ pkt[th] \in Packets /\ mode' = mode /\ pc[th] = "fill"
    BY <1>1, <1>4 DEF Fill, callVars, LabelInv
  <2>2. PICK to \in {"begin", "push"} : Goto(th, to) /\ (to = "begin" <=> th = EMT)
    BY <1>4 DEF Fill, ProcessesOwn
  <2>3. /\ pc' \in [Threads -> Labels \union EmtLabels] /\ pc'[th] = to
        /\ \A u \in Threads : u # th => pc'[u] = pc[u]
        /\ \A u \in Requesters : pc'[u] \in Labels
        /\ \A u \in Threads : LabelInv(u)'
    BY <2>1, <2>2, GotoSame DEF Labels, EmtLabels, Work, Past
  <2>4. /\ state' \in [Packets -> PacketStates] /\ noWait' \in [Packets -> BOOLEAN]
        /\ cur' = IF th = EMT THEN pkt[th] ELSE cur
    BY <1>1, <1>4, <2>1 DEF Fill, TypeOK, Set, PacketStates, ProcessesOwn
  <2>5. VarTypes'
    BY <1>1, <1>4, <2>1, <2>4 DEF Fill, VarTypes, TypeOK, wakeVars, callVars
  <2>6. EmtInv'
    BY <1>1, <2>1, <2>2, <2>3, <2>4 DEF EmtInv, Work, Past
  <2> QED BY <1>1, <2>1, <2>3, <2>5, <2>6 DEF TypeInv, TypeOK, VarTypes
<1>5. CASE ReadFlags(th) \/ EnterWait(th) \/ PollTimeout(th) \/ FreeOwn(th)
  <2>1. /\ mode' = mode /\ cur' = cur /\ pkt[th] \in Packets /\ (th = EMT => pc[th] = "got")
        /\ pc[th] \in {"flags", "enter", "timeout", "got"}
    BY <1>1, <1>5 DEF ReadFlags, EnterWait, PollTimeout, FreeOwn, callVars, emtVars, LabelInv,
       EmtInv, Past
  <2>2. \/ \E to \in {"enter", "wait", "poll", "got"} : Goto(th, to) /\ UNCHANGED pkt /\ th # EMT
        \/ Return(th)
    BY <1>5, <2>1 DEF ReadFlags, EnterWait, PollTimeout, FreeOwn
  <2>3. PICK to \in {"enter", "wait", "poll", "got", "idle", "top"},
             q \in {pkt[th], Nil} :
          /\ Goto(th, to) /\ pkt' = Set(pkt, th, q)
          /\ (to \in {"idle", "top"} <=> q = Nil) /\ (th = EMT => to = "top")
    <3>1. CASE \E to \in {"enter", "wait", "poll", "got"} : Goto(th, to) /\ UNCHANGED pkt /\ th # EMT
      <4>1. pkt = Set(pkt, th, pkt[th])
        BY <1>1 DEF TypeOK, Set
      <4> QED BY <2>1, <3>1, <4>1
    <3>2. CASE Return(th)
      BY <2>1, <3>2 DEF Return, Idle
    <3> QED BY <2>2, <3>1, <3>2
  <2>4. /\ pc' \in [Threads -> Labels \union EmtLabels] /\ pkt' \in [Threads -> Packets \union {Nil}]
        /\ pc'[th] = to /\ pkt'[th] = q
        /\ \A u \in Threads : u # th => pc'[u] = pc[u] /\ pkt'[u] = pkt[u]
        /\ \A u \in Requesters : pc'[u] \in Labels
        /\ \A u \in Threads : LabelInv(u)'
    <3>1. /\ to \in Labels \union EmtLabels /\ to \notin EmtLabels /\ q \in Packets \union {Nil}
          /\ to \in {"idle", "top", "take"} \union (EmtLabels \ Work) => q = Nil
          /\ to \in {"prep", "fill", "push"} \union Past => q \in Packets
      BY <2>1, <2>3 DEF Labels, EmtLabels, Past
    <3> QED BY <2>3, <3>1, GotoTypes
  <2>5. state' \in [Packets -> PacketStates] /\ pool' \subseteq Packets
    <3>1. UNCHANGED <<state, pool>> \/ Free(pkt[th])
      BY <1>5 DEF ReadFlags, EnterWait, PollTimeout, FreeOwn, pktVars
    <3> QED BY <1>1, <2>1, <3>1, FreeTypes DEF TypeOK
  <2>6. VarTypes'
    BY <1>1, <1>5, <2>5 DEF ReadFlags, EnterWait, PollTimeout, FreeOwn, VarTypes, TypeOK, pktVars,
       wakeVars, emtVars, callVars
  <2>7. EmtInv'
    BY <1>1, <2>1, <2>3, <2>4 DEF EmtInv, Work, Past
  <2> QED BY <2>4, <2>6, <2>7 DEF TypeInv, TypeOK, VarTypes
<1> QED BY <1>2, <1>3, <1>4, <1>5

\* ... and those of EMT.
LEMMA EmtTypes ==
    ASSUME TypeInv, EmtStep \/ WaitTimeout
    PROVE  TypeInv'
<1> USE EmtIs
<1>1. LabelInv(EMT) /\ EmtInv /\ TypeOK
  BY DEF TypeInv
<1>2. pkt' = pkt /\ mode' = mode /\ UNCHANGED callVars
  BY DEF EmtStep, WaitTimeout, ClearFF, TakeAll, Begin, Complete, CheckNoWait, FreeForOther,
     MarkSem,
     Signal, Top, WaitCheck, SetWait, Recheck, WakeUp, Unwait, callVars
<1>3. TakeAll => \/ Goto(EMT, "top") /\ UNCHANGED <<cur, batch>> /\ pc[EMT] = "xchg"
                 \/ Goto(EMT, "begin") /\ cur' \in Packets /\ batch' \in Seq(Packets) /\ pc[EMT] = "xchg"
  <2>1. CASE reqs = <<>>
    BY <2>1 DEF TakeAll, emtVars
  <2>2. CASE reqs # <<>>
    <3>1. reqs \in Seq(Packets) /\ Reverse(reqs) \in Seq(Packets) /\ Len(Reverse(reqs)) = Len(reqs)
      BY <1>1, ReverseIs DEF TypeOK
    <3>2. \A u \in Seq(Packets) : u = <<>> <=> Len(u) = 0
      OBVIOUS
    <3>3. Reverse(reqs) # <<>>
      BY <2>2, <3>1, <3>2
    <3>4. Head(Reverse(reqs)) \in Packets /\ Tail(Reverse(reqs)) \in Seq(Packets)
      BY <3>1, <3>3, TailOf
    <3> QED BY <2>2, <3>4 DEF TakeAll, InOrder
  <2> QED BY <2>1, <2>2
<1>4. NextOne => \/ Goto(EMT, "got") /\ pkt[EMT] # Nil /\ cur' = Nil /\ batch' = batch
                 \/ Goto(EMT, "clear") /\ pkt[EMT] = Nil /\ cur' = Nil /\ batch' = batch
                 \/ Goto(EMT, "begin") /\ pkt[EMT] = Nil /\ cur' \in Packets /\ batch' \in Seq(Packets)
  <2>1. batch # <<>> => Head(batch) \in Packets /\ Tail(batch) \in Seq(Packets)
    BY <1>1, TailOf DEF TypeOK
  <2> QED BY <2>1 DEF NextOne
<1>5. PICK to \in EmtLabels \union {"top", "got"} :
         /\ Goto(EMT, to)
         /\ to \notin {"got"} \union Work => pkt[EMT] = Nil /\ cur' = Nil
         /\ to = "got" => pkt[EMT] # Nil /\ cur' = Nil
         /\ to \in Work => cur' \in Packets /\ pkt[EMT] \in {Nil, cur'}
         /\ batch' \in Seq(Packets)
  <2>1. CASE ClearFF \/ TakeAll \/ Top \/ WaitCheck \/ SetWait \/ Recheck \/ WakeUp \/ Unwait \/ WaitTimeout
    <3>1. pkt[EMT] = Nil /\ cur = Nil
      BY <1>1, <2>1 DEF ClearFF, TakeAll, Top, WaitCheck, SetWait, Recheck, WakeUp, Unwait,
         WaitTimeout,
         LabelInv, EmtInv, EmtLabels, Work
    <3>2. CASE TakeAll
      BY <1>1, <1>3, <3>1, <3>2 DEF EmtLabels, Work, TypeOK
    <3>3. CASE ~TakeAll
      <4>1. UNCHANGED emtVars
        BY <2>1, <3>3 DEF ClearFF, Top, WaitCheck, SetWait, Recheck, WakeUp, Unwait, WaitTimeout
      <4>2. PICK to \in {"xchg", "clear", "check", "top", "setwait", "recheck", "unwait", "blocked"} :
              Goto(EMT, to)
        BY <2>1, <3>3 DEF ClearFF, Top, WaitCheck, SetWait, Recheck, WakeUp, Unwait, WaitTimeout
      <4>3. to \in EmtLabels \union {"top", "got"} /\ to \notin {"got"} \union Work
        BY <4>2 DEF EmtLabels, Work
      <4> QED BY <1>1, <3>1, <4>1, <4>2, <4>3 DEF emtVars, TypeOK
    <3> QED BY <3>2, <3>3
  <2>2. CASE Begin \/ Complete \/ CheckNoWait \/ MarkSem
    <3>1. pc[EMT] \in Work /\ UNCHANGED emtVars
      BY <2>2 DEF Begin, Complete, CheckNoWait, MarkSem, Work
    <3>2. PICK to \in {"execute", "completed", "freeit", "mark", "signal"} : Goto(EMT, to)
      BY <2>2 DEF Begin, Complete, CheckNoWait, MarkSem
    <3>3. to \in EmtLabels /\ to \in Work /\ to # "got"
      BY <3>2 DEF EmtLabels, Work
    <3> QED BY <1>1, <3>1, <3>2, <3>3 DEF emtVars, TypeOK, EmtInv
  <2>3. CASE FreeForOther \/ Signal
    <3>1. NextOne
      BY <2>3 DEF FreeForOther, Signal
    <3> QED BY <1>1, <1>4, <3>1 DEF EmtLabels, Work, TypeOK
  <2> QED BY <2>1, <2>2, <2>3 DEF EmtStep
<1>6. /\ pc' \in [Threads -> Labels \union EmtLabels] /\ pc'[EMT] = to
      /\ \A u \in Threads : u # EMT => pc'[u] = pc[u]
      /\ \A u \in Requesters : pc'[u] \in Labels
      /\ \A u \in Threads : LabelInv(u)'
  <2>1. /\ to \in Labels \union EmtLabels
        /\ to \in {"idle", "top", "take"} \union (EmtLabels \ Work) => pkt[EMT] = Nil
        /\ to \in {"prep", "fill", "push"} \union Past => pkt[EMT] \in Packets
    BY <1>1, <1>5 DEF Labels, EmtLabels, Work, Past, TypeOK
  <2> QED BY <1>2, <1>5, <2>1, GotoSame
<1>7. EmtInv'
  BY <1>1, <1>2, <1>5, <1>6 DEF EmtInv, Work, Past, EmtLabels
<1>8. /\ state' \in [Packets -> PacketStates] /\ pool' \subseteq Packets
      /\ noWait' \in [Packets -> BOOLEAN] /\ sem' \in [Packets -> BOOLEAN]
      /\ semClear' \in [Packets -> BOOLEAN]
  <2>1. CASE Begin \/ Complete \/ MarkSem \/ Signal
    BY <1>1, <2>1 DEF Begin, Complete, MarkSem, Signal, TypeOK, Set, PacketStates, EmtInv, Work
  <2>2. CASE FreeForOther
    <3>1. cur \in Packets
      BY <1>1, <2>2 DEF FreeForOther, EmtInv, Work
    <3> QED BY <1>1, <2>2, <3>1, FreeTypes DEF FreeForOther, TypeOK
  <2>3. CASE ~(Begin \/ Complete \/ MarkSem \/ Signal \/ FreeForOther)
    <3>1. UNCHANGED <<pktVars, pool>>
      BY <2>3 DEF EmtStep, WaitTimeout, ClearFF, TakeAll, CheckNoWait, Top, WaitCheck, SetWait,
         Recheck,
         WakeUp, Unwait
    <3> QED BY <1>1, <3>1 DEF TypeOK, pktVars
  <2> QED BY <2>1, <2>2, <2>3
<1>9. reqs' \in Seq(Packets)
  <2>1. reqs' \in {reqs, <<>>}
    BY DEF EmtStep, WaitTimeout, ClearFF, TakeAll, Begin, Complete, CheckNoWait, FreeForOther,
       MarkSem, Signal, Top, WaitCheck, SetWait, Recheck, WakeUp, Unwait, Left
  <2>2. <<>> \in Seq(Packets) /\ reqs \in Seq(Packets)
    BY <1>1 DEF TypeOK
  <2> QED BY <2>1, <2>2
<1>10. ff' \in BOOLEAN /\ fWait' \in BOOLEAN /\ wake' \in BOOLEAN
  <2>1. ff' \in {ff, FALSE} /\ fWait' \in {fWait, TRUE, FALSE} /\ wake' \in {wake, FALSE}
    BY DEF EmtStep, WaitTimeout, ClearFF, TakeAll, Begin, Complete, CheckNoWait, FreeForOther,
       MarkSem, Signal, Top, WaitCheck, SetWait, Recheck, WakeUp, Unwait, wakeVars
  <2>2. ff \in BOOLEAN /\ fWait \in BOOLEAN /\ wake \in BOOLEAN
    BY <1>1 DEF TypeOK
  <2> QED BY <2>1, <2>2
<1>11. VarTypes'
  BY <1>1, <1>2, <1>5, <1>8, <1>9, <1>10 DEF VarTypes, TypeOK, callVars, Work
<1> QED BY <1>1, <1>2, <1>6, <1>7, <1>11 DEF TypeInv, TypeOK, VarTypes

\* A thread has a packet exactly from Take to the end of its call, and EMT one at hand
\* while it works.
LEMMA TypesAlways == Spec => []TypeInv
<1>1. Init => TypeInv
  <2> SUFFICES ASSUME Init PROVE TypeInv
    OBVIOUS
  <2>1. TypeOK
    <3>1. <<>> \in Seq(Packets)
      OBVIOUS
    <3>2. pc \in [Threads -> Labels \union EmtLabels] /\ \A th \in Requesters : pc[th] \in Labels
      BY EmtIs DEF Init, Idle, Labels, Threads
    <3>3. /\ pkt \in [Threads -> Packets \union {Nil}] /\ mode \in [Threads -> AllModes]
          /\ state \in [Packets -> PacketStates] /\ cur \in Packets \union {Nil}
      BY DEF Init, AllModes, PacketStates
    <3>4. {noWait, sem, semClear} \subseteq [Packets -> BOOLEAN] /\ {ff, fWait, wake} \subseteq BOOLEAN
      BY DEF Init
    <3>5. calls \in 0 .. MaxCalls /\ polls \in 0 .. MaxPolls /\ pool \subseteq Packets
      BY RequestAssumption DEF Init
    <3>6. reqs \in Seq(Packets) /\ batch \in Seq(Packets)
      BY <3>1 DEF Init
    <3> QED BY <3>2, <3>3, <3>4, <3>5, <3>6 DEF TypeOK
  <2>2. EmtInv
    BY EmtIs DEF Init, EmtInv, Idle, Past, Work
  <2>3. \A th \in Threads : LabelInv(th)
    BY DEF Init, LabelInv, Idle, Past
  <2> QED BY <2>1, <2>2, <2>3 DEF TypeInv
<1>2. TypeInv /\ [Next]_vars => TypeInv'
  <2> SUFFICES ASSUME TypeInv, [Next]_vars PROVE TypeInv'
    OBVIOUS
  <2>1. ASSUME NEW th \in Threads, (\E m \in Modes : Call(th, m)) \/ CallStep(th) PROVE TypeInv'
    BY <2>1, CallTypes, PktTypes DEF CallStep
  <2>2. CASE UNCHANGED vars
    BY <2>2 DEF vars, pktVars, wakeVars, callVars, emtVars, TypeInv, TypeOK, EmtInv, LabelInv
  <2> QED BY <2>1, <2>2, EmtTypes DEF Next
<1> QED BY <1>1, <1>2, PTL DEF Spec

\* VMReq!TypeOK: whatever the requesters and EMT do, and however the callers wait, every
\* variable has its type; no requester is ever at a step of EMT's.
THEOREM ReqTypes == Spec => []TypeOK
<1>1. TypeInv => TypeOK
  BY DEF TypeInv
<1> QED BY <1>1, TypesAlways, PTL

----------------------------------------------------------------------------
(* Who has a packet *)

\* A thread that only goes on with what it has.
LEMMA GoesOn ==
    ASSUME HolderInv, TypeInv', NEW th \in Threads, NEW to, Goto(th, to),
           UNCHANGED <<state, noWait, pool, reqs, batch, pkt, mode>>,
           th = EMT => to \notin {"begin", "execute", "freeit"},
           th # EMT => cur' = cur,
           pc[th] \in Past => to \in Past,
           UserInv(th)'
    PROVE  HolderInv'
<1>1. /\ pc'[th] = to /\ \A u \in Threads : u # th => pc'[u] = pc[u]
      /\ EMT \in Threads /\ Queued' = Queued
  BY EmtIs DEF HolderInv, TypeInv, TypeOK, Goto, Queued
<1>2. ListInv' /\ FreeInv' /\ AloneInv'
  BY <1>1 DEF HolderInv, ListInv, FreeInv, AloneInv
<1>3. QueuedInv'
  BY <1>1 DEF HolderInv, QueuedInv
<1>4. WorkInv'
  <2>1. (pc'[EMT] = pc[EMT] /\ cur' = cur) \/ pc'[EMT] \notin {"begin", "execute"}
    BY <1>1
  <2>2. \A u \in Threads : u # EMT /\ pc[u] \in Past => pc'[u] \in Past
    BY <1>1
  <2> QED BY <1>1, <2>1, <2>2 DEF HolderInv, WorkInv
<1>5. ASSUME NEW u \in Threads PROVE UserInv(u)'
  <2>1. CASE u = th
    BY <2>1
  <2>2. CASE u # th
    BY <1>1, <2>2 DEF HolderInv, UserInv
  <2> QED BY <2>1, <2>2
<1> QED BY <1>2, <1>3, <1>4, <1>5 DEF HolderInv

\* The steps of a call that do no more than that.
LEMMA HolderCall ==
    ASSUME HolderInv, TypeInv', NEW th \in Threads,
           \/ SetFF(th) \/ Notify(th) \/ ReadFlags(th) \/ EnterWait(th) \/ Wait(th) \/ Woken(th)
           \/ Signalled(th) \/ Poll(th) \/ PollTimeout(th)
    PROVE  HolderInv'
<1>1. TypeOK /\ UserInv(th) /\ LabelInv(th) /\ EmtInv /\ AloneInv
  BY DEF HolderInv, TypeInv
<1>2. pc[th] \in Past /\ th # EMT /\ pkt[th] \in Packets
  BY <1>1 DEF LabelInv, EmtInv, Past, SetFF, Notify, ReadFlags, EnterWait, Wait, Woken,
     Signalled, Poll,
     PollTimeout
<1>3. state[pkt[th]] \in {"QUEUED", "PROCESSING", "COMPLETED"} /\ noWait[pkt[th]] = FALSE
      /\ mode[th] \in {"wait", "poll"}
  BY <1>1, <1>2 DEF UserInv, AloneInv, TypeOK, AllModes
<1>4. UNCHANGED <<state, noWait, pool, reqs, batch, cur, pkt, mode>>
  BY <1>1, <1>3 DEF UserInv, SetFF, Notify, ReadFlags, EnterWait, Wait, Woken, Signalled, Poll,
     PollTimeout, pktVars,
     callVars, emtVars
<1>5. PICK to \in Past \ {"setff"} :
        /\ Goto(th, to)
        /\ mode[th] = "wait" /\ to \in {"signalled", "got"} => state[pkt[th]] = "COMPLETED"
        /\ to \in {"poll", "timeout"} => mode[th] # "wait"
  <2>1. CASE SetFF(th) \/ Notify(th) \/ Wait(th)
    <3>1. Goto(th, "notify") \/ Goto(th, "flags") \/ Goto(th, "woken")
      BY <2>1 DEF SetFF, Notify, Wait
    <3> QED BY <3>1 DEF Past
  <2>2. CASE ReadFlags(th)
    BY <1>3, <2>2 DEF ReadFlags, Past
  <2>3. CASE EnterWait(th)
    BY <1>3, <2>3 DEF EnterWait, Past
  <2>4. CASE Woken(th)
    BY <2>4 DEF Woken, Past, Done
  <2>5. CASE Signalled(th)
    BY <1>1, <2>5 DEF Signalled, Past, UserInv
  <2>6. CASE Poll(th)
    <3>1. (Goto(th, "signalled") \/ Goto(th, "timeout")) /\ mode[th] # "wait"
      BY <1>1, <2>6 DEF Poll, UserInv
    <3> QED BY <3>1 DEF Past
  <2>7. CASE PollTimeout(th)
    <3>1. (Goto(th, "got") \/ Goto(th, "wait")) /\ mode[th] # "wait"
      BY <1>1, <1>3, <2>7 DEF PollTimeout, UserInv
    <3> QED BY <3>1 DEF Past
  <2> QED BY <2>1, <2>2, <2>3, <2>4, <2>5, <2>6, <2>7
<1>6. UserInv(th)'
  BY <1>1, <1>2, <1>3, <1>4, <1>5 DEF UserInv, Past, Goto, TypeOK
<1> QED BY <1>2, <1>4, <1>5, <1>6, GoesOn

\* A thread that has a packet has one that is not in the free lists, nor in the heap.
LEMMA HasState ==
    ASSUME HolderInv, NEW th \in Threads, pkt[th] \in Packets
    PROVE  /\ state[pkt[th]] # "HEAP"
           /\ pc[th] # "prep" => state[pkt[th]] # "FREE"
<1>1. pc[th] \in Labels \union EmtLabels /\ LabelInv(th) /\ UserInv(th) /\ EmtInv /\ TypeOK
  BY DEF HolderInv, TypeInv, TypeOK
<1>2. CASE pc[th] \in {"prep", "fill", "push"} \union Past
  BY <1>1, <1>2 DEF UserInv, Past
<1>3. CASE pc[th] \in Work
  <2>1. th = EMT
    BY <1>1, <1>3, EmtIs DEF TypeOK, Work, Labels
  <2>2. pkt[EMT] = cur /\ pc[EMT] # "freeit" /\ pkt[EMT] # Nil
    BY <1>1, <1>3, <2>1, EmtIs DEF EmtInv, HolderInv, AloneInv
  <2>3. state[cur] \in {"QUEUED", "PROCESSING", "COMPLETED"}
    BY <1>1, <1>3, <2>1, <2>2 DEF HolderInv, WorkInv, UserInv, Work
  <2> QED BY <1>3, <2>1, <2>2, <2>3 DEF Work
<1> QED BY <1>1, <1>2, <1>3, EmtIs DEF LabelInv, Labels, EmtLabels, Work, Past

\* A thread that is not at work with EMT has no effect on what EMT does.
LEMMA EmtWhere ==
    ASSUME HolderInv, NEW th \in Threads,
           pc[th] \in {"idle", "top", "take", "prep", "fill", "push"} \union Past,
           pc' = [pc EXCEPT ![th] = pc'[th]], pc'[th] \notin {"begin", "execute", "freeit"}
    PROVE  /\ pc'[EMT] \in {"begin", "execute"} => th # EMT /\ pc'[EMT] = pc[EMT]
           /\ pc'[EMT] # "freeit"
  BY EmtIs DEF HolderInv, TypeInv, TypeOK, AloneInv

\* A call begins.
LEMMA HolderBegins ==
    ASSUME "noWait" \notin Modes, HolderInv, TypeInv', NEW th \in Threads,
           NEW m \in Modes, Call(th, m)
    PROVE  HolderInv'
<1>1. TypeOK /\ LabelInv(th) /\ EmtInv /\ AloneInv
  BY DEF HolderInv, TypeInv
<1>2. /\ pc[th] \in {"idle", "top"} /\ Goto(th, "take") /\ mode' = Set(mode, th, m)
      /\ UNCHANGED <<pktVars, pool, reqs, pkt, emtVars>>
  BY DEF Call, Idle
<1>3. /\ pc'[th] = "take" /\ pc' = [pc EXCEPT ![th] = pc'[th]]
      /\ \A u \in Threads : u # th => pc'[u] = pc[u] /\ mode'[u] = mode[u]
      /\ mode'[th] = m /\ Queued' = Queued
  BY <1>1, <1>2 DEF TypeOK, Goto, Set, Queued, emtVars
<1>4. pkt[th] = Nil /\ Nil \notin Packets
  BY <1>1, <1>2, EmtIs DEF LabelInv
<1>5. /\ pc'[EMT] \in {"begin", "execute"} => th # EMT /\ pc'[EMT] = pc[EMT]
      /\ pc'[EMT] # "freeit"
  BY <1>2, <1>3, EmtWhere
<1>6. ListInv' /\ FreeInv'
  BY <1>2 DEF HolderInv, ListInv, FreeInv, pktVars, emtVars
<1>7. AloneInv'
  BY <1>1, <1>2, <1>3, <1>5 DEF AloneInv, pktVars
<1>8. QueuedInv'
  <2>1. \A p \in Queued : p \in Packets
    BY <1>1 DEF Queued, Range, TypeOK
  <2> QED BY <1>2, <1>3, <1>4, <2>1 DEF HolderInv, QueuedInv, pktVars
<1>9. WorkInv'
  <2>1. \A u \in Threads : pkt'[u] = pkt[u] /\ (pc[u] \in Past => pc'[u] \in Past)
    BY <1>2, <1>3 DEF Past
  <2> QED BY <1>2, <1>3, <1>5, <2>1 DEF HolderInv, WorkInv, pktVars, emtVars
<1>10. ASSUME NEW u \in Threads PROVE UserInv(u)'
  <2>1. CASE u = th
    BY <1>2, <1>3, <1>4, <2>1, EmtIs DEF UserInv, Past
  <2>2. CASE u # th
    BY <1>2, <1>3, <2>2 DEF HolderInv, UserInv, pktVars
  <2> QED BY <2>1, <2>2
<1> QED BY <1>6, <1>7, <1>8, <1>9, <1>10 DEF HolderInv

\* A packet is taken: one that nobody has.
LEMMA HolderTakes ==
    ASSUME HolderInv, TypeInv', NEW th \in Threads, NEW p \in Packets, Take(th, p)
    PROVE  HolderInv'
<1>1. TypeOK /\ LabelInv(th) /\ EmtInv /\ AloneInv
  BY DEF HolderInv, TypeInv
<1>2. PICK to \in {"prep", "fill"} : Goto(th, to) /\ (to = "prep" => p \in pool) 
         /\ (to = "fill" => state[p] = "HEAP")
  BY DEF Take
<1>3. /\ pc[th] = "take" /\ pkt' = Set(pkt, th, p)
      /\ UNCHANGED <<reqs, mode, batch, cur>>
  BY DEF Take, emtVars, callVars
<1>4. /\ pc'[th] = to /\ pc' = [pc EXCEPT ![th] = pc'[th]] /\ pkt'[th] = p
      /\ \A u \in Threads : u # th => pc'[u] = pc[u] /\ pkt'[u] = pkt[u]
      /\ Queued' = Queued
  BY <1>1, <1>2, <1>3 DEF TypeOK, Goto, Set, Queued
<1>5. state[p] \in {"FREE", "HEAP"} /\ \A u \in Threads : pkt[u] # p
  <2>1. CASE p \in pool
    BY <2>1 DEF HolderInv, FreeInv
  <2>2. CASE state[p] = "HEAP"
    BY <2>2, HasState
  <2> QED BY <1>2, <2>1, <2>2
<1>6. /\ \A q \in Packets : q # p => state'[q] = state[q] /\ noWait'[q] = noWait[q]
      /\ state'[p] = IF to = "prep" THEN "FREE" ELSE "ALLOCATED"
      /\ noWait'[p] = FALSE
      /\ pool' = pool \ {p}
  <2>1. CASE /\ p \in pool /\ pool' = pool \ {p} /\ Goto(th, "prep") /\ UNCHANGED pktVars
    <3>1. to = "prep"
      BY <1>1, <1>4, <2>1 DEF Goto, TypeOK
    <3> QED BY <1>1, <2>1, <3>1 DEF pktVars, HolderInv, FreeInv, AloneInv
  <2>2. CASE /\ state[p] = "HEAP" /\ state' = Set(state, p, "ALLOCATED") /\ noWait' = Set(noWait, p, FALSE)
             /\ Goto(th, "fill") /\ UNCHANGED pool
    <3>1. to = "fill"
      BY <1>1, <1>4, <2>2 DEF Goto, TypeOK
    <3>2. p \notin pool
      BY <2>2 DEF HolderInv, FreeInv
    <3> QED BY <1>1, <2>2, <3>1, <3>2 DEF TypeOK, Set
  <2> QED BY <2>1, <2>2 DEF Take
<1>7. /\ pc'[EMT] \in {"begin", "execute"} => th # EMT /\ pc'[EMT] = pc[EMT]
      /\ pc'[EMT] # "freeit"
  BY <1>2, <1>3, <1>4, EmtWhere
<1>8. \A q \in Queued : q \in Packets /\ q # p
  BY <1>1, <1>5 DEF Queued, Range, TypeOK, HolderInv, QueuedInv
<1>9. ListInv' /\ FreeInv'
  <2>1. \A q \in pool' : q \in Packets /\ q \in pool /\ q # p
    BY <1>1, <1>6 DEF TypeOK
  <2> QED BY <1>3, <1>4, <1>6, <2>1 DEF HolderInv, ListInv, FreeInv
<1>10. AloneInv'
  BY <1>1, <1>3, <1>4, <1>5, <1>6, <1>7 DEF AloneInv
<1>11. QueuedInv'
  BY <1>4, <1>6, <1>8 DEF HolderInv, QueuedInv
<1>12. WorkInv'
  <2>1. pc[EMT] \in {"begin", "execute"} => cur \in Packets /\ cur # p
    BY <1>1, <1>5 DEF HolderInv, WorkInv, EmtInv, Work
  <2>2. \A u \in Threads : u # th => pkt'[u] = pkt[u] /\ (pc[u] \in Past => pc'[u] \in Past)
    BY <1>4
  <2> QED BY <1>3, <1>4, <1>6, <1>7, <2>1, <2>2 DEF HolderInv, WorkInv
<1>13. ASSUME NEW u \in Threads PROVE UserInv(u)'
  <2>1. CASE u = th
    BY <1>2, <1>4, <1>6, <2>1 DEF UserInv, Past
  <2>2. CASE u # th /\ pkt[u] \in Packets
    BY <1>3, <1>4, <1>5, <1>6, <2>2 DEF HolderInv, UserInv
  <2>3. CASE u # th /\ pkt[u] \notin Packets
    <3>1. pc[u] \notin {"prep", "fill", "push"} \union Past /\ pkt[u] = Nil
      BY <1>1, <2>3 DEF HolderInv, TypeInv, LabelInv, TypeOK
    <3> QED BY <1>3, <1>4, <2>3, <3>1, <1>1 DEF HolderInv, UserInv, Past
  <2> QED BY <2>1, <2>2, <2>3
<1> QED BY <1>9, <1>10, <1>11, <1>12, <1>13 DEF HolderInv

\* A thread changes the state of its own packet, or frees it.
LEMMA OwnState ==
    ASSUME HolderInv, TypeInv', NEW th \in Threads, NEW p \in Packets, pkt[th] = p,
           pc[th] \in {"prep", "fill", "push"} \union Past,
           p \notin Queued, pc[EMT] \in {"begin", "execute"} => cur # p,
           NEW to, Goto(th, to), to \notin {"begin", "execute", "freeit"},
           NEW q \in {p, Nil}, pkt' = Set(pkt, th, q),
           \A x \in Packets : x # p => state'[x] = state[x] /\ noWait'[x] = noWait[x],
           noWait'[p] = FALSE,
           \A x \in Packets : x # p => (x \in pool' <=> x \in pool),
           p \in pool' => state'[p] = "FREE" /\ q # p,
           UNCHANGED <<reqs, batch, cur, mode>>, UserInv(th)'
    PROVE  HolderInv'
<1>1. TypeOK /\ EmtInv /\ AloneInv
  BY DEF HolderInv, TypeInv
<1>2. /\ pc'[th] = to /\ pc' = [pc EXCEPT ![th] = pc'[th]] /\ pkt'[th] = q
      /\ \A u \in Threads : u # th => pc'[u] = pc[u] /\ pkt'[u] = pkt[u]
      /\ Queued' = Queued
  BY <1>1 DEF TypeOK, Goto, Set, Queued
<1>3. /\ pc'[EMT] \in {"begin", "execute"} => th # EMT /\ pc'[EMT] = pc[EMT]
      /\ pc'[EMT] # "freeit"
  BY <1>2, EmtWhere
<1>4. /\ \A u \in Threads : u # th => pkt[u] # p
      /\ \A x \in Queued : x \in Packets /\ x # p
  BY <1>1 DEF AloneInv, Queued, Range, TypeOK
<1>5. ListInv' /\ FreeInv'
  <2>1. \A x \in pool' : x \in Packets
    BY DEF TypeInv, TypeOK
  <2>2. ASSUME NEW x \in pool', NEW u \in Threads PROVE state'[x] = "FREE" /\ pkt'[u] # x
    <3>1. CASE x = p
      BY <1>2, <1>4, <2>2, <3>1, EmtIs
    <3>2. CASE x # p
      BY <1>2, <2>1, <2>2, <3>2, EmtIs DEF HolderInv, FreeInv
    <3> QED BY <3>1, <3>2
  <2> QED BY <2>2 DEF HolderInv, ListInv, FreeInv
<1>6. AloneInv'
  <2>1. \A t, u \in Threads : pkt'[t] \in Packets /\ pkt'[t] = pkt'[u] => t = u
    BY <1>1, <1>2, EmtIs DEF AloneInv
  <2> QED BY <1>1, <1>3, <2>1 DEF AloneInv
<1>7. QueuedInv'
  BY <1>2, <1>4, EmtIs DEF HolderInv, QueuedInv
<1>8. WorkInv'
  <2>1. pc[EMT] \in {"begin", "execute"} => cur \in Packets /\ cur # p
    BY <1>1 DEF EmtInv, Work
  <2>2. \A u \in Threads : u # th => pkt'[u] = pkt[u] /\ (pc[u] \in Past => pc'[u] \in Past)
    BY <1>2
  <2>3. pkt'[th] \in Packets => pkt'[th] = p
    BY <1>2, EmtIs
  <2> QED BY <1>2, <1>3, <2>1, <2>2, <2>3 DEF HolderInv, WorkInv
<1>9. ASSUME NEW u \in Threads PROVE UserInv(u)'
  <2>1. CASE u = th
    BY <2>1
  <2>2. CASE u # th /\ pkt[u] \in Packets
    BY <1>2, <1>4, <2>2 DEF HolderInv, UserInv
  <2>3. CASE u # th /\ pkt[u] \notin Packets
    <3>1. pc[u] \notin {"prep", "fill", "push"} \union Past /\ pkt[u] = Nil
      BY <1>1, <2>3 DEF HolderInv, TypeInv, LabelInv, TypeOK
    <3> QED BY <1>2, <2>3, <3>1 DEF HolderInv, UserInv, Past
  <2> QED BY <2>1, <2>2, <2>3
<1> QED BY <1>5, <1>6, <1>7, <1>8, <1>9 DEF HolderInv

\* A recycled packet is prepared, and a requester fills its own.
LEMMA HolderFills ==
    ASSUME HolderInv, TypeInv', NEW th \in Threads, Prepare(th) \/ (Fill(th) /\ th # EMT)
    PROVE  HolderInv'
<1>1. TypeOK /\ EmtInv /\ AloneInv /\ LabelInv(th) /\ UserInv(th)
  BY DEF HolderInv, TypeInv
<1> SUFFICES ASSUME NEW p \in Packets, p = pkt[th] PROVE HolderInv'
  BY <1>1 DEF LabelInv, Prepare, Fill
<1>2. /\ pc[th] \in {"prep", "fill"} /\ pc[th] \notin Past
      /\ UNCHANGED <<pool, pkt, reqs, batch, cur, mode>>
  BY DEF Prepare, Fill, callVars, emtVars, Past, ProcessesOwn
<1>3. p \notin Queued /\ (pc[EMT] \in {"begin", "execute"} => cur # p) /\ p \notin pool
  BY <1>2, EmtIs DEF HolderInv, QueuedInv, WorkInv, FreeInv
<1>4. PICK to \in {"fill", "push"} :
         /\ Goto(th, to)
         /\ state' = Set(state, p, IF to = "fill" THEN "ALLOCATED" ELSE "QUEUED")
         /\ noWait' = Set(noWait, p, FALSE)
  <2>1. CASE Prepare(th)
    BY <2>1 DEF Prepare
  <2>2. CASE Fill(th) /\ th # EMT
    BY <1>1, <2>2 DEF Fill, ProcessesOwn, AloneInv
  <2> QED BY <2>1, <2>2
<1>5. /\ \A x \in Packets : x # p => state'[x] = state[x] /\ noWait'[x] = noWait[x]
      /\ noWait'[p] = FALSE /\ state'[p] = IF to = "fill" THEN "ALLOCATED" ELSE "QUEUED"
      /\ pc'[th] = to
  BY <1>1, <1>4 DEF TypeOK, Set, Goto
<1>6. UserInv(th)'
  BY <1>2, <1>5, EmtIs DEF UserInv, Past
<1>7. pkt' = Set(pkt, th, p)
  BY <1>1, <1>2 DEF TypeOK, Set
<1>8. to \notin {"begin", "execute", "freeit"}
  OBVIOUS
<1> QED BY <1>2, <1>3, <1>4, <1>5, <1>6, <1>7, <1>8, OwnState

\* The caller frees the packet of a completed request.
LEMMA HolderFrees ==
    ASSUME HolderInv, TypeInv', NEW th \in Threads, FreeOwn(th)
    PROVE  HolderInv'
<1>1. TypeOK /\ EmtInv /\ AloneInv /\ LabelInv(th) /\ UserInv(th)
  BY DEF HolderInv, TypeInv
<1> SUFFICES ASSUME NEW p \in Packets, p = pkt[th] PROVE HolderInv'
  BY <1>1 DEF LabelInv, FreeOwn, Past
<1>2. /\ pc[th] = "got" /\ Free(p) /\ Return(th) /\ pc[th] \in Past
      /\ UNCHANGED <<noWait, reqs, batch, cur, mode>>
  BY <1>1 DEF FreeOwn, callVars, emtVars, AloneInv, Past
<1>3. state[p] \in {"QUEUED", "PROCESSING", "COMPLETED"} /\ p \notin pool
  BY <1>1, <1>2 DEF UserInv, HolderInv, FreeInv
<1>4. Goto(th, Idle(th)) /\ pkt' = Set(pkt, th, Nil) /\ pc'[th] = Idle(th)
  BY <1>1, <1>2 DEF Return, Goto, TypeOK
<1>5. Idle(th) \in {"idle", "top"}
  BY DEF Idle
<1>6. UserInv(th)'
  BY <1>1, <1>4, <1>5, EmtIs DEF UserInv, Past, Set, TypeOK
<1>7. CASE state[p] = "COMPLETED"
  <2>1. p \notin Queued /\ (pc[EMT] \in {"begin", "execute"} => cur # p)
    BY <1>7 DEF HolderInv, QueuedInv, WorkInv
  <2>2. /\ \A x \in Packets : x # p => state'[x] = state[x] /\ noWait'[x] = noWait[x]
        /\ \A x \in Packets : x # p => (x \in pool' <=> x \in pool)
        /\ p \in pool' => state'[p] = "FREE"
        /\ noWait'[p] = FALSE
    BY <1>1, <1>2, <1>3, <1>7 DEF Free, Set, TypeOK, AloneInv
  <2>3. pkt[th] = p /\ pc[th] \in {"prep", "fill", "push"} \union Past
        /\ Idle(th) \notin {"begin", "execute", "freeit"} /\ Nil # p
    BY <1>2, <1>5, EmtIs
  <2> QED BY <1>2, <1>4, <1>6, <2>1, <2>2, <2>3, OwnState
<1>8. CASE state[p] # "COMPLETED"
  <2>1. UNCHANGED <<state, pool>>
    BY <1>2, <1>3, <1>8 DEF Free
  <2>2. /\ \A u \in Threads : u # th => pc'[u] = pc[u] /\ pkt'[u] = pkt[u]
        /\ Queued' = Queued /\ pkt'[th] = Nil
        /\ pc' = [pc EXCEPT ![th] = pc'[th]]
    BY <1>1, <1>2, <1>4 DEF Goto, Set, TypeOK, Queued
  <2>3. /\ pc'[EMT] \in {"begin", "execute"} => th # EMT /\ pc'[EMT] = pc[EMT]
        /\ pc'[EMT] # "freeit"
    BY <1>2, <1>4, <1>5, <2>2, EmtWhere
  <2>4. \A u \in Threads : pkt'[u] \in Packets => u # th /\ pkt'[u] = pkt[u] /\ pc'[u] = pc[u]
    BY <2>2, EmtIs
  <2>5. /\ \A x \in Queued : x \in Packets
        /\ \A x \in pool : x \in Packets
        /\ pc[EMT] \in Work => cur \in Packets
    BY <1>1 DEF Queued, Range, TypeOK, EmtInv
  <2>6. ListInv' /\ FreeInv'
    BY <1>2, <2>1, <2>4, <2>5 DEF HolderInv, ListInv, FreeInv
  <2>7. AloneInv'
    BY <1>1, <1>2, <2>3, <2>4 DEF AloneInv
  <2>8. QueuedInv'
    BY <2>1, <2>2, <2>4, <2>5 DEF HolderInv, QueuedInv
  <2>9. WorkInv'
    <3>1. pc[EMT] \in {"begin", "execute"} => cur \in Packets
      BY <2>5 DEF Work
    <3> QED BY <1>2, <2>1, <2>2, <2>3, <2>4, <3>1 DEF HolderInv, WorkInv
  <2>10. \A u \in Threads : UserInv(u)'
    BY <1>2, <1>6, <2>1, <2>2 DEF HolderInv, UserInv
  <2> QED BY <2>6, <2>7, <2>8, <2>9, <2>10 DEF HolderInv
<1> QED BY <1>7, <1>8

\* A requester pushes its packet.
LEMMA HolderPushes ==
    ASSUME HolderInv, TypeInv', NEW th \in Threads, Push(th)
    PROVE  HolderInv'
<1>1. TypeOK /\ EmtInv /\ AloneInv /\ LabelInv(th) /\ UserInv(th)
  BY DEF HolderInv, TypeInv
<1> SUFFICES ASSUME NEW p \in Packets, p = pkt[th] PROVE HolderInv'
  BY <1>1 DEF LabelInv, Push
<1>2. /\ pc[th] = "push" /\ pc[th] \notin Past /\ th # EMT /\ Goto(th, "setff")
      /\ UNCHANGED <<state, noWait, pool, batch, cur, pkt, mode>> /\ reqs' = <<p>> \o reqs
  BY <1>1 DEF Push, pktVars, callVars, emtVars, Past, EmtInv
<1>3. p \notin Queued /\ (pc[EMT] \in {"begin", "execute"} => cur # p) /\ state[p] = "QUEUED"
  BY <1>1, <1>2, EmtIs DEF HolderInv, QueuedInv, WorkInv, UserInv
<1>4. IsInjective(reqs') /\ Range(reqs') = Range(reqs) \union {p}
  <2>1. reqs \in Seq(Packets) /\ p \notin Range(reqs) /\ IsInjective(reqs)
    BY <1>1, <1>3 DEF TypeOK, Queued, HolderInv, ListInv
  <2> QED BY <1>2, <2>1, PushIs
<1>5. Queued' = Queued \union {p} /\ ListInv'
  BY <1>2, <1>3, <1>4 DEF Queued, HolderInv, ListInv
<1>6. /\ pc'[th] = "setff" /\ \A u \in Threads : u # th => pc'[u] = pc[u]
  BY <1>1, <1>2 DEF TypeOK, Goto
<1>7. FreeInv' /\ AloneInv'
  BY <1>1, <1>2, <1>6, EmtIs DEF HolderInv, FreeInv, AloneInv
<1>8. QueuedInv'
  <2>1. \A u \in Threads : pkt[u] = p => u = th
    BY <1>1 DEF AloneInv
  <2> QED BY <1>2, <1>3, <1>5, <1>6, <2>1 DEF HolderInv, QueuedInv, Past
<1>9. WorkInv'
  <2>1. \A u \in Threads : pc[u] \in Past => pc'[u] \in Past
    BY <1>2, <1>6
  <2> QED BY <1>2, <1>3, <1>5, <1>6, <2>1, EmtIs DEF HolderInv, WorkInv
<1>10. ASSUME NEW u \in Threads PROVE UserInv(u)'
  BY <1>2, <1>3, <1>6 DEF HolderInv, UserInv, Past
<1> QED BY <1>5, <1>7, <1>8, <1>9, <1>10 DEF HolderInv

\* EMT has its own packet at hand at once.
LEMMA HolderInline ==
    ASSUME HolderInv, TypeInv', Fill(EMT)
    PROVE  HolderInv'
<1> USE EmtIs
<1>1. TypeOK /\ EmtInv /\ AloneInv /\ LabelInv(EMT) /\ UserInv(EMT)
  BY DEF HolderInv, TypeInv
<1> SUFFICES ASSUME NEW p \in Packets, p = pkt[EMT] PROVE HolderInv'
  BY <1>1 DEF LabelInv, Fill
<1>2. /\ pc[EMT] = "fill" /\ Goto(EMT, "begin") /\ cur' = p
      /\ UNCHANGED <<pool, reqs, batch, pkt, mode>> 
      /\ state' = Set(state, p, "QUEUED") /\ noWait' = Set(noWait, p, FALSE)
  BY <1>1 DEF Fill, callVars, EmtInv, ProcessesOwn
<1>3. p \notin Queued /\ p \notin pool /\ \A u \in Threads : u # EMT => pkt[u] # p
  BY <1>1, <1>2 DEF HolderInv, QueuedInv, AloneInv, FreeInv
<1>4. /\ pc'[EMT] = "begin" /\ \A u \in Threads : u # EMT => pc'[u] = pc[u]
      /\ Queued' = Queued
      /\ \A x \in Packets : x # p => state'[x] = state[x] /\ noWait'[x] = noWait[x]
      /\ state'[p] = "QUEUED" /\ noWait'[p] = FALSE
  BY <1>1, <1>2 DEF TypeOK, Goto, Set, Queued
<1>5. /\ \A x \in Queued : x \in Packets /\ x # p
      /\ \A x \in pool : x \in Packets /\ x # p
  BY <1>1, <1>3 DEF Queued, Range, TypeOK
<1>6. ListInv' /\ FreeInv' /\ AloneInv' /\ QueuedInv' /\ WorkInv'
  <2>1. ListInv' /\ FreeInv'
    BY <1>2, <1>4, <1>5 DEF HolderInv, ListInv, FreeInv
  <2>2. AloneInv'
    BY <1>1, <1>2, <1>4 DEF AloneInv
  <2>3. QueuedInv'
    BY <1>2, <1>4, <1>5 DEF HolderInv, QueuedInv
  <2>4. WorkInv'
    BY <1>2, <1>3, <1>4 DEF WorkInv
  <2> QED BY <2>1, <2>2, <2>3, <2>4
<1>7. ASSUME NEW u \in Threads PROVE UserInv(u)'
  <2>1. CASE u = EMT
    BY <1>4, <2>1 DEF UserInv, Past
  <2>2. CASE u # EMT /\ pkt[u] \in Packets
    BY <1>2, <1>3, <1>4, <2>2 DEF HolderInv, UserInv
  <2>3. CASE u # EMT /\ pkt[u] \notin Packets
    <3>1. pc[u] \notin {"prep", "fill", "push"} \union Past
      BY <2>3 DEF HolderInv, TypeInv, LabelInv
    <3> QED BY <1>2, <1>4, <2>3, <3>1 DEF HolderInv, UserInv, Past
  <2> QED BY <2>1, <2>2, <2>3
<1> QED BY <1>6, <1>7 DEF HolderInv

\* EMT executes the request at hand.
LEMMA HolderWorks ==
    ASSUME HolderInv, TypeInv', Begin \/ Complete
    PROVE  HolderInv'
<1> USE EmtIs
<1>1. TypeOK /\ EmtInv /\ AloneInv /\ WorkInv /\ cur \in Packets /\ pkt[EMT] \in {Nil, cur}
  BY DEF HolderInv, TypeInv, Begin, Complete, EmtInv, Work
<1>2. /\ pc[EMT] \in {"begin", "execute"} /\ UNCHANGED <<noWait, pool, reqs, batch, cur, pkt, mode>>
      /\ \/ Goto(EMT, "execute") /\ state' = Set(state, cur, "PROCESSING")
         \/ Goto(EMT, "completed") /\ state' = Set(state, cur, "COMPLETED")
  BY DEF Begin, Complete, callVars, emtVars
<1>3. /\ \A u \in Threads : u # EMT => pc'[u] = pc[u]
      /\ \/ pc'[EMT] = "execute" /\ state'[cur] = "PROCESSING"
         \/ pc'[EMT] = "completed" /\ state'[cur] = "COMPLETED"
      /\ \A x \in Packets : x # cur => state'[x] = state[x]
      /\ Queued' = Queued
  BY <1>1, <1>2 DEF TypeOK, Goto, Set, Queued
<1>4. /\ cur \notin Queued /\ cur \notin pool /\ state[cur] \in {"QUEUED", "PROCESSING"}
      /\ \A u \in Threads : pkt[u] = cur => u = EMT \/ pc[u] \in Past
  BY <1>1, <1>2 DEF HolderInv, FreeInv, WorkInv
<1>5. /\ \A x \in Queued : x \in Packets /\ x # cur
      /\ \A x \in pool : x \in Packets /\ x # cur
      /\ pc[EMT] \notin Past /\ pc'[EMT] \notin Past
  BY <1>1, <1>2, <1>3, <1>4 DEF Queued, Range, TypeOK, Past
<1>6. ListInv' /\ FreeInv' /\ AloneInv'
  BY <1>1, <1>2, <1>3, <1>5 DEF HolderInv, ListInv, FreeInv, AloneInv
<1>7. QueuedInv' /\ WorkInv'
  BY <1>1, <1>2, <1>3, <1>4, <1>5 DEF HolderInv, QueuedInv, WorkInv
<1>8. ASSUME NEW u \in Threads PROVE UserInv(u)'
  <2>1. CASE u = EMT
    BY <1>1, <1>2, <1>3, <2>1 DEF UserInv, Past
  <2>2. CASE u # EMT /\ pkt[u] = cur
    <3>1. pc[u] \in Past /\ ~(mode[u] = "wait" /\ pc[u] \in {"signalled", "got"})
      BY <1>4, <2>2 DEF HolderInv, UserInv
    <3>2. pc[u] \notin {"prep", "fill", "push"} /\ (pc[u] \in {"poll", "timeout"} => mode[u] # "wait")
      BY <3>1, <2>2 DEF Past, HolderInv, UserInv
    <3> QED BY <1>2, <1>3, <2>2, <3>1, <3>2 DEF UserInv
  <2>3. CASE u # EMT /\ pkt[u] \in Packets /\ pkt[u] # cur
    BY <1>2, <1>3, <2>3 DEF HolderInv, UserInv
  <2>4. CASE u # EMT /\ pkt[u] \notin Packets
    <3>1. pc[u] \notin {"prep", "fill", "push"} \union Past
      BY <2>4 DEF HolderInv, TypeInv, LabelInv
    <3> QED BY <1>2, <1>3, <2>4, <3>1 DEF HolderInv, UserInv, Past
  <2> QED BY <1>1, <2>1, <2>2, <2>3, <2>4
<1> QED BY <1>6, <1>7, <1>8 DEF HolderInv

\* EMT turns to a packet of its lists.
LEMMA HolderNext ==
    ASSUME HolderInv, TypeInv', pc[EMT] \in {"xchg", "signal"}, pkt[EMT] = Nil, Goto(EMT, "begin"),
           cur' \in Queued, Queued' \subseteq Queued \ {cur'}, ListInv',
           UNCHANGED <<state, noWait, pool, pkt, mode>>
    PROVE  HolderInv'
<1> USE EmtIs
<1>1. TypeOK /\ EmtInv /\ AloneInv /\ QueuedInv
  BY DEF HolderInv, TypeInv
<1>2. pc'[EMT] = "begin" /\ \A u \in Threads : u # EMT => pc'[u] = pc[u]
  BY <1>1 DEF TypeOK, Goto
<1>3. FreeInv' /\ AloneInv'
  BY <1>1, <1>2 DEF HolderInv, FreeInv, AloneInv
<1>4. \A u \in Threads : pc[u] \in Past => pc'[u] \in Past
  BY <1>2 DEF Past
<1>5. QueuedInv' /\ WorkInv'
  BY <1>1, <1>2, <1>4 DEF QueuedInv, WorkInv
<1>6. ASSUME NEW u \in Threads PROVE UserInv(u)'
  BY <1>2 DEF HolderInv, UserInv, Past
<1> QED BY <1>3, <1>5, <1>6 DEF HolderInv

\* What EMT's step to the next request leads to.
LEMMA HolderNextOne ==
    ASSUME HolderInv, TypeInv', NextOne, pc[EMT] = "signal",
           UNCHANGED <<state, noWait, pool, reqs, pkt, mode>>
    PROVE  HolderInv'
<1> USE EmtIs
<1>1. TypeOK /\ EmtInv /\ ListInv /\ UserInv(EMT)
  BY DEF HolderInv, TypeInv
<1>2. pc[EMT] \notin Past
  BY DEF Past
<1>3. CASE pkt[EMT] # Nil
  <2>1. Goto(EMT, "got") /\ batch' = batch
    BY <1>3 DEF NextOne
  <2>2. UserInv(EMT)'
    BY <1>1, <1>3, <2>1 DEF UserInv, Past, Goto, TypeOK
  <2> QED BY <1>2, <2>1, <2>2, GoesOn
<1>4. CASE pkt[EMT] = Nil /\ batch = <<>>
  <2>1. Goto(EMT, "clear") /\ batch' = batch
    BY <1>4 DEF NextOne
  <2>2. UserInv(EMT)'
    BY <1>1, <1>4, <2>1 DEF UserInv, Past, Goto, TypeOK
  <2> QED BY <1>2, <2>1, <2>2, GoesOn
<1>5. CASE pkt[EMT] = Nil /\ batch # <<>>
  <2>1. Goto(EMT, "begin") /\ cur' = Head(batch) /\ batch' = Tail(batch)
    BY <1>5 DEF NextOne
  <2>2. batch \in Seq(Packets) /\ IsInjective(batch)
    BY <1>1 DEF TypeOK, ListInv
  <2>3. /\ Head(batch) \in Range(batch) /\ IsInjective(Tail(batch))
        /\ Range(Tail(batch)) = Range(batch) \ {Head(batch)}
    BY <1>5, <2>2, RestIs
  <2>4. ListInv' /\ cur' \in Queued /\ Queued' \subseteq Queued \ {cur'}
    BY <1>1, <2>1, <2>3 DEF ListInv, Queued
  <2> QED BY <1>5, <2>1, <2>4, HolderNext
<1> QED BY <1>3, <1>4, <1>5

\* EMT takes the list.
LEMMA HolderTakesAll ==
    ASSUME HolderInv, TypeInv', TakeAll
    PROVE  HolderInv'
<1> USE EmtIs
<1>1. TypeOK /\ EmtInv /\ ListInv /\ LabelInv(EMT)
  BY DEF HolderInv, TypeInv
<1>2. /\ pc[EMT] = "xchg" /\ pc[EMT] \notin Past /\ pkt[EMT] = Nil /\ reqs' = <<>>
      /\ UNCHANGED <<state, noWait, pool, pkt, mode>>
  BY <1>1 DEF TakeAll, Left, pktVars, callVars, LabelInv, EmtLabels, Work, Past
<1>3. CASE reqs = <<>>
  <2>1. Goto(EMT, "top") /\ UNCHANGED <<reqs, batch>>
    BY <1>2, <1>3 DEF TakeAll, emtVars
  <2>2. UserInv(EMT)'
    BY <1>1, <1>2, <2>1 DEF UserInv, Past, Goto, TypeOK
  <2> QED BY <1>2, <2>1, <2>2, GoesOn
<1>4. CASE reqs # <<>>
  <2>1. Goto(EMT, "begin") /\ cur' = Head(Reverse(reqs)) /\ batch' = Tail(Reverse(reqs))
    BY <1>4 DEF TakeAll, InOrder
  <2>2. /\ reqs \in Seq(Packets) /\ IsInjective(reqs)
        /\ Reverse(reqs) \in Seq(Packets) /\ IsInjective(Reverse(reqs))
        /\ Len(Reverse(reqs)) = Len(reqs) /\ Range(Reverse(reqs)) = Range(reqs)
    BY <1>1, ReverseIs DEF TypeOK, ListInv
  <2>3. Reverse(reqs) # <<>>
    <3>1. \A u \in Seq(Packets) : u = <<>> <=> Len(u) = 0
      OBVIOUS
    <3> QED BY <1>4, <2>2, <3>1
  <2>4. /\ Head(Reverse(reqs)) \in Range(reqs) /\ IsInjective(Tail(Reverse(reqs)))
        /\ Range(Tail(Reverse(reqs))) = Range(reqs) \ {Head(Reverse(reqs))}
    BY <2>2, <2>3, RestIs
  <2>5. Range(reqs') = {} /\ IsInjective(reqs')
    BY <1>2 DEF Range, IsInjective
  <2>6. ListInv' /\ cur' \in Queued /\ Queued' \subseteq Queued \ {cur'}
    BY <2>1, <2>4, <2>5 DEF ListInv, Queued
  <2> QED BY <1>2, <2>1, <2>6, HolderNext
<1> QED BY <1>3, <1>4

\* The steps of EMT.
LEMMA HolderEmt ==
    ASSUME HolderInv, TypeInv', EmtStep \/ WaitTimeout
    PROVE  HolderInv'
<1> USE EmtIs
<1>1. TypeOK /\ EmtInv /\ AloneInv /\ UserInv(EMT)
  BY DEF HolderInv, TypeInv
<1>2. CASE Begin \/ Complete
  BY <1>2, HolderWorks
<1>3. CASE TakeAll
  BY <1>3, HolderTakesAll
<1>4. CASE Signal
  BY <1>4, HolderNextOne DEF Signal, callVars
<1>5. CASE FreeForOther
  BY <1>1, <1>5 DEF FreeForOther, AloneInv
<1>6. CASE CheckNoWait \/ MarkSem
  <2>1. /\ pc[EMT] \in {"completed", "mark"}
        /\ UNCHANGED <<state, noWait, pool, reqs, batch, cur, pkt, mode>>
    BY <1>6 DEF CheckNoWait, MarkSem, pktVars, callVars, emtVars
  <2>2. PICK to \in {"mark", "signal"} : Goto(EMT, to)
    BY <1>1, <1>6 DEF CheckNoWait, MarkSem, AloneInv, FreesIt, EmtInv, Work
  <2>3. UserInv(EMT)' /\ pc[EMT] \notin Past
    BY <1>1, <2>1, <2>2 DEF UserInv, Past, Goto, TypeOK
  <2> QED BY <2>1, <2>2, <2>3, GoesOn
<1>7. CASE ClearFF \/ Top \/ WaitCheck \/ SetWait \/ Recheck \/ WakeUp \/ Unwait \/ WaitTimeout
  <2>1. /\ pc[EMT] \notin Past
        /\ UNCHANGED <<state, noWait, pool, reqs, batch, cur, pkt, mode>>
    BY <1>7 DEF ClearFF, Top, WaitCheck, SetWait, Recheck, WakeUp, Unwait, WaitTimeout, pktVars,
       callVars,
       emtVars, Past
  <2>2. PICK to \in {"xchg", "clear", "check", "top", "setwait", "recheck", "unwait", "blocked"} :
              Goto(EMT, to)
    BY <1>7 DEF ClearFF, Top, WaitCheck, SetWait, Recheck, WakeUp, Unwait, WaitTimeout
  <2>3. UserInv(EMT)'
    BY <1>1, <2>1, <2>2 DEF UserInv, Past, Goto, TypeOK
  <2> QED BY <2>1, <2>2, <2>3, GoesOn
<1> QED BY <1>2, <1>3, <1>4, <1>5, <1>6, <1>7 DEF EmtStep

\* Without VMREQFLAGS_NO_WAIT the state of a packet tells where it is, and whose.
LEMMA HolderAlways == "noWait" \notin Modes => (Spec => []HolderInv)
<1> SUFFICES ASSUME "noWait" \notin Modes PROVE Spec => []HolderInv
  OBVIOUS
<1>1. Init /\ TypeInv => HolderInv
  <2> SUFFICES ASSUME Init, TypeInv PROVE HolderInv
    OBVIOUS
  <2>1. Range(reqs) = {} /\ Range(batch) = {} /\ IsInjective(reqs) /\ IsInjective(batch)
    BY DEF Init, Range, IsInjective
  <2>2. ListInv /\ FreeInv /\ QueuedInv
    BY <2>1 DEF Init, ListInv, FreeInv, QueuedInv, Queued
  <2>3. AloneInv /\ WorkInv
    BY EmtIs DEF Init, AloneInv, WorkInv, Idle
  <2>4. \A th \in Threads : UserInv(th)
    BY DEF Init, UserInv, Idle, Past
  <2> QED BY <2>2, <2>3, <2>4 DEF HolderInv
<1>2. HolderInv /\ TypeInv' /\ [Next]_vars => HolderInv'
  <2> SUFFICES ASSUME HolderInv, TypeInv', [Next]_vars PROVE HolderInv'
    OBVIOUS
  <2>1. ASSUME NEW th \in Threads, \E m \in Modes : Call(th, m) PROVE HolderInv'
    BY <2>1, HolderBegins
  <2>2. ASSUME NEW th \in Threads, CallStep(th) PROVE HolderInv'
    <3>1. CASE \E p \in Packets : Take(th, p)
      BY <3>1, HolderTakes
    <3>2. CASE Prepare(th) \/ (Fill(th) /\ th # EMT)
      BY <3>2, HolderFills
    <3>3. CASE Fill(th) /\ th = EMT
      BY <3>3, HolderInline
    <3>4. CASE Push(th) \/ FreeOwn(th)
      BY <3>4, HolderPushes, HolderFrees
    <3>5. CASE \/ SetFF(th) \/ Notify(th) \/ ReadFlags(th) \/ EnterWait(th) \/ Wait(th) \/ Woken(th)
               \/ Signalled(th) \/ Poll(th) \/ PollTimeout(th)
      BY <3>5, HolderCall
    <3> QED BY <2>2, <3>1, <3>2, <3>3, <3>4, <3>5 DEF CallStep
  <2>3. CASE UNCHANGED vars
    <3>1. UNCHANGED <<state, noWait, pool, reqs, batch, cur, pkt, mode, pc>>
      BY <2>3 DEF vars, pktVars, callVars, emtVars
    <3> QED BY <3>1 DEF HolderInv, ListInv, AloneInv, FreeInv, QueuedInv, Queued, WorkInv, UserInv
  <2> QED BY <2>1, <2>2, <2>3, HolderEmt DEF Next
<1> QED BY <1>1, <1>2, TypesAlways, PTL DEF Spec

----------------------------------------------------------------------------
(* The events *)

\* What the rest of the proof is about: up to the end of the first call that polls.
Good == HolderInv /\ PollInv /\ EventsInv

\* A thread that is left alone, with a packet that is.
LEMMA EventSame ==
    ASSUME HolderInv, NEW u \in Threads, EventInv(u),
           UNCHANGED <<pc[u], pkt[u], mode[u]>>,
           pkt[u] \in Packets =>
              /\ UNCHANGED <<sem[pkt[u]], state[pkt[u]]>>
              /\ InWork(pkt[u])' => InWork(pkt[u])
    PROVE  EventInv(u)'
<1>1. CASE pkt[u] \in Packets
  BY <1>1 DEF EventInv, InWork
<1>2. CASE pkt[u] \notin Packets
  <2>1. pc[u] \notin {"fill", "push"} \union Past
    BY <1>2 DEF HolderInv, TypeInv, LabelInv
  <2> QED BY <2>1 DEF EventInv, Past
<1> QED BY <1>1, <1>2

\* The threads of other packets.
LEMMA OtherPkt ==
    ASSUME HolderInv, NEW th \in Threads, NEW u \in Threads, u # th, pkt[th] \in Packets
    PROVE  pkt[u] # pkt[th]
  BY DEF HolderInv, AloneInv

\* What a signalled event, or one about to be, excludes.
LEMMA CurIs ==
    ASSUME HolderInv, EventsInv, pc[EMT] \in Work
    PROVE  /\ cur \in Packets /\ cur \notin Queued /\ ~sem[cur]
           /\ pc[EMT] = "begin" => state[cur] = "QUEUED"
           /\ pc[EMT] = "execute" => state[cur] = "PROCESSING"
           /\ pc[EMT] \notin {"begin", "execute"} => state[cur] = "COMPLETED"
           /\ \A th \in Threads : pkt[th] = cur => th = EMT \/ pc[th] \in Past \ {"woken", "signalled"}
<1>1. cur \in Packets /\ ~sem[cur] /\ pc[EMT] # "freeit"
  BY DEF HolderInv, TypeInv, EmtInv, EventsInv, SemInv, InWork, AloneInv
<1>2. /\ pc[EMT] = "begin" => state[cur] = "QUEUED"
      /\ pc[EMT] = "execute" => state[cur] = "PROCESSING"
      /\ pc[EMT] \notin {"begin", "execute"} => state[cur] = "COMPLETED"
  BY <1>1 DEF HolderInv, WorkInv, EventsInv, DoneInv, Work
<1>3. cur \notin Queued
  <2>1. cur \in Queued => state[cur] = "QUEUED" /\ pc[EMT] # "begin"
    BY DEF HolderInv, QueuedInv, WorkInv
  <2> QED BY <1>2, <2>1
<1>4. ASSUME NEW th \in Threads, pkt[th] = cur, th # EMT PROVE pc[th] \in Past \ {"woken", "signalled"}
  <2>1. pc[th] \notin {"woken", "signalled"}
    BY <1>4 DEF EventsInv, EventInv, InWork
  <2>2. pc[th] \notin {"prep", "fill"}
    BY <1>2, <1>4 DEF HolderInv, UserInv
  <2>3. pc[th] # "push"
    <3>1. pc[EMT] \in {"begin", "execute"} => pc[th] \in Past
      BY <1>4 DEF HolderInv, WorkInv
    <3>2. pc[th] = "push" => state[cur] = "QUEUED"
      BY <1>4 DEF HolderInv, UserInv
    <3> QED BY <1>2, <3>1, <3>2 DEF Past
  <2>4. pc[th] \in Labels /\ pkt[th] # Nil /\ LabelInv(th)
    BY <1>1, <1>4, EmtIs DEF HolderInv, TypeInv, TypeOK
  <2> QED BY <2>1, <2>2, <2>3, <2>4 DEF LabelInv, Labels, Past
<1> QED BY <1>1, <1>2, <1>3, <1>4

\* A thread goes on; its event and its packet are as they were.
LEMMA EventsGoOn ==
    ASSUME HolderInv, EventsInv, NEW th \in Threads, NEW to, Goto(th, to), TypeOK,
           UNCHANGED <<state, sem, semClear, reqs, batch, cur, pkt>>,
           \A u \in Threads : u # th => mode'[u] = mode[u],
           th = EMT => pc[EMT] \notin Work /\ to \notin Work,
           EventInv(th)'
    PROVE  EventsInv'
<1>1. /\ pc'[th] = to /\ \A u \in Threads : u # th => pc'[u] = pc[u]
      /\ EMT \in Threads /\ Queued' = Queued
  BY EmtIs DEF TypeOK, Goto, Queued
<1>2. \A p : InWork(p)' <=> InWork(p)
  BY <1>1 DEF InWork
<1>3. SemInv'
  BY <1>1, <1>2 DEF EventsInv, SemInv
<1>4. DoneInv'
  BY <1>1 DEF EventsInv, DoneInv, Work
<1>5. ASSUME NEW u \in Threads PROVE EventInv(u)'
  <2>1. CASE u # th
    BY <1>1, <1>2, <2>1, EventSame DEF EventsInv
  <2> QED BY <1>5, <2>1
<1> QED BY <1>3, <1>4, <1>5 DEF EventsInv

\* The steps of a call that do no more than that.
LEMMA EventsCall ==
    ASSUME Good, HolderInv', NEW th \in Threads,
           \/ \E m \in Modes : Call(th, m)
           \/ SetFF(th) \/ Notify(th) \/ ReadFlags(th) \/ EnterWait(th) \/ Woken(th) \/ PollTimeout(th)
    PROVE  EventsInv'
<1>1. TypeOK /\ LabelInv(th) /\ EmtInv /\ AloneInv /\ UserInv(th) /\ EventInv(th) /\ HolderInv /\ EventsInv
  BY DEF Good, HolderInv, TypeInv, EventsInv
<1>2. CASE \E m \in Modes : Call(th, m)
  <2>1. PICK m \in Modes : Call(th, m)
    BY <1>2
  <2>2. /\ pc[th] \in {"idle", "top"} /\ Goto(th, "take") /\ mode' = Set(mode, th, m)
        /\ UNCHANGED <<state, sem, semClear, reqs, batch, cur, pkt>>
    BY <2>1 DEF Call, Idle, pktVars, emtVars
  <2>3. EventInv(th)' /\ \A u \in Threads : u # th => mode'[u] = mode[u]
    BY <1>1, <2>2 DEF EventInv, Past, Goto, Set, TypeOK
  <2>4. th = EMT => pc[EMT] \notin Work /\ "take" \notin Work
    BY <2>2 DEF Work
  <2> QED BY <1>1, <2>2, <2>3, <2>4, EventsGoOn
<1>3. CASE \/ SetFF(th) \/ Notify(th) \/ ReadFlags(th) \/ EnterWait(th) \/ Woken(th) \/ PollTimeout(th)
  <2>1. pc[th] \in Past /\ th # EMT /\ pkt[th] \in Packets
    BY <1>1, <1>3 DEF LabelInv, EmtInv, Past, SetFF, Notify, ReadFlags, EnterWait, Woken,
       PollTimeout
  <2>2. state[pkt[th]] \in {"QUEUED", "PROCESSING", "COMPLETED"} /\ noWait[pkt[th]] = FALSE
        /\ mode[th] \in {"wait", "poll"}
    BY <1>1, <2>1 DEF UserInv, AloneInv, TypeOK, AllModes
  <2>3. UNCHANGED <<state, sem, semClear, reqs, batch, cur, pkt, mode>>
    BY <1>1, <2>2, <1>3 DEF UserInv, SetFF, Notify, ReadFlags, EnterWait, Woken, PollTimeout,
       pktVars,
       callVars, emtVars
  <2>4. PICK to \in {"notify", "flags", "enter", "wait", "poll", "signalled", "got"} :
          /\ Goto(th, to)
          /\ to = "signalled" => pc[th] = "woken"
          /\ to = "got" => state[pkt[th]] = "COMPLETED" /\ mode[th] # "wait"
    <3>1. CASE SetFF(th) \/ Notify(th)
      BY <3>1 DEF SetFF, Notify
    <3>2. CASE ReadFlags(th)
      BY <2>2, <3>2 DEF ReadFlags
    <3>3. CASE EnterWait(th)
      BY <2>2, <3>3 DEF EnterWait
    <3>4. CASE Woken(th)
      BY <3>4 DEF Woken
    <3>5. CASE PollTimeout(th)
      BY <1>1, <2>2, <3>5 DEF PollTimeout, UserInv
    <3> QED BY <1>3, <3>1, <3>2, <3>3, <3>4, <3>5
  <2>5. EventInv(th)'
    BY <1>1, <2>1, <2>3, <2>4 DEF EventInv, Past, Goto, TypeOK, InWork
  <2> QED BY <1>1, <2>1, <2>3, <2>4, <2>5, EventsGoOn
<1> QED BY <1>2, <1>3

\* A thread changes its own packet, or the one it takes, while EMT is not at work on it.
LEMMA EventsOwn ==
    ASSUME HolderInv, EventsInv, TypeOK, NEW th \in Threads, NEW p \in Packets,
           pkt[th] \in {p, Nil}, \A u \in Threads : u # th => pkt[u] # p,
           NEW to, Goto(th, to), NEW q \in {p, Nil}, pkt' = Set(pkt, th, q), UNCHANGED <<cur, mode>>,
           \A x \in Packets : x # p => UNCHANGED <<state[x], sem[x], semClear[x]>>,
           \A x \in Packets : x # p /\ x \in Queued' => x \in Queued,
           sem'[p] => ~semClear'[p] /\ p \notin Queued' /\ ~InWork(p),
           pc[EMT] \in Work => cur \in Packets /\ cur # p,
           state'[p] \in {"QUEUED", "PROCESSING"} => q = p,
           th = EMT => pc[EMT] \notin Work /\ to \notin Work,
           EventInv(th)'
    PROVE  EventsInv'
<1>1. /\ pc'[th] = to /\ \A u \in Threads : u # th => pc'[u] = pc[u] /\ pkt'[u] = pkt[u]
      /\ EMT \in Threads /\ pkt'[th] = q
  BY EmtIs DEF TypeOK, Goto, Set
<1>2. \A x : InWork(x)' <=> InWork(x)
  BY <1>1 DEF InWork
<1>3. SemInv'
  <2>1. ASSUME NEW x \in Packets, sem'[x] PROVE ~semClear'[x] /\ x \notin Queued' /\ ~InWork(x)'
    <3>1. CASE x = p
      BY <1>2, <2>1, <3>1
    <3>2. CASE x # p
      BY <1>2, <2>1, <3>2 DEF EventsInv, SemInv
    <3> QED BY <3>1, <3>2
  <2> QED BY <2>1 DEF SemInv
<1>4. DoneInv'
  <2>1. ASSUME NEW x \in Packets, state'[x] \in {"QUEUED", "PROCESSING"}
        PROVE  \E u \in Threads : pkt'[u] = x
    <3>1. CASE x = p
      BY <1>1, <2>1, <3>1
    <3>2. CASE x # p
      <4>1. PICK u \in Threads : pkt[u] = x
        BY <2>1, <3>2 DEF EventsInv, DoneInv
      <4>2. u # th
        BY <3>2, <4>1, EmtIs
      <4> QED BY <1>1, <4>1, <4>2
    <3> QED BY <3>1, <3>2
  <2>2. ASSUME pc'[EMT] \in {"completed", "mark", "signal"}
        PROVE  /\ state'[cur'] = "COMPLETED" /\ \E u \in Threads : pkt'[u] = cur'
               /\ pc'[EMT] = "signal" => ~semClear'[cur']
    <3>1. pc'[EMT] = pc[EMT] /\ pc[EMT] \in Work /\ cur \in Packets /\ cur # p
      BY <1>1, <2>2 DEF Work
    <3>2. PICK u \in Threads : pkt[u] = cur
      BY <2>2, <3>1 DEF EventsInv, DoneInv
    <3>3. u # th
      BY <3>1, <3>2, EmtIs
    <3> QED BY <1>1, <2>2, <3>1, <3>2, <3>3 DEF EventsInv, DoneInv
  <2> QED BY <2>1, <2>2 DEF DoneInv
<1>5. ASSUME NEW u \in Threads PROVE EventInv(u)'
  <2>1. CASE u # th
    BY <1>1, <1>2, <2>1, EventSame DEF EventsInv
  <2> QED BY <1>5, <2>1
<1> QED BY <1>3, <1>4, <1>5 DEF EventsInv

\* The steps before the push, and the push.
LEMMA EventsFill ==
    ASSUME Good, HolderInv', NEW th \in Threads,
           \/ \E p \in Packets : Take(th, p)
           \/ Prepare(th) \/ Push(th)
           \/ Fill(th) /\ th # EMT
    PROVE  EventsInv'
<1>1. TypeOK /\ LabelInv(th) /\ EmtInv /\ AloneInv /\ UserInv(th) /\ EventInv(th) /\ HolderInv /\ EventsInv
  BY DEF Good, HolderInv, TypeInv, EventsInv
<1>2. CASE \E p \in Packets : Take(th, p)
  <2>1. PICK p \in Packets : Take(th, p)
    BY <1>2
  <2>2. pc[th] = "take" /\ pkt[th] = Nil /\ pkt' = Set(pkt, th, p)
        /\ UNCHANGED <<reqs, batch, cur, mode>> /\ Queued' = Queued
    BY <1>1, <2>1 DEF Take, LabelInv, emtVars, callVars, Queued
  <2>3. state[p] \in {"FREE", "HEAP"} /\ \A u \in Threads : pkt[u] # p
    <3>1. CASE p \in pool
      BY <1>1, <3>1 DEF HolderInv, FreeInv
    <3>2. CASE state[p] = "HEAP"
      BY <1>1, <3>2, HasState
    <3> QED BY <2>1, <3>1, <3>2 DEF Take
  <2>4. pc[EMT] \in Work => cur \in Packets /\ cur # p
    BY <1>1, <2>3, CurIs DEF Work
  <2>5. PICK to \in {"prep", "fill"} :
          /\ Goto(th, to)
          /\ \A x \in Packets : x # p => UNCHANGED <<state[x], sem[x], semClear[x]>>
          /\ sem'[p] => sem[p] /\ ~semClear'[p] /\ to # "fill"
          /\ state'[p] \notin {"QUEUED", "PROCESSING"}
    <3>1. CASE Goto(th, "prep") /\ UNCHANGED pktVars
      BY <1>1, <2>3, <3>1 DEF pktVars, EventsInv, SemInv
    <3>2. CASE /\ Goto(th, "fill") /\ state' = Set(state, p, "ALLOCATED")
               /\ sem' = Set(sem, p, FALSE) /\ semClear' = Set(semClear, p, TRUE)
      BY <1>1, <3>2 DEF Set, TypeOK
    <3> QED BY <2>1, <3>1, <3>2 DEF Take
  <2>6. sem'[p] => ~semClear'[p] /\ p \notin Queued' /\ ~InWork(p)
    BY <1>1, <2>2, <2>5 DEF EventsInv, SemInv
  <2>7. EventInv(th)'
    BY <1>1, <2>2, <2>5, EmtIs DEF EventInv, Past, Goto, Set, TypeOK
  <2>8. th = EMT => pc[EMT] \notin Work /\ to \notin Work
    BY <2>2 DEF Work
  <2> QED BY <1>1, <2>2, <2>3, <2>4, <2>5, <2>6, <2>7, <2>8, EventsOwn
<1>3. CASE Prepare(th) \/ Push(th) \/ (Fill(th) /\ th # EMT)
  <2> SUFFICES ASSUME NEW p \in Packets, p = pkt[th] PROVE EventsInv'
    BY <1>1, <1>3 DEF LabelInv, Prepare, Push, Fill
  <2>1. /\ pc[th] \in {"prep", "fill", "push"} /\ pc[th] \notin Past /\ (pc[th] = "push" => th # EMT)
        /\ UNCHANGED <<pkt, batch, cur, mode>>
    BY <1>1, <1>3 DEF Prepare, Push, Fill, callVars, emtVars, Past, EmtInv, ProcessesOwn
  <2>2. /\ pc[EMT] \in Work => cur \in Packets /\ cur # p
        /\ \A u \in Threads : u # th => pkt[u] # p
    <3>1. th = EMT => pc[EMT] \notin Work
      BY <2>1 DEF Work
    <3> QED BY <1>1, <2>1, <3>1, OtherPkt, CurIs
  <2>3. ~InWork(p)
    BY <2>2 DEF InWork
  <2>4. /\ \A x \in Packets : x # p => UNCHANGED <<state[x], sem[x], semClear[x]>>
        /\ \A x \in Packets : x # p /\ x \in Queued' => x \in Queued
        /\ ~sem'[p]
    <3>1. CASE Prepare(th)
      <4>1. ~semClear[p] \/ ~sem[p]
        BY <1>1 DEF EventsInv, SemInv
      <4>2. Queued' = Queued
        BY <3>1 DEF Prepare, emtVars, Queued
      <4> QED BY <1>1, <3>1, <4>1, <4>2 DEF Prepare, MustReset, Set, TypeOK
    <3>2. CASE Fill(th)
      <4>1. Queued' = Queued /\ ~sem[p] /\ UNCHANGED <<sem, semClear>>
        BY <1>1, <3>2 DEF Fill, Queued, EventInv
      <4> QED BY <1>1, <3>2, <4>1 DEF Fill, Set, TypeOK
    <3>3. CASE Push(th)
      <4>1. Range(<<p>> \o reqs) = Range(reqs) \union {p}
        <5>1. p \notin Queued /\ reqs \in Seq(Packets) /\ IsInjective(reqs)
          BY <1>1, <2>1 DEF HolderInv, QueuedInv, TypeOK, ListInv
        <5>2. p \notin Range(reqs)
          BY <5>1 DEF Queued
        <5> QED BY <5>1, <5>2, PushIs
      <4>2. Queued' = Queued \union {p} /\ ~sem[p] /\ UNCHANGED <<state, sem, semClear>>
        BY <1>1, <3>3, <4>1 DEF Push, Queued, EventInv, pktVars, emtVars
      <4> QED BY <4>2
    <3> QED BY <1>3, <3>1, <3>2, <3>3
  <2>5. PICK to \in {"fill", "push", "setff"} : Goto(th, to)
    BY <1>1, <1>3 DEF Prepare, Push, Fill, ProcessesOwn
  <2>6. EventInv(th)'
    BY <1>1, <2>1, <2>4, <2>5 DEF EventInv, Past, Goto, TypeOK
  <2>7. th = EMT => pc[EMT] \notin Work /\ to \notin Work
    BY <2>1 DEF Work
  <2>8. pkt' = Set(pkt, th, p)
    BY <1>1, <2>1 DEF TypeOK, Set
  <2> QED BY <1>1, <2>1, <2>2, <2>3, <2>4, <2>5, <2>6, <2>7, <2>8, EventsOwn
<1> QED BY <1>2, <1>3

\* The steps with the event, and the end of a call; the first that polled is over then.
LEMMA EventsEnd ==
    ASSUME Good, HolderInv', FirstPoll', NEW th \in Threads,
           Wait(th) \/ Signalled(th) \/ Poll(th) \/ FreeOwn(th)
    PROVE  EventsInv'
<1>1. /\ TypeOK /\ LabelInv(th) /\ EmtInv /\ AloneInv /\ UserInv(th) /\ EventInv(th) /\ HolderInv
      /\ EventsInv /\ PollInv
  BY DEF Good, HolderInv, TypeInv, EventsInv
<1> SUFFICES ASSUME NEW p \in Packets, p = pkt[th] PROVE EventsInv'
  BY <1>1 DEF LabelInv, Wait, Signalled, Poll, FreeOwn, Past
<1>2. /\ pc[th] \in Past /\ (pc[th] # "got" => th # EMT) /\ pc[th] \notin Work
      /\ Queued' = Queued /\ UNCHANGED <<cur, mode>>
      /\ \A u \in Threads : u # th => pkt[u] # p
  BY <1>1, OtherPkt DEF Wait, Signalled, Poll, FreeOwn, emtVars, callVars, Past, Work, EmtInv,
     Queued
<1>3. pkt = Set(pkt, th, p)
  BY <1>1 DEF TypeOK, Set
<1>4. CASE Wait(th) \/ (Poll(th) /\ sem[p])
  <2>1. sem[p] /\ sem' = Set(sem, p, FALSE) /\ UNCHANGED <<state, semClear, pkt>>
    BY <1>4 DEF Wait, Poll
  <2>2. PICK to \in {"woken", "signalled"} : Goto(th, to)
    BY <1>4 DEF Wait, Poll
  <2>3. ~InWork(p) /\ state[p] = "COMPLETED" /\ (pc[EMT] \in Work => cur \in Packets /\ cur # p)
    BY <1>1, <1>2, <2>1 DEF EventsInv, SemInv, EventInv, EmtInv, InWork
  <2>4. ~sem'[p] /\ \A x \in Packets : x # p => UNCHANGED <<state[x], sem[x], semClear[x]>>
    BY <1>1, <2>1 DEF Set, TypeOK
  <2>5. pc'[th] = to /\ (pc[th] # "got" => pc'[EMT] = pc[EMT])
    BY <1>1, <1>2, <2>2, EmtIs DEF Goto, TypeOK
  <2>6. EventInv(th)'
    BY <1>2, <1>4, <2>1, <2>3, <2>4, <2>5 DEF EventInv, Past, InWork, Wait, Poll
  <2>7. th = EMT => pc[EMT] \notin Work /\ to \notin Work
    BY <1>2, <2>2 DEF Work
  <2> QED BY <1>1, <1>2, <1>3, <2>1, <2>2, <2>3, <2>4, <2>6, <2>7, EventsOwn
<1>5. CASE Poll(th) /\ ~sem[p]
  <2>1. sem' = sem /\ Goto(th, "timeout") /\ UNCHANGED <<state, semClear, pkt, reqs, batch>>
    BY <1>1, <1>5 DEF Poll, Set, TypeOK, emtVars
  <2>2. EventInv(th)'
    BY <1>1, <1>5, <2>1 DEF EventInv, Past, Goto, TypeOK
  <2>3. th # EMT
    BY <1>2, <1>5 DEF Poll
  <2> QED BY <1>1, <1>2, <2>1, <2>2, <2>3, EventsGoOn
<1>6. CASE Signalled(th)
  <2>1. /\ semClear' = Set(semClear, p, TRUE) /\ UNCHANGED <<state, sem, pkt>> /\ Goto(th, "got")
        /\ pc[th] = "signalled"
    BY <1>6 DEF Signalled
  <2>2. ~InWork(p) /\ state[p] = "COMPLETED" /\ ~sem[p]
        /\ (pc[EMT] \in Work => cur \in Packets /\ cur # p)
    BY <1>1, <2>1 DEF EventInv, EmtInv, InWork
  <2>3. ~sem'[p] /\ \A x \in Packets : x # p => UNCHANGED <<state[x], sem[x], semClear[x]>>
    BY <1>1, <2>1, <2>2 DEF Set, TypeOK
  <2>4. pc'[th] = "got" /\ pc'[EMT] = pc[EMT]
    BY <1>1, <1>2, <2>1, EmtIs DEF Goto, TypeOK
  <2>5. EventInv(th)'
    BY <1>2, <2>1, <2>2, <2>3, <2>4 DEF EventInv, InWork
  <2>6. th # EMT
    BY <1>2, <2>1
  <2> QED BY <1>1, <1>2, <1>3, <2>1, <2>2, <2>3, <2>5, <2>6, EventsOwn
<1>7. CASE FreeOwn(th)
  <2>1. pc[th] = "got" /\ Free(p) /\ Return(th) /\ UNCHANGED <<sem, semClear>>
    BY <1>1, <1>7 DEF FreeOwn, AloneInv
  <2>2. state[p] = "COMPLETED" /\ (mode[th] = "wait" => ~InWork(p))
    BY <1>1, <2>1 DEF EventInv
  <2>3. Goto(th, Idle(th)) /\ pkt' = Set(pkt, th, Nil) /\ pc'[th] = Idle(th)
    BY <1>1, <2>1 DEF Return, Goto, TypeOK
  <2>4. mode[th] = "wait"
    <3>1. SUFFICES ASSUME mode[th] = "poll" PROVE FALSE
      BY <1>1 DEF AloneInv, TypeOK, AllModes
    <3>2. polls' = polls
      BY <1>7 DEF FreeOwn, callVars
    <3>3. PICK u \in Threads : polls' = 1 /\ mode'[u] = "poll" /\ pc'[u] # "idle"
      BY <1>1, <3>1, <3>2 DEF FirstPoll, PollInv
    <3>4. u = th
      BY <1>1, <1>2, <3>1, <3>2, <3>3 DEF PollInv
    <3>5. th # EMT
      BY <1>1, <3>1 DEF EmtInv
    <3> QED BY <2>3, <3>3, <3>4, <3>5 DEF Idle
  <2>5. pc[EMT] \in Work => cur \in Packets /\ cur # p
    BY <1>1, <2>2, <2>4 DEF EmtInv, InWork
  <2>6. /\ state'[p] \notin {"QUEUED", "PROCESSING"}
        /\ \A x \in Packets : x # p => UNCHANGED <<state[x], sem[x], semClear[x]>>
    BY <1>1, <2>1, <2>2 DEF Free, Set, TypeOK
  <2>7. sem'[p] => ~semClear'[p] /\ p \notin Queued' /\ ~InWork(p)
    BY <1>1, <1>2, <2>1 DEF EventsInv, SemInv
  <2>8. EventInv(th)'
    BY <2>3 DEF EventInv, Idle, Past
  <2>9. th = EMT => pc[EMT] \notin Work /\ Idle(th) \notin Work
    BY <1>2 DEF Work, Idle
  <2> QED BY <1>1, <1>2, <2>3, <2>5, <2>6, <2>7, <2>8, <2>9, EventsOwn
<1> QED BY <1>4, <1>5, <1>6, <1>7

\* EMT's steps to a packet of its own, or of its lists, or to none.
LEMMA EventsNext ==
    ASSUME HolderInv, HolderInv', EventsInv,
           NEW to \in {"begin", "got", "clear", "top", "xchg", "check", "setwait", "recheck", "unwait",
                      "blocked"}, Goto(EMT, to),
           UNCHANGED <<state, sem, semClear, pkt, mode>>, Queued' \subseteq Queued,
           to = "begin" => cur' \in Queued,
           to = "got" => state[pkt[EMT]] = "COMPLETED"
    PROVE  EventsInv'
<1> USE EmtIs
<1>1. TypeOK /\ EmtInv
  BY DEF HolderInv, TypeInv
<1>2. pc'[EMT] = to /\ \A u \in Threads : u # EMT => pc'[u] = pc[u]
  BY <1>1 DEF TypeOK, Goto
<1>3. \A x \in Packets : InWork(x)' => x \in Queued /\ state[x] = "QUEUED" /\ ~sem[x]
  BY <1>2 DEF InWork, EventsInv, SemInv, HolderInv, QueuedInv, Work
<1>4. SemInv'
  BY <1>3 DEF EventsInv, SemInv
<1>5. DoneInv'
  <2>1. pc'[EMT] \notin {"completed", "mark", "signal"}
    BY <1>2
  <2> QED BY <2>1 DEF EventsInv, DoneInv
<1>6. ASSUME NEW u \in Threads PROVE EventInv(u)'
  <2>1. LabelInv(u) /\ LabelInv(u)' /\ EventInv(u)
    BY DEF HolderInv, TypeInv, EventsInv
  <2>2. CASE u # EMT /\ pkt[u] \in Packets
    BY <1>2, <1>3, <2>1, <2>2 DEF EventInv, InWork
  <2>3. CASE u # EMT /\ pkt[u] \notin Packets
    BY <1>2, <2>1, <2>3 DEF LabelInv, EventInv, Past
  <2>4. CASE u = EMT
    <3>1. pc'[EMT] \notin {"fill", "push"} \union (Past \ {"got"})
      BY <1>2 DEF Past
    <3>2. pc'[EMT] = "got" => ~InWork(pkt[EMT])' /\ state'[pkt'[EMT]] = "COMPLETED"
      BY <1>2 DEF InWork, Work
    <3> QED BY <2>4, <3>1, <3>2 DEF EventInv, Past
  <2> QED BY <2>2, <2>3, <2>4
<1> QED BY <1>4, <1>5, <1>6 DEF EventsInv

\* EMT with the packet at hand: it is executed, its flags are read, its event is marked.
LEMMA EventsWork ==
    ASSUME HolderInv, HolderInv', EventsInv, Begin \/ Complete \/ CheckNoWait \/ MarkSem
    PROVE  EventsInv'
<1> USE EmtIs
<1>1. TypeOK /\ EmtInv /\ cur \in Packets /\ pc[EMT] \in Work /\ AloneInv
  BY DEF HolderInv, TypeInv, EmtInv, Begin, Complete, CheckNoWait, MarkSem, Work
<1>2. /\ cur \notin Queued /\ ~sem[cur]
      /\ pc[EMT] \notin {"begin", "execute"} => state[cur] = "COMPLETED"
      /\ \A th \in Threads : pkt[th] = cur => th = EMT \/ pc[th] \in Past \ {"woken", "signalled"}
  BY <1>1, CurIs
<1>3. /\ UNCHANGED <<sem, cur, pkt, mode, reqs, batch>> /\ Queued' = Queued
      /\ \A x \in Packets : x # cur => UNCHANGED <<state[x], semClear[x]>>
  BY <1>1 DEF Begin, Complete, CheckNoWait, MarkSem, pktVars, emtVars, callVars, Queued, TypeOK, Set
<1>4. /\ pc'[EMT] \in Work \ {"begin", "freeit"} /\ \A u \in Threads : u # EMT => pc'[u] = pc[u]
      /\ pc'[EMT] = "execute" => state'[cur] = "PROCESSING" /\ pc[EMT] = "begin"
      /\ pc'[EMT] # "execute" => state'[cur] = "COMPLETED"
      /\ pc'[EMT] = "signal" => ~semClear'[cur]
      /\ pc[EMT] \notin {"begin", "execute"} => UNCHANGED state
  BY <1>1, <1>2 DEF Begin, Complete, CheckNoWait, MarkSem, Goto, Set, TypeOK, pktVars, Work,
     FreesIt,
     AloneInv
<1>5. \A x : InWork(x)' <=> InWork(x)
  BY <1>1, <1>3, <1>4 DEF InWork
<1>6. SemInv'
  BY <1>2, <1>3, <1>5 DEF EventsInv, SemInv
<1>7. \E th \in Threads : pkt[th] = cur
  BY <1>1 DEF EventsInv, DoneInv, HolderInv, WorkInv, AloneInv, Work
<1>8. DoneInv'
  <2>1. \A x \in Packets : state'[x] \in {"QUEUED", "PROCESSING"} => \E u \in Threads : pkt'[u] = x
    BY <1>3, <1>7 DEF EventsInv, DoneInv
  <2> QED BY <1>3, <1>4, <1>7, <2>1 DEF DoneInv
<1>9. ASSUME NEW u \in Threads PROVE EventInv(u)'
  <2>1. EventInv(u) /\ pkt[u] \in Packets \union {Nil}
    BY <1>1 DEF EventsInv, TypeOK
  <2>2. CASE u = EMT
    BY <1>4, <2>2 DEF EventInv, Past, Work
  <2>3. CASE u # EMT /\ pkt[u] # cur
    BY <1>3, <1>4, <1>5, <2>1, <2>3, EventSame
  <2>4. CASE u # EMT /\ pkt[u] = cur
    <3>1. pc[u] = "got" => state[cur] = "COMPLETED" /\ pc[EMT] \notin {"begin", "execute"}
      BY <1>2, <2>1, <2>4, <1>1 DEF EventInv, HolderInv, WorkInv
    <3>2. pc[u] \in Past \ {"woken", "signalled"}
      BY <1>2, <2>4
    <3> QED BY <1>2, <1>3, <1>4, <1>5, <2>1, <2>4, <3>1, <3>2 DEF EventInv, Past
  <2> QED BY <2>2, <2>3, <2>4
<1> QED BY <1>6, <1>8, <1>9 DEF EventsInv

\* EMT signals the event and turns to the next request.
LEMMA EventsSignal ==
    ASSUME HolderInv, HolderInv', EventsInv, Signal
    PROVE  EventsInv'
<1> USE EmtIs
<1>1. /\ TypeOK /\ EmtInv /\ AloneInv /\ cur \in Packets /\ pc[EMT] = "signal" /\ pc[EMT] \in Work
      /\ LabelInv(EMT)
  BY DEF HolderInv, TypeInv, EmtInv, Signal, Work
<1>2. /\ cur \notin Queued /\ ~sem[cur] /\ state[cur] = "COMPLETED" /\ ~semClear[cur]
      /\ \A th \in Threads : pkt[th] = cur => th = EMT \/ pc[th] \in Past \ {"woken", "signalled"}
  BY <1>1, CurIs DEF EventsInv, DoneInv
<1>3. /\ UNCHANGED <<state, semClear, pkt, mode, reqs>> /\ NextOne
      /\ sem'[cur] /\ \A x \in Packets : x # cur => sem'[x] = sem[x]
  BY <1>1 DEF Signal, callVars, Set, TypeOK
<1>4. /\ \A u \in Threads : u # EMT => pc'[u] = pc[u]
      /\ pc'[EMT] \in {"got", "clear", "begin"}
      /\ pc'[EMT] = "begin" => cur' \in Queued
      /\ pc'[EMT] = "got" => pkt[EMT] = cur
      /\ Queued' \subseteq Queued
  <2>1. CASE pkt[EMT] # Nil \/ batch = <<>>
    BY <1>1, <1>3, <2>1 DEF NextOne, Goto, TypeOK, Queued, EmtInv
  <2>2. CASE pkt[EMT] = Nil /\ batch # <<>>
    <3>1. batch \in Seq(Packets) /\ IsInjective(batch)
      BY <1>1 DEF TypeOK, HolderInv, ListInv
    <3>2. Head(batch) \in Range(batch) /\ Range(Tail(batch)) \subseteq Range(batch)
      BY <2>2, <3>1, RestIs
    <3> QED BY <1>1, <1>3, <2>2, <3>2 DEF NextOne, Goto, TypeOK, Queued
  <2> QED BY <2>1, <2>2
<1>5. \A x \in Packets : InWork(x)' => x \in Queued /\ state[x] = "QUEUED" /\ ~sem[x] /\ x # cur
  BY <1>2, <1>4 DEF InWork, EventsInv, SemInv, HolderInv, QueuedInv, Work
<1>6. SemInv'
  BY <1>2, <1>3, <1>4, <1>5 DEF EventsInv, SemInv
<1>7. DoneInv'
  BY <1>3, <1>4 DEF EventsInv, DoneInv
<1>8. ASSUME NEW u \in Threads PROVE EventInv(u)'
  <2>1. EventInv(u) /\ LabelInv(u) /\ pkt[u] \in Packets \union {Nil}
    BY <1>1 DEF EventsInv, TypeOK, HolderInv, TypeInv
  <2>2. CASE u = EMT
    BY <1>1, <1>2, <1>3, <1>4, <1>5, <2>2 DEF EventInv, Past
  <2>3. CASE u # EMT /\ pkt[u] = cur
    BY <1>1, <1>2, <1>3, <1>4, <1>5, <2>1, <2>3 DEF EventInv, Past
  <2>4. CASE u # EMT /\ pkt[u] \in Packets /\ pkt[u] # cur
    BY <1>3, <1>4, <1>5, <2>1, <2>4 DEF EventInv
  <2>5. CASE u # EMT /\ pkt[u] \notin Packets
    BY <1>3, <1>4, <2>1, <2>5 DEF LabelInv, EventInv, Past
  <2> QED BY <2>1, <2>2, <2>3, <2>4, <2>5
<1> QED BY <1>6, <1>7, <1>8 DEF EventsInv

\* EMT turns to its own packet.
LEMMA EventsInline ==
    ASSUME HolderInv, HolderInv', EventsInv, Fill(EMT)
    PROVE  EventsInv'
<1> USE EmtIs
<1>1. /\ TypeOK /\ EmtInv /\ AloneInv /\ LabelInv(EMT) /\ EventInv(EMT) /\ UserInv(EMT)
  BY DEF HolderInv, TypeInv, EventsInv
<1> SUFFICES ASSUME NEW p \in Packets, p = pkt[EMT] PROVE EventsInv'
  BY <1>1 DEF LabelInv, Fill
<1>2. /\ pc[EMT] = "fill" /\ cur' = p /\ UNCHANGED <<sem, semClear, pkt, mode>> /\ Queued' = Queued
      /\ ~sem[p] /\ \A u \in Threads : u # EMT => pkt[u] # p
  BY <1>1, OtherPkt DEF Fill, callVars, Queued, EventInv, ProcessesOwn
<1>3. /\ pc'[EMT] = "begin" /\ \A u \in Threads : u # EMT => pc'[u] = pc[u]
      /\ state'[p] = "QUEUED" /\ \A x \in Packets : x # p => state'[x] = state[x]
  BY <1>1 DEF Fill, Goto, Set, TypeOK, ProcessesOwn
<1>4. \A x : InWork(x)' => x = p
  BY <1>2 DEF InWork
<1>5. SemInv'
  BY <1>2, <1>4 DEF EventsInv, SemInv
<1>6. DoneInv'
  BY <1>2, <1>3 DEF EventsInv, DoneInv
<1>7. ASSUME NEW u \in Threads PROVE EventInv(u)'
  <2>1. EventInv(u) /\ LabelInv(u)
    BY DEF EventsInv, HolderInv, TypeInv
  <2>2. CASE u = EMT
    BY <1>3, <2>2 DEF EventInv, Past
  <2>3. CASE u # EMT /\ pkt[u] \in Packets
    BY <1>2, <1>3, <1>4, <2>1, <2>3 DEF EventInv
  <2>4. CASE u # EMT /\ pkt[u] \notin Packets
    BY <1>2, <1>3, <2>1, <2>4 DEF LabelInv, EventInv, Past
  <2> QED BY <2>2, <2>3, <2>4
<1> QED BY <1>5, <1>6, <1>7 DEF EventsInv

\* The steps of EMT.
LEMMA EventsEmt ==
    ASSUME HolderInv, HolderInv', EventsInv, EmtStep \/ WaitTimeout
    PROVE  EventsInv'
<1> USE EmtIs
<1>1. TypeOK /\ AloneInv
  BY DEF HolderInv, TypeInv
<1>2. CASE Begin \/ Complete \/ CheckNoWait \/ MarkSem
  BY <1>2, EventsWork
<1>3. CASE Signal
  BY <1>3, EventsSignal
<1>4. CASE FreeForOther
  BY <1>1, <1>4 DEF FreeForOther, AloneInv
<1>5. CASE ClearFF \/ Top \/ WaitCheck \/ SetWait \/ Recheck \/ WakeUp \/ Unwait \/ WaitTimeout
  <2>1. UNCHANGED <<state, sem, semClear, pkt, mode>> /\ Queued' = Queued
    BY <1>5 DEF ClearFF, Top, WaitCheck, SetWait, Recheck, WakeUp, Unwait, WaitTimeout, pktVars,
       callVars,
       emtVars, Queued
  <2>2. PICK to \in {"xchg", "clear", "check", "top", "setwait", "recheck", "unwait", "blocked"} :
              Goto(EMT, to)
    BY <1>5 DEF ClearFF, Top, WaitCheck, SetWait, Recheck, WakeUp, Unwait, WaitTimeout
  <2> QED BY <2>1, <2>2, EventsNext
<1>6. CASE TakeAll
  <2>1. UNCHANGED <<state, sem, semClear, pkt, mode>> /\ reqs' = <<>> /\ Range(reqs') = {}
    BY <1>6 DEF TakeAll, Left, pktVars, callVars, Range
  <2>2. CASE reqs = <<>>
    <3>1. Goto(EMT, "top") /\ Queued' \subseteq Queued
      BY <1>6, <2>1, <2>2 DEF TakeAll, emtVars, Queued
    <3> QED BY <2>1, <3>1, EventsNext
  <2>3. CASE reqs # <<>>
    <3>1. Goto(EMT, "begin") /\ cur' = Head(Reverse(reqs)) /\ batch' = Tail(Reverse(reqs))
      BY <1>6, <2>3 DEF TakeAll, InOrder
    <3>2. /\ reqs \in Seq(Packets) /\ IsInjective(reqs)
          /\ Reverse(reqs) \in Seq(Packets) /\ IsInjective(Reverse(reqs))
          /\ Len(Reverse(reqs)) = Len(reqs) /\ Range(Reverse(reqs)) = Range(reqs)
      BY <1>1, ReverseIs DEF TypeOK, HolderInv, ListInv
    <3>3. Reverse(reqs) # <<>>
      <4>1. \A u \in Seq(Packets) : u = <<>> <=> Len(u) = 0
        OBVIOUS
      <4> QED BY <2>3, <3>2, <4>1
    <3>4. cur' \in Range(reqs) /\ Range(batch') \subseteq Range(reqs)
      BY <3>1, <3>2, <3>3, RestIs
    <3>5. cur' \in Queued /\ Queued' \subseteq Queued
      BY <2>1, <3>4 DEF Queued
    <3> QED BY <2>1, <3>1, <3>5, EventsNext
  <2> QED BY <2>2, <2>3
<1> QED BY <1>2, <1>3, <1>4, <1>5, <1>6 DEF EmtStep

\* There is no second first poll.
LEMMA PollStep ==
    ASSUME HolderInv, PollInv, [Next]_vars
    PROVE  PollInv' /\ (FirstPoll' => FirstPoll)
<1>1. TypeOK /\ polls \in Nat
  BY DEF HolderInv, TypeInv, TypeOK
<1>2. ASSUME NEW th \in Threads, NEW m \in Modes, Call(th, m) PROVE PollInv' /\ (FirstPoll' => FirstPoll)
  <2>1. /\ mode'[th] = m /\ \A u \in Threads : u # th => mode'[u] = mode[u] /\ pc'[u] = pc[u]
        /\ polls' = IF m = "poll" THEN polls + 1 ELSE polls
    BY <1>1, <1>2, RequestAssumption DEF Call, TypeOK, Goto, Set
  <2>2. CASE m = "poll" /\ polls = 0
    <3>1. polls = 0 /\ polls' = 1
      BY <2>1, <2>2
    <3> QED BY <2>1, <3>1 DEF PollInv, FirstPoll
  <2>3. CASE m = "poll" /\ polls # 0
    <3>1. polls' # 0 /\ polls' # 1
      BY <1>1, <2>1, <2>3
    <3> QED BY <3>1 DEF PollInv, FirstPoll
  <2>4. CASE m # "poll"
    BY <2>1, <2>4 DEF PollInv, FirstPoll
  <2> QED BY <2>2, <2>3, <2>4
<1>3. CASE UNCHANGED <<mode, polls>> /\ \A u \in Threads : pc[u] = "idle" => pc'[u] = "idle"
  BY <1>3 DEF PollInv, FirstPoll
<1>4. ASSUME NEW th \in Threads, CallStep(th) PROVE PollInv' /\ (FirstPoll' => FirstPoll)
  <2>1. UNCHANGED <<mode, polls>>
    BY <1>4 DEF CallStep, Take, Prepare, Fill, Push, SetFF, Notify, ReadFlags, EnterWait, Wait,
       Woken,
       Signalled, Poll, PollTimeout, FreeOwn, callVars
  <2>2. pc[th] # "idle" /\ \E to : Goto(th, to)
    BY <1>4 DEF CallStep, Take, Prepare, Fill, Push, SetFF, Notify, ReadFlags, EnterWait, Wait,
       Woken,
       Signalled, Poll, PollTimeout, FreeOwn, Return, ProcessesOwn
  <2>3. \A u \in Threads : u # th => pc'[u] = pc[u]
    BY <1>1, <2>2 DEF Goto, TypeOK
  <2> QED BY <1>3, <2>1, <2>2, <2>3
<1>5. CASE EmtStep \/ WaitTimeout
  <2>1. UNCHANGED <<mode, polls>>
    BY <1>5 DEF EmtStep, WaitTimeout, ClearFF, TakeAll, Begin, Complete, CheckNoWait,
       FreeForOther, MarkSem,
       Signal, Top, WaitCheck, SetWait, Recheck, WakeUp, Unwait, callVars
  <2>2. pc[EMT] # "idle" /\ \E to : Goto(EMT, to)
    BY <1>5 DEF EmtStep, WaitTimeout, ClearFF, TakeAll, Begin, Complete, CheckNoWait,
       FreeForOther, MarkSem,
       Signal, Top, WaitCheck, SetWait, Recheck, WakeUp, Unwait, NextOne
  <2>3. \A u \in Threads : u # EMT => pc'[u] = pc[u]
    BY <1>1, <2>2 DEF Goto, TypeOK
  <2> QED BY <1>3, <2>1, <2>2, <2>3
<1>6. CASE UNCHANGED vars
  BY <1>3, <1>6 DEF vars, callVars
<1> QED BY <1>2, <1>4, <1>5, <1>6 DEF Next

\* Without VMREQFLAGS_NO_WAIT, and up to the end of the first call that polls, the event of
\* a packet is signalled only between its execution and its wait.
LEMMA ReqAlways == "noWait" \notin Modes => (Spec => []ReqInv)
<1> SUFFICES ASSUME "noWait" \notin Modes PROVE Spec => []ReqInv
  OBVIOUS
<1>1. Init /\ HolderInv => ReqInv
  <2> SUFFICES ASSUME Init, HolderInv PROVE ReqInv
    OBVIOUS
  <2>1. PollInv
    BY DEF Init, PollInv
  <2>2. SemInv /\ DoneInv
    BY EmtIs DEF Init, SemInv, DoneInv, Idle
  <2>3. \A th \in Threads : EventInv(th)
    BY DEF Init, EventInv, Idle, Past
  <2> QED BY <2>1, <2>2, <2>3 DEF ReqInv, EventsInv
<1>2. ReqInv /\ HolderInv' /\ [Next]_vars => ReqInv'
  <2> SUFFICES ASSUME ReqInv, HolderInv', [Next]_vars PROVE ReqInv'
    OBVIOUS
  <2>1. HolderInv /\ PollInv' /\ (FirstPoll' => FirstPoll)
    BY PollStep DEF ReqInv
  <2> SUFFICES ASSUME FirstPoll' PROVE EventsInv'
    BY <2>1 DEF ReqInv
  <2>2. Good /\ EventsInv
    BY <2>1 DEF ReqInv, Good
  <2>3. ASSUME NEW th \in Threads, (\E m \in Modes : Call(th, m)) \/ CallStep(th) PROVE EventsInv'
    <3>1. CASE Wait(th) \/ Signalled(th) \/ Poll(th) \/ FreeOwn(th)
      BY <2>2, <3>1, EventsEnd
    <3>2. CASE \/ \E p \in Packets : Take(th, p)
               \/ Prepare(th) \/ Push(th)
               \/ Fill(th) /\ th # EMT
      BY <2>2, <3>2, EventsFill
    <3>3. CASE Fill(th) /\ th = EMT
      BY <2>1, <2>2, <3>3, EventsInline
    <3>4. CASE \/ \E m \in Modes : Call(th, m)
               \/ SetFF(th) \/ Notify(th) \/ ReadFlags(th) \/ EnterWait(th) \/ Woken(th)
               \/ PollTimeout(th)
      BY <2>2, <3>4, EventsCall
    <3> QED BY <2>3, <3>1, <3>2, <3>3, <3>4 DEF CallStep
  <2>4. CASE UNCHANGED vars
    <3>1. UNCHANGED <<state, sem, semClear, reqs, batch, cur, pkt, mode, pc>>
      BY <2>4 DEF vars, pktVars, callVars, emtVars
    <3> QED BY <2>2, <3>1 DEF EventsInv, SemInv, DoneInv, EventInv, InWork, Queued
  <2> QED BY <2>1, <2>2, <2>3, <2>4, EventsEmt DEF Next
<1> QED BY <1>1, <1>2, HolderAlways, PTL DEF Spec

----------------------------------------------------------------------------
(* What is promised *)

\* VMReq!OneHolder: when no caller gives its packet away with VMREQFLAGS_NO_WAIT, a packet
\* is free, or queued once, or EMT's current one, and no two threads have it, for any
\* number of packets, of callers and of calls, whatever the length of the free lists, with
\* requests of EMT's own and with callers that poll.
THEOREM OneHolderAlways == "noWait" \notin Modes => (Spec => []OneHolder)
<1> SUFFICES ASSUME "noWait" \notin Modes PROVE Spec => []OneHolder
  OBVIOUS
<1>1. ReqInv => OneHolder
  <2> SUFFICES ASSUME ReqInv PROVE OneHolder
    OBVIOUS
  <2>1. HolderInv /\ ListInv /\ AloneInv /\ FreeInv /\ QueuedInv /\ WorkInv /\ TypeOK /\ EmtInv
    BY DEF ReqInv, HolderInv, TypeInv
  <2>2. /\ \A p \in pool : p \in Packets /\ state[p] = "FREE" /\ \A th \in Threads : pkt[th] # p
        /\ \A p \in Queued : p \in Packets /\ state[p] = "QUEUED"
    BY <2>1 DEF FreeInv, QueuedInv, Queued, Range, TypeOK
  <2>3. \A p \in Packets : p \in AtWork => p \notin Queued /\ p \notin pool
    <3>1. CASE pc[EMT] \in {"begin", "execute"}
      <4>1. cur \notin Queued /\ state[cur] \in {"QUEUED", "PROCESSING"}
        BY <2>1, <3>1 DEF WorkInv
      <4> QED BY <2>2, <3>1, <4>1 DEF AtWork
    <3>2. CASE polls = 0 /\ pc[EMT] \in Work
      <4>1. EventsInv
        BY <3>2 DEF ReqInv, FirstPoll
      <4>2. cur \notin Queued /\ state[cur] # "FREE"
        BY <2>1, <3>2, <4>1, CurIs DEF Work
      <4> QED BY <2>2, <3>2, <4>2 DEF AtWork
    <3>3. CASE pc[EMT] \notin Work
      BY <2>1, <3>3, EmtIs DEF EmtInv, AtWork
    <3>4. CASE polls # 0 /\ pc[EMT] \notin {"begin", "execute"}
      BY <3>4 DEF AtWork
    <3> QED BY <3>1, <3>2, <3>3, <3>4
  <2>4. AtWork \cap (Range(reqs) \union Range(batch)) = {}
    BY <2>2, <2>3 DEF Queued
  <2>5. \A p \in pool : p \notin Range(reqs) \union Range(batch) \union AtWork
    BY <2>2, <2>3 DEF Queued
  <2>6. \A p \in pool : \A th \in Threads : ~Uses(th, p)
    BY <2>2 DEF Uses
  <2>7. \A p \in Packets : \A t1, t2 \in Threads : Uses(t1, p) /\ Uses(t2, p) => t1 = t2
    BY <2>1 DEF Uses, AloneInv
  <2> QED BY <2>1, <2>2, <2>4, <2>5, <2>6, <2>7 DEF OneHolder, ListInv
<1> QED BY <1>1, ReqAlways, PTL

\* VMReq!SuccessIsCompletion: with at most one call that polls, and none with
\* VMREQFLAGS_NO_WAIT, VMR3ReqWait reports success of completed requests only.  A caller
\* that waits without a timeout needs no such bound: UserInv.
THEOREM SuccessAlways ==
    "noWait" \notin Modes /\ MaxPolls <= 1 => (Spec => []SuccessIsCompletion)
<1> SUFFICES ASSUME "noWait" \notin Modes, MaxPolls <= 1 PROVE Spec => []SuccessIsCompletion
  OBVIOUS
<1>1. ReqInv => SuccessIsCompletion
  <2> SUFFICES ASSUME ReqInv, NEW th \in Threads, pc[th] = "got" PROVE state[pkt[th]] = "COMPLETED"
    BY DEF SuccessIsCompletion
  <2>1. /\ mode[th] \in {"wait", "poll"} /\ polls \in 0 .. MaxPolls /\ MaxPolls \in Nat
        /\ UserInv(th) /\ PollInv
    BY RequestAssumption DEF ReqInv, HolderInv, TypeInv, TypeOK, AloneInv, AllModes
  <2>2. CASE mode[th] = "wait"
    BY <2>1, <2>2 DEF UserInv
  <2>3. CASE mode[th] = "poll"
    <3>1. polls = 1
      BY <2>1, <2>3 DEF PollInv
    <3>2. FirstPoll
      BY <2>3, <3>1 DEF FirstPoll
    <3> QED BY <3>2 DEF ReqInv, EventsInv, EventInv
  <2> QED BY <2>1, <2>2, <2>3
<1> QED BY <1>1, ReqAlways, PTL


----------------------------------------------------------------------------
(* The refinement of RequestService *)

\* A request that is not completed has its caller still, also after the call that polled.
OwnedInv == \A p \in Packets : state[p] \in {"QUEUED", "PROCESSING"} => \E th \in Threads : pkt[th] = p

\* EMT has no batch but while it works on one.
BatchInv == pkt[EMT] # Nil \/ pc[EMT] \notin Work => batch = <<>>

RefInv == HolderInv /\ SuccessIsCompletion /\ OwnedInv /\ BatchInv

\* A thread that keeps its packet still owns it, one that returns had it completed.
LEMMA ReturnsDone ==
    ASSUME RefInv, NEW th \in Threads, pc[th] \in {"flags", "enter", "timeout", "got"},
           ReadFlags(th) \/ EnterWait(th) \/ PollTimeout(th) \/ FreeOwn(th)
    PROVE  /\ pkt[th] \in Packets /\ noWait[pkt[th]] = FALSE /\ mode[th] # "noWait"
           /\ \/ UNCHANGED <<state, pool, pkt>> /\ ~FreeOwn(th)
              \/ FreeOwn(th) /\ Free(pkt[th]) /\ Return(th) /\ state[pkt[th]] = "COMPLETED"
<1>1. /\ LabelInv(th) /\ UserInv(th) /\ AloneInv /\ TypeOK
  BY DEF RefInv, HolderInv, TypeInv
<1>2. pkt[th] \in Packets /\ noWait[pkt[th]] = FALSE /\ mode[th] \in {"wait", "poll"}
  BY <1>1 DEF LabelInv, Past, AloneInv, TypeOK, AllModes
<1>3. CASE ReadFlags(th)
  BY <1>2, <1>3 DEF ReadFlags, FreeOwn, pktVars
<1>4. CASE EnterWait(th)
  BY <1>1, <1>2, <1>4 DEF EnterWait, UserInv, Past, FreeOwn
<1>5. CASE PollTimeout(th)
  <2>1. mode[th] = "poll"
    BY <1>1, <1>2, <1>5 DEF PollTimeout, UserInv
  <2> QED BY <1>2, <1>5, <2>1 DEF PollTimeout, FreeOwn, pktVars
<1>6. CASE FreeOwn(th)
  <2>1. state[pkt[th]] = "COMPLETED"
    BY <1>2, <1>6 DEF FreeOwn, RefInv, SuccessIsCompletion
  <2> QED BY <1>2, <1>6, <2>1 DEF FreeOwn
<1> QED BY <1>3, <1>4, <1>5, <1>6

\* Nobody loses a packet that is not completed.
LEMMA PktKept ==
    ASSUME RefInv, [Next]_vars, NEW t \in Threads, NEW p \in Packets, pkt[t] = p, state[p] # "COMPLETED"
    PROVE  pkt'[t] = p
<1>1. \A th \in Threads : LabelInv(th)
  BY DEF RefInv, HolderInv, TypeInv
<1>2. ASSUME NEW th \in Threads, (\E m \in Modes : Call(th, m)) \/ CallStep(th) PROVE pkt'[t] = p
  <2>1. CASE \E q \in Packets : Take(th, q)
    <3>1. PICK q \in Packets : Take(th, q)
      BY <2>1
    <3>2. pkt[th] = Nil /\ p # Nil
      BY <1>1, <3>1, EmtIs DEF LabelInv, Take
    <3> QED BY <3>1, <3>2 DEF Take, Set
  <2>2. CASE ReadFlags(th) \/ EnterWait(th) \/ PollTimeout(th) \/ FreeOwn(th)
    <3>1. pc[th] \in {"flags", "enter", "timeout", "got"}
      BY <2>2 DEF ReadFlags, EnterWait, PollTimeout, FreeOwn
    <3>2. UNCHANGED pkt \/ (Return(th) /\ state[pkt[th]] = "COMPLETED")
      BY <2>2, <3>1, ReturnsDone
    <3>3. state[pkt[th]] = "COMPLETED" => th # t
      OBVIOUS
    <3>4. pkt \in [Threads -> Packets \union {Nil}]
      BY DEF RefInv, HolderInv, TypeInv, TypeOK
    <3> QED BY <3>2, <3>3, <3>4 DEF Return, Set
  <2>3. CASE \/ \E m \in Modes : Call(th, m)
             \/ Prepare(th) \/ Fill(th) \/ Push(th) \/ SetFF(th) \/ Notify(th)
             \/ Wait(th) \/ Woken(th) \/ Signalled(th) \/ Poll(th)
    BY <2>3 DEF Call, Prepare, Fill, Push, SetFF, Notify, Wait, Woken, Signalled, Poll
  <2> QED BY <1>2, <2>1, <2>2, <2>3 DEF CallStep
<1>3. EmtStep \/ WaitTimeout => pkt' = pkt
  BY DEF EmtStep, WaitTimeout, ClearFF, TakeAll, Begin, Complete, CheckNoWait, FreeForOther,
     MarkSem, Signal, Top, WaitCheck, SetWait, Recheck, WakeUp, Unwait
<1>4. UNCHANGED vars => pkt' = pkt
  BY DEF vars
<1> QED BY <1>2, <1>3, <1>4 DEF Next

\* What becomes QUEUED or PROCESSING has a caller.
LEMMA OwnedSource ==
    ASSUME RefInv, [Next]_vars, NEW p \in Packets, state'[p] \in {"QUEUED", "PROCESSING"}
    PROVE  state[p] # "COMPLETED" /\ \E t \in Threads : pkt[t] = p
<1>0. /\ TypeOK /\ EmtInv /\ WorkInv /\ AloneInv /\ OwnedInv
      /\ \A th \in Threads : LabelInv(th) /\ UserInv(th)
  BY DEF RefInv, HolderInv, TypeInv
<1>1. ASSUME state'[p] = state[p] PROVE state[p] # "COMPLETED" /\ \E t \in Threads : pkt[t] = p
  BY <1>0, <1>1 DEF OwnedInv
<1>2. ASSUME NEW q \in Packets, Free(q) PROVE state'[p] = state[p]
  BY <1>0, <1>2 DEF Free, Set, TypeOK
<1>3. ASSUME NEW th \in Threads, (\E m \in Modes : Call(th, m)) \/ CallStep(th)
      PROVE  state'[p] = state[p] \/ (Fill(th) /\ p = pkt[th])
  <2>1. CASE \/ \E q \in Packets : Take(th, q)
             \/ Prepare(th)
    BY <1>0, <2>1 DEF Take, Prepare, Set, TypeOK, pktVars
  <2>2. CASE Fill(th)
    BY <1>0, <2>2 DEF Fill, Set, TypeOK
  <2>3. CASE ReadFlags(th) \/ EnterWait(th) \/ PollTimeout(th) \/ FreeOwn(th)
    <3>1. pc[th] \in {"flags", "enter", "timeout", "got"}
      BY <2>3 DEF ReadFlags, EnterWait, PollTimeout, FreeOwn
    <3>2. pkt[th] \in Packets /\ (UNCHANGED state \/ Free(pkt[th]))
      BY <2>3, <3>1, ReturnsDone
    <3> QED BY <1>2, <3>2
  <2>4. CASE \/ \E m \in Modes : Call(th, m)
             \/ Push(th) \/ SetFF(th) \/ Notify(th) \/ Wait(th) \/ Woken(th) \/ Signalled(th) \/ Poll(th)
    BY <2>4 DEF Call, Push, SetFF, Notify, Wait, Woken, Signalled, Poll, pktVars
  <2> QED BY <1>3, <2>1, <2>2, <2>3, <2>4 DEF CallStep
<1>4. ASSUME NEW th \in Threads, Fill(th), p = pkt[th]
      PROVE  state[p] # "COMPLETED" /\ \E t \in Threads : pkt[t] = p
  BY <1>0, <1>4 DEF Fill, UserInv
<1>5. ASSUME EmtStep \/ WaitTimeout PROVE state'[p] = state[p] \/ (Begin /\ p = cur)
  <2>1. CASE Begin \/ Complete
    BY <1>0, <2>1 DEF Begin, Complete, Set, TypeOK
  <2>2. CASE FreeForOther
    BY <1>0, <2>2 DEF FreeForOther, AloneInv
  <2>3. CASE ~(Begin \/ Complete \/ FreeForOther)
    BY <1>5, <2>3 DEF EmtStep, WaitTimeout, ClearFF, TakeAll, CheckNoWait, MarkSem, Signal, Top,
       WaitCheck, SetWait, Recheck, WakeUp, Unwait, pktVars
  <2> QED BY <2>1, <2>2, <2>3
<1>6. ASSUME Begin, p = cur PROVE state[p] # "COMPLETED" /\ \E t \in Threads : pkt[t] = p
  BY <1>0, <1>6 DEF Begin, WorkInv, OwnedInv
<1>7. UNCHANGED vars => state'[p] = state[p]
  BY DEF vars, pktVars
<1> QED BY <1>1, <1>3, <1>4, <1>5, <1>6, <1>7 DEF Next

LEMMA OwnedStep ==
    ASSUME RefInv, [Next]_vars
    PROVE  OwnedInv'
<1> SUFFICES ASSUME NEW p \in Packets, state'[p] \in {"QUEUED", "PROCESSING"}
             PROVE  \E t \in Threads : pkt'[t] = p
  BY DEF OwnedInv
<1>1. PICK t \in Threads : pkt[t] = p /\ state[p] # "COMPLETED"
  BY OwnedSource
<1> QED BY <1>1, PktKept

\* EMT takes a batch when it has none, and comes back for the next when it is done with.
LEMMA BatchStep ==
    ASSUME RefInv, [Next]_vars
    PROVE  BatchInv'
<1>0. /\ TypeOK /\ EmtInv /\ BatchInv /\ EMT \in Threads /\ LabelInv(EMT)
  BY EmtIs DEF RefInv, HolderInv, TypeInv
<1>1. ASSUME NEW th \in Threads, th # EMT, (\E m \in Modes : Call(th, m)) \/ CallStep(th)
      PROVE  batch' = batch /\ pc'[EMT] = pc[EMT] /\ pkt'[EMT] = pkt[EMT]
  BY <1>0, <1>1 DEF CallStep, Call, Take, Prepare, Fill, Push, SetFF, Notify, ReadFlags, EnterWait,
     Wait, Woken, Signalled, Poll, PollTimeout, FreeOwn, Return, Goto, Set, emtVars, TypeOK
<1>2. ASSUME (\E m \in Modes : Call(EMT, m)) \/ CallStep(EMT) PROVE batch' = batch /\ batch = <<>>
  <2>1. pc[EMT] \notin Work
    BY <1>2 DEF CallStep, Call, Take, Prepare, Fill, Push, SetFF, Notify, ReadFlags, EnterWait,
       Wait, Woken, Signalled, Poll, PollTimeout, FreeOwn, Idle, Work
  <2>2. batch' = batch
    BY <1>2 DEF CallStep, Call, Take, Prepare, Fill, Push, SetFF, Notify, ReadFlags, EnterWait,
       Wait, Woken, Signalled, Poll, PollTimeout, FreeOwn, emtVars
  <2> QED BY <1>0, <2>1, <2>2 DEF BatchInv
<1>3. ASSUME EmtStep \/ WaitTimeout PROVE BatchInv'
  <2>0. pkt' = pkt
    BY <1>3 DEF EmtStep, WaitTimeout, ClearFF, TakeAll, Begin, Complete, CheckNoWait, FreeForOther,
       MarkSem, Signal, Top, WaitCheck, SetWait, Recheck, WakeUp, Unwait
  <2>1. CASE TakeAll
    BY <1>0, <2>0, <2>1 DEF TakeAll, BatchInv, LabelInv, Work, EmtLabels, Goto, emtVars, TypeOK
  <2>2. CASE FreeForOther \/ Signal
    <3>1. NextOne /\ pc[EMT] \in Work
      BY <2>2 DEF FreeForOther, Signal, Work
    <3> QED BY <1>0, <2>0, <3>1 DEF NextOne, BatchInv, Goto, Work, TypeOK
  <2>3. CASE Begin \/ Complete \/ CheckNoWait \/ MarkSem
    BY <1>0, <2>0, <2>3 DEF Begin, Complete, CheckNoWait, MarkSem, BatchInv, Goto, Work, emtVars, TypeOK
  <2>4. CASE ClearFF \/ Top \/ WaitCheck \/ SetWait \/ Recheck \/ WakeUp \/ Unwait \/ WaitTimeout
    <3>1. pc[EMT] \notin Work /\ batch' = batch
      BY <2>4 DEF ClearFF, Top, WaitCheck, SetWait, Recheck, WakeUp, Unwait, WaitTimeout, Work, emtVars
    <3> QED BY <1>0, <2>0, <3>1 DEF BatchInv
  <2> QED BY <1>3, <2>1, <2>2, <2>3, <2>4 DEF EmtStep
<1>4. UNCHANGED vars => BatchInv'
  BY <1>0 DEF vars, emtVars, BatchInv
<1>5. batch' = <<>> => BatchInv'
  BY DEF BatchInv
<1> QED BY <1>0, <1>1, <1>2, <1>3, <1>4, <1>5 DEF Next, BatchInv

LEMMA RefAlways ==
    "noWait" \notin Modes /\ MaxPolls <= 1 => (Spec => []RefInv)
<1> SUFFICES ASSUME "noWait" \notin Modes, MaxPolls <= 1 PROVE Spec => []RefInv
  OBVIOUS
<1>1. Init => OwnedInv /\ BatchInv
  BY DEF Init, OwnedInv, BatchInv
<1>2. RefInv /\ HolderInv' /\ SuccessIsCompletion' /\ [Next]_vars => RefInv'
  BY OwnedStep, BatchStep DEF RefInv
<1> QED BY <1>1, <1>2, HolderAlways, SuccessAlways, PTL DEF Spec, RefInv


\* What the refinement maps the state to: VMReq!Service.
QueueOf == [i \in 1 .. Len(Untaken) |-> Owner(Untaken[i])]
RunningOf == IF pc[EMT] = "execute" THEN Owner(cur) ELSE Nil
Outcome(th) == IF \/ pc[th] \in {"take", "prep", "fill", "push"} \/ pkt[th] = Nil
                  \/ th = EMT /\ pc[th] = "begin"
               THEN "none"
               ELSE IF state[pkt[th]] = "COMPLETED" THEN "done" ELSE "waiting"
ResultOf == [th \in Threads |-> Outcome(th)]

\* The steps of the service, said of what the state is mapped to.
LEMMA ServiceIdle ==
    ASSUME UNCHANGED <<QueueOf, RunningOf, ResultOf>>
    PROVE  UNCHANGED Service!vars
BY DEF QueueOf, RunningOf, ResultOf, Outcome, Service!vars

LEMMA ServiceSubmit ==
    ASSUME NEW th \in Requesters, ResultOf[th] = "none", RunningOf' = RunningOf,
           QueueOf' = Append(QueueOf, th), ResultOf' = [ResultOf EXCEPT ![th] = "waiting"]
    PROVE  Service!Next
<1>1. Service!Submit(th)
  BY DEF QueueOf, RunningOf, ResultOf, Outcome, Service!Submit
<1> QED BY <1>1 DEF Service!Next

LEMMA ServiceStart ==
    ASSUME RunningOf = Nil, QueueOf # <<>>, RunningOf' = Head(QueueOf), QueueOf' = Tail(QueueOf),
           ResultOf' = ResultOf
    PROVE  Service!Next
<1>1. Service!Start
  BY DEF QueueOf, RunningOf, ResultOf, Outcome, Service!Start
<1> QED BY <1>1 DEF Service!Next

LEMMA ServiceStartOwn ==
    ASSUME RunningOf = Nil, ResultOf[EMT] = "none", RunningOf' = EMT, QueueOf' = QueueOf,
           ResultOf' = [ResultOf EXCEPT ![EMT] = "waiting"]
    PROVE  Service!Next
<1>1. Service!StartOwn
  BY DEF QueueOf, RunningOf, ResultOf, Outcome, Service!StartOwn
<1> QED BY <1>1 DEF Service!Next

LEMMA ServiceFinish ==
    ASSUME RunningOf # Nil, RunningOf' = Nil, QueueOf' = QueueOf,
           ResultOf' = [ResultOf EXCEPT ![RunningOf] = "done"]
    PROVE  Service!Next
<1>1. Service!Finish
  BY DEF QueueOf, RunningOf, ResultOf, Outcome, Service!Finish
<1> QED BY <1>1 DEF Service!Next

LEMMA ServiceReturn ==
    ASSUME NEW th \in Threads, ResultOf[th] = "done", UNCHANGED <<QueueOf, RunningOf>>,
           ResultOf' = [ResultOf EXCEPT ![th] = "none"]
    PROVE  Service!Next
<1>1. Service!Return(th)
  BY DEF QueueOf, RunningOf, ResultOf, Outcome, Service!Return
<1> QED BY <1>1, EmtIs DEF Service!Next

----------------------------------------------------------------------------
(* The queue *)

\* What comes first in the queue: the request at hand, unless it is EMT's own.
First == IF pc[EMT] = "begin" /\ pkt[EMT] = Nil THEN <<cur>> ELSE <<>>

\* The thread that has a packet, of those f says have one.
OwnerIn(f, p) == CHOOSE th \in Threads : f[th] = p

LEMMA OwnerInIs ==
    ASSUME NEW f, NEW p \in Packets, NEW th \in Threads, f[th] = p,
           \A t, u \in Threads : f[t] \in Packets /\ f[t] = f[u] => t = u
    PROVE  OwnerIn(f, p) = th
  BY DEF OwnerIn

\* The owner of a request that is not completed stays.
LEMMA OwnerKept ==
    ASSUME RefInv, HolderInv', [Next]_vars, NEW p \in Packets, state[p] \in {"QUEUED", "PROCESSING"}
    PROVE  /\ OwnerIn(pkt, p) \in Threads /\ pkt[OwnerIn(pkt, p)] = p
           /\ OwnerIn(pkt', p) = OwnerIn(pkt, p)
<1>1. PICK t \in Threads : pkt[t] = p
  BY DEF RefInv, OwnedInv
<1>2. pkt'[t] = p
  BY <1>1, PktKept
<1>3. AloneInv /\ \A v, u \in Threads : pkt'[v] \in Packets /\ pkt'[v] = pkt'[u] => v = u
  BY DEF RefInv, HolderInv, AloneInv
<1>4. OwnerIn(pkt, p) = t
  BY <1>1, <1>3, OwnerInIs DEF AloneInv
<1>5. OwnerIn(pkt', p) = t
  BY <1>2, <1>3, OwnerInIs
<1> QED BY <1>1, <1>4, <1>5

\* The queue consists of QUEUED packets.
LEMMA UntakenIs ==
    ASSUME RefInv
    PROVE  /\ Untaken = (First \o batch) \o Reverse(reqs)
           /\ First \in Seq(Packets) /\ batch \in Seq(Packets) /\ reqs \in Seq(Packets)
           /\ Reverse(reqs) \in Seq(Packets) /\ Untaken \in Seq(Packets)
           /\ Len(Untaken) \in Nat
           /\ \A i \in 1 .. Len(Untaken) : Untaken[i] \in Packets /\ state[Untaken[i]] = "QUEUED"
<1>0. TypeOK /\ EmtInv /\ QueuedInv /\ WorkInv
  BY DEF RefInv, HolderInv, TypeInv
<1>1. Untaken = (First \o batch) \o Reverse(reqs)
  BY DEF Untaken, First
<1>2. /\ First \in Seq(Packets) /\ batch \in Seq(Packets) /\ reqs \in Seq(Packets)
      /\ Reverse(reqs) \in Seq(Packets) /\ Range(Reverse(reqs)) = Range(reqs)
  <2>1. pc[EMT] = "begin" => cur \in Packets
    BY <1>0 DEF EmtInv, Work
  <2>2. First \in Seq(Packets)
    BY <2>1, EmptySeq DEF First
  <2> QED BY <1>0, <2>2, ReverseIs DEF TypeOK
<1>3. First \o batch \in Seq(Packets) /\ Untaken \in Seq(Packets)
  BY <1>1, <1>2, ConcatIs
<1>4. Range(Untaken) = (Range(First) \union Range(batch)) \union Range(reqs)
  <2>1. Range(First \o batch) = Range(First) \union Range(batch)
    BY <1>2, ConcatRange
  <2>2. Range((First \o batch) \o Reverse(reqs)) = Range(First \o batch) \union Range(Reverse(reqs))
    <3> SUFFICES ASSUME NEW f \in Seq(Packets), NEW r \in Seq(Packets)
                 PROVE  Range(f \o r) = Range(f) \union Range(r)
      BY <1>2, <1>3
    <3> QED BY ConcatRange
  <2> QED BY <1>1, <1>2, <2>1, <2>2
<1>5. \A p \in Range(First) : p = cur /\ state[cur] = "QUEUED"
  BY <1>0 DEF First, Range, WorkInv
<1>6. \A p \in Range(Untaken) : state[p] = "QUEUED"
  BY <1>0, <1>4, <1>5 DEF QueuedInv, Queued
<1>7. /\ Len(Untaken) \in Nat /\ DOMAIN Untaken = 1 .. Len(Untaken)
      /\ \A i \in 1 .. Len(Untaken) : Untaken[i] \in Packets
  BY <1>3, LenProperties
<1>8. \A i \in 1 .. Len(Untaken) : Untaken[i] \in Range(Untaken)
  BY <1>7 DEF Range
<1> QED BY <1>1, <1>2, <1>3, <1>6, <1>7, <1>8

\* The queue is that of the owners.
LEMMA QueueIs ==
    /\ QueueOf = [i \in 1 .. Len(Untaken) |-> OwnerIn(pkt, Untaken[i])]
    /\ QueueOf' = [i \in 1 .. Len(Untaken') |-> OwnerIn(pkt', Untaken'[i])]
  BY DEF QueueOf, Owner, OwnerIn

LEMMA OwnersIs ==
    ASSUME RefInv, HolderInv', [Next]_vars
    PROVE  /\ QueueOf \in Seq(Threads) /\ Len(QueueOf) = Len(Untaken)
           /\ \A i \in 1 .. Len(Untaken) : /\ QueueOf[i] = OwnerIn(pkt, Untaken[i])
                                           /\ QueueOf[i] = OwnerIn(pkt', Untaken[i])
<1>1. /\ Len(Untaken) \in Nat
      /\ \A i \in 1 .. Len(Untaken) : Untaken[i] \in Packets /\ state[Untaken[i]] = "QUEUED"
  BY UntakenIs
<1>2. \A i \in 1 .. Len(Untaken) : /\ OwnerIn(pkt, Untaken[i]) \in Threads
                                   /\ OwnerIn(pkt', Untaken[i]) = OwnerIn(pkt, Untaken[i])
  BY <1>1, OwnerKept
<1>3. QueueOf \in [1 .. Len(Untaken) -> Threads]
  BY <1>2, QueueIs
<1>4. QueueOf \in Seq(Threads) /\ Len(QueueOf) = Len(Untaken)
  BY <1>1, <1>3
<1> QED BY <1>2, <1>4, QueueIs

\* The queue stays, ...
LEMMA QueueSame ==
    ASSUME RefInv, HolderInv', [Next]_vars, Untaken' = Untaken
    PROVE  QueueOf' = QueueOf
<1>1. QueueOf' = [i \in 1 .. Len(Untaken) |-> OwnerIn(pkt', Untaken[i])]
  BY QueueIs
<1>2. QueueOf = [i \in 1 .. Len(Untaken) |-> OwnerIn(pkt, Untaken[i])]
  BY QueueIs
<1>3. \A i \in 1 .. Len(Untaken) : OwnerIn(pkt', Untaken[i]) = OwnerIn(pkt, Untaken[i])
  BY OwnersIs
<1> QED BY <1>1, <1>2, <1>3

\* ... grows by the owner of what is pushed, ...
LEMMA QueueGrows ==
    ASSUME RefInv, HolderInv', [Next]_vars, NEW p \in Packets, Untaken' = Append(Untaken, p),
           NEW th \in Threads, pkt'[th] = p
    PROVE  QueueOf' = Append(QueueOf, th)
<1>1. Untaken \in Seq(Packets)
  BY UntakenIs
<1> SUFFICES ASSUME NEW w \in Seq(Packets), w = Untaken, NEW v, v = Untaken', NEW q, q = QueueOf
             PROVE  QueueOf' = Append(q, th)
  BY <1>1
<1>2. /\ v \in Seq(Packets) /\ Len(v) = Len(w) + 1 /\ Len(w) \in Nat
      /\ \A i \in 1 .. Len(w) : v[i] = w[i]
      /\ v[Len(w) + 1] = p
  BY AppendProperties, LenProperties
<1>3. /\ q \in Seq(Threads) /\ Len(q) = Len(w)
      /\ \A i \in 1 .. Len(w) : q[i] = OwnerIn(pkt', w[i])
  BY OwnersIs
<1>4. QueueOf' = [i \in 1 .. (Len(w) + 1) |-> OwnerIn(pkt', v[i])]
  BY <1>2, QueueIs
<1>5. OwnerIn(pkt', p) = th
  BY OwnerInIs DEF HolderInv, AloneInv
<1>6. /\ Append(q, th) \in Seq(Threads) /\ Len(Append(q, th)) = Len(w) + 1
      /\ \A i \in 1 .. Len(w) : Append(q, th)[i] = q[i]
      /\ Append(q, th)[Len(w) + 1] = th
  BY <1>3, AppendProperties
<1>7. ASSUME NEW i \in 1 .. (Len(w) + 1) PROVE OwnerIn(pkt', v[i]) = Append(q, th)[i]
  <2>1. i = Len(w) + 1 \/ i \in 1 .. Len(w)
    BY <1>2
  <2> QED BY <1>2, <1>3, <1>5, <1>6, <2>1
<1>8. Append(q, th) = [i \in 1 .. (Len(w) + 1) |-> Append(q, th)[i]]
  BY <1>2, <1>6, LenProperties
<1> QED BY <1>4, <1>7, <1>8

\* ... or loses its first.
LEMMA QueueShrinks ==
    ASSUME RefInv, HolderInv', [Next]_vars, NEW p \in Packets, NEW v \in Seq(Packets), v = Untaken',
           Untaken = <<p>> \o v
    PROVE  QueueOf # <<>> /\ Head(QueueOf) = OwnerIn(pkt', p) /\ QueueOf' = Tail(QueueOf)
<1>1. Untaken \in Seq(Packets)
  BY UntakenIs
<1> SUFFICES ASSUME NEW w \in Seq(Packets), w = Untaken, NEW q, q = QueueOf
             PROVE  q # <<>> /\ Head(q) = OwnerIn(pkt', p) /\ QueueOf' = Tail(q)
  BY <1>1
<1>2. /\ Len(w) = Len(v) + 1 /\ Len(v) \in Nat /\ w[1] = p
      /\ \A i \in 1 .. Len(v) : w[i + 1] = v[i]
  <2>1. <<p>> \in Seq(Packets) /\ Len(<<p>>) = 1 /\ <<p>>[1] = p /\ Len(v) \in Nat
    BY LenProperties
  <2>2. /\ Len(w) = Len(<<p>>) + Len(v)
        /\ \A i \in 1 .. Len(<<p>>) : w[i] = <<p>>[i]
        /\ \A i \in 1 .. Len(v) : w[Len(<<p>>) + i] = v[i]
    BY <2>1, ConcatIs
  <2>3. \A i \in 1 .. Len(v) : 1 + i = i + 1
    OBVIOUS
  <2> QED BY <2>1, <2>2, <2>3
<1>3. /\ q \in Seq(Threads) /\ Len(q) = Len(w)
      /\ \A i \in 1 .. Len(w) : q[i] = OwnerIn(pkt', w[i])
  BY OwnersIs
<1>4. q # <<>>
  BY <1>2, <1>3, EmptySeq
<1>5. /\ Tail(q) \in Seq(Threads) /\ Len(Tail(q)) = Len(v) /\ Head(q) = q[1]
      /\ \A i \in 1 .. Len(v) : Tail(q)[i] = q[i + 1]
  <2>1. /\ Tail(q) \in Seq(Threads) /\ Len(Tail(q)) = Len(q) - 1 /\ Head(q) = q[1]
        /\ \A i \in 1 .. (Len(q) - 1) : Tail(q)[i] = q[i + 1]
    BY <1>3, <1>4, TailOf
  <2>2. Len(q) - 1 = Len(v)
    BY <1>2, <1>3
  <2> QED BY <2>1, <2>2
<1>6. QueueOf' = [i \in 1 .. Len(v) |-> OwnerIn(pkt', v[i])]
  BY QueueIs
<1>7. \A i \in 1 .. Len(v) : i + 1 \in 1 .. Len(w) /\ Tail(q)[i] = OwnerIn(pkt', v[i])
  BY <1>2, <1>3, <1>5
<1>8. Tail(q) = [i \in 1 .. Len(v) |-> Tail(q)[i]]
  BY <1>2, <1>5, LenProperties
<1>9. 1 \in 1 .. Len(w)
  BY <1>2
<1> QED BY <1>2, <1>3, <1>4, <1>5, <1>6, <1>7, <1>8, <1>9


----------------------------------------------------------------------------
(* The steps of the callers *)

LEMMA ResultSame ==
    ASSUME \A th \in Threads : Outcome(th)' = Outcome(th)
    PROVE  ResultOf' = ResultOf
  BY DEF ResultOf

LEMMA ResultOne ==
    ASSUME NEW th \in Threads, NEW r, Outcome(th)' = r,
           \A u \in Threads : u # th => Outcome(u)' = Outcome(u)
    PROVE  ResultOf' = [ResultOf EXCEPT ![th] = r]
  BY DEF ResultOf

\* What EMT executes stays what it is while it executes it.
LEMMA RunningSame ==
    ASSUME RefInv, HolderInv', [Next]_vars,
           pc'[EMT] = "execute" <=> pc[EMT] = "execute", pc[EMT] = "execute" => cur' = cur
    PROVE  RunningOf' = RunningOf
<1>1. CASE pc[EMT] = "execute"
  <2>1. cur \in Packets /\ state[cur] = "PROCESSING"
    BY <1>1 DEF RefInv, HolderInv, TypeInv, EmtInv, WorkInv, Work
  <2>2. OwnerIn(pkt', cur) = OwnerIn(pkt, cur)
    BY <2>1, OwnerKept
  <2> QED BY <1>1, <2>2 DEF RunningOf, Owner, OwnerIn
<1>2. CASE pc[EMT] # "execute"
  BY <1>2 DEF RunningOf
<1> QED BY <1>1, <1>2

\* A step of one thread leaves what others have.
LEMMA CallFrame ==
    ASSUME RefInv, NEW th \in Threads, (\E m \in Modes : Call(th, m)) \/ CallStep(th)
    PROVE  /\ batch' = batch
           /\ \A u \in Threads : u # th => /\ pc'[u] = pc[u] /\ pkt'[u] = pkt[u]
                                           /\ Outcome(u)' = Outcome(u)
<1>0. TypeOK /\ AloneInv /\ HolderInv /\ LabelInv(th)
  BY EmtIs DEF RefInv, HolderInv, TypeInv
<1>1. /\ batch' = batch
      /\ \A u \in Threads : u # th => pc'[u] = pc[u] /\ pkt'[u] = pkt[u]
  BY <1>0 DEF CallStep, Call, Take, Prepare, Fill, Push, SetFF, Notify, ReadFlags, EnterWait,
     Wait, Woken, Signalled, Poll, PollTimeout, FreeOwn, Return, Goto, Set, emtVars, TypeOK
<1>2. \/ state' = state
      \/ \E p \in Packets : Take(th, p)
      \/ /\ pkt[th] \in Packets
         /\ (\E s \in PacketStates : state' = Set(state, pkt[th], s)) \/ Free(pkt[th])
  <2>1. CASE Prepare(th) \/ Fill(th)
    <3>1. pkt[th] \in Packets
      BY <1>0, <2>1 DEF Prepare, Fill, LabelInv
    <3> QED BY <2>1, <3>1 DEF Prepare, Fill, PacketStates
  <2>2. CASE ReadFlags(th) \/ EnterWait(th) \/ PollTimeout(th) \/ FreeOwn(th)
    <3>1. pc[th] \in {"flags", "enter", "timeout", "got"}
      BY <2>2 DEF ReadFlags, EnterWait, PollTimeout, FreeOwn
    <3> QED BY <2>2, <3>1, ReturnsDone
  <2>3. CASE \/ \E m \in Modes : Call(th, m)
             \/ Push(th) \/ SetFF(th) \/ Notify(th) \/ Wait(th) \/ Woken(th) \/ Signalled(th) \/ Poll(th)
    BY <2>3 DEF Call, Push, SetFF, Notify, Wait, Woken, Signalled, Poll, pktVars
  <2> QED BY <2>1, <2>2, <2>3 DEF CallStep
<1>3. ASSUME NEW u \in Threads, u # th, pkt[u] \in Packets PROVE state'[pkt[u]] = state[pkt[u]]
  <2>1. CASE \E p \in Packets : Take(th, p)
    <3>1. state[pkt[u]] # "HEAP"
      BY <1>0, <1>3, HasState
    <3> QED BY <1>0, <1>3, <2>1, <3>1 DEF Take, Set, TypeOK, pktVars
  <2>2. CASE pkt[th] \in Packets /\ ((\E s \in PacketStates : state' = Set(state, pkt[th], s)) \/ Free(pkt[th]))
    <3>1. pkt[u] # pkt[th]
      BY <1>0, <1>3 DEF AloneInv
    <3> QED BY <1>0, <1>3, <2>2, <3>1 DEF Free, Set, TypeOK
  <2> QED BY <1>2, <2>1, <2>2
<1>4. ASSUME NEW u \in Threads, u # th PROVE Outcome(u)' = Outcome(u)
  <2>1. pc'[u] = pc[u] /\ pkt'[u] = pkt[u] /\ (pkt[u] = Nil \/ state'[pkt[u]] = state[pkt[u]])
    BY <1>0, <1>1, <1>3, <1>4 DEF TypeOK
  <2> QED BY <2>1 DEF Outcome
<1> QED BY <1>1, <1>4

\* The list of requests stays, so does what the service sees of it.
LEMMA CallQueue ==
    ASSUME RefInv, HolderInv', [Next]_vars, NEW th \in Threads,
           (\E m \in Modes : Call(th, m)) \/ CallStep(th)
    PROVE  /\ First' = First /\ RunningOf' = RunningOf
           /\ reqs' = reqs => QueueOf' = QueueOf
<1>0. /\ EmtInv /\ EMT \in Threads /\ batch' = batch /\ LabelInv(EMT)
      /\ \A u \in Threads : u # th => pc'[u] = pc[u] /\ pkt'[u] = pkt[u]
  BY EmtIs, CallFrame DEF RefInv, HolderInv, TypeInv
<1>1. /\ First' = First
      /\ pc'[EMT] = "execute" <=> pc[EMT] = "execute"
      /\ pc[EMT] = "execute" => cur' = cur
  <2>1. CASE th # EMT
    <3>1. cur' = cur
      BY <2>1 DEF CallStep, Call, Take, Prepare, Fill, Push, SetFF, Notify, ReadFlags, EnterWait,
         Wait, Woken, Signalled, Poll, PollTimeout, FreeOwn, ProcessesOwn, emtVars
    <3> QED BY <1>0, <2>1, <3>1 DEF First
  <2>2. CASE th = EMT
    <3>1. pc[EMT] \notin Work
      BY <2>2 DEF CallStep, Call, Take, Prepare, Fill, Push, SetFF, Notify, ReadFlags, EnterWait,
         Wait, Woken, Signalled, Poll, PollTimeout, FreeOwn, Idle, Work
    <3>2. pc'[EMT] # "execute" /\ (pc'[EMT] = "begin" => Fill(EMT))
      <4>1. pc \in [Threads -> Labels \union EmtLabels]
        BY DEF RefInv, HolderInv, TypeInv, TypeOK
      <4> QED BY <1>0, <2>2, <4>1 DEF CallStep, Call, Take, Prepare, Fill, Push, SetFF, Notify,
             ReadFlags, EnterWait, Wait, Woken, Signalled, Poll, PollTimeout, FreeOwn, Return, Goto,
             Set, Idle
    <3>3. Fill(EMT) => pkt'[EMT] # Nil
      BY <1>0, EmtIs DEF Fill, LabelInv
    <3>4. First = <<>> /\ First' = <<>>
      BY <3>1, <3>2, <3>3 DEF First, Work
    <3> QED BY <3>1, <3>2, <3>4 DEF Work
  <2> QED BY <2>1, <2>2
<1>2. RunningOf' = RunningOf
  BY <1>1, RunningSame
<1>3. reqs' = reqs => Untaken' = Untaken
  BY <1>0, <1>1 DEF Untaken, First
<1> QED BY <1>1, <1>2, <1>3, QueueSame

\* A request is submitted with its push, ...
LEMMA RefPush ==
    ASSUME RefInv, HolderInv', [Next]_vars, NEW th \in Threads, Push(th)
    PROVE  Service!Next
<1>0. /\ TypeOK /\ EmtInv /\ LabelInv(th) /\ UserInv(th) /\ pc[th] = "push"
  BY DEF RefInv, HolderInv, TypeInv, Push
<1>1. /\ th \in Requesters /\ pkt[th] \in Packets /\ state[pkt[th]] = "QUEUED"
      /\ pkt' = pkt /\ state' = state /\ pc'[th] = "setff" /\ reqs' = <<pkt[th]>> \o reqs
  BY <1>0, EmtIs DEF EmtInv, LabelInv, UserInv, Push, Past, Goto, TypeOK, pktVars
<1>2. CallStep(th)
  BY DEF CallStep
<1> SUFFICES ASSUME NEW p \in Packets, p = pkt[th] PROVE Service!Next
  BY <1>1
<1>3. /\ First' = First /\ RunningOf' = RunningOf /\ batch' = batch
      /\ \A u \in Threads : u # th => Outcome(u)' = Outcome(u)
  BY <1>2, CallFrame, CallQueue
<1>4. Untaken' = Append(Untaken, p)
  <2>1. /\ Untaken = (First \o batch) \o Reverse(reqs)
        /\ First \in Seq(Packets) /\ batch \in Seq(Packets) /\ reqs \in Seq(Packets)
        /\ Reverse(reqs) \in Seq(Packets) /\ Untaken \in Seq(Packets)
    BY UntakenIs
  <2>2. Untaken' = (First \o batch) \o Reverse(<<p>> \o reqs)
    BY <1>1, <1>3 DEF Untaken, First
  <2> SUFFICES ASSUME NEW f \in Seq(Packets), f = First \o batch,
                      NEW r \in Seq(Packets), r = Reverse(reqs)
               PROVE  f \o Reverse(<<p>> \o reqs) = Append(f \o r, p)
    BY <2>1, <2>2, ConcatIs
  <2>3. Reverse(<<p>> \o reqs) = r \o <<p>>
    BY <2>1, ReversePush, AppendIsConcat
  <2>4. f \o r \in Seq(Packets) /\ <<p>> \in Seq(Packets)
    BY ConcatIs
  <2>5. (f \o r) \o <<p>> = f \o (r \o <<p>>)
    BY <2>4, ConcatAssociative, SMTT(30)
  <2> QED BY <2>3, <2>4, <2>5, AppendIsConcat
<1>5. QueueOf' = Append(QueueOf, th)
  BY <1>1, <1>4, QueueGrows
<1>6. Outcome(th) = "none" /\ Outcome(th)' = "waiting"
  BY <1>0, <1>1, EmtIs DEF Outcome
<1>7. ResultOf' = [ResultOf EXCEPT ![th] = "waiting"] /\ ResultOf[th] = "none"
  BY <1>3, <1>6, ResultOne DEF ResultOf
<1> QED BY <1>1, <1>3, <1>5, <1>7, ServiceSubmit

\* ... a call returns when it frees its packet, ...
LEMMA RefReturn ==
    ASSUME RefInv, HolderInv', [Next]_vars, NEW th \in Threads, FreeOwn(th)
    PROVE  Service!Next
<1>0. TypeOK /\ pc[th] = "got"
  BY DEF RefInv, HolderInv, TypeInv, FreeOwn
<1>1. pkt[th] \in Packets /\ state[pkt[th]] = "COMPLETED" /\ Return(th)
  BY <1>0, ReturnsDone
<1>2. CallStep(th) /\ reqs' = reqs
  BY DEF CallStep, FreeOwn
<1>3. /\ QueueOf' = QueueOf /\ RunningOf' = RunningOf
      /\ \A u \in Threads : u # th => Outcome(u)' = Outcome(u)
  BY <1>2, CallFrame, CallQueue
<1>4. Outcome(th) = "done" /\ Outcome(th)' = "none"
  BY <1>0, <1>1, EmtIs DEF Outcome, Return, Set, TypeOK
<1>5. ResultOf' = [ResultOf EXCEPT ![th] = "none"] /\ ResultOf[th] = "done"
  BY <1>3, <1>4, ResultOne DEF ResultOf
<1> QED BY <1>3, <1>5, ServiceReturn

\* ... and the service sees no other step of a caller.
LEMMA RefCallIdle ==
    ASSUME RefInv, HolderInv', [Next]_vars, NEW th \in Threads,
           (\E m \in Modes : Call(th, m)) \/ CallStep(th), ~Push(th), ~FreeOwn(th)
    PROVE  UNCHANGED Service!vars
<1>0. /\ TypeOK /\ EmtInv /\ LabelInv(th)
  BY DEF RefInv, HolderInv, TypeInv
<1>1. reqs' = reqs
  BY DEF CallStep, Call, Take, Prepare, Fill, SetFF, Notify, ReadFlags, EnterWait,
     Wait, Woken, Signalled, Poll, PollTimeout
<1>2. /\ QueueOf' = QueueOf /\ RunningOf' = RunningOf
      /\ \A u \in Threads : u # th => Outcome(u)' = Outcome(u)
  BY <1>1, CallFrame, CallQueue
<1>3. Outcome(th)' = Outcome(th)
  <2>1. CASE \/ \E m \in Modes : Call(th, m)
             \/ \E p \in Packets : Take(th, p)
             \/ Prepare(th) \/ Fill(th)
    <3>1. Outcome(th) = "none"
      BY <1>0, <2>1 DEF Outcome, Call, Take, Prepare, Fill, Idle, LabelInv
    <3>2. Outcome(th)' = "none"
      BY <1>0, <2>1, <3>1 DEF Outcome, Call, Take, Prepare, Fill, Goto, TypeOK, ProcessesOwn
    <3> QED BY <3>1, <3>2
  <2>2. CASE SetFF(th) \/ Notify(th) \/ Wait(th) \/ Woken(th) \/ Signalled(th) \/ Poll(th)
    BY <1>0, <2>2 DEF Outcome, SetFF, Notify, Wait, Woken, Signalled, Poll, Goto, TypeOK, pktVars
  <2>3. CASE ReadFlags(th) \/ EnterWait(th) \/ PollTimeout(th)
    <3>1. pc[th] \in {"flags", "enter", "timeout"}
      BY <2>3 DEF ReadFlags, EnterWait, PollTimeout
    <3>2. UNCHANGED <<state, pkt>>
      BY <2>3, <3>1, ReturnsDone
    <3>3. pc'[th] \in {"idle", "top", "enter", "wait", "poll", "got"}
      BY <1>0, <2>3 DEF ReadFlags, EnterWait, PollTimeout, Return, Goto, Idle, TypeOK
    <3> QED BY <3>1, <3>2, <3>3 DEF Outcome
  <2> QED BY <2>1, <2>2, <2>3 DEF CallStep
<1>4. ResultOf' = ResultOf
  BY <1>2, <1>3, ResultSame
<1> QED BY <1>2, <1>4, ServiceIdle


----------------------------------------------------------------------------
(* The steps of EMT *)

\* EMT's steps leave the calls where they are.
LEMMA EmtFrame ==
    ASSUME RefInv, EmtStep \/ WaitTimeout
    PROVE  /\ ~FreeForOther /\ pkt' = pkt
           /\ \A u \in Threads : u # EMT => pc'[u] = pc[u]
           /\ ~Begin /\ ~Complete => state' = state
<1>1. ~FreeForOther
  BY DEF RefInv, HolderInv, AloneInv, FreeForOther
<1>2. pkt' = pkt
  BY DEF EmtStep, WaitTimeout, ClearFF, TakeAll, Begin, Complete, CheckNoWait, FreeForOther,
     MarkSem, Signal, Top, WaitCheck, SetWait, Recheck, WakeUp, Unwait
<1>3. ~Begin /\ ~Complete => state' = state
  BY <1>1 DEF EmtStep, WaitTimeout, ClearFF, TakeAll, CheckNoWait, MarkSem, Signal, Top,
     WaitCheck, SetWait, Recheck, WakeUp, Unwait, pktVars
<1>4. \E to \in EmtLabels \union {"top", "got"} : Goto(EMT, to)
  BY DEF EmtStep, WaitTimeout, ClearFF, TakeAll, Begin, Complete, CheckNoWait, FreeForOther,
     MarkSem, Signal, Top, WaitCheck, SetWait, Recheck, WakeUp, Unwait, NextOne, EmtLabels
<1>5. pc \in [Threads -> Labels \union EmtLabels]
  BY DEF RefInv, HolderInv, TypeInv, TypeOK
<1> QED BY <1>1, <1>2, <1>3, <1>4, <1>5 DEF Goto

\* EMT starts the first of the queue, or its own request.
LEMMA RefBegin ==
    ASSUME RefInv, HolderInv', [Next]_vars, Begin
    PROVE  Service!Next
<1>0. /\ TypeOK /\ EmtInv /\ WorkInv /\ AloneInv /\ EMT \in Threads /\ pc[EMT] = "begin"
      /\ cur \in Packets /\ pkt[EMT] \in {Nil, cur} /\ state[cur] = "QUEUED"
  BY EmtIs DEF RefInv, HolderInv, TypeInv, Begin, EmtInv, WorkInv, Work
<1>1. /\ state' = Set(state, cur, "PROCESSING") /\ pkt' = pkt /\ cur' = cur /\ batch' = batch
      /\ reqs' = reqs /\ pc'[EMT] = "execute" /\ \A u \in Threads : u # EMT => pc'[u] = pc[u]
  BY <1>0 DEF Begin, Goto, TypeOK, emtVars
<1> SUFFICES ASSUME NEW p \in Packets, p = cur PROVE Service!Next
  BY <1>0
<1>2. RunningOf = Nil /\ RunningOf' = OwnerIn(pkt', p)
  BY <1>0, <1>1 DEF RunningOf, Owner, OwnerIn
<1>3. ASSUME NEW u \in Threads, u # EMT \/ pkt[EMT] = Nil PROVE Outcome(u)' = Outcome(u)
  <2>1. pkt[u] \in Packets => (state'[pkt[u]] = "COMPLETED" <=> state[pkt[u]] = "COMPLETED")
    BY <1>0, <1>1 DEF Set, TypeOK
  <2>2. pkt[u] \in Packets \union {Nil}
    BY <1>0 DEF TypeOK
  <2> QED BY <1>0, <1>1, <1>3, <2>1, <2>2, EmtIs DEF Outcome
<1>4. /\ Untaken = (First \o batch) \o Reverse(reqs)
      /\ batch \in Seq(Packets) /\ Reverse(reqs) \in Seq(Packets)
  BY UntakenIs
<1>5. First' = <<>> /\ Untaken' = (<<>> \o batch) \o Reverse(reqs)
  BY <1>1 DEF First, Untaken
<1> SUFFICES ASSUME NEW r \in Seq(Packets), r = Reverse(reqs) PROVE Service!Next
  BY <1>4
<1>6. Untaken' = batch \o r /\ batch \o r \in Seq(Packets)
  BY <1>4, <1>5, ConcatEmptySeq, ConcatIs
<1>7. CASE pkt[EMT] = Nil
  <2>1. Untaken = <<p>> \o (batch \o r)
    <3>1. Untaken = (<<p>> \o batch) \o r /\ <<p>> \in Seq(Packets)
      BY <1>0, <1>4, <1>7 DEF First
    <3> QED BY <1>4, <3>1, ConcatAssociative
  <2> SUFFICES ASSUME NEW v \in Seq(Packets), v = Untaken' PROVE Service!Next
    BY <1>6
  <2>2. QueueOf # <<>> /\ Head(QueueOf) = OwnerIn(pkt', p) /\ QueueOf' = Tail(QueueOf)
    BY <1>6, <2>1, QueueShrinks
  <2>3. ResultOf' = ResultOf
    BY <1>3, <1>7, ResultSame
  <2> QED BY <1>2, <2>2, <2>3, ServiceStart
<1>8. CASE pkt[EMT] = p
  <2>1. First = <<>>
    BY <1>8, EmtIs DEF First
  <2>2. Untaken' = Untaken
    BY <1>4, <1>5, <2>1
  <2>3. QueueOf' = QueueOf
    BY <2>2, QueueSame
  <2>4. RunningOf' = EMT
    BY <1>0, <1>1, <1>2, <1>8, OwnerInIs DEF AloneInv
  <2>5. Outcome(EMT) = "none" /\ Outcome(EMT)' = "waiting"
    BY <1>0, <1>1, <1>8, EmtIs DEF Outcome, Set, TypeOK
  <2>6. ResultOf[EMT] = "none" /\ ResultOf' = [ResultOf EXCEPT ![EMT] = "waiting"]
    BY <1>0, <1>3, <2>5, ResultOne DEF ResultOf
  <2> QED BY <1>2, <2>3, <2>4, <2>6, ServiceStartOwn
<1> QED BY <1>0, <1>7, <1>8

\* EMT has called the function of the request.
LEMMA RefComplete ==
    ASSUME RefInv, HolderInv', [Next]_vars, Complete
    PROVE  Service!Next
<1>0. /\ TypeOK /\ EmtInv /\ WorkInv /\ AloneInv /\ EMT \in Threads /\ pc[EMT] = "execute"
      /\ cur \in Packets /\ pkt[EMT] \in {Nil, cur} /\ state[cur] = "PROCESSING"
  BY EmtIs DEF RefInv, HolderInv, TypeInv, Complete, EmtInv, WorkInv, Work
<1>1. /\ state' = Set(state, cur, "COMPLETED") /\ pkt' = pkt /\ cur' = cur /\ batch' = batch
      /\ reqs' = reqs /\ pc'[EMT] = "completed" /\ \A u \in Threads : u # EMT => pc'[u] = pc[u]
  BY <1>0 DEF Complete, Goto, TypeOK, emtVars
<1>2. PICK th \in Threads : th = OwnerIn(pkt, cur) /\ pkt[th] = cur
  BY <1>0, OwnerKept
<1>3. RunningOf = th /\ RunningOf # Nil /\ RunningOf' = Nil
  <2>1. RunningOf = th /\ RunningOf' = Nil
    BY <1>0, <1>1, <1>2 DEF RunningOf, Owner, OwnerIn
  <2> QED BY <2>1, EmtIs
<1>4. /\ First = <<>> /\ First' = <<>>
      /\ QueueOf' = QueueOf
  <2>1. First = <<>> /\ First' = <<>>
    BY <1>0, <1>1 DEF First
  <2>2. Untaken' = Untaken
    BY <1>1, <2>1 DEF First, Untaken
  <2> QED BY <2>1, <2>2, QueueSame
<1>5. Outcome(th)' = "done"
  <2>1. state'[pkt'[th]] = "COMPLETED" /\ pkt'[th] # Nil
    BY <1>0, <1>1, <1>2, EmtIs DEF Set, TypeOK
  <2>2. pc'[th] \notin {"take", "prep", "fill", "push"} /\ ~(th = EMT /\ pc'[th] = "begin")
    BY <1>0, <1>1, <1>2 DEF WorkInv, Past
  <2> QED BY <2>1, <2>2 DEF Outcome
<1>6. ASSUME NEW u \in Threads, u # th PROVE Outcome(u)' = Outcome(u)
  <2>1. pkt[u] # cur
    BY <1>0, <1>2, <1>6 DEF AloneInv
  <2>2. pkt[u] \in Packets => state'[pkt[u]] = state[pkt[u]]
    BY <1>0, <1>1, <2>1 DEF Set, TypeOK
  <2>3. pkt[u] \in Packets \union {Nil}
    BY <1>0 DEF TypeOK
  <2>4. u = EMT => pkt[u] = Nil
    BY <1>0, <2>1
  <2> QED BY <1>0, <1>1, <2>2, <2>3, <2>4, EmtIs DEF Outcome
<1>7. ResultOf' = [ResultOf EXCEPT ![th] = "done"]
  BY <1>5, <1>6, ResultOne
<1> QED BY <1>3, <1>4, <1>7, ServiceFinish

\* The service sees no other step of EMT: taking all requests and going on to the next
\* leave the queue what it was.
LEMMA RefEmtIdle ==
    ASSUME RefInv, HolderInv', [Next]_vars, EmtStep \/ WaitTimeout, ~Begin, ~Complete
    PROVE  UNCHANGED Service!vars
<1>0. /\ TypeOK /\ EmtInv /\ BatchInv /\ LabelInv(EMT) /\ EMT \in Threads
  BY EmtIs DEF RefInv, HolderInv, TypeInv
<1>1. /\ ~FreeForOther /\ pkt' = pkt /\ state' = state
      /\ \A u \in Threads : u # EMT => pc'[u] = pc[u]
  BY EmtFrame
<1>2. /\ Untaken = (First \o batch) \o Reverse(reqs)
      /\ batch \in Seq(Packets) /\ reqs \in Seq(Packets) /\ Reverse(reqs) \in Seq(Packets)
  BY UntakenIs
<1>3. Untaken' = (First' \o batch') \o Reverse(reqs')
  BY DEF Untaken, First
<1>s. SUFFICES /\ Untaken' = Untaken /\ Outcome(EMT)' = Outcome(EMT)
               /\ pc'[EMT] # "execute" /\ pc[EMT] # "execute"
  <2>1. QueueOf' = QueueOf /\ RunningOf' = RunningOf
    BY <1>s, QueueSame DEF RunningOf
  <2>2. ASSUME NEW u \in Threads PROVE Outcome(u)' = Outcome(u)
    <3>1. CASE u = EMT
      BY <1>s, <3>1
    <3>2. CASE u # EMT
      BY <1>1, <3>2 DEF Outcome
    <3> QED BY <3>1, <3>2
  <2> QED BY <2>1, <2>2, ResultSame, ServiceIdle
<1>4. CASE TakeAll
  <2>1. pkt[EMT] = Nil /\ batch = <<>> /\ First = <<>> /\ pc[EMT] = "xchg" /\ reqs' = <<>>
    BY <1>0, <1>4 DEF TakeAll, LabelInv, EmtLabels, Work, BatchInv, First, Left
  <2>2. Untaken = Reverse(reqs)
    BY <1>2, <2>1, ConcatEmptySeq, EmptySeq
  <2>3. Reverse(<<>>) = <<>>
    BY ReverseIs, EmptySeq
  <2>4. ASSUME reqs = <<>> PROVE Untaken' = Untaken
    <3>1. First' = <<>> /\ batch' = <<>>
      BY <1>0, <1>1, <1>4, <2>1, <2>4 DEF TakeAll, First, Goto, TypeOK, emtVars
    <3>2. First' = First /\ batch' = batch /\ reqs' = reqs
      BY <2>1, <2>4, <3>1
    <3> QED BY <1>2, <1>3, <3>2
  <2>5. ASSUME reqs # <<>> PROVE Untaken' = Untaken
    <3>1. First' = <<Head(Reverse(reqs))>> /\ batch' = Tail(Reverse(reqs))
      BY <1>0, <1>1, <1>4, <2>1, <2>5 DEF TakeAll, First, Goto, TypeOK, InOrder
    <3>2. Reverse(reqs) # <<>>
      BY <1>2, <2>5, ReverseIs, EmptySeq
    <3>3. First' \o batch' = Reverse(reqs)
      BY <1>2, <3>1, <3>2, FirstAndRest
    <3>4. Untaken' = Reverse(reqs) \o <<>>
      BY <1>3, <2>1, <2>3, <3>3
    <3> QED BY <1>2, <2>2, <3>4, ConcatEmptySeq
  <2>6. Untaken' = Untaken
    BY <2>4, <2>5
  <2>7. pc'[EMT] # "execute" /\ pc[EMT] # "execute"
    BY <1>0, <1>4, <2>1 DEF TakeAll, Goto, TypeOK
  <2> QED BY <1>0, <1>1, <2>1, <2>6, <2>7 DEF Outcome
<1>5. CASE Signal
  <2>1. pc[EMT] = "signal" /\ NextOne /\ reqs' = reqs /\ First = <<>>
    BY <1>5 DEF Signal, First
  <2>2. CASE pkt[EMT] # Nil \/ batch = <<>>
    <3>1. batch' = batch /\ pc'[EMT] \in {"got", "clear"}
      BY <1>0, <2>1, <2>2 DEF NextOne, Goto, TypeOK
    <3>2. First' = First
      BY <2>1, <3>1 DEF First
    <3>3. Untaken' = Untaken
      BY <1>2, <1>3, <2>1, <3>1, <3>2
    <3> QED BY <1>1, <2>1, <3>1, <3>3 DEF Outcome
  <2>3. CASE pkt[EMT] = Nil /\ batch # <<>>
    <3>1. batch' = Tail(batch) /\ cur' = Head(batch) /\ pc'[EMT] = "begin"
      BY <1>0, <2>1, <2>3 DEF NextOne, Goto, TypeOK
    <3>2. First' = <<Head(batch)>>
      BY <1>1, <2>3, <3>1 DEF First
    <3>3. First' \o batch' = batch
      BY <1>2, <2>3, <3>1, <3>2, FirstAndRest
    <3>4. First \o batch = batch
      BY <1>2, <2>1, ConcatEmptySeq
    <3>5. Untaken' = Untaken
      BY <1>2, <1>3, <2>1, <3>3, <3>4
    <3> QED BY <1>1, <2>1, <2>3, <3>1, <3>5 DEF Outcome
  <2> QED BY <2>2, <2>3
<1>6. CASE ~TakeAll /\ ~Signal
  <2>1. reqs' = reqs /\ batch' = batch
    BY <1>1, <1>6 DEF EmtStep, WaitTimeout, ClearFF, CheckNoWait, MarkSem, Top, WaitCheck, SetWait,
       Recheck, WakeUp, Unwait, emtVars
  <2>2. /\ pc[EMT] \notin {"take", "prep", "fill", "push", "begin", "execute"}
        /\ pc'[EMT] \notin {"take", "prep", "fill", "push", "begin", "execute"}
    BY <1>0, <1>1, <1>6 DEF EmtStep, WaitTimeout, ClearFF, CheckNoWait, MarkSem, Top, WaitCheck,
       SetWait, Recheck, WakeUp, Unwait, Goto, TypeOK
  <2>3. Untaken' = Untaken
    BY <1>2, <1>3, <2>1, <2>2 DEF First
  <2> QED BY <1>1, <2>2, <2>3 DEF Outcome
<1> QED BY <1>4, <1>5, <1>6

\* VMReq!ServiceSpec: when no caller gives its packet away and at most one call polls, the
\* packets, the lock-free list, the batches and the events implement RequestService: every
\* request is executed once, by EMT, in the order of the pushes, and a call returns only
\* after its request was executed.
THEOREM ServiceRefined ==
    "noWait" \notin Modes /\ MaxPolls <= 1 => (Spec => ServiceSpec)
<1> SUFFICES ASSUME "noWait" \notin Modes, MaxPolls <= 1 PROVE Spec => ServiceSpec
  OBVIOUS
<1>1. Init => Service!Init
  <2> SUFFICES ASSUME Init PROVE Service!Init
    OBVIOUS
  <2>1. pc[EMT] = "top" /\ batch = <<>> /\ reqs = <<>>
    BY EmtIs DEF Init, Idle
  <2>2. Reverse(<<>>) = <<>> /\ <<>> \in Seq(Packets) /\ Len(<<>>) = 0
    BY ReverseIs, EmptySeq
  <2>3. (<<>> \o <<>>) \o <<>> = <<>>
    BY <2>2, ConcatEmptySeq
  <2>4. Untaken = <<>>
    BY <2>1, <2>2, <2>3 DEF Untaken
  <2>5. QueueOf = <<>>
    BY <2>2, <2>4 DEF QueueOf
  <2>6. RunningOf = Nil
    BY <2>1 DEF RunningOf
  <2>7. ResultOf = [th \in Requesters \union {EMT} |-> "none"]
    BY DEF ResultOf, Outcome, Init, Threads
  <2> QED BY <2>5, <2>6, <2>7 DEF QueueOf, RunningOf, ResultOf, Outcome, Service!Init
<1>2. RefInv /\ RefInv' /\ [Next]_vars => [Service!Next]_(Service!vars)
  <2> SUFFICES ASSUME RefInv, RefInv', [Next]_vars PROVE [Service!Next]_(Service!vars)
    OBVIOUS
  <2>1. HolderInv'
    BY DEF RefInv
  <2>2. ASSUME NEW th \in Threads, (\E m \in Modes : Call(th, m)) \/ CallStep(th)
        PROVE  [Service!Next]_(Service!vars)
    BY <2>1, <2>2, RefPush, RefReturn, RefCallIdle
  <2>3. CASE EmtStep \/ WaitTimeout
    BY <2>1, <2>3, RefBegin, RefComplete, RefEmtIdle
  <2>4. CASE UNCHANGED vars
    <3>1. UNCHANGED <<QueueOf, RunningOf, ResultOf>>
      BY <2>4 DEF vars, pktVars, wakeVars, callVars, emtVars, QueueOf, RunningOf, ResultOf, Outcome,
         Untaken, Owner
    <3> QED BY <3>1, ServiceIdle
  <2> QED BY <2>2, <2>3, <2>4 DEF Next
<1> QED BY <1>1, <1>2, RefAlways, PTL DEF Spec, ServiceSpec, Service!Spec

===============================================================================
