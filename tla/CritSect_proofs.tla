--------------------------- MODULE CritSect_proofs ---------------------------
(***************************************************************************)
(* Proofs about CritSect: a section has one keeper, however many threads,  *)
(* sections and arrays of sections there are and however deep they nest.   *)
(***************************************************************************)
EXTENDS CritSect, SequenceFacts, FiniteSetTheorems, TLAPS

\* The steps of each kind of entry and leave.
StepsOf == [inc     |-> {"inc", "nested", "wait", "own"},
            try     |-> {"try", "perhaps", "own"},
            leave   |-> {"leave", "dec", "signal"},
            r0leave |-> R0Steps]

CallOps == [step : DOMAIN StepsOf, sect : Sects]

\* The types, without the bounds that MaxHold sets.
Typed ==
    /\ cLockers \in [Sects -> Int]
    /\ cNestings \in [Sects -> Int]
    /\ owner \in [Sects -> Threads \union {Nil}]
    /\ sem \in [Sects -> BOOLEAN]
    /\ queue \in Seq(Sects)
    /\ pc \in [Threads -> Steps \union R0Steps]
    /\ todo \in [Threads -> Seq(CallOps)]
    /\ array \in [Threads -> Arrays \union {<<>>}]
    /\ miss \in [Threads -> Nat]
    /\ depth \in [Threads -> [Sects -> Nat]]

----------------------------------------------------------------------------
(* What a thread has before it in its call *)

\* The sections it is to enter and to leave.
Coming(t) == {t[p].sect : p \in {q \in DOMAIN t : t[q].step # "leave"}}
Going(t) == {t[p].sect : p \in {q \in DOMAIN t : t[q].step = "leave"}}

\* RTCritSectEnterMultiple on a, having missed the m-th: it leaves sections before it
\* enters any, waits for the m-th and then tries those that come, in their order.
Script(t, a, m) ==
    /\ m \in 0 .. Len(a)
    /\ \A p \in DOMAIN t :
          /\ t[p].step # "r0leave" /\ t[p].sect \in Range(a)
          /\ t[p].step \in {"leave", "inc"} => Coming(t) = Range(a)
          /\ t[p].step = "inc" => t[p].sect = a[m]
          /\ \A j \in DOMAIN a : t[p] = Op("try", a[j]) =>
                /\ j # m
                /\ \A k \in DOMAIN a : k > j /\ k # m =>
                      \E q \in DOMAIN t : q > p /\ t[q] = Op("try", a[k])
    /\ \A p, q \in DOMAIN t : p < q =>
          /\ t[q].step = "leave" => t[p].step = "leave" /\ t[p].sect # t[q].sect
          /\ t[q].step = "inc" => t[p].step = "leave"
          /\ t[p].step # "leave" => t[p].sect # t[q].sect
          /\ \A j, k \in DOMAIN a :
                t[p] = Op("try", a[j]) /\ t[q] = Op("try", a[k]) => j < k

\* What it has entered: what does not come, and what it is still to leave.
Held(t, a, left) ==
    (Range(a) \ Coming(t)) \union (IF left THEN Going(Tail(t)) ELSE Going(t))

\* The call of a thread: the step it is at is one of its first entry or leave.
CallInv(th) ==
    /\ pc[th] = "ready" <=> todo[th] = <<>>
    /\ todo[th] = <<>> => array[th] = <<>>
    /\ todo[th] # <<>> => pc[th] \in StepsOf[Head(todo[th]).step]
    /\ array[th] = <<>> =>
          /\ Len(todo[th]) <= 1
          /\ pc[th] \in {"leave", "r0leave"} => depth[th][Sect(th)] > 0
    /\ array[th] # <<>> =>
          /\ Script(todo[th], array[th], miss[th])
          /\ LET held == Held(todo[th], array[th], pc[th] \in {"dec", "signal"})
             IN  depth[th] = [s \in Sects |-> IF s \in held THEN 1 ELSE 0]

----------------------------------------------------------------------------
(* The sections *)

QueuedOnce(s) == IF s \in Range(queue) THEN 1 ELSE 0

\* EMT has the section in its hands, to free it or to queue its leave.
InHand(s) == pc[EMT] \in {"r0test", "queue"} /\ Sect(EMT) = s

\* The owner of a section is the thread that entered it, and cNestings counts its
\* entries and a queued leave.
Owned(s) ==
    /\ owner[s] = Nil => cNestings[s] = 0
    /\ owner[s] # Nil =>
          /\ cNestings[s] = depth[owner[s]][s] + QueuedOnce(s)
          /\ \/ depth[owner[s]][s] > 0
             \/ owner[s] = EMT /\ (s \in Range(queue) \/ InHand(s))
    /\ s \in Range(queue) \/ InHand(s) => owner[s] = EMT
    /\ InHand(s) => s \notin Range(queue) /\ depth[EMT][s] = 0
    /\ sem[s] => owner[s] = Nil

\* A thread owns what it entered, and who takes or passes on a section finds it
\* without an owner.
Owns(th) ==
    /\ \A s \in Sects : depth[th][s] > 0 => owner[s] = th
    /\ pc[th] \in {"own", "dec", "signal", "r0free"} => owner[Sect(th)] = Nil

OwnInv ==
    /\ IsInjective(queue)
    /\ \A s \in Sects : Owned(s)
    /\ \A th \in Threads : Owns(th)

\* A section has one keeper while cLockers says that somebody is in.
KeepInv ==
    \A s \in Sects :
       /\ \A t, u \in Threads : Keeps(t, s) /\ Keeps(u, s) => t = u
       /\ sem[s] => \A t \in Threads : ~Keeps(t, s)
       /\ cLockers[s] >= -1
       /\ cLockers[s] >= 0 <=> sem[s] \/ \E t \in Threads : Keeps(t, s)

\* cLockers counts the entries.
CountInv ==
    \A s \in Sects : /\ IsFiniteSet(EntriesInto(s))
                     /\ cLockers[s] + 1 = Cardinality(EntriesInto(s))

\* The inductive invariant.
SectInv ==
    /\ Typed /\ OwnInv /\ KeepInv /\ CountInv
    /\ \A th \in Threads : CallInv(th)

----------------------------------------------------------------------------
(* Sequences of entries and leaves *)

\* Having done the first op of a script a thread has the rest before it.
LEMMA ScriptTail ==
    ASSUME NEW t \in Seq(CallOps), NEW a \in Seq(Sects), NEW m, t # <<>>, Script(t, a, m)
    PROVE  /\ Script(Tail(t), a, m)
           /\ Head(t).step = "leave" =>
                 /\ Coming(t) = Range(a) /\ Coming(Tail(t)) = Range(a)
                 /\ Head(t).sect \in Going(t)
                 /\ Going(Tail(t)) = Going(t) \ {Head(t).sect}
           /\ Head(t).step # "leave" =>
                 /\ Going(t) = {} /\ Going(Tail(t)) = {}
                 /\ Head(t).sect \in Coming(t)
                 /\ Coming(Tail(t)) = Coming(t) \ {Head(t).sect}
           /\ Head(t).step = "inc" => Coming(t) = Range(a)
<1> DEFINE u == Tail(t)
<1>1. /\ u \in Seq(CallOps) /\ Len(t) \in Nat \ {0} /\ DOMAIN t = 1 .. Len(t)
      /\ Head(t) = t[1] /\ t[1] \in CallOps /\ DOMAIN u = 1 .. (Len(t) - 1)
      /\ \A p \in 1 .. (Len(t) - 1) : u[p] = t[p + 1]
  BY TailOf
<1> HIDE DEF u
<1>2. ASSUME t[1].step = "leave"
      PROVE  /\ Coming(t) = Range(a) /\ Coming(u) = Range(a)
             /\ t[1].sect \in Going(t) /\ Going(u) = Going(t) \ {t[1].sect}
  <2>1. Coming(t) = Range(a)
    BY <1>1, <1>2 DEF Script
  <2>2. Coming(u) = Coming(t)
    <3>1. \A p \in DOMAIN t : t[p].step # "leave" => p - 1 \in DOMAIN u /\ u[p - 1] = t[p]
      BY <1>1, <1>2
    <3>2. \A p \in DOMAIN u : p + 1 \in DOMAIN t /\ u[p] = t[p + 1]
      BY <1>1
    <3> QED BY <3>1, <3>2 DEF Coming
  <2>3. t[1].sect \in Going(t)
    <3>1. 1 \in {q \in DOMAIN t : t[q].step = "leave"}
      BY <1>1, <1>2
    <3> QED BY <3>1 DEF Going
  <2>4. \A p \in DOMAIN t : p > 1 => p - 1 \in DOMAIN u /\ u[p - 1] = t[p]
    BY <1>1
  <2>5. \A p \in DOMAIN u : p + 1 \in DOMAIN t /\ p + 1 > 1 /\ u[p] = t[p + 1]
    BY <1>1
  <2>6. \A p \in DOMAIN t : p > 1 /\ t[p].step = "leave" => t[p].sect # t[1].sect
    BY <1>1 DEF Script
  <2>7. \A x \in Going(u) : x \in Going(t) /\ x # t[1].sect
    BY <2>5, <2>6 DEF Going
  <2>8. \A x \in Going(t) : x # t[1].sect => x \in Going(u)
    <3> SUFFICES ASSUME NEW p \in DOMAIN t, t[p].step = "leave", t[p].sect # t[1].sect
                 PROVE  t[p].sect \in Going(u)
      BY DEF Going
    <3>1. p > 1
      BY <1>1
    <3> QED BY <3>1, <2>4 DEF Going
  <2> QED BY <2>1, <2>2, <2>3, <2>7, <2>8
<1>3. ASSUME t[1].step # "leave"
      PROVE  /\ Going(t) = {} /\ Going(u) = {}
             /\ t[1].sect \in Coming(t) /\ Coming(u) = Coming(t) \ {t[1].sect}
  <2>1. \A p \in DOMAIN t : t[p].step # "leave"
    BY <1>1, <1>3, SMTT(30) DEF Script
  <2>2. \A p \in DOMAIN u : p + 1 \in DOMAIN t /\ p + 1 > 1 /\ u[p] = t[p + 1]
    BY <1>1
  <2>3. Going(t) = {} /\ Going(u) = {}
    BY <2>1, <2>2 DEF Going
  <2>4. t[1].sect \in Coming(t)
    <3>1. 1 \in {q \in DOMAIN t : t[q].step # "leave"}
      BY <1>1, <1>3
    <3> QED BY <3>1 DEF Coming
  <2>5. \A p \in DOMAIN t : p > 1 => t[p].sect # t[1].sect
    BY <1>1, <1>3, SMTT(30) DEF Script
  <2>6. \A x \in Coming(u) : x \in Coming(t) /\ x # t[1].sect
    BY <2>2, <2>5 DEF Coming
  <2>7. \A x \in Coming(t) : x # t[1].sect => x \in Coming(u)
    <3> SUFFICES ASSUME NEW p \in DOMAIN t, t[p].step # "leave", t[p].sect # t[1].sect
                 PROVE  t[p].sect \in Coming(u)
      BY DEF Coming
    <3>1. p - 1 \in DOMAIN u /\ u[p - 1] = t[p]
      BY <1>1
    <3> QED BY <3>1 DEF Coming
  <2> QED BY <2>3, <2>4, <2>6, <2>7
<1>4. Script(u, a, m)
  <2>1. \A p \in DOMAIN u : u[p].step \in {"leave", "inc"} => Coming(u) = Range(a)
    <3> SUFFICES ASSUME NEW p \in DOMAIN u, u[p].step \in {"leave", "inc"}
                 PROVE  Coming(u) = Range(a)
      OBVIOUS
    <3>1. p + 1 \in DOMAIN t /\ u[p] = t[p + 1] /\ 1 < p + 1 /\ 1 \in DOMAIN t
      BY <1>1
    <3>2. t[1].step = "leave"
      BY <3>1 DEF Script
    <3> QED BY <3>2, <1>2
  <2>2. \A p \in DOMAIN u : p + 1 \in DOMAIN t /\ u[p] = t[p + 1]
    BY <1>1
  <2>3. ASSUME NEW p \in DOMAIN u, NEW j \in DOMAIN a, u[p] = Op("try", a[j]),
               NEW k \in DOMAIN a, k > j, k # m
        PROVE  \E q \in DOMAIN u : q > p /\ u[q] = Op("try", a[k])
    <3>1. PICK q \in DOMAIN t : q > p + 1 /\ t[q] = Op("try", a[k])
      BY <2>2, <2>3 DEF Script
    <3>2. q - 1 \in DOMAIN u /\ q - 1 > p /\ u[q - 1] = t[q]
      BY <1>1, <3>1
    <3> QED BY <3>1, <3>2
  <2>4. \A p, q \in DOMAIN u : p < q => p + 1 < q + 1
    BY <1>1
  <2>5. ASSUME NEW p \in DOMAIN u
        PROVE  /\ u[p].step # "r0leave" /\ u[p].sect \in Range(a)
               /\ u[p].step = "inc" => u[p].sect = a[m]
               /\ \A j \in DOMAIN a : u[p] = Op("try", a[j]) => j # m
    BY <2>2 DEF Script
  <2>6. ASSUME NEW p \in DOMAIN u, NEW q \in DOMAIN u, p < q
        PROVE  /\ u[q].step = "leave" => u[p].step = "leave" /\ u[p].sect # u[q].sect
               /\ u[q].step = "inc" => u[p].step = "leave"
               /\ u[p].step # "leave" => u[p].sect # u[q].sect
               /\ \A j, k \in DOMAIN a :
                     u[p] = Op("try", a[j]) /\ u[q] = Op("try", a[k]) => j < k
    BY <2>2, <2>4, <2>6 DEF Script
  <2>7. m \in 0 .. Len(a)
    BY DEF Script
  <2> QED BY <2>1, <2>3, <2>5, <2>6, <2>7 DEF Script
<1>5. t[1].step = "inc" => Coming(t) = Range(a)
  BY <1>1 DEF Script
<1> QED BY <1>1, <1>2, <1>3, <1>4, <1>5 DEF u

\* The call of RTCritSectEnterMultiple tries all sections in their order.
LEMMA ScriptBegin ==
    ASSUME NEW a \in Seq(Sects), IsInjective(a), a # <<>>
    PROVE  LET t == [k \in 1 .. Len(a) |-> Op("try", a[k])]
           IN  /\ t \in Seq(CallOps) /\ t # <<>> /\ Head(t).step = "try"
               /\ Script(t, a, 0) /\ Coming(t) = Range(a) /\ Going(t) = {}
<1> DEFINE t == [k \in 1 .. Len(a) |-> Op("try", a[k])]
<1>1. /\ Len(a) \in Nat \ {0} /\ DOMAIN a = 1 .. Len(a) /\ DOMAIN t = DOMAIN a
      /\ \A k \in DOMAIN a : t[k] = Op("try", a[k]) /\ a[k] \in Sects
  OBVIOUS
<1>2. \A k \in DOMAIN a : t[k] \in CallOps /\ t[k].step = "try" /\ t[k].sect = a[k]
  BY <1>1 DEF Op, CallOps, StepsOf
<1>3. t \in Seq(CallOps) /\ Len(t) = Len(a) /\ t # <<>> /\ Head(t) = t[1] /\ 1 \in DOMAIN a
  BY <1>1, <1>2
<1> HIDE DEF t
<1>4. Coming(t) = Range(a) /\ Going(t) = {}
  BY <1>1, <1>2 DEF Coming, Going, Range
<1>5. \A p, q \in DOMAIN a : p # q => a[p] # a[q]
  BY DEF IsInjective
<1>6. \A p, j \in DOMAIN a : t[p] = Op("try", a[j]) => p = j
  BY <1>1, <1>2, <1>5 DEF Op
<1>7. Script(t, a, 0)
  <2>1. 0 \in 0 .. Len(a) /\ \A j \in DOMAIN a : j # 0
    BY <1>1
  <2>2. ASSUME NEW p \in DOMAIN t, NEW j \in DOMAIN a, t[p] = Op("try", a[j])
        PROVE  \A k \in DOMAIN a : k > j => \E q \in DOMAIN t : q > p /\ t[q] = Op("try", a[k])
    BY <1>1, <1>6, <2>2
  <2>3. ASSUME NEW p \in DOMAIN t, NEW q \in DOMAIN t, p < q
        PROVE  /\ t[p].sect # t[q].sect /\ t[q].step = "try"
               /\ \A j, k \in DOMAIN a :
                     t[p] = Op("try", a[j]) /\ t[q] = Op("try", a[k]) => j < k
    BY <1>1, <1>2, <1>5, <1>6, <2>3
  <2>4. \A p \in DOMAIN t : t[p].step = "try" /\ t[p].sect \in Range(a)
    BY <1>1, <1>2 DEF Range
  <2> QED BY <2>1, <2>2, <2>3, <2>4 DEF Script
<1> QED BY <1>2, <1>3, <1>4, <1>7 DEF t

\* The sections to leave: those before the j-th, the last first, and before them
\* the i-th if it is behind.
LEMMA ToLeaveIs ==
    ASSUME NEW a \in Seq(Sects), NEW i \in 0 .. Len(a), NEW j \in DOMAIN a
    PROVE  LET l == ToLeave(a, i, j)
               n == IF i > j THEN j ELSE j - 1
           IN  /\ l \in Seq(Sects) /\ Len(l) = n
               /\ \A p \in 1 .. n : l[p] = IF i > j THEN IF p = 1 THEN a[i] ELSE a[j - p + 1]
                                                    ELSE a[j - p]
<1> DEFINE r == Reverse(SubSeq(a, 1, j - 1))
<1>1. j \in 1 .. Len(a) /\ Len(a) \in Nat
  OBVIOUS
<1>2. SubSeq(a, 1, j - 1) \in Seq(Sects) /\ Len(SubSeq(a, 1, j - 1)) = j - 1
      /\ \A p \in 1 .. (j - 1) : SubSeq(a, 1, j - 1)[p] = a[p]
  BY <1>1
<1>3. r \in Seq(Sects) /\ Len(r) = j - 1 /\ \A p \in 1 .. (j - 1) : r[p] = a[j - p]
  <2> DEFINE b == SubSeq(a, 1, j - 1)
             n == j - 1
  <2>1. b \in Seq(Sects) /\ Len(b) = n /\ n \in Nat /\ \A p \in 1 .. n : b[p] = a[p] /\ a[p] \in Sects
    BY <1>1, <1>2
  <2>2. r = [p \in 1 .. Len(b) |-> b[(Len(b) - p) + 1]]
    BY DEF Reverse
  <2>3. \A p \in 1 .. n : (n - p) + 1 \in 1 .. n
    BY <2>1
  <2> HIDE DEF b, r
  <2>4. \A p \in 1 .. n : r[p] = a[(n - p) + 1] /\ r[p] \in Sects
    BY <2>1, <2>2, <2>3
  <2>5. r \in [1 .. n -> Sects]
    BY <2>1, <2>2, <2>4
  <2>6. r \in Seq(Sects) /\ Len(r) = n
    BY <2>1, <2>5, SMTT(30)
  <2> QED BY <1>1, <2>4, <2>6
<1> HIDE DEF r
<1>4. CASE i > j
  <2>1. <<a[i]>> \in Seq(Sects) /\ Len(<<a[i]>>) = 1 /\ <<a[i]>>[1] = a[i]
    BY <1>1, <1>4
  <2>2. ToLeave(a, i, j) = <<a[i]>> \o r
    BY <1>4 DEF ToLeave, r
  <2>3. /\ <<a[i]>> \o r \in Seq(Sects) /\ Len(<<a[i]>> \o r) = j
        /\ \A p \in 1 .. j : (<<a[i]>> \o r)[p] = IF p = 1 THEN a[i] ELSE r[p - 1]
    BY <1>1, <1>3, <2>1
  <2>4. \A p \in 1 .. j : p # 1 => r[p - 1] = a[j - p + 1]
    BY <1>1, <1>3
  <2> QED BY <1>4, <2>2, <2>3, <2>4
<1>5. CASE ~(i > j)
  <2>1. ToLeave(a, i, j) = r
    BY <1>3, <1>5 DEF ToLeave, r
  <2> QED BY <1>3, <1>5, <2>1
<1> QED BY <1>4, <1>5

\* The call it goes on with: the leaves, the wait for the j-th, the others.
LEMMA RetryIs ==
    ASSUME NEW a \in Seq(Sects), NEW i \in 0 .. Len(a), NEW j \in DOMAIN a
    PROVE  LET t == Retry(a, i, j)
               l == ToLeave(a, i, j)
               n == Len(l)
           IN  /\ t \in Seq(CallOps) /\ Len(t) = n + Len(a)
               /\ \A p \in 1 .. n : t[p] = Op("leave", l[p])
               /\ t[n + 1] = Op("inc", a[j])
               /\ \A k \in DOMAIN a : k < j => t[n + 1 + k] = Op("try", a[k])
               /\ \A k \in DOMAIN a : k > j => t[n + k] = Op("try", a[k])
<1> DEFINE t == Retry(a, i, j)
           l == ToLeave(a, i, j)
           n == Len(l)
           r == RemoveAt(a, j)
           x == [k \in 1 .. Len(l) |-> Op("leave", l[k])]
           y == <<Op("inc", a[j])>>
           z == [k \in 1 .. Len(r) |-> Op("try", r[k])]
<1>1. j \in 1 .. Len(a) /\ Len(a) \in Nat /\ l \in Seq(Sects) /\ n \in Nat
  BY ToLeaveIs
<1>2. \A s \in Sects : \A st \in DOMAIN StepsOf : Op(st, s) \in CallOps
  BY DEF Op, CallOps
<1>3. {"leave", "inc", "try"} \subseteq DOMAIN StepsOf
  BY DEF StepsOf
<1>4. /\ r \in Seq(Sects) /\ Len(r) = Len(a) - 1
      /\ \A k \in 1 .. (j - 1) : r[k] = a[k]
      /\ \A k \in j .. (Len(a) - 1) : r[k] = a[k + 1]
  <2> DEFINE b == SubSeq(a, 1, j - 1)
             c == SubSeq(a, j + 1, Len(a))
  <2>1. b \in Seq(Sects) /\ Len(b) = j - 1 /\ \A k \in 1 .. (j - 1) : b[k] = a[k]
    BY <1>1
  <2>2. c \in Seq(Sects) /\ Len(c) = Len(a) - j /\ \A k \in 1 .. (Len(a) - j) : c[k] = a[k + j]
    BY <1>1
  <2>3. r = b \o c
    BY DEF RemoveAt
  <2> HIDE DEF b, c, r
  <2>4. /\ r \in Seq(Sects) /\ Len(r) = Len(a) - 1
        /\ \A k \in 1 .. (Len(a) - 1) : r[k] = IF k <= j - 1 THEN b[k] ELSE c[k - (j - 1)]
    <3>1. b \in Seq(Sects) /\ c \in Seq(Sects)
      BY <2>1, <2>2
    <3>2. /\ r \in Seq(Sects) /\ Len(r) = Len(b) + Len(c)
          /\ \A k \in 1 .. Len(b) : r[k] = b[k]
          /\ \A k \in 1 .. Len(c) : r[Len(b) + k] = c[k]
      <4>1. /\ b \o c \in Seq(Sects) /\ Len(b \o c) = Len(b) + Len(c)
            /\ \A k \in 1 .. Len(b) : (b \o c)[k] = b[k]
            /\ \A k \in 1 .. Len(c) : (b \o c)[Len(b) + k] = c[k]
        BY <3>1, ConcatIs
      <4> QED BY <2>3, <4>1
    <3>3. /\ r \in Seq(Sects) /\ Len(r) = Len(a) - 1
          /\ \A k \in 1 .. (j - 1) : r[k] = b[k]
          /\ \A k \in 1 .. (Len(a) - j) : r[(j - 1) + k] = c[k]
      <4>1. Len(b) = j - 1 /\ Len(c) = Len(a) - j
        BY <2>1, <2>2
      <4>2. Len(b) + Len(c) = Len(a) - 1
        BY <1>1, <4>1
      <4> QED BY <3>2, <4>1, <4>2
    <3>4. ASSUME NEW k \in 1 .. (Len(a) - 1), ~(k <= j - 1) PROVE r[k] = c[k - (j - 1)]
      <4>1. k - (j - 1) \in 1 .. (Len(a) - j) /\ (j - 1) + (k - (j - 1)) = k
        BY <1>1, <3>4, SMTT(30)
      <4> QED BY <3>3, <4>1
    <3>5. \A k \in 1 .. (Len(a) - 1) : k <= j - 1 => k \in 1 .. (j - 1)
      BY <1>1
    <3> QED BY <3>3, <3>4, <3>5
  <2>5. ASSUME NEW k \in 1 .. (j - 1) PROVE r[k] = a[k]
    <3>1. k \in 1 .. (Len(a) - 1) /\ k <= j - 1
      BY <1>1
    <3>2. r[k] = b[k]
      BY <2>4, <3>1
    <3> QED BY <2>1, <3>2
  <2>6. ASSUME NEW k \in j .. (Len(a) - 1) PROVE r[k] = a[k + 1]
    <3>1. /\ k \in 1 .. (Len(a) - 1) /\ ~(k <= j - 1)
          /\ k - (j - 1) \in 1 .. (Len(a) - j) /\ (k - (j - 1)) + j = k + 1
      BY <1>1
    <3>2. r[k] = c[k - (j - 1)]
      BY <2>4, <3>1
    <3>3. c[k - (j - 1)] = a[(k - (j - 1)) + j]
      BY <2>2, <3>1
    <3> QED BY <3>1, <3>2, <3>3
  <2> QED BY <2>4, <2>5, <2>6
<1>5. t = x \o y \o z
  BY DEF Retry
<1> HIDE DEF t, l, r
<1>6. x \in Seq(CallOps) /\ Len(x) = n /\ \A p \in 1 .. n : x[p] = Op("leave", l[p])
  BY <1>1, <1>2, <1>3
<1>7. y \in Seq(CallOps) /\ Len(y) = 1 /\ y[1] = Op("inc", a[j])
  BY <1>1, <1>2, <1>3
<1>8. z \in Seq(CallOps) /\ Len(z) = Len(a) - 1 /\ \A p \in 1 .. (Len(a) - 1) : z[p] = Op("try", r[p])
  BY <1>1, <1>2, <1>3, <1>4
<1> HIDE DEF x, y, z, n
<1>9. /\ x \o y \in Seq(CallOps) /\ Len(x \o y) = n + 1
      /\ \A p \in 1 .. n : (x \o y)[p] = x[p]
      /\ (x \o y)[n + 1] = y[1]
  <2>1. /\ x \o y \in Seq(CallOps) /\ Len(x \o y) = Len(x) + Len(y)
        /\ \A p \in 1 .. Len(x) : (x \o y)[p] = x[p]
        /\ \A p \in 1 .. Len(y) : (x \o y)[Len(x) + p] = y[p]
    <3>1. x \in Seq(CallOps) /\ y \in Seq(CallOps)
      BY <1>6, <1>7
    <3> QED BY <3>1, ConcatIs
  <2>2. 1 \in 1 .. Len(y)
    BY <1>7
  <2> QED BY <1>6, <1>7, <2>1, <2>2
<1>10. /\ t \in Seq(CallOps) /\ Len(t) = n + Len(a)
       /\ \A p \in 1 .. (n + 1) : t[p] = (x \o y)[p]
       /\ \A k \in 1 .. (Len(a) - 1) : t[n + 1 + k] = z[k]
  <2> DEFINE w == x \o y
  <2>1. w \in Seq(CallOps) /\ Len(w) = n + 1 /\ t = w \o z
    BY <1>5, <1>9
  <2> HIDE DEF w
  <2>2. /\ t \in Seq(CallOps) /\ Len(t) = Len(w) + Len(z)
        /\ \A p \in 1 .. Len(w) : t[p] = w[p]
        /\ \A k \in 1 .. Len(z) : t[Len(w) + k] = z[k]
    <3>1. w \in Seq(CallOps) /\ z \in Seq(CallOps) /\ t = w \o z
      BY <1>8, <2>1
    <3>2. /\ w \o z \in Seq(CallOps) /\ Len(w \o z) = Len(w) + Len(z)
          /\ \A p \in 1 .. Len(w) : (w \o z)[p] = w[p]
          /\ \A k \in 1 .. Len(z) : (w \o z)[Len(w) + k] = z[k]
      BY <3>1, ConcatIs
    <3> QED BY <3>1, <3>2
  <2>3. Len(w) + Len(z) = n + Len(a) /\ 1 .. Len(z) = 1 .. (Len(a) - 1)
    BY <1>1, <1>8, <2>1
  <2> QED BY <2>1, <2>2, <2>3 DEF w
<1>11. \A p \in 1 .. n : t[p] = Op("leave", l[p])
  <2>1. \A p \in 1 .. n : p \in 1 .. (n + 1)
    BY <1>1
  <2> QED BY <1>6, <1>9, <1>10, <2>1
<1>12. t[n + 1] = Op("inc", a[j])
  BY <1>1, <1>7, <1>9, <1>10, SMTT(30)
<1>13. ASSUME NEW k \in DOMAIN a, k < j PROVE t[n + 1 + k] = Op("try", a[k])
  <2>1. k \in 1 .. (Len(a) - 1) /\ k \in 1 .. (j - 1)
    BY <1>1, <1>13
  <2> QED BY <1>4, <1>8, <1>10, <2>1
<1>14. ASSUME NEW k \in DOMAIN a, k > j PROVE t[n + k] = Op("try", a[k])
  <2>1. k - 1 \in 1 .. (Len(a) - 1) /\ k - 1 \in j .. (Len(a) - 1) /\ n + 1 + (k - 1) = n + k
    BY <1>1, <1>14
  <2>2. t[n + k] = z[k - 1] /\ z[k - 1] = Op("try", r[k - 1]) /\ r[k - 1] = a[(k - 1) + 1]
    BY <1>4, <1>8, <1>10, <2>1
  <2> QED BY <1>1, <2>1, <2>2
<1> QED BY <1>10, <1>11, <1>12, <1>13, <1>14 DEF t, l, n

\* While it tries the j-th, having missed the i-th before, the others to come are
\* those behind, without the i-th.
LEMMA TryingIs ==
    ASSUME NEW a \in Seq(Sects), IsInjective(a), NEW t \in Seq(CallOps), t # <<>>,
           NEW i, NEW j \in DOMAIN a, Script(t, a, i), Head(t) = Op("try", a[j])
    PROVE  /\ i # j
           /\ Coming(t) = {a[k] : k \in {k \in DOMAIN a : k >= j /\ k # i}}
           /\ Going(t) = {}
<1>1. Head(t) = t[1] /\ 1 \in DOMAIN t /\ DOMAIN t = 1 .. Len(t) /\ DOMAIN a \subseteq Nat
  BY TailOf
<1>2. \A p \in DOMAIN t : t[p] \in CallOps
  OBVIOUS
<1>3. i # j
  BY <1>1 DEF Script
<1>4. \A p \in DOMAIN t : t[p].step = "try"
  <2>1. t[1].step = "try"
    BY <1>1 DEF Op
  <2>2. \A p \in DOMAIN t : t[p].step \in {"inc", "try", "leave", "r0leave"}
    BY <1>2 DEF CallOps, StepsOf
  <2>3. \A p \in DOMAIN t : p = 1 \/ p > 1
    BY <1>1
  <2> QED BY <1>1, <2>1, <2>2, <2>3 DEF Script
<1>5. \A p \in DOMAIN t : t[p] = Op("try", t[p].sect) /\ t[p].sect \in Range(a)
  BY <1>2, <1>4 DEF CallOps, Op, Script
<1>6. \A p \in DOMAIN t : \E k \in DOMAIN a : t[p] = Op("try", a[k]) /\ t[p].sect = a[k]
  BY <1>5 DEF Range
<1>7. ASSUME NEW p \in DOMAIN t
      PROVE  t[p].sect \in {a[k] : k \in {k \in DOMAIN a : k >= j /\ k # i}}
  <2>1. PICK k \in DOMAIN a : t[p] = Op("try", a[k]) /\ t[p].sect = a[k]
    BY <1>6
  <2>2. k # i
    BY <2>1 DEF Script
  <2>3. CASE p = 1
    BY <1>1, <1>3, <2>1, <2>3 DEF Op, IsInjective
  <2>4. CASE p > 1
    BY <1>1, <2>1, <2>2, <2>4 DEF Script
  <2> QED BY <1>1, <2>3, <2>4
<1>8. ASSUME NEW k \in DOMAIN a, k >= j, k # i
      PROVE  \E p \in DOMAIN t : t[p] = Op("try", a[k]) /\ t[p].sect = a[k] /\ t[p].step # "leave"
  <2>1. CASE k = j
    BY <1>1, <2>1 DEF Op
  <2>2. CASE k > j
    <3>1. \E p \in DOMAIN t : t[p] = Op("try", a[k])
      BY <1>1, <1>8, <2>2 DEF Script
    <3> QED BY <3>1 DEF Op
  <2> QED BY <1>1, <1>8, <2>1, <2>2
<1>9. Coming(t) \subseteq {a[k] : k \in {k \in DOMAIN a : k >= j /\ k # i}}
  BY <1>7 DEF Coming
<1>10. ASSUME NEW k \in DOMAIN a, k >= j, k # i PROVE a[k] \in Coming(t)
  BY <1>8, <1>10 DEF Coming
<1>11. Going(t) = {}
  BY <1>4 DEF Going
<1> QED BY <1>3, <1>9, <1>10, <1>11

\* What it leaves is what it has entered, each once.
LEMMA LeavesHeld ==
    ASSUME NEW a \in Seq(Sects), IsInjective(a), NEW i \in 0 .. Len(a), NEW j \in DOMAIN a, i # j
    PROVE  LET l == ToLeave(a, i, j)
           IN  /\ \A p, q \in 1 .. Len(l) : p # q => l[p] # l[q]
               /\ {l[p] : p \in 1 .. Len(l)} = {a[k] : k \in {k \in DOMAIN a : k < j \/ k = i}}
<1> DEFINE l == ToLeave(a, i, j)
           n == IF i > j THEN j ELSE j - 1
           X(p) == IF i > j THEN IF p = 1 THEN i ELSE j - p + 1 ELSE j - p
<1>1. j \in 1 .. Len(a) /\ Len(a) \in Nat /\ DOMAIN a = 1 .. Len(a)
  OBVIOUS
<1>2. Len(l) = n /\ \A p \in 1 .. n : l[p] = a[X(p)]
  BY ToLeaveIs
<1> HIDE DEF l
<1>3. \A p \in 1 .. n : X(p) \in DOMAIN a /\ (X(p) < j \/ X(p) = i)
  BY <1>1
<1>4. \A p, q \in 1 .. n : p # q => X(p) # X(q)
  BY <1>1
<1>5. ASSUME NEW k \in DOMAIN a, k < j \/ k = i PROVE \E p \in 1 .. n : X(p) = k
  <2>1. CASE i > j /\ k = i
    <3>1. 1 \in 1 .. n /\ X(1) = k
      BY <1>1, <2>1
    <3> QED BY <3>1
  <2>2. CASE i > j /\ k < j
    <3>1. j - k + 1 \in 1 .. n /\ X(j - k + 1) = k
      BY <1>1, <2>2
    <3> QED BY <3>1
  <2>3. CASE ~(i > j)
    <3>1. j - k \in 1 .. n /\ X(j - k) = k
      BY <1>1, <1>5, <2>3
    <3> QED BY <3>1
  <2> QED BY <1>1, <1>5, <2>1, <2>2, <2>3
<1> HIDE DEF X, n
<1>6. \A p, q \in 1 .. n : p # q => l[p] # l[q]
  BY <1>2, <1>3, <1>4 DEF IsInjective
<1>7. \A p \in 1 .. n : l[p] \in {a[k] : k \in {k \in DOMAIN a : k < j \/ k = i}}
  BY <1>2, <1>3
<1>8. \A k \in DOMAIN a : k < j \/ k = i => a[k] \in {l[p] : p \in 1 .. n}
  BY <1>2, <1>5
<1> QED BY <1>2, <1>6, <1>7, <1>8 DEF l

\* A section was busy: the script leaves all that was entered and begins again.
LEMMA ScriptRetry ==
    ASSUME NEW a \in Seq(Sects), IsInjective(a), NEW t \in Seq(CallOps), t # <<>>,
           NEW i, NEW j \in DOMAIN a, Script(t, a, i), Head(t) = Op("try", a[j])
    PROVE  LET u == Retry(a, i, j)
           IN  /\ u \in Seq(CallOps) /\ u # <<>> /\ Head(u).step \in {"leave", "inc"}
               /\ Script(u, a, j) /\ Coming(u) = Range(a) /\ Going(u) = Range(a) \ Coming(t)
<1> DEFINE u == Retry(a, i, j)
           l == ToLeave(a, i, j)
           n == Len(l)
           Pos(k) == IF k < j THEN n + 1 + k ELSE n + k
<1>1. /\ j \in 1 .. Len(a) /\ Len(a) \in Nat \ {0} /\ DOMAIN a = 1 .. Len(a)
      /\ i \in 0 .. Len(a) /\ i # j
      /\ \A p, q \in DOMAIN a : a[p] = a[q] => p = q
  BY TryingIs DEF Script, IsInjective
<1>2. /\ u \in Seq(CallOps) /\ Len(u) = n + Len(a)
      /\ \A p \in 1 .. n : u[p] = Op("leave", l[p])
      /\ u[n + 1] = Op("inc", a[j])
      /\ \A k \in DOMAIN a : k < j => u[n + 1 + k] = Op("try", a[k])
      /\ \A k \in DOMAIN a : k > j => u[n + k] = Op("try", a[k])
  BY <1>1, RetryIs
<1>3. l \in Seq(Sects) /\ n \in Nat
  BY <1>1, ToLeaveIs
<1>4. /\ \A p, q \in 1 .. n : p # q => l[p] # l[q]
      /\ {l[p] : p \in 1 .. n} = {a[k] : k \in {k \in DOMAIN a : k < j \/ k = i}}
  <2>1. i \in 0 .. Len(a) /\ i # j
    BY <1>1
  <2> QED BY <2>1, LeavesHeld
<1> HIDE DEF u, l, n
<1>5. DOMAIN u = 1 .. (n + Len(a)) /\ u # <<>> /\ Head(u) = u[1] /\ n + 1 \in DOMAIN u
  BY <1>1, <1>2, <1>3
<1>6. \A k \in DOMAIN a : k # j => /\ Pos(k) \in DOMAIN u /\ Pos(k) > n + 1
                                   /\ u[Pos(k)] = Op("try", a[k])
  <2>1. ASSUME NEW k \in DOMAIN a, k < j
        PROVE  n + 1 + k \in 1 .. (n + Len(a)) /\ n + 1 + k > n + 1 /\ Pos(k) = n + 1 + k
    BY <1>1, <1>3, <2>1
  <2>2. ASSUME NEW k \in DOMAIN a, k > j
        PROVE  n + k \in 1 .. (n + Len(a)) /\ n + k > n + 1 /\ Pos(k) = n + k
    BY <1>1, <1>3, <2>2
  <2>3. \A k \in DOMAIN a : k # j => k < j \/ k > j
    BY <1>1
  <2> HIDE DEF Pos
  <2> QED BY <1>2, <1>5, <2>1, <2>2, <2>3
<1>7. ASSUME NEW p \in DOMAIN u, p > n + 1
      PROVE  \E k \in DOMAIN a : k # j /\ p = Pos(k)
  <2> DEFINE k == p - n
  <2>1. p \in Nat /\ k \in 2 .. Len(a) /\ p = n + k
    BY <1>1, <1>3, <1>5, <1>7
  <2> HIDE DEF k
  <2>2. CASE k <= j
    <3>1. k - 1 \in DOMAIN a /\ k - 1 # j /\ p = Pos(k - 1)
      BY <1>1, <1>3, <2>1, <2>2
    <3> QED BY <3>1
  <2>3. CASE ~(k <= j)
    <3>1. k \in DOMAIN a /\ k # j /\ p = Pos(k)
      BY <1>1, <1>3, <2>1, <2>3
    <3> QED BY <3>1
  <2> QED BY <2>2, <2>3
<1>8. \A k, h \in DOMAIN a : k # j /\ h # j => (k < h <=> Pos(k) < Pos(h))
  BY <1>1, <1>3
<1>9. \A p \in DOMAIN u : p \in 1 .. n \/ p = n + 1 \/ p > n + 1
  BY <1>3, <1>5
<1>10. \A p \in DOMAIN u : p > n + 1 =>
           \E k \in DOMAIN a : k # j /\ p = Pos(k) /\ u[p] = Op("try", a[k])
  BY <1>6, <1>7
<1> HIDE DEF Pos
<1>11. /\ \A p \in 1 .. n : p \in DOMAIN u /\ u[p].step = "leave" /\ u[p].sect = l[p]
       /\ u[n + 1].step = "inc" /\ u[n + 1].sect = a[j]
       /\ \A p \in DOMAIN u : p > n + 1 =>
             /\ u[p].step = "try"
             /\ \E k \in DOMAIN a : k # j /\ p = Pos(k) /\ u[p] = Op("try", a[k]) /\ u[p].sect = a[k]
  <2>1. \A st, x : Op(st, x).step = st /\ Op(st, x).sect = x
    BY DEF Op
  <2>2. \A p \in 1 .. n : p \in DOMAIN u
    BY <1>1, <1>3, <1>5
  <2> QED BY <1>2, <1>10, <2>1, <2>2, SMTT(30)
<1>12. Coming(u) = Range(a)
  <2>1. \A p \in DOMAIN u : u[p].step # "leave" => u[p].sect \in Range(a)
    BY <1>1, <1>9, <1>11 DEF Range
  <2>2. ASSUME NEW k \in DOMAIN a PROVE \E p \in DOMAIN u : u[p].step # "leave" /\ u[p].sect = a[k]
    <3>1. CASE k = j
      BY <1>5, <1>11, <3>1
    <3>2. CASE k # j
      <4>1. Pos(k) \in DOMAIN u /\ u[Pos(k)] = Op("try", a[k])
        BY <1>6, <3>2
      <4> QED BY <4>1 DEF Op
    <3> QED BY <3>1, <3>2
  <2> QED BY <2>1, <2>2 DEF Coming, Range
<1>13. Going(u) = {l[p] : p \in 1 .. n}
  <2>1. \A p \in DOMAIN u : u[p].step = "leave" => p \in 1 .. n
    BY <1>9, <1>11
  <2> QED BY <1>11, <2>1 DEF Going
<1>14. Going(u) = Range(a) \ Coming(t)
  <2>1. Coming(t) = {a[k] : k \in {k \in DOMAIN a : k >= j /\ k # i}}
    BY TryingIs
  <2>2. \A k \in DOMAIN a : (k < j \/ k = i) <=> ~(k >= j /\ k # i)
    BY <1>1
  <2>3. \A k \in DOMAIN a : a[k] \in Coming(t) <=> k >= j /\ k # i
    BY <1>1, <2>1
  <2>4. \A x \in Going(u) : x \in Range(a) \ Coming(t)
    BY <1>4, <1>13, <2>2, <2>3 DEF Range
  <2>5. \A k \in DOMAIN a : a[k] \notin Coming(t) => a[k] \in Going(u)
    BY <1>4, <1>13, <2>2, <2>3
  <2> QED BY <2>4, <2>5 DEF Range
<1>15. \A p \in 1 .. n : l[p] \in Range(a)
  BY <1>4 DEF Range
<1>16. Script(u, a, j)
  <2>1. ASSUME NEW p \in DOMAIN u
        PROVE  /\ u[p].step # "r0leave" /\ u[p].sect \in Range(a)
               /\ u[p].step = "inc" => u[p].sect = a[j]
    BY <1>1, <1>9, <1>11, <1>15 DEF Range
  <2>2. ASSUME NEW p \in DOMAIN u, NEW k \in DOMAIN a, u[p] = Op("try", a[k])
        PROVE  k # j /\ p = Pos(k)
    <3>1. p > n + 1
      BY <1>9, <1>11, <2>2 DEF Op
    <3> QED BY <1>1, <1>11, <2>2, <3>1 DEF Op
  <2>3. ASSUME NEW p \in DOMAIN u, NEW k \in DOMAIN a, u[p] = Op("try", a[k])
        PROVE  \A h \in DOMAIN a : h > k /\ h # j =>
                  \E q \in DOMAIN u : q > p /\ u[q] = Op("try", a[h])
    <3> SUFFICES ASSUME NEW h \in DOMAIN a, h > k, h # j
                 PROVE  \E q \in DOMAIN u : q > p /\ u[q] = Op("try", a[h])
      OBVIOUS
    <3>1. k # j /\ p = Pos(k)
      BY <2>2, <2>3
    <3>2. k < h /\ k # j /\ h # j => Pos(k) < Pos(h)
      BY <1>8
    <3>3. Pos(h) \in DOMAIN u /\ u[Pos(h)] = Op("try", a[h]) /\ Pos(h) \in Nat /\ p \in Nat
      BY <1>3, <1>5, <1>6
    <3> QED BY <1>1, <3>1, <3>2, <3>3
  <2>4. ASSUME NEW p \in DOMAIN u, NEW q \in DOMAIN u, p < q
        PROVE  /\ u[q].step = "leave" => u[p].step = "leave" /\ u[p].sect # u[q].sect
               /\ u[q].step = "inc" => u[p].step = "leave"
    <3>1. u[q].step = "leave" => q \in 1 .. n /\ p \in 1 .. n
      BY <1>3, <1>5, <1>9, <1>11, <2>4
    <3>2. u[q].step = "inc" => p \in 1 .. n
      BY <1>3, <1>5, <1>9, <1>11, <2>4
    <3>3. p # q
      BY <1>3, <1>5, <2>4
    <3> QED BY <1>4, <1>11, <3>1, <3>2, <3>3
  <2>5. ASSUME NEW p \in DOMAIN u, NEW q \in DOMAIN u, p < q
        PROVE  \A k, h \in DOMAIN a :
                  u[p] = Op("try", a[k]) /\ u[q] = Op("try", a[h]) => k < h
    BY <1>8, <2>2, <2>5
  <2>6. ASSUME NEW p \in DOMAIN u, NEW q \in DOMAIN u, p < q, u[p].step # "leave"
        PROVE  u[p].sect # u[q].sect
    <3>1. q > n + 1 /\ p # q
      BY <1>3, <1>5, <1>9, <1>11, <2>6
    <3>2. PICK h \in DOMAIN a : h # j /\ q = Pos(h) /\ u[q].sect = a[h]
      BY <1>11, <3>1
    <3>3. CASE p = n + 1
      BY <1>1, <1>11, <3>2, <3>3
    <3>4. CASE p > n + 1
      <4>1. PICK k \in DOMAIN a : p = Pos(k) /\ u[p].sect = a[k]
        BY <1>11, <3>4
      <4> QED BY <1>1, <3>1, <3>2, <4>1
    <3> QED BY <1>9, <1>11, <2>6, <3>3, <3>4
  <2>7. j \in 0 .. Len(a)
    BY <1>1
  <2> QED BY <1>12, <2>1, <2>2, <2>3, <2>4, <2>5, <2>6, <2>7 DEF Script
<1>17. Head(u).step \in {"leave", "inc"}
  BY <1>3, <1>5, <1>9, <1>11
<1> QED BY <1>2, <1>5, <1>12, <1>14, <1>16, <1>17 DEF u

----------------------------------------------------------------------------
(* Calls *)

\* The kinds of op and their steps.
LEMMA StepsAre ==
    /\ DOMAIN StepsOf = {"inc", "try", "leave", "r0leave"}
    /\ StepsOf["inc"] = {"inc", "nested", "wait", "own"}
    /\ StepsOf["try"] = {"try", "perhaps", "own"}
    /\ StepsOf["leave"] = {"leave", "dec", "signal"}
    /\ StepsOf["r0leave"] = {"r0leave", "r0test", "r0free", "queue"}
  BY DEF StepsOf, R0Steps

\* The first op of a call, the array, and what the steps say of it.
LEMMA CallIs ==
    ASSUME Typed, NEW th \in Threads, CallInv(th), pc[th] # "ready"
    PROVE  /\ todo[th] # <<>> /\ todo[th] \in Seq(CallOps)
           /\ Head(todo[th]) \in CallOps /\ Sect(th) \in Sects
           /\ pc[th] \in StepsOf[Head(todo[th]).step]
           /\ array[th] # <<>> => array[th] \in Seq(Sects) /\ IsInjective(array[th])
<1>1. todo[th] # <<>> /\ todo[th] \in Seq(CallOps) /\ pc[th] \in StepsOf[Head(todo[th]).step]
  BY DEF Typed, CallInv
<1>2. Head(todo[th]) \in CallOps
  BY <1>1
<1>3. Sect(th) \in Sects
  BY <1>2 DEF Sect, CallOps
<1>4. array[th] # <<>> => array[th] \in Seq(Sects) /\ IsInjective(array[th])
  BY CritSectAssumption DEF Typed
<1> QED BY <1>1, <1>2, <1>3, <1>4

\* The steps at which a thread neither waits nor takes or passes on a section.
Aside == {"ready", "inc", "try", "perhaps", "leave", "r0leave"}

\* A thread whose call and entries stay as they are.
LEMMA CallSame ==
    ASSUME NEW u \in Threads, CallInv(u), pc'[u] = pc[u], todo'[u] = todo[u],
           array'[u] = array[u], miss'[u] = miss[u], depth'[u] = depth[u]
    PROVE  CallInv(u)'
  BY DEF CallInv, Sect

\* The first op of a call is done.
LEMMA CallFinish ==
    ASSUME Typed, NEW th \in Threads, CallInv(th), pc[th] # "ready", Finish(th),
           array[th] # <<>> =>
               depth'[th] = [depth[th] EXCEPT ![Sect(th)] =
                                 IF Head(todo[th]).step = "leave" THEN 0 ELSE 1]
    PROVE  /\ CallInv(th)'
           /\ pc'[th] \in {"ready", "inc", "try", "leave"}
           /\ pc' = [pc EXCEPT ![th] = pc'[th]]
           /\ todo' = [todo EXCEPT ![th] = Tail(@)]
           /\ pc' \in [Threads -> Steps \union R0Steps] /\ todo' \in [Threads -> Seq(CallOps)]
           /\ array' \in [Threads -> Arrays \union {<<>>}] /\ miss' \in [Threads -> Nat]
           /\ \A u \in Threads : u # th => array'[u] = array[u] /\ miss'[u] = miss[u]
<1> DEFINE t == todo[th]
           a == array[th]
<1>1. /\ t # <<>> /\ t \in Seq(CallOps) /\ Head(t) \in CallOps /\ Sect(th) \in Sects
      /\ pc[th] \in StepsOf[Head(t).step]
      /\ a # <<>> => a \in Seq(Sects) /\ IsInjective(a)
  BY CallIs
<1>2. Tail(t) \in Seq(CallOps) /\ Len(Tail(t)) = Len(t) - 1 /\ Len(t) \in Nat
  BY <1>1, TailOf
<1>3. /\ todo' = [todo EXCEPT ![th] = Tail(t)]
      /\ pc' = [pc EXCEPT ![th] = IF Tail(t) = <<>> THEN "ready" ELSE Head(Tail(t)).step]
      /\ array' = [array EXCEPT ![th] = IF Tail(t) = <<>> THEN <<>> ELSE a]
      /\ miss' = [miss EXCEPT ![th] = IF Tail(t) = <<>> THEN 0 ELSE miss[th]]
  BY DEF Finish, Perform
<1>4. /\ todo'[th] = Tail(t) /\ todo' \in [Threads -> Seq(CallOps)]
      /\ array' \in [Threads -> Arrays \union {<<>>}] /\ miss' \in [Threads -> Nat]
      /\ \A u \in Threads : u # th => array'[u] = array[u] /\ miss'[u] = miss[u]
  BY <1>2, <1>3 DEF Typed
<1>5. CASE Tail(t) = <<>>
  <2>1. pc'[th] = "ready" /\ array'[th] = <<>> /\ todo'[th] = <<>>
    BY <1>3, <1>5 DEF Typed
  <2>2. pc' = [pc EXCEPT ![th] = "ready"] /\ pc' \in [Threads -> Steps \union R0Steps]
    BY <1>3, <1>5 DEF Typed, Steps
  <2>3. CallInv(th)'
    BY <2>1 DEF CallInv
  <2> QED BY <1>3, <1>4, <2>1, <2>2, <2>3
<1>6. CASE Tail(t) # <<>>
  <2>1. a # <<>>
    <3>1. Len(t) # 1 /\ Len(t) # 0 /\ Len(t) \in Nat
      BY <1>1, <1>6, TailOf
    <3>2. a = <<>> => Len(t) <= 1
      BY DEF CallInv
    <3>3. ~(Len(t) <= 1)
      <4>1. \A n \in Nat : n # 1 /\ n # 0 => ~(n <= 1)
        OBVIOUS
      <4> QED BY <3>1, <4>1
    <3> QED BY <3>2, <3>3, Zenon
  <2>2. /\ a \in Seq(Sects) /\ Script(t, a, miss[th])
        /\ depth[th] = [s \in Sects |-> IF s \in Held(t, a, pc[th] \in {"dec", "signal"})
                                        THEN 1 ELSE 0]
    BY <1>1, <2>1 DEF CallInv
  <2>3. /\ pc'[th] = Head(Tail(t)).step /\ array'[th] = a /\ miss'[th] = miss[th]
        /\ pc' = [pc EXCEPT ![th] = Head(Tail(t)).step]
    BY <1>3, <1>6 DEF Typed
  <2>4. /\ Script(Tail(t), a, miss[th])
        /\ Head(t).step = "leave" =>
              /\ Coming(t) = Range(a) /\ Coming(Tail(t)) = Range(a)
              /\ Head(t).sect \in Going(t)
              /\ Going(Tail(t)) = Going(t) \ {Head(t).sect}
        /\ Head(t).step # "leave" =>
              /\ Going(t) = {} /\ Going(Tail(t)) = {}
              /\ Head(t).sect \in Coming(t)
              /\ Coming(Tail(t)) = Coming(t) \ {Head(t).sect}
    BY <1>1, <2>2, ScriptTail
  <2>5. Head(Tail(t)) \in CallOps /\ Head(Tail(t)).step # "r0leave" /\ Head(t).sect \in Range(a)
    <3>1. 1 \in DOMAIN Tail(t) /\ Head(Tail(t)) = Tail(t)[1] /\ Tail(t)[1] \in CallOps
      BY <1>2, <1>6, TailOf
    <3>2. 1 \in DOMAIN t /\ Head(t) = t[1]
      BY <1>1, TailOf
    <3> QED BY <2>2, <2>4, <3>1, <3>2 DEF Script
  <2>6. pc'[th] \in {"inc", "try", "leave"} /\ pc'[th] \in StepsOf[Head(Tail(t)).step]
    BY <2>3, <2>5, StepsAre DEF CallOps
  <2>7. pc' \in [Threads -> Steps \union R0Steps]
    BY <2>3, <2>6 DEF Typed, Steps
  <2>8. depth'[th] = [s \in Sects |-> IF s \in Held(Tail(t), a, FALSE) THEN 1 ELSE 0]
    <3>1. depth'[th] = [depth[th] EXCEPT ![Head(t).sect] =
                              IF Head(t).step = "leave" THEN 0 ELSE 1]
      BY <2>1 DEF Sect
    <3>2. CASE Head(t).step = "leave"
      <4>1. \A s \in Sects : s \in Held(Tail(t), a, FALSE) <=>
                /\ s \in Held(t, a, pc[th] \in {"dec", "signal"})
                /\ s # Head(t).sect
        BY <2>4, <3>2 DEF Held
      <4> QED BY <2>2, <3>1, <3>2, <4>1
    <3>3. CASE Head(t).step # "leave"
      <4>1. \A s \in Sects : s \in Held(Tail(t), a, FALSE) <=>
                \/ s \in Held(t, a, pc[th] \in {"dec", "signal"})
                \/ s = Head(t).sect
        BY <2>4, <2>5, <3>3 DEF Held
      <4> QED BY <2>2, <3>1, <3>3, <4>1
    <3> QED BY <3>2, <3>3
  <2>9. CallInv(th)'
    <3>1. pc'[th] # "ready" /\ (pc'[th] \in {"dec", "signal"}) = FALSE
      BY <2>6
    <3> QED BY <1>4, <1>6, <2>1, <2>3, <2>4, <2>6, <2>8, <3>1 DEF CallInv
  <2> QED BY <1>3, <1>4, <2>3, <2>6, <2>7, <2>9
<1> QED BY <1>5, <1>6

\* A thread goes to another step of the same op.
LEMMA CallGoto ==
    ASSUME Typed, NEW th \in Threads, CallInv(th), pc[th] # "ready", NEW step, Goto(th, step),
           step \in StepsOf[Head(todo[th]).step], step \notin {"leave", "r0leave"},
           \/ /\ step \in {"dec", "signal"} <=> pc[th] \in {"dec", "signal"}
              /\ depth'[th] = depth[th]
           \/ /\ step = "dec" /\ pc[th] = "leave"
              /\ array[th] # <<>> => depth'[th] = [depth[th] EXCEPT ![Sect(th)] = 0]
           \/ array[th] = <<>>
    PROVE  /\ CallInv(th)' /\ pc' = [pc EXCEPT ![th] = step] /\ pc'[th] = step
           /\ pc' \in [Threads -> Steps \union R0Steps]
<1>1. /\ todo[th] # <<>> /\ todo[th] \in Seq(CallOps) /\ Head(todo[th]) \in CallOps
      /\ array[th] # <<>> => array[th] \in Seq(Sects) /\ IsInjective(array[th])
  BY CallIs
<1>2. step \in Steps \union R0Steps /\ step # "ready"
  BY <1>1 DEF CallOps, StepsOf, Steps, R0Steps
<1>3. /\ pc' = [pc EXCEPT ![th] = step] /\ pc'[th] = step /\ UNCHANGED <<todo, array, miss>>
      /\ pc' \in [Threads -> Steps \union R0Steps]
  BY <1>2 DEF Goto, Typed
<1>4. CASE array[th] = <<>>
  BY <1>1, <1>2, <1>3, <1>4 DEF CallInv
<1>5. CASE array[th] # <<>>
  <2>1. /\ Script(todo[th], array[th], miss[th])
        /\ depth[th] = [s \in Sects |-> IF s \in Held(todo[th], array[th], pc[th] \in {"dec", "signal"})
                                        THEN 1 ELSE 0]
    BY <1>5 DEF CallInv
  <2>2. depth'[th] = [s \in Sects |-> IF s \in Held(todo[th], array[th], step \in {"dec", "signal"})
                                      THEN 1 ELSE 0]
    <3>1. CASE (step \in {"dec", "signal"} <=> pc[th] \in {"dec", "signal"}) /\ depth'[th] = depth[th]
      BY <2>1, <3>1
    <3>2. CASE step = "dec" /\ pc[th] = "leave" /\ depth'[th] = [depth[th] EXCEPT ![Sect(th)] = 0]
      <4>1. Head(todo[th]).step = "leave"
        BY <1>1, <3>2 DEF CallOps, StepsOf, R0Steps, CallInv
      <4>2. /\ Coming(todo[th]) = Range(array[th])
            /\ Going(Tail(todo[th])) = Going(todo[th]) \ {Sect(th)}
        BY <1>1, <1>5, <2>1, <4>1, ScriptTail DEF Sect
      <4>3. \A s \in Sects : s \in Held(todo[th], array[th], TRUE) <=>
                s \in Held(todo[th], array[th], FALSE) /\ s # Sect(th)
        BY <4>2 DEF Held
      <4>4. (step \in {"dec", "signal"}) = TRUE /\ (pc[th] \in {"dec", "signal"}) = FALSE
        BY <3>2
      <4> QED BY <2>1, <3>2, <4>3, <4>4
    <3> QED BY <1>5, <3>1, <3>2
  <2> QED BY <1>1, <1>2, <1>3, <1>5, <2>1, <2>2 DEF CallInv
<1> QED BY <1>4, <1>5

----------------------------------------------------------------------------
(* Counting entries *)

\* The entries into a section, by how deep each thread is in it, who is under way,
\* and whether a leave is queued; and their number.
EntriesOf(dep, und, queued) ==
    (UNION {{th} \X (1 .. dep[th]) : th \in Threads})
        \union (und \X {0})
        \union (IF queued THEN {<<Nil, 0>>} ELSE {})

Counted(dep, und, queued, n) ==
    /\ IsFiniteSet(EntriesOf(dep, und, queued))
    /\ n + 1 = Cardinality(EntriesOf(dep, und, queued))

Deps(s) == [th \in Threads |-> depth[th][s]]

\* What is an entry.
LEMMA EntryIs ==
    ASSUME NEW dep, NEW und, NEW queued, NEW e
    PROVE  e \in EntriesOf(dep, und, queued) <=>
              \/ \E th \in Threads : \E k \in 1 .. dep[th] : e = <<th, k>>
              \/ \E th \in und : e = <<th, 0>>
              \/ queued /\ e = <<Nil, 0>>
<1> DEFINE A == UNION {{th} \X (1 .. dep[th]) : th \in Threads}
           B == und \X {0}
           C == IF queued THEN {<<Nil, 0>>} ELSE {}
<1>1. e \in A <=> \E th \in Threads : \E k \in 1 .. dep[th] : e = <<th, k>>
  OBVIOUS
<1>2. e \in B <=> \E th \in und : e = <<th, 0>>
  OBVIOUS
<1>3. e \in C <=> queued /\ e = <<Nil, 0>>
  OBVIOUS
<1>4. EntriesOf(dep, und, queued) = (A \union B) \union C
  BY DEF EntriesOf
<1> HIDE DEF A, B, C
<1> QED BY <1>1, <1>2, <1>3, <1>4

\* One element more is one more.
LEMMA OneMore ==
    ASSUME NEW S, NEW T, NEW x, x \notin S, T = S \union {x}, NEW n \in Int
    PROVE  IsFiniteSet(S) /\ n + 1 = Cardinality(S) <=>
               IsFiniteSet(T) /\ (n + 1) + 1 = Cardinality(T)
<1>1. IsFiniteSet(S) => /\ IsFiniteSet(T) /\ Cardinality(T) = Cardinality(S) + 1
                        /\ Cardinality(S) \in Nat
  BY FS_AddElement, FS_CardinalityType
<1>2. IsFiniteSet(T) => IsFiniteSet(S)
  <2>1. S \in SUBSET T
    OBVIOUS
  <2> QED BY <2>1, FS_Subset
<1> QED BY <1>1, <1>2

\* A thread that enters once more ...
LEMMA CountEnter ==
    ASSUME NEW dep \in [Threads -> Nat], NEW und \in SUBSET Threads, NEW queued \in BOOLEAN,
           NEW th \in Threads, NEW n \in Int
    PROVE  Counted(dep, und, queued, n) <=>
               Counted([dep EXCEPT ![th] = @ + 1], und, queued, n + 1)
<1> DEFINE more == [dep EXCEPT ![th] = @ + 1]
           x == <<th, dep[th] + 1>>
           S == EntriesOf(dep, und, queued)
           T == EntriesOf(more, und, queued)
<1>1. /\ more \in [Threads -> Nat] /\ more[th] = dep[th] + 1
      /\ \A u \in Threads : u # th => more[u] = dep[u]
  OBVIOUS
<1>2. dep[th] \in Nat /\ 1 .. more[th] = (1 .. dep[th]) \union {dep[th] + 1}
      /\ dep[th] + 1 \notin 1 .. dep[th] /\ dep[th] + 1 # 0
  BY <1>1
<1> HIDE DEF more
<1>3. x \notin S
  <2>1. ~ \E u \in Threads : \E k \in 1 .. dep[u] : x = <<u, k>>
    BY <1>2
  <2>2. (~ \E u \in und : x = <<u, 0>>) /\ x # <<Nil, 0>>
    BY <1>2
  <2> HIDE DEF x
  <2> QED BY <2>1, <2>2, EntryIs
<1>4. \A e : (\E u \in Threads : \E k \in 1 .. more[u] : e = <<u, k>>) <=>
             \/ \E u \in Threads : \E k \in 1 .. dep[u] : e = <<u, k>>
             \/ e = x
  BY <1>1, <1>2
<1> HIDE DEF x
<1>5. T = S \union {x}
  <2>1. \A e : e \in T <=> e \in S \/ e = x
    BY <1>4, EntryIs
  <2> QED BY <2>1
<1> HIDE DEF S, T
<1>6. IsFiniteSet(S) /\ n + 1 = Cardinality(S) <=> IsFiniteSet(T) /\ (n + 1) + 1 = Cardinality(T)
  BY <1>3, <1>5, OneMore
<1> QED BY <1>6 DEF Counted, S, T, more

\* ... that is under way ...
LEMMA CountUnderWay ==
    ASSUME NEW dep \in [Threads -> Nat], NEW und \in SUBSET Threads, NEW queued \in BOOLEAN,
           NEW th \in Threads, th \notin und, NEW n \in Int
    PROVE  Counted(dep, und, queued, n) <=> Counted(dep, und \union {th}, queued, n + 1)
<1> DEFINE x == <<th, 0>>
           S == EntriesOf(dep, und, queued)
           T == EntriesOf(dep, und \union {th}, queued)
<1>1. x \notin S
  <2>1. ~ \E u \in Threads : \E k \in 1 .. dep[u] : x = <<u, k>>
    OBVIOUS
  <2>2. (~ \E u \in und : x = <<u, 0>>) /\ x # <<Nil, 0>>
    BY CritSectAssumption
  <2> HIDE DEF x
  <2> QED BY <2>1, <2>2, EntryIs
<1>2. T = S \union {x}
  <2>1. \A e : e \in T <=> e \in S \/ e = x
    BY EntryIs
  <2> QED BY <2>1
<1> HIDE DEF x, S, T
<1>3. IsFiniteSet(S) /\ n + 1 = Cardinality(S) <=> IsFiniteSet(T) /\ (n + 1) + 1 = Cardinality(T)
  BY <1>1, <1>2, OneMore
<1> QED BY <1>3 DEF Counted, S, T

\* ... or whose leave is queued makes one entry more.
LEMMA CountQueued ==
    ASSUME NEW dep \in [Threads -> Nat], NEW und \in SUBSET Threads, NEW n \in Int
    PROVE  Counted(dep, und, FALSE, n) <=> Counted(dep, und, TRUE, n + 1)
<1> DEFINE x == <<Nil, 0>>
           S == EntriesOf(dep, und, FALSE)
           T == EntriesOf(dep, und, TRUE)
<1>1. x \notin S
  <2>1. ~ \E u \in Threads : \E k \in 1 .. dep[u] : x = <<u, k>>
    OBVIOUS
  <2>2. ~ \E u \in und : x = <<u, 0>>
    BY CritSectAssumption
  <2> HIDE DEF x
  <2>3. x \in EntriesOf(dep, und, FALSE) <=>
            \/ \E u \in Threads : \E k \in 1 .. dep[u] : x = <<u, k>>
            \/ \E u \in und : x = <<u, 0>>
            \/ FALSE /\ x = <<Nil, 0>>
    <3>1. \A queued : x \in EntriesOf(dep, und, queued) <=>
              \/ \E u \in Threads : \E k \in 1 .. dep[u] : x = <<u, k>>
              \/ \E u \in und : x = <<u, 0>>
              \/ queued /\ x = <<Nil, 0>>
      BY EntryIs
    <3> QED BY <3>1
  <2> QED BY <2>1, <2>2, <2>3
<1>2. T = S \union {x}
  <2>1. \A e : e \in T <=> e \in S \/ e = x
    BY EntryIs, ZenonT(30)
  <2> QED BY <2>1
<1> HIDE DEF x, S, T
<1>3. IsFiniteSet(S) /\ n + 1 = Cardinality(S) <=> IsFiniteSet(T) /\ (n + 1) + 1 = Cardinality(T)
  BY <1>1, <1>2, OneMore
<1> QED BY <1>3 DEF Counted, S, T

\* Two entries count for two.
LEMMA CountTwo ==
    ASSUME NEW dep \in [Threads -> Nat], NEW und \in SUBSET Threads, NEW queued \in BOOLEAN,
           NEW n \in Int, Counted(dep, und, queued, n), NEW th \in Threads, dep[th] > 0
    PROVE  /\ n >= 0
           /\ dep[th] > 1 \/ queued => n >= 1
<1> DEFINE less == [dep EXCEPT ![th] = @ - 1]
<1>1. less \in [Threads -> Nat] /\ [less EXCEPT ![th] = @ + 1] = dep /\ less[th] = dep[th] - 1
  <2>1. dep[th] - 1 \in Nat /\ (dep[th] - 1) + 1 = dep[th]
    OBVIOUS
  <2> QED BY <2>1
<1> HIDE DEF less
<1>2. Counted(less, und, queued, n - 1)
  <2>1. Counted(less, und, queued, n - 1) <=>
            Counted([less EXCEPT ![th] = @ + 1], und, queued, (n - 1) + 1)
    <3>1. n - 1 \in Int
      OBVIOUS
    <3> QED BY <1>1, <3>1, CountEnter
  <2>2. (n - 1) + 1 = n
    OBVIOUS
  <2> QED BY <1>1, <2>1, <2>2
<1>3. /\ IsFiniteSet(EntriesOf(less, und, queued))
      /\ (n - 1) + 1 = Cardinality(EntriesOf(less, und, queued))
      /\ Cardinality(EntriesOf(less, und, queued)) \in Nat
  BY <1>2, FS_CardinalityType DEF Counted
<1>4. n >= 0
  BY <1>3
<1>5. ASSUME dep[th] > 1 \/ queued PROVE EntriesOf(less, und, queued) # {}
  <2>1. CASE dep[th] > 1
    <3>1. 1 \in 1 .. less[th]
      BY <1>1, <2>1
    <3>2. <<th, 1>> \in EntriesOf(less, und, queued)
      BY <3>1, EntryIs
    <3> QED BY <3>2
  <2>2. CASE queued
    <3>1. <<Nil, 0>> \in EntriesOf(less, und, queued)
      BY <2>2, EntryIs
    <3> QED BY <3>1
  <2> QED BY <1>5, <2>1, <2>2
<1>6. ASSUME dep[th] > 1 \/ queued PROVE n >= 1
  <2>1. Cardinality(EntriesOf(less, und, queued)) # 0
    BY <1>3, <1>5, <1>6, FS_EmptySet
  <2> QED BY <1>3, <2>1
<1> QED BY <1>4, <1>6

----------------------------------------------------------------------------
(* What a step leaves alone *)

\* th takes a step of a call on s: nothing becomes of other threads and sections.
Moves(th, s) ==
    /\ \A u \in Threads : u # th =>
          /\ pc'[u] = pc[u] /\ todo'[u] = todo[u] /\ array'[u] = array[u] /\ miss'[u] = miss[u]
          /\ depth'[u] = depth[u]
    /\ \A r \in Sects : r # s =>
          /\ cLockers'[r] = cLockers[r] /\ cNestings'[r] = cNestings[r]
          /\ owner'[r] = owner[r] /\ sem'[r] = sem[r]
          /\ depth'[th][r] = depth[th][r]
          /\ r \in Range(queue') <=> r \in Range(queue)
    /\ pc[th] \in Aside \/ Sect(th) = s
    /\ pc'[th] \in Aside \/ Sect(th)' = s
    /\ th # EMT => queue' = queue

\* Who keeps, counts and has in hand what, but for th and s.
LEMMA MovesFrame ==
    ASSUME Typed, Typed', NEW th \in Threads, NEW s \in Sects, Moves(th, s)
    PROVE  /\ \A u \in Threads : u # th =>
                 /\ Sect(u)' = Sect(u) /\ pc'[u] = pc[u] /\ depth'[u] = depth[u]
                 /\ \A r \in Sects : /\ Keeps(u, r)' <=> Keeps(u, r)
                                     /\ u \in UnderWay(r)' <=> u \in UnderWay(r)
           /\ \A r \in Sects : r # s =>
                 /\ Keeps(th, r)' <=> Keeps(th, r)
                 /\ th \notin UnderWay(r) /\ th \notin UnderWay(r)'
                 /\ InHand(r)' <=> InHand(r)
           /\ \A r \in Sects : r # s => Deps(r)' = Deps(r)
           /\ Deps(s)' = [Deps(s) EXCEPT ![th] = depth'[th][s]]
<1>1. ASSUME NEW u \in Threads, u # th
      PROVE  /\ Sect(u)' = Sect(u) /\ pc'[u] = pc[u] /\ depth'[u] = depth[u]
             /\ \A r \in Sects : /\ Keeps(u, r)' <=> Keeps(u, r)
                                 /\ u \in UnderWay(r)' <=> u \in UnderWay(r)
  <2>1. Sect(u)' = Sect(u) /\ pc'[u] = pc[u] /\ depth'[u] = depth[u]
    BY <1>1 DEF Moves, Sect
  <2>2. u = EMT => queue' = queue
    BY <1>1 DEF Moves
  <2> QED BY <2>1, <2>2 DEF Keeps, UnderWay
<1>2. ASSUME NEW r \in Sects, r # s
      PROVE  /\ Keeps(th, r)' <=> Keeps(th, r)
             /\ th \notin UnderWay(r) /\ th \notin UnderWay(r)'
             /\ InHand(r)' <=> InHand(r)
  <2>1. /\ depth'[th][r] = depth[th][r]
        /\ r \in Range(queue') <=> r \in Range(queue)
        /\ pc[th] \in Aside \/ Sect(th) # r
        /\ pc'[th] \in Aside \/ Sect(th)' # r
    BY <1>2 DEF Moves
  <2>2. /\ depth'[th][r] = depth[th][r]
        /\ ~(pc[th] \in Passing \union Entering /\ Sect(th) = r)
        /\ ~(pc'[th] \in Passing \union Entering /\ Sect(th)' = r)
    BY <1>2, <2>1 DEF Aside, Passing, Entering, Moves
  <2>3. Keeps(th, r)' <=> Keeps(th, r)
    BY <2>1, <2>2 DEF Keeps
  <2>4. th \notin UnderWay(r) /\ th \notin UnderWay(r)'
    BY <2>2 DEF UnderWay
  <2>5. InHand(r)' <=> InHand(r)
    <3>1. CASE th = EMT
      BY <2>2, <3>1 DEF InHand, Passing
    <3>2. CASE th # EMT
      BY <1>1, <3>2 DEF InHand, Threads
    <3> QED BY <3>1, <3>2
  <2> QED BY <2>3, <2>4, <2>5
<1>3. \A r \in Sects : r # s => Deps(r)' = Deps(r)
  BY <1>1 DEF Deps, Moves
<1>4. Deps(s)' = [Deps(s) EXCEPT ![th] = depth'[th][s]]
  BY <1>1 DEF Deps
<1> QED BY <1>1, <1>2, <1>3, <1>4

\* The step keeps OwnInv if it does so for s and th; the owner of s it only
\* changes when it keeps s.
LEMMA OwnFrame ==
    ASSUME SectInv, Typed', NEW th \in Threads, NEW s \in Sects, Moves(th, s),
           IsInjective(queue'), Owned(s)', Owns(th)',
           owner'[s] = owner[s] \/ Keeps(th, s)
    PROVE  OwnInv'
<1> USE MovesFrame DEF SectInv
<1>1. ASSUME NEW r \in Sects PROVE Owned(r)'
  <2>1. CASE r = s
    BY <2>1
  <2>2. CASE r # s
    <3>1. /\ cNestings'[r] = cNestings[r] /\ owner'[r] = owner[r] /\ sem'[r] = sem[r]
          /\ r \in Range(queue') <=> r \in Range(queue)
          /\ InHand(r)' <=> InHand(r)
          /\ \A u \in Threads : depth'[u][r] = depth[u][r]
      BY <2>2 DEF Moves
    <3>2. owner[r] # Nil => owner[r] \in Threads
      BY DEF Typed
    <3>3. EMT \in Threads
      BY DEF Threads
    <3>4. Owned(r)
      BY DEF OwnInv
    <3> QED BY <3>1, <3>2, <3>3, <3>4 DEF Owned, QueuedOnce
  <2> QED BY <2>1, <2>2
<1>2. ASSUME NEW u \in Threads PROVE Owns(u)'
  <2>1. CASE u = th
    BY <2>1
  <2>2. CASE u # th
    <3>1. Sect(u)' = Sect(u) /\ pc'[u] = pc[u] /\ depth'[u] = depth[u]
      BY <2>2
    <3>2. \A r \in Sects : Keeps(u, r) => owner'[r] = owner[r]
      BY <2>2 DEF KeepInv, Moves
    <3>3. \A r \in Sects : depth[u][r] > 0 => Keeps(u, r)
      BY DEF Keeps
    <3>4. pc[u] \in Passing => Sect(u) \in Sects /\ Keeps(u, Sect(u))
      <4>1. ASSUME pc[u] \in Passing PROVE Sect(u) \in Sects
        BY <4>1, CallIs DEF Passing, SectInv
      <4> QED BY <4>1 DEF Keeps
    <3>5. Owns(u)
      BY DEF OwnInv
    <3> QED BY <3>1, <3>2, <3>3, <3>4, <3>5 DEF Owns, Passing
  <2> QED BY <2>1, <2>2
<1> QED BY <1>1, <1>2 DEF OwnInv

\* The step keeps KeepInv if at s either th keeps nothing and nothing changes, or
\* th kept s, or nobody did but perhaps the semaphore.
LEMMA KeepFrame ==
    ASSUME SectInv, Typed', NEW th \in Threads, NEW s \in Sects, Moves(th, s),
           cLockers'[s] >= -1,
           \/ /\ ~Keeps(th, s) /\ ~Keeps(th, s)' /\ sem'[s] = sem[s]
              /\ cLockers'[s] >= 0 <=> cLockers[s] >= 0
           \/ /\ Keeps(th, s) /\ ~(sem'[s] /\ Keeps(th, s)')
              /\ cLockers'[s] >= 0 <=> sem'[s] \/ Keeps(th, s)'
           \/ /\ sem[s] \/ ~(cLockers[s] >= 0)
              /\ ~sem'[s] /\ Keeps(th, s)' /\ cLockers'[s] >= 0
    PROVE  KeepInv'
<1> USE DEF SectInv
<1>1. \A u \in Threads : u # th => \A r \in Sects : Keeps(u, r)' <=> Keeps(u, r)
  BY MovesFrame
<1>2. \A r \in Sects : r # s => /\ \A u \in Threads : Keeps(u, r)' <=> Keeps(u, r)
                                /\ sem'[r] = sem[r] /\ cLockers'[r] = cLockers[r]
  BY <1>1, MovesFrame DEF Moves
<1>3. ASSUME NEW r \in Sects, r # s
      PROVE  /\ \A t, u \in Threads : Keeps(t, r)' /\ Keeps(u, r)' => t = u
             /\ sem'[r] => \A t \in Threads : ~Keeps(t, r)'
             /\ cLockers'[r] >= -1
             /\ cLockers'[r] >= 0 <=> sem'[r] \/ \E t \in Threads : Keeps(t, r)'
  BY <1>2, <1>3 DEF KeepInv
<1>4. /\ \A t, u \in Threads : Keeps(t, s)' /\ Keeps(u, s)' => t = u
      /\ sem'[s] => \A t \in Threads : ~Keeps(t, s)'
      /\ cLockers'[s] >= 0 <=> sem'[s] \/ \E t \in Threads : Keeps(t, s)'
  <2> DEFINE Free == \A u \in Threads : u # th => ~Keeps(u, s)'
  <2>1. CASE /\ ~Keeps(th, s) /\ ~Keeps(th, s)' /\ sem'[s] = sem[s]
             /\ cLockers'[s] >= 0 <=> cLockers[s] >= 0
    BY <1>1, <2>1 DEF KeepInv
  <2>2. CASE /\ Keeps(th, s) /\ ~(sem'[s] /\ Keeps(th, s)')
             /\ cLockers'[s] >= 0 <=> sem'[s] \/ Keeps(th, s)'
    <3>1. Free
      BY <1>1, <2>2 DEF KeepInv
    <3> QED BY <2>2, <3>1
  <2>3. CASE /\ sem[s] \/ ~(cLockers[s] >= 0)
             /\ ~sem'[s] /\ Keeps(th, s)' /\ cLockers'[s] >= 0
    <3>1. Free
      BY <1>1, <2>3 DEF KeepInv
    <3> QED BY <2>3, <3>1
  <2> QED BY <2>1, <2>2, <2>3
<1> QED BY <1>3, <1>4 DEF KeepInv

\* 1 for what is so.
One(b) == IF b THEN 1 ELSE 0

\* CountInv in terms of the counts.
LEMMA CountIs ==
    ASSUME NEW s \in Sects
    PROVE  /\ EntriesInto(s) = EntriesOf(Deps(s), UnderWay(s), s \in Range(queue))
           /\ EntriesInto(s)' = EntriesOf(Deps(s)', UnderWay(s)', s \in Range(queue'))
<1>1. EntriesInto(s) = EntriesOf(Deps(s), UnderWay(s), s \in Range(queue))
  BY DEF EntriesInto, EntriesOf, Deps
<1>2. EntriesInto(s)' = EntriesOf(Deps(s)', UnderWay(s)', s \in Range(queue'))
  BY DEF EntriesInto, EntriesOf, Deps
<1> QED BY <1>1, <1>2

\* cLockers counts on while it changes by what the entries of th, whether it is
\* under way, and the queue change.
LEMMA CountFrame ==
    ASSUME SectInv, Typed', NEW th \in Threads, NEW s \in Sects, Moves(th, s),
           NEW d \in {-1, 0, 1}, depth'[th][s] = depth[th][s] + d,
           cLockers'[s] = cLockers[s] + d + One(th \in UnderWay(s)') - One(th \in UnderWay(s))
                              + One(s \in Range(queue')) - One(s \in Range(queue))
    PROVE  CountInv'
<1> DEFINE dep == Deps(s)
           dep2 == Deps(s)'
           und == UnderWay(s)
           und2 == UnderWay(s)'
           q == s \in Range(queue)
           q2 == s \in Range(queue')
<1>1. /\ dep2 = [dep EXCEPT ![th] = depth'[th][s]]
      /\ \A u \in Threads : u # th => (u \in und2 <=> u \in und)
      /\ \A r \in Sects : r # s => /\ Deps(r)' = Deps(r)
                                   /\ \A u \in Threads : u \in UnderWay(r)' <=> u \in UnderWay(r)
                                   /\ cLockers'[r] = cLockers[r]
                                   /\ r \in Range(queue') <=> r \in Range(queue)
  <2> USE MovesFrame DEF SectInv
  <2>1. dep2 = [dep EXCEPT ![th] = depth'[th][s]]
    OBVIOUS
  <2>2. \A u \in Threads : u # th => (u \in und2 <=> u \in und)
    OBVIOUS
  <2>3. ASSUME NEW r \in Sects, r # s
        PROVE  /\ Deps(r)' = Deps(r)
               /\ \A u \in Threads : u \in UnderWay(r)' <=> u \in UnderWay(r)
    BY <2>3
  <2>4. ASSUME NEW r \in Sects, r # s
        PROVE  /\ cLockers'[r] = cLockers[r]
               /\ r \in Range(queue') <=> r \in Range(queue)
    BY <2>4 DEF Moves
  <2> QED BY <2>1, <2>2, <2>3, <2>4
<1>2. /\ dep \in [Threads -> Nat] /\ dep2 \in [Threads -> Nat] /\ dep[th] = depth[th][s]
      /\ dep2[th] = dep[th] + d /\ cLockers[s] \in Int
  BY DEF SectInv, Typed, Deps
<1>3. und \in SUBSET Threads /\ und2 \in SUBSET Threads /\ q \in BOOLEAN /\ q2 \in BOOLEAN
  BY DEF UnderWay
<1>4. Counted(dep, und, q, cLockers[s])
  BY CountIs DEF SectInv, CountInv, Counted
<1>5. ASSUME NEW r \in Sects, r # s
      PROVE  IsFiniteSet(EntriesInto(r)') /\ cLockers'[r] + 1 = Cardinality(EntriesInto(r)')
  <2>1. UnderWay(r)' = UnderWay(r)
    <3>1. UnderWay(r) \subseteq Threads /\ UnderWay(r)' \subseteq Threads
      BY DEF UnderWay
    <3> QED BY <1>1, <1>5, <3>1
  <2>2. (r \in Range(queue')) = (r \in Range(queue))
    BY <1>1, <1>5
  <2>3. EntriesInto(r)' = EntriesInto(r)
    BY <1>1, <1>5, <2>1, <2>2, CountIs
  <2> QED BY <1>1, <1>5, <2>3 DEF SectInv, CountInv
<1>6. cLockers'[s] = cLockers[s] + d + One(th \in und2) - One(th \in und) + One(q2) - One(q)
  OBVIOUS
<1> HIDE DEF dep, dep2, und, und2, q, q2
<1>7. Counted(dep2, und, q, cLockers[s] + d)
  <2>1. CASE d = 0
    <3>1. dep2 = dep /\ cLockers[s] + d = cLockers[s]
      BY <1>1, <1>2, <2>1
    <3> QED BY <1>4, <3>1
  <2>2. CASE d = 1
    <3>1. dep2 = [dep EXCEPT ![th] = @ + 1] /\ cLockers[s] + d = cLockers[s] + 1
      BY <1>1, <1>2, <2>2
    <3>2. Counted(dep, und, q, cLockers[s]) <=>
              Counted([dep EXCEPT ![th] = @ + 1], und, q, cLockers[s] + 1)
      BY <1>2, <1>3, CountEnter
    <3> QED BY <1>4, <3>1, <3>2
  <2>3. CASE d = -1
    <3>1. dep = [dep2 EXCEPT ![th] = @ + 1] /\ cLockers[s] - 1 \in Int
          /\ (cLockers[s] - 1) + 1 = cLockers[s] /\ cLockers[s] + d = cLockers[s] - 1
      <4>1. dep2[th] + 1 = dep[th] /\ \A u \in Threads : u # th => dep2[u] = dep[u]
        BY <1>1, <1>2, <2>3
      <4>2. dep = [dep2 EXCEPT ![th] = @ + 1]
        BY <1>2, <4>1
      <4> QED BY <1>2, <2>3, <4>2
    <3>2. Counted(dep2, und, q, cLockers[s] - 1) <=>
              Counted([dep2 EXCEPT ![th] = @ + 1], und, q, (cLockers[s] - 1) + 1)
      BY <1>2, <1>3, <3>1, CountEnter
    <3> QED BY <1>4, <3>1, <3>2
  <2> QED BY <2>1, <2>2, <2>3
<1>8. Counted(dep2, und2, q, cLockers[s] + d + One(th \in und2) - One(th \in und))
  <2> DEFINE n == cLockers[s] + d
  <2>1. n \in Int /\ n + 1 - 0 = n + 1 /\ n + 0 - 1 = n - 1 /\ (n - 1) + 1 = n /\ n - 1 \in Int
        /\ n + 1 - 1 = n /\ n + 0 - 0 = n
    BY <1>2
  <2> HIDE DEF n
  <2>2. CASE th \in und <=> th \in und2
    <3>1. und2 = und
      <4>1. \A u \in Threads : u \in und2 <=> u \in und
        BY <1>1, <2>2
      <4> QED BY <1>3, <4>1
    <3> QED BY <1>7, <2>1, <2>2, <3>1 DEF One, n
  <2>3. CASE th \notin und /\ th \in und2
    <3>1. und2 = und \union {th}
      BY <1>1, <1>3, <2>3
    <3>2. n + One(th \in und2) - One(th \in und) = n + 1
      BY <2>1, <2>3 DEF One
    <3> QED BY <1>2, <1>3, <1>7, <2>1, <2>3, <3>1, <3>2, CountUnderWay DEF n
  <2>4. CASE th \in und /\ th \notin und2
    <3>1. und = und2 \union {th}
      BY <1>1, <1>3, <2>4
    <3>2. n + One(th \in und2) - One(th \in und) = n - 1
      BY <2>1, <2>4 DEF One
    <3>3. Counted(dep2, und2, q, n - 1) <=> Counted(dep2, und2 \union {th}, q, (n - 1) + 1)
      BY <1>2, <1>3, <2>1, <2>4, CountUnderWay
    <3> QED BY <1>7, <2>1, <3>1, <3>2, <3>3 DEF n
  <2> QED BY <2>2, <2>3, <2>4
<1>9. Counted(dep2, und2, q2, cLockers'[s])
  <2> DEFINE n == cLockers[s] + d + One(th \in und2) - One(th \in und)
  <2>1. n \in Int /\ n + 1 - 0 = n + 1 /\ n + 0 - 1 = n - 1 /\ (n - 1) + 1 = n /\ n - 1 \in Int
        /\ n + 1 - 1 = n /\ n + 0 - 0 = n
    BY <1>2 DEF One
  <2>2. cLockers'[s] = n + One(q2) - One(q)
    BY <1>6
  <2> HIDE DEF n
  <2>3. Counted(dep2, und2, q, n)
    BY <1>8 DEF n
  <2>4. Counted(dep2, und2, FALSE, n) <=> Counted(dep2, und2, TRUE, n + 1)
    BY <1>2, <1>3, <2>1, CountQueued
  <2>5. Counted(dep2, und2, FALSE, n - 1) <=> Counted(dep2, und2, TRUE, (n - 1) + 1)
    BY <1>2, <1>3, <2>1, CountQueued
  <2>6. CASE q = q2
    <3>1. cLockers'[s] = n
      BY <2>1, <2>2, <2>6 DEF One
    <3> QED BY <2>3, <2>6, <3>1
  <2>7. CASE q = FALSE /\ q2 = TRUE
    <3>1. cLockers'[s] = n + 1
      BY <2>1, <2>2, <2>7 DEF One
    <3> QED BY <2>3, <2>4, <2>7, <3>1
  <2>8. CASE q = TRUE /\ q2 = FALSE
    <3>1. cLockers'[s] = n - 1
      BY <2>1, <2>2, <2>8 DEF One
    <3>2. (n - 1) + 1 = n
      BY <2>1
    <3> QED BY <2>3, <2>5, <2>8, <3>1, <3>2
  <2> QED BY <1>3, <2>6, <2>7, <2>8
<1>10. IsFiniteSet(EntriesInto(s)') /\ cLockers'[s] + 1 = Cardinality(EntriesInto(s)')
  BY <1>9, CountIs DEF Counted, dep2, und2, q2
<1> QED BY <1>5, <1>10 DEF CountInv

----------------------------------------------------------------------------
(* The steps of a call *)

\* What a step of th in a call on s does to the sections and to the entries.
Touches(th, s) ==
    /\ cLockers' \in [Sects -> Int] /\ cNestings' \in [Sects -> Int]
    /\ owner' \in [Sects -> Threads \union {Nil}] /\ sem' \in [Sects -> BOOLEAN]
    /\ queue' \in Seq(Sects) /\ depth' \in [Threads -> [Sects -> Nat]]
    /\ \A u \in Threads : u # th => depth'[u] = depth[u]
    /\ \A r \in Sects : r # s =>
          /\ cLockers'[r] = cLockers[r] /\ cNestings'[r] = cNestings[r]
          /\ owner'[r] = owner[r] /\ sem'[r] = sem[r]
          /\ depth'[th][r] = depth[th][r]
          /\ r \in Range(queue') <=> r \in Range(queue)
    /\ th # EMT => queue' = queue

\* What a thread in RTCritSectEnterMultiple holds of the section it is at.
LEMMA DepthAt ==
    ASSUME Typed, NEW th \in Threads, CallInv(th), pc[th] # "ready"
    PROVE  /\ Head(todo[th]).step = "r0leave" => array[th] = <<>>
           /\ array[th] # <<>> =>
                 depth[th][Sect(th)] = IF pc[th] = "leave" THEN 1 ELSE 0
           /\ pc[th] \in {"leave", "r0leave"} => depth[th][Sect(th)] > 0
<1> DEFINE t == todo[th]
           a == array[th]
<1>1. /\ t # <<>> /\ t \in Seq(CallOps) /\ Head(t) \in CallOps /\ Sect(th) \in Sects
      /\ pc[th] \in StepsOf[Head(t).step]
      /\ a # <<>> => a \in Seq(Sects) /\ IsInjective(a)
  BY CallIs
<1>2. CASE a = <<>>
  <2>1. pc[th] \in {"leave", "r0leave"} => depth[th][Sect(th)] > 0
    BY <1>2 DEF CallInv
  <2> QED BY <1>2, <2>1
<1>3. CASE a # <<>>
  <2>1. /\ a \in Seq(Sects) /\ Script(t, a, miss[th])
        /\ depth[th] = [s \in Sects |-> IF s \in Held(t, a, pc[th] \in {"dec", "signal"})
                                        THEN 1 ELSE 0]
    BY <1>1, <1>3 DEF CallInv
  <2>2. 1 \in DOMAIN t /\ Head(t) = t[1]
    BY <1>1, TailOf
  <2>3. Head(t).step # "r0leave"
    BY <2>1, <2>2 DEF Script
  <2>4. /\ Head(t).step = "leave" =>
              /\ Coming(t) = Range(a)
              /\ Head(t).sect \in Going(t)
              /\ Going(Tail(t)) = Going(t) \ {Head(t).sect}
        /\ Head(t).step # "leave" =>
              /\ Going(t) = {} /\ Going(Tail(t)) = {}
              /\ Head(t).sect \in Coming(t)
    BY <1>1, <2>1, ScriptTail
  <2>5. Head(t).step \in {"inc", "try", "leave"}
    BY <1>1, <2>3, StepsAre DEF CallOps
  <2>6. Sect(th) \in Held(t, a, pc[th] \in {"dec", "signal"}) <=> pc[th] = "leave"
    <3>1. CASE Head(t).step = "leave"
      <4>1. pc[th] \in {"leave", "dec", "signal"}
        BY <1>1, <3>1, StepsAre
      <4>2. CASE pc[th] = "leave"
        BY <2>4, <3>1, <4>2 DEF Held, Sect
      <4>3. CASE pc[th] \in {"dec", "signal"}
        BY <2>4, <3>1, <4>3 DEF Held, Sect
      <4> QED BY <4>1, <4>2, <4>3
    <3>2. CASE Head(t).step # "leave"
      <4>1. pc[th] \notin {"leave", "dec", "signal"}
        BY <1>1, <2>5, <3>2, StepsAre
      <4> QED BY <2>4, <3>2, <4>1 DEF Held, Sect
    <3> QED BY <3>1, <3>2
  <2>7. depth[th][Sect(th)] = IF pc[th] = "leave" THEN 1 ELSE 0
    BY <1>1, <2>1, <2>6
  <2>8. pc[th] # "r0leave"
    BY <1>1, <2>5, StepsAre
  <2> QED BY <2>3, <2>7, <2>8
<1> QED BY <1>2, <1>3

\* A step within an op.
LEMMA StepGoto ==
    ASSUME SectInv, NEW th \in Threads, pc[th] # "ready",
           NEW s \in Sects, s = Sect(th), Touches(th, s), NEW step, Goto(th, step),
           step \in StepsOf[Head(todo[th]).step], step \notin {"leave", "r0leave"},
           \/ /\ step \in {"dec", "signal"} <=> pc[th] \in {"dec", "signal"}
              /\ depth'[th] = depth[th]
           \/ /\ step = "dec" /\ pc[th] = "leave"
              /\ depth'[th] = [depth[th] EXCEPT ![Sect(th)] = @ - 1]
           \/ array[th] = <<>>
    PROVE  /\ Typed' /\ Moves(th, s) /\ \A u \in Threads : CallInv(u)'
           /\ pc'[th] = step /\ Sect(th)' = s
<1> USE DEF SectInv
<1>1. CallInv(th) /\ Typed
  OBVIOUS
<1>2. array[th] # <<>> /\ pc[th] = "leave" => depth[th][Sect(th)] - 1 = 0
  <2>1. array[th] # <<>> /\ pc[th] = "leave" => depth[th][Sect(th)] = 1
    BY <1>1, DepthAt
  <2> QED BY <2>1
<1>3. /\ CallInv(th)' /\ pc' = [pc EXCEPT ![th] = step] /\ pc'[th] = step
      /\ pc' \in [Threads -> Steps \union R0Steps]
  BY <1>1, <1>2, CallGoto
<1>4. UNCHANGED <<todo, array, miss>>
  BY DEF Goto
<1>5. Typed'
  BY <1>3, <1>4 DEF Typed, Touches
<1>6. Sect(th)' = Sect(th)
  BY <1>4 DEF Sect
<1>7. \A u \in Threads : u # th => pc'[u] = pc[u]
  BY <1>3 DEF Typed
<1>8. Moves(th, s)
  BY <1>4, <1>6, <1>7 DEF Moves, Touches
<1>9. \A u \in Threads : u # th => CallInv(u)'
  BY <1>8, CallSame DEF Moves
<1> QED BY <1>3, <1>5, <1>6, <1>8, <1>9

\* The last step of an op.
LEMMA StepFinish ==
    ASSUME SectInv, NEW th \in Threads, pc[th] # "ready",
           NEW s \in Sects, s = Sect(th), Touches(th, s), Finish(th),
           \/ pc[th] = "leave" /\ depth'[th] = [depth[th] EXCEPT ![Sect(th)] = @ - 1]
           \/ pc[th] \in {"dec", "signal"} /\ depth'[th] = depth[th]
           \/ /\ Head(todo[th]).step # "leave"
              /\ depth'[th] = [depth[th] EXCEPT ![Sect(th)] = @ + 1]
           \/ array[th] = <<>>
    PROVE  /\ Typed' /\ Moves(th, s) /\ \A u \in Threads : CallInv(u)'
           /\ pc'[th] \in {"ready", "inc", "try", "leave"}
<1> USE DEF SectInv
<1>1. /\ CallInv(th) /\ Typed /\ Sect(th) \in Sects /\ Head(todo[th]) \in CallOps
      /\ pc[th] \in StepsOf[Head(todo[th]).step]
  BY CallIs
<1>2. array[th] # <<>> => depth[th][Sect(th)] = IF pc[th] = "leave" THEN 1 ELSE 0
  BY <1>1, DepthAt
<1>3. pc[th] \in {"leave", "dec", "signal"} <=> Head(todo[th]).step = "leave"
  BY <1>1, StepsAre DEF CallOps
<1>4. array[th] # <<>> =>
          depth'[th] = [depth[th] EXCEPT ![Sect(th)] =
                            IF Head(todo[th]).step = "leave" THEN 0 ELSE 1]
  <2> SUFFICES ASSUME array[th] # <<>>
               PROVE  depth'[th] = [depth[th] EXCEPT ![Sect(th)] =
                                        IF Head(todo[th]).step = "leave" THEN 0 ELSE 1]
    OBVIOUS
  <2>1. depth[th] \in [Sects -> Nat]
    BY <1>1 DEF Typed
  <2>2. CASE pc[th] = "leave" /\ depth'[th] = [depth[th] EXCEPT ![Sect(th)] = @ - 1]
    BY <1>1, <1>2, <1>3, <2>1, <2>2
  <2>3. CASE pc[th] \in {"dec", "signal"} /\ depth'[th] = depth[th]
    BY <1>1, <1>2, <1>3, <2>1, <2>3
  <2>4. CASE /\ Head(todo[th]).step # "leave"
             /\ depth'[th] = [depth[th] EXCEPT ![Sect(th)] = @ + 1]
    BY <1>1, <1>2, <1>3, <2>1, <2>4
  <2> QED BY <2>2, <2>3, <2>4
<1>5. /\ CallInv(th)'
      /\ pc'[th] \in {"ready", "inc", "try", "leave"}
      /\ pc' = [pc EXCEPT ![th] = pc'[th]]
      /\ todo' = [todo EXCEPT ![th] = Tail(@)]
      /\ pc' \in [Threads -> Steps \union R0Steps] /\ todo' \in [Threads -> Seq(CallOps)]
      /\ array' \in [Threads -> Arrays \union {<<>>}] /\ miss' \in [Threads -> Nat]
      /\ \A u \in Threads : u # th => array'[u] = array[u] /\ miss'[u] = miss[u]
  BY <1>1, <1>4, CallFinish
<1>6. Typed'
  BY <1>5 DEF Typed, Touches
<1>7. \A u \in Threads : u # th => pc'[u] = pc[u] /\ todo'[u] = todo[u]
  BY <1>1, <1>5 DEF Typed
<1>8. Moves(th, s)
  BY <1>5, <1>7 DEF Moves, Touches, Aside
<1>9. \A u \in Threads : u # th => CallInv(u)'
  BY <1>8, CallSame DEF Moves
<1> QED BY <1>5, <1>6, <1>8, <1>9

\* The section changes hands as it may: it is not th's before and after, or th kept
\* it, or nobody did but perhaps the semaphore.
HandsOn(th, s) ==
    \/ /\ ~Keeps(th, s) /\ ~Keeps(th, s)' /\ sem'[s] = sem[s]
       /\ cLockers'[s] >= 0 <=> cLockers[s] >= 0
    \/ /\ Keeps(th, s) /\ ~(sem'[s] /\ Keeps(th, s)')
       /\ cLockers'[s] >= 0 <=> sem'[s] \/ Keeps(th, s)'
    \/ /\ sem[s] \/ ~(cLockers[s] >= 0)
       /\ ~sem'[s] /\ Keeps(th, s)' /\ cLockers'[s] >= 0

\* cLockers changes by what the entries of th and the queue change.
CountsOn(th, s) ==
    /\ depth'[th][s] - depth[th][s] \in {-1, 0, 1}
    /\ cLockers'[s] = cLockers[s] + (depth'[th][s] - depth[th][s])
                          + One(th \in UnderWay(s)') - One(th \in UnderWay(s))
                          + One(s \in Range(queue')) - One(s \in Range(queue))

\* What is left to show of a step of th on s.
LEMMA StepKeeps ==
    ASSUME SectInv, Typed', NEW th \in Threads, NEW s \in Sects, Moves(th, s),
           \A u \in Threads : CallInv(u)',
           IsInjective(queue'), Owned(s)', Owns(th)', owner'[s] = owner[s] \/ Keeps(th, s),
           cLockers'[s] >= -1, HandsOn(th, s), CountsOn(th, s)
    PROVE  SectInv'
<1>1. OwnInv'
  BY OwnFrame
<1>2. KeepInv'
  BY KeepFrame DEF HandsOn
<1>3. CountInv'
  <2> DEFINE d == depth'[th][s] - depth[th][s]
  <2>1. depth'[th][s] \in Nat /\ depth[th][s] \in Nat
    BY DEF SectInv, Typed
  <2>2. /\ d \in {-1, 0, 1} /\ depth'[th][s] = depth[th][s] + d
        /\ cLockers'[s] = cLockers[s] + d + One(th \in UnderWay(s)') - One(th \in UnderWay(s))
                              + One(s \in Range(queue')) - One(s \in Range(queue))
    BY <2>1 DEF CountsOn
  <2> HIDE DEF d
  <2> QED BY <2>2, CountFrame
<1> QED BY <1>1, <1>2, <1>3 DEF SectInv

\* What is known of a section: its owner keeps it, and it alone.
LEMMA SectIs ==
    ASSUME SectInv, NEW s \in Sects
    PROVE  /\ owner[s] # Nil => owner[s] \in Threads /\ Keeps(owner[s], s)
           /\ \A u \in Threads : depth[u][s] > 0 => owner[s] = u /\ Keeps(u, s)
           /\ \A u \in Threads : Keeps(u, s) => ~sem[s] /\ cLockers[s] >= 0
           /\ sem[s] => cLockers[s] >= 0
           /\ cLockers[s] \in Int /\ cLockers[s] >= -1
           /\ Owned(s) /\ IsInjective(queue)
           /\ EMT \in Threads /\ Nil \notin Threads
           /\ \A u \in Threads : depth[u] \in [Sects -> Nat]
<1> USE DEF SectInv
<1>1. EMT \in Threads /\ Nil \notin Threads
  BY CritSectAssumption DEF Threads
<1>2. Owned(s) /\ IsInjective(queue) /\ \A u \in Threads : Owns(u)
  BY DEF OwnInv
<1>3. owner[s] # Nil => owner[s] \in Threads /\ Keeps(owner[s], s)
  <2>1. owner[s] # Nil => owner[s] \in Threads
    BY DEF Typed
  <2> QED BY <1>1, <1>2, <2>1 DEF Owned, Keeps, InHand, Passing
<1>4. \A u \in Threads : depth[u][s] > 0 => owner[s] = u /\ Keeps(u, s)
  BY <1>2 DEF Owns, Keeps
<1>5. cLockers[s] \in Int /\ \A u \in Threads : depth[u] \in [Sects -> Nat]
  BY DEF Typed
<1> QED BY <1>1, <1>2, <1>3, <1>4, <1>5 DEF KeepInv

\* EMT has nothing else in its hands after a step that is not one of R0.
LEMMA InHandSame ==
    ASSUME SectInv, Typed', NEW th \in Threads, NEW s \in Sects, Moves(th, s),
           pc[th] \notin {"r0test", "queue"}, pc'[th] \notin {"r0test", "queue"}
    PROVE  /\ InHand(s)' <=> InHand(s)
           /\ th = EMT => ~InHand(s)
<1>1. CASE th = EMT
  BY <1>1 DEF InHand
<1>2. CASE th # EMT
  <2>1. EMT \in Threads
    BY DEF Threads
  <2>2. Sect(EMT)' = Sect(EMT) /\ pc'[EMT] = pc[EMT]
    BY <1>2, <2>1, MovesFrame DEF SectInv
  <2> QED BY <1>2, <2>2 DEF InHand
<1> QED BY <1>1, <1>2

\* An enter keeps the invariant: it counts itself in, and takes a section nobody is in.
LEMMA StepInc ==
    ASSUME SectInv, NEW th \in Threads, Inc(th)
    PROVE  SectInv'
<1>0. Sect(th) \in Sects
  BY CallIs DEF Inc, At, SectInv
<1> SUFFICES ASSUME NEW s \in Sects, s = Sect(th) PROVE SectInv'
  BY <1>0
<1> DEFINE step == IF cLockers[s] + 1 > 0 THEN "nested" ELSE "own"
<1>1. /\ pc[th] = "inc" /\ s \in Sects /\ Head(todo[th]).step = "inc"
      /\ Typed /\ CallInv(th) /\ step \in StepsOf[Head(todo[th]).step]
  <2>1. pc[th] = "inc" /\ Typed /\ CallInv(th)
    BY DEF Inc, At, SectInv
  <2> QED BY <2>1, CallIs, StepsAre DEF CallOps
<1>2. /\ cLockers' = [cLockers EXCEPT ![s] = @ + 1] /\ Goto(th, step)
      /\ UNCHANGED <<cNestings, owner, sem, queue, depth>>
  BY DEF Inc, emtVars, useVars
<1>3. Touches(th, s)
  BY <1>1, <1>2 DEF Touches, Typed
<1>4. /\ Typed' /\ Moves(th, s) /\ \A u \in Threads : CallInv(u)'
      /\ pc'[th] = step /\ Sect(th)' = s
  BY <1>1, <1>2, <1>3, StepGoto
<1>5. cLockers'[s] = cLockers[s] + 1
  BY <1>1, <1>2 DEF Typed
<1>6. /\ Owned(s) /\ IsInjective(queue) /\ cLockers[s] \in Int /\ cLockers[s] >= -1
      /\ owner[s] # Nil => owner[s] \in Threads /\ Keeps(owner[s], s)
      /\ \A u \in Threads : Keeps(u, s) => ~sem[s] /\ cLockers[s] >= 0
      /\ sem[s] => cLockers[s] >= 0
  BY <1>1, SectIs
<1>7. Owned(s)'
  <2>1. InHand(s)' <=> InHand(s)
    <3>1. pc[th] \notin {"r0test", "queue"} /\ pc'[th] \notin {"r0test", "queue"}
      BY <1>1, <1>4
    <3> QED BY <1>1, <1>4, <3>1, InHandSame
  <2> QED BY <1>2, <1>6, <2>1 DEF Owned, QueuedOnce
<1>8. pc'[th] = "own" => owner[s] = Nil /\ ~(cLockers[s] >= 0)
  BY <1>4, <1>6
<1>9. Owns(th)'
  <2>1. Owns(th)
    BY DEF SectInv, OwnInv
  <2> QED BY <1>2, <1>4, <1>8, <2>1 DEF Owns
<1>10. /\ Keeps(th, s)' <=> Keeps(th, s) \/ pc'[th] = "own"
       /\ th \in UnderWay(s)' /\ th \notin UnderWay(s)
  BY <1>1, <1>2, <1>4 DEF Keeps, Passing, UnderWay, Entering
<1>11. HandsOn(th, s)
  BY <1>2, <1>4, <1>5, <1>6, <1>10 DEF HandsOn
<1>12. CountsOn(th, s)
  <2>1. depth[th][s] \in Nat
    BY <1>1 DEF Typed
  <2> QED BY <1>2, <1>5, <1>6, <1>10, <2>1 DEF CountsOn, One
<1>13. cLockers'[s] >= -1 /\ IsInjective(queue') /\ owner'[s] = owner[s]
  BY <1>2, <1>5, <1>6
<1> QED BY <1>1, <1>4, <1>7, <1>9, <1>11, <1>12, <1>13, StepKeeps

\* What is known of a thread in a call and of the section it is at.
LEMMA StepIs ==
    ASSUME SectInv, NEW th \in Threads, pc[th] # "ready"
    PROVE  /\ Typed /\ CallInv(th) /\ Sect(th) \in Sects
           /\ pc[th] \in StepsOf[Head(todo[th]).step]
           /\ Head(todo[th]).step \in DOMAIN StepsOf
           /\ pc[th] \in {"inc", "nested", "wait"} => Head(todo[th]).step = "inc"
           /\ pc[th] \in {"try", "perhaps"} => Head(todo[th]).step = "try"
           /\ pc[th] = "own" => Head(todo[th]).step \in {"inc", "try"}
           /\ pc[th] \in {"leave", "dec", "signal"} => Head(todo[th]).step = "leave"
           /\ pc[th] \in R0Steps => Head(todo[th]).step = "r0leave" /\ array[th] = <<>>
           /\ pc[th] \in {"leave", "r0leave"} => depth[th][Sect(th)] > 0
           /\ Owns(th)
<1>1. /\ Typed /\ CallInv(th) /\ Sect(th) \in Sects /\ Head(todo[th]).step \in DOMAIN StepsOf
      /\ pc[th] \in StepsOf[Head(todo[th]).step]
  BY CallIs DEF SectInv, CallOps
<1>2. /\ pc[th] \in {"inc", "nested", "wait"} => Head(todo[th]).step = "inc"
      /\ pc[th] \in {"try", "perhaps"} => Head(todo[th]).step = "try"
      /\ pc[th] = "own" => Head(todo[th]).step \in {"inc", "try"}
      /\ pc[th] \in {"leave", "dec", "signal"} => Head(todo[th]).step = "leave"
      /\ pc[th] \in R0Steps => Head(todo[th]).step = "r0leave"
  BY <1>1, StepsAre DEF R0Steps
<1>3. Owns(th)
  BY DEF SectInv, OwnInv
<1>4. /\ Head(todo[th]).step = "r0leave" => array[th] = <<>>
      /\ pc[th] \in {"leave", "r0leave"} => depth[th][Sect(th)] > 0
  BY <1>1, DepthAt
<1> QED BY <1>1, <1>2, <1>3, <1>4

\* One who nests, or waits, keeps it.
LEMMA StepNested ==
    ASSUME SectInv, NEW th \in Threads, Nested(th)
    PROVE  SectInv'
<1>1. pc[th] = "nested" /\ Sect(th) \in Sects
  BY StepIs DEF Nested, At
<1> SUFFICES ASSUME NEW s \in Sects, s = Sect(th) PROVE SectInv'
  BY <1>1
<1>2. /\ Typed /\ CallInv(th) /\ Owns(th) /\ Head(todo[th]).step = "inc"
      /\ {"wait"} \subseteq StepsOf[Head(todo[th]).step]
  BY <1>1, StepIs, StepsAre
<1>3. /\ Owned(s) /\ IsInjective(queue) /\ cLockers[s] \in Int /\ cLockers[s] >= -1
      /\ owner[s] # Nil => Keeps(owner[s], s)
      /\ \A u \in Threads : Keeps(u, s) => ~sem[s] /\ cLockers[s] >= 0
      /\ Nil \notin Threads /\ depth[th][s] \in Nat
  BY SectIs
<1>4. UNCHANGED <<cLockers, owner, sem, queue>>
  BY DEF Nested, emtVars
<1>5. CASE owner[s] = th
  <2>1. /\ cNestings' = [cNestings EXCEPT ![s] = @ + 1] /\ Finish(th)
        /\ depth' = [depth EXCEPT ![th][s] = @ + 1]
    BY <1>5 DEF Nested, Entered
  <2>2. Touches(th, s)
    BY <1>2, <1>4, <2>1 DEF Touches, Typed
  <2>3. /\ depth'[th] = [depth[th] EXCEPT ![s] = @ + 1]
        /\ depth'[th][s] = depth[th][s] + 1 /\ \A r \in Sects : r # s => depth'[th][r] = depth[th][r]
        /\ cNestings'[s] = cNestings[s] + 1
    BY <1>2, <2>1 DEF Typed
  <2>4. /\ Typed' /\ Moves(th, s) /\ \A u \in Threads : CallInv(u)'
        /\ pc'[th] \in {"ready", "inc", "try", "leave"}
    BY <1>1, <1>2, <2>1, <2>2, <2>3, StepFinish
  <2>5. ~InHand(s) /\ ~InHand(s)'
    <3>1. (InHand(s)' <=> InHand(s)) /\ (th = EMT => ~InHand(s))
      BY <1>1, <2>4, InHandSame
    <3> QED BY <1>3, <1>5, <3>1 DEF Owned
  <2>6. Owned(s)'
    BY <1>3, <1>4, <1>5, <2>3, <2>5 DEF Owned, QueuedOnce
  <2>7. Owns(th)'
    BY <1>2, <1>4, <1>5, <2>3, <2>4 DEF Owns
  <2>8. /\ Keeps(th, s) /\ Keeps(th, s)'
        /\ th \notin UnderWay(s)' /\ th \in UnderWay(s)
    BY <1>1, <1>3, <1>5, <2>3, <2>4 DEF Keeps, UnderWay, Entering, Passing
  <2>9. HandsOn(th, s) /\ CountsOn(th, s)
    BY <1>3, <1>4, <2>3, <2>8 DEF HandsOn, CountsOn, One
  <2> QED BY <1>3, <1>4, <2>4, <2>6, <2>7, <2>9, StepKeeps
<1>6. CASE owner[s] # th
  <2>1. Goto(th, "wait") /\ UNCHANGED <<cNestings, depth>>
    BY <1>6 DEF Nested
  <2>2. Touches(th, s)
    BY <1>2, <1>4, <2>1 DEF Touches, Typed
  <2>3. /\ Typed' /\ Moves(th, s) /\ \A u \in Threads : CallInv(u)'
        /\ pc'[th] = "wait" /\ Sect(th)' = s
    BY <1>1, <1>2, <2>1, <2>2, StepGoto
  <2>4. InHand(s)' <=> InHand(s)
    BY <1>1, <2>3, InHandSame
  <2>5. Owned(s)'
    BY <1>3, <1>4, <2>1, <2>4 DEF Owned, QueuedOnce
  <2>6. Owns(th)'
    BY <1>2, <1>4, <2>1, <2>3 DEF Owns
  <2>7. /\ Keeps(th, s)' <=> Keeps(th, s)
        /\ th \in UnderWay(s)' /\ th \in UnderWay(s)
    BY <1>1, <1>4, <2>1, <2>3 DEF Keeps, UnderWay, Entering, Passing
  <2>8. HandsOn(th, s) /\ CountsOn(th, s)
    BY <1>3, <1>4, <2>1, <2>7 DEF HandsOn, CountsOn, One
  <2> QED BY <1>3, <1>4, <2>3, <2>5, <2>6, <2>8, StepKeeps
<1> QED BY <1>5, <1>6

\* A waiter that takes the wakeup becomes the keeper.
LEMMA StepWait ==
    ASSUME SectInv, NEW th \in Threads, Wait(th)
    PROVE  SectInv'
<1>1. pc[th] = "wait" /\ Sect(th) \in Sects
  BY StepIs DEF Wait, At
<1> SUFFICES ASSUME NEW s \in Sects, s = Sect(th) PROVE SectInv'
  BY <1>1
<1>2. /\ Typed /\ CallInv(th) /\ Owns(th) /\ Head(todo[th]).step = "inc"
      /\ {"own"} \subseteq StepsOf[Head(todo[th]).step]
  BY <1>1, StepIs, StepsAre
<1>3. /\ Owned(s) /\ IsInjective(queue) /\ cLockers[s] \in Int /\ cLockers[s] >= -1
      /\ sem[s] => cLockers[s] >= 0
      /\ \A u \in Threads : Keeps(u, s) => ~sem[s] /\ cLockers[s] >= 0
      /\ depth[th][s] \in Nat
  BY SectIs
<1>4. /\ sem[s] /\ sem' = [sem EXCEPT ![s] = FALSE] /\ Goto(th, "own")
      /\ UNCHANGED <<cLockers, cNestings, owner, queue, depth>>
  BY DEF Wait, emtVars, useVars
<1>5. Touches(th, s)
  BY <1>2, <1>4, SMTT(30) DEF Touches, Typed
<1>6. /\ Typed' /\ Moves(th, s) /\ \A u \in Threads : CallInv(u)'
      /\ pc'[th] = "own" /\ Sect(th)' = s
  BY <1>1, <1>2, <1>4, <1>5, StepGoto
<1>7. ~sem'[s]
  BY <1>2, <1>4 DEF Typed
<1>8. InHand(s)' <=> InHand(s)
  BY <1>1, <1>6, InHandSame
<1>9. Owned(s)' /\ owner[s] = Nil
  BY <1>3, <1>4, <1>7, <1>8 DEF Owned, QueuedOnce
<1>10. Owns(th)'
  BY <1>2, <1>4, <1>6, <1>9 DEF Owns
<1>11. /\ Keeps(th, s)' /\ ~Keeps(th, s)
       /\ th \in UnderWay(s)' /\ th \in UnderWay(s)
  BY <1>1, <1>3, <1>4, <1>6 DEF Keeps, UnderWay, Entering, Passing
<1>12. HandsOn(th, s) /\ CountsOn(th, s)
  BY <1>3, <1>4, <1>7, <1>11 DEF HandsOn, CountsOn, One
<1> QED BY <1>3, <1>4, <1>6, <1>9, <1>10, <1>12, StepKeeps

\* The keeper becomes the owner.
LEMMA StepOwn ==
    ASSUME SectInv, NEW th \in Threads, Own(th)
    PROVE  SectInv'
<1>1. pc[th] = "own" /\ Sect(th) \in Sects
  BY StepIs DEF Own, At
<1> SUFFICES ASSUME NEW s \in Sects, s = Sect(th) PROVE SectInv'
  BY <1>1
<1>2. Typed /\ CallInv(th) /\ Owns(th) /\ Head(todo[th]).step # "leave"
  BY <1>1, StepIs
<1>3. /\ Owned(s) /\ IsInjective(queue) /\ cLockers[s] \in Int /\ cLockers[s] >= -1
      /\ \A u \in Threads : depth[u][s] > 0 => owner[s] = u
      /\ \A u \in Threads : Keeps(u, s) => ~sem[s] /\ cLockers[s] >= 0
      /\ EMT \in Threads /\ Nil \notin Threads /\ depth[th][s] \in Nat
  BY SectIs
<1>4. /\ cNestings' = [cNestings EXCEPT ![s] = 1] /\ owner' = [owner EXCEPT ![s] = th]
      /\ depth' = [depth EXCEPT ![th][s] = @ + 1] /\ Finish(th)
      /\ UNCHANGED <<cLockers, sem, queue>>
  BY DEF Own, Entered, emtVars
<1>5. Touches(th, s)
  BY <1>2, <1>4, SMTT(30) DEF Touches, Typed
<1>6. /\ depth'[th] = [depth[th] EXCEPT ![s] = @ + 1]
      /\ depth'[th][s] = depth[th][s] + 1
      /\ \A r \in Sects : r # s => depth'[th][r] = depth[th][r] /\ owner'[r] = owner[r]
      /\ cNestings'[s] = 1 /\ owner'[s] = th
  BY <1>2, <1>4 DEF Typed
<1>7. /\ Typed' /\ Moves(th, s) /\ \A u \in Threads : CallInv(u)'
      /\ pc'[th] \in {"ready", "inc", "try", "leave"}
  BY <1>1, <1>2, <1>4, <1>5, <1>6, StepFinish
<1>8. owner[s] = Nil
  BY <1>1, <1>2 DEF Owns
<1>9. depth[th][s] = 0 /\ s \notin Range(queue) /\ ~InHand(s)
  BY <1>3, <1>8 DEF Owned
<1>10. Keeps(th, s)
  BY <1>1 DEF Keeps, Passing
<1>11. InHand(s)' <=> InHand(s)
  BY <1>1, <1>7, InHandSame
<1>12. Owned(s)'
  BY <1>3, <1>4, <1>6, <1>9, <1>10, <1>11 DEF Owned, QueuedOnce
<1>13. Owns(th)'
  BY <1>2, <1>6, <1>7 DEF Owns
<1>14. Keeps(th, s)' /\ th \notin UnderWay(s)' /\ th \in UnderWay(s)
  BY <1>1, <1>6, <1>7, <1>9 DEF Keeps, UnderWay, Entering, Passing
<1>15. HandsOn(th, s) /\ CountsOn(th, s)
  BY <1>3, <1>4, <1>6, <1>10, <1>14 DEF HandsOn, CountsOn, One
<1> QED BY <1>3, <1>4, <1>7, <1>10, <1>12, <1>13, <1>15, StepKeeps

\* A try keeps the invariant: it takes the section if nobody is in.
LEMMA StepTry ==
    ASSUME SectInv, NEW th \in Threads, Try(th)
    PROVE  SectInv'
<1>1. pc[th] = "try" /\ Sect(th) \in Sects
  BY StepIs DEF Try, At
<1> SUFFICES ASSUME NEW s \in Sects, s = Sect(th) PROVE SectInv'
  BY <1>1
<1>2. /\ Typed /\ CallInv(th) /\ Owns(th) /\ Head(todo[th]).step = "try"
      /\ {"own", "perhaps"} \subseteq StepsOf[Head(todo[th]).step]
  BY <1>1, StepIs, StepsAre
<1>3. /\ Owned(s) /\ IsInjective(queue) /\ cLockers[s] \in Int /\ cLockers[s] >= -1
      /\ owner[s] # Nil => owner[s] \in Threads /\ Keeps(owner[s], s)
      /\ sem[s] => cLockers[s] >= 0
      /\ \A u \in Threads : Keeps(u, s) => ~sem[s] /\ cLockers[s] >= 0
      /\ depth[th][s] \in Nat
  BY SectIs
<1>4. UNCHANGED <<cNestings, owner, sem, queue, depth>>
  BY DEF Try, emtVars, useVars
<1>5. CASE cLockers[s] = -1
  <2>1. cLockers' = [cLockers EXCEPT ![s] = 0] /\ Goto(th, "own")
    BY <1>5 DEF Try
  <2>2. Touches(th, s) /\ cLockers'[s] = 0
    BY <1>2, <1>4, <2>1 DEF Touches, Typed
  <2>3. /\ Typed' /\ Moves(th, s) /\ \A u \in Threads : CallInv(u)'
        /\ pc'[th] = "own" /\ Sect(th)' = s
    BY <1>1, <1>2, <1>4, <2>1, <2>2, StepGoto
  <2>4. InHand(s)' <=> InHand(s)
    BY <1>1, <2>3, InHandSame
  <2>5. Owned(s)'
    BY <1>3, <1>4, <2>4 DEF Owned, QueuedOnce
  <2>6. owner[s] = Nil /\ ~sem[s] /\ ~Keeps(th, s)
    BY <1>3, <1>5
  <2>7. Owns(th)'
    BY <1>2, <1>4, <2>3, <2>6 DEF Owns
  <2>8. Keeps(th, s)' /\ th \in UnderWay(s)' /\ th \notin UnderWay(s)
    BY <1>1, <2>3 DEF Keeps, UnderWay, Entering, Passing
  <2>9. HandsOn(th, s) /\ CountsOn(th, s)
    BY <1>3, <1>4, <1>5, <2>2, <2>6, <2>8 DEF HandsOn, CountsOn, One
  <2> QED BY <1>3, <1>4, <2>2, <2>3, <2>5, <2>7, <2>9, StepKeeps
<1>6. CASE cLockers[s] # -1
  <2>1. UNCHANGED cLockers /\ Goto(th, "perhaps")
    BY <1>6 DEF Try
  <2>2. Touches(th, s)
    BY <1>2, <1>4, <2>1 DEF Touches, Typed
  <2>3. /\ Typed' /\ Moves(th, s) /\ \A u \in Threads : CallInv(u)'
        /\ pc'[th] = "perhaps" /\ Sect(th)' = s
    BY <1>1, <1>2, <1>4, <2>1, <2>2, StepGoto
  <2>4. InHand(s)' <=> InHand(s)
    BY <1>1, <2>3, InHandSame
  <2>5. Owned(s)'
    BY <1>3, <1>4, <2>4 DEF Owned, QueuedOnce
  <2>6. Owns(th)'
    BY <1>2, <1>4, <2>3 DEF Owns
  <2>7. (Keeps(th, s)' <=> Keeps(th, s)) /\ th \notin UnderWay(s)' /\ th \notin UnderWay(s)
    BY <1>1, <1>4, <2>3 DEF Keeps, UnderWay, Entering, Passing
  <2>8. HandsOn(th, s) /\ CountsOn(th, s)
    BY <1>3, <1>4, <2>1, <2>7 DEF HandsOn, CountsOn, One
  <2> QED BY <1>3, <1>4, <2>1, <2>3, <2>5, <2>6, <2>8, StepKeeps
<1> QED BY <1>5, <1>6

\* The owner nests in a try.
LEMMA StepTryNested ==
    ASSUME SectInv, NEW th \in Threads, TryNested(th)
    PROVE  SectInv'
<1>1. pc[th] = "perhaps" /\ Sect(th) \in Sects
  BY StepIs DEF TryNested, At
<1> SUFFICES ASSUME NEW s \in Sects, s = Sect(th) PROVE SectInv'
  BY <1>1
<1>2. Typed /\ CallInv(th) /\ Owns(th) /\ Head(todo[th]).step = "try"
  BY <1>1, StepIs
<1>3. /\ Owned(s) /\ IsInjective(queue) /\ cLockers[s] \in Int /\ cLockers[s] >= -1
      /\ owner[s] # Nil => Keeps(owner[s], s)
      /\ \A u \in Threads : Keeps(u, s) => ~sem[s] /\ cLockers[s] >= 0
      /\ Nil \notin Threads /\ depth[th][s] \in Nat
  BY SectIs
<1>4. /\ owner[s] = th /\ Finish(th) /\ cLockers' = [cLockers EXCEPT ![s] = @ + 1]
      /\ cNestings' = [cNestings EXCEPT ![s] = @ + 1]
      /\ depth' = [depth EXCEPT ![th][s] = @ + 1]
      /\ UNCHANGED <<owner, sem, queue>>
  BY DEF TryNested, Entered, emtVars
<1>5. Touches(th, s)
  BY <1>2, <1>4, SMTT(30) DEF Touches, Typed
<1>6. /\ depth'[th] = [depth[th] EXCEPT ![s] = @ + 1]
      /\ depth'[th][s] = depth[th][s] + 1 /\ \A r \in Sects : r # s => depth'[th][r] = depth[th][r]
      /\ cNestings'[s] = cNestings[s] + 1 /\ cLockers'[s] = cLockers[s] + 1
  BY <1>2, <1>4 DEF Typed
<1>7. /\ Typed' /\ Moves(th, s) /\ \A u \in Threads : CallInv(u)'
      /\ pc'[th] \in {"ready", "inc", "try", "leave"}
  BY <1>1, <1>2, <1>4, <1>5, <1>6, StepFinish
<1>8. ~InHand(s) /\ ~InHand(s)'
  <2>1. (InHand(s)' <=> InHand(s)) /\ (th = EMT => ~InHand(s))
    BY <1>1, <1>7, InHandSame
  <2> QED BY <1>3, <1>4, <2>1 DEF Owned
<1>9. Owned(s)'
  BY <1>3, <1>4, <1>6, <1>8 DEF Owned, QueuedOnce
<1>10. Owns(th)'
  BY <1>2, <1>4, <1>6, <1>7 DEF Owns
<1>11. /\ Keeps(th, s) /\ Keeps(th, s)'
       /\ th \notin UnderWay(s)' /\ th \notin UnderWay(s)
  BY <1>1, <1>3, <1>4, <1>6, <1>7 DEF Keeps, UnderWay, Entering, Passing
<1>12. HandsOn(th, s) /\ CountsOn(th, s)
  BY <1>3, <1>4, <1>6, <1>11 DEF HandsOn, CountsOn, One
<1>13. cLockers'[s] >= -1
  BY <1>3, <1>6
<1> QED BY <1>3, <1>4, <1>7, <1>9, <1>10, <1>12, <1>13, StepKeeps

\* A nested leave leaves two entries' worth of cLockers minus one.
LEMMA TwoEntries ==
    ASSUME SectInv, NEW th \in Threads, NEW s \in Sects, depth[th][s] > 0, cNestings[s] > 1
    PROVE  cLockers[s] >= 1 /\ (depth[th][s] > 1 \/ (s \in Range(queue) /\ th = EMT))
<1>1. /\ Deps(s) \in [Threads -> Nat] /\ Deps(s)[th] = depth[th][s]
      /\ UnderWay(s) \in SUBSET Threads /\ (s \in Range(queue)) \in BOOLEAN
  BY DEF SectInv, Typed, Deps, UnderWay
<1>2. Counted(Deps(s), UnderWay(s), s \in Range(queue), cLockers[s]) /\ cLockers[s] \in Int
  BY CountIs DEF SectInv, CountInv, Counted, Typed
<1>3. depth[th][s] > 1 \/ s \in Range(queue) => cLockers[s] >= 1
  BY <1>1, <1>2, CountTwo
<1>4. /\ owner[s] = th /\ Owned(s) /\ Nil \notin Threads /\ depth[th][s] \in Nat
  BY SectIs
<1>5. cNestings[s] = depth[th][s] + QueuedOnce(s) /\ (s \in Range(queue) => th = EMT)
  BY <1>4 DEF Owned
<1>6. s \notin Range(queue) => depth[th][s] > 1
  BY <1>4, <1>5 DEF QueuedOnce
<1>7. depth[th][s] > 1 \/ (s \in Range(queue) /\ th = EMT)
  BY <1>5, <1>6
<1> QED BY <1>3, <1>7

\* A leave keeps the invariant: the last one leaves the section without owner.
LEMMA StepLeave ==
    ASSUME SectInv, NEW th \in Threads, Leave(th)
    PROVE  SectInv'
<1>1. pc[th] = "leave" /\ Sect(th) \in Sects
  BY StepIs DEF Leave, At
<1> SUFFICES ASSUME NEW s \in Sects, s = Sect(th) PROVE SectInv'
  BY <1>1
<1>2. /\ Typed /\ CallInv(th) /\ Owns(th) /\ Head(todo[th]).step = "leave" /\ depth[th][s] > 0
      /\ {"dec"} \subseteq StepsOf[Head(todo[th]).step]
  BY <1>1, StepIs, StepsAre
<1>3. /\ Owned(s) /\ IsInjective(queue) /\ cLockers[s] \in Int /\ cLockers[s] >= -1
      /\ \A u \in Threads : depth[u][s] > 0 => owner[s] = u /\ Keeps(u, s)
      /\ \A u \in Threads : Keeps(u, s) => ~sem[s] /\ cLockers[s] >= 0
      /\ EMT \in Threads /\ Nil \notin Threads /\ depth[th][s] \in Nat
  BY SectIs
<1>4. /\ cNestings' = [cNestings EXCEPT ![s] = @ - 1]
      /\ depth' = [depth EXCEPT ![th][s] = @ - 1]
      /\ UNCHANGED <<sem, queue>>
  BY DEF Leave, Left, emtVars
<1>5. /\ depth'[th] = [depth[th] EXCEPT ![s] = @ - 1]
      /\ depth'[th][s] = depth[th][s] - 1 /\ \A r \in Sects : r # s => depth'[th][r] = depth[th][r]
      /\ cNestings'[s] = cNestings[s] - 1
      /\ depth' \in [Threads -> [Sects -> Nat]] /\ \A u \in Threads : u # th => depth'[u] = depth[u]
  <2>1. depth[th][s] - 1 \in Nat
    BY <1>2, <1>3
  <2> QED BY <1>2, <1>4, <2>1 DEF Typed
<1>6. owner[s] = th /\ Keeps(th, s) /\ cLockers[s] >= 0 /\ ~sem[s] /\ (s \in Range(queue) => th = EMT)
  BY <1>2, <1>3 DEF Owned
<1>7. ~InHand(s) /\ cNestings[s] = depth[th][s] + QueuedOnce(s)
  BY <1>2, <1>3, <1>6 DEF Owned, InHand
<1>8. CASE cNestings[s] > 1
  <2>1. cLockers' = [cLockers EXCEPT ![s] = @ - 1] /\ Finish(th) /\ UNCHANGED owner
    BY <1>8 DEF Leave, CountNested
  <2>2. Touches(th, s) /\ cLockers'[s] = cLockers[s] - 1
    BY <1>2, <1>4, <1>5, <2>1, SMTT(30) DEF Touches, Typed
  <2>3. /\ Typed' /\ Moves(th, s) /\ \A u \in Threads : CallInv(u)'
        /\ pc'[th] \in {"ready", "inc", "try", "leave"}
    BY <1>1, <1>2, <1>5, <2>1, <2>2, StepFinish
  <2>4. ~InHand(s)'
    BY <1>1, <1>7, <2>3, InHandSame
  <2>5. cLockers[s] >= 1 /\ (depth[th][s] > 1 \/ (s \in Range(queue) /\ th = EMT))
    BY <1>2, <1>8, TwoEntries
  <2>6. Owned(s)'
    <3>1. cNestings'[s] = depth'[th][s] + QueuedOnce(s)
      BY <1>3, <1>5, <1>7 DEF QueuedOnce
    <3>2. QueuedOnce(s)' = QueuedOnce(s) /\ Range(queue') = Range(queue) /\ owner'[s] = th
      BY <1>4, <1>6, <2>1 DEF QueuedOnce
    <3>3. depth'[th][s] > 0 \/ (th = EMT /\ s \in Range(queue))
      <4>1. depth[th][s] > 1 => depth'[th][s] > 0
        BY <1>3, <1>5
      <4> QED BY <2>5, <4>1
    <3> QED BY <1>3, <1>4, <1>6, <2>4, <3>1, <3>2, <3>3 DEF Owned
  <2>7. Owns(th)'
    BY <1>2, <1>4, <1>5, <1>6, <2>1, <2>3 DEF Owns
  <2>8. /\ Keeps(th, s)'
        /\ th \notin UnderWay(s)' /\ th \notin UnderWay(s)
    BY <1>1, <1>3, <1>4, <1>5, <2>3, <2>5 DEF Keeps, UnderWay, Entering, Passing
  <2>9. HandsOn(th, s) /\ CountsOn(th, s) /\ cLockers'[s] >= -1
    BY <1>3, <1>4, <1>5, <1>6, <2>2, <2>5, <2>8 DEF HandsOn, CountsOn, One
  <2> QED BY <1>3, <1>4, <2>1, <2>3, <2>6, <2>7, <2>9, StepKeeps
<1>9. CASE ~(cNestings[s] > 1)
  <2>1. owner' = [owner EXCEPT ![s] = Nil] /\ Goto(th, "dec") /\ UNCHANGED cLockers
    BY <1>9 DEF Leave
  <2>2. Touches(th, s) /\ owner'[s] = Nil /\ \A r \in Sects : r # s => owner'[r] = owner[r]
    BY <1>2, <1>4, <1>5, <2>1, SMTT(30) DEF Touches, Typed
  <2>3. /\ Typed' /\ Moves(th, s) /\ \A u \in Threads : CallInv(u)'
        /\ pc'[th] = "dec" /\ Sect(th)' = s
    BY <1>1, <1>2, <1>5, <2>1, <2>2, StepGoto
  <2>4. ~InHand(s)'
    BY <1>1, <1>7, <2>3, InHandSame
  <2>5. depth[th][s] = 1 /\ s \notin Range(queue) /\ cNestings[s] = 1
    BY <1>2, <1>3, <1>7, <1>9 DEF QueuedOnce
  <2>6. Owned(s)'
    BY <1>4, <1>5, <2>2, <2>4, <2>5 DEF Owned
  <2>7. Owns(th)'
    BY <1>2, <1>5, <2>2, <2>3, <2>5 DEF Owns
  <2>8. /\ Keeps(th, s)'
        /\ th \in UnderWay(s)' /\ th \notin UnderWay(s)
    BY <1>1, <2>3 DEF Keeps, UnderWay, Entering, Passing
  <2>9. HandsOn(th, s) /\ CountsOn(th, s)
    BY <1>3, <1>4, <1>5, <1>6, <2>1, <2>8 DEF HandsOn, CountsOn, One
  <2> QED BY <1>3, <1>4, <1>6, <2>1, <2>3, <2>6, <2>7, <2>9, StepKeeps
<1> QED BY <1>8, <1>9

\* The decrement hands the section to a waiter, or frees it.
LEMMA StepDec ==
    ASSUME SectInv, NEW th \in Threads, Dec(th)
    PROVE  SectInv'
<1>1. pc[th] = "dec" /\ Sect(th) \in Sects
  BY StepIs DEF Dec, At
<1> SUFFICES ASSUME NEW s \in Sects, s = Sect(th) PROVE SectInv'
  BY <1>1
<1>2. /\ Typed /\ CallInv(th) /\ Owns(th) /\ Head(todo[th]).step = "leave"
      /\ {"signal"} \subseteq StepsOf[Head(todo[th]).step]
  BY <1>1, StepIs, StepsAre
<1>3. /\ Owned(s) /\ IsInjective(queue) /\ cLockers[s] \in Int /\ cLockers[s] >= -1
      /\ \A u \in Threads : depth[u][s] > 0 => owner[s] = u
      /\ \A u \in Threads : Keeps(u, s) => ~sem[s] /\ cLockers[s] >= 0
      /\ EMT \in Threads /\ Nil \notin Threads /\ depth[th][s] \in Nat
  BY SectIs
<1>4. /\ cLockers' = [cLockers EXCEPT ![s] = @ - 1] /\ cLockers'[s] = cLockers[s] - 1
      /\ UNCHANGED <<cNestings, owner, sem, queue, depth>>
  BY <1>2 DEF Dec, emtVars, useVars, Typed
<1>5. Touches(th, s)
  BY <1>2, <1>4, SMTT(30) DEF Touches, Typed
<1>6. owner[s] = Nil
  BY <1>1, <1>2 DEF Owns
<1>7. depth[th][s] = 0 /\ s \notin Range(queue)
  BY <1>3, <1>6 DEF Owned
<1>8. Keeps(th, s) /\ cLockers[s] >= 0 /\ ~sem[s] /\ th \in UnderWay(s)
  BY <1>1, <1>3 DEF Keeps, Passing, UnderWay, Entering
<1>9. CASE cLockers[s] - 1 >= 0
  <2>1. Goto(th, "signal")
    BY <1>9 DEF Dec
  <2>2. /\ Typed' /\ Moves(th, s) /\ \A u \in Threads : CallInv(u)'
        /\ pc'[th] = "signal" /\ Sect(th)' = s
    BY <1>1, <1>2, <1>4, <1>5, <2>1, StepGoto
  <2>3. InHand(s)' <=> InHand(s)
    BY <1>1, <2>2, InHandSame
  <2>4. Owned(s)'
    BY <1>3, <1>4, <2>3 DEF Owned, QueuedOnce
  <2>5. Owns(th)'
    BY <1>2, <1>4, <1>6, <2>2 DEF Owns
  <2>6. Keeps(th, s)' /\ th \notin UnderWay(s)'
    BY <2>2 DEF Keeps, UnderWay, Entering, Passing
  <2>7. HandsOn(th, s) /\ CountsOn(th, s) /\ cLockers'[s] >= -1
    BY <1>3, <1>4, <1>8, <1>9, <2>6 DEF HandsOn, CountsOn, One
  <2> QED BY <1>3, <1>4, <2>2, <2>4, <2>5, <2>7, StepKeeps
<1>10. CASE ~(cLockers[s] - 1 >= 0)
  <2>1. Finish(th)
    BY <1>10 DEF Dec
  <2>2. /\ Typed' /\ Moves(th, s) /\ \A u \in Threads : CallInv(u)'
        /\ pc'[th] \in {"ready", "inc", "try", "leave"}
    BY <1>1, <1>2, <1>4, <1>5, <2>1, StepFinish
  <2>3. InHand(s)' <=> InHand(s)
    BY <1>1, <2>2, InHandSame
  <2>4. Owned(s)'
    BY <1>3, <1>4, <2>3 DEF Owned, QueuedOnce
  <2>5. Owns(th)'
    BY <1>2, <1>4, <2>2 DEF Owns
  <2>6. ~Keeps(th, s)' /\ th \notin UnderWay(s)'
    BY <1>4, <1>7, <2>2 DEF Keeps, UnderWay, Entering, Passing
  <2>7. HandsOn(th, s) /\ CountsOn(th, s) /\ cLockers'[s] >= -1
    BY <1>3, <1>4, <1>8, <1>10, <2>6 DEF HandsOn, CountsOn, One
  <2> QED BY <1>3, <1>4, <2>2, <2>4, <2>5, <2>7, StepKeeps
<1> QED BY <1>9, <1>10

\* The signal gives the section to the semaphore.
LEMMA StepSignal ==
    ASSUME SectInv, NEW th \in Threads, Signal(th)
    PROVE  SectInv'
<1>1. pc[th] = "signal" /\ Sect(th) \in Sects
  BY StepIs DEF Signal, At
<1> SUFFICES ASSUME NEW s \in Sects, s = Sect(th) PROVE SectInv'
  BY <1>1
<1>2. Typed /\ CallInv(th) /\ Owns(th) /\ Head(todo[th]).step = "leave"
  BY <1>1, StepIs
<1>3. /\ Owned(s) /\ IsInjective(queue) /\ cLockers[s] \in Int /\ cLockers[s] >= -1
      /\ \A u \in Threads : depth[u][s] > 0 => owner[s] = u
      /\ \A u \in Threads : Keeps(u, s) => ~sem[s] /\ cLockers[s] >= 0
      /\ EMT \in Threads /\ Nil \notin Threads /\ depth[th][s] \in Nat
  BY SectIs
<1>4. /\ sem' = [sem EXCEPT ![s] = TRUE] /\ sem'[s] /\ Finish(th)
      /\ UNCHANGED <<cLockers, cNestings, owner, queue, depth>>
  BY <1>2 DEF Signal, emtVars, useVars, Typed
<1>5. Touches(th, s)
  BY <1>2, <1>4, SMTT(30) DEF Touches, Typed
<1>6. owner[s] = Nil
  BY <1>1, <1>2 DEF Owns
<1>7. depth[th][s] = 0 /\ s \notin Range(queue)
  BY <1>3, <1>6 DEF Owned
<1>8. /\ Typed' /\ Moves(th, s) /\ \A u \in Threads : CallInv(u)'
      /\ pc'[th] \in {"ready", "inc", "try", "leave"}
  BY <1>1, <1>2, <1>4, <1>5, StepFinish
<1>9. InHand(s)' <=> InHand(s)
  BY <1>1, <1>8, InHandSame
<1>10. Owned(s)'
  BY <1>3, <1>4, <1>6, <1>9 DEF Owned, QueuedOnce
<1>11. Owns(th)'
  BY <1>2, <1>4, <1>8 DEF Owns
<1>12. /\ Keeps(th, s) /\ ~Keeps(th, s)'
       /\ th \notin UnderWay(s)' /\ th \notin UnderWay(s)
  BY <1>1, <1>4, <1>7, <1>8 DEF Keeps, UnderWay, Entering, Passing
<1>13. HandsOn(th, s) /\ CountsOn(th, s)
  BY <1>3, <1>4, <1>12 DEF HandsOn, CountsOn, One
<1> QED BY <1>3, <1>4, <1>8, <1>10, <1>11, <1>13, StepKeeps

\* EMT leaves in ring-0: a nested leave counts, the last one has the section in hand.
LEMMA StepR0Leave ==
    ASSUME SectInv, R0Leave
    PROVE  SectInv'
<1>0. EMT \in Threads /\ Nil \notin Threads
  BY CritSectAssumption DEF Threads
<1>1. pc[EMT] = "r0leave" /\ Sect(EMT) \in Sects
  BY <1>0, StepIs DEF R0Leave, At
<1> SUFFICES ASSUME NEW s \in Sects, s = Sect(EMT) PROVE SectInv'
  BY <1>1
<1>2. /\ Typed /\ CallInv(EMT) /\ Owns(EMT) /\ Head(todo[EMT]).step = "r0leave"
      /\ array[EMT] = <<>> /\ depth[EMT][s] > 0
      /\ {"r0test"} \subseteq StepsOf[Head(todo[EMT]).step]
  BY <1>0, <1>1, StepIs, StepsAre DEF R0Steps
<1>3. /\ Owned(s) /\ IsInjective(queue) /\ cLockers[s] \in Int /\ cLockers[s] >= -1
      /\ \A u \in Threads : depth[u][s] > 0 => owner[s] = u /\ Keeps(u, s)
      /\ \A u \in Threads : Keeps(u, s) => ~sem[s] /\ cLockers[s] >= 0
      /\ depth[EMT][s] \in Nat
  BY <1>0, SectIs
<1>4. /\ cNestings' = [cNestings EXCEPT ![s] = @ - 1]
      /\ depth' = [depth EXCEPT ![EMT][s] = @ - 1]
      /\ UNCHANGED <<owner, sem, queue>>
  BY DEF R0Leave, Left, emtVars
<1>5. /\ depth'[EMT][s] = depth[EMT][s] - 1
      /\ \A r \in Sects : r # s => depth'[EMT][r] = depth[EMT][r]
      /\ cNestings'[s] = cNestings[s] - 1
      /\ depth' \in [Threads -> [Sects -> Nat]]
      /\ \A u \in Threads : u # EMT => depth'[u] = depth[u]
  <2>1. depth[EMT][s] - 1 \in Nat
    BY <1>2, <1>3
  <2> QED BY <1>0, <1>2, <1>4, <2>1 DEF Typed
<1>6. owner[s] = EMT /\ Keeps(EMT, s) /\ cLockers[s] >= 0 /\ ~sem[s]
  BY <1>0, <1>2, <1>3
<1>7. ~InHand(s) /\ cNestings[s] = depth[EMT][s] + QueuedOnce(s)
  BY <1>0, <1>1, <1>3, <1>6 DEF Owned, InHand
<1>8. CASE cNestings[s] > 1
  <2>1. cLockers' = [cLockers EXCEPT ![s] = @ - 1] /\ Finish(EMT)
    BY <1>8 DEF R0Leave, CountNested
  <2>2. Touches(EMT, s) /\ cLockers'[s] = cLockers[s] - 1
    BY <1>0, <1>2, <1>4, <1>5, <2>1, SMTT(30) DEF Touches, Typed
  <2>3. /\ Typed' /\ Moves(EMT, s) /\ \A u \in Threads : CallInv(u)'
        /\ pc'[EMT] \in {"ready", "inc", "try", "leave"}
    BY <1>0, <1>1, <1>2, <2>1, <2>2, StepFinish
  <2>4. ~InHand(s)'
    BY <1>0, <1>1, <1>7, <2>3, InHandSame
  <2>5. cLockers[s] >= 1 /\ (depth[EMT][s] > 1 \/ s \in Range(queue))
    BY <1>0, <1>2, <1>8, TwoEntries
  <2>6. depth[EMT][s] > 1 => depth'[EMT][s] > 0
    BY <1>3, <1>5
  <2>7. Owned(s)'
    <3>1. cNestings'[s] = depth'[EMT][s] + QueuedOnce(s)
      BY <1>3, <1>5, <1>7 DEF QueuedOnce
    <3>2. QueuedOnce(s)' = QueuedOnce(s) /\ Range(queue') = Range(queue) /\ owner'[s] = EMT
      BY <1>4, <1>6 DEF QueuedOnce
    <3>3. depth'[EMT][s] > 0 \/ s \in Range(queue)
      BY <2>5, <2>6
    <3> QED BY <1>0, <1>3, <1>4, <1>6, <2>4, <3>1, <3>2, <3>3 DEF Owned
  <2>8. Owns(EMT)'
    BY <1>2, <1>4, <1>5, <1>6, <2>3 DEF Owns
  <2>9. /\ Keeps(EMT, s)'
        /\ EMT \notin UnderWay(s)' /\ EMT \notin UnderWay(s)
    BY <1>1, <1>4, <2>3, <2>5, <2>6 DEF Keeps, UnderWay, Entering, Passing
  <2>10. HandsOn(EMT, s) /\ CountsOn(EMT, s) /\ cLockers'[s] >= -1
    BY <1>3, <1>4, <1>5, <1>6, <2>2, <2>5, <2>9 DEF HandsOn, CountsOn, One
  <2> QED BY <1>0, <1>3, <1>4, <2>3, <2>7, <2>8, <2>10, StepKeeps
<1>9. CASE ~(cNestings[s] > 1)
  <2>1. Goto(EMT, "r0test") /\ UNCHANGED cLockers
    BY <1>9 DEF R0Leave
  <2>2. Touches(EMT, s)
    BY <1>0, <1>2, <1>4, <1>5, <2>1, SMTT(30) DEF Touches, Typed
  <2>3. /\ Typed' /\ Moves(EMT, s) /\ \A u \in Threads : CallInv(u)'
        /\ pc'[EMT] = "r0test" /\ Sect(EMT)' = s
    BY <1>0, <1>1, <1>2, <2>1, <2>2, StepGoto
  <2>4. depth[EMT][s] = 1 /\ s \notin Range(queue) /\ cNestings[s] = 1
    BY <1>2, <1>3, <1>7, <1>9 DEF QueuedOnce
  <2>5. InHand(s)' /\ depth'[EMT][s] = 0 /\ cNestings'[s] = 0
    BY <1>5, <2>3, <2>4 DEF InHand
  <2>6. Owned(s)'
    BY <1>0, <1>4, <1>6, <2>4, <2>5 DEF Owned, QueuedOnce
  <2>7. Owns(EMT)'
    BY <1>2, <1>4, <1>5, <2>3, <2>4 DEF Owns
  <2>8. /\ Keeps(EMT, s)'
        /\ EMT \in UnderWay(s)' /\ EMT \notin UnderWay(s)
    BY <1>0, <1>1, <2>3 DEF Keeps, UnderWay, Entering, Passing
  <2>9. HandsOn(EMT, s) /\ CountsOn(EMT, s)
    BY <1>3, <1>4, <1>5, <1>6, <2>1, <2>8 DEF HandsOn, CountsOn, One
  <2> QED BY <1>0, <1>3, <1>4, <1>6, <2>1, <2>3, <2>6, <2>7, <2>9, StepKeeps
<1> QED BY <1>8, <1>9

\* EMT takes itself off as the owner, or goes on to queue its leave.
LEMMA StepR0Test ==
    ASSUME SectInv, R0Test
    PROVE  SectInv'
<1>0. EMT \in Threads /\ Nil \notin Threads
  BY CritSectAssumption DEF Threads
<1>1. pc[EMT] = "r0test" /\ Sect(EMT) \in Sects
  BY <1>0, StepIs DEF R0Test, At
<1> SUFFICES ASSUME NEW s \in Sects, s = Sect(EMT) PROVE SectInv'
  BY <1>1
<1>2. /\ Typed /\ CallInv(EMT) /\ Owns(EMT) /\ Head(todo[EMT]).step = "r0leave"
      /\ array[EMT] = <<>> /\ {"r0free", "queue"} \subseteq StepsOf[Head(todo[EMT]).step]
  BY <1>0, <1>1, StepIs, StepsAre DEF R0Steps
<1>3. /\ Owned(s) /\ IsInjective(queue) /\ cLockers[s] \in Int /\ cLockers[s] >= -1
      /\ \A u \in Threads : Keeps(u, s) => ~sem[s] /\ cLockers[s] >= 0
      /\ depth[EMT][s] \in Nat
  BY <1>0, SectIs
<1>4. UNCHANGED <<cLockers, cNestings, sem, queue, depth>>
  BY DEF R0Test, emtVars, useVars
<1>5. InHand(s) /\ Keeps(EMT, s) /\ EMT \in UnderWay(s)
  BY <1>0, <1>1 DEF InHand, Keeps, Passing, UnderWay, Entering
<1>6. /\ owner[s] = EMT /\ depth[EMT][s] = 0 /\ s \notin Range(queue) /\ cNestings[s] = 0
      /\ ~sem[s] /\ cLockers[s] >= 0
  BY <1>0, <1>3, <1>5 DEF Owned, QueuedOnce
<1>7. CASE cLockers[s] = 0
  <2>1. owner' = [owner EXCEPT ![s] = Nil] /\ Goto(EMT, "r0free")
    BY <1>7 DEF R0Test
  <2>2. Touches(EMT, s) /\ owner'[s] = Nil /\ \A r \in Sects : r # s => owner'[r] = owner[r]
    BY <1>0, <1>2, <1>4, <2>1 DEF Touches, Typed
  <2>3. /\ Typed' /\ Moves(EMT, s) /\ \A u \in Threads : CallInv(u)'
        /\ pc'[EMT] = "r0free" /\ Sect(EMT)' = s
    BY <1>0, <1>1, <1>2, <2>1, <2>2, StepGoto
  <2>4. ~InHand(s)'
    BY <2>3 DEF InHand
  <2>5. Owned(s)'
    BY <1>4, <1>6, <2>2, <2>4 DEF Owned
  <2>6. Owns(EMT)'
    BY <1>2, <1>4, <1>6, <2>2, <2>3 DEF Owns
  <2>7. Keeps(EMT, s)' /\ EMT \in UnderWay(s)'
    BY <1>0, <2>3 DEF Keeps, UnderWay, Entering, Passing
  <2>8. HandsOn(EMT, s) /\ CountsOn(EMT, s)
    BY <1>3, <1>4, <1>5, <1>6, <2>7 DEF HandsOn, CountsOn, One
  <2> QED BY <1>0, <1>3, <1>4, <1>5, <2>3, <2>5, <2>6, <2>8, StepKeeps
<1>8. CASE cLockers[s] # 0
  <2>1. UNCHANGED owner /\ Goto(EMT, "queue")
    BY <1>8 DEF R0Test
  <2>2. Touches(EMT, s)
    BY <1>0, <1>2, <1>4, <2>1 DEF Touches, Typed
  <2>3. /\ Typed' /\ Moves(EMT, s) /\ \A u \in Threads : CallInv(u)'
        /\ pc'[EMT] = "queue" /\ Sect(EMT)' = s
    BY <1>0, <1>1, <1>2, <2>1, <2>2, StepGoto
  <2>4. InHand(s)'
    BY <2>3 DEF InHand
  <2>5. Owned(s)'
    BY <1>3, <1>4, <1>6, <2>1, <2>4 DEF Owned, QueuedOnce
  <2>6. Owns(EMT)'
    BY <1>2, <1>4, <2>1, <2>3 DEF Owns
  <2>7. Keeps(EMT, s)' /\ EMT \in UnderWay(s)'
    BY <1>0, <2>3 DEF Keeps, UnderWay, Entering, Passing
  <2>8. HandsOn(EMT, s) /\ CountsOn(EMT, s)
    BY <1>3, <1>4, <1>5, <1>6, <2>7 DEF HandsOn, CountsOn, One
  <2> QED BY <1>0, <1>3, <1>4, <1>5, <2>3, <2>5, <2>6, <2>8, StepKeeps
<1> QED BY <1>7, <1>8

\* EMT frees the section, or is its owner again.
LEMMA StepR0Free ==
    ASSUME SectInv, R0Free
    PROVE  SectInv'
<1>0. EMT \in Threads /\ Nil \notin Threads
  BY CritSectAssumption DEF Threads
<1>1. pc[EMT] = "r0free" /\ Sect(EMT) \in Sects
  BY <1>0, StepIs DEF R0Free, At
<1> SUFFICES ASSUME NEW s \in Sects, s = Sect(EMT) PROVE SectInv'
  BY <1>1
<1>2. /\ Typed /\ CallInv(EMT) /\ Owns(EMT) /\ Head(todo[EMT]).step = "r0leave"
      /\ array[EMT] = <<>> /\ {"queue"} \subseteq StepsOf[Head(todo[EMT]).step]
  BY <1>0, <1>1, StepIs, StepsAre DEF R0Steps
<1>3. /\ Owned(s) /\ IsInjective(queue) /\ cLockers[s] \in Int /\ cLockers[s] >= -1
      /\ \A u \in Threads : depth[u][s] > 0 => owner[s] = u
      /\ \A u \in Threads : Keeps(u, s) => ~sem[s] /\ cLockers[s] >= 0
      /\ depth[EMT][s] \in Nat
  BY <1>0, SectIs
<1>4. UNCHANGED <<cNestings, sem, queue, depth>>
  BY DEF R0Free, emtVars, useVars
<1>5. ~InHand(s) /\ Keeps(EMT, s) /\ EMT \in UnderWay(s) /\ owner[s] = Nil
  BY <1>0, <1>1, <1>2 DEF InHand, Keeps, Passing, UnderWay, Entering, Owns
<1>6. /\ depth[EMT][s] = 0 /\ s \notin Range(queue) /\ cNestings[s] = 0
      /\ ~sem[s] /\ cLockers[s] >= 0
  BY <1>0, <1>3, <1>5 DEF Owned
<1>7. CASE RacedIn(s)
  <2>1. owner' = [owner EXCEPT ![s] = EMT] /\ Goto(EMT, "queue") /\ UNCHANGED cLockers
    BY <1>7 DEF R0Free, OwnerAgain
  <2>2. Touches(EMT, s) /\ owner'[s] = EMT /\ \A r \in Sects : r # s => owner'[r] = owner[r]
    BY <1>0, <1>2, <1>4, <2>1 DEF Touches, Typed
  <2>3. /\ Typed' /\ Moves(EMT, s) /\ \A u \in Threads : CallInv(u)'
        /\ pc'[EMT] = "queue" /\ Sect(EMT)' = s
    BY <1>0, <1>1, <1>2, <2>1, <2>2, StepGoto
  <2>4. InHand(s)'
    BY <2>3 DEF InHand
  <2>5. Owned(s)'
    BY <1>0, <1>4, <1>6, <2>2, <2>4 DEF Owned, QueuedOnce
  <2>6. Owns(EMT)'
    BY <1>2, <1>4, <2>2, <2>3 DEF Owns
  <2>7. Keeps(EMT, s)' /\ EMT \in UnderWay(s)'
    BY <1>0, <2>3 DEF Keeps, UnderWay, Entering, Passing
  <2>8. HandsOn(EMT, s) /\ CountsOn(EMT, s)
    BY <1>3, <1>4, <1>5, <1>6, <2>1, <2>7 DEF HandsOn, CountsOn, One
  <2> QED BY <1>0, <1>3, <1>4, <1>5, <2>1, <2>3, <2>5, <2>6, <2>8, StepKeeps
<1>8. CASE ~RacedIn(s)
  <2>1. cLockers' = [cLockers EXCEPT ![s] = -1] /\ Finish(EMT) /\ UNCHANGED owner
    BY <1>8 DEF R0Free
  <2>2. Touches(EMT, s) /\ cLockers'[s] = -1 /\ cLockers[s] = 0
    BY <1>0, <1>2, <1>4, <1>8, <2>1 DEF Touches, Typed, RacedIn
  <2>3. /\ Typed' /\ Moves(EMT, s) /\ \A u \in Threads : CallInv(u)'
        /\ pc'[EMT] \in {"ready", "inc", "try", "leave"}
    BY <1>0, <1>1, <1>2, <2>1, <2>2, StepFinish
  <2>4. ~InHand(s)'
    BY <2>3 DEF InHand
  <2>5. Owned(s)'
    BY <1>4, <1>5, <1>6, <2>1, <2>4 DEF Owned
  <2>6. Owns(EMT)'
    BY <1>2, <1>4, <2>1, <2>3 DEF Owns
  <2>7. ~Keeps(EMT, s)' /\ EMT \notin UnderWay(s)'
    BY <1>4, <1>6, <2>3 DEF Keeps, UnderWay, Entering, Passing
  <2>8. HandsOn(EMT, s) /\ CountsOn(EMT, s) /\ cLockers'[s] >= -1
    BY <1>3, <1>4, <1>5, <1>6, <2>2, <2>7 DEF HandsOn, CountsOn, One
  <2> QED BY <1>0, <1>3, <1>4, <1>5, <2>1, <2>3, <2>5, <2>6, <2>8, StepKeeps
<1> QED BY <1>7, <1>8

\* EMT queues its leave and remains the owner.
LEMMA StepQueue ==
    ASSUME SectInv, Queue
    PROVE  SectInv'
<1>0. EMT \in Threads /\ Nil \notin Threads
  BY CritSectAssumption DEF Threads
<1>1. pc[EMT] = "queue" /\ Sect(EMT) \in Sects
  BY <1>0, StepIs DEF Queue, At
<1> SUFFICES ASSUME NEW s \in Sects, s = Sect(EMT) PROVE SectInv'
  BY <1>1
<1>2. /\ Typed /\ CallInv(EMT) /\ Owns(EMT) /\ Head(todo[EMT]).step = "r0leave"
      /\ array[EMT] = <<>>
  BY <1>0, <1>1, StepIs DEF R0Steps
<1>3. /\ Owned(s) /\ IsInjective(queue) /\ cLockers[s] \in Int /\ cLockers[s] >= -1
      /\ \A u \in Threads : Keeps(u, s) => ~sem[s] /\ cLockers[s] >= 0
      /\ depth[EMT][s] \in Nat
  BY <1>0, SectIs
<1>4. /\ cNestings' = [cNestings EXCEPT ![s] = 1] /\ cNestings'[s] = 1
      /\ queue' = Append(queue, s) /\ Finish(EMT)
      /\ UNCHANGED <<cLockers, owner, sem, depth>>
  BY <1>2 DEF Queue, useVars, Typed
<1>5. InHand(s) /\ Keeps(EMT, s) /\ EMT \in UnderWay(s)
  BY <1>0, <1>1 DEF InHand, Keeps, Passing, UnderWay, Entering
<1>6. /\ owner[s] = EMT /\ depth[EMT][s] = 0 /\ s \notin Range(queue)
      /\ ~sem[s] /\ cLockers[s] >= 0
  BY <1>0, <1>3, <1>5 DEF Owned
<1>7. /\ queue' \in Seq(Sects) /\ IsInjective(queue') /\ s \in Range(queue')
      /\ \A r \in Sects : r # s => (r \in Range(queue') <=> r \in Range(queue))
  BY <1>2, <1>3, <1>4, <1>6, AppendIs DEF Typed
<1>8. Touches(EMT, s)
  BY <1>0, <1>2, <1>4, <1>7 DEF Touches, Typed
<1>9. /\ Typed' /\ Moves(EMT, s) /\ \A u \in Threads : CallInv(u)'
      /\ pc'[EMT] \in {"ready", "inc", "try", "leave"}
  BY <1>0, <1>1, <1>2, <1>4, <1>8, StepFinish
<1>10. ~InHand(s)'
  BY <1>9 DEF InHand
<1>11. Owned(s)'
  BY <1>0, <1>4, <1>6, <1>7, <1>10 DEF Owned, QueuedOnce
<1>12. Owns(EMT)'
  BY <1>2, <1>4, <1>9 DEF Owns
<1>13. Keeps(EMT, s)' /\ EMT \notin UnderWay(s)'
  BY <1>7, <1>9 DEF Keeps, UnderWay, Entering, Passing
<1>14. HandsOn(EMT, s) /\ CountsOn(EMT, s)
  BY <1>3, <1>4, <1>5, <1>6, <1>7, <1>13 DEF HandsOn, CountsOn, One
<1> QED BY <1>0, <1>3, <1>4, <1>7, <1>9, <1>11, <1>12, <1>14, StepKeeps

----------------------------------------------------------------------------
(* The beginning of a call *)

\* A call of one entry or leave.
LEMMA CallOne ==
    ASSUME Typed, NEW th \in Threads, NEW st \in {"inc", "try", "leave", "r0leave"},
           NEW s \in Sects, Perform(th, <<Op(st, s)>>, <<>>, 0),
           st \in {"leave", "r0leave"} => depth'[th][s] > 0
    PROVE  /\ CallInv(th)' /\ pc'[th] = st /\ Sect(th)' = s
           /\ pc' \in [Threads -> Steps \union R0Steps] /\ todo' \in [Threads -> Seq(CallOps)]
           /\ array' \in [Threads -> Arrays \union {<<>>}] /\ miss' \in [Threads -> Nat]
           /\ \A u \in Threads : u # th => /\ pc'[u] = pc[u] /\ todo'[u] = todo[u]
                                           /\ array'[u] = array[u] /\ miss'[u] = miss[u]
<1> DEFINE op == Op(st, s)
           t == <<op>>
<1>1. op \in CallOps /\ op.step = st /\ op.sect = s
  BY StepsAre DEF Op, CallOps
<1>2. t \in Seq(CallOps) /\ t # <<>> /\ Len(t) = 1 /\ Head(t) = op
  BY <1>1
<1> HIDE DEF op, t
<1>3. /\ todo' = [todo EXCEPT ![th] = t] /\ pc' = [pc EXCEPT ![th] = st]
      /\ array' = [array EXCEPT ![th] = <<>>] /\ miss' = [miss EXCEPT ![th] = 0]
  BY <1>1, <1>2 DEF Perform, t, op
<1>4. st \in Steps \union R0Steps /\ st # "ready" /\ st \in StepsOf[st]
  BY StepsAre DEF Steps, R0Steps
<1>5. /\ todo'[th] = t /\ pc'[th] = st /\ array'[th] = <<>>
      /\ pc' \in [Threads -> Steps \union R0Steps] /\ todo' \in [Threads -> Seq(CallOps)]
      /\ array' \in [Threads -> Arrays \union {<<>>}] /\ miss' \in [Threads -> Nat]
      /\ \A u \in Threads : u # th => /\ pc'[u] = pc[u] /\ todo'[u] = todo[u]
                                      /\ array'[u] = array[u] /\ miss'[u] = miss[u]
  BY <1>2, <1>3, <1>4 DEF Typed
<1>6. Sect(th)' = s
  BY <1>1, <1>2, <1>5 DEF Sect
<1>7. CallInv(th)'
  <2>1. Len(t) <= 1
    BY <1>2
  <2>2. /\ pc'[th] # "ready" /\ todo'[th] # <<>> /\ array'[th] = <<>> /\ Len(todo'[th]) <= 1
        /\ pc'[th] \in StepsOf[Head(todo'[th]).step]
    BY <1>1, <1>2, <1>4, <1>5, <2>1
  <2>3. pc'[th] \in {"leave", "r0leave"} => depth'[th][Sect(th)'] > 0
    BY <1>5, <1>6
  <2> QED BY <2>2, <2>3 DEF CallInv
<1> QED BY <1>5, <1>6, <1>7

\* A section whose leave is queued is EMT's again, to be left.
LEMMA StepLeaveQueued ==
    ASSUME SectInv, LeaveQueued
    PROVE  SectInv'
<1>0. EMT \in Threads /\ Nil \notin Threads
  BY CritSectAssumption DEF Threads
<1>1. /\ Head(queue) \in Sects /\ Head(queue) \in Range(queue) /\ Tail(queue) \in Seq(Sects)
      /\ IsInjective(Tail(queue)) /\ Range(Tail(queue)) = Range(queue) \ {Head(queue)}
  BY RestIs DEF LeaveQueued, SectInv, Typed, OwnInv
<1> SUFFICES ASSUME NEW s \in Sects, s = Head(queue) PROVE SectInv'
  BY <1>1
<1>2. pc[EMT] = "ready" /\ Typed /\ Owns(EMT) /\ \A u \in Threads : CallInv(u)
  BY <1>0 DEF LeaveQueued, At, SectInv, OwnInv
<1>3. /\ Owned(s) /\ cLockers[s] \in Int /\ cLockers[s] >= -1
      /\ \A u \in Threads : Keeps(u, s) => ~sem[s] /\ cLockers[s] >= 0
      /\ depth[EMT][s] \in Nat
  BY <1>0, SectIs
<1>4. /\ queue' = Tail(queue) /\ depth' = [depth EXCEPT ![EMT][s] = @ + 1]
      /\ Perform(EMT, <<Op("leave", s)>>, <<>>, 0)
      /\ UNCHANGED <<cLockers, cNestings, owner, sem>>
  BY DEF LeaveQueued, Entered, sectVars
<1>5. /\ depth' \in [Threads -> [Sects -> Nat]] /\ depth'[EMT][s] = depth[EMT][s] + 1
      /\ \A r \in Sects : r # s => depth'[EMT][r] = depth[EMT][r]
      /\ \A u \in Threads : u # EMT => depth'[u] = depth[u]
  BY <1>0, <1>2, <1>4 DEF Typed
<1>6. /\ CallInv(EMT)' /\ pc'[EMT] = "leave" /\ Sect(EMT)' = s
      /\ pc' \in [Threads -> Steps \union R0Steps] /\ todo' \in [Threads -> Seq(CallOps)]
      /\ array' \in [Threads -> Arrays \union {<<>>}] /\ miss' \in [Threads -> Nat]
      /\ \A u \in Threads : u # EMT => /\ pc'[u] = pc[u] /\ todo'[u] = todo[u]
                                       /\ array'[u] = array[u] /\ miss'[u] = miss[u]
  <2>1. depth'[EMT][s] > 0
    BY <1>3, <1>5
  <2> QED BY <1>0, <1>2, <1>4, <2>1, CallOne
<1>7. Typed'
  BY <1>1, <1>2, <1>4, <1>5, <1>6 DEF Typed
<1>8. Moves(EMT, s)
  BY <1>1, <1>2, <1>4, <1>5, <1>6 DEF Moves, Aside
<1>9. \A u \in Threads : CallInv(u)'
  BY <1>2, <1>5, <1>6, CallSame
<1>10. ~InHand(s) /\ ~InHand(s)'
  BY <1>2, <1>6 DEF InHand
<1>11. Keeps(EMT, s) /\ s \in Range(queue) /\ s \notin Range(queue')
  BY <1>1, <1>4 DEF Keeps
<1>12. owner[s] = EMT /\ cNestings[s] = depth[EMT][s] + 1 /\ ~sem[s] /\ cLockers[s] >= 0
  BY <1>0, <1>3, <1>11 DEF Owned, QueuedOnce
<1>13. Owned(s)'
  BY <1>0, <1>3, <1>4, <1>5, <1>10, <1>11, <1>12 DEF Owned, QueuedOnce
<1>14. Owns(EMT)'
  BY <1>2, <1>4, <1>5, <1>6, <1>12 DEF Owns
<1>15. Keeps(EMT, s)' /\ EMT \notin UnderWay(s)' /\ EMT \notin UnderWay(s)
  BY <1>2, <1>3, <1>5, <1>6 DEF Keeps, UnderWay, Entering, Passing
<1>16. HandsOn(EMT, s) /\ CountsOn(EMT, s)
  BY <1>3, <1>4, <1>5, <1>11, <1>12, <1>15 DEF HandsOn, CountsOn, One
<1> QED BY <1>0, <1>1, <1>3, <1>4, <1>7, <1>8, <1>9, <1>13, <1>14, <1>16, StepKeeps

\* A step outside the sections, which neither takes nor passes on any.
LEMMA StepAside ==
    ASSUME SectInv, NEW th \in Threads, UNCHANGED <<sectVars, queue, depth>>,
           pc[th] \in Aside, pc'[th] \in Aside, CallInv(th)',
           pc' \in [Threads -> Steps \union R0Steps], todo' \in [Threads -> Seq(CallOps)],
           array' \in [Threads -> Arrays \union {<<>>}], miss' \in [Threads -> Nat],
           \A u \in Threads : u # th => /\ pc'[u] = pc[u] /\ todo'[u] = todo[u]
                                        /\ array'[u] = array[u] /\ miss'[u] = miss[u]
    PROVE  SectInv'
<1>1. UNCHANGED <<cLockers, cNestings, owner, sem, queue, depth>>
  BY DEF sectVars
<1>2. Typed'
  BY <1>1 DEF SectInv, Typed
<1>3. \A u \in Threads : CallInv(u)'
  BY <1>1, CallSame DEF SectInv
<1>4. \A u \in Threads : u # th => pc'[u] = pc[u] /\ Sect(u)' = Sect(u)
  BY DEF Sect
<1>5. pc[th] \notin Passing \union Entering /\ pc'[th] \notin Passing \union Entering
  BY DEF Aside, Passing, Entering
<1>6. ASSUME NEW u \in Threads, NEW s \in Sects
      PROVE  /\ Keeps(u, s)' <=> Keeps(u, s)
             /\ u \in UnderWay(s)' <=> u \in UnderWay(s)
  <2>1. CASE u = th
    BY <1>1, <1>5, <2>1 DEF Keeps, UnderWay
  <2>2. CASE u # th
    BY <1>1, <1>4, <2>2 DEF Keeps, UnderWay
  <2> QED BY <2>1, <2>2
<1>7. ASSUME NEW s \in Sects PROVE EntriesInto(s)' = EntriesInto(s)
  <2>1. UnderWay(s)' = UnderWay(s)
    <3>1. UnderWay(s) \subseteq Threads /\ UnderWay(s)' \subseteq Threads
      BY DEF UnderWay
    <3> QED BY <1>6, <3>1
  <2>2. Deps(s)' = Deps(s) /\ queue' = queue
    BY <1>1 DEF Deps
  <2> QED BY <2>1, <2>2, CountIs
<1>8. CountInv'
  BY <1>1, <1>7 DEF SectInv, CountInv
<1>9. KeepInv'
  BY <1>1, <1>6 DEF SectInv, KeepInv
<1>10. \A s \in Sects : InHand(s)' <=> InHand(s)
  <2>1. CASE th = EMT
    BY <1>5, <2>1 DEF InHand, Passing
  <2>2. CASE th # EMT
    BY <1>4, <2>2 DEF InHand, Threads
  <2> QED BY <2>1, <2>2
<1>11. ASSUME NEW s \in Sects PROVE Owned(s)'
  <2>1. Owned(s) /\ (InHand(s)' <=> InHand(s))
    BY <1>10 DEF SectInv, OwnInv
  <2> QED BY <1>1, <2>1 DEF Owned, QueuedOnce
<1>12. ASSUME NEW u \in Threads PROVE Owns(u)'
  <2>1. Owns(u)
    BY DEF SectInv, OwnInv
  <2>2. CASE u = th
    BY <1>1, <1>5, <2>1, <2>2 DEF Owns, Passing
  <2>3. CASE u # th
    BY <1>1, <1>4, <2>1, <2>3 DEF Owns
  <2> QED BY <2>2, <2>3
<1>13. OwnInv'
  BY <1>1, <1>11, <1>12 DEF SectInv, OwnInv
<1> QED BY <1>2, <1>3, <1>8, <1>9, <1>13 DEF SectInv

\* The calls begin.
LEMMA StepBegin ==
    ASSUME SectInv, NEW th \in Threads, BeginSome(th) \/ LeaveSome(th)
    PROVE  SectInv'
<1>1. Typed /\ CallInv(th)
  BY DEF SectInv
<1>2. CASE \E s \in Sects : BeginEnter(th, s) \/ BeginTry(th, s)
  <2>1. PICK s \in Sects : BeginEnter(th, s) \/ BeginTry(th, s)
    BY <1>2
  <2>2. PICK st \in {"inc", "try"} : Perform(th, <<Op(st, s)>>, <<>>, 0)
    BY <2>1 DEF BeginEnter, BeginTry, Start
  <2>3. pc[th] = "ready" /\ UNCHANGED <<sectVars, queue, depth>>
    BY <2>1 DEF BeginEnter, BeginTry, Start, MayEnter, At, emtVars
  <2>4. /\ CallInv(th)' /\ pc'[th] = st
        /\ pc' \in [Threads -> Steps \union R0Steps] /\ todo' \in [Threads -> Seq(CallOps)]
        /\ array' \in [Threads -> Arrays \union {<<>>}] /\ miss' \in [Threads -> Nat]
        /\ \A u \in Threads : u # th => /\ pc'[u] = pc[u] /\ todo'[u] = todo[u]
                                        /\ array'[u] = array[u] /\ miss'[u] = miss[u]
    BY <1>1, <2>2, CallOne
  <2>5. pc[th] \in Aside /\ pc'[th] \in Aside
    BY <2>3, <2>4 DEF Aside
  <2> QED BY <2>3, <2>4, <2>5, StepAside
<1>3. CASE \E s \in Sects : BeginLeave(th, s)
  <2>1. PICK s \in Sects : BeginLeave(th, s)
    BY <1>3
  <2>2. PICK st \in {"leave", "r0leave"} : Perform(th, <<Op(st, s)>>, <<>>, 0)
    BY <2>1 DEF BeginLeave
  <2>3. pc[th] = "ready" /\ UNCHANGED <<sectVars, queue, depth>> /\ depth'[th][s] > 0
    BY <2>1 DEF BeginLeave, At, emtVars, useVars
  <2>4. /\ CallInv(th)' /\ pc'[th] = st
        /\ pc' \in [Threads -> Steps \union R0Steps] /\ todo' \in [Threads -> Seq(CallOps)]
        /\ array' \in [Threads -> Arrays \union {<<>>}] /\ miss' \in [Threads -> Nat]
        /\ \A u \in Threads : u # th => /\ pc'[u] = pc[u] /\ todo'[u] = todo[u]
                                        /\ array'[u] = array[u] /\ miss'[u] = miss[u]
    BY <1>1, <2>2, <2>3, CallOne
  <2>5. pc[th] \in Aside /\ pc'[th] \in Aside
    BY <2>3, <2>4 DEF Aside
  <2> QED BY <2>3, <2>4, <2>5, StepAside
<1>4. CASE \E a \in Arrays : BeginMultiple(th, a)
  <2> PICK a \in Arrays : BeginMultiple(th, a)
    BY <1>4
  <2> DEFINE t == [k \in 1 .. Len(a) |-> Op("try", a[k])]
  <2>1. /\ Perform(th, t, a, 0) /\ pc[th] = "ready" /\ HoldsNone(th)
        /\ UNCHANGED <<sectVars, queue, depth>>
    BY DEF BeginMultiple, Start, MayEnter, At, emtVars
  <2>2. a \in Seq(Sects) /\ IsInjective(a)
    BY CritSectAssumption
  <2>3. CASE a = <<>>
    <3>1. t = <<>>
      BY <2>3
    <3> HIDE DEF t
    <3>2. /\ todo' = [todo EXCEPT ![th] = <<>>] /\ pc' = [pc EXCEPT ![th] = "ready"]
          /\ array' = [array EXCEPT ![th] = <<>>] /\ miss' = [miss EXCEPT ![th] = 0]
      BY <2>1, <3>1 DEF Perform
    <3>3. <<>> \in Seq(CallOps) /\ "ready" \in Steps
      BY DEF Steps
    <3>4. /\ todo'[th] = <<>> /\ pc'[th] = "ready" /\ array'[th] = <<>>
          /\ pc' \in [Threads -> Steps \union R0Steps] /\ todo' \in [Threads -> Seq(CallOps)]
          /\ array' \in [Threads -> Arrays \union {<<>>}] /\ miss' \in [Threads -> Nat]
          /\ \A u \in Threads : u # th => /\ pc'[u] = pc[u] /\ todo'[u] = todo[u]
                                          /\ array'[u] = array[u] /\ miss'[u] = miss[u]
      BY <1>1, <3>2, <3>3 DEF Typed
    <3>5. CallInv(th)'
      BY <3>4 DEF CallInv
    <3>6. pc[th] \in Aside /\ pc'[th] \in Aside
      BY <2>1, <3>4 DEF Aside
    <3> QED BY <2>1, <3>4, <3>5, <3>6, StepAside
  <2>4. CASE a # <<>>
    <3>1. /\ t \in Seq(CallOps) /\ t # <<>> /\ Head(t).step = "try"
          /\ Script(t, a, 0) /\ Coming(t) = Range(a) /\ Going(t) = {}
      BY <2>2, <2>4, ScriptBegin
    <3> HIDE DEF t
    <3>2. /\ todo' = [todo EXCEPT ![th] = t] /\ pc' = [pc EXCEPT ![th] = "try"]
          /\ array' = [array EXCEPT ![th] = a] /\ miss' = [miss EXCEPT ![th] = 0]
      BY <2>1, <3>1 DEF Perform
    <3>3. "try" \in Steps /\ "try" \in StepsOf["try"]
      BY StepsAre DEF Steps
    <3>4. /\ todo'[th] = t /\ pc'[th] = "try" /\ array'[th] = a /\ miss'[th] = 0
          /\ pc' \in [Threads -> Steps \union R0Steps] /\ todo' \in [Threads -> Seq(CallOps)]
          /\ array' \in [Threads -> Arrays \union {<<>>}] /\ miss' \in [Threads -> Nat]
          /\ \A u \in Threads : u # th => /\ pc'[u] = pc[u] /\ todo'[u] = todo[u]
                                          /\ array'[u] = array[u] /\ miss'[u] = miss[u]
      BY <1>1, <3>1, <3>2, <3>3 DEF Typed
    <3>5. Held(t, a, FALSE) = {}
      BY <3>1 DEF Held
    <3>6. depth'[th] = [s \in Sects |-> IF s \in Held(t, a, FALSE) THEN 1 ELSE 0]
      <4>1. depth'[th] \in [Sects -> Nat] /\ \A s \in Sects : depth'[th][s] = 0
        BY <1>1, <2>1 DEF HoldsNone, Typed
      <4> QED BY <3>5, <4>1
    <3>7. CallInv(th)'
      <4>1. (pc'[th] \in {"dec", "signal"}) = FALSE
        BY <3>4
      <4> QED BY <2>4, <3>1, <3>3, <3>4, <3>6, <4>1 DEF CallInv
    <3>8. pc[th] \in Aside /\ pc'[th] \in Aside
      BY <2>1, <3>4 DEF Aside
    <3> QED BY <2>1, <3>4, <3>7, <3>8, StepAside
  <2> QED BY <2>3, <2>4
<1> QED BY <1>2, <1>3, <1>4 DEF BeginSome, LeaveSome

\* A section is busy: the call ends, or leaves what it entered and begins again.
LEMMA StepBusy ==
    ASSUME SectInv, NEW th \in Threads, Busy(th)
    PROVE  SectInv'
<1> DEFINE t == todo[th]
           a == array[th]
<1>1. /\ pc[th] = "perhaps" /\ UNCHANGED <<sectVars, queue, depth>>
  BY DEF Busy, At, emtVars, useVars
<1>2. /\ Typed /\ CallInv(th) /\ Head(t).step = "try" /\ Sect(th) \in Sects
      /\ t # <<>> /\ t \in Seq(CallOps) /\ Head(t) \in CallOps
      /\ a # <<>> => a \in Seq(Sects) /\ IsInjective(a)
  BY <1>1, StepIs, CallIs
<1>3. pc[th] \in Aside
  BY <1>1 DEF Aside
<1>4. CASE a = <<>>
  <2>1. Finish(th)
    BY <1>4 DEF Busy
  <2>2. /\ CallInv(th)' /\ pc'[th] \in {"ready", "inc", "try", "leave"}
        /\ pc' \in [Threads -> Steps \union R0Steps] /\ todo' \in [Threads -> Seq(CallOps)]
        /\ array' \in [Threads -> Arrays \union {<<>>}] /\ miss' \in [Threads -> Nat]
        /\ \A u \in Threads : u # th => array'[u] = array[u] /\ miss'[u] = miss[u]
        /\ pc' = [pc EXCEPT ![th] = pc'[th]] /\ todo' = [todo EXCEPT ![th] = Tail(@)]
    BY <1>1, <1>2, <1>4, <2>1, CallFinish
  <2>3. \A u \in Threads : u # th => pc'[u] = pc[u] /\ todo'[u] = todo[u]
    BY <1>2, <2>2 DEF Typed
  <2>4. pc'[th] \in Aside
    BY <2>2 DEF Aside
  <2> QED BY <1>1, <1>3, <2>2, <2>3, <2>4, StepAside
<1>5. CASE a # <<>>
  <2> DEFINE j == CHOOSE k \in DOMAIN a : a[k] = Sect(th)
             u == Retry(a, miss[th], j)
  <2>1. Perform(th, u, a, j)
    BY <1>5 DEF Busy
  <2>2. /\ Script(t, a, miss[th])
        /\ depth[th] = [s \in Sects |-> IF s \in Held(t, a, FALSE) THEN 1 ELSE 0]
    <3>1. (pc[th] \in {"dec", "signal"}) = FALSE
      BY <1>1
    <3> QED BY <1>2, <1>5, <3>1 DEF CallInv
  <2>3. j \in DOMAIN a /\ a[j] = Sect(th)
    <3>1. Sect(th) \in Range(a)
      <4>1. 1 \in DOMAIN t /\ Head(t) = t[1]
        BY <1>2, TailOf
      <4> QED BY <2>2, <4>1 DEF Script, Sect
    <3> QED BY <3>1 DEF Range
  <2> HIDE DEF j
  <2>4. Head(t) = Op("try", a[j])
    BY <1>2, <2>3 DEF Sect, Op, CallOps
  <2>5. /\ u \in Seq(CallOps) /\ u # <<>> /\ Head(u).step \in {"leave", "inc"}
        /\ Script(u, a, j) /\ Coming(u) = Range(a) /\ Going(u) = Range(a) \ Coming(t)
    BY <1>2, <1>5, <2>2, <2>3, <2>4, ScriptRetry
  <2> HIDE DEF u
  <2>6. j \in Nat
    BY <1>2, <1>5, <2>3
  <2>7. /\ todo' = [todo EXCEPT ![th] = u] /\ pc' = [pc EXCEPT ![th] = Head(u).step]
        /\ array' = [array EXCEPT ![th] = a] /\ miss' = [miss EXCEPT ![th] = j]
    BY <2>1, <2>5 DEF Perform
  <2>8. Head(u).step \in Steps /\ Head(u).step \in StepsOf[Head(u).step]
    BY <2>5, StepsAre DEF Steps
  <2>9. /\ todo'[th] = u /\ pc'[th] = Head(u).step /\ array'[th] = a /\ miss'[th] = j
        /\ pc' \in [Threads -> Steps \union R0Steps] /\ todo' \in [Threads -> Seq(CallOps)]
        /\ array' \in [Threads -> Arrays \union {<<>>}] /\ miss' \in [Threads -> Nat]
        /\ \A v \in Threads : v # th => /\ pc'[v] = pc[v] /\ todo'[v] = todo[v]
                                        /\ array'[v] = array[v] /\ miss'[v] = miss[v]
    BY <1>2, <2>5, <2>6, <2>7, <2>8 DEF Typed
  <2>10. Held(u, a, FALSE) = Held(t, a, FALSE)
    <3>1. Going(t) = {}
      BY <1>2, <1>5, <2>2, ScriptTail
    <3> QED BY <2>5, <3>1 DEF Held
  <2>11. CallInv(th)'
    <3>1. (pc'[th] \in {"dec", "signal"}) = FALSE /\ pc'[th] # "ready"
      BY <2>5, <2>9
    <3>2. depth'[th] = [s \in Sects |-> IF s \in Held(u, a, FALSE) THEN 1 ELSE 0]
      BY <1>1, <2>2, <2>10
    <3> QED BY <1>5, <2>5, <2>8, <2>9, <3>1, <3>2 DEF CallInv
  <2>12. pc'[th] \in Aside
    BY <2>5, <2>9 DEF Aside
  <2> QED BY <1>1, <1>3, <2>9, <2>11, <2>12, StepAside
<1> QED BY <1>4, <1>5

\* What changes neither sections nor calls.
LEMMA SectSame ==
    ASSUME SectInv, UNCHANGED <<sectVars, queue, callVars, depth>>
    PROVE  SectInv'
<1>1. UNCHANGED <<cLockers, cNestings, owner, sem, queue, pc, todo, array, miss, depth>>
  BY DEF sectVars, callVars
<1>2. Typed' /\ \A u \in Threads : CallInv(u)'
  BY <1>1, CallSame DEF SectInv, Typed
<1>3. OwnInv'
  BY <1>1 DEF SectInv, OwnInv, Owned, Owns, QueuedOnce, InHand, Sect
<1>4. KeepInv'
  BY <1>1 DEF SectInv, KeepInv, Keeps, Sect
<1>5. CountInv'
  BY <1>1 DEF SectInv, CountInv, EntriesInto, UnderWay, Sect
<1> QED BY <1>2, <1>3, <1>4, <1>5 DEF SectInv

----------------------------------------------------------------------------
(* The invariant *)

\* Nobody is in a section at first.
LEMMA InitSect ==
    ASSUME Init
    PROVE  SectInv
<1>1. /\ cLockers = [s \in Sects |-> -1] /\ cNestings = [s \in Sects |-> 0]
      /\ owner = [s \in Sects |-> Nil] /\ sem = [s \in Sects |-> FALSE] /\ queue = <<>>
      /\ pc = [th \in Threads |-> "ready"] /\ todo = [th \in Threads |-> <<>>]
      /\ array = [th \in Threads |-> <<>>] /\ miss = [th \in Threads |-> 0]
      /\ depth = [th \in Threads |-> [s \in Sects |-> 0]]
  BY DEF Init
<1>2. EMT \in Threads /\ Nil \notin Threads /\ "ready" \in Steps /\ Range(queue) = {}
  BY <1>1, CritSectAssumption DEF Threads, Steps, Range
<1>3. Typed
  <2>1. <<>> \in Seq(CallOps) /\ <<>> \in Seq(Sects)
    OBVIOUS
  <2> QED BY <1>1, <1>2, <2>1 DEF Typed
<1>4. \A th \in Threads : CallInv(th)
  BY <1>1 DEF CallInv
<1>5. \A s \in Sects : ~InHand(s)
  BY <1>1, <1>2 DEF InHand
<1>6. OwnInv
  <2>1. IsInjective(queue)
    BY <1>1 DEF IsInjective
  <2>2. \A s \in Sects : Owned(s)
    BY <1>1, <1>2, <1>5 DEF Owned
  <2>3. \A th \in Threads : Owns(th)
    BY <1>1 DEF Owns
  <2> QED BY <2>1, <2>2, <2>3 DEF OwnInv
<1>7. \A th \in Threads : \A s \in Sects : ~Keeps(th, s)
  BY <1>1, <1>2 DEF Keeps, Passing
<1>8. KeepInv
  BY <1>1, <1>7 DEF KeepInv
<1>9. ASSUME NEW s \in Sects PROVE EntriesInto(s) = {}
  <2>1. UnderWay(s) = {}
    BY <1>1 DEF UnderWay, Entering, Passing
  <2>2. \A th \in Threads : Deps(s)[th] = 0
    BY <1>1 DEF Deps
  <2>3. \A th \in Threads : 1 .. Deps(s)[th] = {}
    BY <2>2
  <2>4. \A e : e \notin EntriesOf(Deps(s), UnderWay(s), s \in Range(queue))
    BY <1>2, <2>1, <2>3, EntryIs
  <2> QED BY <2>4, CountIs
<1>10. CountInv
  <2>1. IsFiniteSet({}) /\ Cardinality({}) = 0
    BY FS_EmptySet
  <2>2. \A s \in Sects : cLockers[s] + 1 = 0
    BY <1>1
  <2> QED BY <1>9, <2>1, <2>2 DEF CountInv
<1> QED BY <1>3, <1>4, <1>6, <1>8, <1>10 DEF SectInv

\* The steps keep the invariant.
LEMMA NextSect ==
    ASSUME SectInv, [Next]_vars
    PROVE  SectInv'
<1>1. ASSUME NEW th \in Threads, BeginSome(th) \/ LeaveSome(th) \/ CallStep(th)
      PROVE  SectInv'
  <2>1. CASE BeginSome(th) \/ LeaveSome(th)
    BY <2>1, StepBegin
  <2>2. CASE CallStep(th)
    BY <2>2, StepInc, StepNested, StepWait, StepOwn, StepTry, StepTryNested, StepBusy,
       StepLeave, StepDec, StepSignal DEF CallStep
  <2> QED BY <1>1, <2>1, <2>2
<1>2. CASE EmtStep
  <2>1. CASE FFEnd
    BY <2>1, SectSame DEF FFEnd, useVars
  <2> QED BY <1>2, <2>1, StepR0Leave, StepR0Test, StepR0Free, StepQueue, StepLeaveQueued
          DEF EmtStep
<1>3. CASE EnterGuest \/ ExitGuest
  BY <1>3, SectSame DEF EnterGuest, ExitGuest, useVars
<1>4. CASE UNCHANGED vars
  BY <1>4, SectSame DEF vars, emtVars, useVars
<1> QED BY <1>1, <1>2, <1>3, <1>4 DEF Next

\* The invariant always holds.
THEOREM SectAlways == Spec => []SectInv
<1>1. Init => SectInv
  BY InitSect
<1>2. SectInv /\ [Next]_vars => SectInv'
  BY NextSect
<1> QED BY <1>1, <1>2, PTL DEF Spec

\* cLockers of a section counts the entries into it, and while there is one the
\* section has one keeper: no two threads are in it, and no wakeup is lost or sent
\* twice, though EMT leaves sections late.
THEOREM OneKeeperAlways == Spec => []OneKeeper
<1>1. SectInv => OneKeeper
  <2> SUFFICES ASSUME SectInv, NEW s \in Sects
               PROVE  /\ cLockers[s] + 1 = Cardinality(EntriesInto(s))
                      /\ Cardinality(Keepers(s)) = IF EntriesInto(s) = {} THEN 0 ELSE 1
    BY DEF OneKeeper
  <2> DEFINE n == Cardinality(EntriesInto(s))
             K == {th \in Threads : Keeps(th, s)}
  <2>1. IsFiniteSet(EntriesInto(s)) /\ cLockers[s] + 1 = n /\ cLockers[s] \in Int
    BY DEF SectInv, CountInv, Typed
  <2>2. n = 0 <=> EntriesInto(s) = {}
    BY <2>1, FS_EmptySet
  <2> HIDE DEF n
  <2>3. EntriesInto(s) = {} <=> ~(cLockers[s] >= 0)
    <3>1. cLockers[s] >= -1
      BY DEF SectInv, KeepInv
    <3> QED BY <2>1, <2>2, <3>1
  <2>4. Nil \notin Threads
    BY CritSectAssumption
  <2>5. /\ \A t, u \in K : t = u
        /\ sem[s] => K = {}
        /\ cLockers[s] >= 0 <=> sem[s] \/ K # {}
    BY DEF SectInv, KeepInv
  <2>6. Keepers(s) = K \union (IF sem[s] THEN {Nil} ELSE {})
    BY DEF Keepers
  <2> HIDE DEF K
  <2>7. CASE EntriesInto(s) = {}
    <3>1. Keepers(s) = {}
      BY <2>3, <2>5, <2>6, <2>7
    <3> QED BY <2>1, <2>7, <3>1, FS_EmptySet DEF n
  <2>8. CASE EntriesInto(s) # {}
    <3>1. \E x : Keepers(s) = {x}
      <4>1. CASE sem[s]
        <5>1. Keepers(s) = {Nil}
          BY <2>5, <2>6, <4>1
        <5> QED BY <5>1
      <4>2. CASE ~sem[s]
        <5>1. PICK t : t \in K
          BY <2>3, <2>5, <2>8, <4>2
        <5>2. Keepers(s) = {t}
          BY <2>5, <2>6, <4>2, <5>1
        <5> QED BY <5>2
      <4> QED BY <4>1, <4>2
    <3> QED BY <2>1, <2>8, <3>1, FS_Singleton DEF n
  <2> QED BY <2>7, <2>8
<1> QED BY <1>1, SectAlways, PTL

\* RTCritSectEnterMultiple holds none of its sections while it waits for one.
THEOREM WaitsEmptyHandedAlways == Spec => []WaitsEmptyHanded
<1>1. SectInv => WaitsEmptyHanded
  <2> SUFFICES ASSUME SectInv, NEW th \in Threads, pc[th] = "wait", array[th] # <<>>
               PROVE  HoldsNone(th)
    BY DEF WaitsEmptyHanded
  <2> DEFINE t == todo[th]
             a == array[th]
  <2>1. /\ Typed /\ CallInv(th) /\ Head(t).step = "inc"
        /\ t # <<>> /\ t \in Seq(CallOps) /\ a \in Seq(Sects)
    BY StepIs, CallIs
  <2>2. /\ Script(t, a, miss[th])
        /\ depth[th] = [s \in Sects |-> IF s \in Held(t, a, FALSE) THEN 1 ELSE 0]
    <3>1. (pc[th] \in {"dec", "signal"}) = FALSE
      OBVIOUS
    <3> QED BY <2>1, <3>1 DEF CallInv
  <2>3. Coming(t) = Range(a) /\ Going(t) = {}
    BY <2>1, <2>2, ScriptTail
  <2>4. Held(t, a, FALSE) = {}
    BY <2>3 DEF Held
  <2> QED BY <2>2, <2>4 DEF HoldsNone
<1> QED BY <1>1, SectAlways, PTL

\* A section whose leave is queued is EMT's, with one entry more than EMT still
\* counts, and is queued once.
THEOREM QueuedIsOwnedAlways == Spec => []QueuedIsOwned
<1>1. SectInv => QueuedIsOwned
  <2> SUFFICES ASSUME SectInv, NEW s \in Range(queue)
               PROVE  owner[s] = EMT /\ cNestings[s] = depth[EMT][s] + 1
    BY DEF QueuedIsOwned, SectInv, OwnInv
  <2>1. s \in Sects
    BY DEF SectInv, Typed, Range
  <2>2. Owned(s) /\ EMT \in Threads /\ Nil \notin Threads
    BY <2>1, SectIs
  <2> QED BY <2>2 DEF Owned, QueuedOnce
<1> QED BY <1>1, SectAlways, PTL

----------------------------------------------------------------------------
(* The types, with their bounds *)

EnterSteps == {"inc", "nested", "wait", "own", "try", "perhaps"}

\* A thread has entered no section more often than it has made entries, and while it
\* enters one that is none of an array it has an entry to make.
Bounded(th) ==
    /\ entries[th] \in 0 .. MaxHold
    /\ \A s \in Sects : depth[th][s] <= entries[th]
    /\ pc[th] # "ready" => entries[th] > 0
    /\ array[th] = <<>> => miss[th] = 0
    /\ array[th] = <<>> /\ pc[th] \in EnterSteps => depth[th][Sect(th)] < entries[th]
    /\ pc[th] \in R0Steps => th = EMT

\* In PDMR3CritSectFF EMT holds the section it is leaving and no other.
EmtBounded ==
    /\ context \in {"R3", "R0", "FF"} /\ ff \in BOOLEAN /\ toR3 \in BOOLEAN
    /\ queue # <<>> => entries[EMT] > 0
    /\ context = "FF" =>
          /\ pc[EMT] \in {"ready", "leave", "dec", "signal"} /\ array[EMT] = <<>>
          /\ \A s \in Sects : depth[EMT][s] > 0 =>
                pc[EMT] = "leave" /\ s = Sect(EMT) /\ depth[EMT][s] = 1

BoundInv == /\ entries \in [Threads -> Nat] /\ EmtBounded
            /\ \A th \in Threads : Bounded(th)

\* Nothing becomes of the other threads.
Elsewhere(th) ==
    \A u \in Threads : u # th =>
        /\ pc'[u] = pc[u] /\ todo'[u] = todo[u] /\ array'[u] = array[u] /\ miss'[u] = miss[u]
        /\ depth'[u] = depth[u] /\ entries'[u] = entries[u]

LEMMA BoundElsewhere ==
    ASSUME BoundInv, NEW th \in Threads, Elsewhere(th), Bounded(th)', EmtBounded',
           entries' \in [Threads -> Nat]
    PROVE  BoundInv'
<1>1. ASSUME NEW u \in Threads, u # th PROVE Bounded(u)'
  <2>1. Bounded(u)
    BY DEF BoundInv
  <2>2. /\ pc'[u] = pc[u] /\ todo'[u] = todo[u] /\ array'[u] = array[u] /\ miss'[u] = miss[u]
        /\ depth'[u] = depth[u] /\ entries'[u] = entries[u]
    BY <1>1 DEF Elsewhere
  <2> QED BY <2>1, <2>2 DEF Bounded, Sect
<1> QED BY <1>1 DEF BoundInv

\* A thread other than EMT, or EMT outside PDMR3CritSectFF, with the context as it was.
LEMMA EmtElsewhere ==
    ASSUME BoundInv, NEW th \in Threads, Elsewhere(th), UNCHANGED <<context, queue, ff, toR3>>,
           entries' = entries \/ entries'[th] > 0, th = EMT => context # "FF"
    PROVE  EmtBounded'
<1>1. EMT \in Threads
  BY DEF Threads
<1>2. CASE th = EMT
  BY <1>1, <1>2 DEF BoundInv, EmtBounded
<1>3. CASE th # EMT
  <2>1. /\ pc'[EMT] = pc[EMT] /\ todo'[EMT] = todo[EMT] /\ array'[EMT] = array[EMT]
        /\ depth'[EMT] = depth[EMT] /\ entries'[EMT] = entries[EMT]
    BY <1>1, <1>3 DEF Elsewhere
  <2> QED BY <2>1 DEF BoundInv, EmtBounded, Sect
<1> QED BY <1>2, <1>3

\* What Perform, Goto and the counting of entries leave alone.
LEMMA PerformIs ==
    ASSUME Typed, NEW th \in Threads, NEW ops, NEW a, NEW i, Perform(th, ops, a, i)
    PROVE  /\ todo'[th] = ops /\ pc'[th] = (IF ops = <<>> THEN "ready" ELSE Head(ops).step)
           /\ array'[th] = (IF ops = <<>> THEN <<>> ELSE a)
           /\ miss'[th] = (IF ops = <<>> THEN 0 ELSE i)
           /\ \A u \in Threads : u # th => /\ pc'[u] = pc[u] /\ todo'[u] = todo[u]
                                           /\ array'[u] = array[u] /\ miss'[u] = miss[u]
  BY DEF Perform, Typed

LEMMA GotoIs ==
    ASSUME Typed, NEW th \in Threads, NEW step, Goto(th, step)
    PROVE  /\ pc'[th] = step /\ UNCHANGED <<todo, array, miss>>
           /\ \A u \in Threads : u # th => pc'[u] = pc[u]
  BY DEF Goto, Typed

\* The first op of a call is done: the call is over if it is none of an array.
LEMMA BoundFinish ==
    ASSUME SectInv, BoundInv, NEW th \in Threads, pc[th] # "ready", Finish(th),
           entries' = entries, \A u \in Threads : u # th => depth'[u] = depth[u],
           \A s \in Sects : depth'[th][s] <= entries[th]
    PROVE  /\ Bounded(th)' /\ Elsewhere(th)
           /\ array[th] = <<>> => pc'[th] = "ready" /\ array'[th] = <<>>
<1> DEFINE t == todo[th]
           a == array[th]
<1>1. Typed /\ CallInv(th) /\ Bounded(th)
  BY DEF SectInv, BoundInv
<1>2. /\ t # <<>> /\ t \in Seq(CallOps) /\ Head(t) \in CallOps
      /\ a # <<>> => a \in Seq(Sects)
  BY <1>1, CallIs
<1>3. /\ Tail(t) \in Seq(CallOps) /\ Len(Tail(t)) = Len(t) - 1 /\ Len(t) \in Nat
  BY <1>2, TailOf
<1>4. /\ pc'[th] = (IF Tail(t) = <<>> THEN "ready" ELSE Head(Tail(t)).step)
      /\ array'[th] = (IF Tail(t) = <<>> THEN <<>> ELSE a)
      /\ miss'[th] = (IF Tail(t) = <<>> THEN 0 ELSE miss[th])
      /\ \A u \in Threads : u # th => /\ pc'[u] = pc[u] /\ todo'[u] = todo[u]
                                      /\ array'[u] = array[u] /\ miss'[u] = miss[u]
  <2>1. Perform(th, Tail(t), a, miss[th])
    BY DEF Finish
  <2> QED BY <1>1, <2>1 DEF Perform, Typed
<1>5. Elsewhere(th)
  BY <1>4 DEF Elsewhere
<1>6. entries'[th] = entries[th] /\ entries[th] > 0 /\ entries[th] \in 0 .. MaxHold
  BY <1>1 DEF Bounded
<1>7. CASE Tail(t) = <<>>
  <2>1. pc'[th] = "ready" /\ array'[th] = <<>> /\ miss'[th] = 0
    BY <1>4, <1>7
  <2>2. Bounded(th)'
    BY <1>6, <2>1 DEF Bounded, EnterSteps, R0Steps
  <2> QED BY <1>5, <2>1, <2>2
<1>8. CASE Tail(t) # <<>>
  <2>1. a # <<>>
    <3>1. Len(t) - 1 # 0 /\ Len(t) # 0 /\ Len(t) \in Nat
      BY <1>2, <1>3, <1>8, TailOf
    <3>2. ~(Len(t) <= 1)
      <4>1. \A n \in Nat : n - 1 # 0 /\ n # 0 => ~(n <= 1)
        OBVIOUS
      <4> QED BY <3>1, <4>1
    <3> QED BY <1>1, <3>2 DEF CallInv
  <2>2. array'[th] # <<>> /\ pc'[th] = Head(Tail(t)).step
    BY <1>4, <1>8, <2>1
  <2>3. Head(Tail(t)).step \in {"inc", "try", "leave"}
    <3>1. a \in Seq(Sects) /\ Script(t, a, miss[th])
      BY <1>1, <1>2, <2>1 DEF CallInv
    <3>2. Script(Tail(t), a, miss[th])
      BY <1>2, <3>1, ScriptTail
    <3>3. 1 \in DOMAIN Tail(t) /\ Head(Tail(t)) = Tail(t)[1] /\ Tail(t)[1] \in CallOps
      BY <1>3, <1>8, TailOf
    <3>4. Head(Tail(t)).step # "r0leave"
      BY <3>2, <3>3 DEF Script
    <3> QED BY <3>3, <3>4, StepsAre DEF CallOps
  <2>4. pc'[th] \notin R0Steps
    BY <2>2, <2>3 DEF R0Steps
  <2>5. Bounded(th)'
    BY <1>6, <2>2, <2>4 DEF Bounded
  <2> QED BY <1>5, <2>1, <2>5
<1> QED BY <1>7, <1>8

\* Another step of the same op.
LEMMA BoundGoto ==
    ASSUME SectInv, BoundInv, NEW th \in Threads, pc[th] # "ready", NEW step, Goto(th, step),
           entries' = entries, \A u \in Threads : u # th => depth'[u] = depth[u],
           \A s \in Sects : depth'[th][s] <= entries[th],
           step \in EnterSteps => pc[th] \in EnterSteps /\ depth'[th] = depth[th],
           step \in R0Steps => th = EMT
    PROVE  Bounded(th)' /\ Elsewhere(th)
<1>1. Typed /\ Bounded(th)
  BY DEF SectInv, BoundInv
<1>2. /\ pc'[th] = step /\ UNCHANGED <<todo, array, miss>>
      /\ \A u \in Threads : u # th => pc'[u] = pc[u]
  BY <1>1, GotoIs
<1>3. Elsewhere(th)
  BY <1>2 DEF Elsewhere
<1> QED BY <1>1, <1>2, <1>3 DEF Bounded, Sect

\* Who enters a section has an entry to make.
LEMMA RoomToEnter ==
    ASSUME SectInv, BoundInv, NEW th \in Threads, pc[th] \in EnterSteps, Entered(th, Sect(th))
    PROVE  /\ \A u \in Threads : u # th => depth'[u] = depth[u]
           /\ \A s \in Sects : depth'[th][s] <= entries[th]
<1>1. Typed /\ CallInv(th) /\ Bounded(th) /\ pc[th] # "ready" /\ pc[th] # "leave"
  BY DEF SectInv, BoundInv, EnterSteps
<1>2. /\ Sect(th) \in Sects /\ depth \in [Threads -> [Sects -> Nat]] /\ entries[th] \in Nat
  BY <1>1, CallIs DEF Typed, BoundInv
<1>3. depth[th][Sect(th)] < entries[th]
  <2>1. CASE array[th] = <<>>
    BY <1>1, <2>1 DEF Bounded
  <2>2. CASE array[th] # <<>>
    <3>1. depth[th][Sect(th)] = 0
      BY <1>1, <2>2, DepthAt
    <3>2. entries[th] > 0
      BY <1>1 DEF Bounded
    <3> QED BY <1>2, <3>1, <3>2
  <2> QED BY <2>1, <2>2
<1>4. depth' = [depth EXCEPT ![th][Sect(th)] = @ + 1]
  BY DEF Entered
<1>5. \A u \in Threads : u # th => depth'[u] = depth[u]
  BY <1>2, <1>4
<1>6. ASSUME NEW s \in Sects PROVE depth'[th][s] <= entries[th]
  <2>1. depth[th][s] <= entries[th]
    BY <1>1 DEF Bounded
  <2>2. depth'[th][s] = IF s = Sect(th) THEN depth[th][s] + 1 ELSE depth[th][s]
    BY <1>2, <1>4
  <2>3. depth[th][s] \in Nat
    BY <1>2
  <2> QED BY <1>2, <1>3, <2>1, <2>2, <2>3
<1> QED BY <1>5, <1>6

\* A step of an entry.
LEMMA BoundEnter ==
    ASSUME SectInv, BoundInv, NEW th \in Threads,
           Inc(th) \/ Nested(th) \/ Wait(th) \/ Own(th) \/ Try(th) \/ TryNested(th)
    PROVE  BoundInv'
<1>1. /\ pc[th] \in EnterSteps /\ pc[th] # "ready" /\ Bounded(th)
      /\ UNCHANGED <<context, queue, ff, toR3, entries>>
  BY DEF Inc, Nested, Wait, Own, Try, TryNested, At, EnterSteps, emtVars, useVars, BoundInv
<1>2. \A s \in Sects : depth[th][s] <= entries[th]
  BY <1>1 DEF Bounded
<1>3. Bounded(th)' /\ Elsewhere(th)
  <2>1. CASE depth' = depth /\ \E step \in {"nested", "own", "wait", "perhaps"} : Goto(th, step)
    <3>1. PICK step \in {"nested", "own", "wait", "perhaps"} : Goto(th, step)
      BY <2>1
    <3>2. step \in EnterSteps /\ step \notin R0Steps
      BY <3>1 DEF EnterSteps, R0Steps
    <3> QED BY <1>1, <1>2, <2>1, <3>1, <3>2, BoundGoto
  <2>2. CASE Entered(th, Sect(th)) /\ Finish(th)
    BY <1>1, <2>2, RoomToEnter, BoundFinish
  <2>3. \/ depth' = depth /\ \E step \in {"nested", "own", "wait", "perhaps"} : Goto(th, step)
        \/ Entered(th, Sect(th)) /\ Finish(th)
    BY DEF Inc, Nested, Wait, Own, Try, TryNested, useVars
  <2> QED BY <2>1, <2>2, <2>3
<1>4. th = EMT => context # "FF"
  BY <1>1 DEF BoundInv, EmtBounded, EnterSteps
<1>5. entries' \in [Threads -> Nat] /\ entries' = entries
  BY <1>1 DEF BoundInv
<1> QED BY <1>1, <1>3, <1>4, <1>5, EmtElsewhere, BoundElsewhere

\* RTCritSectEnterMultiple starts over, or a try fails.
LEMMA BoundBusy ==
    ASSUME SectInv, SectInv', BoundInv, NEW th \in Threads, Busy(th)
    PROVE  BoundInv'
<1>1. /\ pc[th] = "perhaps" /\ Bounded(th) /\ Typed
      /\ UNCHANGED <<context, queue, ff, toR3, entries, depth>>
  BY DEF Busy, At, emtVars, useVars, BoundInv, SectInv
<1>2. Bounded(th)' /\ Elsewhere(th)
  <2>1. CASE array[th] = <<>>
    <3>1. Finish(th)
      BY <2>1 DEF Busy
    <3>2. \A s \in Sects : depth'[th][s] <= entries[th]
      BY <1>1 DEF Bounded
    <3> QED BY <1>1, <3>1, <3>2, BoundFinish
  <2>2. CASE array[th] # <<>>
    <3>1. PICK ops, i : Perform(th, ops, array[th], i)
      BY <2>2 DEF Busy
    <3>2. /\ pc'[th] = (IF ops = <<>> THEN "ready" ELSE Head(ops).step)
          /\ array'[th] = (IF ops = <<>> THEN <<>> ELSE array[th])
          /\ miss'[th] = (IF ops = <<>> THEN 0 ELSE i)
          /\ \A u \in Threads : u # th => /\ pc'[u] = pc[u] /\ todo'[u] = todo[u]
                                          /\ array'[u] = array[u] /\ miss'[u] = miss[u]
      BY <1>1, <3>1 DEF Perform, Typed
    <3>3. Elsewhere(th)
      BY <1>1, <3>2 DEF Elsewhere
    <3>4. CASE ops = <<>>
      <4>1. pc'[th] = "ready" /\ miss'[th] = 0
        BY <3>2, <3>4
      <4> QED BY <1>1, <3>3, <4>1 DEF Bounded, EnterSteps, R0Steps
    <3>5. CASE ops # <<>>
      <4>1. array'[th] # <<>> /\ Typed' /\ CallInv(th)'
        BY <2>2, <3>2, <3>5 DEF SectInv
      <4>2. pc'[th] \notin R0Steps
        <5>1. pc'[th] \in R0Steps => pc'[th] # "ready"
          BY DEF R0Steps
        <5>2. pc'[th] # "ready" => /\ Head(todo'[th]) \in CallOps
                                   /\ pc'[th] \in StepsOf[Head(todo'[th]).step]
                                   /\ Head(todo'[th]).step # "r0leave"
          <6>1. pc'[th] # "ready" => /\ todo'[th] # <<>> /\ todo'[th] \in Seq(CallOps)
                                     /\ pc'[th] \in StepsOf[Head(todo'[th]).step]
                                     /\ Script(todo'[th], array'[th], miss'[th])
            BY <4>1 DEF CallInv, Typed
          <6>2. \A t \in Seq(CallOps) : t # <<>> =>
                    1 \in DOMAIN t /\ Head(t) = t[1] /\ Head(t) \in CallOps
            BY TailOf
          <6> QED BY <6>1, <6>2 DEF Script
        <5> QED BY <5>1, <5>2, StepsAre DEF R0Steps, CallOps
      <4>3. entries[th] > 0
        BY <1>1 DEF Bounded
      <4> QED BY <1>1, <3>3, <4>1, <4>2, <4>3 DEF Bounded
    <3> QED BY <3>4, <3>5
  <2> QED BY <2>1, <2>2
<1>3. th = EMT => context # "FF"
  BY <1>1 DEF BoundInv, EmtBounded
<1>4. entries' \in [Threads -> Nat] /\ entries' = entries
  BY <1>1 DEF BoundInv
<1> QED BY <1>1, <1>2, <1>3, <1>4, EmtElsewhere, BoundElsewhere

\* EMT leaves a section in PDMR3CritSectFF.
LEMMA EmtLeaving ==
    ASSUME BoundInv, context = "FF", UNCHANGED <<context, queue, ff, toR3, entries>>,
           pc'[EMT] \in {"ready", "dec", "signal"}, array'[EMT] = <<>>,
           \A s \in Sects : ~(depth'[EMT][s] > 0)
    PROVE  EmtBounded'
  BY DEF BoundInv, EmtBounded

\* A step of a leave in ring-3.
LEMMA BoundLeave ==
    ASSUME SectInv, BoundInv, NEW th \in Threads, Leave(th) \/ Dec(th) \/ Signal(th)
    PROVE  BoundInv'
<1>1. /\ pc[th] \in {"leave", "dec", "signal"} /\ pc[th] # "ready" /\ Bounded(th)
      /\ Typed /\ CallInv(th) /\ UNCHANGED <<context, queue, ff, toR3, entries>>
      /\ EMT \in Threads
  BY DEF Leave, Dec, Signal, At, emtVars, useVars, BoundInv, SectInv, Threads
<1>2. /\ Sect(th) \in Sects /\ depth \in [Threads -> [Sects -> Nat]]
      /\ pc[th] = "leave" => depth[th][Sect(th)] > 0
  BY <1>1, CallIs, DepthAt DEF Typed
<1>3. /\ \A u \in Threads : u # th => depth'[u] = depth[u]
      /\ \A s \in Sects : depth'[th][s] =
             IF pc[th] = "leave" /\ s = Sect(th) THEN depth[th][s] - 1 ELSE depth[th][s]
  <2>1. CASE Leave(th)
    <3>1. depth' = [depth EXCEPT ![th][Sect(th)] = @ - 1] /\ pc[th] = "leave"
      BY <2>1 DEF Leave, Left, At
    <3> QED BY <1>2, <3>1
  <2>2. CASE Dec(th) \/ Signal(th)
    <3>1. depth' = depth /\ pc[th] # "leave"
      BY <2>2 DEF Dec, Signal, At, useVars
    <3> QED BY <3>1
  <2> QED BY <2>1, <2>2
<1>4. \A s \in Sects : depth'[th][s] <= entries[th]
  <2> SUFFICES ASSUME NEW s \in Sects PROVE depth'[th][s] <= entries[th]
    OBVIOUS
  <2>1. depth[th][s] \in Nat /\ depth[th][s] <= entries[th] /\ entries[th] \in Nat
    BY <1>1, <1>2 DEF Bounded, BoundInv
  <2> QED BY <1>3, <2>1
<1>5. /\ Bounded(th)' /\ Elsewhere(th)
      /\ array[th] = <<>> => pc'[th] \in {"ready", "dec", "signal"} /\ array'[th] = <<>>
  <2>1. CASE \E step \in {"dec", "signal"} : Goto(th, step)
    <3>1. PICK step \in {"dec", "signal"} : Goto(th, step)
      BY <2>1
    <3>2. step \notin EnterSteps /\ step \notin R0Steps
      BY <3>1 DEF EnterSteps, R0Steps
    <3>3. Bounded(th)' /\ Elsewhere(th)
      BY <1>1, <1>3, <1>4, <3>1, <3>2, BoundGoto
    <3>4. pc'[th] = step /\ array' = array
      BY <1>1, <3>1, GotoIs
    <3> QED BY <3>1, <3>3, <3>4
  <2>2. CASE Finish(th)
    BY <1>1, <1>3, <1>4, <2>2, BoundFinish
  <2>3. Finish(th) \/ \E step \in {"dec", "signal"} : Goto(th, step)
    BY DEF Leave, Dec, Signal
  <2> QED BY <2>1, <2>2, <2>3
<1>6. entries' \in [Threads -> Nat] /\ entries' = entries
  BY <1>1 DEF BoundInv
<1>7. EmtBounded'
  <2>1. CASE th = EMT /\ context = "FF"
    <3>1. /\ array[EMT] = <<>>
          /\ \A s \in Sects : depth[EMT][s] > 0 =>
                pc[EMT] = "leave" /\ s = Sect(EMT) /\ depth[EMT][s] = 1
      BY <2>1 DEF BoundInv, EmtBounded
    <3>2. ASSUME NEW s \in Sects PROVE ~(depth'[EMT][s] > 0)
      <4>1. depth[EMT][s] \in Nat
        BY <1>1, <1>2
      <4>2. CASE pc[EMT] = "leave" /\ s = Sect(EMT)
        <5>1. depth[EMT][s] = 1
          BY <1>2, <2>1, <3>1, <4>2
        <5> QED BY <1>3, <2>1, <4>2, <5>1
      <4>3. CASE ~(pc[EMT] = "leave" /\ s = Sect(EMT))
        <5>1. ~(depth[EMT][s] > 0)
          BY <3>1, <4>3
        <5> QED BY <1>3, <2>1, <4>3, <5>1
      <4> QED BY <4>2, <4>3
    <3> QED BY <1>1, <1>5, <2>1, <3>1, <3>2, EmtLeaving
  <2>2. CASE ~(th = EMT /\ context = "FF")
    BY <1>1, <1>5, <1>6, <2>2, EmtElsewhere
  <2> QED BY <2>1, <2>2
<1> QED BY <1>5, <1>6, <1>7, BoundElsewhere

\* A step of a leave in ring-0, and the queueing of it.
LEMMA BoundR0 ==
    ASSUME SectInv, BoundInv, R0Leave \/ R0Test \/ R0Free \/ Queue
    PROVE  BoundInv'
<1>1. /\ EMT \in Threads /\ pc[EMT] \in R0Steps /\ pc[EMT] # "ready" /\ Bounded(EMT)
      /\ Typed /\ CallInv(EMT) /\ UNCHANGED <<context, entries>>
  BY DEF R0Leave, R0Test, R0Free, Queue, At, emtVars, useVars, BoundInv, SectInv, Threads,
         R0Steps
<1>2. /\ Sect(EMT) \in Sects /\ depth \in [Threads -> [Sects -> Nat]]
      /\ pc[EMT] = "r0leave" => depth[EMT][Sect(EMT)] > 0
  BY <1>1, CallIs, DepthAt DEF Typed
<1>3. /\ \A u \in Threads : u # EMT => depth'[u] = depth[u]
      /\ \A s \in Sects : depth'[EMT][s] =
             IF pc[EMT] = "r0leave" /\ s = Sect(EMT) THEN depth[EMT][s] - 1 ELSE depth[EMT][s]
  <2>1. CASE R0Leave
    <3>1. depth' = [depth EXCEPT ![EMT][Sect(EMT)] = @ - 1] /\ pc[EMT] = "r0leave"
      BY <2>1 DEF R0Leave, Left, At
    <3> QED BY <1>1, <1>2, <3>1
  <2>2. CASE R0Test \/ R0Free \/ Queue
    <3>1. depth' = depth /\ pc[EMT] # "r0leave"
      BY <2>2 DEF R0Test, R0Free, Queue, At, useVars
    <3> QED BY <3>1
  <2> QED BY <2>1, <2>2
<1>4. \A s \in Sects : depth'[EMT][s] <= entries[EMT]
  <2> SUFFICES ASSUME NEW s \in Sects PROVE depth'[EMT][s] <= entries[EMT]
    OBVIOUS
  <2>1. depth[EMT][s] \in Nat /\ depth[EMT][s] <= entries[EMT] /\ entries[EMT] \in Nat
    BY <1>1, <1>2 DEF Bounded, BoundInv
  <2> QED BY <1>3, <2>1
<1>5. Bounded(EMT)' /\ Elsewhere(EMT)
  <2>1. CASE \E step \in {"r0test", "r0free", "queue"} : Goto(EMT, step)
    <3>1. PICK step \in {"r0test", "r0free", "queue"} : Goto(EMT, step)
      BY <2>1
    <3>2. step \notin EnterSteps
      BY <3>1 DEF EnterSteps
    <3> QED BY <1>1, <1>3, <1>4, <3>1, <3>2, BoundGoto
  <2>2. CASE Finish(EMT)
    BY <1>1, <1>3, <1>4, <2>2, BoundFinish
  <2>3. Finish(EMT) \/ \E step \in {"r0test", "r0free", "queue"} : Goto(EMT, step)
    BY DEF R0Leave, R0Test, R0Free, Queue
  <2> QED BY <2>1, <2>2, <2>3
<1>6. entries' \in [Threads -> Nat] /\ entries[EMT] > 0 /\ context # "FF"
  <2>1. pc[EMT] \notin {"ready", "leave", "dec", "signal"}
    BY <1>1 DEF R0Steps
  <2> QED BY <1>1, <2>1 DEF BoundInv, Bounded, EmtBounded
<1>7. ff' \in BOOLEAN /\ toR3' \in BOOLEAN
  BY DEF R0Leave, R0Test, R0Free, Queue, emtVars, SendsToR3, BoundInv, EmtBounded
<1>8. EmtBounded'
  BY <1>1, <1>6, <1>7 DEF BoundInv, EmtBounded
<1> QED BY <1>1, <1>5, <1>6, <1>8, BoundElsewhere

\* EMT gets back a section whose leave it had queued.
LEMMA BoundLeaveQueued ==
    ASSUME SectInv, BoundInv, LeaveQueued
    PROVE  BoundInv'
<1>1. /\ EMT \in Threads /\ Typed /\ Bounded(EMT) /\ pc[EMT] = "ready" /\ context = "FF"
      /\ queue # <<>> /\ UNCHANGED <<context, ff, toR3, entries>>
      /\ depth' = [depth EXCEPT ![EMT][Head(queue)] = @ + 1]
      /\ Perform(EMT, <<Op("leave", Head(queue))>>, <<>>, 0)
  BY DEF LeaveQueued, At, Entered, SectInv, BoundInv, Threads
<1>2. Head(queue) \in Sects /\ queue \in Seq(Sects)
  BY <1>1 DEF Typed
<1> SUFFICES ASSUME NEW s \in Sects, s = Head(queue), NEW t, t = <<Op("leave", s)>>
             PROVE  BoundInv'
  BY <1>2
<1>3. t # <<>> /\ Head(t).step = "leave" /\ Head(t).sect = s
  BY DEF Op
<1>4. /\ todo'[EMT] = t /\ pc'[EMT] = "leave" /\ array'[EMT] = <<>> /\ miss'[EMT] = 0
      /\ \A u \in Threads : u # EMT => /\ pc'[u] = pc[u] /\ todo'[u] = todo[u]
                                       /\ array'[u] = array[u] /\ miss'[u] = miss[u]
  BY <1>1, <1>3 DEF Perform, Typed
<1>5. /\ \A r \in Sects : depth'[EMT][r] = IF r = s THEN depth[EMT][r] + 1 ELSE depth[EMT][r]
      /\ \A u \in Threads : u # EMT => depth'[u] = depth[u]
  BY <1>1 DEF Typed
<1>6. Elsewhere(EMT)
  BY <1>1, <1>4, <1>5 DEF Elsewhere
<1>7. /\ entries[EMT] > 0 /\ entries[EMT] \in Nat /\ entries[EMT] \in 0 .. MaxHold
      /\ \A r \in Sects : depth[EMT][r] = 0
  <2>1. \A r \in Sects : ~(depth[EMT][r] > 0) /\ depth[EMT][r] \in Nat
    BY <1>1 DEF BoundInv, EmtBounded, Typed
  <2> QED BY <1>1, <2>1 DEF BoundInv, EmtBounded, Bounded
<1>8. \A r \in Sects : /\ depth'[EMT][r] <= entries[EMT]
                       /\ depth'[EMT][r] > 0 => r = s /\ depth'[EMT][r] = 1
  BY <1>5, <1>7
<1>9. Sect(EMT)' = s
  BY <1>3, <1>4 DEF Sect
<1>10. Bounded(EMT)'
  <2>1. "leave" \notin EnterSteps /\ "leave" \notin R0Steps
    BY DEF EnterSteps, R0Steps
  <2> QED BY <1>1, <1>4, <1>7, <1>8, <2>1 DEF Bounded
<1>11. EmtBounded'
  BY <1>1, <1>4, <1>7, <1>8, <1>9 DEF BoundInv, EmtBounded
<1> QED BY <1>1, <1>6, <1>10, <1>11, BoundElsewhere DEF BoundInv

\* EMT switches its context.
LEMMA BoundSwitch ==
    ASSUME SectInv, BoundInv, EnterGuest \/ ExitGuest \/ FFEnd
    PROVE  BoundInv'
<1>1. /\ UNCHANGED <<queue, pc, todo, array, miss, depth, entries>>
      /\ pc[EMT] = "ready" /\ EMT \in Threads /\ CallInv(EMT)
  BY DEF EnterGuest, ExitGuest, FFEnd, At, callVars, useVars, SectInv, Threads
<1>2. \A u \in Threads : Bounded(u)'
  BY <1>1 DEF BoundInv, Bounded, Sect
<1>3. EmtBounded'
  <2>1. array[EMT] = <<>>
    BY <1>1 DEF CallInv
  <2>2. /\ context' \in {"R3", "R0", "FF"} /\ ff' \in BOOLEAN /\ toR3' \in BOOLEAN
        /\ context' = "FF" => HoldsNone(EMT)
    BY DEF EnterGuest, ExitGuest, FFEnd, BoundInv, EmtBounded
  <2>3. context' = "FF" => \A s \in Sects : ~(depth[EMT][s] > 0)
    BY <2>2 DEF HoldsNone
  <2> QED BY <1>1, <2>1, <2>2, <2>3 DEF BoundInv, EmtBounded
<1> QED BY <1>1, <1>2, <1>3 DEF BoundInv

\* The calls begin.
LEMMA BoundStart ==
    ASSUME SectInv, BoundInv, NEW th \in Threads, NEW a, NEW ops, MayEnter(th), Start(th, a, ops),
           ops = <<>> \/ Head(ops).step \in {"inc", "try"},
           ops # <<>> /\ a = <<>> => Head(ops).sect \in Sects
    PROVE  BoundInv'
<1>1. /\ Typed /\ Bounded(th) /\ pc[th] = "ready" /\ Perform(th, ops, a, 0)
      /\ UNCHANGED <<context, queue, ff, toR3, depth>>
      /\ entries' = [entries EXCEPT ![th] = IF HoldsNone(th) THEN 1 ELSE @ + 1]
      /\ HoldsNone(th) \/ entries[th] < MaxHold
      /\ th = EMT => context # "FF"
  BY DEF MayEnter, Start, At, emtVars, SectInv, BoundInv
<1>2. /\ todo'[th] = ops /\ pc'[th] = (IF ops = <<>> THEN "ready" ELSE Head(ops).step)
      /\ array'[th] = (IF ops = <<>> THEN <<>> ELSE a)
      /\ miss'[th] = 0
      /\ \A u \in Threads : u # th => /\ pc'[u] = pc[u] /\ todo'[u] = todo[u]
                                      /\ array'[u] = array[u] /\ miss'[u] = miss[u]
  BY <1>1 DEF Perform, Typed
<1>3. /\ entries' \in [Threads -> Nat] /\ \A u \in Threads : u # th => entries'[u] = entries[u]
      /\ entries'[th] = IF HoldsNone(th) THEN 1 ELSE entries[th] + 1
  BY <1>1 DEF BoundInv
<1>4. /\ entries'[th] \in 1 .. MaxHold /\ \A s \in Sects : depth[th][s] < entries'[th]
  <2>1. MaxHold \in Nat \ {0} /\ entries[th] \in Nat /\ \A s \in Sects : depth[th][s] \in Nat
    BY <1>1, CritSectAssumption DEF BoundInv, Typed
  <2>2. CASE HoldsNone(th)
    BY <1>3, <2>1, <2>2 DEF HoldsNone
  <2>3. CASE ~HoldsNone(th)
    <3>1. entries[th] < MaxHold
      BY <2>3 DEF MayEnter
    <3>2. \A s \in Sects : depth[th][s] <= entries[th]
      BY <1>1 DEF Bounded
    <3>3. entries'[th] = entries[th] + 1
      BY <1>3, <2>3
    <3> QED BY <2>1, <3>1, <3>2, <3>3
  <2> QED BY <2>2, <2>3
<1>5. Elsewhere(th)
  BY <1>1, <1>2, <1>3 DEF Elsewhere
<1>6. Bounded(th)'
  <2>1. pc'[th] \in {"ready", "inc", "try"} /\ pc'[th] \notin R0Steps
    BY <1>2 DEF R0Steps
  <2>2. array'[th] = <<>> /\ pc'[th] \in EnterSteps => depth'[th][Sect(th)'] < entries'[th]
    <3> SUFFICES ASSUME array'[th] = <<>>, pc'[th] \in EnterSteps
                 PROVE  depth'[th][Sect(th)'] < entries'[th]
      OBVIOUS
    <3>1. ops # <<>> /\ a = <<>>
      BY <1>2 DEF EnterSteps
    <3>2. Sect(th)' = Head(ops).sect
      BY <1>2 DEF Sect
    <3> QED BY <1>1, <1>4, <3>1, <3>2
  <2>3. /\ entries'[th] \in 0 .. MaxHold /\ entries'[th] > 0
        /\ \A s \in Sects : depth'[th][s] <= entries'[th]
    <3>1. MaxHold \in Nat /\ \A s \in Sects : depth[th][s] \in Nat
      BY <1>1, CritSectAssumption DEF Typed
    <3> QED BY <1>1, <1>4, <3>1
  <2> QED BY <1>2, <2>1, <2>2, <2>3 DEF Bounded
<1>7. entries'[th] > 0
  BY <1>4
<1>8. EmtBounded'
  BY <1>1, <1>5, <1>7, EmtElsewhere DEF MayEnter
<1> QED BY <1>3, <1>5, <1>6, <1>8, BoundElsewhere

\* A thread calls.
LEMMA BoundBegin ==
    ASSUME SectInv, BoundInv, NEW th \in Threads, BeginSome(th) \/ LeaveSome(th)
    PROVE  BoundInv'
<1>1. CASE \E s \in Sects : BeginEnter(th, s) \/ BeginTry(th, s)
  <2>1. PICK s \in Sects : BeginEnter(th, s) \/ BeginTry(th, s)
    BY <1>1
  <2>2. PICK st \in {"inc", "try"} : MayEnter(th) /\ Start(th, <<>>, <<Op(st, s)>>)
    BY <2>1 DEF BeginEnter, BeginTry
  <2> SUFFICES ASSUME NEW ops, ops = <<Op(st, s)>>, NEW a, a = <<>> PROVE BoundInv'
    OBVIOUS
  <2>3. ops # <<>> /\ Head(ops).step = st /\ Head(ops).sect = s
    BY DEF Op
  <2> QED BY <2>2, <2>3, BoundStart
<1>2. CASE \E a \in Arrays : BeginMultiple(th, a)
  <2>1. PICK a \in Arrays : BeginMultiple(th, a)
    BY <1>2
  <2>2. a \in Seq(Sects)
    BY CritSectAssumption
  <2> SUFFICES ASSUME NEW ops, ops = [k \in 1 .. Len(a) |-> Op("try", a[k])] PROVE BoundInv'
    OBVIOUS
  <2>3. MayEnter(th) /\ Start(th, a, ops)
    BY <2>1 DEF BeginMultiple
  <2>4. ASSUME ops # <<>> PROVE a # <<>> /\ Head(ops).step = "try"
    <3>1. Len(a) \in Nat /\ Len(a) # 0
      <4>1. Len(a) = 0 => ops = <<>>
        BY <2>2
      <4> QED BY <2>2, <2>4, <4>1
    <3>2. 1 \in 1 .. Len(a) /\ Head(ops) = ops[1]
      BY <3>1
    <3> QED BY <2>2, <3>1, <3>2 DEF Op
  <2> QED BY <2>3, <2>4, BoundStart
<1>3. CASE LeaveSome(th)
  <2>1. PICK s \in Sects : BeginLeave(th, s)
    BY <1>3 DEF LeaveSome
  <2>2. /\ Typed /\ Bounded(th) /\ pc[th] = "ready" /\ depth[th][s] > 0
        /\ UNCHANGED <<context, queue, ff, toR3, depth, entries>>
    BY <2>1 DEF BeginLeave, At, emtVars, useVars, SectInv, BoundInv
  <2>3. PICK st \in {"leave", "r0leave"} : /\ Perform(th, <<Op(st, s)>>, <<>>, 0)
                                           /\ st = "r0leave" => ~Waits(th)
    BY <2>1 DEF BeginLeave
  <2> SUFFICES ASSUME NEW ops, ops = <<Op(st, s)>> PROVE BoundInv'
    OBVIOUS
  <2>4. ops # <<>> /\ Head(ops).step = st
    BY DEF Op
  <2>5. /\ pc'[th] = st /\ array'[th] = <<>> /\ miss'[th] = 0
        /\ \A u \in Threads : u # th => /\ pc'[u] = pc[u] /\ todo'[u] = todo[u]
                                        /\ array'[u] = array[u] /\ miss'[u] = miss[u]
    <3>1. Perform(th, ops, <<>>, 0)
      BY <2>3
    <3> QED BY <2>2, <2>4, <3>1 DEF Perform, Typed
  <2>6. Elsewhere(th)
    BY <2>2, <2>5 DEF Elsewhere
  <2>7. entries[th] > 0
    <3>1. depth[th][s] \in Nat /\ entries[th] \in Nat /\ depth[th][s] <= entries[th]
      BY <2>2 DEF Typed, Bounded, BoundInv
    <3> QED BY <2>2, <3>1
  <2>8. Bounded(th)'
    <3>1. pc'[th] \notin EnterSteps /\ (pc'[th] \in R0Steps => th = EMT)
      BY <2>3, <2>5 DEF EnterSteps, R0Steps, Waits
    <3> QED BY <2>2, <2>5, <2>7, <3>1 DEF Bounded
  <2>9. th = EMT => context # "FF"
    BY <2>2 DEF BoundInv, EmtBounded
  <2> QED BY <2>2, <2>6, <2>8, <2>9, EmtElsewhere, BoundElsewhere DEF BoundInv
<1> QED BY <1>1, <1>2, <1>3 DEF BeginSome

LEMMA BoundNext ==
    ASSUME SectInv, SectInv', BoundInv, [Next]_vars
    PROVE  BoundInv'
<1>1. ASSUME NEW th \in Threads, BeginSome(th) \/ LeaveSome(th) \/ CallStep(th)
      PROVE  BoundInv'
  BY <1>1, BoundBegin, BoundEnter, BoundBusy, BoundLeave DEF CallStep
<1>2. CASE EmtStep
  BY <1>2, BoundR0, BoundLeaveQueued, BoundSwitch DEF EmtStep
<1>3. CASE EnterGuest \/ ExitGuest
  BY <1>3, BoundSwitch
<1>4. CASE UNCHANGED vars
  BY <1>4 DEF vars, emtVars, callVars, useVars, BoundInv, EmtBounded, Bounded, Sect
<1> QED BY <1>1, <1>2, <1>3, <1>4 DEF Next

LEMMA BoundInit == Init => BoundInv
<1> SUFFICES ASSUME Init PROVE BoundInv
  OBVIOUS
<1>1. /\ context = "R3" /\ queue = <<>> /\ ff = FALSE /\ toR3 = FALSE
      /\ pc = [th \in Threads |-> "ready"] /\ array = [th \in Threads |-> <<>>]
      /\ miss = [th \in Threads |-> 0] /\ entries = [th \in Threads |-> 0]
      /\ depth = [th \in Threads |-> [s \in Sects |-> 0]]
  BY DEF Init
<1>2. EmtBounded
  BY <1>1 DEF EmtBounded
<1>3. ASSUME NEW th \in Threads PROVE Bounded(th)
  <2>1. MaxHold \in Nat
    BY CritSectAssumption
  <2> QED BY <1>1, <2>1 DEF Bounded, EnterSteps, R0Steps
<1> QED BY <1>1, <1>2, <1>3 DEF BoundInv

\* There are at most as many entries as threads times what each may hold, and a
\* queued leave.
LEMMA LockersBounded ==
    ASSUME SectInv, BoundInv, IsFiniteSet(Others), NEW s \in Sects
    PROVE  cLockers[s] \in -1 .. MostLockers
<1> DEFINE all == (Threads \X (0 .. MaxHold)) \union {<<Nil, 0>>}
           pairs == Threads \X (0 .. MaxHold)
           n == Cardinality(Threads)
<1>1. IsFiniteSet(Threads) /\ n \in Nat
  BY FS_AddElement, FS_CardinalityType DEF Threads
<1>2. /\ IsFiniteSet(0 .. MaxHold) /\ Cardinality(0 .. MaxHold) = MaxHold + 1
      /\ MaxHold \in Nat
  <2>1. MaxHold \in Nat
    BY CritSectAssumption
  <2>2. Cardinality(0 .. MaxHold) = MaxHold - 0 + 1 /\ IsFiniteSet(0 .. MaxHold)
    BY <2>1, FS_Interval
  <2> QED BY <2>1, <2>2
<1> HIDE DEF n
<1>3. IsFiniteSet(pairs) /\ Cardinality(pairs) = n * (MaxHold + 1)
  BY <1>1, <1>2, FS_Product DEF n
<1>4. IsFiniteSet(all) /\ Cardinality(all) <= n * (MaxHold + 1) + 1
  <2>1. IsFiniteSet(pairs \union {<<Nil, 0>>})
    BY <1>3, FS_AddElement
  <2>2. /\ Cardinality(pairs \union {<<Nil, 0>>}) =
              IF <<Nil, 0>> \in pairs THEN Cardinality(pairs) ELSE Cardinality(pairs) + 1
        /\ Cardinality(pairs) \in Nat
    BY <1>3, FS_AddElement, FS_CardinalityType
  <2> HIDE DEF pairs
  <2>3. Cardinality(pairs \union {<<Nil, 0>>}) <= n * (MaxHold + 1) + 1
    BY <1>3, <2>2
  <2> QED BY <2>1, <2>3 DEF pairs
<1>5. EntriesInto(s) \subseteq all
  <2>1. \A th \in Threads : depth[th][s] \in Nat /\ depth[th][s] <= MaxHold
    <3> SUFFICES ASSUME NEW th \in Threads PROVE depth[th][s] \in Nat /\ depth[th][s] <= MaxHold
      OBVIOUS
    <3>1. depth[th][s] \in Nat /\ depth[th][s] <= entries[th] /\ entries[th] \in 0 .. MaxHold
      BY DEF SectInv, Typed, BoundInv, Bounded
    <3> QED BY <1>2, <3>1
  <2>2. ASSUME NEW e \in EntriesInto(s) PROVE e \in all
    <3>1. \/ \E th \in Threads : e \in {th} \X (1 .. depth[th][s])
          \/ e \in UnderWay(s) \X {0}
          \/ e = <<Nil, 0>>
      BY <2>2 DEF EntriesInto
    <3>2. CASE \E th \in Threads : e \in {th} \X (1 .. depth[th][s])
      <4>1. PICK th \in Threads : \E k \in 1 .. depth[th][s] : e = <<th, k>>
        BY <3>2
      <4>2. \A k \in 1 .. depth[th][s] : k \in 0 .. MaxHold
        BY <1>2, <2>1, <4>1
      <4> QED BY <4>1, <4>2
    <3>3. CASE e \in UnderWay(s) \X {0}
      BY <1>2, <3>3 DEF UnderWay
    <3> QED BY <3>1, <3>2, <3>3
  <2> QED BY <2>2
<1> HIDE DEF all
<1>6. Cardinality(EntriesInto(s)) <= Cardinality(all) /\ Cardinality(EntriesInto(s)) \in Nat
      /\ Cardinality(all) \in Nat
  BY <1>4, <1>5, FS_Subset, FS_CardinalityType
<1>7. cLockers[s] \in Int /\ cLockers[s] + 1 = Cardinality(EntriesInto(s))
  BY DEF SectInv, Typed, CountInv
<1>8. MostLockers = (MaxHold + 1) * n
  BY DEF MostLockers, n
<1>9. n * (MaxHold + 1) = (MaxHold + 1) * n /\ (MaxHold + 1) * n \in Int
  BY <1>1, <1>2
<1> HIDE DEF pairs
<1>10. \A m \in Int : m = (MaxHold + 1) * n => cLockers[s] \in -1 .. m
  BY <1>4, <1>6, <1>7, <1>9
<1> QED BY <1>8, <1>9, <1>10

\* With finitely many threads every variable has its type, and the counters their
\* bounds: cLockers is -1 or counts no more entries than there may be, cNestings no more
\* than its owner has made and one leave that is queued.
THEOREM SectTypes == IsFiniteSet(Others) => (Spec => []TypeOK)
<1> SUFFICES ASSUME IsFiniteSet(Others) PROVE Spec => []TypeOK
  OBVIOUS
<1>1. SectInv /\ BoundInv => TypeOK
  <2> SUFFICES ASSUME SectInv, BoundInv PROVE TypeOK
    OBVIOUS
  <2>1. Typed /\ EMT \in Threads /\ Nil \notin Threads /\ MaxHold \in Nat
    BY CritSectAssumption DEF SectInv, Threads
  <2>2. cLockers \in [Sects -> -1 .. MostLockers]
    BY <2>1, LockersBounded DEF Typed
  <2>3. depth \in [Threads -> [Sects -> 0 .. MaxHold + 1]] /\ entries \in [Threads -> 0 .. MaxHold]
    <3>1. ASSUME NEW th \in Threads, NEW s \in Sects
          PROVE  depth[th][s] \in 0 .. MaxHold + 1 /\ depth[th][s] <= MaxHold
      <4>1. depth[th][s] \in Nat /\ depth[th][s] <= entries[th] /\ entries[th] \in 0 .. MaxHold
        BY <2>1 DEF Typed, BoundInv, Bounded
      <4> QED BY <2>1, <4>1
    <3>2. \A th \in Threads : depth[th] \in [Sects -> 0 .. MaxHold + 1]
      BY <2>1, <3>1 DEF Typed
    <3> QED BY <2>1, <3>2 DEF Typed, BoundInv, Bounded
  <2>4. cNestings \in [Sects -> 0 .. MaxHold + 1]
    <3> SUFFICES ASSUME NEW s \in Sects PROVE cNestings[s] \in 0 .. MaxHold + 1
      BY <2>1 DEF Typed
    <3>1. Owned(s) /\ owner[s] \in Threads \union {Nil} /\ QueuedOnce(s) \in {0, 1}
      BY <2>1 DEF SectInv, OwnInv, Typed, QueuedOnce
    <3>2. CASE owner[s] = Nil
      BY <2>1, <3>1, <3>2 DEF Owned
    <3>3. CASE owner[s] # Nil
      <4>1. owner[s] \in Threads /\ cNestings[s] = depth[owner[s]][s] + QueuedOnce(s)
        BY <3>1, <3>3 DEF Owned
      <4>2. /\ depth[owner[s]][s] \in Nat /\ depth[owner[s]][s] <= entries[owner[s]]
            /\ entries[owner[s]] \in 0 .. MaxHold
        BY <2>1, <4>1 DEF Typed, BoundInv, Bounded
      <4> QED BY <2>1, <3>1, <4>1, <4>2
    <3> QED BY <3>2, <3>3
  <2>5. \A th \in Others : pc[th] \in Steps
    BY <2>1, CritSectAssumption DEF BoundInv, Bounded, Typed, Threads
  <2>6. \A th \in Threads : \A op \in Range(todo[th]) : op.sect \in Sects
    <3> SUFFICES ASSUME NEW th \in Threads, NEW k \in DOMAIN todo[th] PROVE todo[th][k].sect \in Sects
      BY DEF Range
    <3>1. todo[th][k] \in CallOps
      BY <2>1 DEF Typed
    <3> QED BY <3>1 DEF CallOps
  <2>7. \A th \in Threads : miss[th] \in 0 .. Len(array[th])
    <3> SUFFICES ASSUME NEW th \in Threads PROVE miss[th] \in 0 .. Len(array[th])
      OBVIOUS
    <3>1. CASE array[th] = <<>>
      <4>1. miss[th] = 0 /\ Len(array[th]) = 0
        BY <3>1 DEF BoundInv, Bounded
      <4> QED BY <4>1
    <3>2. CASE array[th] # <<>>
      BY <3>2 DEF SectInv, CallInv, Script
    <3> QED BY <3>1, <3>2
  <2> QED BY <2>1, <2>2, <2>3, <2>4, <2>5, <2>6, <2>7 DEF TypeOK, Typed, BoundInv, EmtBounded
<1>2. Spec => [](SectInv /\ BoundInv)
  <2>1. SectInv /\ BoundInv /\ [Next]_vars => (SectInv /\ BoundInv)'
    BY NextSect, BoundNext
  <2> QED BY InitSect, BoundInit, <2>1, PTL DEF Spec
<1> QED BY <1>1, <1>2, PTL
=============================================================================
