---------------------------- MODULE SequenceFacts ----------------------------
(***************************************************************************)
(* Facts about finite sequences that the proofs of several modules need.   *)
(***************************************************************************)
EXTENDS Integers, SequencesExt, SequenceTheorems, TLAPS

\* The first of a sequence and the rest.
LEMMA TailOf ==
    ASSUME NEW S, NEW t \in Seq(S), t # <<>>
    PROVE  /\ Tail(t) \in Seq(S) /\ Len(Tail(t)) = Len(t) - 1
           /\ DOMAIN t = 1 .. Len(t) /\ 1 \in DOMAIN t /\ Head(t) = t[1] /\ t[1] \in S
           /\ DOMAIN Tail(t) = 1 .. (Len(t) - 1)
           /\ \A p \in 1 .. (Len(t) - 1) : Tail(t)[p] = t[p + 1]
           /\ Tail(t) = <<>> <=> Len(t) = 1
<1>1. Len(t) \in Nat \ {0} /\ DOMAIN t = 1 .. Len(t) /\ Head(t) = t[1]
  OBVIOUS
<1>2. Tail(t) \in Seq(S) /\ Len(Tail(t)) = Len(t) - 1
  OBVIOUS
<1>3. \A p \in 1 .. (Len(t) - 1) : Tail(t)[p] = t[p + 1]
  OBVIOUS
<1>4. Tail(t) = <<>> <=> Len(Tail(t)) = 0
  <2>1. \A u \in Seq(S) : u = <<>> <=> Len(u) = 0
    OBVIOUS
  <2> QED BY <1>2, <2>1
<1> QED BY <1>1, <1>2, <1>3, <1>4

\* Two sequences put together.
LEMMA ConcatIs ==
    ASSUME NEW S, NEW x \in Seq(S), NEW y \in Seq(S)
    PROVE  /\ x \o y \in Seq(S) /\ Len(x \o y) = Len(x) + Len(y)
           /\ \A p \in 1 .. Len(x) : (x \o y)[p] = x[p]
           /\ \A p \in 1 .. Len(y) : (x \o y)[Len(x) + p] = y[p]
<1>1. Len(x) \in Nat /\ Len(y) \in Nat /\ x \o y \in Seq(S) /\ Len(x \o y) = Len(x) + Len(y)
  OBVIOUS
<1>2. ASSUME NEW p \in 1 .. Len(x) PROVE (x \o y)[p] = x[p]
  BY <1>1
<1>3. ASSUME NEW p \in 1 .. Len(y) PROVE (x \o y)[Len(x) + p] = y[p]
  <2>1. Len(x) + p \in 1 .. (Len(x) + Len(y)) /\ Len(x) + p > Len(x) /\ (Len(x) + p) - Len(x) = p
    BY <1>1
  <2> QED BY <1>1, <2>1
<1> QED BY <1>1, <1>2, <1>3

\* One more in an injective sequence.
LEMMA AppendIs ==
    ASSUME NEW S, NEW q \in Seq(S), IsInjective(q), NEW s \in S, s \notin Range(q)
    PROVE  /\ Append(q, s) \in Seq(S) /\ IsInjective(Append(q, s))
           /\ Range(Append(q, s)) = Range(q) \union {s}
<1> DEFINE r == Append(q, s)
           n == Len(q)
<1>1. /\ r \in Seq(S) /\ Len(r) = n + 1 /\ n \in Nat /\ DOMAIN q = 1 .. n
      /\ DOMAIN r = 1 .. (n + 1) /\ r[n + 1] = s /\ \A p \in 1 .. n : r[p] = q[p]
  OBVIOUS
<1> HIDE DEF r, n
<1>2. \A p \in DOMAIN r : p \in DOMAIN q \/ p = n + 1
  BY <1>1
<1>3. \A p \in DOMAIN q : q[p] # s /\ p \in DOMAIN r /\ p # n + 1
  BY <1>1 DEF Range
<1>4. IsInjective(r)
  BY <1>1, <1>2, <1>3 DEF IsInjective
<1>5. Range(r) = Range(q) \union {s}
  <2>1. n + 1 \in DOMAIN r
    BY <1>1
  <2> QED BY <1>1, <1>2, <1>3, <2>1 DEF Range
<1> QED BY <1>1, <1>4, <1>5 DEF r

\* The rest of an injective sequence.
LEMMA RestIs ==
    ASSUME NEW S, NEW q \in Seq(S), IsInjective(q), q # <<>>
    PROVE  /\ Head(q) \in S /\ Head(q) \in Range(q) /\ Tail(q) \in Seq(S)
           /\ IsInjective(Tail(q)) /\ Range(Tail(q)) = Range(q) \ {Head(q)}
<1> DEFINE r == Tail(q)
           n == Len(q)
<1>1. /\ r \in Seq(S) /\ n \in Nat \ {0} /\ DOMAIN q = 1 .. n /\ DOMAIN r = 1 .. (n - 1)
      /\ Head(q) = q[1] /\ 1 \in DOMAIN q /\ q[1] \in S
      /\ \A p \in 1 .. (n - 1) : r[p] = q[p + 1]
  BY TailOf
<1> HIDE DEF r, n
<1>2. /\ \A p \in DOMAIN r : p + 1 \in DOMAIN q /\ p + 1 # 1 /\ r[p] = q[p + 1]
      /\ \A p, k \in DOMAIN r : p # k => p + 1 # k + 1
      /\ \A p \in DOMAIN q : p # 1 => p - 1 \in DOMAIN r /\ r[p - 1] = q[p]
  BY <1>1
<1>3. \A p, k \in DOMAIN q : p # k => q[p] # q[k]
  BY DEF IsInjective
<1>4. IsInjective(r)
  <2>1. ASSUME NEW p \in DOMAIN r, NEW k \in DOMAIN r, r[p] = r[k] PROVE p = k
    BY <1>2, <1>3, <2>1
  <2> QED BY <2>1 DEF IsInjective
<1>5. Range(r) = Range(q) \ {q[1]}
  <2>1. \A x \in Range(r) : x \in Range(q) /\ x # q[1]
    BY <1>1, <1>2, <1>3 DEF Range
  <2>2. \A x \in Range(q) : x # q[1] => x \in Range(r)
    BY <1>2 DEF Range
  <2> QED BY <2>1, <2>2
<1> QED BY <1>1, <1>4, <1>5 DEF r, Range

\* One more in front.
LEMMA PushIs ==
    ASSUME NEW S, NEW q \in Seq(S), IsInjective(q), NEW s \in S, s \notin Range(q)
    PROVE  /\ <<s>> \o q \in Seq(S) /\ IsInjective(<<s>> \o q)
           /\ Range(<<s>> \o q) = Range(q) \union {s}
<1> DEFINE r == <<s>> \o q
           n == Len(q)
<1>1. /\ r \in Seq(S) /\ Len(r) = n + 1 /\ n \in Nat /\ DOMAIN q = 1 .. n
      /\ DOMAIN r = 1 .. (n + 1) /\ r[1] = s
  OBVIOUS
<1>2. ASSUME NEW p \in 1 .. n PROVE r[p + 1] = q[p]
  <2>1. <<s>> \in Seq(S) /\ Len(<<s>>) = 1
    OBVIOUS
  <2>2. (<<s>> \o q)[Len(<<s>>) + p] = q[p]
    BY <2>1, ConcatIs
  <2>3. Len(<<s>>) + p = p + 1
    BY <1>1, <2>1
  <2> QED BY <2>2, <2>3
<1> HIDE DEF r, n
<1>3. /\ \A p \in DOMAIN q : p + 1 \in DOMAIN r /\ p + 1 # 1 /\ r[p + 1] = q[p] /\ q[p] # s
      /\ \A p \in DOMAIN r : p # 1 => p - 1 \in DOMAIN q /\ r[p] = q[p - 1]
      /\ \A p, k \in DOMAIN r : p # k => p - 1 # k - 1
      /\ 1 \in DOMAIN r
  <2>1. \A p \in DOMAIN q : p + 1 \in DOMAIN r /\ p + 1 # 1 /\ r[p + 1] = q[p] /\ q[p] # s
    BY <1>1, <1>2 DEF Range
  <2>2. ASSUME NEW p \in DOMAIN r, p # 1 PROVE p - 1 \in DOMAIN q /\ r[p] = q[p - 1]
    <3>1. p - 1 \in 1 .. n /\ (p - 1) + 1 = p
      BY <1>1, <2>2
    <3> QED BY <1>1, <1>2, <3>1
  <2>3. \A p, k \in DOMAIN r : p # k => p - 1 # k - 1
    BY <1>1
  <2> QED BY <1>1, <2>1, <2>2, <2>3
<1>4. IsInjective(r)
  <2>1. ASSUME NEW p \in DOMAIN r, NEW k \in DOMAIN r, r[p] = r[k] PROVE p = k
    <3>1. \A i, j \in DOMAIN q : q[i] = q[j] => i = j
      BY DEF IsInjective
    <3>2. p # 1 /\ k # 1 => p - 1 = k - 1
      BY <1>3, <2>1, <3>1
    <3>3. p # 1 /\ k = 1 => r[p] # r[k]
      BY <1>1, <1>3
    <3>4. p = 1 /\ k # 1 => r[p] # r[k]
      BY <1>1, <1>3
    <3> QED BY <1>3, <2>1, <3>2, <3>3, <3>4
  <2> QED BY <2>1 DEF IsInjective
<1>5. Range(r) = Range(q) \union {s}
  <2>1. \A x \in Range(r) : x \in Range(q) \/ x = s
    BY <1>1, <1>3 DEF Range
  <2>2. \A x : x \in Range(q) \/ x = s => x \in Range(r)
    BY <1>1, <1>3 DEF Range
  <2> QED BY <2>1, <2>2
<1> QED BY <1>1, <1>4, <1>5 DEF r

\* A sequence turned round.
LEMMA ReverseIs ==
    ASSUME NEW S, NEW q \in Seq(S)
    PROVE  /\ Reverse(q) \in Seq(S) /\ Len(Reverse(q)) = Len(q)
           /\ Range(Reverse(q)) = Range(q)
           /\ IsInjective(q) => IsInjective(Reverse(q))
           /\ \A p \in 1 .. Len(q) : Reverse(q)[p] = q[(Len(q) - p) + 1]
<1> DEFINE r == Reverse(q)
           n == Len(q)
<1>1. n \in Nat /\ DOMAIN q = 1 .. n /\ \A p \in 1 .. n : q[p] \in S
  OBVIOUS
<1>2. r = [p \in 1 .. n |-> q[(n - p) + 1]]
  BY DEF Reverse
<1>3. \A p \in 1 .. n : (n - p) + 1 \in 1 .. n /\ (n - ((n - p) + 1)) + 1 = p
  BY <1>1
<1>4. \A p, k \in 1 .. n : (n - p) + 1 = (n - k) + 1 => p = k
  BY <1>1
<1> HIDE DEF r, n
<1>5. DOMAIN r = 1 .. n /\ \A p \in 1 .. n : r[p] = q[(n - p) + 1] /\ r[p] \in S
  BY <1>1, <1>2, <1>3
<1>6. r \in Seq(S) /\ Len(r) = n
  <2>1. r \in [1 .. n -> S]
    BY <1>2, <1>5
  <2> QED BY <1>1, <2>1
<1>7. Range(r) = Range(q)
  <2>1. \A x \in Range(r) : x \in Range(q)
    BY <1>1, <1>3, <1>5 DEF Range
  <2>2. \A x \in Range(q) : x \in Range(r)
    <3> SUFFICES ASSUME NEW p \in 1 .. n PROVE q[p] \in Range(r)
      BY <1>1 DEF Range
    <3>1. (n - p) + 1 \in DOMAIN r /\ r[(n - p) + 1] = q[(n - ((n - p) + 1)) + 1]
      BY <1>3, <1>5
    <3>2. r[(n - p) + 1] = q[p]
      BY <1>3, <3>1
    <3> QED BY <3>1, <3>2 DEF Range
  <2> QED BY <2>1, <2>2
<1>8. IsInjective(q) => IsInjective(r)
  <2> SUFFICES ASSUME IsInjective(q), NEW p \in DOMAIN r, NEW k \in DOMAIN r, r[p] = r[k]
               PROVE  p = k
    BY DEF IsInjective
  <2>1. (n - p) + 1 = (n - k) + 1
    BY <1>1, <1>3, <1>5 DEF IsInjective
  <2> QED BY <1>4, <1>5, <2>1
<1> QED BY <1>5, <1>6, <1>7, <1>8 DEF r, n

\* Two injective sequences that have nothing in common, put together.
LEMMA JoinIs ==
    ASSUME NEW S, NEW x \in Seq(S), NEW y \in Seq(S), IsInjective(x), IsInjective(y),
           \A s \in S : ~(s \in Range(x) /\ s \in Range(y))
    PROVE  IsInjective(x \o y) /\ Range(x \o y) = Range(x) \union Range(y)
<1> DEFINE r == x \o y
           n == Len(x)
           m == Len(y)
<1>1. /\ n \in Nat /\ m \in Nat /\ DOMAIN x = 1 .. n /\ DOMAIN y = 1 .. m
      /\ DOMAIN r = 1 .. (n + m) /\ r \in Seq(S)
  OBVIOUS
<1>2. /\ \A p \in 1 .. n : r[p] = x[p] /\ x[p] \in S /\ x[p] \in Range(x)
      /\ \A p \in 1 .. m : r[n + p] = y[p] /\ y[p] \in S /\ y[p] \in Range(y)
  <2>1. /\ \A p \in 1 .. n : x[p] \in S /\ x[p] \in Range(x)
        /\ \A p \in 1 .. m : y[p] \in S /\ y[p] \in Range(y)
    BY <1>1 DEF Range
  <2>2. /\ \A p \in 1 .. n : r[p] = x[p]
        /\ \A p \in 1 .. m : r[n + p] = y[p]
    BY ConcatIs
  <2> QED BY <2>1, <2>2
<1> HIDE DEF r, n, m
<1>3. \A p \in DOMAIN r : p \in 1 .. n \/ (p - n \in 1 .. m /\ n + (p - n) = p)
  BY <1>1
<1>4. IsInjective(r)
  <2> SUFFICES ASSUME NEW p \in DOMAIN r, NEW k \in DOMAIN r, r[p] = r[k] PROVE p = k
    BY DEF IsInjective
  <2>1. CASE p \in 1 .. n /\ k \in 1 .. n
    BY <1>1, <1>2, <2>1 DEF IsInjective
  <2>2. CASE p - n \in 1 .. m /\ k - n \in 1 .. m /\ n + (p - n) = p /\ n + (k - n) = k
    <3>1. y[p - n] = y[k - n]
      BY <1>2, <2>2
    <3>2. p - n = k - n
      BY <1>1, <2>2, <3>1 DEF IsInjective
    <3> QED BY <2>2, <3>2
  <2>3. ASSUME NEW a \in 1 .. n, NEW b \in 1 .. m, r[a] = r[n + b] PROVE FALSE
    BY <1>2, <2>3
  <2> QED BY <1>3, <2>1, <2>2, <2>3
<1>5. Range(r) = Range(x) \union Range(y)
  <2>1. ASSUME NEW p \in DOMAIN r PROVE r[p] \in Range(x) \union Range(y)
    <3>1. CASE p \in 1 .. n
      BY <1>2, <3>1
    <3>2. CASE p - n \in 1 .. m /\ n + (p - n) = p
      <4>1. r[n + (p - n)] \in Range(y)
        BY <1>2, <3>2
      <4> QED BY <3>2, <4>1
    <3> QED BY <1>3, <3>1, <3>2
  <2>2. ASSUME NEW p \in 1 .. n PROVE x[p] \in Range(r)
    <3>1. p \in DOMAIN r
      BY <1>1
    <3> QED BY <1>2, <3>1 DEF Range
  <2>3. ASSUME NEW p \in 1 .. m PROVE y[p] \in Range(r)
    <3>1. n + p \in DOMAIN r
      BY <1>1
    <3> QED BY <1>2, <3>1 DEF Range
  <2> QED BY <1>1, <2>1, <2>2, <2>3 DEF Range
<1> QED BY <1>4, <1>5 DEF r


\* A sequence is its first element and its rest.
LEMMA FirstAndRest ==
    ASSUME NEW S, NEW q \in Seq(S), q # <<>>
    PROVE  <<Head(q)>> \o Tail(q) = q
<1> DEFINE r == <<Head(q)>> \o Tail(q)
<1>1. /\ Tail(q) \in Seq(S) /\ Len(Tail(q)) = Len(q) - 1 /\ Head(q) = q[1] /\ q[1] \in S
      /\ \A p \in 1 .. (Len(q) - 1) : Tail(q)[p] = q[p + 1]
      /\ Len(q) \in Nat \ {0}
  BY TailOf, EmptySeq
<1>2. <<Head(q)>> \in Seq(S) /\ Len(<<Head(q)>>) = 1 /\ <<Head(q)>>[1] = q[1]
  BY <1>1
<1>3. /\ r \in Seq(S) /\ Len(r) = Len(q) /\ r[1] = q[1]
      /\ \A p \in 1 .. (Len(q) - 1) : r[1 + p] = q[p + 1]
  <2> HIDE DEF r
  <2>1. /\ r \in Seq(S) /\ Len(r) = 1 + Len(Tail(q))
        /\ \A p \in 1 .. 1 : r[p] = <<Head(q)>>[p]
        /\ \A p \in 1 .. Len(Tail(q)) : r[1 + p] = Tail(q)[p]
    BY <1>1, <1>2, ConcatIs DEF r
  <2> QED BY <1>1, <1>2, <2>1
<1>4. ASSUME NEW i \in 1 .. Len(r) PROVE r[i] = q[i]
  <2>1. i = 1 \/ (i - 1 \in 1 .. (Len(q) - 1) /\ i = 1 + (i - 1))
    BY <1>1, <1>3
  <2> HIDE DEF r
  <2> QED BY <1>3, <2>1
<1> HIDE DEF r
<1>5. r = q
  BY <1>3, <1>4, SeqEqual
<1> QED BY <1>5 DEF r

\* What is pushed in front comes last when the list is reversed.
LEMMA ReversePush ==
    ASSUME NEW S, NEW q \in Seq(S), NEW s \in S
    PROVE  Reverse(<<s>> \o q) = Append(Reverse(q), s)
<1> DEFINE x == <<s>> \o q
           y == Append(Reverse(q), s)
           n == Len(q)
<1>1. n \in Nat /\ <<s>> \in Seq(S) /\ Len(<<s>>) = 1 /\ <<s>>[1] = s
  BY LenProperties
<1>2. /\ x \in Seq(S) /\ Len(x) = 1 + n /\ x[1] = s
      /\ \A p \in 1 .. n : x[1 + p] = q[p]
  <2>1. \A p \in 1 .. Len(<<s>>) : (<<s>> \o q)[p] = <<s>>[p]
    BY <1>1, ConcatIs
  <2>2. /\ x \in Seq(S) /\ Len(x) = Len(<<s>>) + n
        /\ \A p \in 1 .. n : x[Len(<<s>>) + p] = q[p]
    BY <1>1, ConcatIs
  <2> QED BY <1>1, <2>1, <2>2
<1>3. /\ Reverse(q) \in Seq(S) /\ Len(Reverse(q)) = n
      /\ \A p \in 1 .. n : Reverse(q)[p] = q[(n - p) + 1]
  BY ReverseIs
<1>4. /\ y \in Seq(S) /\ Len(y) = n + 1 /\ y[n + 1] = s
      /\ \A p \in 1 .. n : y[p] = q[(n - p) + 1]
  <2>1. /\ y \in Seq(S) /\ Len(y) = Len(Reverse(q)) + 1 /\ y[Len(Reverse(q)) + 1] = s
        /\ \A p \in 1 .. Len(Reverse(q)) : y[p] = Reverse(q)[p]
    BY <1>3, AppendProperties
  <2> QED BY <1>3, <2>1
<1> HIDE DEF x, y, n
<1>5. /\ Reverse(x) \in Seq(S) /\ Len(Reverse(x)) = n + 1
      /\ \A p \in 1 .. (n + 1) : Reverse(x)[p] = x[(n + 1 - p) + 1]
  <2>1. /\ Reverse(x) \in Seq(S) /\ Len(Reverse(x)) = Len(x)
        /\ \A p \in 1 .. Len(x) : Reverse(x)[p] = x[(Len(x) - p) + 1]
    BY <1>2, ReverseIs
  <2>2. Len(x) = n + 1
    BY <1>1, <1>2
  <2>3. ASSUME NEW p \in 1 .. (n + 1) PROVE Reverse(x)[p] = x[(n + 1 - p) + 1]
    <3>1. p \in 1 .. Len(x) /\ (Len(x) - p) + 1 = (n + 1 - p) + 1
      BY <1>1, <1>2, <2>2
    <3> QED BY <2>1, <3>1
  <2> QED BY <2>1, <2>2, <2>3
<1>6. ASSUME NEW p \in 1 .. (n + 1) PROVE Reverse(x)[p] = y[p]
  <2>1. CASE p = n + 1
    BY <1>1, <1>2, <1>4, <1>5, <2>1
  <2>2. CASE p \in 1 .. n
    <3>1. (n - p) + 1 \in 1 .. n /\ (n + 1 - p) + 1 = 1 + ((n - p) + 1)
      BY <1>1, <2>2
    <3> QED BY <1>2, <1>4, <1>5, <2>2, <3>1
  <2> QED BY <1>1, <2>1, <2>2
<1>7. Reverse(x) = y
  BY <1>4, <1>5, <1>6, SeqEqual
<1> QED BY <1>7 DEF x, y


\* A concatenation has the elements of both sequences.
LEMMA ConcatRange ==
    ASSUME NEW S, NEW x \in Seq(S), NEW y \in Seq(S)
    PROVE  Range(x \o y) = Range(x) \union Range(y)
<1> DEFINE r == x \o y
           n == Len(x)
           m == Len(y)
<1>1. /\ n \in Nat /\ m \in Nat /\ DOMAIN x = 1 .. n /\ DOMAIN y = 1 .. m /\ DOMAIN r = 1 .. (n + m)
  BY ConcatIs, LenProperties
<1>2. /\ \A p \in 1 .. n : r[p] = x[p]
      /\ \A p \in 1 .. m : r[n + p] = y[p]
  BY ConcatIs
<1> HIDE DEF r, n, m
<1>3. \A p \in 1 .. (n + m) : p \in 1 .. n \/ (p - n \in 1 .. m /\ p = n + (p - n))
  BY <1>1
<1>4. \A v \in Range(r) : v \in Range(x) \union Range(y)
  <2> SUFFICES ASSUME NEW p \in 1 .. (n + m) PROVE r[p] \in Range(x) \union Range(y)
    BY <1>1 DEF Range
  <2>1. CASE p \in 1 .. n
    BY <1>1, <1>2, <2>1 DEF Range
  <2>2. CASE p - n \in 1 .. m /\ p = n + (p - n)
    <3>1. r[n + (p - n)] = y[p - n]
      BY <1>2, <2>2
    <3> QED BY <1>1, <2>2, <3>1 DEF Range
  <2> QED BY <1>3, <2>1, <2>2
<1>5. \A p \in 1 .. n : p \in 1 .. (n + m)
  BY <1>1
<1>6. \A p \in 1 .. m : n + p \in 1 .. (n + m)
  BY <1>1
<1>7. \A v \in Range(x) \union Range(y) : v \in Range(r)
  BY <1>1, <1>2, <1>5, <1>6 DEF Range
<1> QED BY <1>4, <1>7 DEF r

==============================================================================
