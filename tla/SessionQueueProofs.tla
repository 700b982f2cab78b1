------------------------- MODULE SessionQueueProofs -------------------------
(***************************************************************************)
(* Proofs about SessionChannels: the scheduler's books are exact, its      *)
(* queues bounded and ordered, no class starves and no wake-up is lost,    *)
(* for every set of channels, every weight and every budget.               *)
(***************************************************************************)
EXTENDS SessionChannels, FiniteSetTheorems, TLAPS

-----------------------------------------------------------------------------
(* Induction.  Every non-empty family of subsets of a finite set has a     *)
(* minimal member; every non-empty set of naturals has a least one.        *)

\* A family of subsets of a finite set has a minimal member.
LEMMA MinimalSubset ==
  ASSUME NEW S, IsFiniteSet(S), NEW F, F \subseteq SUBSET S, F # {}
  PROVE  \E x \in F : \A y \in F : ~(y \subseteq x /\ y # x)
<1>1. IsWellFoundedOn(StrictSubsetOrdering(S), SUBSET S)
  BY Zenon, FS_StrictSubsetOrderingWellFounded, FS_FiniteSubsetsOfFinite
<1>2. \E x \in F : \A y \in F : ~(<<y, x>> \in StrictSubsetOrdering(S))
  BY Zenon, <1>1, WFMin
<1>3. QED
  BY Zenon, <1>2 DEF StrictSubsetOrdering

\* A set of naturals has a least member.
LEMMA LeastNatural ==
  ASSUME NEW T, T \subseteq Nat, T # {}
  PROVE  \E x \in T : \A y \in T : x <= y
<1>1. PICK n : n \in T /\ n \in Nat
  BY Zenon
<1> DEFINE Low == {k \in T : k <= n}
           N == 1 .. n
           F == {s \in SUBSET N : \E m \in Low : s = 1 .. m}
<1>2. IsFiniteSet(N)
  BY <1>1, FS_Interval
<1>3. N \in F
  BY <1>1
<1> HIDE DEF F, N
<1>4. PICK s \in F : \A y \in F : ~(y \subseteq s /\ y # s)
  <2>1. F \subseteq SUBSET N /\ F # {}
    BY Zenon, <1>3 DEF F
  <2>2. QED
    BY <2>1, <1>2, MinimalSubset
<1>5. PICK m \in T : m <= n /\ s = 1 .. m
  BY Zenon, <1>4 DEF F
<1>6. ASSUME NEW y \in T, y < m
      PROVE  FALSE
  <2>1. 1 .. y \in F
    BY <1>1, <1>5, <1>6 DEF F
  <2>2. 1 .. y \subseteq s /\ m \in s /\ m \notin 1 .. y
    BY <1>5, <1>6
  <2>3. QED
    BY Zenon, <2>1, <2>2, <1>4
<1>7. QED
  BY <1>5, <1>6

-----------------------------------------------------------------------------
(* Without keeps the order of a queue and removes exactly what it is told. *)

\* One step of the recursion in Without, and the function it defines.
KeptStep(q, out, g, i) ==
  IF i = 0 THEN <<>> ELSE IF q[i] \in out THEN g[i - 1] ELSE Append(g[i - 1], q[i])
Kept(q, out) == CHOOSE kept : kept = [i \in 0 .. Len(q) |-> KeptStep(q, out, kept, i)]

LEMMA WithoutIsKept ==
  ASSUME NEW q, NEW out
  PROVE  Without(q, out) = Kept(q, out)[Len(q)]
BY Zenon DEF Without, Kept, KeptStep

\* The recursion defines a function.
LEMMA KeptIsFunction ==
  ASSUME NEW S, NEW q \in Seq(S), NEW out
  PROVE  Kept(q, out) = [i \in 0 .. Len(q) |-> KeptStep(q, out, Kept(q, out), i)]
<1> DEFINE Defined(n) == \E g : g = [i \in 0 .. n |-> KeptStep(q, out, g, i)]
           Bad == {n \in 0 .. Len(q) : ~Defined(n)}
<1>1. Len(q) \in Nat
  OBVIOUS
<1>2. Defined(0)
  <2> DEFINE g == [i \in 0 .. 0 |-> <<>>]
  <2>1. g = [i \in 0 .. 0 |-> KeptStep(q, out, g, i)]
    BY DEF KeptStep
  <2>2. QED
    BY Zenon, <2>1
<1>3. ASSUME NEW n \in Nat, Defined(n)
      PROVE  Defined(n + 1)
  <2>1. PICK g : g = [i \in 0 .. n |-> KeptStep(q, out, g, i)]
    BY Zenon, <1>3
  <2> DEFINE h == [i \in 0 .. n + 1 |-> KeptStep(q, out, g, i)]
  <2>2. \A i \in 0 .. n : g[i] = KeptStep(q, out, g, i)
    BY Zenon, <2>1
  <2>3. \A i \in 0 .. n : h[i] = g[i]
    BY <2>2
  <2> HIDE DEF h
  <2>4. \A i \in 0 .. n + 1 : KeptStep(q, out, g, i) = KeptStep(q, out, h, i)
    BY <2>3 DEF KeptStep
  <2>5. h = [i \in 0 .. n + 1 |-> KeptStep(q, out, h, i)]
    BY Zenon, <2>4 DEF h
  <2>6. QED
    BY Zenon, <2>5
<1> HIDE DEF Defined
<1>4. Bad = {}
  <2>1. SUFFICES ASSUME Bad # {} PROVE FALSE
    BY Zenon
  <2>2. PICK n \in Bad : \A m \in Bad : n <= m
    <3>1. Bad \subseteq Nat
      BY <1>1
    <3> HIDE DEF Bad
    <3>2. QED
      BY Zenon, <3>1, <2>1, LeastNatural
  <2>3. n # 0 /\ n \in Nat /\ n <= Len(q)
    BY <1>1, <1>2, <2>2
  <2>4. Defined(n - 1)
    BY <1>1, <2>2, <2>3
  <2>5. QED
    BY <1>3, <2>2, <2>3, <2>4
<1>5. Defined(Len(q))
  BY <1>1, <1>4
<1>6. QED
  BY Zenon, <1>5 DEF Kept, Defined

\* What is kept of the first i entries: those not in out, in their order.
KeptSoFar(S, q, out, i, k) ==
  /\ k \in Seq(S)
  /\ \A a \in 1 .. Len(k) : k[a] \notin out /\ \E c \in 1 .. i : q[c] = k[a]
  /\ \A c \in 1 .. i : q[c] \notin out => \E a \in 1 .. Len(k) : k[a] = q[c]
  /\ \A a, b \in 1 .. Len(k) : a < b =>
       \E c, d \in 1 .. i : c < d /\ q[c] = k[a] /\ q[d] = k[b]

LEMMA KeptStepSound ==
  ASSUME NEW S, NEW q \in Seq(S), NEW out, NEW i \in 1 .. Len(q), NEW g,
         KeptSoFar(S, q, out, i - 1, g[i - 1])
  PROVE  KeptSoFar(S, q, out, i, KeptStep(q, out, g, i))
<1> DEFINE k == g[i - 1]
           x == q[i]
           n == KeptStep(q, out, g, i)
<1>1. x \in S /\ i \in Nat /\ k \in Seq(S)
  BY DEF KeptSoFar
<1>2. \A c \in 1 .. i : c \in 1 .. i - 1 \/ c = i
  BY <1>1
<1>3. \A c \in 1 .. i - 1 : c \in 1 .. i /\ c < i
  BY <1>1
<1>4. CASE x \in out
  <2>1. n = k
    BY <1>4 DEF KeptStep
  <2>2. QED
    BY <2>1, <1>1, <1>2, <1>3, <1>4 DEF KeptSoFar
<1>5. CASE x \notin out
  <2>1. n = Append(k, x)
    BY <1>5 DEF KeptStep
  <2> HIDE DEF n
  <2>2. n \in Seq(S) /\ Len(n) = Len(k) + 1 /\ Len(k) \in Nat
    BY <2>1, <1>1
  <2>3. /\ \A a \in 1 .. Len(k) : n[a] = k[a]
        /\ n[Len(k) + 1] = x
    BY <2>1, <1>1
  <2>4. \A a \in 1 .. Len(n) : n[a] \notin out /\ \E c \in 1 .. i : q[c] = n[a]
    <3>1. SUFFICES ASSUME NEW a \in 1 .. Len(n)
                   PROVE  n[a] \notin out /\ \E c \in 1 .. i : q[c] = n[a]
      BY Zenon
    <3>2. CASE a \in 1 .. Len(k)
      <4>1. k[a] \notin out /\ n[a] = k[a]
        BY Zenon, <3>2, <2>3 DEF KeptSoFar
      <4>2. PICK c \in 1 .. i - 1 : q[c] = k[a]
        BY Zenon, <3>2 DEF KeptSoFar
      <4>3. QED
        BY Zenon, <4>1, <4>2, <1>3
    <3>3. CASE a = Len(k) + 1
      BY <3>3, <2>3, <1>5, <1>1
    <3>4. QED
      BY <3>2, <3>3, <2>2
  <2>5. \A c \in 1 .. i : q[c] \notin out => \E a \in 1 .. Len(n) : n[a] = q[c]
    <3>1. SUFFICES ASSUME NEW c \in 1 .. i, q[c] \notin out
                   PROVE  \E a \in 1 .. Len(n) : n[a] = q[c]
      BY Zenon
    <3>2. CASE c = i
      BY <3>2, <2>2, <2>3
    <3>3. CASE c \in 1 .. i - 1
      <4>1. PICK a \in 1 .. Len(k) : k[a] = q[c]
        BY Zenon, <3>1, <3>3 DEF KeptSoFar
      <4>2. QED
        BY <4>1, <2>2, <2>3
    <3>4. QED
      BY Zenon, <3>2, <3>3, <1>2
  <2>6. \A a, b \in 1 .. Len(n) : a < b =>
          \E c, d \in 1 .. i : c < d /\ q[c] = n[a] /\ q[d] = n[b]
    <3>1. SUFFICES ASSUME NEW a \in 1 .. Len(n), NEW b \in 1 .. Len(n), a < b
                   PROVE  \E c, d \in 1 .. i : c < d /\ q[c] = n[a] /\ q[d] = n[b]
      BY Zenon
    <3>2. a \in 1 .. Len(k) /\ n[a] = k[a]
      BY <3>1, <2>2, <2>3
    <3>3. CASE b \in 1 .. Len(k)
      <4>1. PICK c \in 1 .. i - 1, d \in 1 .. i - 1 : c < d /\ q[c] = k[a] /\ q[d] = k[b]
        BY Zenon, <3>1, <3>2, <3>3 DEF KeptSoFar
      <4>2. QED
        BY Zenon, <4>1, <3>2, <3>3, <2>3, <1>3
    <3>4. CASE b = Len(k) + 1
      <4>1. PICK c \in 1 .. i - 1 : q[c] = k[a]
        BY Zenon, <3>2 DEF KeptSoFar
      <4>2. QED
        BY <4>1, <3>2, <3>4, <2>3, <1>3, <1>1
    <3>5. b \in 1 .. Len(k) \/ b = Len(k) + 1
      BY <2>2
    <3>6. QED
      BY <3>3, <3>4, <3>5, Zenon
  <2>7. KeptSoFar(S, q, out, i, n)
    BY <2>2, <2>4, <2>5, <2>6, Zenon DEF KeptSoFar
  <2>8. QED
    BY Zenon, <2>7 DEF n
<1>6. QED
  BY Zenon, <1>4, <1>5

\* Without removes exactly the entries in out, and keeps the others in order.
LEMMA WithoutSound ==
  ASSUME NEW S, NEW q \in Seq(S), NEW out
  PROVE  /\ Without(q, out) \in Seq(S)
         /\ Range(Without(q, out)) = Range(q) \ out
         /\ \A a, b \in 1 .. Len(Without(q, out)) : a < b =>
              \E c, d \in 1 .. Len(q) :
                c < d /\ q[c] = Without(q, out)[a] /\ q[d] = Without(q, out)[b]
<1> DEFINE K == Kept(q, out)
           Bad == {i \in 0 .. Len(q) : ~KeptSoFar(S, q, out, i, K[i])}
<1>1. Len(q) \in Nat /\ \A i \in 0 .. Len(q) : K[i] = KeptStep(q, out, K, i)
  BY KeptIsFunction
<1> HIDE DEF K
<1>2. KeptSoFar(S, q, out, 0, K[0])
  <2>1. K[0] = <<>>
    BY <1>1 DEF KeptStep
  <2>2. QED
    BY <2>1 DEF KeptSoFar
<1>3. Bad = {}
  <2>1. SUFFICES ASSUME Bad # {} PROVE FALSE
    BY Zenon
  <2>2. PICK n \in Bad : \A m \in Bad : n <= m
    <3>1. Bad \subseteq Nat
      BY <1>1
    <3> HIDE DEF Bad
    <3>2. QED
      BY Zenon, <3>1, <2>1, LeastNatural
  <2>3. n \in 1 .. Len(q) /\ n - 1 \in 0 .. Len(q)
    BY <1>1, <1>2, <2>2
  <2>4. KeptSoFar(S, q, out, n - 1, K[n - 1])
    BY <2>2, <2>3
  <2>5. KeptSoFar(S, q, out, n, KeptStep(q, out, K, n))
    BY Zenon, <2>3, <2>4, KeptStepSound
  <2>6. QED
    BY Zenon, <2>2, <2>3, <2>5, <1>1
<1>4. KeptSoFar(S, q, out, Len(q), Without(q, out))
  BY <1>1, <1>3, WithoutIsKept DEF K
<1>5. Range(Without(q, out)) = Range(q) \ out
  <2> DEFINE W == Without(q, out)
  <2>1. /\ W \in Seq(S)
        /\ \A a \in 1 .. Len(W) : W[a] \notin out /\ \E c \in 1 .. Len(q) : q[c] = W[a]
        /\ \A c \in 1 .. Len(q) : q[c] \notin out => \E a \in 1 .. Len(W) : W[a] = q[c]
    BY <1>4, Zenon DEF KeptSoFar
  <2> HIDE DEF W
  <2>2. DOMAIN W = 1 .. Len(W) /\ DOMAIN q = 1 .. Len(q)
    BY <2>1
  <2>3. Range(W) = Range(q) \ out
    BY <2>1, <2>2, Zenon DEF Range
  <2>4. QED
    BY Zenon, <2>3 DEF W
<1>6. QED
  BY <1>4, <1>5, Zenon DEF KeptSoFar

-----------------------------------------------------------------------------
(* Queues as sets of frames.                                               *)

LEMMA RangeOfQueue ==
  ASSUME NEW S, NEW q \in Seq(S)
  PROVE  /\ Range(q) = {q[i] : i \in 1 .. Len(q)}
         /\ Range(q) \subseteq S
         /\ IsFiniteSet(Range(q))
         /\ q = <<>> <=> Range(q) = {}
<1>1. Len(q) \in Nat /\ DOMAIN q = 1 .. Len(q) /\ q \in [1 .. Len(q) -> S]
  OBVIOUS
<1>2. Range(q) = {q[i] : i \in 1 .. Len(q)} /\ Range(q) \subseteq S
  BY Zenon, <1>1 DEF Range
<1>3. IsFiniteSet(Range(q))
  <2>1. q \in Surjection(1 .. Len(q), Range(q))
    BY Zenon, <1>1, <1>2 DEF Surjection, Range
  <2>2. IsFiniteSet(1 .. Len(q))
    BY <1>1, FS_Interval
  <2>3. QED
    BY Zenon, <2>1, <2>2, FS_Surjection
<1>4. q = <<>> <=> Range(q) = {}
  <2>1. CASE q = <<>>
    BY <2>1, <1>2
  <2>2. CASE q # <<>>
    <3>1. 1 \in 1 .. Len(q)
      BY <2>2, <1>1
    <3>2. QED
      BY Zenon, <3>1, <2>2, <1>2
  <2>3. QED
    BY Zenon, <2>1, <2>2
<1>5. QED
  BY Zenon, <1>2, <1>3, <1>4

LEMMA RangeOfAppend ==
  ASSUME NEW S, NEW q \in Seq(S), NEW x \in S
  PROVE  /\ Append(q, x) \in Seq(S)
         /\ Range(Append(q, x)) = Range(q) \cup {x}
<1> DEFINE r == Append(q, x)
<1>1. r \in Seq(S) /\ Len(r) = Len(q) + 1 /\ Len(q) \in Nat
  OBVIOUS
<1>2. (\A i \in 1 .. Len(q) : r[i] = q[i]) /\ r[Len(q) + 1] = x
  OBVIOUS
<1> HIDE DEF r
<1>3. Range(r) = {r[i] : i \in 1 .. Len(r)} /\ Range(q) = {q[i] : i \in 1 .. Len(q)}
  BY Zenon, <1>1, RangeOfQueue
<1>4. \A i \in 1 .. Len(r) : i \in 1 .. Len(q) \/ i = Len(q) + 1
  BY <1>1
<1>5. \A i \in 1 .. Len(q) : i \in 1 .. Len(r)
  BY <1>1
<1>6. Len(q) + 1 \in 1 .. Len(r)
  BY <1>1
<1>7. Range(r) \subseteq Range(q) \cup {x}
  BY Zenon, <1>2, <1>3, <1>4
<1>8. Range(q) \cup {x} \subseteq Range(r)
  BY Zenon, <1>2, <1>3, <1>5, <1>6
<1>9. QED
  BY Zenon, <1>1, <1>7, <1>8 DEF r

LEMMA RangeOfPutBack ==
  ASSUME NEW S, NEW q \in Seq(S), NEW x \in S
  PROVE  /\ PutBack(q, x) \in Seq(S)
         /\ Range(PutBack(q, x)) = Range(q) \cup {x}
<1> DEFINE r == <<x>> \o q
<1>1. r \in Seq(S) /\ Len(r) = Len(q) + 1 /\ Len(q) \in Nat
  OBVIOUS
<1>2. (\A i \in 1 .. Len(q) : r[i + 1] = q[i]) /\ r[1] = x
  OBVIOUS
<1> HIDE DEF r
<1>3. Range(r) = {r[i] : i \in 1 .. Len(r)} /\ Range(q) = {q[i] : i \in 1 .. Len(q)}
  BY Zenon, <1>1, RangeOfQueue
<1>4. \A i \in 1 .. Len(r) : (i - 1 \in 1 .. Len(q) /\ (i - 1) + 1 = i) \/ i = 1
  BY <1>1
<1>5. \A i \in 1 .. Len(q) : i + 1 \in 1 .. Len(r)
  BY <1>1
<1>6. 1 \in 1 .. Len(r)
  BY <1>1
<1>7. Range(r) \subseteq Range(q) \cup {x}
  BY Zenon, <1>2, <1>3, <1>4
<1>8. Range(q) \cup {x} \subseteq Range(r)
  BY Zenon, <1>2, <1>3, <1>5, <1>6
<1>9. QED
  BY Zenon, <1>1, <1>7, <1>8 DEF r, PutBack

\* Frames are numbered in the order they were admitted.
Increasing(q) == \A i, j \in 1 .. Len(q) : i < j => q[i].no < q[j].no

LEMMA RangeOfTail ==
  ASSUME NEW S, NEW q \in Seq(S), q # <<>>, \A x \in S : x.no \in Nat, Increasing(q)
  PROVE  /\ Tail(q) \in Seq(S) /\ Head(q) \in Range(q)
         /\ Range(Tail(q)) = Range(q) \ {Head(q)}
         /\ Increasing(Tail(q))
         /\ \A f \in Range(Tail(q)) : Head(q).no < f.no
<1> DEFINE r == Tail(q)
<1>1. /\ r \in Seq(S) /\ Len(r) = Len(q) - 1 /\ Len(q) \in Nat /\ Len(q) > 0 /\ Len(r) \in Nat
      /\ Head(q) = q[1]
  OBVIOUS
<1>2. \A i \in 1 .. Len(r) : r[i] = q[i + 1] /\ i + 1 \in 1 .. Len(q)
  BY <1>1
<1> HIDE DEF r
<1>3. Range(r) = {r[i] : i \in 1 .. Len(r)} /\ Range(q) = {q[i] : i \in 1 .. Len(q)}
  BY Zenon, <1>1, RangeOfQueue
<1>4. 1 \in 1 .. Len(q) /\ Head(q) \in Range(q)
  BY <1>1, <1>3
<1>5. \A i \in 1 .. Len(r) : Head(q).no < r[i].no /\ r[i] \in S
  BY <1>1, <1>2, <1>4 DEF Increasing
<1>6. Head(q) \in S
  BY <1>1, <1>4
<1>7. \A f \in Range(r) : Head(q).no < f.no /\ f \in Range(q) /\ f # Head(q)
  <2>1. SUFFICES ASSUME NEW i \in 1 .. Len(r)
                 PROVE  Head(q).no < r[i].no /\ r[i] \in Range(q) /\ r[i] # Head(q)
    BY Zenon, <1>3
  <2>2. r[i] \in Range(q)
    BY Zenon, <1>2, <1>3
  <2>3. Head(q).no \in Nat /\ r[i].no \in Nat
    BY Zenon, <1>5, <1>6
  <2>4. QED
    BY <1>5, <2>2, <2>3
<1>8. \A i \in 1 .. Len(q) : i = 1 \/ (i - 1 \in 1 .. Len(r) /\ r[i - 1] = q[i])
  BY <1>1, <1>2
<1>9. \A f \in Range(q) : f = Head(q) \/ f \in Range(r)
  BY Zenon, <1>1, <1>3, <1>8
<1>10. Increasing(r)
  <2>1. SUFFICES ASSUME NEW i \in 1 .. Len(r), NEW j \in 1 .. Len(r), i < j
                 PROVE  r[i].no < r[j].no
    BY Zenon DEF Increasing
  <2>2. i + 1 \in 1 .. Len(q) /\ j + 1 \in 1 .. Len(q) /\ i + 1 < j + 1
    BY <2>1, <1>2
  <2>3. QED
    BY Zenon, <2>2, <1>2 DEF Increasing
<1>11. QED
  BY Zenon, <1>1, <1>4, <1>7, <1>9, <1>10 DEF r

LEMMA IncreasingWithout ==
  ASSUME NEW S, NEW q \in Seq(S), NEW out, Increasing(q)
  PROVE  Increasing(Without(q, out))
<1> DEFINE w == Without(q, out)
<1>1. SUFFICES ASSUME NEW i \in 1 .. Len(w), NEW j \in 1 .. Len(w), i < j
               PROVE  w[i].no < w[j].no
  BY Zenon DEF Increasing
<1>2. PICK c \in 1 .. Len(q), d \in 1 .. Len(q) : c < d /\ q[c] = w[i] /\ q[d] = w[j]
  BY <1>1, WithoutSound
<1>3. QED
  BY Zenon, <1>2 DEF Increasing

LEMMA IncreasingAppend ==
  ASSUME NEW S, NEW q \in Seq(S), NEW x \in S, Increasing(q),
         \A f \in Range(q) : f.no < x.no
  PROVE  Increasing(Append(q, x))
<1> DEFINE r == Append(q, x)
<1>1. r \in Seq(S) /\ Len(r) = Len(q) + 1 /\ Len(q) \in Nat
  OBVIOUS
<1>2. (\A i \in 1 .. Len(q) : r[i] = q[i]) /\ r[Len(q) + 1] = x
  OBVIOUS
<1> HIDE DEF r
<1>3. SUFFICES ASSUME NEW i \in 1 .. Len(r), NEW j \in 1 .. Len(r), i < j
               PROVE  r[i].no < r[j].no
  BY Zenon DEF Increasing, r
<1>4. i \in 1 .. Len(q) /\ (j \in 1 .. Len(q) \/ j = Len(q) + 1)
  BY <1>1, <1>3
<1>5. q[i] \in Range(q)
  BY <1>4, RangeOfQueue
<1>6. QED
  BY Zenon, <1>2, <1>3, <1>4, <1>5 DEF Increasing

LEMMA IncreasingPutBack ==
  ASSUME NEW S, NEW q \in Seq(S), NEW x \in S, Increasing(q),
         \A f \in Range(q) : x.no < f.no
  PROVE  Increasing(PutBack(q, x))
<1> DEFINE r == <<x>> \o q
<1>1. r \in Seq(S) /\ Len(r) = Len(q) + 1 /\ Len(q) \in Nat
  OBVIOUS
<1>2. (\A i \in 1 .. Len(q) : r[i + 1] = q[i]) /\ r[1] = x
  OBVIOUS
<1> HIDE DEF r
<1>3. SUFFICES ASSUME NEW i \in 1 .. Len(r), NEW j \in 1 .. Len(r), i < j
               PROVE  r[i].no < r[j].no
  BY Zenon DEF Increasing, r, PutBack
<1>4. /\ j - 1 \in 1 .. Len(q) /\ (j - 1) + 1 = j
      /\ i = 1 \/ (i - 1 \in 1 .. Len(q) /\ (i - 1) + 1 = i /\ i - 1 < j - 1)
  BY <1>1, <1>3
<1>5. r[j] = q[j - 1] /\ q[j - 1] \in Range(q)
  BY <1>2, <1>4, RangeOfQueue
<1>6. CASE i = 1
  BY Zenon, <1>2, <1>5, <1>6
<1>7. CASE i # 1
  <2>1. i - 1 \in 1 .. Len(q) /\ i - 1 < j - 1 /\ r[i] = q[i - 1]
    BY Zenon, <1>2, <1>4, <1>7
  <2>2. QED
    BY Zenon, <2>1, <1>4, <1>5 DEF Increasing
<1>8. QED
  BY Zenon, <1>6, <1>7

-----------------------------------------------------------------------------
(* What frames add up to.                                                  *)

Sized(fs) == IsFiniteSet(fs) /\ \A f \in fs : f.size \in Nat

LEMMA MinOfTwo ==
  ASSUME NEW a \in Nat, NEW b \in Nat
  PROVE  Min({a, b}) = IF a <= b THEN a ELSE b
BY DEF Min

LEMMA OctetsFinite ==
  ASSUME NEW fs, Sized(fs)
  PROVE  IsFiniteSet(Octets(fs))
<1> DEFINE Part == [f \in fs |-> {f} \X (1 .. f.size)]
           Parts == {Part[f] : f \in fs}
<1>1. \A f \in fs : IsFiniteSet(Part[f])
  <2>1. SUFFICES ASSUME NEW f \in fs PROVE IsFiniteSet({f} \X (1 .. f.size))
    BY Zenon
  <2>2. IsFiniteSet({f})
    BY Zenon, FS_Singleton
  <2>3. f.size \in Int /\ 1 \in Int
    BY DEF Sized
  <2>4. IsFiniteSet(1 .. f.size)
    BY Zenon, <2>3, FS_Interval
  <2>5. QED
    BY Zenon, <2>2, <2>4, FS_Product
<1>2. IsFiniteSet(Parts)
  <2>1. Part \in Surjection(fs, Parts)
    BY Zenon DEF Surjection
  <2>2. QED
    BY Zenon, <2>1, FS_Surjection DEF Sized
<1>3. Octets(fs) = UNION Parts
  BY Zenon DEF Octets
<1> HIDE DEF Parts
<1>4. \A T \in Parts : IsFiniteSet(T)
  BY Zenon, <1>1 DEF Parts
<1>5. QED
  BY Zenon, <1>2, <1>3, <1>4, FS_UNION

LEMMA BytesOfDifference ==
  ASSUME NEW fs, Sized(fs), NEW out, out \subseteq fs
  PROVE  /\ Sized(out) /\ Sized(fs \ out)
         /\ Bytes(fs) \in Nat /\ Bytes(out) \in Nat
         /\ Bytes(out) <= Bytes(fs)
         /\ Bytes(fs \ out) = Bytes(fs) - Bytes(out)
<1>1. Sized(out) /\ Sized(fs \ out)
  BY Zenon, FS_Subset, FS_Difference DEF Sized
<1>2. /\ Octets(fs \ out) = Octets(fs) \ Octets(out)
      /\ Octets(out) \subseteq Octets(fs)
      /\ Octets(fs) \cap Octets(out) = Octets(out)
  BY DEF Octets
<1>3. IsFiniteSet(Octets(fs)) /\ IsFiniteSet(Octets(out))
  BY Zenon, <1>1, OctetsFinite
<1>4. Cardinality(Octets(fs)) \in Nat /\ Cardinality(Octets(out)) \in Nat
  BY Zenon, <1>3, FS_CardinalityType
<1>5. Cardinality(Octets(out)) <= Cardinality(Octets(fs))
  BY Zenon, <1>2, <1>3, FS_Subset
<1>6. Cardinality(Octets(fs) \ Octets(out)) = Cardinality(Octets(fs)) - Cardinality(Octets(out))
  BY <1>2, <1>3, FS_Difference
<1>7. QED
  BY Zenon, <1>1, <1>2, <1>4, <1>5, <1>6 DEF Bytes

LEMMA BytesOfOne ==
  ASSUME NEW f, f.size \in Nat
  PROVE  Bytes({f}) = f.size
<1> DEFINE A == {f}
           B == 1 .. f.size
<1>1. Octets({f}) = A \X B
  BY Zenon DEF Octets
<1>2. IsFiniteSet(A) /\ Cardinality(A) = 1
  BY Zenon, FS_Singleton
<1>3. IsFiniteSet(B) /\ Cardinality(B) = f.size
  BY FS_Interval
<1> HIDE DEF A, B
<1>4. Cardinality(A \X B) = Cardinality(A) * Cardinality(B)
  BY Zenon, <1>2, <1>3, FS_Product
<1>5. \A n \in Nat : 1 * n = n
  OBVIOUS
<1>6. Cardinality(A \X B) = f.size
  BY Zenon, <1>2, <1>3, <1>4, <1>5
<1>7. QED
  BY Zenon, <1>1, <1>6 DEF Bytes

\* Removing frames takes off what they add up to, and nothing is clamped.
LEMMA TallyMinus ==
  ASSUME NEW fs, Sized(fs), NEW out, out \subseteq fs
  PROVE  /\ Tally(fs) \in Counter /\ Sized(fs \ out)
         /\ Cardinality(out) <= Tally(fs).frames /\ Bytes(out) <= Tally(fs).bytes
         /\ Cardinality(out) \in Nat /\ Bytes(out) \in Nat
         /\ Tally(fs \ out) = [frames |-> Tally(fs).frames - Cardinality(out),
                                bytes |-> Tally(fs).bytes - Bytes(out)]
         /\ Tally(fs \ out) = Minus(Tally(fs), Cardinality(out), Bytes(out))
<1>1. /\ Sized(out) /\ Sized(fs \ out)
      /\ Bytes(fs) \in Nat /\ Bytes(out) \in Nat
      /\ Bytes(out) <= Bytes(fs)
      /\ Bytes(fs \ out) = Bytes(fs) - Bytes(out)
  BY Zenon, BytesOfDifference
<1>2. Cardinality(fs) \in Nat /\ Cardinality(out) \in Nat
  BY Zenon, <1>1, FS_CardinalityType DEF Sized
<1>3. Cardinality(out) <= Cardinality(fs)
  BY Zenon, FS_Subset DEF Sized
<1>4. Cardinality(fs \ out) = Cardinality(fs) - Cardinality(out)
  <2>1. fs \cap out = out
    BY Zenon
  <2>2. QED
    BY Zenon, <2>1, FS_Difference DEF Sized
<1>5. /\ Min({Cardinality(fs), Cardinality(out)}) = Cardinality(out)
      /\ Min({Bytes(fs), Bytes(out)}) = Bytes(out)
  BY <1>1, <1>2, <1>3, MinOfTwo
<1>6. Tally(fs \ out) = [frames |-> Cardinality(fs) - Cardinality(out),
                         bytes |-> Bytes(fs) - Bytes(out)]
  BY Zenon, <1>1, <1>4 DEF Tally
<1>7. Tally(fs).frames = Cardinality(fs) /\ Tally(fs).bytes = Bytes(fs)
  BY Zenon DEF Tally
<1>8. Minus(Tally(fs), Cardinality(out), Bytes(out)) = Tally(fs \ out)
  BY Zenon, <1>5, <1>6, <1>7 DEF Minus
<1>9. Tally(fs) \in Counter
  BY Zenon, <1>1, <1>2 DEF Tally, Counter
<1>10. QED
  BY Zenon, <1>1, <1>2, <1>3, <1>6, <1>7, <1>8, <1>9

\* One frame less, as next_to_send counts it.
LEMMA TallyTake ==
  ASSUME NEW fs, Sized(fs), NEW f \in fs
  PROVE  /\ Tally(fs) \in Counter /\ Tally(fs \ {f}) \in Counter
         /\ Tally(fs).frames >= 1 /\ Tally(fs).bytes >= f.size
         /\ Tally(fs \ {f}) = [frames |-> Tally(fs).frames - 1,
                                bytes |-> Tally(fs).bytes - f.size]
         /\ Minus(Tally(fs), 0, f.size).bytes = Tally(fs).bytes - f.size
<1>1. Cardinality({f}) = 1 /\ Bytes({f}) = f.size /\ f.size \in Nat
  BY Zenon, FS_Singleton, BytesOfOne DEF Sized
<1>2. {f} \subseteq fs
  BY Zenon
<1>3. /\ Tally(fs) \in Counter /\ Sized(fs \ {f})
      /\ 1 <= Tally(fs).frames /\ f.size <= Tally(fs).bytes
      /\ Tally(fs \ {f}) = [frames |-> Tally(fs).frames - 1,
                             bytes |-> Tally(fs).bytes - f.size]
  BY Zenon, <1>1, <1>2, TallyMinus
<1>4. Tally(fs \ {f}) \in Counter
  BY <1>1, <1>3 DEF Counter
<1>5. Min({Tally(fs).bytes, f.size}) = f.size
  BY <1>1, <1>3, MinOfTwo DEF Counter
<1>6. Minus(Tally(fs), 0, f.size).bytes = Tally(fs).bytes - f.size
  BY Zenon, <1>5 DEF Minus
<1>7. QED
  BY Zenon, <1>1, <1>3, <1>4, <1>6 DEF Counter

\* One frame more.
LEMMA TallyPlus ==
  ASSUME NEW fs, Sized(fs), NEW f, f \notin fs, f.size \in Nat
  PROVE  /\ Sized(fs \cup {f})
         /\ Tally(fs \cup {f}) = Plus(Tally(fs), 1, f.size)
         /\ Tally(fs) \in Counter /\ Tally(fs \cup {f}) \in Counter
<1>1. Sized(fs \cup {f})
  BY Zenon, FS_AddElement DEF Sized
<1>2. (fs \cup {f}) \ {f} = fs
  BY Zenon
<1>3. /\ Tally(fs \cup {f}) \in Counter /\ Tally(fs) \in Counter
      /\ Tally(fs) = [frames |-> Tally(fs \cup {f}).frames - 1,
                      bytes |-> Tally(fs \cup {f}).bytes - f.size]
  BY Zenon, <1>1, <1>2, TallyTake
<1>4. Tally(fs \cup {f}) = [frames |-> Tally(fs \cup {f}).frames,
                            bytes |-> Tally(fs \cup {f}).bytes]
  BY Zenon DEF Tally
<1>5. QED
  BY <1>1, <1>3, <1>4 DEF Plus, Counter

-----------------------------------------------------------------------------
(* The inductive invariant.                                                *)

Ctl == Range(queues[0])
Biz == Range(queues[1]) \cup Range(queues[2]) \cup Range(queues[3])
On(fs, c) == {f \in fs : f.ch = c}

\* A control-class frame is the control channel's or an urgent channel's; any
\* other is a business channel's.
Origin(f) == IF f.class = 0 THEN f.ch \in {0} \cup config.urgent ELSE f.ch \in Used

\* A queue of class k: its own frames, numbered upwards from the last one sent.
ClassSound(q, k, last, tot) ==
  /\ q \in Seq(Frame)
  /\ Increasing(q)
  /\ \A f \in Range(q) : f.class = k /\ last < f.no /\ f.no <= tot /\ Origin(f)

\* The frame the pump holds comes before the rest of its class.
HeldSound(f) ==
  /\ f \in Frame /\ Origin(f)
  /\ sent[f.class] < f.no /\ f.no <= total
  /\ \A g \in Range(queues[f.class]) : f.no < g.no

QueueInv ==
  /\ config \in Configs
  /\ queues \in [Class -> Seq(Frame)]
  /\ sent \in [Class -> Nat] /\ total \in Nat /\ total <= config.frames
  /\ pumping \in BOOLEAN /\ alive \in BOOLEAN
  /\ picked = {} \/ (pumping /\ \E f \in Frame : picked = {f})
  /\ \A k \in Class : sent[k] <= total /\ ClassSound(queues[k], k, sent[k], total)
  /\ \A f \in picked : HeldSound(f)

\* The business counters say what is queued; the control reservation covers it.
BizBooks(q, all, B) ==
  /\ q = [c \in Channels |-> Tally(On(B, c))]
  /\ all = Tally(B)

CtlBooks(ctl, C) ==
  /\ ctl \in Counter
  /\ Tally(C).frames <= ctl.frames /\ Tally(C).bytes <= ctl.bytes
  /\ config.urgent = {} => ctl = Tally(C)

BookInv == BizBooks(queued, business, Biz) /\ CtlBooks(control, Ctl)

\* The budgets hold, and what the pump holds still fits when it is put back.
BoundInv ==
  /\ business.frames <= config.peerF /\ business.bytes <= config.peerB
  /\ control.frames <= config.controlF /\ control.bytes <= config.controlB
  /\ \A c \in Channels : queued[c].frames <= config.channelF
  /\ \A f \in picked :
       IF f.class = 0
         THEN control.frames + 1 <= config.controlF /\ control.bytes + f.size <= config.controlB
         ELSE /\ business.frames + 1 <= config.peerF /\ business.bytes + f.size <= config.peerB
              /\ queued[f.ch].frames + 1 <= config.channelF

\* A class out of tokens has waited no longer than the others' spent tokens; one
\* with a token has at most the tokens of the classes above it to wait for.
TurnInv ==
  /\ tokens \in [Class -> Nat] /\ waited \in [Class -> Nat]
  /\ \A k \in Class :
       /\ tokens[k] <= Weight[k]
       /\ tokens[k] = 0 => waited[k] + Others(tokens, k) <= Others(Weight, k)
       /\ tokens[k] > 0 => waited[k] + Above(tokens, k) <= Others(Weight, k) + Above(Weight, k)

WaitInv ==
  /\ open \subseteq Used
  /\ waiters \in [Channels -> Seq(Tickets)]
  /\ ticket \in [Tickets -> {"unused", "waiting", "ready", "cancelled"}]
  /\ writable \subseteq Lines

-----------------------------------------------------------------------------
(* Turns.                                                                  *)

LEMMA FourClasses == Class = {0, 1, 2, 3}
BY DEF Class

LEMMA SharesMonotone ==
  ASSUME NEW f \in [Class -> Nat], NEW g \in [Class -> Nat], \A j \in Class : f[j] <= g[j],
         NEW k \in Class
  PROVE  /\ Others(f, k) \in Nat /\ Above(f, k) \in Nat
         /\ Others(f, k) <= Others(g, k) /\ Above(f, k) <= Above(g, k)
<1>1. /\ f[0] \in Nat /\ f[1] \in Nat /\ f[2] \in Nat /\ f[3] \in Nat
      /\ g[0] \in Nat /\ g[1] \in Nat /\ g[2] \in Nat /\ g[3] \in Nat
      /\ f[0] <= g[0] /\ f[1] <= g[1] /\ f[2] <= g[2] /\ f[3] <= g[3]
  BY Zenon, FourClasses
<1>2. k = 0 \/ k = 1 \/ k = 2 \/ k = 3
  BY Zenon, FourClasses
<1>3. QED
  BY <1>1, <1>2 DEF Others, Above, Total

LEMMA SharesTyped ==
  ASSUME NEW f \in [Class -> Nat], NEW k \in Class
  PROVE  Others(f, k) \in Nat /\ Above(f, k) \in Nat
<1>1. \A j \in Class : f[j] <= f[j]
  OBVIOUS
<1>2. QED
  BY Zenon, <1>1, SharesMonotone

LEMMA SharesSpent ==
  ASSUME NEW f \in [Class -> Nat], NEW k \in Class, f[k] > 0, NEW j \in Class, j # k,
         NEW h, h = [f EXCEPT ![k] = @ - 1]
  PROVE  /\ Others(h, j) = Others(f, j) - 1
         /\ k < j => Above(h, j) = Above(f, j) - 1
<1>1. h \in [Class -> Nat] /\ h[k] = f[k] - 1 /\ \A i \in Class : i # k => h[i] = f[i]
  OBVIOUS
<1>2. /\ f[0] \in Nat /\ f[1] \in Nat /\ f[2] \in Nat /\ f[3] \in Nat
      /\ h[0] \in Nat /\ h[1] \in Nat /\ h[2] \in Nat /\ h[3] \in Nat
  BY Zenon, <1>1, FourClasses
<1>3. (k = 0 \/ k = 1 \/ k = 2 \/ k = 3) /\ (j = 0 \/ j = 1 \/ j = 2 \/ j = 3)
  BY Zenon, FourClasses
<1>4. Others(h, j) = Others(f, j) - 1
  BY <1>1, <1>2, <1>3, FourClasses DEF Others, Total
<1>5. k < j => Above(h, j) = Above(f, j) - 1
  BY <1>1, <1>2, <1>3, FourClasses DEF Above
<1>6. QED
  BY Zenon, <1>4, <1>5

\* The clause of TurnInv for one class.
TurnOf(t, w, k) ==
  /\ t[k] <= Weight[k]
  /\ t[k] = 0 => w + Others(t, k) <= Others(Weight, k)
  /\ t[k] > 0 => w + Above(t, k) <= Others(Weight, k) + Above(Weight, k)

LEMMA TurnFresh ==
  ASSUME NEW t \in [Class -> Nat], \A j \in Class : t[j] <= Weight[j], NEW k \in Class
  PROVE  TurnOf(t, 0, k)
<1>1. Weight \in [Class -> Nat]
  BY Zenon, SchedulerAssumption
<1>2. /\ Others(t, k) \in Nat /\ Above(t, k) \in Nat /\ Others(Weight, k) \in Nat
      /\ Others(t, k) <= Others(Weight, k) /\ Above(t, k) <= Above(Weight, k)
      /\ Above(Weight, k) \in Nat
  BY <1>1, SharesMonotone
<1>3. QED
  BY <1>2 DEF TurnOf

LEMMA TurnLess ==
  ASSUME NEW t \in [Class -> Nat], NEW k \in Class, NEW w \in Nat, NEW v \in Nat, v <= w,
         TurnOf(t, w, k)
  PROVE  TurnOf(t, v, k)
<1>1. Weight \in [Class -> Nat]
  BY Zenon, SchedulerAssumption
<1>2. /\ Others(t, k) \in Nat /\ Above(t, k) \in Nat /\ Others(Weight, k) \in Nat
      /\ Above(Weight, k) \in Nat
  BY <1>1, SharesMonotone
<1>3. QED
  BY <1>2 DEF TurnOf

\* Reckon and everything but next_to_send only shorten waits.
LEMMA TurnQuiet ==
  ASSUME TurnInv, tokens' = tokens, waited' \in [Class -> Nat],
         \A k \in Class : waited'[k] <= waited[k]
  PROVE  TurnInv'
<1>1. ASSUME NEW k \in Class PROVE TurnOf(tokens, waited'[k], k)
  <2>1. TurnOf(tokens, waited[k], k)
    BY Zenon DEF TurnInv, TurnOf
  <2>2. QED
    BY Zenon, <2>1, TurnLess DEF TurnInv
<1>2. QED
  BY Zenon, <1>1 DEF TurnInv, TurnOf

LEMMA TurnReckon ==
  ASSUME TurnInv, tokens' = tokens, waited' = Reckon(queues', waited)
  PROVE  TurnInv'
<1>1. waited' \in [Class -> Nat] /\ \A k \in Class : waited'[k] <= waited[k]
  BY DEF TurnInv, Reckon
<1>2. QED
  BY Zenon, <1>1, TurnQuiet

LEMMA TurnTaken ==
  ASSUME TurnInv, NextToSend
  PROVE  TurnInv'
<1>1. PICK k \in Pending :
        /\ Round[k] > 0
        /\ \A j \in Pending : j < k => Round[j] = 0
        /\ tokens' = [Round EXCEPT ![k] = @ - 1]
        /\ waited' = [j \in Class |-> IF j = k \/ queues[j] = <<>> THEN 0 ELSE waited[j] + 1]
  BY Zenon DEF NextToSend
<1>2. Pending \subseteq Class /\ k \in Class /\ \A j \in Class : j \in Pending <=> queues[j] # <<>>
  BY Zenon DEF Pending
<1>3. Weight \in [Class -> Nat] /\ \A j \in Class : Weight[j] > 0
  BY SchedulerAssumption
<1>4. Round \in [Class -> Nat] /\ \A j \in Class : Round[j] <= Weight[j]
  BY <1>3 DEF Round, TurnInv
<1>5. ASSUME NEW j \in Pending PROVE TurnOf(Round, waited[j], j)
  <2>1. CASE ~Refill
    BY Zenon, <1>2, <2>1 DEF Round, TurnInv, TurnOf
  <2>2. CASE Refill
    <3>1. tokens[j] = 0 /\ waited[j] \in Nat /\ waited[j] + Others(tokens, j) <= Others(Weight, j)
      BY Zenon, <1>2, <2>2 DEF Refill, TurnInv
    <3>2. /\ Others(tokens, j) \in Nat /\ Others(Weight, j) \in Nat /\ Above(Weight, j) \in Nat
      BY Zenon, <1>2, <1>3, SharesTyped DEF TurnInv
    <3>3. Round = Weight /\ Weight[j] > 0 /\ Weight[j] \in Nat
      BY Zenon, <1>2, <1>3, <2>2 DEF Round
    <3>4. QED
      BY <3>1, <3>2, <3>3 DEF TurnOf
  <2>3. QED
    BY Zenon, <2>1, <2>2
<1>6. /\ tokens' \in [Class -> Nat] /\ tokens'[k] = Round[k] - 1
      /\ \A j \in Class : j # k => tokens'[j] = Round[j]
  BY <1>1, <1>2, <1>4
<1>7. \A j \in Class : tokens'[j] <= Weight[j]
  BY <1>1, <1>2, <1>3, <1>4, <1>6
<1>8. waited' \in [Class -> Nat]
  BY <1>1 DEF TurnInv
<1>9. ASSUME NEW j \in Class PROVE TurnOf(tokens', waited'[j], j)
  <2>1. CASE j = k \/ j \notin Pending
    <3>1. waited'[j] = 0
      BY Zenon, <2>1, <1>1, <1>2
    <3>2. QED
      BY Zenon, <3>1, <1>6, <1>7, TurnFresh
  <2>2. CASE j # k /\ j \in Pending
    <3>1. waited'[j] = waited[j] + 1 /\ waited[j] \in Nat /\ tokens'[j] = Round[j]
      BY Zenon, <2>2, <1>1, <1>2, <1>6 DEF TurnInv
    <3>2. Others(tokens', j) = Others(Round, j) - 1 /\ (k < j => Above(tokens', j) = Above(Round, j) - 1)
      <4>1. Round[k] > 0 /\ tokens' = [Round EXCEPT ![k] = @ - 1] /\ k \in Class /\ j # k
        BY Zenon, <1>1, <1>2, <2>2
      <4>2. QED
        BY <4>1, <1>4, SharesSpent
    <3>3. Round[j] > 0 => k < j
      BY <2>2, <1>1, <1>2 DEF Class
    <3>4. /\ Others(Round, j) \in Nat /\ Above(Round, j) \in Nat
          /\ Others(Weight, j) \in Nat /\ Above(Weight, j) \in Nat
      BY <1>3, <1>4, SharesMonotone
    <3>5. TurnOf(Round, waited[j], j)
      BY Zenon, <1>5, <2>2
    <3>6. QED
      BY <3>1, <3>2, <3>3, <3>4, <3>5 DEF TurnOf
  <2>3. QED
    BY Zenon, <2>1, <2>2
<1>10. QED
  BY Zenon, <1>6, <1>8, <1>9 DEF TurnInv, TurnOf

LEMMA TurnInitially == Init => TurnInv
<1> SUFFICES ASSUME Init PROVE TurnInv
  BY Zenon
<1>1. Weight \in [Class -> Nat]
  BY Zenon, SchedulerAssumption
<1>2. /\ tokens \in [Class -> Nat] /\ \A j \in Class : tokens[j] <= Weight[j]
      /\ waited \in [Class -> Nat] /\ \A j \in Class : waited[j] = 0
  BY <1>1 DEF Init
<1>3. ASSUME NEW k \in Class PROVE TurnOf(tokens, waited[k], k)
  BY Zenon, <1>2, TurnFresh
<1>4. QED
  BY Zenon, <1>2, <1>3 DEF TurnInv, TurnOf

LEMMA TurnStep == TurnInv /\ [Next]_vars => TurnInv'
<1> SUFFICES ASSUME TurnInv, [Next]_vars PROVE TurnInv'
  BY Zenon
<1> DEFINE Still == tokens' = tokens /\ waited' = waited
           Reckoned == tokens' = tokens /\ waited' = Reckon(queues', waited)
<1>1. ASSUME NEW c PROVE Adopt(c) \/ WaitForCapacity(c) => Still
  BY Zenon DEF Adopt, WaitForCapacity
<1>2. ASSUME NEW c PROVE CloseChannel(c) => Reckoned
  BY Zenon DEF CloseChannel
<1>3. ASSUME NEW c, NEW size PROVE EnqueueControl(c, size) => Still
  BY Zenon DEF EnqueueControl
<1>4. ASSUME NEW c, NEW k, NEW size PROVE EnqueueBusiness(c, k, size) => Reckoned
  BY Zenon DEF EnqueueBusiness
<1>5. ASSUME NEW l PROVE LineReady(l) \/ LineFull(l) \/ CancelWait(l) => Still
  BY Zenon DEF LineReady, LineFull, CancelWait
<1>6. Allocate \/ PumpDone \/ PumpSent \/ PumpBlocked \/ Destroy \/ UNCHANGED vars => Still
  BY Zenon DEF Allocate, PumpDone, PumpSent, PumpBlocked, Destroy, vars
<1>7. PumpFails => Reckoned
  BY Zenon DEF PumpFails
<1>8. Still => TurnInv'
  <2>1. \A k \in Class : waited[k] <= waited[k]
    BY DEF TurnInv
  <2>2. QED
    BY Zenon, <2>1, TurnQuiet DEF TurnInv
<1>9. Reckoned => TurnInv'
  BY Zenon, TurnReckon
<1>10. NextToSend => TurnInv'
  BY Zenon, TurnTaken
<1> HIDE DEF Still, Reckoned
<1>11. QED
  BY <1>1, <1>2, <1>3, <1>4, <1>5, <1>6, <1>7, <1>8, <1>9, <1>10, Zenon DEF Next

\* A class with a frame waiting has its turn in next_to_send after the others
\* have had at most their weights, and those above it theirs once more, whatever
\* the weights are (frame_class_weight, refill_tokens).
THEOREM NoClassStarves == Spec => []TurnBound
<1>1. TurnInv => TurnBound
  <2>1. SUFFICES ASSUME TurnInv, NEW k \in Class
                 PROVE  waited[k] <= Others(Weight, k) + Above(Weight, k)
    BY Zenon DEF TurnBound
  <2>2. Weight \in [Class -> Nat]
    BY Zenon, SchedulerAssumption
  <2>3. /\ Others(tokens, k) \in Nat /\ Above(tokens, k) \in Nat
        /\ Others(Weight, k) \in Nat /\ Above(Weight, k) \in Nat
    BY Zenon, <2>1, <2>2, SharesTyped DEF TurnInv
  <2>4. waited[k] \in Nat /\ tokens[k] \in Nat
    BY Zenon, <2>1 DEF TurnInv
  <2>5. QED
    BY <2>1, <2>3, <2>4 DEF TurnInv
<1>2. QED
  BY <1>1, TurnInitially, TurnStep, PTL DEF Spec

-----------------------------------------------------------------------------
(* Order.                                                                  *)

LEMMA FrameFields ==
  ASSUME config \in Configs, NEW f \in Frame
  PROVE  /\ f.size \in Nat /\ f.no \in Nat /\ f.class \in Class /\ f.ch \in Lines
         /\ f.size \in config.sizes
<1>1. config.sizes \subseteq Nat /\ config.frames \in Nat
  BY Zenon, SchedulerAssumption
<1>2. QED
  BY <1>1 DEF Frame

LEMMA ClassWithout ==
  ASSUME NEW q, NEW k, NEW last, NEW tot, ClassSound(q, k, last, tot), NEW out
  PROVE  /\ ClassSound(Without(q, out), k, last, tot)
         /\ Range(Without(q, out)) = Range(q) \ out
<1>1. q \in Seq(Frame) /\ Increasing(q)
  BY Zenon DEF ClassSound
<1>2. Without(q, out) \in Seq(Frame) /\ Range(Without(q, out)) = Range(q) \ out
  BY Zenon, <1>1, WithoutSound
<1>3. Increasing(Without(q, out))
  BY Zenon, <1>1, IncreasingWithout
<1>4. QED
  BY Zenon, <1>2, <1>3 DEF ClassSound

LEMMA ClassAppend ==
  ASSUME config \in Configs, NEW q, NEW k, NEW last \in Nat, NEW tot \in Nat, last <= tot,
         ClassSound(q, k, last, tot),
         NEW f \in Frame, f.class = k, f.no = tot + 1, Origin(f)
  PROVE  /\ ClassSound(Append(q, f), k, last, f.no)
         /\ Range(Append(q, f)) = Range(q) \cup {f}
         /\ f \notin Range(q)
<1>1. q \in Seq(Frame) /\ Increasing(q) /\ Range(q) \subseteq Frame
  BY Zenon, RangeOfQueue DEF ClassSound
<1>2. \A g \in Range(q) : g.no \in Nat /\ last < g.no /\ g.no <= tot /\ g.class = k /\ Origin(g)
  BY Zenon, <1>1, FrameFields DEF ClassSound
<1>3. \A g \in Range(q) : g.no < f.no /\ g.no <= f.no
  BY <1>2
<1>4. Append(q, f) \in Seq(Frame) /\ Range(Append(q, f)) = Range(q) \cup {f}
  BY <1>1, RangeOfAppend
<1>5. Increasing(Append(q, f))
  BY Zenon, <1>1, <1>3, IncreasingAppend
<1>6. last < f.no /\ f.no <= f.no /\ f \notin Range(q)
  BY <1>2
<1>7. QED
  BY Zenon, <1>2, <1>3, <1>4, <1>5, <1>6 DEF ClassSound

LEMMA ClassGrows ==
  ASSUME config \in Configs, NEW q, NEW k, NEW last, NEW tot \in Nat, ClassSound(q, k, last, tot)
  PROVE  ClassSound(q, k, last, tot + 1)
<1>1. \A g \in Range(q) : g.no \in Nat
  BY Zenon, RangeOfQueue, FrameFields DEF ClassSound
<1>2. \A g \in Range(q) : g.no <= tot + 1
  BY <1>1 DEF ClassSound
<1>3. QED
  BY Zenon, <1>2 DEF ClassSound

LEMMA ClassTail ==
  ASSUME config \in Configs, NEW q, NEW k, NEW last, NEW tot, ClassSound(q, k, last, tot), q # <<>>
  PROVE  /\ ClassSound(Tail(q), k, last, tot)
         /\ Head(q) \in Range(q) /\ Head(q) \in Frame
         /\ Range(Tail(q)) = Range(q) \ {Head(q)}
         /\ \A f \in Range(Tail(q)) : Head(q).no < f.no
<1>1. q \in Seq(Frame) /\ Increasing(q) /\ Range(q) \subseteq Frame
  BY Zenon, RangeOfQueue DEF ClassSound
<1>2. \A f \in Frame : f.no \in Nat
  BY Zenon, FrameFields
<1>3. /\ Tail(q) \in Seq(Frame) /\ Head(q) \in Range(q)
      /\ Range(Tail(q)) = Range(q) \ {Head(q)}
      /\ Increasing(Tail(q))
      /\ \A f \in Range(Tail(q)) : Head(q).no < f.no
  BY Zenon, <1>1, <1>2, RangeOfTail
<1>4. QED
  BY Zenon, <1>1, <1>3 DEF ClassSound

LEMMA ClassPutBack ==
  ASSUME config \in Configs, NEW q, NEW k, NEW last, NEW tot, ClassSound(q, k, last, tot),
         NEW f \in Frame, f.class = k, Origin(f), last < f.no, f.no <= tot,
         \A g \in Range(q) : f.no < g.no
  PROVE  /\ ClassSound(PutBack(q, f), k, last, tot)
         /\ Range(PutBack(q, f)) = Range(q) \cup {f}
         /\ f \notin Range(q)
<1>1. q \in Seq(Frame) /\ Increasing(q)
  BY Zenon DEF ClassSound
<1>2. PutBack(q, f) \in Seq(Frame) /\ Range(PutBack(q, f)) = Range(q) \cup {f}
  BY <1>1, RangeOfPutBack
<1>3. Increasing(PutBack(q, f))
  BY Zenon, <1>1, IncreasingPutBack
<1>4. f \notin Range(q)
  BY FrameFields
<1>5. QED
  BY Zenon, <1>2, <1>3, <1>4 DEF ClassSound

\* A frame was sent: what is left of its class comes after it.
LEMMA ClassSent ==
  ASSUME NEW q, NEW k, NEW last, NEW tot, ClassSound(q, k, last, tot),
         NEW n, \A g \in Range(q) : n < g.no
  PROVE  ClassSound(q, k, n, tot)
BY Zenon DEF ClassSound

\* What a step has to show.
LEMMA QueuePrime ==
  ASSUME config' = config, config \in Configs,
         queues' \in [Class -> Seq(Frame)],
         sent' \in [Class -> Nat], total' \in Nat, total' <= config.frames,
         pumping' \in BOOLEAN, alive' \in BOOLEAN,
         picked' = {} \/ (pumping' /\ \E f \in Frame : picked' = {f}),
         \A k \in Class : sent'[k] <= total' /\ ClassSound(queues'[k], k, sent'[k], total'),
         \A f \in picked' :
           /\ f \in Frame /\ Origin(f) /\ sent'[f.class] < f.no /\ f.no <= total'
           /\ \A g \in Range(queues'[f.class]) : f.no < g.no
  PROVE  QueueInv'
<1>1. Frame' = Frame /\ \A f : Origin(f)' <=> Origin(f)
  BY Zenon DEF Frame, Origin, Used
<1>2. ASSUME NEW k \in Class PROVE ClassSound(queues[k], k, sent[k], total)'
  <2>1. ClassSound(queues'[k], k, sent'[k], total')
    BY Zenon
  <2>2. QED
    BY <2>1, <1>1, Zenon DEF ClassSound, Increasing
<1>3. ASSUME NEW f \in picked' PROVE HeldSound(f)'
  BY <1>1, <1>3, Zenon DEF HeldSound
<1>4. QED
  BY Zenon, <1>1, <1>2, <1>3 DEF QueueInv

\* Neither the queues nor the pump's frame change.
LEMMA QueueStill ==
  ASSUME QueueInv, config' = config, queues' = queues, sent' = sent, total' = total,
         picked' = picked, pumping' \in BOOLEAN, alive' \in BOOLEAN, picked = {} \/ pumping'
  PROVE  QueueInv'
BY QueuePrime, Zenon DEF QueueInv, HeldSound

\* Frames leave every class while the pump holds none.
LEMMA QueueFiltered ==
  ASSUME QueueInv, NEW out, config' = config,
         queues' = [k \in Class |-> Without(queues[k], out)],
         sent' = sent, total' = total, picked' = {}, pumping' \in BOOLEAN, alive' \in BOOLEAN
  PROVE  QueueInv'
<1>1. ASSUME NEW k \in Class
      PROVE  /\ ClassSound(queues'[k], k, sent'[k], total') /\ sent'[k] <= total'
             /\ queues'[k] \in Seq(Frame)
  <2>1. ClassSound(queues[k], k, sent[k], total) /\ sent[k] <= total /\ queues'[k] = Without(queues[k], out)
    BY Zenon DEF QueueInv
  <2>2. ClassSound(Without(queues[k], out), k, sent[k], total)
    BY Zenon, <2>1, ClassWithout
  <2>3. QED
    BY Zenon, <2>1, <2>2 DEF ClassSound
<1>2. queues' \in [Class -> Seq(Frame)]
  BY Zenon, <1>1
<1>3. QED
  BY Zenon, <1>1, <1>2, QueuePrime DEF QueueInv

\* A frame is admitted to class k behind what is left of its queue.
LEMMA QueueAdmitted ==
  ASSUME QueueInv, NEW q, NEW c, NEW k \in Class, NEW size \in config.sizes,
         q \in [Class -> Seq(Frame)],
         \A j \in Class : ClassSound(q[j], j, sent[j], total),
         c \in Lines, Origin(NewFrame(c, k, size)),
         config' = config, sent' = sent, picked' = {}, alive' = alive,
         total < config.frames, Admitted(q, c, k, size)
  PROVE  QueueInv' /\ NewFrame(c, k, size) \notin Range(q[k])
                   /\ Range(queues'[k]) = Range(q[k]) \cup {NewFrame(c, k, size)}
                   /\ NewFrame(c, k, size) \in Frame
                   /\ \A j \in Class : j # k => queues'[j] = q[j]
<1> DEFINE f == NewFrame(c, k, size)
<1>1. config \in Configs /\ total \in Nat /\ config.frames \in Nat /\ sent \in [Class -> Nat]
  BY Zenon, SchedulerAssumption DEF QueueInv
<1>2. f \in Frame /\ f.class = k /\ f.no = total + 1
  BY <1>1 DEF Frame, NewFrame
<1>3. /\ queues' = [q EXCEPT ![k] = Append(@, f)] /\ total' = total + 1 /\ pumping' = TRUE
  BY Zenon DEF Admitted
<1> HIDE DEF f
<1>4. /\ ClassSound(Append(q[k], f), k, sent[k], total + 1)
      /\ Range(Append(q[k], f)) = Range(q[k]) \cup {f} /\ f \notin Range(q[k])
  <2> DEFINE r == q[k]
             last == sent[k]
  <2>1. ClassSound(r, k, last, total) /\ last \in Nat /\ last <= total /\ Origin(f)
    BY Zenon, <1>1 DEF QueueInv, f
  <2> HIDE DEF r, last
  <2>2. /\ ClassSound(Append(r, f), k, last, f.no)
        /\ Range(Append(r, f)) = Range(r) \cup {f} /\ f \notin Range(r)
    BY ONLY <2>1, <1>1, <1>2, ClassAppend
  <2>3. QED
    BY Zenon, <2>2, <1>2 DEF r, last
<1>5. queues'[k] = Append(q[k], f) /\ \A j \in Class : j # k => queues'[j] = q[j]
  BY Zenon, <1>3
<1>6. ASSUME NEW j \in Class
      PROVE  /\ sent'[j] <= total' /\ ClassSound(queues'[j], j, sent'[j], total')
             /\ queues'[j] \in Seq(Frame)
  <2>1. sent'[j] <= total'
    BY <1>1, <1>3 DEF QueueInv
  <2>2. ClassSound(queues'[j], j, sent'[j], total')
    <3>1. CASE j = k
      BY Zenon, <3>1, <1>3, <1>4, <1>5
    <3>2. CASE j # k
      BY Zenon, <3>2, <1>1, <1>3, <1>5, ClassGrows
    <3>3. QED
      BY Zenon, <3>1, <3>2
  <2>3. QED
    BY Zenon, <2>1, <2>2 DEF ClassSound
<1>7. queues' \in [Class -> Seq(Frame)]
  BY Zenon, <1>3, <1>6
<1>8. QueueInv'
  <2>1. total' \in Nat /\ total' <= config.frames /\ pumping' \in BOOLEAN /\ alive' \in BOOLEAN
    BY <1>1, <1>3 DEF QueueInv
  <2>2. QED
    BY Zenon, <2>1, <1>1, <1>6, <1>7, QueuePrime
<1>9. QED
  BY Zenon, <1>2, <1>4, <1>5, <1>8 DEF f

\* next_to_send takes the head of class k.
LEMMA QueueTaken ==
  ASSUME QueueInv, NEW k \in Class, queues[k] # <<>>,
         config' = config, sent' = sent, total' = total, alive' = alive, pumping, pumping' = pumping,
         queues' = [queues EXCEPT ![k] = Tail(@)],
         picked' = {Head(queues[k])}
  PROVE  QueueInv' /\ Head(queues[k]) \in Range(queues[k]) /\ Head(queues[k]) \in Frame
                   /\ Head(queues[k]).class = k /\ Origin(Head(queues[k]))
                   /\ Range(queues'[k]) = Range(queues[k]) \ {Head(queues[k])}
                   /\ \A j \in Class : j # k => queues'[j] = queues[j]
<1> DEFINE f == Head(queues[k])
<1>1. /\ config \in Configs /\ ClassSound(queues[k], k, sent[k], total)
      /\ queues \in [Class -> Seq(Frame)]
  BY Zenon DEF QueueInv
<1>2. /\ ClassSound(Tail(queues[k]), k, sent[k], total)
      /\ f \in Range(queues[k]) /\ f \in Frame
      /\ Range(Tail(queues[k])) = Range(queues[k]) \ {f}
      /\ \A g \in Range(Tail(queues[k])) : f.no < g.no
  BY Zenon, <1>1, ClassTail
<1>3. f.class = k /\ Origin(f) /\ sent[k] < f.no /\ f.no <= total
  BY Zenon, <1>1, <1>2 DEF ClassSound
<1> HIDE DEF f
<1>4. queues'[k] = Tail(queues[k]) /\ \A j \in Class : j # k => queues'[j] = queues[j]
  BY Zenon, <1>1
<1>5. ASSUME NEW j \in Class
      PROVE  /\ sent'[j] <= total' /\ ClassSound(queues'[j], j, sent'[j], total')
             /\ queues'[j] \in Seq(Frame)
  <2>1. ClassSound(queues'[j], j, sent'[j], total')
    BY Zenon, <1>2, <1>4 DEF QueueInv
  <2>2. QED
    BY Zenon, <2>1 DEF ClassSound, QueueInv
<1>6. queues' \in [Class -> Seq(Frame)]
  BY Zenon, <1>1, <1>5
<1>7. QueueInv'
  <2>1. picked' = {f} /\ f \in Frame
    BY Zenon, <1>2 DEF f
  <2>2. ASSUME NEW g \in picked'
        PROVE  /\ g \in Frame /\ Origin(g) /\ sent'[g.class] < g.no /\ g.no <= total'
               /\ \A h \in Range(queues'[g.class]) : g.no < h.no
    BY Zenon, <2>1, <1>2, <1>3, <1>4
  <2>3. /\ sent' \in [Class -> Nat] /\ total' \in Nat /\ total' <= config.frames
        /\ pumping' \in BOOLEAN /\ alive' \in BOOLEAN
        /\ pumping' /\ \E g \in Frame : picked' = {g}
    BY Zenon, <2>1 DEF QueueInv
  <2>4. QED
    BY Zenon, <1>1, <1>5, <1>6, <2>2, <2>3, QueuePrime
<1>8. QED
  BY Zenon, <1>2, <1>3, <1>4, <1>7 DEF f

\* The transport takes the frame.
LEMMA QueueSent ==
  ASSUME QueueInv, PumpSent
  PROVE  QueueInv'
<1>1. PICK f \in picked : sent' = [sent EXCEPT ![f.class] = f.no]
  BY Zenon DEF PumpSent
<1>2. /\ config' = config /\ queues' = queues /\ total' = total /\ picked' = {}
      /\ pumping' = pumping /\ alive' = alive
  BY Zenon DEF PumpSent
<1>3. /\ config \in Configs /\ f \in Frame /\ sent[f.class] < f.no /\ f.no <= total
      /\ \A g \in Range(queues[f.class]) : f.no < g.no
      /\ sent \in [Class -> Nat]
  BY Zenon DEF QueueInv, HeldSound
<1>4. f.no \in Nat /\ f.class \in Class
  BY Zenon, <1>3, FrameFields
<1>5. /\ sent' \in [Class -> Nat] /\ sent'[f.class] = f.no
      /\ \A j \in Class : j # f.class => sent'[j] = sent[j]
  BY Zenon, <1>1, <1>3, <1>4
<1>6. ASSUME NEW j \in Class
      PROVE  sent'[j] <= total' /\ ClassSound(queues'[j], j, sent'[j], total')
  <2>1. sent[j] <= total /\ ClassSound(queues[j], j, sent[j], total)
    BY Zenon DEF QueueInv
  <2>2. CASE j = f.class
    BY Zenon, <2>1, <2>2, <1>2, <1>3, <1>5, ClassSent
  <2>3. CASE j # f.class
    BY Zenon, <2>1, <2>3, <1>2, <1>5
  <2>4. QED
    BY Zenon, <2>2, <2>3
<1>7. QED
  BY Zenon, <1>2, <1>3, <1>5, <1>6, QueuePrime DEF QueueInv

\* return_to_send puts the frame back at the head of its class.
LEMMA QueueReturned ==
  ASSUME QueueInv, NEW f \in picked,
         config' = config, sent' = sent, total' = total, alive' = alive, pumping' \in BOOLEAN,
         queues' = [queues EXCEPT ![f.class] = PutBack(@, f)], picked' = {}
  PROVE  QueueInv' /\ f \in Frame /\ Origin(f) /\ f \notin Range(queues[f.class])
                   /\ Range(queues'[f.class]) = Range(queues[f.class]) \cup {f}
                   /\ \A j \in Class : j # f.class => queues'[j] = queues[j]
<1>1. /\ config \in Configs /\ f \in Frame /\ Origin(f) /\ sent[f.class] < f.no /\ f.no <= total
      /\ \A g \in Range(queues[f.class]) : f.no < g.no
      /\ queues \in [Class -> Seq(Frame)]
  BY Zenon DEF QueueInv, HeldSound
<1>2. f.class \in Class
  BY Zenon, <1>1, FrameFields
<1>3. /\ ClassSound(PutBack(queues[f.class], f), f.class, sent[f.class], total)
      /\ Range(PutBack(queues[f.class], f)) = Range(queues[f.class]) \cup {f}
      /\ f \notin Range(queues[f.class])
  <2>1. ClassSound(queues[f.class], f.class, sent[f.class], total)
    BY Zenon, <1>2 DEF QueueInv
  <2>2. QED
    BY <2>1, <1>1, ClassPutBack, Zenon
<1>4. /\ queues'[f.class] = PutBack(queues[f.class], f)
      /\ \A j \in Class : j # f.class => queues'[j] = queues[j]
  BY Zenon, <1>1, <1>2
<1>5. ASSUME NEW j \in Class
      PROVE  /\ sent'[j] <= total' /\ ClassSound(queues'[j], j, sent'[j], total')
             /\ queues'[j] \in Seq(Frame)
  <2>1. ClassSound(queues'[j], j, sent'[j], total')
    BY Zenon, <1>3, <1>4 DEF QueueInv
  <2>2. QED
    BY Zenon, <2>1 DEF ClassSound, QueueInv
<1>6. queues' \in [Class -> Seq(Frame)]
  BY Zenon, <1>1, <1>5
<1>7. QueueInv'
  BY Zenon, <1>1, <1>5, <1>6, QueuePrime DEF QueueInv
<1>8. QED
  BY Zenon, <1>1, <1>3, <1>4, <1>7

LEMMA QueueInitially == Init => QueueInv
<1> SUFFICES ASSUME Init PROVE QueueInv
  BY Zenon
<1>1. config \in Configs /\ config.frames \in Nat
  BY Zenon, SchedulerAssumption DEF Init
<1>2. \A k \in Class : queues[k] = <<>> /\ sent[k] = 0 /\ total = 0
  BY Zenon DEF Init
<1>3. ASSUME NEW k \in Class PROVE ClassSound(queues[k], k, sent[k], total)
  <2>1. <<>> \in Seq(Frame)
    OBVIOUS
  <2>2. Range(<<>>) = {}
    BY <2>1, RangeOfQueue, Zenon
  <2>3. Increasing(<<>>)
    BY DEF Increasing
  <2>4. QED
    BY Zenon, <2>1, <2>2, <2>3, <1>2 DEF ClassSound
<1>4. sent \in [Class -> Nat] /\ queues \in [Class -> Seq(Frame)]
  BY DEF Init
<1>5. total = 0 /\ picked = {} /\ pumping = FALSE /\ alive = TRUE
  BY Zenon DEF Init
<1>6. \A k \in Class : sent[k] <= total /\ ClassSound(queues[k], k, sent[k], total)
  BY <1>2, <1>3
<1>7. total \in Nat /\ total <= config.frames
  BY <1>1, <1>5
<1>8. pumping \in BOOLEAN /\ alive \in BOOLEAN
  BY <1>5, Zenon
<1>9. QED
  BY <1>1, <1>4, <1>5, <1>6, <1>7, <1>8, Zenon DEF QueueInv

\* While the manager is idle the pump holds no frame.
LEMMA IdleHoldsNone ==
  ASSUME QueueInv, Idle
  PROVE  picked = {} /\ alive /\ ~pumping
BY Zenon DEF QueueInv, Idle

LEMMA QueueClosed ==
  ASSUME QueueInv, NEW c, Closed(c), config' = config, sent' = sent, total' = total,
         picked' = {}, pumping' \in BOOLEAN, alive' \in BOOLEAN
  PROVE  QueueInv'
<1>1. queues' = [k \in Class |-> Without(queues[k], Mine(c, Class))]
  BY Zenon DEF Closed
<1>2. QED
  BY Zenon, <1>1, QueueFiltered

\* What an enqueue on channel c keeps of the queues.
Kept2(c, size) == [j \in Class |-> Without(queues[j], Evicted(c, size))]

LEMMA KeptSound ==
  ASSUME QueueInv, NEW c, NEW size
  PROVE  /\ Kept2(c, size) \in [Class -> Seq(Frame)]
         /\ \A j \in Class :
              /\ ClassSound(Kept2(c, size)[j], j, sent[j], total)
              /\ Range(Kept2(c, size)[j]) = Range(queues[j]) \ Evicted(c, size)
<1>1. ASSUME NEW j \in Class
      PROVE  /\ ClassSound(Kept2(c, size)[j], j, sent[j], total)
             /\ Range(Kept2(c, size)[j]) = Range(queues[j]) \ Evicted(c, size)
             /\ Kept2(c, size)[j] \in Seq(Frame)
  <2>1. ClassSound(queues[j], j, sent[j], total)
    BY Zenon DEF QueueInv
  <2>2. Kept2(c, size)[j] = Without(queues[j], Evicted(c, size))
    BY Zenon DEF Kept2
  <2>3. /\ ClassSound(Kept2(c, size)[j], j, sent[j], total)
        /\ Range(Kept2(c, size)[j]) = Range(queues[j]) \ Evicted(c, size)
    BY <2>1, <2>2, ClassWithout
  <2>4. QED
    BY Zenon, <2>3 DEF ClassSound
<1>2. Kept2(c, size) \in [Class -> Seq(Frame)]
  BY Zenon, <1>1 DEF Kept2
<1>3. QED
  BY Zenon, <1>1, <1>2

LEMMA QueueControl ==
  ASSUME QueueInv, NEW c \in {0} \cup config.urgent, NEW size \in config.sizes,
         EnqueueControl(c, size)
  PROVE  /\ QueueInv' /\ NewFrame(c, 0, size) \notin Ctl
         /\ Ctl' = Ctl \cup {NewFrame(c, 0, size)} /\ Biz' = Biz
<1>1. /\ Idle /\ total < config.frames /\ Admitted(queues, c, 0, size)
      /\ config' = config /\ sent' = sent /\ picked' = picked /\ alive' = alive
  BY Zenon DEF EnqueueControl
<1>2. picked' = {}
  BY Zenon, <1>1, IdleHoldsNone
<1>3. c \in Lines /\ Origin(NewFrame(c, 0, size)) /\ 0 \in Class
  BY SchedulerAssumption DEF QueueInv, Lines, Origin, NewFrame, Class
<1>4. queues \in [Class -> Seq(Frame)] /\ \A j \in Class : ClassSound(queues[j], j, sent[j], total)
  BY Zenon DEF QueueInv
<1>5. QueueInv' /\ NewFrame(c, 0, size) \notin Range(queues[0])
                /\ Range(queues'[0]) = Range(queues[0]) \cup {NewFrame(c, 0, size)}
                /\ \A j \in Class : j # 0 => queues'[j] = queues[j]
  BY ONLY QueueInv, size \in config.sizes, <1>1, <1>2, <1>3, <1>4, QueueAdmitted, Zenon
<1>6. QED
  BY <1>5, FourClasses DEF Ctl, Biz

\* What is queued, class by class.
LEMMA QueueFrames ==
  ASSUME QueueInv
  PROVE  /\ Sized(Biz) /\ Sized(Ctl)
         /\ \A k \in Class : \A f \in Range(queues[k]) : f \in Frame /\ f.class = k /\ Origin(f)
         /\ \A f \in Biz : f \in Frame /\ f.class \in 1 .. 3 /\ f.ch \in Used
         /\ \A f \in Ctl : f \in Frame /\ f.class = 0 /\ f.ch \in {0} \cup config.urgent
<1>1. config \in Configs
  BY Zenon DEF QueueInv
<1>2. ASSUME NEW k \in Class
      PROVE  /\ IsFiniteSet(Range(queues[k]))
             /\ \A f \in Range(queues[k]) : f \in Frame /\ f.class = k /\ Origin(f)
  <2>1. ClassSound(queues[k], k, sent[k], total)
    BY Zenon DEF QueueInv
  <2>2. Range(queues[k]) \subseteq Frame /\ IsFiniteSet(Range(queues[k]))
    BY Zenon, <2>1, RangeOfQueue DEF ClassSound
  <2>3. QED
    BY Zenon, <2>1, <2>2 DEF ClassSound
<1>3. IsFiniteSet(Biz) /\ IsFiniteSet(Ctl)
  BY Zenon, <1>2, FourClasses, FS_Union DEF Biz, Ctl
<1>4. \A f \in Biz : f \in Frame /\ f.class \in 1 .. 3 /\ f.ch \in Used
  BY <1>2, FourClasses DEF Biz, Origin
<1>5. \A f \in Ctl : f \in Frame /\ f.class = 0 /\ f.ch \in {0} \cup config.urgent
  BY Zenon, <1>2, FourClasses DEF Ctl, Origin
<1>6. Sized(Biz) /\ Sized(Ctl)
  BY Zenon, <1>1, <1>3, <1>4, <1>5, FrameFields DEF Sized
<1>7. QED
  BY Zenon, <1>2, <1>4, <1>5, <1>6

LEMMA MineIs ==
  ASSUME NEW c
  PROVE  /\ Mine(c, 1 .. 3) = On(Biz, c)
         /\ Mine(c, Class) = On(Biz, c) \cup On(Ctl, c)
         /\ Mine(c, {0}) = On(Ctl, c)
<1>1. 1 .. 3 = {1, 2, 3}
  OBVIOUS
<1>2. QED
  BY <1>1, FourClasses DEF Mine, On, Biz, Ctl

\* The oldest frame of a channel that has any is one of its frames.
LEMMA OldestExists ==
  ASSUME QueueInv, NEW c, Mine(c, Class) # {}
  PROVE  Oldest(c) \in Mine(c, Class)
<1> DEFINE M == Mine(c, Class)
           Ks == {f.class : f \in M}
<1>1. \A f \in M : f \in Frame /\ f.class \in Nat /\ f.no \in Nat
  <2>1. config \in Configs /\ \A f \in M : f \in Frame
    BY MineIs, QueueFrames DEF On, QueueInv
  <2>2. QED
    BY <2>1, FrameFields DEF Class
<1> HIDE DEF M
<1>2. Ks \subseteq Nat /\ Ks # {}
  BY Zenon, <1>1 DEF M
<1> HIDE DEF Ks
<1>3. PICK k \in Ks : \A j \in Ks : k <= j
  BY Zenon, <1>2, LeastNatural
<1> DEFINE Ns == {f.no : f \in {g \in M : g.class = k}}
<1>4. Ns \subseteq Nat /\ Ns # {}
  BY Zenon, <1>1, <1>3 DEF Ks
<1> HIDE DEF Ns
<1>5. PICK n \in Ns : \A m \in Ns : n <= m
  BY Zenon, <1>4, LeastNatural
<1>6. PICK f \in M : f.class = k /\ f.no = n
  BY Zenon, <1>5 DEF Ns
<1>7. \A g \in M : f.class < g.class \/ (f.class = g.class /\ f.no <= g.no)
  <2>1. SUFFICES ASSUME NEW g \in M, g.class # k PROVE k < g.class
    BY Zenon, <1>5, <1>6 DEF Ns
  <2>2. k <= g.class /\ g.class \in Nat /\ k \in Nat
    BY Zenon, <1>1, <1>2, <1>3 DEF Ks
  <2>3. QED
    BY <2>1, <2>2
<1>8. QED
  BY Zenon, <1>6, <1>7 DEF Oldest, M

\* drop_oldest and keep_latest evict business frames of their own channel only: a
\* channel that evicts sends no control-class frame.
LEMMA EvictedIs ==
  ASSUME QueueInv, NEW c \in Used, queued[c] = Tally(On(Biz, c)), NEW size
  PROVE  Evicted(c, size) \subseteq On(Biz, c)
<1>1. config \in Configs /\ c \in Channels /\ c # 0 /\ (config.policy[c] # "reject" => c \notin config.urgent)
  BY Zenon, SchedulerAssumption DEF QueueInv, Used
<1>2. ASSUME config.policy[c] # "reject" PROVE Mine(c, Class) = On(Biz, c)
  <2>1. On(Ctl, c) = {}
    BY <1>1, <1>2, QueueFrames DEF On
  <2>2. QED
    BY Zenon, <2>1, MineIs
<1>3. CASE config.policy[c] = "keep_latest"
  BY Zenon, <1>2, <1>3 DEF Evicted
<1>4. CASE config.policy[c] = "drop_oldest" /\ queued[c].frames > 0
  <2>1. Cardinality(On(Biz, c)) > 0
    BY <1>4 DEF Tally
  <2>2. On(Biz, c) # {}
    BY <2>1, FS_EmptySet
  <2>3. Mine(c, Class) = On(Biz, c)
    BY Zenon, <1>2, <1>4
  <2>4. Oldest(c) \in On(Biz, c)
    BY Zenon, <2>2, <2>3, OldestExists
  <2>5. QED
    BY Zenon, <1>4, <2>4 DEF Evicted
<1>5. QED
  BY Zenon, <1>3, <1>4 DEF Evicted

\* An enqueue on a business channel evicts, and then admits the frame or not.
LEMMA QueueBusiness ==
  ASSUME QueueInv, NEW c \in Used, NEW k \in config.classes, NEW size \in config.sizes,
         EnqueueBusiness(c, k, size)
  PROVE  /\ QueueInv'
         /\ LET out == Evicted(c, size)
                mine == Minus(queued[c], Cardinality(out), Bytes(out))
                f == NewFrame(c, k, size)
            IN IF ChannelFull(mine, size)
                 THEN \A j \in Class : Range(queues'[j]) = Range(queues[j]) \ out
                 ELSE /\ f \in Frame /\ k \in 1 .. 3 /\ f \notin Range(queues[k]) \ out
                      /\ Range(queues'[k]) = (Range(queues[k]) \ out) \cup {f}
                      /\ \A j \in Class : j # k => Range(queues'[j]) = Range(queues[j]) \ out
<1> DEFINE out == Evicted(c, size)
           mine == Minus(queued[c], Cardinality(out), Bytes(out))
           q == Kept2(c, size)
<1>1. /\ Idle /\ total < config.frames
      /\ IF ChannelFull(mine, size)
           THEN queues' = q /\ total' = total /\ pumping' = pumping
           ELSE Admitted(q, c, k, size)
      /\ config' = config /\ sent' = sent /\ picked' = picked /\ alive' = alive
  BY Zenon DEF EnqueueBusiness, Kept2
<1>2. picked' = {} /\ alive /\ ~pumping
  BY Zenon, <1>1, IdleHoldsNone
<1>3. /\ config.classes \subseteq 1 .. 3 /\ c \in Lines /\ k \in Class /\ k \in 1 .. 3
      /\ Origin(NewFrame(c, k, size))
  <2>1. config.classes \subseteq 1 .. 3 /\ Used \subseteq Channels
    BY Zenon, SchedulerAssumption DEF QueueInv, Used
  <2>2. QED
    BY <2>1 DEF Lines, Class, Origin, NewFrame
<1>4. /\ q \in [Class -> Seq(Frame)]
      /\ \A j \in Class : ClassSound(q[j], j, sent[j], total) /\ Range(q[j]) = Range(queues[j]) \ out
  BY Zenon, KeptSound
<1>5. CASE ChannelFull(mine, size)
  <2>1. queues' = [j \in Class |-> Without(queues[j], out)] /\ total' = total
    BY Zenon, <1>1, <1>5 DEF Kept2
  <2>2. pumping' \in BOOLEAN /\ alive' \in BOOLEAN
    BY Zenon, <1>1, <1>5 DEF QueueInv
  <2> HIDE DEF out, mine
  <2>3. QueueInv'
    BY ONLY QueueInv, <1>1, <1>2, <2>1, <2>2, QueueFiltered, Zenon
  <2>4. \A j \in Class : Range(queues'[j]) = Range(queues[j]) \ out
    BY Zenon, <1>1, <1>4, <1>5
  <2>5. QED
    BY Zenon, <2>3, <2>4, <1>5 DEF out, mine
<1>6. CASE ~ChannelFull(mine, size)
  <2> HIDE DEF out, mine, q
  <2>1. \A j \in Class : ClassSound(q[j], j, sent[j], total)
    BY Zenon, <1>4
  <2>2. Admitted(q, c, k, size)
    BY Zenon, <1>1, <1>6
  <2>3. QueueInv' /\ NewFrame(c, k, size) \notin Range(q[k])
                   /\ Range(queues'[k]) = Range(q[k]) \cup {NewFrame(c, k, size)}
                   /\ NewFrame(c, k, size) \in Frame
                   /\ \A j \in Class : j # k => queues'[j] = q[j]
    BY ONLY QueueInv, size \in config.sizes, <1>1, <1>2, <1>3, <1>4, <2>1, <2>2, QueueAdmitted, Zenon
  <2>4. QED
    BY Zenon, <2>3, <1>3, <1>4, <1>6 DEF out, mine
<1>7. QED
  BY Zenon, <1>5, <1>6

\* No step breaks what the queues promise.
LEMMA QueueStep == QueueInv /\ [Next]_vars => QueueInv'
<1> SUFFICES ASSUME QueueInv, [Next]_vars PROVE QueueInv'
  BY Zenon
<1>1. ASSUME config' = config, queues' = queues, sent' = sent, total' = total, alive' = alive,
             picked' = picked, pumping' \in BOOLEAN, picked = {} \/ pumping'
      PROVE  QueueInv'
  BY Zenon, <1>1, QueueStill DEF QueueInv
<1>2. ASSUME Allocate PROVE QueueInv'
  BY Zenon, <1>1, <1>2, IdleHoldsNone DEF Allocate, QueueInv
<1>3. ASSUME NEW c, Adopt(c) PROVE QueueInv'
  BY Zenon, <1>1, <1>3, IdleHoldsNone DEF Adopt, QueueInv
<1>4. ASSUME NEW c, CloseChannel(c) PROVE QueueInv'
  BY Zenon, <1>4, QueueClosed, IdleHoldsNone DEF CloseChannel, QueueInv
<1>5. ASSUME NEW c, WaitForCapacity(c) PROVE QueueInv'
  BY Zenon, <1>1, <1>5, IdleHoldsNone DEF WaitForCapacity, QueueInv
<1>6. ASSUME NEW w, CancelWait(w) PROVE QueueInv'
  BY Zenon, <1>1, <1>6, IdleHoldsNone DEF CancelWait, QueueInv
<1>7. ASSUME NextToSend PROVE QueueInv'
  <2>1. PICK k \in Pending : /\ queues' = [queues EXCEPT ![k] = Tail(@)]
                            /\ picked' = {Head(queues[k])}
    BY Zenon, <1>7 DEF NextToSend
  <2>2. QED
    BY Zenon, <2>1, <1>7, QueueTaken DEF NextToSend, Pending
<1>8. ASSUME PumpDone PROVE QueueInv'
  BY Zenon, <1>1, <1>8 DEF PumpDone, QueueInv
<1>9. ASSUME PumpSent PROVE QueueInv'
  BY Zenon, <1>9, QueueSent
<1>10. ASSUME PumpBlocked PROVE QueueInv'
  <2>1. PICK f \in picked : queues' = [queues EXCEPT ![f.class] = PutBack(@, f)]
    BY Zenon, <1>10 DEF PumpBlocked
  <2>2. /\ config' = config /\ sent' = sent /\ total' = total /\ alive' = alive
        /\ pumping' \in BOOLEAN /\ picked' = {}
    BY Zenon, <1>10 DEF PumpBlocked
  <2>3. QED
    BY Zenon, <2>1, <2>2, QueueReturned
<1>11. ASSUME PumpFails PROVE QueueInv'
  <2>1. /\ config' = config /\ sent' = sent /\ total' = total /\ picked' = {}
        /\ pumping' = FALSE /\ alive' = FALSE
        /\ \E f \in picked : Closed(f.ch) \/ queues' = queues
    BY Zenon, <1>11 DEF PumpFails
  <2>2. pumping' \in BOOLEAN /\ alive' \in BOOLEAN
    BY Zenon, <2>1
  <2>3. CASE \E f \in picked : Closed(f.ch)
    BY Zenon, <2>1, <2>2, <2>3, QueueClosed
  <2>4. CASE queues' = queues
    BY Zenon, <2>1, <2>2, <2>4, QueuePrime DEF QueueInv
  <2>5. QED
    BY Zenon, <2>1, <2>3, <2>4
<1>12. ASSUME Destroy PROVE QueueInv'
  BY Zenon, <1>1, <1>12 DEF Destroy, QueueInv
<1>13. ASSUME NEW l, LineReady(l) PROVE QueueInv'
  BY Zenon, <1>1, <1>13 DEF LineReady, QueueInv
<1>14. ASSUME NEW l, LineFull(l) PROVE QueueInv'
  BY Zenon, <1>1, <1>14 DEF LineFull, QueueInv
<1>15. CASE UNCHANGED vars
  BY Zenon, <1>1, <1>15 DEF vars, QueueInv
<1>16. QED
  BY Zenon, <1>2, <1>3, <1>4, <1>5, <1>6, <1>7, <1>8, <1>9, <1>10, <1>11, <1>12, <1>13, <1>14, <1>15,
     QueueControl, QueueBusiness DEF Next

=============================================================================
