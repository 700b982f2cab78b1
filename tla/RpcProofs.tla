------------------------------ MODULE RpcProofs ------------------------------
(***************************************************************************)
(* Proofs about RpcService: a call completes at most once at the client,   *)
(* and where a behaviour's requests fit the result cache the server gives  *)
(* one verdict per request, runs its handler at most once and never runs   *)
(* what it has reported as never run, for every set of calls, every number *)
(* of sessions and tasks and every limit.                                  *)
(***************************************************************************)
EXTENDS RpcService, FiniteSetTheorems, TLAPS

-----------------------------------------------------------------------------
(* The inductive invariant.                                                *)

Stage == {"queued", "started", "running", "posted", "removed", "finished"}

Task == [id : Ids, sess : Nat, stage : Stage, phase : {"open", "terminal"},
         stop : {"no", "requested"}, flag : {"no", "cancelled"}, ran : {"no", "yes"},
         result : Status \cup {"none"}]

Response == [id : Ids, status : Status]

Distinct(q) == \A m, n \in DOMAIN q : q[m] = q[n] => m = n

\* What a handler's absence is reported with.
NeverRun == {"rejected", "cancelled_early", "deadline_early"}

\* A task that no longer starts.
Over(t) == t.ran = "no" /\ t.stage \in {"removed", "posted", "finished"}

\* A call is done once its completion has run, and waits in the retry queue
\* exactly while its state says so; only the load's calls are ever made.
ClientInv ==
  /\ load \in Loads /\ up \subseteq {"c", "s"}
  /\ call \in [Ids -> {"new", "pending", "retry", "done"}]
  /\ completed \in [Ids -> {0, 1}]
  /\ outcome \in [Ids -> Status \cup {"none", "unknown", "not_admitted"}]
  /\ retry \in Seq(Ids) /\ Distinct(retry)
  /\ \A i \in Ids : /\ completed[i] = 1 => call[i] = "done"
                    /\ call[i] = "retry" <=> i \in Range(retry)
                    /\ call[i] # "new" => i \in load.ids

WireInv ==
  /\ requests \in Seq(load.ids) /\ cancels \in Seq(Ids) /\ responses \in Seq(Response)

\* A task runs only once it has started, and posts what it has done.
TaskSound(t) ==
  /\ t.stage \in {"queued", "started", "removed"} => t.ran = "no"
  /\ t.stage = "posted" => t.result \in Status /\ (t.result \in NeverRun => t.ran = "no")

\* The executing table and the open tasks of the session are the same, and
\* a request is executing or cached, never both.
ServerInv ==
  /\ session \in Nat
  /\ tasks \in Seq(Task)
  /\ executing \in [Ids -> 0 .. Len(tasks)]
  /\ cache \in [Ids -> Status \cup {"none"}]
  /\ answers \subseteq (0 .. session) \X Ids \X Status
  /\ \A n \in DOMAIN tasks :
       /\ TaskSound(tasks[n]) /\ tasks[n].sess <= session
       /\ tasks[n].phase = "open" /\ tasks[n].sess = session /\ "s" \in up => executing[tasks[n].id] = n
  /\ \A i \in Ids :
       /\ executing[i] # 0 =>
            /\ tasks[executing[i]].id = i /\ tasks[executing[i]].sess = session
            /\ tasks[executing[i]].phase = "open"
            /\ "s" \in up /\ cache[i] = "none" /\ i \in load.ids
       /\ cache[i] # "none" => i \in load.ids /\ <<session, i, cache[i]>> \in answers

\* Nothing that was answered is forgotten before the session ends.
VerdictInv ==
  /\ \A a \in answers : a[1] = session => cache[a[2]] = a[3]
  /\ OneVerdict
  /\ \A m, n \in DOMAIN tasks : tasks[m].id = tasks[n].id /\ tasks[m].sess = tasks[n].sess => m = n
  /\ \A n \in DOMAIN tasks :
       tasks[n].sess = session /\ "s" \in up
         => executing[tasks[n].id] = n \/ cache[tasks[n].id] # "none"
  /\ \A a \in answers : a[3] \in NeverRun =>
       \A n \in DOMAIN tasks : tasks[n].id = a[2] /\ tasks[n].sess = a[1] => Over(tasks[n])

RpcInv == ClientInv /\ WireInv /\ ServerInv /\ (CacheFits => VerdictInv)

-----------------------------------------------------------------------------
(* Induction.  Every non-empty family of subsets of a finite set has a     *)
(* minimal member; every non-empty set of naturals has a least one.        *)

\* A family of subsets of a finite set has a minimal member.
LEMMA MinimalSubset ==
  ASSUME NEW S, IsFiniteSet(S), NEW F, F \subseteq SUBSET S, F # {}
  PROVE  \E x \in F : \A y \in F : ~(y \subseteq x /\ y # x)
<1>1. IsWellFoundedOn(StrictSubsetOrdering(S), SUBSET S)
  BY Zenon, FS_StrictSubsetOrderingWellFounded, FS_FiniteSubsetsOfFinite
<1>2. \E x \in F : \A y \in F : ~(<<y, x>> \in StrictSubsetOrdering(S))
  BY Zenon, <1>1, WFMin
<1>3. QED
  BY Zenon, <1>2 DEF StrictSubsetOrdering

\* A set of naturals has a least member.
LEMMA LeastNatural ==
  ASSUME NEW T, T \subseteq Nat, T # {}
  PROVE  \E x \in T : \A y \in T : x <= y
<1>1. PICK n : n \in T /\ n \in Nat
  BY Zenon
<1> DEFINE Low == {k \in T : k <= n}
           N == 1 .. n
           F == {s \in SUBSET N : \E m \in Low : s = 1 .. m}
<1>2. IsFiniteSet(N)
  BY <1>1, FS_Interval
<1>3. N \in F
  BY <1>1
<1> HIDE DEF F, N
<1>4. PICK s \in F : \A y \in F : ~(y \subseteq s /\ y # s)
  <2>1. F \subseteq SUBSET N /\ F # {}
    BY Zenon, <1>3 DEF F
  <2>2. QED
    BY <2>1, <1>2, MinimalSubset
<1>5. PICK m \in T : m <= n /\ s = 1 .. m
  BY Zenon, <1>4 DEF F
<1>6. ASSUME NEW y \in T, y < m
      PROVE  FALSE
  <2>1. 1 .. y \in F
    BY <1>1, <1>5, <1>6 DEF F
  <2>2. 1 .. y \subseteq s /\ m \in s /\ m \notin 1 .. y
    BY <1>5, <1>6
  <2>3. QED
    BY Zenon, <2>1, <2>2, <1>4
<1>7. QED
  BY <1>5, <1>6

-----------------------------------------------------------------------------
(* Sequences: the order of the retry queue.                                *)

Ascending(q) == \A m, n \in DOMAIN q : m < n => q[m] < q[n]
Sortable(S) == \E q \in [1 .. Cardinality(S) -> S] : Ascending(q)

\* A finite set of numbers can be put in order.
LEMMA AllSortable ==
  ASSUME NEW S, S \subseteq Nat, IsFiniteSet(S)
  PROVE  Sortable(S)
<1> DEFINE Bad == {T \in SUBSET S : ~Sortable(T)}
<1>1. SUFFICES ASSUME Bad # {} PROVE FALSE
  BY Zenon
<1>2. Bad \subseteq SUBSET S
  BY Zenon
<1> HIDE DEF Bad
<1>3. PICK T \in Bad : \A U \in Bad : ~(U \subseteq T /\ U # T)
  BY ONLY IsFiniteSet(S), <1>1, <1>2, MinimalSubset
<1>4. T \subseteq Nat /\ ~Sortable(T) /\ IsFiniteSet(T) /\ T \subseteq S
  BY Zenon, <1>2, <1>3, FS_Subset DEF Bad
<1>5. T # {}
  <2>1. SUFFICES ASSUME T = {} PROVE Sortable(T)
    BY Zenon, <1>4
  <2>2. Cardinality(T) = 0
    BY Zenon, <2>1, FS_EmptySet
  <2>3. 1 .. Cardinality(T) = {}
    BY <2>2
  <2>4. [n \in {} |-> 0] \in [{} -> T] /\ Ascending([n \in {} |-> 0])
    BY Zenon DEF Ascending
  <2>5. QED
    BY <2>3, <2>4, Zenon DEF Sortable
<1>6. PICK x \in T : \A y \in T : x <= y
  BY Zenon, <1>4, <1>5, LeastNatural
<1> DEFINE U == T \ {x}
<1>7. U \subseteq T /\ U # T /\ U \in SUBSET S /\ U \notin Bad
  BY Zenon, <1>3, <1>4, <1>6
<1>8. Sortable(U)
  BY Zenon, <1>7 DEF Bad
<1>9. Cardinality(T) = Cardinality(U) + 1 /\ Cardinality(U) \in Nat
  <2>1. IsFiniteSet(U) /\ Cardinality(U) = Cardinality(T) - 1
    BY ONLY Zenon, <1>4, <1>6, FS_RemoveElement
  <2>2. Cardinality(T) \in Nat /\ Cardinality(U) \in Nat
    BY ONLY Zenon, <1>4, <2>1, FS_CardinalityType
  <2>3. QED
    BY <2>1, <2>2
<1>10. PICK q \in [1 .. Cardinality(U) -> U] : Ascending(q)
  BY Zenon, <1>8 DEF Sortable
<1> DEFINE N == Cardinality(U)
           r == [n \in 1 .. N + 1 |-> IF n = 1 THEN x ELSE q[n - 1]]
<1>11. N \in Nat /\ q \in [1 .. N -> U] /\ Cardinality(T) = N + 1
  BY Zenon, <1>9, <1>10
<1>12. U \subseteq T /\ \A y \in U : y \in Nat /\ x < y
  BY <1>4, <1>6
<1> HIDE DEF N, U
<1>13. \A n \in 1 .. N + 1 : n # 1 => n - 1 \in 1 .. N /\ r[n] = q[n - 1] /\ q[n - 1] \in U
  <2> SUFFICES ASSUME NEW n \in 1 .. N + 1, n # 1
               PROVE  n - 1 \in 1 .. N /\ r[n] = q[n - 1] /\ q[n - 1] \in U
    BY Zenon
  <2>1. n - 1 \in 1 .. N
    BY <1>11
  <2>2. r[n] = q[n - 1]
    BY Zenon
  <2>3. QED
    BY <2>1, <2>2, <1>11, Zenon
<1> HIDE DEF r
<1>15. r \in [1 .. N + 1 -> T] /\ r[1] = x
  <2>1. 1 \in 1 .. N + 1
    BY <1>11
  <2>2. r[1] = x /\ DOMAIN r = 1 .. N + 1 /\ r = [n \in 1 .. N + 1 |-> r[n]]
    BY Zenon, <2>1 DEF r
  <2>3. \A n \in 1 .. N + 1 : r[n] \in T
    BY <2>2, <1>6, <1>12, <1>13, Zenon
  <2>4. QED
    BY Zenon, <2>2, <2>3
<1>16. Ascending(r)
  <2> SUFFICES ASSUME NEW m \in 1 .. N + 1, NEW n \in 1 .. N + 1, m < n PROVE r[m] < r[n]
    BY Zenon, <1>15 DEF Ascending
  <2>1. n - 1 \in 1 .. N /\ r[n] = q[n - 1] /\ q[n - 1] \in U
    BY <1>11, <1>13
  <2>2. CASE m = 1
    BY Zenon, <2>1, <2>2, <1>12, <1>15
  <2>3. CASE m # 1
    <3>1. m - 1 \in 1 .. N /\ r[m] = q[m - 1] /\ m - 1 < n - 1
      BY <2>3, <1>11, <1>13
    <3>2. DOMAIN q = 1 .. N
      BY Zenon, <1>11
    <3>3. QED
      BY Zenon, <2>1, <3>1, <3>2, <1>10 DEF Ascending
  <2>4. QED
    BY Zenon, <2>2, <2>3
<1>17. QED
  BY Zenon, <1>4, <1>11, <1>15, <1>16 DEF Sortable

LEMMA InOrderSound ==
  ASSUME NEW S, S \subseteq Nat, IsFiniteSet(S)
  PROVE  /\ InOrder(S) \in Seq(S) /\ Len(InOrder(S)) = Cardinality(S) /\ Ascending(InOrder(S))
         /\ Distinct(InOrder(S)) /\ Range(InOrder(S)) = S
<1> DEFINE q == InOrder(S)
           N == Cardinality(S)
<1>1. N \in Nat
  BY Zenon, FS_CardinalityType
<1>2. q \in [1 .. N -> S] /\ Ascending(q)
  BY Zenon, AllSortable DEF Sortable, InOrder, Ascending
<1> HIDE DEF q, N
<1>3. \A m, n \in 1 .. N : q[m] = q[n] => m = n
  <2> SUFFICES ASSUME NEW m \in 1 .. N, NEW n \in 1 .. N, m < n PROVE q[m] # q[n]
    BY <1>1
  <2>1. q[m] < q[n] /\ q[m] \in Nat /\ q[n] \in Nat
    BY Zenon, <1>2 DEF Ascending
  <2>2. QED
    BY <2>1
<1>4. q \in Injection(1 .. N, S)
  BY Zenon, <1>2, <1>3 DEF Injection, IsInjective
<1>5. IsFiniteSet(1 .. N) /\ Cardinality(1 .. N) = N
  BY <1>1, FS_Interval
<1>6. q \in Surjection(1 .. N, S)
  BY Zenon, <1>4, <1>5, FS_Injection DEF N
<1>7. Range(q) = S
  BY Zenon, <1>2, <1>6 DEF Surjection, Range
<1>8. q \in Seq(S) /\ Len(q) = N
  BY <1>1, <1>2
<1>9. Distinct(q)
  BY Zenon, <1>2, <1>3 DEF Distinct
<1>10. QED
  BY Zenon, <1>2, <1>7, <1>8, <1>9 DEF q, N

LEMMA RangeIs ==
  ASSUME NEW S, NEW q \in Seq(S)
  PROVE  Range(q) = {q[n] : n \in 1 .. Len(q)} /\ Range(q) \subseteq S /\ DOMAIN q = 1 .. Len(q)
BY DEF Range

LEMMA SeqWiden ==
  ASSUME NEW S, NEW T, S \subseteq T, NEW q \in Seq(S)
  PROVE  q \in Seq(T)
<1>1. Len(q) \in Nat /\ q \in [1 .. Len(q) -> S]
  OBVIOUS
<1>2. q \in [1 .. Len(q) -> T]
  BY Zenon, <1>1
<1>3. QED
  BY <1>1, <1>2

\* Filtering the retry queue keeps its order and drops exactly what it should.
LEMMA WithoutSound ==
  ASSUME NEW S, NEW q \in Seq(S), Distinct(q), NEW out
  PROVE  /\ Without(q, out) \in Seq(S) /\ Distinct(Without(q, out))
         /\ Range(Without(q, out)) = Range(q) \ out
<1> DEFINE I == {n \in DOMAIN q : q[n] \notin out}
           k == InOrder(I)
           r == [n \in DOMAIN k |-> q[k[n]]]
<1>1. Len(q) \in Nat /\ DOMAIN q = 1 .. Len(q) /\ \A n \in DOMAIN q : q[n] \in S
  OBVIOUS
<1>2. I \subseteq Nat /\ IsFiniteSet(I) /\ I \subseteq DOMAIN q
  <2>1. IsFiniteSet(1 .. Len(q))
    BY <1>1, FS_Interval
  <2>2. I \subseteq 1 .. Len(q)
    BY Zenon, <1>1
  <2>3. QED
    BY <1>1, <2>1, <2>2, FS_Subset
<1>3. I \subseteq DOMAIN q /\ (\A n \in DOMAIN q : n \in I <=> q[n] \notin out)
  BY Zenon
<1> HIDE DEF I
<1>4. k \in Seq(I) /\ Distinct(k) /\ Range(k) = I
  BY Zenon, <1>2, InOrderSound
<1> HIDE DEF k
<1>5. Len(k) \in Nat /\ DOMAIN k = 1 .. Len(k) /\ \A n \in DOMAIN k : k[n] \in I
  BY <1>4
<1>6. Without(q, out) = r
  BY Zenon DEF Without, I, k
<1>7. r \in Seq(S)
  <2>1. \A n \in 1 .. Len(k) : q[k[n]] \in S
    BY Zenon, <1>1, <1>3, <1>5
  <2>2. QED
    BY <2>1, <1>5
<1>8. Distinct(r)
  BY Zenon, <1>3, <1>4, <1>5 DEF Distinct
<1>9. Range(r) = Range(q) \ out
  <2>1. ASSUME NEW n \in DOMAIN r PROVE r[n] \in Range(q) \ out
    BY Zenon, <1>3, <1>5 DEF Range
  <2>2. ASSUME NEW n \in DOMAIN q, q[n] \notin out PROVE \E m \in DOMAIN r : r[m] = q[n]
    <3>1. n \in Range(k)
      BY Zenon, <2>2, <1>3, <1>4
    <3>2. PICK m \in DOMAIN k : k[m] = n
      BY Zenon, <3>1 DEF Range
    <3>3. QED
      BY Zenon, <3>2
  <2>3. QED
    BY <2>1, <2>2 DEF Range
<1>10. QED
  BY Zenon, <1>6, <1>7, <1>8, <1>9

LEMMA TailOfDistinct ==
  ASSUME NEW S, NEW q \in Seq(S), Distinct(q), q # <<>>
  PROVE  /\ Tail(q) \in Seq(S) /\ Distinct(Tail(q)) /\ Head(q) \in Range(q) /\ Head(q) \in S
         /\ Range(Tail(q)) = Range(q) \ {Head(q)}
<1>1. /\ Len(q) \in Nat \ {0} /\ DOMAIN q = 1 .. Len(q) /\ \A n \in DOMAIN q : q[n] \in S
  OBVIOUS
<1>2. /\ Tail(q) \in Seq(S) /\ Len(Tail(q)) = Len(q) - 1 /\ Head(q) = q[1]
      /\ DOMAIN Tail(q) = 1 .. Len(q) - 1
      /\ \A n \in 1 .. Len(q) - 1 : Tail(q)[n] = q[n + 1]
  OBVIOUS
<1>3. Distinct(Tail(q))
  BY <1>1, <1>2 DEF Distinct
<1>4. ASSUME NEW n \in DOMAIN Tail(q) PROVE Tail(q)[n] \in Range(q) \ {Head(q)}
  <2>1. n + 1 \in DOMAIN q /\ 1 \in DOMAIN q /\ n + 1 # 1 /\ Tail(q)[n] = q[n + 1]
    BY <1>1, <1>2
  <2>2. QED
    BY Zenon, <2>1, <1>2 DEF Distinct, Range
<1>5. ASSUME NEW n \in DOMAIN q, q[n] # Head(q) PROVE \E m \in DOMAIN Tail(q) : Tail(q)[m] = q[n]
  <2>1. n - 1 \in DOMAIN Tail(q) /\ Tail(q)[n - 1] = q[n]
    BY <1>1, <1>2, <1>5
  <2>2. QED
    BY Zenon, <2>1
<1>6. Range(Tail(q)) = Range(q) \ {Head(q)}
  BY <1>4, <1>5 DEF Range
<1>7. 1 \in DOMAIN q /\ Head(q) = q[1] /\ q[1] \in S
  BY <1>1, <1>2
<1>8. Head(q) \in Range(q) /\ Head(q) \in S
  BY Zenon, <1>7 DEF Range
<1>9. QED
  BY Zenon, <1>2, <1>3, <1>6, <1>8

\* The calls kept when the oldest of a queue give way to the bound.
LEMMA NewestKept ==
  ASSUME NEW S, NEW q \in Seq(S), Distinct(q), NEW over \in 0 .. Len(q)
  PROVE  /\ SubSeq(q, over + 1, Len(q)) \in Seq(S) /\ Distinct(SubSeq(q, over + 1, Len(q)))
         /\ Range(SubSeq(q, over + 1, Len(q))) = Range(q) \ {q[n] : n \in 1 .. over}
<1> DEFINE r == SubSeq(q, over + 1, Len(q))
           N == Len(q)
<1>1. N \in Nat /\ DOMAIN q = 1 .. N /\ over \in Nat /\ over <= N /\ \A n \in 1 .. N : q[n] \in S
  OBVIOUS
<1>2. /\ r \in Seq(S) /\ Len(r) = N - over /\ DOMAIN r = 1 .. N - over
      /\ \A n \in 1 .. N - over : r[n] = q[n + over]
  <2>1. r = [n \in 1 .. N - over |-> q[n + over]]
    BY <1>1 DEF SubSeq
  <2>2. N - over \in Nat /\ \A n \in 1 .. N - over : q[n + over] \in S
    BY <1>1
  <2> HIDE DEF r, N
  <2>3. QED
    BY <2>1, <2>2
<1> HIDE DEF r, N
<1>3. Distinct(r)
  BY <1>1, <1>2 DEF Distinct
<1>4. ASSUME NEW n \in DOMAIN r PROVE r[n] \in Range(q) \ {q[m] : m \in 1 .. over}
  <2>1. n + over \in DOMAIN q /\ r[n] = q[n + over] /\ n + over > over
    BY <1>1, <1>2
  <2>2. \A m \in 1 .. over : m \in DOMAIN q /\ m # n + over
    BY <1>1, <2>1
  <2>3. QED
    BY Zenon, <2>1, <2>2 DEF Distinct, Range
<1>5. ASSUME NEW n \in DOMAIN q, q[n] \notin {q[m] : m \in 1 .. over}
      PROVE  \E m \in DOMAIN r : r[m] = q[n]
  <2>1. n \notin 1 .. over
    BY Zenon, <1>5
  <2>2. n - over \in DOMAIN r /\ r[n - over] = q[n]
    BY <2>1, <1>1, <1>2
  <2>3. QED
    BY Zenon, <2>2
<1>6. Range(r) = Range(q) \ {q[n] : n \in 1 .. over}
  BY Zenon, <1>4, <1>5 DEF Range
<1>7. QED
  BY Zenon, <1>2, <1>3, <1>6 DEF r, N

-----------------------------------------------------------------------------
(* The client: a completion runs as a call leaves the tables.              *)

Verdict == Status \cup {"none", "unknown", "not_admitted"}

\* The calls of S end, whichever step ends them, and leave the retry queue.
LEMMA ClientCompletes ==
  ASSUME ClientInv, load' = load, up' \subseteq {"c", "s"}, NEW S, NEW v \in Verdict,
         \A i \in S : i \in Ids /\ i \in load.ids /\ call[i] # "done",
         Complete(S, v),
         retry' \in Seq(Ids), Distinct(retry'), Range(retry') = Range(retry) \ S
  PROVE  ClientInv'
<1>1. call' \in [Ids -> {"new", "pending", "retry", "done"}]
  BY Zenon DEF ClientInv, Complete
<1>2. \A i \in S : completed[i] = 0
  BY Zenon DEF ClientInv
<1>3. completed' \in [Ids -> {0, 1}]
  BY <1>2 DEF ClientInv, Complete
<1>4. outcome' \in [Ids -> Verdict]
  BY Zenon DEF ClientInv, Complete, Verdict
<1>5. ASSUME NEW i \in Ids
      PROVE  /\ completed'[i] = 1 => call'[i] = "done"
             /\ call'[i] = "retry" <=> i \in Range(retry')
             /\ call'[i] # "new" => i \in load'.ids
  <2>1. CASE i \in S
    BY Zenon, <2>1 DEF Complete
  <2>2. CASE i \notin S
    BY Zenon, <2>2 DEF Complete, ClientInv
  <2>3. QED
    BY Zenon, <2>1, <2>2
<1>6. load' \in Loads
  BY Zenon DEF ClientInv
<1>7. QED
  BY Zenon, <1>1, <1>3, <1>4, <1>5, <1>6 DEF ClientInv, Verdict

\* A call is sent, for the first time or again.
LEMMA ClientSends ==
  ASSUME ClientInv, load' = load, up' = up, NEW i \in Ids, i \in load.ids, call[i] # "done",
         call' = [call EXCEPT ![i] = "pending"], UNCHANGED <<completed, outcome>>,
         retry' \in Seq(Ids), Distinct(retry'), Range(retry') = Range(retry) \ {i}
  PROVE  ClientInv'
<1>1. call' \in [Ids -> {"new", "pending", "retry", "done"}]
  BY Zenon DEF ClientInv
<1>2. ASSUME NEW j \in Ids
      PROVE  /\ completed'[j] = 1 => call'[j] = "done"
             /\ call'[j] = "retry" <=> j \in Range(retry')
             /\ call'[j] # "new" => j \in load'.ids
  <2>1. CASE j = i
    BY Zenon, <2>1 DEF ClientInv
  <2>2. CASE j # i
    BY Zenon, <2>2 DEF ClientInv
  <2>3. QED
    BY Zenon, <2>1, <2>2
<1>3. QED
  BY Zenon, <1>1, <1>2 DEF ClientInv

LEMMA ClientSubmits ==
  ASSUME ClientInv, load' = load, up' = up, NEW i \in Ids, i \in load.ids, call[i] # "done",
         SubmitCall(i),
         retry' \in Seq(Ids), Distinct(retry'), Range(retry') = Range(retry) \ {i}
  PROVE  ClientInv'
<1>1. CASE call' = [call EXCEPT ![i] = "pending"] /\ UNCHANGED <<completed, outcome>>
  BY Zenon, <1>1, ClientSends
<1>2. CASE Complete({i}, "not_admitted")
  <2>1. up' \subseteq {"c", "s"} /\ "not_admitted" \in Verdict
    BY Zenon DEF ClientInv, Verdict
  <2>2. \A j \in {i} : j \in Ids /\ j \in load.ids /\ call[j] # "done"
    BY Zenon
  <2>3. QED
    BY Zenon, <1>2, <2>1, <2>2, ClientCompletes
<1>3. QED
  BY Zenon, <1>1, <1>2 DEF SubmitCall

\* A session's end moves the retryable calls to the queue and ends the rest.
LEMMA ClientTorn ==
  ASSUME ClientInv, NEW gone, TearDown(gone), Range(retry) \subseteq gone,
         \A i \in gone : i \in Ids /\ i \in load.ids /\ call[i] \in {"new", "retry"}
  PROVE  ClientInv'
<1> DEFINE Q == (Pending \cap Retryable) \ gone
           queue == InOrder(Q)
           over == IF Len(queue) > RetryCap THEN Len(queue) - RetryCap ELSE 0
           old == {queue[n] : n \in 1 .. over}
           lost == (Pending \ Retryable) \cup old
<1>1. /\ retry' = SubSeq(queue, over + 1, Len(queue))
      /\ call' = [i \in Ids |-> IF i \in lost \cup gone THEN "done"
                                 ELSE IF i \in Pending THEN "retry" ELSE call[i]]
      /\ completed' = [i \in Ids |-> IF i \in lost THEN completed[i] + 1 ELSE completed[i]]
      /\ outcome' = [i \in Ids |-> IF i \in lost THEN "unknown" ELSE outcome[i]]
      /\ load' = load /\ up' = up \ {"c"}
  BY Zenon DEF TearDown
<1>2. Q \subseteq Ids /\ Q \subseteq Nat /\ IsFiniteSet(Q) /\ Q \subseteq Pending
  BY Zenon, RpcAssumption, FS_Subset DEF Pending
<1>3. gone \cap Pending = {}
  BY Zenon DEF Pending
<1>4. Q = (Pending \cap Retryable)
  BY Zenon, <1>3
<1> HIDE DEF Q
<1>5. queue \in Seq(Q) /\ Distinct(queue) /\ Range(queue) = Q
  BY Zenon, <1>2, InOrderSound
<1> HIDE DEF queue
<1>6. Len(queue) \in Nat /\ over \in 0 .. Len(queue)
  <2>1. Len(queue) \in Nat
    BY <1>5
  <2>2. QED
    BY <2>1, RpcAssumption
<1> HIDE DEF over
<1>7. retry' \in Seq(Q) /\ Distinct(retry') /\ Range(retry') = Q \ old
  BY <1>1, <1>5, <1>6, NewestKept
<1>8. old \subseteq Q
  BY <1>5, <1>6
<1> HIDE DEF old
<1>9. lost \subseteq Pending /\ Pending \ lost = Q \ old
  BY Zenon, <1>4, <1>8
<1> HIDE DEF lost
<1>10. retry' \in Seq(Ids)
  BY Zenon, <1>2, <1>7, SeqWiden
<1>11. \A i \in Pending : i \in Ids /\ call[i] = "pending" /\ completed[i] = 0 /\ i \in load.ids
  BY Zenon DEF ClientInv, Pending
<1>12. call' \in [Ids -> {"new", "pending", "retry", "done"}]
  BY Zenon, <1>1 DEF ClientInv
<1>13. completed' \in [Ids -> {0, 1}]
  BY <1>1, <1>9, <1>11 DEF ClientInv
<1>14. outcome' \in [Ids -> Status \cup {"none", "unknown", "not_admitted"}]
  BY Zenon, <1>1 DEF ClientInv
<1>15. ASSUME NEW i \in Ids
       PROVE  /\ completed'[i] = 1 => call'[i] = "done"
              /\ call'[i] = "retry" <=> i \in Range(retry')
              /\ call'[i] # "new" => i \in load'.ids
  <2>1. CASE i \in lost
    BY Zenon, <2>1, <1>1, <1>7, <1>9, <1>11
  <2>2. CASE i \in gone
    BY Zenon, <2>2, <1>1, <1>2, <1>3, <1>7, <1>9 DEF ClientInv
  <2>3. CASE i \notin lost \cup gone /\ i \in Pending
    BY <2>3, <1>1, <1>7, <1>9, <1>11
  <2>4. CASE i \notin lost \cup gone /\ i \notin Pending
    BY Zenon, <2>4, <1>1, <1>2, <1>7, <1>9 DEF ClientInv
  <2>5. QED
    BY Zenon, <2>1, <2>2, <2>3, <2>4
<1>16. load' \in Loads /\ up' \subseteq {"c", "s"}
  BY Zenon, <1>1 DEF ClientInv
<1>17. QED
  BY Zenon, <1>7, <1>10, <1>12, <1>13, <1>14, <1>15, <1>16 DEF ClientInv

LEMMA ClientStill ==
  ASSUME ClientInv, load' = load, UNCHANGED <<call, completed, outcome, retry>>, up' \subseteq {"c", "s"}
  PROVE  ClientInv'
BY Zenon DEF ClientInv

LEMMA EmptyQueue ==
  <<>> \in Seq(Ids) /\ Distinct(<<>>) /\ Range(<<>>) = {}
BY DEF Distinct, Range

LEMMA ClientInitially ==
  ASSUME Init
  PROVE  ClientInv
BY EmptyQueue DEF Init, ClientInv, Status

\* Each step of the client: what leaves the tables completes, once.
LEMMA ClientMoves ==
  ASSUME ClientInv, WireInv, ClientStep
  PROVE  ClientInv'
<1>1. /\ load \in Loads /\ up \subseteq {"c", "s"} /\ retry \in Seq(Ids) /\ Distinct(retry)
      /\ \A i \in Ids : call[i] = "retry" <=> i \in Range(retry)
  BY Zenon DEF ClientInv
<1>2. \A i \in Ids : call[i] # "new" => i \in load.ids
  BY Zenon DEF ClientInv
<1>3. Pending \subseteq Ids /\ \A i \in Pending : call[i] = "pending" /\ i \in load.ids /\ i \notin Range(retry)
  BY Zenon, <1>1, <1>2 DEF Pending
<1>4. Range(retry) \subseteq Ids /\ \A i \in Range(retry) : call[i] = "retry" /\ i \in load.ids
  BY Zenon, <1>1, <1>2, RangeIs
<1>5. load.ids \subseteq Ids
  BY Zenon, <1>1, RpcAssumption
<1>6. Status \subseteq Verdict /\ "unknown" \in Verdict
  BY Zenon DEF Verdict
<1>7. "cancelled" \in Verdict /\ "deadline" \in Verdict
  BY Zenon DEF Verdict, Status
<1>8. ASSUME NEW i \in Ids, Call(i) PROVE ClientInv'
  <2>1. /\ load' = load /\ up' = up /\ i \in load.ids /\ call[i] # "done" /\ SubmitCall(i) /\ retry' = retry
        /\ i \notin Range(retry)
    BY Zenon, <1>8, <1>1 DEF Call, sessionVars
  <2>2. retry' \in Seq(Ids) /\ Distinct(retry') /\ Range(retry') = Range(retry) \ {i}
    BY Zenon, <2>1, <1>1
  <2>3. QED
    BY Zenon, <2>1, <2>2, ClientSubmits
<1>9. ASSUME NEW S, NEW v \in Verdict, S \subseteq Pending, Complete(S, v), UNCHANGED <<load, up, retry>>
      PROVE  ClientInv'
  <2>1. \A i \in S : i \in Ids /\ i \in load.ids /\ call[i] # "done"
    BY Zenon, <1>9, <1>3
  <2>2. retry' \in Seq(Ids) /\ Distinct(retry') /\ Range(retry') = Range(retry) \ S
    BY Zenon, <1>9, <1>1, <1>3
  <2>3. load' = load /\ up' \subseteq {"c", "s"}
    BY Zenon, <1>9, <1>1
  <2>4. QED
    BY ONLY Zenon, ClientInv, v \in Verdict, <1>9, <2>1, <2>2, <2>3, ClientCompletes
<1>10. ASSUME NEW i \in Ids, Cancel(i) PROVE ClientInv'
  <2>1. {i} \subseteq Pending /\ Complete({i}, "cancelled") /\ UNCHANGED <<load, up, retry>>
    BY Zenon, <1>10 DEF Cancel, sessionVars
  <2>2. QED
    BY <2>1, <1>7, <1>9
<1>11. ASSUME NEW i \in Ids, DeadlinePasses(i) PROVE ClientInv'
  BY Zenon, <1>11, <1>1, ClientStill DEF DeadlinePasses, sessionVars
<1>12. ASSUME Resubmit PROVE ClientInv'
  <2> DEFINE i == Head(retry)
  <2>1. /\ load' = load /\ up' = up /\ retry # <<>> /\ retry' = Tail(retry)
        /\ Complete({i}, "unknown") \/ SubmitCall(i)
    BY Zenon, <1>12 DEF Resubmit, sessionVars
  <2>2. /\ retry' \in Seq(Ids) /\ Distinct(retry') /\ Range(retry') = Range(retry) \ {i}
        /\ i \in Range(retry) /\ i \in Ids
    BY Zenon, <2>1, <1>1, TailOfDistinct
  <2>3. i \in load.ids /\ call[i] # "done"
    BY Zenon, <2>2, <1>4
  <2> HIDE DEF i
  <2>4. CASE SubmitCall(i)
    BY Zenon, <2>1, <2>2, <2>3, <2>4, ClientSubmits
  <2>5. CASE Complete({i}, "unknown")
    <3>1. \A j \in {i} : j \in Ids /\ j \in load.ids /\ call[j] # "done"
      BY Zenon, <2>2, <2>3
    <3>2. load' = load /\ up' \subseteq {"c", "s"}
      BY Zenon, <2>1, <1>1
    <3>3. QED
      BY Zenon, <1>6, <2>2, <2>5, <3>1, <3>2, ClientCompletes
  <2>6. QED
    BY Zenon, <2>1, <2>4, <2>5
<1>13. ASSUME PruneRetry PROVE ClientInv'
  <2>1. /\ load' = load /\ up' = up /\ retry' = Without(retry, due) /\ Complete(TimedOut, "unknown")
    BY Zenon, <1>13 DEF PruneRetry, sessionVars
  <2>2. /\ retry' \in Seq(Ids) /\ Distinct(retry') /\ Range(retry') = Range(retry) \ due
    BY Zenon, <2>1, <1>1, WithoutSound
  <2>3. Range(retry') = Range(retry) \ TimedOut
    BY Zenon, <2>2 DEF TimedOut
  <2>4. \A j \in TimedOut : j \in Ids /\ j \in load.ids /\ call[j] # "done"
    BY Zenon, <1>4 DEF TimedOut
  <2>5. load' = load /\ up' \subseteq {"c", "s"}
    BY Zenon, <2>1, <1>1
  <2>6. QED
    BY Zenon, <1>6, <2>1, <2>2, <2>3, <2>4, <2>5, ClientCompletes
<1>14. ASSUME PruneClient PROVE ClientInv'
  <2>1. Expired \subseteq Pending /\ Complete(Expired, "deadline") /\ UNCHANGED <<load, up, retry>>
    BY Zenon, <1>14 DEF PruneClient, sessionVars, Expired
  <2>2. QED
    BY Zenon, <2>1, <1>7, <1>9
<1>15. ASSUME HandleResponse PROVE ClientInv'
  <2> DEFINE r == Head(responses)
             S == {r.id} \cap Pending
  <2>1. responses # <<>> /\ S \subseteq Pending /\ Complete(S, r.status) /\ UNCHANGED <<load, up, retry>>
    BY Zenon, <1>15 DEF HandleResponse, sessionVars
  <2>2. r \in Response
    BY <2>1 DEF WireInv
  <2>3. r.status \in Verdict
    BY Zenon, <2>2, <1>6 DEF Response
  <2> HIDE DEF S, r
  <2>4. QED
    BY Zenon, <2>1, <2>3, <1>9
<1>16. ASSUME TearDownClient PROVE ClientInv'
  <2>1. TearDown({}) /\ Range(retry) \subseteq {}
    BY Zenon, <1>16, EmptyQueue DEF TearDownClient
  <2>2. \A i \in {} : i \in Ids /\ i \in load.ids /\ call[i] \in {"new", "retry"}
    BY Zenon
  <2>3. QED
    BY Zenon, <2>1, <2>2, ClientTorn
<1>17. ASSUME SendClosesSession PROVE ClientInv'
  <2>1. CASE retry = <<>> /\ \E i \in load.ids : call[i] = "new" /\ TearDown({i})
    <3>1. PICK i \in load.ids : call[i] = "new" /\ TearDown({i})
      BY Zenon, <2>1
    <3>2. Range(retry) \subseteq {i} /\ \A j \in {i} : j \in Ids /\ j \in load.ids /\ call[j] \in {"new", "retry"}
      BY Zenon, <2>1, <3>1, <1>5, EmptyQueue
    <3>3. QED
      BY Zenon, <3>1, <3>2, ClientTorn
  <2>2. CASE retry = <<>> /\ TearDown({})
    <3>1. Range(retry) \subseteq {} /\ \A i \in {} : i \in Ids /\ i \in load.ids /\ call[i] \in {"new", "retry"}
      BY Zenon, <2>2, EmptyQueue
    <3>2. QED
      BY Zenon, <2>2, <3>1, ClientTorn
  <2>3. CASE TearDown(Range(retry))
    <3>1. \A i \in Range(retry) : i \in Ids /\ i \in load.ids /\ call[i] \in {"new", "retry"}
      BY Zenon, <1>4
    <3>2. QED
      BY Zenon, <2>3, <3>1, ClientTorn
  <2>4. QED
    BY Zenon, <1>17, <2>1, <2>2, <2>3 DEF SendClosesSession
<1>18. ASSUME Shutdown PROVE ClientInv'
  <2> DEFINE S == Pending \cup Range(retry)
  <2>1. load' = load /\ up' \subseteq {"c", "s"} /\ Complete(S, "unknown") /\ retry' = <<>>
    BY Zenon, <1>18, <1>1 DEF Shutdown
  <2>2. \A i \in S : i \in Ids /\ i \in load.ids /\ call[i] # "done"
    BY Zenon, <1>3, <1>4
  <2>3. Range(retry') = Range(retry) \ S /\ retry' \in Seq(Ids) /\ Distinct(retry')
    BY Zenon, <2>1, EmptyQueue
  <2> HIDE DEF S
  <2>4. QED
    BY Zenon, <2>1, <2>2, <2>3, <1>6, ClientCompletes
<1>19. QED
  BY Zenon, <1>8, <1>10, <1>11, <1>12, <1>13, <1>14, <1>15, <1>16, <1>17, <1>18 DEF ClientStep

\* The other steps leave the client's calls alone.
LEMMA ClientNext ==
  ASSUME ClientInv, WireInv, [Next]_vars
  PROVE  ClientInv'
<1>1. CASE ClientStep
  BY Zenon, <1>1, ClientMoves
<1>2. up \subseteq {"c", "s"}
  BY Zenon DEF ClientInv
<1>3. CASE ServerStep
  BY Zenon, <1>3, <1>2, ClientStill DEF ServerStep, HandleRequest, HandleCancel, TearDownServer,
     PruneExecuting, FinishServerCall, sessionVars, clientVars
<1>4. CASE ExecutorStep
  BY Zenon, <1>4, <1>2, ClientStill DEF ExecutorStep, TaskBegin, TaskCheck, TaskReturn, sessionVars, clientVars
<1>5. CASE Connect \/ LinkLost \/ \E i \in Ids : SendAgain(i)
  BY Zenon, <1>5, <1>2, ClientStill DEF Connect, LinkLost, SendAgain, sessionVars, clientVars
<1>6. CASE UNCHANGED vars
  BY Zenon, <1>6, <1>2, ClientStill DEF vars, sessionVars, clientVars
<1>7. QED
  BY Zenon, <1>1, <1>3, <1>4, <1>5, <1>6 DEF Next

-----------------------------------------------------------------------------
(* The server: what one step does to a task, to the result cache and to    *)
(* the responses on their way.                                             *)

\* A step of a task: it stays the task of its request, and stays over.
Moves(t, u) ==
  u \in Task /\ TaskSound(u) /\ u.id = t.id /\ u.sess = t.sess /\ (Over(t) => Over(u))

\* Every task makes a step or stays as it is.
TasksMove ==
  /\ tasks' \in Seq(Task) /\ Len(tasks') = Len(tasks) /\ DOMAIN tasks' = DOMAIN tasks
  /\ \A n \in DOMAIN tasks : Moves(tasks[n], tasks'[n])

LEMMA MovesNot ==
  ASSUME NEW t \in Task, TaskSound(t)
  PROVE  Moves(t, t)
BY Zenon DEF Moves

LEMMA OneMoves ==
  ASSUME tasks \in Seq(Task), \A m \in DOMAIN tasks : TaskSound(tasks[m]),
         NEW n \in DOMAIN tasks, NEW u, Moves(tasks[n], u), tasks' = [tasks EXCEPT ![n] = u]
  PROVE  TasksMove /\ tasks'[n] = u /\ \A m \in DOMAIN tasks : m # n => tasks'[m] = tasks[m]
<1>1. u \in Task
  BY Zenon DEF Moves
<1>2. /\ tasks' \in Seq(Task) /\ Len(tasks') = Len(tasks) /\ DOMAIN tasks' = DOMAIN tasks
      /\ tasks'[n] = u /\ \A m \in DOMAIN tasks : tasks[m] \in Task /\ (m # n => tasks'[m] = tasks[m])
  BY <1>1
<1>3. ASSUME NEW m \in DOMAIN tasks PROVE Moves(tasks[m], tasks'[m])
  BY Zenon, <1>2, MovesNot
<1>4. QED
  BY Zenon, <1>2, <1>3 DEF TasksMove

\* An executor's answer to a cancel, with the flag and the phase set or not.
LEMMA StoppedMoves ==
  ASSUME NEW t \in Task, TaskSound(t)
  PROVE  /\ Moves(t, Stopped(t)) /\ Stopped(t).phase = t.phase
         /\ t.stage = "queued" => Over(Stopped(t))
<1>1. CASE t.stage = "queued"
  BY Zenon, <1>1 DEF Stopped, Moves, Task, TaskSound, Over, Stage
<1>2. CASE t.stage \in {"started", "running"}
  BY Zenon, <1>2 DEF Stopped, Moves, Task, TaskSound, Over, Stage
<1>3. CASE t.stage \notin {"queued", "started", "running"}
  BY Zenon, <1>3 DEF Stopped, Moves, Task, TaskSound, Over, Stage
<1>4. QED
  BY Zenon, <1>1, <1>2, <1>3

LEMMA FlaggedMoves ==
  ASSUME NEW t \in Task, TaskSound(t)
  PROVE  /\ Moves(t, [t EXCEPT !.flag = "cancelled"])
         /\ [t EXCEPT !.flag = "cancelled"].phase = t.phase
         /\ [t EXCEPT !.flag = "cancelled"].stage = t.stage
BY Zenon DEF Moves, Task, TaskSound, Over

LEMMA TerminalMoves ==
  ASSUME NEW t \in Task, TaskSound(t)
  PROVE  /\ Moves(t, [t EXCEPT !.phase = "terminal"])
         /\ [t EXCEPT !.phase = "terminal"].phase = "terminal"
         /\ Over(t) => Over([t EXCEPT !.phase = "terminal"])
BY Zenon DEF Moves, Task, TaskSound, Over

LEMMA MovesOn ==
  ASSUME NEW t, NEW u, NEW w, Moves(t, u), Moves(u, w)
  PROVE  Moves(t, w)
BY Zenon DEF Moves

LEMMA BeginMoves ==
  ASSUME NEW t \in Task, TaskSound(t), t.stage = "queued"
  PROVE  Moves(t, [t EXCEPT !.stage = "started"]) /\ [t EXCEPT !.stage = "started"].phase = t.phase
BY Zenon DEF Moves, Task, TaskSound, Over, Stage

LEMMA CheckMoves ==
  ASSUME NEW t \in Task, TaskSound(t), t.stage = "started"
  PROVE  /\ Moves(t, [t EXCEPT !.stage = "removed"]) /\ [t EXCEPT !.stage = "removed"].phase = t.phase
         /\ \A r \in {"cancelled", "deadline_early"} : Moves(t, Post(t, r)) /\ Post(t, r).phase = t.phase
         /\ Moves(t, [t EXCEPT !.stage = "running", !.ran = "yes"])
         /\ [t EXCEPT !.stage = "running", !.ran = "yes"].phase = t.phase
<1>1. t.ran = "no" /\ ~Over(t)
  BY Zenon DEF TaskSound, Over
<1>2. Moves(t, [t EXCEPT !.stage = "removed"]) /\ [t EXCEPT !.stage = "removed"].phase = t.phase
  BY Zenon, <1>1 DEF Moves, Task, TaskSound, Stage
<1>3. ASSUME NEW r \in {"cancelled", "deadline_early"} PROVE Moves(t, Post(t, r)) /\ Post(t, r).phase = t.phase
  BY Zenon, <1>1 DEF Post, Moves, Task, TaskSound, Stage, Status
<1>4. /\ Moves(t, [t EXCEPT !.stage = "running", !.ran = "yes"])
      /\ [t EXCEPT !.stage = "running", !.ran = "yes"].phase = t.phase
  BY Zenon, <1>1 DEF Moves, Task, TaskSound, Stage
<1>5. QED
  BY Zenon, <1>2, <1>3, <1>4

LEMMA ReturnMoves ==
  ASSUME NEW t \in Task, TaskSound(t), t.stage = "running", NEW r \in {"ok", "cancelled"}
  PROVE  Moves(t, Post(t, r)) /\ Post(t, r).phase = t.phase
<1>1. ~Over(t) /\ r \in Status /\ r \notin NeverRun
  BY Zenon DEF Over, Status, NeverRun
<1>2. QED
  BY Zenon, <1>1 DEF Post, Moves, Task, TaskSound, Stage

LEMMA FinishMoves ==
  ASSUME NEW t \in Task, TaskSound(t), t.stage = "posted"
  PROVE  /\ Moves(t, [t EXCEPT !.stage = "finished"]) /\ [t EXCEPT !.stage = "finished"].phase = t.phase
         /\ t.result \in Status /\ (t.result \in NeverRun => Over([t EXCEPT !.stage = "finished"]))
BY Zenon DEF Moves, Task, TaskSound, Over, Stage

\* Making room may drop one cached answer, and drops none when all fit.
LEMMA CacheResultIs ==
  ASSUME cache \in [Ids -> Status \cup {"none"}], NEW i \in Ids, NEW status \in Status,
         CacheResult(i, status)
  PROVE  /\ cache' \in [Ids -> Status \cup {"none"}] /\ cache'[i] = status
         /\ \A j \in Ids : j # i => cache'[j] \in {cache[j], "none"}
<1> DEFINE room == IF Cardinality(Cached) >= CacheSize THEN [cache EXCEPT ![Min(Cached)] = "none"]
                                                       ELSE cache
<1>1. cache' = [room EXCEPT ![i] = status]
  BY Zenon DEF CacheResult
<1>2. room \in [Ids -> Status \cup {"none"}] /\ \A j \in Ids : room[j] \in {cache[j], "none"}
  <2>1. CASE Cardinality(Cached) >= CacheSize
    <3> DEFINE k == Min(Cached)
    <3>1. room = [cache EXCEPT ![k] = "none"]
      BY Zenon, <2>1
    <3> HIDE DEF k, room
    <3>2. QED
      BY Zenon, <3>1
  <2>2. CASE ~(Cardinality(Cached) >= CacheSize)
    BY Zenon, <2>2
  <2>3. QED
    BY Zenon, <2>1, <2>2
<1> HIDE DEF room
<1>3. QED
  BY Zenon, <1>1, <1>2

LEMMA CacheKeeps ==
  ASSUME load \in Loads, CacheFits, NEW i \in Ids, i \in load.ids, NEW status, CacheResult(i, status),
         cache[i] = "none", \A j \in Ids : cache[j] # "none" => j \in load.ids
  PROVE  cache' = [cache EXCEPT ![i] = status]
<1>1. load.ids \subseteq Ids /\ IsFiniteSet(load.ids)
  BY Zenon, RpcAssumption, FS_Subset
<1>2. Cached \subseteq load.ids /\ Cached # load.ids
  BY Zenon DEF Cached
<1>3. /\ Cardinality(Cached) < Cardinality(load.ids) /\ Cardinality(Cached) \in Nat
      /\ Cardinality(load.ids) \in Nat
  BY ONLY <1>1, <1>2, FS_Subset, FS_CardinalityType
<1>4. ~(Cardinality(Cached) >= CacheSize)
  BY <1>3, RpcAssumption DEF CacheFits
<1>5. QED
  BY Zenon, <1>4 DEF CacheResult

-----------------------------------------------------------------------------
(* The server: its tables agree, and each request has one verdict.         *)

LEMMA ServerTypes ==
  ASSUME ServerInv
  PROVE  /\ session \in Nat /\ tasks \in Seq(Task) /\ Len(tasks) \in Nat /\ DOMAIN tasks = 1 .. Len(tasks)
         /\ executing \in [Ids -> 0 .. Len(tasks)] /\ cache \in [Ids -> Status \cup {"none"}]
         /\ \A i \in Ids : executing[i] # 0 => executing[i] \in DOMAIN tasks
         /\ \A n \in DOMAIN tasks : tasks[n] \in Task /\ tasks[n].id \in Ids /\ tasks[n].sess \in Nat
                                     /\ TaskSound(tasks[n])
<1>1. /\ session \in Nat /\ tasks \in Seq(Task) /\ executing \in [Ids -> 0 .. Len(tasks)]
      /\ cache \in [Ids -> Status \cup {"none"}] /\ \A n \in DOMAIN tasks : TaskSound(tasks[n])
  BY Zenon DEF ServerInv
<1>2. Len(tasks) \in Nat /\ DOMAIN tasks = 1 .. Len(tasks) /\ \A n \in DOMAIN tasks : tasks[n] \in Task
  BY <1>1
<1>3. \A n \in DOMAIN tasks : tasks[n].id \in Ids /\ tasks[n].sess \in Nat
  BY Zenon, <1>2 DEF Task
<1>4. \A i \in Ids : executing[i] # 0 => executing[i] \in DOMAIN tasks
  BY <1>1, <1>2
<1>5. QED
  BY Zenon, <1>1, <1>2, <1>3, <1>4

LEMMA AnswerForm ==
  ASSUME ServerInv, NEW a \in answers
  PROVE  a = <<a[1], a[2], a[3]>> /\ a[1] \in 0 .. session /\ a[2] \in Ids /\ a[3] \in Status
BY DEF ServerInv

\* Tasks make steps of their own and nothing is answered.
LEMMA ServerMoves ==
  ASSUME ServerInv, TasksMove, \A n \in DOMAIN tasks : tasks'[n].phase = tasks[n].phase,
         UNCHANGED <<session, load, executing, cache, answers>>, ("s" \in up') <=> ("s" \in up)
  PROVE  ServerInv' /\ (VerdictInv => VerdictInv')
<1>1. /\ tasks' \in Seq(Task) /\ Len(tasks') = Len(tasks) /\ DOMAIN tasks' = DOMAIN tasks
      /\ \A n \in DOMAIN tasks : /\ tasks'[n].id = tasks[n].id /\ tasks'[n].sess = tasks[n].sess
                                  /\ TaskSound(tasks'[n]) /\ (Over(tasks[n]) => Over(tasks'[n]))
  BY Zenon DEF TasksMove, Moves
<1>2. \A i \in Ids : executing[i] # 0 => executing[i] \in DOMAIN tasks
  BY Zenon, ServerTypes
<1>3. ServerInv'
  <2>1. \A n \in DOMAIN tasks' :
          /\ TaskSound(tasks'[n]) /\ tasks'[n].sess <= session'
          /\ tasks'[n].phase = "open" /\ tasks'[n].sess = session' /\ "s" \in up' => executing'[tasks'[n].id] = n
    BY <1>1 DEF ServerInv
  <2>2. \A i \in Ids :
          /\ executing'[i] # 0 =>
               /\ tasks'[executing'[i]].id = i /\ tasks'[executing'[i]].sess = session'
               /\ tasks'[executing'[i]].phase = "open"
               /\ "s" \in up' /\ cache'[i] = "none" /\ i \in load'.ids
          /\ cache'[i] # "none" => i \in load'.ids /\ <<session', i, cache'[i]>> \in answers'
    BY <1>1, <1>2 DEF ServerInv
  <2>3. QED
    BY Zenon, <1>1, <2>1, <2>2 DEF ServerInv
<1>4. ASSUME VerdictInv PROVE VerdictInv'
  <2>1. /\ \A a \in answers' : a[1] = session' => cache'[a[2]] = a[3]
        /\ OneVerdict'
    BY Zenon, <1>4 DEF VerdictInv, OneVerdict
  <2>2. /\ \A m, n \in DOMAIN tasks' : tasks'[m].id = tasks'[n].id /\ tasks'[m].sess = tasks'[n].sess => m = n
    BY Zenon, <1>1, <1>4 DEF VerdictInv
  <2>3. \A n \in DOMAIN tasks' : tasks'[n].sess = session' /\ "s" \in up'
            => executing'[tasks'[n].id] = n \/ cache'[tasks'[n].id] # "none"
    BY Zenon, <1>1, <1>4 DEF VerdictInv
  <2>4. \A a \in answers' : a[3] \in NeverRun =>
          \A n \in DOMAIN tasks' : tasks'[n].id = a[2] /\ tasks'[n].sess = a[1] => Over(tasks'[n])
    BY <1>1, <1>4 DEF VerdictInv
  <2>5. QED
    BY Zenon, <2>1, <2>2, <2>3, <2>4 DEF VerdictInv
<1>5. QED
  BY Zenon, <1>3, <1>4

\* One answer more, to a request of the session that had none.
LEMMA VerdictAdds ==
  ASSUME ServerInv, VerdictInv, NEW i \in Ids, NEW status \in Status, cache[i] = "none",
         session' = session, cache' = [cache EXCEPT ![i] = status],
         answers' = answers \cup {<<session, i, status>>}
  PROVE  /\ \A a \in answers' : a[1] = session' => cache'[a[2]] = a[3]
         /\ OneVerdict'
         /\ \A a \in answers : a[1] # session \/ a[2] # i
<1>1. cache \in [Ids -> Status \cup {"none"}]
  BY Zenon, ServerTypes
<1>2. \A a \in answers : a[2] \in Ids /\ a[3] \in Status /\ a[3] # "none" /\ (a[1] = session => cache[a[2]] = a[3])
  BY Zenon, AnswerForm DEF VerdictInv, Status
<1>3. \A a \in answers : a[1] # session \/ a[2] # i
  BY Zenon, <1>2
<1>4. cache'[i] = status /\ \A j \in Ids : j # i => cache'[j] = cache[j]
  BY Zenon, <1>1
<1>5. ASSUME NEW a \in answers', a[1] = session' PROVE cache'[a[2]] = a[3]
  BY <1>2, <1>3, <1>4, <1>5
<1>6. OneVerdict'
  <2>1. SUFFICES ASSUME NEW a \in answers', NEW b \in answers', a[1] = b[1], a[2] = b[2] PROVE a[3] = b[3]
    BY Zenon DEF OneVerdict
  <2>2. CASE a \in answers /\ b \in answers
    BY Zenon, <2>1, <2>2 DEF VerdictInv, OneVerdict
  <2>3. CASE a \notin answers \/ b \notin answers
    BY <2>1, <2>3, <1>3
  <2>4. QED
    BY Zenon, <2>2, <2>3
<1>7. QED
  BY Zenon, <1>3, <1>5, <1>6

\* answer of an executing request: by its result, a cancel or its deadline.
LEMMA ServerAnswers ==
  ASSUME ServerInv, load \in Loads, NEW i \in Ids, executing[i] # 0, NEW status \in Status, TasksMove,
         \A m \in DOMAIN tasks : m # executing[i] => tasks'[m].phase = tasks[m].phase,
         tasks'[executing[i]].phase = "terminal",
         status \in NeverRun => Over(tasks'[executing[i]]),
         executing' = [executing EXCEPT ![i] = 0], CacheResult(i, status),
         answers' = answers \cup {<<session, i, status>>}, UNCHANGED <<session, load, up>>
  PROVE  ServerInv' /\ (CacheFits /\ VerdictInv => VerdictInv')
<1> DEFINE k == executing[i]
<1>1. /\ tasks' \in Seq(Task) /\ Len(tasks') = Len(tasks) /\ DOMAIN tasks' = DOMAIN tasks
      /\ \A n \in DOMAIN tasks : /\ tasks'[n].id = tasks[n].id /\ tasks'[n].sess = tasks[n].sess
                                  /\ TaskSound(tasks'[n]) /\ (Over(tasks[n]) => Over(tasks'[n]))
  BY Zenon DEF TasksMove, Moves
<1>2. /\ k \in DOMAIN tasks /\ tasks[k].id = i /\ tasks[k].sess = session
      /\ "s" \in up /\ cache[i] = "none" /\ i \in load.ids
  BY Zenon, ServerTypes DEF ServerInv
<1>3. /\ cache' \in [Ids -> Status \cup {"none"}] /\ cache'[i] = status
      /\ \A j \in Ids : j # i => cache'[j] \in {cache[j], "none"}
  BY Zenon, ServerTypes, CacheResultIs
<1>4. /\ executing' \in [Ids -> 0 .. Len(tasks')] /\ executing'[i] = 0
      /\ \A j \in Ids : j # i => executing'[j] = executing[j]
  <2>1. executing \in [Ids -> 0 .. Len(tasks)] /\ Len(tasks) \in Nat
    BY Zenon, ServerTypes
  <2>2. Len(tasks') = Len(tasks)
    BY Zenon, <1>1
  <2>3. executing' \in [Ids -> 0 .. Len(tasks)]
    BY ONLY <2>1, executing' = [executing EXCEPT ![i] = 0], i \in Ids
  <2>4. QED
    BY ONLY Zenon, <2>1, <2>2, <2>3, executing' = [executing EXCEPT ![i] = 0], i \in Ids
<1>5. \A n \in DOMAIN tasks : tasks[n].id \in Ids
  BY Zenon, ServerTypes
<1>6. ServerInv'
  <2>1. ASSUME NEW n \in DOMAIN tasks'
        PROVE  /\ TaskSound(tasks'[n]) /\ tasks'[n].sess <= session'
               /\ tasks'[n].phase = "open" /\ tasks'[n].sess = session' /\ "s" \in up' => executing'[tasks'[n].id] = n
    <3>1. CASE n = k
      BY Zenon, <3>1, <1>1, <1>2 DEF ServerInv
    <3>2. CASE n # k
      <4>1. tasks'[n].phase = tasks[n].phase /\ tasks'[n].id = tasks[n].id /\ tasks'[n].sess = tasks[n].sess
        BY Zenon, <3>2, <1>1
      <4>2. tasks[n].phase = "open" /\ tasks[n].sess = session /\ "s" \in up => executing[tasks[n].id] = n
        BY Zenon, <1>1 DEF ServerInv
      <4>3. tasks[n].id = i => executing[tasks[n].id] # n
        BY Zenon, <3>2
      <4>4. tasks[n].sess <= session
        BY Zenon, <1>1 DEF ServerInv
      <4>5. QED
        BY Zenon, <1>1, <1>4, <1>5, <4>1, <4>2, <4>3, <4>4
    <3>3. QED
      BY Zenon, <3>1, <3>2
  <2>2. ASSUME NEW j \in Ids
        PROVE  /\ executing'[j] # 0 =>
                    /\ tasks'[executing'[j]].id = j /\ tasks'[executing'[j]].sess = session'
                    /\ tasks'[executing'[j]].phase = "open"
                    /\ "s" \in up' /\ cache'[j] = "none" /\ j \in load'.ids
               /\ cache'[j] # "none" => j \in load'.ids /\ <<session', j, cache'[j]>> \in answers'
    <3>1. CASE j = i
      BY Zenon, <3>1, <1>2, <1>3, <1>4
    <3>2. CASE j # i
      <4>1. executing'[j] = executing[j] /\ cache'[j] \in {cache[j], "none"}
        BY Zenon, <3>2, <1>3, <1>4
      <4>2. executing[j] # 0 =>
              /\ executing[j] \in DOMAIN tasks
              /\ tasks[executing[j]].id = j /\ tasks[executing[j]].sess = session
              /\ tasks[executing[j]].phase = "open" /\ "s" \in up /\ cache[j] = "none" /\ j \in load.ids
        BY Zenon, ServerTypes DEF ServerInv
      <4>3. executing[j] # 0 => executing[j] # k
        BY Zenon, <3>2, <4>2, <1>2
      <4>4. cache[j] # "none" => j \in load.ids /\ <<session, j, cache[j]>> \in answers
        BY Zenon DEF ServerInv
      <4>5. QED
        BY Zenon, <1>1, <4>1, <4>2, <4>3, <4>4
    <3>3. QED
      BY Zenon, <3>1, <3>2
  <2>3. answers' \subseteq (0 .. session') \X Ids \X Status
    BY DEF ServerInv
  <2>4. QED
    BY Zenon, <1>1, <1>3, <1>4, <2>1, <2>2, <2>3 DEF ServerInv
<1>7. ASSUME CacheFits, VerdictInv PROVE VerdictInv'
  <2>1. cache' = [cache EXCEPT ![i] = status]
    <3>1. \A j \in Ids : cache[j] # "none" => j \in load.ids
      BY Zenon DEF ServerInv
    <3>2. QED
      BY Zenon, <1>2, <1>7, <3>1, CacheKeeps
  <2>2. /\ \A a \in answers' : a[1] = session' => cache'[a[2]] = a[3]
        /\ OneVerdict'
        /\ \A a \in answers : a[1] # session \/ a[2] # i
    BY Zenon, <1>2, <1>7, <2>1, VerdictAdds
  <2>3. \A m, n \in DOMAIN tasks' : tasks'[m].id = tasks'[n].id /\ tasks'[m].sess = tasks'[n].sess => m = n
    BY Zenon, <1>1, <1>7 DEF VerdictInv
  <2>4. ASSUME NEW n \in DOMAIN tasks', tasks'[n].sess = session', "s" \in up'
        PROVE  executing'[tasks'[n].id] = n \/ cache'[tasks'[n].id] # "none"
    <3>1. executing[tasks[n].id] = n \/ cache[tasks[n].id] # "none"
      BY Zenon, <2>4, <1>1, <1>7 DEF VerdictInv
    <3>2. cache'[i] # "none" /\ \A j \in Ids : j # i => cache'[j] = cache[j]
      BY Zenon, <1>3, <2>1, ServerTypes DEF Status
    <3>3. QED
      BY Zenon, <1>1, <1>4, <1>5, <3>1, <3>2
  <2>5. ASSUME NEW a \in answers', a[3] \in NeverRun, NEW n \in DOMAIN tasks',
               tasks'[n].id = a[2], tasks'[n].sess = a[1]
        PROVE  Over(tasks'[n])
    <3>1. CASE a \in answers
      BY <2>5, <3>1, <1>1, <1>7 DEF VerdictInv
    <3>2. CASE a = <<session, i, status>>
      <4>1. n = k
        BY Zenon, <2>5, <3>2, <1>1, <1>2, <1>7 DEF VerdictInv
      <4>2. status \in NeverRun
        BY Zenon, <2>5, <3>2
      <4>3. QED
        BY Zenon, <4>1, <4>2
    <3>3. QED
      BY Zenon, <3>1, <3>2
  <2>6. QED
    BY Zenon, <2>2, <2>3, <2>4, <2>5 DEF VerdictInv
<1>8. QED
  BY Zenon, <1>6, <1>7

\* Without an answer and an executing entry a request has no task of its session.
LEMMA NoTaskYet ==
  ASSUME ServerInv, VerdictInv, "s" \in up, NEW i \in Ids, cache[i] = "none", executing[i] = 0
  PROVE  \A n \in DOMAIN tasks : tasks[n].id # i \/ tasks[n].sess # session
<1>1. \A n \in DOMAIN tasks : n # 0
  BY ServerTypes
<1>2. QED
  BY Zenon, <1>1 DEF VerdictInv

\* answer_offline of a request refused at a gate.
LEMMA ServerRefuses ==
  ASSUME ServerInv, load \in Loads, "s" \in up, NEW i \in Ids, i \in load.ids,
         cache[i] = "none", executing[i] = 0, NEW status \in Status, CacheResult(i, status),
         answers' = answers \cup {<<session, i, status>>}, UNCHANGED <<session, load, up, executing, tasks>>
  PROVE  ServerInv' /\ (CacheFits /\ VerdictInv => VerdictInv')
<1>1. /\ cache' \in [Ids -> Status \cup {"none"}] /\ cache'[i] = status
      /\ \A j \in Ids : j # i => cache'[j] \in {cache[j], "none"}
  BY Zenon, ServerTypes, CacheResultIs
<1>2. ServerInv'
  <2>1. ASSUME NEW j \in Ids
        PROVE  /\ executing'[j] # 0 =>
                    /\ tasks'[executing'[j]].id = j /\ tasks'[executing'[j]].sess = session'
                    /\ tasks'[executing'[j]].phase = "open"
                    /\ "s" \in up' /\ cache'[j] = "none" /\ j \in load'.ids
               /\ cache'[j] # "none" => j \in load'.ids /\ <<session', j, cache'[j]>> \in answers'
    <3>1. CASE j = i
      BY Zenon, <3>1, <1>1
    <3>2. CASE j # i
      BY Zenon, <3>2, <1>1 DEF ServerInv
    <3>3. QED
      BY Zenon, <3>1, <3>2
  <2>2. answers' \subseteq (0 .. session') \X Ids \X Status
    BY DEF ServerInv
  <2>3. QED
    BY Zenon, <1>1, <2>1, <2>2 DEF ServerInv
<1>3. ASSUME CacheFits, VerdictInv PROVE VerdictInv'
  <2>1. cache' = [cache EXCEPT ![i] = status]
    <3>1. \A j \in Ids : cache[j] # "none" => j \in load.ids
      BY Zenon DEF ServerInv
    <3>2. QED
      BY Zenon, <1>3, <3>1, CacheKeeps
  <2>2. /\ \A a \in answers' : a[1] = session' => cache'[a[2]] = a[3]
        /\ OneVerdict'
    BY Zenon, <1>3, <2>1, VerdictAdds
  <2>3. \A n \in DOMAIN tasks : tasks[n].id # i \/ tasks[n].sess # session
    BY Zenon, <1>3, NoTaskYet
  <2>4. \A m, n \in DOMAIN tasks' : tasks'[m].id = tasks'[n].id /\ tasks'[m].sess = tasks'[n].sess => m = n
    BY Zenon, <1>3 DEF VerdictInv
  <2>5. ASSUME NEW n \in DOMAIN tasks', tasks'[n].sess = session', "s" \in up'
        PROVE  executing'[tasks'[n].id] = n \/ cache'[tasks'[n].id] # "none"
    <3>1. tasks[n].id \in Ids /\ tasks[n].id # i
      BY Zenon, <2>3, <2>5, ServerTypes
    <3>2. cache'[tasks[n].id] = cache[tasks[n].id]
      BY Zenon, <2>1, <3>1, ServerTypes
    <3>3. QED
      BY Zenon, <1>3, <2>5, <3>2 DEF VerdictInv
  <2>6. ASSUME NEW a \in answers', a[3] \in NeverRun, NEW n \in DOMAIN tasks',
               tasks'[n].id = a[2], tasks'[n].sess = a[1]
        PROVE  Over(tasks'[n])
    <3>1. a # <<session, i, status>>
      BY <2>3, <2>6
    <3>2. a \in answers
      BY Zenon, <3>1
    <3>3. QED
      BY Zenon, <3>2, <2>6, <1>3 DEF VerdictInv
  <2>7. QED
    BY Zenon, <2>2, <2>4, <2>5, <2>6 DEF VerdictInv
<1>4. QED
  BY Zenon, <1>2, <1>3

\* start_server_call: the one task of its request in this session.
LEMMA ServerStarts ==
  ASSUME ServerInv, "s" \in up, NEW i \in Ids, i \in load.ids, cache[i] = "none", executing[i] = 0,
         StartServerCall(i), UNCHANGED <<session, load, up>>
  PROVE  ServerInv' /\ (VerdictInv => VerdictInv')
<1> DEFINE k == Len(tasks) + 1
           t == NewTask(i)
<1>1. /\ t \in Task /\ TaskSound(t) /\ t.id = i /\ t.sess = session /\ t.phase = "open"
  BY Zenon, ServerTypes DEF NewTask, Task, TaskSound, Stage
<1> HIDE DEF t
<1>2. /\ tasks \in Seq(Task) /\ Len(tasks) \in Nat /\ DOMAIN tasks = 1 .. Len(tasks) /\ session \in Nat
      /\ executing \in [Ids -> 0 .. Len(tasks)]
  BY Zenon, ServerTypes
<1>3. /\ tasks' = Append(tasks, t) /\ executing' = [executing EXCEPT ![i] = k]
      /\ cache' = cache /\ answers' = answers
  BY Zenon DEF StartServerCall, t
<1>4. /\ tasks' \in Seq(Task) /\ Len(tasks') = k /\ DOMAIN tasks' = 1 .. k /\ tasks'[k] = t
      /\ \A n \in DOMAIN tasks : tasks'[n] = tasks[n]
  BY <1>1, <1>2, <1>3
<1>5. /\ k \notin DOMAIN tasks /\ k \in Nat /\ k # 0 /\ \A n \in DOMAIN tasks' : n \in DOMAIN tasks \/ n = k
  BY <1>2, <1>4
<1>6. /\ executing' \in [Ids -> 0 .. Len(tasks')] /\ executing'[i] = k
      /\ \A j \in Ids : j # i => executing'[j] = executing[j]
  BY <1>2, <1>3, <1>4
<1>7. \A j \in Ids : executing[j] # 0 => executing[j] \in DOMAIN tasks
  BY Zenon, ServerTypes
<1>8. \A n \in DOMAIN tasks : tasks[n].id \in Ids /\ n # 0
  BY ServerTypes
<1> HIDE DEF k
<1>9. ServerInv'
  <2>1. ASSUME NEW n \in DOMAIN tasks'
        PROVE  /\ TaskSound(tasks'[n]) /\ tasks'[n].sess <= session'
               /\ tasks'[n].phase = "open" /\ tasks'[n].sess = session' /\ "s" \in up' => executing'[tasks'[n].id] = n
    <3>1. CASE n = k
      BY <3>1, <1>1, <1>2, <1>4, <1>6
    <3>2. CASE n \in DOMAIN tasks
      <4>1. tasks[n].phase = "open" /\ tasks[n].sess = session /\ "s" \in up => executing[tasks[n].id] = n
        BY Zenon, <3>2 DEF ServerInv
      <4>2. tasks[n].id = i => executing[tasks[n].id] # n
        BY Zenon, <3>2, <1>8
      <4>3. TaskSound(tasks[n]) /\ tasks[n].sess <= session
        BY Zenon, <3>2 DEF ServerInv
      <4>4. QED
        BY Zenon, <3>2, <1>4, <1>6, <1>8, <4>1, <4>2, <4>3
    <3>3. QED
      BY Zenon, <1>5, <3>1, <3>2
  <2>2. ASSUME NEW j \in Ids
        PROVE  /\ executing'[j] # 0 =>
                    /\ tasks'[executing'[j]].id = j /\ tasks'[executing'[j]].sess = session'
                    /\ tasks'[executing'[j]].phase = "open"
                    /\ "s" \in up' /\ cache'[j] = "none" /\ j \in load'.ids
               /\ cache'[j] # "none" => j \in load'.ids /\ <<session', j, cache'[j]>> \in answers'
    <3>1. CASE j = i
      BY Zenon, <3>1, <1>1, <1>3, <1>4, <1>6
    <3>2. CASE j # i
      <4>1. executing'[j] = executing[j]
        BY Zenon, <3>2, <1>6
      <4>2. executing[j] # 0 =>
              /\ tasks[executing[j]].id = j /\ tasks[executing[j]].sess = session
              /\ tasks[executing[j]].phase = "open" /\ "s" \in up /\ cache[j] = "none" /\ j \in load.ids
        BY Zenon DEF ServerInv
      <4>3. cache[j] # "none" => j \in load.ids /\ <<session, j, cache[j]>> \in answers
        BY Zenon DEF ServerInv
      <4>4. QED
        BY Zenon, <1>3, <1>4, <1>7, <4>1, <4>2, <4>3
    <3>3. QED
      BY Zenon, <3>1, <3>2
  <2>3. cache' \in [Ids -> Status \cup {"none"}] /\ answers' \subseteq (0 .. session') \X Ids \X Status
    BY Zenon, <1>3 DEF ServerInv
  <2>4. QED
    BY Zenon, <1>2, <1>4, <1>6, <2>1, <2>2, <2>3 DEF ServerInv
<1>10. ASSUME VerdictInv PROVE VerdictInv'
  <2>1. \A n \in DOMAIN tasks : tasks[n].id # i \/ tasks[n].sess # session
    BY Zenon, <1>10, NoTaskYet
  <2>2. \A a \in answers : a[1] # session \/ a[2] # i
    <3>1. \A a \in answers : a[3] # "none"
      BY Zenon, AnswerForm DEF Status
    <3>2. QED
      BY Zenon, <1>10, <3>1 DEF VerdictInv
  <2>3. (\A a \in answers' : a[1] = session' => cache'[a[2]] = a[3]) /\ OneVerdict'
    BY Zenon, <1>3, <1>10 DEF VerdictInv, OneVerdict
  <2>4. \A m, n \in DOMAIN tasks' : tasks'[m].id = tasks'[n].id /\ tasks'[m].sess = tasks'[n].sess => m = n
    BY <1>1, <1>4, <1>5, <1>10, <2>1 DEF VerdictInv
  <2>5. ASSUME NEW n \in DOMAIN tasks', tasks'[n].sess = session', "s" \in up'
        PROVE  executing'[tasks'[n].id] = n \/ cache'[tasks'[n].id] # "none"
    <3>1. CASE n = k
      BY Zenon, <3>1, <1>1, <1>4, <1>6
    <3>2. CASE n \in DOMAIN tasks
      <4>1. executing[tasks[n].id] = n \/ cache[tasks[n].id] # "none"
        BY Zenon, <3>2, <2>5, <1>4, <1>10 DEF VerdictInv
      <4>2. QED
        BY Zenon, <3>2, <4>1, <1>3, <1>4, <1>6, <1>8, <2>1, <2>5
    <3>3. QED
      BY Zenon, <1>5, <3>1, <3>2
  <2>6. ASSUME NEW a \in answers', a[3] \in NeverRun, NEW n \in DOMAIN tasks',
               tasks'[n].id = a[2], tasks'[n].sess = a[1]
        PROVE  Over(tasks'[n])
    <3>1. n # k
      BY <2>2, <2>6, <1>1, <1>3, <1>4
    <3>2. n \in DOMAIN tasks /\ tasks'[n] = tasks[n]
      BY Zenon, <3>1, <1>4, <1>5
    <3>3. QED
      BY Zenon, <3>2, <2>6, <1>3, <1>10 DEF VerdictInv
  <2>7. QED
    BY Zenon, <2>3, <2>4, <2>5, <2>6 DEF VerdictInv
<1>11. QED
  BY Zenon, <1>9, <1>10

\* handle_session_closed: what is executing ends with its session.
LEMMA ServerTorn ==
  ASSUME ServerInv, TearDownServer
  PROVE  ServerInv' /\ (VerdictInv => VerdictInv')
<1>1. /\ tasks \in Seq(Task) /\ Len(tasks) \in Nat /\ DOMAIN tasks = 1 .. Len(tasks)
      /\ \A n \in DOMAIN tasks : tasks[n] \in Task /\ TaskSound(tasks[n])
  BY Zenon, ServerTypes
<1> DEFINE u(n) == IF n \in Range(executing) THEN Stopped([tasks[n] EXCEPT !.phase = "terminal"]) ELSE tasks[n]
<1>2. ASSUME NEW n \in DOMAIN tasks PROVE Moves(tasks[n], u(n)) /\ u(n) \in Task
  <2> DEFINE t == [tasks[n] EXCEPT !.phase = "terminal"]
  <2>1. Moves(tasks[n], t) /\ t \in Task /\ TaskSound(t)
    BY Zenon, <1>1, <1>2, TerminalMoves DEF Moves
  <2> HIDE DEF t
  <2>2. Moves(t, Stopped(t))
    BY Zenon, <2>1, StoppedMoves
  <2>3. Moves(tasks[n], Stopped(t)) /\ Moves(tasks[n], tasks[n])
    BY Zenon, <2>1, <2>2, <1>1, <1>2, MovesOn, MovesNot
  <2>4. Moves(tasks[n], u(n))
    BY Zenon, <2>3 DEF t
  <2>5. QED
    BY Zenon, <2>4 DEF Moves
<1>3. tasks' = [n \in DOMAIN tasks |-> u(n)] /\ executing' = [i \in Ids |-> 0]
      /\ UNCHANGED <<load, session, cache, answers>> /\ "s" \notin up'
  BY Zenon DEF TearDownServer
<1> HIDE DEF u
<1>4. /\ tasks' \in Seq(Task) /\ Len(tasks') = Len(tasks) /\ DOMAIN tasks' = DOMAIN tasks
      /\ \A n \in DOMAIN tasks : tasks'[n] = u(n)
  BY <1>1, <1>2, <1>3
<1>5. \A n \in DOMAIN tasks : /\ tasks'[n].id = tasks[n].id /\ tasks'[n].sess = tasks[n].sess
                              /\ TaskSound(tasks'[n]) /\ (Over(tasks[n]) => Over(tasks'[n]))
  BY Zenon, <1>2, <1>4 DEF Moves
<1>6. executing' \in [Ids -> 0 .. Len(tasks')] /\ \A i \in Ids : executing'[i] = 0
  BY <1>1, <1>3, <1>4
<1>7. ServerInv'
  BY <1>3, <1>4, <1>5, <1>6 DEF ServerInv
<1>8. ASSUME VerdictInv PROVE VerdictInv'
  <2>1. (\A a \in answers' : a[1] = session' => cache'[a[2]] = a[3]) /\ OneVerdict'
    BY Zenon, <1>3, <1>8 DEF VerdictInv, OneVerdict
  <2>2. \A m, n \in DOMAIN tasks' : tasks'[m].id = tasks'[n].id /\ tasks'[m].sess = tasks'[n].sess => m = n
    BY Zenon, <1>4, <1>5, <1>8 DEF VerdictInv
  <2>3. ASSUME NEW a \in answers', a[3] \in NeverRun, NEW n \in DOMAIN tasks',
               tasks'[n].id = a[2], tasks'[n].sess = a[1]
        PROVE  Over(tasks'[n])
    <3>1. a \in answers /\ n \in DOMAIN tasks /\ tasks[n].id = a[2] /\ tasks[n].sess = a[1]
      BY Zenon, <1>3, <1>4, <1>5, <2>3
    <3>2. Over(tasks[n])
      BY Zenon, <1>8, <2>3, <3>1 DEF VerdictInv
    <3>3. QED
      BY Zenon, <1>5, <3>1, <3>2
  <2>4. QED
    BY Zenon, <1>3, <2>1, <2>2, <2>3 DEF VerdictInv
<1>9. QED
  BY Zenon, <1>7, <1>8

\* A new session starts with an empty cache and nothing executing.
LEMMA ServerConnects ==
  ASSUME ServerInv, Connect
  PROVE  ServerInv' /\ (VerdictInv => VerdictInv')
<1>1. /\ session' = session + 1 /\ cache' = [i \in Ids |-> "none"] /\ up = {}
      /\ UNCHANGED <<load, executing, tasks, answers>>
  BY Zenon DEF Connect, serverVars
<1>2. /\ session \in Nat /\ session' \in Nat /\ \A n \in DOMAIN tasks : tasks[n].sess \in Nat
      /\ \A n \in DOMAIN tasks : tasks[n].sess <= session' /\ tasks[n].sess # session'
  <2>1. /\ session \in Nat /\ \A n \in DOMAIN tasks : tasks[n].sess \in Nat /\ tasks[n].sess <= session
    BY Zenon, ServerTypes DEF ServerInv
  <2>2. QED
    BY <1>1, <2>1
<1>3. \A a \in answers : a[1] # session' /\ a[1] \in 0 .. session'
  BY <1>1, <1>2, AnswerForm
<1>4. \A i \in Ids : executing[i] = 0
  BY Zenon, <1>1 DEF ServerInv
<1>5. ServerInv'
  <2>1. \A n \in DOMAIN tasks' :
          /\ TaskSound(tasks'[n]) /\ tasks'[n].sess <= session'
          /\ tasks'[n].phase = "open" /\ tasks'[n].sess = session' /\ "s" \in up' => executing'[tasks'[n].id] = n
    BY Zenon, <1>1, <1>2 DEF ServerInv
  <2>2. answers' \subseteq (0 .. session') \X Ids \X Status
    <3>1. ASSUME NEW a \in answers PROVE a \in (0 .. session') \X Ids \X Status
      BY <1>3, AnswerForm
    <3>2. QED
      BY Zenon, <1>1, <3>1
  <2>3. cache' \in [Ids -> Status \cup {"none"}] /\ \A i \in Ids : cache'[i] = "none"
    BY Zenon, <1>1
  <2>4. QED
    BY Zenon, <1>1, <1>2, <1>4, <2>1, <2>2, <2>3 DEF ServerInv
<1>6. ASSUME VerdictInv PROVE VerdictInv'
  BY Zenon, <1>1, <1>2, <1>3, <1>6 DEF VerdictInv, OneVerdict
<1>7. QED
  BY Zenon, <1>5, <1>6

\* Steps that leave the server's tables alone.
LEMMA ServerStill ==
  ASSUME ServerInv, UNCHANGED <<session, load, executing, tasks, cache, answers>>,
         ("s" \in up') <=> ("s" \in up)
  PROVE  ServerInv' /\ (VerdictInv => VerdictInv')
<1>1. TasksMove /\ \A n \in DOMAIN tasks : tasks'[n].phase = tasks[n].phase
  <2>1. /\ tasks \in Seq(Task) /\ \A n \in DOMAIN tasks : tasks[n] \in Task /\ TaskSound(tasks[n])
    BY Zenon, ServerTypes
  <2>2. \A n \in DOMAIN tasks : Moves(tasks[n], tasks'[n])
    BY Zenon, <2>1, MovesNot
  <2>3. QED
    BY Zenon, <2>1, <2>2 DEF TasksMove
<1>2. QED
  BY Zenon, <1>1, ServerMoves

\* A task makes one step on its own.
LEMMA ServerTask ==
  ASSUME ServerInv, NEW n \in DOMAIN tasks, NEW u, Moves(tasks[n], u), u.phase = tasks[n].phase,
         tasks' = [tasks EXCEPT ![n] = u], UNCHANGED <<session, load, up, executing, cache, answers>>
  PROVE  ServerInv' /\ (VerdictInv => VerdictInv')
<1>1. tasks \in Seq(Task) /\ \A m \in DOMAIN tasks : TaskSound(tasks[m])
  BY Zenon, ServerTypes
<1>2. TasksMove /\ tasks'[n] = u /\ \A m \in DOMAIN tasks : m # n => tasks'[m] = tasks[m]
  BY Zenon, <1>1, OneMoves
<1>3. \A m \in DOMAIN tasks : tasks'[m].phase = tasks[m].phase
  BY Zenon, <1>2
<1>4. QED
  BY Zenon, <1>2, <1>3, ServerMoves

\* answer, with the caller's change u of the task it answers.
LEMMA ServerAnswered ==
  ASSUME ServerInv, load \in Loads, NEW n \in DOMAIN tasks, executing[tasks[n].id] = n,
         NEW status \in Status, NEW u, Moves(tasks[n], u), status \in NeverRun => Over(u),
         Answer(n, status, [tasks EXCEPT ![n] = u]), UNCHANGED <<session, load, up>>
  PROVE  ServerInv' /\ (CacheFits /\ VerdictInv => VerdictInv')
<1> DEFINE w == [u EXCEPT !.phase = "terminal"]
           q == [tasks EXCEPT ![n] = u]
           i == tasks[n].id
<1>1. /\ tasks \in Seq(Task) /\ DOMAIN tasks = 1 .. Len(tasks) /\ Len(tasks) \in Nat
      /\ \A m \in DOMAIN tasks : TaskSound(tasks[m])
  BY Zenon, ServerTypes
<1>2. u \in Task /\ TaskSound(u)
  BY Zenon DEF Moves
<1>3. Moves(tasks[n], w) /\ w.phase = "terminal" /\ (Over(u) => Over(w))
  BY Zenon, <1>2, TerminalMoves, MovesOn
<1>4. tasks' = [tasks EXCEPT ![n] = w]
  <2>1. tasks' = [q EXCEPT ![n] = [q[n] EXCEPT !.phase = "terminal"]]
    BY Zenon DEF Answer
  <2>2. q[n] = u
    BY Zenon, <1>1
  <2>3. QED
    BY Zenon, <2>1, <2>2, <1>1
<1> HIDE DEF w
<1>5. TasksMove /\ tasks'[n] = w /\ \A m \in DOMAIN tasks : m # n => tasks'[m] = tasks[m]
  BY Zenon, <1>1, <1>3, <1>4, OneMoves
<1>6. /\ executing' = [executing EXCEPT ![i] = 0] /\ CacheResult(i, status)
      /\ answers' = answers \cup {<<session, i, status>>}
  BY Zenon DEF Answer, Respond
<1>7. i \in Ids /\ n # 0
  BY ServerTypes
<1> HIDE DEF i, q
<1>8. executing[i] = n
  BY Zenon DEF i
<1>9. /\ \A m \in DOMAIN tasks : m # executing[i] => tasks'[m].phase = tasks[m].phase
      /\ tasks'[executing[i]].phase = "terminal" /\ (status \in NeverRun => Over(tasks'[executing[i]]))
      /\ executing[i] # 0
  BY Zenon, <1>3, <1>5, <1>7, <1>8
<1>10. QED
  BY Zenon, <1>5, <1>6, <1>7, <1>9, ServerAnswers

-----------------------------------------------------------------------------
(* The server's steps.                                                     *)

LEMMA RequestKnown ==
  ASSUME ClientInv, WireInv, requests # <<>>
  PROVE  Head(requests) \in load.ids /\ Head(requests) \in Ids
BY RpcAssumption DEF ClientInv, WireInv

\* handle_request, for each of the ways it can go.
LEMMA ServerRequest ==
  ASSUME ClientInv, WireInv, ServerInv, HandleRequest
  PROVE  ServerInv' /\ (CacheFits /\ VerdictInv => VerdictInv')
<1> DEFINE i == Head(requests)
<1>1. i \in load.ids /\ i \in Ids
  BY Zenon, RequestKnown DEF HandleRequest
<1>2. "s" \in up /\ Request(i) /\ UNCHANGED <<session, load, up>> /\ load \in Loads
  BY Zenon DEF HandleRequest, sessionVars, ClientInv
<1> HIDE DEF i
<1>3. CASE cache[i] # "none" /\ Respond(i, cache[i]) /\ UNCHANGED <<executing, tasks, cache>>
  <2>1. answers' = answers
    BY <1>1, <1>3 DEF Respond, ServerInv
  <2>2. QED
    BY Zenon, <1>2, <1>3, <2>1, ServerStill
<1>4. CASE UNCHANGED serverVars
  BY Zenon, <1>2, <1>4, ServerStill DEF serverVars
<1>5. CASE cache[i] = "none" /\ i \notin Executing /\ AnswerOffline(i, "rejected")
  <2>1. executing[i] = 0 /\ "rejected" \in Status
    BY Zenon, <1>1, <1>5 DEF Executing, Status
  <2>2. /\ CacheResult(i, "rejected") /\ answers' = answers \cup {<<session, i, "rejected">>}
        /\ UNCHANGED <<session, load, up, executing, tasks>>
    BY Zenon, <1>2, <1>5 DEF AnswerOffline, Respond
  <2>3. QED
    BY Zenon, <1>1, <1>2, <1>5, <2>1, <2>2, ServerRefuses
<1>6. CASE cache[i] = "none" /\ i \notin Executing /\ StartServerCall(i)
  <2>1. executing[i] = 0
    BY Zenon, <1>1, <1>6 DEF Executing
  <2>2. QED
    BY Zenon, <1>1, <1>2, <1>6, <2>1, ServerStarts
<1>7. QED
  BY Zenon, <1>2, <1>3, <1>4, <1>5, <1>6 DEF Request

\* handle_cancel of a request executing or not, started or not.
LEMMA ServerCancel ==
  ASSUME ClientInv, WireInv, ServerInv, HandleCancel
  PROVE  ServerInv' /\ (CacheFits /\ VerdictInv => VerdictInv')
<1> DEFINE n == executing[Head(cancels)]
           f == [tasks[n] EXCEPT !.flag = "cancelled"]
           flagged == [tasks EXCEPT ![n] = Stopped(f)]
<1>1. Head(cancels) \in Ids
  BY DEF HandleCancel, WireInv
<1>2. UNCHANGED <<session, load, up>> /\ load \in Loads
  BY Zenon DEF HandleCancel, sessionVars, ClientInv
<1>3. CASE n = 0
  <2>1. UNCHANGED <<executing, tasks, cache, answers>>
    BY Zenon, <1>3 DEF HandleCancel, serverVars
  <2>2. QED
    BY Zenon, <1>2, <2>1, ServerStill
<1>4. CASE n # 0
  <2>1. n \in DOMAIN tasks /\ tasks[n] \in Task /\ TaskSound(tasks[n]) /\ executing[tasks[n].id] = n
    BY Zenon, <1>1, <1>4, ServerTypes DEF ServerInv
  <2>2. Moves(tasks[n], f) /\ f \in Task /\ TaskSound(f) /\ f.phase = tasks[n].phase /\ f.stage = tasks[n].stage
    BY Zenon, <2>1, FlaggedMoves DEF Moves
  <2>3. /\ tasks[n].stage = "queued" => Answer(n, "cancelled_early", flagged)
        /\ tasks[n].stage # "queued" => tasks' = flagged /\ UNCHANGED <<executing, cache, answers>>
    <3>1. IF n = 0 THEN UNCHANGED <<responses, serverVars>>
          ELSE IF tasks[n].stage = "queued" THEN Answer(n, "cancelled_early", flagged)
          ELSE tasks' = flagged /\ UNCHANGED <<responses, executing, cache, answers>>
      BY Zenon DEF HandleCancel
    <3> HIDE DEF flagged, n
    <3>2. QED
      BY Zenon, <1>4, <3>1
  <2> HIDE DEF f
  <2>4. /\ Moves(tasks[n], Stopped(f)) /\ Stopped(f).phase = tasks[n].phase
        /\ tasks[n].stage = "queued" => Over(Stopped(f))
    BY Zenon, <2>2, StoppedMoves, MovesOn
  <2> HIDE DEF n
  <2>5. CASE tasks[n].stage = "queued"
    <3>1. "cancelled_early" \in Status
      BY Zenon DEF Status
    <3>2. QED
      BY Zenon, <1>2, <2>1, <2>3, <2>4, <2>5, <3>1, ServerAnswered
  <2>6. CASE tasks[n].stage # "queued"
    BY Zenon, <1>2, <2>1, <2>3, <2>4, <2>6, ServerTask
  <2>7. QED
    BY Zenon, <2>5, <2>6
<1>5. QED
  BY Zenon, <1>3, <1>4

\* prune_executing_deadlines.
LEMMA ServerPrune ==
  ASSUME ClientInv, ServerInv, NEW i \in Ids, PruneExecuting(i)
  PROVE  ServerInv' /\ (CacheFits /\ VerdictInv => VerdictInv')
<1> DEFINE n == executing[i]
<1>1. /\ UNCHANGED <<session, load, up>> /\ load \in Loads /\ n # 0
      /\ Answer(n, "deadline", [tasks EXCEPT ![n] = Stopped(tasks[n])])
  BY Zenon DEF PruneExecuting, Executing, sessionVars, ClientInv
<1>2. n \in DOMAIN tasks /\ tasks[n] \in Task /\ TaskSound(tasks[n]) /\ executing[tasks[n].id] = n
  BY Zenon, <1>1, ServerTypes DEF ServerInv
<1> HIDE DEF n
<1>3. Moves(tasks[n], Stopped(tasks[n])) /\ "deadline" \in Status /\ "deadline" \notin NeverRun
  BY Zenon, <1>2, StoppedMoves DEF Status, NeverRun
<1>4. QED
  BY Zenon, <1>1, <1>2, <1>3, ServerAnswered

\* finish_server_call: the result answers, unless something else has.
LEMMA ServerFinish ==
  ASSUME ClientInv, ServerInv, NEW n \in DOMAIN tasks, FinishServerCall(n)
  PROVE  ServerInv' /\ (CacheFits /\ VerdictInv => VerdictInv')
<1> DEFINE u == [tasks[n] EXCEPT !.stage = "finished"]
           done == [tasks EXCEPT ![n] = u]
<1>1. /\ UNCHANGED <<session, load, up>> /\ load \in Loads /\ tasks[n].stage = "posted"
      /\ \/ Late(n) /\ tasks' = done /\ UNCHANGED <<executing, cache, answers>>
         \/ ~Late(n) /\ Answer(n, tasks[n].result, done)
  BY Zenon DEF FinishServerCall, sessionVars, ClientInv
<1>2. tasks[n] \in Task /\ TaskSound(tasks[n])
  BY Zenon, ServerTypes
<1>3. /\ Moves(tasks[n], u) /\ u.phase = tasks[n].phase /\ tasks[n].result \in Status
      /\ (tasks[n].result \in NeverRun => Over(u))
  BY Zenon, <1>1, <1>2, FinishMoves
<1> HIDE DEF u
<1>4. CASE Late(n) /\ tasks' = done /\ UNCHANGED <<executing, cache, answers>>
  BY Zenon, <1>1, <1>3, <1>4, ServerTask
<1>5. CASE ~Late(n) /\ Answer(n, tasks[n].result, done)
  <2>1. tasks[n].phase = "open" /\ tasks[n].sess = session /\ "s" \in up
    BY Zenon, <1>2, <1>5 DEF Late, Task
  <2>2. executing[tasks[n].id] = n
    BY Zenon, <2>1 DEF ServerInv
  <2>3. QED
    BY Zenon, <1>1, <1>3, <1>5, <2>2, ServerAnswered
<1>6. QED
  BY Zenon, <1>1, <1>4, <1>5

\* The steps of the executor's threads.
LEMMA ServerExecutes ==
  ASSUME ServerInv, ExecutorStep
  PROVE  ServerInv' /\ (VerdictInv => VerdictInv')
<1>1. PICK n \in DOMAIN tasks : TaskBegin(n) \/ TaskCheck(n) \/ TaskReturn(n)
  BY Zenon DEF ExecutorStep
<1>2. tasks[n] \in Task /\ TaskSound(tasks[n])
  BY Zenon, ServerTypes
<1>3. UNCHANGED <<session, load, up, executing, cache, answers>>
  BY Zenon, <1>1 DEF TaskBegin, TaskCheck, TaskReturn, sessionVars
<1>4. SUFFICES \E u : Moves(tasks[n], u) /\ u.phase = tasks[n].phase /\ tasks' = [tasks EXCEPT ![n] = u]
  BY Zenon, <1>3, ServerTask
<1>5. CASE TaskBegin(n)
  <2> DEFINE u == [tasks[n] EXCEPT !.stage = "started"]
  <2>1. tasks[n].stage = "queued" /\ tasks' = [tasks EXCEPT ![n] = u]
    BY Zenon, <1>5 DEF TaskBegin
  <2>2. Moves(tasks[n], u) /\ u.phase = tasks[n].phase
    BY Zenon, <1>2, <2>1, BeginMoves
  <2>3. QED
    BY Zenon, <2>1, <2>2
<1>6. CASE TaskCheck(n)
  <2> DEFINE t == tasks[n]
  <2>1. /\ t.stage = "started"
        /\ \/ tasks' = [tasks EXCEPT ![n] = [t EXCEPT !.stage = "removed"]]
           \/ \E r \in {"cancelled", "deadline_early"} : tasks' = [tasks EXCEPT ![n] = Post(t, r)]
           \/ tasks' = [tasks EXCEPT ![n] = [t EXCEPT !.stage = "running", !.ran = "yes"]]
    BY Zenon, <1>6, <1>2, ServerTypes DEF TaskCheck
  <2>2. /\ Moves(t, [t EXCEPT !.stage = "removed"]) /\ [t EXCEPT !.stage = "removed"].phase = t.phase
        /\ \A r \in {"cancelled", "deadline_early"} : Moves(t, Post(t, r)) /\ Post(t, r).phase = t.phase
        /\ Moves(t, [t EXCEPT !.stage = "running", !.ran = "yes"])
        /\ [t EXCEPT !.stage = "running", !.ran = "yes"].phase = t.phase
    BY Zenon, <1>2, <2>1, CheckMoves
  <2> HIDE DEF t
  <2>3. QED
    BY Zenon, <2>1, <2>2 DEF t
<1>7. CASE TaskReturn(n)
  <2>1. PICK r \in {"ok", "cancelled"} : tasks' = [tasks EXCEPT ![n] = Post(tasks[n], r)]
    BY Zenon, <1>7 DEF TaskReturn
  <2>2. Moves(tasks[n], Post(tasks[n], r)) /\ Post(tasks[n], r).phase = tasks[n].phase
    BY Zenon, <1>2, <1>7, ReturnMoves DEF TaskReturn
  <2>3. QED
    BY Zenon, <2>1, <2>2
<1>8. QED
  BY Zenon, <1>1, <1>5, <1>6, <1>7

LEMMA ServerInitially ==
  ASSUME Init
  PROVE  ServerInv /\ VerdictInv
<1>1. <<>> \in Seq(Task) /\ Len(<<>>) = 0 /\ DOMAIN <<>> = {}
  OBVIOUS
<1>2. ServerInv
  BY <1>1 DEF Init, ServerInv
<1>3. VerdictInv
  BY Zenon, <1>1 DEF Init, VerdictInv, OneVerdict
<1>4. QED
  BY Zenon, <1>2, <1>3

LEMMA ServerNext ==
  ASSUME ClientInv, WireInv, ServerInv, [Next]_vars
  PROVE  ServerInv' /\ (CacheFits /\ VerdictInv => VerdictInv')
<1>1. CASE ClientStep
  <2>1. UNCHANGED <<session, load, executing, tasks, cache, answers>> /\ (("s" \in up') <=> ("s" \in up))
    BY Zenon, <1>1 DEF ClientStep, Call, Cancel, DeadlinePasses, Resubmit, PruneRetry, PruneClient, HandleResponse,
       TearDownClient, SendClosesSession, TearDown, Shutdown, serverVars, sessionVars
  <2>2. QED
    BY Zenon, <2>1, ServerStill
<1>2. CASE ServerStep
  BY Zenon, <1>2, ServerRequest, ServerCancel, ServerTorn, ServerPrune, ServerFinish DEF ServerStep
<1>3. CASE ExecutorStep
  BY Zenon, <1>3, ServerExecutes
<1>4. CASE Connect
  BY Zenon, <1>4, ServerConnects
<1>5. CASE LinkLost \/ (\E i \in Ids : SendAgain(i)) \/ UNCHANGED vars
  BY Zenon, <1>5, ServerStill DEF LinkLost, SendAgain, vars, serverVars, sessionVars
<1>6. QED
  BY Zenon, <1>1, <1>2, <1>3, <1>4, <1>5 DEF Next

-----------------------------------------------------------------------------
(* The frames on their way.                                                *)

LEMMA PutSound ==
  ASSUME NEW S, NEW q \in Seq(S), NEW f \in S, NEW ok
  PROVE  Put(q, f, ok) \in Seq(S)
BY DEF Put

LEMMA TailSound ==
  ASSUME NEW S, NEW q \in Seq(S), q # <<>>
  PROVE  Tail(q) \in Seq(S) /\ Head(q) \in S
OBVIOUS

LEMMA ResponseSound ==
  ASSUME responses \in Seq(Response), NEW i \in Ids, NEW status \in Status, Respond(i, status)
  PROVE  responses' \in Seq(Response)
<1>1. [id |-> i, status |-> status] \in Response
  BY Zenon DEF Response
<1>2. QED
  BY Zenon, <1>1, PutSound DEF Respond

LEMMA SubmitSound ==
  ASSUME requests \in Seq(load.ids), NEW i \in load.ids, SubmitCall(i)
  PROVE  requests' \in Seq(load.ids)
<1>1. requests' = Put(requests, i, TRUE) \/ requests' = requests
  BY Zenon DEF SubmitCall
<1>2. Put(requests, i, TRUE) \in Seq(load.ids)
  BY Zenon, PutSound
<1>3. QED
  BY Zenon, <1>1, <1>2

LEMMA WireInitially ==
  ASSUME Init
  PROVE  WireInv
BY DEF Init, WireInv

\* Requests and cancels name calls of the load, responses answers of the server.
LEMMA WireNext ==
  ASSUME ClientInv, WireInv, ServerInv, [Next]_vars
  PROVE  WireInv'
<1>1. requests \in Seq(load.ids) /\ cancels \in Seq(Ids) /\ responses \in Seq(Response)
  BY Zenon DEF WireInv
<1>2. <<>> \in Seq(load.ids) /\ <<>> \in Seq(Ids) /\ <<>> \in Seq(Response)
  OBVIOUS
<1>3. load' = load
  BY Zenon DEF Next, ClientStep, ServerStep, ExecutorStep, Call, Cancel, DeadlinePasses, Resubmit, PruneRetry,
     PruneClient, HandleResponse, TearDownClient, SendClosesSession, TearDown, Shutdown, HandleRequest,
     HandleCancel, TearDownServer, PruneExecuting, FinishServerCall, TaskBegin, TaskCheck, TaskReturn,
     Connect, LinkLost, SendAgain, vars, sessionVars
<1>4. SUFFICES requests' \in Seq(load.ids) /\ cancels' \in Seq(Ids) /\ responses' \in Seq(Response)
  BY Zenon, <1>3 DEF WireInv
<1>5. CASE UNCHANGED <<requests, cancels, responses>>
  BY Zenon, <1>1, <1>5
<1>6. CASE requests' = <<>> /\ cancels' = <<>> /\ responses' = <<>>
  BY Zenon, <1>2, <1>6
<1>7. ASSUME NEW i \in Ids, Call(i) PROVE WireInv'
  BY Zenon, <1>1, <1>3, <1>7, SubmitSound DEF Call, WireInv
<1>8. ASSUME NEW i \in Ids, Cancel(i) PROVE WireInv'
  BY Zenon, <1>1, <1>3, <1>8, PutSound DEF Cancel, WireInv
<1>9. ASSUME Resubmit PROVE WireInv'
  <2>1. Head(retry) \in load.ids
    BY Zenon, <1>9, TailOfDistinct DEF Resubmit, ClientInv
  <2>2. requests' \in Seq(load.ids)
    BY Zenon, <1>1, <1>9, <2>1, SubmitSound DEF Resubmit
  <2>3. QED
    BY Zenon, <1>1, <1>3, <1>9, <2>2 DEF Resubmit, WireInv
<1>10. ASSUME HandleResponse PROVE WireInv'
  BY Zenon, <1>1, <1>3, <1>10, TailSound DEF HandleResponse, WireInv
<1>11. ASSUME HandleRequest PROVE WireInv'
  <2> DEFINE i == Head(requests)
  <2>1. i \in Ids /\ requests' \in Seq(load.ids) /\ cancels' = cancels /\ Request(i)
    BY Zenon, <1>1, <1>11, RequestKnown, TailSound DEF HandleRequest
  <2> HIDE DEF i
  <2>2. (cache[i] # "none" => cache[i] \in Status) /\ "rejected" \in Status
    BY Zenon, <2>1, ServerTypes DEF Status
  <2>3. responses' \in Seq(Response)
    BY Zenon, <1>1, <2>1, <2>2, ResponseSound DEF Request, AnswerOffline, StartServerCall
  <2>4. QED
    BY Zenon, <1>1, <1>3, <2>1, <2>3 DEF WireInv
<1>12. ASSUME NEW n \in DOMAIN tasks, NEW status \in Status, NEW q, Answer(n, status, q)
       PROVE  responses' \in Seq(Response)
  BY Zenon, <1>1, <1>12, ServerTypes, ResponseSound DEF Answer
<1>13. ASSUME HandleCancel PROVE WireInv'
  <2>1. cancels' \in Seq(Ids) /\ Head(cancels) \in Ids /\ requests' = requests
    BY Zenon, <1>1, <1>13, TailSound DEF HandleCancel
  <2>2. responses' \in Seq(Response)
    <3> DEFINE n == executing[Head(cancels)]
    <3>1. n # 0 => n \in DOMAIN tasks
      BY Zenon, <2>1, ServerTypes
    <3>2. UNCHANGED responses \/ (n # 0 /\ \E q : Answer(n, "cancelled_early", q))
      BY Zenon, <1>13 DEF HandleCancel
    <3> HIDE DEF n
    <3>3. "cancelled_early" \in Status
      BY Zenon DEF Status
    <3>4. QED
      BY Zenon, <1>1, <1>12, <3>1, <3>2, <3>3
  <2>3. QED
    BY Zenon, <1>3, <2>1, <2>2 DEF WireInv
<1>14. ASSUME NEW i \in Ids, PruneExecuting(i) PROVE WireInv'
  <2>1. executing[i] \in DOMAIN tasks /\ "deadline" \in Status
    BY Zenon, <1>14, ServerTypes DEF PruneExecuting, Executing, Status
  <2>2. QED
    BY Zenon, <1>1, <1>3, <1>12, <1>14, <2>1 DEF PruneExecuting, WireInv
<1>15. ASSUME NEW n \in DOMAIN tasks, FinishServerCall(n) PROVE WireInv'
  <2>1. tasks[n].result \in Status
    BY Zenon, <1>15, ServerTypes DEF FinishServerCall, TaskSound
  <2>2. responses' \in Seq(Response)
    BY Zenon, <1>1, <1>12, <1>15, <2>1 DEF FinishServerCall
  <2>3. QED
    BY Zenon, <1>1, <1>3, <1>15, <2>2 DEF FinishServerCall, WireInv
<1>16. ASSUME NEW i \in Ids, SendAgain(i) PROVE WireInv'
  <2>1. i \in load.ids
    BY Zenon, <1>16 DEF SendAgain, ClientInv
  <2>2. QED
    BY <1>1, <1>3, <1>16, <2>1 DEF SendAgain, WireInv
<1>17. ASSUME ClientStep PROVE WireInv'
  BY Zenon, <1>1, <1>2, <1>3, <1>17, <1>7, <1>8, <1>9, <1>10 DEF ClientStep, DeadlinePasses, PruneRetry, PruneClient,
     TearDownClient, SendClosesSession, TearDown, Shutdown, wireVars, WireInv
<1>18. ASSUME ServerStep PROVE WireInv'
  BY Zenon, <1>1, <1>3, <1>18, <1>11, <1>13, <1>14, <1>15 DEF ServerStep, TearDownServer, wireVars, WireInv
<1>19. CASE ExecutorStep \/ Connect \/ LinkLost \/ UNCHANGED vars
  BY Zenon, <1>5, <1>6, <1>19 DEF ExecutorStep, TaskBegin, TaskCheck, TaskReturn, Connect, LinkLost, vars, wireVars
<1>20. QED
  BY Zenon, <1>3, <1>16, <1>17, <1>18, <1>19 DEF Next, WireInv

-----------------------------------------------------------------------------
(* The theorems.                                                           *)

\* The tables of the two sides always agree with what they have completed and
\* answered: the inductive invariant holds, whatever the limits and the load.
THEOREM RpcInvariant == Spec => []RpcInv
<1>1. Init => RpcInv
  BY Zenon, ClientInitially, WireInitially, ServerInitially DEF RpcInv
<1>2. RpcInv /\ [Next]_vars => RpcInv'
  <2>1. SUFFICES ASSUME RpcInv, [Next]_vars PROVE RpcInv'
    BY Zenon
  <2>2. ClientInv' /\ WireInv' /\ ServerInv' /\ (CacheFits /\ VerdictInv => VerdictInv')
    BY Zenon, <2>1, ClientNext, WireNext, ServerNext DEF RpcInv
  <2>3. load' = load
    BY Zenon, <2>1 DEF Next, ClientStep, ServerStep, ExecutorStep, Call, Cancel, DeadlinePasses, Resubmit, PruneRetry,
       PruneClient, HandleResponse, TearDownClient, SendClosesSession, TearDown, Shutdown, HandleRequest,
       HandleCancel, TearDownServer, PruneExecuting, FinishServerCall, TaskBegin, TaskCheck, TaskReturn,
       Connect, LinkLost, SendAgain, vars, sessionVars
  <2>4. CacheFits' <=> CacheFits
    BY Zenon, <2>3 DEF CacheFits
  <2>5. QED
    BY Zenon, <2>1, <2>2, <2>4 DEF RpcInv
<1>3. QED
  BY <1>1, <1>2, PTL DEF Spec

LEMMA TypesNow ==
  ASSUME RpcInv
  PROVE  TypeOK /\ CompletesOnce
<1>1. ClientInv /\ WireInv /\ ServerInv
  BY Zenon DEF RpcInv
<1>2. Range(retry) \subseteq {i \in Ids : call[i] = "retry"}
  BY Zenon, <1>1, RangeIs DEF ClientInv
<1>3. load.ids \subseteq Ids
  BY Zenon, <1>1, RpcAssumption DEF ClientInv
<1>4. Range(requests) \subseteq Ids /\ Range(cancels) \subseteq Ids
  BY Zenon, <1>1, <1>3, RangeIs DEF WireInv
<1>5. \A n \in DOMAIN responses : responses[n].id \in Ids /\ responses[n].status \in Status
  <2>1. \A n \in DOMAIN responses : responses[n] \in Response
    BY <1>1 DEF WireInv
  <2>2. QED
    BY Zenon, <2>1 DEF Response
<1>6. TypeOK
  BY Zenon, <1>1, <1>2, <1>4, <1>5 DEF TypeOK, ClientInv, ServerInv
<1>7. CompletesOnce
  <2>1. \A i \in Ids : completed[i] \in {0, 1}
    BY Zenon, <1>1 DEF ClientInv
  <2>2. \A i \in Ids : completed[i] <= 1
    BY <2>1
  <2>3. QED
    BY Zenon, <1>1, <2>2 DEF CompletesOnce, ClientInv
<1>8. QED
  BY Zenon, <1>6, <1>7

LEMMA RunsBounded ==
  ASSUME ServerInv, VerdictInv
  PROVE  RunsAtMostOnce
<1>1. ASSUME NEW i \in Ids, NEW s \in 1 .. session PROVE Runs(i, s) <= 1
  <2> DEFINE R == {n \in DOMAIN tasks : tasks[n].id = i /\ tasks[n].sess = s /\ tasks[n].ran = "yes"}
  <2>1. \A m, n \in R : m = n
    BY Zenon DEF VerdictInv
  <2> HIDE DEF R
  <2>2. R = {} \/ \E m : R = {m}
    <3>1. CASE R # {}
      <4>1. PICK m : m \in R
        BY Zenon, <3>1
      <4>2. R = {m}
        BY Zenon, <4>1, <2>1
      <4>3. QED
        BY Zenon, <4>2
    <3>2. QED
      BY Zenon, <3>1
  <2>3. Cardinality(R) = 0 \/ Cardinality(R) = 1
    BY <2>2, FS_EmptySet, FS_Singleton, Zenon
  <2>4. Cardinality(R) <= 1
    BY <2>3
  <2>5. QED
    BY Zenon, <2>4 DEF Runs, R
<1>2. ASSUME NEW a \in answers, a[3] \in {"rejected", "cancelled_early", "deadline_early"}
      PROVE  Runs(a[2], a[1]) = 0
  <2> DEFINE R == {n \in DOMAIN tasks : tasks[n].id = a[2] /\ tasks[n].sess = a[1] /\ tasks[n].ran = "yes"}
  <2>1. R = {}
    BY Zenon, <1>2 DEF VerdictInv, Over, NeverRun
  <2>2. QED
    BY Zenon, <2>1, FS_EmptySet DEF Runs
<1>3. QED
  BY Zenon, <1>1, <1>2 DEF RunsAtMostOnce, AtMostOncePerSession, NeverRunIsTrue

\* A call's completion runs at most once and only as the call leaves the client's
\* tables, whatever response, cancel, deadline, lost session, retry and shutdown
\* race, and with a result cache of any size.
THEOREM CompletionRunsOnce == Spec => []CompletesOnce
<1>1. RpcInv => CompletesOnce
  BY Zenon, TypesNow
<1>2. QED
  BY <1>1, RpcInvariant, PTL

\* Where the requests of a behaviour fit the result cache, a call and a request
\* are settled once: the completion runs once and the server gives one verdict
\* per request and session (complete_pending, answer).
THEOREM CallsAreSettled == Spec => [](CacheFits => CallsSettle)
<1>1. RpcInv => (CacheFits => CallsSettle)
  BY Zenon, TypesNow DEF RpcInv, VerdictInv, CallsSettle
<1>2. QED
  BY <1>1, RpcInvariant, PTL

\* Where the requests of a behaviour fit the result cache, a handler runs at most
\* once for a request of a session, and never for one reported as not run.
THEOREM HandlersRunOnce == Spec => [](CacheFits => RunsAtMostOnce)
<1>1. RpcInv => (CacheFits => RunsAtMostOnce)
  BY Zenon, RunsBounded DEF RpcInv
<1>2. QED
  BY <1>1, RpcInvariant, PTL

=============================================================================
