----------------------------- MODULE QueueLemmas -----------------------------
(***************************************************************************)
(* Lemmas about queues in which nobody stands twice, for the waiters of    *)
(* WaitEvent and of Locks: who is in the queue after somebody joins it at  *)
(* the end, leaves it at the head, or leaves it from within.               *)
(***************************************************************************)
EXTENDS Integers, SequencesExt, SequenceTheorems, TLAPS

IsQueueOf(q, S) == q \in Seq(S) /\ IsInjective(q)

LEMMA QueueElements ==
  ASSUME NEW S, NEW q \in Seq(S)
  PROVE  /\ Len(q) \in Nat /\ DOMAIN q = 1..Len(q)
         /\ \A i \in 1..Len(q) : q[i] \in S
         /\ Range(q) \subseteq S
         /\ q = << >> <=> Range(q) = {}
<1>1. Len(q) \in Nat /\ DOMAIN q = 1..Len(q) /\ \A i \in 1..Len(q) : q[i] \in S
  OBVIOUS
<1>2. q = << >> <=> Len(q) = 0
  OBVIOUS
<1>3. Range(q) \subseteq S
  BY <1>1 DEF Range
<1>4. ASSUME Range(q) = {} PROVE Len(q) = 0
  <2>1. 1 \notin 1..Len(q)
    BY <1>1, <1>4 DEF Range
  <2> QED BY <2>1, <1>1
<1>5. q = << >> => Range(q) = {}
  BY <1>1, <1>2 DEF Range
<1> QED BY <1>1, <1>2, <1>3, <1>4, <1>5

LEMMA QueueOfNone == ASSUME NEW S PROVE IsQueueOf(<< >>, S) /\ Range(<< >>) = {}
<1>1. << >> \in Seq(S) /\ DOMAIN << >> = {}
  OBVIOUS
<1> QED BY <1>1 DEF IsQueueOf, IsInjective, Range

LEMMA QueueJoin ==
  ASSUME NEW S, NEW q, IsQueueOf(q, S), NEW x \in S, x \notin Range(q)
  PROVE  IsQueueOf(Append(q, x), S) /\ Range(Append(q, x)) = Range(q) \cup {x}
<1> DEFINE n == Len(q)
           r == Append(q, x)
<1>1. q \in Seq(S) /\ n \in Nat /\ DOMAIN q = 1..n
  BY DEF IsQueueOf
<1>2. /\ r \in Seq(S) /\ DOMAIN r = 1..(n + 1)
      /\ r[n + 1] = x
      /\ \A i \in 1..n : r[i] = q[i]
  BY <1>1
<1>3. \A i \in 1..n : q[i] # x
  BY <1>1 DEF Range
<1> HIDE DEF n, r
<1>4. IsInjective(r)
  <2> SUFFICES ASSUME NEW a \in 1..(n + 1), NEW b \in 1..(n + 1), r[a] = r[b] PROVE a = b
    BY <1>2 DEF IsInjective
  <2>1. CASE a \in 1..n /\ b \in 1..n
    BY <2>1, <1>1, <1>2 DEF IsQueueOf, IsInjective
  <2>2. CASE a = n + 1 \/ b = n + 1
    <3>1. a \in 1..n \/ a = n + 1
      BY <1>1
    <3>2. b \in 1..n \/ b = n + 1
      BY <1>1
    <3> QED BY <3>1, <3>2, <2>2, <1>2, <1>3
  <2> QED BY <2>1, <2>2, <1>1
<1>5. Range(r) = Range(q) \cup {x}
  <2>1. 1..(n + 1) = 1..n \cup {n + 1}
    BY <1>1
  <2> QED BY <2>1, <1>1, <1>2 DEF Range
<1> QED BY <1>2, <1>4, <1>5 DEF IsQueueOf, r

LEMMA QueueNext ==
  ASSUME NEW S, NEW q, IsQueueOf(q, S), q # << >>
  PROVE  /\ Head(q) \in Range(q)
         /\ IsQueueOf(Tail(q), S)
         /\ Range(Tail(q)) = Range(q) \ {Head(q)}
<1> DEFINE n == Len(q)
           r == Tail(q)
<1>1. q \in Seq(S) /\ n \in Nat \ {0} /\ DOMAIN q = 1..n /\ Head(q) = q[1]
  BY DEF IsQueueOf
<1>2. /\ r \in Seq(S) /\ DOMAIN r = 1..(n - 1)
      /\ \A i \in 1..(n - 1) : r[i] = q[i + 1]
  BY <1>1
<1> HIDE DEF n, r
<1>3. IsInjective(r)
  <2> SUFFICES ASSUME NEW a \in 1..(n - 1), NEW b \in 1..(n - 1), r[a] = r[b] PROVE a = b
    BY <1>2 DEF IsInjective
  <2>1. a + 1 \in 1..n /\ b + 1 \in 1..n /\ q[a + 1] = q[b + 1]
    BY <1>1, <1>2
  <2>2. a + 1 = b + 1
    BY <2>1, <1>1 DEF IsQueueOf, IsInjective
  <2> QED BY <2>2
<1>4. Range(r) = Range(q) \ {Head(q)}
  <2>1. ASSUME NEW y \in Range(r) PROVE y \in Range(q) \ {Head(q)}
    <3>1. PICK i \in 1..(n - 1) : y = r[i]
      BY <1>2 DEF Range
    <3>2. i + 1 \in 1..n /\ 1 \in 1..n /\ i + 1 # 1 /\ y = q[i + 1]
      BY <3>1, <1>1, <1>2
    <3>3. y # q[1]
      BY <3>2, <1>1 DEF IsQueueOf, IsInjective
    <3> QED BY <3>2, <3>3, <1>1 DEF Range
  <2>2. ASSUME NEW y \in Range(q) \ {Head(q)} PROVE y \in Range(r)
    <3>1. PICK i \in 1..n : y = q[i]
      BY <1>1 DEF Range
    <3>2. i # 1
      BY <3>1, <1>1
    <3>3. i - 1 \in 1..(n - 1) /\ (i - 1) + 1 = i
      BY <3>2, <1>1
    <3>4. r[i - 1] = q[i]
      BY <3>3, <1>2
    <3> QED BY <3>1, <3>3, <3>4, <1>2 DEF Range
  <2> QED BY <2>1, <2>2
<1>5. Head(q) \in Range(q)
  BY <1>1 DEF Range
<1> QED BY <1>2, <1>3, <1>4, <1>5 DEF IsQueueOf, r

\* A sequence without its i-th element.
LEMMA RemoveAtElements ==
  ASSUME NEW S, NEW q \in Seq(S), NEW i \in 1..Len(q)
  PROVE  /\ RemoveAt(q, i) \in Seq(S)
         /\ Len(RemoveAt(q, i)) = Len(q) - 1
         /\ \A k \in 1..(Len(q) - 1) : RemoveAt(q, i)[k] = q[IF k < i THEN k ELSE k + 1]
<1> DEFINE n == Len(q)
           a == SubSeq(q, 1, i - 1)
           b == SubSeq(q, i + 1, n)
<1>1. n \in Nat /\ i \in 1..n
  OBVIOUS
<1>2. a \in Seq(S) /\ Len(a) = i - 1 /\ \A k \in 1..(i - 1) : a[k] = q[k]
  OBVIOUS
<1>3. b \in Seq(S) /\ Len(b) = n - i /\ \A k \in 1..(n - i) : b[k] = q[i + k]
  OBVIOUS
<1>4. RemoveAt(q, i) = a \o b
  BY DEF RemoveAt
<1> HIDE DEF n, a, b
<1>5. /\ a \o b \in Seq(S)
      /\ Len(a \o b) = Len(a) + Len(b)
      /\ \A k \in 1..(Len(a) + Len(b)) :
           (a \o b)[k] = IF k <= Len(a) THEN a[k] ELSE b[k - Len(a)]
  BY <1>2, <1>3, ConcatProperties
<1>6. ASSUME NEW k \in 1..(n - 1) PROVE (a \o b)[k] = q[IF k < i THEN k ELSE k + 1]
  <2>1. CASE k < i
    <3>1. k \in 1..(i - 1) /\ k <= Len(a) /\ k \in 1..(Len(a) + Len(b))
      BY <2>1, <1>1, <1>2, <1>3
    <3> QED BY <3>1, <2>1, <1>2, <1>5
  <2>2. CASE ~(k < i)
    <3>1. /\ k - Len(a) \in 1..(n - i) /\ ~(k <= Len(a))
          /\ k \in 1..(Len(a) + Len(b)) /\ i + (k - Len(a)) = k + 1
      BY <2>2, <1>1, <1>2, <1>3
    <3>2. (a \o b)[k] = b[k - Len(a)]
      BY <3>1, <1>5
    <3> QED BY <3>1, <3>2, <2>2, <1>3
  <2> QED BY <2>1, <2>2
<1>7. Len(a) + Len(b) = n - 1
  BY <1>1, <1>2, <1>3
<1> QED BY <1>4, <1>5, <1>6, <1>7 DEF n

LEMMA QueueLeave ==
  ASSUME NEW S, NEW q, IsQueueOf(q, S), NEW i \in DOMAIN q
  PROVE  /\ q[i] \in Range(q)
         /\ IsQueueOf(RemoveAt(q, i), S)
         /\ Range(RemoveAt(q, i)) = Range(q) \ {q[i]}
<1> DEFINE n == Len(q)
           r == RemoveAt(q, i)
           from(k) == IF k < i THEN k ELSE k + 1
<1>1. q \in Seq(S) /\ n \in Nat /\ DOMAIN q = 1..n /\ i \in 1..n
  BY DEF IsQueueOf
<1>2. r \in Seq(S) /\ Len(r) = n - 1 /\ \A k \in 1..(n - 1) : r[k] = q[from(k)]
  BY <1>1, RemoveAtElements
<1>3. DOMAIN r = 1..(n - 1)
  <2>1. DOMAIN r = 1..Len(r)
    BY <1>2, QueueElements
  <2> QED BY <2>1, <1>2
<1> HIDE DEF n, r
<1>4. \A k \in 1..(n - 1) : from(k) \in 1..n /\ from(k) # i
  BY <1>1
<1>5. \A k, l \in 1..(n - 1) : from(k) = from(l) => k = l
  BY <1>1
<1>6. \A j \in 1..n : j # i => \E k \in 1..(n - 1) : from(k) = j
  <2> SUFFICES ASSUME NEW j \in 1..n, j # i PROVE \E k \in 1..(n - 1) : from(k) = j
    OBVIOUS
  <2>1. CASE j < i
    <3>1. j \in 1..(n - 1) /\ from(j) = j
      BY <2>1, <1>1
    <3> QED BY <3>1
  <2>2. CASE j > i
    <3>1. j - 1 \in 1..(n - 1) /\ from(j - 1) = j
      BY <2>2, <1>1
    <3> QED BY <3>1
  <2> QED BY <2>1, <2>2, <1>1
<1> HIDE DEF from
<1>7. \A a, b \in 1..n : q[a] = q[b] => a = b
  BY <1>1 DEF IsQueueOf, IsInjective
<1>8. IsInjective(r)
  BY <1>2, <1>3, <1>4, <1>5, <1>7 DEF IsInjective
<1>9. Range(r) = Range(q) \ {q[i]}
  <2>1. ASSUME NEW y \in Range(r) PROVE y \in Range(q) \ {q[i]}
    BY <2>1, <1>1, <1>2, <1>3, <1>4, <1>7 DEF Range
  <2>2. ASSUME NEW y \in Range(q) \ {q[i]} PROVE y \in Range(r)
    <3>1. PICK j \in 1..n : y = q[j]
      BY <1>1 DEF Range
    <3>2. PICK k \in 1..(n - 1) : from(k) = j
      BY <3>1, <2>2, <1>6
    <3> QED BY <3>1, <3>2, <1>2, <1>3 DEF Range
  <2> QED BY <2>1, <2>2
<1>10. q[i] \in Range(q)
  BY <1>1 DEF Range
<1> QED BY <1>2, <1>8, <1>9, <1>10 DEF IsQueueOf, r
=============================================================================
