-------------------------- MODULE TTYStream_proofs --------------------------
(***************************************************************************)
(* Proofs about TTYStream: what a connection sends is in order, and what   *)
(* a browser shows has no hole it does not know of, for any number of      *)
(* viewers and any windows.                                                *)
(***************************************************************************)
EXTENDS TTYStream, Iteration, FiniteSetTheorems, SequenceTheorems

-----------------------------------------------------------------------------
(* Numbers and sequences *)

\* A set of natural numbers has a least one.
LEMMA Least ==
    ASSUME NEW S, S \subseteq Nat, S # {}
    PROVE  Min(S) \in S /\ \A y \in S : Min(S) <= y
<1>1. PICK x \in S : \A y \in S : <<y, x>> \notin OpToRel(<, Nat)
  BY NatLessThanWellFounded, WFMin
<1>2. ASSUME NEW y \in S
      PROVE  x <= y
  <2>1. x \in Nat /\ y \in Nat
    OBVIOUS
  <2>2. y < x => <<y, x>> \in OpToRel(<, Nat)
    BY <2>1 DEF OpToRel
  <2>3. ~(y < x)
    BY <1>1, <2>2
  <2> QED
    BY <2>1, <2>3
<1> QED
  BY <1>2 DEF Min

\* A bounded one has a greatest.
LEMMA Greatest ==
    ASSUME NEW N \in Nat, NEW S, S \subseteq 0 .. N, S # {}
    PROVE  Max(S) \in S /\ \A y \in S : y <= Max(S)
<1> DEFINE R == {k \in 0 .. N : N - k \in S}
<1>1. R \subseteq Nat /\ R # {}
  <2>1. PICK y \in S : TRUE
    OBVIOUS
  <2>2. N - y \in 0 .. N /\ N - (N - y) = y
    BY <2>1
  <2> QED
    BY <2>2
<1>2. Min(R) \in R /\ \A y \in R : Min(R) <= y
  <2> HIDE DEF R
  <2> QED
    BY <1>1, Least
<1> DEFINE x == N - Min(R)
<1>3. x \in S
  BY <1>2
<1>4. ASSUME NEW y \in S
      PROVE  y <= x
  <2>1. N - y \in 0 .. N /\ N - (N - y) = y
    OBVIOUS
  <2>2. Min(R) <= N - y
    BY <1>2, <2>1
  <2> QED
    BY <1>2, <2>2
<1> HIDE DEF x
<1> QED
  BY <1>3, <1>4 DEF Max

LEMMA Greater ==
    ASSUME NEW a \in Int, NEW b \in Int
    PROVE  Max({a, b}) = IF a >= b THEN a ELSE b
BY DEF Max

\* A finite set of numbers can be sorted.
LEMMA CanSort ==
    ASSUME NEW M \in Nat, NEW S, S \subseteq 0 .. M
    PROVE  \E q \in [1 .. Cardinality(S) -> S] : \A i, j \in DOMAIN q : i < j => q[i] < q[j]
<1> DEFINE Sorts(q, k, R) == q \in [1 .. k -> R] /\ \A i, j \in 1 .. k : i < j => q[i] < q[j]
           T == {k \in 0 .. Cardinality(S) :
                    \A R \in SUBSET (0 .. M) : Cardinality(R) = k => \E q : Sorts(q, k, R)}
<1>0. IsFiniteSet(0 .. M)
  BY FS_Interval
<1>1. ASSUME NEW R \in SUBSET (0 .. M)
      PROVE  IsFiniteSet(R) /\ Cardinality(R) \in Nat
  BY <1>0, FS_Subset, FS_CardinalityType
<1>. Cardinality(S) \in Nat
  BY <1>1
<1>2. 0 \in T
  <2>1. ASSUME NEW R \in SUBSET (0 .. M)
        PROVE  Sorts([i \in 1 .. 0 |-> 0], 0, R)
    OBVIOUS
  <2>2. \A R \in SUBSET (0 .. M) : \E q : Sorts(q, 0, R)
    <3> HIDE DEF Sorts
    <3> QED
      BY <2>1
  <2> QED
    BY <2>2
<1>3. ASSUME NEW k \in 0 .. Cardinality(S) - 1, k \in T
      PROVE  k + 1 \in T
  <2> SUFFICES ASSUME NEW R \in SUBSET (0 .. M), Cardinality(R) = k + 1
               PROVE  \E q : Sorts(q, k + 1, R)
    BY <1>1
  <2> DEFINE m == Max(R)
  <2>1. R # {}
    BY FS_EmptySet
  <2>2. m \in R /\ \A y \in R : y <= m
    BY <2>1, Greatest
  <2>3. \A y \in R \ {m} : y < m
    <3> HIDE DEF m
    <3>1. ASSUME NEW y \in R \ {m}
          PROVE  y < m
      <4>1. y \in 0 .. M /\ m \in 0 .. M /\ y <= m /\ y # m
        BY <2>2
      <4> QED
        BY <4>1
    <3> QED
      BY <3>1
  <2> HIDE DEF m
  <2>4. Cardinality(R \ {m}) = k
    BY <1>1, <2>2, FS_RemoveElement
  <2>5. PICK q : Sorts(q, k, R \ {m})
    <3>1. R \ {m} \in SUBSET (0 .. M)
      OBVIOUS
    <3> QED
      BY <1>3, <2>4, <3>1
  <2> DEFINE h == [i \in 1 .. k + 1 |-> IF i = k + 1 THEN m ELSE q[i]]
  <2>6. h \in [1 .. k + 1 -> R]
    BY <2>2, <2>5
  <2>7. h[k + 1] = m /\ \A i \in 1 .. k : h[i] = q[i] /\ q[i] \in R \ {m}
    BY <2>5
  <2> HIDE DEF h
  <2>8. ASSUME NEW i \in 1 .. k + 1, NEW j \in 1 .. k + 1, i < j
        PROVE  h[i] < h[j]
    <3>1. i \in 1 .. k
      BY <2>8
    <3>2. CASE j = k + 1
      <4>1. h[i] \in R \ {m} /\ h[j] = m
        BY <2>7, <3>1, <3>2
      <4> QED
        BY <2>3, <4>1
    <3>3. CASE j \in 1 .. k
      BY <2>5, <2>7, <2>8, <3>1, <3>3
    <3> QED
      BY <3>2, <3>3
  <2>9. Sorts(h, k + 1, R)
    BY <2>6, <2>8
  <2> QED
    BY <2>9
<1>4. \A k \in 0 .. Cardinality(S) : k \in T
  <2> HIDE DEF T
  <2> QED
    BY <1>1, <1>2, <1>3, Induct
<1>5. Cardinality(S) \in T
  <2> HIDE DEF T
  <2> QED
    BY <1>1, <1>4
<1>6. PICK q : Sorts(q, Cardinality(S), S)
  BY <1>5
<1>7. q \in [1 .. Cardinality(S) -> S] /\ DOMAIN q = 1 .. Cardinality(S)
  BY <1>6
<1> QED
  BY <1>6, <1>7

\* What Sorted returns is in order, and in the set.
LEMMA SortedOrder ==
    ASSUME NEW M \in Nat, NEW S, S \subseteq 0 .. M
    PROVE  /\ Sorted(S) \in Seq(S)
           /\ \A i, j \in DOMAIN Sorted(S) : i < j => Sorted(S)[i] < Sorted(S)[j]
<1>1. \E q \in [1 .. Cardinality(S) -> S] : \A i, j \in DOMAIN q : i < j => q[i] < q[j]
  BY CanSort
<1> DEFINE q == Sorted(S)
<1>2. q \in [1 .. Cardinality(S) -> S] /\ \A i, j \in DOMAIN q : i < j => q[i] < q[j]
  BY <1>1 DEF Sorted
<1>3. Cardinality(S) \in Nat
  <2>1. IsFiniteSet(0 .. M) /\ S \in SUBSET (0 .. M)
    BY FS_Interval
  <2> QED
    BY <2>1, FS_Subset, FS_CardinalityType
<1>4. q \in Seq(S)
  BY <1>2, <1>3, SeqDef
<1> HIDE DEF q
<1>5. q = Sorted(S)
  BY DEF q
<1> QED
  BY <1>2, <1>4, <1>5

-----------------------------------------------------------------------------
(* A connection *)

ConnType ==
    [open : BOOLEAN, ready : BOOLEAN, after : Nat, sent : Nat, queue : Seq(Frame),
     closed : BOOLEAN, ended : BOOLEAN, closing : BOOLEAN]

\* What is queued is in order, ahead of what was sent, and published; a completion is its end.
Ordered(q, sent) ==
    /\ \A i \in DOMAIN q : q[i].seq > sent
    /\ \A i, j \in DOMAIN q : i < j => q[i].seq < q[j].seq
    /\ \A i \in DOMAIN q : ~q[i].error => q[i].seq \in DOMAIN log
    /\ \A i, j \in DOMAIN q : i < j => ~Completes(q[i])

\* A connection that takes events from the broker has been given none after hi.
SoundConn(c, hi) ==
    /\ Ordered(c.queue, c.sent)
    /\ ~c.ended => \A i \in DOMAIN c.queue : ~Completes(c.queue[i])
    /\ c.ready => /\ c.open
                  /\ \A i \in DOMAIN c.queue : c.queue[i].seq <= hi
                  /\ c.sent <= c.after \/ c.sent <= hi

\* The queue after the first frame at places has made room for f.
LEMMA InsteadIs ==
    ASSUME NEW q \in Seq(Frame), NEW places \in SUBSET DOMAIN q, places # {}, NEW f \in Frame
    PROVE  /\ Instead(q, places, f) \in Seq(Frame)
           /\ Len(Instead(q, places, f)) = Len(q)
           /\ Instead(q, places, f)[Len(q)] = f
           /\ \E k \in DOMAIN q : \A i \in 1 .. Len(q) - 1 :
                 Instead(q, places, f)[i] = IF i < k THEN q[i] ELSE q[i + 1]
<1> DEFINE k == Min(places)
           a == SubSeq(q, 1, k - 1)
           b == SubSeq(q, k + 1, Len(q))
<1>1. DOMAIN q = 1 .. Len(q) /\ Len(q) \in Nat
  OBVIOUS
<1>2. k \in 1 .. Len(q)
  BY <1>1, Least
<1> HIDE DEF k
<1>3. a \in Seq(Frame) /\ Len(a) = k - 1 /\ \A i \in 1 .. k - 1 : a[i] = q[i]
  <2>1. \A i \in 1 .. k - 1 : q[i] \in Frame
    BY <1>1, <1>2
  <2> QED
    BY <1>2, <2>1, SubSeqProperties
<1>4. b \in Seq(Frame) /\ Len(b) = Len(q) - k /\ \A i \in 1 .. Len(q) - k : b[i] = q[k + i]
  <2>1. \A i \in k + 1 .. Len(q) : q[i] \in Frame
    BY <1>1, <1>2
  <2>2. /\ b \in Seq(Frame) /\ Len(b) = IF k + 1 <= Len(q) THEN Len(q) - (k + 1) + 1 ELSE 0
        /\ \A i \in 1 .. Len(q) - (k + 1) + 1 : b[i] = q[(k + 1) + i - 1]
    BY <1>1, <1>2, <2>1, SubSeqProperties
  <2>3. Len(q) - (k + 1) + 1 = Len(q) - k /\ \A i \in 1 .. Len(q) - k : (k + 1) + i - 1 = k + i
    BY <1>1, <1>2
  <2>4. \A i \in 1 .. Len(q) - k : b[i] = q[k + i]
    BY <2>2, <2>3
  <2>5. \A n, m \in Nat : m <= n => (IF m + 1 <= n THEN n - (m + 1) + 1 ELSE 0) = n - m
    OBVIOUS
  <2>6. Len(b) = Len(q) - k
    <3>1. k \in Nat /\ Len(q) \in Nat /\ k <= Len(q)
      BY <1>1, <1>2
    <3> HIDE DEF b
    <3> QED
      BY <2>2, <2>5, <3>1
  <2> QED
    BY <2>2, <2>4, <2>6
<1> HIDE DEF a, b
<1> DEFINE r == a \o b
<1>r. /\ r \in Seq(Frame) /\ Len(r) = Len(a) + Len(b)
      /\ \A i \in 1 .. Len(a) + Len(b) : r[i] = IF i <= Len(a) THEN a[i] ELSE b[i - Len(a)]
  BY <1>3, <1>4, ConcatProperties
<1> HIDE DEF r
<1>5. r \in Seq(Frame) /\ Len(r) = Len(q) - 1
  BY <1>1, <1>2, <1>3, <1>4, <1>r
<1>6. ASSUME NEW i \in 1 .. Len(q) - 1
      PROVE  r[i] = IF i < k THEN q[i] ELSE q[i + 1]
  <2>1. r[i] = IF i <= k - 1 THEN a[i] ELSE b[i - (k - 1)]
    <3>1. Len(a) = k - 1 /\ Len(b) = Len(q) - k
      BY <1>3, <1>4
    <3>2. (k - 1) + (Len(q) - k) = Len(q) - 1
      BY <1>1, <1>2
    <3>3. i \in 1 .. Len(a) + Len(b)
      BY <3>1, <3>2
    <3> QED
      BY <1>r, <3>1, <3>3
  <2>2. CASE i < k
    <3>1. i \in 1 .. k - 1
      BY <1>2, <2>2
    <3> QED
      BY <1>3, <2>1, <2>2, <3>1
  <2>3. CASE i >= k
    <3>1. i - (k - 1) \in 1 .. Len(q) - k /\ k + (i - (k - 1)) = i + 1 /\ ~(i <= k - 1) /\ ~(i < k)
      BY <1>1, <1>2, <2>3
    <3>2. b[i - (k - 1)] = q[i + 1]
      BY <1>4, <3>1
    <3> QED
      BY <2>1, <3>1, <3>2
  <2>4. i < k \/ i >= k
    BY <1>2
  <2> QED
    BY <2>2, <2>3, <2>4
<1>7. Instead(q, places, f) = Append(r, f)
  BY DEF Instead, RemoveAt, k, a, b, r
<1>8. /\ Append(r, f) \in Seq(Frame) /\ Len(Append(r, f)) = Len(q)
      /\ Append(r, f)[Len(q)] = f
      /\ \A i \in 1 .. Len(q) - 1 : Append(r, f)[i] = r[i]
  <2>1. Len(r) + 1 = Len(q)
    BY <1>1, <1>5
  <2> QED
    BY <1>5, <2>1, AppendProperties
<1>9. \E n \in DOMAIN q : \A i \in 1 .. Len(q) - 1 : r[i] = IF i < n THEN q[i] ELSE q[i + 1]
  BY <1>1, <1>2, <1>6
<1> QED
  BY <1>7, <1>8, <1>9

\* A queue that kept some frames, in their order, and got a later one is in order.
LEMMA Prolonged ==
    ASSUME NEW q \in Seq(Frame), NEW sent \in Nat, NEW f \in Frame, NEW r \in Seq(Frame),
           Ordered(q, sent), \A i \in DOMAIN q : ~Completes(q[i]),
           f.seq > sent, \A i \in DOMAIN q : q[i].seq < f.seq,
           ~f.error => f.seq \in DOMAIN log,
           Len(r) > 0, r[Len(r)] = f,
           NEW e \in [1 .. Len(r) - 1 -> DOMAIN q],
           \A i, j \in 1 .. Len(r) - 1 : i < j => e[i] < e[j],
           \A i \in 1 .. Len(r) - 1 : r[i] = q[e[i]]
    PROVE  /\ Ordered(r, sent)
           /\ \A i \in DOMAIN r : r[i].seq <= f.seq
           /\ \A i \in 1 .. Len(r) - 1 : ~Completes(r[i])
<1>1. DOMAIN r = 1 .. Len(r) /\ Len(r) \in Nat
  OBVIOUS
<1>2. ASSUME NEW i \in 1 .. Len(r) - 1
      PROVE  /\ r[i].seq > sent /\ r[i].seq < f.seq
             /\ ~r[i].error => r[i].seq \in DOMAIN log
             /\ ~Completes(r[i])
  <2>1. e[i] \in DOMAIN q /\ r[i] = q[e[i]]
    OBVIOUS
  <2> QED
    BY <2>1 DEF Ordered
<1>3. \A i \in DOMAIN r : i \in 1 .. Len(r) - 1 \/ r[i] = f
  BY <1>1
<1>4. \A i \in DOMAIN r : r[i].seq \in Nat /\ f.seq \in Nat
  <2>1. \A i \in DOMAIN r : r[i] \in Frame
    BY <1>1
  <2> QED
    BY <2>1 DEF Frame
<1>5. \A i \in DOMAIN r : r[i].seq > sent /\ (~r[i].error => r[i].seq \in DOMAIN log)
  BY <1>2, <1>3
<1>6. ASSUME NEW i \in DOMAIN r, NEW j \in DOMAIN r, i < j
      PROVE  i \in 1 .. Len(r) - 1 /\ r[i].seq < r[j].seq /\ ~Completes(r[i])
  <2>1. i \in 1 .. Len(r) - 1
    BY <1>1, <1>6
  <2>2. CASE r[j] = f
    BY <1>2, <2>1, <2>2
  <2>3. CASE j \in 1 .. Len(r) - 1
    <3>1. e[i] < e[j] /\ e[i] \in DOMAIN q /\ e[j] \in DOMAIN q
      BY <1>6, <2>1, <2>3
    <3>2. q[e[i]].seq < q[e[j]].seq
      BY <3>1 DEF Ordered
    <3> QED
      BY <1>2, <2>1, <2>3, <3>2
  <2> QED
    BY <1>3, <2>1, <2>2, <2>3
<1>7. Ordered(r, sent)
  BY <1>5, <1>6 DEF Ordered
<1>8. \A i \in DOMAIN r : r[i].seq <= f.seq
  BY <1>2, <1>3, <1>4
<1> QED
  BY <1>2, <1>7, <1>8

\* A queue after the frame f was offered to it: unchanged, or with f at its end.
LEMMA OfferedTo ==
    ASSUME NEW c \in ConnType, NEW f \in Frame,
           Ordered(c.queue, c.sent), \A i \in DOMAIN c.queue : ~Completes(c.queue[i]),
           f.seq > c.sent, \A i \in DOMAIN c.queue : c.queue[i].seq < f.seq,
           ~f.error => f.seq \in DOMAIN log
    PROVE  /\ Queued(c, f) \in ConnType
           /\ \/ Queued(c, f).queue = c.queue
              \/ /\ Ordered(Queued(c, f).queue, c.sent)
                 /\ Len(Queued(c, f).queue) > 0 /\ Last(Queued(c, f).queue) = f
                 /\ \A i \in DOMAIN Queued(c, f).queue : Queued(c, f).queue[i].seq <= f.seq
                 /\ \A i \in 1 .. Len(Queued(c, f).queue) - 1 : ~Completes(Queued(c, f).queue[i])
           /\ \A n \in {"open", "ready", "after", "sent", "ended"} : Queued(c, f)[n] = c[n]
<1> DEFINE q == c.queue
           Ends(r) == /\ r \in Seq(Frame)
                      /\ Ordered(r, c.sent)
                      /\ Len(r) > 0 /\ Last(r) = f
                      /\ \A i \in DOMAIN r : r[i].seq <= f.seq
                      /\ \A i \in 1 .. Len(r) - 1 : ~Completes(r[i])
<1>1. /\ q \in Seq(Frame) /\ c.sent \in Nat /\ DOMAIN q = 1 .. Len(q) /\ Len(q) \in Nat
      /\ Ordered(q, c.sent) /\ \A i \in DOMAIN q : ~Completes(q[i]) /\ q[i].seq < f.seq
  BY DEF ConnType
<1>2. Ends(Append(q, f))
  <2> DEFINE r == Append(q, f)
             e == [i \in 1 .. Len(r) - 1 |-> i]
  <2>1. /\ r \in Seq(Frame) /\ Len(r) = Len(q) + 1 /\ r[Len(q) + 1] = f
        /\ \A i \in 1 .. Len(q) : r[i] = q[i]
    BY <1>1, AppendProperties
  <2> HIDE DEF r, q
  <2>2. Len(r) - 1 = Len(q)
    BY <1>1, <2>1
  <2>3. e \in [1 .. Len(r) - 1 -> DOMAIN q]
    BY <1>1, <2>2
  <2>4. \A i \in 1 .. Len(r) - 1 : e[i] = i /\ r[i] = q[i]
    BY <2>1, <2>2
  <2> HIDE DEF e
  <2>5. Len(r) > 0 /\ Last(r) = f /\ r[Len(r)] = f
    BY <1>1, <2>1 DEF Last
  <2>6. \A i, j \in 1 .. Len(r) - 1 : i < j => e[i] < e[j]
    BY <2>4
  <2>7. \A i \in 1 .. Len(r) - 1 : r[i] = q[e[i]]
    BY <2>4
  <2>8. /\ Ordered(r, c.sent)
        /\ \A i \in DOMAIN r : r[i].seq <= f.seq
        /\ \A i \in 1 .. Len(r) - 1 : ~Completes(r[i])
    BY <1>1, <2>1, <2>3, <2>5, <2>6, <2>7, Prolonged
  <2> QED
    BY <2>1, <2>8, <2>5 DEF r
<1>3. ASSUME NEW places \in SUBSET DOMAIN q, places # {}
      PROVE  Ends(Instead(q, places, f))
  <2> HIDE DEF q
  <2> DEFINE r == Instead(q, places, f)
  <2>1. r \in Seq(Frame) /\ Len(r) = Len(q) /\ r[Len(q)] = f
    BY <1>1, <1>3, InsteadIs
  <2>2. PICK k \in DOMAIN q : \A i \in 1 .. Len(q) - 1 : r[i] = IF i < k THEN q[i] ELSE q[i + 1]
    BY <1>1, <1>3, InsteadIs
  <2> HIDE DEF r
  <2> DEFINE e == [i \in 1 .. Len(r) - 1 |-> IF i < k THEN i ELSE i + 1]
  <2>3. e \in [1 .. Len(r) - 1 -> DOMAIN q]
    BY <1>1, <2>1
  <2>4. \A i, j \in 1 .. Len(r) - 1 : i < j => e[i] < e[j]
    BY <1>1, <2>1
  <2>5. \A i \in 1 .. Len(r) - 1 : r[i] = q[e[i]]
    BY <2>1, <2>2
  <2> HIDE DEF e
  <2>6. Len(r) > 0
    BY <1>1, <2>1, <2>2
  <2>7. /\ Ordered(r, c.sent)
        /\ \A i \in DOMAIN r : r[i].seq <= f.seq
        /\ \A i \in 1 .. Len(r) - 1 : ~Completes(r[i])
    BY <1>1, <2>1, <2>3, <2>4, <2>5, <2>6, Prolonged
  <2>8. Last(r) = f
    BY <2>1 DEF Last
  <2> QED
    BY <2>1, <2>6, <2>7, <2>8 DEF r
<1>4. ASSUME NEW r, Ends(r)
      PROVE  /\ [c EXCEPT !.queue = r] \in ConnType /\ [c EXCEPT !.queue = r].queue = r
             /\ \A n \in {"open", "ready", "after", "sent", "ended"} : [c EXCEPT !.queue = r][n] = c[n]
  BY <1>4 DEF ConnType
<1>5. /\ [c EXCEPT !.closed = TRUE, !.closing = TRUE] \in ConnType
      /\ [c EXCEPT !.closed = TRUE, !.closing = TRUE].queue = q
      /\ \A n \in {"open", "ready", "after", "sent", "ended"} :
            [c EXCEPT !.closed = TRUE, !.closing = TRUE][n] = c[n]
  BY DEF ConnType
<1> DEFINE d == Queued(c, f)
           droppable == {i \in DOMAIN q : Drops(q[i])}
           other == {i \in DOMAIN q : ~Completes(q[i])}
<1>6. \/ d = [c EXCEPT !.queue = Append(q, f)]
      \/ droppable # {} /\ d = [c EXCEPT !.queue = Instead(q, droppable, f)]
      \/ other # {} /\ d = [c EXCEPT !.queue = Instead(q, other, f)]
      \/ d = c
      \/ d = [c EXCEPT !.closed = TRUE, !.closing = TRUE]
  BY DEF Queued
<1>7. droppable \in SUBSET DOMAIN q /\ other \in SUBSET DOMAIN q
  OBVIOUS
<1> HIDE DEF d, droppable, other, Ends
<1>8. \/ d = c
      \/ d = [c EXCEPT !.closed = TRUE, !.closing = TRUE]
      \/ \E r : Ends(r) /\ d = [c EXCEPT !.queue = r]
  BY <1>2, <1>3, <1>6, <1>7
<1>9. /\ d \in ConnType
      /\ d.queue = q \/ Ends(d.queue)
      /\ \A n \in {"open", "ready", "after", "sent", "ended"} : d[n] = c[n]
  <2>1. CASE d = c
    BY <2>1
  <2>2. CASE d = [c EXCEPT !.closed = TRUE, !.closing = TRUE]
    BY <1>5, <2>2
  <2>3. CASE \E r : Ends(r) /\ d = [c EXCEPT !.queue = r]
    <3> PICK r : Ends(r) /\ d = [c EXCEPT !.queue = r]
      BY <2>3
    <3> QED
      BY <1>4
  <2> QED
    BY <1>8, <2>1, <2>2, <2>3
<1> QED
  BY <1>9 DEF d, Ends

LEMMA EventIs ==
    ASSUME log \in Seq(Type), NEW s \in DOMAIN log
    PROVE  Event(s) \in Frame /\ Event(s).seq = s /\ s \in Nat \ {0} /\ ~Event(s).error
BY DEF Event, Frame

LEMMA QueuedType ==
    ASSUME NEW c \in ConnType, NEW f \in Frame
    PROVE  Queued(c, f) \in ConnType
<1> DEFINE q == c.queue
           droppable == {i \in DOMAIN q : Drops(q[i])}
           other == {i \in DOMAIN q : ~Completes(q[i])}
<1>1. q \in Seq(Frame)
  BY DEF ConnType
<1>2. Append(q, f) \in Seq(Frame)
  BY <1>1
<1>3. droppable # {} => Instead(q, droppable, f) \in Seq(Frame)
  BY <1>1, InsteadIs
<1>4. other # {} => Instead(q, other, f) \in Seq(Frame)
  BY <1>1, InsteadIs
<1>5. \A r \in Seq(Frame) : [c EXCEPT !.queue = r] \in ConnType
  BY DEF ConnType
<1>6. [c EXCEPT !.closed = TRUE, !.closing = TRUE] \in ConnType
  BY DEF ConnType
<1> DEFINE d == Queued(c, f)
<1>7. \/ d = [c EXCEPT !.queue = Append(q, f)]
      \/ droppable # {} /\ d = [c EXCEPT !.queue = Instead(q, droppable, f)]
      \/ other # {} /\ d = [c EXCEPT !.queue = Instead(q, other, f)]
      \/ d = c
      \/ d = [c EXCEPT !.closed = TRUE, !.closing = TRUE]
  BY DEF Queued
<1> HIDE DEF d, droppable, other, q
<1>8. d \in ConnType
  BY <1>2, <1>3, <1>4, <1>5, <1>6, <1>7
<1> QED
  BY <1>8 DEF d

LEMMA EnqueueType ==
    ASSUME NEW c \in ConnType, NEW f \in Frame
    PROVE  Enqueue(c, f) \in ConnType
<1> DEFINE d == Queued(c, f)
<1>1. d \in ConnType
  BY QueuedType
<1>2. [c EXCEPT !.closing = TRUE] \in ConnType
  BY DEF ConnType
<1>3. \/ Enqueue(c, f) = c \/ Enqueue(c, f) = [c EXCEPT !.closing = TRUE]
      \/ Enqueue(c, f) = d \/ Enqueue(c, f) = [d EXCEPT !.ended = TRUE, !.closing = TRUE]
  BY DEF Enqueue
<1> HIDE DEF d
<1>4. [d EXCEPT !.ended = TRUE, !.closing = TRUE] \in ConnType
  BY <1>1 DEF ConnType
<1> QED
  BY <1>1, <1>2, <1>3, <1>4

\* An event that the broker passes on leaves a connection sound.
LEMMA EnqueueSound ==
    ASSUME log \in Seq(Type), NEW c \in ConnType, NEW hi \in Nat, NEW s \in DOMAIN log,
           hi < s, c.ready, SoundConn(c, hi)
    PROVE  /\ SoundConn(Enqueue(c, Event(s)), s)
           /\ \A n \in {"open", "ready", "after", "sent"} : Enqueue(c, Event(s))[n] = c[n]
<1> DEFINE f == Event(s)
           d == Queued(c, f)
           e == Enqueue(c, f)
<1>1. f \in Frame /\ f.seq = s /\ s \in Nat /\ ~f.error
  BY EventIs
<1>2. c.queue \in Seq(Frame) /\ c.sent \in Nat /\ c.after \in Nat
  BY DEF ConnType
<1>3. \A i \in DOMAIN c.queue : c.queue[i].seq \in Nat /\ c.queue[i].seq < s
  <2>1. \A i \in DOMAIN c.queue : c.queue[i] \in Frame
    BY <1>2
  <2> QED
    BY <1>1, <2>1 DEF SoundConn, Frame
<1> HIDE DEF f, d, e
<1>4. SoundConn(c, s) /\ SoundConn([c EXCEPT !.closing = TRUE], s)
  <2>1. SoundConn(c, s)
    BY <1>1, <1>2, <1>3 DEF SoundConn
  <2> DEFINE b == [c EXCEPT !.closing = TRUE]
  <2>2. /\ b.queue = c.queue /\ b.sent = c.sent /\ b.ended = c.ended /\ b.ready = c.ready
        /\ b.open = c.open /\ b.after = c.after
    BY DEF ConnType
  <2> HIDE DEF b
  <2>3. SoundConn(b, s)
    BY <2>1, <2>2 DEF SoundConn
  <2> QED
    BY <2>1, <2>3 DEF b
<1>5. CASE f.seq <= c.after \/ c.ended
  BY <1>4, <1>5 DEF Enqueue, e, f
<1>6. CASE ~(f.seq <= c.after \/ c.ended) /\ c.closed
  <2>1. e = [c EXCEPT !.closing = TRUE]
    BY <1>6 DEF Enqueue, e
  <2>2. \A n \in {"open", "ready", "after", "sent"} : e[n] = c[n]
    BY <2>1 DEF ConnType
  <2> QED
    BY <1>4, <2>1, <2>2 DEF e, f
<1>7. CASE ~(f.seq <= c.after \/ c.ended) /\ ~c.closed
  <2>1. /\ Ordered(c.queue, c.sent) /\ \A i \in DOMAIN c.queue : ~Completes(c.queue[i])
        /\ f.seq > c.sent /\ \A i \in DOMAIN c.queue : c.queue[i].seq < f.seq
        /\ f.seq \in DOMAIN log
    BY <1>1, <1>2, <1>3, <1>7 DEF SoundConn
  <2>2. /\ d \in ConnType
        /\ \/ d.queue = c.queue
           \/ /\ Ordered(d.queue, c.sent)
              /\ Len(d.queue) > 0 /\ Last(d.queue) = f
              /\ \A i \in DOMAIN d.queue : d.queue[i].seq <= f.seq
              /\ \A i \in 1 .. Len(d.queue) - 1 : ~Completes(d.queue[i])
        /\ \A n \in {"open", "ready", "after", "sent", "ended"} : d[n] = c[n]
    BY <1>1, <2>1, OfferedTo DEF d
  <2>3. /\ d.open = c.open /\ d.ready = c.ready /\ d.after = c.after /\ d.sent = c.sent
        /\ d.ended = c.ended
    BY <2>2
  <2> DEFINE ends == Completes(f) /\ Len(d.queue) > 0 /\ Last(d.queue) = f
  <2>4. e = IF ends THEN [d EXCEPT !.ended = TRUE, !.closing = TRUE] ELSE d
    BY <1>7 DEF Enqueue, e, d
  <2>5. /\ e.queue = d.queue /\ e.open = c.open /\ e.ready = c.ready /\ e.after = c.after
        /\ e.sent = c.sent /\ (ends => e.ended)
    BY <2>2, <2>3, <2>4 DEF ConnType
  <2>6. /\ Ordered(d.queue, c.sent)
        /\ \A i \in DOMAIN d.queue : d.queue[i].seq <= s
    BY <1>1, <1>3, <2>1, <2>2
  <2>7. ~ends => \A i \in DOMAIN d.queue : ~Completes(d.queue[i])
    <3> SUFFICES ASSUME ~ends, d.queue # c.queue, NEW i \in DOMAIN d.queue
                 PROVE  ~Completes(d.queue[i])
      BY <2>1
    <3>1. d.queue \in Seq(Frame)
      BY <2>2 DEF ConnType
    <3>2. d.queue[Len(d.queue)] = f /\ ~Completes(f)
      BY <2>2 DEF Last
    <3>3. i = Len(d.queue) \/ i \in 1 .. Len(d.queue) - 1
      BY <3>1
    <3> QED
      BY <2>2, <3>2, <3>3
  <2> HIDE DEF ends
  <2>8. SoundConn(e, s)
    <3>1. e.open /\ (e.sent <= e.after \/ e.sent <= s)
      BY <1>1, <1>2, <2>5 DEF SoundConn
    <3> QED
      BY <2>5, <2>6, <2>7, <3>1 DEF SoundConn
  <2> QED
    BY <2>5, <2>8 DEF e, f
<1> QED
  BY <1>5, <1>6, <1>7

\* Queueing computes what its definition says, one event after the other.
LEMMA QueueingIs ==
    ASSUME log \in Seq(Type), NEW c \in ConnType, NEW events \in Seq(DOMAIN log)
    PROVE  /\ Queueing(c, events)[0] = c
           /\ \A n \in 1 .. Len(events) :
                 Queueing(c, events)[n] = Enqueue(Queueing(c, events)[n - 1], Event(events[n]))
<1> DEFINE N == Len(events)
           Defines(g) == g = [n \in 0 .. N |-> IF n = 0 THEN c ELSE Enqueue(g[n - 1], Event(events[n]))]
           step == [n \in 1 .. N |-> [d \in ConnType |-> Enqueue(d, Event(events[n]))]]
<1>1. N \in Nat /\ \A n \in 1 .. N : events[n] \in DOMAIN log
  OBVIOUS
<1>2. step \in [1 .. N -> [ConnType -> ConnType]]
  BY <1>1, EventIs, EnqueueType
<1>3. \A n \in 1 .. N, d \in ConnType : step[n][d] = Enqueue(d, Event(events[n]))
  OBVIOUS
<1> HIDE DEF step, N
<1>4. PICK g \in [0 .. N -> ConnType] : Computes(g, N, c, step)
  BY <1>1, <1>2, Recursion
<1>. USE DEF Computes
<1>5. ASSUME NEW n \in 0 .. N
      PROVE  g[n] = IF n = 0 THEN c ELSE Enqueue(g[n - 1], Event(events[n]))
  <2>1. CASE n = 0
    BY <1>4, <2>1
  <2>2. CASE n # 0
    <3>1. n \in 1 .. N /\ n - 1 \in 0 .. N
      BY <1>1, <2>2
    <3> QED
      BY <1>3, <1>4, <2>2, <3>1
  <2> QED
    BY <2>1, <2>2
<1>6. Defines(g)
  BY <1>5
<1>7. Queueing(c, events) = CHOOSE h : Defines(h)
  BY DEF Queueing, N
<1>8. Defines(Queueing(c, events))
  <2> HIDE DEF Defines
  <2> QED
    BY <1>6, <1>7
<1> DEFINE q == Queueing(c, events)
<1> HIDE DEF q
<1>9. q = [n \in 0 .. N |-> IF n = 0 THEN c ELSE Enqueue(q[n - 1], Event(events[n]))]
  BY <1>8 DEF q
<1>10. q[0] = c
  BY <1>1, <1>9
<1>11. \A n \in 1 .. N : q[n] = Enqueue(q[n - 1], Event(events[n]))
  <2> SUFFICES ASSUME NEW n \in 1 .. N
               PROVE  q[n] = Enqueue(q[n - 1], Event(events[n]))
    OBVIOUS
  <2>1. n \in 0 .. N /\ n # 0
    BY <1>1
  <2> QED
    BY <1>9, <2>1
<1> QED
  BY <1>10, <1>11 DEF q, N

-----------------------------------------------------------------------------
(* The broker *)

BufferType == [made : BOOLEAN, events : Seq(Seqs), completed : BOOLEAN, notified : 0 .. MaxEvents]

StateType == [buffer : BufferType, conn : [Viewers -> ConnType]]

\* What the broker holds has been published, and no connection is ahead of it.
SoundState(state) ==
    /\ ToSet(state.buffer.events) \subseteq DOMAIN log
    /\ \A v \in Viewers : SoundConn(state.conn[v], state.buffer.notified)

\* Connections are what they were up to their queues, and the broker has not forgotten.
Follows(state, next) ==
    /\ next.buffer.made = state.buffer.made
    /\ state.buffer.notified <= next.buffer.notified
    /\ \A v \in Viewers : \A n \in {"open", "ready", "after", "sent"} : next.conn[v][n] = state.conn[v][n]

LEMMA SoundLater ==
    ASSUME NEW c \in ConnType, NEW hi \in Nat, NEW lo \in Nat, lo <= hi, SoundConn(c, lo)
    PROVE  SoundConn(c, hi)
<1>1. c.sent \in Nat /\ c.after \in Nat /\ \A i \in DOMAIN c.queue : c.queue[i].seq \in Nat
  <2>1. c.queue \in Seq(Frame)
    BY DEF ConnType
  <2>2. \A i \in DOMAIN c.queue : c.queue[i] \in Frame
    BY <2>1
  <2> QED
    BY <2>2 DEF ConnType, Frame
<1> QED
  BY <1>1 DEF SoundConn

\* The rows the hot buffer keeps when it gets another.
LEMMA WindowIs ==
    ASSUME NEW R, NEW e \in Seq(R), NEW s \in R
    PROVE  LET w == IF Len(Append(e, s)) > MaxBuffered THEN Tail(Append(e, s)) ELSE Append(e, s)
           IN  w \in Seq(R)
<1>1. Append(e, s) \in Seq(R) /\ Append(e, s) # <<>>
  BY AppendProperties
<1>2. Tail(Append(e, s)) \in Seq(R)
  BY <1>1, HeadTailProperties
<1> QED
  BY <1>1, <1>2

LEMMA RangeIs ==
    ASSUME NEW R, NEW T, NEW e \in Seq(T)
    PROVE  ToSet(e) \subseteq R <=> e \in Seq(R)
<1>1. DOMAIN e = 1 .. Len(e) /\ Len(e) \in Nat /\ e \in [1 .. Len(e) -> T]
  BY LenProperties
<1>2. ASSUME ToSet(e) \subseteq R
      PROVE  e \in Seq(R)
  <2>1. e \in [1 .. Len(e) -> R]
    BY <1>1, <1>2 DEF ToSet
  <2> QED
    BY <1>1, <2>1, SeqDef
<1>3. ASSUME e \in Seq(R)
      PROVE  ToSet(e) \subseteq R
  BY <1>1, <1>3 DEF ToSet
<1> QED
  BY <1>2, <1>3

LEMMA NotifyType ==
    ASSUME log \in Seq(Type), Len(log) <= MaxEvents,
           NEW state \in StateType, NEW s \in DOMAIN log
    PROVE  Notify(state, s) \in StateType
<1>1. s \in Seqs /\ MaxEvents \in Nat /\ s \in 0 .. MaxEvents
  BY StreamAssumption DEF Seqs
<1>2. state.buffer \in BufferType /\ state.conn \in [Viewers -> ConnType]
  BY DEF StateType
<1> DEFINE e == state.buffer.events
           w == IF Len(Append(e, s)) > MaxBuffered THEN Tail(Append(e, s)) ELSE Append(e, s)
           b == [state.buffer EXCEPT !.events = w, !.completed = @ \/ log[s] = "completion", !.notified = s]
           cs == [v \in Viewers |-> IF v \in Sources /\ state.conn[v].ready
                                    THEN Enqueue(state.conn[v], Event(s)) ELSE state.conn[v]]
<1>3. w \in Seq(Seqs)
  BY <1>1, <1>2, WindowIs DEF BufferType
<1>4. Notify(state, s) = state \/ Notify(state, s) = [buffer |-> b, conn |-> cs]
  BY DEF Notify
<1>5. cs \in [Viewers -> ConnType]
  BY <1>2, EventIs, EnqueueType
<1> HIDE DEF w, cs
<1>6. b \in BufferType
  BY <1>1, <1>2, <1>3 DEF BufferType
<1> HIDE DEF b
<1> QED
  BY <1>4, <1>5, <1>6 DEF StateType

\* Events that are passed on leave all connections sound.
LEMMA NotifySound ==
    ASSUME log \in Seq(Type), Len(log) <= MaxEvents,
           NEW state \in StateType, SoundState(state), NEW s \in DOMAIN log
    PROVE  SoundState(Notify(state, s)) /\ Follows(state, Notify(state, s))
<1>1. s \in Seqs /\ MaxEvents \in Nat /\ s \in 0 .. MaxEvents
  BY StreamAssumption DEF Seqs
<1>2. state.buffer \in BufferType /\ state.conn \in [Viewers -> ConnType]
  BY DEF StateType
<1>3. state.buffer.notified \in 0 .. MaxEvents /\ state.buffer.events \in Seq(Seqs)
  BY <1>2 DEF BufferType
<1> DEFINE e == state.buffer.events
           w == IF Len(Append(e, s)) > MaxBuffered THEN Tail(Append(e, s)) ELSE Append(e, s)
           b == [state.buffer EXCEPT !.events = w, !.completed = @ \/ log[s] = "completion", !.notified = s]
           cs == [v \in Viewers |-> IF v \in Sources /\ state.conn[v].ready
                                    THEN Enqueue(state.conn[v], Event(s)) ELSE state.conn[v]]
<1>4. CASE ~state.buffer.made \/ s <= state.buffer.notified
  <2>1. Notify(state, s) = state
    BY <1>4 DEF Notify
  <2>2. Follows(state, state)
    BY <1>3 DEF Follows
  <2> QED
    BY <2>1, <2>2
<1>5. CASE ~(~state.buffer.made \/ s <= state.buffer.notified)
  <2>1. Notify(state, s) = [buffer |-> b, conn |-> cs]
    BY <1>5 DEF Notify
  <2>2. e \in Seq(DOMAIN log)
    BY <1>3, RangeIs DEF SoundState
  <2> HIDE DEF e
  <2>3. w \in Seq(DOMAIN log)
    BY <2>2, WindowIs
  <2>4. ToSet(w) \subseteq DOMAIN log
    <3> HIDE DEF w
    <3> QED
      BY <2>3, RangeIs
  <2>5. \A v \in Viewers :
            cs[v] = IF v \in Sources /\ state.conn[v].ready
                    THEN Enqueue(state.conn[v], Event(s)) ELSE state.conn[v]
    OBVIOUS
  <2> HIDE DEF w, cs
  <2>6. b.events = w /\ b.notified = s /\ b.made = state.buffer.made
    BY <1>2 DEF BufferType
  <2> HIDE DEF b
  <2>7. ASSUME NEW v \in Viewers
        PROVE  /\ SoundConn(cs[v], s)
               /\ \A n \in {"open", "ready", "after", "sent"} : cs[v][n] = state.conn[v][n]
    <3>1. /\ state.conn[v] \in ConnType /\ SoundConn(state.conn[v], state.buffer.notified)
          /\ state.buffer.notified \in Nat /\ s \in Nat /\ state.buffer.notified < s
      BY <1>1, <1>2, <1>3, <1>5 DEF SoundState
    <3>2. CASE v \in Sources /\ state.conn[v].ready
      <4>1. cs[v] = Enqueue(state.conn[v], Event(s))
        BY <2>5, <3>2
      <4> QED
        BY <3>1, <3>2, <4>1, EnqueueSound
    <3>3. CASE ~(v \in Sources /\ state.conn[v].ready)
      <4>1. cs[v] = state.conn[v]
        BY <2>5, <3>3
      <4> QED
        BY <3>1, <4>1, SoundLater
    <3> QED
      BY <3>2, <3>3
  <2> DEFINE next == [buffer |-> b, conn |-> cs]
  <2>8. next.buffer = b /\ next.conn = cs
    OBVIOUS
  <2> HIDE DEF next
  <2>9. SoundState(next)
    BY <2>4, <2>6, <2>7, <2>8 DEF SoundState
  <2>10. Follows(state, next)
    BY <1>1, <1>3, <1>5, <2>6, <2>7, <2>8 DEF Follows
  <2> QED
    BY <2>1, <2>9, <2>10 DEF next
<1> QED
  BY <1>4, <1>5

\* Notifying computes what its definition says, one event after the other.
LEMMA NotifyingIs ==
    ASSUME log \in Seq(Type), Len(log) <= MaxEvents, NEW events \in Seq(DOMAIN log),
           [buffer |-> buffer, conn |-> conn] \in StateType
    PROVE  /\ Notifying(events)[0] = [buffer |-> buffer, conn |-> conn]
           /\ \A n \in 1 .. Len(events) :
                 Notifying(events)[n] = Notify(Notifying(events)[n - 1], events[n])
<1> DEFINE N == Len(events)
           now == [buffer |-> buffer, conn |-> conn]
           Defines(g) == g = [n \in 0 .. N |-> IF n = 0 THEN now ELSE Notify(g[n - 1], events[n])]
           step == [n \in 1 .. N |-> [d \in StateType |-> Notify(d, events[n])]]
<1>1. N \in Nat /\ \A n \in 1 .. N : events[n] \in DOMAIN log
  OBVIOUS
<1>2. step \in [1 .. N -> [StateType -> StateType]]
  BY <1>1, NotifyType
<1>3. \A n \in 1 .. N, d \in StateType : step[n][d] = Notify(d, events[n])
  OBVIOUS
<1>4. Notifying(events) = CHOOSE h : Defines(h)
  BY DEF Notifying
<1>5. now \in StateType
  OBVIOUS
<1> HIDE DEF step, N, now
<1>6. PICK g \in [0 .. N -> StateType] : Computes(g, N, now, step)
  BY <1>1, <1>2, <1>5, Recursion
<1>7. ASSUME NEW n \in 0 .. N
      PROVE  g[n] = IF n = 0 THEN now ELSE Notify(g[n - 1], events[n])
  <2>1. CASE n = 0
    BY <1>6, <2>1 DEF Computes
  <2>2. CASE n # 0
    <3>1. n \in 1 .. N /\ n - 1 \in 0 .. N
      BY <1>1, <2>2
    <3> QED
      BY <1>3, <1>6, <2>2, <3>1 DEF Computes
  <2> QED
    BY <2>1, <2>2
<1>8. Defines(g)
  BY <1>7
<1>9. Defines(Notifying(events))
  <2> HIDE DEF Defines
  <2> QED
    BY <1>4, <1>8
<1> DEFINE q == Notifying(events)
<1> HIDE DEF q
<1>10. q = [n \in 0 .. N |-> IF n = 0 THEN now ELSE Notify(q[n - 1], events[n])]
  BY <1>9 DEF q
<1>11. q[0] = now
  BY <1>1, <1>10
<1>12. ASSUME NEW n \in 1 .. N
       PROVE  q[n] = Notify(q[n - 1], events[n])
  <2>1. n \in 0 .. N /\ n # 0
    BY <1>1
  <2> QED
    BY <1>10, <2>1
<1> QED
  BY <1>11, <1>12 DEF q, N, now

LEMMA FollowsOn ==
    ASSUME NEW a \in StateType, NEW b \in StateType, NEW c \in StateType,
           Follows(a, b), Follows(b, c)
    PROVE  Follows(a, c)
<1>1. a.buffer.notified \in Nat /\ b.buffer.notified \in Nat /\ c.buffer.notified \in Nat
  <2>1. MaxEvents \in Nat
    BY StreamAssumption
  <2> QED
    BY <2>1 DEF StateType, BufferType
<1> QED
  BY <1>1 DEF Follows

\* A poll that passes on what it read leaves all connections sound.
LEMMA NotifyAllSound ==
    ASSUME log \in Seq(Type), Len(log) <= MaxEvents, NEW events \in Seq(DOMAIN log),
           [buffer |-> buffer, conn |-> conn] \in StateType,
           SoundState([buffer |-> buffer, conn |-> conn])
    PROVE  /\ NotifyAll(events) \in StateType
           /\ SoundState(NotifyAll(events))
           /\ Follows([buffer |-> buffer, conn |-> conn], NotifyAll(events))
<1> DEFINE N == Len(events)
           now == [buffer |-> buffer, conn |-> conn]
           q == Notifying(events)
           T == {n \in 0 .. N : q[n] \in StateType /\ SoundState(q[n]) /\ Follows(now, q[n])}
<1>1. N \in Nat /\ \A n \in 1 .. N : events[n] \in DOMAIN log
  OBVIOUS
<1>2. q[0] = now /\ \A n \in 1 .. N : q[n] = Notify(q[n - 1], events[n])
  BY NotifyingIs
<1>3. now \in StateType /\ SoundState(now)
  OBVIOUS
<1>4. NotifyAll(events) = q[N]
  BY DEF NotifyAll
<1> HIDE DEF q, N, now
<1>5. 0 \in T
  <2>1. Follows(now, now)
    <3>1. now.buffer.notified \in Nat
      <4>1. MaxEvents \in Nat
        BY StreamAssumption
      <4> QED
        BY <1>3, <4>1 DEF StateType, BufferType
    <3> QED
      BY <3>1 DEF Follows
  <2> QED
    BY <1>1, <1>2, <1>3, <2>1
<1>6. ASSUME NEW n \in 0 .. N - 1, n \in T
      PROVE  n + 1 \in T
  <2>1. q[n] \in StateType /\ SoundState(q[n]) /\ Follows(now, q[n])
    BY <1>6
  <2>2. n + 1 \in 1 .. N /\ (n + 1) - 1 = n
    BY <1>1
  <2>3. q[n + 1] = Notify(q[n], events[n + 1]) /\ events[n + 1] \in DOMAIN log
    BY <1>1, <1>2, <2>2
  <2>4. q[n + 1] \in StateType
    BY <2>1, <2>3, NotifyType
  <2>5. SoundState(q[n + 1]) /\ Follows(q[n], q[n + 1])
    BY <2>1, <2>3, NotifySound
  <2>6. Follows(now, q[n + 1])
    BY <1>3, <2>1, <2>4, <2>5, FollowsOn
  <2> QED
    BY <1>1, <2>2, <2>4, <2>5, <2>6
<1>7. N \in T
  <2> HIDE DEF T
  <2>1. \A n \in 0 .. N : n \in T
    BY <1>1, <1>5, <1>6, Induct
  <2> QED
    BY <1>1, <2>1
<1> QED
  BY <1>4, <1>7 DEF now

\* A replay in order that follows what was acknowledged leaves its connection sound.
LEMMA EnqueueAllSound ==
    ASSUME log \in Seq(Type), NEW c \in ConnType, NEW events \in Seq(DOMAIN log),
           \A i, j \in DOMAIN events : i < j => events[i] < events[j],
           c.ready, SoundConn(c, 0),
           NEW hi \in Nat, \A i \in DOMAIN events : events[i] <= hi
    PROVE  /\ EnqueueAll(c, events) \in ConnType
           /\ SoundConn(EnqueueAll(c, events), hi)
           /\ \A n \in {"open", "ready", "after", "sent"} : EnqueueAll(c, events)[n] = c[n]
<1> DEFINE N == Len(events)
           q == Queueing(c, events)
           top(n) == IF n = 0 THEN 0 ELSE events[n]
           T == {n \in 0 .. N : /\ q[n] \in ConnType
                                /\ SoundConn(q[n], top(n))
                                /\ \A x \in {"open", "ready", "after", "sent"} : q[n][x] = c[x]}
<1>1. /\ N \in Nat /\ DOMAIN events = 1 .. N
      /\ \A n \in 1 .. N : events[n] \in DOMAIN log /\ events[n] \in Nat \ {0}
  BY EventIs
<1>2. q[0] = c /\ \A n \in 1 .. N : q[n] = Enqueue(q[n - 1], Event(events[n]))
  BY QueueingIs
<1>3. EnqueueAll(c, events) = q[N]
  BY DEF EnqueueAll
<1> HIDE DEF q, N
<1>4. 0 \in T
  BY <1>1, <1>2
<1>5. ASSUME NEW n \in 0 .. N - 1, n \in T
      PROVE  n + 1 \in T
  <2>1. /\ q[n] \in ConnType /\ SoundConn(q[n], top(n)) /\ q[n].ready
        /\ \A x \in {"open", "ready", "after", "sent"} : q[n][x] = c[x]
    BY <1>5
  <2>2. n + 1 \in 1 .. N /\ (n + 1) - 1 = n /\ n + 1 # 0
    BY <1>1
  <2>3. q[n + 1] = Enqueue(q[n], Event(events[n + 1]))
    BY <1>2, <2>2
  <2>4. top(n) \in Nat /\ top(n) < events[n + 1]
    <3>1. CASE n = 0
      BY <1>1, <2>2, <3>1
    <3>2. CASE n # 0
      <4>1. n \in 1 .. N /\ n < n + 1
        BY <1>1, <3>2
      <4>2. events[n] < events[n + 1]
        BY <1>1, <2>2, <4>1
      <4> QED
        BY <1>1, <3>2, <4>1, <4>2
    <3> QED
      BY <3>1, <3>2
  <2> HIDE DEF top
  <2>5. events[n + 1] \in DOMAIN log /\ Event(events[n + 1]) \in Frame
    BY <1>1, <2>2, EventIs
  <2>6. q[n + 1] \in ConnType
    BY <2>1, <2>3, <2>5, EnqueueType
  <2>7. /\ SoundConn(q[n + 1], events[n + 1])
        /\ \A x \in {"open", "ready", "after", "sent"} : q[n + 1][x] = q[n][x]
    BY <2>1, <2>3, <2>4, <2>5, EnqueueSound
  <2>8. top(n + 1) = events[n + 1]
    BY <2>2 DEF top
  <2> QED
    BY <1>1, <2>1, <2>2, <2>6, <2>7, <2>8
<1>6. N \in T
  <2> HIDE DEF T
  <2>1. \A n \in 0 .. N : n \in T
    BY <1>1, <1>4, <1>5, Induct
  <2> QED
    BY <1>1, <2>1
<1>7. top(N) \in Nat /\ top(N) <= hi
  BY <1>1
<1> HIDE DEF top
<1>8. SoundConn(q[N], hi)
  BY <1>6, <1>7, SoundLater
<1> QED
  BY <1>3, <1>6, <1>8

LEMMA MaxEventsNat == MaxEvents \in Nat /\ MaxReplay \in Nat \ {0} /\ None \notin Viewers
BY StreamAssumption

\* What a replay hands over is published, in order, and no later than what the broker knows of.
LEMMA ReplayIs ==
    ASSUME log \in Seq(Type), Len(log) <= MaxEvents, buffer \in BufferType,
           op.snapshot \subseteq DOMAIN log, ToSet(buffer.events) \subseteq DOMAIN log,
           NEW after \in Nat
    PROVE  /\ Replay(after).events \in Seq(DOMAIN log)
           /\ \A i, j \in DOMAIN Replay(after).events :
                 i < j => Replay(after).events[i] < Replay(after).events[j]
           /\ Replay(after).max \in 0 .. MaxEvents
           /\ \A i \in DOMAIN Replay(after).events : Replay(after).events[i] <= Replay(after).max
           /\ Replay(after).next \in Nat \ {0} /\ Replay(after).next > after
           /\ Replay(after).completed \in BOOLEAN
<1> DEFINE all == op.snapshot \cup ToSet(buffer.events)
           later == {s \in all : s > after}
           events == {s \in later : Cardinality({t \in later : t < s}) < MaxReplay}
<1>1. all \subseteq DOMAIN log /\ DOMAIN log = 1 .. Len(log) /\ Len(log) \in Nat /\ MaxEvents \in Nat
  BY MaxEventsNat
<1>2. events \subseteq all
  OBVIOUS
<1>3. /\ Replay(after).events = Sorted(events)
      /\ Replay(after).max = Max(all \cup {0})
      /\ Replay(after).next = Max(events \cup {after}) + 1
      /\ Replay(after).completed = IF buffer.made THEN buffer.completed
                                   ELSE \E s \in all : log[s] = "completion"
  BY DEF Replay
<1> HIDE DEF all, events
<1>4. /\ Sorted(events) \in Seq(events)
      /\ \A i, j \in DOMAIN Sorted(events) : i < j => Sorted(events)[i] < Sorted(events)[j]
  <2>1. events \subseteq 0 .. MaxEvents
    BY <1>1, <1>2
  <2> QED
    BY <1>1, <2>1, SortedOrder
<1>5. Max(all \cup {0}) \in 0 .. MaxEvents /\ \A s \in all : s <= Max(all \cup {0})
  <2>1. all \cup {0} \subseteq 0 .. MaxEvents /\ all \cup {0} # {}
    BY <1>1
  <2> QED
    BY <1>1, <2>1, Greatest
<1>6. Max(events \cup {after}) \in Nat /\ Max(events \cup {after}) >= after
  <2>1. events \cup {after} \subseteq 0 .. MaxEvents + after /\ events \cup {after} # {}
    BY <1>1, <1>2
  <2>2. MaxEvents + after \in Nat
    BY <1>1
  <2> QED
    BY <2>1, <2>2, Greatest
<1>7. Sorted(events) \in Seq(all)
  BY <1>2, <1>4
<1>8. \A i \in DOMAIN Sorted(events) : Sorted(events)[i] \in all
  BY <1>7
<1>9. Sorted(events) \in Seq(DOMAIN log)
  BY <1>1, <1>7
<1>10. Replay(after).completed \in BOOLEAN
  BY <1>3 DEF BufferType
<1>11. Replay(after).next \in Nat \ {0} /\ Replay(after).next > after
  BY <1>3, <1>6
<1>12. Replay(after).max \in 0 .. MaxEvents /\ \A s \in all : s <= Replay(after).max
  BY <1>3, <1>5
<1>13. \A i \in DOMAIN Replay(after).events : Replay(after).events[i] <= Replay(after).max
  BY <1>3, <1>8, <1>12
<1> QED
  BY <1>3, <1>4, <1>9, <1>10, <1>11, <1>12, <1>13

LEMMA UnconnectedIs ==
    /\ Unconnected \in ConnType
    /\ ~Unconnected.open /\ ~Unconnected.ready /\ Unconnected.queue = <<>> /\ ~Unconnected.ended
    /\ \A hi : SoundConn(Unconnected, hi)
<1>1. <<>> \in Seq(Frame) /\ DOMAIN <<>> = {}
  BY EmptySeq
<1>2. /\ Unconnected \in ConnType
      /\ ~Unconnected.open /\ ~Unconnected.ready /\ Unconnected.queue = <<>> /\ ~Unconnected.ended
  BY <1>1 DEF Unconnected, ConnType
<1>3. \A hi : SoundConn(Unconnected, hi)
  BY <1>1, <1>2 DEF SoundConn, Ordered
<1> QED
  BY <1>2, <1>3

\* A connection that opens is sound as far as the broker then is.
LEMMA OpenedSound ==
    ASSUME log \in Seq(Type), Len(log) <= MaxEvents, buffer \in BufferType,
           op.snapshot \subseteq DOMAIN log, ToSet(buffer.events) \subseteq DOMAIN log,
           NEW after \in Nat, NEW hi \in Nat, Replay(after).max <= hi
    PROVE  /\ Opened(after, Replay(after)) \in ConnType
           /\ SoundConn(Opened(after, Replay(after)), hi)
           /\ Opened(after, Replay(after)).sent = after
<1> DEFINE replay == Replay(after)
           c == [Unconnected EXCEPT !.open = TRUE, !.after = after, !.sent = after]
           r == [c EXCEPT !.ready = TRUE]
           d == EnqueueAll(r, replay.events)
           failed == [c EXCEPT !.queue = <<[seq |-> replay.next, error |-> TRUE]>>, !.closing = TRUE]
           ends == /\ replay.completed
                   /\ ~\E s \in ToSet(replay.events) : log[s] = "completion"
<1>1. /\ replay.events \in Seq(DOMAIN log)
      /\ \A i, j \in DOMAIN replay.events : i < j => replay.events[i] < replay.events[j]
      /\ replay.max \in 0 .. MaxEvents
      /\ \A i \in DOMAIN replay.events : replay.events[i] <= replay.max
      /\ replay.next \in Nat \ {0} /\ replay.next > after
      /\ replay.completed \in BOOLEAN
  BY ReplayIs
<1>2. Opened(after, replay) = IF replay.status # "ok" THEN failed ELSE [d EXCEPT !.closing = @ \/ ends]
  BY DEF Opened
<1> HIDE DEF replay, ends
<1>3. c \in ConnType /\ c.open /\ c.after = after /\ c.sent = after /\ ~c.ready /\ c.queue = <<>>
  BY UnconnectedIs DEF ConnType
<1> HIDE DEF c
<1>4. /\ r \in ConnType /\ r.open /\ r.after = after /\ r.sent = after /\ r.ready
      /\ r.queue = <<>> /\ r.ended = c.ended
  BY <1>3 DEF ConnType
<1>5. failed \in ConnType /\ SoundConn(failed, hi) /\ failed.sent = after
  <2> DEFINE f == [seq |-> replay.next, error |-> TRUE]
  <2>1. f \in Frame /\ f.seq = replay.next /\ f.error
    BY <1>1 DEF Frame
  <2> HIDE DEF f
  <2>2. <<f>> \in Seq(Frame) /\ DOMAIN <<f>> = {1} /\ <<f>>[1] = f
    BY <2>1
  <2>3. failed = [c EXCEPT !.queue = <<f>>, !.closing = TRUE]
    BY DEF f
  <2> HIDE DEF failed
  <2>4. /\ failed \in ConnType /\ failed.queue = <<f>> /\ failed.sent = after /\ ~failed.ready
    BY <1>3, <2>2, <2>3 DEF ConnType
  <2>5. Ordered(<<f>>, after) /\ ~Completes(f)
    BY <1>1, <2>1, <2>2 DEF Ordered, Completes
  <2> QED
    BY <2>2, <2>4, <2>5 DEF SoundConn
<1>6. SoundConn(r, 0)
  <2> HIDE DEF r
  <2> QED
    BY <1>4 DEF SoundConn, Ordered
<1>7. \A i \in DOMAIN replay.events : replay.events[i] <= hi
  <2>1. \A i \in DOMAIN replay.events : replay.events[i] \in Nat
    <3>1. \A i \in DOMAIN replay.events : replay.events[i] \in DOMAIN log
      BY <1>1
    <3> QED
      BY <3>1, EventIs
  <2>2. replay.max \in Nat /\ replay.max <= hi
    BY <1>1 DEF replay
  <2> QED
    BY <1>1, <2>1, <2>2
<1> HIDE DEF r, failed
<1>8. /\ d \in ConnType /\ SoundConn(d, hi)
      /\ \A n \in {"open", "ready", "after", "sent"} : d[n] = r[n]
  BY <1>1, <1>4, <1>6, <1>7, EnqueueAllSound
<1> HIDE DEF d
<1>9. /\ [d EXCEPT !.closing = @ \/ ends] \in ConnType
      /\ SoundConn([d EXCEPT !.closing = @ \/ ends], hi)
      /\ [d EXCEPT !.closing = @ \/ ends].sent = after
  <2> DEFINE b == [d EXCEPT !.closing = @ \/ ends]
  <2>1. ends \in BOOLEAN
    BY <1>1 DEF ends
  <2>2. /\ b \in ConnType
        /\ b.queue = d.queue /\ b.sent = d.sent /\ b.ended = d.ended /\ b.ready = d.ready
        /\ b.open = d.open /\ b.after = d.after
    BY <1>8, <2>1 DEF ConnType
  <2> HIDE DEF b
  <2>3. SoundConn(b, hi)
    BY <1>8, <2>2 DEF SoundConn
  <2>4. d.sent = after
    BY <1>4, <1>8
  <2> QED
    BY <2>2, <2>3, <2>4 DEF b
<1>10. Opened(after, replay) \in ConnType /\ SoundConn(Opened(after, replay), hi) /\ Opened(after, replay).sent = after
  BY <1>2, <1>5, <1>9
<1> QED
  BY <1>10 DEF replay

-----------------------------------------------------------------------------
(* The browser *)

HookType ==
    [phase : {"scheduled", "probing", "opening", "open", "native", "recovering", "completed", "stuck"},
     last : Nat, full : BOOLEAN, id : Nat, shown : SUBSET Seqs]

\* What is shown ends with the last event and has no hole.
Whole(h) ==
    /\ h.shown \subseteq 1 .. h.last
    /\ h.last > 0 => h.last \in h.shown
    /\ \A s \in h.shown : s .. h.last \subseteq h.shown

\* A frame after the last event is shown, or its gap is known.
LEMMA ReceivedIs ==
    ASSUME NEW h \in HookType, NEW f \in Frame, ~f.error => f.seq \in Seqs
    PROVE  /\ Received(h, f) \in HookType
           /\ Received(h, f).id = f.seq
           /\ h.full => Received(h, f).full
           /\ Received(h, f).phase \in {h.phase, "recovering", "completed", "stuck"}
           /\ Received(h, f).phase = "recovering" => Received(h, f).full \/ h.phase = "recovering"
           /\ ~Received(h, f).full /\ Whole(h) /\ f.seq > h.last =>
                 Whole(Received(h, f)) /\ Received(h, f).last = f.seq
<1> DEFINE gap == ~f.error /\ h.last > 0 /\ f.seq > h.last + 1
           top == Max({h.last, f.seq})
           g == [h EXCEPT !.id = f.seq,
                          !.full = @ \/ f.error \/ gap,
                          !.last = IF gap THEN @ ELSE Max({@, f.seq}),
                          !.shown = IF gap \/ f.error THEN @ ELSE @ \cup {f.seq}]
           r == Received(h, f)
<1>1. f.seq \in Nat \ {0} /\ f.error \in BOOLEAN /\ h.last \in Nat
  BY DEF Frame, HookType
<1>2. top = IF h.last >= f.seq THEN h.last ELSE f.seq
  BY <1>1, Greater
<1>3. top \in Nat
  BY <1>1, <1>2
<1>4. gap \in BOOLEAN
  OBVIOUS
<1>5. g = [h EXCEPT !.id = f.seq, !.full = @ \/ f.error \/ gap, !.last = IF gap THEN @ ELSE top,
                    !.shown = IF gap \/ f.error THEN @ ELSE @ \cup {f.seq}]
  BY DEF HookType
<1>6. \/ f.error /\ r = [g EXCEPT !.phase = "recovering"]
      \/ ~f.error /\ r = [g EXCEPT !.phase = "completed"]
      \/ ~f.error /\ gap /\ r = [g EXCEPT !.phase = "stuck"]
      \/ ~f.error /\ r = g
  BY <1>1 DEF Received
<1> HIDE DEF r, g, top
<1>7. /\ g \in HookType /\ g.id = f.seq /\ g.full = (h.full \/ f.error \/ gap)
      /\ g.last = (IF gap THEN h.last ELSE top)
      /\ g.shown = (IF gap \/ f.error THEN h.shown ELSE h.shown \cup {f.seq})
      /\ g.phase = h.phase
  BY <1>1, <1>3, <1>4, <1>5 DEF HookType
<1>8. /\ r \in HookType /\ r.id = f.seq /\ r.full = g.full /\ r.last = g.last /\ r.shown = g.shown
      /\ r.phase \in {h.phase, "recovering", "completed", "stuck"}
      /\ r.phase = "recovering" => f.error \/ h.phase = "recovering"
  BY <1>6, <1>7 DEF HookType
<1>9. ASSUME ~r.full, Whole(h), f.seq > h.last
      PROVE  Whole(r) /\ r.last = f.seq
  <2>1. ~f.error /\ ~gap
    BY <1>1, <1>4, <1>7, <1>8, <1>9
  <2>2. r.last = f.seq /\ r.shown = h.shown \cup {f.seq}
    BY <1>1, <1>2, <1>7, <1>8, <1>9, <2>1
  <2>3. h.last = 0 \/ f.seq = h.last + 1
    BY <1>1, <1>9, <2>1
  <2>4. h.shown \subseteq Nat
    BY DEF HookType, Seqs
  <2>5. CASE h.last = 0
    <3>1. h.shown = {}
      BY <1>9, <2>5 DEF Whole
    <3> QED
      BY <1>1, <2>2, <3>1 DEF Whole
  <2>6. CASE f.seq = h.last + 1
    <3>1. r.shown \subseteq 1 .. r.last
      BY <1>1, <1>9, <2>2, <2>6 DEF Whole
    <3>2. r.last \in r.shown
      BY <2>2
    <3>3. ASSUME NEW s \in r.shown
          PROVE  s .. r.last \subseteq r.shown
      <4>1. CASE s = f.seq
        BY <1>1, <2>2, <4>1
      <4>2. CASE s \in h.shown
        <5>1. s .. h.last \subseteq h.shown /\ s \in Nat
          BY <1>9, <2>4, <4>2 DEF Whole
        <5>2. s .. r.last \subseteq (s .. h.last) \cup {f.seq}
          BY <1>1, <2>2, <2>6, <5>1
        <5> QED
          BY <2>2, <5>1, <5>2
      <4> QED
        BY <2>2, <4>1, <4>2
    <3> QED
      BY <2>2, <3>1, <3>2, <3>3 DEF Whole
  <2> QED
    BY <2>2, <2>3, <2>5, <2>6
<1>10. r.phase = "recovering" => r.full \/ h.phase = "recovering"
  BY <1>7, <1>8
<1>11. h.full => r.full
  BY <1>7, <1>8
<1> QED
  BY <1>8, <1>9, <1>10, <1>11 DEF r

-----------------------------------------------------------------------------
(* The invariant *)

\* What is on its way to the browsers has been published.
Published ==
    /\ ToSet(wire) \subseteq DOMAIN log
    /\ ToSet(buffer.events) \subseteq DOMAIN log
    /\ op.snapshot \subseteq DOMAIN log

\* No connection that takes events has been given one the broker does not know it notified.
ConnsSound ==
    \A v \in Viewers :
        /\ SoundConn(conn[v], buffer.notified)
        /\ conn[v].ready => <<v, "source">> \in subscribers

\* A hook that knows of no gap shows everything up to its last event, and is sent what follows.
HookSound(h, c) ==
    /\ c.open => h.phase = "open"
    /\ h.phase = "recovering" => h.full
    /\ ~h.full => /\ Whole(h)
                  /\ h.phase \notin {"scheduled", "probing"} => h.id >= h.last
                  /\ c.open => c.sent >= h.last

HooksWhole == \A v \in Viewers : HookSound(hook[v], conn[v])

\* The broker serves a hook that waits for it.
Waiting ==
    /\ op.kind = "probe" => op.viewer \in Viewers /\ hook[op.viewer].phase = "probing"
    /\ op.kind = "source" => op.viewer \in Viewers /\ hook[op.viewer].phase \in {"opening", "native"}

StreamInv == TypeOK /\ Published /\ ConnsSound /\ HooksWhole /\ Waiting

OpType ==
    [kind : {"none", "probe", "source", "poll"}, viewer : Viewers \cup {None},
     snapshot : SUBSET Seqs, failed : BOOLEAN]

LEMMA TypesAre ==
    TypeOK <=>
        /\ mode \in Mode
        /\ log \in Seq(Type) /\ Len(log) <= MaxEvents
        /\ low \in 1 .. MaxEvents + 1
        /\ trimming \in BOOLEAN
        /\ channel \in {"off", "joining", "joined"}
        /\ wire \in Seq(Seqs)
        /\ buffer \in BufferType
        /\ subscribers \subseteq Viewers \X {"probe", "source"}
        /\ op \in OpType
        /\ conn \in [Viewers -> ConnType]
        /\ hook \in [Viewers -> HookType]
        /\ faults \in 0 .. MaxFaults
BY DEF TypeOK, BufferType, ConnType, HookType, OpType

LEMMA NoBufferIs == NoBuffer \in BufferType /\ NoBuffer.notified = 0 /\ ToSet(NoBuffer.events) = {}
<1>1. <<>> \in Seq(Seqs) /\ DOMAIN <<>> = {}
  BY EmptySeq
<1>2. 0 \in 0 .. MaxEvents
  BY MaxEventsNat
<1> QED
  BY <1>1, <1>2 DEF NoBuffer, BufferType, ToSet

LEMMA IdleIs == Idle \in OpType /\ Idle.kind = "none" /\ Idle.snapshot = {}
BY DEF Idle, OpType

\* The initial states.
LEMMA InitInv == Init => StreamInv
<1> SUFFICES ASSUME Init
             PROVE  StreamInv
  OBVIOUS
<1>1. <<>> \in Seq(Type) /\ <<>> \in Seq(Seqs) /\ Len(<<>>) = 0 /\ DOMAIN <<>> = {} /\ ToSet(<<>>) = {}
  BY EmptySeq DEF ToSet
<1>2. NewHook \in HookType /\ NewHook.phase = "scheduled" /\ ~NewHook.full /\ Whole(NewHook)
  BY DEF NewHook, HookType, Whole
<1>3. TypeOK
  <2>1. mode \in Mode /\ faults \in 0 .. MaxFaults /\ low \in 1 .. MaxEvents + 1 /\ 0 <= MaxEvents
    BY StreamAssumption DEF Init
  <2>2. subscribers \subseteq Viewers \X {"probe", "source"}
    BY DEF Init
  <2> QED
    BY <1>1, <1>2, <2>1, <2>2, TypesAre, NoBufferIs, IdleIs, UnconnectedIs DEF Init
<1>4. Published
  BY <1>1, NoBufferIs, IdleIs DEF Init, Published
<1>5. ConnsSound
  BY UnconnectedIs DEF Init, ConnsSound
<1>6. HooksWhole
  BY <1>2, UnconnectedIs DEF Init, HooksWhole, HookSound, NewHook
<1>7. Waiting
  BY IdleIs DEF Init, Waiting
<1> QED
  BY <1>3, <1>4, <1>5, <1>6, <1>7 DEF StreamInv

\* The properties follow.
LEMMA InOrder == StreamInv => FramesInOrder
BY DEF StreamInv, ConnsSound, SoundConn, Ordered, FramesInOrder

LEMMA GapsKnown == StreamInv => GapIsNoticed
<1> SUFFICES ASSUME StreamInv, NEW v \in Viewers, ~hook[v].full,
                    NEW s \in hook[v].shown, NEW t \in hook[v].shown
             PROVE  s .. t \subseteq hook[v].shown
  BY DEF GapIsNoticed
<1>1. Whole(hook[v]) /\ hook[v] \in HookType
  BY TypesAre DEF StreamInv, HooksWhole, HookSound
<1>2. s .. hook[v].last \subseteq hook[v].shown /\ t <= hook[v].last
  BY <1>1 DEF Whole
<1>3. s \in Nat /\ t \in Nat /\ hook[v].last \in Nat
  BY <1>1 DEF HookType, Seqs
<1>4. s .. t \subseteq s .. hook[v].last
  BY <1>2, <1>3
<1> QED
  BY <1>2, <1>4

-----------------------------------------------------------------------------
(* Steps *)

LEMMA ConnsTransfer ==
    ASSUME log' = log,
           \A v \in Viewers : /\ SoundConn(conn'[v], buffer'.notified)
                              /\ conn'[v].ready => <<v, "source">> \in subscribers'
    PROVE  ConnsSound'
BY DEF ConnsSound, SoundConn, Ordered, Completes

LEMMA UnsubscribeIs ==
    ASSUME StreamInv, NEW S, Unsubscribe(S)
    PROVE  /\ subscribers' = subscribers \ S
           /\ channel' \in {"off", "joining", "joined"}
           /\ wire' = wire \/ wire' = <<>>
           /\ buffer' = buffer \/ (buffer' = NoBuffer /\ subscribers' = {})
           /\ wire' \in Seq(Seqs) /\ buffer' \in BufferType
           /\ subscribers' \subseteq Viewers \X {"probe", "source"}
BY TypesAre, NoBufferIs, EmptySeq DEF StreamInv, Unsubscribe

\* Whoever loses a connection or a subscription, the others keep theirs.
LEMMA Disconnected ==
    ASSUME StreamInv, NEW v \in Viewers, NEW S, Unsubscribe(S), UNCHANGED <<log, op>>,
           \/ S \subseteq {<<v, "source">>, <<v, "probe">>} /\ conn' = [conn EXCEPT ![v] = Unconnected]
           \/ S = {<<v, "probe">>} /\ conn' = conn
    PROVE  ConnsSound' /\ Published' /\ conn' \in [Viewers -> ConnType]
<1>1. /\ subscribers' = subscribers \ S
      /\ wire' = wire \/ wire' = <<>>
      /\ buffer' = buffer \/ (buffer' = NoBuffer /\ subscribers' = {})
  BY UnsubscribeIs
<1>2. /\ conn \in [Viewers -> ConnType] /\ buffer \in BufferType
      /\ \A u \in Viewers : /\ SoundConn(conn[u], buffer.notified)
                            /\ conn[u].ready => <<u, "source">> \in subscribers
  BY TypesAre DEF StreamInv, ConnsSound
<1>3. conn' \in [Viewers -> ConnType]
  BY <1>2, UnconnectedIs
<1>4. ASSUME NEW u \in Viewers
      PROVE  /\ SoundConn(conn'[u], buffer'.notified)
             /\ conn'[u].ready => <<u, "source">> \in subscribers'
  <2>1. CASE conn'[u] = Unconnected
    BY <2>1, UnconnectedIs
  <2>2. CASE conn'[u] = conn[u] /\ <<u, "source">> \notin S
    <3>1. conn[u].ready => <<u, "source">> \in subscribers'
      BY <1>1, <1>2, <2>2
    <3>2. CASE buffer' = buffer
      BY <1>2, <2>2, <3>1, <3>2
    <3>3. CASE subscribers' = {}
      <4>1. ~conn[u].ready
        BY <3>1, <3>3
      <4> QED
        BY <1>2, <2>2, <4>1 DEF SoundConn
    <3> QED
      BY <1>1, <3>2, <3>3
  <2>3. conn'[u] = Unconnected \/ (conn'[u] = conn[u] /\ <<u, "source">> \notin S)
    BY <1>2
  <2> QED
    BY <2>1, <2>2, <2>3
<1>5. ConnsSound'
  BY <1>4, ConnsTransfer
<1>6. Published'
  <2>1. ToSet(<<>>) = {}
    BY EmptySeq DEF ToSet
  <2> QED
    BY <1>1, <2>1, NoBufferIs DEF StreamInv, Published
<1> QED
  BY <1>3, <1>5, <1>6

LEMMA LogIs ==
    ASSUME TypeOK
    PROVE  /\ log \in Seq(Type) /\ Len(log) <= MaxEvents /\ Len(log) \in Nat
           /\ DOMAIN log = 1 .. Len(log) /\ DOMAIN log \subseteq Seqs
BY TypesAre, MaxEventsNat DEF Seqs

LEMMA PublishInv ==
    ASSUME StreamInv, NEW type \in Type, Publish(type)
    PROVE  StreamInv'
<1>1. /\ log \in Seq(Type) /\ Len(log) \in Nat /\ Len(log) < MaxEvents
      /\ log' = Append(log, type)
      /\ trimming' = TRUE
      /\ wire' = IF channel = "joined" THEN Append(wire, Len(log) + 1) ELSE wire
      /\ UNCHANGED <<mode, low, channel, buffer, subscribers, op, conn, hook, faults>>
  BY LogIs DEF Publish, StreamInv
<1>2. /\ log' \in Seq(Type) /\ Len(log') = Len(log) + 1
      /\ DOMAIN log' = 1 .. Len(log) + 1 /\ DOMAIN log = 1 .. Len(log)
      /\ \A s \in DOMAIN log : log'[s] = log[s]
  <2>1. /\ Append(log, type) \in Seq(Type) /\ Len(Append(log, type)) = Len(log) + 1
        /\ \A i \in 1 .. Len(log) : Append(log, type)[i] = log[i]
    BY <1>1, AppendProperties
  <2> QED
    BY <1>1, <2>1
<1>3. wire' \in Seq(Seqs) /\ wire' \in Seq(DOMAIN log')
  <2>1. wire \in Seq(Seqs) /\ ToSet(wire) \subseteq DOMAIN log
    BY TypesAre DEF StreamInv, Published
  <2>2. wire \in Seq(DOMAIN log)
    BY <2>1, RangeIs
  <2>3. wire \in Seq(DOMAIN log') /\ Len(log) + 1 \in DOMAIN log'
    BY <1>1, <1>2, <2>2
  <2>4. Len(log) + 1 \in Seqs
    BY <1>1, MaxEventsNat DEF Seqs
  <2> QED
    BY <1>1, <2>1, <2>3, <2>4, AppendProperties
<1>4. TypeOK'
  <2>1. TypeOK
    BY DEF StreamInv
  <2>2. Len(log') <= MaxEvents
    BY <1>1, <1>2, MaxEventsNat
  <2> QED
    BY <1>1, <1>2, <1>3, <2>1, <2>2 DEF TypeOK
<1>5. Published'
  <2>1. ToSet(wire') \subseteq DOMAIN log'
    BY <1>3, RangeIs
  <2> QED
    BY <1>1, <1>2, <2>1 DEF StreamInv, Published
<1>6. ConnsSound'
  <2>1. ASSUME NEW v \in Viewers, NEW i \in DOMAIN conn[v].queue
        PROVE  /\ ~conn[v].queue[i].error => conn[v].queue[i].seq \in DOMAIN log'
               /\ Completes(conn[v].queue[i])' = Completes(conn[v].queue[i])
    <3>1. ~conn[v].queue[i].error => conn[v].queue[i].seq \in DOMAIN log
      BY DEF StreamInv, ConnsSound, SoundConn, Ordered
    <3> QED
      BY <1>1, <1>2, <3>1 DEF Completes
  <2>2. ASSUME NEW v \in Viewers
        PROVE  SoundConn(conn[v], buffer.notified)' /\ (conn[v].ready => <<v, "source">> \in subscribers)'
    <3>1. SoundConn(conn[v], buffer.notified) /\ (conn[v].ready => <<v, "source">> \in subscribers)
      BY DEF StreamInv, ConnsSound
    <3>2. Ordered(conn[v].queue, conn[v].sent)'
      BY <1>1, <2>1, <3>1 DEF SoundConn, Ordered
    <3> QED
      BY <1>1, <2>1, <3>1, <3>2 DEF SoundConn
  <2> QED
    BY <2>2 DEF ConnsSound
<1>7. HooksWhole' /\ Waiting'
  BY <1>1 DEF StreamInv, HooksWhole, Waiting
<1> QED
  BY <1>4, <1>5, <1>6, <1>7 DEF StreamInv

\* A step that leaves the browsers and the events alone.
LEMMA HooksTransfer ==
    ASSUME StreamInv, hook' = hook,
           \A v \in Viewers : conn'[v].open => conn[v].open /\ conn'[v].sent = conn[v].sent
    PROVE  HooksWhole'
BY DEF StreamInv, HooksWhole, HookSound, Whole

LEMMA FaultIs ==
    ASSUME TypeOK, NEW kind, Fault(kind)
    PROVE  faults' \in 0 .. MaxFaults
<1>1. faults \in 0 .. MaxFaults /\ faults' = faults + 1 /\ faults < MaxFaults /\ MaxFaults \in Nat
  BY TypesAre, StreamAssumption DEF Fault
<1> QED
  BY <1>1

LEMMA StutterInv ==
    ASSUME StreamInv, UNCHANGED vars
    PROVE  StreamInv'
<1>1. /\ mode' = mode /\ log' = log /\ low' = low /\ trimming' = trimming
      /\ channel' = channel /\ wire' = wire /\ buffer' = buffer
      /\ subscribers' = subscribers /\ op' = op
      /\ conn' = conn /\ hook' = hook /\ faults' = faults
  BY DEF vars, storeVars, brokerVars
<1>2. TypeOK'
  BY <1>1 DEF StreamInv, TypeOK
<1>3. Published' /\ Waiting'
  BY <1>1 DEF StreamInv, Published, Waiting
<1>4. HooksWhole'
  BY <1>1, HooksTransfer
<1>5. ConnsSound'
  BY <1>1, ConnsTransfer DEF StreamInv, ConnsSound
<1> QED
  BY <1>2, <1>3, <1>4, <1>5 DEF StreamInv

LEMMA TrimInv ==
    ASSUME StreamInv, Trim
    PROVE  StreamInv'
<1>1. /\ mode' = mode /\ log' = log /\ trimming' = FALSE
      /\ channel' = channel /\ wire' = wire /\ buffer' = buffer
      /\ subscribers' = subscribers /\ op' = op
      /\ conn' = conn /\ hook' = hook
  BY DEF Trim, brokerVars
<1>2. low' \in 1 .. MaxEvents + 1
  <2>1. low \in 1 .. MaxEvents + 1 /\ Len(log) - MaxReplay + 1 \in Int /\ Len(log) - MaxReplay + 1 <= MaxEvents + 1
    BY TypesAre, LogIs, MaxEventsNat DEF StreamInv
  <2>2. low' = low \/ low' = Max({low, Len(log) - MaxReplay + 1})
    BY DEF Trim
  <2> QED
    BY <2>1, <2>2, Greater, MaxEventsNat
<1>3. faults' \in 0 .. MaxFaults
  BY TypesAre, FaultIs DEF Trim, StreamInv
<1>4. TypeOK'
  BY <1>1, <1>2, <1>3 DEF StreamInv, TypeOK
<1>5. Published' /\ HooksWhole' /\ Waiting'
  BY <1>1, HooksTransfer DEF StreamInv, Published, Waiting
<1>6. ConnsSound'
  BY <1>1, ConnsTransfer DEF StreamInv, ConnsSound
<1> QED
  BY <1>4, <1>5, <1>6 DEF StreamInv

LEMMA JoinInv ==
    ASSUME StreamInv, Join
    PROVE  StreamInv'
<1>1. TypeOK' /\ Published' /\ HooksWhole' /\ Waiting'
  BY HooksTransfer DEF Join, storeVars, StreamInv, TypeOK, Published, Waiting
<1>2. ConnsSound'
  BY ConnsTransfer DEF Join, storeVars, StreamInv, ConnsSound
<1> QED
  BY <1>1, <1>2 DEF StreamInv

\* What the wire brings has been published, and so is the rest of it.
LEMMA TailIs ==
    ASSUME StreamInv, wire # <<>>
    PROVE  /\ Tail(wire) \in Seq(Seqs) /\ ToSet(Tail(wire)) \subseteq DOMAIN log
           /\ Head(wire) \in DOMAIN log
<1>1. wire \in Seq(Seqs) /\ ToSet(wire) \subseteq DOMAIN log
  BY TypesAre DEF StreamInv, Published
<1>2. wire \in Seq(DOMAIN log)
  BY <1>1, RangeIs
<1>3. Tail(wire) \in Seq(DOMAIN log) /\ Head(wire) \in DOMAIN log /\ Tail(wire) \in Seq(Seqs)
  BY <1>1, <1>2, HeadTailProperties
<1> QED
  BY <1>3, RangeIs

LEMMA LoseInv ==
    ASSUME StreamInv, Lose
    PROVE  StreamInv'
<1>1. /\ mode' = mode /\ log' = log /\ low' = low /\ trimming' = trimming
      /\ channel' = channel /\ buffer' = buffer
      /\ subscribers' = subscribers /\ op' = op
      /\ conn' = conn /\ hook' = hook
      /\ wire # <<>> /\ wire' = Tail(wire) /\ faults' \in 0 .. MaxFaults
  BY FaultIs DEF Lose, storeVars, StreamInv
<1>2. TypeOK'
  BY <1>1, TailIs DEF StreamInv, TypeOK
<1>3. Published' /\ HooksWhole' /\ Waiting'
  BY <1>1, TailIs, HooksTransfer DEF StreamInv, Published, Waiting
<1>4. ConnsSound'
  BY <1>1, ConnsTransfer DEF StreamInv, ConnsSound
<1> QED
  BY <1>2, <1>3, <1>4 DEF StreamInv

\* What the broker passes on keeps everything sound.
LEMMA PassedOn ==
    ASSUME StreamInv, NEW state \in StateType, SoundState(state),
           Follows([buffer |-> buffer, conn |-> conn], state),
           buffer' = state.buffer, conn' = state.conn,
           UNCHANGED <<storeVars, channel, subscribers, hook, faults>>,
           wire' \in Seq(Seqs), ToSet(wire') \subseteq DOMAIN log, op' = op \/ op' = Idle
    PROVE  StreamInv'
<1>1. mode' = mode /\ log' = log /\ low' = low /\ trimming' = trimming
  BY DEF storeVars
<1>2. buffer' \in BufferType /\ conn' \in [Viewers -> ConnType]
  BY DEF StateType
<1>3. op' \in OpType /\ op'.snapshot \subseteq DOMAIN log
  BY TypesAre, IdleIs DEF StreamInv, Published
<1>4. TypeOK'
  BY <1>1, <1>2, <1>3, TypesAre DEF StreamInv, TypeOK, BufferType, ConnType, OpType
<1>5. Published'
  BY <1>1, <1>3 DEF Published, SoundState
<1>6. \A v \in Viewers : conn'[v].open = conn[v].open /\ conn'[v].sent = conn[v].sent /\ conn'[v].ready = conn[v].ready
  <2>1. \A v \in Viewers : \A n \in {"open", "ready", "after", "sent"} : conn'[v][n] = conn[v][n]
    BY DEF Follows
  <2> QED
    BY <2>1
<1>7. HooksWhole'
  BY <1>6, HooksTransfer
<1>8. ConnsSound'
  BY <1>1, <1>6, ConnsTransfer DEF StreamInv, ConnsSound, SoundState
<1>9. Waiting'
  BY IdleIs DEF StreamInv, Waiting
<1> QED
  BY <1>4, <1>5, <1>7, <1>8, <1>9 DEF StreamInv

LEMMA StateIs ==
    ASSUME StreamInv
    PROVE  /\ [buffer |-> buffer, conn |-> conn] \in StateType
           /\ SoundState([buffer |-> buffer, conn |-> conn])
           /\ log \in Seq(Type) /\ Len(log) <= MaxEvents
BY TypesAre DEF StreamInv, StateType, SoundState, Published, ConnsSound

LEMMA DeliverInv ==
    ASSUME StreamInv, Deliver
    PROVE  StreamInv'
<1> DEFINE now == [buffer |-> buffer, conn |-> conn]
           state == Notify(now, Head(wire))
<1>1. wire # <<>> /\ wire' = Tail(wire) /\ buffer' = state.buffer /\ conn' = state.conn
      /\ UNCHANGED <<storeVars, channel, subscribers, op, hook, faults>>
  BY DEF Deliver
<1> HIDE DEF state
<1>2. state \in StateType /\ SoundState(state) /\ Follows(now, state)
  BY <1>1, StateIs, TailIs, NotifyType, NotifySound DEF state
<1> QED
  BY <1>1, <1>2, TailIs, PassedOn

LEMMA PollNotifyInv ==
    ASSUME StreamInv, PollNotify
    PROVE  StreamInv'
<1> DEFINE now == [buffer |-> buffer, conn |-> conn]
           replay == Replay(buffer.notified)
           state == IF replay.status = "unavailable" THEN NotifyAll(<<>>) ELSE NotifyAll(replay.events)
<1>1. buffer' = state.buffer /\ conn' = state.conn /\ op' = Idle
      /\ UNCHANGED <<storeVars, channel, wire, subscribers, hook, faults>>
  BY DEF PollNotify
<1>2. replay.events \in Seq(DOMAIN log)
  <2>1. buffer \in BufferType /\ buffer.notified \in Nat
    <3>1. buffer \in BufferType
      BY TypesAre DEF StreamInv
    <3> QED
      BY <3>1, MaxEventsNat DEF BufferType
  <2> QED
    BY <2>1, StateIs, ReplayIs DEF StreamInv, Published
<1> HIDE DEF replay
<1>3. <<>> \in Seq(DOMAIN log)
  BY EmptySeq
<1>4. state \in StateType /\ SoundState(state) /\ Follows(now, state)
  BY <1>2, <1>3, StateIs, NotifyAllSound
<1> HIDE DEF state
<1>5. wire' \in Seq(Seqs) /\ ToSet(wire') \subseteq DOMAIN log
  BY <1>1, TypesAre DEF StreamInv, Published
<1> QED
  BY <1>1, <1>4, <1>5, PassedOn

-----------------------------------------------------------------------------
(* Reads and subscriptions *)

LEMMA ReadIs ==
    ASSUME StreamInv, NEW kind \in {"probe", "source", "poll"}, NEW v \in Viewers \cup {None}, Read(kind, v)
    PROVE  /\ op' \in OpType /\ op'.kind = kind /\ op'.viewer = v
           /\ op'.snapshot \subseteq DOMAIN log
           /\ faults' \in 0 .. MaxFaults
<1> DEFINE top == Min({Len(log), low + MaxReplay - 1})
<1>1. /\ low \in 1 .. MaxEvents + 1 /\ MaxReplay \in Nat /\ MaxEvents \in Nat
      /\ Len(log) \in Nat /\ DOMAIN log = 1 .. Len(log) /\ DOMAIN log \subseteq Seqs
  BY TypesAre, LogIs, MaxEventsNat DEF StreamInv
<1>2. top \in Int /\ top <= Len(log)
  BY <1>1 DEF Min
<1>3. Persisted \subseteq DOMAIN log
  <2> HIDE DEF top
  <2>1. low .. top \subseteq 1 .. Len(log)
    BY <1>1, <1>2
  <2> QED
    BY <1>1, <2>1 DEF Persisted, top
<1>4. \/ op' = [kind |-> kind, viewer |-> v, snapshot |-> Persisted, failed |-> FALSE]
      \/ op' = [kind |-> kind, viewer |-> v, snapshot |-> {}, failed |-> TRUE]
  BY DEF Read
<1>5. faults' \in 0 .. MaxFaults
  BY TypesAre, FaultIs DEF Read, StreamInv
<1>6. Persisted \in SUBSET Seqs /\ {} \in SUBSET Seqs /\ TRUE \in BOOLEAN /\ FALSE \in BOOLEAN
  BY <1>1, <1>3
<1>7. \A S \in SUBSET Seqs, b \in BOOLEAN :
        [kind |-> kind, viewer |-> v, snapshot |-> S, failed |-> b] \in OpType
  BY DEF OpType
<1>8. op' \in OpType
  BY <1>4, <1>6, <1>7 DEF Seqs
<1>9. op'.kind = kind /\ op'.viewer = v /\ op'.snapshot \in {Persisted, {}}
  BY <1>4
<1> QED
  BY <1>3, <1>5, <1>8, <1>9

\* A step that only reads the store, for a hook or for the poller.
LEMMA ReadingInv ==
    ASSUME StreamInv, op' \in OpType, op'.snapshot \subseteq DOMAIN log, faults' \in 0 .. MaxFaults,
           UNCHANGED <<storeVars, channel, wire, buffer, subscribers, conn>>,
           hook' \in [Viewers -> HookType], HooksWhole', Waiting'
    PROVE  StreamInv'
<1>1. /\ mode' = mode /\ log' = log /\ low' = low /\ trimming' = trimming
      /\ channel' = channel /\ wire' = wire /\ buffer' = buffer
      /\ subscribers' = subscribers /\ conn' = conn
  BY DEF storeVars
<1>2. TypeOK'
  BY <1>1 DEF StreamInv, TypeOK, OpType, HookType
<1>3. Published' /\ ConnsSound'
  BY <1>1, ConnsTransfer DEF StreamInv, Published, ConnsSound
<1> QED
  BY <1>2, <1>3 DEF StreamInv

LEMMA PollReadInv ==
    ASSUME StreamInv, PollRead
    PROVE  StreamInv'
<1>1. /\ Read("poll", None)
      /\ UNCHANGED <<storeVars, channel, wire, buffer, subscribers, conn, hook>>
  BY DEF PollRead
<1>2. /\ op' \in OpType /\ op'.kind = "poll" /\ op'.snapshot \subseteq DOMAIN log
      /\ faults' \in 0 .. MaxFaults
  BY <1>1, ReadIs
<1>3. hook' \in [Viewers -> HookType] /\ HooksWhole' /\ Waiting'
  BY <1>1, <1>2, HooksTransfer, TypesAre DEF StreamInv, Waiting
<1> QED
  BY <1>1, <1>2, <1>3, ReadingInv

LEMMA SourceReadInv ==
    ASSUME StreamInv, NEW v \in Viewers, SourceRead(v)
    PROVE  StreamInv'
<1>1. /\ Read("source", v) /\ hook[v].phase \in {"opening", "native"}
      /\ UNCHANGED <<storeVars, channel, wire, buffer, subscribers, conn, hook>>
  BY DEF SourceRead
<1>2. /\ op' \in OpType /\ op'.kind = "source" /\ op'.viewer = v /\ op'.snapshot \subseteq DOMAIN log
      /\ faults' \in 0 .. MaxFaults
  BY <1>1, ReadIs
<1>3. hook' \in [Viewers -> HookType] /\ HooksWhole' /\ Waiting'
  BY <1>1, <1>2, HooksTransfer, TypesAre DEF StreamInv, Waiting
<1> QED
  BY <1>1, <1>2, <1>3, ReadingInv

\* One hook changes, with its connection or without.
LEMMA HookStep ==
    ASSUME StreamInv, NEW v \in Viewers, NEW h \in HookType, hook' = [hook EXCEPT ![v] = h],
           HookSound(h, conn'[v]), \A u \in Viewers \ {v} : conn'[u] = conn[u]
    PROVE  hook' \in [Viewers -> HookType] /\ HooksWhole'
<1>1. hook \in [Viewers -> HookType] /\ \A u \in Viewers : HookSound(hook[u], conn[u])
  BY TypesAre DEF StreamInv, HooksWhole
<1>2. \A u \in Viewers : HookSound(hook'[u], conn'[u])
  BY <1>1
<1> QED
  BY <1>1, <1>2 DEF HooksWhole, HookSound, Whole

\* The broker does not serve a hook that is busy with something else.
LEMMA StillWaiting ==
    ASSUME StreamInv, NEW v \in Viewers, NEW h, hook' = [hook EXCEPT ![v] = h], op' = op,
           hook[v].phase \notin {"probing", "opening", "native"} \/ op.viewer # v
    PROVE  Waiting'
<1>1. hook \in [Viewers -> HookType]
  BY TypesAre DEF StreamInv
<1>2. \A u \in Viewers \ {v} : hook'[u] = hook[u]
  BY <1>1
<1>3. op.kind \in {"probe", "source"} => op.viewer \in Viewers \ {v}
  BY DEF StreamInv, Waiting
<1> QED
  BY <1>2, <1>3 DEF StreamInv, Waiting

LEMMA PhaseIs ==
    ASSUME NEW h \in HookType,
           NEW p \in {"scheduled", "probing", "opening", "open", "native", "recovering", "completed", "stuck"}
    PROVE  /\ [h EXCEPT !.phase = p] \in HookType
           /\ [h EXCEPT !.phase = p].phase = p /\ [h EXCEPT !.phase = p].full = h.full
           /\ [h EXCEPT !.phase = p].id = h.id /\ [h EXCEPT !.phase = p].last = h.last
           /\ Whole(h) => Whole([h EXCEPT !.phase = p])
BY DEF HookType, Whole

LEMMA ProbeReadInv ==
    ASSUME StreamInv, NEW v \in Viewers, ProbeRead(v)
    PROVE  StreamInv'
<1> DEFINE h == [hook[v] EXCEPT !.phase = "probing"]
<1>1. /\ Read("probe", v) /\ hook[v].phase = "scheduled"
      /\ hook' = [hook EXCEPT ![v] = h]
      /\ UNCHANGED <<storeVars, channel, wire, buffer, subscribers, conn>>
  BY DEF ProbeRead
<1>2. /\ op' \in OpType /\ op'.kind = "probe" /\ op'.viewer = v /\ op'.snapshot \subseteq DOMAIN log
      /\ faults' \in 0 .. MaxFaults
  BY <1>1, ReadIs
<1>3. hook \in [Viewers -> HookType] /\ HookSound(hook[v], conn[v])
  BY TypesAre DEF StreamInv, HooksWhole
<1>4. /\ h \in HookType /\ h.phase = "probing" /\ h.full = hook[v].full
      /\ Whole(hook[v]) => Whole(h)
  <2>1. hook[v] \in HookType
    BY <1>3
  <2> QED
    BY <2>1, PhaseIs
<1> HIDE DEF h
<1>5. HookSound(h, conn[v])
  BY <1>1, <1>3, <1>4 DEF HookSound
<1>6. hook' \in [Viewers -> HookType] /\ HooksWhole'
  BY <1>1, <1>4, <1>5, HookStep
<1>7. Waiting'
  BY <1>1, <1>2, <1>3, <1>4 DEF Waiting
<1> QED
  BY <1>1, <1>2, <1>6, <1>7, ReadingInv

\* A subscription makes a buffer that is informed up to the replay.
LEMMA SubscribedIs ==
    ASSUME StreamInv, NEW v \in Viewers, NEW part \in {"probe", "source"}, NEW after \in Nat,
           Subscribed(v, part, Replay(after))
    PROVE  /\ buffer' \in BufferType /\ ToSet(buffer'.events) \subseteq DOMAIN log
           /\ buffer'.notified \in Nat
           /\ buffer'.notified >= buffer.notified /\ buffer'.notified >= Replay(after).max
           /\ subscribers' = subscribers \cup {<<v, part>>}
           /\ subscribers' \subseteq Viewers \X {"probe", "source"}
           /\ channel' \in {"off", "joining", "joined"}
           /\ op' = Idle
<1> DEFINE top == Max({buffer.notified, Replay(after).max})
<1>1. /\ buffer \in BufferType /\ ToSet(buffer.events) \subseteq DOMAIN log
      /\ subscribers \subseteq Viewers \X {"probe", "source"}
      /\ channel \in {"off", "joining", "joined"}
      /\ MaxEvents \in Nat
  BY TypesAre, MaxEventsNat DEF StreamInv, Published
<1>2. Replay(after).max \in 0 .. MaxEvents
  BY <1>1, StateIs, ReplayIs DEF StreamInv, Published
<1>3. buffer.notified \in 0 .. MaxEvents
  BY <1>1 DEF BufferType
<1>4. top \in 0 .. MaxEvents /\ top >= buffer.notified /\ top >= Replay(after).max
  BY <1>1, <1>2, <1>3, Greater
<1>5. buffer' = [buffer EXCEPT !.made = TRUE, !.notified = top]
  BY DEF Subscribed
<1> HIDE DEF top
<1>6. buffer' \in BufferType /\ buffer'.events = buffer.events /\ buffer'.notified = top
  BY <1>1, <1>4, <1>5 DEF BufferType
<1>7. /\ subscribers' = subscribers \cup {<<v, part>>}
      /\ channel' = channel \/ channel' = "joining"
      /\ op' = Idle
  BY DEF Subscribed
<1> QED
  BY <1>1, <1>4, <1>6, <1>7

\* A step of the broker or of a connection, put together from its parts.
LEMMA Assembled ==
    ASSUME StreamInv, UNCHANGED <<storeVars>>,
           channel' \in {"off", "joining", "joined"}, wire' \in Seq(Seqs), buffer' \in BufferType,
           subscribers' \subseteq Viewers \X {"probe", "source"}, op' \in OpType,
           conn' \in [Viewers -> ConnType], hook' \in [Viewers -> HookType], faults' \in 0 .. MaxFaults,
           Published', ConnsSound', HooksWhole', Waiting'
    PROVE  StreamInv'
<1>1. mode' = mode /\ log' = log /\ low' = low /\ trimming' = trimming
  BY DEF storeVars
<1>2. TypeOK'
  BY <1>1 DEF StreamInv, TypeOK, BufferType, OpType, ConnType, HookType
<1> QED
  BY <1>2 DEF StreamInv

LEMMA ProbeSubscribedInv ==
    ASSUME StreamInv, NEW v \in Viewers, ProbeSubscribed(v)
    PROVE  StreamInv'
<1> DEFINE h == [hook[v] EXCEPT !.phase = "opening", !.id = Cursor(hook[v])]
<1>1. /\ op.kind = "probe" /\ op.viewer = v
      /\ Subscribed(v, "probe", Replay(Cursor(hook[v])))
      /\ hook' = [hook EXCEPT ![v] = h]
      /\ UNCHANGED <<storeVars, wire, conn, faults>>
  BY DEF ProbeSubscribed
<1>2. /\ hook[v] \in HookType /\ HookSound(hook[v], conn[v]) /\ hook[v].phase = "probing"
      /\ conn \in [Viewers -> ConnType] /\ wire \in Seq(Seqs) /\ faults \in 0 .. MaxFaults
      /\ buffer \in BufferType /\ log' = log
  BY <1>1, TypesAre DEF StreamInv, HooksWhole, Waiting, storeVars
<1>3. Cursor(hook[v]) \in Nat /\ (~hook[v].full => Cursor(hook[v]) = hook[v].last)
  BY <1>2 DEF Cursor, HookType
<1>4. h \in HookType /\ HookSound(h, conn[v])
  <2>1. /\ h \in HookType /\ h.phase = "opening" /\ h.id = Cursor(hook[v])
        /\ h.full = hook[v].full /\ h.last = hook[v].last /\ h.shown = hook[v].shown
    BY <1>2, <1>3 DEF HookType
  <2>2. hook[v].last \in Nat
    BY <1>2 DEF HookType
  <2> HIDE DEF h
  <2> QED
    BY <1>2, <1>3, <2>1, <2>2 DEF HookSound, Whole
<1>5. /\ buffer' \in BufferType /\ ToSet(buffer'.events) \subseteq DOMAIN log
      /\ buffer'.notified \in Nat /\ buffer'.notified >= buffer.notified
      /\ subscribers \subseteq subscribers'
      /\ subscribers' \subseteq Viewers \X {"probe", "source"}
      /\ channel' \in {"off", "joining", "joined"}
      /\ op' = Idle
  BY <1>1, <1>3, SubscribedIs
<1> HIDE DEF h
<1>6. hook' \in [Viewers -> HookType] /\ HooksWhole'
  BY <1>1, <1>4, HookStep
<1>7. Published' /\ Waiting'
  BY <1>1, <1>2, <1>5, IdleIs DEF StreamInv, Published, Waiting
<1>8. ConnsSound'
  <2>1. buffer.notified \in Nat
    BY <1>2, MaxEventsNat DEF BufferType
  <2>2. \A u \in Viewers : SoundConn(conn[u], buffer'.notified)
    BY <1>2, <1>5, <2>1, SoundLater DEF StreamInv, ConnsSound
  <2> QED
    BY <1>1, <1>2, <1>5, <2>2, ConnsTransfer DEF StreamInv, ConnsSound
<1> QED
  BY <1>1, <1>2, <1>5, <1>6, <1>7, <1>8, IdleIs, Assembled

LEMMA SourceSubscribedInv ==
    ASSUME StreamInv, NEW v \in Viewers, SourceSubscribed(v)
    PROVE  StreamInv'
<1> DEFINE h == [hook[v] EXCEPT !.phase = "open"]
           after == IF hook[v].phase = "native" THEN hook[v].id ELSE Cursor(hook[v])
           c == Opened(after, Replay(after))
<1>1. /\ op.kind = "source" /\ op.viewer = v
      /\ Subscribed(v, "source", Replay(after))
      /\ conn' = [conn EXCEPT ![v] = c]
      /\ hook' = [hook EXCEPT ![v] = h]
      /\ UNCHANGED <<storeVars, wire, faults>>
  BY DEF SourceSubscribed
<1>2. /\ hook[v] \in HookType /\ HookSound(hook[v], conn[v]) /\ hook[v].phase \in {"opening", "native"}
      /\ conn \in [Viewers -> ConnType] /\ wire \in Seq(Seqs) /\ faults \in 0 .. MaxFaults
      /\ buffer \in BufferType /\ log' = log
  BY <1>1, TypesAre DEF StreamInv, HooksWhole, Waiting, storeVars
<1>3. after \in Nat /\ (~hook[v].full => after >= hook[v].last)
  <2>1. hook[v].id \in Nat /\ hook[v].last \in Nat
    BY <1>2 DEF HookType
  <2> QED
    BY <1>2, <2>1 DEF Cursor, HookSound
<1> HIDE DEF after
<1>4. /\ buffer' \in BufferType /\ ToSet(buffer'.events) \subseteq DOMAIN log
      /\ buffer'.notified \in Nat
      /\ buffer'.notified >= buffer.notified /\ buffer'.notified >= Replay(after).max
      /\ subscribers' = subscribers \cup {<<v, "source">>}
      /\ subscribers' \subseteq Viewers \X {"probe", "source"}
      /\ channel' \in {"off", "joining", "joined"}
      /\ op' = Idle
  BY <1>1, <1>3, SubscribedIs
<1>5. /\ c \in ConnType /\ SoundConn(c, buffer'.notified) /\ c.sent = after
  <2>1. /\ op.snapshot \subseteq DOMAIN log /\ ToSet(buffer.events) \subseteq DOMAIN log
        /\ Replay(after).max \in 0 .. MaxEvents
    BY <1>2, <1>3, StateIs, ReplayIs DEF StreamInv, Published
  <2>2. Replay(after).max <= buffer'.notified
    BY <1>4, <2>1, MaxEventsNat
  <2> QED
    BY <1>2, <1>3, <1>4, <2>1, <2>2, StateIs, OpenedSound
<1> HIDE DEF c
<1>6. h \in HookType /\ HookSound(h, c)
  <2>1. /\ h \in HookType /\ h.phase = "open" /\ h.full = hook[v].full
        /\ h.id = hook[v].id /\ h.last = hook[v].last
        /\ Whole(hook[v]) => Whole(h)
    BY <1>2, PhaseIs
  <2> HIDE DEF h
  <2> QED
    BY <1>2, <1>3, <1>5, <2>1 DEF HookSound
<1> HIDE DEF h
<1>7. /\ conn' \in [Viewers -> ConnType] /\ conn'[v] = c
      /\ \A u \in Viewers \ {v} : conn'[u] = conn[u]
  BY <1>1, <1>2, <1>5
<1>8. hook' \in [Viewers -> HookType] /\ HooksWhole'
  BY <1>1, <1>6, <1>7, HookStep
<1>9. Published' /\ Waiting'
  BY <1>1, <1>2, <1>4, IdleIs DEF StreamInv, Published, Waiting
<1>10. ConnsSound'
  <2>1. buffer.notified \in Nat
    BY <1>2, MaxEventsNat DEF BufferType
  <2>2. \A u \in Viewers : SoundConn(conn[u], buffer'.notified)
    BY <1>2, <1>4, <2>1, SoundLater DEF StreamInv, ConnsSound
  <2>3. ASSUME NEW u \in Viewers
        PROVE  SoundConn(conn'[u], buffer'.notified) /\ (conn'[u].ready => <<u, "source">> \in subscribers')
    BY <1>4, <1>5, <1>7, <2>2 DEF StreamInv, ConnsSound
  <2> QED
    BY <1>2, <2>3, ConnsTransfer
<1> QED
  BY <1>1, <1>2, <1>4, <1>7, <1>8, <1>9, <1>10, IdleIs, Assembled

LEMMA ProbeAbortedInv ==
    ASSUME StreamInv, NEW v \in Viewers, ProbeAborted(v)
    PROVE  StreamInv'
<1>1. /\ Unsubscribe({<<v, "probe">>})
      /\ UNCHANGED <<storeVars, op, conn, hook, faults>> /\ log' = log
  BY DEF ProbeAborted, storeVars
<1>2. ConnsSound' /\ Published'
  BY <1>1, Disconnected
<1>3. HooksWhole' /\ Waiting'
  BY <1>1, HooksTransfer DEF StreamInv, Waiting
<1>4. /\ conn \in [Viewers -> ConnType] /\ hook \in [Viewers -> HookType]
      /\ op \in OpType /\ faults \in 0 .. MaxFaults
  BY TypesAre DEF StreamInv
<1> QED
  BY <1>1, <1>2, <1>3, <1>4, UnsubscribeIs, Assembled

\* A connection that ends, with what its browser makes of it.
LEMMA Ended ==
    ASSUME StreamInv, NEW v \in Viewers, NEW S \in SUBSET {<<v, "source">>, <<v, "probe">>}, Unsubscribe(S),
           conn' = [conn EXCEPT ![v] = Unconnected],
           NEW h \in HookType, hook' = [hook EXCEPT ![v] = h], HookSound(h, Unconnected),
           hook[v].phase \notin {"probing", "opening", "native"} \/ op.viewer # v,
           UNCHANGED <<storeVars, op>>, faults' \in 0 .. MaxFaults
    PROVE  StreamInv'
<1>1. log' = log /\ op' = op
  BY DEF storeVars
<1>2. ConnsSound' /\ Published' /\ conn' \in [Viewers -> ConnType]
  BY <1>1, Disconnected
<1>3. conn \in [Viewers -> ConnType] /\ op \in OpType
  BY TypesAre DEF StreamInv
<1>4. conn'[v] = Unconnected /\ \A u \in Viewers \ {v} : conn'[u] = conn[u]
  BY <1>3
<1>5. hook' \in [Viewers -> HookType] /\ HooksWhole'
  BY <1>4, HookStep
<1>6. Waiting'
  BY <1>1, StillWaiting
<1> QED
  BY <1>1, <1>2, <1>3, <1>5, <1>6, UnsubscribeIs, Assembled

-----------------------------------------------------------------------------
(* Connections and browsers *)

\* The first frame of a queue is the next to be sent, and the rest follows it.
LEMMA SendIs ==
    ASSUME log \in Seq(Type), NEW c \in ConnType, NEW hi \in Nat, SoundConn(c, hi), c.queue # <<>>
    PROVE  /\ Head(c.queue) \in Frame /\ Head(c.queue).seq > c.sent
           /\ ~Head(c.queue).error => Head(c.queue).seq \in DOMAIN log
           /\ [c EXCEPT !.queue = Tail(c.queue), !.sent = Head(c.queue).seq] \in ConnType
           /\ SoundConn([c EXCEPT !.queue = Tail(c.queue), !.sent = Head(c.queue).seq], hi)
<1> DEFINE q == c.queue
           r == Tail(q)
           f == Head(q)
           d == [c EXCEPT !.queue = r, !.sent = f.seq]
<1>1. q \in Seq(Frame) /\ q # <<>>
  BY DEF ConnType
<1>2. /\ f = q[1] /\ f \in Frame /\ 1 \in DOMAIN q
      /\ r \in Seq(Frame)
      /\ \A i \in DOMAIN r : i + 1 \in DOMAIN q /\ r[i] = q[i + 1] /\ i + 1 > 1 /\ i \in Nat
  <2>1. Len(q) \in Nat /\ Len(q) > 0 /\ DOMAIN q = 1 .. Len(q)
    BY <1>1
  <2>2. r \in Seq(Frame) /\ Len(r) = Len(q) - 1 /\ f \in Frame
        /\ \A i \in 1 .. Len(r) : r[i] = q[i + 1]
    BY <1>1, HeadTailProperties
  <2>3. DOMAIN r = 1 .. Len(r)
    BY <2>2
  <2> QED
    BY <1>1, <2>1, <2>2, <2>3
<1>3. \A i \in DOMAIN q : q[i] \in Frame /\ q[i].seq \in Nat
  <2>1. \A i \in DOMAIN q : q[i] \in Frame
    BY <1>1
  <2> QED
    BY <2>1 DEF Frame
<1>4. Ordered(q, c.sent)
  BY DEF SoundConn
<1>5. f.seq > c.sent /\ (~f.error => f.seq \in DOMAIN log) /\ f.seq \in Nat
  BY <1>2, <1>3, <1>4 DEF Ordered
<1> HIDE DEF f, r
<1>6. d \in ConnType /\ d.queue = r /\ d.sent = f.seq /\ d.ended = c.ended /\ d.ready = c.ready
      /\ d.open = c.open /\ d.after = c.after
  BY <1>2, <1>5 DEF ConnType
<1> HIDE DEF d, q
<1>7. Ordered(r, f.seq)
  <2>1. \A i \in DOMAIN r : r[i].seq > f.seq
    BY <1>2, <1>3, <1>4 DEF Ordered
  <2>2. \A i, j \in DOMAIN r : i < j => i + 1 < j + 1
    BY <1>2
  <2>3. /\ \A i, j \in DOMAIN r : i < j => r[i].seq < r[j].seq /\ ~Completes(r[i])
        /\ \A i \in DOMAIN r : ~r[i].error => r[i].seq \in DOMAIN log
    BY <1>2, <1>4, <2>2 DEF Ordered
  <2> QED
    BY <2>1, <2>3 DEF Ordered
<1>8. SoundConn(d, hi)
  <2>1. ~c.ended => \A i \in DOMAIN r : ~Completes(r[i])
    BY <1>2 DEF SoundConn, q
  <2>2. c.ready => c.open /\ f.seq <= hi /\ \A i \in DOMAIN r : r[i].seq <= hi
    BY <1>2 DEF SoundConn, q
  <2> QED
    BY <1>6, <1>7, <2>1, <2>2 DEF SoundConn
<1> QED
  BY <1>2, <1>5, <1>6, <1>8 DEF d, f, r, q

LEMMA SendInv ==
    ASSUME StreamInv, NEW v \in Viewers, Send(v)
    PROVE  StreamInv'
<1> DEFINE f == Head(conn[v].queue)
           rest == Tail(conn[v].queue)
           h == Received(hook[v], f)
           c == [conn[v] EXCEPT !.queue = rest, !.sent = f.seq]
           ended == h.phase # "open" \/ (conn[v].closing /\ rest = <<>>)
<1>1. conn[v].open /\ conn[v].queue # <<>> /\ UNCHANGED <<storeVars, op, faults>> /\ log' = log /\ op' = op
  BY DEF Send, storeVars
<1>2. /\ hook[v] \in HookType /\ hook \in [Viewers -> HookType]
      /\ conn[v] \in ConnType /\ conn \in [Viewers -> ConnType]
      /\ HookSound(hook[v], conn[v]) /\ SoundConn(conn[v], buffer.notified)
      /\ log \in Seq(Type) /\ DOMAIN log \subseteq Seqs
      /\ buffer \in BufferType /\ faults \in 0 .. MaxFaults
  BY TypesAre, LogIs DEF StreamInv, HooksWhole, ConnsSound
<1>3. buffer.notified \in Nat
  BY <1>2, MaxEventsNat DEF BufferType
<1>4. /\ f \in Frame /\ f.seq > conn[v].sent /\ (~f.error => f.seq \in DOMAIN log)
      /\ c \in ConnType /\ SoundConn(c, buffer.notified)
  BY <1>1, <1>2, <1>3, SendIs
<1>5. c.open = conn[v].open /\ c.sent = f.seq /\ c.ready = conn[v].ready
  BY <1>2 DEF ConnType
<1>6. hook[v].phase = "open"
  BY <1>1, <1>2 DEF HookSound
<1>7. ~hook[v].full => Whole(hook[v]) /\ f.seq > hook[v].last
  <2>1. hook[v].last \in Nat /\ conn[v].sent \in Nat /\ f.seq \in Nat
    BY <1>2, <1>4 DEF HookType, ConnType, Frame
  <2> QED
    BY <1>1, <1>2, <1>4, <2>1 DEF HookSound
<1>8. /\ h \in HookType /\ h.id = f.seq /\ (hook[v].full => h.full)
      /\ h.phase = "recovering" => h.full
      /\ ~h.full => Whole(h) /\ h.last = f.seq
  <2>1. ~f.error => f.seq \in Seqs
    BY <1>2, <1>4
  <2> QED
    BY <1>2, <1>4, <1>6, <1>7, <2>1, ReceivedIs
<1>9. f.seq \in Nat
  BY <1>4 DEF Frame
<1>10. CASE ended
  <2> DEFINE g == IF h.phase = "open" THEN [h EXCEPT !.phase = "native"] ELSE h
  <2>1. /\ conn' = [conn EXCEPT ![v] = Unconnected]
        /\ Unsubscribe({<<v, "source">>})
        /\ hook' = [hook EXCEPT ![v] = g]
    BY <1>10 DEF Send
  <2> HIDE DEF h, f, ended
  <2>2. /\ g \in HookType /\ g.full = h.full /\ g.id = h.id /\ g.last = h.last
        /\ g.phase = "recovering" => h.phase = "recovering"
        /\ Whole(h) => Whole(g)
    BY <1>8, PhaseIs
  <2> HIDE DEF g
  <2>3. HookSound(g, Unconnected)
    BY <1>8, <1>9, <2>2, UnconnectedIs DEF HookSound
  <2>4. {<<v, "source">>} \in SUBSET {<<v, "source">>, <<v, "probe">>}
    OBVIOUS
  <2> QED
    BY <1>1, <1>2, <1>6, <2>1, <2>2, <2>3, <2>4, Ended
<1>11. CASE ~ended
  <2>1. /\ h.phase = "open"
        /\ conn' = [conn EXCEPT ![v] = c]
        /\ hook' = [hook EXCEPT ![v] = h]
        /\ UNCHANGED <<channel, wire, buffer, subscribers>>
    <3>1. conn' = [conn EXCEPT ![v].queue = rest, ![v].sent = f.seq]
      BY <1>11 DEF Send
    <3>2. conn' = [conn EXCEPT ![v] = c]
      BY <1>2, <3>1
    <3> QED
      BY <1>11, <3>2 DEF Send
  <2> HIDE DEF h, f, c, ended
  <2>2. /\ conn' \in [Viewers -> ConnType] /\ conn'[v] = c
        /\ \A u \in Viewers \ {v} : conn'[u] = conn[u]
    BY <1>2, <1>4, <2>1
  <2>3. HookSound(h, c)
    BY <1>5, <1>8, <1>9, <2>1 DEF HookSound
  <2>4. hook' \in [Viewers -> HookType] /\ HooksWhole'
    BY <1>8, <2>1, <2>2, <2>3, HookStep
  <2>5. Waiting'
    BY <1>1, <1>6, <2>1, StillWaiting
  <2>6. Published'
    BY <1>1, <2>1 DEF StreamInv, Published
  <2>7. ASSUME NEW u \in Viewers
        PROVE  SoundConn(conn'[u], buffer'.notified) /\ (conn'[u].ready => <<u, "source">> \in subscribers')
    BY <1>4, <1>5, <2>1, <2>2 DEF StreamInv, ConnsSound
  <2>8. ConnsSound'
    BY <1>1, <2>7, ConnsTransfer
  <2>9. /\ channel \in {"off", "joining", "joined"} /\ wire \in Seq(Seqs)
        /\ subscribers \subseteq Viewers \X {"probe", "source"} /\ op \in OpType
    BY TypesAre DEF StreamInv
  <2> QED
    BY <1>1, <1>2, <2>1, <2>2, <2>4, <2>5, <2>6, <2>8, <2>9, Assembled
<1> QED
  BY <1>10, <1>11

\* A browser whose connection ends asks for it again.
LEMMA NativeIs ==
    ASSUME StreamInv, NEW v \in Viewers, conn[v].open
    PROVE  /\ [hook[v] EXCEPT !.phase = "native"] \in HookType
           /\ HookSound([hook[v] EXCEPT !.phase = "native"], Unconnected)
           /\ hook[v].phase = "open"
<1> DEFINE h == [hook[v] EXCEPT !.phase = "native"]
<1>1. hook[v] \in HookType /\ HookSound(hook[v], conn[v])
  BY TypesAre DEF StreamInv, HooksWhole
<1>2. /\ h \in HookType /\ h.phase = "native" /\ h.full = hook[v].full
      /\ h.id = hook[v].id /\ h.last = hook[v].last
      /\ Whole(hook[v]) => Whole(h)
  BY <1>1, PhaseIs
<1> HIDE DEF h
<1>3. HookSound(h, Unconnected) /\ hook[v].phase = "open"
  BY <1>1, <1>2, UnconnectedIs DEF HookSound
<1> QED
  BY <1>2, <1>3 DEF h

LEMMA CloseEmptyInv ==
    ASSUME StreamInv, NEW v \in Viewers, CloseEmpty(v)
    PROVE  StreamInv'
<1> DEFINE h == [hook[v] EXCEPT !.phase = "native"]
<1>1. /\ conn[v].open /\ conn' = [conn EXCEPT ![v] = Unconnected]
      /\ Unsubscribe({<<v, "source">>}) /\ hook' = [hook EXCEPT ![v] = h]
      /\ UNCHANGED <<storeVars, op>> /\ faults' = faults
  BY DEF CloseEmpty
<1>2. h \in HookType /\ HookSound(h, Unconnected) /\ hook[v].phase = "open"
  BY <1>1, NativeIs
<1> HIDE DEF h
<1>3. {<<v, "source">>} \in SUBSET {<<v, "source">>, <<v, "probe">>} /\ faults' \in 0 .. MaxFaults
  BY <1>1, TypesAre DEF StreamInv
<1> QED
  BY <1>1, <1>2, <1>3, Ended

LEMMA BreakInv ==
    ASSUME StreamInv, NEW v \in Viewers, Break(v)
    PROVE  StreamInv'
<1> DEFINE h == [hook[v] EXCEPT !.phase = "native"]
<1>1. /\ conn[v].open /\ conn' = [conn EXCEPT ![v] = Unconnected]
      /\ Unsubscribe({<<v, "source">>}) /\ hook' = [hook EXCEPT ![v] = h]
      /\ UNCHANGED <<storeVars, op>>
  BY DEF Break
<1>2. h \in HookType /\ HookSound(h, Unconnected) /\ hook[v].phase = "open"
  BY <1>1, NativeIs
<1> HIDE DEF h
<1>3. {<<v, "source">>} \in SUBSET {<<v, "source">>, <<v, "probe">>} /\ faults' \in 0 .. MaxFaults
  BY FaultIs DEF StreamInv, Break
<1> QED
  BY <1>1, <1>2, <1>3, Ended

LEMMA UserReplayInv ==
    ASSUME StreamInv, NEW v \in Viewers, UserReplay(v)
    PROVE  StreamInv'
<1>1. /\ op.viewer # v /\ conn' = [conn EXCEPT ![v] = Unconnected]
      /\ Unsubscribe({<<v, "source">>, <<v, "probe">>}) /\ hook' = [hook EXCEPT ![v] = NewHook]
      /\ UNCHANGED <<storeVars, op>>
  BY DEF UserReplay
<1>2. NewHook \in HookType /\ HookSound(NewHook, Unconnected)
  BY UnconnectedIs DEF NewHook, HookType, HookSound, Whole
<1>3. {<<v, "source">>, <<v, "probe">>} \in SUBSET {<<v, "source">>, <<v, "probe">>}
      /\ faults' \in 0 .. MaxFaults
  BY FaultIs DEF StreamInv, UserReplay
<1> QED
  BY <1>1, <1>2, <1>3, Ended

\* A browser that recovers has asked for everything, and holds no connection.
LEMMA RecoveringInv ==
    ASSUME StreamInv, NEW v \in Viewers, hook[v].phase = "recovering",
           NEW h \in HookType, h.full = hook[v].full, h.phase # "recovering",
           hook' = [hook EXCEPT ![v] = h],
           UNCHANGED <<storeVars, brokerVars, conn>>, faults' \in 0 .. MaxFaults
    PROVE  StreamInv'
<1>1. log' = log /\ channel' = channel /\ wire' = wire /\ buffer' = buffer
      /\ subscribers' = subscribers /\ op' = op /\ conn' = conn
  BY DEF storeVars, brokerVars
<1>2. HookSound(hook[v], conn[v]) /\ hook[v].full /\ ~conn[v].open
  BY DEF StreamInv, HooksWhole, HookSound
<1>3. HookSound(h, conn[v])
  BY <1>2 DEF HookSound
<1>4. hook' \in [Viewers -> HookType] /\ HooksWhole'
  BY <1>1, <1>3, HookStep
<1>5. Waiting'
  BY <1>1, StillWaiting
<1>6. Published' /\ ConnsSound'
  BY <1>1, ConnsTransfer DEF StreamInv, Published, ConnsSound
<1> QED
  BY <1>1, <1>4, <1>5, <1>6, TypesAre, Assembled DEF StreamInv

LEMMA RecoverInv ==
    ASSUME StreamInv, NEW v \in Viewers, Recover(v)
    PROVE  StreamInv'
<1> DEFINE top == Max({hook[v].last, Len(log)})
           p == IF Completed THEN "completed" ELSE "scheduled"
           h == [hook[v] EXCEPT !.last = top, !.shown = @ \cup DOMAIN log, !.phase = p]
<1>1. /\ hook \in [Viewers -> HookType] /\ hook[v] \in HookType /\ faults \in 0 .. MaxFaults
      /\ Len(log) \in Nat /\ DOMAIN log \subseteq Seqs
  BY TypesAre, LogIs DEF StreamInv
<1>2. top \in Nat
  <2>1. hook[v].last \in Nat
    BY <1>1 DEF HookType
  <2> QED
    BY <1>1, <2>1, Greater
<1>3. /\ hook[v].phase = "recovering"
      /\ UNCHANGED <<storeVars, brokerVars, conn>> /\ faults' = faults
  BY DEF Recover
<1>4. hook' = [hook EXCEPT ![v] = h]
  <2>1. hook' = [hook EXCEPT ![v].last = top, ![v].shown = @ \cup DOMAIN log, ![v].phase = p]
    BY DEF Recover
  <2> HIDE DEF top, p
  <2> QED
    BY <1>1, <2>1
<1> HIDE DEF top
<1>5. h \in HookType /\ h.full = hook[v].full /\ h.phase # "recovering"
  BY <1>1, <1>2 DEF HookType
<1> HIDE DEF h
<1> QED
  BY <1>1, <1>3, <1>4, <1>5, RecoveringInv

LEMMA RecoverFailsInv ==
    ASSUME StreamInv, NEW v \in Viewers, RecoverFails(v)
    PROVE  StreamInv'
<1> DEFINE h == [hook[v] EXCEPT !.phase = "scheduled"]
<1>1. /\ hook[v].phase = "recovering" /\ hook' = [hook EXCEPT ![v] = h]
      /\ UNCHANGED <<storeVars, brokerVars, conn>>
      /\ faults' \in 0 .. MaxFaults /\ hook[v] \in HookType
  BY FaultIs, TypesAre DEF RecoverFails, StreamInv
<1>2. h \in HookType /\ h.full = hook[v].full /\ h.phase = "scheduled"
  BY <1>1, PhaseIs
<1> HIDE DEF h
<1> QED
  BY <1>1, <1>2, RecoveringInv

\* A queue that takes no more is what it was.
LEMMA IdleTimeoutInv ==
    ASSUME StreamInv, NEW v \in Viewers, IdleTimeout(v)
    PROVE  StreamInv'
<1> DEFINE c == [conn[v] EXCEPT !.closed = TRUE, !.closing = TRUE]
<1>1. /\ log' = log /\ channel' = channel /\ wire' = wire /\ buffer' = buffer
      /\ subscribers' = subscribers /\ op' = op /\ hook' = hook /\ faults' = faults
      /\ UNCHANGED storeVars
  BY DEF IdleTimeout, storeVars, brokerVars
<1>2. conn \in [Viewers -> ConnType] /\ conn[v] \in ConnType
  BY TypesAre DEF StreamInv
<1>3. conn' = [conn EXCEPT ![v] = c]
  <2>1. conn' = [conn EXCEPT ![v].closed = TRUE, ![v].closing = TRUE]
    BY DEF IdleTimeout
  <2> QED
    BY <1>2, <2>1
<1>4. /\ c \in ConnType /\ c.queue = conn[v].queue /\ c.sent = conn[v].sent /\ c.ended = conn[v].ended
      /\ c.ready = conn[v].ready /\ c.open = conn[v].open /\ c.after = conn[v].after
  BY <1>2 DEF ConnType
<1> HIDE DEF c
<1>5. conn' \in [Viewers -> ConnType] /\ conn'[v] = c /\ \A u \in Viewers \ {v} : conn'[u] = conn[u]
  BY <1>2, <1>3, <1>4
<1>6. \A u \in Viewers : conn'[u].open = conn[u].open /\ conn'[u].sent = conn[u].sent
  BY <1>4, <1>5
<1>7. HooksWhole'
  BY <1>1, <1>6, HooksTransfer
<1>8. SoundConn(c, buffer.notified)
  BY <1>4 DEF StreamInv, ConnsSound, SoundConn
<1>9. ASSUME NEW u \in Viewers
      PROVE  SoundConn(conn'[u], buffer'.notified) /\ (conn'[u].ready => <<u, "source">> \in subscribers')
  BY <1>1, <1>4, <1>5, <1>8 DEF StreamInv, ConnsSound
<1>10. ConnsSound'
  BY <1>1, <1>9, ConnsTransfer
<1>11. Published' /\ Waiting'
  BY <1>1 DEF StreamInv, Published, Waiting
<1> QED
  BY <1>1, <1>5, <1>7, <1>10, <1>11, TypesAre, Assembled DEF StreamInv

LEMMA RestartInv ==
    ASSUME StreamInv, Restart
    PROVE  StreamInv'
<1> DEFINE p(u) == CASE hook[u].phase = "open" -> "native"
                     [] hook[u].phase = "probing" -> "scheduled"
                     [] OTHER -> hook[u].phase
           h(u) == [hook[u] EXCEPT !.phase = p(u)]
<1>1. /\ channel' = "off" /\ wire' = <<>> /\ buffer' = NoBuffer /\ subscribers' = {} /\ op' = Idle
      /\ conn' = [u \in Viewers |-> Unconnected]
      /\ UNCHANGED storeVars /\ log' = log
      /\ faults' \in 0 .. MaxFaults
  BY FaultIs DEF Restart, storeVars, StreamInv
<1>2. hook' = [u \in Viewers |-> h(u)]
  BY DEF Restart
<1>3. \A u \in Viewers : hook[u] \in HookType /\ HookSound(hook[u], conn[u])
  BY TypesAre DEF StreamInv, HooksWhole
<1>4. \A u \in Viewers :
         /\ p(u) \in {"scheduled", "opening", "native", "recovering", "completed", "stuck"}
         /\ p(u) = "scheduled" \/ hook[u].phase \notin {"scheduled", "probing"}
         /\ p(u) = "recovering" => hook[u].phase = "recovering"
  BY <1>3 DEF HookType
<1> HIDE DEF p
<1>5. ASSUME NEW u \in Viewers
      PROVE  h(u) \in HookType /\ HookSound(h(u), Unconnected)
  <2> DEFINE g == hook[u]
             k == p(u)
  <2>1. /\ g \in HookType /\ HookSound(g, conn[u])
        /\ k \in {"scheduled", "probing", "opening", "open", "native", "recovering", "completed", "stuck"}
    BY <1>3, <1>4
  <2> HIDE DEF g, k
  <2>2. /\ [g EXCEPT !.phase = k] \in HookType
        /\ [g EXCEPT !.phase = k].phase = k /\ [g EXCEPT !.phase = k].full = g.full
        /\ [g EXCEPT !.phase = k].id = g.id /\ [g EXCEPT !.phase = k].last = g.last
        /\ Whole(g) => Whole([g EXCEPT !.phase = k])
    BY <2>1, PhaseIs
  <2>3. /\ h(u) \in HookType /\ h(u).phase = k /\ h(u).full = g.full
        /\ h(u).id = g.id /\ h(u).last = g.last
        /\ Whole(g) => Whole(h(u))
    BY <2>2 DEF g, k
  <2>4. /\ k = "scheduled" \/ g.phase \notin {"scheduled", "probing"}
        /\ k = "recovering" => g.phase = "recovering"
        /\ k # "probing"
    BY <1>4 DEF g, k
  <2> HIDE DEF h
  <2> QED
    BY <2>1, <2>3, <2>4, UnconnectedIs DEF HookSound
<1> HIDE DEF h
<1>6. hook' \in [Viewers -> HookType] /\ conn' \in [Viewers -> ConnType]
  BY <1>1, <1>2, <1>5, UnconnectedIs
<1>7. \A u \in Viewers : HookSound(hook'[u], conn'[u])
  BY <1>1, <1>2, <1>5
<1>8. HooksWhole'
  BY <1>7 DEF HooksWhole, HookSound, Whole
<1>9. wire' \in Seq(Seqs) /\ ToSet(wire') = {}
  BY <1>1, EmptySeq DEF ToSet
<1>10. Published' /\ Waiting'
  BY <1>1, <1>9, NoBufferIs, IdleIs DEF Published, Waiting
<1>11. ConnsSound'
  BY <1>1, UnconnectedIs, ConnsTransfer
<1> QED
  BY <1>1, <1>6, <1>8, <1>9, <1>10, <1>11, NoBufferIs, IdleIs, Assembled

-----------------------------------------------------------------------------
(* The theorems *)

LEMMA StepInv == StreamInv /\ [Next]_vars => StreamInv'
<1> SUFFICES ASSUME StreamInv, [Next]_vars
             PROVE  StreamInv'
  OBVIOUS
<1>1. CASE UNCHANGED vars
  BY <1>1, StutterInv
<1>2. CASE Worker
  BY <1>2, PublishInv, TrimInv DEF Worker
<1>3. CASE Channel
  BY <1>3, JoinInv, DeliverInv DEF Channel
<1>4. CASE Lose
  BY <1>4, LoseInv
<1>5. CASE Poller
  BY <1>5, PollReadInv, PollNotifyInv DEF Poller
<1>6. ASSUME NEW v \in Viewers, Connection(v)
      PROVE  StreamInv'
  BY <1>6, ProbeReadInv, ProbeSubscribedInv, ProbeAbortedInv, SourceReadInv, SourceSubscribedInv,
     SendInv, CloseEmptyInv, RecoverInv DEF Connection
<1>7. ASSUME NEW v \in Viewers, Disturbance(v)
      PROVE  StreamInv'
  BY <1>7, IdleTimeoutInv, RecoverFailsInv, UserReplayInv, BreakInv DEF Disturbance
<1>8. CASE Restart
  BY <1>8, RestartInv
<1> QED
  BY <1>1, <1>2, <1>3, <1>4, <1>5, <1>6, <1>7, <1>8 DEF Next

LEMMA InvAlways == Spec => []StreamInv
<1>1. StreamInv /\ [Next]_vars => StreamInv'
  BY StepInv
<1> QED
  BY <1>1, InitInv, PTL DEF Spec

\* On every connection the frames that wait are in the order of the events, none behind a completion
\* and all after what was sent, however replays, the hot buffer, polls and realtime rows interleave
\* (enqueueEvent, notifyPersistedEvent and subscribe).
THEOREM FramesInOrderAlways == Spec => []FramesInOrder
BY InvAlways, InOrder, PTL

\* A hook that has not asked for a full replay shows its events without a hole, whatever queues,
\* channels, connections and processes lose (queueEvent).
THEOREM GapIsNoticedAlways == Spec => []GapIsNoticed
BY InvAlways, GapsKnown, PTL

\* Every state of the stream has the type the runs check.
THEOREM StreamTypeCorrect == Spec => []TypeOK
<1>1. StreamInv => TypeOK
  BY DEF StreamInv
<1> QED
  BY <1>1, InvAlways, PTL

=============================================================================
