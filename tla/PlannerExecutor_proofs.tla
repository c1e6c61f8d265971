----------------------- MODULE PlannerExecutor_proofs -----------------------
(***************************************************************************)
(* Proofs about PlannerExecutor and the resources it works with: the       *)
(* figures of every resource are what the ledger's open records add up to, *)
(* and a run holds reservations for what is in flight only, for every plan *)
(* and whatever the other users of the resources do.                       *)
(***************************************************************************)
EXTENDS PlannerExecutor, Iteration, SequenceTheorems, FiniteSetTheorems

-----------------------------------------------------------------------------
(* Sums *)

\* A sum is taken one amount after the other.
LEMMA SummingIs ==
    ASSUME NEW amounts \in Seq(Nat)
    PROVE  /\ Summing(amounts)[0] = 0
           /\ \A n \in 1 .. Len(amounts) : Summing(amounts)[n] = Summing(amounts)[n - 1] + amounts[n]
           /\ \A n \in 0 .. Len(amounts) : Summing(amounts)[n] \in Nat
<1> DEFINE N == Len(amounts)
           S == Nat
           Defines(g) == g = [n \in 0 .. N |-> IF n = 0 THEN 0 ELSE g[n - 1] + amounts[n]]
           step == [n \in 1 .. N |-> [x \in S |-> x + amounts[n]]]
<1>1. N \in Nat /\ 0 \in S
  OBVIOUS
<1>2. step \in [1 .. N -> [S -> S]]
  OBVIOUS
<1>3. \A n \in 1 .. N, x \in S : step[n][x] = x + amounts[n]
  OBVIOUS
<1> HIDE DEF step, N, S
<1>4. PICK g \in [0 .. N -> S] : Computes(g, N, 0, step)
  BY <1>1, <1>2, Recursion
<1>5. Defines(g)
  <2>1. ASSUME NEW n \in 0 .. N
        PROVE  g[n] = IF n = 0 THEN 0 ELSE g[n - 1] + amounts[n]
    <3>1. CASE n = 0
      BY <1>4, <3>1 DEF Computes
    <3>2. CASE n # 0
      <4>1. n \in 1 .. N /\ n - 1 \in 0 .. N
        BY <1>1, <3>2
      <4>2. g[n - 1] \in S /\ g[n] = step[n][g[n - 1]]
        BY <1>4, <4>1 DEF Computes
      <4>3. g[n] = g[n - 1] + amounts[n]
        BY <1>3, <4>1, <4>2
      <4> QED
        BY <3>2, <4>3
    <3> QED
      BY <3>1, <3>2
  <2> QED
    BY <2>1
<1>6. Summing(amounts) = CHOOSE h : Defines(h)
  BY DEF Summing, N
<1>7. Defines(Summing(amounts))
  <2> HIDE DEF Defines
  <2> QED
    BY <1>5, <1>6
<1>8. ASSUME NEW q, q = Summing(amounts)
      PROVE  /\ q[0] = 0
             /\ \A n \in 1 .. N : q[n] = q[n - 1] + amounts[n]
  <2>1. q = [n \in 0 .. N |-> IF n = 0 THEN 0 ELSE q[n - 1] + amounts[n]]
    BY <1>7, <1>8
  <2>2. q[0] = 0
    BY <1>1, <2>1
  <2>3. ASSUME NEW n \in 1 .. N
        PROVE  q[n] = q[n - 1] + amounts[n]
    <3>1. n \in 0 .. N /\ n # 0
      BY <1>1
    <3> QED
      BY <2>1, <3>1
  <2> QED
    BY <2>2, <2>3
<1>9. \A n \in 0 .. N : Summing(amounts)[n] \in S
  <2> DEFINE Typed == {n \in 0 .. N : Summing(amounts)[n] \in S}
  <2>1. 0 \in Typed
    BY <1>1, <1>8
  <2>2. ASSUME NEW n \in 0 .. N - 1, n \in Typed
        PROVE  n + 1 \in Typed
    <3>1. n + 1 \in 1 .. N /\ n + 1 \in 0 .. N /\ (n + 1) - 1 = n
      BY <1>1
    <3>2. Summing(amounts)[n] \in S
      BY <2>2
    <3>3. Summing(amounts)[n + 1] = Summing(amounts)[n] + amounts[(n + 1)]
      BY <1>8, <3>1
    <3>4. step[n + 1][Summing(amounts)[n]] \in S
      BY <1>2, <3>1, <3>2
    <3> QED
      BY <1>3, <3>1, <3>2, <3>3, <3>4
  <2> HIDE DEF Typed
  <2>3. \A n \in 0 .. N : n \in Typed
    BY <1>1, <2>1, <2>2, Induct
  <2> QED
    BY <2>3 DEF Typed
<1> QED
  BY <1>8, <1>9 DEF N, S

LEMMA TotalNat ==
    ASSUME NEW amounts \in Seq(Nat)
    PROVE  Total(amounts) \in Nat
<1>1. Len(amounts) \in 0 .. Len(amounts)
  OBVIOUS
<1> QED
  BY <1>1, SummingIs DEF Total

\* Sums of sequences that agree so far are the same so far.
LEMMA SumsAgree ==
    ASSUME NEW s \in Seq(Nat), NEW t \in Seq(Nat), NEW K \in Nat, K <= Len(s), K <= Len(t),
           \A i \in 1 .. K : s[i] = t[i]
    PROVE  Summing(s)[K] = Summing(t)[K]
<1> DEFINE T == {n \in 0 .. K : Summing(s)[n] = Summing(t)[n]}
<1>1. 0 \in T
  BY SummingIs
<1>2. ASSUME NEW n \in 0 .. K - 1, n \in T
      PROVE  n + 1 \in T
  <2>1. n + 1 \in 1 .. Len(s) /\ n + 1 \in 1 .. Len(t) /\ (n + 1) - 1 = n /\ n + 1 \in 1 .. K
    OBVIOUS
  <2>2. Summing(s)[n + 1] = Summing(s)[n] + s[n + 1] /\ Summing(t)[n + 1] = Summing(t)[n] + t[n + 1]
    BY <2>1, SummingIs
  <2> QED
    BY <1>2, <2>1, <2>2
<1>3. K \in T
  <2> HIDE DEF T
  <2>1. \A n \in 0 .. K : n \in T
    BY <1>1, <1>2, Induct
  <2> QED
    BY <2>1
<1> QED
  BY <1>3

\* One amount more.
LEMMA TotalAppended ==
    ASSUME NEW s \in Seq(Nat), NEW t \in Seq(Nat), Len(t) = Len(s) + 1,
           \A i \in 1 .. Len(s) : t[i] = s[i]
    PROVE  Total(t) = Total(s) + t[Len(t)]
<1>1. Len(t) \in 1 .. Len(t) /\ Len(t) - 1 = Len(s) /\ Len(s) \in Nat /\ Len(s) <= Len(t) /\ Len(s) <= Len(s)
  OBVIOUS
<1>2. Summing(t)[Len(t)] = Summing(t)[Len(s)] + t[Len(t)]
  BY <1>1, SummingIs
<1>3. Summing(t)[Len(s)] = Summing(s)[Len(s)]
  BY <1>1, SumsAgree
<1> QED
  BY <1>2, <1>3 DEF Total

\* One amount changed.
LEMMA TotalChanged ==
    ASSUME NEW s \in Seq(Nat), NEW t \in Seq(Nat), Len(t) = Len(s), NEW j \in 1 .. Len(s),
           \A i \in 1 .. Len(s) : i # j => t[i] = s[i]
    PROVE  Total(t) + s[j] = Total(s) + t[j]
<1>0. Len(s) \in Nat
  OBVIOUS
<1> DEFINE T == {n \in 0 .. Len(s) : n >= j => Summing(t)[n] + s[j] = Summing(s)[n] + t[j]}
<1>1. 0 \in T
  OBVIOUS
<1>2. ASSUME NEW n \in 0 .. Len(s) - 1, n \in T
      PROVE  n + 1 \in T
  <2>1. n + 1 \in 1 .. Len(s) /\ n + 1 \in 1 .. Len(t) /\ (n + 1) - 1 = n /\ n \in 0 .. Len(s)
    OBVIOUS
  <2>2. Summing(s)[n + 1] = Summing(s)[n] + s[n + 1] /\ Summing(t)[n + 1] = Summing(t)[n] + t[n + 1]
    BY <2>1, SummingIs
  <2>a. Summing(s)[n] \in Nat /\ Summing(t)[n] \in Nat
    BY <2>1, SummingIs
  <2>b. s[j] \in Nat /\ t[j] \in Nat /\ s[n + 1] \in Nat /\ t[n + 1] \in Nat
    BY <2>1
  <2>3. Summing(s)[n] \in Nat /\ Summing(t)[n] \in Nat /\ s[j] \in Nat /\ t[j] \in Nat
        /\ s[n + 1] \in Nat /\ t[n + 1] \in Nat
    BY <2>a, <2>b
  <2>c. n >= j => Summing(t)[n] + s[j] = Summing(s)[n] + t[j]
    BY <1>2
  <2>d. n \in Nat /\ j \in Nat /\ n <= Len(s) /\ n <= Len(t) /\ n + 1 \in Nat
    BY <1>0, <2>1
  <2> HIDE DEF T
  <2>4. CASE n + 1 < j
    <3>1. ~(n + 1 >= j)
      BY <2>4, <2>d
    <3> QED
      BY <2>1, <3>1 DEF T
  <2>5. CASE n + 1 = j
    <3>1. \A i \in 1 .. n : t[i] = s[i]
      <4>1. \A i \in 1 .. n : i \in 1 .. Len(s) /\ i # j
        BY <1>0, <2>5, <2>d
      <4> QED
        BY <4>1
    <3>2. Summing(t)[n] = Summing(s)[n]
      BY <2>d, <3>1, SumsAgree
    <3>3. Summing(s)[j] = Summing(s)[n] + s[j] /\ Summing(t)[j] = Summing(s)[n] + t[j]
      BY <2>2, <2>5, <3>2
    <3>4. (Summing(s)[n] + t[j]) + s[j] = (Summing(s)[n] + s[j]) + t[j]
      <4> DEFINE x == Summing(s)[n]
                 a == s[j]
                 b == t[j]
      <4>1. x \in Nat /\ a \in Nat /\ b \in Nat
        BY <2>3
      <4> HIDE DEF x, a, b
      <4>2. (x + b) + a = (x + a) + b
        BY <4>1
      <4> QED
        BY <4>2 DEF x, a, b
    <3>5. Summing(t)[n + 1] + s[j] = Summing(s)[n + 1] + t[j]
      BY <2>5, <3>3, <3>4
    <3> QED
      BY <2>1, <3>5 DEF T
  <2>6. CASE n + 1 > j
    <3>0. n >= j /\ n + 1 # j /\ n + 1 \in 1 .. Len(s)
      <4>1. n >= j /\ n + 1 # j
        BY <2>6, <2>d
      <4> QED
        BY <2>1, <4>1
    <3>1. n >= j /\ t[n + 1] = s[n + 1]
      BY <3>0
    <3>2. Summing(t)[n] + s[j] = Summing(s)[n] + t[j]
      BY <2>c, <3>1
    <3>3. Summing(t)[n + 1] + s[j] = Summing(s)[n + 1] + t[j]
      <4> DEFINE x == Summing(t)[n]
                 y == Summing(s)[n]
                 a == s[j]
                 b == t[j]
                 e == t[n + 1]
      <4>1. x + a = y + b /\ x \in Nat /\ y \in Nat /\ a \in Nat /\ b \in Nat /\ e \in Nat
        BY <2>3, <3>2
      <4>2. Summing(t)[n + 1] = x + e /\ Summing(s)[n + 1] = y + e
        BY <2>2, <3>1
      <4>3. (x + e) + a = (y + e) + b
        <5> HIDE DEF x, y, a, b, e
        <5> QED
          BY <4>1
      <4> QED
        BY <4>2, <4>3
    <3> QED
      BY <2>1, <3>3 DEF T
  <2> QED
    BY <2>4, <2>5, <2>6, <2>d
<1>3. Len(s) \in T
  <2> HIDE DEF T
  <2>1. \A n \in 0 .. Len(s) : n \in T
    BY <1>0, <1>1, <1>2, Induct
  <2> QED
    BY <1>0, <2>1
<1> QED
  BY <1>3 DEF Total

\* Nothing but zeros.
LEMMA TotalZero ==
    ASSUME NEW s \in Seq(Nat), \A i \in 1 .. Len(s) : s[i] = 0
    PROVE  Total(s) = 0
<1>0. Len(s) \in Nat
  OBVIOUS
<1> DEFINE T == {n \in 0 .. Len(s) : Summing(s)[n] = 0}
<1>1. 0 \in T
  BY SummingIs
<1>2. ASSUME NEW n \in 0 .. Len(s) - 1, n \in T
      PROVE  n + 1 \in T
  <2>1. n + 1 \in 1 .. Len(s) /\ (n + 1) - 1 = n
    OBVIOUS
  <2>2. Summing(s)[n + 1] = Summing(s)[n] + s[n + 1] /\ s[n + 1] = 0
    BY <2>1, SummingIs
  <2> QED
    BY <1>2, <2>1, <2>2
<1>3. Len(s) \in T
  <2> HIDE DEF T
  <2>1. \A n \in 0 .. Len(s) : n \in T
    BY <1>0, <1>1, <1>2, Induct
  <2> QED
    BY <1>0, <2>1
<1> QED
  BY <1>3 DEF Total

\* A sum is at least each of what it sums.
LEMMA TotalCovers ==
    ASSUME NEW s \in Seq(Nat), NEW j \in 1 .. Len(s)
    PROVE  s[j] <= Total(s)
<1> DEFINE t == [s EXCEPT ![j] = 0]
<1>1. t \in Seq(Nat) /\ Len(t) = Len(s) /\ t[j] = 0 /\ \A i \in 1 .. Len(s) : i # j => t[i] = s[i]
  OBVIOUS
<1> HIDE DEF t
<1>2. Total(t) + s[j] = Total(s) + 0
  BY <1>1, TotalChanged
<1>3. Total(t) \in Nat /\ Total(s) \in Nat /\ s[j] \in Nat
  BY <1>1, TotalNat
<1> QED
  BY <1>2, <1>3

-----------------------------------------------------------------------------
(* The records of the ledger *)

\* What each record holds of resource r.
Claims(book, r) ==
    [i \in DOMAIN book |->
        IF book[i].resource = r /\ book[i].status = "active" THEN book[i].amount ELSE 0]
Uses(book, r) ==
    [j \in DOMAIN book |-> IF book[j].resource = r /\ ~book[j].released THEN book[j].amount ELSE 0]

LEMMA ClaimsAre ==
    ASSUME NEW book \in Seq(Reservation), NEW r
    PROVE  /\ Claims(book, r) \in Seq(Nat) /\ Len(Claims(book, r)) = Len(book)
           /\ \A i \in 1 .. Len(book) : Claims(book, r)[i] =
                IF book[i].resource = r /\ book[i].status = "active" THEN book[i].amount ELSE 0
<1>1. \A i \in DOMAIN book : book[i].amount \in Nat
  <2>1. \A i \in DOMAIN book : book[i] \in Reservation
    OBVIOUS
  <2> QED
    BY <2>1 DEF Reservation
<1>2. DOMAIN book = 1 .. Len(book) /\ Len(book) \in Nat
  OBVIOUS
<1> QED
  BY <1>1, <1>2 DEF Claims

LEMMA UsesAre ==
    ASSUME NEW book \in Seq(Allocation), NEW r
    PROVE  /\ Uses(book, r) \in Seq(Nat) /\ Len(Uses(book, r)) = Len(book)
           /\ \A i \in 1 .. Len(book) : Uses(book, r)[i] =
                IF book[i].resource = r /\ ~book[i].released THEN book[i].amount ELSE 0
<1>1. \A i \in DOMAIN book : book[i].amount \in Nat
  <2>1. \A i \in DOMAIN book : book[i] \in Allocation
    OBVIOUS
  <2> QED
    BY <2>1 DEF Allocation
<1>2. DOMAIN book = 1 .. Len(book) /\ Len(book) \in Nat
  OBVIOUS
<1> QED
  BY <1>1, <1>2 DEF Uses

\* The figures of the ledger are those sums.
LEMMA HeldIs ==
    ASSUME NEW r
    PROVE  /\ HeldBy(reservations, ActiveReservations(r)) = Total(Claims(reservations, r))
           /\ HeldBy(allocations, ActiveAllocations(r)) = Total(Uses(allocations, r))
<1>1. [i \in DOMAIN reservations |-> IF i \in ActiveReservations(r) THEN reservations[i].amount ELSE 0]
        = Claims(reservations, r)
  BY DEF Claims, ActiveReservations
<1>2. [i \in DOMAIN allocations |-> IF i \in ActiveAllocations(r) THEN allocations[i].amount ELSE 0]
        = Uses(allocations, r)
  BY DEF Uses, ActiveAllocations
<1> QED
  BY <1>1, <1>2 DEF HeldBy

LEMMA ClaimsAppended ==
    ASSUME NEW book \in Seq(Reservation), NEW record \in Reservation, record.status = "active", NEW r
    PROVE  Total(Claims(Append(book, record), r)) =
                Total(Claims(book, r)) + (IF record.resource = r THEN record.amount ELSE 0)
<1> DEFINE next == Append(book, record)
<1>1. /\ next \in Seq(Reservation) /\ Len(next) = Len(book) + 1
      /\ next[Len(next)] = record /\ \A i \in 1 .. Len(book) : next[i] = book[i]
      /\ Len(next) \in 1 .. Len(next) /\ \A i \in 1 .. Len(book) : i \in 1 .. Len(next)
  OBVIOUS
<1> HIDE DEF next
<1> DEFINE s == Claims(book, r)
           t == Claims(next, r)
<1>2. /\ s \in Seq(Nat) /\ t \in Seq(Nat) /\ Len(t) = Len(s) + 1
      /\ \A i \in 1 .. Len(s) : t[i] = s[i]
      /\ t[Len(t)] = IF record.resource = r THEN record.amount ELSE 0
  <2>1. s \in Seq(Nat) /\ t \in Seq(Nat) /\ Len(s) = Len(book) /\ Len(t) = Len(next)
    BY <1>1, ClaimsAre
  <2>2. t[Len(next)] = IF record.resource = r THEN record.amount ELSE 0
    BY <1>1, ClaimsAre
  <2>3. ASSUME NEW i \in 1 .. Len(book)
        PROVE  t[i] = s[i]
    <3>1. i \in 1 .. Len(next) /\ next[i] = book[i]
      BY <1>1
    <3>2. s[i] = IF book[i].resource = r /\ book[i].status = "active" THEN book[i].amount ELSE 0
      BY ClaimsAre
    <3>3. t[i] = IF next[i].resource = r /\ next[i].status = "active" THEN next[i].amount ELSE 0
      BY <1>1, <3>1, ClaimsAre
    <3> QED
      BY <3>1, <3>2, <3>3
  <2> HIDE DEF s, t
  <2> QED
    BY <1>1, <2>1, <2>2, <2>3
<1> HIDE DEF s, t
<1>3. Total(t) = Total(s) + t[Len(t)]
  BY <1>2, TotalAppended
<1> QED
  BY <1>2, <1>3 DEF s, t, next

LEMMA UsesAppended ==
    ASSUME NEW book \in Seq(Allocation), NEW record \in Allocation, ~record.released, NEW r
    PROVE  Total(Uses(Append(book, record), r)) =
                Total(Uses(book, r)) + (IF record.resource = r THEN record.amount ELSE 0)
<1> DEFINE next == Append(book, record)
<1>1. /\ next \in Seq(Allocation) /\ Len(next) = Len(book) + 1
      /\ next[Len(next)] = record /\ \A i \in 1 .. Len(book) : next[i] = book[i]
      /\ Len(next) \in 1 .. Len(next) /\ \A i \in 1 .. Len(book) : i \in 1 .. Len(next)
  OBVIOUS
<1> HIDE DEF next
<1> DEFINE s == Uses(book, r)
           t == Uses(next, r)
<1>2. /\ s \in Seq(Nat) /\ t \in Seq(Nat) /\ Len(t) = Len(s) + 1
      /\ \A i \in 1 .. Len(s) : t[i] = s[i]
      /\ t[Len(t)] = IF record.resource = r THEN record.amount ELSE 0
  <2>1. s \in Seq(Nat) /\ t \in Seq(Nat) /\ Len(s) = Len(book) /\ Len(t) = Len(next)
    BY <1>1, UsesAre
  <2>2. t[Len(next)] = IF record.resource = r THEN record.amount ELSE 0
    BY <1>1, UsesAre
  <2>3. ASSUME NEW i \in 1 .. Len(book)
        PROVE  t[i] = s[i]
    <3>1. i \in 1 .. Len(next) /\ next[i] = book[i]
      BY <1>1
    <3>2. s[i] = IF book[i].resource = r /\ ~book[i].released THEN book[i].amount ELSE 0
      BY UsesAre
    <3>3. t[i] = IF next[i].resource = r /\ ~next[i].released THEN next[i].amount ELSE 0
      BY <1>1, <3>1, UsesAre
    <3> QED
      BY <3>1, <3>2, <3>3
  <2> HIDE DEF s, t
  <2> QED
    BY <1>1, <2>1, <2>2, <2>3
<1> HIDE DEF s, t
<1>3. Total(t) = Total(s) + t[Len(t)]
  BY <1>2, TotalAppended
<1> QED
  BY <1>2, <1>3 DEF s, t, next

\* A record that is closed no longer counts.
LEMMA ClaimsClosed ==
    ASSUME NEW book \in Seq(Reservation), NEW i \in DOMAIN book, book[i].status = "active",
           NEW next \in Seq(Reservation), Len(next) = Len(book), next[i].status # "active",
           \A j \in DOMAIN book : j # i => next[j] = book[j], NEW r
    PROVE  Total(Claims(next, r)) + (IF book[i].resource = r THEN book[i].amount ELSE 0)
                = Total(Claims(book, r))
<1> DEFINE s == Claims(book, r)
           t == Claims(next, r)
<1>1. i \in 1 .. Len(book) /\ i \in 1 .. Len(next)
  OBVIOUS
<1>2. /\ s \in Seq(Nat) /\ t \in Seq(Nat) /\ Len(t) = Len(s) /\ Len(s) = Len(book)
      /\ s[i] = IF book[i].resource = r THEN book[i].amount ELSE 0
      /\ t[i] = 0
  BY <1>1, ClaimsAre
<1>3. \A j \in 1 .. Len(s) : j # i => t[j] = s[j]
  <2> SUFFICES ASSUME NEW j \in 1 .. Len(s), j # i
               PROVE  t[j] = s[j]
    OBVIOUS
  <2>1. j \in DOMAIN book /\ j \in 1 .. Len(book) /\ j \in 1 .. Len(next) /\ next[j] = book[j]
    <3> HIDE DEF s, t
    <3> QED
      BY <1>2
  <2>2. s[j] = IF book[j].resource = r /\ book[j].status = "active" THEN book[j].amount ELSE 0
    BY <2>1, ClaimsAre
  <2>3. t[j] = IF next[j].resource = r /\ next[j].status = "active" THEN next[j].amount ELSE 0
    BY <2>1, ClaimsAre
  <2> QED
    BY <2>1, <2>2, <2>3
<1> HIDE DEF s, t
<1>4. Total(t) + s[i] = Total(s) + t[i]
  BY <1>1, <1>2, <1>3, TotalChanged
<1>5. Total(s) \in Nat
  BY <1>2, TotalNat
<1>6. Total(t) + s[i] = Total(s)
  BY <1>2, <1>4, <1>5
<1> QED
  BY <1>2, <1>6 DEF s, t

LEMMA UsesClosed ==
    ASSUME NEW book \in Seq(Allocation), NEW i \in DOMAIN book, ~book[i].released,
           NEW next \in Seq(Allocation), Len(next) = Len(book), next[i].released,
           \A j \in DOMAIN book : j # i => next[j] = book[j], NEW r
    PROVE  Total(Uses(next, r)) + (IF book[i].resource = r THEN book[i].amount ELSE 0)
                = Total(Uses(book, r))
<1> DEFINE s == Uses(book, r)
           t == Uses(next, r)
<1>1. i \in 1 .. Len(book) /\ i \in 1 .. Len(next)
  OBVIOUS
<1>2. /\ s \in Seq(Nat) /\ t \in Seq(Nat) /\ Len(t) = Len(s) /\ Len(s) = Len(book)
      /\ s[i] = IF book[i].resource = r THEN book[i].amount ELSE 0
      /\ t[i] = 0
  BY <1>1, UsesAre
<1>3. \A j \in 1 .. Len(s) : j # i => t[j] = s[j]
  <2> SUFFICES ASSUME NEW j \in 1 .. Len(s), j # i
               PROVE  t[j] = s[j]
    OBVIOUS
  <2>1. j \in DOMAIN book /\ j \in 1 .. Len(book) /\ j \in 1 .. Len(next) /\ next[j] = book[j]
    <3> HIDE DEF s, t
    <3> QED
      BY <1>2
  <2>2. s[j] = IF book[j].resource = r /\ ~book[j].released THEN book[j].amount ELSE 0
    BY <2>1, UsesAre
  <2>3. t[j] = IF next[j].resource = r /\ ~next[j].released THEN next[j].amount ELSE 0
    BY <2>1, UsesAre
  <2> QED
    BY <2>1, <2>2, <2>3
<1> HIDE DEF s, t
<1>4. Total(t) + s[i] = Total(s) + t[i]
  BY <1>1, <1>2, <1>3, TotalChanged
<1>5. Total(s) \in Nat
  BY <1>2, TotalNat
<1>6. Total(t) + s[i] = Total(s)
  BY <1>2, <1>4, <1>5
<1> QED
  BY <1>2, <1>6 DEF s, t

\* A record that counts is covered by the sum.
LEMMA ClaimsCover ==
    ASSUME NEW book \in Seq(Reservation), NEW i \in DOMAIN book, book[i].status = "active"
    PROVE  book[i].amount <= Total(Claims(book, book[i].resource))
<1> DEFINE s == Claims(book, book[i].resource)
<1>1. i \in 1 .. Len(book)
  OBVIOUS
<1>2. s \in Seq(Nat) /\ i \in 1 .. Len(s) /\ s[i] = book[i].amount
  BY <1>1, ClaimsAre
<1> HIDE DEF s
<1>3. s[i] <= Total(s)
  BY <1>2, TotalCovers
<1> QED
  BY <1>2, <1>3 DEF s

-----------------------------------------------------------------------------
(* The books of a manager *)

BooksType ==
    [rs : [ResourceIds -> Resource \cup {None}], book : Seq(Reservation), ok : BOOLEAN]

\* No record opens again, and none is forgotten.
Later(book, next) ==
    /\ Len(book) <= Len(next)
    /\ \A i \in DOMAIN book :
            /\ next[i].resource = book[i].resource
            /\ next[i].status = "active" => book[i].status = "active"

\* A resource is what it was, but for what is reserved of it.
Alike(x, y) ==
    IF x = None THEN y = None
    ELSE /\ y # None /\ y.capacity = x.capacity /\ y.allocated = x.allocated
         /\ y.state = x.state /\ y.frozen = x.frozen

Follows(books, next) ==
    /\ Later(books.book, next.book)
    /\ \A r \in ResourceIds : Alike(books.rs[r], next.rs[r])

\* What is reserved is what the records say, and no more is committed than there is.
Exact(rs, book, r) == rs[r] # None => rs[r].reserved = Total(Claims(book, r))
Within(rs, r) == rs[r] # None => rs[r].allocated + rs[r].reserved <= rs[r].capacity

Sound(books) ==
    /\ \A r \in ResourceIds \ uncounted : Exact(books.rs, books.book, r)
    /\ \A r \in ResourceIds \ shrunk : Within(books.rs, r)

LEMMA LaterTwice ==
    ASSUME NEW a \in Seq(Reservation), NEW b \in Seq(Reservation), NEW c \in Seq(Reservation),
           Later(a, b), Later(b, c)
    PROVE  Later(a, c)
<1>1. Len(a) <= Len(c) /\ \A i \in DOMAIN a : i \in DOMAIN b
  BY DEF Later
<1> QED
  BY <1>1 DEF Later

LEMMA FollowsSelf ==
    ASSUME NEW books \in BooksType
    PROVE  Follows(books, books)
<1>1. Len(books.book) \in Nat
  BY DEF BooksType
<1> QED
  BY <1>1 DEF Follows, Later, Alike

LEMMA FollowsTwice ==
    ASSUME NEW a \in BooksType, NEW b \in BooksType, NEW c \in BooksType,
           Follows(a, b), Follows(b, c)
    PROVE  Follows(a, c)
<1>1. Later(a.book, c.book)
  BY LaterTwice DEF Follows, BooksType
<1>2. \A r \in ResourceIds : Alike(a.rs[r], c.rs[r])
  BY DEF Follows, Alike
<1> QED
  BY <1>1, <1>2 DEF Follows

\* Amounts of a resource.
LEMMA UnreservingIs ==
    ASSUME NEW x \in Resource, NEW amount \in Nat
    PROVE  /\ Unreserving(x, amount) \in Resource
           /\ Unreserving(x, amount) # None
           /\ Alike(x, Unreserving(x, amount))
           /\ Unreserving(x, amount).reserved \in Nat
           /\ Unreserving(x, amount).reserved <= x.reserved
           /\ amount <= x.reserved => Unreserving(x, amount).reserved + amount = x.reserved
<1>1. x.reserved \in Nat
  BY DEF Resource
<1>2. /\ Floor0(x.reserved - amount) \in Nat
      /\ Floor0(x.reserved - amount) <= x.reserved
      /\ amount <= x.reserved => Floor0(x.reserved - amount) + amount = x.reserved
  BY <1>1 DEF Floor0
<1>3. /\ Unreserving(x, amount).reserved = Floor0(x.reserved - amount)
      /\ Unreserving(x, amount).capacity = x.capacity
      /\ Unreserving(x, amount).allocated = x.allocated
      /\ Unreserving(x, amount).state = x.state
      /\ Unreserving(x, amount).frozen = x.frozen
  BY DEF Unreserving, Resource
<1>4. Unreserving(x, amount) \in Resource
  BY <1>2 DEF Unreserving, Resource
<1>5. x # None /\ Unreserving(x, amount) # None
  BY <1>4, AbsenceAssumption
<1> QED
  BY <1>2, <1>3, <1>4, <1>5 DEF Alike

LEMMA ReservingIs ==
    ASSUME NEW x \in Resource, NEW amount \in Nat
    PROVE  /\ Reserving(x, amount) \in Resource
           /\ Reserving(x, amount) # None
           /\ Alike(x, Reserving(x, amount))
           /\ Reserving(x, amount).reserved = x.reserved + amount
<1>1. x.reserved \in Nat /\ x.reserved + amount \in Nat
  BY DEF Resource
<1>3. /\ Reserving(x, amount).reserved = x.reserved + amount
      /\ Reserving(x, amount).capacity = x.capacity
      /\ Reserving(x, amount).allocated = x.allocated
      /\ Reserving(x, amount).state = x.state
      /\ Reserving(x, amount).frozen = x.frozen
  BY DEF Reserving, Resource
<1>4. Reserving(x, amount) \in Resource
  BY <1>1 DEF Reserving, Resource
<1>5. x # None /\ Reserving(x, amount) # None
  BY <1>4, AbsenceAssumption
<1> QED
  BY <1>3, <1>4, <1>5 DEF Alike

\* There is what is asked for.
LEMMA CapacityIs ==
    ASSUME NEW x \in Resource, NEW amount \in Nat, HasCapacityFor(x, amount)
    PROVE  amount \in Nat \ {0} /\ x.allocated + x.reserved + amount <= x.capacity
<1>1. x.allocated \in Nat /\ x.reserved \in Nat /\ x.capacity \in Nat
  BY DEF Resource
<1> QED
  BY <1>1 DEF HasCapacityFor, Available, Floor0

LEMMA ClosedFields ==
    ASSUME NEW books \in BooksType, NEW i \in DOMAIN books.book,
           NEW status \in ReservationStatus \ {"active"},
           books.rs[books.book[i].resource] # None
    PROVE  LET r == books.book[i].resource
               next == Closed(books, i, status)
           IN  /\ next \in BooksType
               /\ next.rs[r] = Unreserving(books.rs[r], books.book[i].amount)
               /\ \A q \in ResourceIds : q # r => next.rs[q] = books.rs[q]
               /\ Len(next.book) = Len(books.book) /\ DOMAIN next.book = DOMAIN books.book
               /\ next.book[i].status = status /\ next.book[i].resource = r
               /\ \A j \in DOMAIN books.book : j # i => next.book[j] = books.book[j]
<1> DEFINE record == books.book[i]
           r == record.resource
           rs == [books.rs EXCEPT ![r] = Unreserving(books.rs[r], record.amount)]
           book == [books.book EXCEPT ![i].status = status]
<1>1. books.rs \in [ResourceIds -> Resource \cup {None}] /\ books.book \in Seq(Reservation) /\ books.ok \in BOOLEAN
  BY DEF BooksType
<1>2. record \in Reservation
  BY <1>1
<1>3. r \in ResourceIds /\ record.amount \in Nat
  BY <1>2 DEF Reservation
<1>4. books.rs[r] \in Resource
  BY <1>1, <1>3
<1>5. rs \in [ResourceIds -> Resource \cup {None}]
  BY <1>1, <1>3, <1>4, UnreservingIs
<1>6. book \in Seq(Reservation)
  <2>1. [record EXCEPT !.status = status] \in Reservation
    BY <1>2 DEF Reservation
  <2> HIDE DEF record
  <2>2. book = [books.book EXCEPT ![i] = [record EXCEPT !.status = status]]
    BY <1>1 DEF record
  <2> QED
    BY <1>1, <2>1, <2>2
<1>7. Closed(books, i, status) = [books EXCEPT !.rs = rs, !.book = book]
  BY DEF Closed
<1>8. /\ rs[r] = Unreserving(books.rs[r], record.amount)
      /\ \A q \in ResourceIds : q # r => rs[q] = books.rs[q]
  BY <1>1, <1>3
<1>9. /\ Len(book) = Len(books.book) /\ DOMAIN book = DOMAIN books.book
      /\ book[i].status = status /\ book[i].resource = r
      /\ \A j \in DOMAIN books.book : j # i => book[j] = books.book[j]
  BY <1>1, <1>2 DEF Reservation
<1> HIDE DEF rs, book
<1>10. Closed(books, i, status) \in BooksType
  BY <1>1, <1>5, <1>6, <1>7 DEF BooksType
<1>11. Closed(books, i, status).rs = rs /\ Closed(books, i, status).book = book
  BY <1>7 DEF BooksType
<1> QED
  BY <1>8, <1>9, <1>10, <1>11

\* A record that is closed: its resource and the other records are what they were.
LEMMA ClosedIs ==
    ASSUME NEW books \in BooksType, NEW i \in DOMAIN books.book,
           NEW status \in ReservationStatus \ {"active"},
           books.book[i].status = "active", books.rs[books.book[i].resource] # None
    PROVE  LET next == Closed(books, i, status)
           IN  /\ next \in BooksType
               /\ Len(next.book) = Len(books.book)
               /\ next.book[i].status = status
               /\ \A j \in DOMAIN books.book : j # i => next.book[j] = books.book[j]
               /\ Follows(books, next)
               /\ Sound(books) => Sound(next)
<1> DEFINE r == books.book[i].resource
           next == Closed(books, i, status)
           amount == books.book[i].amount
<1>1. books.rs \in [ResourceIds -> Resource \cup {None}] /\ books.book \in Seq(Reservation)
  BY DEF BooksType
<1>2. books.book[i] \in Reservation
  BY <1>1
<1>3. r \in ResourceIds /\ amount \in Nat
  BY <1>2 DEF Reservation
<1>4. books.rs[r] \in Resource
  BY <1>1, <1>3
<1>5. next \in BooksType
  BY ClosedFields
<1>8. next.rs[r] = Unreserving(books.rs[r], amount)
      /\ \A q \in ResourceIds : q # r => next.rs[q] = books.rs[q]
  BY ClosedFields
<1>9. /\ Len(next.book) = Len(books.book) /\ DOMAIN next.book = DOMAIN books.book
      /\ next.book[i].status = status /\ next.book[i].resource = r
      /\ \A j \in DOMAIN books.book : j # i => next.book[j] = books.book[j]
  BY ClosedFields
<1>10. next.rs \in [ResourceIds -> Resource \cup {None}] /\ next.book \in Seq(Reservation)
  BY <1>5 DEF BooksType
<1> HIDE DEF next
<1>11. Later(books.book, next.book)
  <2>1. Len(books.book) \in Nat
    BY <1>1
  <2> QED
    BY <1>9, <2>1 DEF Later
<1>12. \A q \in ResourceIds : Alike(books.rs[q], next.rs[q])
  <2>1. ASSUME NEW q \in ResourceIds
        PROVE  Alike(books.rs[q], next.rs[q])
    <3>1. CASE q = r
      BY <1>3, <1>4, <1>8, <3>1, UnreservingIs
    <3>2. CASE q # r
      BY <1>8, <3>2 DEF Alike
    <3> QED
      BY <3>1, <3>2
  <2> QED
    BY <2>1
<1>13. ASSUME Sound(books)
       PROVE  Sound(next)
  <2>1. ASSUME NEW q \in ResourceIds \ uncounted
        PROVE  Exact(next.rs, next.book, q)
    <3>1. Exact(books.rs, books.book, q)
      BY <1>13, <2>1 DEF Sound
    <3>2. Total(Claims(next.book, q)) + (IF r = q THEN amount ELSE 0) = Total(Claims(books.book, q))
      <4> DEFINE old == books.book
                 new == next.book
      <4>1. /\ old \in Seq(Reservation) /\ new \in Seq(Reservation) /\ i \in DOMAIN old
            /\ old[i].status = "active" /\ Len(new) = Len(old) /\ new[i].status # "active"
            /\ \A j \in DOMAIN old : j # i => new[j] = old[j]
        BY <1>1, <1>9, <1>10
      <4>2. r = old[i].resource /\ amount = old[i].amount
        OBVIOUS
      <4> HIDE DEF old, new, r, amount
      <4>3. Total(Claims(new, q)) + (IF old[i].resource = q THEN old[i].amount ELSE 0) = Total(Claims(old, q))
        BY <4>1, ClaimsClosed
      <4> QED
        BY <4>2, <4>3 DEF old, new
    <3>3. Total(Claims(next.book, q)) \in Nat /\ Total(Claims(books.book, q)) \in Nat
      BY <1>1, <1>10, ClaimsAre, TotalNat
    <3>4. CASE q = r
      <4>1. books.rs[r].reserved = Total(Claims(books.book, r))
        BY <1>4, <3>1, <3>4, AbsenceAssumption DEF Exact
      <4>2. amount <= books.rs[r].reserved
        BY <1>1, <4>1, ClaimsCover
      <4>3. next.rs[r].reserved + amount = books.rs[r].reserved /\ next.rs[r].reserved \in Nat
        BY <1>3, <1>4, <1>8, <4>2, UnreservingIs
      <4>4. next.rs[r].reserved = Total(Claims(next.book, r))
        <5> DEFINE x == next.rs[r].reserved
                   y == Total(Claims(next.book, r))
                   z == Total(Claims(books.book, r))
        <5>1. x \in Nat /\ y \in Nat /\ x + amount = z /\ y + amount = z
          BY <3>2, <3>3, <3>4, <4>1, <4>3
        <5> HIDE DEF x, y, z, amount
        <5>2. x = y
          BY <1>3, <5>1
        <5> QED
          BY <5>2 DEF x, y
      <4> QED
        BY <3>4, <4>4 DEF Exact
    <3>5. CASE q # r
      <4>1. Total(Claims(next.book, q)) = Total(Claims(books.book, q))
        BY <3>2, <3>3, <3>5
      <4> QED
        BY <1>8, <3>1, <3>5, <4>1 DEF Exact
    <3> QED
      BY <3>4, <3>5
  <2>2. ASSUME NEW q \in ResourceIds \ shrunk
        PROVE  Within(next.rs, q)
    <3>1. Within(books.rs, q)
      BY <1>13, <2>2 DEF Sound
    <3>2. CASE q = r
      <4>1. books.rs[r].allocated + books.rs[r].reserved <= books.rs[r].capacity
        BY <1>4, <3>1, <3>2, AbsenceAssumption DEF Within
      <4>2. /\ next.rs[r].reserved \in Nat /\ next.rs[r].reserved <= books.rs[r].reserved
            /\ next.rs[r].allocated = books.rs[r].allocated
            /\ next.rs[r].capacity = books.rs[r].capacity
        <5>1. Alike(books.rs[r], next.rs[r]) /\ books.rs[r] # None
          BY <1>3, <1>12, <1>4, AbsenceAssumption
        <5>2. next.rs[r].reserved \in Nat /\ next.rs[r].reserved <= books.rs[r].reserved
          BY <1>3, <1>4, <1>8, UnreservingIs
        <5> QED
          BY <5>1, <5>2 DEF Alike
      <4>3. /\ books.rs[r].allocated \in Nat /\ books.rs[r].capacity \in Nat
            /\ books.rs[r].reserved \in Nat
        BY <1>4 DEF Resource
      <4> QED
        BY <3>2, <4>1, <4>2, <4>3 DEF Within
    <3>3. CASE q # r
      BY <1>8, <3>1, <3>3 DEF Within
    <3> QED
      BY <3>2, <3>3
  <2> QED
    BY <2>1, <2>2 DEF Sound
<1> QED
  BY <1>5, <1>9, <1>11, <1>12, <1>13 DEF Follows, next

-----------------------------------------------------------------------------
(* Loops over the books *)

\* What a method may make of the books.
Reached(books) == {next \in BooksType : Follows(books, next) /\ (Sound(books) => Sound(next))}
SameLength(books) == {next \in Reached(books) : Len(next.book) = Len(books.book)}

LEMMA ReachedSelf ==
    ASSUME NEW books \in BooksType
    PROVE  books \in Reached(books) /\ books \in SameLength(books)
BY FollowsSelf DEF Reached, SameLength

LEMMA ReachedTwice ==
    ASSUME NEW a \in BooksType, NEW b \in Reached(a), NEW c \in Reached(b)
    PROVE  c \in Reached(a)
<1>1. b \in BooksType /\ c \in BooksType /\ Follows(a, b) /\ Follows(b, c)
  BY DEF Reached
<1>2. Follows(a, c)
  BY <1>1, FollowsTwice
<1> QED
  BY <1>1, <1>2 DEF Reached

LEMMA ReleasedIs ==
    ASSUME NEW books \in BooksType, NEW i \in DOMAIN books.book
    PROVE  /\ Released(books, i) \in SameLength(books)
           /\ Released(books, i).book[i].status = "active" =>
                ~Releasable(books.rs, books.book, i)
<1>1. CASE Releasable(books.rs, books.book, i)
  <2>1. "released" \in ReservationStatus \ {"active"}
    BY DEF ReservationStatus
  <2>2. books.book[i].status = "active" /\ books.rs[books.book[i].resource] # None
    BY <1>1 DEF Releasable
  <2>3. Released(books, i) = Closed(books, i, "released")
    BY <1>1 DEF Released
  <2>4. /\ Closed(books, i, "released") \in SameLength(books)
        /\ Closed(books, i, "released").book[i].status = "released"
    BY <2>1, <2>2, ClosedIs DEF Reached, SameLength
  <2> QED
    BY <2>3, <2>4
<1>2. CASE ~Releasable(books.rs, books.book, i)
  BY <1>2, ReachedSelf DEF Released
<1> QED
  BY <1>1, <1>2

\* Reservations are given back one after the other.
LEMMA ReleasingIs ==
    ASSUME NEW books \in BooksType, NEW list \in Seq(DOMAIN books.book)
    PROVE  /\ Releasing(books, list)[0] = books
           /\ \A n \in 1 .. Len(list) : Releasing(books, list)[n] = Released(Releasing(books, list)[n - 1], list[n])
           /\ \A n \in 0 .. Len(list) : Releasing(books, list)[n] \in SameLength(books)
<1> DEFINE N == Len(list)
           S == SameLength(books)
           Defines(g) == g = [n \in 0 .. N |-> IF n = 0 THEN books ELSE Released(g[n - 1], list[n])]
           step == [n \in 1 .. N |-> [x \in S |-> Released(x, list[n])]]
<1>1. N \in Nat /\ books \in S
  BY ReachedSelf
<1>2. step \in [1 .. N -> [S -> S]]
  <2> SUFFICES ASSUME NEW n \in 1 .. N, NEW x \in S
               PROVE  Released(x, list[n]) \in S
    OBVIOUS
  <2>1. x \in BooksType /\ x \in Reached(books) /\ Len(x.book) = Len(books.book)
    BY DEF Reached, SameLength
  <2>2. list[n] \in DOMAIN x.book
    <3>1. x.book \in Seq(Reservation) /\ books.book \in Seq(Reservation)
      BY <2>1 DEF BooksType
    <3>2. DOMAIN x.book = 1 .. Len(x.book) /\ DOMAIN books.book = 1 .. Len(books.book)
      BY <3>1
    <3>3. list[n] \in DOMAIN books.book
      OBVIOUS
    <3> QED
      BY <2>1, <3>2, <3>3
  <2>3. Released(x, list[n]) \in SameLength(x)
    BY <2>1, <2>2, ReleasedIs
  <2>4. Released(x, list[n]) \in Reached(x) /\ Len(Released(x, list[n]).book) = Len(x.book)
    BY <2>3 DEF SameLength
  <2> QED
    BY <2>1, <2>4, ReachedTwice DEF SameLength
<1>3. \A n \in 1 .. N, x \in S : step[n][x] = Released(x, list[n])
  OBVIOUS
<1> HIDE DEF step, N, S
<1>4. PICK g \in [0 .. N -> S] : Computes(g, N, books, step)
  BY <1>1, <1>2, Recursion
<1>5. Defines(g)
  <2>1. ASSUME NEW n \in 0 .. N
        PROVE  g[n] = IF n = 0 THEN books ELSE Released(g[n - 1], list[n])
    <3>1. CASE n = 0
      BY <1>4, <3>1 DEF Computes
    <3>2. CASE n # 0
      <4>1. n \in 1 .. N /\ n - 1 \in 0 .. N
        BY <1>1, <3>2
      <4>2. g[n - 1] \in S /\ g[n] = step[n][g[n - 1]]
        BY <1>4, <4>1 DEF Computes
      <4>3. g[n] = Released(g[n - 1], list[n])
        BY <1>3, <4>1, <4>2
      <4> QED
        BY <3>2, <4>3
    <3> QED
      BY <3>1, <3>2
  <2> QED
    BY <2>1
<1>6. Releasing(books, list) = CHOOSE h : Defines(h)
  BY DEF Releasing, N
<1>7. Defines(Releasing(books, list))
  <2> HIDE DEF Defines
  <2> QED
    BY <1>5, <1>6
<1>8. ASSUME NEW q, q = Releasing(books, list)
      PROVE  /\ q[0] = books
             /\ \A n \in 1 .. N : q[n] = Released(q[n - 1], list[n])
  <2>1. q = [n \in 0 .. N |-> IF n = 0 THEN books ELSE Released(q[n - 1], list[n])]
    BY <1>7, <1>8
  <2>2. q[0] = books
    BY <1>1, <2>1
  <2>3. ASSUME NEW n \in 1 .. N
        PROVE  q[n] = Released(q[n - 1], list[n])
    <3>1. n \in 0 .. N /\ n # 0
      BY <1>1
    <3> QED
      BY <2>1, <3>1
  <2> QED
    BY <2>2, <2>3
<1>9. \A n \in 0 .. N : Releasing(books, list)[n] \in S
  <2> DEFINE Typed == {n \in 0 .. N : Releasing(books, list)[n] \in S}
  <2>1. 0 \in Typed
    BY <1>1, <1>8
  <2>2. ASSUME NEW n \in 0 .. N - 1, n \in Typed
        PROVE  n + 1 \in Typed
    <3>1. n + 1 \in 1 .. N /\ n + 1 \in 0 .. N /\ (n + 1) - 1 = n
      BY <1>1
    <3>2. Releasing(books, list)[n] \in S
      BY <2>2
    <3>3. Releasing(books, list)[n + 1] = Released(Releasing(books, list)[n], list[(n + 1)])
      BY <1>8, <3>1
    <3>4. step[n + 1][Releasing(books, list)[n]] \in S
      BY <1>2, <3>1, <3>2
    <3> QED
      BY <1>3, <3>1, <3>2, <3>3, <3>4
  <2> HIDE DEF Typed
  <2>3. \A n \in 0 .. N : n \in Typed
    BY <1>1, <2>1, <2>2, Induct
  <2> QED
    BY <2>3 DEF Typed
<1> QED
  BY <1>8, <1>9 DEF N, S

\* Mutability does not change under what follows.
LEMMA StillReleasable ==
    ASSUME NEW a \in BooksType, NEW b \in BooksType, Follows(a, b), NEW i \in DOMAIN a.book,
           Releasable(a.rs, a.book, i), b.book[i].status = "active"
    PROVE  Releasable(b.rs, b.book, i)
<1> DEFINE r == a.book[i].resource
<1>1. r \in ResourceIds
  <2>1. a.book[i] \in Reservation
    BY DEF BooksType
  <2> QED
    BY <2>1 DEF Reservation
<1>2. b.book[i].resource = r /\ Alike(a.rs[r], b.rs[r])
  BY <1>1 DEF Follows, Later
<1>3. a.rs[r] # None /\ Mutable(a.rs[r])
  BY DEF Releasable
<1> HIDE DEF r
<1>4. b.rs[r] # None /\ Mutable(b.rs[r])
  BY <1>2, <1>3 DEF Alike, Mutable
<1> QED
  BY <1>2, <1>4 DEF Releasable

\* What is still open after that could not be released before it.
LEMMA AllReleasedIs ==
    ASSUME NEW books \in BooksType, NEW list \in Seq(DOMAIN books.book)
    PROVE  /\ AllReleased(books, list) \in SameLength(books)
           /\ \A k \in DOMAIN list : AllReleased(books, list).book[list[k]].status = "active" =>
                ~Releasable(books.rs, books.book, list[k])
<1> DEFINE g == Releasing(books, list)
           N == Len(list)
<1>1. N \in Nat /\ DOMAIN list = 1 .. N /\ \A n \in 1 .. N : list[n] \in DOMAIN books.book
  OBVIOUS
<1>2. \A n \in 0 .. N : g[n] \in SameLength(books)
  BY ReleasingIs
<1>3. g[0] = books /\ \A n \in 1 .. N : g[n] = Released(g[n - 1], list[n])
  BY ReleasingIs
<1>4. AllReleased(books, list) = g[N]
  BY DEF AllReleased
<1> HIDE DEF g, N
<1> DEFINE Kept(n) == \A k \in 1 .. n : g[n].book[list[k]].status = "active" =>
                          ~Releasable(books.rs, books.book, list[k])
           T == {n \in 0 .. N : Kept(n)}
<1>5. 0 \in T
  BY <1>1
<1>6. ASSUME NEW n \in 0 .. N - 1, n \in T
      PROVE  n + 1 \in T
  <2>1. n \in 0 .. N /\ n + 1 \in 1 .. N /\ n + 1 \in 0 .. N /\ (n + 1) - 1 = n
    BY <1>1
  <2> DEFINE a == g[n]
             b == g[n + 1]
             i == list[n + 1]
  <2>2. b = Released(a, i) /\ i \in DOMAIN books.book
    BY <1>1, <1>3, <2>1
  <2>3. /\ a \in BooksType /\ Follows(books, a) /\ Len(a.book) = Len(books.book)
        /\ b \in BooksType /\ Follows(books, b)
    BY <1>2, <2>1 DEF SameLength, Reached
  <2>4. Kept(n)
    BY <1>6
  <2> HIDE DEF a, b, i
  <2>5. DOMAIN a.book = DOMAIN books.book
    <3>1. a.book \in Seq(Reservation) /\ books.book \in Seq(Reservation)
      BY <2>3 DEF BooksType
    <3> QED
      BY <2>3, <3>1
  <2>6. Follows(a, b) /\ (b.book[i].status = "active" => ~Releasable(a.rs, a.book, i))
    BY <2>2, <2>3, <2>5, ReleasedIs DEF SameLength, Reached
  <2>7. ASSUME NEW k \in 1 .. n + 1, b.book[list[k]].status = "active"
        PROVE  ~Releasable(books.rs, books.book, list[k])
    <3>1. k \in 1 .. N /\ list[k] \in DOMAIN books.book
      BY <1>1, <2>1
    <3>2. a.book[list[k]].status = "active"
      BY <2>5, <2>6, <2>7, <3>1 DEF Follows, Later
    <3>3. CASE k = n + 1
      <4>1. ~Releasable(a.rs, a.book, i)
        BY <2>6, <2>7, <3>3 DEF i
      <4> QED
        BY <2>2, <2>3, <3>2, <3>3, <4>1, StillReleasable DEF i
    <3>4. CASE k # n + 1
      <4>1. k \in 1 .. n
        BY <2>1, <3>4
      <4> QED
        BY <2>4, <3>2, <4>1 DEF a
    <3> QED
      BY <3>3, <3>4
  <2> QED
    BY <2>1, <2>7 DEF b
<1>7. N \in T
  <2> HIDE DEF T
  <2>1. \A n \in 0 .. N : n \in T
    BY <1>1, <1>5, <1>6, Induct
  <2> QED
    BY <1>1, <2>1
<1>8. Kept(N) /\ N \in 0 .. N
  BY <1>1, <1>7
<1> QED
  BY <1>1, <1>2, <1>4, <1>8

\* Whether a batch succeeds is no part of the books.
LEMMA EitherWay ==
    ASSUME NEW books \in BooksType, NEW next \in Reached(books)
    PROVE  [next EXCEPT !.ok = FALSE] \in Reached(books)
<1> DEFINE b == [next EXCEPT !.ok = FALSE]
<1>1. next \in BooksType /\ Follows(books, next) /\ (Sound(books) => Sound(next))
  BY DEF Reached
<1>2. b \in BooksType /\ b.rs = next.rs /\ b.book = next.book
  BY <1>1 DEF BooksType
<1> HIDE DEF b
<1>3. Follows(books, b) /\ (Sound(books) => Sound(b))
  BY <1>1, <1>2 DEF Follows, Sound
<1> QED
  BY <1>2, <1>3 DEF Reached, b

-----------------------------------------------------------------------------
(* Batches and sweeps *)

RequirementType == [resource : ResourceIds, amount : Nat]

\* A reservation that is made.
LEMMA ReservedIs ==
    ASSUME NEW books \in BooksType, NEW r \in ResourceIds, NEW amount \in Nat, NEW t \in TaskIds,
           NEW expiresAt \in Nat \cup {None}, Reservable(books.rs, r, amount),
           NEW next \in BooksType,
           next.rs = [books.rs EXCEPT ![r] = Reserving(books.rs[r], amount)],
           next.book = Append(books.book, NewReservation(r, t, amount, expiresAt))
    PROVE  next \in Reached(books)
<1> DEFINE record == NewReservation(r, t, amount, expiresAt)
<1>1. books.rs \in [ResourceIds -> Resource \cup {None}] /\ books.book \in Seq(Reservation)
  BY DEF BooksType
<1>2. books.rs[r] # None /\ books.rs[r] \in Resource /\ HasCapacityFor(books.rs[r], amount)
  BY <1>1 DEF Reservable
<1>3. amount \in Nat \ {0}
      /\ books.rs[r].allocated + books.rs[r].reserved + amount <= books.rs[r].capacity
  BY <1>2, CapacityIs
<1>4. record \in Reservation /\ record.status = "active" /\ record.resource = r /\ record.amount = amount
  BY <1>3 DEF NewReservation, Reservation, ReservationStatus
<1>5. /\ next.rs[r] = Reserving(books.rs[r], amount)
      /\ \A q \in ResourceIds : q # r => next.rs[q] = books.rs[q]
  BY <1>1
<1> HIDE DEF record
<1>6. next.book = Append(books.book, record)
  BY DEF record
<1>7. /\ Len(next.book) = Len(books.book) + 1
      /\ \A j \in DOMAIN books.book : next.book[j] = books.book[j]
  BY <1>1, <1>4, <1>6
<1>8. Later(books.book, next.book)
  <2>1. Len(books.book) \in Nat
    BY <1>1
  <2> QED
    BY <1>7, <2>1 DEF Later
<1>9. \A q \in ResourceIds : Alike(books.rs[q], next.rs[q])
  <2>1. ASSUME NEW q \in ResourceIds
        PROVE  Alike(books.rs[q], next.rs[q])
    <3>1. CASE q = r
      BY <1>2, <1>5, <3>1, ReservingIs
    <3>2. CASE q # r
      BY <1>5, <3>2 DEF Alike
    <3> QED
      BY <3>1, <3>2
  <2> QED
    BY <2>1
<1>10. next.rs[r].reserved = books.rs[r].reserved + amount
  BY <1>2, <1>5, ReservingIs
<1>11. ASSUME Sound(books)
       PROVE  Sound(next)
  <2>1. ASSUME NEW q \in ResourceIds \ uncounted
        PROVE  Exact(next.rs, next.book, q)
    <3>1. Exact(books.rs, books.book, q)
      BY <1>11, <2>1 DEF Sound
    <3>2. Total(Claims(next.book, q)) = Total(Claims(books.book, q)) + (IF r = q THEN amount ELSE 0)
      BY <1>1, <1>4, <1>6, ClaimsAppended
    <3>3. Total(Claims(books.book, q)) \in Nat
      BY <1>1, ClaimsAre, TotalNat
    <3>4. CASE q = r
      BY <1>2, <1>10, <3>1, <3>2, <3>4 DEF Exact
    <3>5. CASE q # r
      BY <1>5, <3>1, <3>2, <3>3, <3>5 DEF Exact
    <3> QED
      BY <3>4, <3>5
  <2>2. ASSUME NEW q \in ResourceIds \ shrunk
        PROVE  Within(next.rs, q)
    <3>1. Within(books.rs, q)
      BY <1>11, <2>2 DEF Sound
    <3>2. CASE q = r
      <4>1. next.rs[r].allocated = books.rs[r].allocated /\ next.rs[r].capacity = books.rs[r].capacity
        BY <1>2, <1>9 DEF Alike
      <4>2. /\ books.rs[r].allocated \in Nat /\ books.rs[r].capacity \in Nat
            /\ books.rs[r].reserved \in Nat
        BY <1>2 DEF Resource
      <4> QED
        BY <1>3, <1>10, <3>2, <4>1, <4>2 DEF Within
    <3>3. CASE q # r
      BY <1>5, <3>1, <3>3 DEF Within
    <3> QED
      BY <3>2, <3>3
  <2> QED
    BY <2>1, <2>2 DEF Sound
<1> QED
  BY <1>8, <1>9, <1>11 DEF Follows, Reached

LEMMA ReservedType ==
    ASSUME NEW books \in BooksType, NEW r \in ResourceIds, NEW amount \in Nat, NEW t \in TaskIds,
           NEW expiresAt \in Nat \cup {None}, Reservable(books.rs, r, amount)
    PROVE  /\ [books.rs EXCEPT ![r] = Reserving(books.rs[r], amount)] \in [ResourceIds -> Resource \cup {None}]
           /\ Append(books.book, NewReservation(r, t, amount, expiresAt)) \in Seq(Reservation)
<1>1. books.rs \in [ResourceIds -> Resource \cup {None}] /\ books.book \in Seq(Reservation)
  BY DEF BooksType
<1>2. books.rs[r] \in Resource /\ HasCapacityFor(books.rs[r], amount)
  BY <1>1 DEF Reservable
<1>3. Reserving(books.rs[r], amount) \in Resource
  BY <1>2, ReservingIs
<1>4. NewReservation(r, t, amount, expiresAt) \in Reservation
  BY <1>2, CapacityIs DEF NewReservation, Reservation, ReservationStatus
<1> QED
  BY <1>1, <1>3, <1>4

\* One requirement of a batch: a reservation more, or none of the batch.
LEMMA RequirementIs ==
    ASSUME NEW books \in BooksType, NEW requirement \in RequirementType, NEW t \in TaskIds,
           NEW first \in Nat, first <= Len(books.book)
    PROVE  Requirement(books, requirement, t, first) \in Reached(books)
<1> DEFINE r == requirement.resource
           amount == requirement.amount
<1>1. r \in ResourceIds /\ amount \in Nat
  BY DEF RequirementType
<1>2. CASE ~books.ok
  BY <1>2, ReachedSelf DEF Requirement
<1>3. CASE books.ok /\ Reservable(books.rs, r, amount)
  <2> DEFINE rs == [books.rs EXCEPT ![r] = Reserving(books.rs[r], amount)]
             book == Append(books.book, NewReservation(r, t, amount, None))
             next == [books EXCEPT !.rs = rs, !.book = book]
  <2>1. Requirement(books, requirement, t, first) = next
    BY <1>3 DEF Requirement
  <2>2. rs \in [ResourceIds -> Resource \cup {None}] /\ book \in Seq(Reservation)
    BY <1>1, <1>3, ReservedType
  <2> HIDE DEF rs, book
  <2>3. next \in BooksType /\ next.rs = rs /\ next.book = book
    BY <2>2 DEF BooksType
  <2> HIDE DEF next
  <2>4. next \in Reached(books)
    BY <1>1, <1>3, <2>3, ReservedIs DEF rs, book
  <2> QED
    BY <2>1, <2>4
<1>4. CASE books.ok /\ ~Reservable(books.rs, r, amount)
  <2> DEFINE list == [k \in 1 .. (Len(books.book) - first) |-> first + k]
  <2>1. list \in Seq(DOMAIN books.book)
    <3>1. books.book \in Seq(Reservation) /\ Len(books.book) \in Nat
      BY DEF BooksType
    <3>2. DOMAIN books.book = 1 .. Len(books.book)
      BY <3>1
    <3>3. Len(books.book) - first \in Nat
      BY <3>1
    <3>4. \A k \in 1 .. (Len(books.book) - first) : first + k \in 1 .. Len(books.book)
      BY <3>1
    <3> QED
      BY <3>2, <3>3, <3>4
  <2>2. Requirement(books, requirement, t, first) = [AllReleased(books, list) EXCEPT !.ok = FALSE]
    BY <1>4 DEF Requirement
  <2> HIDE DEF list
  <2>3. AllReleased(books, list) \in Reached(books)
    BY <2>1, AllReleasedIs DEF SameLength
  <2> QED
    BY <2>2, <2>3, EitherWay
<1> QED
  BY <1>2, <1>3, <1>4

Ledger == Books(resources, reservations)

\* The manager's resources and reservations.
LedgerTyped ==
    resources \in [ResourceIds -> Resource \cup {None}] /\ reservations \in Seq(Reservation)

LEMMA LedgerIs ==
    ASSUME LedgerTyped
    PROVE  /\ Ledger \in BooksType
           /\ Ledger.rs = resources /\ Ledger.book = reservations
BY DEF Ledger, Books, LedgerTyped, BooksType

\* A batch is worked through one requirement after the other.
LEMMA BatchingIs ==
    ASSUME LedgerTyped, NEW requirements \in Seq(RequirementType), NEW t \in TaskIds
    PROVE  /\ Batching(requirements, t)[0] = Ledger
           /\ \A n \in 1 .. Len(requirements) : Batching(requirements, t)[n] = Requirement(Batching(requirements, t)[n - 1], requirements[n], t, Len(reservations))
           /\ \A n \in 0 .. Len(requirements) : Batching(requirements, t)[n] \in Reached(Ledger)
<1> DEFINE N == Len(requirements)
           S == Reached(Ledger)
           Defines(g) == g = [n \in 0 .. N |-> IF n = 0 THEN Ledger ELSE Requirement(g[n - 1], requirements[n], t, Len(reservations))]
           step == [n \in 1 .. N |-> [x \in S |-> Requirement(x, requirements[n], t, Len(reservations))]]
<1>1. N \in Nat /\ Ledger \in S
  BY LedgerIs, ReachedSelf
<1>2. step \in [1 .. N -> [S -> S]]
  <2> SUFFICES ASSUME NEW n \in 1 .. N, NEW x \in S
               PROVE  Requirement(x, requirements[n], t, Len(reservations)) \in S
    OBVIOUS
  <2>1. x \in BooksType /\ Follows(Ledger, x) /\ Ledger \in BooksType /\ Ledger.book = reservations
    BY LedgerIs DEF Reached
  <2>2. Len(reservations) \in Nat /\ Len(reservations) <= Len(x.book)
    BY <2>1 DEF Follows, Later, LedgerTyped
  <2>3. requirements[n] \in RequirementType
    OBVIOUS
  <2>4. Requirement(x, requirements[n], t, Len(reservations)) \in Reached(x)
    BY <2>1, <2>2, <2>3, RequirementIs
  <2> QED
    BY <2>1, <2>4, ReachedTwice
<1>3. \A n \in 1 .. N, x \in S : step[n][x] = Requirement(x, requirements[n], t, Len(reservations))
  OBVIOUS
<1> HIDE DEF step, N, S
<1>4. PICK g \in [0 .. N -> S] : Computes(g, N, Ledger, step)
  BY <1>1, <1>2, Recursion
<1>5. Defines(g)
  <2>1. ASSUME NEW n \in 0 .. N
        PROVE  g[n] = IF n = 0 THEN Ledger ELSE Requirement(g[n - 1], requirements[n], t, Len(reservations))
    <3>1. CASE n = 0
      BY <1>4, <3>1 DEF Computes
    <3>2. CASE n # 0
      <4>1. n \in 1 .. N /\ n - 1 \in 0 .. N
        BY <1>1, <3>2
      <4>2. g[n - 1] \in S /\ g[n] = step[n][g[n - 1]]
        BY <1>4, <4>1 DEF Computes
      <4>3. g[n] = Requirement(g[n - 1], requirements[n], t, Len(reservations))
        BY <1>3, <4>1, <4>2
      <4> QED
        BY <3>2, <4>3
    <3> QED
      BY <3>1, <3>2
  <2> QED
    BY <2>1
<1>6. Batching(requirements, t) = CHOOSE h : Defines(h)
  BY DEF Batching, Ledger, N
<1>7. Defines(Batching(requirements, t))
  <2> HIDE DEF Defines
  <2> QED
    BY <1>5, <1>6
<1>8. ASSUME NEW q, q = Batching(requirements, t)
      PROVE  /\ q[0] = Ledger
             /\ \A n \in 1 .. N : q[n] = Requirement(q[n - 1], requirements[n], t, Len(reservations))
  <2>1. q = [n \in 0 .. N |-> IF n = 0 THEN Ledger ELSE Requirement(q[n - 1], requirements[n], t, Len(reservations))]
    BY <1>7, <1>8
  <2>2. q[0] = Ledger
    BY <1>1, <2>1
  <2>3. ASSUME NEW n \in 1 .. N
        PROVE  q[n] = Requirement(q[n - 1], requirements[n], t, Len(reservations))
    <3>1. n \in 0 .. N /\ n # 0
      BY <1>1
    <3> QED
      BY <2>1, <3>1
  <2> QED
    BY <2>2, <2>3
<1>9. \A n \in 0 .. N : Batching(requirements, t)[n] \in S
  <2> DEFINE Typed == {n \in 0 .. N : Batching(requirements, t)[n] \in S}
  <2>1. 0 \in Typed
    BY <1>1, <1>8
  <2>2. ASSUME NEW n \in 0 .. N - 1, n \in Typed
        PROVE  n + 1 \in Typed
    <3>1. n + 1 \in 1 .. N /\ n + 1 \in 0 .. N /\ (n + 1) - 1 = n
      BY <1>1
    <3>2. Batching(requirements, t)[n] \in S
      BY <2>2
    <3>3. Batching(requirements, t)[n + 1] = Requirement(Batching(requirements, t)[n], requirements[(n + 1)], t, Len(reservations))
      BY <1>8, <3>1
    <3>4. step[n + 1][Batching(requirements, t)[n]] \in S
      BY <1>2, <3>1, <3>2
    <3> QED
      BY <1>3, <3>1, <3>2, <3>3, <3>4
  <2> HIDE DEF Typed
  <2>3. \A n \in 0 .. N : n \in Typed
    BY <1>1, <2>1, <2>2, Induct
  <2> QED
    BY <2>3 DEF Typed
<1> QED
  BY <1>8, <1>9 DEF N, S

LEMMA BatchIs ==
    ASSUME LedgerTyped, NEW requirements \in Seq(RequirementType), NEW t \in TaskIds
    PROVE  Batch(requirements, t) \in Reached(Ledger)
<1>1. Len(requirements) \in 0 .. Len(requirements)
  OBVIOUS
<1> QED
  BY <1>1, BatchingIs DEF Batch

\* What a sweep has not come to is as it was.
Unswept(books, n) == \A j \in DOMAIN reservations : j > n => books.book[j] = reservations[j]

LEMMA SweptIs ==
    ASSUME LedgerTyped, NEW books \in BooksType, Len(books.book) = Len(reservations),
           NEW i \in DOMAIN reservations
    PROVE  /\ Swept(books, i) \in BooksType /\ Len(Swept(books, i).book) = Len(reservations)
           /\ books.book[i] = reservations[i] =>
                /\ Swept(books, i) \in Reached(books)
                /\ \A j \in DOMAIN reservations : j # i => Swept(books, i).book[j] = books.book[j]
<1>1. DOMAIN books.book = DOMAIN reservations /\ books.book \in Seq(Reservation)
  <2>1. books.book \in Seq(Reservation) /\ reservations \in Seq(Reservation)
    BY DEF BooksType, LedgerTyped
  <2> QED
    BY <2>1
<1> DEFINE r == books.book[i].resource
<1>2. CASE ~books.ok \/ ~Due(i) \/ books.rs[r] = None
  BY <1>2, ReachedSelf DEF Swept
<1>3. CASE ~(~books.ok \/ ~Due(i) \/ books.rs[r] = None)
  <2>1. CASE Mutable(books.rs[r])
    <3>1. Swept(books, i) = Closed(books, i, "expired")
      BY <1>3, <2>1 DEF Swept
    <3>2. "expired" \in ReservationStatus \ {"active"}
      BY DEF ReservationStatus
    <3>3. Closed(books, i, "expired") \in BooksType
          /\ Len(Closed(books, i, "expired").book) = Len(books.book)
      BY <1>1, <1>3, <3>2, ClosedFields
    <3>4. ASSUME books.book[i] = reservations[i]
          PROVE  /\ Closed(books, i, "expired") \in Reached(books)
                 /\ \A j \in DOMAIN reservations : j # i => Closed(books, i, "expired").book[j] = books.book[j]
      <4>1. books.book[i].status = "active"
        BY <1>3, <3>4 DEF Due
      <4> QED
        BY <1>1, <1>3, <3>2, <4>1, ClosedIs DEF Reached
    <3> QED
      BY <3>1, <3>3, <3>4
  <2>2. CASE ~Mutable(books.rs[r])
    <3>1. Swept(books, i) = [books EXCEPT !.ok = FALSE]
      BY <1>3, <2>2 DEF Swept
    <3>2. [books EXCEPT !.ok = FALSE] \in Reached(books)
      BY ReachedSelf, EitherWay
    <3>3. [books EXCEPT !.ok = FALSE].book = books.book
      BY DEF BooksType
    <3> QED
      BY <3>1, <3>2, <3>3 DEF Reached
  <2> QED
    BY <2>1, <2>2
<1> QED
  BY <1>2, <1>3

\* A sweep meets the records one after the other.
LEMMA SweepingIs ==
    ASSUME LedgerTyped
    PROVE  /\ Sweeping[0] = Ledger
           /\ \A n \in 1 .. Len(reservations) : Sweeping[n] = Swept(Sweeping[n - 1], n)
           /\ \A n \in 0 .. Len(reservations) : Sweeping[n] \in {x \in BooksType : Len(x.book) = Len(reservations)}
<1> DEFINE N == Len(reservations)
           S == {x \in BooksType : Len(x.book) = Len(reservations)}
           Defines(g) == g = [n \in 0 .. N |-> IF n = 0 THEN Ledger ELSE Swept(g[n - 1], n)]
           step == [n \in 1 .. N |-> [x \in S |-> Swept(x, n)]]
<1>1. N \in Nat /\ Ledger \in S
  BY LedgerIs DEF LedgerTyped
<1>2. step \in [1 .. N -> [S -> S]]
  <2> SUFFICES ASSUME NEW n \in 1 .. N, NEW x \in S
               PROVE  Swept(x, n) \in S
    OBVIOUS
  <2>1. n \in DOMAIN reservations
    BY DEF LedgerTyped
  <2> QED
    BY <2>1, SweptIs
<1>3. \A n \in 1 .. N, x \in S : step[n][x] = Swept(x, n)
  OBVIOUS
<1> HIDE DEF step, N, S
<1>4. PICK g \in [0 .. N -> S] : Computes(g, N, Ledger, step)
  BY <1>1, <1>2, Recursion
<1>5. Defines(g)
  <2>1. ASSUME NEW n \in 0 .. N
        PROVE  g[n] = IF n = 0 THEN Ledger ELSE Swept(g[n - 1], n)
    <3>1. CASE n = 0
      BY <1>4, <3>1 DEF Computes
    <3>2. CASE n # 0
      <4>1. n \in 1 .. N /\ n - 1 \in 0 .. N
        BY <1>1, <3>2
      <4>2. g[n - 1] \in S /\ g[n] = step[n][g[n - 1]]
        BY <1>4, <4>1 DEF Computes
      <4>3. g[n] = Swept(g[n - 1], n)
        BY <1>3, <4>1, <4>2
      <4> QED
        BY <3>2, <4>3
    <3> QED
      BY <3>1, <3>2
  <2> QED
    BY <2>1
<1>6. Sweeping = CHOOSE h : Defines(h)
  BY DEF Sweeping, Ledger, N
<1>7. Defines(Sweeping)
  <2> HIDE DEF Defines
  <2> QED
    BY <1>5, <1>6
<1>8. ASSUME NEW q, q = Sweeping
      PROVE  /\ q[0] = Ledger
             /\ \A n \in 1 .. N : q[n] = Swept(q[n - 1], n)
  <2>1. q = [n \in 0 .. N |-> IF n = 0 THEN Ledger ELSE Swept(q[n - 1], n)]
    BY <1>7, <1>8
  <2>2. q[0] = Ledger
    BY <1>1, <2>1
  <2>3. ASSUME NEW n \in 1 .. N
        PROVE  q[n] = Swept(q[n - 1], n)
    <3>1. n \in 0 .. N /\ n # 0
      BY <1>1
    <3> QED
      BY <2>1, <3>1
  <2> QED
    BY <2>2, <2>3
<1>9. \A n \in 0 .. N : Sweeping[n] \in S
  <2> DEFINE Typed == {n \in 0 .. N : Sweeping[n] \in S}
  <2>1. 0 \in Typed
    BY <1>1, <1>8
  <2>2. ASSUME NEW n \in 0 .. N - 1, n \in Typed
        PROVE  n + 1 \in Typed
    <3>1. n + 1 \in 1 .. N /\ n + 1 \in 0 .. N /\ (n + 1) - 1 = n
      BY <1>1
    <3>2. Sweeping[n] \in S
      BY <2>2
    <3>3. Sweeping[n + 1] = Swept(Sweeping[n], (n + 1))
      BY <1>8, <3>1
    <3>4. step[n + 1][Sweeping[n]] \in S
      BY <1>2, <3>1, <3>2
    <3> QED
      BY <1>3, <3>1, <3>2, <3>3, <3>4
  <2> HIDE DEF Typed
  <2>3. \A n \in 0 .. N : n \in Typed
    BY <1>1, <2>1, <2>2, Induct
  <2> QED
    BY <2>3 DEF Typed
<1> QED
  BY <1>8, <1>9 DEF N, S

LEMMA SweepIs ==
    ASSUME LedgerTyped
    PROVE  Sweep \in Reached(Ledger)
<1> DEFINE g == Sweeping
           N == Len(reservations)
<1>1. N \in Nat /\ DOMAIN reservations = 1 .. N
  BY DEF LedgerTyped
<1>2. /\ \A n \in 0 .. N : g[n] \in BooksType /\ Len(g[n].book) = N
      /\ g[0] = Ledger /\ \A n \in 1 .. N : g[n] = Swept(g[n - 1], n)
  BY SweepingIs
<1>3. Sweep = g[N]
  BY DEF Sweep
<1> HIDE DEF g, N
<1> DEFINE T == {n \in 0 .. N : g[n] \in Reached(Ledger) /\ Unswept(g[n], n)}
<1>4. 0 \in T
  BY <1>1, <1>2, LedgerIs, ReachedSelf DEF Unswept
<1>5. ASSUME NEW n \in 0 .. N - 1, n \in T
      PROVE  n + 1 \in T
  <2>1. n \in 0 .. N /\ n + 1 \in 1 .. N /\ n + 1 \in 0 .. N /\ (n + 1) - 1 = n
    BY <1>1
  <2>2. g[n + 1] = Swept(g[n], n + 1) /\ g[n] \in BooksType /\ Len(g[n].book) = Len(reservations)
    BY <1>2, <2>1 DEF N
  <2>3. g[n] \in Reached(Ledger) /\ Unswept(g[n], n)
    BY <1>5
  <2>4. n + 1 \in DOMAIN reservations /\ n + 1 > n
    BY <1>1, <2>1
  <2>5. g[n].book[n + 1] = reservations[n + 1]
    BY <2>3, <2>4 DEF Unswept
  <2>6. /\ g[n + 1] \in Reached(g[n])
        /\ \A j \in DOMAIN reservations : j # n + 1 => g[n + 1].book[j] = g[n].book[j]
    BY <2>2, <2>4, <2>5, SweptIs
  <2>7. Unswept(g[n + 1], n + 1)
    <3>1. \A j \in DOMAIN reservations : j > n + 1 => j > n /\ j # n + 1
      BY <1>1, <2>1
    <3> QED
      BY <2>3, <2>6, <3>1 DEF Unswept
  <2>8. g[n + 1] \in Reached(Ledger)
    BY <2>2, <2>3, <2>6, LedgerIs, ReachedTwice
  <2> QED
    BY <2>1, <2>7, <2>8
<1>6. N \in T
  <2> HIDE DEF T
  <2>1. \A n \in 0 .. N : n \in T
    BY <1>1, <1>4, <1>5, Induct
  <2> QED
    BY <1>1, <2>1
<1> QED
  BY <1>3, <1>6

-----------------------------------------------------------------------------
(* The ledger is exact: the inductive invariant of the resource manager *)

ExactUse(rs, book, r) == rs[r] # None => rs[r].allocated = Total(Uses(book, r))

FiguresInv ==
    /\ \A r \in ResourceIds \ uncounted :
            Exact(resources, reservations, r) /\ ExactUse(resources, allocations, r)
    /\ \A r \in ResourceIds \ shrunk : Within(resources, r)
    /\ saved # None => \A r \in ResourceIds \ shrunk : Within(saved.resources, r)

LedgerInv == ResourceTypeOK /\ FiguresInv

LEMMA LedgerSound ==
    ASSUME LedgerInv
    PROVE  LedgerTyped /\ Ledger \in BooksType /\ Sound(Ledger)
<1>1. LedgerTyped
  BY DEF LedgerInv, ResourceTypeOK, LedgerTyped
<1>2. Ledger \in BooksType /\ Ledger.rs = resources /\ Ledger.book = reservations
  BY <1>1, LedgerIs
<1> QED
  BY <1>1, <1>2 DEF LedgerInv, FiguresInv, Sound

\* What the properties say follows from it.
LEMMA ExactLedger == LedgerInv => LedgerExact
<1> SUFFICES ASSUME LedgerInv
             PROVE  LedgerExact
  OBVIOUS
<1>1. FiguresAddUp
  <2> SUFFICES ASSUME NEW r \in Registered \ uncounted
               PROVE  /\ resources[r].reserved = HeldBy(reservations, ActiveReservations(r))
                      /\ resources[r].allocated = HeldBy(allocations, ActiveAllocations(r))
    BY DEF FiguresAddUp
  <2>1. r \in ResourceIds \ uncounted /\ resources[r] # None
    BY DEF Registered
  <2>2. Exact(resources, reservations, r) /\ ExactUse(resources, allocations, r)
    BY <2>1 DEF LedgerInv, FiguresInv
  <2> QED
    BY <2>1, <2>2, HeldIs DEF Exact, ExactUse
<1>2. ASSUME NEW r \in Registered, r \notin shrunk
      PROVE  ~OverCommitted(resources[r])
  <2>1. r \in ResourceIds /\ resources[r] # None /\ Within(resources, r)
    BY <1>2 DEF Registered, LedgerInv, FiguresInv
  <2>2. resources[r] \in Resource
    BY <2>1 DEF LedgerInv, ResourceTypeOK
  <2> QED
    BY <2>1, <2>2 DEF Within, OverCommitted, Resource
<1>3. NeverOverCommitted
  <2> SUFFICES ASSUME NEW r \in ResourceIds, <<"over-allocation", r>> \in Conflicts
               PROVE  r \in shrunk
    BY DEF NeverOverCommitted
  <2>1. r \in Registered /\ OverCommitted(resources[r])
    BY DEF Conflicts
  <2> QED
    BY <1>2, <2>1
<1>4. ASSUME shrunk = {}, ~Healthy, Orphans = {}
      PROVE  \E r \in ResourceIds : <<"dangling-reference", r>> \in Conflicts
  <2>1. \A r \in Registered : ~OverCommitted(resources[r])
    BY <1>2, <1>4
  <2>2. PICK p \in PoolIds : pools[p] # None /\ ~(pools[p] \subseteq Registered)
    BY <1>4, <2>1 DEF Healthy
  <2>3. PICK r \in pools[p] : r \notin Registered
    BY <2>2
  <2>4. r \in ResourceIds
    <3>1. pools \in [PoolIds -> (SUBSET ResourceIds) \cup {None}]
      BY DEF LedgerInv, ResourceTypeOK
    <3>2. pools[p] \in SUBSET ResourceIds
      BY <2>2, <3>1
    <3> QED
      BY <2>3, <3>2
  <2> DEFINE open == {q \in PoolIds : pools[q] # None}
             named == {pools[q] : q \in open}
  <2>5. p \in open
    BY <2>2
  <2>6. pools[p] \in named
    BY <2>5
  <2>7. r \in (UNION named) \ Registered
    <3> HIDE DEF named, open
    <3> QED
      BY <2>3, <2>6
  <2>8. <<"dangling-reference", r>> \in {<<"dangling-reference", q>> : q \in (UNION named) \ Registered}
    <3> HIDE DEF named, open
    <3> QED
      BY <2>7
  <2>9. <<"dangling-reference", r>> \in Conflicts
    BY <2>8 DEF Conflicts
  <2> QED
    BY <2>4, <2>9
<1> QED
  BY <1>1, <1>3, <1>4 DEF LedgerExact

\* What a method makes of the books keeps it.
LEMMA LedgerReached ==
    ASSUME LedgerInv, NEW next \in Reached(Ledger),
           resources' = next.rs, reservations' = next.book,
           UNCHANGED <<allocations, saved, uncounted, shrunk>>
    PROVE  /\ FiguresInv' /\ LedgerTyped'
           /\ Later(reservations, reservations')
<1>1. Ledger \in BooksType /\ Sound(Ledger) /\ Ledger.rs = resources /\ Ledger.book = reservations
  BY LedgerSound, LedgerIs
<1>2. next \in BooksType /\ Follows(Ledger, next) /\ Sound(next)
  BY <1>1 DEF Reached
<1>3. LedgerTyped'
  BY <1>2 DEF LedgerTyped, BooksType
<1>4. Later(reservations, reservations')
  BY <1>1, <1>2 DEF Follows
<1>5. ASSUME NEW r \in ResourceIds \ uncounted'
      PROVE  Exact(resources', reservations', r) /\ ExactUse(resources', allocations', r)
  <2>1. Exact(resources', reservations', r)
    BY <1>2 DEF Sound
  <2>2. Alike(resources[r], resources'[r])
    BY <1>1, <1>2 DEF Follows
  <2>3. ExactUse(resources, allocations, r)
    BY DEF LedgerInv, FiguresInv
  <2> QED
    BY <2>1, <2>2, <2>3 DEF ExactUse, Alike
<1>6. \A r \in ResourceIds \ shrunk' : Within(resources', r)
  BY <1>2 DEF Sound
<1>7. FiguresInv'
  BY <1>5, <1>6 DEF FiguresInv, LedgerInv
<1> QED
  BY <1>3, <1>4, <1>7

\* A step that changes one resource and, for the others, none of the sums.
LEMMA OneChanged ==
    ASSUME LedgerInv, NEW r \in ResourceIds, NEW x,
           resources' = [resources EXCEPT ![r] = x],
           uncounted \subseteq uncounted', shrunk \subseteq shrunk', saved' = saved,
           \A q \in ResourceIds : q # r =>
                /\ Total(Claims(reservations', q)) = Total(Claims(reservations, q))
                /\ Total(Uses(allocations', q)) = Total(Uses(allocations, q)),
           r \notin uncounted' /\ x # None =>
                /\ x.reserved = Total(Claims(reservations', r))
                /\ x.allocated = Total(Uses(allocations', r)),
           r \notin shrunk' /\ x # None => x.allocated + x.reserved <= x.capacity
    PROVE  FiguresInv'
<1>1. resources'[r] = x /\ \A q \in ResourceIds : q # r => resources'[q] = resources[q]
  BY DEF LedgerInv, ResourceTypeOK
<1>2. ASSUME NEW q \in ResourceIds \ uncounted'
      PROVE  Exact(resources', reservations', q) /\ ExactUse(resources', allocations', q)
  <2>1. CASE q = r
    BY <1>1, <2>1 DEF Exact, ExactUse
  <2>2. CASE q # r
    <3>1. Exact(resources, reservations, q) /\ ExactUse(resources, allocations, q)
      BY DEF LedgerInv, FiguresInv
    <3>2. /\ Total(Claims(reservations', q)) = Total(Claims(reservations, q))
          /\ Total(Uses(allocations', q)) = Total(Uses(allocations, q))
      BY <2>2
    <3> QED
      BY <1>1, <2>2, <3>1, <3>2 DEF Exact, ExactUse
  <2> QED
    BY <2>1, <2>2
<1>3. ASSUME NEW q \in ResourceIds \ shrunk'
      PROVE  Within(resources', q)
  <2>1. CASE q = r
    BY <1>1, <2>1 DEF Within
  <2>2. CASE q # r
    <3>1. Within(resources, q)
      BY DEF LedgerInv, FiguresInv
    <3> QED
      BY <1>1, <2>2, <3>1 DEF Within
  <2> QED
    BY <2>1, <2>2
<1>4. saved' # None => \A q \in ResourceIds \ shrunk' : Within(saved'.resources, q)
  BY DEF LedgerInv, FiguresInv
<1> QED
  BY <1>2, <1>3, <1>4 DEF FiguresInv

\* Steps that leave the records alone.
LEMMA LaterSame ==
    ASSUME LedgerTyped, reservations' = reservations
    PROVE  Later(reservations, reservations')
<1>1. Len(reservations) \in Nat
  BY DEF LedgerTyped
<1> QED
  BY <1>1 DEF Later

\* What a step of the manager does to the ledger: it stays exact, and if it is not emptied
\* its records go on.
Kept ==
    LedgerInv' /\ (Len(reservations') >= Len(reservations) => Later(reservations, reservations'))

LEMMA RegisteredKept ==
    ASSUME LedgerInv, NEW r \in ResourceIds, NEW capacity \in Nat, NEW allocated \in Nat,
           Register(r, capacity, allocated)
    PROVE  Kept
<1> DEFINE x == [capacity |-> capacity, allocated |-> allocated, reserved |-> 0,
                 state |-> "available", frozen |-> FALSE]
<1>1. /\ resources' = [resources EXCEPT ![r] = x]
      /\ UNCHANGED <<pools, reservations, allocations, clock, saved>>
      /\ uncounted' = IF allocated > 0 \/ ActiveReservations(r) # {} \/ ActiveAllocations(r) # {}
                      THEN uncounted \cup {r} ELSE uncounted
      /\ shrunk' = IF allocated > capacity THEN shrunk \cup {r} ELSE shrunk
      /\ calls \in Nat /\ calls' = calls - 1 /\ calls > 0
  BY DEF Register, Call, LedgerInv, ResourceTypeOK
<1>2. x \in Resource
  BY DEF Resource, ResourceState
<1>3. ResourceTypeOK'
  BY <1>1, <1>2 DEF LedgerInv, ResourceTypeOK
<1>4. ASSUME r \notin uncounted'
      PROVE  Total(Claims(reservations, r)) = 0 /\ Total(Uses(allocations, r)) = 0 /\ allocated = 0
  <2>1. ActiveReservations(r) = {} /\ ActiveAllocations(r) = {} /\ ~(allocated > 0)
    BY <1>1, <1>4
  <2>2. reservations \in Seq(Reservation) /\ allocations \in Seq(Allocation)
    BY DEF LedgerInv, ResourceTypeOK
  <2>3. \A i \in 1 .. Len(reservations) : ~(reservations[i].resource = r /\ reservations[i].status = "active")
    BY <2>1, <2>2 DEF ActiveReservations
  <2>4. \A i \in 1 .. Len(allocations) : ~(allocations[i].resource = r /\ ~allocations[i].released)
    BY <2>1, <2>2 DEF ActiveAllocations
  <2> DEFINE s == Claims(reservations, r)
             t == Uses(allocations, r)
  <2>5. s \in Seq(Nat) /\ \A i \in 1 .. Len(s) : s[i] = 0
    BY <2>2, <2>3, ClaimsAre
  <2>6. t \in Seq(Nat) /\ \A i \in 1 .. Len(t) : t[i] = 0
    BY <2>2, <2>4, UsesAre
  <2> HIDE DEF s, t
  <2>7. Total(s) = 0 /\ Total(t) = 0
    BY <2>5, <2>6, TotalZero
  <2> QED
    BY <2>1, <2>7 DEF s, t
<1>5. /\ x.reserved = 0 /\ x.allocated = allocated /\ x.capacity = capacity
      /\ uncounted \subseteq uncounted' /\ shrunk \subseteq shrunk'
      /\ r \notin shrunk' => allocated + 0 <= capacity
  BY <1>1
<1> HIDE DEF x
<1>6. FiguresInv'
  BY <1>1, <1>4, <1>5, OneChanged
<1>7. Later(reservations, reservations')
  BY <1>1, LedgerSound, LaterSame
<1> QED
  BY <1>3, <1>6, <1>7 DEF Kept, LedgerInv

LEMMA RemovedKept ==
    ASSUME LedgerInv, NEW r \in ResourceIds, NEW force, RemoveResource(r, force)
    PROVE  Kept
<1>1. /\ resources' = [resources EXCEPT ![r] = None]
      /\ pools' = [p \in PoolIds |-> IF pools[p] = None THEN None ELSE pools[p] \ {r}]
      /\ UNCHANGED <<reservations, allocations, clock, saved, uncounted, shrunk>>
      /\ calls \in Nat /\ calls' = calls - 1 /\ calls > 0
  BY DEF RemoveResource, Call, LedgerInv, ResourceTypeOK
<1>2. ResourceTypeOK'
  BY <1>1 DEF LedgerInv, ResourceTypeOK
<1>3. FiguresInv'
  BY <1>1, OneChanged
<1>4. Later(reservations, reservations')
  BY <1>1, LedgerSound, LaterSame
<1> QED
  BY <1>2, <1>3, <1>4 DEF Kept, LedgerInv

\* Its state, its freezing and a capacity that is not lowered leave the figures alone.
LEMMA AdjustedKept ==
    ASSUME LedgerInv, NEW r \in ResourceIds, NEW x \in Resource, resources[r] # None,
           resources' = [resources EXCEPT ![r] = x],
           x.reserved = resources[r].reserved, x.allocated = resources[r].allocated,
           r \notin shrunk' => x.capacity >= resources[r].capacity,
           shrunk \subseteq shrunk', shrunk' \subseteq ResourceIds,
           UNCHANGED <<pools, reservations, allocations, clock, saved, uncounted>>,
           Call
    PROVE  Kept
<1>1. calls \in Nat /\ calls' = calls - 1 /\ calls > 0
  BY DEF Call, LedgerInv, ResourceTypeOK
<1>2. ResourceTypeOK'
  BY <1>1 DEF LedgerInv, ResourceTypeOK
<1>3. resources[r] \in Resource
  BY DEF LedgerInv, ResourceTypeOK
<1>4. r \notin uncounted' =>
        x.reserved = Total(Claims(reservations, r)) /\ x.allocated = Total(Uses(allocations, r))
  BY DEF LedgerInv, FiguresInv, Exact, ExactUse
<1>5. ASSUME r \notin shrunk'
      PROVE  x.allocated + x.reserved <= x.capacity
  <2>1. resources[r].allocated + resources[r].reserved <= resources[r].capacity
    BY <1>5 DEF LedgerInv, FiguresInv, Within
  <2> QED
    BY <1>3, <1>5, <2>1 DEF Resource
<1>6. FiguresInv'
  BY <1>4, <1>5, OneChanged
<1>7. Later(reservations, reservations')
  BY LedgerSound, LaterSame
<1> QED
  BY <1>2, <1>6, <1>7 DEF Kept, LedgerInv

LEMMA SetKept ==
    ASSUME LedgerInv, NEW r \in ResourceIds,
           \/ \E state \in States : SetState(r, state)
           \/ \E frozen \in BOOLEAN : SetFrozen(r, frozen)
           \/ \E capacity \in Nat : SetCapacity(r, capacity)
    PROVE  Kept
<1>1. resources[r] # None /\ resources[r] \in Resource /\ Call
  BY DEF SetState, SetFrozen, SetCapacity, LedgerInv, ResourceTypeOK
<1>2. shrunk \subseteq ResourceIds
  BY DEF LedgerInv, ResourceTypeOK
<1>3. CASE \E state \in States : SetState(r, state)
  <2>1. PICK state \in States : SetState(r, state)
    BY <1>3
  <2> DEFINE x == [resources[r] EXCEPT !.state = state]
  <2>2. state \in ResourceState
    BY ResourceAssumption
  <2>3. /\ x \in Resource /\ x.reserved = resources[r].reserved
        /\ x.allocated = resources[r].allocated /\ x.capacity = resources[r].capacity
        /\ resources[r].capacity \in Nat
    BY <1>1, <2>2 DEF Resource
  <2>4. resources' = [resources EXCEPT ![r] = x]
    BY <2>1 DEF SetState
  <2>5. UNCHANGED <<pools, reservations, allocations, clock, saved, uncounted, shrunk>>
    BY <2>1 DEF SetState
  <2> HIDE DEF x
  <2>6. x.capacity >= resources[r].capacity
    BY <2>3
  <2> QED
    BY <1>1, <1>2, <2>3, <2>4, <2>5, <2>6, AdjustedKept
<1>4. CASE \E frozen \in BOOLEAN : SetFrozen(r, frozen)
  <2>1. PICK frozen \in BOOLEAN : SetFrozen(r, frozen)
    BY <1>4
  <2> DEFINE x == [resources[r] EXCEPT !.frozen = frozen]
  <2>3. /\ x \in Resource /\ x.reserved = resources[r].reserved
        /\ x.allocated = resources[r].allocated /\ x.capacity = resources[r].capacity
        /\ resources[r].capacity \in Nat
    BY <1>1 DEF Resource
  <2>4. resources' = [resources EXCEPT ![r] = x]
    BY <2>1 DEF SetFrozen
  <2>5. UNCHANGED <<pools, reservations, allocations, clock, saved, uncounted, shrunk>>
    BY <2>1 DEF SetFrozen
  <2> HIDE DEF x
  <2>6. x.capacity >= resources[r].capacity
    BY <2>3
  <2> QED
    BY <1>1, <1>2, <2>3, <2>4, <2>5, <2>6, AdjustedKept
<1>5. CASE \E capacity \in Nat : SetCapacity(r, capacity)
  <2>1. PICK capacity \in Nat : SetCapacity(r, capacity)
    BY <1>5
  <2> DEFINE x == [resources[r] EXCEPT !.capacity = capacity]
  <2>3. /\ x \in Resource /\ x.reserved = resources[r].reserved
        /\ x.allocated = resources[r].allocated /\ x.capacity = capacity
        /\ resources[r].capacity \in Nat
    BY <1>1 DEF Resource
  <2>4. resources' = [resources EXCEPT ![r] = x]
    BY <2>1 DEF SetCapacity
  <2>5. /\ UNCHANGED <<pools, reservations, allocations, clock, saved, uncounted>>
        /\ shrunk' = IF capacity < resources[r].capacity THEN shrunk \cup {r} ELSE shrunk
    BY <2>1 DEF SetCapacity
  <2> HIDE DEF x
  <2>6. /\ r \notin shrunk' => x.capacity >= resources[r].capacity
        /\ shrunk \subseteq shrunk' /\ shrunk' \subseteq ResourceIds
    BY <1>2, <2>3, <2>5
  <2> QED
    BY <1>1, <2>3, <2>4, <2>5, <2>6, AdjustedKept
<1> QED
  BY <1>3, <1>4, <1>5


\* Steps that touch neither resources nor records.
LEMMA FiguresSame ==
    ASSUME LedgerInv,
           UNCHANGED <<resources, reservations, allocations, saved, uncounted, shrunk>>
    PROVE  FiguresInv' /\ Later(reservations, reservations')
<1>1. FiguresInv'
  BY DEF LedgerInv, FiguresInv
<1> QED
  BY <1>1, LedgerSound, LaterSame

LEMMA PoolsKept ==
    ASSUME LedgerInv,
           \/ \E p \in PoolIds, ids \in SUBSET ResourceIds : RegisterPool(p, ids)
           \/ \E p \in PoolIds, r \in ResourceIds : AddToPool(p, r) \/ RemoveFromPool(p, r)
           \/ \E p \in PoolIds : RemovePool(p)
           \/ Tick
    PROVE  Kept
<1>1. pools \in [PoolIds -> (SUBSET ResourceIds) \cup {None}] /\ calls \in Nat /\ clock \in Nat
  BY DEF LedgerInv, ResourceTypeOK
<1>2. /\ pools' \in [PoolIds -> (SUBSET ResourceIds) \cup {None}]
      /\ calls' \in Nat /\ clock' \in Nat
      /\ UNCHANGED <<resources, reservations, allocations, saved, uncounted, shrunk>>
  <2>1. CASE \E p \in PoolIds, ids \in SUBSET ResourceIds : RegisterPool(p, ids)
    BY <1>1, <2>1 DEF RegisterPool, Call
  <2>2. CASE \E p \in PoolIds, r \in ResourceIds : AddToPool(p, r) \/ RemoveFromPool(p, r)
    <3>1. PICK p \in PoolIds, r \in ResourceIds : AddToPool(p, r) \/ RemoveFromPool(p, r)
      BY <2>2
    <3>2. pools[p] # None /\ pools[p] \in SUBSET ResourceIds
      BY <1>1, <3>1 DEF AddToPool, RemoveFromPool
    <3>3. pools[p] \cup {r} \in SUBSET ResourceIds /\ pools[p] \ {r} \in SUBSET ResourceIds
      BY <3>2
    <3> QED
      BY <1>1, <3>1, <3>3 DEF AddToPool, RemoveFromPool, Call
  <2>3. CASE \E p \in PoolIds : RemovePool(p)
    BY <1>1, <2>3 DEF RemovePool, Call
  <2>4. CASE Tick
    BY <1>1, <2>4 DEF Tick, Call
  <2> QED
    BY <2>1, <2>2, <2>3, <2>4
<1>3. ResourceTypeOK'
  BY <1>2 DEF LedgerInv, ResourceTypeOK
<1> QED
  BY <1>2, <1>3, FiguresSame DEF Kept, LedgerInv

\* A step of the ledger leaves pools, allocations and snapshots alone.
LEMMA BooksKept ==
    ASSUME LedgerInv, NEW next \in Reached(Ledger),
           resources' = next.rs, reservations' = next.book,
           UNCHANGED <<pools, allocations, clock, saved, uncounted, shrunk>>, calls' \in Nat
    PROVE  LedgerInv' /\ Later(reservations, reservations')
<1>1. FiguresInv' /\ LedgerTyped' /\ Later(reservations, reservations')
  BY LedgerReached
<1>2. ResourceTypeOK'
  BY <1>1 DEF LedgerInv, ResourceTypeOK, LedgerTyped
<1> QED
  BY <1>1, <1>2 DEF LedgerInv

LEMMA ReservationsKept ==
    ASSUME LedgerInv,
           \/ \E r \in ResourceIds, t \in TaskIds, a \in Amounts, x \in (0 .. MaxTime) \cup {None} :
                    Reserve(r, t, a, x)
           \/ \E i \in DOMAIN reservations : ReleaseReservation(i)
           \/ \E t \in TaskIds, r, q \in ResourceIds, a, b \in Amounts :
                    ReserveBatch(<<[resource |-> r, amount |-> a], [resource |-> q, amount |-> b]>>, t)
           \/ ExpireDue
    PROVE  Kept
<1>1. LedgerTyped /\ Ledger \in BooksType /\ Ledger.rs = resources /\ Ledger.book = reservations
  BY LedgerSound, LedgerIs
<1>2. calls \in Nat
  BY DEF LedgerInv, ResourceTypeOK
<1>3. \E next \in Reached(Ledger) :
        /\ resources' = next.rs /\ reservations' = next.book
        /\ UNCHANGED <<pools, allocations, clock, saved, uncounted, shrunk>> /\ calls' \in Nat
  <2>1. CASE \E r \in ResourceIds, t \in TaskIds, a \in Amounts, x \in (0 .. MaxTime) \cup {None} :
                Reserve(r, t, a, x)
    <3>1. PICK r \in ResourceIds, t \in TaskIds, a \in Amounts, x \in (0 .. MaxTime) \cup {None} :
                Reserve(r, t, a, x)
      BY <2>1
    <3>2. a \in Nat /\ x \in Nat \cup {None} /\ Reservable(resources, r, a)
      BY <3>1, ResourceAssumption DEF Reserve
    <3> DEFINE rs == [resources EXCEPT ![r] = Reserving(resources[r], a)]
               book == Append(reservations, NewReservation(r, t, a, x))
               next == [rs |-> rs, book |-> book, ok |-> TRUE]
    <3>3. /\ resources' = rs /\ reservations' = book
          /\ UNCHANGED <<pools, allocations, clock, saved, uncounted, shrunk>> /\ calls' \in Nat
      BY <1>2, <3>1 DEF Reserve, Call
    <3>4. rs \in [ResourceIds -> Resource \cup {None}] /\ book \in Seq(Reservation)
      BY <1>1, <3>2, ReservedType
    <3> HIDE DEF rs, book
    <3>5. next \in BooksType /\ next.rs = rs /\ next.book = book
      BY <3>4 DEF BooksType
    <3> HIDE DEF next
    <3>6. next \in Reached(Ledger)
      <4>1. next.rs = [Ledger.rs EXCEPT ![r] = Reserving(Ledger.rs[r], a)]
        BY <1>1, <3>5 DEF rs
      <4>2. next.book = Append(Ledger.book, NewReservation(r, t, a, x))
        BY <1>1, <3>5 DEF book
      <4>3. Reservable(Ledger.rs, r, a) /\ a \in Nat /\ x \in Nat \cup {None} /\ next \in BooksType
        BY <1>1, <3>2, <3>5
      <4> QED
        BY <1>1, <4>1, <4>2, <4>3, ReservedIs
    <3> QED
      BY <3>3, <3>5, <3>6
  <2>2. CASE \E i \in DOMAIN reservations : ReleaseReservation(i)
    <3>1. PICK i \in DOMAIN reservations : ReleaseReservation(i)
      BY <2>2
    <3> DEFINE next == Closed(Ledger, i, "released")
    <3>2. /\ resources' = next.rs /\ reservations' = next.book
          /\ UNCHANGED <<pools, allocations, clock, saved, uncounted, shrunk>> /\ calls' \in Nat
      BY <1>2, <3>1 DEF ReleaseReservation, Call, Ledger
    <3>3. "released" \in ReservationStatus \ {"active"}
      BY DEF ReservationStatus
    <3>4. Ledger.book[i].status = "active" /\ Ledger.rs[Ledger.book[i].resource] # None
      BY <1>1, <3>1 DEF ReleaseReservation, Releasable
    <3>5. next \in Reached(Ledger)
      BY <1>1, <3>3, <3>4, ClosedIs DEF Reached
    <3> QED
      BY <3>2, <3>5
  <2>3. CASE \E t \in TaskIds, r, q \in ResourceIds, a, b \in Amounts :
                ReserveBatch(<<[resource |-> r, amount |-> a], [resource |-> q, amount |-> b]>>, t)
    <3>1. PICK t \in TaskIds, r \in ResourceIds, q \in ResourceIds, a \in Amounts, b \in Amounts :
                ReserveBatch(<<[resource |-> r, amount |-> a], [resource |-> q, amount |-> b]>>, t)
      BY <2>3
    <3> DEFINE x == [resource |-> r, amount |-> a]
               y == [resource |-> q, amount |-> b]
    <3>2. x \in RequirementType /\ y \in RequirementType
      BY ResourceAssumption DEF RequirementType
    <3> DEFINE next == Batch(<<x, y>>, t)
    <3>3. /\ resources' = next.rs /\ reservations' = next.book
          /\ UNCHANGED <<pools, allocations, clock, saved, uncounted, shrunk>> /\ calls' \in Nat
      BY <1>2, <3>1 DEF ReserveBatch, Call
    <3> HIDE DEF x, y
    <3>4. <<x, y>> \in Seq(RequirementType)
      BY <3>2
    <3>5. next \in Reached(Ledger)
      BY <1>1, <3>4, BatchIs
    <3> QED
      BY <3>3, <3>5
  <2>4. CASE ExpireDue
    <3>1. /\ resources' = Sweep.rs /\ reservations' = Sweep.book
          /\ UNCHANGED <<pools, allocations, clock, saved, uncounted, shrunk>> /\ calls' \in Nat
      BY <1>2, <2>4 DEF ExpireDue, Call
    <3> QED
      BY <1>1, <3>1, SweepIs
  <2> QED
    BY <2>1, <2>2, <2>3, <2>4
<1> QED
  BY <1>3, BooksKept DEF Kept

LEMMA AllocatedKept ==
    ASSUME LedgerInv, NEW r \in ResourceIds, NEW t \in TaskIds, NEW amount \in Nat,
           AllocateDirect(r, t, amount)
    PROVE  Kept
<1> DEFINE x == Allocating(resources[r], amount)
           record == NewAllocation(r, t, amount)
<1>1. /\ resources' = [resources EXCEPT ![r] = x]
      /\ allocations' = Append(allocations, record)
      /\ UNCHANGED <<pools, reservations, clock, saved, uncounted, shrunk>>
      /\ calls \in Nat /\ calls' = calls - 1 /\ calls > 0
      /\ Reservable(resources, r, amount)
  BY DEF AllocateDirect, Call, LedgerInv, ResourceTypeOK
<1>2. resources[r] # None /\ resources[r] \in Resource
  BY <1>1 DEF Reservable, LedgerInv, ResourceTypeOK
<1>3. amount \in Nat \ {0}
      /\ resources[r].allocated + resources[r].reserved + amount <= resources[r].capacity
  BY <1>1, <1>2, CapacityIs DEF Reservable
<1>4. record \in Allocation /\ ~record.released /\ record.resource = r /\ record.amount = amount
  BY <1>3 DEF NewAllocation, Allocation
<1>5. /\ x \in Resource /\ x.allocated = resources[r].allocated + amount
      /\ x.reserved = resources[r].reserved /\ x.capacity = resources[r].capacity
      /\ resources[r].allocated \in Nat /\ resources[r].reserved \in Nat
      /\ resources[r].capacity \in Nat
  BY <1>2 DEF Allocating, Resource
<1>6. allocations \in Seq(Allocation) /\ resources \in [ResourceIds -> Resource \cup {None}]
  BY DEF LedgerInv, ResourceTypeOK
<1> HIDE DEF x, record
<1>7. ResourceTypeOK'
  <2>1. allocations' \in Seq(Allocation) /\ resources' \in [ResourceIds -> Resource \cup {None}]
    BY <1>1, <1>4, <1>5, <1>6
  <2> QED
    BY <1>1, <2>1 DEF LedgerInv, ResourceTypeOK
<1>8. \A q \in ResourceIds :
        Total(Uses(allocations', q)) = Total(Uses(allocations, q)) + (IF r = q THEN amount ELSE 0)
  BY <1>1, <1>4, <1>6, UsesAppended
<1>9. \A q \in ResourceIds : Total(Uses(allocations, q)) \in Nat
  BY <1>6, UsesAre, TotalNat
<1>10. \A q \in ResourceIds : q # r => Total(Uses(allocations', q)) = Total(Uses(allocations, q))
  BY <1>8, <1>9
<1>11. r \notin uncounted' =>
        x.reserved = Total(Claims(reservations', r)) /\ x.allocated = Total(Uses(allocations', r))
  BY <1>1, <1>2, <1>5, <1>8 DEF LedgerInv, FiguresInv, Exact, ExactUse
<1>12. x.allocated + x.reserved <= x.capacity
  BY <1>3, <1>5
<1>13. FiguresInv'
  BY <1>1, <1>10, <1>11, <1>12, OneChanged
<1>14. Later(reservations, reservations')
  BY <1>1, LedgerSound, LaterSame
<1> QED
  BY <1>7, <1>13, <1>14 DEF Kept, LedgerInv

LEMMA FreedKept ==
    ASSUME LedgerInv, NEW j \in DOMAIN allocations, ReleaseAllocation(j)
    PROVE  Kept
<1> DEFINE r == allocations[j].resource
           amount == allocations[j].amount
           x == Unallocating(resources[r], amount)
<1>1. /\ resources' = [resources EXCEPT ![r] = x]
      /\ allocations' = [allocations EXCEPT ![j].released = TRUE]
      /\ UNCHANGED <<pools, reservations, clock, saved, uncounted, shrunk>>
      /\ calls \in Nat /\ calls' = calls - 1 /\ calls > 0
      /\ ~allocations[j].released /\ resources[r] # None
  BY DEF ReleaseAllocation, Call, LedgerInv, ResourceTypeOK
<1>2. allocations \in Seq(Allocation) /\ resources \in [ResourceIds -> Resource \cup {None}]
  BY DEF LedgerInv, ResourceTypeOK
<1>3. allocations[j] \in Allocation
  BY <1>2
<1>4. r \in ResourceIds /\ amount \in Nat
  BY <1>3 DEF Allocation
<1>5. resources[r] \in Resource
  BY <1>1, <1>2, <1>4
<1>6. /\ resources[r].allocated \in Nat /\ resources[r].reserved \in Nat
      /\ resources[r].capacity \in Nat
  BY <1>5 DEF Resource
<1>7. /\ x \in Resource /\ x.allocated = Floor0(resources[r].allocated - amount)
      /\ x.reserved = resources[r].reserved /\ x.capacity = resources[r].capacity
      /\ Floor0(resources[r].allocated - amount) \in Nat
  <2>1. Floor0(resources[r].allocated - amount) \in Nat
    BY <1>4, <1>6 DEF Floor0
  <2> QED
    BY <1>5, <2>1 DEF Unallocating, Resource
<1>8. /\ allocations' \in Seq(Allocation) /\ Len(allocations') = Len(allocations)
      /\ allocations'[j].released
      /\ \A k \in DOMAIN allocations : k # j => allocations'[k] = allocations[k]
  <2> DEFINE y == [allocations[j] EXCEPT !.released = TRUE]
  <2>1. y \in Allocation /\ y.released
    BY <1>3 DEF Allocation
  <2>2. allocations' = [allocations EXCEPT ![j] = y]
    BY <1>1
  <2> HIDE DEF y
  <2>3. /\ Len(allocations') = Len(allocations) /\ allocations' \in Seq(Allocation)
        /\ allocations'[j] = y
        /\ \A k \in DOMAIN allocations : k # j => allocations'[k] = allocations[k]
    BY <1>2, <2>1, <2>2
  <2> QED
    BY <2>1, <2>3
<1> HIDE DEF x
<1>9. ResourceTypeOK'
  <2>1. resources' \in [ResourceIds -> Resource \cup {None}]
    BY <1>1, <1>2, <1>7
  <2> QED
    BY <1>1, <1>8, <2>1 DEF LedgerInv, ResourceTypeOK
<1>10. \A q \in ResourceIds :
        Total(Uses(allocations', q)) + (IF r = q THEN amount ELSE 0) = Total(Uses(allocations, q))
  <2> DEFINE old == allocations
             new == allocations'
  <2>1. /\ old \in Seq(Allocation) /\ new \in Seq(Allocation) /\ j \in DOMAIN old
        /\ ~old[j].released /\ Len(new) = Len(old) /\ new[j].released
        /\ \A k \in DOMAIN old : k # j => new[k] = old[k]
    BY <1>1, <1>2, <1>8
  <2>2. r = old[j].resource /\ amount = old[j].amount
    OBVIOUS
  <2> HIDE DEF old, new, r, amount
  <2>3. \A q \in ResourceIds :
          Total(Uses(new, q)) + (IF old[j].resource = q THEN old[j].amount ELSE 0) = Total(Uses(old, q))
    BY <2>1, UsesClosed
  <2> QED
    BY <2>2, <2>3 DEF old, new
<1>11. \A q \in ResourceIds : Total(Uses(allocations, q)) \in Nat /\ Total(Uses(allocations', q)) \in Nat
  BY <1>2, <1>8, UsesAre, TotalNat
<1>12. \A q \in ResourceIds : q # r => Total(Uses(allocations', q)) = Total(Uses(allocations, q))
  BY <1>10, <1>11
<1>13. ASSUME r \notin uncounted'
       PROVE  x.reserved = Total(Claims(reservations', r)) /\ x.allocated = Total(Uses(allocations', r))
  <2>1. /\ resources[r].reserved = Total(Claims(reservations, r))
        /\ resources[r].allocated = Total(Uses(allocations, r))
    BY <1>1, <1>4, <1>13 DEF LedgerInv, FiguresInv, Exact, ExactUse
  <2>2. Total(Uses(allocations', r)) + amount = Total(Uses(allocations, r))
    BY <1>4, <1>10
  <2>3. Total(Uses(allocations', r)) \in Nat
    BY <1>4, <1>11
  <2> DEFINE u == Total(Uses(allocations', r))
             a == resources[r].allocated
  <2>4. u + amount = a /\ u \in Nat /\ a \in Nat
    BY <1>6, <2>1, <2>2, <2>3
  <2>5. Floor0(a - amount) = u
    <3> HIDE DEF u, a, amount
    <3> QED
      BY <1>4, <2>4 DEF Floor0
  <2> QED
    BY <1>1, <1>7, <2>1, <2>5
<1>14. r \notin shrunk' => x.allocated + x.reserved <= x.capacity
  <2>1. r \notin shrunk' => resources[r].allocated + resources[r].reserved <= resources[r].capacity
    BY <1>1, <1>4 DEF LedgerInv, FiguresInv, Within
  <2>2. Floor0(resources[r].allocated - amount) <= resources[r].allocated
    BY <1>4, <1>6 DEF Floor0
  <2> QED
    BY <1>6, <1>7, <2>1, <2>2
<1>15. FiguresInv'
  <2> HIDE DEF r, amount
  <2> QED
    BY <1>1, <1>4, <1>12, <1>13, <1>14, OneChanged
<1>16. Later(reservations, reservations')
  BY <1>1, LedgerSound, LaterSame
<1> QED
  BY <1>9, <1>15, <1>16 DEF Kept, LedgerInv


\* A conversion moves an amount from one figure to the other.
LEMMA ConvertedKept ==
    ASSUME LedgerInv, NEW i \in DOMAIN reservations, Convert(i)
    PROVE  Kept
<1> DEFINE r == reservations[i].resource
           amount == reservations[i].amount
           x == Committing(resources[r], amount)
           record == NewAllocation(r, reservations[i].task, amount)
<1>1. /\ resources' = [resources EXCEPT ![r] = x]
      /\ reservations' = [reservations EXCEPT ![i].status = "converted"]
      /\ allocations' = Append(allocations, record)
      /\ UNCHANGED <<pools, clock, saved, uncounted, shrunk>>
      /\ calls \in Nat /\ calls' = calls - 1 /\ calls > 0
      /\ reservations[i].status = "active" /\ resources[r] # None
      /\ amount <= resources[r].reserved
  BY DEF Convert, Call, LedgerInv, ResourceTypeOK
<1>2. /\ reservations \in Seq(Reservation) /\ allocations \in Seq(Allocation)
      /\ resources \in [ResourceIds -> Resource \cup {None}]
  BY DEF LedgerInv, ResourceTypeOK
<1>3. reservations[i] \in Reservation
  BY <1>2
<1>4. r \in ResourceIds /\ amount \in Nat \ {0} /\ reservations[i].task \in TaskIds
  BY <1>3 DEF Reservation
<1>5. resources[r] \in Resource
  BY <1>1, <1>2, <1>4
<1>6. /\ resources[r].allocated \in Nat /\ resources[r].reserved \in Nat
      /\ resources[r].capacity \in Nat
  BY <1>5 DEF Resource
<1>7. /\ x \in Resource /\ x.allocated = resources[r].allocated + amount
      /\ x.reserved = resources[r].reserved - amount /\ x.capacity = resources[r].capacity
  <2>1. resources[r].reserved - amount \in Nat /\ resources[r].allocated + amount \in Nat
    BY <1>1, <1>4, <1>6
  <2> QED
    BY <1>5, <2>1 DEF Committing, Resource
<1>8. record \in Allocation /\ ~record.released /\ record.resource = r /\ record.amount = amount
  BY <1>4 DEF NewAllocation, Allocation
<1>9. /\ reservations' \in Seq(Reservation) /\ Len(reservations') = Len(reservations)
      /\ reservations'[i].status = "converted" /\ reservations'[i].resource = r
      /\ \A k \in DOMAIN reservations : k # i => reservations'[k] = reservations[k]
  <2> DEFINE y == [reservations[i] EXCEPT !.status = "converted"]
  <2>1. y \in Reservation /\ y.status = "converted" /\ y.resource = r
    BY <1>3 DEF Reservation, ReservationStatus
  <2>2. reservations' = [reservations EXCEPT ![i] = y]
    BY <1>1
  <2> HIDE DEF y
  <2>3. /\ Len(reservations') = Len(reservations) /\ reservations' \in Seq(Reservation)
        /\ reservations'[i] = y
        /\ \A k \in DOMAIN reservations : k # i => reservations'[k] = reservations[k]
    BY <1>2, <2>1, <2>2
  <2> QED
    BY <2>1, <2>3
<1> HIDE DEF x, record
<1>10. ResourceTypeOK'
  <2> HIDE DEF r, amount
  <2>1. resources' \in [ResourceIds -> Resource \cup {None}]
    BY <1>1, <1>2, <1>7
  <2>2. allocations' \in Seq(Allocation)
    BY <1>1, <1>2, <1>8
  <2> QED
    BY <1>1, <1>9, <2>1, <2>2 DEF LedgerInv, ResourceTypeOK
<1>11. \A q \in ResourceIds :
        Total(Claims(reservations', q)) + (IF r = q THEN amount ELSE 0) = Total(Claims(reservations, q))
  <2> DEFINE old == reservations
             new == reservations'
  <2>1. /\ old \in Seq(Reservation) /\ new \in Seq(Reservation) /\ i \in DOMAIN old
        /\ old[i].status = "active" /\ Len(new) = Len(old) /\ new[i].status # "active"
        /\ \A k \in DOMAIN old : k # i => new[k] = old[k]
    BY <1>1, <1>2, <1>9
  <2>2. r = old[i].resource /\ amount = old[i].amount
    OBVIOUS
  <2> HIDE DEF old, new, r, amount
  <2>3. \A q \in ResourceIds :
          Total(Claims(new, q)) + (IF old[i].resource = q THEN old[i].amount ELSE 0) = Total(Claims(old, q))
    BY <2>1, ClaimsClosed
  <2> QED
    BY <2>2, <2>3 DEF old, new
<1>12. \A q \in ResourceIds :
        Total(Uses(allocations', q)) = Total(Uses(allocations, q)) + (IF r = q THEN amount ELSE 0)
  BY <1>1, <1>2, <1>8, UsesAppended
<1>13. \A q \in ResourceIds : /\ Total(Uses(allocations, q)) \in Nat
                              /\ Total(Claims(reservations, q)) \in Nat
                              /\ Total(Claims(reservations', q)) \in Nat
  BY <1>2, <1>9, UsesAre, ClaimsAre, TotalNat
<1>14. \A q \in ResourceIds : q # r =>
            /\ Total(Claims(reservations', q)) = Total(Claims(reservations, q))
            /\ Total(Uses(allocations', q)) = Total(Uses(allocations, q))
  BY <1>11, <1>12, <1>13
<1>15. ASSUME r \notin uncounted'
       PROVE  x.reserved = Total(Claims(reservations', r)) /\ x.allocated = Total(Uses(allocations', r))
  <2>1. /\ resources[r].reserved = Total(Claims(reservations, r))
        /\ resources[r].allocated = Total(Uses(allocations, r))
    BY <1>1, <1>4, <1>15 DEF LedgerInv, FiguresInv, Exact, ExactUse
  <2>2. Total(Claims(reservations', r)) + amount = Total(Claims(reservations, r))
        /\ Total(Uses(allocations', r)) = Total(Uses(allocations, r)) + amount
    BY <1>4, <1>11, <1>12
  <2>3. Total(Claims(reservations', r)) \in Nat
    BY <1>4, <1>13
  <2> DEFINE u == Total(Claims(reservations', r))
             a == resources[r].reserved
  <2>4. u + amount = a /\ u \in Nat /\ a \in Nat
    BY <1>6, <2>1, <2>2, <2>3
  <2>5. a - amount = u
    <3> HIDE DEF u, a, amount
    <3> QED
      BY <1>4, <2>4
  <2> QED
    BY <1>7, <2>1, <2>2, <2>5
<1>16. r \notin shrunk' => x.allocated + x.reserved <= x.capacity
  <2>1. r \notin shrunk' => resources[r].allocated + resources[r].reserved <= resources[r].capacity
    BY <1>1, <1>4 DEF LedgerInv, FiguresInv, Within
  <2> QED
    BY <1>4, <1>6, <1>7, <2>1
<1>17. FiguresInv'
  <2> HIDE DEF r, amount
  <2> QED
    BY <1>1, <1>4, <1>14, <1>15, <1>16, OneChanged
<1>18. Later(reservations, reservations')
  <2>1. Len(reservations) \in Nat
    BY <1>2
  <2> QED
    BY <1>1, <1>9, <2>1 DEF Later
<1> QED
  BY <1>10, <1>17, <1>18 DEF Kept, LedgerInv

LEMMA SnapshotKept ==
    ASSUME LedgerInv, TakeSnapshot
    PROVE  Kept
<1>1. /\ saved' = [resources |-> resources, pools |-> pools]
      /\ UNCHANGED <<resources, pools, reservations, allocations, clock, uncounted, shrunk>>
      /\ calls \in Nat /\ calls' = calls - 1 /\ calls > 0
  BY DEF TakeSnapshot, Call, LedgerInv, ResourceTypeOK
<1>2. saved'.resources = resources
  BY <1>1
<1>3. ResourceTypeOK'
  BY <1>1 DEF LedgerInv, ResourceTypeOK
<1>4. FiguresInv'
  BY <1>1, <1>2 DEF LedgerInv, FiguresInv
<1>5. Later(reservations, reservations')
  BY <1>1, LedgerSound, LaterSame
<1> QED
  BY <1>3, <1>4, <1>5 DEF Kept, LedgerInv

\* Sums over no records.
LEMMA NoRecords ==
    ASSUME NEW r
    PROVE  Total(Claims(<<>>, r)) = 0 /\ Total(Uses(<<>>, r)) = 0
<1> DEFINE s == Claims(<<>>, r)
           t == Uses(<<>>, r)
<1>1. <<>> \in Seq(Reservation) /\ <<>> \in Seq(Allocation) /\ Len(<<>>) = 0
  OBVIOUS
<1>2. s \in Seq(Nat) /\ Len(s) = 0 /\ t \in Seq(Nat) /\ Len(t) = 0
  BY <1>1, ClaimsAre, UsesAre
<1> HIDE DEF s, t
<1>3. Total(s) = 0
  <2>1. \A i \in 1 .. Len(s) : s[i] = 0
    BY <1>2
  <2> QED
    BY <1>2, <2>1, TotalZero
<1>4. Total(t) = 0
  <2>1. \A i \in 1 .. Len(t) : t[i] = 0
    BY <1>2
  <2> QED
    BY <1>2, <2>1, TotalZero
<1> QED
  BY <1>3, <1>4 DEF s, t

LEMMA RestoredKept ==
    ASSUME LedgerInv, RestoreSnapshot
    PROVE  Kept
<1>1. /\ saved # None
      /\ resources' = saved.resources /\ pools' = saved.pools
      /\ reservations' = <<>> /\ allocations' = <<>>
      /\ uncounted' = uncounted \cup
            {r \in ResourceIds : /\ saved.resources[r] # None
                                 /\ saved.resources[r].allocated + saved.resources[r].reserved > 0}
      /\ UNCHANGED <<clock, saved, shrunk>>
      /\ calls \in Nat /\ calls' = calls - 1 /\ calls > 0
  BY DEF RestoreSnapshot, Call, LedgerInv, ResourceTypeOK
<1>2. /\ saved.resources \in [ResourceIds -> Resource \cup {None}]
      /\ saved.pools \in [PoolIds -> (SUBSET ResourceIds) \cup {None}]
  BY <1>1 DEF LedgerInv, ResourceTypeOK
<1>3. uncounted' \subseteq ResourceIds
  BY <1>1 DEF LedgerInv, ResourceTypeOK
<1>4. ResourceTypeOK'
  BY <1>1, <1>2, <1>3 DEF LedgerInv, ResourceTypeOK
<1>5. ASSUME NEW r \in ResourceIds \ uncounted'
      PROVE  Exact(resources', reservations', r) /\ ExactUse(resources', allocations', r)
  <2>1. ASSUME resources'[r] # None
        PROVE  resources'[r].reserved = 0 /\ resources'[r].allocated = 0
    <3>1. resources'[r] \in Resource
      BY <1>1, <1>2, <2>1
    <3>2. ~(resources'[r].allocated + resources'[r].reserved > 0)
      BY <1>1, <2>1
    <3> QED
      BY <3>1, <3>2 DEF Resource
  <2> QED
    BY <1>1, <2>1, NoRecords DEF Exact, ExactUse
<1>6. FiguresInv'
  BY <1>1, <1>5 DEF LedgerInv, FiguresInv
<1>7. Len(reservations') >= Len(reservations) => Later(reservations, reservations')
  <2>1. reservations \in Seq(Reservation)
    BY DEF LedgerInv, ResourceTypeOK
  <2>2. Len(reservations') = 0
    BY <1>1
  <2> QED
    BY <2>1, <2>2 DEF Later
<1> QED
  BY <1>4, <1>6, <1>7 DEF Kept, LedgerInv

\* Every method keeps the ledger exact.
LEMMA ManagerKept ==
    ASSUME LedgerInv, ResourceNext
    PROVE  Kept
<1>1. CASE \E r \in ResourceIds, c \in Capacities : Register(r, c, 0) \/ SetCapacity(r, c)
  <2>1. PICK r \in ResourceIds, c \in Capacities : Register(r, c, 0) \/ SetCapacity(r, c)
    BY <1>1
  <2>2. c \in Nat
    BY ResourceAssumption
  <2> QED
    BY <2>1, <2>2, RegisteredKept, SetKept
<1>2. CASE \E r \in ResourceIds, c \in Capacities, a \in Amounts : Register(r, c, a)
  <2>1. PICK r \in ResourceIds, c \in Capacities, a \in Amounts : Register(r, c, a)
    BY <1>2
  <2>2. c \in Nat /\ a \in Nat
    BY ResourceAssumption
  <2> QED
    BY <2>1, <2>2, RegisteredKept
<1>3. CASE \E r \in ResourceIds, force \in BOOLEAN : RemoveResource(r, force) \/ SetFrozen(r, force)
  BY <1>3, RemovedKept, SetKept
<1>4. CASE \E r \in ResourceIds, s \in States : SetState(r, s)
  BY <1>4, SetKept
<1>5. CASE \/ \E p \in PoolIds, ids \in SUBSET ResourceIds : RegisterPool(p, ids)
           \/ \E p \in PoolIds, r \in ResourceIds : AddToPool(p, r) \/ RemoveFromPool(p, r)
           \/ \E p \in PoolIds : RemovePool(p)
           \/ Tick
  BY <1>5, PoolsKept
<1>6. CASE TakeSnapshot \/ RestoreSnapshot
  BY <1>6, SnapshotKept, RestoredKept
<1>7. CASE \/ \E r \in ResourceIds, t \in TaskIds, a \in Amounts, x \in (0 .. MaxTime) \cup {None} :
                    Reserve(r, t, a, x)
           \/ \E i \in DOMAIN reservations : ReleaseReservation(i)
           \/ \E t \in TaskIds, r, q \in ResourceIds, a, b \in Amounts :
                    ReserveBatch(<<[resource |-> r, amount |-> a], [resource |-> q, amount |-> b]>>, t)
           \/ ExpireDue
  BY <1>7, ReservationsKept
<1>8. CASE \E r \in ResourceIds, t \in TaskIds, a \in Amounts : AllocateDirect(r, t, a)
  <2>1. PICK r \in ResourceIds, t \in TaskIds, a \in Amounts : AllocateDirect(r, t, a)
    BY <1>8
  <2>2. a \in Nat
    BY ResourceAssumption
  <2> QED
    BY <2>1, <2>2, AllocatedKept
<1>9. CASE \E i \in DOMAIN reservations : Convert(i)
  BY <1>9, ConvertedKept
<1>10. CASE \E j \in DOMAIN allocations : ReleaseAllocation(j)
  BY <1>10, FreedKept
<1> QED
  BY <1>1, <1>2, <1>3, <1>4, <1>5, <1>6, <1>7, <1>8, <1>9, <1>10 DEF ResourceNext, Manage, Account

-----------------------------------------------------------------------------
(* Lists of tasks *)

\* A list is filtered one member after the other.
LEMMA KeepingIs ==
    ASSUME NEW T, NEW list \in Seq(T), NEW K
    PROVE  /\ Keeping(list, K)[0] = <<>>
           /\ \A n \in 1 .. Len(list) : Keeping(list, K)[n] = (IF list[n] \in K THEN Append(Keeping(list, K)[n - 1], list[n]) ELSE Keeping(list, K)[n - 1])
           /\ \A n \in 0 .. Len(list) : Keeping(list, K)[n] \in Seq(T)
<1> DEFINE N == Len(list)
           S == Seq(T)
           Defines(g) == g = [n \in 0 .. N |-> IF n = 0 THEN <<>> ELSE (IF list[n] \in K THEN Append(g[n - 1], list[n]) ELSE g[n - 1])]
           step == [n \in 1 .. N |-> [x \in S |-> (IF list[n] \in K THEN Append(x, list[n]) ELSE x)]]
<1>1. N \in Nat /\ <<>> \in S
  OBVIOUS
<1>2. step \in [1 .. N -> [S -> S]]
  <2> SUFFICES ASSUME NEW n \in 1 .. N, NEW x \in S
               PROVE  (IF list[n] \in K THEN Append(x, list[n]) ELSE x) \in S
    OBVIOUS
  <2>1. list[n] \in T
    OBVIOUS
  <2> QED
    BY <2>1
<1>3. \A n \in 1 .. N, x \in S : step[n][x] = (IF list[n] \in K THEN Append(x, list[n]) ELSE x)
  OBVIOUS
<1> HIDE DEF step, N, S
<1>4. PICK g \in [0 .. N -> S] : Computes(g, N, <<>>, step)
  BY <1>1, <1>2, Recursion
<1>5. Defines(g)
  <2>1. ASSUME NEW n \in 0 .. N
        PROVE  g[n] = IF n = 0 THEN <<>> ELSE (IF list[n] \in K THEN Append(g[n - 1], list[n]) ELSE g[n - 1])
    <3>1. CASE n = 0
      BY <1>4, <3>1 DEF Computes
    <3>2. CASE n # 0
      <4>1. n \in 1 .. N /\ n - 1 \in 0 .. N
        BY <1>1, <3>2
      <4>2. g[n - 1] \in S /\ g[n] = step[n][g[n - 1]]
        BY <1>4, <4>1 DEF Computes
      <4>3. g[n] = (IF list[n] \in K THEN Append(g[n - 1], list[n]) ELSE g[n - 1])
        BY <1>3, <4>1, <4>2
      <4> QED
        BY <3>2, <4>3
    <3> QED
      BY <3>1, <3>2
  <2> QED
    BY <2>1
<1>6. Keeping(list, K) = CHOOSE h : Defines(h)
  BY DEF Keeping, N
<1>7. Defines(Keeping(list, K))
  <2> HIDE DEF Defines
  <2> QED
    BY <1>5, <1>6
<1>8. ASSUME NEW q, q = Keeping(list, K)
      PROVE  /\ q[0] = <<>>
             /\ \A n \in 1 .. N : q[n] = (IF list[n] \in K THEN Append(q[n - 1], list[n]) ELSE q[n - 1])
  <2>1. q = [n \in 0 .. N |-> IF n = 0 THEN <<>> ELSE (IF list[n] \in K THEN Append(q[n - 1], list[n]) ELSE q[n - 1])]
    BY <1>7, <1>8
  <2>2. q[0] = <<>>
    BY <1>1, <2>1
  <2>3. ASSUME NEW n \in 1 .. N
        PROVE  q[n] = (IF list[n] \in K THEN Append(q[n - 1], list[n]) ELSE q[n - 1])
    <3>1. n \in 0 .. N /\ n # 0
      BY <1>1
    <3> QED
      BY <2>1, <3>1
  <2> QED
    BY <2>2, <2>3
<1>9. \A n \in 0 .. N : Keeping(list, K)[n] \in S
  <2> DEFINE Typed == {n \in 0 .. N : Keeping(list, K)[n] \in S}
  <2>1. 0 \in Typed
    BY <1>1, <1>8
  <2>2. ASSUME NEW n \in 0 .. N - 1, n \in Typed
        PROVE  n + 1 \in Typed
    <3>1. n + 1 \in 1 .. N /\ n + 1 \in 0 .. N /\ (n + 1) - 1 = n
      BY <1>1
    <3>2. Keeping(list, K)[n] \in S
      BY <2>2
    <3>3. Keeping(list, K)[n + 1] = (IF list[(n + 1)] \in K THEN Append(Keeping(list, K)[n], list[(n + 1)]) ELSE Keeping(list, K)[n])
      BY <1>8, <3>1
    <3>4. step[n + 1][Keeping(list, K)[n]] \in S
      BY <1>2, <3>1, <3>2
    <3> QED
      BY <1>3, <3>1, <3>2, <3>3, <3>4
  <2> HIDE DEF Typed
  <2>3. \A n \in 0 .. N : n \in Typed
    BY <1>1, <2>1, <2>2, Induct
  <2> QED
    BY <2>3 DEF Typed
<1> QED
  BY <1>8, <1>9 DEF N, S

\* What is kept of a list is what of it is in K.
LEMMA OnlyIs ==
    ASSUME NEW T, NEW list \in Seq(T), NEW K
    PROVE  /\ Only(list, K) \in Seq(T)
           /\ ToSet(Only(list, K)) = ToSet(list) \cap K
<1> DEFINE g == Keeping(list, K)
           N == Len(list)
           D == {n \in 0 .. N : ToSet(g[n]) = {list[i] : i \in 1 .. n} \cap K}
<1>1. N \in Nat /\ DOMAIN list = 1 .. N
  OBVIOUS
<1>2. /\ g[0] = <<>> /\ \A n \in 0 .. N : g[n] \in Seq(T)
      /\ \A n \in 1 .. N : g[n] = IF list[n] \in K THEN Append(g[n - 1], list[n]) ELSE g[n - 1]
  BY KeepingIs
<1> HIDE DEF g, N
<1>3. 0 \in D
  <2>1. ToSet(<<>>) = {}
    BY DEF ToSet
  <2> QED
    BY <1>1, <1>2, <2>1
<1>4. ASSUME NEW n \in 0 .. N - 1, n \in D
      PROVE  n + 1 \in D
  <2>1. n \in 0 .. N /\ n + 1 \in 1 .. N /\ n + 1 \in 0 .. N /\ (n + 1) - 1 = n
    BY <1>1
  <2>2. g[n + 1] = IF list[n + 1] \in K THEN Append(g[n], list[n + 1]) ELSE g[n]
    BY <1>2, <2>1
  <2>3. {list[i] : i \in 1 .. n + 1} = {list[i] : i \in 1 .. n} \cup {list[n + 1]}
    <3>1. \A i \in 1 .. n + 1 : i \in 1 .. n \/ i = n + 1
      BY <1>1
    <3>2. (\A i \in 1 .. n : i \in 1 .. n + 1) /\ n + 1 \in 1 .. n + 1
      BY <1>1
    <3> QED
      BY <3>1, <3>2
  <2>4. ToSet(g[n]) = {list[i] : i \in 1 .. n} \cap K
    BY <1>4
  <2>5. ToSet(Append(g[n], list[n + 1])) = ToSet(g[n]) \cup {list[n + 1]}
    <3>1. g[n] \in Seq(T)
      BY <1>2, <2>1
    <3> DEFINE s == g[n]
               t == Append(s, list[n + 1])
    <3>2. /\ DOMAIN t = 1 .. Len(s) + 1 /\ DOMAIN s = 1 .. Len(s) /\ Len(s) \in Nat
          /\ \A i \in 1 .. Len(s) : t[i] = s[i] /\ t[Len(s) + 1] = list[n + 1]
          /\ t[Len(s) + 1] = list[n + 1]
      BY <3>1
    <3> HIDE DEF s, t
    <3>3. \A i \in 1 .. Len(s) + 1 : i \in 1 .. Len(s) \/ i = Len(s) + 1
      BY <3>2
    <3>4. (\A i \in 1 .. Len(s) : i \in 1 .. Len(s) + 1) /\ Len(s) + 1 \in 1 .. Len(s) + 1
      BY <3>2
    <3>5. ToSet(t) = ToSet(s) \cup {list[n + 1]}
      BY <3>2, <3>3, <3>4 DEF ToSet
    <3> QED
      BY <3>5 DEF s, t
  <2>6. CASE list[n + 1] \in K
    BY <2>1, <2>2, <2>3, <2>4, <2>5, <2>6
  <2>7. CASE list[n + 1] \notin K
    BY <2>1, <2>2, <2>3, <2>4, <2>7
  <2> QED
    BY <2>6, <2>7
<1>5. N \in D
  <2> HIDE DEF D
  <2>1. \A n \in 0 .. N : n \in D
    BY <1>1, <1>3, <1>4, Induct
  <2> QED
    BY <1>1, <2>1
<1>6. Only(list, K) = g[N]
  BY DEF Only, g, N
<1>7. g[N] \in Seq(T) /\ ToSet(g[N]) = {list[i] : i \in 1 .. N} \cap K
  BY <1>1, <1>2, <1>5
<1> QED
  BY <1>1, <1>6, <1>7 DEF ToSet

LEMMA PushReadyIs ==
    ASSUME NEW T, NEW list \in Seq(T), NEW t \in T
    PROVE  /\ PushReady(list, t) \in Seq(T)
           /\ ToSet(list) \subseteq ToSet(PushReady(list, t)) /\ t \in ToSet(PushReady(list, t))
<1>1. CASE t \in ToSet(list)
  BY <1>1 DEF PushReady
<1>2. CASE t \notin ToSet(list)
  <2> DEFINE s == Append(list, t)
  <2>1. PushReady(list, t) = s
    BY <1>2 DEF PushReady
  <2>2. /\ s \in Seq(T) /\ DOMAIN list = 1 .. Len(list) /\ DOMAIN s = 1 .. Len(list) + 1 /\ Len(list) \in Nat
        /\ s[Len(list) + 1] = t /\ \A i \in 1 .. Len(list) : s[i] = list[i]
    OBVIOUS
  <2> HIDE DEF s
  <2>3. (\A i \in 1 .. Len(list) : i \in 1 .. Len(list) + 1) /\ Len(list) + 1 \in 1 .. Len(list) + 1
    BY <2>2
  <2>4. ToSet(list) \subseteq ToSet(s) /\ t \in ToSet(s)
    BY <2>2, <2>3 DEF ToSet
  <2> QED
    BY <2>1, <2>2, <2>4
<1> QED
  BY <1>1, <1>2

\* Tasks are pushed one after the other.
LEMMA PushingIs ==
    ASSUME NEW T, NEW list \in Seq(T), NEW tasks \in Seq(T)
    PROVE  /\ Pushing(list, tasks)[0] = list
           /\ \A n \in 1 .. Len(tasks) : Pushing(list, tasks)[n] = PushReady(Pushing(list, tasks)[n - 1], tasks[n])
           /\ \A n \in 0 .. Len(tasks) : Pushing(list, tasks)[n] \in Seq(T)
<1> DEFINE N == Len(tasks)
           S == Seq(T)
           Defines(g) == g = [n \in 0 .. N |-> IF n = 0 THEN list ELSE PushReady(g[n - 1], tasks[n])]
           step == [n \in 1 .. N |-> [x \in S |-> PushReady(x, tasks[n])]]
<1>1. N \in Nat /\ list \in S
  OBVIOUS
<1>2. step \in [1 .. N -> [S -> S]]
  <2> SUFFICES ASSUME NEW n \in 1 .. N, NEW x \in S
               PROVE  PushReady(x, tasks[n]) \in S
    OBVIOUS
  <2>1. tasks[n] \in T
    OBVIOUS
  <2> QED
    BY <2>1, PushReadyIs
<1>3. \A n \in 1 .. N, x \in S : step[n][x] = PushReady(x, tasks[n])
  OBVIOUS
<1> HIDE DEF step, N, S
<1>4. PICK g \in [0 .. N -> S] : Computes(g, N, list, step)
  BY <1>1, <1>2, Recursion
<1>5. Defines(g)
  <2>1. ASSUME NEW n \in 0 .. N
        PROVE  g[n] = IF n = 0 THEN list ELSE PushReady(g[n - 1], tasks[n])
    <3>1. CASE n = 0
      BY <1>4, <3>1 DEF Computes
    <3>2. CASE n # 0
      <4>1. n \in 1 .. N /\ n - 1 \in 0 .. N
        BY <1>1, <3>2
      <4>2. g[n - 1] \in S /\ g[n] = step[n][g[n - 1]]
        BY <1>4, <4>1 DEF Computes
      <4>3. g[n] = PushReady(g[n - 1], tasks[n])
        BY <1>3, <4>1, <4>2
      <4> QED
        BY <3>2, <4>3
    <3> QED
      BY <3>1, <3>2
  <2> QED
    BY <2>1
<1>6. Pushing(list, tasks) = CHOOSE h : Defines(h)
  BY DEF Pushing, N
<1>7. Defines(Pushing(list, tasks))
  <2> HIDE DEF Defines
  <2> QED
    BY <1>5, <1>6
<1>8. ASSUME NEW q, q = Pushing(list, tasks)
      PROVE  /\ q[0] = list
             /\ \A n \in 1 .. N : q[n] = PushReady(q[n - 1], tasks[n])
  <2>1. q = [n \in 0 .. N |-> IF n = 0 THEN list ELSE PushReady(q[n - 1], tasks[n])]
    BY <1>7, <1>8
  <2>2. q[0] = list
    BY <1>1, <2>1
  <2>3. ASSUME NEW n \in 1 .. N
        PROVE  q[n] = PushReady(q[n - 1], tasks[n])
    <3>1. n \in 0 .. N /\ n # 0
      BY <1>1
    <3> QED
      BY <2>1, <3>1
  <2> QED
    BY <2>2, <2>3
<1>9. \A n \in 0 .. N : Pushing(list, tasks)[n] \in S
  <2> DEFINE Typed == {n \in 0 .. N : Pushing(list, tasks)[n] \in S}
  <2>1. 0 \in Typed
    BY <1>1, <1>8
  <2>2. ASSUME NEW n \in 0 .. N - 1, n \in Typed
        PROVE  n + 1 \in Typed
    <3>1. n + 1 \in 1 .. N /\ n + 1 \in 0 .. N /\ (n + 1) - 1 = n
      BY <1>1
    <3>2. Pushing(list, tasks)[n] \in S
      BY <2>2
    <3>3. Pushing(list, tasks)[n + 1] = PushReady(Pushing(list, tasks)[n], tasks[(n + 1)])
      BY <1>8, <3>1
    <3>4. step[n + 1][Pushing(list, tasks)[n]] \in S
      BY <1>2, <3>1, <3>2
    <3> QED
      BY <1>3, <3>1, <3>2, <3>3, <3>4
  <2> HIDE DEF Typed
  <2>3. \A n \in 0 .. N : n \in Typed
    BY <1>1, <2>1, <2>2, Induct
  <2> QED
    BY <2>3 DEF Typed
<1> QED
  BY <1>8, <1>9 DEF N, S

LEMMA PushAllIs ==
    ASSUME NEW T, NEW list \in Seq(T), NEW tasks \in Seq(T)
    PROVE  PushAll(list, tasks) \in Seq(T)
<1>1. Len(tasks) \in 0 .. Len(tasks)
  OBVIOUS
<1> QED
  BY <1>1, PushingIs DEF PushAll

LEMMA MembersOf ==
    ASSUME NEW T, NEW list \in Seq(T)
    PROVE  list \in Seq(ToSet(list)) /\ ToSet(list) \subseteq T
<1>1. \A i \in 1 .. Len(list) : list[i] \in ToSet(list) /\ list[i] \in T
  BY DEF ToSet
<1>2. ToSet(list) \subseteq T
  BY <1>1 DEF ToSet
<1>3. Len(list) \in Nat /\ list = [i \in 1 .. Len(list) |-> list[i]]
  OBVIOUS
<1> QED
  BY <1>1, <1>2, <1>3

\* The tasks of a plan.
LEMMA TasksAre ==
    ASSUME NEW p \in Plans
    PROVE  /\ p.tasks \in Seq(TasksOf(p)) /\ TasksOf(p) \subseteq TaskIds
           /\ \A t \in TasksOf(p) : /\ IsFiniteSet(p.after[t])
                                    /\ p.needs[t] \in Seq(RequirementType)
<1>1. /\ p.tasks \in Seq(TaskIds)
      /\ \A t \in TasksOf(p) : IsFiniteSet(p.after[t]) /\ p.needs[t] \in Seq(RequirementType)
  BY PlansAssumption DEF TasksOf, RequirementType
<1> QED
  BY <1>1, MembersOf DEF TasksOf

LEMMA DependentsAre ==
    ASSUME NEW p \in Plans, NEW t
    PROVE  Dependents(p, t) \in Seq(TasksOf(p))
BY TasksAre, OnlyIs DEF Dependents

-----------------------------------------------------------------------------
(* The queue of ready tasks *)

QueueType(p) == [remaining : [TasksOf(p) -> Nat], ready : Seq(TasksOf(p))]

LEMMA SeededIs ==
    ASSUME NEW p \in Plans
    PROVE  Seeded(p) \in QueueType(p)
<1>1. \A t \in TasksOf(p) : Cardinality(p.after[t]) \in Nat
  BY TasksAre, FS_CardinalityType
<1>2. Only(p.tasks, {t \in TasksOf(p) : p.after[t] = {}}) \in Seq(TasksOf(p))
  BY TasksAre, OnlyIs
<1> QED
  BY <1>1, <1>2 DEF Seeded, QueueType

LEMMA CountedIs ==
    ASSUME NEW p \in Plans, NEW queue \in QueueType(p), NEW d \in TasksOf(p)
    PROVE  Counted(queue, d) \in QueueType(p)
<1>1. queue.remaining \in [TasksOf(p) -> Nat] /\ queue.ready \in Seq(TasksOf(p))
  BY DEF QueueType
<1>2. Floor0(queue.remaining[d] - 1) \in Nat
  BY <1>1 DEF Floor0
<1>3. PushReady(queue.ready, d) \in Seq(TasksOf(p))
  BY <1>1, PushReadyIs
<1>4. [queue.remaining EXCEPT ![d] = Floor0(queue.remaining[d] - 1)] \in [TasksOf(p) -> Nat]
  BY <1>1, <1>2
<1> QED
  BY <1>1, <1>3, <1>4 DEF Counted, QueueType

\* Dependents are counted one after the other.
LEMMA ResolvingIs ==
    ASSUME NEW p \in Plans, NEW queue \in QueueType(p), NEW t
    PROVE  /\ Resolving(p, queue, t)[0] = queue
           /\ \A n \in 1 .. Len(Dependents(p, t)) : Resolving(p, queue, t)[n] = Counted(Resolving(p, queue, t)[n - 1], Dependents(p, t)[n])
           /\ \A n \in 0 .. Len(Dependents(p, t)) : Resolving(p, queue, t)[n] \in QueueType(p)
<1> DEFINE N == Len(Dependents(p, t))
           S == QueueType(p)
           Defines(g) == g = [n \in 0 .. N |-> IF n = 0 THEN queue ELSE Counted(g[n - 1], Dependents(p, t)[n])]
           step == [n \in 1 .. N |-> [x \in S |-> Counted(x, Dependents(p, t)[n])]]
<1>1. N \in Nat /\ queue \in S
  BY DependentsAre
<1>2. step \in [1 .. N -> [S -> S]]
  <2> SUFFICES ASSUME NEW n \in 1 .. N, NEW x \in S
               PROVE  Counted(x, Dependents(p, t)[n]) \in S
    OBVIOUS
  <2>1. Dependents(p, t)[n] \in TasksOf(p)
    BY DependentsAre
  <2> QED
    BY <2>1, CountedIs
<1>3. \A n \in 1 .. N, x \in S : step[n][x] = Counted(x, Dependents(p, t)[n])
  OBVIOUS
<1> HIDE DEF step, N, S
<1>4. PICK g \in [0 .. N -> S] : Computes(g, N, queue, step)
  BY <1>1, <1>2, Recursion
<1>5. Defines(g)
  <2>1. ASSUME NEW n \in 0 .. N
        PROVE  g[n] = IF n = 0 THEN queue ELSE Counted(g[n - 1], Dependents(p, t)[n])
    <3>1. CASE n = 0
      BY <1>4, <3>1 DEF Computes
    <3>2. CASE n # 0
      <4>1. n \in 1 .. N /\ n - 1 \in 0 .. N
        BY <1>1, <3>2
      <4>2. g[n - 1] \in S /\ g[n] = step[n][g[n - 1]]
        BY <1>4, <4>1 DEF Computes
      <4>3. g[n] = Counted(g[n - 1], Dependents(p, t)[n])
        BY <1>3, <4>1, <4>2
      <4> QED
        BY <3>2, <4>3
    <3> QED
      BY <3>1, <3>2
  <2> QED
    BY <2>1
<1>6. Resolving(p, queue, t) = CHOOSE h : Defines(h)
  BY DEF Resolving, N
<1>7. Defines(Resolving(p, queue, t))
  <2> HIDE DEF Defines
  <2> QED
    BY <1>5, <1>6
<1>8. ASSUME NEW q, q = Resolving(p, queue, t)
      PROVE  /\ q[0] = queue
             /\ \A n \in 1 .. N : q[n] = Counted(q[n - 1], Dependents(p, t)[n])
  <2>1. q = [n \in 0 .. N |-> IF n = 0 THEN queue ELSE Counted(q[n - 1], Dependents(p, t)[n])]
    BY <1>7, <1>8
  <2>2. q[0] = queue
    BY <1>1, <2>1
  <2>3. ASSUME NEW n \in 1 .. N
        PROVE  q[n] = Counted(q[n - 1], Dependents(p, t)[n])
    <3>1. n \in 0 .. N /\ n # 0
      BY <1>1
    <3> QED
      BY <2>1, <3>1
  <2> QED
    BY <2>2, <2>3
<1>9. \A n \in 0 .. N : Resolving(p, queue, t)[n] \in S
  <2> DEFINE Typed == {n \in 0 .. N : Resolving(p, queue, t)[n] \in S}
  <2>1. 0 \in Typed
    BY <1>1, <1>8
  <2>2. ASSUME NEW n \in 0 .. N - 1, n \in Typed
        PROVE  n + 1 \in Typed
    <3>1. n + 1 \in 1 .. N /\ n + 1 \in 0 .. N /\ (n + 1) - 1 = n
      BY <1>1
    <3>2. Resolving(p, queue, t)[n] \in S
      BY <2>2
    <3>3. Resolving(p, queue, t)[n + 1] = Counted(Resolving(p, queue, t)[n], Dependents(p, t)[(n + 1)])
      BY <1>8, <3>1
    <3>4. step[n + 1][Resolving(p, queue, t)[n]] \in S
      BY <1>2, <3>1, <3>2
    <3> QED
      BY <1>3, <3>1, <3>2, <3>3, <3>4
  <2> HIDE DEF Typed
  <2>3. \A n \in 0 .. N : n \in Typed
    BY <1>1, <2>1, <2>2, Induct
  <2> QED
    BY <2>3 DEF Typed
<1> QED
  BY <1>8, <1>9 DEF N, S

LEMMA ResolvedIs ==
    ASSUME NEW p \in Plans, NEW queue \in QueueType(p), NEW t
    PROVE  Resolved(p, queue, t) \in QueueType(p)
<1>1. Len(Dependents(p, t)) \in 0 .. Len(Dependents(p, t))
  BY DependentsAre
<1> QED
  BY <1>1, ResolvingIs DEF Resolved

LEMMA ReadIs ==
    ASSUME NEW p \in Plans, NEW queue \in QueueType(p), NEW t
    PROVE  [Resolved(p, queue, t) EXCEPT !.ready = Only(@, TasksOf(p) \ {t})] \in QueueType(p)
<1> DEFINE q == Resolved(p, queue, t)
<1>1. q \in QueueType(p)
  BY ResolvedIs
<1> HIDE DEF q
<1>2. q.ready \in Seq(TasksOf(p))
  BY <1>1 DEF QueueType
<1>3. Only(q.ready, TasksOf(p) \ {t}) \in Seq(TasksOf(p))
  BY <1>2, OnlyIs
<1>4. [q EXCEPT !.ready = Only(q.ready, TasksOf(p) \ {t})] \in QueueType(p)
  BY <1>1, <1>3 DEF QueueType
<1> QED
  BY <1>4 DEF q

\* The records of a snapshot are read in the order of the plan.
LEMMA ReadingIs ==
    ASSUME NEW p \in Plans, NEW tasks
    PROVE  /\ Reading(p, tasks)[0] = Seeded(p)
           /\ \A n \in 1 .. Len(p.tasks) : Reading(p, tasks)[n] = (IF tasks[p.tasks[n]].state \in Terminal \ {"cancelled"} THEN [Resolved(p, Reading(p, tasks)[n - 1], p.tasks[n]) EXCEPT !.ready = Only(@, TasksOf(p) \ {p.tasks[n]})] ELSE Reading(p, tasks)[n - 1])
           /\ \A n \in 0 .. Len(p.tasks) : Reading(p, tasks)[n] \in QueueType(p)
<1> DEFINE N == Len(p.tasks)
           S == QueueType(p)
           Defines(g) == g = [n \in 0 .. N |-> IF n = 0 THEN Seeded(p) ELSE (IF tasks[p.tasks[n]].state \in Terminal \ {"cancelled"} THEN [Resolved(p, g[n - 1], p.tasks[n]) EXCEPT !.ready = Only(@, TasksOf(p) \ {p.tasks[n]})] ELSE g[n - 1])]
           step == [n \in 1 .. N |-> [x \in S |-> (IF tasks[p.tasks[n]].state \in Terminal \ {"cancelled"} THEN [Resolved(p, x, p.tasks[n]) EXCEPT !.ready = Only(@, TasksOf(p) \ {p.tasks[n]})] ELSE x)]]
<1>1. N \in Nat /\ Seeded(p) \in S
  BY TasksAre, SeededIs
<1>2. step \in [1 .. N -> [S -> S]]
  <2> SUFFICES ASSUME NEW n \in 1 .. N, NEW x \in S
               PROVE  (IF tasks[p.tasks[n]].state \in Terminal \ {"cancelled"} THEN [Resolved(p, x, p.tasks[n]) EXCEPT !.ready = Only(@, TasksOf(p) \ {p.tasks[n]})] ELSE x) \in S
    OBVIOUS
  <2> QED
    BY ReadIs
<1>3. \A n \in 1 .. N, x \in S : step[n][x] = (IF tasks[p.tasks[n]].state \in Terminal \ {"cancelled"} THEN [Resolved(p, x, p.tasks[n]) EXCEPT !.ready = Only(@, TasksOf(p) \ {p.tasks[n]})] ELSE x)
  OBVIOUS
<1> HIDE DEF step, N, S
<1>4. PICK g \in [0 .. N -> S] : Computes(g, N, Seeded(p), step)
  BY <1>1, <1>2, Recursion
<1>5. Defines(g)
  <2>1. ASSUME NEW n \in 0 .. N
        PROVE  g[n] = IF n = 0 THEN Seeded(p) ELSE (IF tasks[p.tasks[n]].state \in Terminal \ {"cancelled"} THEN [Resolved(p, g[n - 1], p.tasks[n]) EXCEPT !.ready = Only(@, TasksOf(p) \ {p.tasks[n]})] ELSE g[n - 1])
    <3>1. CASE n = 0
      BY <1>4, <3>1 DEF Computes
    <3>2. CASE n # 0
      <4>1. n \in 1 .. N /\ n - 1 \in 0 .. N
        BY <1>1, <3>2
      <4>2. g[n - 1] \in S /\ g[n] = step[n][g[n - 1]]
        BY <1>4, <4>1 DEF Computes
      <4>3. g[n] = (IF tasks[p.tasks[n]].state \in Terminal \ {"cancelled"} THEN [Resolved(p, g[n - 1], p.tasks[n]) EXCEPT !.ready = Only(@, TasksOf(p) \ {p.tasks[n]})] ELSE g[n - 1])
        BY <1>3, <4>1, <4>2
      <4> QED
        BY <3>2, <4>3
    <3> QED
      BY <3>1, <3>2
  <2> QED
    BY <2>1
<1>6. Reading(p, tasks) = CHOOSE h : Defines(h)
  BY DEF Reading, N
<1>7. Defines(Reading(p, tasks))
  <2> HIDE DEF Defines
  <2> QED
    BY <1>5, <1>6
<1>8. ASSUME NEW q, q = Reading(p, tasks)
      PROVE  /\ q[0] = Seeded(p)
             /\ \A n \in 1 .. N : q[n] = (IF tasks[p.tasks[n]].state \in Terminal \ {"cancelled"} THEN [Resolved(p, q[n - 1], p.tasks[n]) EXCEPT !.ready = Only(@, TasksOf(p) \ {p.tasks[n]})] ELSE q[n - 1])
  <2>1. q = [n \in 0 .. N |-> IF n = 0 THEN Seeded(p) ELSE (IF tasks[p.tasks[n]].state \in Terminal \ {"cancelled"} THEN [Resolved(p, q[n - 1], p.tasks[n]) EXCEPT !.ready = Only(@, TasksOf(p) \ {p.tasks[n]})] ELSE q[n - 1])]
    BY <1>7, <1>8
  <2>2. q[0] = Seeded(p)
    BY <1>1, <2>1
  <2>3. ASSUME NEW n \in 1 .. N
        PROVE  q[n] = (IF tasks[p.tasks[n]].state \in Terminal \ {"cancelled"} THEN [Resolved(p, q[n - 1], p.tasks[n]) EXCEPT !.ready = Only(@, TasksOf(p) \ {p.tasks[n]})] ELSE q[n - 1])
    <3>1. n \in 0 .. N /\ n # 0
      BY <1>1
    <3> QED
      BY <2>1, <3>1
  <2> QED
    BY <2>2, <2>3
<1>9. \A n \in 0 .. N : Reading(p, tasks)[n] \in S
  <2> DEFINE Typed == {n \in 0 .. N : Reading(p, tasks)[n] \in S}
  <2>1. 0 \in Typed
    BY <1>1, <1>8
  <2>2. ASSUME NEW n \in 0 .. N - 1, n \in Typed
        PROVE  n + 1 \in Typed
    <3>1. n + 1 \in 1 .. N /\ n + 1 \in 0 .. N /\ (n + 1) - 1 = n
      BY <1>1
    <3>2. Reading(p, tasks)[n] \in S
      BY <2>2
    <3>3. Reading(p, tasks)[n + 1] = (IF tasks[p.tasks[(n + 1)]].state \in Terminal \ {"cancelled"} THEN [Resolved(p, Reading(p, tasks)[n], p.tasks[(n + 1)]) EXCEPT !.ready = Only(@, TasksOf(p) \ {p.tasks[(n + 1)]})] ELSE Reading(p, tasks)[n])
      BY <1>8, <3>1
    <3>4. step[n + 1][Reading(p, tasks)[n]] \in S
      BY <1>2, <3>1, <3>2
    <3> QED
      BY <1>3, <3>1, <3>2, <3>3, <3>4
  <2> HIDE DEF Typed
  <2>3. \A n \in 0 .. N : n \in Typed
    BY <1>1, <2>1, <2>2, Induct
  <2> QED
    BY <2>3 DEF Typed
<1> QED
  BY <1>8, <1>9 DEF N, S

LEMMA ReadiedIs ==
    ASSUME NEW p \in Plans, NEW tasks
    PROVE  Readied(p, tasks) \in QueueType(p)
<1>1. Len(p.tasks) \in 0 .. Len(p.tasks)
  BY TasksAre
<1> QED
  BY <1>1, ReadingIs DEF Readied

-----------------------------------------------------------------------------
(* The executor: its inductive invariant *)

TaskType == [state : ExecutionState, attempt : Nat, held : Seq(Nat)]

Phases == {"idle", "running", "paused", "rollingBack", "completed", "failed", "cancelled"}

\* A rollback under way knows the phase it returns to.
RollInv ==
    pc = "rolling" =>
        /\ undo = [at |-> undo.at, back |-> undo.back, auto |-> undo.auto]
        /\ undo.back \in Phases

\* What a task has reserved is in the ledger, and is held open for what is in flight only.
HeldInv ==
    /\ \A t \in Tasks : ToSet(task[t].held) \subseteq DOMAIN reservations
    /\ ~threw =>
        \A t \in Tasks : \A i \in ToSet(task[t].held) \ stuck :
            reservations[i].status = "active" => t \in ToSet(inFlight)

ExecutorInv == LedgerInv /\ ExecutorTypeOK /\ RollInv /\ HeldInv

LEMMA HeldSafe == ExecutorInv => HeldInFlight
BY DEF ExecutorInv, HeldInv, HeldInFlight

LEMMA StatesAre ==
    /\ {"completed", "failed", "timedOut", "ready", "retrying", "skipped", "cancelled", "rolledBack",
        "running", "waiting"} \subseteq ExecutionState
    /\ Phases = {"idle", "running", "paused", "rollingBack", "completed", "failed", "cancelled"}
BY DEF ExecutionState, Phases

\* A step that leaves what tasks hold alone.
LEMMA HeldSame ==
    ASSUME HeldInv, plan' = plan, reservations \in Seq(Reservation), reservations' \in Seq(Reservation),
           \A t \in Tasks : task'[t].held = task[t].held,
           Later(reservations, reservations'),
           stuck \subseteq stuck',
           ~threw' => ~threw,
           ~threw' => \A t \in Tasks :
                t \in ToSet(inFlight') \/ t \notin ToSet(inFlight)
                \/ \A i \in ToSet(task[t].held) \ stuck' : reservations'[i].status # "active"
    PROVE  HeldInv'
<1>1. Tasks' = Tasks
  BY DEF Tasks
<1>2. DOMAIN reservations \subseteq DOMAIN reservations'
  BY DEF Later
<1>3. \A t \in Tasks : ToSet(task'[t].held) \subseteq DOMAIN reservations'
  BY <1>2 DEF HeldInv
<1>4. ASSUME ~threw', NEW t \in Tasks, NEW i \in ToSet(task'[t].held) \ stuck',
             reservations'[i].status = "active"
      PROVE  t \in ToSet(inFlight')
  <2>1. i \in ToSet(task[t].held) \ stuck /\ i \in DOMAIN reservations
    BY DEF HeldInv
  <2>2. reservations[i].status = "active"
    BY <1>4, <2>1 DEF Later
  <2>3. t \in ToSet(inFlight)
    BY <1>4, <2>1, <2>2 DEF HeldInv
  <2> QED
    BY <1>4, <2>3
<1> QED
  BY <1>1, <1>3, <1>4 DEF HeldInv

\* The same, with the resources untouched.
LEMMA HeldIdle ==
    ASSUME ExecutorInv, plan' = plan, reservations' = reservations, stuck' = stuck,
           \A t \in Tasks : task'[t].held = task[t].held,
           threw' \/ (threw' = threw /\ inFlight' = inFlight)
    PROVE  HeldInv'
<1>1. reservations \in Seq(Reservation)
  BY DEF ExecutorInv, LedgerInv, ResourceTypeOK
<1>2. Later(reservations, reservations')
  BY LedgerSound, LaterSame DEF ExecutorInv
<1>3. ~threw' => \A t \in Tasks : t \in ToSet(inFlight') \/ t \notin ToSet(inFlight)
  OBVIOUS
<1> QED
  BY <1>1, <1>2, <1>3, HeldSame DEF ExecutorInv

LEMMA LedgerIdle ==
    ASSUME LedgerInv, UNCHANGED resourceVars
    PROVE  LedgerInv'
BY DEF LedgerInv, ResourceTypeOK, FiguresInv, resourceVars

\* A move changes the state of a task only.
LEMMA MovedIs ==
    ASSUME task \in [Tasks -> TaskType], NEW t, NEW s \in ExecutionState
    PROVE  /\ Moved(t, s) \in [Tasks -> TaskType]
           /\ \A d \in Tasks : Moved(t, s)[d].held = task[d].held
<1>1. ASSUME NEW d \in Tasks
      PROVE  Moved(t, s)[d] \in TaskType /\ Moved(t, s)[d].held = task[d].held
  <2>1. task[d] \in TaskType
    OBVIOUS
  <2>2. [task[d] EXCEPT !.state = s] \in TaskType /\ [task[d] EXCEPT !.state = s].held = task[d].held
    BY <2>1 DEF TaskType
  <2>3. Moved(t, s)[d] = task[d] \/ Moved(t, s)[d] = [task[d] EXCEPT !.state = s]
    BY DEF Moved
  <2> QED
    BY <2>1, <2>2, <2>3
<1>2. Moved(t, s) = [d \in Tasks |-> Moved(t, s)[d]]
  BY DEF Moved
<1> QED
  BY <1>1, <1>2

\* Several tasks that move to a state.
Put(tasks, K, s) == [d \in Tasks |-> IF d \in K THEN [tasks[d] EXCEPT !.state = s] ELSE tasks[d]]

LEMMA PutIs ==
    ASSUME NEW tasks \in [Tasks -> TaskType], NEW K, NEW s \in ExecutionState
    PROVE  /\ Put(tasks, K, s) \in [Tasks -> TaskType]
           /\ \A d \in Tasks : Put(tasks, K, s)[d].held = tasks[d].held
<1>1. ASSUME NEW d \in Tasks
      PROVE  Put(tasks, K, s)[d] \in TaskType /\ Put(tasks, K, s)[d].held = tasks[d].held
  <2>1. tasks[d] \in TaskType
    OBVIOUS
  <2>2. [tasks[d] EXCEPT !.state = s] \in TaskType /\ [tasks[d] EXCEPT !.state = s].held = tasks[d].held
    BY <2>1 DEF TaskType
  <2>3. Put(tasks, K, s)[d] = tasks[d] \/ Put(tasks, K, s)[d] = [tasks[d] EXCEPT !.state = s]
    BY DEF Put
  <2> QED
    BY <2>1, <2>2, <2>3
<1>2. Put(tasks, K, s) = [d \in Tasks |-> Put(tasks, K, s)[d]]
  BY DEF Put
<1> QED
  BY <1>1, <1>2

LEMMA TypesAre ==
    ASSUME ExecutorTypeOK
    PROVE  /\ task \in [Tasks -> TaskType] /\ plan \in Plans /\ Tasks = TasksOf(plan)
           /\ Queue \in QueueType(plan)
           /\ inFlight \in Seq(Tasks) /\ retries \in Seq(Tasks)
           /\ batch \in Seq(Tasks) /\ ready \in Seq(Tasks)
BY DEF ExecutorTypeOK, TaskType, Tasks, Queue, QueueType

-----------------------------------------------------------------------------
(* Its initial states *)

LEMMA InitialIs ==
    ASSUME NEW p \in Plans
    PROVE  /\ InitialResource(p.capacity) \in Resource
           /\ InitialResource(p.capacity).allocated = 0 /\ InitialResource(p.capacity).reserved = 0
           /\ InitialResource(p.capacity).capacity \in Nat
<1>1. p.capacity \in Nat
  BY PlansAssumption
<1> QED
  BY <1>1 DEF InitialResource, Resource, ResourceState

\* A manager that has nothing but resources of one capacity.
Fresh ==
    /\ plan \in Plans
    /\ resources = [r \in ResourceIds |-> InitialResource(plan.capacity)]
    /\ pools = [q \in PoolIds |-> None]
    /\ reservations = <<>> /\ allocations = <<>> /\ saved = None /\ clock \in Nat /\ calls \in Nat
    /\ uncounted = {} /\ shrunk = {}

LEMMA FreshLedger == Fresh => LedgerInv
<1> SUFFICES ASSUME Fresh
             PROVE  LedgerInv
  OBVIOUS
<1> USE DEF Fresh
<1>1. resources \in [ResourceIds -> Resource \cup {None}]
  BY InitialIs
<1>2. ResourceTypeOK
  BY <1>1 DEF ResourceTypeOK
<1>3. ASSUME NEW r \in ResourceIds
      PROVE  /\ Exact(resources, reservations, r) /\ ExactUse(resources, allocations, r)
             /\ Within(resources, r)
  <2>1. /\ resources[r].reserved = 0 /\ resources[r].allocated = 0 /\ resources[r].capacity \in Nat
    BY InitialIs
  <2> QED
    BY <2>1, NoRecords DEF Exact, ExactUse, Within
<1>4. FiguresInv
  BY <1>3 DEF FiguresInv
<1> QED
  BY <1>2, <1>4 DEF LedgerInv

LEMMA FreshLedgerNext == Fresh' => LedgerInv'
BY FreshLedger, PTL

LEMMA SilentIs == Silent \in [Tasks -> {"completed", "failed", "timedOut", None}]
BY DEF Silent

LEMMA InitInv == ExecutorInit => ExecutorInv
<1> SUFFICES ASSUME ExecutorInit
             PROVE  ExecutorInv
  OBVIOUS
<1> USE DEF ExecutorInit
<1>1. plan \in Plans /\ Tasks = TasksOf(plan)
  BY DEF Tasks
<1>2. LedgerInv
  <2>1. plan.calls \in Nat
    BY <1>1, PlansAssumption
  <2>2. Fresh
    BY <1>1, <2>1 DEF Fresh
  <2> QED
    BY <2>2, FreshLedger
<1>3. task \in [Tasks -> TaskType] /\ \A t \in Tasks : task[t].held = <<>>
  <2>1. {"ready", "waiting"} \subseteq ExecutionState
    BY DEF ExecutionState
  <2> QED
    BY <2>1 DEF TaskType
<1>4. remaining \in [Tasks -> Nat] /\ ready \in Seq(Tasks)
  <2>1. Seeded(plan) \in QueueType(plan)
    BY <1>1, SeededIs
  <2> QED
    BY <1>1, <2>1 DEF QueueType
<1>5. ExecutorTypeOK
  <2>1. /\ batch \in Seq(Tasks) /\ inFlight \in Seq(Tasks) /\ retries \in Seq(Tasks)
        /\ pc \in {"none", "idle"} /\ winner \in Tasks \cup {None}
        /\ unresolved \subseteq Tasks /\ live \subseteq Tasks /\ phase = "idle"
        /\ cancelled \in BOOLEAN /\ paused \in BOOLEAN
    <3>1. batch = <<>> /\ inFlight = <<>> /\ retries = <<>> /\ unresolved = {} /\ live = {}
          /\ winner = None /\ phase = "idle" /\ cancelled = FALSE /\ paused = FALSE
      OBVIOUS
    <3>2. pc \in {"none", "idle"}
      OBVIOUS
    <3> HIDE DEF ExecutorInit
    <3>3. batch \in Seq(Tasks) /\ inFlight \in Seq(Tasks) /\ retries \in Seq(Tasks)
      BY <3>1
    <3>4. unresolved \subseteq Tasks /\ live \subseteq Tasks /\ winner \in Tasks \cup {None}
      BY <3>1
    <3>5. cancelled \in BOOLEAN /\ paused \in BOOLEAN
      BY <3>1
    <3> QED
      BY <3>1, <3>2, <3>3, <3>4, <3>5
  <2>2. outcome \in [Tasks -> {"completed", "failed", "timedOut", None}]
    BY SilentIs
  <2>3. task \in [Tasks -> [state : ExecutionState, attempt : Nat, held : Seq(Nat)]]
    BY <1>3 DEF TaskType
  <2>4. plan \in Plans
    BY <1>1
  <2>5. pc \in {"none", "idle", "top", "dispatch", "racing", "asleep", "settling", "rolling", "done", "threw"}
        /\ phase \in {"idle", "running", "paused", "rollingBack", "completed", "failed", "cancelled"}
    BY <2>1
  <2> HIDE DEF ExecutorInit
  <2> QED
    BY <1>4, <2>1, <2>2, <2>3, <2>4, <2>5 DEF ExecutorTypeOK
<1>6. HeldInv
  <2>1. \A t \in Tasks : ToSet(task[t].held) = {}
    BY <1>3 DEF ToSet
  <2> QED
    BY <2>1 DEF HeldInv
<1>7. RollInv
  BY DEF RollInv
<1> QED
  BY <1>2, <1>5, <1>6, <1>7 DEF ExecutorInv

-----------------------------------------------------------------------------
(* Its steps *)

Pcs == {"none", "idle", "top", "dispatch", "racing", "asleep", "settling", "rolling", "done", "threw"}
Outcomes == {"completed", "failed", "timedOut", None}

\* The types after a step, the tasks being those of the same plan.
LEMMA TypesLater ==
    ASSUME plan \in Plans, plan' = plan,
           task' \in [Tasks -> TaskType], remaining' \in [Tasks -> Nat],
           ready' \in Seq(Tasks), batch' \in Seq(Tasks), inFlight' \in Seq(Tasks),
           retries' \in Seq(Tasks), pc' \in Pcs, outcome' \in [Tasks -> Outcomes],
           winner' \in Tasks \cup {None}, unresolved' \subseteq Tasks, live' \subseteq Tasks,
           phase' \in Phases, cancelled' \in BOOLEAN, paused' \in BOOLEAN
    PROVE  ExecutorTypeOK'
<1>1. Tasks' = Tasks
  BY DEF Tasks
<1> QED
  BY <1>1 DEF ExecutorTypeOK, TaskType, Pcs, Outcomes, Phases

\* The types now, by their short names.
LEMMA TypesNow ==
    ASSUME ExecutorInv
    PROVE  /\ plan \in Plans /\ task \in [Tasks -> TaskType] /\ remaining \in [Tasks -> Nat]
           /\ ready \in Seq(Tasks) /\ batch \in Seq(Tasks) /\ inFlight \in Seq(Tasks)
           /\ retries \in Seq(Tasks) /\ pc \in Pcs /\ outcome \in [Tasks -> Outcomes]
           /\ winner \in Tasks \cup {None} /\ unresolved \subseteq Tasks /\ live \subseteq Tasks
           /\ phase \in Phases /\ cancelled \in BOOLEAN /\ paused \in BOOLEAN
BY DEF ExecutorInv, ExecutorTypeOK, TaskType, Pcs, Outcomes, Phases

\* A step that leaves the resources and what tasks hold alone.
LEMMA IdleKept ==
    ASSUME ExecutorInv, plan' = plan, UNCHANGED resourceVars, stuck' = stuck,
           \A t \in Tasks : task'[t].held = task[t].held,
           threw' \/ (threw' = threw /\ inFlight' = inFlight),
           ExecutorTypeOK', RollInv'
    PROVE  ExecutorInv'
<1>1. LedgerInv'
  BY LedgerIdle DEF ExecutorInv
<1>2. reservations' = reservations
  BY DEF resourceVars
<1>3. HeldInv'
  BY <1>2, HeldIdle
<1> QED
  BY <1>1, <1>3 DEF ExecutorInv

\* A step of the loop or of a caller that touches no task either.
LEMMA PlainKept ==
    ASSUME ExecutorInv,
           UNCHANGED <<plan, task, remaining, ready, batch, inFlight, outcome, retries, live, undo,
                       threw, stuck, resourceVars>>,
           pc' \in Pcs, pc' = "rolling" => pc = "rolling", winner' \in Tasks \cup {None},
           unresolved' \subseteq Tasks, phase' \in Phases,
           cancelled' \in BOOLEAN, paused' \in BOOLEAN
    PROVE  ExecutorInv'
<1>1. ExecutorTypeOK'
  BY TypesNow, TypesLater
<1>2. RollInv'
  BY DEF ExecutorInv, RollInv
<1> QED
  BY <1>1, <1>2, IdleKept

LEMMA RunKept == ASSUME ExecutorInv, Run PROVE ExecutorInv'
<1>1. pc' = "top" /\ phase' = "running" /\ unresolved' = {}
  BY DEF Run
<1>2. UNCHANGED <<plan, task, remaining, ready, batch, inFlight, outcome, retries, live, undo,
                  threw, stuck, resourceVars, winner, cancelled, paused>>
  BY DEF Run
<1> QED
  BY <1>1, <1>2, TypesNow, PlainKept DEF Pcs, Phases

LEMMA PassKept == ASSUME ExecutorInv, Leave \/ Sleep \/ Wake PROVE ExecutorInv'
<1>1. pc' \in {"settling", "asleep", "top"}
  BY DEF Leave, Sleep, Wake
<1>2. UNCHANGED <<plan, task, remaining, ready, batch, inFlight, outcome, retries, live, undo,
                  threw, stuck, resourceVars, winner, cancelled, paused, phase, unresolved>>
  BY DEF Leave, Sleep, Wake, contextVars, pastVars
<1> QED
  BY <1>1, <1>2, TypesNow, PlainKept DEF Pcs

LEMMA WaitKept == ASSUME ExecutorInv, Wait PROVE ExecutorInv'
<1>1. pc' \in {"racing", "settling", "asleep"}
  BY DEF Wait
<1>2. UNCHANGED <<plan, task, remaining, ready, batch, inFlight, outcome, retries, live, undo,
                  threw, stuck, resourceVars, cancelled, paused, phase, unresolved>>
  BY DEF Wait, contextVars, pastVars
<1>3. winner' \in Tasks \cup {None}
  <2> DEFINE settled == Only(inFlight, {t \in Tasks : outcome[t] # None})
  <2>1. settled \in Seq(Tasks)
    BY TypesNow, OnlyIs
  <2>2. winner' = IF settled = <<>> THEN None ELSE Head(settled)
    BY DEF Wait
  <2> HIDE DEF settled
  <2> QED
    BY <2>1, <2>2
<1> QED
  BY <1>1, <1>2, <1>3, TypesNow, PlainKept DEF Pcs

LEMMA CallersKept == ASSUME ExecutorInv, Pause \/ Resume \/ Cancel PROVE ExecutorInv'
<1>1. UNCHANGED <<plan, task, remaining, ready, batch, inFlight, outcome, retries, live, undo,
                  threw, stuck, resourceVars, pc, winner, unresolved>>
  BY DEF Pause, Resume, Cancel, loopVars, pastVars
<1>2. phase' \in Phases /\ cancelled' \in BOOLEAN /\ paused' \in BOOLEAN
  BY TypesNow DEF Pause, Resume, Cancel, Phases
<1> QED
  BY <1>1, <1>2, TypesNow, PlainKept

\* A run that rejects forgets what is in flight.
LEMMA ThrowIs ==
    ASSUME ExecutorInv, Throw
    PROVE  /\ pc' = "threw" /\ threw' /\ batch' \in Seq(Tasks) /\ inFlight' \in Seq(Tasks)
           /\ retries' \in Seq(Tasks) /\ outcome' \in [Tasks -> Outcomes]
           /\ winner' \in Tasks \cup {None} /\ unresolved' \subseteq Tasks
<1>1. /\ pc' = "threw" /\ threw' = TRUE /\ batch' = <<>> /\ inFlight' = <<>> /\ retries' = <<>>
      /\ outcome' = Silent /\ winner' = None /\ unresolved' = {}
  BY DEF Throw
<1>2. <<>> \in Seq(Tasks) /\ {} \subseteq Tasks /\ None \in Tasks \cup {None}
  OBVIOUS
<1> QED
  BY <1>1, <1>2, SilentIs DEF Outcomes

LEMMA RejectedKept == ASSUME ExecutorInv, Refuse \/ UndoFails PROVE ExecutorInv'
<1>1. Throw /\ UNCHANGED <<contextVars, live, undo, runs, manual, restored, stuck, resourceVars>>
  BY DEF Refuse, UndoFails
<1>2. UNCHANGED <<plan, task, remaining, ready, phase, cancelled, paused, live, stuck, resourceVars>>
  BY <1>1 DEF contextVars
<1>3. ExecutorTypeOK'
  <2>1. pc' \in Pcs
    BY <1>1, ThrowIs DEF Pcs
  <2> QED
    BY <1>1, <1>2, <2>1, ThrowIs, TypesNow, TypesLater
<1>4. RollInv'
  BY <1>1, ThrowIs DEF RollInv
<1> QED
  BY <1>1, <1>2, <1>3, <1>4, ThrowIs, IdleKept

LEMMA DequeueKept == ASSUME ExecutorInv, NEW due \in SUBSET ToSet(retries), Dequeue(due) PROVE ExecutorInv'
<1> DEFINE slots == FreeSlots
           queue == PushAll(ready, Reverse(Only(retries, due)))
           taken == IF slots > Len(queue) THEN Len(queue) ELSE slots
<1>1. /\ task' = [t \in Tasks |-> IF t \in due THEN [task[t] EXCEPT !.state = "ready"] ELSE task[t]]
      /\ retries' = Only(retries, Tasks \ due)
      /\ batch' = SubSeq(queue, 1, taken)
      /\ ready' = SubSeq(queue, taken + 1, Len(queue))
      /\ pc' = "dispatch"
  BY DEF Dequeue
<1>2. UNCHANGED <<plan, remaining, phase, cancelled, paused, inFlight, outcome, winner, unresolved,
                  live, undo, threw, stuck, resourceVars>>
  BY DEF Dequeue, pastVars
<1>3. queue \in Seq(Tasks)
  <2>1. Only(retries, due) \in Seq(Tasks)
    BY TypesNow, OnlyIs
  <2>2. Reverse(Only(retries, due)) \in Seq(Tasks)
    <3> DEFINE s == Only(retries, due)
    <3> HIDE DEF s
    <3>1. s \in Seq(Tasks)
      BY <2>1 DEF s
    <3>2. \A i \in 1 .. Len(s) : (Len(s) - i) + 1 \in 1 .. Len(s)
      BY <3>1
    <3>3. Reverse(s) \in Seq(Tasks)
      BY <3>1, <3>2 DEF Reverse
    <3> QED
      BY <3>3 DEF s
  <2> QED
    BY <2>2, TypesNow, PushAllIs
<1>4. taken \in 0 .. Len(queue)
  <2>1. slots \in Nat
    <3>1. plan.slots \in Nat /\ Len(inFlight) \in Nat
      BY TypesNow, PlansAssumption
    <3> QED
      BY <3>1 DEF FreeSlots, Floor0
  <2>2. Len(queue) \in Nat
    BY <1>3
  <2> HIDE DEF slots, queue
  <2> QED
    BY <2>1, <2>2
<1> HIDE DEF queue, taken
<1>5. SubSeq(queue, 1, taken) \in Seq(Tasks) /\ SubSeq(queue, taken + 1, Len(queue)) \in Seq(Tasks)
  <2>1. Len(queue) \in Nat /\ \A i \in 1 .. Len(queue) : queue[i] \in Tasks
    BY <1>3
  <2>2. \A i \in 1 .. taken : queue[i] \in Tasks
    BY <1>4, <2>1
  <2>3. \A i \in taken + 1 .. Len(queue) : queue[i] \in Tasks
    BY <1>4, <2>1
  <2>4. taken + 1 \in Nat /\ 1 \in Nat /\ taken \in Nat
    BY <1>4, <2>1
  <2> QED
    BY <1>3, <1>4, <2>1, <2>2, <2>3, <2>4, SubSeqProperties
<1>6. task' \in [Tasks -> TaskType] /\ \A t \in Tasks : task'[t].held = task[t].held
  <2>1. task' = Put(task, due, "ready")
    BY <1>1 DEF Put
  <2>2. "ready" \in ExecutionState /\ task \in [Tasks -> TaskType]
    BY TypesNow DEF ExecutionState
  <2> QED
    BY <2>1, <2>2, PutIs
<1>7. retries' \in Seq(Tasks)
  BY <1>1, TypesNow, OnlyIs
<1>8. ExecutorTypeOK'
  BY <1>1, <1>2, <1>5, <1>6, <1>7, TypesNow, TypesLater DEF Pcs
<1>9. RollInv'
  BY <1>1 DEF RollInv
<1> QED
  BY <1>2, <1>6, <1>8, <1>9, IdleKept

\* The steps that end what a task does.
LEMMA SettleKept ==
    ASSUME ExecutorInv, NEW t \in Tasks, NEW result \in {"completed", "failed", "timedOut"},
           Settle(t, result)
    PROVE  ExecutorInv'
<1>1. UNCHANGED <<plan, remaining, ready, phase, cancelled, paused, pc, batch, inFlight, retries,
                  unresolved, undo, threw, stuck, resourceVars>>
  BY DEF Settle, pastVars
<1>2. task' \in [Tasks -> TaskType] /\ \A d \in Tasks : task'[d].held = task[d].held
  <2>1. result \in ExecutionState /\ task \in [Tasks -> TaskType]
    BY TypesNow DEF ExecutionState
  <2>2. task' = Moved(t, result) \/ task' = task
    BY DEF Settle
  <2> QED
    BY <2>1, <2>2, MovedIs
<1>3. outcome' \in [Tasks -> Outcomes]
  BY TypesNow DEF Settle, Outcomes
<1>4. winner' \in Tasks \cup {None} /\ live' \subseteq Tasks
  BY TypesNow DEF Settle
<1>5. ExecutorTypeOK'
  BY <1>1, <1>2, <1>3, <1>4, TypesNow, TypesLater
<1>6. RollInv'
  BY <1>1 DEF ExecutorInv, RollInv
<1> QED
  BY <1>1, <1>2, <1>5, <1>6, IdleKept

\* What the loop does with the resources of a task that has settled.
LEMMA ReturnIs ==
    ASSUME ExecutorInv, NEW t \in Tasks, Return(t)
    PROVE  /\ LedgerInv' /\ Later(reservations, reservations') /\ stuck \subseteq stuck'
           /\ reservations' \in Seq(Reservation)
           /\ \A i \in ToSet(task[t].held) \ stuck' : reservations'[i].status # "active"
<1> DEFINE books == GivenBack(t)
<1>1. /\ resources' = books.rs /\ reservations' = books.book
      /\ stuck' = stuck \cup Refused(t, books.book)
      /\ UNCHANGED <<pools, allocations, clock, saved, calls, historyVars>>
  BY DEF Return
<1>2. Ledger \in BooksType /\ Ledger.rs = resources /\ Ledger.book = reservations
  BY LedgerSound, LedgerIs DEF ExecutorInv
<1>3. task[t].held \in Seq(DOMAIN reservations)
  <2>1. task[t].held \in Seq(Nat)
    BY TypesNow DEF TaskType
  <2>2. ToSet(task[t].held) \subseteq DOMAIN reservations
    BY DEF ExecutorInv, HeldInv
  <2>3. \A k \in 1 .. Len(task[t].held) : task[t].held[k] \in DOMAIN reservations
    BY <2>1, <2>2 DEF ToSet
  <2> QED
    BY <2>1, <2>3
<1>4. /\ books \in SameLength(Ledger)
      /\ \A k \in DOMAIN task[t].held : books.book[task[t].held[k]].status = "active" =>
            ~Releasable(resources, reservations, task[t].held[k])
  <2>1. books = AllReleased(Ledger, task[t].held)
    BY DEF GivenBack, Ledger
  <2> HIDE DEF books
  <2> QED
    BY <1>2, <1>3, <2>1, AllReleasedIs
<1> HIDE DEF books
<1>5. books \in Reached(Ledger)
  BY <1>4 DEF SameLength
<1>6. UNCHANGED <<pools, allocations, clock, saved, uncounted, shrunk>> /\ calls' \in Nat
  BY <1>1 DEF historyVars, ExecutorInv, LedgerInv, ResourceTypeOK
<1>7. LedgerInv' /\ Later(reservations, reservations')
  BY <1>1, <1>5, <1>6, BooksKept DEF ExecutorInv
<1>8. ASSUME NEW i \in ToSet(task[t].held) \ stuck'
      PROVE  reservations'[i].status # "active"
  <2>1. PICK k \in DOMAIN task[t].held : i = task[t].held[k]
    BY <1>3 DEF ToSet
  <2>2. i \notin Refused(t, books.book)
    BY <1>1, <1>8
  <2> QED
    BY <1>1, <1>4, <1>8, <2>1, <2>2 DEF Refused
<1> QED
  BY <1>1, <1>7, <1>8 DEF LedgerInv, ResourceTypeOK

LEMMA DropIs ==
    ASSUME ExecutorInv, NEW t \in Tasks, Drop(t)
    PROVE  /\ inFlight' \in Seq(Tasks) /\ outcome' \in [Tasks -> Outcomes] /\ winner' = None
           /\ \A d \in Tasks \ {t} : d \in ToSet(inFlight) => d \in ToSet(inFlight')
<1>1. /\ inFlight' = Only(inFlight, Tasks \ {t}) /\ outcome' = [outcome EXCEPT ![t] = None]
      /\ winner' = None
  BY DEF Drop
<1>2. Only(inFlight, Tasks \ {t}) \in Seq(Tasks)
      /\ ToSet(Only(inFlight, Tasks \ {t})) = ToSet(inFlight) \cap (Tasks \ {t})
  BY TypesNow, OnlyIs
<1> QED
  BY <1>1, <1>2, TypesNow DEF Outcomes

\* What every way to handle a settled task leaves behind.
Handled(t) ==
    /\ task' \in [Tasks -> TaskType] /\ \A d \in Tasks : task'[d].held = task[d].held
    /\ remaining' \in [Tasks -> Nat] /\ ready' \in Seq(Tasks) /\ retries' \in Seq(Tasks)
    /\ batch' \in Seq(Tasks) /\ inFlight' \in Seq(Tasks) /\ outcome' \in [Tasks -> Outcomes]
    /\ winner' \in Tasks \cup {None} /\ unresolved' \subseteq Tasks /\ cancelled' \in BOOLEAN
    /\ pc' \in {"top", "threw"}
    /\ threw' \/ (threw' = threw /\ \A d \in Tasks \ {t} : d \in ToSet(inFlight) => d \in ToSet(inFlight'))

LEMMA SucceedIs == ASSUME ExecutorInv, NEW t \in Tasks, Succeed(t) PROVE Handled(t)
<1>1. /\ Drop(t) /\ pc' = "top"
      /\ remaining' = Resolved(plan, Queue, t).remaining /\ ready' = Resolved(plan, Queue, t).ready
      /\ UNCHANGED <<task, retries, unresolved, cancelled, batch, threw>>
  BY DEF Succeed
<1>2. Resolved(plan, Queue, t) \in QueueType(plan)
  BY TypesAre, ResolvedIs DEF ExecutorInv
<1>3. remaining' \in [Tasks -> Nat] /\ ready' \in Seq(Tasks)
  BY <1>1, <1>2 DEF QueueType, Tasks
<1> QED
  BY <1>1, <1>3, TypesNow, DropIs DEF Handled

LEMMA RetryIs == ASSUME ExecutorInv, NEW t \in Tasks, Retry(t) PROVE Handled(t)
<1>1. UNCHANGED <<remaining, ready, cancelled>>
  BY DEF Retry
<1>2. CASE Legal(t, "retrying")
  <2>1. /\ Drop(t) /\ pc' = "top" /\ task' = Moved(t, "retrying") /\ retries' = Append(retries, t)
        /\ UNCHANGED <<unresolved, batch, threw>>
    BY <1>2 DEF Retry
  <2>2. task' \in [Tasks -> TaskType] /\ \A d \in Tasks : task'[d].held = task[d].held
    <3>1. "retrying" \in ExecutionState /\ task \in [Tasks -> TaskType]
      BY TypesNow DEF ExecutionState
    <3> QED
      BY <2>1, <3>1, MovedIs
  <2>3. retries' \in Seq(Tasks)
    BY <2>1, TypesNow
  <2> QED
    BY <1>1, <2>1, <2>2, <2>3, TypesNow, DropIs DEF Handled
<1>3. CASE ~Legal(t, "retrying")
  <2>1. Throw /\ task' = task
    BY <1>3 DEF Retry
  <2> QED
    BY <1>1, <2>1, TypesNow, ThrowIs DEF Handled
<1> QED
  BY <1>2, <1>3

LEMMA SkipIs == ASSUME ExecutorInv, NEW t \in Tasks, Skip(t) PROVE Handled(t)
<1>1. /\ Drop(t) /\ pc' = "top" /\ task' = Moved(t, "skipped")
      /\ remaining' = Resolved(plan, Queue, t).remaining /\ ready' = Resolved(plan, Queue, t).ready
      /\ UNCHANGED <<retries, unresolved, cancelled, batch, threw>>
  BY DEF Skip
<1>2. Resolved(plan, Queue, t) \in QueueType(plan)
  BY TypesAre, ResolvedIs DEF ExecutorInv
<1>3. remaining' \in [Tasks -> Nat] /\ ready' \in Seq(Tasks)
  BY <1>1, <1>2 DEF QueueType, Tasks
<1>4. task' \in [Tasks -> TaskType] /\ \A d \in Tasks : task'[d].held = task[d].held
  <2>1. "skipped" \in ExecutionState /\ task \in [Tasks -> TaskType]
    BY TypesNow DEF ExecutionState
  <2> QED
    BY <1>1, <2>1, MovedIs
<1> QED
  BY <1>1, <1>3, <1>4, TypesNow, DropIs DEF Handled

LEMMA GiveUpIs == ASSUME ExecutorInv, NEW t \in Tasks, GiveUp(t) PROVE Handled(t)
<1>1. /\ Drop(t) /\ pc' = "top" /\ unresolved' = unresolved \cup {t}
      /\ task' = Put(task, SkippedWith(t), "skipped")
      /\ ready' = Only(ready, Tasks \ SkippedWith(t))
      /\ UNCHANGED <<remaining, retries, batch, threw>>
  BY DEF GiveUp, Put
<1>2. cancelled' \in BOOLEAN
  BY TypesNow DEF GiveUp
<1>3. ready' \in Seq(Tasks)
  BY <1>1, TypesNow, OnlyIs
<1>4. task' \in [Tasks -> TaskType] /\ \A d \in Tasks : task'[d].held = task[d].held
  <2>1. "skipped" \in ExecutionState /\ task \in [Tasks -> TaskType]
    BY TypesNow DEF ExecutionState
  <2> QED
    BY <1>1, <2>1, PutIs
<1> QED
  BY <1>1, <1>2, <1>3, <1>4, TypesNow, DropIs DEF Handled

\* The resources of the task the loop turns to are returned before it leaves inFlight.
LEMMA ContinueKept == ASSUME ExecutorInv, Continue PROVE ExecutorInv'
<1>1. winner \in Tasks
  BY TypesNow DEF Continue
<1> DEFINE t == winner
<1>2. Return(t) /\ UNCHANGED <<plan, phase, paused, live, undo, runs, manual, restored>>
  BY DEF Continue
<1>3. Succeed(t) \/ Retry(t) \/ Skip(t) \/ GiveUp(t)
  BY DEF Continue
<1>4. /\ LedgerInv' /\ Later(reservations, reservations') /\ stuck \subseteq stuck'
      /\ reservations' \in Seq(Reservation)
      /\ \A i \in ToSet(task[t].held) \ stuck' : reservations'[i].status # "active"
  BY <1>1, <1>2, ReturnIs
<1>5. Handled(t)
  BY <1>1, <1>3, SucceedIs, RetryIs, SkipIs, GiveUpIs
<1>6. ExecutorTypeOK'
  BY <1>2, <1>5, TypesNow, TypesLater DEF Handled, Pcs
<1>7. RollInv'
  BY <1>5 DEF Handled, RollInv
<1>8. HeldInv'
  <2>1. HeldInv /\ reservations \in Seq(Reservation)
    BY DEF ExecutorInv, LedgerInv, ResourceTypeOK
  <2>2. ~threw' => \A d \in Tasks :
            d \in ToSet(inFlight') \/ d \notin ToSet(inFlight)
            \/ \A i \in ToSet(task[d].held) \ stuck' : reservations'[i].status # "active"
    BY <1>4, <1>5 DEF Handled
  <2> QED
    BY <1>2, <1>4, <1>5, <2>1, <2>2, HeldSame DEF Handled
<1> QED
  BY <1>4, <1>6, <1>7, <1>8 DEF ExecutorInv

\* The end of a run, and rollback.
LEMMA MarkedIs ==
    ASSUME NEW tasks \in [Tasks -> TaskType]
    PROVE  /\ Marked(tasks) \in [Tasks -> TaskType]
           /\ \A d \in Tasks : Marked(tasks)[d].held = tasks[d].held
<1> DEFINE K == {d \in Tasks : tasks[d].state = "completed" /\ d \in ToSet(plan.checkpoints)}
<1>1. Put(tasks, K, "rolledBack") \in [Tasks -> TaskType]
      /\ \A d \in Tasks : Put(tasks, K, "rolledBack")[d].held = tasks[d].held
  <2>1. "rolledBack" \in ExecutionState
    BY DEF ExecutionState
  <2> QED
    BY <2>1, PutIs
<1>2. CASE plan.undoable
  BY <1>2 DEF Marked
<1>3. CASE ~plan.undoable
  <2>1. Marked(tasks) = Put(tasks, K, "rolledBack")
    BY <1>3 DEF Marked, Put
  <2> QED
    BY <1>1, <2>1
<1> QED
  BY <1>2, <1>3

LEMMA FinalIs == Final \in Phases
BY DEF Final, Phases

LEMMA FinishKept == ASSUME ExecutorInv, Finish PROVE ExecutorInv'
<1> DEFINE closed == [t \in Tasks |-> IF cancelled /\ task[t].state \notin Terminal
                                      THEN [task[t] EXCEPT !.state = "cancelled"] ELSE task[t]]
<1>1. /\ inFlight' = <<>> /\ outcome' = Silent /\ retries' = <<>>
      /\ stuck' = stuck \cup UNION {ToSet(task[t].held) : t \in ToSet(inFlight)}
  BY DEF Finish
<1>2. UNCHANGED <<plan, remaining, ready, cancelled, paused, batch, winner, unresolved, live,
                  threw, resourceVars>>
  BY DEF Finish
<1>3. closed \in [Tasks -> TaskType] /\ \A d \in Tasks : closed[d].held = task[d].held
  <2> DEFINE K == {t \in Tasks : cancelled /\ task[t].state \notin Terminal}
  <2>1. closed = Put(task, K, "cancelled")
    BY DEF Put
  <2>2. "cancelled" \in ExecutionState /\ task \in [Tasks -> TaskType]
    BY TypesNow DEF ExecutionState
  <2> HIDE DEF closed, K
  <2> QED
    BY <2>1, <2>2, PutIs
<1>4. task' = closed \/ task' = Marked(closed)
  BY DEF Finish
<1>5. task' \in [Tasks -> TaskType] /\ \A d \in Tasks : task'[d].held = task[d].held
  <2> HIDE DEF closed
  <2> QED
    BY <1>3, <1>4, MarkedIs
<1>6. \/ pc' = "rolling" /\ phase' = "rollingBack"
         /\ \E n : undo' = [at |-> n, back |-> Final, auto |-> TRUE]
      \/ pc' = "done" /\ phase' = Final
  BY DEF Finish
<1> HIDE DEF closed
<1>7. ExecutorTypeOK'
  <2>1. inFlight' \in Seq(Tasks) /\ retries' \in Seq(Tasks) /\ outcome' \in [Tasks -> Outcomes]
    BY <1>1, SilentIs DEF Outcomes
  <2>2. pc' \in Pcs /\ phase' \in Phases
    BY <1>6, FinalIs DEF Pcs, Phases
  <2> QED
    BY <1>2, <1>5, <2>1, <2>2, TypesNow, TypesLater
<1>8. RollInv'
  BY <1>6, FinalIs DEF RollInv
<1>9. LedgerInv' /\ reservations' = reservations
  BY <1>2, LedgerIdle DEF ExecutorInv, resourceVars
<1>10. HeldInv'
  <2>1. HeldInv /\ reservations \in Seq(Reservation) /\ Later(reservations, reservations')
    BY <1>9, LedgerSound, LaterSame DEF ExecutorInv, LedgerInv, ResourceTypeOK
  <2>2. \A d \in Tasks : d \in ToSet(inFlight) => ToSet(task[d].held) \ stuck' = {}
    BY <1>1
  <2>3. stuck \subseteq stuck'
    BY <1>1
  <2> QED
    BY <1>2, <1>5, <1>9, <2>1, <2>2, <2>3, HeldSame
<1> QED
  BY <1>7, <1>8, <1>9, <1>10 DEF ExecutorInv

LEMMA RollbackKept == ASSUME ExecutorInv, Rollback PROVE ExecutorInv'
<1>1. task' = Marked(task)
      /\ UNCHANGED <<plan, remaining, ready, cancelled, paused, batch, inFlight, outcome, winner,
                     retries, unresolved, live, threw, stuck, resourceVars>>
  BY DEF Rollback, pastVars
<1>2. \/ pc' = "rolling" /\ phase' = "rollingBack"
         /\ \E n : undo' = [at |-> n, back |-> phase, auto |-> FALSE]
      \/ pc' = "done" /\ phase' = phase
  BY DEF Rollback
<1>3. task' \in [Tasks -> TaskType] /\ \A d \in Tasks : task'[d].held = task[d].held
  BY <1>1, TypesNow, MarkedIs
<1>4. ExecutorTypeOK'
  <2>1. pc' \in Pcs /\ phase' \in Phases
    BY <1>2, TypesNow DEF Pcs, Phases
  <2> QED
    BY <1>1, <1>3, <2>1, TypesNow, TypesLater
<1>5. RollInv'
  BY <1>2, TypesNow DEF RollInv
<1> QED
  BY <1>1, <1>3, <1>4, <1>5, IdleKept

LEMMA UndoneKept == ASSUME ExecutorInv, Undone PROVE ExecutorInv'
<1>1. task' = Moved(plan.checkpoints[undo.at], "rolledBack") /\ pc = "rolling"
      /\ UNCHANGED <<plan, remaining, ready, cancelled, paused, batch, inFlight, outcome, winner,
                     retries, unresolved, live, threw, stuck, resourceVars>>
  BY DEF Undone, pastVars
<1>2. \/ pc' = "done" /\ phase' \in {Final, undo.back}
      \/ pc' = "rolling" /\ phase' = phase /\ \E n : undo' = [undo EXCEPT !.at = n]
  BY <1>1 DEF Undone
<1>3. undo = [at |-> undo.at, back |-> undo.back, auto |-> undo.auto] /\ undo.back \in Phases
  BY <1>1 DEF ExecutorInv, RollInv
<1>4. task' \in [Tasks -> TaskType] /\ \A d \in Tasks : task'[d].held = task[d].held
  <2>1. "rolledBack" \in ExecutionState /\ task \in [Tasks -> TaskType]
    BY TypesNow DEF ExecutionState
  <2> QED
    BY <1>1, <2>1, MovedIs
<1>5. ExecutorTypeOK'
  <2>1. pc' \in Pcs /\ phase' \in Phases
    BY <1>2, <1>3, FinalIs, TypesNow DEF Pcs
  <2> QED
    BY <1>1, <1>4, <2>1, TypesNow, TypesLater
<1>6. RollInv'
  <2>1. ASSUME NEW n, undo' = [undo EXCEPT !.at = n]
        PROVE  undo' = [at |-> n, back |-> undo.back, auto |-> undo.auto]
    BY <1>3, <2>1
  <2> QED
    BY <1>2, <1>3, <2>1 DEF RollInv
<1> QED
  BY <1>1, <1>4, <1>5, <1>6, IdleKept

\* What callers do to a task, and a restart.
LEMMA RetryTaskKept == ASSUME ExecutorInv, NEW t \in Tasks, RetryTask(t) PROVE ExecutorInv'
<1>1. /\ task' = Moved(t, "ready") /\ ready' = PushReady(ready, t)
      /\ UNCHANGED <<plan, remaining, phase, cancelled, paused, pc, batch, inFlight, outcome, winner,
                     retries, unresolved, live, undo, threw, stuck, resourceVars>>
  BY DEF RetryTask, loopVars
<1>2. task' \in [Tasks -> TaskType] /\ \A d \in Tasks : task'[d].held = task[d].held
  <2>1. "ready" \in ExecutionState /\ task \in [Tasks -> TaskType]
    BY TypesNow DEF ExecutionState
  <2> QED
    BY <1>1, <2>1, MovedIs
<1>3. ready' \in Seq(Tasks)
  BY <1>1, TypesNow, PushReadyIs
<1>4. ExecutorTypeOK'
  BY <1>1, <1>2, <1>3, TypesNow, TypesLater
<1>5. RollInv'
  BY <1>1 DEF ExecutorInv, RollInv
<1> QED
  BY <1>1, <1>2, <1>4, <1>5, IdleKept

\* Tasks that hold nothing any more.
LEMMA ClearedIs ==
    ASSUME task \in [Tasks -> TaskType], plan' = plan,
           task' = [t \in Tasks |-> [task[t] EXCEPT !.held = <<>>]]
    PROVE  task' \in [Tasks -> TaskType] /\ HeldInv'
<1>1. Tasks' = Tasks
  BY DEF Tasks
<1>2. ASSUME NEW t \in Tasks
      PROVE  task'[t] \in TaskType /\ task'[t].held = <<>>
  <2>1. task[t] \in TaskType /\ task'[t] = [task[t] EXCEPT !.held = <<>>]
    OBVIOUS
  <2>2. <<>> \in Seq(Nat)
    OBVIOUS
  <2>3. task[t] = [state |-> task[t].state, attempt |-> task[t].attempt, held |-> task[t].held]
        /\ task[t].state \in ExecutionState /\ task[t].attempt \in Nat
    BY <2>1 DEF TaskType
  <2>4. task'[t] = [state |-> task[t].state, attempt |-> task[t].attempt, held |-> <<>>]
    BY <2>1, <2>3
  <2> QED
    BY <2>2, <2>3, <2>4 DEF TaskType
<1>3. task' \in [Tasks -> TaskType]
  BY <1>2
<1>4. \A t \in Tasks : ToSet(task'[t].held) = {}
  BY <1>2 DEF ToSet
<1> QED
  BY <1>1, <1>3, <1>4 DEF HeldInv

LEMMA RestartKept == ASSUME ExecutorInv, Restart PROVE ExecutorInv'
<1>1. /\ plan' = plan /\ task' = [t \in Tasks |-> [task[t] EXCEPT !.held = <<>>]]
      /\ remaining' = Readied(plan, task).remaining /\ ready' = Readied(plan, task).ready
      /\ cancelled' = FALSE /\ paused' = FALSE /\ pc' = "idle" /\ phase' = phase
  BY DEF Restart
<1>2. /\ batch' = <<>> /\ inFlight' = <<>> /\ outcome' = Silent /\ winner' = None
      /\ retries' = <<>> /\ unresolved' = {} /\ live' = {}
  BY DEF Restart
<1>3. LedgerInv'
  <2>1. /\ resources' = [r \in ResourceIds |-> InitialResource(plan.capacity)]
        /\ pools' = [p \in PoolIds |-> None]
        /\ reservations' = <<>> /\ allocations' = <<>> /\ saved' = None
        /\ uncounted' = {} /\ shrunk' = {} /\ UNCHANGED <<clock, calls>>
    BY DEF Restart
  <2>2. plan \in Plans /\ clock \in Nat /\ calls \in Nat
    BY TypesNow DEF ExecutorInv, LedgerInv, ResourceTypeOK
  <2>3. Fresh'
    BY <1>1, <2>1, <2>2 DEF Fresh
  <2> QED
    BY <2>3, FreshLedgerNext
<1>4. task' \in [Tasks -> TaskType] /\ HeldInv'
  BY <1>1, TypesNow, ClearedIs
<1>5. ExecutorTypeOK'
  <2>1. Readied(plan, task) \in QueueType(plan)
    BY TypesNow, ReadiedIs
  <2>2. remaining' \in [Tasks -> Nat] /\ ready' \in Seq(Tasks)
    BY <1>1, <2>1 DEF QueueType, Tasks
  <2>3. /\ batch' \in Seq(Tasks) /\ inFlight' \in Seq(Tasks) /\ retries' \in Seq(Tasks)
        /\ winner' \in Tasks \cup {None} /\ unresolved' \subseteq Tasks /\ live' \subseteq Tasks
    BY <1>2
  <2>4. outcome' \in [Tasks -> Outcomes] /\ pc' \in Pcs /\ cancelled' \in BOOLEAN /\ paused' \in BOOLEAN
    BY <1>1, <1>2, SilentIs DEF Outcomes, Pcs
  <2> QED
    BY <1>1, <1>4, <2>2, <2>3, <2>4, TypesNow, TypesLater
<1>6. RollInv'
  BY <1>1 DEF RollInv
<1> QED
  BY <1>3, <1>4, <1>5, <1>6 DEF ExecutorInv

\* What the other users of the resources do.
LEMMA OthersKept == ASSUME ExecutorInv, Others PROVE ExecutorInv'
<1>1. ResourceNext
      /\ UNCHANGED <<plan, remaining, ready, phase, cancelled, paused, pc, batch, inFlight, outcome,
                     winner, retries, unresolved, live, undo, threw>>
  BY DEF Others, loopVars
<1>2. Kept
  BY <1>1, ManagerKept DEF ExecutorInv
<1>3. LedgerInv' /\ reservations \in Seq(Reservation) /\ reservations' \in Seq(Reservation)
  BY <1>2 DEF Kept, ExecutorInv, LedgerInv, ResourceTypeOK
<1>4. task' \in [Tasks -> TaskType] /\ HeldInv'
  <2>1. CASE Len(reservations') < Len(reservations)
    <3>1. task' = [t \in Tasks |-> [task[t] EXCEPT !.held = <<>>]]
      BY <2>1 DEF Others
    <3> QED
      BY <1>1, <3>1, TypesNow, ClearedIs
  <2>2. CASE ~(Len(reservations') < Len(reservations))
    <3>1. task' = task /\ stuck' = stuck
      BY <2>2 DEF Others
    <3>2. Len(reservations') \in Nat /\ Len(reservations) \in Nat
      BY <1>3
    <3>3. Later(reservations, reservations')
      BY <1>2, <2>2, <3>2 DEF Kept
    <3>4. HeldInv
      BY DEF ExecutorInv
    <3> QED
      BY <1>1, <1>3, <3>1, <3>3, <3>4, TypesNow, HeldSame
  <2> QED
    BY <2>1, <2>2
<1>5. ExecutorTypeOK'
  BY <1>1, <1>4, TypesNow, TypesLater
<1>6. RollInv'
  BY <1>1 DEF ExecutorInv, RollInv
<1> QED
  BY <1>3, <1>4, <1>5, <1>6 DEF ExecutorInv

\* A task that is dispatched.
LEMMA StartedIs ==
    ASSUME NEW tasks \in [Tasks -> TaskType], NEW t \in Tasks
    PROVE  /\ Started(tasks, t) \in [Tasks -> TaskType]
           /\ \A d \in Tasks : Started(tasks, t)[d].held = tasks[d].held
<1> DEFINE one == [tasks EXCEPT ![t] = [tasks[t] EXCEPT !.state = "running"]]
           two == [one EXCEPT ![t] = [one[t] EXCEPT !.attempt = one[t].attempt + 1]]
<1>1. Started(tasks, t) = two
  BY DEF Started
<1>2. /\ tasks[t].state \in ExecutionState /\ tasks[t].attempt \in Nat /\ tasks[t].held \in Seq(Nat)
      /\ tasks[t] = [state |-> tasks[t].state, attempt |-> tasks[t].attempt, held |-> tasks[t].held]
  <2>1. tasks[t] \in TaskType
    OBVIOUS
  <2> QED
    BY <2>1 DEF TaskType
<1>3. one[t] = [state |-> "running", attempt |-> tasks[t].attempt, held |-> tasks[t].held]
  BY <1>2
<1>4. \A d \in Tasks \ {t} : one[d] = tasks[d]
  OBVIOUS
<1>5. one = [d \in Tasks |-> one[d]]
  OBVIOUS
<1> HIDE DEF one
<1>6. two[t] = [state |-> "running", attempt |-> tasks[t].attempt + 1, held |-> tasks[t].held]
  BY <1>3, <1>5
<1>7. \A d \in Tasks \ {t} : two[d] = tasks[d]
  BY <1>4, <1>5
<1>8. two = [d \in Tasks |-> two[d]]
  BY <1>5
<1> HIDE DEF two
<1>9. two[t] \in TaskType /\ two[t].held = tasks[t].held
  BY <1>2, <1>6 DEF TaskType, ExecutionState
<1>10. \A d \in Tasks : two[d] \in TaskType /\ two[d].held = tasks[d].held
  BY <1>7, <1>9
<1> QED
  BY <1>1, <1>8, <1>10

\* What it reserves is the end of the ledger.
LEMMA HoldingIs ==
    ASSUME NEW list \in Seq(Nat), NEW n \in Nat, NEW m \in Nat, n <= m,
           ToSet(list) \subseteq 1 .. n
    PROVE  LET held == list \o [k \in 1 .. (m - n) |-> n + k]
           IN  held \in Seq(Nat) /\ ToSet(held) \subseteq 1 .. m
<1> DEFINE new == [k \in 1 .. (m - n) |-> n + k]
           held == list \o new
<1>1. m - n \in Nat /\ new \in Seq(Nat) /\ Len(new) = m - n /\ \A k \in 1 .. (m - n) : new[k] = n + k
  OBVIOUS
<1> HIDE DEF new
<1>2. held \in Seq(Nat) /\ Len(held) = Len(list) + (m - n)
  <2>1. ASSUME NEW q \in Seq(Nat)
        PROVE  list \o q \in Seq(Nat) /\ Len(list \o q) = Len(list) + Len(q)
    BY ConcatProperties
  <2>2. new \in Seq(Nat) /\ Len(new) = m - n
    BY <1>1
  <2>3. list \o new \in Seq(Nat) /\ Len(list \o new) = Len(list) + Len(new)
    BY <2>1, <2>2
  <2> QED
    BY <2>2, <2>3
<1>3. ASSUME NEW k \in 1 .. Len(held)
      PROVE  held[k] \in 1 .. m
  <2>1. Len(list) \in Nat /\ \A j \in 1 .. Len(list) : list[j] \in 1 .. n
    BY DEF ToSet
  <2>2. CASE k <= Len(list)
    <3>1. k \in 1 .. Len(list) /\ held[k] = list[k]
      BY <1>1, <1>2, <2>1, <2>2
    <3> QED
      BY <2>1, <3>1
  <2>3. CASE ~(k <= Len(list))
    <3>1. k - Len(list) \in 1 .. (m - n) /\ held[k] = new[k - Len(list)]
      BY <1>1, <1>2, <2>1, <2>3
    <3>2. held[k] = n + (k - Len(list))
      BY <1>1, <3>1
    <3> QED
      BY <2>1, <3>1, <3>2
  <2> QED
    BY <2>2, <2>3
<1>4. DOMAIN held = 1 .. Len(held)
  BY <1>2
<1> HIDE DEF held
<1>5. ToSet(held) \subseteq 1 .. m
  BY <1>3, <1>4 DEF ToSet
<1> QED
  BY <1>2, <1>5 DEF held, new

\* A task reserves what it needs and is in flight with it, or the run rejects.
LEMMA DispatchKept == ASSUME ExecutorInv, Dispatch PROVE ExecutorInv'
<1> DEFINE t == Head(batch)
           books == Batch(plan.needs[t], t)
           held == task[t].held \o
                       [k \in 1..(Len(books.book) - Len(reservations)) |-> Len(reservations) + k]
           reserved == IF books.ok THEN [task EXCEPT ![t].held = held] ELSE task
<1>1. /\ resources' = books.rs /\ reservations' = books.book
      /\ \/ /\ task' = Started(reserved, t) /\ batch' = Tail(batch)
            /\ inFlight' = PushReady(inFlight, t)
            /\ outcome' = [outcome EXCEPT ![t] = None]
            /\ live' = live \cup {t}
            /\ UNCHANGED <<pc, winner, retries, unresolved, threw>>
         \/ task' = reserved /\ Throw /\ live' = live
  BY DEF Dispatch
<1>2. UNCHANGED <<plan, remaining, ready, phase, cancelled, paused, undo, stuck,
                  pools, allocations, clock, saved, calls, uncounted, shrunk>>
  BY DEF Dispatch, historyVars
<1>3. t \in Tasks /\ Tail(batch) \in Seq(Tasks) /\ pc = "dispatch"
  <2>1. batch \in Seq(Tasks) /\ batch # <<>> /\ pc = "dispatch"
    BY TypesNow DEF Dispatch
  <2>2. Head(batch) \in Tasks /\ Tail(batch) \in Seq(Tasks)
    BY <2>1, HeadTailProperties
  <2> QED
    BY <2>1, <2>2
<1>4. books \in Reached(Ledger)
  <2>1. plan.needs[t] \in Seq(RequirementType) /\ t \in TaskIds
    BY <1>3, TypesNow, TasksAre DEF Tasks
  <2>2. LedgerTyped
    BY LedgerSound DEF ExecutorInv
  <2> QED
    BY <2>1, <2>2, BatchIs
<1> HIDE DEF books
<1>5. LedgerInv' /\ Later(reservations, reservations')
  <2>1. calls' \in Nat
    BY <1>2 DEF ExecutorInv, LedgerInv, ResourceTypeOK
  <2> QED
    BY <1>1, <1>2, <1>4, <2>1, BooksKept DEF ExecutorInv
<1>6. reservations \in Seq(Reservation) /\ reservations' \in Seq(Reservation)
      /\ \A d \in Tasks : ToSet(task[d].held) \subseteq DOMAIN reservations
  BY <1>5 DEF ExecutorInv, LedgerInv, ResourceTypeOK, HeldInv
<1>7. DOMAIN reservations \subseteq DOMAIN reservations' /\ Len(reservations) <= Len(reservations')
  <2>1. DOMAIN reservations \subseteq DOMAIN reservations'
    BY <1>5 DEF Later
  <2>2. DOMAIN reservations = 1 .. Len(reservations) /\ DOMAIN reservations' = 1 .. Len(reservations')
        /\ Len(reservations) \in Nat /\ Len(reservations') \in Nat
    BY <1>6
  <2>3. Len(reservations) <= Len(reservations')
    BY <2>1, <2>2
  <2> QED
    BY <2>1, <2>3
<1>8. held \in Seq(Nat) /\ ToSet(held) \subseteq DOMAIN reservations'
  <2>1. task[t].held \in Seq(Nat)
    BY <1>3, TypesNow DEF TaskType
  <2>2. DOMAIN reservations = 1 .. Len(reservations) /\ DOMAIN reservations' = 1 .. Len(reservations')
        /\ Len(reservations) \in Nat /\ Len(reservations') \in Nat
    BY <1>6
  <2>3. ToSet(task[t].held) \subseteq 1 .. Len(reservations)
    BY <1>3, <1>6, <2>2
  <2>4. books.book = reservations'
    BY <1>1
  <2> QED
    BY <1>7, <2>1, <2>2, <2>3, <2>4, HoldingIs
<1> HIDE DEF held
<1>9. /\ reserved \in [Tasks -> TaskType]
      /\ \A d \in Tasks : ToSet(reserved[d].held) \subseteq DOMAIN reservations'
      /\ \A d \in Tasks \ {t} : reserved[d].held = task[d].held
  <2>1. task \in [Tasks -> TaskType]
    BY TypesNow
  <2>2. CASE ~books.ok
    BY <1>6, <1>7, <2>1, <2>2
  <2>3. CASE books.ok
    <3> DEFINE own == [task[t] EXCEPT !.held = held]
    <3>1. task[t] \in TaskType
      BY <1>3, <2>1
    <3>2. own \in TaskType /\ own.held = held
      BY <1>8, <3>1 DEF TaskType
    <3>3. reserved = [task EXCEPT ![t] = own]
      BY <2>3
    <3> HIDE DEF own, reserved
    <3>4. reserved \in [Tasks -> TaskType] /\ reserved[t] = own
          /\ \A d \in Tasks \ {t} : reserved[d] = task[d]
      BY <1>3, <2>1, <3>2, <3>3
    <3> QED
      BY <1>6, <1>7, <1>8, <3>2, <3>4
  <2> QED
    BY <2>2, <2>3
<1> HIDE DEF reserved, t
<1>10. /\ task' \in [Tasks -> TaskType]
       /\ \A d \in Tasks : ToSet(task'[d].held) \subseteq DOMAIN reservations'
       /\ \A d \in Tasks \ {t} : task'[d].held = task[d].held
  BY <1>1, <1>3, <1>9, StartedIs
<1>11. ExecutorTypeOK'
  <2>1. live' \subseteq Tasks
    BY <1>1, <1>3, TypesNow
  <2>2. /\ batch' \in Seq(Tasks) /\ inFlight' \in Seq(Tasks) /\ outcome' \in [Tasks -> Outcomes]
        /\ pc' \in Pcs /\ winner' \in Tasks \cup {None} /\ retries' \in Seq(Tasks)
        /\ unresolved' \subseteq Tasks
    <3>1. CASE Throw
      BY <3>1, ThrowIs DEF Pcs
    <3>2. CASE ~Throw
      <4>1. /\ batch' = Tail(batch) /\ inFlight' = PushReady(inFlight, t)
            /\ outcome' = [outcome EXCEPT ![t] = None]
            /\ UNCHANGED <<pc, winner, retries, unresolved>>
        BY <1>1, <3>2
      <4>2. inFlight' \in Seq(Tasks)
        BY <1>3, <4>1, TypesNow, PushReadyIs
      <4>3. outcome' \in [Tasks -> Outcomes]
        BY <4>1, TypesNow DEF Outcomes
      <4>4. batch' \in Seq(Tasks)
        BY <1>3, <4>1 DEF t
      <4> QED
        BY <4>1, <4>2, <4>3, <4>4, TypesNow
    <3> QED
      BY <3>1, <3>2
  <2> QED
    BY <1>2, <1>10, <2>1, <2>2, TypesNow, TypesLater
<1>12. RollInv'
  <2>1. pc' # "rolling"
    BY <1>1, <1>3, ThrowIs
  <2> QED
    BY <2>1 DEF RollInv
<1>13. HeldInv'
  <2>1. Tasks' = Tasks
    BY <1>2 DEF Tasks
  <2>2. ASSUME ~threw', NEW d \in Tasks, NEW i \in ToSet(task'[d].held) \ stuck',
               reservations'[i].status = "active"
        PROVE  d \in ToSet(inFlight')
    <3>1. inFlight' = PushReady(inFlight, t) /\ threw' = threw
      BY <1>1, <2>2, ThrowIs
    <3>2. t \in ToSet(inFlight') /\ ToSet(inFlight) \subseteq ToSet(inFlight')
      BY <1>3, <3>1, TypesNow, PushReadyIs
    <3>3. CASE d = t
      BY <3>2, <3>3
    <3>4. CASE d # t
      <4>1. i \in ToSet(task[d].held) \ stuck /\ i \in DOMAIN reservations
        BY <1>2, <1>6, <1>10, <3>4
      <4>2. reservations[i].status = "active"
        BY <1>5, <2>2, <4>1 DEF Later
      <4>3. d \in ToSet(inFlight)
        BY <2>2, <3>1, <4>1, <4>2 DEF ExecutorInv, HeldInv
      <4> QED
        BY <3>2, <4>3
    <3> QED
      BY <3>3, <3>4
  <2> QED
    BY <1>10, <2>1, <2>2 DEF HeldInv
<1> QED
  BY <1>5, <1>11, <1>12, <1>13 DEF ExecutorInv

LEMMA StutterKept == ASSUME ExecutorInv, UNCHANGED vars PROVE ExecutorInv'
<1>1. UNCHANGED <<plan, task, remaining, ready, batch, inFlight, outcome, retries, live, undo,
                  threw, stuck, resourceVars, pc, winner, unresolved, phase, cancelled, paused>>
  BY DEF vars, executorVars, contextVars, loopVars, pastVars
<1> QED
  BY <1>1, TypesNow, PlainKept

-----------------------------------------------------------------------------
(* What always holds *)

LEMMA StepInv == ExecutorInv /\ [ExecutorNext]_vars => ExecutorInv'
<1> SUFFICES ASSUME ExecutorInv, [ExecutorNext]_vars
             PROVE  ExecutorInv'
  OBVIOUS
<1>1. CASE Run
  BY <1>1, RunKept
<1>2. CASE Loop
  <2>1. CASE Leave \/ Sleep \/ Wake
    BY <2>1, PassKept
  <2>2. ASSUME NEW due \in SUBSET ToSet(retries), Dequeue(due)
        PROVE  ExecutorInv'
    BY <2>2, DequeueKept
  <2>3. CASE Refuse
    BY <2>3, RejectedKept
  <2>4. CASE Dispatch
    BY <2>4, DispatchKept
  <2>5. CASE Wait
    BY <2>5, WaitKept
  <2>6. CASE Continue
    BY <2>6, ContinueKept
  <2>7. CASE Finish
    BY <2>7, FinishKept
  <2> QED
    BY <1>2, <2>1, <2>2, <2>3, <2>4, <2>5, <2>6, <2>7 DEF Loop
<1>3. ASSUME NEW t \in Tasks, NEW result \in {"completed", "failed", "timedOut"}, Settle(t, result)
      PROVE  ExecutorInv'
  BY <1>3, SettleKept
<1>4. CASE Rollback
  BY <1>4, RollbackKept
<1>5. CASE Undone
  BY <1>5, UndoneKept
<1>6. CASE UndoFails
  BY <1>6, RejectedKept
<1>7. CASE Pause \/ Resume \/ Cancel
  BY <1>7, CallersKept
<1>8. CASE Restart
  BY <1>8, RestartKept
<1>9. ASSUME NEW t \in Tasks, RetryTask(t)
      PROVE  ExecutorInv'
  BY <1>9, RetryTaskKept
<1>10. CASE Others
  BY <1>10, OthersKept
<1>11. CASE UNCHANGED vars
  BY <1>11, StutterKept
<1> QED
  BY <1>1, <1>2, <1>3, <1>4, <1>5, <1>6, <1>7, <1>8, <1>9, <1>10, <1>11 DEF ExecutorNext

LEMMA InvAlways == ExecutorSpec => []ExecutorInv
BY InitInv, StepInv, PTL DEF ExecutorSpec

\* The executor's state and its resources' have the types the code gives them.
THEOREM ExecutorTypeCorrect == ExecutorSpec => [](ExecutorTypeOK /\ ResourceTypeOK)
<1>1. ExecutorInv => ExecutorTypeOK /\ ResourceTypeOK
  BY DEF ExecutorInv, LedgerInv
<1> QED
  BY <1>1, InvAlways, PTL

\* Whatever a plan, its handlers, its callers and the other users of the resources do, reserve(),
\* release(), allocate(), expireReservations() and a batch that fails half-way included, the figures
\* of a resource are what the ledger's open records add up to, nothing is committed beyond a
\* capacity that was not lowered, and the diagnosis finds nothing else wrong than what a removed
\* resource leaves behind.
THEOREM LedgerExactAlways == ExecutorSpec => []LedgerExact
<1>1. ExecutorInv => LedgerExact
  BY ExactLedger DEF ExecutorInv
<1> QED
  BY <1>1, InvAlways, PTL

\* While run() goes on, a task that is not in flight holds no reservation that releaseResources()
\* could have taken back: no order of answers, timeouts, retries, recoveries, cancellations and
\* restarts leaves one open.
THEOREM HeldInFlightAlways == ExecutorSpec => []HeldInFlight
BY HeldSafe, InvAlways, PTL
=============================================================================
