--------------------------- MODULE GroqQuotaProofs ---------------------------
(***************************************************************************)
(* Proofs about GroqQuota, for every set of callers, every estimate and    *)
(* stop, and every bound.                                                  *)
(*                                                                         *)
(* Tokens: an amount is a sum over the answers of the last 24 hours, in    *)
(* which an answer beyond its estimate counts as its estimate; a call in   *)
(* flight has it reserved already, so that only Reserve raises the sum.    *)
(*                                                                         *)
(* The account: an answer that waits for its record may say more than the  *)
(* guard knows by now.  A set of them claims what the guard could let      *)
(* through on their word, less the calls in flight; what is left of the    *)
(* account pays for every claim, but for what was never recorded.          *)
(***************************************************************************)
EXTENDS GroqQuota, FiniteSetTheorems, SequenceTheorems, WellFoundedInduction, TLAPS

---------------------------------------------------------------------------
(* Numbers: induction over a set of numbers, the greater of two, sums.     *)

LEMMA Induction ==
  ASSUME NEW S \in SUBSET Nat, 0 \in S, \A n \in S : n + 1 \in S
  PROVE  S = Nat
<1> SUFFICES ASSUME Nat \ S # {}
             PROVE  FALSE
  OBVIOUS
<1>1. PICK x \in Nat \ S : \A y \in Nat \ S : <<y, x>> \notin OpToRel(<, Nat)
  BY NatLessThanWellFounded, WFMin
<1>2. x # 0 /\ x - 1 \in Nat /\ x - 1 < x
  OBVIOUS
<1>3. x - 1 \in S
  <2>1. SUFFICES ASSUME x - 1 \in Nat \ S
                 PROVE  FALSE
    BY <1>2
  <2>2. <<x - 1, x>> \notin OpToRel(<, Nat)
    BY <1>1, <2>1
  <2> QED
    BY <1>2, <2>2 DEF OpToRel
<1>4. (x - 1) + 1 \in S
  BY <1>3
<1> QED
  BY <1>4

LEMMA MaxOf ==
  ASSUME NEW a \in Int, NEW b \in Int
  PROVE  Max({a, b}) = IF a >= b THEN a ELSE b
  BY DEF Max

(* The partial sums of f.                                                  *)
IsSum(f, n, g) == g = [k \in 0 .. n |-> IF k = 0 THEN 0 ELSE g[k - 1] + f[k]]

LEMMA SumExists ==
  ASSUME NEW m \in Nat, NEW f, \A k \in 1 .. m : f[k] \in Nat
  PROVE  \A n \in 0 .. m : \E g \in [0 .. n -> Nat] : IsSum(f, n, g)
<1> DEFINE S == {n \in Nat : n <= m => \E g \in [0 .. n -> Nat] : IsSum(f, n, g)}
<1>1. 0 \in S
  <2> DEFINE g == [k \in 0 .. 0 |-> 0]
  <2>1. g \in [0 .. 0 -> Nat] /\ IsSum(f, 0, g)
    BY DEF IsSum
  <2> QED
    BY <2>1
<1>2. ASSUME NEW n \in S
      PROVE  n + 1 \in S
  <2> SUFFICES ASSUME n + 1 <= m
               PROVE  \E h \in [0 .. n + 1 -> Nat] : IsSum(f, n + 1, h)
    OBVIOUS
  <2>1. PICK g \in [0 .. n -> Nat] : IsSum(f, n, g)
    OBVIOUS
  <2> DEFINE h == [k \in 0 .. n + 1 |-> IF k = n + 1 THEN g[n] + f[n + 1] ELSE g[k]]
  <2>2. h \in [0 .. n + 1 -> Nat]
    OBVIOUS
  <2>3. \A k \in 0 .. n + 1 : h[k] = IF k = 0 THEN 0 ELSE h[k - 1] + f[k]
    BY <2>1 DEF IsSum
  <2>4. IsSum(f, n + 1, h)
    <3>1. h = [k \in 0 .. n + 1 |-> h[k]]
      OBVIOUS
    <3> HIDE DEF h
    <3> QED
      BY <2>3, <3>1 DEF IsSum
  <2> QED
    BY <2>2, <2>4
<1> HIDE DEF S
<1>3. S = Nat
  <2>1. S \in SUBSET Nat
    BY DEF S
  <2> QED
    BY <1>1, <1>2, <2>1, Induction
<1>4. ASSUME NEW n \in 0 .. m
      PROVE  \E g \in [0 .. n -> Nat] : IsSum(f, n, g)
  <2>1. n \in S /\ n <= m
    BY <1>3
  <2> QED
    BY <2>1 DEF S
<1> QED
  BY <1>4

LEMMA SumUnique ==
  ASSUME NEW n \in Nat, NEW f, NEW g, IsSum(f, n, g), NEW j \in 0 .. n, NEW h, IsSum(f, j, h)
  PROVE  \A k \in 0 .. j : h[k] = g[k]
<1> DEFINE S == {k \in Nat : k <= j => h[k] = g[k]}
<1>1. 0 \in S
  BY DEF IsSum
<1>2. ASSUME NEW k \in S
      PROVE  k + 1 \in S
  <2> SUFFICES ASSUME k + 1 <= j
               PROVE  h[k + 1] = g[k + 1]
    OBVIOUS
  <2>1. h[k + 1] = h[(k + 1) - 1] + f[k + 1]
    BY DEF IsSum
  <2>2. g[k + 1] = g[(k + 1) - 1] + f[k + 1]
    BY DEF IsSum
  <2> QED
    BY <2>1, <2>2
<1> HIDE DEF S
<1>3. S = Nat
  <2>1. S \in SUBSET Nat
    BY DEF S
  <2> QED
    BY <1>1, <1>2, <2>1, Induction
<1> QED
  BY <1>3 DEF S

LEMMA TotalOf ==
  ASSUME NEW m \in Nat, NEW f, \A k \in 1 .. m : f[k] \in Nat
  PROVE  /\ Total(f, 0) = 0
         /\ \A n \in 0 .. m : Total(f, n) \in Nat
         /\ \A n \in 1 .. m : Total(f, n) = Total(f, n - 1) + f[n]
<1> DEFINE P(n) == CHOOSE g : IsSum(f, n, g)
<1>1. PICK g \in [0 .. m -> Nat] : IsSum(f, m, g)
  <2>1. m \in 0 .. m
    OBVIOUS
  <2> QED
    BY <2>1, SumExists
<1>2. ASSUME NEW n \in 0 .. m
      PROVE  Total(f, n) = g[n]
  <2>1. Total(f, n) = P(n)[n]
    BY DEF Total, IsSum
  <2>2. IsSum(f, n, P(n))
    <3>1. \E h : IsSum(f, n, h)
      BY SumExists
    <3> QED
      BY <3>1
  <2> HIDE DEF P
  <2>3. P(n)[n] = g[n]
    BY <1>1, <2>2, SumUnique
  <2> QED
    BY <2>1, <2>3
<1>3. \A n \in 1 .. m : g[n] = g[n - 1] + f[n]
  BY <1>1 DEF IsSum
<1>4. g[0] = 0
  BY <1>1 DEF IsSum
<1> QED
  BY <1>1, <1>2, <1>3, <1>4

LEMMA TotalBound ==
  ASSUME NEW m \in Nat, NEW f, NEW h, NEW x \in Nat, NEW B, B \subseteq 1 .. m,
         \A k \in 1 .. m : f[k] \in Nat /\ h[k] \in Nat,
         \A k \in 1 .. m : f[k] <= h[k] + (IF k \in B THEN x ELSE 0)
  PROVE  Total(f, m) <= Total(h, m) + x * Cardinality(B)
<1> DEFINE C(n) == B \cap (1 .. n)
           S    == {n \in Nat : n <= m => Total(f, n) <= Total(h, n) + x * Cardinality(C(n))}
<1>1. 0 \in S
  <2>1. C(0) = {} /\ Cardinality({}) = 0
    BY FS_EmptySet
  <2>2. Total(f, 0) = 0 /\ Total(h, 0) = 0
    BY TotalOf
  <2> QED
    BY <2>1, <2>2
<1>2. ASSUME NEW n \in S
      PROVE  n + 1 \in S
  <2> SUFFICES ASSUME n + 1 <= m
               PROVE  Total(f, n + 1) <= Total(h, n + 1) + x * Cardinality(C(n + 1))
    OBVIOUS
  <2>0. n + 1 \in 1 .. m /\ n \in 0 .. m /\ (n + 1) - 1 = n
    OBVIOUS
  <2>1. /\ Total(f, n + 1) = Total(f, n) + f[n + 1] /\ Total(f, n) \in Nat
        /\ Total(h, n + 1) = Total(h, n) + h[n + 1] /\ Total(h, n) \in Nat
    <3>1. Total(f, n + 1) = Total(f, (n + 1) - 1) + f[n + 1] /\ Total(f, n) \in Nat
      BY <2>0, TotalOf
    <3>2. Total(h, n + 1) = Total(h, (n + 1) - 1) + h[n + 1] /\ Total(h, n) \in Nat
      BY <2>0, TotalOf
    <3> QED
      BY <2>0, <3>1, <3>2
  <2>2. IsFiniteSet(C(n)) /\ Cardinality(C(n)) \in Nat
    <3>1. IsFiniteSet(1 .. n)
      BY FS_Interval
    <3>2. C(n) \subseteq 1 .. n
      OBVIOUS
    <3> QED
      BY <3>1, <3>2, FS_Subset, FS_CardinalityType
  <2>3. Total(f, n) <= Total(h, n) + x * Cardinality(C(n))
    OBVIOUS
  <2>4. CASE n + 1 \in B
    <3>1. C(n + 1) = C(n) \cup {n + 1} /\ n + 1 \notin C(n)
      BY <2>4
    <3>2. Cardinality(C(n + 1)) = Cardinality(C(n)) + 1
      <4> HIDE DEF C
      <4> QED
        BY <2>2, <3>1, FS_AddElement
    <3>3. x * (Cardinality(C(n)) + 1) = x * Cardinality(C(n)) + x
      <4> DEFINE q == Cardinality(C(n))
      <4>1. q \in Nat
        BY <2>2
      <4> HIDE DEF q
      <4>2. x * (q + 1) = x * q + x
        BY <4>1
      <4> QED
        BY <4>2 DEF q
    <3>4. f[n + 1] \in Nat /\ h[n + 1] \in Nat /\ f[n + 1] <= h[n + 1] + x
      BY <2>0, <2>4
    <3>5. x * Cardinality(C(n)) \in Nat
      BY <2>2
    <3> HIDE DEF C
    <3> QED
      BY <2>1, <2>3, <3>2, <3>3, <3>4, <3>5
  <2>5. CASE n + 1 \notin B
    <3>1. C(n + 1) = C(n)
      BY <2>5
    <3>2. f[n + 1] \in Nat /\ h[n + 1] \in Nat /\ f[n + 1] <= h[n + 1]
      BY <2>0, <2>5
    <3>3. x * Cardinality(C(n)) \in Nat
      BY <2>2
    <3> HIDE DEF C
    <3> QED
      BY <2>1, <2>3, <3>1, <3>2, <3>3
  <2> QED
    BY <2>4, <2>5
<1>3. C(m) = B
  OBVIOUS
<1> HIDE DEF S
<1>4. S = Nat
  <2>1. S \in SUBSET Nat
    BY DEF S
  <2> QED
    BY <1>1, <1>2, <2>1, Induction
<1>5. m \in S
  BY <1>4
<1> HIDE DEF C
<1> QED
  BY <1>3, <1>5 DEF S

LEMMA TotalLeast ==
  ASSUME NEW m \in Nat, NEW f, NEW h,
         \A k \in 1 .. m : f[k] \in Nat /\ h[k] \in Nat /\ f[k] <= h[k]
  PROVE  Total(f, m) <= Total(h, m)
<1>1. Total(f, m) <= Total(h, m) + 0 * Cardinality({})
  <2>1. {} \subseteq 1 .. m /\ \A k \in 1 .. m : f[k] <= h[k] + (IF k \in {} THEN 0 ELSE 0)
    OBVIOUS
  <2> QED
    BY <2>1, TotalBound
<1>2. 0 * Cardinality({}) = 0
  BY FS_EmptySet
<1>3. Total(f, m) \in Nat /\ Total(h, m) \in Nat
  <2>1. m \in 0 .. m
    OBVIOUS
  <2> QED
    BY <2>1, TotalOf
<1> QED
  BY <1>1, <1>2, <1>3

LEMMA TotalSuffix ==
  ASSUME NEW m \in Nat, NEW f, NEW d \in 0 .. m, NEW h,
         \A k \in 1 .. m : f[k] \in Nat, \A k \in 1 .. m - d : h[k] = f[k + d]
  PROVE  Total(h, m - d) <= Total(f, m)
<1> DEFINE S == {n \in Nat : n <= m - d => Total(h, n) + Total(f, d) = Total(f, n + d)}
<1>0. \A k \in 1 .. m - d : h[k] \in Nat
  OBVIOUS
<1>1. 0 \in S
  <2>1. Total(h, 0) = 0
    BY <1>0, TotalOf
  <2>2. Total(f, d) \in Nat
    BY TotalOf
  <2> QED
    BY <2>1, <2>2
<1>2. ASSUME NEW n \in S
      PROVE  n + 1 \in S
  <2> SUFFICES ASSUME n + 1 <= m - d
               PROVE  Total(h, n + 1) + Total(f, d) = Total(f, (n + 1) + d)
    OBVIOUS
  <2>1. /\ n + 1 \in 1 .. m - d /\ n \in 0 .. m - d /\ (n + 1) - 1 = n /\ m - d \in Nat
        /\ n + 1 + d \in 1 .. m /\ n + d \in 0 .. m /\ (n + 1 + d) - 1 = n + d
        /\ (n + 1) + d = n + 1 + d
    OBVIOUS
  <2>2. Total(h, n + 1) = Total(h, n) + h[n + 1] /\ Total(h, n) \in Nat
    <3>1. Total(h, n + 1) = Total(h, (n + 1) - 1) + h[n + 1] /\ Total(h, n) \in Nat
      BY <1>0, <2>1, TotalOf
    <3> QED
      BY <2>1, <3>1
  <2>3. Total(f, n + 1 + d) = Total(f, n + d) + f[n + 1 + d] /\ Total(f, n + d) \in Nat
    <3>1. Total(f, n + 1 + d) = Total(f, (n + 1 + d) - 1) + f[n + 1 + d] /\ Total(f, n + d) \in Nat
      BY <2>1, TotalOf
    <3> QED
      BY <2>1, <3>1
  <2>4. h[n + 1] = f[n + 1 + d] /\ h[n + 1] \in Nat
    BY <1>0, <2>1
  <2>5. Total(f, d) \in Nat /\ Total(h, n) + Total(f, d) = Total(f, n + d)
    BY <2>1, TotalOf
  <2> QED
    BY <2>1, <2>2, <2>3, <2>4, <2>5
<1> HIDE DEF S
<1>3. S = Nat
  <2>1. S \in SUBSET Nat
    BY DEF S
  <2> QED
    BY <1>1, <1>2, <2>1, Induction
<1>4. Total(h, m - d) + Total(f, d) = Total(f, (m - d) + d)
  <2>1. m - d \in S
    BY <1>3
  <2> QED
    BY <2>1 DEF S
<1>5. (m - d) + d = m /\ m - d \in 0 .. m - d /\ m - d \in Nat /\ m \in 0 .. m
  OBVIOUS
<1>6. Total(h, m - d) \in Nat
  BY <1>0, <1>5, TotalOf
<1>7. Total(f, d) \in Nat /\ Total(f, m) \in Nat
  BY <1>5, TotalOf
<1> QED
  BY <1>4, <1>5, <1>6, <1>7

LEMMA TotalEqual ==
  ASSUME NEW m \in Nat, NEW f, NEW h, \A k \in 1 .. m : f[k] \in Nat /\ h[k] = f[k]
  PROVE  Total(h, m) = Total(f, m)
<1>1. Total(h, m) <= Total(f, m)
  BY TotalLeast
<1>2. Total(f, m) <= Total(h, m)
  BY TotalLeast
<1>3. Total(f, m) \in Nat /\ Total(h, m) \in Nat
  <2>1. m \in 0 .. m
    OBVIOUS
  <2>2. \A k \in 1 .. m : h[k] \in Nat
    OBVIOUS
  <2> QED
    BY <2>1, <2>2, TotalOf
<1> QED
  BY <1>1, <1>2, <1>3

---------------------------------------------------------------------------
(* Types, the order of the events, and who is in flight.                   *)

InFlight == {c \in Calls : pc[c] # "idle"}
Sent     == {c \in Calls : pc[c] = "sent"}
Answered == {c \in Calls : pc[c] \in {"answered", "closed"}}
Ordered  == \A i, j \in DOMAIN events : i <= j => events[j].age <= events[i].age
Old      == Cardinality({k \in DOMAIN events : events[k].age = Window})

Flight ==
  /\ reserved = InFlight
  /\ \A c \in Serialized : pc[c] # "idle" => lock = c
  /\ \A c \in Answered : header[c].left # None

BaseInv == TypeOK /\ Ordered /\ Flight

(* A set of positions that holds all positions before any of its own.      *)
LEMMA InitialPart ==
  ASSUME NEW n \in Nat, NEW T, T \subseteq 1 .. n, \A i \in T : \A j \in 1 .. i : j \in T
  PROVE  Cardinality(T) \in 0 .. n /\ T = 1 .. Cardinality(T)
<1> DEFINE S == {k \in Nat : k = 0 \/ k \in T}
<1>1. PICK k \in S : k + 1 \notin S
  <2>1. S # Nat
    BY n + 1 \in Nat
  <2>2. S \in SUBSET Nat /\ 0 \in S
    OBVIOUS
  <2> HIDE DEF S
  <2> QED
    BY <2>1, <2>2, Induction
<1>2. k \in 0 .. n /\ T = 1 .. k
  <2>1. k \in Nat /\ k + 1 \notin T /\ (k = 0 \/ k \in T)
    BY <1>1
  <2>2. ASSUME NEW j \in T
        PROVE  j \in 1 .. k
    <3>1. j \in 1 .. n
      OBVIOUS
    <3>2. CASE j > k
      <4>1. k + 1 \in 1 .. j
        BY <2>1, <3>1, <3>2
      <4> QED
        BY <2>1, <4>1
    <3> QED
      BY <2>1, <3>1, <3>2
  <2>3. ASSUME NEW j \in 1 .. k
        PROVE  j \in T
    <3>1. k \in T /\ j \in 1 .. k
      BY <2>1
    <3> QED
      BY <3>1
  <2>4. k \in 0 .. n
    BY <2>1
  <2>5. T = 1 .. k
    <3> HIDE DEF S
    <3> QED
      BY <2>2, <2>3
  <2> QED
    BY <2>4, <2>5
<1>3. Cardinality(1 .. k) = k
  BY <1>2, FS_Interval
<1> QED
  BY <1>2, <1>3

LEMMA TypedEvents ==
  ASSUME TypeOK
  PROVE  /\ Len(events) \in Nat /\ DOMAIN events = 1 .. Len(events)
         /\ \A k \in 1 .. Len(events) : /\ events[k] \in [age : 0..Window, tokens : Usages]
                                        /\ events[k].age \in 0 .. Window /\ events[k].tokens \in Nat
                                        /\ events[k].tokens <= Estimate + Overshoot
<1> DEFINE E == [age : 0..Window, tokens : Usages]
<1>1. events \in Seq(E)
  BY DEF TypeOK
<1>2. \A e \in E : e.age \in 0 .. Window /\ e.tokens \in Nat /\ e.tokens <= Estimate + Overshoot
  <2>1. \A t \in Usages : t \in Nat /\ t <= Estimate + Overshoot
    BY QuotaAssumption
  <2> QED
    BY <2>1
<1> HIDE DEF E
<1>3. Len(events) \in Nat /\ DOMAIN events = 1 .. Len(events) /\ \A k \in 1 .. Len(events) : events[k] \in E
  BY <1>1, LenProperties, ElementOfSeq
<1> QED
  BY <1>2, <1>3 DEF E

LEMMA OldEvents ==
  ASSUME TypeOK, Ordered
  PROVE  /\ Old \in 0 .. Len(events)
         /\ \A k \in 1 .. Len(events) - Old : k + Old \in DOMAIN events /\ events[k + Old].age \in 0 .. Window - 1
<1> DEFINE T == {k \in DOMAIN events : events[k].age = Window}
           n == Len(events)
<1>1. n \in Nat /\ DOMAIN events = 1 .. n /\ \A k \in 1 .. n : events[k].age \in 0 .. Window
  BY TypedEvents
<1>2. Window \in Nat
  BY QuotaAssumption
<1>3. \A i \in T : \A j \in 1 .. i : j \in T
  BY <1>1, <1>2 DEF Ordered
<1>4. Cardinality(T) \in 0 .. n /\ T = 1 .. Cardinality(T)
  <2>1. T \subseteq 1 .. n
    BY <1>1
  <2> HIDE DEF T, n
  <2> QED
    BY <1>1, <1>3, <2>1, InitialPart
<1>5. Old = Cardinality(T)
  BY DEF Old
<1>6. ASSUME NEW k \in 1 .. n - Old
      PROVE  k + Old \in DOMAIN events /\ events[k + Old].age \in 0 .. Window - 1
  <2>1. k + Old \in 1 .. n /\ k + Old \notin 1 .. Old
    BY <1>1, <1>4, <1>5
  <2>2. k + Old \notin T
    BY <1>4, <1>5, <2>1
  <2> QED
    BY <1>1, <1>2, <2>1, <2>2
<1> QED
  BY <1>4, <1>5, <1>6

(* What every step but Record and Tick leaves of the guard's own state.    *)
LEMMA AgedEvents ==
  ASSUME TypeOK, Ordered,
         events' = [k \in 1 .. Len(events) - Old |-> [events[k + Old] EXCEPT !.age = @ + 1]]
  PROVE  /\ events' \in Seq([age : 0..Window, tokens : Usages])
         /\ Len(events') = Len(events) - Old
         /\ \A k \in 1 .. Len(events) - Old : /\ events'[k].tokens = events[k + Old].tokens
                                              /\ events'[k].age = events[k + Old].age + 1
         /\ Ordered'
<1> DEFINE n == Len(events)
           m == n - Old
           E == [age : 0..Window, tokens : Usages]
<1>1. n \in Nat /\ DOMAIN events = 1 .. n /\ \A k \in 1 .. n : events[k] \in E
  BY TypedEvents
<1>2. m \in Nat /\ Window \in Nat /\ Old \in 0 .. n
  BY <1>1, OldEvents, QuotaAssumption
<1>3. ASSUME NEW k \in 1 .. m
      PROVE  /\ events'[k] \in E
             /\ events'[k].tokens = events[k + Old].tokens
             /\ events'[k].age = events[k + Old].age + 1
             /\ k + Old \in DOMAIN events
  <2>1. k + Old \in DOMAIN events /\ events[k + Old].age \in 0 .. Window - 1
    BY OldEvents
  <2>2. events'[k] = [events[k + Old] EXCEPT !.age = @ + 1]
    OBVIOUS
  <2>3. events[k + Old] \in E
    BY <1>1, <2>1
  <2> QED
    BY <1>2, <2>1, <2>2, <2>3
<1>4. DOMAIN events' = 1 .. m
  OBVIOUS
<1>5. events' \in Seq(E) /\ Len(events') = m
  <2>1. events' \in [1 .. m -> E]
    <3>1. events' = [k \in 1 .. m |-> events'[k]]
      OBVIOUS
    <3> HIDE DEF m, E
    <3> QED
      BY <1>3, <3>1
  <2> HIDE DEF E, m
  <2>2. events' \in Seq(E)
    <3>1. m \in Nat
      BY <1>2
    <3>2. events' \in UNION {[1 .. i -> E] : i \in Nat}
      BY <2>1, <3>1
    <3> QED
      BY <3>2, SeqDef
  <2> QED
    BY <1>2, <1>4, <2>2, LenProperties
<1>6. Ordered'
  <2> SUFFICES ASSUME NEW i \in 1 .. m, NEW j \in 1 .. m, i <= j
               PROVE  events'[j].age <= events'[i].age
    BY <1>4 DEF Ordered
  <2>1. i + Old <= j + Old /\ i + Old \in DOMAIN events /\ j + Old \in DOMAIN events
    BY <1>2, <1>3
  <2>2. events[j + Old].age <= events[i + Old].age
    BY <2>1 DEF Ordered
  <2>3. events[j + Old].age \in Int /\ events[i + Old].age \in Int
    BY <1>1, <2>1
  <2> QED
    BY <1>3, <2>2, <2>3
<1> QED
  BY <1>3, <1>5, <1>6

(* The invariant in three parts: what the guard remembers, the calls, the  *)
(* account.                                                                *)
GuardOK ==
  /\ events \in Seq([age : 0..Window, tokens : Usages]) /\ Ordered
  /\ pause \in 0..PauseTicks /\ reset \in {None} \cup 0..Window
  /\ tpm \in {None, 0, 1} /\ dated \in BOOLEAN
  /\ remaining \in {None} \cup 0..AccountLimit

Headers == [left : {None} \cup 0..AccountLimit, reset : 0..Window, told : SUBSET HeaderNames]
CallsOK ==
  /\ reserved \subseteq Calls /\ leaked \in Nat
  /\ pc \in [Calls -> {"idle", "sent", "answered", "closed"}]
  /\ header \in [Calls -> Headers]
  /\ lock \in Serialized \cup {NoCall}
  /\ Flight

AccountOK ==
  /\ used \in Nat /\ resetIn \in 1..Window /\ stray \in Nat /\ torn \in Nat
  /\ lost \in Nat /\ partial \in Nat /\ crashes \in Nat

LEMMA BaseParts == BaseInv <=> GuardOK /\ CallsOK /\ AccountOK
  BY DEF BaseInv, TypeOK, GuardOK, CallsOK, AccountOK, Headers

LEMMA Numbers ==
  /\ {RequestStop, TokenStop, Window, PauseTicks, AccountLimit, AccountStop} \subseteq Nat \ {0}
  /\ {Estimate, Overshoot, MaxFaults, MaxCrashes} \subseteq Nat
  /\ None = -1 /\ NoAnswer \in Headers /\ NoCall \notin Calls /\ Serialized \subseteq Calls
  /\ AnswerCalls \subseteq Serialized /\ HealthCalls \subseteq Calls
  /\ 0 \in Usages /\ \A t \in Usages : t \in Nat /\ t <= Estimate + Overshoot
  BY QuotaAssumption DEF NoAnswer, Headers, None, Serialized, Calls

LEMMA SameGuard ==
  ASSUME GuardOK, UNCHANGED window
  PROVE  GuardOK'
  BY DEF GuardOK, window, Ordered

LEMMA SameAccount ==
  ASSUME AccountOK, UNCHANGED <<account, bounds>>
  PROVE  AccountOK'
  BY DEF AccountOK, account, bounds

(* The end of a call: Record, Lose and Leak.                               *)
LEMMA OverCalls ==
  ASSUME CallsOK, NEW c \in Calls, pc[c] # "idle", Over(c), reserved' = reserved \ {c},
         leaked' \in Nat
  PROVE  CallsOK'
<1>1. pc' = [pc EXCEPT ![c] = "idle"] /\ header' = [header EXCEPT ![c] = NoAnswer]
      /\ lock' = IF lock = c THEN NoCall ELSE lock
  BY DEF Over
<1>2. pc' \in [Calls -> {"idle", "sent", "answered", "closed"}] /\ header' \in [Calls -> Headers]
      /\ lock' \in Serialized \cup {NoCall} /\ reserved' \subseteq Calls
  BY <1>1, Numbers DEF CallsOK
<1>3. reserved' = InFlight'
  BY <1>1 DEF CallsOK, Flight, InFlight
<1>4. \A d \in Serialized : pc'[d] # "idle" => lock' = d
  BY <1>1, Numbers DEF CallsOK, Flight
<1>5. \A d \in Answered' : header'[d].left # None
  BY <1>1 DEF CallsOK, Flight, Answered
<1> QED
  BY <1>2, <1>3, <1>4, <1>5 DEF CallsOK, Flight

LEMMA StartCalls ==
  ASSUME CallsOK, NEW c \in Calls, TakeLock(c) \/ Refuse(c) \/ Reserve(c) \/ CloseClient(c)
  PROVE  CallsOK' /\ UNCHANGED <<window, account, bounds>>
<1>1. CASE TakeLock(c)
  BY <1>1, Numbers DEF TakeLock, CallsOK, Flight, InFlight, Answered
<1>2. CASE Refuse(c)
  BY <1>2, Numbers DEF Refuse, CallsOK, Flight, InFlight, Answered
<1>3. CASE Reserve(c)
  BY <1>3, Numbers DEF Reserve, CallsOK, Flight, InFlight, Answered
<1>4. CASE CloseClient(c)
  BY <1>4, Numbers DEF CloseClient, CallsOK, Flight, InFlight, Answered
<1> QED
  BY <1>1, <1>2, <1>3, <1>4

LEMMA AnswerCall ==
  ASSUME CallsOK, AccountOK, NEW c \in Calls, AccountAnswers(c)
  PROVE  CallsOK' /\ AccountOK' /\ UNCHANGED window
<1>0. PICK told \in SUBSET HeaderNames :
        /\ partial' = IF told = HeaderNames THEN partial ELSE partial + 1
        /\ header' = [header EXCEPT ![c] =
             [left |-> Max({0, AccountLimit - used'}), reset |-> resetIn, told |-> told]]
  BY DEF AccountAnswers
<1> DEFINE h == [left |-> Max({0, AccountLimit - used'}), reset |-> resetIn, told |-> told]
<1>1. used' \in Nat /\ used' = used + 1
  BY DEF AccountOK, AccountAnswers
<1>2. Max({0, AccountLimit - used'}) \in 0 .. AccountLimit
  BY <1>1, MaxOf, Numbers
<1>3. h \in Headers /\ h.left # None
  BY <1>2, Numbers DEF AccountOK, Headers
<1>4. header' = [header EXCEPT ![c] = h] /\ pc' = [pc EXCEPT ![c] = "answered"] /\ pc[c] = "sent"
      /\ UNCHANGED <<reserved, leaked, lock>>
  BY <1>0 DEF AccountAnswers
<1> HIDE DEF h
<1>5. CallsOK'
  <2>1. pc' \in [Calls -> {"idle", "sent", "answered", "closed"}] /\ header' \in [Calls -> Headers]
    BY <1>3, <1>4 DEF CallsOK
  <2>2. Flight'
    BY <1>3, <1>4 DEF CallsOK, Flight, InFlight, Answered, Calls, Serialized
  <2> QED
    BY <1>4, <2>1, <2>2 DEF CallsOK
<1>6. AccountOK'
  BY <1>0, <1>1 DEF AccountAnswers, AccountOK
<1> QED
  BY <1>5, <1>6 DEF AccountAnswers

LEMMA RecordGuard ==
  ASSUME GuardOK, CallsOK, AccountOK, NEW c \in Calls, Record(c)
  PROVE  GuardOK' /\ CallsOK' /\ AccountOK'
<1>1. PICK t \in Usages, limited \in BOOLEAN :
        /\ events' = Append(events, [age |-> 0, tokens |-> t])
        /\ pause' = IF limited THEN PauseTicks ELSE pause
  BY Numbers DEF Record
<1>2. /\ remaining' \in {header[c].left, remaining} /\ reset' \in {header[c].reset, reset}
      /\ tpm' \in {0, 1, tpm} /\ dated' \in BOOLEAN
      /\ stray' \in {stray, stray + 1} /\ torn' \in {torn, torn + 1}
      /\ UNCHANGED <<used, resetIn, bounds>>
  BY DEF Record
<1>3. header[c] \in Headers /\ pc[c] # "idle"
  BY DEF CallsOK, Record
<1>4. [age |-> 0, tokens |-> t] \in [age : 0..Window, tokens : Usages]
  BY Numbers
<1> DEFINE E == [age : 0..Window, tokens : Usages]
           e == [age |-> 0, tokens |-> t]
<1>5. events' \in Seq(E) /\ Ordered'
  <2>1. events \in Seq(E) /\ e \in E /\ events' = Append(events, e)
    BY <1>1, <1>4 DEF GuardOK
  <2>2. \A k \in DOMAIN events : events[k].age \in Nat
    <3>1. \A x \in E : x.age \in Nat
      BY Numbers
    <3> HIDE DEF E
    <3> QED
      BY <2>1, <3>1, LenProperties, ElementOfSeq
  <2>3. e.age = 0
    OBVIOUS
  <2> HIDE DEF E, e
  <2>4. /\ events' \in Seq(E) /\ DOMAIN events' = 1 .. Len(events) + 1 /\ DOMAIN events = 1 .. Len(events)
        /\ Len(events) \in Nat
        /\ \A k \in 1 .. Len(events) : events'[k] = events[k]
        /\ events'[Len(events) + 1] = e
    BY <2>1
  <2>5. ASSUME NEW i \in DOMAIN events', NEW j \in DOMAIN events', i <= j
        PROVE  events'[j].age <= events'[i].age
    <3>1. CASE j = Len(events) + 1
      BY <2>2, <2>3, <2>4, <3>1
    <3>2. CASE j \in 1 .. Len(events)
      <4>1. i \in 1 .. Len(events)
        BY <2>4, <2>5, <3>2
      <4>2. events[j].age <= events[i].age
        BY <2>4, <2>5, <3>2, <4>1 DEF GuardOK, Ordered
      <4> QED
        BY <2>4, <3>2, <4>1, <4>2
    <3> QED
      BY <2>4, <3>1, <3>2
  <2> QED
    BY <2>4, <2>5 DEF Ordered
<1>6. pause' \in 0..PauseTicks /\ reset' \in {None} \cup 0..Window /\ tpm' \in {None, 0, 1}
      /\ dated' \in BOOLEAN /\ remaining' \in {None} \cup 0..AccountLimit
  BY <1>1, <1>2, <1>3, Numbers, SMTT(30) DEF GuardOK, Headers
<1>7. CallsOK'
  <2>1. leaked' \in Nat /\ reserved' = reserved \ {c} /\ Over(c)
    BY DEF Record, CallsOK
  <2> QED
    BY <1>3, <2>1, OverCalls
<1>8. AccountOK'
  BY <1>2 DEF AccountOK, bounds
<1> QED
  BY <1>5, <1>6, <1>7, <1>8 DEF GuardOK

LEMMA TickGuard ==
  ASSUME BaseInv, Tick
  PROVE  GuardOK' /\ CallsOK' /\ AccountOK'
<1>1. events' \in Seq([age : 0..Window, tokens : Usages]) /\ Ordered'
  <2>1. events' = [k \in 1 .. Len(events) - Old |-> [events[k + Old] EXCEPT !.age = @ + 1]]
    BY DEF Tick, Old
  <2> QED
    BY <2>1, AgedEvents DEF BaseInv
<1>2. /\ pause \in 0..PauseTicks /\ reset \in {None} \cup 0..Window /\ remaining \in {None} \cup 0..AccountLimit
      /\ tpm \in {None, 0, 1}
  BY DEF BaseInv, TypeOK
<1>3. Max({0, pause - 1}) \in 0..PauseTicks /\ reset' \in {None} \cup 0..Window
  <2>1. PauseTicks \in Nat /\ Window \in Nat /\ pause - 1 \in Int
    BY <1>2, Numbers
  <2>2. reset' = IF reset <= 1 THEN None ELSE reset - 1
    BY DEF Tick
  <2> QED
    BY <1>2, <2>1, <2>2, MaxOf, Numbers
<1>4. GuardOK'
  BY <1>1, <1>2, <1>3 DEF Tick, GuardOK
<1>5. CallsOK'
  BY BaseParts DEF Tick, CallsOK, Flight, InFlight, Answered
<1>6. AccountOK'
  BY BaseParts, Numbers, SMTT(30) DEF Tick, AccountOK, bounds
<1> QED
  BY <1>4, <1>5, <1>6

(* The calls that may be in flight at one time: the health checks, and the *)
(* one call that holds the device lock.                                    *)
N == Cardinality(HealthCalls) + 1

LEMMA FlightBound ==
  ASSUME CallsOK
  PROVE  /\ N \in Nat \ {0}
         /\ IsFiniteSet(InFlight) /\ Cardinality(InFlight) \in 0 .. N
         /\ Sent \subseteq InFlight /\ Answered \subseteq InFlight /\ InFlight \subseteq Calls
         /\ IsFiniteSet(Sent) /\ IsFiniteSet(Answered)
         /\ Cardinality(InFlight) = Cardinality(Sent) + Cardinality(Answered)
         /\ Cardinality(Sent) \in Nat /\ Cardinality(Answered) \in Nat
<1> DEFINE B == HealthCalls \cup {lock}
<1>1. N \in Nat \ {0}
  BY QuotaAssumption, FS_CardinalityType DEF N
<1>2. IsFiniteSet(B) /\ Cardinality(B) \in 0 .. N
  <2>1. IsFiniteSet(B)
    BY QuotaAssumption, FS_AddElement
  <2>2. Cardinality(B) = IF lock \in HealthCalls THEN Cardinality(HealthCalls) ELSE Cardinality(HealthCalls) + 1
    BY QuotaAssumption, FS_AddElement
  <2>3. Cardinality(HealthCalls) \in Nat
    BY QuotaAssumption, FS_CardinalityType
  <2> QED
    BY <2>1, <2>2, <2>3 DEF N
<1>3. InFlight \subseteq B
  BY DEF CallsOK, Flight, InFlight, Calls, Serialized
<1>4. IsFiniteSet(InFlight) /\ Cardinality(InFlight) <= Cardinality(B) /\ Cardinality(InFlight) \in Nat
  <2> HIDE DEF B
  <2> QED
    BY <1>2, <1>3, FS_Subset, FS_CardinalityType
<1>5. Sent \subseteq InFlight /\ Answered \subseteq InFlight /\ InFlight \subseteq Calls
      /\ InFlight = Sent \cup Answered /\ Sent \cap Answered = {}
  BY DEF CallsOK, Sent, Answered, InFlight
<1>6. IsFiniteSet(Sent) /\ IsFiniteSet(Answered)
  BY <1>4, <1>5, FS_Subset
<1>7. Cardinality(Sent) \in Nat /\ Cardinality(Answered) \in Nat
  BY <1>6, FS_CardinalityType
<1>8. Cardinality(InFlight) = Cardinality(Sent) + Cardinality(Answered)
  <2>1. Cardinality(Sent \cup Answered)
          = Cardinality(Sent) + Cardinality(Answered) - Cardinality(Sent \cap Answered)
    BY <1>6, FS_Union
  <2>2. Cardinality(Sent \cap Answered) = 0
    BY <1>5, FS_EmptySet
  <2> QED
    BY <1>5, <1>7, <2>1, <2>2
<1> QED
  BY <1>1, <1>2, <1>4, <1>5, <1>6, <1>7, <1>8

LEMMA LoseCall ==
  ASSUME CallsOK, AccountOK, NEW c \in Calls, Lose(c) \/ Leak(c)
  PROVE  CallsOK' /\ AccountOK' /\ UNCHANGED window
<1>1. Over(c) /\ reserved' = reserved \ {c} /\ leaked' \in Nat /\ pc[c] # "idle" /\ UNCHANGED window
  BY DEF Lose, Leak, CallsOK
<1>2. AccountOK'
  BY DEF Lose, Leak, AccountOK
<1> QED
  BY <1>1, <1>2, OverCalls

LEMMA CrashCalls ==
  ASSUME CallsOK, AccountOK, Crash
  PROVE  CallsOK' /\ AccountOK' /\ UNCHANGED window
<1>1. PICK counted \in SUBSET Sent :
        /\ used' = used + Cardinality(counted)
        /\ stray' = stray + Cardinality(counted) + Cardinality(Answered)
  BY DEF Crash, Sent, Answered
<1>2. Cardinality(counted) \in Nat /\ Cardinality(Answered) \in Nat
  BY FlightBound, FS_Subset, FS_CardinalityType
<1>3. AccountOK'
  BY <1>1, <1>2 DEF AccountOK, Crash
<1>4. CallsOK'
  <2>1. /\ reserved' = {} /\ leaked' = 0 /\ pc' = [c \in Calls |-> "idle"]
        /\ header' = [c \in Calls |-> NoAnswer] /\ lock' = NoCall
    BY DEF Crash
  <2>2. InFlight' = {} /\ Answered' = {}
    BY <2>1 DEF InFlight, Answered
  <2>3. Flight'
    BY <2>1, <2>2, Numbers DEF Flight
  <2> QED
    BY <2>1, <2>3, Numbers DEF CallsOK
<1> QED
  BY <1>3, <1>4 DEF Crash

LEMMA NextBase ==
  ASSUME BaseInv, [Next]_vars
  PROVE  BaseInv'
<1>0. GuardOK /\ CallsOK /\ AccountOK
  BY BaseParts
<1>1. SUFFICES GuardOK' /\ CallsOK' /\ AccountOK'
  BY DEF BaseInv, TypeOK, GuardOK, CallsOK, AccountOK, Headers
<1>2. CASE \E c \in Calls : TakeLock(c) \/ Refuse(c) \/ Reserve(c) \/ CloseClient(c)
  BY <1>0, <1>2, StartCalls, SameGuard, SameAccount
<1>3. CASE \E c \in Calls : AccountAnswers(c)
  BY <1>0, <1>3, AnswerCall, SameGuard
<1>4. CASE \E c \in Calls : Record(c)
  BY <1>0, <1>4, RecordGuard
<1>5. CASE \E c \in Calls : Lose(c) \/ Leak(c)
  BY <1>0, <1>5, LoseCall, SameGuard
<1>6. CASE Tick
  BY <1>6, TickGuard
<1>7. CASE Crash
  BY <1>0, <1>7, CrashCalls, SameGuard
<1>8. CASE UNCHANGED vars
  BY <1>0, <1>8, SameGuard, SameAccount
     DEF vars, CallsOK, Flight, InFlight, Answered
<1> QED
  BY <1>2, <1>3, <1>4, <1>5, <1>6, <1>7, <1>8 DEF Next, Progress

LEMMA InitBase == Init => BaseInv
<1> SUFFICES ASSUME Init
             PROVE  GuardOK /\ CallsOK /\ AccountOK
  BY BaseParts
<1>1. GuardOK
  <2>1. events = <<>> /\ pause = 0 /\ remaining = None /\ reset = None /\ tpm = None /\ dated = FALSE
    BY DEF Init
  <2>2. events \in Seq([age : 0..Window, tokens : Usages]) /\ Ordered
    BY <2>1 DEF Ordered
  <2>3. 0 \in 0..PauseTicks
    BY Numbers
  <2> QED
    BY <2>1, <2>2, <2>3 DEF GuardOK
<1>2. CallsOK
  BY Numbers DEF Init, CallsOK, Flight, InFlight, Answered
<1>3. AccountOK
  BY Numbers DEF Init, AccountOK
<1> QED
  BY <1>1, <1>2, <1>3

\* The state of the guard, its callers and the account keeps its types, and the
\* file of the guard holds the answers of the last 24 hours, the oldest first.
THEOREM Invariance == Spec => []BaseInv
<1> QED
  BY InitBase, NextBase, PTL DEF Spec

---------------------------------------------------------------------------
(* The stop fractions.  A reservation is for the estimate of its call, so  *)
(* what counts against the stop is, for an answer, no more than the        *)
(* estimate: what it used beyond is in the excess of ReserveKept.          *)

Spent     == [k \in DOMAIN events |-> events[k].tokens]
Estimated == [k \in DOMAIN events |-> IF events[k].tokens > Estimate THEN Estimate ELSE events[k].tokens]

StopInv ==
  /\ Len(events) + Reservations <= RequestStop
  /\ Total(Estimated, Len(events)) + Estimate * TokenReservations <= TokenStop

LEMMA Amounts ==
  ASSUME TypeOK
  PROVE  /\ Len(events) \in Nat
         /\ \A k \in 1 .. Len(events) : /\ Spent[k] \in Nat /\ Estimated[k] \in Nat
                                        /\ Estimated[k] <= Spent[k]
         /\ UsedTokens = Total(Spent, Len(events))
         /\ Total(Spent, Len(events)) \in Nat /\ Total(Estimated, Len(events)) \in Nat
         /\ Total(Estimated, Len(events)) <= UsedTokens
<1> DEFINE n == Len(events)
<1>1. n \in Nat /\ DOMAIN events = 1 .. n /\ \A k \in 1 .. n : events[k].tokens \in Nat
  BY TypedEvents
<1>2. \A k \in 1 .. n : Spent[k] \in Nat /\ Estimated[k] \in Nat /\ Estimated[k] <= Spent[k]
  BY <1>1, Numbers DEF Spent, Estimated
<1>3. UsedTokens = Total(Spent, n)
  BY DEF UsedTokens, Spent
<1>4. Total(Spent, n) \in Nat /\ Total(Estimated, n) \in Nat
  <2>1. n \in 0 .. n
    BY <1>1
  <2> HIDE DEF n
  <2> QED
    BY <1>1, <1>2, <2>1, TotalOf
<1>5. Total(Estimated, n) <= Total(Spent, n)
  <2> HIDE DEF n
  <2> QED
    BY <1>1, <1>2, TotalLeast
<1> QED
  BY <1>1, <1>2, <1>3, <1>4, <1>5

LEMMA Counts ==
  ASSUME CallsOK
  PROVE  /\ Cardinality(reserved) \in Nat /\ Cardinality(reserved \cap Serialized) \in Nat
         /\ IsFiniteSet(reserved) /\ IsFiniteSet(reserved \cap Serialized)
         /\ Reservations \in Nat /\ TokenReservations \in Nat
<1>1. IsFiniteSet(reserved)
  BY FlightBound DEF CallsOK, Flight
<1>2. IsFiniteSet(reserved \cap Serialized)
  BY <1>1, FS_Subset
<1>3. Cardinality(reserved) \in Nat /\ Cardinality(reserved \cap Serialized) \in Nat
  BY <1>1, <1>2, FS_CardinalityType
<1> QED
  BY <1>1, <1>2, <1>3 DEF CallsOK, Reservations, TokenReservations

(* The events stay, and no reservation is added.                           *)
LEMMA FewerReservations ==
  ASSUME BaseInv, StopInv, BaseInv', UNCHANGED events,
         Reservations' <= Reservations, TokenReservations' <= TokenReservations
  PROVE  StopInv'
<1>1. Estimated' = Estimated /\ Len(events') = Len(events)
  BY DEF Estimated
<1>2. Reservations \in Nat /\ TokenReservations \in Nat
  BY BaseParts, Counts
<1>3. CallsOK'
  BY DEF BaseInv, TypeOK, CallsOK, Headers
<1>4. Reservations' \in Nat /\ TokenReservations' \in Nat
  <2>1. IsFiniteSet(reserved') /\ leaked' \in Nat
    <3>1. IsFiniteSet(InFlight')
      <4>1. InFlight' \subseteq HealthCalls \cup {lock'}
        BY <1>3 DEF CallsOK, Flight, InFlight, Calls, Serialized
      <4>2. IsFiniteSet(HealthCalls \cup {lock'})
        BY QuotaAssumption, FS_AddElement
      <4> QED
        BY <4>1, <4>2, FS_Subset
    <3> QED
      BY <1>3, <3>1 DEF CallsOK, Flight
  <2>2. Cardinality(reserved') \in Nat /\ Cardinality(reserved' \cap Serialized) \in Nat
    BY <2>1, FS_Subset, FS_CardinalityType
  <2> QED
    BY <2>1, <2>2 DEF Reservations, TokenReservations
<1>5. Estimate * TokenReservations' <= Estimate * TokenReservations
      /\ Estimate * TokenReservations \in Nat /\ Estimate * TokenReservations' \in Nat
  <2> DEFINE a == TokenReservations'
             b == TokenReservations
  <2>1. a \in Nat /\ b \in Nat /\ a <= b /\ Estimate \in Nat
    BY <1>2, <1>4, Numbers
  <2> HIDE DEF a, b
  <2>2. Estimate * a <= Estimate * b /\ Estimate * a \in Nat /\ Estimate * b \in Nat
    BY <2>1
  <2> QED
    BY <2>2 DEF a, b
<1>6. Len(events) \in Nat /\ Total(Estimated, Len(events)) \in Nat
  BY Amounts DEF BaseInv
<1>7. Len(events') + Reservations' <= RequestStop
  BY <1>1, <1>2, <1>4, <1>6, Numbers, SMTT(30) DEF StopInv
<1>8. Total(Estimated', Len(events')) + Estimate * TokenReservations' <= TokenStop
  BY <1>1, <1>5, <1>6, Numbers DEF StopInv
<1> QED
  BY <1>7, <1>8 DEF StopInv

LEMMA EndReservations ==
  ASSUME CallsOK, NEW c \in Calls, pc[c] # "idle", reserved' = reserved \ {c}
  PROVE  /\ Cardinality(reserved') = Cardinality(reserved) - 1
         /\ Cardinality(reserved' \cap Serialized)
              = Cardinality(reserved \cap Serialized) - (IF c \in Serialized THEN 1 ELSE 0)
<1>1. c \in reserved
  BY DEF CallsOK, Flight, InFlight
<1>2. Cardinality(reserved \ {c}) = Cardinality(reserved) - 1
  BY <1>1, Counts, FS_RemoveElement
<1> DEFINE T == reserved \cap Serialized
           k == Cardinality(T)
<1>3. reserved' \cap Serialized = T \ {c}
  OBVIOUS
<1>4. k \in Nat /\ IsFiniteSet(T)
  BY Counts
<1>5. Cardinality(T \ {c}) = IF c \in T THEN k - 1 ELSE k
  <2> HIDE DEF T
  <2> QED
    BY <1>4, FS_RemoveElement
<1>6. c \in T <=> c \in Serialized
  BY <1>1
<1> HIDE DEF T, k
<1>7. Cardinality(reserved' \cap Serialized) = k - (IF c \in Serialized THEN 1 ELSE 0)
  BY <1>3, <1>4, <1>5, <1>6
<1> QED
  BY <1>2, <1>7 DEF T, k

LEMMA ReserveStops ==
  ASSUME BaseInv, StopInv, NEW c \in Calls, Reserve(c)
  PROVE  StopInv'
<1>0. CallsOK
  BY BaseParts
<1>1. c \notin reserved /\ reserved' = reserved \cup {c} /\ UNCHANGED <<events, leaked>>
  BY <1>0 DEF CallsOK, Flight, InFlight, Reserve, window
<1>2. Reservations \in Nat /\ TokenReservations \in Nat
  BY <1>0, Counts
<1>3. Reservations' = Reservations + 1
  <2>1. Cardinality(reserved') = Cardinality(reserved) + 1
    BY <1>0, <1>1, Counts, FS_AddElement
  <2>2. Cardinality(reserved) \in Nat /\ leaked \in Nat
    BY <1>0, Counts DEF CallsOK
  <2> QED
    BY <1>1, <2>1, <2>2 DEF Reservations
<1>4. TokenReservations' = TokenReservations + (IF c \in Serialized THEN 1 ELSE 0)
  <2> DEFINE T == reserved \cap Serialized
             k == Cardinality(T)
  <2>1. reserved' \cap Serialized = IF c \in Serialized THEN T \cup {c} ELSE T
    BY <1>1
  <2>2. k \in Nat /\ IsFiniteSet(T) /\ c \notin T /\ leaked \in Nat
    BY <1>0, <1>1, Counts DEF CallsOK
  <2>3. Cardinality(T \cup {c}) = k + 1
    <3> HIDE DEF T
    <3> QED
      BY <2>2, FS_AddElement
  <2>4. TokenReservations = k + leaked
    BY DEF TokenReservations
  <2> HIDE DEF T
  <2>5. TokenReservations' = (IF c \in Serialized THEN k + 1 ELSE k) + leaked
    BY <1>1, <2>1, <2>3 DEF TokenReservations
  <2> HIDE DEF k
  <2> QED
    BY <2>2, <2>4, <2>5
<1>5. Len(events) + Reservations + 1 <= RequestStop
      /\ UsedTokens + Estimate * TokenReservations + EstimateOf(c) <= TokenStop
  <2>1. ~RequestReserve /\ ~TokenReserve(c)
    BY DEF Reserve, Paused
  <2>2. Len(events) \in Nat /\ UsedTokens \in Nat /\ EstimateOf(c) \in Nat
    BY Amounts, Numbers DEF BaseInv, EstimateOf
  <2>3. Estimate * TokenReservations \in Nat
    BY <1>2, Numbers
  <2> DEFINE m == Len(events) + Reservations + 1
             t == UsedTokens + Estimate * TokenReservations + EstimateOf(c)
  <2>4. ~(m > RequestStop) /\ ~(t > TokenStop)
    BY <2>1 DEF RequestReserve, TokenReserve
  <2>5. m \in Nat
    BY <1>2, <2>2
  <2>6. t \in Nat
    BY <2>2, <2>3
  <2>7. RequestStop \in Nat /\ TokenStop \in Nat
    BY Numbers
  <2> HIDE DEF m, t
  <2>8. m <= RequestStop /\ t <= TokenStop
    BY <2>4, <2>5, <2>6, <2>7
  <2> QED
    BY <2>8 DEF m, t
<1>6. Estimated' = Estimated /\ Len(events') = Len(events)
  BY <1>1 DEF Estimated
<1>7. Estimate * TokenReservations' = Estimate * TokenReservations + EstimateOf(c)
  <2> DEFINE a == TokenReservations
  <2>1. a \in Nat /\ Estimate \in Nat
    BY <1>2, Numbers
  <2>2. EstimateOf(c) = IF c \in Serialized THEN Estimate ELSE 0
    BY QuotaAssumption DEF EstimateOf, Calls, Serialized
  <2> HIDE DEF a
  <2>3. Estimate * (a + 1) = Estimate * a + Estimate /\ Estimate * (a + 0) = Estimate * a
        /\ Estimate * a \in Nat
    BY <2>1
  <2>4. TokenReservations' = a + (IF c \in Serialized THEN 1 ELSE 0)
    BY <1>4 DEF a
  <2>5. CASE c \in Serialized
    BY <2>2, <2>3, <2>4, <2>5 DEF a
  <2>6. CASE c \notin Serialized
    BY <2>1, <2>2, <2>3, <2>4, <2>6 DEF a
  <2> QED
    BY <2>5, <2>6
<1>8. /\ Len(events) \in Nat /\ Total(Estimated, Len(events)) \in Nat /\ UsedTokens \in Nat
      /\ Total(Estimated, Len(events)) <= UsedTokens
  BY Amounts DEF BaseInv
<1>9. Len(events') + Reservations' <= RequestStop
  BY <1>2, <1>3, <1>5, <1>6, <1>8
<1>10. Total(Estimated', Len(events')) + Estimate * TokenReservations' <= TokenStop
  <2>1. Estimate * TokenReservations \in Nat /\ EstimateOf(c) \in Nat
    BY <1>2, Numbers DEF EstimateOf
  <2> QED
    BY <1>5, <1>6, <1>7, <1>8, <2>1, Numbers, SMTT(30)
<1> QED
  BY <1>9, <1>10 DEF StopInv

LEMMA RecordStops ==
  ASSUME BaseInv, StopInv, NEW c \in Calls, Record(c)
  PROVE  StopInv'
<1>0. CallsOK /\ pc[c] # "idle"
  BY BaseParts DEF Record
<1>1. reserved' = reserved \ {c} /\ leaked' = leaked
  BY DEF Record
<1>2. Reservations \in Nat /\ TokenReservations \in Nat
  BY <1>0, Counts
<1>3. /\ Reservations' = Reservations - 1
      /\ TokenReservations' = TokenReservations - (IF c \in Serialized THEN 1 ELSE 0)
  <2> DEFINE k == Cardinality(reserved)
             l == Cardinality(reserved \cap Serialized)
  <2>1. k \in Nat /\ l \in Nat /\ leaked \in Nat
    BY <1>0, Counts DEF CallsOK
  <2>2. Reservations = k + leaked /\ TokenReservations = l + leaked
    BY DEF Reservations, TokenReservations
  <2>3. Reservations' = (k - 1) + leaked
        /\ TokenReservations' = (l - (IF c \in Serialized THEN 1 ELSE 0)) + leaked
    BY <1>0, <1>1, EndReservations DEF Reservations, TokenReservations
  <2> HIDE DEF k, l
  <2> QED
    BY <2>1, <2>2, <2>3
<1>4. PICK t \in Usages :
        /\ events' = Append(events, [age |-> 0, tokens |-> t])
        /\ c \notin Serialized => t = 0
  <2>1. c \notin Serialized => c \in HealthCalls
    BY DEF Calls, Serialized
  <2>2. PICK t \in IF c \in HealthCalls THEN {0} ELSE Usages : events' = Append(events, [age |-> 0, tokens |-> t])
    BY DEF Record
  <2> QED
    BY <2>1, <2>2, Numbers
<1> DEFINE n == Len(events)
           u == IF t > Estimate THEN Estimate ELSE t
<1>5. n \in Nat /\ Len(events') = n + 1 /\ DOMAIN events' = 1 .. n + 1 /\ DOMAIN events = 1 .. n
      /\ (\A k \in 1 .. n : events'[k] = events[k]) /\ events'[n + 1].tokens = t
  <2> DEFINE E == [age : 0..Window, tokens : Usages]
  <2>1. events \in Seq(E) /\ n \in Nat /\ DOMAIN events = 1 .. n
    BY TypedEvents DEF BaseInv, TypeOK
  <2> HIDE DEF E
  <2> QED
    BY <1>4, <2>1
<1>6. t \in Nat /\ u \in Nat /\ u <= Estimate /\ (c \notin Serialized => u = 0)
  BY <1>4, Numbers
<1>7. \A k \in 1 .. n : Estimated[k] \in Nat /\ Estimated'[k] = Estimated[k]
  BY <1>5, Amounts DEF BaseInv, Estimated
<1>8. Estimated'[n + 1] = u
  BY <1>5 DEF Estimated
<1>9. Total(Estimated', n + 1) = Total(Estimated, n) + u
  <2>1. \A k \in 1 .. n + 1 : Estimated'[k] \in Nat
    <3> HIDE DEF n, u
    <3> QED
      BY <1>5, <1>6, <1>7, <1>8
  <2>2. Total(Estimated', n) = Total(Estimated, n)
    <3> DEFINE f == Estimated
               h == Estimated'
    <3>1. \A k \in 1 .. n : f[k] \in Nat /\ h[k] = f[k]
      BY <1>7
    <3> HIDE DEF f, h, n
    <3>2. Total(h, n) = Total(f, n)
      BY <1>5, <3>1, TotalEqual
    <3> QED
      BY <3>2 DEF f, h
  <2>3. Total(Estimated', n + 1) = Total(Estimated', (n + 1) - 1) + Estimated'[n + 1]
    <3> DEFINE h == Estimated'
    <3>1. n + 1 \in Nat /\ n + 1 \in 1 .. n + 1 /\ \A k \in 1 .. n + 1 : h[k] \in Nat
      BY <1>5, <2>1
    <3> HIDE DEF h, n
    <3>2. Total(h, n + 1) = Total(h, (n + 1) - 1) + h[n + 1]
      BY <3>1, TotalOf
    <3> QED
      BY <3>2 DEF h
  <2>4. (n + 1) - 1 = n
    BY <1>5
  <2> QED
    BY <1>8, <2>2, <2>3, <2>4
<1>10. Estimate * TokenReservations' + u <= Estimate * TokenReservations
       /\ Estimate * TokenReservations' \in Int /\ Estimate * TokenReservations \in Nat
  <2> DEFINE a == TokenReservations
  <2>1. a \in Nat /\ Estimate \in Nat
    BY <1>2, Numbers
  <2>2. TokenReservations' = a - (IF c \in Serialized THEN 1 ELSE 0)
    BY <1>3
  <2> HIDE DEF a, u
  <2>3. Estimate * (a - 1) = Estimate * a - Estimate /\ Estimate * (a - 0) = Estimate * a
        /\ Estimate * a \in Nat
    BY <2>1
  <2>4. CASE c \in Serialized
    BY <1>6, <2>1, <2>2, <2>3, <2>4 DEF a
  <2>5. CASE c \notin Serialized
    BY <1>6, <2>1, <2>2, <2>3, <2>5 DEF a
  <2> QED
    BY <2>4, <2>5
<1>11. Total(Estimated, n) \in Nat
  BY Amounts DEF BaseInv
<1>12. Len(events') + Reservations' <= RequestStop
  BY <1>2, <1>3, <1>5, Numbers DEF StopInv
<1>13. Total(Estimated', Len(events')) + Estimate * TokenReservations' <= TokenStop
  <2>1. Total(Estimated, n) + Estimate * TokenReservations <= TokenStop
    BY DEF StopInv
  <2> HIDE DEF n, u
  <2> QED
    BY <1>5, <1>6, <1>9, <1>10, <1>11, <2>1, Numbers, SMTT(30)
<1> QED
  BY <1>12, <1>13 DEF StopInv

LEMMA TickStops ==
  ASSUME BaseInv, StopInv, Tick
  PROVE  StopInv'
<1> DEFINE n == Len(events)
           d == Old
<1>1. events' = [k \in 1 .. n - d |-> [events[k + d] EXCEPT !.age = @ + 1]]
  BY DEF Tick, Old
<1>2. n \in Nat /\ d \in 0 .. n
  BY Amounts, OldEvents DEF BaseInv
<1>3. /\ events' \in Seq([age : 0..Window, tokens : Usages]) /\ Len(events') = n - d
      /\ \A k \in 1 .. n - d : events'[k].tokens = events[k + d].tokens
  BY <1>1, AgedEvents DEF BaseInv
<1>4. \A k \in 1 .. n - d : Estimated'[k] = Estimated[k + d]
  <2>1. DOMAIN events' = 1 .. n - d /\ DOMAIN events = 1 .. n
    BY <1>1, TypedEvents DEF BaseInv
  <2> QED
    BY <1>2, <1>3, <2>1 DEF Estimated
<1>5. Total(Estimated', n - d) <= Total(Estimated, n)
  <2> DEFINE f == Estimated
             h == Estimated'
  <2>1. (\A k \in 1 .. n : f[k] \in Nat) /\ \A k \in 1 .. n - d : h[k] = f[k + d]
    BY <1>4, Amounts DEF BaseInv
  <2> HIDE DEF f, h, n, d
  <2>2. Total(h, n - d) <= Total(f, n)
    BY <1>2, <2>1, TotalSuffix
  <2> QED
    BY <2>2 DEF f, h
<1>6. Total(Estimated, n) \in Nat /\ Total(Estimated', n - d) \in Nat
  <2> DEFINE h == Estimated'
  <2>1. Total(Estimated, n) \in Nat /\ \A k \in 1 .. n : Estimated[k] \in Nat
    BY Amounts DEF BaseInv
  <2>2. n - d \in Nat /\ n - d \in 0 .. n - d
    BY <1>2
  <2>3. \A k \in 1 .. n - d : h[k] \in Nat
    <3>1. \A k \in 1 .. n - d : k + d \in 1 .. n
      BY <1>2
    <3> HIDE DEF n, d
    <3> QED
      BY <1>4, <2>1, <3>1
  <2> HIDE DEF h, n, d
  <2>4. Total(h, n - d) \in Nat
    BY <2>2, <2>3, TotalOf
  <2> QED
    BY <2>1, <2>4 DEF h, n
<1>7. Reservations' = Reservations /\ TokenReservations' = TokenReservations
      /\ Reservations \in Nat /\ Estimate * TokenReservations \in Nat
  <2>1. Reservations \in Nat /\ TokenReservations \in Nat
    BY BaseParts, Counts
  <2> QED
    BY <2>1, Numbers DEF Tick, Reservations, TokenReservations
<1>8. Len(events') + Reservations' <= RequestStop
  BY <1>2, <1>3, <1>7, Numbers DEF StopInv
<1>9. Total(Estimated', Len(events')) + Estimate * TokenReservations' <= TokenStop
  <2>1. Total(Estimated, n) + Estimate * TokenReservations <= TokenStop
    BY DEF StopInv
  <2> HIDE DEF n, d
  <2> QED
    BY <1>3, <1>5, <1>6, <1>7, <2>1, Numbers
<1> QED
  BY <1>8, <1>9 DEF StopInv

LEMMA NextStops ==
  ASSUME BaseInv, StopInv, [Next]_vars
  PROVE  StopInv'
<1>0. CallsOK /\ AccountOK /\ BaseInv'
  BY BaseParts, NextBase
<1>1. Reservations \in Nat /\ TokenReservations \in Nat
  BY <1>0, Counts
<1>2. ASSUME UNCHANGED <<events, reserved, leaked>>
      PROVE  StopInv'
  <2>1. Reservations' = Reservations /\ TokenReservations' = TokenReservations
    BY <1>2 DEF Reservations, TokenReservations
  <2> QED
    BY <1>0, <1>1, <1>2, <2>1, FewerReservations
<1>3. CASE \E c \in Calls : TakeLock(c) \/ Refuse(c) \/ CloseClient(c) \/ AccountAnswers(c)
  <2>1. UNCHANGED <<events, reserved, leaked>>
    BY <1>3 DEF TakeLock, Refuse, CloseClient, AccountAnswers, window
  <2> QED
    BY <1>2, <2>1
<1>4. CASE \E c \in Calls : Reserve(c)
  BY <1>4, ReserveStops
<1>5. CASE \E c \in Calls : Record(c)
  BY <1>5, RecordStops
<1>6. ASSUME NEW c \in Calls, Lose(c) \/ Leak(c)
      PROVE  StopInv'
  <2> DEFINE k == Cardinality(reserved)
             l == Cardinality(reserved \cap Serialized)
  <2>1. k \in Nat /\ l \in Nat /\ leaked \in Nat
    BY <1>0, Counts DEF CallsOK
  <2>2. Reservations = k + leaked /\ TokenReservations = l + leaked
    BY DEF Reservations, TokenReservations
  <2>3. reserved' = reserved \ {c} /\ pc[c] # "idle" /\ UNCHANGED events
    BY <1>6 DEF Lose, Leak, window
  <2>4. leaked' = leaked \/ (leaked' = leaked + 1 /\ c \in Serialized)
    BY <1>6 DEF Lose, Leak, Serialized
  <2>5. Reservations' = (k - 1) + leaked'
        /\ TokenReservations' = (l - (IF c \in Serialized THEN 1 ELSE 0)) + leaked'
    BY <1>0, <2>3, EndReservations DEF Reservations, TokenReservations
  <2> HIDE DEF k, l
  <2>6. Reservations' <= Reservations /\ TokenReservations' <= TokenReservations
    BY <2>1, <2>2, <2>4, <2>5
  <2> QED
    BY <1>0, <2>3, <2>6, FewerReservations
<1>7. CASE Tick
  BY <1>7, TickStops
<1>8. CASE Crash
  <2>1. reserved' = {} /\ leaked' = 0 /\ UNCHANGED events
    BY <1>8 DEF Crash, window
  <2>2. Reservations' = 0 /\ TokenReservations' = 0
    <3>1. {} \cap Serialized = {} /\ Cardinality({}) = 0
      BY FS_EmptySet
    <3> QED
      BY <2>1, <3>1 DEF Reservations, TokenReservations
  <2> QED
    BY <1>0, <1>1, <2>1, <2>2, FewerReservations
<1>9. CASE UNCHANGED vars
  BY <1>2, <1>9 DEF vars, window
<1> QED
  BY <1>3, <1>4, <1>5, <1>6, <1>7, <1>8, <1>9 DEF Next, Progress

LEMMA InitStops == Init => StopInv
<1> SUFFICES ASSUME Init
             PROVE  StopInv
  OBVIOUS
<1>1. events = <<>> /\ reserved = {} /\ leaked = 0
  BY DEF Init
<1>2. {} \cap Serialized = {} /\ Cardinality({}) = 0
  BY FS_EmptySet
<1>3. Reservations = 0 /\ TokenReservations = 0 /\ Len(events) = 0
  BY <1>1, <1>2 DEF Reservations, TokenReservations
<1>4. Total(Estimated, 0) = 0
  BY TotalOf
<1>5. Estimate * 0 = 0
  BY Numbers
<1> QED
  BY <1>3, <1>4, <1>5, Numbers DEF StopInv

\* Concurrent callers of reserve_request never pass the same snapshot: at every
\* moment the answers of the last 24 hours and the requests in flight, leaked
\* reservations included, stay within the stop fractions of requests and of
\* tokens, but for what single answers used beyond their estimate.
THEOREM ReserveSafe == Spec => []ReserveKept
<1>1. ASSUME BaseInv, StopInv
      PROVE  ReserveKept
  <2> DEFINE n == Len(events)
             B == {k \in DOMAIN events : events[k].tokens > Estimate}
  <2>1. n \in Nat /\ DOMAIN events = 1 .. n
        /\ \A k \in 1 .. n : events[k].tokens \in Nat /\ events[k].tokens <= Estimate + Overshoot
    BY <1>1, TypedEvents DEF BaseInv
  <2>2. \A k \in 1 .. n : /\ Spent[k] \in Nat /\ Estimated[k] \in Nat
                          /\ Spent[k] <= Estimated[k] + (IF k \in B THEN Overshoot ELSE 0)
    BY <2>1, Numbers DEF Spent, Estimated
  <2>3. B \subseteq 1 .. n /\ Overshoot \in Nat /\ Estimate \in Nat /\ TokenStop \in Nat
    BY <2>1, Numbers
  <2>4. Total(Spent, n) <= Total(Estimated, n) + Overshoot * Cardinality(B)
    <3> HIDE DEF n, B
    <3> QED
      BY <2>1, <2>2, <2>3, TotalBound
  <2>5. UsedTokens = Total(Spent, n) /\ UsedTokens \in Nat /\ Total(Estimated, n) \in Nat
    BY <1>1, Amounts DEF BaseInv
  <2>6. Overshoot * Cardinality(B) \in Nat
    <3>1. IsFiniteSet(1 .. n)
      BY <2>1, FS_Interval
    <3>2. Cardinality(B) \in Nat
      BY <2>3, <3>1, FS_Subset, FS_CardinalityType
    <3> QED
      BY <2>3, <3>2
  <2>7. Estimate * TokenReservations \in Nat
    BY <1>1, <2>3, BaseParts, Counts
  <2>8. Total(Estimated, n) + Estimate * TokenReservations <= TokenStop
    BY <1>1 DEF StopInv
  <2> HIDE DEF n, B
  <2>9. UsedTokens + Estimate * TokenReservations <= TokenStop + Overshoot * Cardinality(B)
    BY <2>3, <2>4, <2>5, <2>6, <2>7, <2>8
  <2> QED
    BY <1>1, <2>9 DEF ReserveKept, StopInv, B
<1>2. BaseInv /\ StopInv /\ [Next]_vars => (BaseInv /\ StopInv)'
  BY NextBase, NextStops
<1>3. Init => BaseInv /\ StopInv
  BY InitBase, InitStops
<1> QED
  BY <1>1, <1>2, <1>3, PTL DEF Spec

---------------------------------------------------------------------------
(* The reserve of the account.  Headers lag: an answer that is recorded    *)
(* late tells of more requests than are left, and opens the guard again.   *)
(* Opens says for how many calls, at most, the headers (left, r) would     *)
(* open it when the account is reset in t ticks; the headers of an earlier *)
(* period expire early.  A set of answers that wait to be recorded claims, *)
(* one after another, what they open, less one request for each of them    *)
(* that is then still in flight; the invariant is that what is left of the *)
(* account pays for the claims of every set of answers and for the room    *)
(* the guard gives now.                                                    *)

Capped(x)         == IF x < 0 THEN 0 ELSE IF x > N THEN N ELSE x
Opens(left, r, t) == IF left = None \/ r < t THEN N ELSE Capped(left - AccountStop)
Beyond(g, f)      == IF g > f THEN g - f ELSE 0
Weight            == [c \in Calls |-> Opens(header[c].left, header[c].reset, resetIn)]
Gate              == Opens(remaining, reset, resetIn)
Room              == Beyond(Gate, Cardinality(InFlight))
Slack             == stray + N * torn
Spare             == AccountLimit - used + Slack - Cardinality(Sent) - AccountStop
Claims(S, w)      == {p \in S \X (1 .. N) : p[2] <= w[p[1]]}

Pays(S, w, x, r) ==
  2 * x >= 2 * Cardinality(Claims(S, w)) - Cardinality(S) * (Cardinality(S) - 1) + 2 * r - N * (N - 1)
Covered(T, w, x, r) == \A S \in SUBSET T : Pays(S, w, x, r)

AccountInv == Covered(Answered, Weight, Spare, Room)

LEMMA ClaimsFinite ==
  ASSUME N \in Nat, NEW S, IsFiniteSet(S), NEW w
  PROVE  /\ IsFiniteSet(Claims(S, w)) /\ Cardinality(Claims(S, w)) \in Nat
         /\ Cardinality(S) \in Nat /\ Cardinality(Claims(S, w)) <= Cardinality(S) * N
<1>1. IsFiniteSet(1 .. N) /\ Cardinality(1 .. N) = N
  BY FS_Interval
<1>2. IsFiniteSet(S \X (1 .. N)) /\ Cardinality(S \X (1 .. N)) = Cardinality(S) * N
  BY <1>1, FS_Product
<1>3. Claims(S, w) \subseteq S \X (1 .. N)
  BY DEF Claims
<1> QED
  BY <1>2, <1>3, FS_Subset, FS_CardinalityType

LEMMA ClaimsMore ==
  ASSUME N \in Nat, NEW S, IsFiniteSet(S), NEW w, NEW v, \A c \in S : v[c] \in Nat /\ w[c] \in Nat /\ v[c] <= w[c]
  PROVE  Cardinality(Claims(S, v)) <= Cardinality(Claims(S, w))
<1>1. Claims(S, v) \subseteq Claims(S, w)
  <2> SUFFICES ASSUME NEW c \in S, NEW i \in 1 .. N, i <= v[c]
               PROVE  i <= w[c]
    BY DEF Claims
  <2> QED
    OBVIOUS
<1> QED
  BY <1>1, ClaimsFinite, FS_Subset

LEMMA UpTo ==
  ASSUME NEW m \in Nat
  PROVE  IsFiniteSet(1 .. m) /\ Cardinality(1 .. m) = m
<1>1. 1 \in Int /\ m \in Int
  OBVIOUS
<1>2. IsFiniteSet(1 .. m) /\ Cardinality(1 .. m) = IF 1 > m THEN 0 ELSE m - 1 + 1
  BY <1>1, FS_Interval
<1> QED
  BY <1>2

LEMMA ClaimsAdd ==
  ASSUME N \in Nat, NEW S, IsFiniteSet(S), NEW c, c \notin S, NEW w, w[c] \in 0 .. N
  PROVE  /\ IsFiniteSet(S \cup {c}) /\ Cardinality(S \cup {c}) = Cardinality(S) + 1
         /\ Cardinality(Claims(S \cup {c}, w)) = Cardinality(Claims(S, w)) + w[c]
<1> DEFINE C == {c} \X (1 .. w[c])
<1>1. IsFiniteSet(S \cup {c}) /\ Cardinality(S \cup {c}) = Cardinality(S) + 1
  BY FS_AddElement
<1>2. IsFiniteSet(C) /\ Cardinality(C) = w[c]
  <2>1. IsFiniteSet(1 .. w[c]) /\ Cardinality(1 .. w[c]) = w[c]
    <3> DEFINE m == w[c]
    <3>1. m \in Nat
      OBVIOUS
    <3> HIDE DEF m
    <3>2. IsFiniteSet(1 .. m) /\ Cardinality(1 .. m) = m
      BY <3>1, UpTo
    <3> QED
      BY <3>2 DEF m
  <2>2. IsFiniteSet({c}) /\ Cardinality({c}) = 1
    BY FS_Singleton
  <2>3. Cardinality(C) = 1 * w[c] /\ IsFiniteSet(C)
    BY <2>1, <2>2, FS_Product
  <2> QED
    BY <2>3
<1>3. Claims(S \cup {c}, w) = Claims(S, w) \cup C
  <2>1. ASSUME NEW p
        PROVE  p \in Claims(S \cup {c}, w) <=> p \in Claims(S, w) \cup C
    <3>1. ASSUME p \in Claims(S \cup {c}, w) PROVE p \in Claims(S, w) \cup C
      <4>1. PICK d \in S \cup {c}, i \in 1 .. N : p = <<d, i>> /\ i <= w[d]
        BY <3>1 DEF Claims
      <4>2. CASE d \in S
        BY <4>1, <4>2 DEF Claims
      <4>3. CASE d = c
        BY <4>1, <4>3
      <4> QED
        BY <4>1, <4>2, <4>3
    <3>2. ASSUME p \in Claims(S, w) PROVE p \in Claims(S \cup {c}, w)
      BY <3>2 DEF Claims
    <3>3. ASSUME p \in C PROVE p \in Claims(S \cup {c}, w)
      <4>1. PICK i \in 1 .. w[c] : p = <<c, i>>
        BY <3>3
      <4>2. i \in 1 .. N
        OBVIOUS
      <4> QED
        BY <4>1, <4>2 DEF Claims
    <3> HIDE DEF C
    <3> QED
      BY <3>1, <3>2, <3>3
  <2> QED
    BY <2>1
<1>4. Claims(S, w) \cap C = {}
  BY DEF Claims
<1>5. IsFiniteSet(Claims(S, w)) /\ Cardinality(Claims(S, w)) \in Nat
  BY ClaimsFinite
<1>6. Cardinality(Claims(S, w) \cup C) = Cardinality(Claims(S, w)) + Cardinality(C)
  <2> HIDE DEF C
  <2>1. Cardinality(Claims(S, w) \cup C)
          = Cardinality(Claims(S, w)) + Cardinality(C) - Cardinality(Claims(S, w) \cap C)
    BY <1>2, <1>5, FS_Union
  <2>2. Cardinality(Claims(S, w) \cap C) = 0
    BY <1>4, FS_EmptySet
  <2>3. Cardinality(C) \in Nat
    BY <1>2, FS_CardinalityType
  <2> QED
    BY <1>5, <2>1, <2>2, <2>3
<1> HIDE DEF C
<1> QED
  BY <1>1, <1>2, <1>3, <1>6

(* The arithmetic of the claims: m calls beside k answers that wait.       *)
LEMMA Squares ==
  ASSUME N \in Nat, NEW k \in Nat, NEW m \in Nat, k + m = N
  PROVE  2 * (k * N) <= k * (k + 1) + N * (N - 1) - (m * (m - 1))
<1>1. k * N = k * k + k * m /\ N * (N - 1) = k * k + 2 * (k * m) + m * m - k - m
  <2>1. (k + m) * (k + m - 1) = k * k + 2 * (k * m) + m * m - k - m /\ k * (k + m) = k * k + k * m
    OBVIOUS
  <2> QED
    BY <2>1
<1>2. k * (k + 1) = k * k + k /\ m * (m - 1) = m * m - m /\ k * k \in Nat /\ k * m \in Nat /\ m * m \in Nat
  OBVIOUS
<1> QED
  BY <1>1, <1>2

LEMMA Falling ==
  ASSUME NEW m \in Nat, NEW t \in Nat, t + 1 <= m
  PROVE  2 * t <= m * (m - 1)
<1>1. CASE t = 0
  <2>1. m * (m - 1) >= 0
    BY <1>1
  <2> QED
    BY <1>1, <2>1
<1>2. CASE t > 0
  <2>1. m >= 2 /\ m - 1 >= t /\ m - 1 \in Nat
    BY <1>2
  <2>2. m * (m - 1) >= 2 * (m - 1)
    BY <2>1
  <2> QED
    BY <2>1, <2>2
<1> QED
  BY <1>1, <1>2

LEMMA OpensRange ==
  ASSUME N \in Nat, AccountStop \in Nat, NEW left \in Int, NEW r, NEW t
  PROVE  Opens(left, r, t) \in 0 .. N
BY DEF Opens, Capped

LEMMA OpensLater ==
  ASSUME N \in Nat, AccountStop \in Nat, NEW left \in Int, NEW r \in Int, NEW t \in Int, NEW u \in Int, u <= t
  PROVE  Opens(left, r, u) <= Opens(left, r, t)
BY DEF Opens, Capped

(* Fewer answers, lighter claims, and what is spent of the account closes  *)
(* the guard by as much.                                                   *)
LEMMA Relaxed ==
  ASSUME N \in Nat, NEW T, IsFiniteSet(T), NEW U \in SUBSET T, NEW w, NEW v,
         \A c \in U : v[c] \in Nat /\ w[c] \in Nat /\ v[c] <= w[c],
         NEW x \in Int, NEW y \in Int, NEW r \in Int, NEW q \in Int, y - q >= x - r,
         Covered(T, w, x, r)
  PROVE  Covered(U, v, y, q)
<1> SUFFICES ASSUME NEW S \in SUBSET U
             PROVE  Pays(S, v, y, q)
  BY DEF Covered
<1> DEFINE a == Cardinality(Claims(S, v))
           b == Cardinality(Claims(S, w))
           k == Cardinality(S) * (Cardinality(S) - 1)
           n == N * (N - 1)
<1>1. IsFiniteSet(S)
  BY FS_Subset
<1>2. a <= b /\ a \in Nat /\ b \in Nat /\ Cardinality(S) \in Nat
  BY <1>1, ClaimsMore, ClaimsFinite
<1>3. 2 * x >= 2 * b - k + 2 * r - n
  BY DEF Covered, Pays
<1>4. k \in Int /\ n \in Int
  <2> DEFINE h == Cardinality(S)
  <2>1. h \in Nat
    BY <1>2
  <2> HIDE DEF h
  <2>2. h * (h - 1) \in Int
    BY <2>1
  <2> QED
    BY <2>2 DEF h
<1> HIDE DEF a, b, k, n
<1>5. 2 * y >= 2 * a - k + 2 * q - n
  BY <1>2, <1>3, <1>4
<1> QED
  BY <1>5 DEF Pays, a, k, n

(* The numbers of the invariant.                                           *)
LEMMA Quantities ==
  ASSUME BaseInv
  PROVE  /\ N \in Nat \ {0} /\ AccountStop \in Nat /\ AccountLimit \in Nat
         /\ AccountLimit - AccountStop >= N
         /\ \A c \in Calls : Weight[c] \in 0 .. N
         /\ Gate \in 0 .. N /\ Room \in 0 .. N /\ Room <= N - Cardinality(InFlight)
         /\ Room >= Gate - Cardinality(InFlight)
         /\ Spare \in Int /\ Slack \in Nat /\ IsFiniteSet(Answered)
         /\ Cardinality(InFlight) \in 0 .. N /\ Cardinality(Answered) \in Nat /\ Cardinality(Sent) \in Nat
         /\ Cardinality(InFlight) = Cardinality(Sent) + Cardinality(Answered)
<1>1. CallsOK /\ AccountOK /\ GuardOK
  BY BaseParts
<1>2. /\ N \in Nat \ {0} /\ IsFiniteSet(Answered)
      /\ Cardinality(InFlight) \in 0 .. N /\ Cardinality(Answered) \in Nat /\ Cardinality(Sent) \in Nat
      /\ Cardinality(InFlight) = Cardinality(Sent) + Cardinality(Answered)
  BY <1>1, FlightBound
<1>3. AccountStop \in Nat /\ AccountLimit \in Nat /\ AccountLimit - AccountStop >= N
  <2>1. Cardinality(HealthCalls) \in Nat
    BY QuotaAssumption, FS_CardinalityType
  <2> QED
    BY <2>1, Numbers, QuotaAssumption DEF N
<1>4. \A c \in Calls : Weight[c] \in 0 .. N
  <2> SUFFICES ASSUME NEW c \in Calls
               PROVE  Opens(header[c].left, header[c].reset, resetIn) \in 0 .. N
    BY DEF Weight
  <2>1. header[c].left \in Int
    BY <1>1, Numbers DEF CallsOK, Headers
  <2> QED
    BY <1>2, <1>3, <2>1, OpensRange
<1>5. Gate \in 0 .. N
  <2>1. remaining \in Int
    BY <1>1, <1>3, Numbers DEF GuardOK
  <2> QED
    BY <1>2, <1>3, <2>1, OpensRange DEF Gate
<1>6. Room \in 0 .. N /\ Room <= N - Cardinality(InFlight) /\ Room >= Gate - Cardinality(InFlight)
  BY <1>2, <1>5 DEF Room, Beyond
<1>7. Spare \in Int /\ Slack \in Nat
  <2>1. Slack \in Nat
    BY <1>1, <1>2 DEF Slack, AccountOK
  <2> QED
    BY <1>1, <1>2, <1>3, <2>1 DEF Spare, AccountOK
<1> QED
  BY <1>2, <1>3, <1>4, <1>5, <1>6, <1>7

Ranges == Cardinality(InFlight) \in 0 .. N /\ Spare \in Int /\ Room \in 0 .. N

LEMMA RangesAfter == BaseInv' => Ranges'
<1>1. BaseInv => Ranges
  BY Quantities DEF Ranges
<1> QED
  BY <1>1, PTL

(* Nothing the invariant speaks of changes.                                *)
LEMMA SameClaims ==
  ASSUME AccountInv, UNCHANGED <<remaining, reset, header, account>>,
         \A c \in Calls : (pc'[c] = "idle" <=> pc[c] = "idle") /\ (pc'[c] = "sent" <=> pc[c] = "sent"),
         CallsOK, CallsOK'
  PROVE  AccountInv'
<1>1. Sent' = Sent /\ InFlight' = InFlight /\ Answered' = Answered
  BY DEF Sent, InFlight, Answered, CallsOK
<1>2. Weight' = Weight /\ Gate' = Gate
  BY DEF Weight, Gate, account
<1>3. Room' = Room /\ Spare' = Spare
  BY <1>1, <1>2 DEF Room, Spare, Slack, account
<1> QED
  BY <1>1, <1>2, <1>3 DEF AccountInv

LEMMA ReserveClaims ==
  ASSUME BaseInv, AccountInv, NEW c \in Calls, Reserve(c)
  PROVE  AccountInv'
<1> DEFINE f == Cardinality(InFlight)
           s == Cardinality(Sent)
<1>1. pc[c] = "idle" /\ pc' = [pc EXCEPT ![c] = "sent"] /\ UNCHANGED <<window, header, account>> /\ ~AccountReserve
  BY DEF Reserve, Paused
<1>2. InFlight' = InFlight \cup {c} /\ Sent' = Sent \cup {c} /\ Answered' = Answered
      /\ c \notin InFlight /\ c \notin Sent
  BY <1>1 DEF BaseInv, TypeOK, InFlight, Sent, Answered
<1>3. CallsOK /\ GuardOK /\ AccountOK
  BY BaseParts
<1>4. Cardinality(InFlight') = f + 1 /\ Cardinality(Sent') = s + 1
  BY <1>2, <1>3, FlightBound, FS_AddElement
<1>5. Weight' = Weight /\ Gate' = Gate
  BY <1>1 DEF Weight, Gate, account, window
<1>6. f \in Nat /\ s \in Nat /\ N \in Nat /\ f + 1 <= N
  <2>1. BaseInv'
    BY NextBase DEF Next
  <2> QED
    BY <1>4, <2>1, Quantities, RangesAfter DEF Ranges
<1>7. Gate >= f + 1
  <2>1. CASE remaining = None \/ reset < resetIn
    BY <1>6, <2>1 DEF Gate, Opens
  <2>2. CASE ~(remaining = None \/ reset < resetIn)
    <3>1. Reservations = f + leaked /\ leaked \in Nat
      BY <1>3 DEF Reservations, CallsOK, Flight
    <3>2. remaining - AccountStop >= f + 1
      <4>1. remaining \in Int /\ AccountStop \in Nat
        BY <1>3, Numbers DEF GuardOK
      <4>2. remaining - Reservations > AccountStop
        BY <1>1, <1>6, <2>2, <3>1, <4>1 DEF AccountReserve
      <4> HIDE DEF f
      <4> QED
        BY <1>6, <3>1, <4>1, <4>2
    <3>3. Gate = Capped(remaining - AccountStop)
      BY <2>2 DEF Gate, Opens
    <3>4. remaining - AccountStop \in Int
      BY <1>3, Numbers DEF GuardOK
    <3> DEFINE e == remaining - AccountStop
    <3> HIDE DEF f, e
    <3>5. e \in Int /\ e >= f + 1 /\ Gate = Capped(e)
      BY <3>2, <3>3, <3>4 DEF e
    <3> QED
      BY <1>6, <3>5 DEF Capped
  <2> QED
    BY <2>1, <2>2
<1>8. Gate \in Nat /\ Spare \in Int /\ Room \in Nat /\ IsFiniteSet(Answered) /\ \A d \in Calls : Weight[d] \in Nat
  BY Quantities
<1>9. Room' = Room - 1 /\ Spare' = Spare - 1
  <2>1. Room = Gate - f /\ Room' = Gate - (f + 1)
    <3>1. Room = Beyond(Gate, f) /\ Room' = Beyond(Gate, f + 1)
      BY <1>4, <1>5 DEF Room
    <3> HIDE DEF f
    <3> QED
      BY <1>6, <1>7, <1>8, <3>1 DEF Beyond
  <2>2. Spare' = AccountLimit - used + Slack - (s + 1) - AccountStop
    BY <1>1, <1>4 DEF Spare, Slack, account
  <2>3. Spare = AccountLimit - used + Slack - s - AccountStop
    BY DEF Spare
  <2>4. Slack \in Nat
    BY Quantities
  <2> HIDE DEF f, s
  <2> QED
    BY <1>3, <1>6, <1>8, <2>1, <2>2, <2>3, <2>4, Numbers DEF AccountOK
<1>10. Covered(Answered, Weight, Spare - 1, Room - 1)
  <2>1. \A d \in Answered : Weight[d] \in Nat
    BY <1>8 DEF Answered
  <2> QED
    BY <1>6, <1>8, <2>1, Relaxed DEF AccountInv
<1> QED
  BY <1>2, <1>5, <1>9, <1>10 DEF AccountInv

LEMMA LoseClaims ==
  ASSUME BaseInv, AccountInv, NEW c \in Calls, Lose(c) \/ Leak(c)
  PROVE  AccountInv'
<1> DEFINE f == Cardinality(InFlight)
           s == Cardinality(Sent)
           e == IF pc[c] = "sent" THEN 1 ELSE 0
<1>1. /\ pc[c] # "idle" /\ pc' = [pc EXCEPT ![c] = "idle"] /\ header' = [header EXCEPT ![c] = NoAnswer]
      /\ UNCHANGED <<window, resetIn>>
  BY DEF Lose, Leak, Over
<1>2. InFlight' = InFlight \ {c} /\ Sent' = Sent \ {c} /\ Answered' = Answered \ {c}
      /\ c \in InFlight /\ (c \in Sent <=> pc[c] = "sent")
  BY <1>1 DEF BaseInv, TypeOK, InFlight, Sent, Answered
<1>3. CallsOK /\ GuardOK /\ AccountOK
  BY BaseParts
<1>4. Cardinality(InFlight') = f - 1 /\ Cardinality(Sent') = s - e
  <2>1. Cardinality(InFlight') = f - 1
    BY <1>2, <1>3, FlightBound, FS_RemoveElement
  <2>2. Cardinality(Sent \ {c}) = IF c \in Sent THEN s - 1 ELSE s
    BY <1>3, FlightBound, FS_RemoveElement
  <2>3. s \in Nat
    BY Quantities
  <2> HIDE DEF s
  <2> QED
    BY <1>2, <2>1, <2>2, <2>3
<1>5. Gate' = Gate
  BY <1>1 DEF Gate, window
<1>6. f \in Nat /\ s \in Nat /\ N \in Nat
  BY Quantities
<1>7. Gate \in Nat /\ Spare \in Int /\ Room \in Nat /\ IsFiniteSet(Answered) /\ \A d \in Calls : Weight[d] \in Nat
  BY Quantities
<1>8. Spare' = Spare + 1
  <2>1. stray' - used' - (s - e) = stray - used - s + 1
    <3>1. CASE Lose(c)
      <4>1. PICK counted \in IF pc[c] = "sent" THEN {0, 1} ELSE {0} :
              /\ used' = used + counted
              /\ stray' = stray + (IF pc[c] = "sent" THEN counted ELSE 1)
        BY <3>1 DEF Lose
      <4> HIDE DEF s
      <4> QED
        BY <1>3, <1>6, <4>1 DEF AccountOK
    <3>2. CASE Leak(c)
      <4>1. used' = used /\ stray' = stray + 1 /\ pc[c] # "sent"
        BY <3>2 DEF Leak
      <4> HIDE DEF s
      <4> QED
        BY <1>3, <1>6, <4>1 DEF AccountOK
    <3> QED
      BY <3>1, <3>2
  <2>2. Spare' = AccountLimit - used' + (stray' + N * torn) - (s - e) - AccountStop
    <3>1. torn' = torn
      BY DEF Lose, Leak
    <3> QED
      BY <1>4, <3>1 DEF Spare, Slack
  <2>3. Spare = AccountLimit - used + (stray + N * torn) - s - AccountStop
    BY DEF Spare, Slack
  <2>4. used' \in Nat /\ stray' \in Nat
    BY <1>3, LoseCall DEF AccountOK
  <2>5. e \in Nat /\ used \in Nat /\ stray \in Nat /\ AccountLimit \in Nat /\ AccountStop \in Nat
    BY <1>3, Numbers DEF AccountOK
  <2> HIDE DEF s, e
  <2>6. s \in Nat /\ e \in Nat /\ N * torn \in Nat
    BY <1>3, <1>6, <2>5 DEF AccountOK
  <2>7. AccountLimit - used' + (stray' + N * torn) - (s - e) - AccountStop
          = AccountLimit - used + (stray + N * torn) - s - AccountStop + 1
    <3> DEFINE q == used'
               z == stray'
               o == N * torn
    <3>1. q \in Nat /\ z \in Nat /\ z - q - (s - e) = stray - used - s + 1 /\ o \in Nat
      BY <2>1, <2>4, <2>6
    <3> HIDE DEF q, z, o
    <3>2. AccountLimit - q + (z + o) - (s - e) - AccountStop = AccountLimit - used + (stray + o) - s - AccountStop + 1
      BY <2>5, <2>6, <3>1
    <3> QED
      BY <3>2 DEF q, z, o
  <2> QED
    BY <2>2, <2>3, <2>7
<1>9. Room' <= Room + 1 /\ Room' \in Nat
  <2>1. Room = Beyond(Gate, f) /\ Room' = Beyond(Gate, f - 1)
    BY <1>4, <1>5 DEF Room
  <2> HIDE DEF f
  <2> QED
    BY <1>6, <1>7, <2>1 DEF Beyond
<1>10. \A d \in Answered' : Weight'[d] = Weight[d] /\ Weight[d] \in Nat
  BY <1>1, <1>2, <1>3, <1>7 DEF Weight, Answered, CallsOK
<1> QED
  BY <1>2, <1>6, <1>7, <1>8, <1>9, <1>10, Relaxed DEF AccountInv

(* A new answer tells of what is left at this moment.  A set of answers    *)
(* with it pays for its claim out of what is left; others pay as before.   *)
LEMMA AnswerSum ==
  ASSUME N \in Nat, NEW k \in Nat, NEW a \in Nat, NEW s \in Nat, NEW f \in 0 .. N, f = s + 1 + a, k <= a,
         NEW x \in Int, NEW b \in Nat, b <= k * N, NEW e \in Nat, NEW r \in Nat, r <= N - f, x >= e - s
  PROVE  2 * x >= 2 * (b + e) - (k + 1) * ((k + 1) - 1) + 2 * r - N * (N - 1)
<1> DEFINE m == N - k
           p == k * N
           q == k * (k + 1)
           n == N * (N - 1)
           u == m * (m - 1)
<1>1. m \in Nat /\ k + m = N /\ s + r \in Nat /\ s + r + 1 <= m
  OBVIOUS
<1>2. p \in Nat /\ q \in Nat /\ n \in Int /\ u \in Int
  <2> HIDE DEF m
  <2> QED
    BY <1>1
<1>3. 2 * p <= q + n - u
  <2> HIDE DEF m
  <2> QED
    BY <1>1, Squares
<1>4. 2 * (s + r) <= u
  <2> HIDE DEF m
  <2> QED
    BY <1>1, Falling
<1>5. (k + 1) * ((k + 1) - 1) = q
  OBVIOUS
<1>6. b <= p
  OBVIOUS
<1> HIDE DEF m, p, q, n, u
<1>7. 2 * x >= 2 * (b + e) - q + 2 * r - n
  BY <1>2, <1>3, <1>4, <1>6
<1> QED
  BY <1>5, <1>7 DEF n

LEMMA AnswerClaims ==
  ASSUME BaseInv, AccountInv, NEW c \in Calls, AccountAnswers(c)
  PROVE  AccountInv'
<1> DEFINE f == Cardinality(InFlight)
           a == Cardinality(Answered)
           s == Cardinality(Sent')
           w == Weight
           v == Weight'
           x == Spare
           r == Room
           left == Max({0, AccountLimit - used'})
<1>0. PICK told \in SUBSET HeaderNames :
        header' = [header EXCEPT ![c] = [left |-> left, reset |-> resetIn, told |-> told]]
  BY DEF AccountAnswers
<1>1. /\ pc[c] = "sent" /\ pc' = [pc EXCEPT ![c] = "answered"]
      /\ header' = [header EXCEPT ![c] = [left |-> left, reset |-> resetIn, told |-> told]]
      /\ used' = used + 1 /\ UNCHANGED <<window, resetIn, stray, torn>>
  BY <1>0 DEF AccountAnswers
<1>2. InFlight' = InFlight /\ Sent' = Sent \ {c} /\ Answered' = Answered \cup {c}
      /\ c \in Sent /\ c \notin Answered
  BY <1>1 DEF BaseInv, TypeOK, InFlight, Sent, Answered
<1>3. CallsOK /\ GuardOK /\ AccountOK
  BY BaseParts
<1>4. s \in Nat /\ Cardinality(Sent) = s + 1
  <2>1. IsFiniteSet(Sent) /\ Cardinality(Sent) \in Nat
    BY <1>3, FlightBound
  <2>2. Cardinality(Sent') = Cardinality(Sent) - 1
    BY <1>2, <2>1, FS_RemoveElement
  <2>3. IsFiniteSet(Sent') /\ Cardinality(Sent') \in Nat
    BY <1>2, <2>1, FS_Subset, FS_CardinalityType
  <2> QED
    BY <2>1, <2>2, <2>3
<1>5. N \in Nat /\ f \in 0 .. N /\ a \in Nat /\ f = s + 1 + a /\ IsFiniteSet(Answered)
      /\ x \in Int /\ r \in 0 .. N /\ r <= N - f /\ \A d \in Calls : w[d] \in 0 .. N
      /\ AccountStop \in Nat \ {0} /\ AccountLimit \in Nat
  BY <1>4, Quantities, Numbers
<1>6. Room' = r
  BY <1>1, <1>2 DEF Room, Gate, window
<1>7. Spare' = x
  <2>1. Spare' = AccountLimit - (used + 1) + Slack - s - AccountStop
    BY <1>1 DEF Spare, Slack
  <2>2. x = AccountLimit - used + Slack - (s + 1) - AccountStop
    BY <1>4 DEF Spare
  <2>3. Slack \in Nat
    BY Quantities
  <2> HIDE DEF s, x
  <2> QED
    BY <1>3, <1>4, <1>5, <2>1, <2>2, <2>3 DEF AccountOK
<1>8. \A d \in Calls : d # c => v[d] = w[d]
  BY <1>1, <1>3 DEF Weight, CallsOK
<1>9. left \in Nat /\ (left > 0 => left = AccountLimit - used')
  BY <1>1, <1>3, <1>5, MaxOf DEF AccountOK
<1>10. v[c] \in 0 .. N /\ (v[c] > 0 => x >= v[c] - s)
  <2> DEFINE e == left - AccountStop
  <2>1. v[c] = Opens(left, resetIn, resetIn)
    BY <1>1, <1>3 DEF Weight, CallsOK
  <2>2. left # None /\ ~(resetIn < resetIn) /\ e \in Int
    BY <1>3, <1>5, <1>9, Numbers DEF AccountOK
  <2>3. v[c] = Capped(e)
    BY <2>1, <2>2 DEF Opens
  <2> HIDE DEF left, v
  <2>4. v[c] \in 0 .. N /\ (v[c] > 0 => e >= v[c] /\ e > 0)
    <3> HIDE DEF e
    <3> QED
      BY <1>5, <2>2, <2>3 DEF Capped
  <2>5. v[c] > 0 => left > 0
    BY <1>5, <1>9, <2>4
  <2>6. v[c] > 0 => AccountLimit - (used + 1) - AccountStop >= v[c]
    BY <1>1, <1>9, <2>4, <2>5
  <2>7. x = AccountLimit - used + Slack - (s + 1) - AccountStop
    BY <1>4 DEF Spare
  <2>8. used \in Nat /\ Slack \in Nat
    BY <1>3, Quantities DEF AccountOK
  <2> HIDE DEF s, x, e
  <2>9. v[c] > 0 => x >= v[c] - s
    <3> DEFINE z == v[c]
    <3>1. z \in 0 .. N /\ (z > 0 => AccountLimit - (used + 1) - AccountStop >= z)
      BY <2>4, <2>6
    <3> HIDE DEF z
    <3>2. z > 0 => x >= z - s
      BY <1>4, <1>5, <2>7, <2>8, <3>1
    <3> QED
      BY <3>2 DEF z
  <2> QED
    BY <2>4, <2>9
<1> SUFFICES ASSUME NEW S \in SUBSET (Answered \cup {c})
             PROVE  Pays(S, v, x, r)
  BY <1>2, <1>6, <1>7 DEF AccountInv, Covered
<1> DEFINE T == S \ {c}
           k == Cardinality(T)
           b == Cardinality(Claims(T, v))
           b0 == Cardinality(Claims(T, w))
<1> HIDE DEF v, w, left
<1>11. T \subseteq Answered /\ IsFiniteSet(T) /\ k \in Nat /\ k <= a /\ c \notin T /\ T \subseteq Calls
  <2>1. T \subseteq Answered /\ c \notin T
    OBVIOUS
  <2>2. IsFiniteSet(T) /\ k <= a
    BY <1>5, <2>1, FS_Subset
  <2> QED
    BY <2>1, <2>2, FS_CardinalityType DEF Answered
<1>12. b \in Nat /\ b0 \in Nat /\ b <= b0 /\ b <= k * N
  <2> HIDE DEF T
  <2>1. \A d \in T : v[d] \in Nat /\ w[d] \in Nat /\ v[d] <= w[d]
    BY <1>5, <1>8, <1>11
  <2> QED
    BY <1>5, <1>11, <2>1, ClaimsMore, ClaimsFinite
<1>13. 2 * x >= 2 * b0 - k * (k - 1) + 2 * r - N * (N - 1)
  BY <1>11 DEF AccountInv, Covered, Pays, w
<1> DEFINE h == k * (k - 1)
           n == N * (N - 1)
<1>14. h \in Int /\ n \in Int
  <2> HIDE DEF k
  <2> QED
    BY <1>5, <1>11
<1>15. CASE c \notin S
  <2>1. T = S
    BY <1>15
  <2> HIDE DEF b, b0, h, n, x, r
  <2>2. 2 * x >= 2 * b - h + 2 * r - n
    <3>1. 2 * x >= 2 * b0 - h + 2 * r - n
      BY <1>13 DEF h, n
    <3> HIDE DEF T, k
    <3> QED
      BY <1>5, <1>12, <1>14, <3>1
  <2> QED
    BY <2>1, <2>2 DEF Pays, b, h, n
<1>16. CASE c \in S
  <2> DEFINE e == v[c]
  <2>1. S = T \cup {c}
    BY <1>16
  <2>2. Cardinality(S) = k + 1 /\ Cardinality(Claims(S, v)) = b + e
    <3> HIDE DEF T
    <3> QED
      BY <1>5, <1>10, <1>11, <2>1, ClaimsAdd
  <2> HIDE DEF f, a, s, x, r, T, k, b, b0, e
  <2>3. 2 * x >= 2 * (b + e) - (k + 1) * ((k + 1) - 1) + 2 * r - n
    <3>1. CASE e = 0
      <4> DEFINE g == (k + 1) * ((k + 1) - 1)
      <4>1. g = h + 2 * k /\ g \in Int
        BY <1>11
      <4>2. 2 * x >= 2 * b0 - h + 2 * r - n
        BY <1>13 DEF h, n
      <4> HIDE DEF g, h, n
      <4>3. 2 * x >= 2 * b - g + 2 * r - n
        BY <1>5, <1>11, <1>12, <1>14, <4>1, <4>2
      <4> QED
        BY <1>12, <3>1, <4>3 DEF g
    <3>2. CASE e > 0
      <4>1. e \in Nat /\ x >= e - s
        BY <1>10, <3>2 DEF e
      <4>2. r \in Nat
        BY <1>5
      <4> QED
        BY <1>4, <1>5, <1>11, <1>12, <4>1, <4>2, AnswerSum DEF n
    <3> QED
      BY <1>10, <3>1, <3>2 DEF e
  <2> QED
    BY <2>2, <2>3 DEF Pays, n
<1> QED
  BY <1>15, <1>16

(* A late answer opens the guard again: what it opens it for, it claimed.  *)
LEMMA RecordSum ==
  ASSUME NEW k \in Nat, NEW f \in Nat, k + 1 <= f, NEW x \in Int, NEW b \in Nat, NEW g \in Nat,
         NEW r \in Nat, NEW n \in Int, NEW q \in Nat, q = 0 \/ q = g - (f - 1),
         2 * x >= 2 * b - k * (k - 1) + 2 * r - n,
         2 * x >= 2 * (b + g) - (k + 1) * ((k + 1) - 1) + 2 * r - n
  PROVE  2 * x >= 2 * b - k * (k - 1) + 2 * q - n
<1> DEFINE h == k * (k - 1)
           u == (k + 1) * ((k + 1) - 1)
<1>1. u = h + 2 * k /\ h \in Int /\ u \in Int
  OBVIOUS
<1>2. 2 * x >= 2 * b - h + 2 * r - n /\ 2 * x >= 2 * (b + g) - u + 2 * r - n
  OBVIOUS
<1> HIDE DEF h, u
<1>3. 2 * x >= 2 * b - h + 2 * q - n
  BY <1>1, <1>2
<1> QED
  BY <1>3 DEF h

LEMMA WholeClaims ==
  ASSUME BaseInv, AccountInv, NEW c \in Calls, Record(c), {"left", "reset"} \subseteq header[c].told
  PROVE  AccountInv'
<1> DEFINE f == Cardinality(InFlight)
           w == Weight
           v == Weight'
           x == Spare
           r == Room
           q == Room'
           g == w[c]
<1>1. /\ pc[c] # "idle" /\ pc[c] # "sent" /\ pc' = [pc EXCEPT ![c] = "idle"]
      /\ header' = [header EXCEPT ![c] = NoAnswer]
      /\ remaining' = header[c].left /\ reset' = header[c].reset /\ UNCHANGED account
  <2>1. header[c].told \cap {"left", "reset"} = {"left", "reset"}
    OBVIOUS
  <2>2. {"left", "reset"} # {} /\ {"left", "reset"} \notin {{"left"}, {"reset"}}
    OBVIOUS
  <2>3. UNCHANGED <<stray, torn>>
    BY <2>1, <2>2 DEF Record
  <2> QED
    BY <2>3 DEF Record, Over, account
<1>2. InFlight' = InFlight \ {c} /\ Sent' = Sent /\ Answered' = Answered \ {c}
      /\ c \in InFlight /\ c \in Answered
  BY <1>1 DEF BaseInv, TypeOK, InFlight, Sent, Answered
<1>3. CallsOK /\ GuardOK /\ AccountOK
  BY BaseParts
<1>4. /\ N \in Nat /\ f \in 0 .. N /\ IsFiniteSet(Answered) /\ Cardinality(Answered) <= f
      /\ x \in Int /\ r \in 0 .. N /\ \A d \in Calls : w[d] \in 0 .. N
  BY Quantities
<1>5. Cardinality(InFlight') = f - 1
  BY <1>2, <1>3, FlightBound, FS_RemoveElement
<1>6. Spare' = x
  BY <1>1, <1>2 DEF Spare, Slack, account
<1>7. Gate' = g
  BY <1>1 DEF Gate, Weight, account
<1>8. q \in Nat /\ (q = 0 \/ q = g - (f - 1))
  <2>1. q = Beyond(g, f - 1)
    BY <1>5, <1>7 DEF Room
  <2>2. g \in Nat /\ f \in Nat
    BY <1>4
  <2> HIDE DEF f, g, q
  <2> QED
    BY <2>1, <2>2 DEF Beyond
<1>9. \A d \in Calls : d # c => v[d] = w[d]
  BY <1>1, <1>3 DEF Weight, CallsOK, account
<1> SUFFICES ASSUME NEW S \in SUBSET (Answered \ {c})
             PROVE  Pays(S, v, x, q)
  BY <1>2, <1>6 DEF AccountInv, Covered
<1> DEFINE k == Cardinality(S)
           b == Cardinality(Claims(S, w))
           n == N * (N - 1)
<1> HIDE DEF v, w, x, q
<1>10. IsFiniteSet(S) /\ c \notin S /\ S \subseteq Answered /\ S \cup {c} \subseteq Answered
  BY <1>2, <1>4, FS_Subset
<1>11. /\ IsFiniteSet(S \cup {c}) /\ Cardinality(S \cup {c}) = k + 1
       /\ Cardinality(Claims(S \cup {c}, w)) = b + g
  BY <1>4, <1>10, ClaimsAdd
<1>12. k \in Nat /\ b \in Nat /\ k + 1 <= f /\ n \in Int /\ g \in Nat
  <2>1. k \in Nat /\ b \in Nat
    BY <1>4, <1>10, ClaimsFinite
  <2>2. Cardinality(S \cup {c}) <= Cardinality(Answered)
    BY <1>4, <1>10, FS_Subset
  <2>3. Cardinality(Answered) \in Nat
    BY <1>4, FS_CardinalityType
  <2> HIDE DEF k, f
  <2> QED
    BY <1>4, <1>11, <2>1, <2>2, <2>3
<1>13. 2 * x >= 2 * b - k * (k - 1) + 2 * r - n
  BY <1>10 DEF AccountInv, Covered, Pays, w, x
<1>14. 2 * x >= 2 * (b + g) - (k + 1) * ((k + 1) - 1) + 2 * r - n
  BY <1>10, <1>11 DEF AccountInv, Covered, Pays, w, x
<1>15. Cardinality(Claims(S, v)) = b
  <2>1. \A d \in S : v[d] \in Nat /\ w[d] \in Nat /\ v[d] = w[d]
    BY <1>4, <1>9, <1>10 DEF Answered
  <2>2. Claims(S, v) = Claims(S, w)
    BY <2>1 DEF Claims
  <2> QED
    BY <2>2
<1> HIDE DEF f, r, g, k, b, n
<1>16. 2 * x >= 2 * b - k * (k - 1) + 2 * q - n
  <2>1. f \in Nat /\ r \in Nat
    BY <1>4
  <2> QED
    BY <1>4, <1>8, <1>12, <1>13, <1>14, <2>1, RecordSum
<1> QED
  BY <1>15, <1>16 DEF Pays, k, n

\* An answer without headers, or with one of them: what it may open is in Slack.
LEMMA PartialClaims ==
  ASSUME BaseInv, AccountInv, NEW c \in Calls, Record(c), ~({"left", "reset"} \subseteq header[c].told)
  PROVE  AccountInv'
<1> DEFINE f == Cardinality(InFlight)
           h == header[c].told \cap {"left", "reset"}
<1>1. /\ pc[c] # "idle" /\ pc[c] # "sent" /\ pc' = [pc EXCEPT ![c] = "idle"]
      /\ header' = [header EXCEPT ![c] = NoAnswer]
      /\ UNCHANGED <<used, resetIn>>
  BY DEF Record, Over
<1>2. InFlight' = InFlight \ {c} /\ Sent' = Sent /\ Answered' = Answered \ {c}
      /\ c \in InFlight /\ c \in Answered
  BY <1>1 DEF BaseInv, TypeOK, InFlight, Sent, Answered
<1>3. CallsOK /\ GuardOK /\ AccountOK
  BY BaseParts
<1>4. Cardinality(InFlight') = f - 1
  BY <1>2, <1>3, FlightBound, FS_RemoveElement
<1>5. /\ N \in Nat \ {0} /\ f \in Nat /\ Gate \in Nat /\ Spare \in Int /\ Room \in Nat
      /\ IsFiniteSet(Answered) /\ \A d \in Calls : Weight[d] \in Nat
      /\ AccountLimit \in Nat /\ AccountStop \in Nat /\ Cardinality(Sent) \in Nat
  BY Quantities
<1>6. Room' \in 0 .. N
  <2>1. BaseInv'
    BY NextBase DEF Next, Progress
  <2> QED
    BY <2>1, RangesAfter DEF Ranges
<1>7. /\ h = {} => stray' = stray + 1 /\ torn' = torn
      /\ h # {} => stray' = stray /\ torn' = torn + 1
  <2>1. h \in {{}, {"left"}, {"reset"}}
    OBVIOUS
  <2> QED
    BY <2>1 DEF Record
<1>8. Spare' - Room' >= Spare - Room
  <2> DEFINE o == N * torn
             s == Cardinality(Sent)
  <2>1. Spare = AccountLimit - used + (stray + o) - s - AccountStop
    BY DEF Spare, Slack
  <2>2. used \in Nat /\ stray \in Nat /\ torn \in Nat /\ o \in Nat
    BY <1>3, <1>5 DEF AccountOK
  <2>3. CASE h = {}
    <3>1. Spare' = AccountLimit - used + ((stray + 1) + o) - s - AccountStop
      BY <1>1, <1>2, <1>7, <2>3 DEF Spare, Slack
    <3>2. Gate' = Gate
      <4>1. UNCHANGED <<remaining, reset>>
        BY <2>3 DEF Record
      <4> QED
        BY <1>1, <4>1 DEF Gate
    <3>3. Room = Beyond(Gate, f) /\ Room' = Beyond(Gate, f - 1)
      BY <1>4, <3>2 DEF Room
    <3> HIDE DEF f, o, s
    <3>4. Room' <= Room + 1
      BY <1>5, <3>3 DEF Beyond
    <3> DEFINE y == Spare'
               q == Room'
    <3>5. y = Spare + 1 /\ q \in Int /\ q <= Room + 1
      BY <1>5, <1>6, <2>1, <2>2, <3>1, <3>4 DEF s
    <3> HIDE DEF y, q
    <3>6. y - q >= Spare - Room
      BY <1>5, <3>5
    <3> QED
      BY <3>6 DEF y, q
  <2>4. CASE h # {}
    <3>1. Spare' = AccountLimit - used + (stray + N * (torn + 1)) - s - AccountStop
      BY <1>1, <1>2, <1>7, <2>4 DEF Spare, Slack
    <3>2. N * (torn + 1) = o + N
      BY <1>5, <2>2
    <3> HIDE DEF o, s
    <3> DEFINE y == Spare'
               q == Room'
    <3>3. y = Spare + N /\ q \in 0 .. N
      <4>1. s \in Nat
        BY <1>5 DEF s
      <4>2. y = AccountLimit - used + (stray + (o + N)) - s - AccountStop
        BY <3>1, <3>2
      <4> HIDE DEF y
      <4>3. y = Spare + N
        BY <1>5, <2>1, <2>2, <4>1, <4>2
      <4> QED
        BY <1>6, <4>3
    <3> HIDE DEF y, q
    <3>4. y - q >= Spare - Room
      BY <1>5, <3>3
    <3> QED
      BY <3>4 DEF y, q
  <2> QED
    BY <2>3, <2>4
<1>9. \A d \in Answered' : Weight'[d] = Weight[d] /\ Weight[d] \in Nat
  BY <1>1, <1>2, <1>3, <1>5 DEF Weight, Answered, CallsOK
<1>10. Spare' \in Int
  <2>1. BaseInv'
    BY NextBase DEF Next, Progress
  <2> QED
    BY <2>1, RangesAfter DEF Ranges
<1> DEFINE y == Spare'
           q == Room'
           v == Weight'
<1>11. y \in Int /\ q \in Int /\ y - q >= Spare - Room /\ Answered \ {c} \in SUBSET Answered
       /\ \A d \in Answered \ {c} : v[d] \in Nat /\ Weight[d] \in Nat /\ v[d] <= Weight[d]
  <2>1. \A d \in Answered \ {c} : v[d] = Weight[d] /\ Weight[d] \in Nat
    BY <1>2, <1>9
  <2>2. Room' \in Int
    <3> DEFINE z == Room'
    <3>1. z \in 0 .. N
      BY <1>6
    <3> HIDE DEF z
    <3>2. z \in Int
      BY <1>5, <3>1
    <3> QED
      BY <3>2 DEF z
  <2> HIDE DEF v
  <2>3. \A d \in Answered \ {c} : v[d] \in Nat /\ Weight[d] \in Nat /\ v[d] <= Weight[d]
    BY <2>1
  <2> QED
    BY <1>8, <1>10, <2>2, <2>3
<1>12. Covered(Answered, Weight, Spare, Room) /\ Room \in Int
  BY <1>5 DEF AccountInv
<1> HIDE DEF y, q, v
<1>13. Covered(Answered \ {c}, v, y, q)
  BY <1>5, <1>11, <1>12, Relaxed
<1> QED
  BY <1>2, <1>13 DEF AccountInv, v, y, q

LEMMA RecordClaims ==
  ASSUME BaseInv, AccountInv, NEW c \in Calls, Record(c)
  PROVE  AccountInv'
BY WholeClaims, PartialClaims

(* The account is reset: what it allows pays for everything.               *)
LEMMA ResetSum ==
  ASSUME N \in Nat, NEW k \in Nat, NEW s \in Nat, NEW f \in 0 .. N, s + k <= f,
         NEW x \in Int, NEW b \in Nat, b <= k * N, NEW r \in Nat, r <= N - f, x >= N - s
  PROVE  2 * x >= 2 * b - k * (k - 1) + 2 * r - N * (N - 1)
<1> DEFINE m == N - k
           p == k * N
           q == k * (k + 1)
           h == k * (k - 1)
           n == N * (N - 1)
           u == m * (m - 1)
<1>1. m \in Nat /\ k + m = N /\ r + s + k <= N
  OBVIOUS
<1>2. p \in Nat /\ q \in Nat /\ n \in Int /\ u \in Int /\ h \in Int /\ q = h + 2 * k
  <2> HIDE DEF m
  <2>1. p \in Nat /\ q \in Nat /\ n \in Int /\ u \in Int /\ h \in Int
    BY <1>1
  <2>2. q = h + 2 * k
    OBVIOUS
  <2> QED
    BY <2>1, <2>2
<1>3. 2 * p <= q + n - u
  <2> HIDE DEF m
  <2> QED
    BY <1>1, Squares
<1>4. u >= 0
  <2>1. CASE m = 0
    BY <2>1
  <2>2. CASE m >= 1
    <3> DEFINE l == m - 1
    <3>1. l \in Nat
      BY <1>1, <2>2
    <3> HIDE DEF m, l
    <3>2. m * l >= 0
      BY <1>1, <3>1
    <3> QED
      BY <3>2 DEF l
  <2> HIDE DEF m, u
  <2> QED
    BY <1>1, <2>1, <2>2
<1>5. b <= p
  OBVIOUS
<1> HIDE DEF m, p, q, n, u, h
<1>6. 2 * x >= 2 * b - h + 2 * r - n
  BY <1>1, <1>2, <1>3, <1>4, <1>5
<1> QED
  BY <1>6 DEF h, n

LEMMA TickClaims ==
  ASSUME BaseInv, AccountInv, Tick
  PROVE  AccountInv'
<1>1. UNCHANGED <<pc, header>>
  BY DEF Tick
<1>2. InFlight' = InFlight /\ Sent' = Sent /\ Answered' = Answered
  BY <1>1 DEF InFlight, Sent, Answered
<1>3. CallsOK /\ GuardOK /\ AccountOK
  BY BaseParts
<1> DEFINE f == Cardinality(InFlight)
           s == Cardinality(Sent)
           w == Weight
           v == Weight'
           g == Gate
           x == Spare
           r == Room
           q == Room'
<1>4. /\ N \in Nat /\ f \in 0 .. N /\ s \in Nat /\ IsFiniteSet(Answered) /\ f = s + Cardinality(Answered)
      /\ x \in Int /\ r \in 0 .. N /\ g \in 0 .. N /\ \A c \in Calls : w[c] \in 0 .. N
      /\ AccountStop \in Nat /\ AccountLimit \in Nat /\ AccountLimit - AccountStop >= N
  BY Quantities
<1>5. resetIn \in Nat \ {0} /\ reset \in {None} \cup Nat /\ remaining \in Int /\ None = -1
  BY <1>3, Numbers DEF AccountOK, GuardOK
<1>6. BaseInv'
  BY NextBase DEF Next
<1>7. q \in 0 .. N
  BY <1>6, RangesAfter DEF Ranges
<1>8. CASE resetIn # 1
  <2>1. resetIn' = resetIn - 1 /\ UNCHANGED <<used, stray, torn>>
    BY <1>8 DEF Tick
  <2>2. Spare' = x
    BY <1>2, <2>1 DEF Spare, Slack
  <2>3. \A c \in Answered : v[c] \in Nat /\ w[c] \in Nat /\ v[c] <= w[c]
    <3> SUFFICES ASSUME NEW c \in Calls
                 PROVE  v[c] \in Nat /\ w[c] \in Nat /\ v[c] <= w[c]
      BY DEF Answered
    <3>1. header[c].left \in Int /\ header[c].reset \in Int
      BY <1>3, Numbers DEF CallsOK, Headers
    <3>2. w[c] = Opens(header[c].left, header[c].reset, resetIn)
          /\ v[c] = Opens(header[c].left, header[c].reset, resetIn - 1)
      BY <1>1, <2>1 DEF Weight
    <3>3. resetIn - 1 \in Int /\ resetIn - 1 <= resetIn
      BY <1>5
    <3>4. N \in Nat /\ AccountStop \in Nat
      BY <1>4
    <3> DEFINE left == header[c].left
               o == header[c].reset
               t == resetIn
               u == resetIn - 1
    <3>5. left \in Int /\ o \in Int /\ t \in Int /\ u \in Int /\ u <= t
      BY <1>5, <3>1, <3>3
    <3> HIDE DEF left, o, t, u
    <3>6. Opens(left, o, t) \in 0 .. N /\ Opens(left, o, u) \in 0 .. N
      BY <3>4, <3>5, OpensRange
    <3>7. Opens(left, o, u) <= Opens(left, o, t)
      BY <3>4, <3>5, OpensLater
    <3>8. w[c] = Opens(left, o, t) /\ v[c] = Opens(left, o, u)
      BY <3>2 DEF left, o, t, u
    <3> HIDE DEF w, v
    <3> QED
      BY <3>4, <3>6, <3>7, <3>8
  <2>4. Gate' = g
    <3>1. Gate' = Opens(remaining', reset', resetIn - 1)
      BY <2>1 DEF Gate
    <3>2. CASE reset = None
      <4>1. reset' = None /\ None < resetIn /\ None < resetIn - 1
        BY <1>5, <3>2 DEF Tick
      <4> QED
        BY <3>1, <3>2, <4>1 DEF Gate, Opens
    <3>3. CASE reset \in Nat /\ reset <= 1
      <4>1. remaining' = None
        BY <1>5, <3>3 DEF Tick
      <4>2. reset < resetIn
        BY <1>5, <1>8, <3>3
      <4> QED
        BY <3>1, <4>1, <4>2 DEF Gate, Opens
    <3>4. CASE reset \in Nat /\ reset > 1
      <4>1. remaining' = remaining /\ reset' = reset - 1
        BY <1>5, <3>4 DEF Tick
      <4>2. reset - 1 < resetIn - 1 <=> reset < resetIn
        BY <1>5, <3>4
      <4> QED
        BY <3>1, <4>1, <4>2 DEF Gate, Opens
    <3> QED
      BY <1>5, <3>2, <3>3, <3>4
  <2>5. q = r
    BY <1>2, <2>4 DEF Room
  <2> HIDE DEF w, v, x, r, q
  <2>6. Covered(Answered, w, x, r)
    BY DEF AccountInv, w, x, r
  <2>7. Covered(Answered, v, x, q)
    BY <1>4, <2>3, <2>5, <2>6, Relaxed
  <2> QED
    BY <1>2, <2>2, <2>7 DEF AccountInv, v, q
<1>9. CASE resetIn = 1
  <2>1. used' = 0 /\ stray' = 0 /\ torn' = 0
    BY <1>9 DEF Tick
  <2>2. Spare' = AccountLimit - s - AccountStop
    <3>0. 0 + N * 0 = 0
      BY <1>4
    <3>1. Spare' = AccountLimit - 0 + 0 - s - AccountStop
      BY <1>2, <2>1, <3>0 DEF Spare, Slack
    <3> HIDE DEF s
    <3> QED
      BY <1>4, <3>1
  <2> DEFINE y == AccountLimit - s - AccountStop
  <2>3. y \in Int /\ y >= N - s
    <3> HIDE DEF s
    <3> QED
      BY <1>4
  <2>4. q <= N - f /\ q \in Nat
    <3>1. q = Beyond(Gate', f)
      BY <1>2 DEF Room
    <3>2. Gate' \in 0 .. N
      <4>1. remaining' \in Int
        BY <1>6, Numbers DEF BaseInv, TypeOK
      <4> QED
        BY <1>4, <4>1, OpensRange DEF Gate
    <3> HIDE DEF f, q
    <3> QED
      BY <1>4, <3>1, <3>2 DEF Beyond
  <2> SUFFICES ASSUME NEW S \in SUBSET Answered
               PROVE  Pays(S, v, y, q)
    BY <1>2, <2>2 DEF AccountInv, Covered
  <2> DEFINE k == Cardinality(S)
             b == Cardinality(Claims(S, v))
  <2>5. k \in Nat /\ b \in Nat /\ b <= k * N /\ k <= Cardinality(Answered)
    BY <1>4, FS_Subset, ClaimsFinite
  <2>6. s + k <= f
    <3>1. Cardinality(Answered) \in Nat
      BY <1>4, FS_CardinalityType
    <3> HIDE DEF s, k, f
    <3> QED
      BY <1>4, <2>5, <3>1
  <2> HIDE DEF s, f, k, b, y, q
  <2>7. 2 * y >= 2 * b - k * (k - 1) + 2 * q - N * (N - 1)
    BY <1>4, <2>3, <2>4, <2>5, <2>6, ResetSum
  <2> QED
    BY <2>7 DEF Pays, k, b
<1> QED
  BY <1>8, <1>9

LEMMA CrashClaims ==
  ASSUME BaseInv, AccountInv, Crash
  PROVE  AccountInv'
<1> DEFINE f == Cardinality(InFlight)
           a == Cardinality(Answered)
           s == Cardinality(Sent)
           x == Spare
           r == Room
           g == Gate
<1>1. pc' = [c \in Calls |-> "idle"] /\ UNCHANGED <<window, resetIn>>
  BY DEF Crash
<1>2. InFlight' = {} /\ Sent' = {} /\ Answered' = {}
  BY <1>1 DEF InFlight, Sent, Answered
<1>3. Cardinality({}) = 0
  BY FS_EmptySet
<1>4. CallsOK /\ GuardOK /\ AccountOK
  BY BaseParts
<1>5. /\ N \in Nat /\ f \in Nat /\ s \in Nat /\ a \in Nat /\ f = s + a /\ IsFiniteSet(Answered)
      /\ x \in Int /\ r \in Nat /\ g \in Nat /\ r >= g - f
      /\ AccountStop \in Nat /\ AccountLimit \in Nat
  BY Quantities
<1>6. Spare' = x + f
  <2>1. PICK counted \in SUBSET Sent :
          /\ used' = used + Cardinality(counted)
          /\ stray' = stray + Cardinality(counted) + Cardinality(Answered)
    BY DEF Crash, Sent, Answered
  <2> DEFINE d == Cardinality(counted)
  <2>2. d \in Nat
    BY <1>4, FlightBound, FS_Subset, FS_CardinalityType
  <2> DEFINE o == N * torn
  <2>3. Spare' = AccountLimit - (used + d) + (stray + d + a + o) - 0 - AccountStop
    <3>1. torn' = torn
      BY DEF Crash
    <3> QED
      BY <1>2, <1>3, <2>1, <3>1 DEF Spare, Slack
  <2>4. x = AccountLimit - used + (stray + o) - s - AccountStop
    BY DEF Spare, Slack
  <2>5. used \in Nat /\ stray \in Nat /\ o \in Nat
    BY <1>4, <1>5 DEF AccountOK
  <2> HIDE DEF d, s, a, x, f, o
  <2> QED
    BY <1>5, <2>2, <2>3, <2>4, <2>5
<1>7. Room' = g
  <2>1. Gate' = g
    BY <1>1 DEF Gate, window
  <2>2. Room' = Beyond(g, 0)
    BY <1>2, <1>3, <2>1 DEF Room
  <2> HIDE DEF g
  <2> QED
    BY <1>5, <2>2 DEF Beyond
<1>8. Covered({}, Weight', x + f, g)
  <2>1. Covered(Answered, Weight, x, r)
    BY DEF AccountInv
  <2> DEFINE v == Weight'
             y == x + f
  <2>2. y \in Int /\ y - g >= x - r
    <3> HIDE DEF f, x, g, r
    <3> QED
      BY <1>5
  <2>3. {} \in SUBSET Answered /\ \A c \in {} : v[c] \in Nat /\ Weight[c] \in Nat /\ v[c] <= Weight[c]
    OBVIOUS
  <2> HIDE DEF v, y, x, g, r
  <2>4. Covered({}, v, y, g)
    BY <1>5, <2>1, <2>2, <2>3, Relaxed
  <2> QED
    BY <2>4 DEF v, y
<1> QED
  BY <1>2, <1>6, <1>7, <1>8 DEF AccountInv

LEMMA NextClaims ==
  ASSUME BaseInv, AccountInv, [Next]_vars
  PROVE  AccountInv'
<1>0. CallsOK /\ BaseInv' /\ CallsOK'
  BY BaseParts, NextBase DEF BaseInv, TypeOK, CallsOK, Headers
<1>1. CASE \E c \in Calls : TakeLock(c) \/ Refuse(c) \/ CloseClient(c)
  <2>1. UNCHANGED <<remaining, reset, header, account>>
    BY <1>1 DEF TakeLock, Refuse, CloseClient, window
  <2>2. \A c \in Calls : (pc'[c] = "idle" <=> pc[c] = "idle") /\ (pc'[c] = "sent" <=> pc[c] = "sent")
    BY <1>0, <1>1 DEF TakeLock, Refuse, CloseClient, CallsOK
  <2> QED
    BY <1>0, <2>1, <2>2, SameClaims
<1>2. CASE \E c \in Calls : Reserve(c)
  BY <1>2, ReserveClaims
<1>3. CASE \E c \in Calls : AccountAnswers(c)
  BY <1>3, AnswerClaims
<1>4. CASE \E c \in Calls : Record(c)
  BY <1>4, RecordClaims
<1>5. CASE \E c \in Calls : Lose(c) \/ Leak(c)
  BY <1>5, LoseClaims
<1>6. CASE Tick
  BY <1>6, TickClaims
<1>7. CASE Crash
  BY <1>7, CrashClaims
<1>8. CASE UNCHANGED vars
  <2>1. UNCHANGED <<remaining, reset, header, account>> /\ pc' = pc
    BY <1>8 DEF vars, window
  <2> QED
    BY <1>0, <2>1, SameClaims
<1> QED
  BY <1>1, <1>2, <1>3, <1>4, <1>5, <1>6, <1>7, <1>8 DEF Next, Progress

LEMMA InitClaims == Init => AccountInv
<1> SUFFICES ASSUME Init
             PROVE  AccountInv
  OBVIOUS
<1>1. BaseInv
  BY InitBase
<1>2. InFlight = {} /\ Sent = {} /\ Answered = {} /\ remaining = None /\ used = 0 /\ stray = 0 /\ torn = 0
  BY DEF Init, InFlight, Sent, Answered
<1>3. Cardinality({}) = 0 /\ IsFiniteSet({})
  BY FS_EmptySet
<1>4. N \in Nat /\ AccountStop \in Nat /\ AccountLimit \in Nat /\ AccountLimit - AccountStop >= N
  BY <1>1, Quantities
<1>5. Spare = AccountLimit - AccountStop
  <2>0. 0 + N * 0 = 0
    BY <1>4
  <2>1. Spare = AccountLimit - 0 + 0 - 0 - AccountStop
    BY <1>2, <1>3, <2>0 DEF Spare, Slack
  <2> QED
    BY <1>4, <2>1
<1>6. Room = N
  BY <1>2, <1>3, <1>4 DEF Room, Beyond, Gate, Opens
<1> SUFFICES Pays({}, Weight, Spare, Room)
  BY <1>2 DEF AccountInv, Covered
<1>7. Claims({}, Weight) = {}
  BY DEF Claims
<1> DEFINE n == N * (N - 1)
<1>8. n >= 0 /\ n \in Int
  <2>1. N \in Nat \ {0}
    BY <1>1, Quantities
  <2> DEFINE l == N - 1
  <2>2. l \in Nat
    BY <2>1
  <2> HIDE DEF l
  <2>3. N * l >= 0 /\ N * l \in Int
    BY <1>4, <2>2
  <2> QED
    BY <2>3 DEF l
<1> HIDE DEF n
<1>9. 2 * (AccountLimit - AccountStop) >= 2 * 0 - 0 * (0 - 1) + 2 * N - n
  BY <1>4, <1>8
<1> QED
  BY <1>3, <1>5, <1>6, <1>7, <1>9 DEF Pays, n

LEMMA ClaimsKeepReserve ==
  ASSUME BaseInv, AccountInv
  PROVE  AccountReserveKept
<1> DEFINE m == Cardinality(HealthCalls)
           p == m * (m + 1)
<1>1. m \in Nat /\ N = m + 1
  BY QuotaAssumption, FS_CardinalityType DEF N
<1>2. Spare \in Int /\ Room \in Nat /\ Cardinality(Sent) \in Nat /\ N \in Nat
      /\ AccountLimit \in Nat /\ AccountStop \in Nat
  BY Quantities
<1>3. Pays({}, Weight, Spare, Room)
  BY DEF AccountInv, Covered
<1>4. Claims({}, Weight) = {} /\ Cardinality({}) = 0
  BY FS_EmptySet DEF Claims
<1>5. N * (N - 1) = p /\ p \in Nat
  <2> HIDE DEF m
  <2> QED
    BY <1>1
<1>6. 2 * Spare >= -p
  <2>1. 2 * Spare >= 2 * 0 - 0 * (0 - 1) + 2 * Room - p
    BY <1>3, <1>4, <1>5 DEF Pays
  <2> HIDE DEF p
  <2> QED
    BY <1>2, <1>5, <2>1
<1> DEFINE o == (m + 1) * torn
<1>7. Spare = AccountLimit - used + (stray + o) - Cardinality(Sent) - AccountStop
  BY <1>1 DEF Spare, Slack
<1>8. used \in Nat /\ stray \in Nat /\ o \in Nat
  <2>1. torn \in Nat /\ used \in Nat /\ stray \in Nat
    BY BaseParts DEF AccountOK
  <2> HIDE DEF m
  <2> QED
    BY <1>1, <2>1
<1> DEFINE h == p \div 2
<1>9. p % 2 = 0 /\ h \in Nat /\ 2 * h = p
  <2>1. PICK t \in Nat : m = 2 * t \/ m = 2 * t + 1
    <3>1. m = 2 * (m \div 2) \/ m = 2 * (m \div 2) + 1
      <4> HIDE DEF m
      <4> QED
        BY <1>1
    <3>2. m \div 2 \in Nat
      <4> HIDE DEF m
      <4> QED
        BY <1>1
    <3> QED
      BY <3>1, <3>2
  <2>2. \E u \in Nat : p = 2 * u
    <3>1. CASE m = 2 * t
      <4>1. p = 2 * (t * (2 * t + 1)) /\ t * (2 * t + 1) \in Nat
        BY <3>1
      <4> QED
        BY <4>1
    <3>2. CASE m = 2 * t + 1
      <4>1. p = 2 * ((2 * t + 1) * (t + 1)) /\ (2 * t + 1) * (t + 1) \in Nat
        BY <3>2
      <4> QED
        BY <4>1
    <3> QED
      BY <2>1, <3>1, <3>2
  <2> HIDE DEF p
  <2> QED
    BY <2>2
<1> HIDE DEF m, p
<1>10. AccountLimit - used >= AccountStop - stray - o - h
  <2> HIDE DEF h, o
  <2> QED
    BY <1>2, <1>5, <1>6, <1>7, <1>8, <1>9
<1> QED
  BY <1>10 DEF AccountReserveKept, h, p, m, o

\* However late the answers are recorded, in whatever order and with whatever
\* headers, the guard of groq_quota.py leaves the account its reserve, but for the
\* requests whose answers told it nothing, for what n health checks can open
\* again, n * (n + 1) / 2, and for n + 1 for each answer with one header only.
THEOREM AccountSafe == Spec => []AccountReserveKept
<1>1. BaseInv /\ AccountInv => AccountReserveKept
  BY ClaimsKeepReserve
<1>2. BaseInv /\ AccountInv /\ [Next]_vars => (BaseInv /\ AccountInv)'
  BY NextBase, NextClaims
<1>3. Init => BaseInv /\ AccountInv
  BY InitBase, InitClaims
<1> QED
  BY <1>1, <1>2, <1>3, PTL DEF Spec

\* The log of groq_quota.py holds the answers of the last 24 hours, no
\* reservation is of nobody, and the account, used or reset, stays a number
\* of requests: for any number of callers, late records and deaths.
THEOREM TypeCorrect == Spec => []TypeOK
<1>1. BaseInv => TypeOK
  BY DEF BaseInv
<1> QED
  BY <1>1, Invariance, PTL
=============================================================================
