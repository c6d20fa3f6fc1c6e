-------------------------- MODULE Insertion_proofs --------------------------
(***************************************************************************)
(* What the instant planner says yes to, for any packages, vans, limits    *)
(* and roads within the margin.                                            *)
(***************************************************************************)
EXTENDS Insertion, FiniteSetTheorems, SequenceTheorems, WellFoundedInduction, TLAPS

-----------------------------------------------------------------------------
(* A set of numbers has a least; so a claim about numbers which holds of a *)
(* number whenever it holds of the smaller ones has no counterexample.     *)

Smaller == {tt \in Nat \X Nat : tt[1] < tt[2]}

LEMMA SmallerWellFounded == IsWellFoundedOn(Smaller, Nat)
BY NatLessThanWellFounded DEF OpToRel, Smaller

LEMMA Smallest ==
  ASSUME NEW S \in SUBSET Nat, S # {}
  PROVE  \E x \in S : \A y \in S : x <= y
<1>1. \E x \in S : \A y \in S : ~(<<y, x>> \in Smaller)
  BY SmallerWellFounded, WFMin
<1>2. \A x, y \in S : ~(<<y, x>> \in Smaller) => x <= y
  BY DEF Smaller
<1> QED
  BY <1>1, <1>2

(* The numbers from 0 to n, climbed one at a time.                         *)
LEMMA Climbs ==
  ASSUME NEW n \in Nat, NEW Good, 0 \in Good, \A i \in 1..n : i - 1 \in Good => i \in Good
  PROVE  0..n \subseteq Good
<1>1. PICK Bad : Bad = {i \in 0..n : i \notin Good}
  OBVIOUS
<1>2. SUFFICES ASSUME Bad # {} PROVE FALSE
  BY <1>1
<1>3. Bad \in SUBSET Nat
  BY <1>1
<1>4. PICK i \in Bad : \A j \in Bad : i <= j
  BY <1>2, <1>3, Smallest
<1>5. i \in 1..n /\ i - 1 \in 0..n /\ ~(i <= i - 1)
  BY <1>1, <1>4
<1> QED
  BY <1>1, <1>4, <1>5

-----------------------------------------------------------------------------
(* The running sum.                                                        *)

IsRunning(sum, s) ==
  sum = [i \in 0..Len(s) |-> IF i = 0 THEN 0 ELSE sum[i - 1] + s[i]]

(* A sequence of numbers.                                                  *)
IsList(s, n) == n \in Nat /\ s \in [1..n -> Int] /\ Len(s) = n

LEMMA RunningExists ==
  ASSUME NEW n, NEW s, IsList(s, n)
  PROVE  \E sum : IsRunning(sum, s)
<1> DEFINE Upto(m, sum) == /\ sum \in [0..m -> Int] /\ sum[0] = 0
                           /\ \A i \in 1..m : sum[i] = sum[i - 1] + s[i]
           Good == {m \in 0..n : \E sum : Upto(m, sum)}
<1>1. 0 \in Good
  <2>1. Upto(0, [i \in 0..0 |-> 0])
    OBVIOUS
  <2>2. 0 \in 0..n
    BY DEF IsList
  <2> QED
    BY <2>1, <2>2
<1>2. ASSUME NEW m \in 1..n, m - 1 \in Good PROVE m \in Good
  <2>1. PICK sum : Upto(m - 1, sum)
    BY <1>2
  <2>2. PICK more : more = [i \in 0..m |-> IF i = m THEN sum[m - 1] + s[m] ELSE sum[i]]
    OBVIOUS
  <2>3. m \in Nat /\ m >= 1 /\ s[m] \in Int /\ sum[m - 1] \in Int
    BY <2>1 DEF IsList
  <2>4. Upto(m, more)
    BY <2>1, <2>2, <2>3
  <2> QED
    BY <2>4
<1>3. 0..n \subseteq Good
  <2> HIDE DEF Good
  <2>1. n \in Nat
    BY DEF IsList
  <2> QED
    BY <1>1, <1>2, <2>1, Climbs
<1>4. PICK sum : Upto(n, sum)
  <2>1. n \in 0..n
    BY DEF IsList
  <2> QED
    BY <1>3, <2>1
<1>5. IsRunning(sum, s)
  BY <1>4 DEF IsRunning, IsList
<1> QED
  BY <1>5

LEMMA RunningIs ==
  ASSUME NEW n, NEW s, IsList(s, n)
  PROVE  /\ Running(s) \in [0..n -> Int] /\ Running(s)[0] = 0
         /\ \A i \in 1..n : Running(s)[i] = Running(s)[i - 1] + s[i]
         /\ SumOf(s) = Running(s)[n] /\ SumOf(s) \in Int
<1>1. Running(s) = CHOOSE sum : IsRunning(sum, s)
  BY DEF Running, IsRunning
<1>2. PICK sum : sum = Running(s)
  OBVIOUS
<1>3. IsRunning(sum, s)
  BY <1>1, <1>2, RunningExists
<1>4. n \in Nat /\ Len(s) = n /\ \A i \in 1..n : s[i] \in Int
  BY DEF IsList
<1>5. DOMAIN sum = 0..n /\ sum[0] = 0 /\ \A i \in 1..n : sum[i] = sum[i - 1] + s[i]
  BY <1>3, <1>4 DEF IsRunning
<1>6. \A i \in 0..n : sum[i] \in Int
  <2> DEFINE Good == {i \in 0..n : sum[i] \in Int}
  <2>1. 0 \in Good /\ \A i \in 1..n : i - 1 \in Good => i \in Good
    BY <1>4, <1>5
  <2> HIDE DEF Good
  <2>2. 0..n \subseteq Good
    BY <1>4, <2>1, Climbs
  <2> QED
    BY <2>2 DEF Good
<1>7. sum = [i \in 0..n |-> sum[i]]
  BY <1>3, <1>4 DEF IsRunning
<1>8. sum \in [0..n -> Int] /\ sum[n] \in Int
  BY <1>4, <1>6, <1>7
<1> QED
  BY <1>2, <1>4, <1>5, <1>8 DEF SumOf

-----------------------------------------------------------------------------
(* Routes: no package is on one twice.                                     *)

IsRoute(order, n) ==
  /\ n \in Nat /\ order \in [1..n -> Items] /\ Len(order) = n /\ order \in Seq(Items)
  /\ \A i, j \in 1..n : order[i] = order[j] => i = j

LEMMA FunctionIsSeq ==
  ASSUME NEW S, NEW n \in Nat, NEW f \in [1..n -> S]
  PROVE  f \in Seq(S) /\ Len(f) = n
<1>1. f \in Seq(S)
  BY SeqDef
<1> QED
  BY <1>1, LenProperties

LEMMA RouteShape ==
  ASSUME NEW order \in Routes
  PROVE  \E n : IsRoute(order, n)
<1>1. PICK kept \in SUBSET Items : order \in SetToSeqs(kept)
  BY DEF Routes
<1>2. Cardinality(kept) \in Nat
  BY FS_Subset, FS_CardinalityType, InsertionAssumption
<1>3. PICK n : n = Cardinality(kept)
  OBVIOUS
<1>4. /\ order \in [1..n -> kept]
      /\ \A i, j \in 1..n : i # j => order[i] # order[j]
  BY <1>1, <1>3 DEF SetToSeqs
<1>5. order \in [1..n -> Items]
  BY <1>4
<1>6. order \in Seq(Items) /\ Len(order) = n
  BY <1>2, <1>3, <1>5, FunctionIsSeq
<1> QED
  BY <1>2, <1>3, <1>4, <1>5, <1>6 DEF IsRoute

LEMMA ShapeIsRoute ==
  ASSUME NEW order, NEW n, IsRoute(order, n)
  PROVE  order \in Routes
<1>1. PICK kept : kept = {order[i] : i \in 1..n}
  OBVIOUS
<1>2. kept \in SUBSET Items
  BY <1>1 DEF IsRoute
<1>3. order \in [1..n -> kept]
  BY <1>1 DEF IsRoute
<1>4. order \in Bijection(1..n, kept)
  BY <1>1, <1>3 DEF IsRoute, Bijection, Injection, Surjection, IsInjective
<1>5. Cardinality(kept) = n
  BY <1>4, FS_CountingElements DEF ExistsBijection, IsRoute
<1>6. order \in SetToSeqs(kept)
  BY <1>3, <1>5 DEF SetToSeqs, IsRoute
<1> QED
  BY <1>2, <1>6 DEF Routes

IsInserted(new, order, n, k, p) ==
  \A i \in 1..(n + 1) : new[i] = IF i < k THEN order[i] ELSE IF i = k THEN p ELSE order[i - 1]

LEMMA InsertedShape ==
  ASSUME NEW order, NEW n, IsRoute(order, n), NEW p \in Items, p \notin ToSet(order),
         NEW k \in 1..(n + 1)
  PROVE  /\ IsRoute(InsertAt(order, k, p), n + 1)
         /\ IsInserted(InsertAt(order, k, p), order, n, k, p)
         /\ ToSet(InsertAt(order, k, p)) = ToSet(order) \cup {p}
<1>1. PICK left, mid, right, new :
        /\ left = SubSeq(order, 1, k - 1) /\ mid = <<p>> /\ right = SubSeq(order, k, n)
        /\ new = (left \o mid) \o right
  OBVIOUS
<1>2. n \in Nat /\ k \in Int /\ k >= 1 /\ k <= n + 1 /\ order \in Seq(Items) /\ Len(order) = n
  BY DEF IsRoute
<1>3. \A i \in 1..n : order[i] \in Items /\ order[i] # p
  BY DEF IsRoute, ToSet
<1>4. left \in Seq(Items) /\ Len(left) = k - 1 /\ \A i \in 1..(k - 1) : left[i] = order[i]
  <2>1. \A i \in 1..(k - 1) : order[i] \in Items
    BY <1>2, <1>3
  <2>2. /\ SubSeq(order, 1, k - 1) \in Seq(Items)
        /\ Len(SubSeq(order, 1, k - 1)) = IF 1 <= k - 1 THEN k - 1 - 1 + 1 ELSE 0
        /\ \A i \in 1..(k - 1 - 1 + 1) : SubSeq(order, 1, k - 1)[i] = order[1 + i - 1]
    BY <1>2, <2>1, SubSeqProperties
  <2> QED
    BY <1>1, <1>2, <2>2
<1>5. right \in Seq(Items) /\ Len(right) = n + 1 - k /\ \A i \in 1..(n + 1 - k) : right[i] = order[k + i - 1]
  <2>1. \A i \in k..n : order[i] \in Items
    BY <1>2, <1>3
  <2>2. /\ SubSeq(order, k, n) \in Seq(Items)
        /\ Len(SubSeq(order, k, n)) = IF k <= n THEN n - k + 1 ELSE 0
        /\ \A i \in 1..(n - k + 1) : SubSeq(order, k, n)[i] = order[k + i - 1]
    BY <1>2, <2>1, SubSeqProperties
  <2> QED
    BY <1>1, <1>2, <2>2
<1>6. mid \in Seq(Items) /\ Len(mid) = 1 /\ mid[1] = p
  BY <1>1
<1>7. PICK front : front = left \o mid
  OBVIOUS
<1>8. /\ front \in Seq(Items) /\ Len(front) = k
      /\ \A i \in 1..k : front[i] = IF i < k THEN order[i] ELSE p
  <2>1. /\ left \o mid \in Seq(Items) /\ Len(left \o mid) = Len(left) + Len(mid)
        /\ \A i \in 1..(Len(left) + Len(mid)) :
             (left \o mid)[i] = IF i <= Len(left) THEN left[i] ELSE mid[i - Len(left)]
    BY <1>4, <1>6, ConcatProperties
  <2> QED
    BY <1>2, <1>4, <1>6, <1>7, <2>1
<1>9. IsInserted(new, order, n, k, p) /\ new \in Seq(Items) /\ Len(new) = n + 1
  <2>1. /\ front \o right \in Seq(Items) /\ Len(front \o right) = Len(front) + Len(right)
        /\ \A i \in 1..(Len(front) + Len(right)) :
             (front \o right)[i] = IF i <= Len(front) THEN front[i] ELSE right[i - Len(front)]
    BY <1>5, <1>8, ConcatProperties
  <2>2. new = front \o right
    BY <1>1, <1>7
  <2>3. new \in Seq(Items) /\ Len(new) = n + 1
    BY <1>2, <1>5, <1>8, <2>1, <2>2
  <2>4. \A i \in 1..(n + 1) : new[i] = IF i <= k THEN front[i] ELSE right[i - k]
    BY SMTT(30), <1>2, <1>5, <1>8, <2>1, <2>2
  <2>5. ASSUME NEW i \in 1..(n + 1) PROVE new[i] = IF i < k THEN order[i] ELSE IF i = k THEN p ELSE order[i - 1]
    <3>1. CASE i <= k
      BY <1>2, <1>8, <2>4, <3>1
    <3>2. CASE i > k
      <4>1. i - k \in 1..(n + 1 - k) /\ k + (i - k) - 1 = i - 1
        BY <1>2, <3>2
      <4>2. right[i - k] = order[i - 1]
        BY <1>5, <4>1
      <4> QED
        BY <1>2, <2>4, <3>2, <4>2
    <3> QED
      BY <1>2, <3>1, <3>2
  <2> QED
    BY <2>3, <2>5 DEF IsInserted
<1>10. new \in [1..(n + 1) -> Items]
  BY <1>9, LenProperties
<1>11. \A i, j \in 1..(n + 1) : new[i] = new[j] => i = j
  <2>1. ASSUME NEW i \in 1..(n + 1), NEW j \in 1..(n + 1), new[i] = new[j], i < j PROVE FALSE
    <3>1. i < k => i \in 1..n
      BY <1>2
    <3>2. j > k => j - 1 \in 1..n
      BY <1>2
    <3>3. i > k => i - 1 \in 1..n
      BY <1>2
    <3>4. j < k => j \in 1..n
      BY <1>2
    <3>5. \A a, b \in 1..n : order[a] = order[b] => a = b
      BY DEF IsRoute
    <3> QED
      BY <1>2, <1>3, <1>9, <2>1, <3>1, <3>2, <3>3, <3>4, <3>5 DEF IsInserted
  <2> QED
    BY <2>1
<1>12. IsRoute(new, n + 1)
  BY <1>2, <1>9, <1>10, <1>11 DEF IsRoute
<1>13. new = InsertAt(order, k, p)
  BY <1>1, <1>2 DEF InsertAt
<1>14. ToSet(new) = ToSet(order) \cup {p}
  <2>1. DOMAIN new = 1..(n + 1) /\ DOMAIN order = 1..n
    BY <1>10 DEF IsRoute
  <2>2. ASSUME NEW q \in ToSet(new) PROVE q \in ToSet(order) \cup {p}
    <3>1. PICK i \in 1..(n + 1) : q = new[i]
      BY <2>1 DEF ToSet
    <3>2. i < k => i \in 1..n
      BY <1>2
    <3>3. i > k => i - 1 \in 1..n
      BY <1>2
    <3>4. q = IF i < k THEN order[i] ELSE IF i = k THEN p ELSE order[i - 1]
      BY <1>9, <3>1 DEF IsInserted
    <3>5. \A j \in 1..n : order[j] \in ToSet(order)
      BY <2>1 DEF ToSet
    <3> QED
      BY <1>2, <3>2, <3>3, <3>4, <3>5
  <2>3. ASSUME NEW q \in ToSet(order) PROVE q \in ToSet(new)
    <3>1. PICK i \in 1..n : q = order[i]
      BY <2>1 DEF ToSet
    <3>2. CASE i < k
      <4>1. i \in 1..(n + 1) /\ new[i] = q
        BY <1>2, <1>9, <3>1, <3>2 DEF IsInserted
      <4> QED
        BY <2>1, <4>1 DEF ToSet
    <3>3. CASE i >= k
      <4>1. i + 1 \in 1..(n + 1) /\ new[i + 1] = q
        BY <1>2, <1>9, <3>1, <3>3 DEF IsInserted
      <4> QED
        BY <2>1, <4>1 DEF ToSet
    <3> QED
      BY <1>2, <3>2, <3>3
  <2>4. p \in ToSet(new)
    <3>1. new[k] = p
      BY <1>2, <1>9 DEF IsInserted
    <3> QED
      BY <2>1, <3>1 DEF ToSet
  <2> QED
    BY <2>2, <2>3, <2>4
<1> QED
  BY <1>9, <1>12, <1>13, <1>14

-----------------------------------------------------------------------------
(* Sums compared.                                                          *)

LEMMA SmallerSums ==
  ASSUME NEW n, NEW s, NEW t, IsList(s, n), IsList(t, n), \A i \in 1..n : s[i] <= t[i]
  PROVE  /\ \A i \in 0..n : Running(s)[i] <= Running(t)[i]
         /\ SumOf(s) <= SumOf(t)
<1>1. PICK f : f = Running(s)
  OBVIOUS
<1>2. PICK g : g = Running(t)
  OBVIOUS
<1>3. /\ f \in [0..n -> Int] /\ f[0] = 0 /\ \A i \in 1..n : f[i] = f[i - 1] + s[i]
      /\ SumOf(s) = f[n]
  BY <1>1, RunningIs
<1>4. /\ g \in [0..n -> Int] /\ g[0] = 0 /\ \A i \in 1..n : g[i] = g[i - 1] + t[i]
      /\ SumOf(t) = g[n]
  BY <1>2, RunningIs
<1>5. n \in Nat /\ \A i \in 1..n : s[i] \in Int /\ t[i] \in Int
  BY DEF IsList
<1>6. PICK Good : Good = {i \in 0..n : f[i] <= g[i]}
  OBVIOUS
<1>7. 0 \in Good
  BY <1>3, <1>4, <1>5, <1>6
<1>8. ASSUME NEW i \in 1..n, i - 1 \in Good PROVE i \in Good
  <2>1. i - 1 \in 0..n /\ i \in 0..n
    BY <1>5
  <2>2. f[i] \in Int /\ g[i] \in Int /\ f[i - 1] \in Int /\ g[i - 1] \in Int
    BY <1>3, <1>4, <2>1
  <2>3. f[i] = f[i - 1] + s[i] /\ g[i] = g[i - 1] + t[i] /\ s[i] <= t[i] /\ s[i] \in Int /\ t[i] \in Int
    BY <1>3, <1>4, <1>5
  <2>4. f[i - 1] <= g[i - 1]
    BY <1>6, <1>8
  <2>5. f[i] <= g[i]
    BY <2>2, <2>3, <2>4
  <2> QED
    BY <1>6, <2>1, <2>5
<1>9. 0..n \subseteq Good
  BY <1>5, <1>7, <1>8, Climbs
<1>10. \A i \in 0..n : f[i] <= g[i]
  BY <1>6, <1>9
<1> QED
  BY <1>1, <1>2, <1>3, <1>4, <1>5, <1>10

LEMMA RisingSums ==
  ASSUME NEW n, NEW s, IsList(s, n), \A i \in 1..n : s[i] >= 0
  PROVE  \A i \in 0..n : Running(s)[i] >= 0 /\ Running(s)[i] <= SumOf(s)
<1>1. PICK f : f = Running(s)
  OBVIOUS
<1>2. /\ f \in [0..n -> Int] /\ f[0] = 0 /\ \A i \in 1..n : f[i] = f[i - 1] + s[i]
      /\ SumOf(s) = f[n]
  BY <1>1, RunningIs
<1>3. n \in Nat /\ \A i \in 1..n : s[i] \in Int
  BY DEF IsList
<1>4. PICK Good : Good = {i \in 0..n : f[i] >= 0 /\ \A j \in 0..i : f[j] <= f[i]}
  OBVIOUS
<1>5. 0 \in Good
  BY <1>2, <1>3, <1>4
<1>6. ASSUME NEW i \in 1..n, i - 1 \in Good PROVE i \in Good
  <2>1. i - 1 \in 0..n /\ i \in 0..n
    BY <1>3
  <2>2. f[i] \in Int /\ f[i - 1] \in Int /\ f[i] >= f[i - 1]
    <3>1. f[i] = f[i - 1] + s[i] /\ s[i] \in Int /\ s[i] >= 0
      BY <1>2, <1>3
    <3>2. f[i] \in Int /\ f[i - 1] \in Int
      BY <1>2, <2>1
    <3> QED
      BY <3>1, <3>2
  <2>3. \A j \in 0..i : f[j] \in Int /\ (j = i \/ j \in 0..(i - 1))
    BY <1>2, <1>3
  <2>4. f[i - 1] >= 0 /\ \A j \in 0..(i - 1) : f[j] <= f[i - 1]
    BY <1>4, <1>6
  <2> QED
    BY <1>4, <2>1, <2>2, <2>3, <2>4
<1>7. 0..n \subseteq Good
  BY <1>3, <1>5, <1>6, Climbs
<1>8. n \in Good /\ \A i \in 0..n : i \in Good
  BY <1>3, <1>7
<1> QED
  BY <1>1, <1>2, <1>3, <1>4, <1>8

-----------------------------------------------------------------------------
(* Legs: a road is no longer than any estimate of it.                      *)

LEMMA Portions ==
  ASSUME NEW x \in Nat, NEW factor \in Nat
  PROVE  PerCent(x, factor) \in Nat /\ (factor >= 100 => PerCent(x, factor) >= x)
<1>1. PICK y : y = x * factor
  OBVIOUS
<1>2. y \in Nat /\ (factor >= 100 => y >= x * 100)
  BY <1>1
<1>3. y \div 100 \in Nat /\ (y >= x * 100 => y \div 100 >= x)
  BY <1>2
<1> QED
  BY <1>1, <1>2, <1>3 DEF PerCent

LEMMA LegsCompared ==
  ASSUME NEW a \in Places, NEW b \in Places, NEW measured
  PROVE  /\ Road(a, b) \in Nat
         /\ EstimateLeg(a, b, measured) \in Nat /\ Road(a, b) <= EstimateLeg(a, b, measured)
         /\ GateLegMeters(a, b, measured) \in Nat /\ Road(a, b) <= GateLegMeters(a, b, measured)
         /\ EstimateLegMeters(a, b, measured) \in Nat
         /\ EstimateLegMeters(a, b, measured) <= GateLegMeters(a, b, measured)
<1>1. a \in Int /\ b \in Int
  BY InsertionAssumption DEF Places
<1>2. Crow(a, b) \in Nat
  BY <1>1 DEF Crow
<1>3. PICK road, crow, safe : road = Road(a, b) /\ crow = PerCent(Crow(a, b), Detour) /\ safe = PerCent(crow, Safety)
  OBVIOUS
<1>4. Detour \in Nat /\ Safety \in Nat /\ Safety >= 100 /\ RoadFactor \in Nat
  BY InsertionAssumption
<1>5. road \in Nat /\ crow \in Nat
  BY <1>2, <1>3, <1>4, Portions DEF Road
<1>6. safe \in Nat /\ crow <= safe
  BY <1>3, <1>4, <1>5, Portions
<1>7. road <= safe
  BY <1>3, MarginAssumption
<1>8. CASE <<a, b>> \in measured
  BY <1>3, <1>5, <1>8 DEF EstimateLeg, GateLegMeters, EstimateLegMeters
<1>9. CASE <<a, b>> \notin measured
  BY <1>3, <1>5, <1>6, <1>7, <1>9 DEF EstimateLeg, GateLegMeters, EstimateLegMeters
<1> QED
  BY <1>8, <1>9

LEMMA MeasuredIsRoad ==
  ASSUME NEW a, NEW b, NEW measured, <<a, b>> \in measured
  PROVE  /\ EstimateLeg(a, b, measured) = Road(a, b)
         /\ EstimateLegMeters(a, b, measured) = Road(a, b)
         /\ GateLegMeters(a, b, measured) = Road(a, b)
BY DEF EstimateLeg, EstimateLegMeters, GateLegMeters

-----------------------------------------------------------------------------
(* Routes timed.                                                           *)

IsTour(tour, n) == n \in Nat /\ tour \in [1..(n + 2) -> Places] /\ Len(tour) = n + 2

Seconds(tour, measured) == [i \in 1..(Len(tour) - 1) |-> EstimateLeg(tour[i], tour[i + 1], measured)]
Metres(tour, measured) == [i \in 1..(Len(tour) - 1) |-> EstimateLegMeters(tour[i], tour[i + 1], measured)]
GateMetres(tour, measured) == [i \in 1..(Len(tour) - 1) |-> GateLegMeters(tour[i], tour[i + 1], measured)]

LEMMA TourOfRoute ==
  ASSUME NEW order, NEW n, IsRoute(order, n)
  PROVE  IsTour(Tour(order), n)
<1>1. PICK doors : doors = [i \in DOMAIN order |-> At[order[i]]]
  OBVIOUS
<1>2. n \in Nat /\ DOMAIN order = 1..n /\ \A i \in 1..n : order[i] \in Items
  BY DEF IsRoute
<1>3. doors \in [1..n -> Places]
  BY <1>1, <1>2 DEF Places
<1>4. doors \in Seq(Places) /\ Len(doors) = n
  BY <1>2, <1>3, FunctionIsSeq
<1>5. PICK home : home = <<0>>
  OBVIOUS
<1>6. home \in Seq(Places) /\ Len(home) = 1
  BY <1>5 DEF Places
<1>7. PICK out : out = home \o doors
  OBVIOUS
<1>8. out \in Seq(Places) /\ Len(out) = n + 1
  BY <1>2, <1>4, <1>6, <1>7, ConcatProperties
<1>9. out \o home \in Seq(Places) /\ Len(out \o home) = n + 2
  <2>1. out \o home \in Seq(Places) /\ Len(out \o home) = Len(out) + Len(home)
    BY <1>6, <1>8, ConcatProperties
  <2> QED
    BY <1>2, <1>6, <1>8, <2>1
<1>10. Tour(order) = out \o home
  BY <1>1, <1>5, <1>7 DEF Tour
<1>11. PICK tour : tour = Tour(order)
  OBVIOUS
<1>12. tour \in Seq(Places) /\ Len(tour) = n + 2
  BY <1>9, <1>10, <1>11
<1>13. tour \in [1..(n + 2) -> Places]
  BY <1>12, LenProperties
<1> QED
  BY <1>2, <1>11, <1>12, <1>13 DEF IsTour

TourSummed(tour, n, measured) ==
  /\ IsList(Seconds(tour, measured), n + 1) /\ IsList(Metres(tour, measured), n + 1)
  /\ IsList(GateMetres(tour, measured), n + 1)
  /\ \A i \in 1..(n + 1) :
       /\ tour[i] \in Places /\ tour[i + 1] \in Places
       /\ <<tour[i], tour[i + 1]>> \in Legs(tour)
       /\ Seconds(tour, measured)[i] = EstimateLeg(tour[i], tour[i + 1], measured)
       /\ Metres(tour, measured)[i] = EstimateLegMeters(tour[i], tour[i + 1], measured)
       /\ GateMetres(tour, measured)[i] = GateLegMeters(tour[i], tour[i + 1], measured)

LEMMA TourSums ==
  ASSUME NEW tour, NEW n, IsTour(tour, n), NEW measured
  PROVE  TourSummed(tour, n, measured)
<1>1. n \in Nat /\ Len(tour) - 1 = n + 1 /\ n + 1 \in Nat
  BY DEF IsTour
<1>2. ASSUME NEW i \in 1..(n + 1)
      PROVE  tour[i] \in Places /\ tour[i + 1] \in Places /\ <<tour[i], tour[i + 1]>> \in Legs(tour)
  <2>1. i \in 1..(n + 2) /\ i + 1 \in 1..(n + 2)
    BY <1>1
  <2> QED
    BY <1>1, <2>1 DEF IsTour, Legs
<1>3. Seconds(tour, measured) = [i \in 1..(n + 1) |-> EstimateLeg(tour[i], tour[i + 1], measured)]
  BY <1>1 DEF Seconds
<1>4. Metres(tour, measured) = [i \in 1..(n + 1) |-> EstimateLegMeters(tour[i], tour[i + 1], measured)]
  BY <1>1 DEF Metres
<1>5. GateMetres(tour, measured) = [i \in 1..(n + 1) |-> GateLegMeters(tour[i], tour[i + 1], measured)]
  BY <1>1 DEF GateMetres
<1>6. \A i \in 1..(n + 1) :
        /\ EstimateLeg(tour[i], tour[i + 1], measured) \in Int
        /\ EstimateLegMeters(tour[i], tour[i + 1], measured) \in Int
        /\ GateLegMeters(tour[i], tour[i + 1], measured) \in Int
  <2>1. ASSUME NEW a \in Places, NEW b \in Places
        PROVE  /\ EstimateLeg(a, b, measured) \in Int
               /\ EstimateLegMeters(a, b, measured) \in Int
               /\ GateLegMeters(a, b, measured) \in Int
    BY LegsCompared
  <2> QED
    BY <1>2, <2>1
<1>7. /\ Seconds(tour, measured) \in [1..(n + 1) -> Int]
      /\ Metres(tour, measured) \in [1..(n + 1) -> Int]
      /\ GateMetres(tour, measured) \in [1..(n + 1) -> Int]
  BY <1>3, <1>4, <1>5, <1>6
<1>8. /\ Len(Seconds(tour, measured)) = n + 1
      /\ Len(Metres(tour, measured)) = n + 1
      /\ Len(GateMetres(tour, measured)) = n + 1
  BY <1>1, <1>7, FunctionIsSeq
<1> QED
  BY <1>1, <1>2, <1>3, <1>4, <1>5, <1>7, <1>8 DEF IsList, TourSummed

(* The figures of a timed route hang together.                             *)
TimingOf(t, n) ==
  /\ DOMAIN t.arrivals = 1..n
  /\ t.drive \in Nat /\ t.distance \in Nat /\ t.gate \in Nat
  /\ t.return = t.drive + n * TimePerStop /\ t.return \in Nat
  /\ t.distance <= t.gate
  /\ \A i \in 1..n : t.arrivals[i] \in Int /\ t.arrivals[i] <= t.return

(* t is no more than an estimate u says.                                   *)
NoMoreThan(t, u, n) ==
  /\ t.drive <= u.drive /\ t.return <= u.return /\ t.distance <= u.gate
  /\ \A i \in 1..n : t.arrivals[i] <= u.arrivals[i]

LEMMA TimedFields ==
  ASSUME NEW tour, NEW n, IsTour(tour, n), NEW measured
  PROVE  /\ Timed(tour, measured).drive = SumOf(Seconds(tour, measured))
         /\ Timed(tour, measured).return = SumOf(Seconds(tour, measured)) + n * TimePerStop
         /\ Timed(tour, measured).distance = SumOf(Metres(tour, measured))
         /\ Timed(tour, measured).gate = SumOf(GateMetres(tour, measured))
         /\ DOMAIN Timed(tour, measured).arrivals = 1..n
         /\ \A i \in 1..n : Timed(tour, measured).arrivals[i]
                              = Running(Seconds(tour, measured))[i] + (i - 1) * TimePerStop
<1>1. Len(tour) - 2 = n
  BY DEF IsTour
<1>2. Timed(tour, measured)
        = Timing(n, Seconds(tour, measured), Metres(tour, measured), GateMetres(tour, measured))
  BY <1>1 DEF Timed, Seconds, Metres, GateMetres
<1> QED
  BY <1>2 DEF Timing

LEMMA TimedHolds ==
  ASSUME NEW tour, NEW n, IsTour(tour, n), NEW measured
  PROVE  TimingOf(Timed(tour, measured), n)
<1>0. TourSummed(tour, n, measured)
  BY TourSums
<1>1. PICK t, sec, met, gate :
        /\ t = Timed(tour, measured) /\ sec = Seconds(tour, measured)
        /\ met = Metres(tour, measured) /\ gate = GateMetres(tour, measured)
  OBVIOUS
<1>2. n \in Nat /\ n + 1 \in Nat /\ TimePerStop \in Nat
  BY LimitsAssumption DEF IsTour
<1>3. IsList(sec, n + 1) /\ IsList(met, n + 1) /\ IsList(gate, n + 1)
  BY <1>1, TourSums DEF TourSummed
<1>4. \A i \in 1..(n + 1) : sec[i] >= 0 /\ met[i] >= 0 /\ gate[i] >= 0 /\ met[i] <= gate[i]
  <2>1. ASSUME NEW i \in 1..(n + 1) PROVE sec[i] >= 0 /\ met[i] >= 0 /\ gate[i] >= 0 /\ met[i] <= gate[i]
    <3>1. PICK a \in Places, b \in Places :
            /\ sec[i] = EstimateLeg(a, b, measured)
            /\ met[i] = EstimateLegMeters(a, b, measured)
            /\ gate[i] = GateLegMeters(a, b, measured)
      <4>1. /\ tour[i] \in Places /\ tour[i + 1] \in Places
            /\ Seconds(tour, measured)[i] = EstimateLeg(tour[i], tour[i + 1], measured)
            /\ Metres(tour, measured)[i] = EstimateLegMeters(tour[i], tour[i + 1], measured)
            /\ GateMetres(tour, measured)[i] = GateLegMeters(tour[i], tour[i + 1], measured)
        BY <1>0 DEF TourSummed
      <4> QED
        BY <1>1, <4>1
    <3> QED
      BY <3>1, LegsCompared
  <2> QED
    BY <2>1
<1>5. /\ \A i \in 0..(n + 1) : Running(sec)[i] >= 0 /\ Running(sec)[i] <= SumOf(sec)
      /\ Running(sec) \in [0..(n + 1) -> Int] /\ SumOf(sec) \in Int
  BY <1>3, <1>4, RisingSums, RunningIs
<1>6. SumOf(sec) \in Nat
  <2>1. Running(sec)[0] >= 0 /\ Running(sec)[0] <= SumOf(sec) /\ Running(sec)[0] \in Int
    BY <1>2, <1>5
  <2> QED
    BY <1>5, <2>1
<1>7. SumOf(met) \in Nat /\ SumOf(gate) \in Nat /\ SumOf(met) <= SumOf(gate)
  <2>1. /\ Running(met)[0] >= 0 /\ Running(met)[0] <= SumOf(met) /\ Running(met)[0] \in Int
        /\ Running(gate)[0] >= 0 /\ Running(gate)[0] <= SumOf(gate) /\ Running(gate)[0] \in Int
    BY <1>2, <1>3, <1>4, RisingSums, RunningIs
  <2>2. SumOf(met) \in Int /\ SumOf(gate) \in Int
    BY <1>3, RunningIs
  <2>3. SumOf(met) <= SumOf(gate)
    BY <1>3, <1>4, SmallerSums
  <2> QED
    BY <2>1, <2>2, <2>3
<1>8. /\ t.drive = SumOf(sec) /\ t.return = SumOf(sec) + n * TimePerStop
      /\ t.distance = SumOf(met) /\ t.gate = SumOf(gate) /\ DOMAIN t.arrivals = 1..n
      /\ \A i \in 1..n : t.arrivals[i] = Running(sec)[i] + (i - 1) * TimePerStop
  BY <1>1, TimedFields
<1>9. n * TimePerStop \in Nat
  BY <1>2
<1>10. ASSUME NEW i \in 1..n PROVE t.arrivals[i] \in Int /\ t.arrivals[i] <= t.return
  <2>1. i \in 0..(n + 1) /\ i \in Nat /\ i - 1 \in Nat /\ i - 1 <= n
    BY <1>2
  <2>2. Running(sec)[i] \in Int /\ Running(sec)[i] <= SumOf(sec)
    BY <1>5, <2>1
  <2>3. PICK x, y : x = (i - 1) * TimePerStop /\ y = n * TimePerStop
    OBVIOUS
  <2>4. x \in Int /\ y \in Int /\ x <= y
    BY <1>2, <2>1, <2>3
  <2> QED
    BY <1>5, <1>8, <2>2, <2>3, <2>4
<1>11. TimingOf(t, n)
  BY <1>6, <1>7, <1>8, <1>9, <1>10 DEF TimingOf
<1> QED
  BY <1>1, <1>11

(* On the roads, a tour takes no longer and goes no further than estimated.*)
LEMMA RoadsWithinEstimates ==
  ASSUME NEW tour, NEW n, IsTour(tour, n), NEW measured, NEW all, Legs(tour) \subseteq all
  PROVE  NoMoreThan(Timed(tour, all), Timed(tour, measured), n)
<1>0. TourSummed(tour, n, measured) /\ TourSummed(tour, n, all)
  BY TourSums
<1>1. PICK t, u, sec, est, met, gate :
        /\ t = Timed(tour, all) /\ u = Timed(tour, measured)
        /\ sec = Seconds(tour, all) /\ est = Seconds(tour, measured)
        /\ met = Metres(tour, all) /\ gate = GateMetres(tour, measured)
  OBVIOUS
<1>2. n \in Nat /\ n + 1 \in Nat /\ TimePerStop \in Nat
  BY LimitsAssumption DEF IsTour
<1>3. IsList(sec, n + 1) /\ IsList(est, n + 1) /\ IsList(met, n + 1) /\ IsList(gate, n + 1)
  BY <1>1, TourSums DEF TourSummed
<1>4. \A i \in 1..(n + 1) : sec[i] <= est[i] /\ met[i] <= gate[i]
  <2>1. ASSUME NEW i \in 1..(n + 1) PROVE sec[i] <= est[i] /\ met[i] <= gate[i]
    <3>1. PICK a \in Places, b \in Places :
            /\ <<a, b>> \in all
            /\ sec[i] = EstimateLeg(a, b, all) /\ est[i] = EstimateLeg(a, b, measured)
            /\ met[i] = EstimateLegMeters(a, b, all) /\ gate[i] = GateLegMeters(a, b, measured)
      <4>1. tour[i] \in Places /\ tour[i + 1] \in Places /\ <<tour[i], tour[i + 1]>> \in Legs(tour)
        BY <1>0 DEF TourSummed
      <4>2. /\ sec[i] = EstimateLeg(tour[i], tour[i + 1], all)
            /\ est[i] = EstimateLeg(tour[i], tour[i + 1], measured)
            /\ met[i] = EstimateLegMeters(tour[i], tour[i + 1], all)
            /\ gate[i] = GateLegMeters(tour[i], tour[i + 1], measured)
        <5>1. /\ Seconds(tour, all)[i] = EstimateLeg(tour[i], tour[i + 1], all)
              /\ Metres(tour, all)[i] = EstimateLegMeters(tour[i], tour[i + 1], all)
          BY <1>0 DEF TourSummed
        <5>2. /\ Seconds(tour, measured)[i] = EstimateLeg(tour[i], tour[i + 1], measured)
              /\ GateMetres(tour, measured)[i] = GateLegMeters(tour[i], tour[i + 1], measured)
          BY <1>0 DEF TourSummed
        <5> QED
          BY <1>1, <5>1, <5>2
      <4> QED
        BY <4>1, <4>2
    <3>2. sec[i] = Road(a, b) /\ met[i] = Road(a, b)
      BY <3>1, MeasuredIsRoad
    <3> QED
      BY <3>1, <3>2, LegsCompared
  <2> QED
    BY <2>1
<1>5. /\ \A i \in 0..(n + 1) : Running(sec)[i] <= Running(est)[i]
      /\ SumOf(sec) <= SumOf(est) /\ SumOf(met) <= SumOf(gate)
  BY <1>3, <1>4, SmallerSums
<1>6. /\ t.drive = SumOf(sec) /\ t.return = SumOf(sec) + n * TimePerStop /\ t.distance = SumOf(met)
      /\ \A i \in 1..n : t.arrivals[i] = Running(sec)[i] + (i - 1) * TimePerStop
  BY <1>1, TimedFields
<1>7. /\ u.drive = SumOf(est) /\ u.return = SumOf(est) + n * TimePerStop /\ u.gate = SumOf(gate)
      /\ \A i \in 1..n : u.arrivals[i] = Running(est)[i] + (i - 1) * TimePerStop
  BY <1>1, TimedFields
<1>8. /\ SumOf(sec) \in Int /\ SumOf(est) \in Int
      /\ Running(sec) \in [0..(n + 1) -> Int] /\ Running(est) \in [0..(n + 1) -> Int]
  BY <1>3, RunningIs
<1>9. t.drive <= u.drive /\ t.return <= u.return /\ t.distance <= u.gate
  <2>1. n * TimePerStop \in Int
    BY <1>2
  <2> QED
    BY <1>5, <1>6, <1>7, <1>8, <2>1
<1>10. ASSUME NEW i \in 1..n PROVE t.arrivals[i] <= u.arrivals[i]
  <2>1. i \in 0..(n + 1) /\ i - 1 \in Int
    BY <1>2
  <2>2. (i - 1) * TimePerStop \in Int
    BY <1>2, <2>1
  <2>3. Running(sec)[i] \in Int /\ Running(est)[i] \in Int /\ Running(sec)[i] <= Running(est)[i]
    BY <1>5, <1>8, <2>1
  <2> QED
    BY <1>6, <1>7, <2>2, <2>3
<1>11. NoMoreThan(t, u, n)
  BY <1>9, <1>10 DEF NoMoreThan
<1> QED
  BY <1>1, <1>11

(* What has been measured elsewhere is of no account.                      *)
LEMMA SameMeasured ==
  ASSUME NEW tour, NEW n, IsTour(tour, n), NEW m1, NEW m2, Legs(tour) \cap m1 = Legs(tour) \cap m2
  PROVE  Timed(tour, m1) = Timed(tour, m2)
<1>1. \A i \in 1..(Len(tour) - 1) : <<tour[i], tour[i + 1]>> \in m1 <=> <<tour[i], tour[i + 1]>> \in m2
  <2>1. \A i \in 1..(Len(tour) - 1) : <<tour[i], tour[i + 1]>> \in Legs(tour)
    BY DEF Legs
  <2> QED
    BY <2>1
<1>2. \A i \in 1..(Len(tour) - 1) :
        /\ EstimateLeg(tour[i], tour[i + 1], m1) = EstimateLeg(tour[i], tour[i + 1], m2)
        /\ EstimateLegMeters(tour[i], tour[i + 1], m1) = EstimateLegMeters(tour[i], tour[i + 1], m2)
        /\ GateLegMeters(tour[i], tour[i + 1], m1) = GateLegMeters(tour[i], tour[i + 1], m2)
  BY <1>1 DEF EstimateLeg, EstimateLegMeters, GateLegMeters
<1>3. /\ Seconds(tour, m1) = Seconds(tour, m2)
      /\ Metres(tour, m1) = Metres(tour, m2)
      /\ GateMetres(tour, m1) = GateMetres(tour, m2)
  BY <1>2 DEF Seconds, Metres, GateMetres
<1>4. \A m : Timed(tour, m) = Timing(Len(tour) - 2, Seconds(tour, m), Metres(tour, m), GateMetres(tour, m))
  BY DEF Timed, Seconds, Metres, GateMetres
<1> QED
  BY <1>3, <1>4

LEMMA TimeRouteIs ==
  ASSUME NEW order \in Routes, NEW measured
  PROVE  TimeRoute(order, measured) = Timed(Tour(order), measured)
BY DEF TimeRoute, Estimates

-----------------------------------------------------------------------------
(* Limits.                                                                 *)

LEMMA LessOfIs ==
  ASSUME NEW x \in Nat, NEW limit \in Nat \cup {Unset}
  PROVE  /\ LessOf(x, limit) \in Nat /\ LessOf(x, limit) <= x
         /\ Within(LessOf(x, limit), limit)
         /\ \A y \in Int : y <= x /\ Within(y, limit) => y <= LessOf(x, limit)
<1>1. CASE limit = Unset
  BY <1>1 DEF LessOf, Within
<1>2. CASE limit # Unset
  <2>1. LessOf(x, limit) = Min({x, limit}) /\ limit \in Nat
    BY <1>2 DEF LessOf
  <2>2. Min({x, limit}) \in {x, limit} /\ \A y \in {x, limit} : Min({x, limit}) <= y
    <3>1. \E z \in {x, limit} : \A y \in {x, limit} : z <= y
      BY <2>1
    <3> QED
      BY <3>1 DEF Min
  <2> QED
    BY <1>2, <2>1, <2>2 DEF Within
<1> QED
  BY <1>1, <1>2

LEMMA LimitsTyped ==
  ASSUME policy \in PolicyStates, NEW s \in Shifts
  PROVE  Limits(s) \in Profiles
<1>1. NoLimits \in Profiles
  BY DEF NoLimits, Profiles
<1>2. \A x \in Profiles \cup {Unset} : ProfileLimits(x, policy.deleted) \in Profiles
  BY <1>1 DEF ProfileLimits
<1>3. \A x, y \in Profiles : ResolveLimits(x, y) \in Profiles
  BY DEF ResolveLimits, Profiles
<1>4. policy.default \in Profiles \cup {Unset} /\ policy.profile[s] \in Profiles \cup {Unset}
  BY DEF PolicyStates
<1> QED
  BY <1>1, <1>2, <1>3, <1>4 DEF Limits, DriverLimits

LEMMA LimitFields ==
  ASSUME NEW limits \in Profiles
  PROVE  /\ limits.working \in Nat \cup {Unset} /\ limits.driving \in Nat \cup {Unset}
         /\ limits.distance \in Nat \cup {Unset} /\ limits.stops \in Nat \cup {Unset}
BY DEF Profiles, Dimensions

-----------------------------------------------------------------------------
(* The load of a route.                                                    *)

Loads(order) == [i \in DOMAIN order |-> Weight[order[i]]]

LEMMA LoadIs ==
  ASSUME NEW order, NEW n, IsRoute(order, n)
  PROVE  /\ IsList(Loads(order), n) /\ LoadOf(order) = SumOf(Loads(order)) /\ LoadOf(order) \in Int
         /\ \A i \in 1..n : Loads(order)[i] = Weight[order[i]]
<1>1. n \in Nat /\ DOMAIN order = 1..n /\ \A i \in 1..n : Weight[order[i]] \in Int
  <2>1. n \in Nat /\ DOMAIN order = 1..n /\ \A i \in 1..n : order[i] \in Items
    BY DEF IsRoute
  <2>2. \A p \in Items : Weight[p] \in Int
    BY InsertionAssumption
  <2> QED
    BY <2>1, <2>2
<1>2. Loads(order) \in [1..n -> Int]
  BY <1>1 DEF Loads
<1>3. Len(Loads(order)) = n
  BY <1>1, <1>2, FunctionIsSeq
<1>4. IsList(Loads(order), n)
  BY <1>1, <1>2, <1>3 DEF IsList
<1>5. LoadOf(order) = SumOf(Loads(order)) /\ \A i \in 1..n : Loads(order)[i] = Weight[order[i]]
  BY <1>1 DEF LoadOf, Loads
<1> QED
  BY <1>4, <1>5, RunningIs

(* One more package weighs as much more.                                   *)
LEMMA LoadGrows ==
  ASSUME NEW order, NEW n, IsRoute(order, n), NEW p \in Items, p \notin ToSet(order),
         NEW k \in 1..(n + 1)
  PROVE  LoadOf(InsertAt(order, k, p)) = LoadOf(order) + Weight[p]
<1>1. PICK new : new = InsertAt(order, k, p)
  OBVIOUS
<1>2. IsRoute(new, n + 1) /\ IsInserted(new, order, n, k, p)
  BY <1>1, InsertedShape
<1>3. PICK old, more, w : old = Loads(order) /\ more = Loads(new) /\ w = Weight[p]
  OBVIOUS
<1>4. /\ IsList(old, n) /\ LoadOf(order) = SumOf(old) /\ \A i \in 1..n : old[i] = Weight[order[i]]
      /\ IsList(more, n + 1) /\ LoadOf(new) = SumOf(more) /\ \A i \in 1..(n + 1) : more[i] = Weight[new[i]]
  BY <1>2, <1>3, LoadIs
<1>5. n \in Nat /\ n + 1 \in Nat /\ k \in Nat /\ k >= 1 /\ k <= n + 1 /\ w \in Int
  BY <1>3, InsertionAssumption DEF IsRoute
<1>6. \A i \in 1..(n + 1) : more[i] = IF i < k THEN old[i] ELSE IF i = k THEN w ELSE old[i - 1]
  <2>1. ASSUME NEW i \in 1..(n + 1)
        PROVE  more[i] = IF i < k THEN old[i] ELSE IF i = k THEN w ELSE old[i - 1]
    <3>1. new[i] = IF i < k THEN order[i] ELSE IF i = k THEN p ELSE order[i - 1]
      BY <1>2 DEF IsInserted
    <3>2. more[i] = Weight[new[i]]
      BY <1>4
    <3>3. CASE i < k
      <4>1. i \in 1..n
        BY <1>5, <3>3
      <4> QED
        BY <1>4, <3>1, <3>2, <3>3, <4>1
    <3>4. CASE i = k
      BY <1>3, <1>5, <3>1, <3>2, <3>4
    <3>5. CASE i > k
      <4>1. i - 1 \in 1..n
        BY <1>5, <3>5
      <4> QED
        BY <1>4, <1>5, <3>1, <3>2, <3>5, <4>1
    <3> QED
      BY <1>5, <3>3, <3>4, <3>5
  <2> QED
    BY <2>1
<1>7. PICK f, g : f = Running(old) /\ g = Running(more)
  OBVIOUS
<1>8. /\ f \in [0..n -> Int] /\ f[0] = 0 /\ \A i \in 1..n : f[i] = f[i - 1] + old[i]
      /\ SumOf(old) = f[n]
  BY <1>4, <1>7, RunningIs
<1>9. /\ g \in [0..(n + 1) -> Int] /\ g[0] = 0 /\ \A i \in 1..(n + 1) : g[i] = g[i - 1] + more[i]
      /\ SumOf(more) = g[n + 1]
  <2>1. PICK m : m = n + 1
    OBVIOUS
  <2>2. IsList(more, m)
    BY <1>4, <2>1
  <2>3. /\ Running(more) \in [0..m -> Int] /\ Running(more)[0] = 0
        /\ \A i \in 1..m : Running(more)[i] = Running(more)[i - 1] + more[i]
        /\ SumOf(more) = Running(more)[m]
    BY <2>2, RunningIs
  <2> QED
    BY <1>7, <2>1, <2>3
<1>10. PICK Good : Good = {i \in 0..(n + 1) : g[i] = IF i < k THEN f[i] ELSE f[i - 1] + w}
  OBVIOUS
<1>11. 0 \in Good
  BY <1>5, <1>8, <1>9, <1>10
<1>12. ASSUME NEW i \in 1..(n + 1), i - 1 \in Good PROVE i \in Good
  <2>1. i \in Nat /\ g[i] = g[i - 1] + more[i] /\ i \in 0..(n + 1)
    BY <1>5, <1>9
  <2>2. g[i - 1] = IF i - 1 < k THEN f[i - 1] ELSE f[i - 1 - 1] + w
    BY <1>10, <1>12
  <2>3. \A j \in 0..n : f[j] \in Int
    BY <1>8
  <2>4. \A j \in 1..n : old[j] \in Int
    BY <1>4 DEF IsList
  <2>5. CASE i < k
    <3>1. i \in 1..n /\ i - 1 < k /\ f[i] = f[i - 1] + old[i] /\ more[i] = old[i]
      BY <1>5, <1>6, <1>8, <2>1, <2>5
    <3> QED
      BY <1>10, <2>1, <2>2, <2>5, <3>1
  <2>6. CASE i = k
    <3>1. i - 1 < k /\ more[i] = w /\ ~(i < k)
      BY <1>5, <1>6, <2>1, <2>6
    <3> QED
      BY <1>10, <2>1, <2>2, <3>1
  <2>7. CASE i > k
    <3>1. i - 1 \in 1..n /\ ~(i - 1 < k) /\ ~(i < k) /\ i - 1 - 1 \in 0..n
      BY <1>5, <2>1, <2>7
    <3>2. more[i] = old[i - 1]
      BY <1>5, <1>6, <2>1, <2>7
    <3>3. f[i - 1] = f[i - 1 - 1] + old[i - 1]
      BY <1>8, <3>1
    <3>4. f[i - 1 - 1] \in Int /\ old[i - 1] \in Int
      BY <2>3, <2>4, <3>1
    <3> QED
      BY <1>5, <1>10, <2>1, <2>2, <3>1, <3>2, <3>3, <3>4
  <2> QED
    BY <1>5, <2>1, <2>5, <2>6, <2>7
<1>13. 0..(n + 1) \subseteq Good
  BY <1>5, <1>11, <1>12, Climbs
<1>14. n + 1 \in Good /\ ~(n + 1 < k) /\ n + 1 - 1 = n
  BY <1>5, <1>13
<1>15. g[n + 1] = f[n] + w
  <2>1. PICK m : m = n + 1
    OBVIOUS
  <2>2. g[m] = IF m < k THEN f[m] ELSE f[m - 1] + w
    BY <1>10, <1>14, <2>1
  <2>3. ~(m < k) /\ m - 1 = n
    BY <1>5, <2>1
  <2> QED
    BY <2>1, <2>2, <2>3
<1>16. LoadOf(new) = LoadOf(order) + w
  BY <1>4, <1>8, <1>9, <1>15
<1> QED
  BY <1>1, <1>3, <1>16

-----------------------------------------------------------------------------
(* Where a package may go.                                                 *)

(* The tries at the positions of a route.                                  *)
TryAt(order, p, limits, measured, k) ==
  Judged(k, InsertAt(order, k, p), TimeRoute(InsertAt(order, k, p), measured), limits)

Tries(order, p, limits, measured) ==
  {Judged(t[1], t[2], TimeRoute(t[2], measured), limits)
     : t \in {<<k, InsertAt(order, k, p)>> : k \in 1..(Len(order) + 1)}}

LEMMA TriesAre ==
  ASSUME NEW order, NEW p, NEW limits, NEW measured
  PROVE  /\ \A t \in Tries(order, p, limits, measured) :
              \E k \in 1..(Len(order) + 1) : t = TryAt(order, p, limits, measured, k)
         /\ \A k \in 1..(Len(order) + 1) :
              TryAt(order, p, limits, measured, k) \in Tries(order, p, limits, measured)
<1>1. PICK places : places = {<<k, InsertAt(order, k, p)>> : k \in 1..(Len(order) + 1)}
  OBVIOUS
<1>2. Tries(order, p, limits, measured)
        = {Judged(t[1], t[2], TimeRoute(t[2], measured), limits) : t \in places}
  BY <1>1 DEF Tries
<1>3. ASSUME NEW t \in Tries(order, p, limits, measured)
      PROVE  \E k \in 1..(Len(order) + 1) : t = TryAt(order, p, limits, measured, k)
  <2>1. PICK x \in places : t = Judged(x[1], x[2], TimeRoute(x[2], measured), limits)
    BY <1>2
  <2>2. PICK k \in 1..(Len(order) + 1) : x = <<k, InsertAt(order, k, p)>>
    BY <1>1
  <2>3. x[1] = k /\ x[2] = InsertAt(order, k, p)
    BY <2>2
  <2> QED
    BY <2>1, <2>3 DEF TryAt
<1>4. ASSUME NEW k \in 1..(Len(order) + 1)
      PROVE  TryAt(order, p, limits, measured, k) \in Tries(order, p, limits, measured)
  <2>1. PICK x : x = <<k, InsertAt(order, k, p)>>
    OBVIOUS
  <2>2. x \in places /\ x[1] = k /\ x[2] = InsertAt(order, k, p)
    BY <1>1, <2>1
  <2>3. TryAt(order, p, limits, measured, k) = Judged(x[1], x[2], TimeRoute(x[2], measured), limits)
    BY <2>2 DEF TryAt
  <2> QED
    BY <1>2, <2>2, <2>3
<1> QED
  BY <1>3, <1>4

(* Among positions that will do there is a cheapest.                       *)
LEMMA CheapestExists ==
  ASSUME NEW n \in Nat, NEW cost \in [1..n -> Nat], NEW Good \in SUBSET (1..n), Good # {}
  PROVE  \E k \in Good : \A j \in Good : cost[k] < cost[j] \/ (cost[k] = cost[j] /\ k <= j)
<1>1. PICK Costs : Costs = {cost[k] : k \in Good}
  OBVIOUS
<1>2. Costs \in SUBSET Nat /\ Costs # {}
  BY <1>1
<1>3. PICK c \in Costs : \A d \in Costs : c <= d
  BY <1>2, Smallest
<1>4. PICK Ties : Ties = {k \in Good : cost[k] = c}
  OBVIOUS
<1>5. Ties \in SUBSET Nat /\ Ties # {}
  <2>1. PICK k \in Good : cost[k] = c
    BY <1>1, <1>3
  <2>2. k \in Ties
    BY <1>4, <2>1
  <2>3. Ties \subseteq 1..n
    BY <1>4
  <2> QED
    BY <2>2, <2>3
<1>6. PICK k \in Ties : \A j \in Ties : k <= j
  BY <1>5, Smallest
<1>7. ASSUME NEW j \in Good PROVE cost[k] < cost[j] \/ (cost[k] = cost[j] /\ k <= j)
  <2>1. cost[j] \in Costs /\ cost[j] \in Nat /\ cost[k] = c /\ c \in Nat
    BY <1>1, <1>3, <1>4
  <2>2. c <= cost[j]
    BY <1>3, <2>1
  <2>3. cost[j] = c => k <= j
    BY <1>4, <1>6
  <2> QED
    BY <2>1, <2>2, <2>3
<1> QED
  BY <1>4, <1>6, <1>7

(* A position that will do, on a route of n stops.                         *)
Fits(r, order, n, p, limits, measured) ==
  \E k \in 1..(n + 1) :
    /\ r.order = InsertAt(order, k, p)
    /\ Refusal(r.order, Timed(Tour(r.order), measured), limits) = "none"
    /\ r.delta \in Int

LEMMA CheapestFits ==
  ASSUME NEW order, NEW n, IsRoute(order, n), NEW p \in Items, p \notin ToSet(order),
         NEW limits, NEW measured, NEW r, r = CheapestPosition(order, p, limits, measured), r.feasible
  PROVE  Fits(r, order, n, p, limits, measured)
<1>1. n \in Nat /\ Len(order) = n /\ order \in Routes
  BY ShapeIsRoute DEF IsRoute
<1>2. PICK tries, before : /\ tries = Tries(order, p, limits, measured)
                           /\ before = TimeRoute(order, measured).drive
  OBVIOUS
<1>3. r = Cheapest(tries, before, limits)
  BY <1>2 DEF CheapestPosition, Tries
<1>4. ~(\A t \in tries : t.refusal # "none")
  BY <1>3 DEF Cheapest, Rejected
<1>5. PICK try : try = [k \in 1..(n + 1) |-> TryAt(order, p, limits, measured, k)]
  OBVIOUS
<1>6. /\ \A t \in tries : \E k \in 1..(n + 1) : t = try[k]
      /\ \A k \in 1..(n + 1) : try[k] \in tries
  BY <1>1, <1>2, <1>5, TriesAre
<1>7. ASSUME NEW k \in 1..(n + 1)
      PROVE  /\ try[k].index = k /\ try[k].order = InsertAt(order, k, p)
             /\ try[k].timing = Timed(Tour(InsertAt(order, k, p)), measured)
             /\ try[k].timing.drive \in Nat
             /\ try[k].refusal = Refusal(try[k].order, try[k].timing, limits)
  <2>1. PICK new : new = InsertAt(order, k, p)
    OBVIOUS
  <2>2. IsRoute(new, n + 1)
    BY <2>1, InsertedShape
  <2>3. TimeRoute(new, measured) = Timed(Tour(new), measured)
    BY <2>2, ShapeIsRoute, TimeRouteIs
  <2>4. TimingOf(Timed(Tour(new), measured), n + 1)
    BY <2>2, TourOfRoute, TimedHolds
  <2> QED
    BY <1>5, <2>1, <2>3, <2>4 DEF TryAt, Judged, TimingOf
<1>8. before \in Nat
  <2>1. TimingOf(Timed(Tour(order), measured), n)
    BY TourOfRoute, TimedHolds
  <2> QED
    BY <1>1, <1>2, <2>1, TimeRouteIs DEF TimingOf
<1>9. PICK cost : cost = [k \in 1..(n + 1) |-> try[k].timing.drive]
  OBVIOUS
<1>10. PICK Good : Good = {k \in 1..(n + 1) : try[k].refusal = "none"}
  OBVIOUS
<1>11. PICK k \in Good : \A j \in Good : cost[k] < cost[j] \/ (cost[k] = cost[j] /\ k <= j)
  <2>1. cost \in [1..(n + 1) -> Nat] /\ Good \in SUBSET (1..(n + 1)) /\ n + 1 \in Nat
    BY <1>1, <1>7, <1>9, <1>10
  <2>2. Good # {}
    BY <1>4, <1>6, <1>10
  <2> QED
    BY <2>1, <2>2, CheapestExists
<1>12. PICK best : best = {x \in tries : /\ x.refusal = "none"
                                         /\ \A y \in tries : y.refusal = "none" => Cheaper(x, y)}
  OBVIOUS
<1>13. try[k] \in best
  <2>1. try[k] \in tries /\ try[k].refusal = "none" /\ k \in 1..(n + 1)
    BY <1>6, <1>10, <1>11
  <2>2. ASSUME NEW y \in tries, y.refusal = "none" PROVE Cheaper(try[k], y)
    <3>1. PICK j \in 1..(n + 1) : y = try[j]
      BY <1>6
    <3>2. j \in Good
      BY <1>10, <2>2, <3>1
    <3>3. cost[k] < cost[j] \/ (cost[k] = cost[j] /\ k <= j)
      BY <1>11, <3>2
    <3> QED
      BY <1>7, <1>9, <2>1, <3>1, <3>3 DEF Cheaper
  <2> QED
    BY <1>12, <2>1, <2>2
<1>14. PICK answers : answers = {[feasible |-> TRUE, order |-> t.order, delta |-> t.timing.drive - before,
                                  grey |-> IsGreyBand(t.order, t.timing, limits)] : t \in best}
  OBVIOUS
<1>15. r = CHOOSE x \in answers : TRUE
  BY <1>3, <1>4, <1>12, <1>14 DEF Cheapest
<1>16. answers # {}
  BY <1>13, <1>14
<1>17. r \in answers
  BY <1>15, <1>16
<1>18. PICK t \in best : r.order = t.order /\ r.delta = t.timing.drive - before
  BY <1>14, <1>17
<1>19. PICK i \in 1..(n + 1) : t = try[i] /\ t.refusal = "none"
  BY <1>6, <1>12
<1> QED
  BY <1>7, <1>8, <1>18, <1>19 DEF Fits

(* A route the engine may write: every gate was passed.                    *)
Sound(order, measured, limits) ==
  /\ order \in Routes
  /\ Refusal(order, Timed(Tour(order), measured), limits) = "none"
  /\ LoadOf(order) <= CapacityG
  /\ Len(order) <= LessOf(MaxStops, limits.stops)

LEMMA InsertionIsSound ==
  ASSUME NEW order \in Routes, NEW p \in Items, p \notin ToSet(order),
         NEW limits \in Profiles, NEW measured, NEW r, r = TryInsert(order, p, limits, measured), r.feasible
  PROVE  /\ Sound(r.order, measured, limits) /\ r.delta \in Int
         /\ ToSet(r.order) = ToSet(order) \cup {p}
<1>1. PICK n : IsRoute(order, n)
  BY RouteShape
<1>2. /\ LoadOf(order) + Weight[p] <= CapacityG
      /\ Len(order) + 1 <= LessOf(MaxStops, limits.stops)
      /\ r = CheapestPosition(order, p, limits, measured)
  <2>1. \A reason : ~Rejected(reason).feasible
    BY DEF Rejected
  <2>2. ~(LoadOf(order) + Weight[p] > CapacityG)
    BY <2>1 DEF TryInsert
  <2>3. ~(Len(order) + 1 > LessOf(MaxStops, limits.stops))
    BY <2>1, <2>2 DEF TryInsert
  <2>4. r = CheapestPosition(order, p, limits, measured)
    BY <2>2, <2>3 DEF TryInsert
  <2>5. LoadOf(order) \in Int /\ Weight[p] \in Int /\ CapacityG \in Int
    BY <1>1, LoadIs, InsertionAssumption
  <2>6. Len(order) \in Nat /\ LessOf(MaxStops, limits.stops) \in Nat
    BY <1>1, LessOfIs, LimitFields, LimitsAssumption DEF IsRoute
  <2> QED
    BY <2>2, <2>3, <2>4, <2>5, <2>6
<1>3. Fits(r, order, n, p, limits, measured)
  BY <1>1, <1>2, CheapestFits
<1>4. PICK k \in 1..(n + 1) : /\ r.order = InsertAt(order, k, p)
                              /\ Refusal(r.order, Timed(Tour(r.order), measured), limits) = "none"
                              /\ r.delta \in Int
  BY <1>3 DEF Fits
<1>5. /\ IsRoute(r.order, n + 1) /\ LoadOf(r.order) = LoadOf(order) + Weight[p]
      /\ ToSet(r.order) = ToSet(order) \cup {p}
  BY <1>1, <1>4, InsertedShape, LoadGrows
<1>6. r.order \in Routes /\ Len(r.order) = Len(order) + 1
  BY <1>1, <1>5, ShapeIsRoute DEF IsRoute
<1> QED
  BY <1>2, <1>4, <1>5, <1>6 DEF Sound

-----------------------------------------------------------------------------
(* Packages taken off a route, or put at its end.                          *)

IsAppended(new, order, n, p) ==
  /\ IsRoute(new, n + 1) /\ ToSet(new) = ToSet(order) \cup {p}
  /\ \A i \in 1..n : new[i] = order[i]
  /\ new[n + 1] = p

LEMMA AppendedShape ==
  ASSUME NEW order, NEW n, IsRoute(order, n), NEW p \in Items, p \notin ToSet(order)
  PROVE  IsAppended(Append(order, p), order, n, p)
<1>1. PICK new : new = Append(order, p)
  OBVIOUS
<1>2. n \in Nat /\ order \in Seq(Items) /\ Len(order) = n /\ DOMAIN order = 1..n
  BY DEF IsRoute
<1>3. /\ new \in Seq(Items) /\ Len(new) = n + 1
      /\ \A i \in 1..n : new[i] = order[i]
      /\ new[n + 1] = p
  BY <1>1, <1>2, AppendProperties
<1>4. new \in [1..(n + 1) -> Items] /\ DOMAIN new = 1..(n + 1)
  BY <1>3, LenProperties
<1>5. \A i \in 1..n : order[i] # p
  BY <1>2 DEF ToSet
<1>6. \A i \in 1..(n + 1) : i \in 1..n \/ i = n + 1
  BY <1>2
<1>7. \A i, j \in 1..(n + 1) : new[i] = new[j] => i = j
  BY <1>3, <1>5, <1>6 DEF IsRoute
<1>8. IsRoute(new, n + 1)
  BY <1>2, <1>3, <1>4, <1>7 DEF IsRoute
<1>9. \A q : q \in ToSet(new) <=> q \in ToSet(order) \cup {p}
  <2>1. ASSUME NEW q \in ToSet(new) PROVE q \in ToSet(order) \cup {p}
    <3>1. PICK i \in 1..(n + 1) : q = new[i]
      BY <1>4 DEF ToSet
    <3> QED
      BY <1>2, <1>3, <1>6, <3>1 DEF ToSet
  <2>2. ASSUME NEW q \in ToSet(order) PROVE q \in ToSet(new)
    <3>1. PICK i \in 1..n : q = order[i]
      BY <1>2 DEF ToSet
    <3>2. i \in 1..(n + 1) /\ new[i] = q
      BY <1>2, <1>3, <3>1
    <3> QED
      BY <1>4, <3>2 DEF ToSet
  <2>3. p \in ToSet(new)
    <3>1. n + 1 \in 1..(n + 1)
      BY <1>2
    <3> QED
      BY <1>3, <1>4, <3>1 DEF ToSet
  <2> QED
    BY <2>1, <2>2, <2>3
<1> QED
  BY <1>1, <1>3, <1>8, <1>9 DEF IsAppended

IsKept(kept, order, victims) ==
  kept = [i \in 0..Len(order) |-> IF i = 0 THEN <<>>
                                  ELSE IF order[i] \in victims THEN kept[i - 1]
                                  ELSE Append(kept[i - 1], order[i])]

LEMMA KeptExists ==
  ASSUME NEW order, NEW n, IsRoute(order, n), NEW victims
  PROVE  \E kept : IsKept(kept, order, victims)
<1> DEFINE Next1(before, i) == IF order[i] \in victims THEN before ELSE Append(before, order[i])
           Upto(m, kept) == /\ kept = [i \in 0..m |-> kept[i]] /\ kept[0] = <<>>
                            /\ \A i \in 1..m : kept[i] = Next1(kept[i - 1], i)
<1>0. n \in Nat /\ Len(order) = n
  BY DEF IsRoute
<1> HIDE DEF Next1
<1>1. PICK Good : Good = {m \in 0..n : \E kept : Upto(m, kept)}
  OBVIOUS
<1>2. 0 \in Good
  <2>1. Upto(0, [i \in 0..0 |-> <<>>])
    OBVIOUS
  <2>2. 0 \in 0..n
    BY <1>0
  <2> QED
    BY <1>1, <2>1, <2>2
<1>3. ASSUME NEW m \in 1..n, m - 1 \in Good PROVE m \in Good
  <2>1. PICK kept : Upto(m - 1, kept)
    BY <1>1, <1>3
  <2>2. PICK more : more = [i \in 0..m |-> IF i = m THEN Next1(kept[m - 1], m) ELSE kept[i]]
    OBVIOUS
  <2>3. m \in Nat /\ m >= 1 /\ m \in 0..n
    BY <1>0
  <2>4. Upto(m, more)
    <3>1. more = [i \in 0..m |-> more[i]] /\ more[0] = <<>>
      BY <2>1, <2>2, <2>3
    <3>2. ASSUME NEW i \in 1..m PROVE more[i] = Next1(more[i - 1], i)
      <4>1. i - 1 \in 0..m /\ i - 1 # m /\ more[i - 1] = kept[i - 1]
        BY <2>2, <2>3
      <4>2. CASE i = m
        BY <2>2, <2>3, <4>1, <4>2
      <4>3. CASE i # m
        <5>1. i \in 1..(m - 1)
          BY <2>3, <4>3
        <5>2. kept[i] = Next1(kept[i - 1], i)
          BY <2>1, <5>1
        <5> QED
          BY <2>2, <2>3, <4>1, <4>3, <5>2
      <4> QED
        BY <4>2, <4>3
    <3> QED
      BY <3>1, <3>2
  <2> QED
    BY <1>1, <2>3, <2>4
<1>4. 0..n \subseteq Good
  BY <1>0, <1>2, <1>3, Climbs
<1>5. PICK kept : Upto(n, kept)
  <2>1. n \in 0..n
    BY <1>0
  <2> QED
    BY <1>1, <1>4, <2>1
<1>6. IsKept(kept, order, victims)
  <2>1. \A i \in 0..n : kept[i] = IF i = 0 THEN <<>> ELSE Next1(kept[i - 1], i)
    <3>1. \A i \in 0..n : i = 0 \/ i \in 1..n
      BY <1>0
    <3> QED
      BY <1>5, <3>1
  <2>2. kept = [i \in 0..n |-> IF i = 0 THEN <<>> ELSE Next1(kept[i - 1], i)]
    BY <1>5, <2>1
  <2> QED
    BY <1>0, <2>2 DEF IsKept, Next1
<1> QED
  BY <1>6

LEMMA WithoutShape ==
  ASSUME NEW order, NEW n, IsRoute(order, n), NEW victims
  PROVE  /\ \E m : IsRoute(Without(order, victims), m)
         /\ ToSet(Without(order, victims)) = ToSet(order) \ victims
         /\ victims = {} => Without(order, victims) = order
<1>0. n \in Nat /\ Len(order) = n /\ DOMAIN order = 1..n /\ \A i \in 1..n : order[i] \in Items
  BY DEF IsRoute
<1>1. PICK kept : IsKept(kept, order, victims) /\ Without(order, victims) = kept[n]
  <2>1. PICK kept : kept = CHOOSE f : IsKept(f, order, victims)
    OBVIOUS
  <2>2. Without(order, victims) = kept[n]
    BY <1>0, <2>1 DEF Without, IsKept
  <2>3. IsKept(kept, order, victims)
    BY <2>1, KeptExists
  <2> QED
    BY <2>2, <2>3
<1>2. /\ kept[0] = <<>>
      /\ \A i \in 1..n : kept[i] = IF order[i] \in victims THEN kept[i - 1] ELSE Append(kept[i - 1], order[i])
  <2>1. kept = [i \in 0..n |-> IF i = 0 THEN <<>>
                                ELSE IF order[i] \in victims THEN kept[i - 1]
                                ELSE Append(kept[i - 1], order[i])]
    BY <1>0, <1>1 DEF IsKept
  <2>2. 0 \in 0..n /\ \A i \in 1..n : i \in 0..n /\ i # 0
    BY <1>0
  <2> QED
    BY Zenon, <2>1, <2>2
<1> DEFINE Ok(i) ==
      /\ \E m : IsRoute(kept[i], m)
      /\ \A q : q \in ToSet(kept[i]) <=> q \notin victims /\ \E j \in 1..i : order[j] = q
      /\ victims = {} => Len(kept[i]) = i /\ \A j \in 1..i : kept[i][j] = order[j]
<1>3. PICK Good : Good = {i \in 0..n : Ok(i)}
  OBVIOUS
<1>4. 0 \in Good
  <2>1. IsRoute(<<>>, 0)
    <3>1. <<>> \in Seq(Items) /\ Len(<<>>) = 0
      BY EmptySeq
    <3>2. <<>> \in [1..0 -> Items]
      BY <3>1, LenProperties
    <3> QED
      BY <3>1, <3>2 DEF IsRoute
  <2>2. ToSet(<<>>) = {}
    BY DEF ToSet
  <2>3. Ok(0)
    BY <1>2, <2>1, <2>2 DEF IsRoute
  <2> QED
    BY <1>0, <1>3, <2>3
<1>5. ASSUME NEW i \in 1..n, i - 1 \in Good PROVE i \in Good
  <2>1. i \in Nat /\ i >= 1 /\ i \in 0..n /\ order[i] \in Items
    BY <1>0
  <2>2. Ok(i - 1)
    BY <1>3, <1>5
  <2>3. \A j \in 1..i : j \in 1..(i - 1) \/ j = i
    BY <2>1
  <2>4. CASE order[i] \in victims
    <3>1. kept[i] = kept[i - 1]
      BY <1>2, <2>4
    <3>2. Ok(i)
      <4>1. \A q : q \in ToSet(kept[i]) <=> q \notin victims /\ \E j \in 1..i : order[j] = q
        BY <2>1, <2>2, <2>3, <2>4, <3>1
      <4> QED
        BY <2>2, <2>4, <3>1, <4>1
    <3> QED
      BY <1>3, <2>1, <3>2
  <2>5. CASE order[i] \notin victims
    <3>1. kept[i] = Append(kept[i - 1], order[i])
      BY <1>2, <2>5
    <3>2. PICK m : IsRoute(kept[i - 1], m)
      BY <2>2
    <3>3. order[i] \notin ToSet(kept[i - 1])
      <4>1. \A j \in 1..(i - 1) : order[j] # order[i]
        BY <1>0, <2>1 DEF IsRoute
      <4> QED
        BY <2>2, <4>1
    <3>4. /\ IsRoute(kept[i], m + 1) /\ ToSet(kept[i]) = ToSet(kept[i - 1]) \cup {order[i]}
          /\ \A j \in 1..m : kept[i][j] = kept[i - 1][j]
          /\ kept[i][m + 1] = order[i]
      <4>1. PICK before, q : before = kept[i - 1] /\ q = order[i]
        OBVIOUS
      <4>2. IsRoute(before, m) /\ q \in Items /\ q \notin ToSet(before)
        BY <2>1, <3>2, <3>3, <4>1
      <4>3. IsAppended(Append(before, q), before, m, q)
        BY <4>2, AppendedShape
      <4> QED
        BY <3>1, <4>1, <4>3 DEF IsAppended
    <3>5. \A q : q \in ToSet(kept[i]) <=> q \notin victims /\ \E j \in 1..i : order[j] = q
      BY <2>1, <2>2, <2>3, <2>5, <3>4
    <3>6. ASSUME victims = {} PROVE Len(kept[i]) = i /\ \A j \in 1..i : kept[i][j] = order[j]
      <4>1. m = i - 1 /\ \A j \in 1..(i - 1) : kept[i - 1][j] = order[j]
        BY <2>2, <3>2, <3>6 DEF IsRoute
      <4>2. Len(kept[i]) = i
        BY <2>1, <3>4, <4>1 DEF IsRoute
      <4> QED
        BY SMTT(30), <2>1, <2>3, <3>4, <4>1, <4>2
    <3>7. Ok(i)
      BY <3>4, <3>5, <3>6
    <3> QED
      BY <1>3, <2>1, <3>7
  <2> QED
    BY <2>4, <2>5
<1>6. 0..n \subseteq Good
  BY <1>0, <1>4, <1>5, Climbs
<1>7. Ok(n)
  <2>1. n \in Good
    BY <1>0, <1>6
  <2> QED
    BY <1>3, <2>1
<1>8. ToSet(kept[n]) = ToSet(order) \ victims
  <2>1. \A q : q \in ToSet(order) <=> \E j \in 1..n : order[j] = q
    BY <1>0 DEF ToSet
  <2>2. \A q : q \in ToSet(kept[n]) <=> q \in ToSet(order) \ victims
    BY <1>7, <2>1
  <2> QED
    BY <2>2
<1>9. victims = {} => kept[n] = order
  <2>1. SUFFICES ASSUME victims = {} PROVE kept[n] = order
    OBVIOUS
  <2>2. PICK m : IsRoute(kept[n], m)
    BY <1>7
  <2>3. m = n
    BY <1>7, <2>1, <2>2 DEF IsRoute
  <2>4. kept[n] \in [1..n -> Items] /\ order \in [1..n -> Items]
    BY <2>2, <2>3 DEF IsRoute
  <2> QED
    BY <1>7, <2>1, <2>4
<1> QED
  BY <1>1, <1>7, <1>8, <1>9

-----------------------------------------------------------------------------
(* The best of some candidates.                                            *)

IsScan(best, results) ==
  best = [i \in 1..Len(results) |-> IF i = 1 \/ Beats(results[i], best[i - 1]) THEN results[i] ELSE best[i - 1]]

Better(new, best) == IF Beats(new, best) THEN new ELSE best

(* The best so far, as the candidates are gone through.                    *)
Scanned(best, seq, n) ==
  /\ best[1] = seq[1]
  /\ \A i \in 1..n : i # 1 => best[i] = Better(seq[i], best[i - 1])

LEMMA ScanExists ==
  ASSUME NEW n \in Nat, n >= 1, NEW seq, Len(seq) = n
  PROVE  \E best : IsScan(best, seq)
<1> DEFINE Upto(m, best) == /\ best = [i \in 1..m |-> best[i]]
                            /\ \A i \in 1..m : best[i] = IF i = 1 THEN seq[1] ELSE Better(seq[i], best[i - 1])
<1>1. PICK Good : Good = {m \in 0..n : \E best : Upto(m, best)}
  OBVIOUS
<1>2. 0 \in Good
  <2>1. Upto(0, [i \in 1..0 |-> 0])
    OBVIOUS
  <2>2. 0 \in 0..n
    OBVIOUS
  <2> QED
    BY <1>1, <2>1, <2>2
<1>3. ASSUME NEW m \in 1..n, m - 1 \in Good PROVE m \in Good
  <2>1. PICK best : Upto(m - 1, best)
    BY <1>1, <1>3
  <2>2. PICK last : last = IF m = 1 THEN seq[1] ELSE Better(seq[m], best[m - 1])
    OBVIOUS
  <2>3. PICK more : more = [i \in 1..m |-> IF i = m THEN last ELSE best[i]]
    OBVIOUS
  <2>4. m \in Nat /\ m >= 1 /\ m \in 0..n
    OBVIOUS
  <2>5. Upto(m, more)
    <3>1. more = [i \in 1..m |-> more[i]]
      BY <2>3
    <3>2. ASSUME NEW i \in 1..m
          PROVE  more[i] = IF i = 1 THEN seq[1] ELSE Better(seq[i], more[i - 1])
      <4>1. i # 1 => i - 1 \in 1..m /\ i - 1 # m /\ more[i - 1] = best[i - 1]
        BY <2>3, <2>4
      <4>2. CASE i = m
        BY <2>2, <2>3, <2>4, <4>1, <4>2
      <4>3. CASE i # m
        <5>1. i \in 1..(m - 1)
          BY <2>4, <4>3
        <5>2. best[i] = IF i = 1 THEN seq[1] ELSE Better(seq[i], best[i - 1])
          BY <2>1, <5>1
        <5> QED
          BY <2>3, <2>4, <4>1, <4>3, <5>2
      <4> QED
        BY <4>2, <4>3
    <3> QED
      BY <3>1, <3>2
  <2> QED
    BY <1>1, <2>4, <2>5
<1>4. 0..n \subseteq Good
  BY <1>2, <1>3, Climbs
<1>5. PICK best : Upto(n, best)
  <2>1. n \in 0..n
    OBVIOUS
  <2> QED
    BY <1>1, <1>4, <2>1
<1>6. \A i \in 1..n : best[i] = IF i = 1 \/ Beats(seq[i], best[i - 1]) THEN seq[i] ELSE best[i - 1]
  BY <1>5 DEF Better
<1>7. best = [i \in 1..n |-> IF i = 1 \/ Beats(seq[i], best[i - 1]) THEN seq[i] ELSE best[i - 1]]
  <2>1. best = [i \in 1..n |-> best[i]]
    BY <1>5
  <2> QED
    BY <1>6, <2>1
<1> QED
  BY <1>7 DEF IsScan

LEMMA ScanIs ==
  ASSUME NEW n \in Nat, n >= 1, NEW seq, Len(seq) = n
  PROVE  \E best : Scanned(best, seq, n) /\ ChooseBest(seq) = best[n]
<1>1. PICK best : best = CHOOSE f : IsScan(f, seq)
  OBVIOUS
<1>2. ChooseBest(seq) = best[n]
  BY <1>1 DEF ChooseBest, IsScan
<1>3. best = [i \in 1..n |-> IF i = 1 \/ Beats(seq[i], best[i - 1]) THEN seq[i] ELSE best[i - 1]]
  <2>1. IsScan(best, seq)
    BY <1>1, ScanExists
  <2> QED
    BY <2>1 DEF IsScan
<1>4. \A i \in 1..n : best[i] = IF i = 1 \/ Beats(seq[i], best[i - 1]) THEN seq[i] ELSE best[i - 1]
  BY Zenon, <1>3
<1>5. 1 \in 1..n
  OBVIOUS
<1>6. Scanned(best, seq, n)
  BY <1>4, <1>5 DEF Scanned, Better
<1> QED
  BY <1>2, <1>6

(* Numbers to compare, and a shift to tell them apart.                     *)
Comparable(r) == r.delta \in Int /\ r.stops \in Int /\ r.shift \in Int

LEMMA BeatsOrders ==
  ASSUME NEW a, NEW b, NEW c, Comparable(a), Comparable(b), Comparable(c)
  PROVE  /\ Beats(a, b) /\ Beats(b, c) => Beats(a, c)
         /\ ~(Beats(a, b) /\ Beats(b, a))
         /\ a.shift # b.shift => Beats(a, b) \/ Beats(b, a)
<1>1. LoadSpread \in Int
  BY InsertionAssumption
<1>2. \A x, y \in Int : x + y * LoadSpread \in Int
  BY <1>1
<1>3. Cost(a) \in Int /\ Cost(b) \in Int /\ Cost(c) \in Int
  BY <1>2 DEF Cost, Comparable
<1>4. PICK u, v, w : u = Cost(a) /\ v = Cost(b) /\ w = Cost(c)
  OBVIOUS
<1>5. /\ Beats(a, b) <=> u < v \/ (u = v /\ a.stops < b.stops) \/ (u = v /\ a.stops = b.stops /\ a.shift < b.shift)
      /\ Beats(b, a) <=> v < u \/ (v = u /\ b.stops < a.stops) \/ (v = u /\ b.stops = a.stops /\ b.shift < a.shift)
      /\ Beats(b, c) <=> v < w \/ (v = w /\ b.stops < c.stops) \/ (v = w /\ b.stops = c.stops /\ b.shift < c.shift)
      /\ Beats(a, c) <=> u < w \/ (u = w /\ a.stops < c.stops) \/ (u = w /\ a.stops = c.stops /\ a.shift < c.shift)
  BY <1>4 DEF Beats
<1> QED
  BY <1>3, <1>4, <1>5 DEF Comparable

(* Candidates of one shift each: whoever is chosen beats every other.      *)
Contest(S) ==
  /\ \A r \in S : Comparable(r)
  /\ \A r, t \in S : r.shift = t.shift => r = t

LEMMA WinnerBeatsAll ==
  ASSUME NEW S, Contest(S), NEW n \in Nat, n >= 1, NEW seq \in [1..n -> S], Len(seq) = n
  PROVE  /\ \E i \in 1..n : ChooseBest(seq) = seq[i]
         /\ \A i \in 1..n : ChooseBest(seq) = seq[i] \/ Beats(ChooseBest(seq), seq[i])
<1>1. PICK best : Scanned(best, seq, n) /\ ChooseBest(seq) = best[n]
  BY ScanIs
<1> DEFINE Ok(i) == /\ \E j \in 1..i : best[i] = seq[j]
                    /\ \A j \in 1..i : best[i] = seq[j] \/ Beats(best[i], seq[j])
<1>2. PICK Good : Good = {i \in 0..n : i = 0 \/ Ok(i)}
  OBVIOUS
<1>3. 0 \in Good
  BY <1>2
<1>4. ASSUME NEW i \in 1..n, i - 1 \in Good PROVE i \in Good
  <2>1. i \in Nat /\ i \in 0..n /\ \A j \in 1..i : j = i \/ j \in 1..(i - 1)
    OBVIOUS
  <2>2. CASE i = 1
    <3>1. best[1] = seq[1]
      BY <1>1 DEF Scanned
    <3>2. \A j \in 1..i : j = 1
      BY <2>2
    <3>3. Ok(i)
      BY <2>2, <3>1, <3>2
    <3> QED
      BY <1>2, <2>1, <3>3
  <2>3. CASE i # 1
    <3>1. i - 1 # 0 /\ i - 1 \in 1..n
      BY <2>1, <2>3
    <3>2. Ok(i - 1)
      BY <1>2, <1>4, <3>1
    <3>3. best[i] = Better(seq[i], best[i - 1])
      BY <1>1, <2>3 DEF Scanned
    <3>4. PICK k \in 1..(i - 1) : best[i - 1] = seq[k]
      BY <3>2
    <3>5. k \in 1..n /\ k \in 1..i
      BY <2>1
    <3>6. \A j \in 1..i : seq[j] \in S
      BY <2>1
    <3>7. CASE Beats(seq[i], best[i - 1])
      <4>1. best[i] = seq[i]
        BY <3>3, <3>7 DEF Better
      <4>2. ASSUME NEW j \in 1..(i - 1) PROVE Beats(seq[i], seq[j])
        <5>1. seq[i] \in S /\ seq[j] \in S /\ seq[k] \in S
          BY <2>1, <3>5
        <5>2. seq[k] = seq[j] \/ Beats(seq[k], seq[j])
          BY <3>2, <3>4
        <5>3. Beats(seq[i], seq[k])
          BY <3>4, <3>7
        <5> QED
          BY <5>1, <5>2, <5>3, BeatsOrders DEF Contest
      <4>3. Ok(i)
        BY <2>1, <4>1, <4>2
      <4> QED
        BY <1>2, <2>1, <4>3
    <3>8. CASE ~Beats(seq[i], best[i - 1])
      <4>1. best[i] = seq[k]
        BY <3>3, <3>4, <3>8 DEF Better
      <4>2. seq[k] = seq[i] \/ Beats(seq[k], seq[i])
        <5>1. seq[i] \in S /\ seq[k] \in S /\ ~Beats(seq[i], seq[k])
          BY <3>4, <3>5, <3>8
        <5> QED
          BY <5>1, BeatsOrders DEF Contest
      <4>3. \A j \in 1..(i - 1) : seq[k] = seq[j] \/ Beats(seq[k], seq[j])
        BY <3>2, <3>4
      <4>4. Ok(i)
        BY <2>1, <3>5, <4>1, <4>2, <4>3
      <4> QED
        BY <1>2, <2>1, <4>4
    <3> QED
      BY <3>7, <3>8
  <2> QED
    BY <2>2, <2>3
<1>5. 0..n \subseteq Good
  BY <1>3, <1>4, Climbs
<1>6. Ok(n)
  BY <1>2, <1>5
<1> QED
  BY <1>1, <1>6

(* The choice is the same whatever the order of the candidates.            *)
LEMMA OrderIsIrrelevant ==
  ASSUME NEW S, Contest(S), S # {}, IsFiniteSet(S)
  PROVE  /\ Cardinality({ChooseBest(seq) : seq \in SetToSeqs(S)}) = 1
         /\ ChooseBest(SetToSeq(S)) \in S
<1>1. PICK n : n = Cardinality(S)
  OBVIOUS
<1>2. n \in Nat /\ n >= 1 /\ ExistsBijection(1..n, S)
  BY <1>1, FS_CardinalityType, FS_EmptySet
<1>3. PICK some \in Bijection(1..n, S) : TRUE
  BY <1>2 DEF ExistsBijection
<1>4. some \in [1..n -> S] /\ IsInjective(some)
  BY <1>3 DEF Bijection, Injection
<1>5. ASSUME NEW seq \in SetToSeqs(S)
      PROVE  /\ ChooseBest(seq) \in S
             /\ \A r \in S : ChooseBest(seq) = r \/ Beats(ChooseBest(seq), r)
  <2>1. seq \in [1..n -> S] /\ \A i, j \in 1..n : i # j => seq[i] # seq[j]
    BY <1>1 DEF SetToSeqs
  <2>2. Len(seq) = n
    BY <1>2, <2>1, FunctionIsSeq
  <2>3. seq \in Injection(1..n, S)
    BY <2>1 DEF Injection, IsInjective
  <2>4. seq \in Surjection(1..n, S)
    <3>1. Cardinality(1..n) = n
      BY <1>2, FS_Interval
    <3> QED
      BY <1>1, <2>3, <3>1, FS_Injection
  <2>5. \A r \in S : \E i \in 1..n : seq[i] = r
    BY <2>4 DEF Surjection
  <2>6. /\ \E i \in 1..n : ChooseBest(seq) = seq[i]
        /\ \A i \in 1..n : ChooseBest(seq) = seq[i] \/ Beats(ChooseBest(seq), seq[i])
    BY <1>2, <2>1, <2>2, WinnerBeatsAll
  <2> QED
    BY <2>1, <2>5, <2>6
<1>6. some \in SetToSeqs(S)
  BY <1>1, <1>4 DEF SetToSeqs, IsInjective
<1>7. \A seq \in SetToSeqs(S) : ChooseBest(seq) = ChooseBest(some)
  <2>1. ASSUME NEW seq \in SetToSeqs(S) PROVE ChooseBest(seq) = ChooseBest(some)
    <3>1. PICK a, b : a = ChooseBest(seq) /\ b = ChooseBest(some)
      OBVIOUS
    <3>2. a \in S /\ b \in S /\ (a = b \/ (Beats(a, b) /\ Beats(b, a)))
      BY <1>5, <1>6, <3>1
    <3>3. Comparable(a) /\ Comparable(b)
      BY <3>2 DEF Contest
    <3> QED
      BY <3>1, <3>2, <3>3, BeatsOrders
  <2> QED
    BY <2>1
<1>8. {ChooseBest(seq) : seq \in SetToSeqs(S)} = {ChooseBest(some)}
  BY <1>6, <1>7
<1>9. SetToSeq(S) \in SetToSeqs(S)
  <2>1. SetToSeq(S) = CHOOSE f \in [1..n -> S] : IsInjective(f)
    BY <1>1 DEF SetToSeq
  <2>2. SetToSeq(S) \in [1..n -> S] /\ IsInjective(SetToSeq(S))
    BY <1>4, <2>1
  <2> QED
    BY <1>1, <2>2 DEF SetToSeqs, IsInjective
<1> QED
  BY <1>5, <1>8, <1>9, FS_Singleton

-----------------------------------------------------------------------------
(* Every route the engine has written is vouched for: the instant planner's*)
(* passed every gate, the solver's is an answer to what it was asked and   *)
(* breaks no limit.  And a package on a route is on no other and is not    *)
(* waiting for one.                                                        *)

ItemStates == [status : {"PENDING", "ASSIGNED", "LOADED"}, evictions : Nat]

IsPlan(r) == r.order \in Routes /\ r.by \in {"hand", "tier1", "tier2"} /\ r.under \in Profiles

Vouched(r) ==
  /\ r.by = "tier1" => Sound(r.order, r.measured, r.under)
  /\ r.by = "tier2" => /\ Accepts(VroomVehicleLimits(NoLimits), r.order, Measured(r.order))
                       /\ ~BreachesLimits(AnswerOf(r.order), r.under)
                       /\ r.measured = LegsOf(r.order)

PlansVouched == DOMAIN plan = Shifts /\ \A s \in Shifts : IsPlan(plan[s]) /\ Vouched(plan[s])

RoutesApart ==
  \A s \in Shifts : \A p \in ToSet(plan[s].order) :
    /\ item[p].status # "PENDING"
    /\ \A t \in Shifts : p \in ToSet(plan[t].order) => t = s

InsertionInv ==
  /\ policy \in PolicyStates /\ item \in [Items -> ItemStates]
  /\ PlansVouched /\ RoutesApart

LEMMA RouteItems ==
  ASSUME NEW order \in Routes
  PROVE  ToSet(order) \subseteq Items /\ Len(order) \in Nat
<1>1. PICK n : IsRoute(order, n)
  BY RouteShape
<1> QED
  BY <1>1 DEF IsRoute, ToSet

LEMMA EmptyRoute == <<>> \in Routes /\ ToSet(<<>>) = {}
<1>1. PICK order : order = <<>>
  OBVIOUS
<1>2. IsRoute(order, 0)
  <2>1. order \in Seq(Items) /\ Len(order) = 0 /\ order \in [1..0 -> Items]
    BY <1>1
  <2> QED
    BY <2>1 DEF IsRoute
<1>3. ToSet(order) = {}
  BY <1>1 DEF ToSet
<1> QED
  BY <1>1, <1>2, <1>3, ShapeIsRoute

LEMMA InsertionStart == InsertionInit => InsertionInv
<1> SUFFICES ASSUME InsertionInit PROVE InsertionInv
  OBVIOUS
<1>1. policy \in PolicyStates
  BY InsertionAssumption DEF InsertionInit
<1>2. item \in [Items -> ItemStates]
  BY DEF InsertionInit, ItemStates
<1>3. NoLimits \in Profiles
  BY DEF NoLimits, Profiles
<1>4. \A s \in Shifts : plan[s] = NoPlan
  BY DEF InsertionInit
<1>5. IsPlan(NoPlan) /\ Vouched(NoPlan)
  BY <1>3, EmptyRoute DEF IsPlan, Vouched, NoPlan
<1>6. PlansVouched
  BY <1>4, <1>5 DEF PlansVouched, InsertionInit
<1>7. RoutesApart
  BY <1>4, EmptyRoute DEF RoutesApart, NoPlan
<1> QED
  BY <1>1, <1>2, <1>6, <1>7 DEF InsertionInv

(* What may be written on the route of a shift.                            *)
LEMMA WriteKeepsRoutes ==
  ASSUME InsertionInv, NEW s \in Shifts, NEW r, IsPlan(r), Vouched(r),
         plan' = [plan EXCEPT ![s] = r], item' \in [Items -> ItemStates], policy' = policy,
         \A p \in ToSet(r.order) :
           /\ item'[p].status # "PENDING"
           /\ p \in ToSet(plan[s].order) \/ item[p].status = "PENDING",
         \A p \in Items : item'[p].status = "PENDING"
                            => item[p].status = "PENDING" \/ p \in ToSet(plan[s].order)
  PROVE  InsertionInv'
<1>1. DOMAIN plan = Shifts /\ DOMAIN plan' = Shifts /\ plan'[s] = r
  BY DEF InsertionInv, PlansVouched
<1>2. \A t \in Shifts : t # s => plan'[t] = plan[t]
  BY <1>1
<1>3. \A t \in Shifts : IsPlan(plan[t]) /\ Vouched(plan[t])
  BY DEF InsertionInv, PlansVouched
<1>4. \A t \in Shifts : IsPlan(plan'[t]) /\ Vouched(plan'[t])
  BY <1>1, <1>2, <1>3
<1>5. PlansVouched'
  BY <1>1, <1>4 DEF PlansVouched, IsPlan, Vouched
<1>6. ASSUME NEW t \in Shifts, NEW p \in ToSet(plan'[t].order)
      PROVE  /\ item'[p].status # "PENDING"
             /\ \A u \in Shifts : p \in ToSet(plan'[u].order) => u = t
  <2>1. \A u \in Shifts : ToSet(plan[u].order) \subseteq Items
    BY <1>3, RouteItems DEF IsPlan
  <2>2. \A u \in Shifts : \A q \in ToSet(plan[u].order) :
          item[q].status # "PENDING" /\ \A v \in Shifts : q \in ToSet(plan[v].order) => v = u
    BY DEF InsertionInv, RoutesApart
  <2>3. CASE t = s
    <3>1. p \in ToSet(r.order)
      BY <1>1, <2>3
    <3>2. ASSUME NEW u \in Shifts, p \in ToSet(plan'[u].order), u # s PROVE FALSE
      <4>1. p \in ToSet(plan[u].order)
        BY <1>2, <3>2
      <4> QED
        BY <2>2, <3>1, <3>2, <4>1
    <3> QED
      BY <2>3, <3>1, <3>2
  <2>4. CASE t # s
    <3>1. p \in ToSet(plan[t].order) /\ p \in Items
      BY <1>2, <2>1, <2>4
    <3>2. p \notin ToSet(plan[s].order) /\ item[p].status # "PENDING"
      BY <2>2, <2>4, <3>1
    <3>3. p \notin ToSet(r.order)
      BY <3>2
    <3>4. \A u \in Shifts : p \in ToSet(plan'[u].order) => u # s /\ p \in ToSet(plan[u].order)
      BY <1>1, <1>2, <3>3
    <3> QED
      BY <2>2, <3>1, <3>2, <3>4
  <2> QED
    BY <2>3, <2>4
<1>7. RoutesApart'
  BY <1>6 DEF RoutesApart
<1> QED
  BY <1>5, <1>7 DEF InsertionInv

-----------------------------------------------------------------------------
(* The offers of the vans for a package that waits.                        *)

Offered(r, p) ==
  /\ r.shift \in Open /\ Sound(r.order, r.measured, Limits(r.shift))
  /\ ToSet(r.order) = ToSet(plan[r.shift].order) \cup {p}

(* Only what was measured of the legs of a route matters to it.            *)
LEMMA SoundAsMeasured ==
  ASSUME NEW order, NEW measured, NEW limits, Sound(order, measured, limits)
  PROVE  Sound(order, LegsOf(order) \cap measured, limits)
<1>1. PICK n : IsRoute(order, n)
  BY RouteShape DEF Sound
<1>2. IsTour(Tour(order), n)
  BY <1>1, TourOfRoute
<1>3. Legs(Tour(order)) \cap measured = Legs(Tour(order)) \cap (LegsOf(order) \cap measured)
  BY DEF LegsOf
<1>4. Timed(Tour(order), measured) = Timed(Tour(order), LegsOf(order) \cap measured)
  BY <1>2, <1>3, SameMeasured
<1> QED
  BY <1>4 DEF Sound

LEMMA ResultsAre ==
  ASSUME InsertionInv, NEW p \in Items, item[p].status = "PENDING", NEW measuredOf
  PROVE  /\ Contest(Results(p, measuredOf)) /\ IsFiniteSet(Results(p, measuredOf))
         /\ \A r \in Results(p, measuredOf) : Offered(r, p)
         /\ \A s \in Open : TryInsert(plan[s].order, p, Limits(s), measuredOf[s]).feasible
                              => \E r \in Results(p, measuredOf) : r.shift = s
<1>1. PICK try : try = {<<s, TryInsert(plan[s].order, p, Limits(s), measuredOf[s])>> : s \in Open}
  OBVIOUS
<1>2. PICK good : good = {x \in try : x[2].feasible}
  OBVIOUS
<1>3. PICK R : R = Results(p, measuredOf)
  OBVIOUS
<1>4. R = {[shift |-> t[1], stops |-> Len(plan[t[1]].order), delta |-> t[2].delta, order |-> t[2].order,
            grey |-> t[2].grey, measured |-> LegsOf(t[2].order) \cap measuredOf[t[1]]] : t \in good}
  BY <1>1, <1>2, <1>3 DEF Results
<1>5. ASSUME NEW r \in R
      PROVE  \E s \in Open : \E a :
               /\ a = TryInsert(plan[s].order, p, Limits(s), measuredOf[s]) /\ a.feasible
               /\ r = [shift |-> s, stops |-> Len(plan[s].order), delta |-> a.delta, order |-> a.order,
                       grey |-> a.grey, measured |-> LegsOf(a.order) \cap measuredOf[s]]
  <2>1. PICK t \in good :
          r = [shift |-> t[1], stops |-> Len(plan[t[1]].order), delta |-> t[2].delta, order |-> t[2].order,
               grey |-> t[2].grey, measured |-> LegsOf(t[2].order) \cap measuredOf[t[1]]]
    BY <1>4
  <2>2. t \in try /\ t[2].feasible
    BY <1>2
  <2>3. PICK s \in Open : t = <<s, TryInsert(plan[s].order, p, Limits(s), measuredOf[s])>>
    BY <1>1, <2>2
  <2>4. t[1] = s /\ t[2] = TryInsert(plan[s].order, p, Limits(s), measuredOf[s])
    BY <2>3
  <2> QED
    BY <2>1, <2>2, <2>4
<1>6. ASSUME NEW s \in Open, TryInsert(plan[s].order, p, Limits(s), measuredOf[s]).feasible
      PROVE  \E r \in R : r.shift = s
  <2>1. PICK t : t = <<s, TryInsert(plan[s].order, p, Limits(s), measuredOf[s])>>
    OBVIOUS
  <2>2. t \in good /\ t[1] = s
    BY <1>1, <1>2, <1>6, <2>1
  <2>3. PICK r :
          r = [shift |-> t[1], stops |-> Len(plan[t[1]].order), delta |-> t[2].delta, order |-> t[2].order,
               grey |-> t[2].grey, measured |-> LegsOf(t[2].order) \cap measuredOf[t[1]]]
    OBVIOUS
  <2>4. r.shift = s
    BY <2>2, <2>3
  <2>5. r \in R
    BY <1>4, <2>2, <2>3
  <2> QED
    BY <2>4, <2>5
<1>7. ASSUME NEW s \in Open
      PROVE  /\ s \in Shifts /\ s \in Int /\ plan[s].order \in Routes /\ Limits(s) \in Profiles
             /\ p \notin ToSet(plan[s].order) /\ Len(plan[s].order) \in Int
  <2>1. s \in Shifts /\ s \in Int
    BY InsertionAssumption DEF Open
  <2>2. plan[s].order \in Routes
    BY <2>1 DEF InsertionInv, PlansVouched, IsPlan
  <2>3. Limits(s) \in Profiles
    BY <2>1, LimitsTyped DEF InsertionInv
  <2>4. p \notin ToSet(plan[s].order)
    BY <2>1 DEF InsertionInv, RoutesApart
  <2>5. Len(plan[s].order) \in Int
    BY <2>2, RouteItems
  <2> QED
    BY <2>1, <2>2, <2>3, <2>4, <2>5
<1>8. ASSUME NEW r \in R PROVE Offered(r, p) /\ Comparable(r)
  <2>1. PICK s, a :
          /\ s \in Open
          /\ a = TryInsert(plan[s].order, p, Limits(s), measuredOf[s]) /\ a.feasible
          /\ r = [shift |-> s, stops |-> Len(plan[s].order), delta |-> a.delta, order |-> a.order,
                  grey |-> a.grey, measured |-> LegsOf(a.order) \cap measuredOf[s]]
    BY <1>5
  <2>2. /\ Sound(a.order, measuredOf[s], Limits(s)) /\ a.delta \in Int
        /\ ToSet(a.order) = ToSet(plan[s].order) \cup {p}
    BY <1>7, <2>1, InsertionIsSound
  <2>3. Sound(a.order, LegsOf(a.order) \cap measuredOf[s], Limits(s))
    BY <2>2, SoundAsMeasured
  <2>4. /\ r.shift = s /\ r.stops = Len(plan[s].order) /\ r.delta = a.delta /\ r.order = a.order
        /\ r.measured = LegsOf(a.order) \cap measuredOf[s]
    BY <2>1
  <2>5. s \in Open
    BY <2>1
  <2> QED
    BY <1>7, <2>2, <2>3, <2>4, <2>5 DEF Offered, Comparable
<1>9. \A r, t \in R : r.shift = t.shift => r = t
  <2>1. ASSUME NEW r \in R, NEW t \in R, r.shift = t.shift PROVE r = t
    <3>1. PICK s, a :
            /\ s \in Open
            /\ a = TryInsert(plan[s].order, p, Limits(s), measuredOf[s]) /\ a.feasible
            /\ r = [shift |-> s, stops |-> Len(plan[s].order), delta |-> a.delta, order |-> a.order,
                    grey |-> a.grey, measured |-> LegsOf(a.order) \cap measuredOf[s]]
      BY <1>5
    <3>2. PICK u, b :
            /\ u \in Open
            /\ b = TryInsert(plan[u].order, p, Limits(u), measuredOf[u]) /\ b.feasible
            /\ t = [shift |-> u, stops |-> Len(plan[u].order), delta |-> b.delta, order |-> b.order,
                    grey |-> b.grey, measured |-> LegsOf(b.order) \cap measuredOf[u]]
      BY <1>5
    <3>3. s = u
      <4>1. r.shift = s /\ t.shift = u
        BY <3>1, <3>2
      <4> QED
        BY <2>1, <4>1
    <3>4. a = b
      BY <3>1, <3>2, <3>3
    <3> QED
      BY Zenon, <3>1, <3>2, <3>3, <3>4
  <2> QED
    BY <2>1
<1>10. Contest(R)
  BY <1>8, <1>9 DEF Contest
<1>11. IsFiniteSet(R)
  <2>1. PICK van : van = [r \in R |-> r.shift]
    OBVIOUS
  <2>2. van \in Injection(R, Shifts)
    <3>1. \A r \in R : r.shift \in Shifts
      BY <1>8 DEF Offered, Open
    <3> QED
      BY <1>9, <2>1, <3>1 DEF Injection, IsInjective
  <2> QED
    BY <2>2, FS_Injection, InsertionAssumption
<1> QED
  BY <1>3, <1>6, <1>8, <1>10, <1>11

LEMMA WinnerIsOffered ==
  ASSUME InsertionInv, NEW p \in Items, item[p].status = "PENDING", NEW measuredOf,
         NEW r \in Winner(Results(p, measuredOf))
  PROVE  Offered(r, p)
<1>1. PICK R : R = Results(p, measuredOf)
  OBVIOUS
<1>2. R # {} /\ r = ChooseBest(SetToSeq(R))
  BY <1>1 DEF Winner
<1>3. ChooseBest(SetToSeq(R)) \in R
  BY <1>1, <1>2, ResultsAre, OrderIsIrrelevant
<1> QED
  BY <1>1, <1>2, <1>3, ResultsAre

LEMMA BestIsOffered ==
  ASSUME InsertionInv, NEW p \in Items, item[p].status = "PENDING", NEW best \in BestOf(p)
  PROVE  Offered(best, p)
<1>1. PICK first : first = Winner(Results(p, Unmeasured))
  OBVIOUS
<1>2. CASE best \in first
  BY <1>1, <1>2, WinnerIsOffered
<1>3. CASE best \notin first
  <2>1. \E r \in first : best \in Winner(Results(p, [Unmeasured EXCEPT ![r.shift] = LegsOf(r.order)]))
    BY <1>1, <1>3 DEF BestOf, Remeasured
  <2>2. PICK measuredOf : best \in Winner(Results(p, measuredOf))
    BY <2>1
  <2> QED
    BY <2>2, WinnerIsOffered
<1> QED
  BY <1>2, <1>3

-----------------------------------------------------------------------------
(* Sorting: with a strict order on them, numbers stand in that order.      *)

IsOrder(Less, n) ==
  /\ \A i \in 1..n : <<i, i>> \notin Less
  /\ \A i, j \in 1..n : i # j => <<i, j>> \in Less \/ <<j, i>> \in Less
  /\ \A i, j, k \in 1..n : <<i, j>> \in Less /\ <<j, k>> \in Less => <<i, k>> \in Less

LEMMA SortingExists ==
  ASSUME NEW n \in Nat, NEW Less, IsOrder(Less, n)
  PROVE  \E perm \in Bijection(1..n, 1..n) : \A i, j \in 1..n : i < j => <<perm[i], perm[j]>> \in Less
<1> DEFINE Below(i) == {j \in 1..n : <<j, i>> \in Less}
<1>1. IsFiniteSet(1..n) /\ Cardinality(1..n) = n
  BY FS_Interval
<1>2. \A i \in 1..n : Below(i) \in SUBSET (1..n)
  OBVIOUS
<1> HIDE DEF Below
<1>3. ASSUME NEW i \in 1..n
      PROVE  IsFiniteSet(Below(i)) /\ Cardinality(Below(i)) \in 0..(n - 1)
  <2>1. IsFiniteSet(Below(i)) /\ Cardinality(Below(i)) <= n /\ (Cardinality(Below(i)) = n => Below(i) = 1..n)
    BY <1>1, <1>2, FS_Subset
  <2>2. i \notin Below(i)
    BY DEF Below, IsOrder
  <2>3. Cardinality(Below(i)) \in Nat
    BY <2>1, FS_CardinalityType
  <2> QED
    BY <2>1, <2>2, <2>3
<1>4. ASSUME NEW i \in 1..n, NEW j \in 1..n, <<i, j>> \in Less
      PROVE  Cardinality(Below(i)) < Cardinality(Below(j))
  <2>1. Below(i) \subseteq Below(j) /\ i \in Below(j) /\ i \notin Below(i)
    BY <1>4 DEF Below, IsOrder
  <2>2. /\ Cardinality(Below(i)) <= Cardinality(Below(j))
        /\ (Cardinality(Below(j)) = Cardinality(Below(i)) => Below(j) = Below(i))
    BY <1>3, <2>1, FS_Subset
  <2>3. Cardinality(Below(i)) \in Int /\ Cardinality(Below(j)) \in Int
    BY <1>3
  <2> QED
    BY <2>1, <2>2, <2>3
<1>5. PICK rank : rank = [i \in 1..n |-> Cardinality(Below(i)) + 1]
  OBVIOUS
<1>6. rank \in [1..n -> 1..n]
  <2>1. \A i \in 1..n : Cardinality(Below(i)) + 1 \in 1..n
    BY <1>3
  <2> QED
    BY <1>5, <2>1
<1>7. \A i, j \in 1..n : <<i, j>> \in Less => rank[i] < rank[j]
  <2>1. \A i \in 1..n : Cardinality(Below(i)) \in Int
    BY <1>3
  <2> QED
    BY <1>4, <1>5, <2>1
<1>8. \A i, j \in 1..n : rank[i] = rank[j] => i = j
  <2>1. ASSUME NEW i \in 1..n, NEW j \in 1..n, rank[i] = rank[j], i # j PROVE FALSE
    <3>1. <<i, j>> \in Less \/ <<j, i>> \in Less
      BY <2>1 DEF IsOrder
    <3>2. rank[i] \in Int /\ rank[j] \in Int
      BY <1>6
    <3> QED
      BY <1>7, <2>1, <3>1, <3>2
  <2> QED
    BY <2>1
<1>9. \A k \in 1..n : \E i \in 1..n : rank[i] = k
  <2>1. rank \in Injection(1..n, 1..n)
    BY <1>6, <1>8 DEF Injection, IsInjective
  <2>2. rank \in Surjection(1..n, 1..n)
    BY <1>1, <2>1, FS_Injection
  <2> QED
    BY <2>2 DEF Surjection
<1>10. PICK perm : perm = [k \in 1..n |-> CHOOSE i \in 1..n : rank[i] = k]
  OBVIOUS
<1>11. \A k \in 1..n : perm[k] \in 1..n /\ rank[perm[k]] = k
  BY <1>9, <1>10
<1>12. perm \in Bijection(1..n, 1..n)
  <2>1. perm \in [1..n -> 1..n]
    BY <1>10, <1>11
  <2>2. \A w \in 1..n : \E v \in 1..n : perm[v] = w
    <3>1. \A w \in 1..n : rank[w] \in 1..n /\ perm[rank[w]] = w
      BY <1>6, <1>8, <1>11
    <3> QED
      BY <3>1
  <2>3. \A i, j \in 1..n : perm[i] = perm[j] => i = j
    BY <1>11
  <2> QED
    BY <2>1, <2>2, <2>3 DEF Bijection, Injection, Surjection, IsInjective
<1>13. \A i, j \in 1..n : i < j => <<perm[i], perm[j]>> \in Less
  <2>1. ASSUME NEW i \in 1..n, NEW j \in 1..n, i < j PROVE <<perm[i], perm[j]>> \in Less
    <3>1. perm[i] \in 1..n /\ perm[j] \in 1..n /\ rank[perm[i]] = i /\ rank[perm[j]] = j
      BY <1>11
    <3>2. perm[i] # perm[j] /\ ~(j < i)
      BY <2>1, <3>1
    <3>3. ~(<<perm[j], perm[i]>> \in Less)
      BY <1>7, <3>1, <3>2
    <3> QED
      BY <3>1, <3>2, <3>3 DEF IsOrder
  <2> QED
    BY <2>1
<1> QED
  BY <1>12, <1>13

-----------------------------------------------------------------------------
(* Who may be bumped, the one least entitled to stay first.                *)

Evictables(s) == {p \in ToSet(plan[s].order) : IsEvictable(p)}

InVictimOrder(v, n, S) ==
  /\ n \in Nat /\ v \in [1..n -> S] /\ v \in Seq(S) /\ Len(v) = n
  /\ \A x \in S : \E i \in 1..n : v[i] = x
  /\ \A i, j \in 1..n : i < j => Sooner(v[i], v[j])

LEMMA SoonerOrders ==
  ASSUME InsertionInv, NEW a \in Items, NEW b \in Items, NEW c \in Items
  PROVE  /\ ~Sooner(a, a)
         /\ a # b => Sooner(a, b) \/ Sooner(b, a)
         /\ Sooner(a, b) /\ Sooner(b, c) => Sooner(a, c)
<1>1. a \in Nat /\ b \in Nat /\ c \in Nat
  BY InsertionAssumption
<1>2. item[a].evictions \in Nat /\ item[b].evictions \in Nat /\ item[c].evictions \in Nat
  BY DEF InsertionInv, ItemStates
<1> QED
  BY <1>1, <1>2 DEF Sooner

LEMMA VictimOrderIs ==
  ASSUME InsertionInv, NEW s \in Shifts
  PROVE  \E n : InVictimOrder(VictimOrder(s), n, Evictables(s))
<1>1. PICK S : S = Evictables(s)
  OBVIOUS
<1>2. S \in SUBSET Items
  <2>1. plan[s].order \in Routes
    BY DEF InsertionInv, PlansVouched, IsPlan
  <2> QED
    BY <1>1, <2>1, RouteItems DEF Evictables
<1>3. IsFiniteSet(S)
  BY <1>2, FS_Subset, InsertionAssumption
<1>4. PICK n : n = Cardinality(S)
  OBVIOUS
<1>5. n \in Nat /\ ExistsBijection(1..n, S)
  BY <1>3, <1>4, FS_CardinalityType
<1>6. PICK base : base = SetToSeq(S)
  OBVIOUS
<1>7. base \in [1..n -> S] /\ IsInjective(base)
  <2>1. \E f \in [1..n -> S] : IsInjective(f)
    BY <1>5 DEF ExistsBijection, Bijection, Injection
  <2> QED
    BY <1>4, <1>6, <2>1 DEF SetToSeq
<1>8. Len(base) = n /\ \A i, j \in 1..n : base[i] = base[j] => i = j
  BY <1>5, <1>7, FunctionIsSeq DEF IsInjective
<1>9. PICK Less : Less = {tt \in (1..n) \X (1..n) : Sooner(base[tt[1]], base[tt[2]])}
  OBVIOUS
<1>10. \A i, j \in 1..n : <<i, j>> \in Less <=> Sooner(base[i], base[j])
  BY <1>9
<1>11. \A i \in 1..n : base[i] \in Items
  BY <1>2, <1>7
<1>12. IsOrder(Less, n)
  <2>1. \A i \in 1..n : <<i, i>> \notin Less
    BY <1>10, <1>11, SoonerOrders
  <2>2. \A i, j \in 1..n : i # j => <<i, j>> \in Less \/ <<j, i>> \in Less
    <3>1. ASSUME NEW i \in 1..n, NEW j \in 1..n, i # j PROVE Sooner(base[i], base[j]) \/ Sooner(base[j], base[i])
      <4>1. base[i] # base[j]
        BY <1>8, <3>1
      <4> QED
        BY <1>11, <4>1, SoonerOrders
    <3> QED
      BY <1>10, <3>1
  <2>3. \A i, j, k \in 1..n : <<i, j>> \in Less /\ <<j, k>> \in Less => <<i, k>> \in Less
    <3>1. ASSUME NEW i \in 1..n, NEW j \in 1..n, NEW k \in 1..n,
                 Sooner(base[i], base[j]), Sooner(base[j], base[k])
          PROVE  Sooner(base[i], base[k])
      BY <1>11, <3>1, SoonerOrders
    <3> QED
      BY <1>10, <3>1
  <2> QED
    BY <2>1, <2>2, <2>3 DEF IsOrder
<1>13. PICK perm \in Bijection(1..n, 1..n) : \A i, j \in 1..n : i < j => <<perm[i], perm[j]>> \in Less
  BY <1>5, <1>12, SortingExists
<1>14. /\ perm \in [1..n -> 1..n] /\ \A w \in 1..n : \E v \in 1..n : perm[v] = w
       /\ \A i, j \in 1..n : perm[i] = perm[j] => i = j
  BY <1>13 DEF Bijection, Injection, Surjection, IsInjective
<1>15. PICK sorted : sorted = [i \in 1..n |-> base[perm[i]]]
  OBVIOUS
<1>16. /\ sorted \in SetToSeqs(S)
       /\ \A i, j \in DOMAIN sorted : i < j => Sooner(sorted[i], sorted[j])
  <2>1. sorted \in [1..n -> S] /\ DOMAIN sorted = 1..n /\ \A i \in 1..n : sorted[i] = base[perm[i]]
    BY <1>7, <1>14, <1>15
  <2>2. ASSUME NEW i \in 1..n, NEW j \in 1..n
        PROVE  /\ i # j => sorted[i] # sorted[j]
               /\ i < j => Sooner(sorted[i], sorted[j])
    <3>1. PICK x, y : x = perm[i] /\ y = perm[j]
      OBVIOUS
    <3>2. x \in 1..n /\ y \in 1..n /\ (x = y => i = j)
      BY <1>14, <3>1
    <3>3. sorted[i] = base[x] /\ sorted[j] = base[y]
      BY <2>1, <3>1
    <3>4. i < j => <<x, y>> \in Less
      BY <1>13, <3>1
    <3>5. base[x] = base[y] => x = y
      BY <1>8, <3>2
    <3>6. <<x, y>> \in Less => Sooner(base[x], base[y])
      BY <1>10, <3>2
    <3> QED
      BY <3>2, <3>3, <3>4, <3>5, <3>6
  <2>3. \A i, j \in 1..n : i < j => Sooner(sorted[i], sorted[j])
    BY <2>2
  <2>4. sorted \in SetToSeqs(S)
    BY <1>4, <2>1, <2>2 DEF SetToSeqs
  <2> QED
    BY <2>1, <2>3, <2>4
<1>17. PICK v : v = VictimOrder(s)
  OBVIOUS
<1>18. v \in SetToSeqs(S) /\ \A i, j \in DOMAIN v : i < j => Sooner(v[i], v[j])
  <2>1. v = CHOOSE q \in SetToSeqs(S) : \A i, j \in DOMAIN q : i < j => Sooner(q[i], q[j])
    BY <1>1, <1>17 DEF VictimOrder, Evictables
  <2> QED
    BY <1>16, <2>1
<1>19. v \in [1..n -> S] /\ v \in Seq(S) /\ Len(v) = n /\ DOMAIN v = 1..n
  <2>1. v \in [1..n -> S]
    BY <1>4, <1>18 DEF SetToSeqs
  <2> QED
    BY <1>5, <2>1, FunctionIsSeq
<1>20. \A x \in S : \E i \in 1..n : v[i] = x
  <2>1. v \in Injection(1..n, S)
    BY <1>4, <1>18, <1>19 DEF SetToSeqs, Injection, IsInjective
  <2>2. Cardinality(1..n) = n
    BY <1>5, FS_Interval
  <2>3. v \in Surjection(1..n, S)
    BY <1>3, <1>4, <2>1, <2>2, FS_Injection
  <2> QED
    BY <2>3 DEF Surjection
<1>21. InVictimOrder(v, n, S)
  BY <1>5, <1>18, <1>19, <1>20 DEF InVictimOrder
<1> QED
  BY <1>1, <1>17, <1>21

(* The first m of them.                                                    *)
LEMMA PrefixIs ==
  ASSUME NEW S, NEW v, NEW n, InVictimOrder(v, n, S), NEW m \in 1..n
  PROVE  \A x : x \in ToSet(SubSeq(v, 1, m)) <=> \E i \in 1..m : v[i] = x
<1>1. n \in Nat /\ m \in Int /\ 1 <= m /\ m <= n /\ \A i \in 1..m : v[i] \in S
  BY DEF InVictimOrder
<1>2. PICK front : front = SubSeq(v, 1, m)
  OBVIOUS
<1>3. front \in Seq(S) /\ Len(front) = m /\ \A i \in 1..m : front[i] = v[i]
  <2>1. /\ SubSeq(v, 1, m) \in Seq(S)
        /\ Len(SubSeq(v, 1, m)) = IF 1 <= m THEN m - 1 + 1 ELSE 0
        /\ \A i \in 1..(m - 1 + 1) : SubSeq(v, 1, m)[i] = v[1 + i - 1]
    BY <1>1, SubSeqProperties DEF InVictimOrder
  <2> QED
    BY <1>1, <1>2, <2>1
<1>4. DOMAIN front = 1..m
  BY <1>3, LenProperties
<1>5. \A x : x \in ToSet(front) <=> \E i \in 1..m : v[i] = x
  BY <1>3, <1>4 DEF ToSet
<1> QED
  BY <1>2, <1>5

(* Whoever is bumped is the shortest prefix that makes room.               *)
IsBumped(victims, s, p, n, m) ==
  LET v == VictimOrder(s) IN
  /\ InVictimOrder(v, n, Evictables(s)) /\ m \in 1..n
  /\ \A x : x \in victims <=> \E i \in 1..m : v[i] = x
  /\ TryInsert(Without(plan[s].order, victims), p, Limits(s), {}).feasible
  /\ \A k \in 1..n : TryInsert(Without(plan[s].order, ToSet(SubSeq(v, 1, k))), p, Limits(s), {}).feasible
                       => m <= k

LEMMA VictimsAre ==
  ASSUME InsertionInv, NEW s \in Shifts, NEW p, NEW victims, victims = PickVictims(s, p), victims # {}
  PROVE  EffectiveDeadline(p) # Unset /\ \E n, m : IsBumped(victims, s, p, n, m)
<1>1. PICK v, enough : v = VictimOrder(s) /\ enough = FirstRoom(VictimOrder(s), s, p)
  OBVIOUS
<1>2. EffectiveDeadline(p) # Unset /\ victims = ShortestPrefix(v, enough)
  BY <1>1 DEF PickVictims
<1>3. enough # {} /\ victims = ToSet(SubSeq(v, 1, Min(enough)))
  BY <1>2 DEF ShortestPrefix
<1>4. PICK n : InVictimOrder(v, n, Evictables(s))
  BY <1>1, VictimOrderIs
<1>5. n \in Nat /\ DOMAIN v = 1..n
  BY <1>4 DEF InVictimOrder
<1>6. \A k : k \in enough <=> /\ k \in 1..n
                              /\ TryInsert(Without(plan[s].order, ToSet(SubSeq(v, 1, k))), p, Limits(s), {}).feasible
  BY <1>1, <1>5 DEF FirstRoom
<1>7. enough \in SUBSET Nat
  BY <1>5, <1>6
<1>8. PICK m : m = Min(enough)
  OBVIOUS
<1>9. m \in enough /\ \A k \in enough : m <= k
  <2>1. \E x \in enough : \A y \in enough : x <= y
    BY <1>3, <1>7, Smallest
  <2> QED
    BY <1>8, <2>1 DEF Min
<1>10. m \in 1..n
  BY <1>6, <1>9
<1>11. \A x : x \in victims <=> \E i \in 1..m : v[i] = x
  BY <1>3, <1>4, <1>8, <1>10, PrefixIs
<1>12. IsBumped(victims, s, p, n, m)
  BY <1>1, <1>3, <1>4, <1>6, <1>8, <1>9, <1>10, <1>11 DEF IsBumped
<1> QED
  BY <1>2, <1>12

LEMMA BumpedMay ==
  ASSUME NEW victims, NEW s, NEW p, NEW n, NEW m, IsBumped(victims, s, p, n, m)
  PROVE  victims \subseteq Evictables(s)
<1>1. \A x \in victims : \E i \in 1..n : VictimOrder(s)[i] = x
  <2>1. \A i \in 1..m : i \in 1..n
    BY DEF IsBumped, InVictimOrder
  <2> QED
    BY <2>1 DEF IsBumped
<1> QED
  BY <1>1 DEF IsBumped, InVictimOrder

-----------------------------------------------------------------------------
(* Every operation keeps the engine's routes vouched for.                  *)

LEMMA StatusSet ==
  ASSUME InsertionInv, NEW p \in Items, NEW status \in {"PENDING", "ASSIGNED", "LOADED"},
         item' = [item EXCEPT ![p].status = status]
  PROVE  /\ item' \in [Items -> ItemStates]
         /\ \A q \in Items : /\ item'[q].status = IF q = p THEN status ELSE item[q].status
                             /\ item'[q].evictions = item[q].evictions
<1>1. item \in [Items -> ItemStates]
  BY DEF InsertionInv
<1>2. ASSUME NEW q \in Items
      PROVE  /\ item'[q] \in ItemStates
             /\ item'[q].status = IF q = p THEN status ELSE item[q].status
             /\ item'[q].evictions = item[q].evictions
  <2>1. item[q] \in ItemStates
    BY <1>1
  <2>2. item'[q] = IF q = p THEN [item[q] EXCEPT !.status = status] ELSE item[q]
    BY <1>1
  <2> QED
    BY <2>1, <2>2 DEF ItemStates
<1>3. item' \in [Items -> ItemStates]
  BY <1>1, <1>2
<1> QED
  BY <1>2, <1>3

LEMMA ShiftsAre ==
  ASSUME InsertionInv, NEW s \in Shifts
  PROVE  /\ plan[s].order \in Routes /\ Limits(s) \in Profiles
         /\ ToSet(plan[s].order) \subseteq Items
         /\ \A p \in ToSet(plan[s].order) : item[p].status # "PENDING"
<1>1. plan[s].order \in Routes
  BY DEF InsertionInv, PlansVouched, IsPlan
<1>2. Limits(s) \in Profiles
  BY LimitsTyped DEF InsertionInv
<1> QED
  BY <1>1, <1>2, RouteItems DEF InsertionInv, RoutesApart

LEMMA PlaceKeepsRoutes ==
  ASSUME InsertionInv, NEW p \in Items, Place(p)
  PROVE  InsertionInv'
<1>1. /\ item[p].status = "PENDING" /\ policy' = policy
      /\ item' = [item EXCEPT ![p].status = "ASSIGNED"]
  BY DEF Place
<1>2. PICK best \in BestOf(p) : Write(best.shift, best.order, "tier1", best.measured)
  BY DEF Place
<1>3. Offered(best, p)
  BY <1>1, BestIsOffered
<1>4. PICK s, r : s = best.shift /\ r = [order |-> best.order, by |-> "tier1", under |-> Limits(s),
                                         measured |-> best.measured]
  OBVIOUS
<1>5. s \in Shifts /\ plan' = [plan EXCEPT ![s] = r]
  BY <1>2, <1>3, <1>4 DEF Write, Offered, Open
<1>6. r.order = best.order /\ r.by = "tier1" /\ r.under = Limits(s) /\ r.measured = best.measured
  BY <1>4
<1>7. IsPlan(r) /\ Vouched(r)
  BY <1>3, <1>4, <1>5, <1>6, ShiftsAre DEF Offered, IsPlan, Vouched, Sound
<1>8. /\ item' \in [Items -> ItemStates]
      /\ \A q \in Items : item'[q].status = IF q = p THEN "ASSIGNED" ELSE item[q].status
  BY <1>1, StatusSet
<1>9. ASSUME NEW q \in ToSet(r.order)
      PROVE  item'[q].status # "PENDING" /\ (q \in ToSet(plan[s].order) \/ item[q].status = "PENDING")
  <2>1. q = p \/ q \in ToSet(plan[s].order)
    BY <1>3, <1>4, <1>6 DEF Offered
  <2> QED
    BY <1>1, <1>5, <1>8, <2>1, ShiftsAre
<1>10. \A q \in Items : item'[q].status = "PENDING" => item[q].status = "PENDING" \/ q \in ToSet(plan[s].order)
  BY <1>8
<1> QED
  BY <1>1, <1>5, <1>7, <1>8, <1>9, <1>10, WriteKeepsRoutes

(* What becomes of the packages when some are bumped for one.              *)
LEMMA BumpedAre ==
  ASSUME InsertionInv, NEW p \in Items, NEW victims, item' = Bumped(victims, p)
  PROVE  /\ item' \in [Items -> ItemStates]
         /\ \A q \in Items :
              /\ item'[q].status = IF q = p THEN "ASSIGNED" ELSE IF q \in victims THEN "PENDING" ELSE item[q].status
              /\ item'[q].evictions = IF q # p /\ q \in victims THEN item[q].evictions + 1 ELSE item[q].evictions
<1>1. item \in [Items -> ItemStates]
  BY DEF InsertionInv
<1>2. ASSUME NEW q \in Items
      PROVE  /\ item'[q] \in ItemStates
             /\ item'[q].status = IF q = p THEN "ASSIGNED" ELSE IF q \in victims THEN "PENDING" ELSE item[q].status
             /\ item'[q].evictions = IF q # p /\ q \in victims THEN item[q].evictions + 1 ELSE item[q].evictions
  <2>1. item[q] \in ItemStates
    BY <1>1
  <2>2. item'[q] = IF q = p THEN [item[q] EXCEPT !.status = "ASSIGNED"]
                   ELSE IF q \in victims THEN [status |-> "PENDING", evictions |-> item[q].evictions + 1]
                   ELSE item[q]
    BY DEF Bumped
  <2> QED
    BY <2>1, <2>2 DEF ItemStates
<1>3. item' = [q \in Items |-> item'[q]]
  BY DEF Bumped
<1> QED
  BY <1>2, <1>3

(* A route without its victims, with the package they were bumped for.     *)
LEMMA RoomIsMade ==
  ASSUME InsertionInv, NEW p \in Items, item[p].status = "PENDING", NEW s \in Shifts, NEW victims,
         NEW a, a = TryInsert(Without(plan[s].order, victims), p, Limits(s), {}), a.feasible
  PROVE  /\ Sound(a.order, {}, Limits(s))
         /\ ToSet(a.order) = (ToSet(plan[s].order) \ victims) \cup {p}
<1>1. /\ plan[s].order \in Routes /\ Limits(s) \in Profiles
      /\ \A q \in ToSet(plan[s].order) : item[q].status # "PENDING"
  BY ShiftsAre
<1>2. PICK n : IsRoute(plan[s].order, n)
  BY <1>1, RouteShape
<1>3. PICK rest : rest = Without(plan[s].order, victims)
  OBVIOUS
<1>4. rest \in Routes /\ ToSet(rest) = ToSet(plan[s].order) \ victims
  BY <1>2, <1>3, WithoutShape, ShapeIsRoute
<1>5. p \notin ToSet(rest)
  BY <1>1, <1>4
<1>6. Sound(a.order, {}, Limits(s)) /\ ToSet(a.order) = ToSet(rest) \cup {p}
  BY <1>1, <1>3, <1>4, <1>5, InsertionIsSound
<1> QED
  BY <1>4, <1>6

LEMMA EvictKeepsRoutes ==
  ASSUME InsertionInv, NEW p \in Items, NEW s \in Shifts, EvictFor(p, s)
  PROVE  InsertionInv'
<1>1. item[p].status = "PENDING" /\ policy' = policy
  BY DEF EvictFor
<1>2. PICK victims : /\ victims = PickVictims(s, p) /\ victims # {}
                     /\ Write(s, TryInsert(Without(plan[s].order, victims), p, Limits(s), {}).order, "tier1", {})
                     /\ item' = Bumped(victims, p)
  BY DEF EvictFor
<1>3. PICK n, m : IsBumped(victims, s, p, n, m)
  BY <1>2, VictimsAre
<1>4. PICK a : a = TryInsert(Without(plan[s].order, victims), p, Limits(s), {})
  OBVIOUS
<1>5. a.feasible
  BY <1>3, <1>4 DEF IsBumped
<1>6. victims \subseteq ToSet(plan[s].order)
  BY <1>3, BumpedMay DEF Evictables
<1>7. Sound(a.order, {}, Limits(s)) /\ ToSet(a.order) = (ToSet(plan[s].order) \ victims) \cup {p}
  BY <1>1, <1>4, <1>5, RoomIsMade
<1>8. PICK r : r = [order |-> a.order, by |-> "tier1", under |-> Limits(s), measured |-> {}]
  OBVIOUS
<1>9. plan' = [plan EXCEPT ![s] = r]
  BY <1>2, <1>4, <1>8 DEF Write
<1>10. r.order = a.order /\ r.by = "tier1" /\ r.under = Limits(s) /\ r.measured = {}
  BY <1>8
<1>11. IsPlan(r) /\ Vouched(r)
  BY <1>7, <1>10, ShiftsAre DEF IsPlan, Vouched, Sound
<1>12. /\ item' \in [Items -> ItemStates]
       /\ \A q \in Items : item'[q].status = IF q = p THEN "ASSIGNED"
                                             ELSE IF q \in victims THEN "PENDING" ELSE item[q].status
  BY <1>2, BumpedAre
<1>13. ASSUME NEW q \in ToSet(r.order)
       PROVE  item'[q].status # "PENDING" /\ (q \in ToSet(plan[s].order) \/ item[q].status = "PENDING")
  <2>1. q = p \/ (q \in ToSet(plan[s].order) /\ q \notin victims)
    BY <1>7, <1>10
  <2>2. q \in ToSet(plan[s].order) => q \in Items /\ item[q].status # "PENDING"
    BY ShiftsAre
  <2> QED
    BY <1>1, <1>12, <2>1, <2>2
<1>14. \A q \in Items : item'[q].status = "PENDING" => item[q].status = "PENDING" \/ q \in ToSet(plan[s].order)
  BY <1>6, <1>12
<1> QED
  BY <1>1, <1>9, <1>11, <1>12, <1>13, <1>14, WriteKeepsRoutes

LEMMA PinKeepsRoutes ==
  ASSUME InsertionInv, NEW p \in Items, NEW s \in Shifts, Pin(p, s)
  PROVE  InsertionInv'
<1>1. /\ item[p].status = "PENDING" /\ policy' = policy
      /\ item' = [item EXCEPT ![p].status = "ASSIGNED"]
  BY DEF Pin
<1>2. PICK attempt, new :
        /\ attempt = CheapestPosition(plan[s].order, p, Limits(s), {})
        /\ new = IF attempt.feasible THEN attempt.order ELSE Append(plan[s].order, p)
        /\ Write(s, new, "hand", {})
  BY DEF Pin
<1>3. /\ plan[s].order \in Routes /\ Limits(s) \in Profiles /\ ToSet(plan[s].order) \subseteq Items
      /\ \A q \in ToSet(plan[s].order) : item[q].status # "PENDING"
  BY ShiftsAre
<1>4. p \notin ToSet(plan[s].order)
  BY <1>1, <1>3
<1>5. PICK n : IsRoute(plan[s].order, n)
  BY <1>3, RouteShape
<1>6. new \in Routes /\ ToSet(new) = ToSet(plan[s].order) \cup {p}
  <2>1. CASE attempt.feasible
    <3>1. Fits(attempt, plan[s].order, n, p, Limits(s), {})
      BY <1>2, <1>4, <1>5, <2>1, CheapestFits
    <3>2. PICK k \in 1..(n + 1) : attempt.order = InsertAt(plan[s].order, k, p)
      BY <3>1 DEF Fits
    <3>3. IsRoute(attempt.order, n + 1) /\ ToSet(attempt.order) = ToSet(plan[s].order) \cup {p}
      BY <1>4, <1>5, <3>2, InsertedShape
    <3> QED
      BY <1>2, <2>1, <3>3, ShapeIsRoute
  <2>2. CASE ~attempt.feasible
    <3>1. IsAppended(new, plan[s].order, n, p)
      BY <1>2, <1>4, <1>5, <2>2, AppendedShape
    <3> QED
      BY <3>1, ShapeIsRoute DEF IsAppended
  <2> QED
    BY <2>1, <2>2
<1>7. PICK r : r = [order |-> new, by |-> "hand", under |-> Limits(s), measured |-> {}]
  OBVIOUS
<1>8. plan' = [plan EXCEPT ![s] = r]
  BY <1>2, <1>7 DEF Write
<1>9. r.order = new /\ r.by = "hand" /\ r.under = Limits(s)
  BY <1>7
<1>10. IsPlan(r) /\ Vouched(r)
  BY <1>3, <1>6, <1>9 DEF IsPlan, Vouched
<1>11. /\ item' \in [Items -> ItemStates]
       /\ \A q \in Items : item'[q].status = IF q = p THEN "ASSIGNED" ELSE item[q].status
  BY <1>1, StatusSet
<1>12. \A q \in ToSet(r.order) :
         item'[q].status # "PENDING" /\ (q \in ToSet(plan[s].order) \/ item[q].status = "PENDING")
  BY <1>1, <1>3, <1>6, <1>9, <1>11
<1>13. \A q \in Items : item'[q].status = "PENDING" => item[q].status = "PENDING" \/ q \in ToSet(plan[s].order)
  BY <1>11
<1> QED
  BY <1>1, <1>8, <1>10, <1>11, <1>12, <1>13, WriteKeepsRoutes

LEMMA TakeOffKeepsRoutes ==
  ASSUME InsertionInv, NEW p \in Items, NEW s \in Shifts, TakeOff(p, s)
  PROVE  InsertionInv'
<1>1. /\ p \in ToSet(plan[s].order) /\ policy' = policy
      /\ item' = [item EXCEPT ![p].status = "PENDING"]
      /\ Write(s, Without(plan[s].order, {p}), "hand", {})
  BY DEF TakeOff
<1>2. /\ plan[s].order \in Routes /\ Limits(s) \in Profiles /\ ToSet(plan[s].order) \subseteq Items
      /\ \A q \in ToSet(plan[s].order) : item[q].status # "PENDING"
  BY ShiftsAre
<1>3. PICK n : IsRoute(plan[s].order, n)
  BY <1>2, RouteShape
<1>4. PICK new : new = Without(plan[s].order, {p})
  OBVIOUS
<1>5. new \in Routes /\ ToSet(new) = ToSet(plan[s].order) \ {p}
  BY <1>3, <1>4, WithoutShape, ShapeIsRoute
<1>6. PICK r : r = [order |-> new, by |-> "hand", under |-> Limits(s), measured |-> {}]
  OBVIOUS
<1>7. plan' = [plan EXCEPT ![s] = r]
  BY <1>1, <1>4, <1>6 DEF Write
<1>8. r.order = new /\ r.by = "hand" /\ r.under = Limits(s)
  BY <1>6
<1>9. IsPlan(r) /\ Vouched(r)
  BY <1>2, <1>5, <1>8 DEF IsPlan, Vouched
<1>10. /\ item' \in [Items -> ItemStates]
       /\ \A q \in Items : item'[q].status = IF q = p THEN "PENDING" ELSE item[q].status
  BY <1>1, StatusSet
<1>11. \A q \in ToSet(r.order) :
         item'[q].status # "PENDING" /\ (q \in ToSet(plan[s].order) \/ item[q].status = "PENDING")
  BY <1>2, <1>5, <1>8, <1>10
<1>12. \A q \in Items : item'[q].status = "PENDING" => item[q].status = "PENDING" \/ q \in ToSet(plan[s].order)
  BY <1>1, <1>10
<1> QED
  BY <1>1, <1>7, <1>9, <1>10, <1>11, <1>12, WriteKeepsRoutes

LEMMA ReplanKeepsRoutes ==
  ASSUME InsertionInv, NEW s \in Shifts, Replan(s)
  PROVE  InsertionInv'
<1>1. PICK order \in Solved(s) :
        /\ ~BreachesLimits(AnswerOf(order), Limits(s))
        /\ Write(s, order, "tier2", LegsOf(order))
        /\ item' = [p \in Items |-> IF p \in ToSet(plan[s].order) \ ToSet(order)
                                    THEN [item[p] EXCEPT !.status = "PENDING"] ELSE item[p]]
  BY DEF Replan
<1>2. policy' = policy
  BY DEF Replan
<1>3. /\ plan[s].order \in Routes /\ Limits(s) \in Profiles /\ ToSet(plan[s].order) \subseteq Items
      /\ \A q \in ToSet(plan[s].order) : item[q].status # "PENDING"
  BY ShiftsAre
<1>4. PICK kept \in SUBSET ToSet(plan[s].order) : order \in SetToSeqs(kept) /\ Honours(order, NoLimits)
  BY DEF Solved
<1>5. order \in Routes
  BY <1>3, <1>4 DEF Routes
<1>6. ToSet(order) \subseteq ToSet(plan[s].order)
  <2>1. order \in [1..Cardinality(kept) -> kept]
    BY <1>4 DEF SetToSeqs
  <2>2. ToSet(order) \subseteq kept
    BY <2>1 DEF ToSet
  <2> QED
    BY <2>2
<1>7. PICK r : r = [order |-> order, by |-> "tier2", under |-> Limits(s), measured |-> LegsOf(order)]
  OBVIOUS
<1>8. plan' = [plan EXCEPT ![s] = r]
  BY <1>1, <1>7 DEF Write
<1>9. r.order = order /\ r.by = "tier2" /\ r.under = Limits(s) /\ r.measured = LegsOf(order)
  BY <1>7
<1>10. IsPlan(r) /\ Vouched(r)
  BY <1>1, <1>3, <1>4, <1>5, <1>9 DEF IsPlan, Vouched, Honours
<1>11. item \in [Items -> ItemStates]
  BY DEF InsertionInv
<1>12. ASSUME NEW q \in Items
       PROVE  /\ item'[q] \in ItemStates
              /\ item'[q].status = IF q \in ToSet(plan[s].order) \ ToSet(order) THEN "PENDING" ELSE item[q].status
  <2>1. item[q] \in ItemStates
    BY <1>11
  <2>2. item'[q] = IF q \in ToSet(plan[s].order) \ ToSet(order)
                   THEN [item[q] EXCEPT !.status = "PENDING"] ELSE item[q]
    BY <1>1
  <2> QED
    BY <2>1, <2>2 DEF ItemStates
<1>13. item' \in [Items -> ItemStates]
  <2>1. item' = [q \in Items |-> item'[q]]
    BY <1>1
  <2> QED
    BY <1>12, <2>1
<1>14. \A q \in ToSet(r.order) :
         item'[q].status # "PENDING" /\ (q \in ToSet(plan[s].order) \/ item[q].status = "PENDING")
  BY <1>3, <1>6, <1>9, <1>12
<1>15. \A q \in Items : item'[q].status = "PENDING" => item[q].status = "PENDING" \/ q \in ToSet(plan[s].order)
  BY <1>12
<1> QED
  BY <1>2, <1>8, <1>10, <1>13, <1>14, <1>15, WriteKeepsRoutes

LEMMA LoadKeepsRoutes ==
  ASSUME InsertionInv, NEW p \in Items, Load(p)
  PROVE  InsertionInv'
<1>1. plan' = plan /\ policy' = policy /\ item' = [item EXCEPT ![p].status = "LOADED"]
  BY DEF Load
<1>2. /\ item' \in [Items -> ItemStates]
      /\ \A q \in Items : item'[q].status = IF q = p THEN "LOADED" ELSE item[q].status
  BY <1>1, StatusSet
<1>3. \A s \in Shifts : ToSet(plan[s].order) \subseteq Items
  BY ShiftsAre
<1>4. RoutesApart'
  BY <1>1, <1>2, <1>3 DEF InsertionInv, RoutesApart
<1>5. PlansVouched'
  BY <1>1 DEF InsertionInv, PlansVouched, IsPlan, Vouched
<1> QED
  BY <1>1, <1>2, <1>4, <1>5 DEF InsertionInv

LEMMA RestKeepsRoutes ==
  ASSUME InsertionInv, \/ \E s \in Shifts : Roll(s) \/ DeleteProfile(s)
                       \/ UNCHANGED insertionVars
  PROVE  InsertionInv'
<1>1. plan' = plan /\ item' = item
  BY DEF Roll, DeleteProfile, insertionVars
<1>2. policy' \in PolicyStates
  <2>1. CASE \E s \in Shifts : DeleteProfile(s)
    <3>1. PICK s \in Shifts : /\ policy.profile[s] # Unset
                              /\ policy' = [policy EXCEPT !.deleted = @ \cup {policy.profile[s]}]
      BY <2>1 DEF DeleteProfile
    <3>2. policy \in PolicyStates /\ policy.profile[s] \in Profiles
      BY <3>1 DEF InsertionInv, PolicyStates
    <3>3. policy.deleted \cup {policy.profile[s]} \in SUBSET Profiles
      BY <3>2 DEF PolicyStates
    <3> QED
      BY <3>1, <3>2, <3>3 DEF PolicyStates
  <2>2. CASE ~\E s \in Shifts : DeleteProfile(s)
    BY <2>2 DEF Roll, insertionVars, InsertionInv
  <2> QED
    BY <2>1, <2>2
<1>3. PlansVouched' /\ RoutesApart'
  BY <1>1 DEF InsertionInv, PlansVouched, RoutesApart, IsPlan, Vouched
<1> QED
  BY <1>1, <1>2, <1>3 DEF InsertionInv

LEMMA InsertionStep == InsertionInv /\ [InsertionNext]_insertionVars => InsertionInv'
<1> SUFFICES ASSUME InsertionInv, [InsertionNext]_insertionVars PROVE InsertionInv'
  OBVIOUS
<1>1. CASE \E p \in Items : Place(p) \/ Load(p)
  BY <1>1, PlaceKeepsRoutes, LoadKeepsRoutes
<1>2. CASE \E p \in Items, s \in Shifts : EvictFor(p, s) \/ Pin(p, s) \/ TakeOff(p, s)
  BY <1>2, EvictKeepsRoutes, PinKeepsRoutes, TakeOffKeepsRoutes
<1>3. CASE \E s \in Shifts : Replan(s)
  BY <1>3, ReplanKeepsRoutes
<1>4. CASE (\E s \in Shifts : Roll(s) \/ DeleteProfile(s)) \/ UNCHANGED insertionVars
  BY <1>4, RestKeepsRoutes
<1> QED
  BY <1>1, <1>2, <1>3, <1>4 DEF InsertionNext

LEMMA InsertionInvariance == InsertionSpec => []InsertionInv
BY InsertionStart, InsertionStep, PTL DEF InsertionSpec

-----------------------------------------------------------------------------
(* What follows of a route that is vouched for.                            *)

(* The estimate a route of the instant planner was accepted on, and what   *)
(* the roads make of it.                                                   *)
LEMMA AcceptedRoute ==
  ASSUME NEW order, NEW measured, NEW limits \in Profiles, Sound(order, measured, limits)
  PROVE  \E n, t, u :
           /\ IsRoute(order, n) /\ t = TimeRoute(order, measured) /\ u = Measured(order)
           /\ TimingOf(t, n) /\ TimingOf(u, n) /\ NoMoreThan(u, t, n)
           /\ t.return <= LessOf(ShiftWindow, limits.working) /\ LessOf(ShiftWindow, limits.working) \in Nat
           /\ Within(LessOf(ShiftWindow, limits.working), limits.working)
           /\ LessOf(ShiftWindow, limits.working) <= ShiftWindow
           /\ Within(t.drive, limits.driving) /\ Within(t.gate, limits.distance)
           /\ Within(n, limits.stops)
           /\ \A i \in 1..n : Within(t.arrivals[i], EffectiveDeadline(order[i]))
<1>1. PICK n : IsRoute(order, n)
  BY RouteShape DEF Sound
<1>2. PICK t, u : t = TimeRoute(order, measured) /\ u = Measured(order)
  OBVIOUS
<1>3. t = Timed(Tour(order), measured) /\ u = Timed(Tour(order), LegsOf(order))
  BY <1>2, TimeRouteIs DEF Sound, Measured
<1>4. IsTour(Tour(order), n)
  BY <1>1, TourOfRoute
<1>5. TimingOf(t, n) /\ TimingOf(u, n) /\ NoMoreThan(u, t, n)
  <2>1. Legs(Tour(order)) \subseteq LegsOf(order)
    BY DEF LegsOf
  <2> QED
    BY <1>3, <1>4, <2>1, TimedHolds, RoadsWithinEstimates
<1>6. PICK end : end = LessOf(ShiftWindow, limits.working)
  OBVIOUS
<1>7. end \in Nat /\ Within(end, limits.working) /\ end <= ShiftWindow
  BY <1>6, LessOfIs, LimitFields, LimitsAssumption
<1>8. Refusal(order, t, limits) = "none" /\ n \in Nat /\ DOMAIN order = 1..n /\ Len(order) = n
  BY <1>1, <1>3 DEF Sound, IsRoute
<1>9. /\ ~(t.return > end) /\ Within(t.drive, limits.driving) /\ Within(t.gate, limits.distance)
      /\ \A i \in 1..n : Within(t.arrivals[i], EffectiveDeadline(order[i]))
  BY <1>6, <1>8 DEF Refusal
<1>10. t.return <= end
  BY <1>5, <1>7, <1>9 DEF TimingOf
<1>11. Within(n, limits.stops)
  <2>1. PICK most : most = LessOf(MaxStops, limits.stops)
    OBVIOUS
  <2>2. most \in Nat /\ Within(most, limits.stops) /\ n <= most
    BY <1>8, <2>1, LessOfIs, LimitFields, LimitsAssumption DEF Sound
  <2>3. limits.stops \in Nat \cup {Unset}
    BY LimitFields
  <2> QED
    BY <1>8, <2>2, <2>3 DEF Within
<1> QED
  BY <1>1, <1>2, <1>5, <1>6, <1>7, <1>9, <1>10, <1>11

LEMMA EffectiveIs ==
  ASSUME NEW p \in Items
  PROVE  /\ EffectiveDeadline(p) \in Int \cup {Unset} /\ Deadline[p] \in Int \cup {Unset}
         /\ EffectiveDeadline(p) # Unset => EffectiveDeadline(p) = Deadline[p]
         /\ EffectiveDeadline(p) = Unset => Deadline[p] = Unset \/ Deadline[p] > DayEnd
BY InsertionAssumption, LimitsAssumption DEF EffectiveDeadline

LEMMA YesIsTrue == InsertionInv => NoFalseYes
<1> SUFFICES ASSUME InsertionInv, NEW s \in Shifts, plan[s].by # "hand"
             PROVE  DrivenAsPromised(plan[s].order, plan[s].under, AnswerOf(plan[s].order))
  BY DEF NoFalseYes
<1>1. PICK order, limits : order = plan[s].order /\ limits = plan[s].under
  OBVIOUS
<1>2. /\ order \in Routes /\ limits \in Profiles /\ plan[s].by \in {"tier1", "tier2"}
      /\ Vouched(plan[s])
  BY <1>1 DEF InsertionInv, PlansVouched, IsPlan
<1>3. PICK n : IsRoute(order, n)
  BY <1>2, RouteShape
<1>4. n \in Nat /\ Len(order) = n /\ DOMAIN order = 1..n /\ \A i \in 1..n : order[i] \in Items
  BY <1>3 DEF IsRoute
<1>5. PICK u : u = Measured(order)
  OBVIOUS
<1>6. TimingOf(u, n)
  BY <1>2, <1>3, <1>5, TourOfRoute, TimedHolds, TimeRouteIs DEF Measured
<1>7. PICK truth : truth = AnswerOf(order)
  OBVIOUS
<1>8. /\ truth.duration = u.drive /\ truth.distance = u.distance /\ truth.stops = n
      /\ truth.end = u.return /\ truth.arrivals = u.arrivals
  BY <1>4, <1>5, <1>7 DEF AnswerOf, Answered
<1>9. /\ limits.working \in Nat \cup {Unset} /\ limits.driving \in Nat \cup {Unset}
      /\ limits.distance \in Nat \cup {Unset} /\ limits.stops \in Nat \cup {Unset}
  BY <1>2, LimitFields
<1>10. \A i \in 1..n : /\ EffectiveDeadline(order[i]) \in Int \cup {Unset}
                       /\ EffectiveDeadline(order[i]) # Unset => EffectiveDeadline(order[i]) = Deadline[order[i]]
  BY <1>4, EffectiveIs
<1>11. CASE plan[s].by = "tier1"
  <2>1. Sound(order, plan[s].measured, limits)
    BY <1>1, <1>2, <1>11 DEF Vouched
  <2>2. PICK k, t :
          /\ IsRoute(order, k) /\ TimingOf(t, k) /\ NoMoreThan(u, t, k)
          /\ t.return <= LessOf(ShiftWindow, limits.working) /\ LessOf(ShiftWindow, limits.working) \in Nat
          /\ Within(t.drive, limits.driving) /\ Within(t.gate, limits.distance)
          /\ Within(k, limits.stops)
          /\ \A i \in 1..k : Within(t.arrivals[i], EffectiveDeadline(order[i]))
    BY <1>2, <1>5, <2>1, AcceptedRoute
  <2>3. k = n
    BY <1>4, <2>2 DEF IsRoute
  <2>4. Within(u.drive, limits.driving) /\ Within(u.distance, limits.distance)
    BY SMTT(30), <1>6, <1>9, <2>2 DEF Within, TimingOf, NoMoreThan
  <2>5. u.return <= LessOf(ShiftWindow, limits.working)
    BY <1>6, <2>2 DEF TimingOf, NoMoreThan
  <2>6. ASSUME NEW i \in 1..n, EffectiveDeadline(order[i]) # Unset
        PROVE  u.arrivals[i] <= EffectiveDeadline(order[i])
    <3>1. u.arrivals[i] <= t.arrivals[i] /\ u.arrivals[i] \in Int /\ t.arrivals[i] \in Int
      BY <1>6, <2>2, <2>3 DEF TimingOf, NoMoreThan
    <3>2. t.arrivals[i] <= EffectiveDeadline(order[i])
      BY <2>2, <2>3, <2>6 DEF Within
    <3>3. EffectiveDeadline(order[i]) \in Int
      BY <1>10, <2>6
    <3> QED
      BY <3>1, <3>2, <3>3
  <2> QED
    BY <1>1, <1>4, <1>7, <1>8, <2>2, <2>3, <2>4, <2>5, <2>6 DEF DrivenAsPromised
<1>12. CASE plan[s].by = "tier2"
  <2>1. Accepts(VroomVehicleLimits(NoLimits), order, u) /\ ~BreachesLimits(truth, limits)
    BY <1>1, <1>2, <1>5, <1>7, <1>12 DEF Vouched
  <2>2. /\ Within(truth.duration, limits.driving) /\ Within(truth.distance, limits.distance)
        /\ Within(truth.stops, limits.stops) /\ Within(truth.end, limits.working)
    BY <2>1 DEF BreachesLimits
  <2>3. VroomVehicleLimits(NoLimits).window_end = ShiftWindow
    BY DEF VroomVehicleLimits, NoLimits, Dimensions, LessOf
  <2>4. u.return <= ShiftWindow
    BY <2>1, <2>3 DEF Accepts
  <2>5. truth.end <= LessOf(ShiftWindow, limits.working)
    <3>1. PICK limit, end : limit = limits.working /\ end = truth.end
      OBVIOUS
    <3>2. end \in Int /\ end <= ShiftWindow /\ Within(end, limit) /\ limit \in Nat \cup {Unset}
      BY <1>6, <1>8, <1>9, <2>2, <2>4, <3>1 DEF TimingOf
    <3>3. \A y \in Int : y <= ShiftWindow /\ Within(y, limit) => y <= LessOf(ShiftWindow, limit)
      BY <3>2, LessOfIs, LimitsAssumption
    <3> QED
      BY <3>1, <3>2, <3>3
  <2>6. \A i \in 1..n : Deadline[order[i]] # Unset /\ Deadline[order[i]] > 0
                          => u.arrivals[i] <= Deadline[order[i]]
    BY <1>4, <2>1 DEF Accepts
  <2>7. ASSUME NEW i \in 1..n, EffectiveDeadline(order[i]) # Unset, EffectiveDeadline(order[i]) > 0
        PROVE  truth.arrivals[i] <= EffectiveDeadline(order[i])
    BY <1>8, <1>10, <2>6, <2>7
  <2> QED
    BY <1>1, <1>4, <1>7, <2>2, <2>5, <2>7 DEF DrivenAsPromised
<1> QED
  BY <1>2, <1>11, <1>12

LEMMA OneWinner == InsertionInv => SameWinner
<1> SUFFICES ASSUME InsertionInv, NEW p \in Items, item[p].status = "PENDING", Results(p, Unmeasured) # {}
             PROVE  Cardinality({ChooseBest(seq) : seq \in SetToSeqs(Results(p, Unmeasured))}) = 1
  BY DEF SameWinner
<1>1. PICK R : R = Results(p, Unmeasured)
  OBVIOUS
<1>2. Contest(R) /\ IsFiniteSet(R) /\ R # {}
  BY <1>1, ResultsAre
<1> QED
  BY <1>1, <1>2, OrderIsIrrelevant

(* The rows of a route within its limits show no breach.                   *)
LEMMA NoneBreached ==
  ASSUME NEW order, NEW n, IsRoute(order, n), NEW t, TimingOf(t, n), NEW limits,
         Within(t.return, limits.working), Within(t.drive, limits.driving),
         Within(t.distance, limits.distance), Within(n, limits.stops)
  PROVE  Breached(Rows(order, t), limits) = {}
<1>1. PICK steps : steps = [i \in DOMAIN order |->
                              [package |-> order[i], arrival |-> t.arrivals[i], leg |-> t.legs[i]]]
  OBVIOUS
<1>2. PICK rows : rows = Rows(order, t)
  OBVIOUS
<1>3. rows.end = t.return /\ rows.distance = t.distance /\ rows.steps = steps
  BY <1>1, <1>2 DEF Rows
<1>4. n \in Nat /\ DOMAIN order = 1..n
  BY DEF IsRoute
<1>5. Len(rows.steps) = n
  <2>1. steps \in [1..n -> {steps[i] : i \in 1..n}]
    BY <1>1, <1>4
  <2> QED
    BY <1>3, <1>4, <2>1, FunctionIsSeq
<1>6. EstimateDrivingSeconds(t.return, n) = t.drive
  <2>1. t.return - n * TimePerStop = t.drive /\ t.drive \in Nat
    <3>1. n * TimePerStop \in Int
      BY <1>4, LimitsAssumption
    <3> QED
      BY <3>1 DEF TimingOf
  <2>2. PICK drive : drive = t.drive
    OBVIOUS
  <2>3. Max({0, drive}) = drive
    <3>1. drive \in Nat
      BY <2>1, <2>2
    <3>2. \A x \in {0, drive} : (\A y \in {0, drive} : x >= y) => x = drive
      BY <3>1
    <3>3. drive \in {0, drive} /\ \A y \in {0, drive} : drive >= y
      BY <3>1
    <3> QED
      BY <3>2, <3>3 DEF Max
  <2> QED
    BY <2>1, <2>2, <2>3 DEF EstimateDrivingSeconds
<1>7. /\ Actual(rows, "working") = t.return /\ Actual(rows, "driving") = t.drive
      /\ Actual(rows, "distance") = t.distance /\ Actual(rows, "stops") = n
  BY <1>3, <1>5, <1>6 DEF Actual
<1>8. \A d \in Dimensions : Within(Actual(rows, d), limits[d])
  BY <1>7 DEF Dimensions
<1> QED
  BY <1>2, <1>8 DEF Breached

LEMMA NothingToReport ==
  ASSUME NEW s, NEW rows, NEW limits, Breached(rows, limits) = {}
  PROVE  Summary({s}, [x \in {s} |-> rows], limits).breaching = <<>>
<1>1. PICK metrics : metrics = [x \in {s} |-> rows]
  OBVIOUS
<1>2. PICK late : late = {y \in {s} : Breached(metrics[y], limits) # {}}
  OBVIOUS
<1>3. late = {}
  BY <1>1, <1>2
<1>4. Summary({s}, metrics, limits).breaching = [x \in late |-> EvaluateShiftBreaches(metrics[x], limits)]
  BY <1>2 DEF Summary
<1>5. [x \in {} |-> EvaluateShiftBreaches(metrics[x], limits)] = <<>>
  OBVIOUS
<1> QED
  BY <1>1, <1>3, <1>4, <1>5

LEMMA TiersDoAgree == InsertionInv => TiersAgree
<1> SUFFICES ASSUME InsertionInv, NEW s \in Shifts
             PROVE  /\ plan[s].by = "tier1" /\ DayEnd >= ShiftWindow => Honours(plan[s].order, plan[s].under)
                    /\ plan[s].by # "hand" =>
                         Summary({s}, [x \in {s} |-> Rows(plan[s].order, TimeRoute(plan[s].order, plan[s].measured))],
                                 plan[s].under).breaching = <<>>
  BY DEF TiersAgree
<1>1. PICK order, limits, measured : order = plan[s].order /\ limits = plan[s].under /\ measured = plan[s].measured
  OBVIOUS
<1>2. /\ order \in Routes /\ limits \in Profiles /\ plan[s].by \in {"hand", "tier1", "tier2"}
      /\ Vouched(plan[s])
  BY <1>1 DEF InsertionInv, PlansVouched, IsPlan
<1>3. PICK n : IsRoute(order, n)
  BY <1>2, RouteShape
<1>4. n \in Nat /\ Len(order) = n /\ DOMAIN order = 1..n /\ \A i \in 1..n : order[i] \in Items
  BY <1>3 DEF IsRoute
<1>5. PICK t, u : t = TimeRoute(order, measured) /\ u = Measured(order)
  OBVIOUS
<1>6. TimingOf(t, n) /\ TimingOf(u, n)
  BY <1>2, <1>3, <1>5, TourOfRoute, TimedHolds, TimeRouteIs DEF Measured
<1>7. /\ limits.working \in Nat \cup {Unset} /\ limits.driving \in Nat \cup {Unset}
      /\ limits.distance \in Nat \cup {Unset} /\ limits.stops \in Nat \cup {Unset}
  BY <1>2, LimitFields
<1>8. CASE plan[s].by = "tier1"
  <2>1. Sound(order, measured, limits)
    BY <1>1, <1>2, <1>8 DEF Vouched
  <2>2. PICK end : end = LessOf(ShiftWindow, limits.working)
    OBVIOUS
  <2>3. /\ NoMoreThan(u, t, n)
        /\ t.return <= end /\ end \in Nat /\ Within(end, limits.working) /\ end <= ShiftWindow
        /\ Within(t.drive, limits.driving) /\ Within(t.gate, limits.distance)
        /\ Within(n, limits.stops)
        /\ \A i \in 1..n : Within(t.arrivals[i], EffectiveDeadline(order[i]))
    <3>1. PICK k :
            /\ IsRoute(order, k) /\ NoMoreThan(u, t, k)
            /\ t.return <= LessOf(ShiftWindow, limits.working) /\ LessOf(ShiftWindow, limits.working) \in Nat
            /\ Within(LessOf(ShiftWindow, limits.working), limits.working)
            /\ LessOf(ShiftWindow, limits.working) <= ShiftWindow
            /\ Within(t.drive, limits.driving) /\ Within(t.gate, limits.distance)
            /\ Within(k, limits.stops)
            /\ \A i \in 1..k : Within(t.arrivals[i], EffectiveDeadline(order[i]))
      BY <1>2, <1>5, <2>1, AcceptedRoute
    <3>2. k = n
      BY <1>4, <3>1 DEF IsRoute
    <3> QED
      BY <2>2, <3>1, <3>2
  <2>4. Within(t.return, limits.working)
    BY <1>6, <1>7, <2>3 DEF Within, TimingOf
  <2>5. Within(t.distance, limits.distance)
    BY <1>6, <1>7, <2>3 DEF Within, TimingOf
  <2>6. Breached(Rows(order, t), limits) = {}
    BY <1>3, <1>6, <2>3, <2>4, <2>5, NoneBreached
  <2>7. u.return <= end /\ Within(u.drive, limits.driving) /\ Within(u.distance, limits.distance)
    BY <1>6, <1>7, <2>3 DEF Within, TimingOf, NoMoreThan
  <2>8. ASSUME DayEnd >= ShiftWindow, NEW i \in 1..n, Deadline[order[i]] # Unset
        PROVE  u.arrivals[i] <= Deadline[order[i]]
    <3>1. PICK deadline, effective : deadline = Deadline[order[i]] /\ effective = EffectiveDeadline(order[i])
      OBVIOUS
    <3>2. /\ deadline \in Int /\ effective \in Int \cup {Unset}
          /\ effective # Unset => effective = deadline
          /\ effective = Unset => deadline > DayEnd
      BY <1>4, <2>8, <3>1, EffectiveIs
    <3>3. /\ u.arrivals[i] <= t.arrivals[i] /\ u.arrivals[i] \in Int /\ t.arrivals[i] \in Int
          /\ u.arrivals[i] <= u.return /\ u.return \in Int
      BY <1>6, <2>3 DEF TimingOf, NoMoreThan
    <3>4. CASE effective = Unset
      <4>1. DayEnd \in Int /\ ShiftWindow \in Int
        BY InsertionAssumption, LimitsAssumption
      <4>2. u.return <= ShiftWindow
        BY <2>3, <2>7, <3>3, <4>1
      <4> QED
        BY <2>8, <3>1, <3>2, <3>3, <3>4, <4>1, <4>2
    <3>5. CASE effective # Unset
      <4>1. t.arrivals[i] <= effective
        BY <2>3, <3>1, <3>5 DEF Within
      <4> QED
        BY <3>1, <3>2, <3>3, <3>5, <4>1
    <3> QED
      BY <3>4, <3>5
  <2>9. /\ VroomVehicleLimits(limits).window_end = end /\ VroomVehicleLimits(limits).max_travel_time = limits.driving
        /\ VroomVehicleLimits(limits).max_distance = limits.distance
        /\ VroomVehicleLimits(limits).max_tasks = limits.stops
    BY <2>2 DEF VroomVehicleLimits
  <2>10. LoadOf(order) <= CapacityG
    BY <2>1 DEF Sound
  <2>11. DayEnd >= ShiftWindow => Honours(order, limits)
    <3>1. ASSUME DayEnd >= ShiftWindow PROVE Accepts(VroomVehicleLimits(limits), order, u)
      BY <1>4, <2>3, <2>7, <2>8, <2>9, <2>10, <3>1 DEF Accepts
    <3> QED
      BY <1>5, <3>1 DEF Honours
  <2> QED
    BY <1>1, <1>5, <1>8, <2>6, <2>11, NothingToReport
<1>9. CASE plan[s].by = "tier2"
  <2>1. ~BreachesLimits(AnswerOf(order), limits) /\ measured = LegsOf(order)
    BY <1>1, <1>2, <1>9 DEF Vouched
  <2>2. t = u
    BY <1>5, <2>1 DEF Measured
  <2>3. /\ AnswerOf(order).duration = u.drive /\ AnswerOf(order).distance = u.distance
        /\ AnswerOf(order).stops = n /\ AnswerOf(order).end = u.return
    BY <1>4, <1>5 DEF AnswerOf, Answered
  <2>4. /\ Within(t.return, limits.working) /\ Within(t.drive, limits.driving)
        /\ Within(t.distance, limits.distance) /\ Within(n, limits.stops)
    BY <2>1, <2>2, <2>3 DEF BreachesLimits
  <2>5. Breached(Rows(order, t), limits) = {}
    BY <1>3, <1>6, <2>4, NoneBreached
  <2> QED
    BY <1>1, <1>5, <1>9, <2>5, NothingToReport
<1> QED
  BY <1>2, <1>8, <1>9

-----------------------------------------------------------------------------
(* Who is bumped is needed.                                                *)

VictimsOf(s) == {q \in Items : item'[q].evictions > item[q].evictions /\ q \in ToSet(plan[s].order)}

Needed(s) ==
  VictimsOf(s) # {} =>
    \E p \in ToSet(plan'[s].order) \ ToSet(plan[s].order) :
      /\ EffectiveDeadline(p) # Unset
      /\ \A x \in Open : ~TryInsert(plan[x].order, p, Limits(x), {}).feasible
      /\ \A v \in VictimsOf(s) : item[v].status = "ASSIGNED" /\ EffectiveDeadline(v) = Unset /\ ~Old[v]
      /\ \A v \in VictimsOf(s) : (\A u \in VictimsOf(s) \ {v} : Sooner(u, v)) =>
           ~TryInsert(Without(plan[s].order, VictimsOf(s) \ {v}), p, Limits(s), {}).feasible

LEMMA NobodyBumped ==
  ASSUME InsertionInv, NEW s \in Shifts,
         \A q \in Items : item'[q].evictions = item[q].evictions
  PROVE  Needed(s)
<1>1. \A q \in Items : item[q].evictions \in Nat
  BY DEF InsertionInv, ItemStates
<1>2. VictimsOf(s) = {}
  BY <1>1 DEF VictimsOf
<1> QED
  BY <1>2 DEF Needed

(* The one most entitled to stay, of those bumped, was the last added.     *)
LEMMA LastIsNeeded ==
  ASSUME InsertionInv, NEW s \in Open, NEW p, NEW victims, NEW n, NEW m, IsBumped(victims, s, p, n, m),
         ~TryInsert(plan[s].order, p, Limits(s), {}).feasible,
         NEW v \in victims, \A u \in victims \ {v} : Sooner(u, v)
  PROVE  ~TryInsert(Without(plan[s].order, victims \ {v}), p, Limits(s), {}).feasible
<1>1. PICK seq, S : seq = VictimOrder(s) /\ S = Evictables(s)
  OBVIOUS
<1>2. /\ InVictimOrder(seq, n, S) /\ m \in 1..n
      /\ \A x : x \in victims <=> \E i \in 1..m : seq[i] = x
      /\ \A k \in 1..n : TryInsert(Without(plan[s].order, ToSet(SubSeq(seq, 1, k))), p, Limits(s), {}).feasible
                           => m <= k
  BY <1>1 DEF IsBumped
<1>3. n \in Nat /\ m \in Nat /\ 1 <= m /\ m <= n /\ s \in Shifts
  BY <1>2 DEF InVictimOrder, Open
<1>4. plan[s].order \in Routes /\ S \subseteq Items
  BY <1>1, <1>3, ShiftsAre DEF Evictables
<1>5. \A i \in 1..n : seq[i] \in Items
  BY <1>2, <1>4 DEF InVictimOrder
<1>6. \A i, j \in 1..n : i < j => Sooner(seq[i], seq[j])
  BY <1>2 DEF InVictimOrder
<1>7. seq[m] = v
  <2>1. SUFFICES ASSUME seq[m] # v PROVE FALSE
    OBVIOUS
  <2>2. seq[m] \in victims
    BY <1>2, <1>3
  <2>3. Sooner(seq[m], v)
    BY <2>1, <2>2
  <2>4. PICK j \in 1..m : seq[j] = v
    BY <1>2
  <2>5. j \in 1..n /\ j < m
    BY <1>3, <2>1, <2>4
  <2>6. Sooner(v, seq[m])
    BY <1>3, <1>6, <2>4, <2>5
  <2>7. v \in Items /\ seq[m] \in Items
    BY <1>3, <1>5, <2>4, <2>5
  <2> QED
    BY <2>3, <2>6, <2>7, SoonerOrders
<1>8. \A i, j \in 1..n : i < j => seq[i] # seq[j]
  <2>1. ASSUME NEW i \in 1..n, NEW j \in 1..n, i < j PROVE seq[i] # seq[j]
    <3>1. Sooner(seq[i], seq[j]) /\ ~Sooner(seq[j], seq[j])
      BY <1>5, <1>6, <2>1, SoonerOrders
    <3> QED
      BY <3>1
  <2> QED
    BY <2>1
<1>9. CASE m = 1
  <2>1. victims \ {v} = {}
    <3>1. \A i \in 1..m : i = m
      BY <1>9
    <3> QED
      BY <1>2, <1>7, <3>1
  <2>2. PICK k : IsRoute(plan[s].order, k)
    BY <1>4, RouteShape
  <2>3. Without(plan[s].order, {}) = plan[s].order
    BY <2>2, WithoutShape
  <2> QED
    BY <2>1, <2>3
<1>10. CASE m # 1
  <2>1. PICK k : k = m - 1
    OBVIOUS
  <2>2. k \in 1..n /\ ~(m <= k)
    BY <1>3, <1>10, <2>1
  <2>3. \A x : x \in ToSet(SubSeq(seq, 1, k)) <=> \E i \in 1..k : seq[i] = x
    BY <1>2, <2>2, PrefixIs
  <2>4. \A x : x \in victims \ {v} <=> \E i \in 1..k : seq[i] = x
    <3>1. ASSUME NEW x \in victims, x # v PROVE \E i \in 1..k : seq[i] = x
      <4>1. PICK i \in 1..m : seq[i] = x
        BY <1>2, <3>1
      <4>2. i \in 1..k
        BY <1>3, <1>7, <2>1, <3>1, <4>1
      <4> QED
        BY <4>1, <4>2
    <3>2. ASSUME NEW i \in 1..k PROVE seq[i] \in victims /\ seq[i] # v
      <4>1. i \in 1..m /\ i \in 1..n /\ m \in 1..n /\ i < m
        BY <1>3, <2>1, <2>2
      <4> QED
        BY <1>2, <1>7, <1>8, <4>1
    <3> QED
      BY <3>1, <3>2
  <2>5. victims \ {v} = ToSet(SubSeq(seq, 1, k))
    BY <2>3, <2>4
  <2> QED
    BY <1>2, <2>2, <2>5
<1> QED
  BY <1>9, <1>10

(* No van would have a package for which there is no best one.             *)
LEMMA NoVanHasRoom ==
  ASSUME InsertionInv, NEW p \in Items, item[p].status = "PENDING", BestOf(p) = {}, NEW x \in Open
  PROVE  ~TryInsert(plan[x].order, p, Limits(x), {}).feasible
<1>1. Winner(Results(p, Unmeasured)) = {}
  BY DEF BestOf, Remeasured
<1>2. Results(p, Unmeasured) = {}
  BY <1>1 DEF Winner
<1>3. \A s \in Open : TryInsert(plan[s].order, p, Limits(s), Unmeasured[s]).feasible
                        => \E r \in Results(p, Unmeasured) : r.shift = s
  BY ResultsAre
<1>4. Unmeasured[x] = {}
  BY DEF Unmeasured
<1> QED
  BY <1>2, <1>3, <1>4

LEMMA BumpedIsNeeded ==
  ASSUME InsertionInv, NEW p \in Items, NEW x \in Shifts, EvictFor(p, x), NEW s \in Shifts
  PROVE  Needed(s)
<1>1. item[p].status = "PENDING" /\ x \in Open /\ BestOf(p) = {}
  BY DEF EvictFor
<1>2. PICK victims : /\ victims = PickVictims(x, p) /\ victims # {}
                     /\ Write(x, TryInsert(Without(plan[x].order, victims), p, Limits(x), {}).order, "tier1", {})
                     /\ item' = Bumped(victims, p)
  BY DEF EvictFor
<1>3. PICK n, m : IsBumped(victims, x, p, n, m)
  BY <1>2, VictimsAre
<1>4. EffectiveDeadline(p) # Unset
  BY <1>2, VictimsAre
<1>5. victims \subseteq Evictables(x)
  BY <1>3, BumpedMay
<1>6. /\ \A q \in ToSet(plan[x].order) : q \in Items /\ item[q].status # "PENDING"
      /\ DOMAIN plan = Shifts
  BY ShiftsAre DEF InsertionInv, PlansVouched
<1>7. \A q \in Items : /\ item[q].evictions \in Nat
                       /\ item'[q].evictions = IF q # p /\ q \in victims
                                               THEN item[q].evictions + 1 ELSE item[q].evictions
  BY <1>2, BumpedAre DEF InsertionInv, ItemStates
<1>8. p \notin victims /\ p \notin ToSet(plan[x].order)
  BY <1>1, <1>5, <1>6 DEF Evictables
<1>9. CASE s # x
  <2>1. VictimsOf(s) = {}
    <3>1. ASSUME NEW q \in VictimsOf(s) PROVE FALSE
      <4>1. q \in victims /\ q \in ToSet(plan[s].order)
        BY <1>7 DEF VictimsOf
      <4>2. q \in ToSet(plan[x].order)
        BY <1>5, <4>1 DEF Evictables
      <4> QED
        BY <1>9, <4>1, <4>2 DEF InsertionInv, RoutesApart
    <3> QED
      BY <3>1
  <2> QED
    BY <2>1 DEF Needed
<1>10. CASE s = x
  <2>1. VictimsOf(s) = victims
    <3>1. \A q : q \in VictimsOf(s) <=> q \in victims
      BY <1>5, <1>6, <1>7, <1>8, <1>10 DEF VictimsOf, Evictables
    <3> QED
      BY <3>1
  <2>2. p \in ToSet(plan'[s].order) \ ToSet(plan[s].order)
    <3>1. PICK a : a = TryInsert(Without(plan[x].order, victims), p, Limits(x), {})
      OBVIOUS
    <3>2. a.feasible
      BY <1>3, <3>1 DEF IsBumped
    <3>3. ToSet(a.order) = (ToSet(plan[x].order) \ victims) \cup {p}
      BY <1>1, <3>1, <3>2, RoomIsMade
    <3>4. plan'[x].order = a.order
      BY <1>2, <1>6, <3>1 DEF Write
    <3> QED
      BY <1>8, <1>10, <3>3, <3>4
  <2>3. \A y \in Open : ~TryInsert(plan[y].order, p, Limits(y), {}).feasible
    BY <1>1, NoVanHasRoom
  <2>4. \A v \in victims : item[v].status = "ASSIGNED" /\ EffectiveDeadline(v) = Unset /\ ~Old[v]
    BY <1>5 DEF Evictables, IsEvictable
  <2>5. \A v \in victims : (\A u \in victims \ {v} : Sooner(u, v)) =>
          ~TryInsert(Without(plan[s].order, victims \ {v}), p, Limits(s), {}).feasible
    BY <1>1, <1>3, <1>10, <2>3, LastIsNeeded
  <2> QED
    BY <1>4, <2>1, <2>2, <2>3, <2>4, <2>5 DEF Needed
<1> QED
  BY <1>9, <1>10

LEMMA StepsBumpTheNeeded ==
  ASSUME InsertionInv, [InsertionNext]_insertionVars
  PROVE  \A s \in Shifts : Needed(s)
<1>1. CASE \E p \in Items : \/ item' = [item EXCEPT ![p].status = "ASSIGNED"]
                            \/ item' = [item EXCEPT ![p].status = "LOADED"]
                            \/ item' = [item EXCEPT ![p].status = "PENDING"]
  BY <1>1, StatusSet, NobodyBumped
<1>2. CASE item' = item
  BY <1>2, NobodyBumped
<1>3. CASE \E p \in Items, x \in Shifts : EvictFor(p, x)
  BY <1>3, BumpedIsNeeded
<1>4. CASE \E x \in Shifts : Replan(x)
  <2>1. PICK order, x :
          item' = [p \in Items |-> IF p \in ToSet(plan[x].order) \ ToSet(order)
                                   THEN [item[p] EXCEPT !.status = "PENDING"] ELSE item[p]]
    BY <1>4 DEF Replan
  <2>2. ASSUME NEW q \in Items PROVE item'[q].evictions = item[q].evictions
    <3>1. item[q] \in ItemStates
      BY DEF InsertionInv
    <3>2. item'[q] = IF q \in ToSet(plan[x].order) \ ToSet(order)
                     THEN [item[q] EXCEPT !.status = "PENDING"] ELSE item[q]
      BY <2>1
    <3> QED
      BY <3>1, <3>2 DEF ItemStates
  <2> QED
    BY <2>2, NobodyBumped
<1>5. CASE UNCHANGED insertionVars
  BY <1>2, <1>5 DEF insertionVars
<1>6. CASE InsertionNext
  <2>1. CASE \E p \in Items : Place(p) \/ Load(p)
    BY <1>1, <2>1 DEF Place, Load
  <2>2. CASE \E p \in Items, s \in Shifts : Pin(p, s) \/ TakeOff(p, s)
    BY <1>1, <2>2 DEF Pin, TakeOff
  <2>3. CASE \E s \in Shifts : Roll(s) \/ DeleteProfile(s)
    BY <1>2, <2>3 DEF Roll, DeleteProfile
  <2> QED
    BY <1>3, <1>4, <1>6, <2>1, <2>2, <2>3 DEF InsertionNext
<1> QED
  BY <1>5, <1>6

LEMMA InsertionStepsBumpTheNeeded == InsertionSpec => VictimsAreNeeded
<1>1. (\A s \in Shifts : Needed(s)) => \A s \in Shifts :
        LET victims == VictimsOf(s) IN
        victims # {} =>
          \E p \in ToSet(plan'[s].order) \ ToSet(plan[s].order) :
            /\ EffectiveDeadline(p) # Unset
            /\ \A x \in Open : ~TryInsert(plan[x].order, p, Limits(x), {}).feasible
            /\ \A v \in victims : item[v].status = "ASSIGNED" /\ EffectiveDeadline(v) = Unset /\ ~Old[v]
            /\ \A v \in victims : (\A u \in victims \ {v} : Sooner(u, v)) =>
                 ~TryInsert(Without(plan[s].order, victims \ {v}), p, Limits(s), {}).feasible
  BY DEF Needed
<1>2. InsertionInv /\ [InsertionNext]_insertionVars => \A s \in Shifts : Needed(s)
  BY StepsBumpTheNeeded
<1> QED
  BY <1>1, <1>2, InsertionInvariance, PTL DEF InsertionSpec, VictimsAreNeeded, VictimsOf

=============================================================================
