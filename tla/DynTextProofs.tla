--------------------------- MODULE DynTextProofs ----------------------------
(***************************************************************************)
(* Proofs about DynText, for every blob, page size, dynamic text and       *)
(* cutoff of the search.                                                   *)
(***************************************************************************)
EXTENDS DynText, LeastElements, SequenceTheorems, TLAPS

Region == [start : Nat, size : Nat \ {0}]

\* The array of regions: sorted, disjoint, and no region is empty.
RegionsOK == regions \in Seq(Region) /\ RegionsSorted

-----------------------------------------------------------------------------
(* The search.                                                            *)

LEMMA StartsGrow ==
  ASSUME RegionsOK, NEW i \in DOMAIN regions, NEW j \in DOMAIN regions, i < j
  PROVE  regions[i].start < regions[j].start
<1>1. regions[i] \in Region /\ regions[j] \in Region
  BY DEF RegionsOK
<1>2. regions[i].start + regions[i].size <= regions[j].start
  BY DEF RegionsOK, RegionsSorted
<1> QED
  BY <1>1, <1>2 DEF Region

\* What the loop of the binary search keeps: the range is not empty, it starts at
\* a region at or below ptr, and the region behind it is above.
Around(ptr, n, range) ==
  \E lo, hi \in 0 .. n :
    /\ range = <<lo, hi>>
    /\ lo < hi
    /\ regions[lo + 1].start <= ptr
    /\ hi < n => regions[hi + 1].start > ptr

Round(ptr, range) ==
  IF range[1] + Cutoff + 1 < range[2] THEN Halve(ptr, range[1], range[2]) ELSE range

LEMMA RoundKeeps ==
  ASSUME RegionsOK, NEW ptr \in Nat, NEW n \in Nat, n = Len(regions),
         NEW range, Around(ptr, n, range)
  PROVE  Around(ptr, n, Round(ptr, range))
<1>1. PICK lo \in 0 .. n, hi \in 0 .. n :
        /\ range = <<lo, hi>>
        /\ lo < hi
        /\ regions[lo + 1].start <= ptr
        /\ hi < n => regions[hi + 1].start > ptr
  BY DEF Around
<1>2. range[1] = lo /\ range[2] = hi
  BY <1>1
<1>3. CASE ~(lo + Cutoff + 1 < hi)
  BY <1>2, <1>3 DEF Round
<1>4. CASE lo + Cutoff + 1 < hi
  <2> DEFINE mid == lo + (hi - lo) \div 2
  <2>1. mid \in 0 .. n /\ lo < mid /\ mid < hi
    BY <1>4, DynTextAssumption
  <2>2. Round(ptr, range) = Halve(ptr, lo, hi)
    BY <1>2, <1>4 DEF Round
  <2>3. Round(ptr, range) = IF regions[mid + 1].start <= ptr THEN <<mid, hi>> ELSE <<lo, mid>>
    BY <2>2 DEF Halve
  <2> HIDE DEF mid
  <2>4. mid + 1 \in DOMAIN regions
    BY <1>1, <2>1 DEF RegionsOK
  <2>5. regions[mid + 1].start \in Nat
    <3>1. regions[mid + 1] \in Region
      BY <2>4 DEF RegionsOK
    <3> QED
      BY <3>1 DEF Region
  <2>6. CASE regions[mid + 1].start <= ptr
    BY <1>1, <2>1, <2>3, <2>6 DEF Around
  <2>7. CASE ~(regions[mid + 1].start <= ptr)
    BY <1>1, <2>1, <2>3, <2>5, <2>7 DEF Around
  <2> QED
    BY <2>6, <2>7
<1> QED
  BY <1>3, <1>4

\* f gives the range after each of the first m rounds.
Rounds(ptr, n, m, f) ==
  /\ f \in [0 .. m -> (0 .. n) \X (0 .. n)]
  /\ f[0] = <<0, n>>
  /\ \A k \in 1 .. m : f[k] = Round(ptr, f[k - 1])
  /\ \A k \in 0 .. m : Around(ptr, n, f[k])

LEMMA RoundsExist ==
  ASSUME RegionsOK, NEW ptr \in Nat, NEW n \in Nat \ {0}, n = Len(regions), regions[1].start <= ptr
  PROVE  \E f : Rounds(ptr, n, n, f)
<1> DEFINE S == {m \in 0 .. n : \E f : Rounds(ptr, n, m, f)}
<1>1. 0 \in S
  <2> DEFINE f == [k \in 0 .. 0 |-> <<0, n>>]
  <2>1. Around(ptr, n, <<0, n>>)
    BY DEF Around
  <2>2. f[0] = <<0, n>> /\ \A k \in 0 .. 0 : f[k] = <<0, n>>
    OBVIOUS
  <2>3. f \in [0 .. 0 -> (0 .. n) \X (0 .. n)]
    OBVIOUS
  <2> HIDE DEF f
  <2>4. Rounds(ptr, n, 0, f)
    BY <2>1, <2>2, <2>3 DEF Rounds
  <2> QED
    BY <2>4
<1>2. ASSUME NEW m \in 0 .. n - 1, m \in S
      PROVE  m + 1 \in S
  <2>1. PICK g : Rounds(ptr, n, m, g)
    BY <1>2
  <2> DEFINE last == Round(ptr, g[m])
             f == [k \in 0 .. m + 1 |-> IF k = m + 1 THEN last ELSE g[k]]
  <2>2. Around(ptr, n, last)
    BY <2>1, RoundKeeps DEF Rounds
  <2>3. last \in (0 .. n) \X (0 .. n)
    BY <2>2 DEF Around
  <2>4. \A k \in 0 .. m : g[k] \in (0 .. n) \X (0 .. n)
    BY <2>1 DEF Rounds
  <2> HIDE DEF last
  <2>5. f \in [0 .. m + 1 -> (0 .. n) \X (0 .. n)]
    BY <2>3, <2>4
  <2>6. /\ f[m + 1] = last
        /\ \A k \in 0 .. m : f[k] = g[k]
    OBVIOUS
  <2> HIDE DEF f
  <2>7. f[0] = <<0, n>>
    BY <2>1, <2>6 DEF Rounds
  <2>8. \A k \in 1 .. m + 1 : f[k] = Round(ptr, f[k - 1])
    <3> SUFFICES ASSUME NEW k \in 1 .. m + 1 PROVE f[k] = Round(ptr, f[k - 1])
      OBVIOUS
    <3>1. CASE k = m + 1
      <4>1. f[k - 1] = g[m]
        BY <2>6, <3>1
      <4> QED
        BY <2>6, <3>1, <4>1 DEF last
    <3>2. CASE k \in 1 .. m
      <4>1. f[k] = g[k] /\ f[k - 1] = g[k - 1]
        BY <2>6, <3>2
      <4> QED
        BY <2>1, <3>2, <4>1 DEF Rounds
    <3> QED
      BY <3>1, <3>2
  <2>9. \A k \in 0 .. m + 1 : Around(ptr, n, f[k])
    <3> SUFFICES ASSUME NEW k \in 0 .. m + 1 PROVE Around(ptr, n, f[k])
      OBVIOUS
    <3>1. k = m + 1 \/ k \in 0 .. m
      OBVIOUS
    <3> QED
      BY <2>1, <2>2, <2>6, <3>1 DEF Rounds
  <2>10. Rounds(ptr, n, m + 1, f)
    BY <2>5, <2>7, <2>8, <2>9 DEF Rounds
  <2> QED
    BY <2>10
<1> HIDE DEF S
<1>3. 0 .. n \subseteq S
  BY <1>1, <1>2, SetInduction
<1>4. n \in S
  BY <1>3
<1> QED
  BY <1>4 DEF S

\* The function the loop computes is one of those.
LEMMA SearchEnds ==
  ASSUME RegionsOK, NEW ptr \in Nat, NEW n \in Nat \ {0}, n = Len(regions), regions[1].start <= ptr
  PROVE  Around(ptr, n, Search(ptr, n))
<1> DEFINE Body(f) == [k \in 0 .. n |-> IF k = 0 THEN <<0, n>> ELSE Round(ptr, f[k - 1])]
           round == CHOOSE f : f = Body(f)
<1>1. Search(ptr, n) = round[n]
  BY DEF Search, Round
<1>2. PICK g : Rounds(ptr, n, n, g)
  BY RoundsExist
<1>3. g = Body(g)
  BY <1>2 DEF Rounds
<1> HIDE DEF Body
<1>4. round = Body(round)
  BY <1>3
<1> HIDE DEF round
<1>5. /\ round[0] = <<0, n>>
      /\ \A k \in 1 .. n : round[k] = Round(ptr, round[k - 1])
  <2>1. \A h : \A k \in 0 .. n : Body(h)[k] = IF k = 0 THEN <<0, n>> ELSE Round(ptr, h[k - 1])
    BY DEF Body
  <2>2. \A k \in 0 .. n : round[k] = Body(round)[k]
    BY <1>4
  <2>3. \A k \in 0 .. n : round[k] = IF k = 0 THEN <<0, n>> ELSE Round(ptr, round[k - 1])
    BY <2>1, <2>2
  <2> QED
    BY <2>3
<1> DEFINE S == {k \in 0 .. n : Around(ptr, n, round[k])}
<1>6. 0 \in S
  BY <1>5 DEF Around
<1>7. ASSUME NEW k \in 0 .. n - 1, k \in S
      PROVE  k + 1 \in S
  <2>1. round[k + 1] = Round(ptr, round[k])
    BY <1>5
  <2> QED
    BY <1>7, <2>1, RoundKeeps
<1> HIDE DEF S
<1>8. 0 .. n \subseteq S
  BY <1>6, <1>7, SetInduction
<1>9. n \in S
  BY <1>8
<1> QED
  BY <1>1, <1>9 DEF S

\* The scan ends at the last region of the range at or below ptr.
LEMMA ScanEnds ==
  ASSUME RegionsOK, NEW ptr \in Nat, NEW n \in Nat \ {0}, n = Len(regions),
         NEW range, Around(ptr, n, range)
  PROVE  /\ Scan(ptr, range) \in 0 .. n - 1
         /\ regions[Scan(ptr, range) + 1].start <= ptr
         /\ Scan(ptr, range) + 1 < n => regions[Scan(ptr, range) + 2].start > ptr
<1>1. PICK lo \in 0 .. n, hi \in 0 .. n :
        /\ range = <<lo, hi>>
        /\ lo < hi
        /\ regions[lo + 1].start <= ptr
        /\ hi < n => regions[hi + 1].start > ptr
  BY DEF Around
<1>2. range[1] = lo /\ range[2] = hi
  BY <1>1
<1> DEFINE Stop(i) == /\ \A j \in lo + 1 .. i : regions[j + 1].start <= ptr
                      /\ i + 1 < hi => regions[i + 2].start > ptr
<1>3. Scan(ptr, range) = CHOOSE i \in lo .. hi - 1 : Stop(i)
  BY <1>2 DEF Scan
<1>4. \E i \in lo .. hi - 1 : Stop(i)
  <2> DEFINE T == {i \in lo .. hi - 1 : i + 1 < hi => regions[i + 2].start > ptr}
  <2>1. hi - 1 \in T /\ T \subseteq Nat
    BY <1>1
  <2>2. PICK x \in T : \A y \in T : x <= y
    <3> HIDE DEF T
    <3> QED
      BY <2>1, LeastElement
  <2>3. ASSUME NEW j \in lo + 1 .. x
        PROVE  regions[j + 1].start <= ptr
    <3>1. j - 1 \in lo .. hi - 1 /\ j - 1 \notin T
      <4>1. x \in lo .. hi - 1
        OBVIOUS
      <4>2. j - 1 \in lo .. hi - 1 /\ ~(x <= j - 1)
        BY <4>1
      <4> HIDE DEF T
      <4> QED
        BY <2>2, <4>2
    <3>2. (j - 1) + 2 = j + 1 /\ ~(regions[(j - 1) + 2].start > ptr) /\ j < hi
      BY <3>1
    <3>3. regions[j + 1] \in Region
      BY <3>2 DEF RegionsOK
    <3> QED
      BY <3>2, <3>3 DEF Region
  <2>4. Stop(x)
    BY <2>2, <2>3
  <2> QED
    BY <2>2, <2>4
<1> DEFINE i == CHOOSE i \in lo .. hi - 1 : Stop(i)
<1>5. i \in lo .. hi - 1 /\ Stop(i)
  <2> HIDE DEF Stop
  <2> QED
    BY <1>4
<1> HIDE DEF i
<1>6. regions[i + 1].start <= ptr
  BY <1>1, <1>5
<1>7. i + 1 < n => regions[i + 2].start > ptr
  <2>1. CASE i + 1 < hi
    BY <1>5, <2>1
  <2>2. CASE i + 1 = hi
    <3>1. i + 2 = hi + 1
      BY <1>5, <2>2
    <3> QED
      BY <1>1, <2>2, <3>1
  <2> QED
    BY <1>5, <2>1, <2>2
<1>8. Scan(ptr, range) = i
  BY <1>3 DEF i
<1> QED
  BY <1>5, <1>6, <1>7, <1>8

\* r is the last region that starts at or below ptr, or 0.
LastUpTo(ptr, r) ==
  /\ r \in 0 .. Len(regions)
  /\ r # 0 => regions[r].start <= ptr
  /\ \A i \in DOMAIN regions : i > r => regions[i].start > ptr

LEMMA FindExact ==
  ASSUME RegionsOK, NEW ptr \in Nat
  PROVE  LastUpTo(ptr, FindClosestLEQ(ptr))
<1> DEFINE n == Len(regions)
<1>1. n \in Nat /\ DOMAIN regions = 1 .. n
  BY DEF RegionsOK
<1>2. \A i \in DOMAIN regions : regions[i].start \in Nat
  <2> SUFFICES ASSUME NEW i \in DOMAIN regions PROVE regions[i].start \in Nat
    OBVIOUS
  <2>1. regions[i] \in Region
    BY DEF RegionsOK
  <2> QED
    BY <2>1 DEF Region
<1>3. CASE n = 0
  BY <1>1, <1>3 DEF FindClosestLEQ, LastUpTo
<1>4. CASE n # 0 /\ regions[n].start <= ptr
  BY <1>1, <1>4 DEF FindClosestLEQ, LastUpTo
<1>5. CASE n # 0 /\ ~(regions[n].start <= ptr) /\ ptr < regions[1].start
  <2>1. FindClosestLEQ(ptr) = 0
    BY <1>5 DEF FindClosestLEQ
  <2>2. ASSUME NEW i \in DOMAIN regions PROVE regions[i].start > ptr
    <3>1. CASE i = 1
      BY <1>5, <3>1, <1>2
    <3>2. CASE i > 1
      <4>1. regions[1].start < regions[i].start
        BY <1>1, <3>2, StartsGrow
      <4> QED
        BY <1>1, <1>2, <1>5, <4>1
    <3> QED
      BY <1>1, <3>1, <3>2
  <2> QED
    BY <1>1, <2>1, <2>2 DEF LastUpTo
<1>6. CASE n # 0 /\ ~(regions[n].start <= ptr) /\ ~(ptr < regions[1].start)
  <2> DEFINE s == Scan(ptr, Search(ptr, n))
  <2>1. FindClosestLEQ(ptr) = s + 1
    BY <1>6 DEF FindClosestLEQ
  <2>2. regions[1].start <= ptr
    BY <1>1, <1>2, <1>6
  <2>3. Around(ptr, n, Search(ptr, n))
    BY <1>1, <1>6, <2>2, SearchEnds
  <2>4. /\ s \in 0 .. n - 1
        /\ regions[s + 1].start <= ptr
        /\ s + 1 < n => regions[s + 2].start > ptr
    BY <1>1, <1>6, <2>3, ScanEnds
  <2> HIDE DEF s
  <2>5. ASSUME NEW i \in DOMAIN regions, i > s + 1 PROVE regions[i].start > ptr
    <3>1. i \in 1 .. n /\ s + 2 \in 1 .. n /\ i >= s + 2
      BY <1>1, <2>4, <2>5
    <3>2. regions[s + 2].start > ptr /\ regions[s + 2].start \in Nat /\ regions[i].start \in Nat
      BY <1>1, <1>2, <2>4, <3>1
    <3>3. CASE i = s + 2
      BY <3>2, <3>3
    <3>4. CASE i > s + 2
      <4>1. regions[s + 2].start < regions[i].start
        BY <1>1, <3>1, <3>4, StartsGrow
      <4> QED
        BY <3>2, <4>1
    <3> QED
      BY <2>4, <3>1, <3>3, <3>4
  <2> QED
    BY <1>1, <2>1, <2>4, <2>5 DEF LastUpTo
<1> QED
  BY <1>3, <1>4, <1>5, <1>6

-----------------------------------------------------------------------------
(* A region is inserted.                                                  *)

\* The array with a new region behind the first k.
Inserted(k, start, size) ==
  SubSeq(regions, 1, k) \o <<[start |-> start, size |-> size]>>
    \o SubSeq(regions, k + 1, Len(regions))

\* When the place is free, the new region belongs behind the region found.
LEMMA InsertPlace ==
  ASSUME RegionsOK, NEW start \in Nat, NEW size \in Nat \ {0}, ~RegionInUse(start, size)
  PROVE  \E k \in 0 .. Len(regions) :
           /\ WithRegion(start, size) = Inserted(k, start, size)
           /\ k # 0 => regions[k].start + regions[k].size <= start
           /\ k < Len(regions) => start + size <= regions[k + 1].start
<1> DEFINE n == Len(regions)
           k == FindClosestLEQ(start + size - 1)
           from == IF k = 0 THEN 1 ELSE k
           Place(i) == /\ \A j \in from .. i - 1 : regions[j].start < start
                       /\ i \in DOMAIN regions => regions[i].start >= start
           at == CHOOSE i \in from .. n + 1 : Place(i)
<1>1. n \in Nat /\ DOMAIN regions = 1 .. n
  BY DEF RegionsOK
<1>2. \A i \in 1 .. n : regions[i].start \in Nat /\ regions[i].size \in Nat \ {0}
  <2> SUFFICES ASSUME NEW i \in DOMAIN regions
               PROVE  regions[i].start \in Nat /\ regions[i].size \in Nat \ {0}
    BY <1>1
  <2>1. regions[i] \in Region
    BY DEF RegionsOK
  <2> QED
    BY <2>1 DEF Region
<1>3. LastUpTo(start + size - 1, k)
  <2>1. start + size - 1 \in Nat
    OBVIOUS
  <2> QED
    BY <2>1, FindExact
<1>4. k # 0 => ~(start < regions[k].start + regions[k].size)
  BY DEF RegionInUse
<1>5. WithRegion(start, size) =
        SubSeq(regions, 1, at - 1) \o <<[start |-> start, size |-> size]>>
          \o SubSeq(regions, at, Len(regions))
  BY DEF WithRegion
<1> HIDE DEF k
<1>6. k \in 0 .. n
  BY <1>3 DEF LastUpTo
<1>7. k # 0 => regions[k].start + regions[k].size <= start
  BY <1>2, <1>4, <1>6
<1>8. k < n => start + size <= regions[k + 1].start
  BY <1>1, <1>2, <1>3, <1>6 DEF LastUpTo
<1>9. Place(k + 1) /\ k + 1 \in from .. n + 1
  <2>1. ASSUME NEW j \in from .. (k + 1) - 1 PROVE regions[j].start < start
    <3>1. k # 0 /\ j = k
      BY <1>6
    <3> QED
      BY <1>2, <1>6, <1>7, <3>1
  <2>2. k + 1 \in DOMAIN regions => regions[k + 1].start >= start
    BY <1>1, <1>2, <1>6, <1>8
  <2> QED
    BY <1>6, <2>1, <2>2
<1>10. ASSUME NEW i \in from .. n + 1, Place(i) PROVE i = k + 1
  <2>1. CASE i < k + 1
    <3>1. k # 0 /\ i = k
      BY <1>6, <2>1
    <3>2. regions[k].start >= start
      BY <1>1, <1>6, <1>10, <3>1
    <3> QED
      BY <1>2, <1>6, <1>7, <3>1, <3>2
  <2>2. CASE i > k + 1
    <3>1. k + 1 \in from .. i - 1 /\ k < n
      BY <1>6, <2>2
    <3>2. regions[k + 1].start < start
      BY <1>10, <3>1
    <3> QED
      BY <1>2, <1>6, <1>8, <3>1, <3>2
  <2> QED
    BY <1>6, <2>1, <2>2
<1>11. at = k + 1
  <2> HIDE DEF Place, from
  <2> QED
    BY <1>9, <1>10
<1> HIDE DEF at
<1>12. WithRegion(start, size) = Inserted(k, start, size)
  <2>1. at - 1 = k
    BY <1>6, <1>11
  <2> QED
    BY <1>5, <1>11, <2>1 DEF Inserted
<1> QED
  BY <1>6, <1>7, <1>8, <1>12

IsInsertion(new, k, start, size) ==
  /\ new \in Seq(Region)
  /\ Len(new) = Len(regions) + 1
  /\ \A i \in 1 .. k : new[i] = regions[i]
  /\ new[k + 1] = [start |-> start, size |-> size]
  /\ \A i \in k + 2 .. Len(regions) + 1 : new[i] = regions[i - 1]

LEMMA InsertedIs ==
  ASSUME RegionsOK, NEW start \in Nat, NEW size \in Nat \ {0}, NEW k \in 0 .. Len(regions)
  PROVE  IsInsertion(Inserted(k, start, size), k, start, size)
<1> DEFINE n == Len(regions)
           r == [start |-> start, size |-> size]
           a == SubSeq(regions, 1, k)
           b == SubSeq(regions, k + 1, n)
<1>1. n \in Nat /\ regions \in Seq(Region)
  BY DEF RegionsOK
<1>2. r \in Region
  BY DEF Region
<1>3. a \in Seq(Region) /\ Len(a) = k /\ \A i \in 1 .. k : a[i] = regions[i]
  BY <1>1
<1>4. b \in Seq(Region) /\ Len(b) = n - k /\ \A i \in 1 .. n - k : b[i] = regions[k + i]
  BY <1>1
<1> HIDE DEF a, b, r
<1>5. <<r>> \in Seq(Region) /\ Len(<<r>>) = 1 /\ <<r>>[1] = r
  BY <1>2
<1> DEFINE ar == a \o <<r>>
<1>6. /\ ar \in Seq(Region) /\ Len(ar) = k + 1
      /\ \A i \in 1 .. k : ar[i] = a[i]
      /\ ar[k + 1] = r
  BY <1>3, <1>5
<1> HIDE DEF ar
<1> DEFINE new == ar \o b
<1>7. /\ new \in Seq(Region) /\ Len(new) = n + 1
      /\ \A i \in 1 .. k + 1 : new[i] = ar[i]
      /\ \A i \in k + 2 .. n + 1 : new[i] = b[i - (k + 1)]
  BY <1>1, <1>4, <1>6
<1>8. Inserted(k, start, size) = new
  BY DEF Inserted, new, ar, a, b, r
<1> HIDE DEF new
<1>9. \A i \in 1 .. k : new[i] = regions[i]
  BY <1>3, <1>6, <1>7
<1>10. new[k + 1] = r
  BY <1>6, <1>7
<1>11. ASSUME NEW i \in k + 2 .. n + 1 PROVE new[i] = regions[i - 1]
  <2>1. i - (k + 1) \in 1 .. n - k /\ k + (i - (k + 1)) = i - 1
    BY <1>1
  <2> QED
    BY <1>4, <1>7, <2>1
<1> QED
  BY <1>7, <1>8, <1>9, <1>10, <1>11 DEF r, IsInsertion

\* The insertion keeps the array sorted, drops no region and adds the new one.
LEMMA InsertionKeeps ==
  ASSUME RegionsOK, NEW start \in Nat, NEW size \in Nat \ {0}, ~RegionInUse(start, size),
         regions' = WithRegion(start, size)
  PROVE  /\ RegionsOK'
         /\ \A i \in DOMAIN regions : \E j \in DOMAIN regions' : regions'[j] = regions[i]
         /\ \E j \in DOMAIN regions' : regions'[j] = [start |-> start, size |-> size]
<1> DEFINE n == Len(regions)
<1>1. n \in Nat /\ DOMAIN regions = 1 .. n
  BY DEF RegionsOK
<1>2. \A i \in 1 .. n : regions[i].start \in Nat /\ regions[i].size \in Nat \ {0}
  <2> SUFFICES ASSUME NEW i \in DOMAIN regions
               PROVE  regions[i].start \in Nat /\ regions[i].size \in Nat \ {0}
    BY <1>1
  <2>1. regions[i] \in Region
    BY DEF RegionsOK
  <2> QED
    BY <2>1 DEF Region
<1>3. PICK k \in 0 .. n :
        /\ regions' = Inserted(k, start, size)
        /\ k # 0 => regions[k].start + regions[k].size <= start
        /\ k < n => start + size <= regions[k + 1].start
  BY InsertPlace
<1>4. /\ regions' \in Seq(Region)
      /\ Len(regions') = n + 1
      /\ \A i \in 1 .. k : regions'[i] = regions[i]
      /\ regions'[k + 1] = [start |-> start, size |-> size]
      /\ \A i \in k + 2 .. n + 1 : regions'[i] = regions[i - 1]
  <2>1. IsInsertion(regions', k, start, size)
    BY <1>3, InsertedIs
  <2> QED
    BY <2>1 DEF IsInsertion
<1>5. DOMAIN regions' = 1 .. n + 1
  BY <1>4, LenProperties
<1>6. \A i, j \in 1 .. n : i < j => regions[i].start + regions[i].size <= regions[j].start
  BY <1>1 DEF RegionsOK, RegionsSorted
<1>7. \A i \in 1 .. k : regions[i].start + regions[i].size <= start
  <2> SUFFICES ASSUME NEW i \in 1 .. k PROVE regions[i].start + regions[i].size <= start
    OBVIOUS
  <2>1. CASE i = k
    BY <1>3, <2>1
  <2>2. CASE i < k
    <3>1. regions[i].start + regions[i].size <= regions[k].start
      BY <1>1, <1>6, <2>2
    <3> QED
      BY <1>1, <1>2, <1>3, <3>1
  <2> QED
    BY <2>1, <2>2
<1>8. \A j \in k + 1 .. n : start + size <= regions[j].start
  <2> SUFFICES ASSUME NEW j \in k + 1 .. n PROVE start + size <= regions[j].start
    OBVIOUS
  <2>1. CASE j = k + 1
    BY <1>1, <1>3, <2>1
  <2>2. CASE j > k + 1
    <3>1. regions[k + 1].start + regions[k + 1].size <= regions[j].start
      BY <1>1, <1>6, <2>2
    <3> QED
      BY <1>1, <1>2, <1>3, <3>1
  <2> QED
    BY <2>1, <2>2
<1>9. ASSUME NEW i \in 1 .. n + 1, NEW j \in 1 .. n + 1, i < j
      PROVE  regions'[i].start + regions'[i].size <= regions'[j].start
  <2>1. CASE j <= k
    BY <1>4, <1>6, <1>9, <2>1
  <2>2. CASE j = k + 1
    BY <1>4, <1>7, <1>9, <2>2
  <2>3. CASE j > k + 1 /\ i <= k
    <3>1. i \in 1 .. n /\ j - 1 \in 1 .. n /\ i < j - 1
      BY <1>1, <1>9, <2>3
    <3> QED
      BY <1>4, <1>6, <2>3, <3>1
  <2>4. CASE i = k + 1
    BY <1>1, <1>4, <1>8, <1>9, <2>4
  <2>5. CASE i > k + 1
    <3>1. i - 1 \in 1 .. n /\ j - 1 \in 1 .. n /\ i - 1 < j - 1
      BY <1>1, <1>9, <2>5
    <3>2. i \in k + 2 .. n + 1 /\ j \in k + 2 .. n + 1
      BY <1>1, <1>9, <2>5
    <3>3. regions'[i] = regions[i - 1] /\ regions'[j] = regions[j - 1]
      BY <1>4, <3>2
    <3> QED
      BY <1>6, <3>1, <3>3
  <2> QED
    BY <1>1, <1>9, <2>1, <2>2, <2>3, <2>4, <2>5
<1>10. RegionsOK'
  BY <1>4, <1>5, <1>9 DEF RegionsOK, RegionsSorted
<1>11. ASSUME NEW i \in DOMAIN regions PROVE \E j \in DOMAIN regions' : regions'[j] = regions[i]
  <2>1. CASE i <= k
    BY <1>1, <1>4, <1>5, <2>1
  <2>2. CASE i > k
    <3>1. i + 1 \in k + 2 .. n + 1 /\ i + 1 \in 1 .. n + 1 /\ (i + 1) - 1 = i
      BY <1>1, <2>2
    <3>2. regions'[i + 1] = regions[i]
      BY <1>4, <3>1
    <3> QED
      BY <1>5, <3>1, <3>2
  <2> QED
    BY <1>1, <2>1, <2>2
<1>12. \E j \in DOMAIN regions' : regions'[j] = [start |-> start, size |-> size]
  BY <1>1, <1>4, <1>5
<1> QED
  BY <1>10, <1>11, <1>12

-----------------------------------------------------------------------------
(* Pages and bundles.                                                     *)

LEMMA DivMod ==
  \A a \in Int, m \in Nat \ {0} :
    a \div m \in Int /\ a % m \in 0 .. m - 1 /\ a = (a \div m) * m + (a % m)
OBVIOUS

LEMMA TimesOrder ==
  ASSUME NEW m \in Nat \ {0}, NEW x \in Int, NEW y \in Int, x * m < y * m
  PROVE  x < y
<1> SUFFICES ASSUME ~(x < y) PROVE FALSE
  OBVIOUS
<1>1. x - y \in Nat /\ m \in Nat
  OBVIOUS
<1>2. (x - y) * m >= 0
  BY <1>1
<1>3. (x - y) * m = x * m - y * m
  OBVIOUS
<1> QED
  BY <1>2, <1>3

LEMMA DivExact ==
  ASSUME NEW m \in Nat \ {0}, NEW k \in Int
  PROVE  (k * m) \div m = k
<1> DEFINE a == k * m
           q == a \div m
           r == a % m
<1>1. a \in Int
  OBVIOUS
<1>2. q \in Int /\ r \in 0 .. m - 1 /\ a = q * m + r
  BY <1>1, DivMod
<1> HIDE DEF q, r
<1>3. q * m \in Int /\ (q + 1) * m = q * m + m /\ (k + 1) * m = k * m + m
  BY <1>2
<1>4. k * m < (q + 1) * m /\ q * m < (k + 1) * m
  BY <1>1, <1>2, <1>3
<1>5. k < q + 1
  BY <1>2, <1>4, TimesOrder
<1>6. q < k + 1
  BY <1>2, <1>4, TimesOrder
<1> QED
  BY <1>2, <1>5, <1>6 DEF q

FirstPage == DynStart \div PB
EndPage == DynEnd \div PB

LEMMA TextIsPages ==
  /\ FirstPage \in Int /\ EndPage \in Int
  /\ DynStart = FirstPage * PB /\ DynEnd = EndPage * PB
<1>1. PB \in Nat \ {0} /\ DynStart \in Int /\ DynEnd \in Int /\ DynStart % PB = 0 /\ DynEnd % PB = 0
  BY DynTextAssumption
<1>2. /\ DynStart \div PB \in Int /\ DynStart = (DynStart \div PB) * PB + 0
      /\ DynEnd \div PB \in Int /\ DynEnd = (DynEnd \div PB) * PB + 0
  BY <1>1, DivMod
<1>3. (DynStart \div PB) * PB \in Int /\ (DynEnd \div PB) * PB \in Int
  BY <1>1, <1>2
<1> QED
  BY <1>2, <1>3 DEF FirstPage, EndPage

LEMMA PageInText ==
  ASSUME NEW p \in TextPages, NEW b \in PageBundles(p)
  PROVE  b \in Bundles /\ p \in Int /\ b \in Int /\ p * PB <= b /\ b < (p + 1) * PB
<1>1. p \in Int /\ FirstPage <= p /\ p + 1 <= EndPage
  BY TextIsPages DEF TextPages, FirstPage, EndPage
<1>2. PB \in Nat \ {0} /\ p * PB \in Int /\ (p + 1) * PB = p * PB + PB
  BY <1>1, DynTextAssumption
<1>3. b \in Int /\ p * PB <= b /\ b < (p + 1) * PB
  BY <1>2 DEF PageBundles, Span
<1>4. (p - FirstPage) * PB >= 0 /\ (EndPage - (p + 1)) * PB >= 0
  <2>1. p - FirstPage \in Nat /\ EndPage - (p + 1) \in Nat
    BY <1>1, TextIsPages
  <2> QED
    BY <1>2, <2>1
<1>5. /\ (p - FirstPage) * PB = p * PB - FirstPage * PB
      /\ (EndPage - (p + 1)) * PB = EndPage * PB - (p + 1) * PB
  BY <1>1, <1>2, TextIsPages
<1>6. DynStart <= p * PB /\ (p + 1) * PB <= DynEnd
  BY <1>1, <1>2, <1>4, <1>5, TextIsPages, DynTextAssumption
<1> QED
  BY <1>1, <1>2, <1>3, <1>6, DynTextAssumption DEF Bundles

LEMMA PageUnique ==
  ASSUME NEW p \in TextPages, NEW q \in TextPages, NEW b, b \in PageBundles(p), b \in PageBundles(q)
  PROVE  p = q
<1>1. p \in Int /\ b \in Int /\ p * PB <= b /\ b < (p + 1) * PB
  BY PageInText
<1>2. q \in Int /\ q * PB <= b /\ b < (q + 1) * PB
  BY PageInText
<1>3. PB \in Nat \ {0} /\ p * PB \in Int /\ q * PB \in Int /\ (p + 1) * PB \in Int /\ (q + 1) * PB \in Int
  BY <1>1, <1>2, DynTextAssumption
<1>4. p * PB < (q + 1) * PB /\ q * PB < (p + 1) * PB
  BY <1>1, <1>2, <1>3
<1>5. p < q + 1
  BY <1>1, <1>2, <1>3, <1>4, TimesOrder
<1>6. q < p + 1
  BY <1>1, <1>2, <1>3, <1>4, TimesOrder
<1> QED
  BY <1>1, <1>2, <1>5, <1>6

\* The pages mapped for a piece of code are pages of the dynamic text, and they
\* are all the pages the code lies in.
LEMMA MapCovers ==
  ASSUME NEW h \in Segment, h.filesz # 0, ~DyncodeRefused(h)
  PROVE  /\ MapPages(MapRange(h)) \subseteq TextPages
         /\ \A p \in TextPages : \A b \in PageBundles(p) :
              b \in Span(h.vaddr, h.filesz) => p \in MapPages(MapRange(h))
         /\ \A b \in Span(h.vaddr, h.filesz) : b \in Bundles /\ b < DynEnd - HaltSled
<1> DEFINE v == h.vaddr
           f == h.filesz
           d == FirstPage
           q1 == (v - DynStart) \div PB
           q2 == (v - DynStart + f + PB - 1) \div PB
<1>1. /\ v \in Nat /\ f \in Nat \ {0} /\ PB \in Nat \ {0} /\ DynStart \in Nat /\ DynEnd \in Nat
      /\ HaltSled \in Nat \ {0}
  BY DynTextAssumption DEF Segment
<1>2. DynStart <= v /\ v + f <= DynEnd - HaltSled
  BY <1>1 DEF DyncodeRefused, AboveText
<1> HIDE DEF v, f
<1>3. /\ q1 \in Int /\ q1 * PB \in Int
      /\ q1 * PB <= v - DynStart /\ v - DynStart < q1 * PB + PB
  <2>1. v - DynStart \in Int
    BY <1>1
  <2>2. q1 \in Int /\ (v - DynStart) % PB \in 0 .. PB - 1 /\ v - DynStart = q1 * PB + ((v - DynStart) % PB)
    BY <1>1, <2>1, DivMod
  <2>3. q1 * PB \in Int
    BY <1>1, <2>2
  <2> HIDE DEF q1
  <2> QED
    BY <1>1, <2>2, <2>3
<1>4. /\ q2 \in Int /\ q2 * PB \in Int
      /\ v - DynStart + f <= q2 * PB /\ q2 * PB < v - DynStart + f + PB
  <2> DEFINE y == v - DynStart + f + PB - 1
  <2>1. y \in Int
    BY <1>1
  <2>2. q2 \in Int /\ y % PB \in 0 .. PB - 1 /\ y = q2 * PB + (y % PB)
    BY <1>1, <2>1, DivMod
  <2>3. q2 * PB \in Int
    BY <1>1, <2>2
  <2> DEFINE z == y % PB
  <2>4. z \in 0 .. PB - 1 /\ v - DynStart + f + PB - 1 = q2 * PB + z
    BY <2>2
  <2> HIDE DEF q2, z
  <2> QED
    BY <1>1, <2>2, <2>3, <2>4
<1>5. MapRange(h) = [offset |-> q1 * PB, size |-> q2 * PB - q1 * PB]
  BY DEF MapRange, TruncAllocPage, RoundAllocPage, v, f
<1> HIDE DEF q1, q2, d
<1>6. d \in Int /\ DynStart = d * PB /\ d * PB \in Int
  BY <1>1, TextIsPages DEF d
<1>7. MapPages(MapRange(h)) = d + q1 .. d + q2 - 1
  <2>1. DynStart + q1 * PB = (d + q1) * PB /\ q2 * PB - q1 * PB = (q2 - q1) * PB
    BY <1>1, <1>3, <1>4, <1>6
  <2>2. (DynStart + q1 * PB) \div PB = d + q1
    BY <1>1, <1>3, <1>6, <2>1, DivExact
  <2>3. (q2 * PB - q1 * PB) \div PB = q2 - q1
    BY <1>1, <1>3, <1>4, <2>1, DivExact
  <2>4. MapPages(MapRange(h)) = Span(d + q1, q2 - q1)
    BY <1>5, <2>2, <2>3 DEF MapPages
  <2> QED
    BY <1>3, <1>4, <1>6, <2>4 DEF Span
<1>8. (d + q1) * PB = DynStart + q1 * PB /\ (d + q2) * PB = DynStart + q2 * PB
  BY <1>1, <1>3, <1>4, <1>6
<1>9. q1 >= 0
  <2>1. 0 * PB < (q1 + 1) * PB
    <3>1. (q1 + 1) * PB = q1 * PB + PB /\ 0 * PB = 0
      BY <1>1, <1>3
    <3> QED
      BY <1>1, <1>2, <1>3, <3>1
  <2>2. 0 < q1 + 1
    BY <1>1, <1>3, <2>1, TimesOrder
  <2> QED
    BY <1>3, <2>2
<1>10. d + q2 <= EndPage
  <2>1. (EndPage + 1) * PB = DynEnd + PB /\ EndPage \in Int
    BY <1>1, TextIsPages
  <2>2. (d + q2) * PB < (EndPage + 1) * PB
    BY <1>1, <1>2, <1>4, <1>8, <2>1
  <2>3. d + q2 < EndPage + 1
    BY <1>1, <1>4, <1>6, <2>1, <2>2, TimesOrder
  <2> QED
    BY <1>4, <1>6, <2>1, <2>3
<1>11. MapPages(MapRange(h)) \subseteq TextPages
  <2>1. TextPages = d .. EndPage - 1
    BY DEF TextPages, d, FirstPage, EndPage
  <2> QED
    BY <1>3, <1>4, <1>6, <1>7, <1>9, <1>10, <2>1, TextIsPages
<1>12. ASSUME NEW p \in TextPages, NEW b \in PageBundles(p), b \in Span(h.vaddr, h.filesz)
       PROVE  p \in MapPages(MapRange(h))
  <2>1. p \in Int /\ b \in Int /\ p * PB <= b /\ b < (p + 1) * PB
    BY PageInText
  <2>2. v <= b /\ b < v + f
    BY <1>1, <1>12, <2>1 DEF Span, v, f
  <2>3. p * PB \in Int /\ (p + 1) * PB \in Int
    BY <1>1, <2>1
  <2>4. (d + q1) * PB < (p + 1) * PB
    BY <1>1, <1>3, <1>8, <2>1, <2>2, <2>3
  <2>5. p * PB < (d + q2) * PB
    BY <1>1, <1>4, <1>8, <2>1, <2>2, <2>3
  <2>6. d + q1 < p + 1
    BY <1>1, <1>3, <1>6, <2>1, <2>4, TimesOrder
  <2>7. p < d + q2
    BY <1>1, <1>4, <1>6, <2>1, <2>5, TimesOrder
  <2> QED
    BY <1>3, <1>4, <1>6, <1>7, <2>1, <2>6, <2>7
<1>13. \A b \in Span(h.vaddr, h.filesz) : b \in Bundles /\ b < DynEnd - HaltSled
  BY <1>1, <1>2 DEF Span, Bundles, v, f
<1> QED
  BY <1>11, <1>12, <1>13

-----------------------------------------------------------------------------
(* The dynamic text.                                                      *)

\* What loading keeps.  Beside the properties: the pages of the cached mapping are
\* visible, without which a mapping that hits the cache could write to a page
\* that never became visible.
TextInv ==
  /\ phdrs \in Seq(Segment)
  /\ segnum \in Nat \ {0}
  /\ RegionsOK
  /\ shm \in [Bundles -> {"zero", "halt", "code"}]
  /\ visible \subseteq TextPages
  /\ MapPages(mapcache) \subseteq visible
  /\ VisibleIsCode

LEMMA NoCacheNoPages == MapPages(NoCache) = {}
<1>1. PB \in Nat \ {0} /\ DynStart + 0 = DynStart /\ 0 * PB = 0
  BY DynTextAssumption
<1>2. 0 \div PB = 0
  BY <1>1, DivExact
<1>3. NoCache.offset = 0 /\ NoCache.size = 0
  BY DEF NoCache
<1>4. MapPages(NoCache) = Span(FirstPage, 0)
  BY <1>1, <1>2, <1>3 DEF MapPages, FirstPage
<1> QED
  BY <1>4, TextIsPages DEF Span

LEMMA TextStart == Init => TextInv
<1> SUFFICES ASSUME Init PROVE TextInv
  OBVIOUS
<1>1. phdrs \in Seq(Segment) /\ segnum \in Nat \ {0}
  BY DynTextAssumption DEF Init
<1>2. RegionsOK
  BY DEF Init, RegionsOK, RegionsSorted
<1>3. shm \in [Bundles -> {"zero", "halt", "code"}] /\ visible \subseteq TextPages
  BY DEF Init
<1>4. MapPages(mapcache) \subseteq visible
  BY NoCacheNoPages DEF Init
<1>5. VisibleIsCode
  <2> SUFFICES ASSUME NEW p \in TextPages, NEW b \in PageBundles(p)
               PROVE  p \notin visible /\ shm[b] = "zero"
    BY DEF VisibleIsCode
  <2>1. b \in Bundles
    BY PageInText
  <2> QED
    BY <2>1 DEF Init
<1> QED
  BY <1>1, <1>2, <1>3, <1>4, <1>5 DEF TextInv

LEMMA SegmentType ==
  ASSUME TextInv, segnum <= Len(phdrs)
  PROVE  phdrs[segnum] \in Segment
<1>1. segnum \in 1 .. Len(phdrs) /\ phdrs \in Seq(Segment)
  BY DEF TextInv
<1> QED
  BY <1>1, ElementOfSeq

\* A step that may add a region and clear the cache, and writes nothing.
LEMMA NothingWritten ==
  ASSUME TextInv, RegionsOK', UNCHANGED <<phdrs, shm, visible>>, segnum' \in {segnum, segnum + 1},
         mapcache' \in {mapcache, NoCache},
         \A i \in DOMAIN regions : \E j \in DOMAIN regions' : regions'[j] = regions[i]
  PROVE  TextInv'
<1>1. (phdrs \in Seq(Segment))' /\ (segnum \in Nat \ {0})'
  BY DEF TextInv
<1>2. (shm \in [Bundles -> {"zero", "halt", "code"}])' /\ (visible \subseteq TextPages)'
  BY DEF TextInv
<1>3. (MapPages(mapcache) \subseteq visible)'
  <2>1. CASE mapcache' = mapcache
    BY <2>1 DEF TextInv, MapPages, Span
  <2>2. CASE mapcache' = NoCache
    <3>1. MapPages(mapcache') = {}
      BY <2>2, NoCacheNoPages
    <3>2. MapPages(mapcache)' = MapPages(mapcache')
      BY DEF MapPages
    <3> QED
      BY <3>1, <3>2
  <2> QED
    BY <2>1, <2>2
<1>4. VisibleIsCode'
  <2> SUFFICES ASSUME NEW p \in TextPages, NEW b \in PageBundles(p), p \in visible, shm[b] = "code"
               PROVE  \E j \in DOMAIN regions' : b \in Span(regions'[j].start, regions'[j].size)
    BY DEF TextInv, VisibleIsCode
  <2>1. PICK i \in DOMAIN regions : b \in Span(regions[i].start, regions[i].size)
    BY DEF TextInv, VisibleIsCode
  <2>2. PICK j \in DOMAIN regions' : regions'[j] = regions[i]
    OBVIOUS
  <2> QED
    BY <2>1, <2>2
<1> QED
  BY <1>1, <1>2, <1>3, <1>4 DEF TextInv

LEMMA TextLoaded ==
  ASSUME TextInv, LoadCode
  PROVE  TextInv'
<1> DEFINE h == phdrs[segnum]
           r == MapRange(h)
           new == NewPages(r)
<1>1. /\ segnum <= Len(phdrs) /\ ~DyncodeRefused(h) /\ h.filesz # 0
      /\ ~RegionInUse(h.vaddr, h.filesz)
      /\ regions' = WithRegion(h.vaddr, h.filesz)
      /\ visible' = visible \union new
      /\ shm' = [b \in Bundles |-> IF b \in Span(h.vaddr, h.filesz) THEN "code" ELSE Filled(new)[b]]
      /\ mapcache' = CacheLeft(r)
      /\ phdrs' = phdrs /\ segnum' = segnum + 1
  BY DEF LoadCode, CodeSegment, Advance
<1>2. h \in Segment
  BY <1>1, SegmentType
<1>3. h.vaddr \in Nat /\ h.filesz \in Nat \ {0}
  BY <1>1, <1>2 DEF Segment
<1> HIDE DEF h
<1>4. /\ MapPages(r) \subseteq TextPages
      /\ \A p \in TextPages : \A b \in PageBundles(p) : b \in Span(h.vaddr, h.filesz) => p \in MapPages(r)
      /\ \A b \in Span(h.vaddr, h.filesz) : b \in Bundles /\ b < DynEnd - HaltSled
  BY <1>1, <1>2, MapCovers
<1> HIDE DEF r
<1>5. new \subseteq TextPages /\ new \intersect visible = {} /\ MapPages(r) \subseteq visible'
  BY <1>1, <1>4 DEF TextInv, NewPages
<1> HIDE DEF new
<1>6. /\ RegionsOK'
      /\ \A i \in DOMAIN regions : \E j \in DOMAIN regions' : regions'[j] = regions[i]
      /\ \E j \in DOMAIN regions' : regions'[j] = [start |-> h.vaddr, size |-> h.filesz]
  <2>1. RegionsOK
    BY DEF TextInv
  <2> QED
    BY <1>1, <1>3, <2>1, InsertionKeeps
<1>7. \A b \in Bundles : shm'[b] = IF b \in Span(h.vaddr, h.filesz) THEN "code"
                                  ELSE IF \E p \in new : b \in PageBundles(p) THEN "halt" ELSE shm[b]
  BY <1>1 DEF Filled
<1>8. (shm \in [Bundles -> {"zero", "halt", "code"}])'
  <2>1. \A b \in Bundles : shm[b] \in {"zero", "halt", "code"}
    BY DEF TextInv
  <2>2. \A b \in Bundles : shm'[b] \in {"zero", "halt", "code"}
    BY <1>7, <2>1
  <2> QED
    BY <1>1, <2>2
<1>9. (MapPages(mapcache) \subseteq visible)'
  <2>1. MapPages(mapcache)' = MapPages(mapcache')
    BY DEF MapPages
  <2>2. mapcache' = r \/ mapcache' = NoCache
    BY <1>1 DEF CacheLeft
  <2> QED
    BY <1>5, <2>1, <2>2, NoCacheNoPages
<1>10. VisibleIsCode'
  <2> SUFFICES ASSUME NEW p \in TextPages, NEW b \in PageBundles(p)
               PROVE  IF p \in visible'
                      THEN /\ shm'[b] \in {"halt", "code"}
                           /\ shm'[b] = "code" =>
                                /\ \E j \in DOMAIN regions' : b \in Span(regions'[j].start, regions'[j].size)
                                /\ b < DynEnd - HaltSled
                      ELSE shm'[b] = "zero"
    BY DEF VisibleIsCode
  <2>1. b \in Bundles
    BY PageInText
  <2>2. CASE b \in Span(h.vaddr, h.filesz)
    <3>1. p \in visible' /\ shm'[b] = "code" /\ b < DynEnd - HaltSled
      BY <1>4, <1>5, <1>7, <2>1, <2>2
    <3>2. PICK j \in DOMAIN regions' : regions'[j] = [start |-> h.vaddr, size |-> h.filesz]
      BY <1>6
    <3>3. b \in Span(regions'[j].start, regions'[j].size)
      BY <2>2, <3>2
    <3> QED
      BY <3>1, <3>3
  <2>3. CASE b \notin Span(h.vaddr, h.filesz) /\ \E q \in new : b \in PageBundles(q)
    <3>1. PICK q \in new : b \in PageBundles(q)
      BY <2>3
    <3>2. p = q
      BY <1>5, <3>1, PageUnique
    <3>3. p \in visible' /\ shm'[b] = "halt"
      BY <1>1, <1>7, <2>1, <2>3, <3>1, <3>2
    <3> QED
      BY <3>3
  <2>4. CASE b \notin Span(h.vaddr, h.filesz) /\ ~ \E q \in new : b \in PageBundles(q)
    <3>1. p \notin new /\ shm'[b] = shm[b]
      BY <1>7, <2>1, <2>4
    <3>2. p \in visible' <=> p \in visible
      BY <1>1, <3>1
    <3>3. CASE p \in visible /\ shm[b] = "code"
      <4>1. /\ b < DynEnd - HaltSled
            /\ \E i \in DOMAIN regions : b \in Span(regions[i].start, regions[i].size)
        BY <3>3 DEF TextInv, VisibleIsCode
      <4>2. PICK i \in DOMAIN regions : b \in Span(regions[i].start, regions[i].size)
        BY <4>1
      <4>3. PICK j \in DOMAIN regions' : regions'[j] = regions[i]
        BY <1>6
      <4> QED
        BY <3>1, <3>2, <3>3, <4>1, <4>2, <4>3
    <3>4. CASE p \in visible /\ shm[b] # "code"
      BY <3>1, <3>2, <3>4 DEF TextInv, VisibleIsCode
    <3>5. CASE p \notin visible
      BY <3>1, <3>2, <3>5 DEF TextInv, VisibleIsCode
    <3> QED
      BY <3>3, <3>4, <3>5
  <2> QED
    BY <2>2, <2>3, <2>4
<1>11. (phdrs \in Seq(Segment))' /\ (segnum \in Nat \ {0})' /\ (visible \subseteq TextPages)'
  BY <1>1, <1>5 DEF TextInv
<1> QED
  BY <1>6, <1>8, <1>9, <1>10, <1>11 DEF TextInv

LEMMA TextStep == TextInv /\ [Next]_vars => TextInv'
<1> SUFFICES ASSUME TextInv, [Next]_vars PROVE TextInv'
  OBVIOUS
<1>1. ASSUME UNCHANGED <<phdrs, regions, shm, visible, mapcache>>, segnum' \in {segnum, segnum + 1}
      PROVE  TextInv'
  <2>1. RegionsOK'
    BY <1>1 DEF TextInv, RegionsOK, RegionsSorted
  <2>2. \A i \in DOMAIN regions : \E j \in DOMAIN regions' : regions'[j] = regions[i]
    BY <1>1
  <2> QED
    BY <1>1, <2>1, <2>2, NothingWritten
<1>2. ASSUME CodeNotLoaded \/ CodeAborts PROVE TextInv'
  <2> DEFINE h == phdrs[segnum]
  <2>1. /\ segnum <= Len(phdrs) /\ h.filesz # 0 /\ ~RegionInUse(h.vaddr, h.filesz)
        /\ regions' = WithRegion(h.vaddr, h.filesz)
        /\ UNCHANGED <<phdrs, shm, visible, segnum>>
        /\ mapcache' \in {mapcache, NoCache}
    BY <1>2 DEF CodeNotLoaded, CodeAborts, CodeSegment, Finish
  <2>2. h \in Segment
    BY <2>1, SegmentType
  <2>3. h.vaddr \in Nat /\ h.filesz \in Nat \ {0}
    BY <2>1, <2>2 DEF Segment
  <2>4. RegionsOK
    BY DEF TextInv
  <2> HIDE DEF h
  <2>5. /\ RegionsOK'
        /\ \A i \in DOMAIN regions : \E j \in DOMAIN regions' : regions'[j] = regions[i]
    BY <2>1, <2>3, <2>4, InsertionKeeps
  <2> QED
    BY <2>1, <2>5, NothingWritten
<1>3. ASSUME RefuseCode \/ EmptyCode \/ SkipSegment PROVE TextInv'
  BY <1>1, <1>3 DEF RefuseCode, EmptyCode, SkipSegment, Finish, Advance
<1>4. ASSUME MisplaceData \/ DataNotLoaded \/ DataAborts \/ LoadData \/ EntryPoint PROVE TextInv'
  BY <1>1, <1>4 DEF MisplaceData, DataNotLoaded, DataAborts, LoadData, EntryPoint, Finish, Advance
<1>5. ASSUME UNCHANGED vars PROVE TextInv'
  BY <1>1, <1>5 DEF vars
<1> QED
  BY <1>2, <1>3, <1>4, <1>5, TextLoaded DEF Next

LEMMA TextKept == Spec => []TextInv
BY TextStart, TextStep, PTL DEF Spec

\* The array of regions stays sorted and without overlaps, whatever segments a
\* blob has and wherever loading it fails: NaClDynamicRegionCreate looks at one
\* neighbour only, the one the binary search finds.
THEOREM RegionsStaySorted == Spec => []RegionsSorted
<1>1. TextInv => RegionsSorted
  BY DEF TextInv, RegionsOK
<1> QED
  BY <1>1, TextKept, PTL

\* The binary search with its linear end finds the last region at or below the
\* address, for every number of regions and every cutoff.
THEOREM SearchIsExact == Spec => []SearchExact
<1>1. TextInv => SearchExact
  <2> SUFFICES ASSUME TextInv, NEW ptr \in Bundles
               PROVE  LET r == FindClosestLEQ(ptr)
                      IN  /\ r # 0 => regions[r].start <= ptr
                          /\ \A i \in DOMAIN regions : i > r => regions[i].start > ptr
    BY DEF SearchExact
  <2>1. ptr \in Nat /\ RegionsOK
    BY DynTextAssumption DEF Bundles, TextInv
  <2>2. LastUpTo(ptr, FindClosestLEQ(ptr))
    BY <2>1, FindExact
  <2> QED
    BY <2>2 DEF LastUpTo
<1> QED
  BY <1>1, TextKept, PTL

\* Visible pages hold halts and code of the regions, the last halts stay, and no
\* other page was ever written, for every blob, page size and dynamic text.
THEOREM OnlyCodeIsVisible == Spec => []VisibleIsCode
<1>1. TextInv => VisibleIsCode
  BY DEF TextInv
<1> QED
  BY <1>1, TextKept, PTL

-----------------------------------------------------------------------------
(* The blob as a whole.                                                   *)

Loaded(i) ==
  /\ phdrs[i].kind = "code" =>
       \A b \in Span(phdrs[i].vaddr, phdrs[i].filesz) : b \in Bundles /\ shm[b] = "code"
  /\ phdrs[i].kind \in {"data", "rodata"} =>
       \A p \in DataPages(phdrs[i]) : p \in Pages /\ mapped[p] = i

\* The segments behind segnum are loaded and stay so, and so do the program's pages.
WholeInv ==
  /\ mapped \in [Pages -> Int]
  /\ \A p \in UsedPages : mapped[p] = 0
  /\ \A i \in DOMAIN phdrs : i < segnum => Loaded(i)
  /\ pc = "done" => segnum > Len(phdrs)

LEMMA WholeStart == Init => WholeInv
<1> SUFFICES ASSUME Init PROVE WholeInv
  OBVIOUS
<1>1. UsedPages \subseteq Pages
  BY DynTextAssumption DEF Pages
<1>2. mapped \in [Pages -> Int] /\ \A p \in UsedPages : mapped[p] = 0
  BY <1>1 DEF Init
<1>3. phdrs \in Seq(Segment) /\ segnum = 1 /\ pc # "done"
  BY DynTextAssumption DEF Init
<1>4. \A i \in DOMAIN phdrs : ~(i < segnum)
  BY <1>3
<1> QED
  BY <1>2, <1>3, <1>4 DEF WholeInv

\* What a step that claims only free pages, and writes no code, keeps.
LEMMA LoadedKept ==
  ASSUME TextInv, WholeInv, UNCHANGED <<phdrs, shm>>,
         NEW pages, pages \subseteq Pages, FreePages(pages), mapped' \in {mapped, Claimed(pages)}
  PROVE  /\ mapped' \in [Pages -> Int]
         /\ \A p \in UsedPages : mapped'[p] = 0
         /\ \A i \in DOMAIN phdrs : i < segnum => Loaded(i)'
<1>1. segnum \in Int /\ UsedPages \subseteq Pages /\ mapped \in [Pages -> Int]
  BY DynTextAssumption DEF TextInv, WholeInv, Pages
<1>2. mapped' \in [Pages -> Int]
  BY <1>1 DEF Claimed
<1>3. \A p \in Pages : mapped[p] # -1 => mapped'[p] = mapped[p]
  BY <1>1 DEF FreePages, Claimed
<1>4. \A p \in UsedPages : mapped'[p] = 0
  <2> SUFFICES ASSUME NEW p \in UsedPages PROVE mapped'[p] = 0
    OBVIOUS
  <2>1. mapped[p] = 0
    BY DEF WholeInv
  <2> QED
    BY <1>1, <1>3, <2>1
<1>5. ASSUME NEW i \in DOMAIN phdrs, i < segnum PROVE Loaded(i)'
  <2>1. Loaded(i) /\ i \in Nat
    BY <1>5 DEF WholeInv, TextInv
  <2>2. \A p \in Pages : mapped[p] = i => mapped'[p] = i
    BY <1>3, <2>1
  <2>3. DataPages(phdrs[i])' = DataPages(phdrs[i])
    BY DEF DataPages
  <2> QED
    BY <2>1, <2>2, <2>3 DEF Loaded
<1> QED
  BY <1>2, <1>4, <1>5

\* The new code leaves the code of earlier segments alone: the pages it fills were
\* not visible, and hold none.
LEMMA CodeKept ==
  ASSUME TextInv, WholeInv, LoadCode
  PROVE  \A i \in DOMAIN phdrs : i <= segnum => Loaded(i)'
<1> DEFINE h == phdrs[segnum]
           new == NewPages(MapRange(h))
<1>1. /\ segnum <= Len(phdrs) /\ ~DyncodeRefused(h) /\ h.filesz # 0 /\ h.kind = "code"
      /\ shm' = [b \in Bundles |-> IF b \in Span(h.vaddr, h.filesz) THEN "code" ELSE Filled(new)[b]]
      /\ phdrs' = phdrs /\ mapped' = mapped
  BY DEF LoadCode, CodeSegment, Advance
<1>2. h \in Segment
  BY <1>1, SegmentType
<1>3. /\ MapPages(MapRange(h)) \subseteq TextPages
      /\ \A b \in Span(h.vaddr, h.filesz) : b \in Bundles
  <2> HIDE DEF h
  <2> QED
    BY <1>1, <1>2, MapCovers
<1>4. new \subseteq TextPages /\ new \intersect visible \subseteq {}
  BY <1>3 DEF NewPages
<1>5. \A b \in Bundles : shm'[b] = IF b \in Span(h.vaddr, h.filesz) THEN "code"
                                  ELSE IF \E p \in new : b \in PageBundles(p) THEN "halt" ELSE shm[b]
  BY <1>1 DEF Filled
<1> HIDE DEF new
<1>6. \A b \in Bundles : shm[b] = "code" => shm'[b] = "code"
  <2> SUFFICES ASSUME NEW b \in Bundles, shm[b] = "code", NEW p \in new, b \in PageBundles(p)
               PROVE  FALSE
    BY <1>5
  <2>1. p \in TextPages /\ p \notin visible
    BY <1>4
  <2>2. shm[b] = "zero"
    BY <2>1 DEF TextInv, VisibleIsCode
  <2> QED
    BY <2>2
<1>7. ASSUME NEW i \in DOMAIN phdrs, i < segnum PROVE Loaded(i)'
  <2>1. Loaded(i)
    BY <1>7 DEF WholeInv
  <2>2. DataPages(phdrs[i])' = DataPages(phdrs[i])
    BY <1>1 DEF DataPages
  <2> QED
    BY <1>1, <1>6, <2>1, <2>2 DEF Loaded
<1>8. ASSUME NEW i \in DOMAIN phdrs, i = segnum PROVE Loaded(i)'
  <2>1. phdrs'[i] = h
    BY <1>1, <1>8
  <2> HIDE DEF h
  <2> QED
    BY <1>1, <1>3, <1>5, <2>1 DEF Loaded
<1>9. \A i \in DOMAIN phdrs : i <= segnum => i < segnum \/ i = segnum
  BY DEF TextInv
<1> QED
  BY <1>7, <1>8, <1>9

LEMMA WholeStep == TextInv /\ WholeInv /\ [Next]_vars => WholeInv'
<1> SUFFICES ASSUME TextInv, WholeInv, [Next]_vars PROVE WholeInv'
  OBVIOUS
<1>1. /\ DOMAIN phdrs = 1 .. Len(phdrs) /\ Len(phdrs) \in Nat /\ segnum \in Nat \ {0}
      /\ \A i \in DOMAIN phdrs : i < segnum + 1 <=> i < segnum \/ i = segnum
  BY DEF TextInv
<1>2. FreePages({}) /\ {} \subseteq Pages
  BY DEF FreePages
<1>3. ASSUME UNCHANGED <<phdrs, segnum, shm>>,
             NEW pages, pages \subseteq Pages, FreePages(pages), mapped' \in {mapped, Claimed(pages)},
             pc' = "done" => segnum > Len(phdrs)
      PROVE  WholeInv'
  <2>1. /\ mapped' \in [Pages -> Int]
        /\ \A p \in UsedPages : mapped'[p] = 0
        /\ \A i \in DOMAIN phdrs : i < segnum => Loaded(i)'
    BY <1>3, LoadedKept
  <2> QED
    BY <1>3, <2>1 DEF WholeInv
<1>4. ASSUME UNCHANGED <<phdrs, shm, pc>>, segnum' = segnum + 1, pc = "loading",
             NEW pages, pages \subseteq Pages, FreePages(pages), mapped' \in {mapped, Claimed(pages)},
             \A i \in DOMAIN phdrs : i = segnum => Loaded(i)'
      PROVE  WholeInv'
  <2>1. /\ mapped' \in [Pages -> Int]
        /\ \A p \in UsedPages : mapped'[p] = 0
        /\ \A i \in DOMAIN phdrs : i < segnum => Loaded(i)'
    BY <1>4, LoadedKept
  <2>2. \A i \in DOMAIN phdrs : i < segnum' => Loaded(i)'
    BY <1>1, <1>4, <2>1
  <2>3. phdrs' = phdrs /\ pc' # "done"
    BY <1>4
  <2> QED
    BY <2>1, <2>2, <2>3 DEF WholeInv
<1>5. ASSUME RefuseCode \/ CodeNotLoaded \/ CodeAborts PROVE WholeInv'
  <2>1. UNCHANGED <<phdrs, segnum, shm, mapped>> /\ pc' # "done"
    BY <1>5 DEF RefuseCode, CodeNotLoaded, CodeAborts, Finish
  <2> QED
    BY <1>2, <1>3, <2>1
<1>6. ASSUME DataAborts PROVE WholeInv'
  <2>1. UNCHANGED <<phdrs, segnum, shm, mapped>> /\ pc' # "done"
    BY <1>6 DEF DataAborts, Finish
  <2> QED
    BY <1>2, <1>3, <2>1
<1>7. ASSUME EntryPoint PROVE WholeInv'
  <2>1. UNCHANGED <<phdrs, segnum, shm, mapped>> /\ segnum > Len(phdrs)
    BY <1>7 DEF EntryPoint, Finish
  <2> QED
    BY <1>2, <1>3, <2>1
<1>8. ASSUME EmptyCode PROVE WholeInv'
  <2>1. /\ UNCHANGED <<phdrs, shm, pc, mapped>> /\ segnum' = segnum + 1 /\ pc = "loading"
        /\ phdrs[segnum].kind = "code" /\ phdrs[segnum].filesz = 0 /\ segnum <= Len(phdrs)
    BY <1>8 DEF EmptyCode, CodeSegment, Advance
  <2>2. phdrs[segnum] \in Segment
    BY <2>1, SegmentType
  <2>3. Span(phdrs[segnum].vaddr, phdrs[segnum].filesz) = {}
    BY <2>1, <2>2 DEF Span, Segment
  <2>4. \A i \in DOMAIN phdrs : i = segnum => Loaded(i)'
    BY <2>1, <2>3 DEF Loaded
  <2> QED
    BY <1>2, <1>4, <2>1, <2>4
<1>9. ASSUME SkipSegment PROVE WholeInv'
  <2>1. /\ UNCHANGED <<phdrs, shm, pc, mapped>> /\ segnum' = segnum + 1 /\ pc = "loading"
        /\ phdrs[segnum].kind = "other"
    BY <1>9 DEF SkipSegment, Advance
  <2>2. \A i \in DOMAIN phdrs : i = segnum => Loaded(i)'
    BY <2>1 DEF Loaded
  <2> QED
    BY <1>2, <1>4, <2>1, <2>2
<1>10. ASSUME MisplaceData PROVE WholeInv'
  <2>1. UNCHANGED <<phdrs, segnum, shm>> /\ pc' # "done"
    BY <1>10 DEF MisplaceData, Finish
  <2>2. \/ mapped' = mapped
        \/ \E pages : FreePages(pages) /\ mapped' = Claimed(pages)
    BY <1>10 DEF MisplaceData
  <2>3. \A pages : FreePages(pages) => pages \subseteq Pages
    BY DEF FreePages
  <2> QED
    BY <1>2, <1>3, <2>1, <2>2, <2>3
<1>11. ASSUME DataNotLoaded PROVE WholeInv'
  <2>1. UNCHANGED <<phdrs, segnum, shm>> /\ pc' # "done"
    BY <1>11 DEF DataNotLoaded, Finish
  <2>2. \/ mapped' = mapped
        \/ \E pages : FreePages(pages) /\ mapped' = Claimed(pages)
    BY <1>11 DEF DataNotLoaded, AtHint
  <2>3. \A pages : FreePages(pages) => pages \subseteq Pages
    BY DEF FreePages
  <2> QED
    BY <1>2, <1>3, <2>1, <2>2, <2>3
<1>12. ASSUME LoadData PROVE WholeInv'
  <2> DEFINE pages == DataPages(phdrs[segnum])
  <2>1. /\ UNCHANGED <<phdrs, shm, pc>> /\ segnum' = segnum + 1 /\ pc = "loading"
        /\ FreePages(pages) /\ mapped' = Claimed(pages)
        /\ phdrs[segnum].kind \in {"data", "rodata"}
    BY <1>12 DEF LoadData, DataSegment, AtHint, Advance
  <2>2. pages \subseteq Pages
    BY <2>1 DEF FreePages
  <2>3. \A p \in pages : p \in Pages /\ mapped'[p] = segnum
    BY <2>1, <2>2 DEF Claimed
  <2>4. ASSUME NEW i \in DOMAIN phdrs, i = segnum PROVE Loaded(i)'
    <3>1. phdrs'[i] = phdrs[segnum] /\ DataPages(phdrs[i])' = pages
      BY <2>1, <2>4 DEF DataPages
    <3>2. phdrs'[i].kind # "code"
      BY <2>1, <3>1
    <3> HIDE DEF pages
    <3> QED
      BY <2>3, <2>4, <3>1, <3>2 DEF Loaded
  <2> HIDE DEF pages
  <2> QED
    BY <1>4, <2>1, <2>2, <2>4
<1>13. ASSUME LoadCode PROVE WholeInv'
  <2>1. /\ UNCHANGED <<phdrs, pc, mapped>> /\ segnum' = segnum + 1 /\ pc = "loading"
    BY <1>13 DEF LoadCode, CodeSegment, Advance
  <2>2. \A i \in DOMAIN phdrs : i <= segnum => Loaded(i)'
    BY <1>13, CodeKept
  <2>3. \A i \in DOMAIN phdrs : i < segnum' => Loaded(i)'
    BY <1>1, <2>1, <2>2
  <2>4. (mapped \in [Pages -> Int])' /\ (\A p \in UsedPages : mapped[p] = 0)'
    BY <2>1 DEF WholeInv
  <2>5. phdrs' = phdrs /\ pc' # "done"
    BY <2>1
  <2> QED
    BY <2>3, <2>4, <2>5 DEF WholeInv
<1>14. ASSUME UNCHANGED vars PROVE WholeInv'
  <2>1. UNCHANGED <<phdrs, segnum, shm, mapped, pc>>
    BY <1>14 DEF vars
  <2>2. pc' = "done" => segnum > Len(phdrs)
    BY <2>1 DEF WholeInv
  <2> QED
    BY <1>2, <1>3, <2>1, <2>2
<1> QED
  BY <1>5, <1>6, <1>7, <1>8, <1>9, <1>10, <1>11, <1>12, <1>13, <1>14 DEF Next

\* When NaClAppLoadFileDynamically succeeds, every code segment is in the dynamic
\* text, every data segment has the pages it asked for, and the program has kept
\* its own, for every blob: no later segment disturbs an earlier one.
THEOREM BlobIsWhole == Spec => []LoadedWhole
<1>1. TextInv /\ WholeInv => LoadedWhole
  <2> SUFFICES ASSUME TextInv, WholeInv, pc = "done" PROVE LoadedWhole
    BY DEF LoadedWhole
  <2>1. \A i \in DOMAIN phdrs : i < segnum
    BY DEF TextInv, WholeInv
  <2>2. \A i \in DOMAIN phdrs : Loaded(i)
    BY <2>1 DEF WholeInv
  <2> QED
    BY <2>2 DEF LoadedWhole, WholeInv, Loaded
<1> QED
  BY <1>1, WholeStart, WholeStep, TextKept, PTL DEF Spec
=============================================================================
