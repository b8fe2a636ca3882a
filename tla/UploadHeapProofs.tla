--------------------------- MODULE UploadHeapProofs ---------------------------
(***************************************************************************)
(* Proofs about UploadHeap: for any sizes, alignment and chunk sizes, an   *)
(* upload overwrites no data the GPU has still to copy.                    *)
(***************************************************************************)
EXTENDS UploadHeap, NaturalsInduction, WellFoundedInduction, SequenceTheorems,
        FiniteSetTheorems, TLAPS

\* A set of numbers has a least one.
LEMMA LeastNumber ==
  ASSUME NEW S \in SUBSET Nat, S # {}
  PROVE  Min(S) \in S /\ \A m \in S : Min(S) <= m
<1>1. PICK n \in S : \A m \in S : ~(<<m, n>> \in OpToRel(<, Nat))
  BY NatLessThanWellFounded, WFMin
<1>2. \A m \in S : ~(m < n)
  BY <1>1 DEF OpToRel
<1>3. \A m \in S : n <= m
  BY <1>2
<1>4. \E k \in S : \A m \in S : k <= m
  BY <1>3
<1> QED
  BY <1>4 DEF Min

\* Rounding up to the alignment.
LEMMA AlignUp ==
  ASSUME NEW x \in Nat
  PROVE  Align(x) \in Nat /\ x <= Align(x)
<1> DEFINE A == Alignment
           q == (x + A - 1) \div A
           r == (x + A - 1) % A
<1>1. A \in Nat /\ A > 0
  BY ChunkAssumption
<1>2. q \in Nat /\ r \in 0 .. A - 1 /\ x + A - 1 = A * q + r
  BY <1>1
<1>3. q * A \in Nat /\ q * A = A * q
  BY <1>1, <1>2
<1> QED
  BY <1>1, <1>2, <1>3 DEF Align

\* The running total of the capacities.
IsTotal(g, cs, m) ==
  /\ DOMAIN g = 0 .. m
  /\ \A n \in 0 .. m : g[n] = IF n = 0 THEN 0 ELSE g[n - 1] + cs[n].capacity

\* A running total exists, up to any chunk.
LEMMA TotalExists ==
  ASSUME NEW cs, NEW m \in Nat
  PROVE  \E g : IsTotal(g, cs, m)
<1> DEFINE Without == {n \in Nat : ~\E g : IsTotal(g, cs, n)}
<1> SUFFICES ASSUME Without # {} PROVE FALSE
  OBVIOUS
<1> HIDE DEF Without
<1>1. PICK l \in Without : \A k \in Without : l <= k
  <2>1. Without \in SUBSET Nat
    BY DEF Without
  <2> QED
    BY <2>1, LeastNumber
<1>2. PICK n \in Nat : (~\E g : IsTotal(g, cs, n)) /\ \A k \in Nat : k < n => \E g : IsTotal(g, cs, k)
  <2>1. l \in Nat /\ ~\E g : IsTotal(g, cs, l)
    BY DEF Without
  <2>2. ASSUME NEW k \in Nat, k < l PROVE \E g : IsTotal(g, cs, k)
    <3>1. k \notin Without
      BY <1>1, <2>1, <2>2
    <3> QED
      BY <3>1 DEF Without
  <2> QED
    BY <2>1, <2>2
<1>3. CASE n = 0
  <2>1. IsTotal([k \in 0 .. 0 |-> 0], cs, 0)
    BY DEF IsTotal
  <2> QED
    BY <1>2, <1>3, <2>1
<1>4. CASE n # 0
  <2>1. n - 1 \in Nat /\ n - 1 < n
    BY <1>4
  <2>2. PICK g : IsTotal(g, cs, n - 1)
    BY <1>2, <2>1
  <2> DEFINE h == [k \in 0 .. n |-> IF k = n THEN g[n - 1] + cs[n].capacity ELSE g[k]]
  <2>3. \A k \in 0 .. n : h[k] = IF k = 0 THEN 0 ELSE h[k - 1] + cs[k].capacity
    <3> SUFFICES ASSUME NEW k \in 0 .. n
                 PROVE  h[k] = IF k = 0 THEN 0 ELSE h[k - 1] + cs[k].capacity
      OBVIOUS
    <3>1. CASE k = n
      <4>1. k # 0 /\ k - 1 \in 0 .. n /\ k - 1 # n
        BY <2>1, <3>1, <1>4
      <4> QED
        BY <3>1, <4>1
    <3>2. CASE k # n
      <4>1. k \in 0 .. n - 1
        BY <3>2, <2>1
      <4>2. h[k] = g[k] /\ (k # 0 => k - 1 \in 0 .. n /\ h[k - 1] = g[k - 1])
        BY <3>2, <4>1
      <4> QED
        BY <2>2, <4>1, <4>2 DEF IsTotal
    <3> QED
      BY <3>1, <3>2
  <2>4. DOMAIN h = 0 .. n
    OBVIOUS
  <2> HIDE DEF h
  <2>5. IsTotal(h, cs, n)
    BY <2>3, <2>4 DEF IsTotal
  <2> QED
    BY <1>2, <2>5
<1> QED
  BY <1>3, <1>4

\* Two sequences whose capacities agree have the same running totals.
LEMMA TotalsAgree ==
  ASSUME NEW cs, NEW ds, NEW m \in Nat, NEW g, NEW h, NEW k, IsTotal(g, cs, m),
         k \in Nat, m <= k, IsTotal(h, ds, k),
         \A i \in 1 .. m : ds[i].capacity = cs[i].capacity
  PROVE  \A n \in 0 .. m : h[n] = g[n]
<1> DEFINE Apart == {n \in 0 .. m : h[n] # g[n]}
<1> SUFFICES ASSUME Apart # {} PROVE FALSE
  OBVIOUS
<1>1. Apart \in SUBSET Nat
  OBVIOUS
<1>2. Min(Apart) \in Apart /\ \A n \in Apart : Min(Apart) <= n
  BY <1>1, LeastNumber
<1>3. PICK n \in 0 .. m : h[n] # g[n] /\ \A l \in 0 .. m : l < n => h[l] = g[l]
  BY <1>2
<1>4. CASE n = 0
  BY <1>3, <1>4 DEF IsTotal
<1>5. CASE n # 0
  <2>1. n \in 1 .. m /\ n - 1 \in 0 .. m /\ n - 1 < n /\ n \in 0 .. k
    BY <1>5
  <2>2. g[n] = g[n - 1] + cs[n].capacity /\ h[n] = h[n - 1] + ds[n].capacity
    BY <1>5, <2>1 DEF IsTotal
  <2> QED
    BY <1>3, <2>1, <2>2
<1> QED
  BY <1>4, <1>5

\* The capacity is the last running total.
LEMMA CapacityTotal ==
  ASSUME NEW cs, Len(cs) \in Nat
  PROVE  \E g : IsTotal(g, cs, Len(cs)) /\ Capacity(cs) = g[Len(cs)]
<1> DEFINE total == CHOOSE g :
             g = [n \in 0 .. Len(cs) |-> IF n = 0 THEN 0 ELSE g[n - 1] + cs[n].capacity]
<1>1. Capacity(cs) = total[Len(cs)]
  BY DEF Capacity
<1>2. PICK g : IsTotal(g, cs, Len(cs))
  BY TotalExists
<1>3. \E h : h = [n \in 0 .. Len(cs) |-> IF n = 0 THEN 0 ELSE h[n - 1] + cs[n].capacity]
  <2>1. [n \in 0 .. Len(cs) |-> g[n]]
          = [n \in 0 .. Len(cs) |-> IF n = 0 THEN 0
                ELSE [l \in 0 .. Len(cs) |-> g[l]][n - 1] + cs[n].capacity]
    BY <1>2 DEF IsTotal
  <2> QED
    BY <2>1
<1>4. total = [n \in 0 .. Len(cs) |-> IF n = 0 THEN 0 ELSE total[n - 1] + cs[n].capacity]
  BY <1>3
<1> HIDE DEF total
<1>5. IsTotal(total, cs, Len(cs))
  BY <1>4 DEF IsTotal
<1> QED
  BY <1>1, <1>5

\* Without chunks there is no capacity.
LEMMA EmptySum == Capacity(<<>>) = 0
<1>1. Len(<<>>) = 0
  OBVIOUS
<1> QED
  BY <1>1, CapacityTotal DEF IsTotal

\* Numbers add up to a number.
LEMMA SumIsNumber ==
  ASSUME NEW cs \in Seq(Chunk)
  PROVE  Capacity(cs) \in Nat
<1>1. Len(cs) \in Nat /\ \A i \in 1 .. Len(cs) : cs[i].capacity \in Nat
  <2>1. \A i \in 1 .. Len(cs) : cs[i] \in Chunk
    OBVIOUS
  <2> QED
    BY <2>1 DEF Chunk
<1>2. PICK g : IsTotal(g, cs, Len(cs)) /\ Capacity(cs) = g[Len(cs)]
  BY <1>1, CapacityTotal
<1> DEFINE Odd == {n \in 0 .. Len(cs) : g[n] \notin Nat}
<1>3. ASSUME Odd # {} PROVE FALSE
  <2>1. Odd \in SUBSET Nat
    OBVIOUS
  <2>0. Min(Odd) \in Odd /\ \A l \in Odd : Min(Odd) <= l
    BY <1>3, <2>1, LeastNumber
  <2>2. PICK n \in 0 .. Len(cs) : g[n] \notin Nat /\ \A l \in 0 .. Len(cs) : l < n => g[l] \in Nat
    BY <2>0
  <2>3. n # 0
    BY <1>2, <2>2 DEF IsTotal
  <2>4. n \in 1 .. Len(cs) /\ n - 1 \in 0 .. Len(cs) /\ n - 1 < n
    BY <2>3
  <2>5. g[n] = g[n - 1] + cs[n].capacity
    BY <1>2, <2>3 DEF IsTotal
  <2> QED
    BY <1>1, <2>2, <2>4, <2>5
<1> QED
  BY <1>1, <1>2, <1>3

\* Chunks of the same capacities have the same sum; one more chunk adds its capacity.
LEMMA SameSum ==
  ASSUME NEW cs, NEW ds, Len(cs) \in Nat, Len(ds) = Len(cs),
         \A i \in 1 .. Len(cs) : ds[i].capacity = cs[i].capacity
  PROVE  Capacity(ds) = Capacity(cs)
<1>1. PICK g : IsTotal(g, cs, Len(cs)) /\ Capacity(cs) = g[Len(cs)]
  BY CapacityTotal
<1>2. PICK h : IsTotal(h, ds, Len(cs)) /\ Capacity(ds) = h[Len(cs)]
  BY CapacityTotal
<1>3. h[Len(cs)] = g[Len(cs)]
  <2>1. Len(cs) <= Len(cs)
    OBVIOUS
  <2>2. \A n \in 0 .. Len(cs) : h[n] = g[n]
    BY ONLY Len(cs) \in Nat, <1>1, <1>2, <2>1, TotalsAgree,
            \A i \in 1 .. Len(cs) : ds[i].capacity = cs[i].capacity
  <2> QED
    BY <2>2
<1> QED
  BY <1>1, <1>2, <1>3

LEMMA LongerSum ==
  ASSUME NEW cs, NEW ds, Len(cs) \in Nat, Len(ds) = Len(cs) + 1,
         \A i \in 1 .. Len(cs) : ds[i].capacity = cs[i].capacity
  PROVE  Capacity(ds) = Capacity(cs) + ds[Len(ds)].capacity
<1>1. PICK g : IsTotal(g, cs, Len(cs)) /\ Capacity(cs) = g[Len(cs)]
  BY CapacityTotal
<1>2. PICK h : IsTotal(h, ds, Len(cs) + 1) /\ Capacity(ds) = h[Len(cs) + 1]
  BY CapacityTotal
<1>3. h[Len(cs)] = g[Len(cs)]
  <2>1. \A n \in 0 .. Len(cs) : h[n] = g[n]
    BY <1>1, <1>2, TotalsAgree
  <2> QED
    BY <2>1
<1>4. h[Len(cs) + 1] = h[Len(cs)] + ds[Len(cs) + 1].capacity
  <2>1. Len(cs) + 1 \in 0 .. Len(cs) + 1 /\ Len(cs) + 1 # 0 /\ (Len(cs) + 1) - 1 = Len(cs)
    OBVIOUS
  <2> QED
    BY <1>2, <2>1 DEF IsTotal
<1> QED
  BY <1>1, <1>2, <1>3, <1>4

-----------------------------------------------------------------------------
(* The ring of one chunk *)

\* Allocations are not empty.
LEMMA EndOf ==
  ASSUME NEW a \in Allocation
  PROVE  a.offset \in Nat /\ End(a) \in Nat /\ a.offset < End(a)
<1>1. a.offset \in Nat /\ a.size \in Sizes
  BY DEF Allocation
<1>2. a.size \in Nat /\ a.size > 0
  <2>1. \A s \in Sizes : s \in Nat /\ s > 0
    BY SizesAssumption
  <2> QED
    BY <1>1, <2>1
<1> QED
  BY <1>1, <1>2 DEF End

\* The allocations of a chunk, oldest first: from one of them on they have wrapped
\* round, and lie in order before the older ones, which lie in order.
Wrapped(a, w) ==
  \A i, j \in 1 .. Len(a) : i < j =>
    IF i <= w /\ w < j THEN End(a[j]) <= a[i].offset ELSE End(a[i]) <= a[j].offset

Ring(a) == \E w \in 0 .. Len(a) : Wrapped(a, w)

\* Reclaiming drops allocations from the front, and only executed ones.
LEMMA Reclaimed ==
  ASSUME NEW a \in Seq(Allocation), completed \in Nat
  PROVE  /\ AllocationsInUse(a) \in Seq(Allocation)
         /\ Ring(a) => Ring(AllocationsInUse(a))
         /\ \A k \in 1 .. Len(AllocationsInUse(a)) : \E l \in 1 .. Len(a) : AllocationsInUse(a)[k] = a[l]
         /\ \A l \in 1 .. Len(a) : a[l].fence > completed =>
              \E k \in 1 .. Len(AllocationsInUse(a)) : AllocationsInUse(a)[k] = a[l]
         /\ (\A l \in 1 .. Len(a) : ~(a[l].fence > completed)) => AllocationsInUse(a) = <<>>
<1> DEFINE S == {i \in DOMAIN a : a[i].fence > completed} \cup {Len(a) + 1}
           m == Min(S)
           s == SubSeq(a, m, Len(a))
<1>1. /\ Len(a) \in Nat /\ DOMAIN a = 1 .. Len(a)
      /\ \A i \in 1 .. Len(a) : a[i] \in Allocation
  OBVIOUS
<1>2. S \in SUBSET Nat /\ Len(a) + 1 \in S
  BY <1>1
<1>3. m \in S /\ \A i \in S : m <= i
  BY <1>2, LeastNumber
<1>4. AllocationsInUse(a) = s
  BY DEF AllocationsInUse
<1>5. m \in 1 .. Len(a) + 1
  BY <1>1, <1>3
<1>6. \A l \in 1 .. Len(a) : a[l].fence > completed => m <= l
  BY <1>1, <1>3
<1>7. (\A l \in 1 .. Len(a) : ~(a[l].fence > completed)) => m = Len(a) + 1
  BY <1>1, <1>3
<1> HIDE DEF m, S
<1>8. /\ s \in Seq(Allocation)
      /\ Len(s) = Len(a) - m + 1
      /\ \A i \in 1 .. Len(a) - m + 1 : s[i] = a[m + i - 1]
  <2>1. m \in Int /\ Len(a) \in Int /\ \A i \in m .. Len(a) : a[i] \in Allocation
    BY <1>1, <1>5
  <2>2. /\ s \in Seq(Allocation)
        /\ Len(s) = IF m <= Len(a) THEN Len(a) - m + 1 ELSE 0
        /\ \A i \in 1 .. Len(a) - m + 1 : s[i] = a[m + i - 1]
    BY <2>1, SubSeqProperties
  <2> QED
    BY <2>2, <1>1, <1>5
<1> HIDE DEF s
<1>9. ASSUME Ring(a) PROVE Ring(s)
  <2>1. PICK w \in 0 .. Len(a) : Wrapped(a, w)
    BY <1>9 DEF Ring
  <2>0. ASSUME NEW i \in 1 .. Len(s), NEW j \in 1 .. Len(s), i < j
        PROVE  IF m + i - 1 <= w /\ w < m + j - 1
               THEN End(s[j]) <= s[i].offset ELSE End(s[i]) <= s[j].offset
    <3> DEFINE x == m + i - 1
               y == m + j - 1
    <3>1. /\ i \in Int /\ j \in Int /\ x \in 1 .. Len(a) /\ y \in 1 .. Len(a) /\ x < y
          /\ s[i] = a[x] /\ s[j] = a[y]
      BY <1>1, <1>5, <1>8, <2>0
    <3> HIDE DEF x, y
    <3>2. IF x <= w /\ w < y THEN End(a[y]) <= a[x].offset ELSE End(a[x]) <= a[y].offset
      BY <2>1, <3>1 DEF Wrapped
    <3>3. IF x <= w /\ w < y THEN End(s[j]) <= s[i].offset ELSE End(s[i]) <= s[j].offset
      BY <3>1, <3>2
    <3> QED
      BY <3>3 DEF x, y
  <2>2. CASE w < m
    <3>1. Wrapped(s, 0)
      <4> SUFFICES ASSUME NEW i \in 1 .. Len(s), NEW j \in 1 .. Len(s), i < j
                   PROVE  ~(i <= 0) /\ End(s[i]) <= s[j].offset
        BY DEF Wrapped
      <4>1. ~(m + i - 1 <= w) /\ ~(i <= 0)
        BY <1>1, <1>5, <1>8, <2>2
      <4> QED
        BY <2>0, <4>1
    <3> QED
      BY <3>1, <1>1, <1>5, <1>8 DEF Ring
  <2>3. CASE w >= m
    <3>1. Wrapped(s, w - m + 1)
      <4> SUFFICES ASSUME NEW i \in 1 .. Len(s), NEW j \in 1 .. Len(s), i < j
                   PROVE  IF i <= w - m + 1 /\ w - m + 1 < j
                          THEN End(s[j]) <= s[i].offset ELSE End(s[i]) <= s[j].offset
        BY DEF Wrapped
      <4>1. (m + i - 1 <= w <=> i <= w - m + 1) /\ (w < m + j - 1 <=> w - m + 1 < j)
        BY <1>1, <1>5, <1>8, <2>3
      <4> QED
        BY <2>0, <4>1
    <3>2. w - m + 1 \in 0 .. Len(s)
      BY <1>1, <1>5, <1>8, <2>3
    <3> QED
      BY <3>1, <3>2 DEF Ring
  <2> QED
    BY <2>2, <2>3, <1>1, <1>5
<1>10. \A k \in 1 .. Len(s) : \E l \in 1 .. Len(a) : s[k] = a[l]
  <2> TAKE k \in 1 .. Len(s)
  <2>1. m + k - 1 \in 1 .. Len(a) /\ s[k] = a[m + k - 1]
    BY <1>1, <1>5, <1>8
  <2> QED
    BY <2>1
<1>11. \A l \in 1 .. Len(a) : a[l].fence > completed => \E k \in 1 .. Len(s) : s[k] = a[l]
  <2> SUFFICES ASSUME NEW l \in 1 .. Len(a), a[l].fence > completed
               PROVE  \E k \in 1 .. Len(s) : s[k] = a[l]
    OBVIOUS
  <2>0. l \in Int /\ m \in Int /\ Len(a) \in Int /\ m <= l /\ l <= Len(a)
    BY <1>1, <1>5, <1>6
  <2>1. l - m + 1 \in 1 .. Len(a) - m + 1 /\ m + (l - m + 1) - 1 = l
    BY <2>0
  <2>2. s[l - m + 1] = a[l]
    BY <1>8, <2>1
  <2> QED
    BY <1>8, <2>1, <2>2
<1>12. ASSUME \A l \in 1 .. Len(a) : ~(a[l].fence > completed) PROVE s = <<>>
  BY <1>1, <1>7, <1>8, <1>12
<1> QED
  BY <1>4, <1>8, <1>9, <1>10, <1>11, <1>12

\* A new allocation goes behind the newest one, or wraps round, where there is room.

\* A new allocation goes behind the newest one, or wraps round, where there is room.
LEMMA Placed ==
  ASSUME NEW c, c.allocations \in Seq(Allocation), c.capacity \in Nat, Ring(c.allocations),
         NEW size \in Sizes, NEW fence \in Nat, FindOffsetForAllocation(c, size) # NoOffset,
         NEW b, b = [size |-> size, offset |-> FindOffsetForAllocation(c, size), fence |-> fence]
  PROVE  /\ b \in Allocation
         /\ Ring(Append(c.allocations, b))
         /\ \/ End(b) <= c.capacity
            \/ \E i \in 1 .. Len(c.allocations) : End(b) <= c.allocations[i].offset
<1> DEFINE a == c.allocations
           n == Len(a)
           first == Head(a)
           last == Last(a)
           begin == Align(last.offset + last.size)
           off == FindOffsetForAllocation(c, size)
           all == Append(a, b)
<1>1. a \in Seq(Allocation) /\ n \in Nat /\ size \in Nat /\ size > 0 /\ c.capacity \in Nat
  BY SizesAssumption
<1>2. \A i \in 1 .. n : a[i].offset \in Nat /\ End(a[i]) \in Nat /\ a[i].offset < End(a[i])
  <2> SUFFICES ASSUME NEW i \in 1 .. n
               PROVE  a[i].offset \in Nat /\ End(a[i]) \in Nat /\ a[i].offset < End(a[i])
    OBVIOUS
  <2>1. a[i] \in Allocation
    BY <1>1
  <2> QED
    BY <2>1, EndOf
<1>3. b.size = size /\ b.offset = off /\ b.fence = fence
  OBVIOUS
<1>4. PICK w \in 0 .. n : Wrapped(a, w)
  BY DEF Ring
<1>5. CASE a = <<>>
  <2>1. off = 0 /\ size <= c.capacity
    BY <1>1, <1>5 DEF FindOffsetForAllocation, NoOffset
  <2>2. b \in Allocation /\ End(b) <= c.capacity
    BY <2>1, <1>1, <1>3 DEF Allocation, End
  <2>3. Len(all) = 1
    BY <1>5, <2>2
  <2>4. Wrapped(all, 0)
    BY <2>3 DEF Wrapped
  <2> QED
    BY <2>2, <2>3, <2>4 DEF Ring
<1>6. CASE a # <<>>
  <2>1. n \in Nat /\ n >= 1 /\ first = a[1] /\ last = a[n]
    BY <1>1, <1>6 DEF Last
  <2>2. begin \in Nat /\ End(a[n]) <= begin
    <3>1. begin = Align(End(a[n])) /\ End(a[n]) \in Nat
      BY <2>1, <1>2 DEF End
    <3> QED
      BY <3>1, AlignUp
  <2>3. \/ first.offset <= last.offset /\ begin + size <= c.capacity /\ off = begin
        \/ first.offset <= last.offset /\ size <= first.offset /\ off = 0
        \/ first.offset > last.offset /\ begin + size <= first.offset /\ off = begin
    BY <1>6 DEF FindOffsetForAllocation
  <2> HIDE DEF first, last, begin, off
  <2>4. off \in Nat /\ b \in Allocation /\ End(b) = off + size /\ b.offset = off
    BY <1>3, <2>2, <2>3 DEF Allocation, End, off
  <2>5. /\ all \in Seq(Allocation) /\ Len(all) = n + 1 /\ all[n + 1] = b
        /\ \A i \in 1 .. n : all[i] = a[i]
    BY <1>1, <2>4, AppendProperties
  <2> HIDE DEF all, a, n
  <2>11. /\ a[1].offset \in Nat /\ End(a[1]) \in Nat /\ a[1].offset < End(a[1])
         /\ a[n].offset \in Nat /\ End(a[n]) \in Nat /\ a[n].offset < End(a[n])
    BY <1>2, <2>1
  <2>12. begin \in Nat /\ size \in Nat /\ size > 0 /\ off \in Nat /\ c.capacity \in Nat
    BY <1>1, <2>2, <2>4
  <2>6. ASSUME NEW v \in 0 .. n + 1, \A i, j \in 1 .. n : i < j =>
                 IF i <= v /\ v < j THEN End(a[j]) <= a[i].offset ELSE End(a[i]) <= a[j].offset,
               \A i \in 1 .. n :
                 IF i <= v /\ v < n + 1 THEN End(b) <= a[i].offset ELSE End(a[i]) <= b.offset
        PROVE  Ring(all)
    <3>1. Wrapped(all, v)
      <4> SUFFICES ASSUME NEW i \in 1 .. n + 1, NEW j \in 1 .. n + 1, i < j
                   PROVE  IF i <= v /\ v < j
                          THEN End(all[j]) <= all[i].offset ELSE End(all[i]) <= all[j].offset
        BY <2>5 DEF Wrapped
      <4>1. i \in 1 .. n /\ (j \in 1 .. n \/ j = n + 1)
        BY <2>1
      <4> QED
        BY <2>5, <2>6, <4>1
    <3> QED
      BY <3>1, <2>5 DEF Ring
  <2>7. ASSUME first.offset <= last.offset
        PROVE  \A i, j \in 1 .. n : i < j => End(a[i]) <= a[j].offset
    <3>1. CASE 1 <= w /\ w < n
      <4>1. End(a[n]) <= a[1].offset
        BY <1>4, <2>1, <3>1 DEF Wrapped, a, n
      <4> QED
        BY <4>1, <2>1, <2>7, <2>11
    <3>2. CASE w = 0 \/ w = n
      BY <1>4, <2>1, <3>2 DEF Wrapped, a, n
    <3> QED
      BY <3>1, <3>2, <1>4, <2>1
  <2>8. CASE first.offset <= last.offset /\ begin + size <= c.capacity /\ off = begin
    <3>1. \A i \in 1 .. n : End(a[i]) <= b.offset
      <4> SUFFICES ASSUME NEW i \in 1 .. n PROVE End(a[i]) <= b.offset
        OBVIOUS
      <4>1. i = n \/ End(a[i]) <= a[n].offset
        BY <2>7, <2>8, <2>1
      <4> QED
        BY <4>1, <1>2, <2>1, <2>2, <2>4, <2>8, <2>11
    <3>2. Ring(all)
      BY <2>6, <2>7, <2>8, <3>1, <2>1
    <3> QED
      BY <3>2, <2>4, <2>8, <2>2, <1>1 DEF all, a
  <2>9. CASE first.offset <= last.offset /\ size <= first.offset /\ off = 0
    <3>1. \A i \in 1 .. n : End(b) <= a[i].offset
      <4> SUFFICES ASSUME NEW i \in 1 .. n PROVE End(b) <= a[i].offset
        OBVIOUS
      <4>1. i = 1 \/ End(a[1]) <= a[i].offset
        BY <2>7, <2>9, <2>1
      <4> QED
        BY <4>1, <1>2, <2>1, <2>4, <2>9, <2>11, <2>12
    <3>2. Ring(all)
      <4>1. n \in 0 .. n + 1 /\ \A i \in 1 .. n : i <= n /\ n < n + 1
        BY <2>1
      <4>2. \A i, j \in 1 .. n : ~(i <= n /\ n < j)
        BY <2>1
      <4> QED
        BY <2>6, <2>7, <2>9, <3>1, <4>1, <4>2
    <3> QED
      BY <3>1, <3>2, <2>1, <2>4 DEF all, a, n
  <2>10. CASE first.offset > last.offset /\ begin + size <= first.offset /\ off = begin
    <3>1. 1 <= w /\ w < n
      <4>1. CASE n > 1 /\ (w = 0 \/ w = n)
        <5>1. End(a[1]) <= a[n].offset
          BY <1>4, <4>1 DEF Wrapped, a, n
        <5> QED
          BY <5>1, <2>1, <2>10, <2>11
      <4>2. CASE n = 1
        BY <4>2, <2>1, <2>10, <2>11
      <4> QED
        BY <4>1, <4>2, <1>4, <2>1
    <3>2. \A i \in 1 .. n :
            IF i <= w /\ w < n + 1 THEN End(b) <= a[i].offset ELSE End(a[i]) <= b.offset
      <4> SUFFICES ASSUME NEW i \in 1 .. n
                   PROVE  IF i <= w /\ w < n + 1
                          THEN End(b) <= a[i].offset ELSE End(a[i]) <= b.offset
        OBVIOUS
      <4>1. CASE i <= w
        <5>1. i = 1 \/ End(a[1]) <= a[i].offset
          BY <1>4, <3>1, <4>1 DEF Wrapped, a, n
        <5>2. End(b) <= a[i].offset
          BY <5>1, <1>2, <2>1, <2>2, <2>4, <2>10, <2>11, <2>12
        <5> QED
          BY <5>2, <4>1, <3>1, <2>1
      <4>2. CASE i > w
        <5>1. i = n \/ End(a[i]) <= a[n].offset
          BY <1>4, <3>1, <4>2 DEF Wrapped, a, n
        <5>2. End(a[i]) <= b.offset
          BY <5>1, <1>2, <2>1, <2>2, <2>4, <2>10, <2>11, <2>12
        <5> QED
          BY <5>2, <4>2, <1>4, <2>1
      <4> QED
        BY <4>1, <4>2, <1>4, <2>1
    <3>3. Ring(all)
      <4>1. w \in 0 .. n + 1
        BY <1>4, <2>1
      <4>2. \A i, j \in 1 .. n : i < j =>
              IF i <= w /\ w < j THEN End(a[j]) <= a[i].offset ELSE End(a[i]) <= a[j].offset
        BY <1>4 DEF Wrapped, a, n
      <4> QED
        BY <2>6, <3>2, <4>1, <4>2
    <3> QED
      BY <3>2, <3>1, <3>3, <2>1, <2>4 DEF all, a, n
  <2> QED
    BY <2>3, <2>8, <2>9, <2>10
<1> QED
  BY <1>5, <1>6

-----------------------------------------------------------------------------
(* The chunks *)

\* No upload is larger than the largest chunk.
SizesFit == \A size \in Sizes : size <= MaxChunkSize

GoodChunk(c) ==
  /\ Ring(c.allocations)
  /\ SizesFit => \A k \in 1 .. Len(c.allocations) : End(c.allocations[k]) <= c.capacity

\* Chunks made of different resources among the first n, each of them a ring.
Good(cs, n) ==
  /\ cs \in Seq(Chunk)
  /\ \A i \in 1 .. Len(cs) : GoodChunk(cs[i]) /\ cs[i].resource < n
  /\ \A i, j \in 1 .. Len(cs) : i # j => cs[i].resource # cs[j].resource

\* The range of copy p is allocated in cs.
Backed(p, cs) ==
  \E i \in 1 .. Len(cs) : \E k \in 1 .. Len(cs[i].allocations) :
    p = CopyOf(cs[i].resource, cs[i].allocations[k])

\* Every allocation of cs is free when batch f completes.
DoneBy(cs, f) ==
  \A i \in 1 .. Len(cs) : \A k \in 1 .. Len(cs[i].allocations) : cs[i].allocations[k].fence <= f

\* The fence values of allocations are numbers.
LEMMA ChunkFences ==
  ASSUME NEW cs, NEW n, Good(cs, n), NEW i \in 1 .. Len(cs), NEW k \in 1 .. Len(cs[i].allocations)
  PROVE  cs[i].allocations[k].fence \in Nat
<1>1. cs[i] \in Chunk
  BY DEF Good
<1>2. cs[i].allocations \in Seq(Allocation)
  BY <1>1 DEF Chunk
<1>3. cs[i].allocations[k] \in Allocation
  BY <1>2
<1> QED
  BY <1>3 DEF Allocation

\* What is done by one batch is done by any later one.
LEMMA DoneLater ==
  ASSUME NEW cs, NEW n, Good(cs, n), NEW f \in Nat, NEW g \in Nat, f <= g, DoneBy(cs, f)
  PROVE  DoneBy(cs, g)
BY ChunkFences DEF DoneBy

\* Reclaiming keeps the rings and the copies that are not executed yet.
LEMMA ReclaimGood ==
  ASSUME NEW cs, NEW n \in Nat, Good(cs, n), completed \in Nat
  PROVE  /\ Good(ReclaimAllocations(cs), n)
         /\ \A p : p.fence > completed /\ Backed(p, cs) => Backed(p, ReclaimAllocations(cs))
         /\ \A f : DoneBy(cs, f) => DoneBy(ReclaimAllocations(cs), f)
         /\ DoneBy(cs, completed) =>
              \A i \in DOMAIN ReclaimAllocations(cs) : ReclaimAllocations(cs)[i].allocations = <<>>
<1> DEFINE ds == ReclaimAllocations(cs)
<1>1. cs \in Seq(Chunk) /\ Len(cs) \in Nat /\ DOMAIN cs = 1 .. Len(cs)
  BY DEF Good
<1>2. ASSUME NEW i \in 1 .. Len(cs)
      PROVE  /\ cs[i] \in Chunk /\ cs[i].allocations \in Seq(Allocation)
             /\ cs[i].resource \in Nat /\ cs[i].capacity \in Nat
  <2>1. cs[i] \in Chunk
    BY <1>1
  <2> QED
    BY <2>1 DEF Chunk
<1>3. ds = [i \in 1 .. Len(cs) |->
              [cs[i] EXCEPT !.allocations = AllocationsInUse(cs[i].allocations)]]
  BY <1>1 DEF ReclaimAllocations
<1>4. ASSUME NEW i \in 1 .. Len(cs)
      PROVE  /\ ds[i] \in Chunk
             /\ ds[i].resource = cs[i].resource /\ ds[i].capacity = cs[i].capacity
             /\ ds[i].allocations = AllocationsInUse(cs[i].allocations)
  <2>1. AllocationsInUse(cs[i].allocations) \in Seq(Allocation)
    BY <1>2, Reclaimed
  <2> QED
    BY <1>2, <1>3, <2>1 DEF Chunk
<1>5. ds \in Seq(Chunk) /\ Len(ds) = Len(cs) /\ DOMAIN ds = 1 .. Len(cs)
  <2>1. Len(cs) \in Nat /\ \A i \in 1 .. Len(cs) : ds[i] \in Chunk
    BY <1>1, <1>4
  <2>2. DOMAIN ds = 1 .. Len(cs) /\ ds = [i \in 1 .. Len(cs) |-> ds[i]]
    BY <1>3
  <2> HIDE DEF ds
  <2> QED
    BY <2>1, <2>2, IsASeq
<1> HIDE DEF ds
<1>10. ASSUME NEW i \in 1 .. Len(cs), NEW k \in 1 .. Len(ds[i].allocations)
       PROVE  \E l \in 1 .. Len(cs[i].allocations) : ds[i].allocations[k] = cs[i].allocations[l]
  <2> DEFINE a == cs[i].allocations
  <2>1. a \in Seq(Allocation) /\ ds[i].allocations = AllocationsInUse(a)
    BY <1>2, <1>4
  <2> HIDE DEF a
  <2>2. \A j \in 1 .. Len(AllocationsInUse(a)) : \E l \in 1 .. Len(a) : AllocationsInUse(a)[j] = a[l]
    BY <2>1, Reclaimed
  <2> QED
    BY <2>1, <2>2 DEF a
<1>6. Good(ds, n)
  <2>1. \A i \in 1 .. Len(cs) : ds[i].resource < n
    BY <1>4 DEF Good
  <2>2. \A i, j \in 1 .. Len(cs) : i # j => ds[i].resource # ds[j].resource
    BY <1>4 DEF Good
  <2>3. ASSUME NEW i \in 1 .. Len(cs) PROVE GoodChunk(ds[i])
    <3>1. Ring(ds[i].allocations)
      BY <1>2, <1>4, Reclaimed DEF Good, GoodChunk
    <3>2. ASSUME SizesFit, NEW k \in 1 .. Len(ds[i].allocations)
          PROVE  End(ds[i].allocations[k]) <= ds[i].capacity
      <4>1. PICK l \in 1 .. Len(cs[i].allocations) : ds[i].allocations[k] = cs[i].allocations[l]
        BY <1>10
      <4> QED
        BY <4>1, <3>2, <1>4 DEF Good, GoodChunk
    <3> QED
      BY <3>1, <3>2 DEF GoodChunk
  <2> QED
    BY <1>5, <2>1, <2>2, <2>3 DEF Good
<1>7. ASSUME NEW p, p.fence > completed, Backed(p, cs) PROVE Backed(p, ds)
  <2>0. PICK i \in 1 .. Len(cs) : \E k \in 1 .. Len(cs[i].allocations) :
          p = CopyOf(cs[i].resource, cs[i].allocations[k])
    BY <1>7 DEF Backed
  <2>1. PICK k \in 1 .. Len(cs[i].allocations) : p = CopyOf(cs[i].resource, cs[i].allocations[k])
    BY <2>0
  <2>2. cs[i].allocations[k].fence > completed
    BY <1>7, <2>1 DEF CopyOf
  <2>3. PICK l \in 1 .. Len(ds[i].allocations) : ds[i].allocations[l] = cs[i].allocations[k]
    <3> DEFINE a == cs[i].allocations
    <3>1. a \in Seq(Allocation) /\ ds[i].allocations = AllocationsInUse(a) /\ a[k].fence > completed
      BY <1>2, <1>4, <2>2
    <3>2. k \in 1 .. Len(a)
      OBVIOUS
    <3> HIDE DEF a
    <3>3. \E l \in 1 .. Len(AllocationsInUse(a)) : AllocationsInUse(a)[l] = a[k]
      BY <3>1, <3>2, Reclaimed
    <3> QED
      BY <3>1, <3>3 DEF a
  <2> QED
    BY <1>4, <1>5, <2>1, <2>3 DEF Backed
<1>8. ASSUME NEW f, DoneBy(cs, f) PROVE DoneBy(ds, f)
  <2> SUFFICES ASSUME NEW i \in 1 .. Len(cs), NEW k \in 1 .. Len(ds[i].allocations)
               PROVE  ds[i].allocations[k].fence <= f
    BY <1>5 DEF DoneBy
  <2>1. PICK l \in 1 .. Len(cs[i].allocations) : ds[i].allocations[k] = cs[i].allocations[l]
    BY <1>10
  <2> QED
    BY <2>1, <1>8 DEF DoneBy
<1>9. ASSUME DoneBy(cs, completed), NEW i \in DOMAIN ds PROVE ds[i].allocations = <<>>
  <2>1. i \in 1 .. Len(cs)
    BY <1>5
  <2>2. \A l \in 1 .. Len(cs[i].allocations) : ~(cs[i].allocations[l].fence > completed)
    <3> SUFFICES ASSUME NEW l \in 1 .. Len(cs[i].allocations)
                 PROVE  ~(cs[i].allocations[l].fence > completed)
      OBVIOUS
    <3>1. cs[i].allocations[l].fence \in Nat
      <4>1. cs[i].allocations \in Seq(Allocation)
        BY <1>2, <2>1
      <4>2. cs[i].allocations[l] \in Allocation
        BY <4>1
      <4> QED
        BY <4>2 DEF Allocation
    <3>2. cs[i].allocations[l].fence <= completed
      BY <1>9, <2>1 DEF DoneBy
    <3> QED
      BY <3>1, <3>2
  <2> QED
    BY <1>2, <1>4, <2>1, <2>2, Reclaimed
<1> QED
  BY <1>6, <1>7, <1>8, <1>9 DEF ds

\* The size of a new chunk is a number, and enough for the upload if it can be.
LEMMA NewChunkFits ==
  ASSUME totalCapacity \in Nat, created \in Nat, NEW size \in Sizes
  PROVE  /\ CreateChunk(size) \in Chunk
         /\ CreateChunk(size).resource = created /\ CreateChunk(size).allocations = <<>>
         /\ SizesFit => size <= CreateChunk(size).capacity
<1> DEFINE wanted == Max({totalCapacity, MinChunkSize, size})
<1>1. size \in Nat /\ MinChunkSize \in Nat /\ MaxChunkSize \in Nat
  BY SizesAssumption, ChunkAssumption
<1>2. \E x \in {totalCapacity, MinChunkSize, size} :
         \A y \in {totalCapacity, MinChunkSize, size} : x >= y
  BY <1>1
<1>3. wanted \in {totalCapacity, MinChunkSize, size}
      /\ \A y \in {totalCapacity, MinChunkSize, size} : wanted >= y
  BY <1>2 DEF Max
<1>4. wanted \in Nat /\ wanted >= size
  BY <1>1, <1>3
<1> HIDE DEF wanted
<1>5. Min({wanted, MaxChunkSize}) \in {wanted, MaxChunkSize}
  BY <1>1, <1>4, LeastNumber
<1>6. NewChunkSize(size) \in Nat /\ (SizesFit => size <= NewChunkSize(size))
  BY <1>1, <1>4, <1>5 DEF NewChunkSize, SizesFit, wanted
<1>7. <<>> \in Seq(Allocation)
  OBVIOUS
<1> QED
  BY <1>6, <1>7 DEF CreateChunk, Chunk

\* The first chunk with room, or a new one, has a ring that takes the allocation.
LEMMA ReserveGood ==
  ASSUME NEW cs, Good(cs, created), created \in Nat, totalCapacity \in Nat,
         NEW size \in Sizes, NEW fence \in Nat,
         NEW r, r = Reserve(cs, size),
         NEW n, n = created + (IF Len(r.chunks) > Len(cs) THEN 1 ELSE 0),
         NEW b, b = [size |-> size, offset |-> r.offset, fence |-> fence]
  PROVE  /\ Good(r.chunks, n) /\ r.index \in 1 .. Len(r.chunks)
         /\ Len(r.chunks) > Len(cs) => Last(r.chunks).capacity \in Nat
         /\ \A p : Backed(p, cs) => Backed(p, r.chunks)
         /\ \A f : DoneBy(cs, f) => DoneBy(r.chunks, f)
         /\ b \in Allocation /\ Ring(Append(r.chunks[r.index].allocations, b))
         /\ SizesFit => End(b) <= r.chunks[r.index].capacity
<1>1. cs \in Seq(Chunk) /\ Len(cs) \in Nat /\ DOMAIN cs = 1 .. Len(cs)
  BY DEF Good
<1>2. ASSUME NEW i \in 1 .. Len(cs)
      PROVE  /\ cs[i] \in Chunk /\ cs[i].allocations \in Seq(Allocation)
             /\ cs[i].resource \in Nat /\ cs[i].capacity \in Nat
             /\ GoodChunk(cs[i]) /\ cs[i].resource < created
  <2>1. cs[i] \in Chunk
    BY <1>1
  <2> QED
    BY <2>1 DEF Chunk, Good
<1>3. CASE Fitting(cs, size) # {}
  <2> DEFINE i == Min(Fitting(cs, size))
  <2>1. Fitting(cs, size) \in SUBSET Nat
    BY <1>1 DEF Fitting
  <2>2. i \in Fitting(cs, size)
    BY <1>3, <2>1, LeastNumber
  <2>3. r.chunks = cs /\ r.index = i /\ r.offset = FindOffsetForAllocation(cs[i], size)
    BY <1>3 DEF Reserve
  <2> HIDE DEF i
  <2>4. i \in 1 .. Len(cs) /\ FindOffsetForAllocation(cs[i], size) # NoOffset
    BY <1>1, <2>2 DEF Fitting
  <2>5. /\ cs[i].allocations \in Seq(Allocation) /\ cs[i].capacity \in Nat
        /\ Ring(cs[i].allocations) /\ GoodChunk(cs[i])
    BY <1>2, <2>4 DEF GoodChunk
  <2>6. b = [size |-> size, offset |-> FindOffsetForAllocation(cs[i], size), fence |-> fence]
    BY <2>3
  <2>7. /\ b \in Allocation /\ Ring(Append(cs[i].allocations, b))
        /\ \/ End(b) <= cs[i].capacity
           \/ \E k \in 1 .. Len(cs[i].allocations) : End(b) <= cs[i].allocations[k].offset
    BY <2>4, <2>5, <2>6, Placed
  <2>8. ASSUME SizesFit, NEW k \in 1 .. Len(cs[i].allocations),
               End(b) <= cs[i].allocations[k].offset
        PROVE  End(b) <= cs[i].capacity
    <3>1. cs[i].allocations[k] \in Allocation
      BY <2>5
    <3>2. /\ cs[i].allocations[k].offset \in Nat /\ End(cs[i].allocations[k]) \in Nat
          /\ cs[i].allocations[k].offset < End(cs[i].allocations[k])
      BY <3>1, EndOf
    <3>3. End(cs[i].allocations[k]) <= cs[i].capacity
      BY <2>5, <2>8 DEF GoodChunk
    <3>4. End(b) \in Nat
      BY <2>7, EndOf
    <3> QED
      BY <2>5, <2>8, <3>2, <3>3, <3>4
  <2>9. n = created
    BY <1>1, <2>3
  <2> QED
    BY <1>1, <2>3, <2>4, <2>7, <2>8, <2>9
<1>4. CASE Fitting(cs, size) = {}
  <2> DEFINE new == CreateChunk(size)
  <2>1. r.chunks = Append(cs, new) /\ r.index = Len(cs) + 1 /\ r.offset = 0
    BY <1>4 DEF Reserve
  <2>2. new \in Chunk /\ new.resource = created /\ new.allocations = <<>>
        /\ (SizesFit => size <= new.capacity) /\ new.capacity \in Nat
    BY NewChunkFits DEF Chunk
  <2> HIDE DEF new
  <2>3. /\ r.chunks \in Seq(Chunk) /\ Len(r.chunks) = Len(cs) + 1
        /\ r.chunks[Len(cs) + 1] = new /\ \A i \in 1 .. Len(cs) : r.chunks[i] = cs[i]
    BY <1>1, <2>1, <2>2, AppendProperties
  <2>4. n = created + 1 /\ Last(r.chunks) = new
    BY <1>1, <2>3 DEF Last
  <2>5. Ring(<<>>) /\ GoodChunk(new)
    <3>1. Wrapped(<<>>, 0)
      BY DEF Wrapped
    <3> QED
      BY <2>2, <3>1 DEF Ring, GoodChunk
  <2>6. ASSUME NEW i \in 1 .. Len(r.chunks)
        PROVE  i \in 1 .. Len(cs) \/ i = Len(cs) + 1
    BY <1>1, <2>3
  <2>7. Good(r.chunks, n)
    <3>1. \A i \in 1 .. Len(r.chunks) : GoodChunk(r.chunks[i])
      BY <1>2, <2>3, <2>5, <2>6
    <3>2. ASSUME NEW i \in 1 .. Len(r.chunks) PROVE r.chunks[i].resource < n
      <4>1. CASE i \in 1 .. Len(cs)
        <5>1. r.chunks[i].resource \in Nat /\ r.chunks[i].resource < created
          BY <1>2, <2>3, <4>1
        <5> QED
          BY <5>1, <2>4
      <4>2. CASE i = Len(cs) + 1
        BY <2>2, <2>3, <2>4, <4>2
      <4> QED
        BY <2>6, <4>1, <4>2
    <3>3. ASSUME NEW i \in 1 .. Len(r.chunks), NEW j \in 1 .. Len(r.chunks), i # j
          PROVE  r.chunks[i].resource # r.chunks[j].resource
      <4>1. \A k \in 1 .. Len(cs) : cs[k].resource # created
        BY <1>2
      <4> QED
        BY <2>2, <2>3, <2>6, <3>3, <4>1 DEF Good
    <3> QED
      BY <2>3, <3>1, <3>2, <3>3 DEF Good
  <2>8. \A p : Backed(p, cs) => Backed(p, r.chunks)
    <3>1. 1 .. Len(cs) \subseteq 1 .. Len(r.chunks)
      BY <1>1, <2>3
    <3> QED
      BY <2>3, <3>1 DEF Backed
  <2>9. \A f : DoneBy(cs, f) => DoneBy(r.chunks, f)
    BY <2>2, <2>3, <2>6 DEF DoneBy
  <2>10. b \in Allocation /\ b.size = size /\ b.offset = 0
    BY <2>1 DEF Allocation
  <2>11. Ring(Append(<<>>, b))
    <3>1. Len(Append(<<>>, b)) = 1
      BY <2>10
    <3>2. Wrapped(Append(<<>>, b), 0)
      BY <3>1 DEF Wrapped
    <3> QED
      BY <3>1, <3>2 DEF Ring
  <2>12. SizesFit => End(b) <= new.capacity
    BY <2>2, <2>10, SizesAssumption DEF End
  <2> QED
    <3>1. r.index \in 1 .. Len(r.chunks) /\ r.chunks[r.index] = new
      BY <1>1, <2>1, <2>3
    <3>2. Last(r.chunks).capacity \in Nat
      BY <2>2, <2>4
    <3> QED
      BY <2>2, <2>7, <2>8, <2>9, <2>10, <2>11, <2>12, <3>1, <3>2
<1> QED
  BY <1>3, <1>4

\* The chunks cs with allocation b added to the i-th.
With(cs, i, b) == [cs EXCEPT ![i].allocations = Append(@, b)]

\* Adding an allocation that keeps the ring disturbs no copy.
LEMMA UploadGood ==
  ASSUME NEW cs, NEW n \in Nat, Good(cs, n), NEW i \in 1 .. Len(cs),
         NEW b \in Allocation, Ring(Append(cs[i].allocations, b)),
         SizesFit => End(b) <= cs[i].capacity
  PROVE  /\ Good(With(cs, i, b), n) /\ CopyOf(cs[i].resource, b) \in Copy
         /\ Backed(CopyOf(cs[i].resource, b), With(cs, i, b))
         /\ \A p : Backed(p, cs) =>
              Backed(p, With(cs, i, b)) /\ ~Overlap(p, CopyOf(cs[i].resource, b))
         /\ \A f : DoneBy(cs, f) /\ b.fence <= f => DoneBy(With(cs, i, b), f)
<1> DEFINE copy == CopyOf(cs[i].resource, b)
           ds == With(cs, i, b)
           a == cs[i].allocations
           all == Append(a, b)
<1>1. cs \in Seq(Chunk) /\ Len(cs) \in Nat /\ DOMAIN cs = 1 .. Len(cs) /\ cs[i] \in Chunk
  BY DEF Good
<1>2. a \in Seq(Allocation) /\ Len(a) \in Nat /\ cs[i].resource \in Nat /\ cs[i].capacity \in Nat
  BY <1>1 DEF Chunk
<1>3. /\ all \in Seq(Allocation) /\ Len(all) = Len(a) + 1 /\ all[Len(a) + 1] = b
      /\ \A k \in 1 .. Len(a) : all[k] = a[k]
  BY <1>2, AppendProperties
<1>4. /\ Len(ds) = Len(cs) /\ DOMAIN ds = DOMAIN cs
      /\ \A j \in 1 .. Len(cs) : j # i => ds[j] = cs[j]
      /\ ds[i] = [cs[i] EXCEPT !.allocations = all]
  BY <1>1 DEF With
<1>0. copy = CopyOf(cs[i].resource, b)
  OBVIOUS
<1> HIDE DEF all, ds, copy
<1>5. /\ ds[i] \in Chunk /\ ds[i].resource = cs[i].resource /\ ds[i].capacity = cs[i].capacity
      /\ ds[i].allocations = all
  BY <1>1, <1>3, <1>4 DEF Chunk
<1>6. \A j \in 1 .. Len(cs) : ds[j].resource = cs[j].resource
  BY <1>4, <1>5
<1>7. ds \in Seq(Chunk)
  <2>1. Len(cs) \in Nat /\ \A j \in 1 .. Len(cs) : ds[j] \in Chunk
    BY <1>1, <1>4, <1>5
  <2>2. ds = [j \in 1 .. Len(cs) |-> ds[j]]
    BY <1>1 DEF ds, With
  <2> QED
    BY <2>1, <2>2, IsASeq
<1>8. \A k \in 1 .. Len(all) : k \in 1 .. Len(a) \/ k = Len(a) + 1
  BY <1>2, <1>3
<1>9. GoodChunk(ds[i])
  <2>1. Ring(ds[i].allocations)
    BY <1>5 DEF all, a
  <2>2. ASSUME SizesFit, NEW k \in 1 .. Len(all) PROVE End(all[k]) <= cs[i].capacity
    BY <1>3, <1>8, <2>2 DEF Good, GoodChunk
  <2> QED
    BY <1>5, <2>1, <2>2 DEF GoodChunk
<1>10. Good(ds, n)
  <2>1. \A j \in 1 .. Len(cs) : GoodChunk(ds[j])
    BY <1>4, <1>9 DEF Good
  <2>2. \A j \in 1 .. Len(cs) : ds[j].resource < n
    BY <1>6 DEF Good
  <2>3. \A j, k \in 1 .. Len(cs) : j # k => ds[j].resource # ds[k].resource
    BY <1>6 DEF Good
  <2> QED
    BY <1>4, <1>7, <2>1, <2>2, <2>3 DEF Good
<1>11. copy \in Copy
  BY <1>0, <1>2 DEF CopyOf, Copy, Allocation
<1>12. Backed(copy, ds)
  <2>1. Len(a) + 1 \in 1 .. Len(all)
    BY <1>2, <1>3
  <2> QED
    BY <1>0, <1>3, <1>4, <1>5, <2>1 DEF Backed
<1>13. ASSUME NEW p, Backed(p, cs) PROVE Backed(p, ds) /\ ~Overlap(p, copy)
  <2>1. PICK j \in 1 .. Len(cs) : \E k \in 1 .. Len(cs[j].allocations) :
          p = CopyOf(cs[j].resource, cs[j].allocations[k])
    BY <1>13 DEF Backed
  <2>2. PICK k \in 1 .. Len(cs[j].allocations) : p = CopyOf(cs[j].resource, cs[j].allocations[k])
    BY <2>1
  <2>3. CASE j # i
    <3>1. p.resource # copy.resource
      BY <1>0, <2>2, <2>3 DEF Good, CopyOf
    <3>2. ds[j] = cs[j] /\ j \in 1 .. Len(ds)
      BY <1>4, <2>3
    <3> QED
      BY <2>2, <3>1, <3>2 DEF Overlap, Backed
  <2>4. CASE j = i
    <3>1. k \in 1 .. Len(all) /\ all[k] = a[k] /\ k < Len(a) + 1 /\ k \in 1 .. Len(a)
          /\ Len(a) + 1 \in 1 .. Len(all)
      BY <1>2, <1>3, <2>2, <2>4
    <3>2. Backed(p, ds)
      BY <1>4, <1>5, <2>2, <2>4, <3>1 DEF Backed
    <3>3. End(b) <= a[k].offset \/ End(a[k]) <= b.offset
      <4>1. PICK w \in 0 .. Len(all) : Wrapped(all, w)
        BY DEF Ring, all
      <4> QED
        BY <4>1, <1>3, <3>1 DEF Wrapped
    <3>4. a[k] \in Allocation
      BY <1>2, <3>1
    <3>5. /\ a[k].offset \in Nat /\ End(a[k]) \in Nat /\ b.offset \in Nat /\ End(b) \in Nat
      BY <3>4, EndOf
    <3>6. /\ p.offset = a[k].offset /\ End(p) = End(a[k])
          /\ copy.offset = b.offset /\ End(copy) = End(b)
      BY <1>0, <2>2, <2>4 DEF CopyOf, End
    <3>7. ~Overlap(p, copy)
      BY <3>3, <3>5, <3>6 DEF Overlap
    <3> QED
      BY <3>2, <3>7
  <2> QED
    BY <2>3, <2>4
<1>14. ASSUME NEW f, DoneBy(cs, f), b.fence <= f PROVE DoneBy(ds, f)
  <2>1. \A k \in 1 .. Len(all) : all[k].fence <= f
    BY <1>3, <1>8, <1>14 DEF DoneBy
  <2> QED
    BY <1>4, <1>5, <1>14, <2>1 DEF DoneBy
<1> QED
  BY <1>10, <1>11, <1>12, <1>13, <1>14 DEF ds, copy

-----------------------------------------------------------------------------
(* The inductive invariant *)

\* Every copy that is not executed yet keeps its range allocated, and none was given out twice.
HeapInv ==
  /\ Good(chunks, created)
  /\ \A p \in pending : p.fence > completed /\ Backed(p, chunks)
  /\ overwritten = FALSE

\* No allocation outlives the next batch, or the last one if nothing is recorded.
FenceInv ==
  /\ DoneBy(chunks, lastFence + 1)
  /\ ~recorded => DoneBy(chunks, lastFence)
  /\ waiting => ~recorded

UploadInv == TypeOK /\ HeapInv /\ FenceInv

\* The heap starts without chunks.
LEMMA InitInv == Init => UploadInv
<1> SUFFICES ASSUME Init PROVE UploadInv
  OBVIOUS
<1>1. TypeOK
  <2>1. <<>> \in Seq(Chunk)
    OBVIOUS
  <2>2. chunks \in Seq(Chunk)
    BY <2>1 DEF Init
  <2>3. totalCapacity \in Nat /\ created \in Nat /\ lastFence \in Nat /\ completed \in 0 .. lastFence
    BY DEF Init
  <2>4. /\ recorded \in BOOLEAN /\ waiting \in BOOLEAN /\ sessionInitialized \in BOOLEAN
        /\ pending \subseteq Copy /\ overwritten \in BOOLEAN
    BY DEF Init
  <2> QED
    BY <2>2, <2>3, <2>4 DEF TypeOK
<1>2. HeapInv
  BY DEF Init, HeapInv, Good
<1>3. FenceInv
  BY DEF Init, FenceInv, DoneBy
<1> QED
  BY <1>1, <1>2, <1>3 DEF UploadInv

\* What an upload reserves, with the chunks reclaimed first, whether or not it fails later.
LEMMA UploadReserves ==
  ASSUME UploadInv, NEW size \in Sizes, NEW r, r = Reserve(ReclaimAllocations(chunks), size),
         NEW n, n = created + (IF Len(r.chunks) > Len(chunks) THEN 1 ELSE 0),
         NEW b, b = [size |-> size, offset |-> r.offset, fence |-> lastFence + 1]
  PROVE  /\ n \in Nat /\ Good(r.chunks, n) /\ r.index \in 1 .. Len(r.chunks)
         /\ Len(r.chunks) > Len(chunks) => Last(r.chunks).capacity \in Nat
         /\ \A p \in pending : Backed(p, r.chunks)
         /\ \A f : DoneBy(chunks, f) => DoneBy(r.chunks, f)
         /\ b \in Allocation /\ Ring(Append(r.chunks[r.index].allocations, b))
         /\ SizesFit => End(b) <= r.chunks[r.index].capacity
<1> DEFINE cs == ReclaimAllocations(chunks)
<1>1. /\ created \in Nat /\ totalCapacity \in Nat /\ lastFence \in Nat /\ completed \in Nat
      /\ chunks \in Seq(Chunk)
  BY DEF UploadInv, TypeOK
<1>2. /\ Good(cs, created) /\ \A f : DoneBy(chunks, f) => DoneBy(cs, f)
      /\ \A p : p.fence > completed /\ Backed(p, chunks) => Backed(p, cs)
  BY <1>1, ReclaimGood DEF UploadInv, HeapInv
<1>3. Len(cs) = Len(chunks)
  BY <1>1 DEF ReclaimAllocations
<1>4. n \in Nat /\ lastFence + 1 \in Nat
  BY <1>1
<1> HIDE DEF cs
<1>5. /\ Good(r.chunks, n) /\ r.index \in 1 .. Len(r.chunks)
      /\ Len(r.chunks) > Len(cs) => Last(r.chunks).capacity \in Nat
      /\ \A p : Backed(p, cs) => Backed(p, r.chunks)
      /\ \A f : DoneBy(cs, f) => DoneBy(r.chunks, f)
      /\ b \in Allocation /\ Ring(Append(r.chunks[r.index].allocations, b))
      /\ SizesFit => End(b) <= r.chunks[r.index].capacity
  <2>1. r = Reserve(cs, size)
    BY DEF cs
  <2>2. n = created + (IF Len(r.chunks) > Len(cs) THEN 1 ELSE 0)
    BY <1>3
  <2>3. PICK fence \in Nat : fence = lastFence + 1
    BY <1>4
  <2>4. b = [size |-> size, offset |-> r.offset, fence |-> fence]
    BY <2>3
  <2>5. Good(cs, created) /\ created \in Nat /\ totalCapacity \in Nat
    BY <1>1, <1>2
  <2> QED
    BY ONLY <2>1, <2>2, <2>4, <2>5, ReserveGood
<1>6. \A p \in pending : Backed(p, r.chunks)
  BY <1>2, <1>5 DEF UploadInv, HeapInv
<1> QED
  BY <1>2, <1>3, <1>4, <1>5, <1>6

\* BeginUploadToGpu puts the copy where no other one is.
LEMMA UploadStep ==
  ASSUME UploadInv, NEW size \in Sizes, NEW flush \in BOOLEAN, BeginUploadToGpu(size, flush)
  PROVE  UploadInv'
<1>1. PICK r : r = Reserve(ReclaimAllocations(chunks), size)
  OBVIOUS
<1>2. PICK b : b = [size |-> size, offset |-> r.offset, fence |-> lastFence + 1]
  OBVIOUS
<1>3. PICK copy : copy = CopyOf(r.chunks[r.index].resource, b)
  OBVIOUS
<1>4. /\ Reserved(r, [r.chunks EXCEPT ![r.index].allocations = Append(@, b)])
      /\ pending' = pending \cup {copy}
      /\ overwritten' = (overwritten \/ \E p \in pending : Overlap(p, copy))
      /\ recorded' = ~flush
      /\ lastFence' = lastFence + (IF flush THEN 1 ELSE 0)
      /\ UNCHANGED <<completed, sessionVars>> /\ ~waiting
  BY <1>1, <1>2, <1>3 DEF BeginUploadToGpu
<1>5. /\ chunks' = [r.chunks EXCEPT ![r.index].allocations = Append(@, b)]
      /\ totalCapacity' = totalCapacity + (IF Len(r.chunks) > Len(chunks) THEN Last(r.chunks).capacity ELSE 0)
      /\ created' = created + (IF Len(r.chunks) > Len(chunks) THEN 1 ELSE 0)
  BY <1>4 DEF Reserved
<1>6. /\ created' \in Nat /\ Good(r.chunks, created') /\ r.index \in 1 .. Len(r.chunks)
      /\ Len(r.chunks) > Len(chunks) => Last(r.chunks).capacity \in Nat
      /\ \A p \in pending : Backed(p, r.chunks)
      /\ \A f : DoneBy(chunks, f) => DoneBy(r.chunks, f)
      /\ b \in Allocation /\ Ring(Append(r.chunks[r.index].allocations, b))
      /\ SizesFit => End(b) <= r.chunks[r.index].capacity
  BY <1>1, <1>2, <1>5, UploadReserves
<1>7. /\ Good(chunks', created') /\ copy \in Copy /\ Backed(copy, chunks')
      /\ \A p : Backed(p, r.chunks) => Backed(p, chunks') /\ ~Overlap(p, copy)
      /\ \A f : DoneBy(r.chunks, f) /\ b.fence <= f => DoneBy(chunks', f)
  <2>1. chunks' = With(r.chunks, r.index, b)
    BY <1>5 DEF With
  <2>2. /\ Good(With(r.chunks, r.index, b), created') /\ copy \in Copy
        /\ Backed(copy, With(r.chunks, r.index, b))
        /\ \A p : Backed(p, r.chunks) => Backed(p, With(r.chunks, r.index, b)) /\ ~Overlap(p, copy)
        /\ \A f : DoneBy(r.chunks, f) /\ b.fence <= f => DoneBy(With(r.chunks, r.index, b), f)
    BY <1>3, <1>6, UploadGood
  <2> QED
    BY <2>1, <2>2
<1>8. lastFence \in Nat /\ completed \in Nat /\ completed <= lastFence
  BY DEF UploadInv, TypeOK
<1>9. b.fence = lastFence + 1 /\ copy.fence = lastFence + 1
  BY <1>2, <1>3 DEF CopyOf
<1>10. TypeOK'
  <2>1. chunks' \in Seq(Chunk) /\ pending' \subseteq Copy
    BY <1>4, <1>7 DEF Good, UploadInv, TypeOK
  <2>2. totalCapacity' \in Nat
    BY <1>5, <1>6 DEF UploadInv, TypeOK
  <2>3. lastFence' \in Nat /\ completed' \in 0 .. lastFence'
    BY <1>4, <1>8
  <2>4. /\ recorded' \in BOOLEAN /\ waiting' \in BOOLEAN /\ sessionInitialized' \in BOOLEAN
        /\ overwritten' \in BOOLEAN
    BY <1>4 DEF UploadInv, TypeOK, sessionVars
  <2> QED
    BY <1>6, <2>1, <2>2, <2>3, <2>4 DEF TypeOK
<1>11. HeapInv'
  <2>1. \A p \in pending' : p.fence > completed'
    BY <1>4, <1>8, <1>9 DEF UploadInv, HeapInv
  <2>2. \A p \in pending' : Backed(p, chunks')
    BY <1>4, <1>6, <1>7
  <2>3. overwritten' = FALSE
    BY <1>4, <1>6, <1>7 DEF UploadInv, HeapInv
  <2> QED
    BY <1>7, <2>1, <2>2, <2>3 DEF HeapInv, Backed
<1>12. FenceInv'
  <2>1. DoneBy(chunks', lastFence + 1)
    BY <1>6, <1>7, <1>8, <1>9 DEF UploadInv, FenceInv
  <2>2. CASE flush
    <3>1. lastFence' = lastFence + 1 /\ ~waiting' /\ recorded' = FALSE
      BY <1>4, <2>2, <1>8 DEF sessionVars
    <3>2. \A i \in 1 .. Len(chunks') : \A k \in 1 .. Len(chunks'[i].allocations) :
            chunks'[i].allocations[k].fence <= lastFence'
      BY <2>1, <3>1 DEF DoneBy
    <3>3. \A i \in 1 .. Len(chunks') : \A k \in 1 .. Len(chunks'[i].allocations) :
            chunks'[i].allocations[k].fence <= lastFence' + 1
      <4>1. \A i \in 1 .. Len(chunks') : \A k \in 1 .. Len(chunks'[i].allocations) :
              chunks'[i].allocations[k].fence \in Nat
        BY <1>7, ChunkFences
      <4> QED
        BY <3>1, <3>2, <4>1, <1>8
    <3> QED
      BY <3>1, <3>2, <3>3 DEF FenceInv, DoneBy
  <2>3. CASE ~flush
    <3>1. lastFence' = lastFence /\ ~waiting' /\ recorded' = TRUE
      <4>1. ~waiting' /\ recorded' = TRUE
        BY <1>4, <2>3 DEF sessionVars
      <4>2. lastFence' = lastFence
        BY <1>4, <2>3, <1>8
      <4> QED
        BY <4>1, <4>2
    <3> QED
      BY <2>1, <3>1 DEF FenceInv, DoneBy
  <2> QED
    BY <2>2, <2>3
<1> QED
  BY <1>10, <1>11, <1>12 DEF UploadInv

\* A failed upload leaves reclaimed chunks, with space reserved but not used.
LEMMA FailedStep ==
  ASSUME UploadInv, NEW size \in Sizes, BeginUploadToGpuFails(size)
  PROVE  UploadInv'
<1>1. PICK r : r = Reserve(ReclaimAllocations(chunks), size)
  OBVIOUS
<1>2. PICK b : b = [size |-> size, offset |-> r.offset, fence |-> lastFence + 1]
  OBVIOUS
<1>3. /\ lastFence \in Nat /\ completed \in Nat /\ created \in Nat /\ totalCapacity \in Nat
  BY DEF UploadInv, TypeOK
<1>4. UNCHANGED <<lastFence, completed, recorded, sessionVars, historyVars>>
  BY DEF BeginUploadToGpuFails
<1>5. /\ Good(chunks', created') /\ created' \in Nat /\ totalCapacity' \in Nat
      /\ \A p \in pending : Backed(p, chunks')
      /\ \A f : DoneBy(chunks, f) => DoneBy(chunks', f)
  <2>1. CASE Reserved(r, r.chunks)
    <3>1. /\ chunks' = r.chunks
          /\ totalCapacity' = totalCapacity + (IF Len(r.chunks) > Len(chunks) THEN Last(r.chunks).capacity ELSE 0)
          /\ created' = created + (IF Len(r.chunks) > Len(chunks) THEN 1 ELSE 0)
      BY <2>1 DEF Reserved
    <3>2. /\ created' \in Nat /\ Good(r.chunks, created')
          /\ Len(r.chunks) > Len(chunks) => Last(r.chunks).capacity \in Nat
          /\ \A p \in pending : Backed(p, r.chunks)
          /\ \A f : DoneBy(chunks, f) => DoneBy(r.chunks, f)
      BY <1>1, <1>2, <3>1, UploadReserves
    <3>3. totalCapacity' \in Nat
      BY <1>3, <3>1, <3>2
    <3> QED
      BY <3>1, <3>2, <3>3
  <2>2. CASE chunks' = ReclaimAllocations(chunks) /\ UNCHANGED <<totalCapacity, created>>
    <3>1. /\ Good(ReclaimAllocations(chunks), created)
          /\ \A p : p.fence > completed /\ Backed(p, chunks) => Backed(p, ReclaimAllocations(chunks))
          /\ \A f : DoneBy(chunks, f) => DoneBy(ReclaimAllocations(chunks), f)
      BY <1>3, ReclaimGood DEF UploadInv, HeapInv
    <3> QED
      BY <1>3, <2>2, <3>1 DEF UploadInv, HeapInv
  <2> QED
    BY <1>1, <2>1, <2>2 DEF BeginUploadToGpuFails
<1>6. TypeOK'
  BY <1>4, <1>5 DEF UploadInv, TypeOK, Good, sessionVars, historyVars
<1>7. HeapInv'
  <2>1. pending' = pending /\ overwritten' = overwritten /\ completed' = completed
    BY <1>4 DEF historyVars
  <2> QED
    BY <1>5, <2>1 DEF UploadInv, HeapInv, Backed
<1>8. FenceInv'
  <2>1. lastFence' = lastFence /\ recorded' = recorded /\ waiting' = waiting
    BY <1>4 DEF sessionVars
  <2> QED
    BY <1>5, <2>1 DEF UploadInv, FenceInv, DoneBy
<1> QED
  BY <1>6, <1>7, <1>8 DEF UploadInv

\* When the wait is over every allocation can be reclaimed: nothing is left.
LEMMA TrimEmpties ==
  ASSUME UploadInv, SessionInitialized
  PROVE  chunks' = <<>> /\ totalCapacity' = 0 /\ pending = {}
<1> DEFINE cs == ReclaimAllocations(chunks)
           kept == {i \in DOMAIN cs : cs[i].allocations # <<>>}
<1>1. waiting /\ completed = lastFence /\ chunks' = InUse(cs) /\ totalCapacity' = Capacity(chunks')
  BY DEF SessionInitialized, Trim
<1>2. /\ created \in Nat /\ completed \in Nat
      /\ Good(chunks, created) /\ DoneBy(chunks, completed)
  BY <1>1 DEF UploadInv, TypeOK, HeapInv, FenceInv
<1>3. kept = {}
  BY <1>2, ReclaimGood
<1>4. Cardinality(kept) = 0
  BY <1>3, FS_EmptySet
<1>5. chunks' = <<>>
  <2> DEFINE Kept(j) == CHOOSE i \in kept : Cardinality({k \in kept : k <= i}) = j
  <2>1. InUse(cs) = [j \in 1 .. Cardinality(kept) |-> cs[Kept(j)]]
    BY DEF InUse
  <2>2. 1 .. Cardinality(kept) = {}
    <3> HIDE DEF kept
    <3> QED
      BY <1>4
  <2> QED
    BY <1>1, <2>1, <2>2
<1>6. totalCapacity' = 0
  BY <1>1, <1>5, EmptySum
<1>7. pending = {}
  <2> SUFFICES ASSUME NEW p \in pending PROVE FALSE
    OBVIOUS
  <2>1. p.fence > completed /\ Backed(p, chunks)
    BY DEF UploadInv, HeapInv
  <2>2. PICK i \in 1 .. Len(chunks) : \E k \in 1 .. Len(chunks[i].allocations) :
          p = CopyOf(chunks[i].resource, chunks[i].allocations[k])
    BY <2>1 DEF Backed
  <2>3. PICK k \in 1 .. Len(chunks[i].allocations) :
          p = CopyOf(chunks[i].resource, chunks[i].allocations[k])
    BY <2>2
  <2>4. p.fence = chunks[i].allocations[k].fence
    BY <2>3 DEF CopyOf
  <2>5. p.fence \in Nat /\ p.fence <= completed
    BY <1>2, <2>4, ChunkFences DEF DoneBy
  <2> QED
    BY <1>2, <2>1, <2>5
<1> QED
  BY <1>5, <1>6, <1>7

\* One step per action of the heap.
LEMMA NextInv == UploadInv /\ [Next]_vars => UploadInv'
<1> SUFFICES ASSUME UploadInv, [Next]_vars PROVE UploadInv'
  OBVIOUS
<1>0. /\ lastFence \in Nat /\ completed \in Nat /\ completed <= lastFence
      /\ Good(chunks, created)
  BY DEF UploadInv, TypeOK, HeapInv
<1>1. ASSUME NEW size \in Sizes, NEW flush \in BOOLEAN, BeginUploadToGpu(size, flush)
      PROVE  UploadInv'
  BY <1>1, UploadStep
<1>2. ASSUME NEW size \in Sizes, BeginUploadToGpuFails(size) PROVE UploadInv'
  BY <1>2, FailedStep
<1>3. CASE RecordOther
  BY <1>3 DEF RecordOther, UploadInv, TypeOK, HeapInv, FenceInv, Good, Backed, DoneBy,
              heapVars, sessionVars, historyVars
<1>4. CASE Submit
  <2>1. /\ lastFence' = lastFence + 1 /\ recorded' = FALSE /\ ~waiting
        /\ UNCHANGED <<heapVars, completed, sessionVars, historyVars>>
    BY <1>4 DEF Submit
  <2>2. DoneBy(chunks, lastFence') /\ DoneBy(chunks, lastFence' + 1)
    BY <1>0, <2>1, DoneLater DEF UploadInv, FenceInv
  <2>3. TypeOK'
    <3>1. lastFence' \in Nat /\ completed' \in 0 .. lastFence'
      BY <1>0, <2>1
    <3>2. /\ recorded' \in BOOLEAN /\ waiting' \in BOOLEAN /\ sessionInitialized' \in BOOLEAN
          /\ pending' \subseteq Copy /\ overwritten' \in BOOLEAN
          /\ chunks' \in Seq(Chunk) /\ totalCapacity' \in Nat /\ created' \in Nat
      BY <2>1 DEF UploadInv, TypeOK, heapVars, sessionVars, historyVars
    <3> QED
      BY <3>1, <3>2 DEF TypeOK
  <2>4. HeapInv'
    BY <2>1 DEF UploadInv, HeapInv, Good, Backed, heapVars, historyVars
  <2>5. chunks' = chunks /\ waiting' \in {waiting, TRUE}
    BY <2>1 DEF heapVars, sessionVars
  <2>6. FenceInv'
    BY <2>1, <2>2, <2>5 DEF FenceInv, DoneBy
  <2> QED
    BY <2>3, <2>4, <2>6 DEF UploadInv
<1>5. CASE OnSessionInitializationEnd
  <2>1. /\ lastFence' = lastFence + (IF recorded THEN 1 ELSE 0) /\ recorded' = FALSE /\ waiting' = TRUE
        /\ UNCHANGED <<heapVars, completed, sessionInitialized, historyVars>>
    BY <1>5 DEF OnSessionInitializationEnd
  <2>2. DoneBy(chunks, lastFence') /\ DoneBy(chunks, lastFence' + 1)
    <3>1. DoneBy(chunks, lastFence')
      BY <1>0, <2>1 DEF UploadInv, FenceInv
    <3>2. lastFence' \in Nat
      BY <1>0, <2>1
    <3> QED
      BY <1>0, <3>1, <3>2, DoneLater
  <2>3. TypeOK'
    <3>1. lastFence' \in Nat /\ completed' \in 0 .. lastFence'
      BY <1>0, <2>1
    <3>2. /\ recorded' \in BOOLEAN /\ waiting' \in BOOLEAN /\ sessionInitialized' \in BOOLEAN
          /\ pending' \subseteq Copy /\ overwritten' \in BOOLEAN
          /\ chunks' \in Seq(Chunk) /\ totalCapacity' \in Nat /\ created' \in Nat
      BY <2>1 DEF UploadInv, TypeOK, heapVars, sessionVars, historyVars
    <3> QED
      BY <3>1, <3>2 DEF TypeOK
  <2>4. HeapInv'
    BY <2>1 DEF UploadInv, HeapInv, Good, Backed, heapVars, historyVars
  <2>5. chunks' = chunks /\ waiting' \in {waiting, TRUE}
    BY <2>1 DEF heapVars, sessionVars
  <2>6. FenceInv'
    BY <2>1, <2>2, <2>5 DEF FenceInv, DoneBy
  <2> QED
    BY <2>3, <2>4, <2>6 DEF UploadInv
<1>6. CASE SessionInitialized
  <2>1. chunks' = <<>> /\ totalCapacity' = 0 /\ pending = {}
    BY <1>6, TrimEmpties
  <2>2. /\ waiting' = FALSE /\ sessionInitialized' = TRUE
        /\ UNCHANGED <<created, lastFence, completed, recorded, historyVars>>
    BY <1>6 DEF SessionInitialized
  <2>3. Good(<<>>, created) /\ \A f : DoneBy(<<>>, f)
    BY DEF Good, DoneBy
  <2>4. TypeOK' /\ HeapInv'
    BY <2>1, <2>2, <2>3 DEF UploadInv, TypeOK, HeapInv, Good, historyVars
  <2>5. FenceInv'
    BY <2>1, <2>2, <2>3 DEF FenceInv
  <2> QED
    BY <2>4, <2>5 DEF UploadInv
<1>7. CASE GpuComplete
  <2>1. /\ completed < lastFence /\ completed' = completed + 1
        /\ pending' = {p \in pending : p.fence > completed'}
        /\ UNCHANGED <<heapVars, lastFence, recorded, sessionVars, overwritten>>
    BY <1>7 DEF GpuComplete
  <2> QED
    BY <1>0, <2>1 DEF UploadInv, TypeOK, HeapInv, FenceInv, Good, Backed, DoneBy, heapVars, sessionVars
<1>8. CASE UNCHANGED vars
  BY <1>8 DEF UploadInv, TypeOK, HeapInv, FenceInv, Good, Backed, DoneBy,
              vars, heapVars, sessionVars, historyVars
<1> QED
  BY <1>1, <1>2, <1>3, <1>4, <1>5, <1>6, <1>7, <1>8 DEF Next

\* The inductive invariant holds of every reachable state.
LEMMA Invariant == Spec => []UploadInv
  BY InitInv, NextInv, PTL DEF Spec

-----------------------------------------------------------------------------
(* The theorems *)

\* Every reachable state of the heap is well typed, for any sizes and alignment.
THEOREM TypeCorrect == Spec => []TypeOK
<1>1. UploadInv => TypeOK
  BY DEF UploadInv
<1> QED
  BY <1>1, Invariant, PTL

\* BeginUploadToGpu never gives out a range that the GPU has still to copy from.
THEOREM UploadsKept == Spec => []UploadsDisjoint
<1>1. UploadInv => UploadsDisjoint
  BY DEF UploadInv, HeapInv, UploadsDisjoint
<1> QED
  BY <1>1, Invariant, PTL

\* If no upload is larger than the largest chunk, data waiting to be copied lies in a
\* chunk of the pool.
THEOREM UploadsContained == ASSUME SizesFit PROVE Spec => []UploadsInBounds
<1>1. UploadInv => UploadsInBounds
  <2> SUFFICES ASSUME UploadInv, NEW p \in pending
               PROVE  \E j \in DOMAIN chunks :
                        chunks[j].resource = p.resource /\ End(p) <= chunks[j].capacity
    BY DEF UploadsInBounds
  <2>1. Backed(p, chunks) /\ Good(chunks, created)
    BY DEF UploadInv, HeapInv
  <2>2. PICK j \in 1 .. Len(chunks) : \E k \in 1 .. Len(chunks[j].allocations) :
          p = CopyOf(chunks[j].resource, chunks[j].allocations[k])
    BY <2>1 DEF Backed
  <2>3. PICK k \in 1 .. Len(chunks[j].allocations) :
          p = CopyOf(chunks[j].resource, chunks[j].allocations[k])
    BY <2>2
  <2>4. p.resource = chunks[j].resource /\ End(p) = End(chunks[j].allocations[k])
    BY <2>3 DEF CopyOf, End
  <2>5. End(chunks[j].allocations[k]) <= chunks[j].capacity
    BY <2>1 DEF Good, GoodChunk
  <2>6. j \in DOMAIN chunks
    BY <2>1 DEF Good
  <2> QED
    BY <2>4, <2>5, <2>6
<1> QED
  BY <1>1, Invariant, PTL

\* Reclaiming changes no capacity, and a reservation adds that of its new chunk.
LEMMA ReservedSum ==
  ASSUME UploadInv, NEW size \in Sizes, NEW r, r = Reserve(ReclaimAllocations(chunks), size)
  PROVE  /\ Capacity(ReclaimAllocations(chunks)) = Capacity(chunks)
         /\ Len(r.chunks) \in Nat /\ DOMAIN r.chunks = 1 .. Len(r.chunks)
         /\ Capacity(r.chunks) =
              Capacity(chunks) + IF Len(r.chunks) > Len(chunks) THEN Last(r.chunks).capacity ELSE 0
         /\ \A i \in 1 .. Len(r.chunks) :
              r.chunks[i].capacity \in Nat /\ "allocations" \in DOMAIN r.chunks[i]
<1> DEFINE cs == ReclaimAllocations(chunks)
<1>1. chunks \in Seq(Chunk) /\ completed \in Nat /\ created \in Nat /\ totalCapacity \in Nat
  BY DEF UploadInv, TypeOK
<1>2. Good(cs, created)
  BY <1>1, ReclaimGood DEF UploadInv, HeapInv
<1>3. /\ Len(cs) = Len(chunks) /\ Len(chunks) \in Nat
      /\ \A i \in 1 .. Len(chunks) : cs[i].capacity = chunks[i].capacity
  <2>1. \A i \in 1 .. Len(chunks) : chunks[i] \in Chunk
    BY <1>1
  <2> QED
    BY <1>1, <2>1 DEF ReclaimAllocations, Chunk
<1>4. Capacity(cs) = Capacity(chunks)
  BY <1>3, SameSum
<1> HIDE DEF cs
<1>5. cs \in Seq(Chunk)
  BY <1>2 DEF Good
<1>6. r.chunks = cs \/ r.chunks = Append(cs, CreateChunk(size))
  BY DEF Reserve, cs
<1>7. CreateChunk(size) \in Chunk
  BY <1>1, NewChunkFits
<1>8. r.chunks \in Seq(Chunk)
  BY <1>5, <1>6, <1>7
<1>9. \A i \in 1 .. Len(r.chunks) :
        r.chunks[i].capacity \in Nat /\ "allocations" \in DOMAIN r.chunks[i]
  <2>1. \A i \in 1 .. Len(r.chunks) : r.chunks[i] \in Chunk
    BY <1>8
  <2> QED
    BY <2>1 DEF Chunk
<1>10. CASE r.chunks = cs
  <2>1. ~(Len(r.chunks) > Len(chunks)) /\ Len(r.chunks) \in Nat
    BY <1>3, <1>10
  <2>2. \A f \in Nat : f + 0 = f
    OBVIOUS
  <2>3. Capacity(chunks) \in Nat => Capacity(chunks) = Capacity(chunks) + 0
    BY <2>2
  <2> QED
    BY <1>4, <1>8, <1>9, <1>10, <2>1, <2>3, SumIsNumber, <1>1 DEF cs
<1>11. CASE r.chunks = Append(cs, CreateChunk(size))
  <2>1. /\ Len(r.chunks) = Len(cs) + 1 /\ Len(cs) \in Nat
        /\ \A i \in 1 .. Len(cs) : r.chunks[i].capacity = cs[i].capacity
        /\ Last(r.chunks) = r.chunks[Len(r.chunks)]
    BY <1>5, <1>7, <1>11 DEF Last
  <2>2. Capacity(r.chunks) = Capacity(cs) + r.chunks[Len(r.chunks)].capacity
    BY <2>1, LongerSum
  <2>3. Len(r.chunks) > Len(chunks)
    BY <1>3, <2>1
  <2> QED
    BY <1>4, <1>8, <1>9, <2>1, <2>2, <2>3 DEF cs
<1> QED
  BY <1>6, <1>10, <1>11

\* Trim and Reserve: the total capacity is that of the chunks, whatever failed half-way.
THEOREM TotalIsSum == Spec => []CapacityIsSum
<1>1. Init => CapacityIsSum
  BY EmptySum DEF Init, CapacityIsSum
<1>2. UploadInv /\ CapacityIsSum /\ [Next]_vars => CapacityIsSum'
  <2> SUFFICES ASSUME UploadInv, totalCapacity = Capacity(chunks), [Next]_vars
               PROVE  totalCapacity' = Capacity(chunks')
    BY DEF CapacityIsSum
  <2>1. ASSUME NEW size \in Sizes, NEW flush \in BOOLEAN, BeginUploadToGpu(size, flush)
        PROVE  totalCapacity' = Capacity(chunks')
    <3>1. PICK r : r = Reserve(ReclaimAllocations(chunks), size)
      OBVIOUS
    <3>2. PICK b : /\ chunks' = [r.chunks EXCEPT ![r.index].allocations = Append(@, b)]
                   /\ totalCapacity' = totalCapacity +
                        (IF Len(r.chunks) > Len(chunks) THEN Last(r.chunks).capacity ELSE 0)
      BY <2>1, <3>1 DEF BeginUploadToGpu, Reserved
    <3>3. /\ Len(r.chunks) \in Nat /\ DOMAIN r.chunks = 1 .. Len(r.chunks)
          /\ \A i \in 1 .. Len(r.chunks) :
               r.chunks[i].capacity \in Nat /\ "allocations" \in DOMAIN r.chunks[i]
          /\ totalCapacity' = Capacity(r.chunks)
      BY <3>1, <3>2, ReservedSum
    <3>4. Len(chunks') = Len(r.chunks)
      BY <3>2, <3>3
    <3>5. \A i \in 1 .. Len(r.chunks) : chunks'[i].capacity = r.chunks[i].capacity
      BY <3>2, <3>3
    <3> QED
      BY <3>3, <3>4, <3>5, SameSum
  <2>2. ASSUME NEW size \in Sizes, BeginUploadToGpuFails(size)
        PROVE  totalCapacity' = Capacity(chunks')
    <3>1. PICK r : r = Reserve(ReclaimAllocations(chunks), size)
      OBVIOUS
    <3>2. \/ /\ chunks' = r.chunks
             /\ totalCapacity' = totalCapacity +
                  (IF Len(r.chunks) > Len(chunks) THEN Last(r.chunks).capacity ELSE 0)
          \/ chunks' = ReclaimAllocations(chunks) /\ totalCapacity' = totalCapacity
      BY <2>2, <3>1 DEF BeginUploadToGpuFails, Reserved
    <3> QED
      BY <3>1, <3>2, ReservedSum
  <2>3. CASE SessionInitialized
    BY <2>3 DEF SessionInitialized, Trim
  <2>4. CASE RecordOther \/ Submit \/ OnSessionInitializationEnd \/ GpuComplete \/ UNCHANGED vars
    BY <2>4 DEF RecordOther, Submit, OnSessionInitializationEnd, GpuComplete, vars, heapVars
  <2> QED
    BY <2>1, <2>2, <2>3, <2>4 DEF Next
<1> QED
  BY <1>1, <1>2, Invariant, PTL DEF Spec

\* The initialization of the session ends with no chunk left and a capacity of zero.
THEOREM StagingIsReleased == Spec => InitializationReleasesStaging
<1>1. UploadInv /\ [Next]_vars => [StagingReleased]_vars
  <2> SUFFICES ASSUME UploadInv, Next, sessionInitialized', ~sessionInitialized
               PROVE  chunks' = <<>> /\ totalCapacity' = 0
    BY DEF StagingReleased
  <2>1. SessionInitialized
    BY DEF Next, BeginUploadToGpu, BeginUploadToGpuFails, RecordOther, Submit,
           OnSessionInitializationEnd, GpuComplete, sessionVars
  <2> QED
    BY <2>1, TrimEmpties
<1> QED
  BY <1>1, Invariant, PTL DEF Spec, InitializationReleasesStaging

-----------------------------------------------------------------------------
(* The contract of ResourceLifetime *)

Existing == {chunks[i].resource : i \in DOMAIN chunks}
Used == {p.resource : p \in pending}
UsesExist == Used \subseteq Existing /\ Existing \subseteq Nat

\* The chunk of a copy that is not executed yet exists.
LEMMA UsedExist ==
  ASSUME UploadInv
  PROVE  UsesExist
<1>1. Good(chunks, created) /\ DOMAIN chunks = 1 .. Len(chunks)
  BY DEF UploadInv, HeapInv, Good
<1>2. Existing \subseteq Nat
  <2>1. \A i \in 1 .. Len(chunks) : chunks[i] \in Chunk
    BY <1>1 DEF Good
  <2> QED
    BY <1>1, <2>1 DEF Existing, Chunk
<1>3. ASSUME NEW p \in pending PROVE p.resource \in Existing
  <2>1. PICK i \in 1 .. Len(chunks) : \E k \in 1 .. Len(chunks[i].allocations) :
          p = CopyOf(chunks[i].resource, chunks[i].allocations[k])
    BY DEF UploadInv, HeapInv, Backed
  <2>2. p.resource = chunks[i].resource
    BY <2>1 DEF CopyOf
  <2> QED
    BY <1>1, <2>2 DEF Existing
<1> QED
  BY <1>2, <1>3 DEF Used, UsesExist

\* Only the GPU finishes copies, and it releases no chunk.
LEMMA LifetimeStep ==
  UploadInv /\ UsesExist' /\ [Next]_vars => [Lifetime!Next]_(Lifetime!vars)
<1> SUFFICES ASSUME UploadInv, UsesExist', [Next]_vars
             PROVE  Lifetime!Next \/ UNCHANGED <<Existing, Used>>
  BY DEF Lifetime!vars, Existing, Used
<1>1. Used' \subseteq Existing' /\ Existing' \subseteq Nat
  BY DEF UsesExist
<1>2. CASE Used \subseteq Used'
  BY <1>1, <1>2 DEF Lifetime!Next, Lifetime!CpuStep, Existing, Used
<1>3. CASE GpuComplete
  <2>1. Used' \subseteq Used /\ Existing' = Existing
    BY <1>3 DEF GpuComplete, heapVars, Used, Existing
  <2> QED
    BY <2>1 DEF Lifetime!Next, Lifetime!GpuStep, Existing, Used
<1>4. CASE Next /\ ~GpuComplete
  <2>1. pending \subseteq pending'
    BY <1>4 DEF Next, BeginUploadToGpu, BeginUploadToGpuFails, RecordOther, Submit,
                OnSessionInitializationEnd, SessionInitialized, historyVars
  <2> QED
    BY <1>2, <2>1 DEF Used
<1>5. CASE UNCHANGED vars
  BY <1>5 DEF vars, heapVars, historyVars, Existing, Used
<1> QED
  BY <1>3, <1>4, <1>5

\* The upload heap keeps the contract the execution context keeps: Trim, a failed upload
\* and an upload of any size release no chunk that a copy still reads.
THEOREM Implements == Spec => LifetimeSpec
<1>1. Init => Lifetime!Init
  BY DEF Init, Lifetime!Init
<1> QED
  BY <1>1, Invariant, UsedExist, LifetimeStep, PTL DEF Spec, LifetimeSpec, Lifetime!Spec
=============================================================================
