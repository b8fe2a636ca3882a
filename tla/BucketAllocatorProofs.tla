------------------------ MODULE BucketAllocatorProofs ------------------------
(***************************************************************************)
(* Proofs about BucketAllocator: called from one thread, whatever is       *)
(* allocated and freed, every resource has one owner and waits in the      *)
(* bucket of its width.                                                    *)
(***************************************************************************)
EXTENDS BucketAllocator, NaturalsInduction, WellFoundedInduction, SequenceTheorems, TLAPS

\* A set of numbers has a least one.
LEMMA LeastNumber ==
  ASSUME NEW S \in SUBSET Nat, S # {}
  PROVE  Min(S) \in S
<1>1. PICK n \in S : \A m \in S : ~(<<m, n>> \in OpToRel(<, Nat))
  BY NatLessThanWellFounded, WFMin
<1>2. \A m \in S : ~(m < n)
  BY <1>1 DEF OpToRel
<1>3. \E k \in S : \A m \in S : k <= m
  BY <1>2
<1> QED
  BY <1>3 DEF Min

Requests == {Request(s) : s \in Sizes}

\* Buckets are numbered from zero.
LEMMA IndexIsNumber ==
  ASSUME NEW size \in Requests
  PROVE  size \in Nat \ {0} /\ GetBucketIndexFromSize(size) \in Nat
<1>1. PICK s \in Sizes : size = Request(s)
  BY DEF Requests
<1>2. s \in Nat /\ MinExponent \in Nat
  BY AllocatorAssumption
<1>3. size \in Nat \ {0}
  <2>1. \E x \in {1, s} : \A y \in {1, s} : x >= y
    BY <1>2
  <2>2. size \in {1, s} /\ \A y \in {1, s} : size >= y
    BY <1>1, <2>1 DEF Request, Max
  <2> QED
    BY <1>2, <2>2
<1> DEFINE E == {e \in 0 .. size : 2^e >= size}
           exponent == Min(E)
<1>4. E \in SUBSET Nat
  OBVIOUS
<1>5. E # {}
  BY <1>1, ExponentAssumption
<1>6. exponent \in Nat
  BY <1>4, <1>5, LeastNumber
<1> HIDE DEF exponent
<1>7. \E x \in {exponent, MinExponent} : \A y \in {exponent, MinExponent} : x >= y
  BY <1>2, <1>6
<1>8. /\ Max({exponent, MinExponent}) \in {exponent, MinExponent}
      /\ \A y \in {exponent, MinExponent} : Max({exponent, MinExponent}) >= y
  BY <1>7 DEF Max
<1>9. Max({exponent, MinExponent}) - MinExponent \in Nat
  BY <1>2, <1>6, <1>8
<1> QED
  BY <1>3, <1>9 DEF GetBucketIndexFromSize, exponent

\* A bucket is wide enough for what is rounded up to it.
LEMMA BucketHolds ==
  ASSUME NEW size \in Requests
  PROVE  BucketSize(size) >= size
<1>1. PICK s \in Sizes : size = Request(s)
  BY DEF Requests
<1> DEFINE E == {e \in 0 .. size : 2^e >= size}
           exponent == Min(E)
           m == Max({exponent, MinExponent})
<1>2. size \in Nat /\ MinExponent \in Nat /\ E \in SUBSET Nat
  BY IndexIsNumber, AllocatorAssumption
<1>3. E # {}
  BY <1>1, ExponentAssumption
<1>4. exponent \in Nat /\ 2^exponent >= size
  <2>1. exponent \in E
    BY <1>2, <1>3, LeastNumber
  <2> HIDE DEF exponent
  <2> QED
    BY <1>2, <2>1
<1>5. BucketSize(size) = 2^(m - MinExponent + MinExponent)
  BY DEF BucketSize, GetBucketSizeFromIndex, GetBucketIndexFromSize
<1> HIDE DEF exponent
<1>6. \E x \in {exponent, MinExponent} : \A y \in {exponent, MinExponent} : x >= y
  BY <1>2, <1>4
<1>7. m \in {exponent, MinExponent} /\ \A y \in {exponent, MinExponent} : m >= y
  BY <1>6 DEF Max
<1> HIDE DEF m
<1>8. m \in Nat /\ m - MinExponent + MinExponent = m
  BY <1>2, <1>4, <1>7
<1>9. BucketSize(size) = 2^m
  BY <1>5, <1>8
<1>10. CASE m = exponent
  BY <1>4, <1>9, <1>10
<1>11. CASE m = MinExponent
  <2>1. exponent \in 0 .. MinExponent /\ MinExponent \in 0 .. MinExponent
    BY <1>2, <1>4, <1>7, <1>11
  <2>2. 2^exponent \in Nat /\ 2^MinExponent \in Nat /\ 2^exponent <= 2^MinExponent
    BY <2>1, ExponentAssumption
  <2>3. \A x, y \in Nat : x >= size /\ x <= y => y >= size
    BY <1>2
  <2> QED
    BY <1>4, <1>9, <1>11, <2>2, <2>3
<1> QED
  BY <1>7, <1>10, <1>11

\* Buckets have a width.
LEMMA BucketWidth ==
  ASSUME NEW size \in Requests
  PROVE  BucketSize(size) \in Nat
  BY ExponentAssumption DEF Requests

-----------------------------------------------------------------------------
(* The invariant *)

\* The pool p: in each bucket resources of its width, all of them different, created
\* so far and not queued for release.
GoodPool(p, n, q) ==
  /\ p \in Seq(Seq(Resource))
  /\ \A b \in 1 .. Len(p) : \A i \in 1 .. Len(p[b]) :
       /\ p[b][i].id <= n /\ p[b][i].id \notin q
       /\ p[b][i].width = GetBucketSizeFromIndex(b - 1)
  /\ \A b, c \in 1 .. Len(p) : \A i \in 1 .. Len(p[b]) : \A j \in 1 .. Len(p[c]) :
       p[b][i].id = p[c][j].id => b = c /\ i = j

\* The live allocations: different resources, created so far and not queued.
GoodLive(l, n, q) ==
  /\ \A a \in l : /\ a.resource \in Resource /\ a.size \in Requests
                  /\ a.resource.id <= n /\ a.resource.id \notin q
  /\ \A a, c \in l : a.resource.id = c.resource.id => a = c

\* No resource is in the pool and in use.
Apart(p, l) ==
  \A a \in l : \A b \in 1 .. Len(p) : \A i \in 1 .. Len(p[b]) : p[b][i].id # a.resource.id

\* A resource that was moved out of its bucket is the bucket's last one.
TakingInv(t) ==
  \/ taking[t] = Nothing
  \/ /\ taking[t].bucket \in 1 .. Len(pool) /\ pool[taking[t].bucket] # <<>>
     /\ taking[t].resource = Last(pool[taking[t].bucket]) /\ taking[t].size \in Requests

OwnInv(t) ==
  /\ created \in Nat /\ \A x \in queued : x \in Nat /\ x <= created
  /\ GoodPool(pool, created, queued) /\ GoodLive(live, created, queued) /\ Apart(pool, live)
  /\ TakingInv(t) /\ t \in DOMAIN taking

\* Buckets that hold nothing.
LEMMA EmptyBuckets ==
  ASSUME NEW m \in Nat
  PROVE  [i \in 1 .. m |-> <<>>] \in Seq(Seq(Resource)) /\ Len([i \in 1 .. m |-> <<>>]) = m
<1> DEFINE f == [i \in 1 .. m |-> <<>>]
<1>1. <<>> \in Seq(Resource)
  OBVIOUS
<1>2. f \in [1 .. m -> Seq(Resource)]
  BY <1>1
<1> HIDE DEF f
<1>3. f \in Seq(Seq(Resource)) /\ Len(f) = m
  BY <1>2, LenProperties, SeqDef
<1> QED
  BY <1>3 DEF f

\* A resource of the pool is in one place of it.
LEMMA OneOf ==
  ASSUME NEW p, NEW n, NEW q, GoodPool(p, n, q),
         NEW b \in 1 .. Len(p), NEW c \in 1 .. Len(p), NEW i \in 1 .. Len(p[b]), NEW j \in 1 .. Len(p[c]),
         p[b][i].id = p[c][j].id
  PROVE  b = c /\ i = j
<1>1. \A d, e \in 1 .. Len(p) : \A k \in 1 .. Len(p[d]) : \A l \in 1 .. Len(p[e]) :
        p[d][k].id = p[e][l].id => d = e /\ k = l
  BY Zenon DEF GoodPool
<1> QED
  BY ONLY <1>1, b \in 1 .. Len(p), c \in 1 .. Len(p), i \in 1 .. Len(p[b]), j \in 1 .. Len(p[c]),
          p[b][i].id = p[c][j].id, Zenon

\* The pool grows by empty buckets.
LEMMA Grown ==
  ASSUME NEW size \in Requests, created \in Nat, GoodPool(pool, created, queued)
  PROVE  /\ GoodPool(PoolFor(size), created, queued) /\ Len(pool) <= Len(PoolFor(size))
         /\ \A l : Apart(pool, l) => Apart(PoolFor(size), l)
<1> DEFINE n == GetBucketIndexFromSize(size) + 1
           more == [i \in 1 .. n - Len(pool) |-> <<>>]
           grown == PoolFor(size)
<1>1. n \in Nat /\ Len(pool) \in Nat /\ pool \in Seq(Seq(Resource))
  BY IndexIsNumber DEF GoodPool
<1>2. CASE Len(pool) >= n
  <2>1. grown = pool
    BY <1>2 DEF PoolFor
  <2> QED
    BY <1>1, <2>1
<1>3. CASE ~(Len(pool) >= n)
  <2>1. grown = pool \o more
    BY <1>3 DEF PoolFor
  <2>2. n - Len(pool) \in Nat /\ <<>> \in Seq(Resource)
    BY <1>1, <1>3
  <2> HIDE DEF n
  <2>3. more \in Seq(Seq(Resource)) /\ Len(more) = n - Len(pool)
    <3>1. \A m \in Nat : [i \in 1 .. m |-> <<>>] \in Seq(Seq(Resource)) /\ Len([i \in 1 .. m |-> <<>>]) = m
      BY EmptyBuckets
    <3> QED
      BY <2>2, <3>1
  <2>9. \A i \in 1 .. n - Len(pool) : more[i] = <<>>
    OBVIOUS
  <2> HIDE DEF more
  <2>4. /\ grown \in Seq(Seq(Resource)) /\ Len(grown) = Len(pool) + Len(more)
        /\ \A b \in 1 .. Len(pool) : grown[b] = pool[b]
        /\ \A b \in 1 .. Len(grown) : b > Len(pool) => grown[b] = more[b - Len(pool)]
    BY <1>1, <2>1, <2>3, ConcatProperties
  <2> HIDE DEF grown
  <2>5. \A b \in 1 .. Len(grown) : b > Len(pool) => grown[b] = <<>>
    <3> SUFFICES ASSUME NEW b \in 1 .. Len(grown), b > Len(pool) PROVE grown[b] = <<>>
      OBVIOUS
    <3>1. b - Len(pool) \in 1 .. n - Len(pool)
      BY <1>1, <2>2, <2>3, <2>4
    <3> QED
      BY <2>4, <2>9, <3>1
  <2>6. \A b \in 1 .. Len(grown) : b \in 1 .. Len(pool) \/ b > Len(pool)
    BY <1>1, <2>2, <2>3, <2>4
  <2>7. \A b \in 1 .. Len(grown) : \A i \in 1 .. Len(grown[b]) :
          b \in 1 .. Len(pool) /\ grown[b] = pool[b] /\ i \in 1 .. Len(pool[b])
    BY <2>4, <2>5, <2>6
  <2>8. GoodPool(grown, created, queued)
    <3>1. \A b \in 1 .. Len(grown) : \A i \in 1 .. Len(grown[b]) :
            /\ grown[b][i].id <= created /\ grown[b][i].id \notin queued
            /\ grown[b][i].width = GetBucketSizeFromIndex(b - 1)
      BY <2>7 DEF GoodPool
    <3>2. \A b, c \in 1 .. Len(grown) : \A i \in 1 .. Len(grown[b]) : \A j \in 1 .. Len(grown[c]) :
            grown[b][i].id = grown[c][j].id => b = c /\ i = j
      <4> SUFFICES ASSUME NEW b \in 1 .. Len(grown), NEW c \in 1 .. Len(grown),
                          NEW i \in 1 .. Len(grown[b]), NEW j \in 1 .. Len(grown[c]),
                          grown[b][i].id = grown[c][j].id
                   PROVE  b = c /\ i = j
        OBVIOUS
      <4>1. b \in 1 .. Len(pool) /\ grown[b] = pool[b] /\ i \in 1 .. Len(pool[b])
        BY <2>7
      <4>2. c \in 1 .. Len(pool) /\ grown[c] = pool[c] /\ j \in 1 .. Len(pool[c])
        BY <2>7
      <4>3. pool[b][i].id = pool[c][j].id
        BY <4>1, <4>2
      <4> QED
        BY ONLY <4>1, <4>2, <4>3, OneOf, GoodPool(pool, created, queued)
    <3> QED
      BY <2>4, <3>1, <3>2 DEF GoodPool
  <2>10. ASSUME NEW l, Apart(pool, l) PROVE Apart(grown, l)
    BY <2>7, <2>10 DEF Apart
  <2> QED
    BY <1>1, <2>2, <2>3, <2>4, <2>8, <2>10 DEF grown
<1> QED
  BY <1>2, <1>3

\* A resource that nothing owns may enter the bucket of its width.
LEMMA Pushed ==
  ASSUME NEW p, NEW n \in Nat, NEW q, GoodPool(p, n, q), NEW b \in 1 .. Len(p), NEW r \in Resource,
         r.id <= n, r.id \notin q, r.width = GetBucketSizeFromIndex(b - 1),
         \A c \in 1 .. Len(p) : \A i \in 1 .. Len(p[c]) : p[c][i].id # r.id
  PROVE  /\ GoodPool([p EXCEPT ![b] = Append(@, r)], n, q)
         /\ \A l : Apart(p, l) /\ (\A a \in l : a.resource.id # r.id)
                   => Apart([p EXCEPT ![b] = Append(@, r)], l)
<1> DEFINE s == [p EXCEPT ![b] = Append(@, r)]
<1>1. p \in Seq(Seq(Resource)) /\ Len(p) \in Nat /\ p[b] \in Seq(Resource) /\ Len(p[b]) \in Nat
  BY DEF GoodPool
<1>2. /\ Append(p[b], r) \in Seq(Resource) /\ Len(Append(p[b], r)) = Len(p[b]) + 1
      /\ Append(p[b], r)[Len(p[b]) + 1] = r
      /\ \A i \in 1 .. Len(p[b]) : Append(p[b], r)[i] = p[b][i]
  BY <1>1, AppendProperties
<1>3. /\ s \in Seq(Seq(Resource)) /\ Len(s) = Len(p) /\ s[b] = Append(p[b], r)
      /\ \A c \in 1 .. Len(p) : c # b => s[c] = p[c]
  BY <1>1, <1>2
<1> HIDE DEF s
<1>4. \A c \in 1 .. Len(p) : \A i \in 1 .. Len(s[c]) :
        \/ i \in 1 .. Len(p[c]) /\ s[c][i] = p[c][i]
        \/ c = b /\ i = Len(p[b]) + 1 /\ s[c][i] = r
  <2> SUFFICES ASSUME NEW c \in 1 .. Len(p), NEW i \in 1 .. Len(s[c])
               PROVE  \/ i \in 1 .. Len(p[c]) /\ s[c][i] = p[c][i]
                      \/ c = b /\ i = Len(p[b]) + 1 /\ s[c][i] = r
    OBVIOUS
  <2>1. CASE c = b
    <3>1. i \in 1 .. Len(p[b]) \/ i = Len(p[b]) + 1
      BY <1>1, <1>2, <1>3, <2>1
    <3> QED
      BY <1>2, <1>3, <2>1, <3>1
  <2>2. CASE c # b
    BY <1>3, <2>2
  <2> QED
    BY <2>1, <2>2
<1>5. \A c \in 1 .. Len(s) : \A i \in 1 .. Len(s[c]) :
        /\ s[c][i].id <= n /\ s[c][i].id \notin q
        /\ s[c][i].width = GetBucketSizeFromIndex(c - 1)
  BY <1>3, <1>4 DEF GoodPool
<1>6. \A c, d \in 1 .. Len(s) : \A i \in 1 .. Len(s[c]) : \A j \in 1 .. Len(s[d]) :
        s[c][i].id = s[d][j].id => c = d /\ i = j
  <2> SUFFICES ASSUME NEW c \in 1 .. Len(s), NEW d \in 1 .. Len(s), NEW i \in 1 .. Len(s[c]),
                      NEW j \in 1 .. Len(s[d]), s[c][i].id = s[d][j].id
               PROVE  c = d /\ i = j
    OBVIOUS
  <2>1. CASE i \in 1 .. Len(p[c]) /\ s[c][i] = p[c][i] /\ j \in 1 .. Len(p[d]) /\ s[d][j] = p[d][j]
    <3>1. c \in 1 .. Len(p) /\ d \in 1 .. Len(p) /\ p[c][i].id = p[d][j].id
      BY <1>3, <2>1
    <3> QED
      BY ONLY <2>1, <3>1, OneOf, GoodPool(p, n, q)
  <2>2. CASE i \in 1 .. Len(p[c]) /\ s[c][i] = p[c][i] /\ s[d][j] = r
    BY <1>3, <2>2
  <2>3. CASE s[c][i] = r /\ j \in 1 .. Len(p[d]) /\ s[d][j] = p[d][j]
    BY <1>3, <2>3
  <2>4. CASE c = b /\ i = Len(p[b]) + 1 /\ d = b /\ j = Len(p[b]) + 1
    BY <2>4
  <2> QED
    BY <1>3, <1>4, <2>1, <2>2, <2>3, <2>4
<1>7. ASSUME NEW l, Apart(p, l), \A a \in l : a.resource.id # r.id
      PROVE  Apart(s, l)
  BY <1>3, <1>4, <1>7 DEF Apart
<1>8. GoodPool(s, n, q)
  BY <1>3, <1>5, <1>6 DEF GoodPool
<1> QED
  BY <1>7, <1>8 DEF s

\* The last resource of a bucket is nowhere else once it is popped.
LEMMA Popped ==
  ASSUME NEW p, NEW n \in Nat, NEW q, GoodPool(p, n, q), NEW b \in 1 .. Len(p), p[b] # <<>>
  PROVE  /\ GoodPool([p EXCEPT ![b] = Front(@)], n, q)
         /\ Last(p[b]) \in Resource /\ Last(p[b]).id <= n /\ Last(p[b]).id \notin q
         /\ \A l : Apart(p, l) => /\ \A a \in l : a.resource.id # Last(p[b]).id
                                  /\ Apart([p EXCEPT ![b] = Front(@)], l)
         /\ \A a : a.resource = Last(p[b]) => Apart([p EXCEPT ![b] = Front(@)], {a})
<1> DEFINE s == [p EXCEPT ![b] = Front(@)]
           m == Len(p[b])
           r == Last(p[b])
<1>1. p \in Seq(Seq(Resource)) /\ Len(p) \in Nat /\ p[b] \in Seq(Resource) /\ m \in Nat /\ m >= 1
  BY DEF GoodPool
<1>2. r = p[b][m] /\ r \in Resource /\ m \in 1 .. m
  BY <1>1 DEF Last
<1>3. Front(p[b]) \in Seq(Resource) /\ Len(Front(p[b])) = m - 1
      /\ \A i \in 1 .. m - 1 : Front(p[b])[i] = p[b][i]
  <2> HIDE DEF m
  <2>1. PICK k \in Nat : k = m - 1
    BY <1>1
  <2> USE DEF m
  <2>2. \A i \in 1 .. k : i \in 1 .. m
    BY <1>1, <2>1
  <2>3. \A i \in 1 .. k : p[b][i] \in Resource
    BY <1>1, <2>2
  <2>4. /\ SubSeq(p[b], 1, k) \in Seq(Resource)
        /\ Len(SubSeq(p[b], 1, k)) = IF 1 <= k THEN k - 1 + 1 ELSE 0
        /\ \A i \in 1 .. k - 1 + 1 : SubSeq(p[b], 1, k)[i] = p[b][1 + i - 1]
    BY <2>3, SubSeqProperties
  <2>5. Len(SubSeq(p[b], 1, k)) = k /\ \A i \in 1 .. k : SubSeq(p[b], 1, k)[i] = p[b][i]
    BY <2>4
  <2> QED
    BY <2>1, <2>4, <2>5 DEF Front
<1>4. /\ s \in Seq(Seq(Resource)) /\ Len(s) = Len(p) /\ s[b] = Front(p[b])
      /\ \A c \in 1 .. Len(p) : c # b => s[c] = p[c]
  BY <1>1, <1>3
<1> HIDE DEF s, m
<1>5. \A c \in 1 .. Len(p) : \A i \in 1 .. Len(s[c]) :
        i \in 1 .. Len(p[c]) /\ s[c][i] = p[c][i] /\ (c = b => i # m)
  <2> SUFFICES ASSUME NEW c \in 1 .. Len(p), NEW i \in 1 .. Len(s[c])
               PROVE  i \in 1 .. Len(p[c]) /\ s[c][i] = p[c][i] /\ (c = b => i # m)
    OBVIOUS
  <2>1. CASE c = b
    <3>1. i \in 1 .. m - 1 /\ i \in 1 .. m /\ i # m
      BY <1>1, <1>3, <1>4, <2>1
    <3> QED
      BY <1>3, <1>4, <2>1, <3>1 DEF m
  <2>2. CASE c # b
    BY <1>4, <2>2
  <2> QED
    BY <2>1, <2>2
<1>6. GoodPool(s, n, q)
  <2>1. \A c \in 1 .. Len(s) : \A i \in 1 .. Len(s[c]) :
          /\ s[c][i].id <= n /\ s[c][i].id \notin q
          /\ s[c][i].width = GetBucketSizeFromIndex(c - 1)
    BY <1>4, <1>5 DEF GoodPool
  <2>2. \A c, d \in 1 .. Len(s) : \A i \in 1 .. Len(s[c]) : \A j \in 1 .. Len(s[d]) :
          s[c][i].id = s[d][j].id => c = d /\ i = j
    <3> SUFFICES ASSUME NEW c \in 1 .. Len(s), NEW d \in 1 .. Len(s), NEW i \in 1 .. Len(s[c]),
                        NEW j \in 1 .. Len(s[d]), s[c][i].id = s[d][j].id
                 PROVE  c = d /\ i = j
      OBVIOUS
    <3>1. /\ c \in 1 .. Len(p) /\ d \in 1 .. Len(p) /\ i \in 1 .. Len(p[c]) /\ j \in 1 .. Len(p[d])
          /\ p[c][i].id = p[d][j].id
      BY <1>4, <1>5
    <3> QED
      BY ONLY <3>1, OneOf, GoodPool(p, n, q)
  <2> QED
    BY <1>4, <2>1, <2>2 DEF GoodPool
<1>7. r.id <= n /\ r.id \notin q
  BY <1>2 DEF GoodPool, m
<1>8. ASSUME NEW l, Apart(p, l)
      PROVE  (\A a \in l : a.resource.id # r.id) /\ Apart(s, l)
  BY <1>2, <1>4, <1>5, <1>8 DEF Apart, m
<1>9. ASSUME NEW a, a.resource = r PROVE Apart(s, {a})
  <2> SUFFICES ASSUME NEW c \in 1 .. Len(p), NEW i \in 1 .. Len(s[c]) PROVE s[c][i].id # r.id
    BY <1>4, <1>9 DEF Apart
  <2>1. i \in 1 .. Len(p[c]) /\ s[c][i] = p[c][i] /\ (c = b => i # m)
    BY <1>5
  <2> QED
    BY <1>2, <2>1 DEF GoodPool, m
<1> QED
  BY <1>2, <1>6, <1>7, <1>8, <1>9 DEF s

-----------------------------------------------------------------------------
(* Every step keeps it *)

\* Places of the pool hold resources.
LEMMA PoolIds ==
  ASSUME NEW p, NEW n, NEW q, GoodPool(p, n, q), NEW b \in 1 .. Len(p), NEW i \in 1 .. Len(p[b])
  PROVE  p[b][i] \in Resource /\ p[b][i].id \in Nat /\ p[b][i].id <= n
<1>1. p \in Seq(Seq(Resource))
  BY DEF GoodPool
<1>2. p[b] \in Seq(Resource)
  BY <1>1
<1>3. p[b][i] \in Resource
  BY <1>2
<1>4. p[b][i].id \in Nat
  BY <1>3 DEF Resource
<1>5. p[b][i].id <= n
  BY DEF GoodPool
<1> QED
  BY <1>3, <1>4, <1>5

\* What is good for the resources created so far is good for more of them.
LEMMA LaterPool ==
  ASSUME NEW p, NEW n \in Nat, NEW q, GoodPool(p, n, q)
  PROVE  GoodPool(p, n + 1, q)
<1>1. \A b \in 1 .. Len(p) : \A i \in 1 .. Len(p[b]) : p[b][i].id \in Nat /\ p[b][i].id <= n
  BY PoolIds
<1>2. \A b \in 1 .. Len(p) : \A i \in 1 .. Len(p[b]) : p[b][i].id <= n + 1
  BY ONLY <1>1, n \in Nat
<1> QED
  BY Zenon, <1>2 DEF GoodPool

\* A new resource, with an id of its own, may be given out.
LEMMA Created ==
  ASSUME NEW t, OwnInv(t), NEW p, GoodPool(p, created, queued), Apart(p, live),
         NEW w \in Nat, NEW size \in Requests
  PROVE  LET l == live \cup {[resource |-> NewResource(w), size |-> size]}
         IN  GoodPool(p, created + 1, queued) /\ GoodLive(l, created + 1, queued) /\ Apart(p, l)
<1> DEFINE r == NewResource(w)
           a == [resource |-> r, size |-> size]
           l == live \cup {a}
<1>1. created \in Nat /\ (\A x \in queued : x \in Nat /\ x <= created) /\ GoodLive(live, created, queued)
  BY DEF OwnInv
<1>2. r \in Resource /\ r.id = created + 1 /\ r.id \notin queued
  BY <1>1 DEF NewResource, Resource
<1> HIDE DEF r
<1>3. a.resource = r /\ a.size = size
  OBVIOUS
<1> HIDE DEF a
<1>4. \A c \in live : c.resource \in Resource /\ c.resource.id \in Nat /\ c.resource.id <= created
  BY <1>1 DEF GoodLive, Resource
<1>5. GoodLive(l, created + 1, queued)
  <2>1. \A c \in l : /\ c.resource \in Resource /\ c.size \in Requests
                    /\ c.resource.id <= created + 1 /\ c.resource.id \notin queued
    BY <1>1, <1>2, <1>3, <1>4 DEF GoodLive
  <2>2. \A c \in live : c.resource.id # a.resource.id
    BY <1>1, <1>2, <1>3, <1>4
  <2>3. \A c, d \in l : c.resource.id = d.resource.id => c = d
    BY <1>1, <2>2 DEF GoodLive
  <2> QED
    BY <2>1, <2>3 DEF GoodLive
<1>6. \A b \in 1 .. Len(p) : \A i \in 1 .. Len(p[b]) : p[b][i].id # r.id
  <2>1. \A b \in 1 .. Len(p) : \A i \in 1 .. Len(p[b]) : p[b][i].id \in Nat /\ p[b][i].id <= created
    BY PoolIds
  <2> QED
    BY <1>1, <1>2, <2>1
<1>7. Apart(p, l)
  BY <1>3, <1>6 DEF Apart
<1>8. GoodPool(p, created + 1, queued)
  BY <1>1, LaterPool
<1> QED
  BY <1>5, <1>7, <1>8 DEF a, r

\* At the start nothing is owned.
LEMMA InitOwns ==
  ASSUME NEW t, Threads = {t}, Init
  PROVE  OwnInv(t)
<1>1. pool = <<>> /\ live = {} /\ created = 0 /\ queued = {} /\ taking = [th \in {t} |-> Nothing]
  BY DEF Init
<1>2. GoodPool(pool, created, queued) /\ Apart(pool, live)
  BY <1>1 DEF GoodPool, Apart
<1> QED
  BY <1>1, <1>2 DEF OwnInv, GoodLive, TakingInv

\* AllocImpl: a resource is created for the bucket.
LEMMA AllocNewPooledStep ==
  ASSUME NEW t, OwnInv(t), NEW size \in Requests, AllocNewPooled(t, size)
  PROVE  OwnInv(t)'
<1>1. /\ pool' = PoolFor(size) /\ created' = created + 1 /\ queued' = queued /\ taking' = taking
      /\ live' = live \cup {[resource |-> NewResource(BucketSize(size)), size |-> size]}
      /\ taking[t] = Nothing
  BY DEF AllocNewPooled, Idle
<1>2. BucketSize(size) \in Nat
  BY BucketWidth
<1>3. GoodPool(pool', created, queued) /\ Apart(pool', live) /\ created \in Nat
  BY <1>1, Grown DEF OwnInv
<1>4. GoodPool(pool', created', queued') /\ GoodLive(live', created', queued') /\ Apart(pool', live')
  BY <1>1, <1>2, <1>3, Created
<1>5. created' \in Nat /\ \A x \in queued' : x \in Nat /\ x <= created'
  BY <1>1 DEF OwnInv
<1> QED
  BY <1>1, <1>4, <1>5 DEF OwnInv, TakingInv

\* AllocImpl, and the resource cannot be created.
LEMMA AllocPooledFailsStep ==
  ASSUME NEW t, OwnInv(t), NEW size \in Requests, AllocPooledFails(t, size)
  PROVE  OwnInv(t)'
<1>1. /\ pool' = PoolFor(size) /\ created' = created /\ queued' = queued /\ taking' = taking
      /\ live' = live /\ taking[t] = Nothing
  BY DEF AllocPooledFails, Idle
<1>2. GoodPool(pool', created, queued) /\ Apart(pool', live)
  BY <1>1, Grown DEF OwnInv
<1> QED
  BY <1>1, <1>2 DEF OwnInv, TakingInv

\* AllocImpl: a resource that is not pooled.
LEMMA AllocUnpooledStep ==
  ASSUME NEW t, OwnInv(t), NEW size \in Requests, AllocUnpooled(t, size)
  PROVE  OwnInv(t)'
<1>1. /\ pool' = pool /\ created' = created + 1 /\ queued' = queued /\ taking' = taking
      /\ live' = live \cup {[resource |-> NewResource(UnpooledSize(size)), size |-> size]}
      /\ taking[t] = Nothing
  BY DEF AllocUnpooled, Idle
<1>2. UnpooledSize(size) \in Nat
  <2>1. size \in Nat
    BY IndexIsNumber
  <2>2. ((size + 3) \div 4) * 4 \in Nat
    BY <2>1
  <2> QED
    BY <2>2 DEF UnpooledSize
<1>3. GoodPool(pool, created, queued) /\ Apart(pool, live)
  BY DEF OwnInv
<1>4. GoodPool(pool', created', queued') /\ GoodLive(live', created', queued') /\ Apart(pool', live')
  BY <1>1, <1>2, <1>3, Created
<1>5. created' \in Nat /\ \A x \in queued' : x \in Nat /\ x <= created'
  BY <1>1 DEF OwnInv
<1> QED
  BY <1>1, <1>4, <1>5 DEF OwnInv, TakingInv

\* AllocImpl reads the last resource of a bucket.
LEMMA AllocFromBucketStep ==
  ASSUME NEW t, OwnInv(t), NEW size \in Requests, AllocFromBucket(t, size)
  PROVE  OwnInv(t)'
<1> DEFINE b == GetBucketIndexFromSize(size) + 1
<1>1. /\ pool' = pool /\ created' = created /\ queued' = queued /\ live' = live
      /\ b \in DOMAIN pool /\ pool[b] # <<>>
      /\ taking' = [taking EXCEPT ![t] = [bucket |-> b, resource |-> Last(pool[b]), size |-> size]]
  BY DEF AllocFromBucket
<1> HIDE DEF b
<1>2. b \in 1 .. Len(pool)
  BY <1>1 DEF OwnInv, GoodPool
<1>3. t \in DOMAIN taking
  BY DEF OwnInv
<1>4. taking'[t] = [bucket |-> b, resource |-> Last(pool[b]), size |-> size] /\ t \in DOMAIN taking'
  BY <1>1, <1>3
<1>5. TakingInv(t)'
  BY <1>1, <1>2, <1>4 DEF TakingInv
<1> QED
  BY <1>1, <1>4, <1>5 DEF OwnInv

\* ... and pops it: only then it has an owner again.
LEMMA PopFromBucketStep ==
  ASSUME NEW t, OwnInv(t), PopFromBucket(t)
  PROVE  OwnInv(t)'
<1> DEFINE b == taking[t].bucket
           r == taking[t].resource
           a == [resource |-> r, size |-> taking[t].size]
<1>1. b \in 1 .. Len(pool) /\ pool[b] # <<>> /\ r = Last(pool[b]) /\ taking[t].size \in Requests
  BY DEF PopFromBucket, OwnInv, TakingInv
<1>2. /\ pool' = [pool EXCEPT ![b] = Front(@)] /\ created' = created /\ queued' = queued
      /\ live' = live \cup {a} /\ taking' = [taking EXCEPT ![t] = Nothing]
  BY <1>1 DEF PopFromBucket
<1>3. /\ created \in Nat /\ GoodPool(pool, created, queued) /\ GoodLive(live, created, queued)
      /\ Apart(pool, live) /\ t \in DOMAIN taking
  BY DEF OwnInv
<1>4. a.resource = r /\ a.size \in Requests
  BY <1>1
<1> HIDE DEF b, r, a
<1>5. GoodPool(pool', created, queued) /\ r \in Resource /\ r.id <= created /\ r.id \notin queued
  BY <1>1, <1>2, <1>3, Popped
<1>6. (\A c \in live : c.resource.id # r.id) /\ Apart(pool', live)
  BY <1>1, <1>2, <1>3, Popped
<1>7. Apart(pool', {a})
  BY <1>1, <1>2, <1>3, <1>4, Popped
<1>8. Apart(pool', live')
  BY <1>2, <1>6, <1>7 DEF Apart
<1>9. GoodLive(live', created, queued)
  BY <1>2, <1>3, <1>4, <1>5, <1>6 DEF GoodLive
<1>10. taking'[t] = Nothing /\ t \in DOMAIN taking'
  BY <1>2, <1>3
<1>11. TakingInv(t)'
  BY <1>10 DEF TakingInv
<1> QED
  BY <1>2, <1>5, <1>8, <1>9, <1>10, <1>11 DEF OwnInv

\* FreeResource of a resource of a bucket's width.
LEMMA FreeToPoolStep ==
  ASSUME NEW t, OwnInv(t), NEW a \in live, FreeToPool(t, a)
  PROVE  OwnInv(t)'
<1> DEFINE k == GetBucketIndexFromSize(a.size)
           b == k + 1
           r == a.resource
<1>1. /\ created' = created /\ queued' = queued /\ taking' = taking /\ live' = live \ {a}
      /\ taking[t] = Nothing /\ BucketSize(a.size) = r.width
      /\ \/ b \in DOMAIN pool /\ pool' = [pool EXCEPT ![b] = Append(@, r)]
         \/ pool' = pool
  BY DEF FreeToPool, Idle, ReturnsToPool
<1>2. /\ created \in Nat /\ GoodPool(pool, created, queued) /\ GoodLive(live, created, queued)
      /\ Apart(pool, live)
  BY DEF OwnInv
<1>3. a.size \in Requests /\ r \in Resource /\ r.id <= created /\ r.id \notin queued
  BY <1>2 DEF GoodLive
<1>4. k \in Nat /\ r.width = GetBucketSizeFromIndex(k)
  BY <1>1, <1>3, IndexIsNumber DEF BucketSize
<1> HIDE DEF k
<1>5. b - 1 = k
  BY <1>4
<1>6. r.width = GetBucketSizeFromIndex(b - 1)
  BY <1>4, <1>5
<1> HIDE DEF b, r
<1>7. \A c \in 1 .. Len(pool) : \A i \in 1 .. Len(pool[c]) : pool[c][i].id # r.id
  BY <1>2 DEF Apart, r
<1>8. \A c \in live' : c.resource.id # r.id
  BY <1>1, <1>2 DEF GoodLive, r
<1>9. Apart(pool, live')
  BY <1>1, <1>2 DEF Apart
<1>10. GoodLive(live', created, queued)
  BY <1>1, <1>2 DEF GoodLive
<1>11. GoodPool(pool', created, queued) /\ Apart(pool', live')
  <2>1. CASE b \in DOMAIN pool /\ pool' = [pool EXCEPT ![b] = Append(@, r)]
    <3>1. b \in 1 .. Len(pool)
      BY <1>2, <2>1 DEF GoodPool
    <3>2. \A l : Apart(pool, l) /\ (\A c \in l : c.resource.id # r.id)
                => Apart([pool EXCEPT ![b] = Append(@, r)], l)
      BY ONLY <1>2, <1>3, <1>6, <1>7, <3>1, Pushed
    <3>4. Apart([pool EXCEPT ![b] = Append(@, r)], live')
      BY Zenon, <1>8, <1>9, <3>2
    <3>3. GoodPool(pool', created, queued)
      BY <1>2, <1>3, <1>6, <1>7, <2>1, <3>1, Pushed
    <3> QED
      BY <2>1, <3>3, <3>4
  <2>2. CASE pool' = pool
    BY <1>2, <1>9, <2>2
  <2> QED
    BY <1>1, <2>1, <2>2
<1> QED
  BY <1>1, <1>10, <1>11 DEF OwnInv, TakingInv

\* FreeResource of another one: the context owns it until the GPU has finished.
LEMMA FreeLaterStep ==
  ASSUME NEW t, OwnInv(t), NEW a \in live, FreeLater(t, a)
  PROVE  OwnInv(t)'
<1>1. /\ pool' = pool /\ created' = created /\ taking' = taking /\ live' = live \ {a}
      /\ queued' = queued \cup {a.resource.id} /\ taking[t] = Nothing
  BY DEF FreeLater, Idle
<1>2. /\ created \in Nat /\ GoodPool(pool, created, queued) /\ GoodLive(live, created, queued)
      /\ Apart(pool, live) /\ \A x \in queued : x \in Nat /\ x <= created
  BY DEF OwnInv
<1>3. a.resource.id \in Nat /\ a.resource.id <= created
  BY <1>2 DEF GoodLive, Resource
<1>4. GoodPool(pool, created, queued')
  <2>1. \A b \in 1 .. Len(pool) : \A i \in 1 .. Len(pool[b]) : pool[b][i].id # a.resource.id
    BY <1>2 DEF Apart
  <2> QED
    BY <1>1, <1>2, <2>1 DEF GoodPool
<1>5. GoodLive(live', created, queued')
  BY <1>1, <1>2 DEF GoodLive
<1>6. Apart(pool, live')
  BY <1>1, <1>2 DEF Apart
<1> QED
  BY <1>1, <1>2, <1>3, <1>4, <1>5, <1>6 DEF OwnInv, TakingInv

\* The thread's steps are all there are.
LEMMA OwnStep ==
  ASSUME NEW t, Threads = {t}, OwnInv(t), [Next]_vars
  PROVE  OwnInv(t)'
<1>1. CASE UNCHANGED vars
  BY <1>1 DEF vars, OwnInv, TakingInv
<1>2. CASE SetDefaultRoundingMode
  BY <1>2 DEF SetDefaultRoundingMode, OwnInv, TakingInv
<1>3. ASSUME NEW s \in Sizes, AllocNewPooled(t, Request(s)) PROVE OwnInv(t)'
  BY <1>3, AllocNewPooledStep DEF Requests
<1>4. ASSUME NEW s \in Sizes, AllocPooledFails(t, Request(s)) PROVE OwnInv(t)'
  BY <1>4, AllocPooledFailsStep DEF Requests
<1>5. ASSUME NEW s \in Sizes, AllocFromBucket(t, Request(s)) PROVE OwnInv(t)'
  BY <1>5, AllocFromBucketStep DEF Requests
<1>6. ASSUME NEW s \in Sizes, AllocUnpooled(t, Request(s)) PROVE OwnInv(t)'
  BY <1>6, AllocUnpooledStep DEF Requests
<1>7. CASE PopFromBucket(t)
  BY <1>7, PopFromBucketStep
<1>8. ASSUME NEW a \in live, FreeToPool(t, a) PROVE OwnInv(t)'
  BY <1>8, FreeToPoolStep
<1>9. ASSUME NEW a \in live, FreeLater(t, a) PROVE OwnInv(t)'
  BY <1>9, FreeLaterStep
<1> QED
  BY <1>1, <1>2, <1>3, <1>4, <1>5, <1>6, <1>7, <1>8, <1>9 DEF Next

\* The places of the pool, by bucket and position.
LEMMA PlacesOf ==
  ASSUME NEW t, OwnInv(t), NEW p \in PoolPlaces
  PROVE  p[1] \in 1 .. Len(pool) /\ p[2] \in 1 .. Len(pool[p[1]]) /\ p = <<p[1], p[2]>>
<1>1. pool \in Seq(Seq(Resource))
  BY DEF OwnInv, GoodPool
<1>2. PICK b \in DOMAIN pool : p \in {<<b, i>> : i \in DOMAIN pool[b]}
  BY DEF PoolPlaces
<1>3. PICK i \in DOMAIN pool[b] : p = <<b, i>>
  BY <1>2
<1>4. b \in 1 .. Len(pool) /\ pool[b] \in Seq(Resource)
  BY <1>1, <1>2
<1>5. i \in 1 .. Len(pool[b])
  BY <1>3, <1>4
<1> QED
  BY <1>3, <1>4, <1>5

-----------------------------------------------------------------------------
(* The theorems *)

\* Called from one thread, AllocImpl and FreeResource keep one owner for every
\* resource: an allocation, a place in the pool, or the context's release list.
THEOREM OneOwnerHolds ==
  ASSUME NEW t, Threads = {t}
  PROVE  Spec => []OneOwner
<1>1. Init => OwnInv(t)
  BY InitOwns
<1>2. OwnInv(t) /\ [Next]_vars => OwnInv(t)'
  BY OwnStep
<1>3. OwnInv(t) => OneOwner
  <2> SUFFICES ASSUME OwnInv(t) PROVE OneOwner
    OBVIOUS
  <2>1. GoodPool(pool, created, queued) /\ GoodLive(live, created, queued) /\ Apart(pool, live)
    BY DEF OwnInv
  <2>2. \A a, c \in live : a.resource.id = c.resource.id => a = c
    BY <2>1 DEF GoodLive
  <2>3. ASSUME NEW p \in PoolPlaces, NEW q \in PoolPlaces, pool[p[1]][p[2]].id = pool[q[1]][q[2]].id
        PROVE  p = q
    <3>1. p[1] \in 1 .. Len(pool) /\ p[2] \in 1 .. Len(pool[p[1]]) /\ p = <<p[1], p[2]>>
      BY PlacesOf
    <3>2. q[1] \in 1 .. Len(pool) /\ q[2] \in 1 .. Len(pool[q[1]]) /\ q = <<q[1], q[2]>>
      BY PlacesOf
    <3>3. p[1] = q[1] /\ p[2] = q[2]
      BY ONLY <2>1, <2>3, <3>1, <3>2, OneOf
    <3> QED
      BY <3>1, <3>2, <3>3
  <2>4. \A a \in live : \A p \in PoolPlaces : pool[p[1]][p[2]].id # a.resource.id
    BY <2>1, PlacesOf DEF Apart
  <2>5. \A a \in live : a.resource.id \notin queued
    BY <2>1 DEF GoodLive
  <2>6. \A p \in PoolPlaces : pool[p[1]][p[2]].id \notin queued
    BY <2>1, PlacesOf DEF GoodPool
  <2> QED
    BY <2>2, <2>3, <2>4, <2>5, <2>6 DEF OneOwner
<1> QED
  BY <1>1, <1>2, <1>3, PTL DEF Spec

\* Called from one thread, a bucket only ever holds resources of its width, so
\* that what AllocImpl takes out of it is as large as a new one would be.
THEOREM BucketsStayUniform ==
  ASSUME NEW t, Threads = {t}
  PROVE  Spec => []BucketsUniform
<1>1. Init => OwnInv(t)
  BY InitOwns
<1>2. OwnInv(t) /\ [Next]_vars => OwnInv(t)'
  BY OwnStep
<1>3. OwnInv(t) => BucketsUniform
  BY PlacesOf DEF OwnInv, GoodPool, BucketsUniform
<1> QED
  BY <1>1, <1>2, <1>3, PTL DEF Spec

\* What a thread has taken out of a bucket is wide enough for its request.
FitInv(t) ==
  ResourceFits /\ (taking[t] # Nothing => taking[t].size <= taking[t].resource.width)

\* The last resource of a size's bucket is wide enough for it.
LEMMA LastFits ==
  ASSUME NEW t, OwnInv(t), NEW size \in Requests,
         GetBucketIndexFromSize(size) + 1 \in DOMAIN pool, pool[GetBucketIndexFromSize(size) + 1] # <<>>
  PROVE  size <= Last(pool[GetBucketIndexFromSize(size) + 1]).width
<1> DEFINE k == GetBucketIndexFromSize(size)
           b == k + 1
           m == Len(pool[b])
<1>1. GoodPool(pool, created, queued) /\ pool \in Seq(Seq(Resource)) /\ k \in Nat
  BY IndexIsNumber DEF OwnInv, GoodPool
<1>2. BucketSize(size) >= size /\ BucketSize(size) = GetBucketSizeFromIndex(k) /\ size \in Nat
  BY BucketHolds, IndexIsNumber DEF BucketSize
<1> HIDE DEF k
<1>3. b - 1 = k
  BY <1>1
<1>4. b \in 1 .. Len(pool) /\ pool[b] \in Seq(Resource) /\ pool[b] # <<>>
  BY <1>1 DEF k
<1> HIDE DEF b
<1>5. m \in 1 .. Len(pool[b]) /\ Last(pool[b]) = pool[b][m]
  BY <1>4 DEF Last
<1>6. pool[b][m].width = GetBucketSizeFromIndex(b - 1)
  BY <1>1, <1>4, <1>5 DEF GoodPool
<1>7. Last(pool[b]).width = BucketSize(size)
  BY <1>2, <1>3, <1>5, <1>6
<1>8. size <= Last(pool[b]).width
  BY <1>2, <1>7
<1> QED
  BY <1>8 DEF b, k

\* Every step keeps the requests within their resources.
LEMMA FitStep ==
  ASSUME NEW t, Threads = {t}, OwnInv(t), FitInv(t), [Next]_vars
  PROVE  FitInv(t)'
<1>1. CASE UNCHANGED vars
  BY <1>1 DEF vars, FitInv, ResourceFits
<1>2. CASE SetDefaultRoundingMode
  BY <1>2 DEF SetDefaultRoundingMode, FitInv, ResourceFits
<1>3. ASSUME NEW s \in Sizes, AllocNewPooled(t, Request(s)) PROVE FitInv(t)'
  <2> DEFINE size == Request(s)
             a == [resource |-> NewResource(BucketSize(size)), size |-> size]
  <2>1. live' = live \cup {a} /\ taking' = taking
    BY <1>3 DEF AllocNewPooled
  <2>2. a.size = size /\ a.resource.width = BucketSize(size) /\ size \in Requests
    BY DEF NewResource, Requests
  <2> HIDE DEF a, size
  <2>3. a.size <= a.resource.width
    BY <2>2, BucketHolds
  <2> QED
    BY <2>1, <2>3 DEF FitInv, ResourceFits
<1>4. ASSUME NEW s \in Sizes, AllocPooledFails(t, Request(s)) PROVE FitInv(t)'
  BY <1>4 DEF AllocPooledFails, FitInv, ResourceFits
<1>5. ASSUME NEW s \in Sizes, AllocFromBucket(t, Request(s)) PROVE FitInv(t)'
  <2> DEFINE size == Request(s)
             b == GetBucketIndexFromSize(size) + 1
  <2>1. live' = live /\ b \in DOMAIN pool /\ pool[b] # <<>>
        /\ taking' = [taking EXCEPT ![t] = [bucket |-> b, resource |-> Last(pool[b]), size |-> size]]
    BY <1>5 DEF AllocFromBucket
  <2>2. size <= Last(pool[b]).width
    BY <2>1, LastFits DEF Requests
  <2> HIDE DEF size, b
  <2>3. taking'[t] = [bucket |-> b, resource |-> Last(pool[b]), size |-> size]
    BY <2>1 DEF OwnInv
  <2>4. taking'[t].size <= taking'[t].resource.width
    BY <2>2, <2>3
  <2> QED
    BY <2>1, <2>4 DEF FitInv, ResourceFits
<1>6. ASSUME NEW s \in Sizes, AllocUnpooled(t, Request(s)) PROVE FitInv(t)'
  <2> DEFINE size == Request(s)
             a == [resource |-> NewResource(UnpooledSize(size)), size |-> size]
  <2>1. live' = live \cup {a} /\ taking' = taking
    BY <1>6 DEF AllocUnpooled
  <2>2. a.size = size /\ a.resource.width = UnpooledSize(size) /\ size \in Requests
    BY DEF NewResource, Requests
  <2> HIDE DEF a, size
  <2>3. size \in Nat /\ size <= ((size + 3) \div 4) * 4
    BY <2>2, IndexIsNumber
  <2>4. a.size <= a.resource.width
    BY <2>2, <2>3 DEF UnpooledSize
  <2> QED
    BY <2>1, <2>4 DEF FitInv, ResourceFits
<1>7. CASE PopFromBucket(t)
  <2> DEFINE a == [resource |-> taking[t].resource, size |-> taking[t].size]
  <2>1. live' = live \cup {a} /\ taking' = [taking EXCEPT ![t] = Nothing] /\ taking[t] # Nothing
    BY <1>7 DEF PopFromBucket
  <2>2. a.size <= a.resource.width
    BY <2>1 DEF FitInv
  <2>3. taking'[t] = Nothing
    BY <2>1 DEF OwnInv
  <2> HIDE DEF a
  <2> QED
    BY <2>1, <2>2, <2>3 DEF FitInv, ResourceFits
<1>8. ASSUME NEW a \in live, FreeToPool(t, a) PROVE FitInv(t)'
  BY <1>8 DEF FreeToPool, FitInv, ResourceFits
<1>9. ASSUME NEW a \in live, FreeLater(t, a) PROVE FitInv(t)'
  BY <1>9 DEF FreeLater, FitInv, ResourceFits
<1> QED
  BY <1>1, <1>2, <1>3, <1>4, <1>5, <1>6, <1>7, <1>8, <1>9 DEF Next

\* Called from one thread, AllocImpl never hands out a resource smaller than the
\* request, whatever rounding mode filled the bucket it comes from.
THEOREM ResourcesFit ==
  ASSUME NEW t, Threads = {t}
  PROVE  Spec => []ResourceFits
<1>1. Init => OwnInv(t) /\ FitInv(t)
  BY InitOwns DEF Init, FitInv, ResourceFits
<1>2. OwnInv(t) /\ FitInv(t) /\ [Next]_vars => OwnInv(t)' /\ FitInv(t)'
  BY OwnStep, FitStep
<1>3. FitInv(t) => ResourceFits
  BY DEF FitInv
<1> QED
  BY <1>1, <1>2, <1>3, PTL DEF Spec

-----------------------------------------------------------------------------
(* Types *)

\* Only resources created for one allocation leave the pool for good: any other
\* live resource has the width of its request's bucket.
TypedInv(t) ==
  /\ \A a \in live : a.resource.id \in unpooled \/ ReturnsToPool(a)
  /\ taking[t] # Nothing => taking[t].bucket = GetBucketIndexFromSize(taking[t].size) + 1
  /\ queued \subseteq unpooled /\ unpooled \subseteq 1 .. created
  /\ rounding \in BOOLEAN /\ undefined \in BOOLEAN

\* A resource taken from a bucket has the width of the request's bucket.
LEMMA TakenWidth ==
  ASSUME NEW t, OwnInv(t), TypedInv(t), taking[t] # Nothing
  PROVE  taking[t].resource.width = BucketSize(taking[t].size)
<1> DEFINE b == taking[t].bucket
           k == GetBucketIndexFromSize(taking[t].size)
<1>1. /\ b \in 1 .. Len(pool) /\ pool[b] # <<>> /\ taking[t].resource = Last(pool[b])
      /\ taking[t].size \in Requests /\ b = k + 1
  BY DEF OwnInv, TakingInv, TypedInv
<1>2. k \in Nat
  BY <1>1, IndexIsNumber
<1> HIDE DEF k
<1>3. b - 1 = k
  BY <1>1, <1>2
<1> HIDE DEF b
<1>4. pool[b] \in Seq(Resource)
  BY <1>1 DEF OwnInv, GoodPool
<1>5. Len(pool[b]) \in 1 .. Len(pool[b]) /\ Last(pool[b]) = pool[b][Len(pool[b])]
  BY <1>1, <1>4 DEF Last
<1>6. Last(pool[b]).width = GetBucketSizeFromIndex(b - 1)
  BY <1>1, <1>5 DEF OwnInv, GoodPool
<1> QED
  BY <1>1, <1>3, <1>6 DEF BucketSize, k

LEMMA TypedStep ==
  ASSUME NEW t, Threads = {t}, OwnInv(t), TypedInv(t), [Next]_vars
  PROVE  TypedInv(t)'
<1>0. created \in Nat /\ t \in DOMAIN taking
  BY DEF OwnInv
<1>1. CASE UNCHANGED vars
  BY <1>1 DEF vars, TypedInv, ReturnsToPool
<1>2. CASE SetDefaultRoundingMode
  BY <1>2 DEF SetDefaultRoundingMode, TypedInv, ReturnsToPool
<1>3. ASSUME NEW s \in Sizes, AllocNewPooled(t, Request(s)) PROVE TypedInv(t)'
  <2> DEFINE size == Request(s)
             a == [resource |-> NewResource(BucketSize(size)), size |-> size]
  <2>1. /\ live' = live \cup {a} /\ created' = created + 1
        /\ UNCHANGED <<rounding, queued, taking, unpooled, undefined>>
    BY <1>3 DEF AllocNewPooled
  <2>2. ReturnsToPool(a)
    BY DEF NewResource, ReturnsToPool
  <2> HIDE DEF a, size
  <2>3. unpooled' \subseteq 1 .. created'
    BY <1>0, <2>1 DEF TypedInv
  <2> QED
    BY <2>1, <2>2, <2>3 DEF TypedInv, ReturnsToPool
<1>4. ASSUME NEW s \in Sizes, AllocPooledFails(t, Request(s)) PROVE TypedInv(t)'
  BY <1>4 DEF AllocPooledFails, TypedInv, ReturnsToPool
<1>5. ASSUME NEW s \in Sizes, AllocFromBucket(t, Request(s)) PROVE TypedInv(t)'
  <2> DEFINE size == Request(s)
             b == GetBucketIndexFromSize(size) + 1
  <2>1. taking' = [taking EXCEPT ![t] = [bucket |-> b, resource |-> Last(pool[b]), size |-> size]]
    BY <1>5 DEF AllocFromBucket
  <2>2. undefined' \in BOOLEAN /\ UNCHANGED <<created, rounding, live, queued, unpooled>>
    BY <1>5 DEF AllocFromBucket
  <2>3. taking'[t].bucket = GetBucketIndexFromSize(taking'[t].size) + 1
    BY <1>0, <2>1
  <2> HIDE DEF size, b
  <2> QED
    BY <2>2, <2>3 DEF TypedInv, ReturnsToPool
<1>6. ASSUME NEW s \in Sizes, AllocUnpooled(t, Request(s)) PROVE TypedInv(t)'
  <2> DEFINE size == Request(s)
             a == [resource |-> NewResource(UnpooledSize(size)), size |-> size]
  <2>1. /\ live' = live \cup {a} /\ created' = created + 1
        /\ unpooled' = unpooled \cup {created + 1}
        /\ UNCHANGED <<rounding, queued, taking, undefined>>
    BY <1>6 DEF AllocUnpooled
  <2>2. a.resource.id = created + 1
    BY DEF NewResource
  <2> HIDE DEF a, size
  <2>3. unpooled' \subseteq 1 .. created'
    BY <1>0, <2>1 DEF TypedInv
  <2> QED
    BY <2>1, <2>2, <2>3 DEF TypedInv, ReturnsToPool
<1>7. CASE PopFromBucket(t)
  <2> DEFINE a == [resource |-> taking[t].resource, size |-> taking[t].size]
  <2>1. /\ live' = live \cup {a} /\ taking' = [taking EXCEPT ![t] = Nothing]
        /\ taking[t] # Nothing /\ undefined' \in BOOLEAN
        /\ UNCHANGED <<created, rounding, queued, unpooled>>
    BY <1>7 DEF PopFromBucket, TypedInv
  <2>2. ReturnsToPool(a)
    BY <2>1, TakenWidth DEF ReturnsToPool
  <2> HIDE DEF a
  <2>3. taking'[t] = Nothing
    BY <1>0, <2>1
  <2> QED
    BY <2>1, <2>2, <2>3 DEF TypedInv, ReturnsToPool
<1>8. ASSUME NEW a \in live, FreeToPool(t, a) PROVE TypedInv(t)'
  BY <1>8 DEF FreeToPool, TypedInv, ReturnsToPool
<1>9. ASSUME NEW a \in live, FreeLater(t, a) PROVE TypedInv(t)'
  BY <1>9 DEF FreeLater, TypedInv, ReturnsToPool
<1> QED
  BY <1>1, <1>2, <1>3, <1>4, <1>5, <1>6, <1>7, <1>8, <1>9 DEF Next

\* FreeResource, called from one thread, gives up to the context only resources
\* that were created for one allocation; whatever has a bucket's width is reused.
THEOREM TypeCorrect ==
  ASSUME NEW t, Threads = {t}
  PROVE  Spec => []TypeOK
<1>1. Init => OwnInv(t) /\ TypedInv(t)
  BY InitOwns DEF Init, TypedInv
<1>2. OwnInv(t) /\ TypedInv(t) /\ [Next]_vars => OwnInv(t)' /\ TypedInv(t)'
  BY OwnStep, TypedStep
<1>3. OwnInv(t) /\ TypedInv(t) => TypeOK
  <2> SUFFICES ASSUME OwnInv(t), TypedInv(t) PROVE TypeOK
    OBVIOUS
  <2>1. pool \in Seq(Seq(Resource))
    BY DEF OwnInv, GoodPool
  <2>2. \A b \in DOMAIN pool : pool[b] \in Seq(Resource)
    BY <2>1
  <2>3. \A b \in DOMAIN pool : \A i \in DOMAIN pool[b] : pool[b][i] \in Resource
    BY <2>2
  <2>4. \A a \in live : a.resource \in Resource /\ a.size \in Nat \ {0}
    BY IndexIsNumber DEF OwnInv, GoodLive
  <2>5. \A th \in Threads : taking[th] = Nothing \/ taking[th].bucket \in DOMAIN pool
    BY <2>1 DEF OwnInv, TakingInv
  <2> QED
    BY <2>3, <2>4, <2>5 DEF OwnInv, TypedInv, TypeOK
<1> QED
  BY <1>1, <1>2, <1>3, PTL DEF Spec
=============================================================================
