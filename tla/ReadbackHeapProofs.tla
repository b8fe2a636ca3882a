-------------------------- MODULE ReadbackHeapProofs --------------------------
(***************************************************************************)
(* Proofs about ReadbackHeap: its types for any threads, and for one       *)
(* thread that every call delivers the bytes of its own tensors, which the *)
(* GPU wrote inside the current heap.                                      *)
(***************************************************************************)
EXTENDS ReadbackHeap, WellFoundedInduction, SequenceTheorems, TLAPS

\* A set of numbers has a least one.
LEMMA LeastNumber ==
  ASSUME NEW S \in SUBSET Nat, S # {}
  PROVE  \E n \in S : \A m \in S : n <= m
<1>1. PICK n \in S : \A m \in S : ~(<<m, n>> \in OpToRel(<, Nat))
  BY NatLessThanWellFounded, WFMin
<1>2. \A m \in S : ~(m < n)
  BY <1>1 DEF OpToRel
<1> QED
  BY <1>2

\* What holds of 0, and of k whenever it holds of k - 1, holds up to m.
LEMMA UpTo ==
  ASSUME NEW m \in Nat, NEW P, 0 \in P, \A k \in 1..m : k - 1 \in P => k \in P
  PROVE  \A k \in 0..m : k \in P
<1> DEFINE Out == {k \in 0..m : k \notin P}
<1> SUFFICES ASSUME Out # {} PROVE FALSE
  OBVIOUS
<1>1. Out \in SUBSET Nat
  OBVIOUS
<1>2. PICK n \in Out : \A k \in Out : n <= k
  <2> HIDE DEF Out
  <2> QED
    BY <1>1, LeastNumber
<1>3. n \in 1..m /\ n - 1 \in 0..m /\ n - 1 < n
  BY <1>2
<1>4. n - 1 \in P
  BY <1>2, <1>3
<1> QED
  BY <1>2, <1>3, <1>4

\* A function may be defined by its value at 0 and a step.
Follows(g, S, e, f, m) ==
  g \in [0..m -> S] /\ \A k \in 0..m : g[k] = IF k = 0 THEN e ELSE f[<<k, g[k - 1]>>]

LEMMA Recursion ==
  ASSUME NEW S, NEW e \in S, NEW m \in Nat, NEW f \in [(1..m) \X S -> S]
  PROVE  \E g : Follows(g, S, e, f, m)
<1> DEFINE P == {n \in 0..m : \E g : Follows(g, S, e, f, n)}
<1>1. 0 \in P
  <2>1. Follows([k \in 0..0 |-> e], S, e, f, 0)
    BY DEF Follows
  <2> QED
    BY <2>1
<1>2. ASSUME NEW n \in 1..m, n - 1 \in P PROVE n \in P
  <2>1. PICK g : Follows(g, S, e, f, n - 1)
    BY <1>2
  <2>2. n - 1 \in 0..n - 1 /\ g[n - 1] \in S /\ f[<<n, g[n - 1]>>] \in S
    BY <2>1 DEF Follows
  <2> DEFINE h == [k \in 0..n |-> IF k = n THEN f[<<n, g[n - 1]>>] ELSE g[k]]
  <2>3. h \in [0..n -> S]
    <3>1. \A k \in 0..n : k # n => k \in 0..n - 1
      OBVIOUS
    <3> QED
      BY <3>1, <2>1, <2>2 DEF Follows
  <2>4. ASSUME NEW k \in 0..n PROVE h[k] = IF k = 0 THEN e ELSE f[<<k, h[k - 1]>>]
    <3>1. CASE k = n
      <4>1. k # 0 /\ k - 1 \in 0..n /\ k - 1 # n
        BY <3>1
      <4> QED
        BY <3>1, <4>1
    <3>2. CASE k # n
      <4>1. k \in 0..n - 1
        BY <3>2
      <4>2. h[k] = g[k] /\ (k # 0 => k - 1 \in 0..n /\ h[k - 1] = g[k - 1])
        BY <3>2, <4>1
      <4> QED
        BY <2>1, <4>1, <4>2 DEF Follows
    <3> QED
      BY <3>1, <3>2
  <2> HIDE DEF h
  <2>5. Follows(h, S, e, f, n)
    BY <2>3, <2>4 DEF Follows
  <2> QED
    BY <2>5
<1> HIDE DEF P
<1>3. m \in P
  BY <1>1, <1>2, UpTo
<1> QED
  BY <1>3 DEF P

\* Doubling ends with a capacity that is neither less than before nor than desired.
LEMMA CapacityGrows ==
  ASSUME NEW existing \in Nat, existing >= 1, NEW desired \in Nat
  PROVE  /\ ComputeNewCapacity(existing, desired) \in Nat
         /\ ComputeNewCapacity(existing, desired) >= existing
         /\ ComputeNewCapacity(existing, desired) >= desired
<1> DEFINE f == [p \in (1..desired) \X Nat |-> IF p[2] < desired THEN 2 * p[2] ELSE p[2]]
           newCapacity == CHOOSE g : g = [k \in 0..desired |->
             IF k = 0 THEN existing
             ELSE IF g[k - 1] < desired THEN 2 * g[k - 1] ELSE g[k - 1]]
<1>1. ComputeNewCapacity(existing, desired) = newCapacity[desired]
  BY DEF ComputeNewCapacity
<1>2. \E g : g = [k \in 0..desired |->
             IF k = 0 THEN existing
             ELSE IF g[k - 1] < desired THEN 2 * g[k - 1] ELSE g[k - 1]]
  <2>1. f \in [(1..desired) \X Nat -> Nat]
    OBVIOUS
  <2>2. \A k \in 1..desired : \A x \in Nat : f[<<k, x>>] = IF x < desired THEN 2 * x ELSE x
    OBVIOUS
  <2> HIDE DEF f
  <2>3. PICK g \in [0..desired -> Nat] :
          \A k \in 0..desired : g[k] = IF k = 0 THEN existing ELSE f[<<k, g[k - 1]>>]
    <3>1. PICK g : Follows(g, Nat, existing, f, desired)
      BY <2>1, Recursion
    <3> QED
      BY <3>1 DEF Follows
  <2>4. ASSUME NEW k \in 0..desired
        PROVE  g[k] = IF k = 0 THEN existing
                      ELSE IF g[k - 1] < desired THEN 2 * g[k - 1] ELSE g[k - 1]
    <3>1. CASE k = 0
      BY <2>3, <3>1
    <3>2. CASE k # 0
      <4>1. k \in 1..desired /\ k - 1 \in 0..desired
        BY <3>2
      <4>2. g[k - 1] \in Nat /\ g[k] = f[<<k, g[k - 1]>>]
        BY <2>3, <3>2, <4>1
      <4> QED
        BY <2>2, <3>2, <4>1, <4>2
    <3> QED
      BY <3>1, <3>2
  <2>5. g = [k \in 0..desired |->
             IF k = 0 THEN existing
             ELSE IF g[k - 1] < desired THEN 2 * g[k - 1] ELSE g[k - 1]]
    BY <2>4
  <2> QED
    BY <2>5
<1>3. newCapacity = [k \in 0..desired |->
             IF k = 0 THEN existing
             ELSE IF newCapacity[k - 1] < desired THEN 2 * newCapacity[k - 1] ELSE newCapacity[k - 1]]
  BY <1>2
<1> HIDE DEF newCapacity
<1> DEFINE P == {k \in 0..desired : /\ newCapacity[k] \in Nat /\ newCapacity[k] >= existing
                                    /\ newCapacity[k] >= k \/ newCapacity[k] >= desired}
<1>4. 0 \in P
  <2>1. newCapacity[0] = existing
    BY <1>3
  <2> QED
    BY <2>1
<1>5. ASSUME NEW k \in 1..desired, k - 1 \in P PROVE k \in P
  <2>1. k \in 0..desired /\ k # 0 /\ k \in Nat
    OBVIOUS
  <2>2. newCapacity[k] = IF newCapacity[k - 1] < desired THEN 2 * newCapacity[k - 1]
                         ELSE newCapacity[k - 1]
    BY <1>3, <2>1
  <2>3. /\ newCapacity[k - 1] \in Nat /\ newCapacity[k - 1] >= existing
        /\ newCapacity[k - 1] >= k - 1 \/ newCapacity[k - 1] >= desired
    BY <1>5
  <2>4. /\ newCapacity[k] \in Nat /\ newCapacity[k] >= existing
        /\ newCapacity[k] >= k \/ newCapacity[k] >= desired
    BY <2>1, <2>2, <2>3
  <2> QED
    BY <2>1, <2>4
<1> HIDE DEF P
<1>6. desired \in P
  BY <1>4, <1>5, UpTo
<1> QED
  BY <1>1, <1>6 DEF P

-----------------------------------------------------------------------------
\* A batch has tensors, of some bytes each.
LEMMA BatchOf ==
  ASSUME NEW sizes \in Batches
  PROVE  /\ Len(sizes) \in 1..MaxBatch /\ DOMAIN sizes = 1..Len(sizes)
         /\ sizes # <<>>
         /\ \A i \in DOMAIN sizes : sizes[i] \in Sizes /\ sizes[i] \in Nat /\ sizes[i] >= 1
<1>1. PICK n \in 1..MaxBatch : sizes \in [1..n -> Sizes]
  BY DEF Batches
<1>2. n \in Nat /\ sizes \in Seq(Sizes) /\ Len(sizes) = n
  <2>1. n \in Nat
    BY <1>1, ReadbackAssumption
  <2>2. sizes \in Seq(Sizes)
    BY <1>1, <2>1, SeqDef
  <2> QED
    BY <1>1, <2>1, <2>2
<1>3. \A s \in Sizes : s \in Nat /\ s >= 1
  BY ReadbackAssumption
<1> QED
  BY <1>1, <1>2, <1>3

\* The offsets start at 0, and each is the one before plus its size, modulo Width.
LEMMA Offsets ==
  ASSUME NEW sizes \in Batches
  PROVE  /\ Offset(sizes, 1) = 0
         /\ \A i \in 1..Len(sizes) : Offset(sizes, i + 1) = (Offset(sizes, i) + sizes[i]) % Width
         /\ \A i \in 1..Len(sizes) + 1 : Offset(sizes, i) \in Nat
<1> DEFINE n == Len(sizes)
           f == [p \in (1..n) \X Nat |-> (p[2] + sizes[p[1]]) % Width]
           offset == CHOOSE g : g = [k \in 1..Len(sizes) + 1 |->
             IF k = 1 THEN 0 ELSE (g[k - 1] + sizes[k - 1]) % Width]
<1>1. \A i : Offset(sizes, i) = offset[i]
  BY DEF Offset
<1>2. /\ n \in Nat /\ Width \in Nat /\ Width > 0
      /\ \A i \in 1..n : sizes[i] \in Nat
  BY BatchOf, ReadbackAssumption
<1>3. \E g : g = [k \in 1..n + 1 |-> IF k = 1 THEN 0 ELSE (g[k - 1] + sizes[k - 1]) % Width]
  <2>1. f \in [(1..n) \X Nat -> Nat]
    BY <1>2
  <2>2. \A k \in 1..n : \A x \in Nat : f[<<k, x>>] = (x + sizes[k]) % Width
    OBVIOUS
  <2> HIDE DEF f, n
  <2>3. PICK g \in [0..n -> Nat] :
          \A k \in 0..n : g[k] = IF k = 0 THEN 0 ELSE f[<<k, g[k - 1]>>]
    <3>1. PICK g : Follows(g, Nat, 0, f, n)
      BY <1>2, <2>1, Recursion
    <3> QED
      BY <3>1 DEF Follows
  <2> DEFINE h == [k \in 1..n + 1 |-> g[k - 1]]
  <2>4. ASSUME NEW k \in 1..n + 1
        PROVE  h[k] = IF k = 1 THEN 0 ELSE (h[k - 1] + sizes[k - 1]) % Width
    <3>1. k - 1 \in 0..n /\ h[k] = g[k - 1]
      BY <1>2
    <3>2. CASE k = 1
      <4>1. k - 1 = 0
        BY <3>2
      <4> QED
        BY <2>3, <3>1, <3>2, <4>1
    <3>3. CASE k # 1
      <4>1. k - 1 \in 1..n /\ k - 1 \in 1..n + 1 /\ (k - 1) - 1 \in 0..n /\ k - 1 # 0
        BY <1>2, <3>3
      <4>2. h[k - 1] = g[(k - 1) - 1] /\ g[(k - 1) - 1] \in Nat
        BY <2>3, <4>1
      <4>3. g[k - 1] = f[<<k - 1, g[(k - 1) - 1]>>]
        BY <2>3, <3>1, <4>1
      <4>4. f[<<k - 1, g[(k - 1) - 1]>>] = (g[(k - 1) - 1] + sizes[k - 1]) % Width
        BY <2>2, <4>1, <4>2
      <4> QED
        BY <3>1, <3>3, <4>2, <4>3, <4>4
    <3> QED
      BY <3>2, <3>3
  <2>5. h = [k \in 1..n + 1 |-> IF k = 1 THEN 0 ELSE (h[k - 1] + sizes[k - 1]) % Width]
    <3>1. h = [k \in 1..n + 1 |-> h[k]]
      OBVIOUS
    <3> HIDE DEF h
    <3> QED
      BY <2>4, <3>1
  <2> QED
    BY <2>5
<1>4. offset = [k \in 1..n + 1 |-> IF k = 1 THEN 0 ELSE (offset[k - 1] + sizes[k - 1]) % Width]
  BY <1>3
<1> HIDE DEF offset
<1>5. offset[1] = 0
  BY <1>2, <1>4
<1>6. ASSUME NEW i \in 1..n PROVE offset[i + 1] = (offset[i] + sizes[i]) % Width
  <2>1. i + 1 \in 1..n + 1 /\ i + 1 # 1 /\ (i + 1) - 1 = i
    BY <1>2
  <2> QED
    BY <1>4, <2>1
<1> DEFINE P == {k \in 0..n : offset[k + 1] \in Nat}
<1>7. 0 \in P
  BY <1>2, <1>5
<1>8. ASSUME NEW k \in 1..n, k - 1 \in P PROVE k \in P
  <2>1. offset[k] \in Nat /\ sizes[k] \in Nat /\ k \in 0..n
    BY <1>2, <1>8
  <2>2. offset[k] + sizes[k] \in Nat
    BY <2>1
  <2> QED
    BY <1>2, <1>6, <2>1, <2>2
<1> HIDE DEF P
<1>9. \A k \in 0..n : k \in P
  BY <1>2, <1>7, <1>8, UpTo
<1>10. ASSUME NEW i \in 1..n + 1 PROVE offset[i] \in Nat
  <2>1. i - 1 \in 0..n /\ (i - 1) + 1 = i
    BY <1>2
  <2>2. i - 1 \in P
    BY <1>9, <2>1
  <2> QED
    BY <2>1, <2>2 DEF P
<1> QED
  BY <1>1, <1>5, <1>6, <1>10

-----------------------------------------------------------------------------
\* The heap is the last one created, of the capacity it was created with, and the GPU
\* has still to execute one batch per submission it has not reached.
HeapInv ==
  /\ heap \in [resource : Nat, capacity : Nat]
  /\ capacity \in Nat /\ created \in Nat
  /\ heap # NoHeap =>
       /\ capacity >= 1 /\ created >= 1
       /\ heap.resource = created /\ heap.capacity = capacity
  /\ data \in [0..heap.capacity - 1 -> Values]

Copy == [resource : Nat, offset : Nat, size : Sizes, value : Values]
Submitted == UNION {[1..n -> Copy] : n \in 1..MaxBatch}

QueueInv ==
  /\ lastFence \in Nat /\ completed \in Nat /\ completed <= lastFence
  /\ copies \in Seq(Submitted)
  /\ Len(copies) = lastFence - completed
  /\ \A k \in 1..Len(copies) : \A i \in DOMAIN copies[k] : copies[k][i].resource \in 1..created

ThreadInv ==
  /\ turn \in [Threads -> {0, 1}]
  /\ DOMAIN call = Threads
  /\ \A th \in Threads :
       call[th] = NoCall \/ (call[th].sizes \in Batches /\ call[th].event \in Nat)

TypeInv == HeapInv /\ QueueInv /\ ThreadInv

\* One heap or another: what EnsureReadbackHeap leaves.
LEMMA Ensured ==
  ASSUME HeapInv, NEW size \in Nat, EnsureReadbackHeap(size)
  PROVE  /\ HeapInv'
         /\ heap' # NoHeap /\ heap'.capacity >= size
         /\ created' >= created /\ heap'.resource \in Nat /\ heap'.resource \in 1..created'
<1> DEFINE c == NewCapacity(size)
<1>1. /\ heap \in [resource : Nat, capacity : Nat] /\ capacity \in Nat /\ created \in Nat
      /\ heap # NoHeap => /\ capacity >= 1 /\ created >= 1
                          /\ heap.resource = created /\ heap.capacity = capacity
  BY DEF HeapInv
<1>2. CASE NeedsHeap(size)
  <2>1. c \in Nat /\ c >= 1 /\ c >= size
    <3> DEFINE e == IF heap = NoHeap THEN InitialCapacity ELSE capacity
    <3>1. e \in Nat /\ e >= 1
      BY <1>1, ReadbackAssumption
    <3>2. c = ComputeNewCapacity(e, size)
      BY DEF NewCapacity
    <3> HIDE DEF e, c
    <3>3. c \in Nat /\ c >= e /\ c >= size
      BY <3>1, <3>2, CapacityGrows
    <3> QED
      BY <3>1, <3>3
  <2>2. /\ created' = created + 1 /\ capacity' = c
        /\ heap' = [resource |-> created + 1, capacity |-> c]
        /\ data' = [b \in 0..c - 1 |-> Undefined]
    BY <1>2 DEF EnsureReadbackHeap
  <2> HIDE DEF c
  <2>3. heap'.resource = created + 1 /\ heap'.capacity = c /\ created + 1 \in Nat /\ created + 1 >= 1
    BY <1>1, <2>2
  <2>4. heap' # NoHeap
    <3>1. NoHeap.resource = 0
      BY DEF NoHeap
    <3> QED
      BY <1>1, <2>3, <3>1
  <2>5. data' \in [0..heap'.capacity - 1 -> Values]
    BY <2>2, <2>3 DEF Values
  <2>6. heap' \in [resource : Nat, capacity : Nat]
    BY <1>1, <2>1, <2>2
  <2> QED
    BY <1>1, <2>1, <2>2, <2>3, <2>4, <2>5, <2>6 DEF HeapInv
<1>3. CASE ~NeedsHeap(size)
  <2>1. heap' = heap /\ capacity' = capacity /\ data' = data /\ created' = created
    BY <1>3 DEF EnsureReadbackHeap, heapVars
  <2>2. heap # NoHeap /\ ~(capacity < size)
    BY <1>3 DEF NeedsHeap
  <2>3. HeapInv'
    BY <2>1 DEF HeapInv
  <2>4. heap'.capacity = capacity /\ heap'.resource = created /\ created >= 1
    BY <1>1, <2>1, <2>2
  <2> QED
    BY <1>1, <2>1, <2>2, <2>3, <2>4
<1> QED
  BY <1>2, <1>3

\* The total of a batch is a number.
LEMMA TotalIsNumber ==
  ASSUME NEW sizes \in Batches
  PROVE  TotalSize(sizes) \in Nat
<1>1. Len(sizes) \in Nat /\ Len(sizes) + 1 \in 1..Len(sizes) + 1
  BY BatchOf
<1> QED
  BY <1>1, Offsets DEF TotalSize

LEMMA TypeInit == Init => TypeInv
<1> SUFFICES ASSUME Init PROVE TypeInv
  OBVIOUS
<1>1. HeapInv
  <2>1. heap.capacity = 0 /\ heap \in [resource : Nat, capacity : Nat]
    BY DEF Init, NoHeap
  <2>2. data \in [0..heap.capacity - 1 -> Values]
    <3>1. 0..heap.capacity - 1 = {}
      BY <2>1
    <3>2. data \in [{} -> Values]
      BY DEF Init
    <3> QED
      BY <3>1, <3>2
  <2> QED
    BY <2>1, <2>2 DEF Init, HeapInv
<1>2. QueueInv
  BY DEF Init, QueueInv
<1>3. ThreadInv
  BY DEF Init, ThreadInv
<1> QED
  BY <1>1, <1>2, <1>3 DEF TypeInv

\* Recording and submitting a batch.
LEMMA TypeReadback ==
  ASSUME TypeInv, NEW th \in Threads, NEW sizes \in Batches, ReadbackFromGpu(th, sizes)
  PROVE  TypeInv'
<1> DEFINE batch == [i \in DOMAIN sizes |->
                       [resource |-> heap'.resource, offset |-> Offset(sizes, i),
                        size |-> sizes[i], value |-> Value(th, i)]]
<1>1. HeapInv /\ QueueInv /\ ThreadInv
  BY DEF TypeInv
<1>2. /\ HeapInv' /\ created' >= created
      /\ heap'.resource \in Nat /\ heap'.resource \in 1..created'
  BY <1>1, Ensured, TotalIsNumber DEF ReadbackFromGpu
<1>3. batch \in Submitted
  <2>1. DOMAIN sizes = 1..Len(sizes) /\ Len(sizes) \in 1..MaxBatch /\ Len(sizes) \in Nat
    BY BatchOf
  <2>2. ASSUME NEW i \in 1..Len(sizes)
        PROVE  [resource |-> heap'.resource, offset |-> Offset(sizes, i),
                size |-> sizes[i], value |-> Value(th, i)] \in Copy
    <3>1. Offset(sizes, i) \in Nat
      <4>1. i \in 1..Len(sizes) + 1
        BY <2>1
      <4> QED
        BY <4>1, Offsets
    <3>2. Value(th, i) \in Values
      <4>1. turn[th] \in {0, 1} /\ i \in 1..MaxBatch
        BY <1>1, <2>1, ReadbackAssumption DEF ThreadInv
      <4> QED
        BY <4>1 DEF Value, Values
    <3>3. sizes[i] \in Sizes
      BY <2>1, BatchOf
    <3> QED
      BY <1>2, <3>1, <3>2, <3>3 DEF Copy
  <2>3. batch \in [1..Len(sizes) -> Copy]
    BY <2>1, <2>2
  <2> QED
    BY <2>1, <2>3 DEF Submitted
<1>4. copies' = Append(copies, batch) /\ lastFence' = lastFence + 1 /\ completed' = completed
  BY DEF ReadbackFromGpu
<1>5. \A i \in DOMAIN batch : batch[i].resource = heap'.resource
  OBVIOUS
<1> HIDE DEF batch
<1>6. QueueInv'
  <2>1. /\ copies \in Seq(Submitted) /\ Len(copies) \in Nat /\ lastFence \in Nat /\ completed \in Nat
        /\ completed <= lastFence /\ Len(copies) = lastFence - completed
    BY <1>1 DEF QueueInv
  <2>2. /\ copies' \in Seq(Submitted) /\ Len(copies') = Len(copies) + 1
        /\ \A k \in 1..Len(copies) : copies'[k] = copies[k]
        /\ copies'[Len(copies) + 1] = batch
    BY <1>3, <1>4, <2>1
  <2>3. ASSUME NEW k \in 1..Len(copies'), NEW i \in DOMAIN copies'[k]
        PROVE  copies'[k][i].resource \in 1..created'
    <3>1. CASE k \in 1..Len(copies)
      <4>1. copies[k][i].resource \in 1..created
        BY <1>1, <2>2, <2>3, <3>1 DEF QueueInv
      <4>2. created \in Nat /\ created' \in Nat
        BY <1>1, <1>2 DEF HeapInv
      <4> QED
        BY <1>2, <2>2, <3>1, <4>1, <4>2
    <3>2. CASE k = Len(copies) + 1
      BY <1>2, <1>5, <2>2, <2>3, <3>2
    <3> QED
      BY <2>1, <2>2, <3>1, <3>2
  <2> QED
    BY <1>4, <2>1, <2>2, <2>3 DEF QueueInv
<1>7. ThreadInv'
  <2>1. turn' = turn /\ call' = [call EXCEPT ![th] = [sizes |-> sizes, event |-> CompletionEvent]]
    BY DEF ReadbackFromGpu
  <2>2. CompletionEvent \in Nat
    BY <1>1 DEF QueueInv, CompletionEvent
  <2>3. ASSUME NEW u \in Threads
        PROVE  call'[u] = NoCall \/ (call'[u].sizes \in Batches /\ call'[u].event \in Nat)
    BY <1>1, <2>1, <2>2 DEF ThreadInv
  <2> QED
    BY <1>1, <2>1, <2>3 DEF ThreadInv
<1> QED
  BY <1>2, <1>6, <1>7 DEF TypeInv

\* The creation of a heap fails.
LEMMA TypeFails ==
  ASSUME TypeInv, NEW th \in Threads, NEW sizes \in Batches, ReadbackFromGpuFails(th, sizes)
  PROVE  TypeInv'
<1>1. HeapInv /\ QueueInv /\ ThreadInv
  BY DEF TypeInv
<1>2. NewCapacity(TotalSize(sizes)) \in Nat
  <2> DEFINE e == IF heap = NoHeap THEN InitialCapacity ELSE capacity
  <2>1. e \in Nat /\ e >= 1
    BY <1>1, ReadbackAssumption DEF HeapInv
  <2>2. NewCapacity(TotalSize(sizes)) = ComputeNewCapacity(e, TotalSize(sizes))
    BY DEF NewCapacity
  <2> HIDE DEF e
  <2> QED
    BY <2>1, <2>2, CapacityGrows, TotalIsNumber
<1>3. HeapInv'
  <2>1. heap' = NoHeap /\ data' = <<>> /\ created' = created /\ capacity' \in Nat
    BY <1>2 DEF ReadbackFromGpuFails
  <2>2. heap'.capacity = 0 /\ heap' \in [resource : Nat, capacity : Nat]
    BY <2>1 DEF NoHeap
  <2>3. data' \in [0..heap'.capacity - 1 -> Values]
    <3>1. 0..heap'.capacity - 1 = {}
      BY <2>2
    <3>2. data' \in [{} -> Values]
      BY <2>1
    <3> QED
      BY <3>1, <3>2
  <2> QED
    BY <1>1, <2>1, <2>2, <2>3 DEF HeapInv
<1>4. QueueInv' /\ ThreadInv'
  <2>1. UNCHANGED <<created, copies, lastFence, completed, call, turn>>
    BY DEF ReadbackFromGpuFails
  <2> QED
    BY <1>1, <2>1 DEF QueueInv, ThreadInv
<1> QED
  BY <1>3, <1>4 DEF TypeInv

\* The greatest of a finite set of numbers; a batch has finitely many tensors.
LEMMA GreatestNumber ==
  ASSUME NEW m \in Nat, NEW S \in SUBSET (1..m), S # {}
  PROVE  Max(S) \in S
<1> DEFINE N == {m - k : k \in S}
<1>0. \A k \in S : k \in Int /\ m - k \in Nat
  OBVIOUS
<1>1. N \in SUBSET Nat /\ N # {}
  BY <1>0
<1>2. PICK n \in N : \A l \in N : n <= l
  <2> HIDE DEF N
  <2> QED
    BY <1>1, LeastNumber
<1>3. PICK k \in S : n = m - k
  BY <1>2
<1>4. ASSUME NEW l \in S PROVE k >= l
  <2>1. m - k <= m - l
    BY <1>2, <1>3
  <2> QED
    BY <1>0, <2>1
<1> QED
  BY <1>4 DEF Max

\* The GPU executes a batch.
LEMMA TypeGpu ==
  ASSUME TypeInv, GpuComplete
  PROVE  TypeInv'
<1> DEFINE batch == Head(copies)
           writers(b) == {i \in DOMAIN batch :
                            /\ batch[i].resource = heap.resource
                            /\ b \in batch[i].offset..batch[i].offset + batch[i].size - 1}
<1>1. HeapInv /\ QueueInv /\ ThreadInv
  BY DEF TypeInv
<1>2. /\ lastFence \in Nat /\ completed \in Nat /\ completed < lastFence
      /\ completed' = completed + 1 /\ lastFence' = lastFence
      /\ copies \in Seq(Submitted) /\ Len(copies) = lastFence - completed
      /\ copies' = Tail(copies)
      /\ UNCHANGED <<heap, capacity, created, call, turn>>
  BY <1>1 DEF QueueInv, GpuComplete
<1>3. /\ copies # <<>> /\ batch = copies[1] /\ batch \in Submitted
      /\ Tail(copies) \in Seq(Submitted) /\ Len(Tail(copies)) = Len(copies) - 1
      /\ \A k \in 1..Len(copies) - 1 : Tail(copies)[k] = copies[k + 1]
  BY <1>2
<1>4. \A b : writers(b) # {} => batch[Max(writers(b))].value \in Values
  <2>1. PICK n \in 1..MaxBatch : batch \in [1..n -> Copy]
    BY <1>3 DEF Submitted
  <2>2. n \in Nat
    BY ReadbackAssumption
  <2> HIDE DEF batch
  <2> SUFFICES ASSUME NEW b, writers(b) # {} PROVE batch[Max(writers(b))].value \in Values
    OBVIOUS
  <2>3. writers(b) \in SUBSET (1..n)
    BY <2>1
  <2> HIDE DEF writers
  <2>4. Max(writers(b)) \in 1..n
    BY <2>2, <2>3, GreatestNumber
  <2> QED
    BY <2>1, <2>4 DEF Copy
<1>5. HeapInv'
  <2>1. data' = [b \in DOMAIN data |->
                   IF writers(b) = {} THEN data[b] ELSE batch[Max(writers(b))].value]
    BY DEF GpuComplete
  <2> HIDE DEF batch, writers
  <2>2. data \in [0..heap.capacity - 1 -> Values]
    BY <1>1 DEF HeapInv
  <2>3. data' \in [0..heap.capacity - 1 -> Values]
    BY <1>4, <2>1, <2>2
  <2> QED
    BY <1>1, <1>2, <2>3 DEF HeapInv
<1> HIDE DEF batch, writers
<1>6. QueueInv'
  <2>1. ASSUME NEW k \in 1..Len(copies'), NEW i \in DOMAIN copies'[k]
        PROVE  copies'[k][i].resource \in 1..created
    <3>1. k + 1 \in 1..Len(copies) /\ copies'[k] = copies[k + 1]
      BY <1>2, <1>3
    <3> QED
      BY <1>1, <2>1, <3>1 DEF QueueInv
  <2> QED
    BY <1>2, <1>3, <2>1 DEF QueueInv
<1>7. ThreadInv'
  BY <1>1, <1>2 DEF ThreadInv
<1> QED
  BY <1>5, <1>6, <1>7 DEF TypeInv

LEMMA TypeStep == TypeInv /\ [Next]_vars => TypeInv'
<1> SUFFICES ASSUME TypeInv, [Next]_vars PROVE TypeInv'
  OBVIOUS
<1>1. ASSUME NEW th \in Threads, NEW sizes \in Batches,
             ReadbackFromGpu(th, sizes) \/ ReadbackFromGpuFails(th, sizes)
      PROVE  TypeInv'
  BY <1>1, TypeReadback, TypeFails
<1>2. ASSUME NEW th \in Threads, ReadbackDone(th) \/ NextTurn(th) PROVE TypeInv'
  <2>1. UNCHANGED <<heap, capacity, data, created, copies, lastFence, completed>>
    BY <1>2 DEF ReadbackDone, NextTurn, heapVars
  <2>2. HeapInv' /\ QueueInv'
    BY <2>1 DEF TypeInv, HeapInv, QueueInv
  <2>3. ThreadInv'
    <3>1. CASE ReadbackDone(th)
      <4>1. turn' = turn /\ call' = [call EXCEPT ![th] = NoCall]
        BY <3>1 DEF ReadbackDone
      <4> QED
        BY <4>1 DEF TypeInv, ThreadInv
    <3>2. CASE NextTurn(th)
      <4>1. turn' = [turn EXCEPT ![th] = 1 - @] /\ call' = call
        BY <3>2 DEF NextTurn
      <4>2. turn \in [Threads -> {0, 1}]
        BY DEF TypeInv, ThreadInv
      <4>3. turn' \in [Threads -> {0, 1}]
        BY <4>1, <4>2
      <4> QED
        BY <4>1, <4>3 DEF TypeInv, ThreadInv
    <3> QED
      BY <1>2, <3>1, <3>2
  <2> QED
    BY <2>2, <2>3 DEF TypeInv
<1>3. CASE GpuComplete
  BY <1>3, TypeGpu
<1>4. CASE UNCHANGED vars
  BY <1>4 DEF vars, heapVars, TypeInv, HeapInv, QueueInv, ThreadInv
<1> QED
  BY <1>1, <1>2, <1>3, <1>4 DEF Next

\* Every state is well typed, however many threads read back: the contents of the heap
\* have its capacity, and copies name heaps that were created (ReadbackFromGpu,
\* EnsureReadbackHeap).
THEOREM TypeCorrect == Spec => []TypeOK
<1>1. TypeInv => TypeOK
  <2> SUFFICES ASSUME TypeInv PROVE TypeOK
    OBVIOUS
  <2>1. HeapInv /\ QueueInv /\ ThreadInv
    BY DEF TypeInv
  <2>2. ASSUME NEW k \in DOMAIN copies, NEW i \in DOMAIN copies[k]
        PROVE  copies[k][i] \in [resource : 1..created, offset : Nat, size : Sizes, value : Values]
    <3>1. k \in 1..Len(copies) /\ copies[k] \in Submitted
      BY <2>1 DEF QueueInv
    <3>2. copies[k][i] \in Copy
      BY <3>1 DEF Submitted
    <3>3. copies[k][i].resource \in 1..created
      BY <2>1, <3>1 DEF QueueInv
    <3> QED
      BY <3>2, <3>3 DEF Copy
  <2>3. \A th \in Threads : call[th].sizes \in Batches \cup {<<>>} /\ call[th].event \in Nat
    BY <2>1 DEF ThreadInv, NoCall
  <2> QED
    BY <2>1, <2>2, <2>3 DEF TypeOK, HeapInv, QueueInv, ThreadInv
<1> QED
  BY <1>1, TypeInit, TypeStep, PTL DEF Spec

-----------------------------------------------------------------------------
\* No 32-bit total of a batch wraps: each tensor ends before 2^32.
NoWrap == \A sizes \in Batches : \A i \in DOMAIN sizes : Offset(sizes, i) + sizes[i] < Width

\* Then the tensors of a batch lie one after the other, up to its total.
LEMMA OffsetsApart ==
  ASSUME NoWrap, NEW sizes \in Batches, NEW i \in DOMAIN sizes
  PROVE  /\ Offset(sizes, i) + sizes[i] <= TotalSize(sizes)
         /\ \A j \in DOMAIN sizes : i < j => Offset(sizes, i) + sizes[i] <= Offset(sizes, j)
<1> DEFINE n == Len(sizes)
           P == {k \in 0..n : k >= i => Offset(sizes, i) + sizes[i] <= Offset(sizes, k + 1)}
<1>1. /\ n \in Nat /\ DOMAIN sizes = 1..n /\ i \in 1..n /\ Width \in Nat
      /\ \A k \in 1..n : sizes[k] \in Nat /\ Offset(sizes, k) \in Nat
  <2>1. \A k \in 1..n : k \in 1..n + 1
    BY BatchOf
  <2> QED
    BY <2>1, BatchOf, Offsets, ReadbackAssumption
<1>2. \A k \in 1..n : Offset(sizes, k + 1) = Offset(sizes, k) + sizes[k]
  <2> SUFFICES ASSUME NEW k \in 1..n
               PROVE  Offset(sizes, k + 1) = Offset(sizes, k) + sizes[k]
    OBVIOUS
  <2> DEFINE x == Offset(sizes, k) + sizes[k]
  <2>1. x \in Nat /\ x < Width
    BY <1>1 DEF NoWrap
  <2>2. Offset(sizes, k + 1) = x % Width
    BY Offsets
  <2> HIDE DEF x
  <2>3. x % Width = x
    BY <1>1, <2>1
  <2> QED
    BY <2>2, <2>3 DEF x
<1>3. 0 \in P
  BY <1>1
<1>4. ASSUME NEW k \in 1..n, k - 1 \in P PROVE k \in P
  <2>1. k - 1 \in 0..n /\ k \in 0..n /\ (k - 1) + 1 = k
    BY <1>1
  <2>2. k - 1 >= i => Offset(sizes, i) + sizes[i] <= Offset(sizes, k)
    BY <1>4, <2>1
  <2> HIDE DEF n
  <2>3. k >= i => Offset(sizes, i) + sizes[i] <= Offset(sizes, k + 1)
    <3>1. CASE k = i
      <4>1. Offset(sizes, k + 1) = Offset(sizes, i) + sizes[i]
        BY <1>2, <3>1
      <4>2. Offset(sizes, i) \in Nat /\ sizes[i] \in Nat
        BY <1>1
      <4> QED
        BY <4>1, <4>2
    <3>2. CASE k # i
      <4>1. Offset(sizes, k) \in Nat /\ sizes[k] \in Nat /\ Offset(sizes, i) \in Nat /\ sizes[i] \in Nat
        BY <1>1
      <4>2. Offset(sizes, k + 1) = Offset(sizes, k) + sizes[k]
        BY <1>2
      <4>3. k >= i => k - 1 >= i
        BY <1>1, <3>2
      <4> QED
        BY <2>2, <4>1, <4>2, <4>3
    <3> QED
      BY <3>1, <3>2
  <2> QED
    BY <2>1, <2>3
<1> HIDE DEF P
<1>5. \A k \in 0..n : k \in P
  BY <1>1, <1>3, <1>4, UpTo
<1>6. ASSUME NEW j \in 1..n, i < j PROVE Offset(sizes, i) + sizes[i] <= Offset(sizes, j)
  <2>1. j - 1 \in 0..n /\ (j - 1) + 1 = j /\ j - 1 >= i
    BY <1>1, <1>6
  <2>2. j - 1 \in P
    BY <1>5, <2>1
  <2> QED
    BY <2>1, <2>2 DEF P
<1>7. Offset(sizes, i) + sizes[i] <= TotalSize(sizes)
  <2>1. n \in 0..n /\ n >= i
    BY <1>1
  <2>2. n \in P
    BY <1>5, <2>1
  <2> QED
    BY <2>1, <2>2 DEF P, TotalSize
<1> QED
  BY <1>1, <1>6, <1>7

\* The copies of the call that waits are the GPU's, or their bytes are in the heap.
Recorded(th, sizes) ==
  /\ completed = lastFence - 1
  /\ DOMAIN copies[1] = DOMAIN sizes
  /\ \A i \in DOMAIN sizes :
       /\ copies[1][i].resource = heap.resource
       /\ copies[1][i].offset = Offset(sizes, i)
       /\ copies[1][i].size = sizes[i]
       /\ copies[1][i].value = Value(th, i)

Executed(th, sizes) ==
  /\ completed = lastFence
  /\ \A i \in DOMAIN sizes : \A b \in 0..sizes[i] - 1 :
       data[Offset(sizes, i) + b] = Value(th, i)

Delivered(th) == \A i \in DOMAIN dst[th] : \A b \in DOMAIN dst[th][i] : dst[th][i][b] = Value(th, i)

Waiting(th) ==
  /\ call[th].event = lastFence
  /\ heap # NoHeap /\ TotalSize(call[th].sizes) <= heap.capacity
  /\ dst[th] = <<>>
  /\ Recorded(th, call[th].sizes) \/ Executed(th, call[th].sizes)

\* One thread: between calls nothing is left to the GPU, and a call finds its own
\* batch recorded or executed when it goes on.
CallInv(th) ==
  /\ DOMAIN dst = Threads
  /\ call[th] = NoCall => completed = lastFence /\ Delivered(th)
  /\ call[th] # NoCall => Waiting(th)

LEMMA CallInit == ASSUME NEW t, Threads = {t}, Init PROVE CallInv(t)
  BY DEF Init, CallInv, Delivered

LEMMA CallReadback ==
  ASSUME NEW t, Threads = {t}, TypeInv, CallInv(t), NEW sizes \in Batches, ReadbackFromGpu(t, sizes)
  PROVE  CallInv(t)'
<1> DEFINE batch == [i \in DOMAIN sizes |->
                       [resource |-> heap'.resource, offset |-> Offset(sizes, i),
                        size |-> sizes[i], value |-> Value(t, i)]]
<1>1. /\ lastFence \in Nat /\ completed = lastFence /\ copies \in Seq(Submitted) /\ Len(copies) = 0
      /\ DOMAIN call = Threads /\ DOMAIN dst = Threads
  BY DEF TypeInv, QueueInv, ThreadInv, CallInv, ReadbackFromGpu
<1>2. /\ copies' = Append(copies, batch) /\ lastFence' = lastFence + 1 /\ completed' = completed
      /\ call' = [call EXCEPT ![t] = [sizes |-> sizes, event |-> lastFence + 1]]
      /\ dst' = [dst EXCEPT ![t] = <<>>]
      /\ turn' = turn
  BY DEF ReadbackFromGpu, CompletionEvent
<1>3. heap' # NoHeap /\ heap'.capacity >= TotalSize(sizes)
  BY Ensured, TotalIsNumber DEF ReadbackFromGpu, TypeInv
<1>4. /\ call'[t] = [sizes |-> sizes, event |-> lastFence + 1]
      /\ call'[t].sizes = sizes /\ call'[t].event = lastFence + 1
      /\ dst'[t] = <<>> /\ DOMAIN dst' = Threads
  BY <1>1, <1>2
<1>5. call'[t] # NoCall
  <2>1. NoCall.sizes = <<>>
    BY DEF NoCall
  <2> QED
    BY <1>4, <2>1, BatchOf
<1>6. /\ DOMAIN batch = DOMAIN sizes
      /\ \A i \in DOMAIN sizes :
           /\ batch[i].resource = heap'.resource
           /\ batch[i].offset = Offset(sizes, i)
           /\ batch[i].size = sizes[i]
           /\ batch[i].value = Value(t, i)
  OBVIOUS
<1> HIDE DEF batch
<1>7. copies'[1] = batch
  <2>1. copies = <<>>
    BY <1>1
  <2> QED
    BY <1>2, <2>1
<1>8. \A i : Value(t, i)' = Value(t, i)
  BY <1>2 DEF Value
<1>9. Recorded(t, sizes)'
  BY <1>1, <1>2, <1>6, <1>7, <1>8 DEF Recorded
<1>10. TotalSize(sizes) <= heap'.capacity
  BY <1>3
<1>11. Waiting(t)'
  BY <1>2, <1>3, <1>4, <1>9, <1>10 DEF Waiting
<1> QED
  BY <1>4, <1>5, <1>11 DEF CallInv

LEMMA CallDone ==
  ASSUME NEW t, Threads = {t}, NoWrap, TypeInv, CallInv(t), ReadbackDone(t)
  PROVE  CallInv(t)'
<1> DEFINE sizes == call[t].sizes
<1>1. /\ sizes \in Batches /\ lastFence \in Nat /\ completed \in Nat /\ completed <= lastFence
      /\ heap \in [resource : Nat, capacity : Nat] /\ data \in [0..heap.capacity - 1 -> Values]
      /\ DOMAIN call = Threads /\ DOMAIN dst = Threads
      /\ t \in Threads /\ call[t] # NoCall
  BY DEF TypeInv, HeapInv, QueueInv, ThreadInv, CallInv, ReadbackDone
<1>2. /\ call[t].event = lastFence /\ call[t].event <= completed
      /\ TotalSize(sizes) <= heap.capacity
      /\ Recorded(t, sizes) \/ Executed(t, sizes)
  BY <1>1 DEF CallInv, Waiting, ReadbackDone
<1>3. completed = lastFence
  BY <1>1, <1>2
<1>4. Executed(t, sizes)
  <2>1. completed # lastFence - 1
    BY <1>1, <1>3
  <2> QED
    BY <1>2, <2>1 DEF Recorded
<1>5. /\ dst' = [dst EXCEPT ![t] = [i \in DOMAIN sizes |-> Mapped(sizes, i)]]
      /\ call' = [call EXCEPT ![t] = NoCall]
      /\ completed' = completed /\ lastFence' = lastFence /\ turn' = turn
  BY DEF ReadbackDone
<1> HIDE DEF sizes
<1>6. dst'[t] = [i \in DOMAIN sizes |-> Mapped(sizes, i)] /\ call'[t] = NoCall /\ DOMAIN dst' = Threads
  BY <1>1, <1>5
<1>7. ASSUME NEW i \in DOMAIN sizes, NEW b \in 0..sizes[i] - 1
      PROVE  Mapped(sizes, i)[b] = Value(t, i)
  <2>1. /\ sizes[i] \in Nat /\ Offset(sizes, i) \in Nat /\ TotalSize(sizes) \in Nat
        /\ Offset(sizes, i) + sizes[i] <= TotalSize(sizes)
    <3>1. i \in 1..Len(sizes) + 1
      BY <1>1, BatchOf
    <3> QED
      BY <1>1, <3>1, BatchOf, Offsets, TotalIsNumber, OffsetsApart
  <2>2. heap.capacity \in Nat /\ DOMAIN data = 0..heap.capacity - 1
    BY <1>1
  <2>3. Offset(sizes, i) + b \in DOMAIN data
    BY <1>2, <2>1, <2>2
  <2>4. Mapped(sizes, i)[b] = data[Offset(sizes, i) + b]
    BY <2>3 DEF Mapped
  <2> QED
    BY <1>4, <2>4 DEF Executed
<1>8. Delivered(t)'
  <2>1. \A i \in DOMAIN sizes : DOMAIN Mapped(sizes, i) = 0..sizes[i] - 1
    BY DEF Mapped
  <2>2. \A i : Value(t, i)' = Value(t, i)
    BY <1>5 DEF Value
  <2>3. ASSUME NEW i \in DOMAIN dst'[t], NEW b \in DOMAIN dst'[t][i]
        PROVE  dst'[t][i][b] = Value(t, i)
    <3>1. i \in DOMAIN sizes /\ dst'[t][i] = Mapped(sizes, i)
      BY <1>6
    <3>2. b \in 0..sizes[i] - 1
      BY <2>1, <3>1
    <3> QED
      BY <1>7, <3>1, <3>2
  <2> QED
    BY <2>2, <2>3 DEF Delivered
<1> QED
  BY <1>3, <1>5, <1>6, <1>8 DEF CallInv

LEMMA CallGpu ==
  ASSUME NEW t, Threads = {t}, NoWrap, TypeInv, CallInv(t), GpuComplete
  PROVE  CallInv(t)'
<1> DEFINE sizes == call[t].sizes
           batch == Head(copies)
<1>1. /\ lastFence \in Nat /\ completed \in Nat /\ completed < lastFence
      /\ completed' = completed + 1
      /\ copies \in Seq(Submitted) /\ Len(copies) = lastFence - completed
      /\ UNCHANGED <<heap, lastFence, call, turn, dst>>
  BY DEF TypeInv, QueueInv, GpuComplete
<1>2. call[t] # NoCall /\ Waiting(t) /\ DOMAIN dst = Threads
  BY <1>1 DEF CallInv
<1>3. Recorded(t, sizes) /\ TotalSize(sizes) <= heap.capacity
  <2>1. completed # lastFence
    BY <1>1
  <2> QED
    BY <1>2, <2>1 DEF Waiting, Executed
<1>4. batch = copies[1] /\ completed' = lastFence
  BY <1>1, <1>3 DEF Recorded
<1>5. /\ sizes \in Batches
      /\ heap \in [resource : Nat, capacity : Nat] /\ data \in [0..heap.capacity - 1 -> Values]
  BY <1>2 DEF TypeInv, HeapInv, ThreadInv
<1>6. ASSUME NEW i \in DOMAIN sizes, NEW b \in 0..sizes[i] - 1
      PROVE  data'[Offset(sizes, i) + b] = Value(t, i)
  <2> DEFINE x == Offset(sizes, i) + b
             writers == {j \in DOMAIN batch :
                           /\ batch[j].resource = heap.resource
                           /\ x \in batch[j].offset..batch[j].offset + batch[j].size - 1}
  <2>1. \A j \in DOMAIN sizes : /\ j \in Nat /\ sizes[j] \in Nat /\ Offset(sizes, j) \in Nat
                                /\ Offset(sizes, j) + sizes[j] <= TotalSize(sizes)
    <3>1. \A j \in DOMAIN sizes : j \in 1..Len(sizes) + 1 /\ j \in Nat
      BY <1>5, BatchOf
    <3> QED
      BY <1>5, <3>1, BatchOf, Offsets, OffsetsApart
  <2>2. TotalSize(sizes) \in Nat /\ heap.capacity \in Nat /\ DOMAIN data = 0..heap.capacity - 1
    BY <1>5, TotalIsNumber
  <2>3. x \in DOMAIN data
    BY <1>3, <2>1, <2>2
  <2>4. data'[x] = IF writers = {} THEN data[x] ELSE batch[Max(writers)].value
    BY <2>3 DEF GpuComplete
  <2>5. DOMAIN batch = DOMAIN sizes
    BY <1>3, <1>4 DEF Recorded
  <2>6. \A j \in DOMAIN sizes : /\ batch[j].resource = heap.resource
                                /\ batch[j].offset = Offset(sizes, j)
                                /\ batch[j].size = sizes[j]
                                /\ batch[j].value = Value(t, j)
    BY <1>3, <1>4 DEF Recorded
  <2>7. i \in writers
    <3>1. x \in Offset(sizes, i)..Offset(sizes, i) + sizes[i] - 1
      BY <2>1
    <3> HIDE DEF x
    <3> QED
      BY <2>5, <2>6, <3>1
  <2>8. ASSUME NEW j \in writers PROVE j = i
    <3>1. j \in DOMAIN sizes
      BY <2>5
    <3>2. x \in Offset(sizes, j)..Offset(sizes, j) + sizes[j] - 1
      BY <2>6, <3>1
    <3>3. i < j => Offset(sizes, i) + sizes[i] <= Offset(sizes, j)
      BY <1>5, <3>1, OffsetsApart
    <3>4. j < i => Offset(sizes, j) + sizes[j] <= Offset(sizes, i)
      BY <1>5, <3>1, OffsetsApart
    <3>5. /\ i \in Nat /\ j \in Nat /\ sizes[i] \in Nat /\ sizes[j] \in Nat
          /\ Offset(sizes, i) \in Nat /\ Offset(sizes, j) \in Nat
      BY <2>1, <3>1
    <3> HIDE DEF sizes
    <3> QED
      BY <3>2, <3>3, <3>4, <3>5
  <2> HIDE DEF writers
  <2>9. Max(writers) = i
    <3>1. writers = {i}
      BY <2>7, <2>8
    <3>2. i \in Nat
      BY <2>1
    <3>3. i >= i
      BY <3>2
    <3> QED
      BY <3>1, <3>3 DEF Max
  <2> QED
    BY <2>4, <2>6, <2>7, <2>9
<1>7. Executed(t, sizes)'
  <2>1. \A i : Value(t, i)' = Value(t, i)
    BY <1>1 DEF Value
  <2>2. sizes' = sizes /\ lastFence' = lastFence
    BY <1>1
  <2> QED
    BY <1>4, <1>6, <2>1, <2>2 DEF Executed
<1> QED
  BY <1>1, <1>2, <1>3, <1>7 DEF CallInv, Waiting

LEMMA CallStep ==
  ASSUME NEW t, Threads = {t}, NoWrap, TypeInv, CallInv(t), [Next]_vars
  PROVE  CallInv(t)'
<1>1. ASSUME NEW sizes \in Batches, ReadbackFromGpu(t, sizes) PROVE CallInv(t)'
  BY <1>1, CallReadback
<1>2. ASSUME NEW sizes \in Batches, ReadbackFromGpuFails(t, sizes) PROVE CallInv(t)'
  <2>1. call[t] = NoCall /\ UNCHANGED <<lastFence, completed, call, turn, dst>>
    BY <1>2 DEF ReadbackFromGpuFails
  <2> QED
    BY <2>1 DEF CallInv, Delivered, Value
<1>3. CASE ReadbackDone(t)
  BY <1>3, CallDone
<1>4. CASE NextTurn(t)
  <2>1. /\ call[t] = NoCall /\ call' = call /\ completed' = completed /\ lastFence' = lastFence
        /\ dst' = [dst EXCEPT ![t] = <<>>]
    BY <1>4 DEF NextTurn
  <2>2. dst'[t] = <<>> /\ DOMAIN dst' = Threads
    BY <2>1 DEF CallInv
  <2>3. Delivered(t)'
    BY <2>2 DEF Delivered
  <2> QED
    BY <2>1, <2>2, <2>3 DEF CallInv
<1>5. CASE GpuComplete
  BY <1>5, CallGpu
<1>6. CASE UNCHANGED vars
  BY <1>6 DEF vars, heapVars, CallInv, Delivered, Waiting, Recorded, Executed, Value
<1> QED
  BY <1>1, <1>2, <1>3, <1>4, <1>5, <1>6 DEF Next

\* One thread gets the bytes of the tensors it asked for, for any sizes whose totals fit
\* 32 bits, also after the heap was replaced or its creation failed (ReadbackFromGpu).
THEOREM ReadbackExactTheorem ==
  ASSUME NEW t, Threads = {t}, NoWrap
  PROVE  Spec => []ReadbackExact
<1>1. Init => TypeInv /\ CallInv(t)
  BY TypeInit, CallInit
<1>2. TypeInv /\ CallInv(t) /\ [Next]_vars => (TypeInv /\ CallInv(t))'
  BY TypeStep, CallStep
<1>3. TypeInv /\ CallInv(t) => ReadbackExact
  <2> SUFFICES ASSUME TypeInv, CallInv(t) PROVE Delivered(t)
    BY DEF ReadbackExact, Delivered
  <2>1. CASE call[t] = NoCall
    BY <2>1 DEF CallInv
  <2>2. CASE call[t] # NoCall
    BY <2>2 DEF CallInv, Waiting, Delivered
  <2> QED
    BY <2>1, <2>2
<1> QED
  BY <1>1, <1>2, <1>3, PTL DEF Spec

\* The GPU writes into the heap the call maps, inside its capacity, under the same
\* conditions (EnsureReadbackHeap).
THEOREM CopiesInHeapTheorem ==
  ASSUME NEW t, Threads = {t}, NoWrap
  PROVE  Spec => []CopiesInHeap
<1>1. Init => TypeInv /\ CallInv(t)
  BY TypeInit, CallInit
<1>2. TypeInv /\ CallInv(t) /\ [Next]_vars => (TypeInv /\ CallInv(t))'
  BY TypeStep, CallStep
<1>3. TypeInv /\ CallInv(t) => CopiesInHeap
  <2> SUFFICES ASSUME TypeInv, CallInv(t), NEW k \in DOMAIN copies, NEW i \in DOMAIN copies[k]
               PROVE  /\ copies[k][i].resource = heap.resource
                      /\ copies[k][i].offset + copies[k][i].size <= heap.capacity
    BY DEF CopiesInHeap
  <2> DEFINE sizes == call[t].sizes
  <2>1. /\ lastFence \in Nat /\ completed \in Nat /\ copies \in Seq(Submitted)
        /\ Len(copies) = lastFence - completed /\ k \in 1..Len(copies)
    BY DEF TypeInv, QueueInv
  <2>2. completed # lastFence
    BY <2>1
  <2>3. call[t] # NoCall /\ Recorded(t, sizes) /\ TotalSize(sizes) <= heap.capacity
    BY <2>2 DEF CallInv, Waiting, Executed
  <2>4. k = 1
    BY <2>1, <2>3 DEF Recorded
  <2>5. sizes \in Batches /\ heap.capacity \in Nat
    BY <2>3 DEF TypeInv, ThreadInv, HeapInv
  <2> HIDE DEF sizes
  <2>6. /\ i \in DOMAIN sizes /\ copies[k][i].resource = heap.resource
        /\ copies[k][i].offset = Offset(sizes, i) /\ copies[k][i].size = sizes[i]
    BY <2>3, <2>4 DEF Recorded
  <2>7. /\ sizes[i] \in Nat /\ Offset(sizes, i) \in Nat /\ TotalSize(sizes) \in Nat
        /\ Offset(sizes, i) + sizes[i] <= TotalSize(sizes)
    <3>1. i \in 1..Len(sizes) + 1
      BY <2>5, <2>6, BatchOf
    <3> QED
      BY <2>5, <2>6, <3>1, BatchOf, Offsets, TotalIsNumber, OffsetsApart
  <2> QED
    BY <2>3, <2>5, <2>6, <2>7
<1> QED
  BY <1>1, <1>2, <1>3, PTL DEF Spec

-----------------------------------------------------------------------------
(* The contract of ResourceLifetime *)

Existing == {heap.resource} \ {0}
Used == UNION {{copies[k][i].resource : i \in DOMAIN copies[k]} : k \in DOMAIN copies}
UsesExist == Used \subseteq Existing /\ Existing \subseteq Nat

\* One thread: between calls nothing is left to the GPU, and what is left to it during a
\* call writes to the heap of that call, whether or not 32-bit totals wrap.
LifeInv(th) ==
  /\ call[th] = NoCall => copies = <<>>
  /\ call[th] # NoCall => call[th].event = lastFence
  /\ \A k \in DOMAIN copies : \A i \in DOMAIN copies[k] : copies[k][i].resource = heap.resource

LEMMA LifeStep ==
  ASSUME NEW t, Threads = {t}, TypeInv, LifeInv(t), [Next]_vars
  PROVE  LifeInv(t)'
<1>1. /\ lastFence \in Nat /\ completed \in Nat /\ completed <= lastFence
      /\ copies \in Seq(Submitted) /\ Len(copies) = lastFence - completed
      /\ DOMAIN call = Threads
  BY DEF TypeInv, QueueInv, ThreadInv
<1>2. ASSUME NEW sizes \in Batches, ReadbackFromGpu(t, sizes) PROVE LifeInv(t)'
  <2> DEFINE batch == [i \in DOMAIN sizes |->
                         [resource |-> heap'.resource, offset |-> Offset(sizes, i),
                          size |-> sizes[i], value |-> Value(t, i)]]
  <2>1. copies = <<>> /\ copies' = Append(copies, batch) /\ lastFence' = lastFence + 1
    BY <1>2 DEF ReadbackFromGpu, LifeInv
  <2>2. call'[t] = [sizes |-> sizes, event |-> lastFence + 1]
    BY <1>1, <1>2 DEF ReadbackFromGpu, CompletionEvent
  <2>3. call'[t] # NoCall
    <3>1. NoCall.sizes = <<>> /\ call'[t].sizes = sizes
      BY <2>2 DEF NoCall
    <3> QED
      BY <3>1, BatchOf
  <2>4. \A i \in DOMAIN batch : batch[i].resource = heap'.resource
    OBVIOUS
  <2> HIDE DEF batch
  <2>5. DOMAIN copies' = {1} /\ copies'[1] = batch
    BY <2>1
  <2> QED
    BY <2>1, <2>2, <2>3, <2>4, <2>5 DEF LifeInv
<1>3. ASSUME NEW sizes \in Batches, ReadbackFromGpuFails(t, sizes) PROVE LifeInv(t)'
  <2>1. copies = <<>> /\ UNCHANGED <<copies, lastFence, call>> /\ call[t] = NoCall
    BY <1>3 DEF ReadbackFromGpuFails, LifeInv
  <2> QED
    BY <2>1 DEF LifeInv
<1>4. CASE ReadbackDone(t)
  <2>1. /\ call[t].event = lastFence /\ call[t].event <= completed
        /\ call' = [call EXCEPT ![t] = NoCall] /\ UNCHANGED <<copies, heap>>
    BY <1>4 DEF ReadbackDone, LifeInv, heapVars
  <2>2. copies = <<>>
    BY <1>1, <2>1
  <2> QED
    BY <1>1, <2>1, <2>2 DEF LifeInv
<1>5. CASE NextTurn(t)
  BY <1>5 DEF NextTurn, LifeInv, heapVars
<1>6. CASE GpuComplete
  <2>1. /\ copies' = Tail(copies) /\ completed < lastFence
        /\ UNCHANGED <<heap, lastFence, call>>
    BY <1>6 DEF GpuComplete
  <2>2. copies # <<>> /\ call[t] # NoCall
    BY <1>1, <2>1 DEF LifeInv
  <2>3. \A k \in DOMAIN copies' : k + 1 \in DOMAIN copies /\ copies'[k] = copies[k + 1]
    BY <1>1, <2>1, <2>2
  <2> QED
    BY <2>1, <2>2, <2>3 DEF LifeInv
<1>7. CASE UNCHANGED vars
  BY <1>7 DEF vars, heapVars, LifeInv
<1> QED
  BY <1>2, <1>3, <1>4, <1>5, <1>6, <1>7 DEF Next

\* The heap a call writes to exists.
LEMMA UsedExist ==
  ASSUME NEW t, Threads = {t}, TypeInv, LifeInv(t)
  PROVE  UsesExist
<1>1. heap.resource \in Nat
  BY DEF TypeInv, HeapInv
<1>2. ASSUME NEW r \in Used PROVE r = heap.resource /\ r # 0
  <2>1. PICK k \in DOMAIN copies : \E i \in DOMAIN copies[k] : r = copies[k][i].resource
    BY DEF Used
  <2>2. PICK i \in DOMAIN copies[k] : r = copies[k][i].resource
    BY <2>1
  <2>3. k \in 1 .. Len(copies)
    BY DEF TypeInv, QueueInv
  <2>4. r \in 1 .. created
    BY <2>2, <2>3 DEF TypeInv, QueueInv
  <2> QED
    BY <2>2, <2>4 DEF LifeInv, TypeInv, HeapInv
<1> QED
  BY <1>1, <1>2 DEF Existing, UsesExist

\* A call replaces the heap only when the GPU has nothing to write to it.
LEMMA LifetimeStep ==
  ASSUME NEW t, Threads = {t}, TypeInv, LifeInv(t), UsesExist', [Next]_vars
  PROVE  [Lifetime!Next]_(Lifetime!vars)
<1> SUFFICES Lifetime!Next \/ UNCHANGED <<Existing, Used>>
  BY DEF Lifetime!vars, Existing, Used
<1>1. Used' \subseteq Existing' /\ Existing' \subseteq Nat
  BY DEF UsesExist
<1>2. CASE Used \subseteq Used'
  BY <1>1, <1>2 DEF Lifetime!Next, Lifetime!CpuStep, Existing, Used
<1>3. CASE GpuComplete
  <2>1. copies' = Tail(copies) /\ copies # <<>> /\ UNCHANGED heap
    BY <1>3 DEF GpuComplete, TypeInv, QueueInv
  <2>2. \A k \in DOMAIN copies' : k + 1 \in DOMAIN copies /\ copies'[k] = copies[k + 1]
    BY <2>1 DEF TypeInv, QueueInv
  <2>3. Used' \subseteq Used /\ Existing' = Existing
    BY <2>1, <2>2 DEF Used, Existing
  <2> QED
    BY <2>3 DEF Lifetime!Next, Lifetime!GpuStep, Existing, Used
<1>4. CASE Next /\ ~GpuComplete
  <2>1. copies = <<>> \/ copies' = copies
    BY <1>4 DEF Next, ReadbackFromGpu, ReadbackFromGpuFails, ReadbackDone, NextTurn, LifeInv
  <2> QED
    BY <1>2, <2>1 DEF Used
<1>5. CASE UNCHANGED vars
  BY <1>5 DEF vars, heapVars, Existing, Used
<1> QED
  BY <1>3, <1>4, <1>5

\* The readback heap of one thread keeps the contract too: replacing the heap, or failing
\* to, releases none that a copy still writes to.
THEOREM Implements ==
  ASSUME NEW t, Threads = {t}
  PROVE  Spec => LifetimeSpec
<1>1. Init => Lifetime!Init /\ TypeInv /\ LifeInv(t)
  BY TypeInit DEF Init, Lifetime!Init, LifeInv, NoHeap, NoCall
<1>2. TypeInv /\ LifeInv(t) /\ [Next]_vars => (TypeInv /\ LifeInv(t))'
  BY TypeStep, LifeStep
<1>3. TypeInv /\ LifeInv(t) => UsesExist
  BY UsedExist
<1>4. TypeInv /\ LifeInv(t) /\ UsesExist' /\ [Next]_vars => [Lifetime!Next]_(Lifetime!vars)
  BY LifetimeStep
<1> QED
  BY <1>1, <1>2, <1>3, <1>4, PTL DEF Spec, LifetimeSpec, Lifetime!Spec
=============================================================================
