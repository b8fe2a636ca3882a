------------------------------ MODULE UploadHeap ------------------------------
(***************************************************************************)
(* The pooled upload heap of one DirectML session: CPU data is copied into *)
(* a staging chunk, used as a ring buffer, and a GPU copy out of the chunk *)
(* is recorded.  The range may be overwritten once that copy has executed. *)
(*                                                                         *)
(* The execution context is reduced to its fence: lastFence batches are    *)
(* submitted, completed of them executed; work is recorded for the next.   *)
(* The device is not removed (a removed device executes no copies).        *)
(***************************************************************************)
EXTENDS Integers, FiniteSetsExt, SequencesExt, Functions

CONSTANTS
  Sizes,         \* sizes of the uploads
  Alignment,     \* c_allocationAlignment
  MinChunkSize,  \* c_minChunkSize
  MaxChunkSize,  \* c_maxChunkSize
  MaxFence,      \* bound on the number of submissions
  MaxChunks      \* bound on the number of chunks ever created

\* Callers skip empty tensors.
ASSUME SizesAssumption == Sizes \subseteq Nat \ {0}
ASSUME ChunkAssumption ==
  /\ Alignment \in Nat \ {0}
  /\ MinChunkSize \in Nat \ {0}
  /\ MaxChunkSize \in Nat
  /\ MinChunkSize <= MaxChunkSize
ASSUME UploadBounds == MaxFence \in Nat /\ MaxChunks \in Nat

VARIABLES
  chunks,              \* m_chunks
  totalCapacity,       \* m_totalCapacity
  created,             \* number of chunk resources created so far
  lastFence,           \* last submitted fence value
  completed,           \* last fence value the GPU reached
  recorded,            \* work is recorded for the next batch
  waiting,             \* the thread waits in OnSessionInitializationEnd
  sessionInitialized,  \* m_sessionInitialized
  pending,             \* history: copies out of the heap not yet executed
  overwritten          \* history: the range of one of them was given out again

heapVars == <<chunks, totalCapacity, created>>
sessionVars == <<waiting, sessionInitialized>>
historyVars == <<pending, overwritten>>
vars == <<heapVars, lastFence, completed, recorded, sessionVars, historyVars>>

Allocation == [size : Sizes, offset : Nat, fence : Nat]
Chunk == [resource : Nat, capacity : Nat, allocations : Seq(Allocation)]
Copy == [resource : Nat, size : Sizes, offset : Nat, fence : Nat]

TypeOK ==
  /\ chunks \in Seq(Chunk)
  /\ totalCapacity \in Nat
  /\ created \in Nat
  /\ lastFence \in Nat
  /\ completed \in 0..lastFence
  /\ recorded \in BOOLEAN
  /\ waiting \in BOOLEAN
  /\ sessionInitialized \in BOOLEAN
  /\ pending \subseteq Copy
  /\ overwritten \in BOOLEAN

-----------------------------------------------------------------------------
End(a) == a.offset + a.size

Align(offset) == ((offset + Alignment - 1) \div Alignment) * Alignment

NoOffset == -1

\* Mutant: a wrapped ring is filled up to the last allocation, not the first.
FindOffsetPastFirst(c, size) ==
  LET last == Last(c.allocations)
      begin == Align(last.offset + last.size)
  IN  IF c.allocations = <<>> THEN IF size <= c.capacity THEN 0 ELSE NoOffset
      ELSE IF begin + size <= c.capacity THEN begin
      ELSE IF size <= last.offset THEN 0 ELSE NoOffset

\* Mutant: the check against the capacity forgets the size.
FindOffsetBeginFits(c, size) ==
  LET last == Last(c.allocations)
      begin == Align(last.offset + last.size)
  IN  IF c.capacity < size THEN NoOffset
      ELSE IF c.allocations = <<>> THEN 0
      ELSE IF begin < c.capacity /\ Head(c.allocations).offset <= last.offset THEN begin
      ELSE NoOffset

\* The place of a new allocation in chunk c: after the last one, before the
\* first one, wrapping round to the start of the chunk once.  Offsets do not
\* overflow.
FindOffsetForAllocation(c, size) ==
  IF c.capacity < size THEN NoOffset
  ELSE IF c.allocations = <<>> THEN 0
  ELSE LET first == Head(c.allocations)
           last == Last(c.allocations)
           begin == Align(last.offset + last.size)
       IN  CASE first.offset <= last.offset /\ begin + size <= c.capacity -> begin
             [] first.offset <= last.offset /\ begin + size > c.capacity
                  /\ size <= first.offset -> 0
             [] first.offset > last.offset /\ begin + size <= first.offset -> begin
             [] OTHER -> NoOffset

\* At least double the capacity of the pool, limited to the maximum.
NewChunkSize(size) == Min({Max({totalCapacity, MinChunkSize, size}), MaxChunkSize})

CreateChunk(size) ==
  [resource |-> created, capacity |-> NewChunkSize(size), allocations |-> <<>>]

\* The allocations left after a front-popping loop stops at the first one
\* still in use.
AllocationsInUse(allocs) ==
  LET n == Min({i \in DOMAIN allocs : allocs[i].fence > completed} \cup {Len(allocs) + 1})
  IN  SubSeq(allocs, n, Len(allocs))

ReclaimAllocations(cs) ==
  [i \in DOMAIN cs |->
     [cs[i] EXCEPT !.allocations = AllocationsInUse(cs[i].allocations)]]

\* The chunks of cs with room for the allocation.
Fitting(cs, size) == {i \in DOMAIN cs : FindOffsetForAllocation(cs[i], size) # NoOffset}

\* Mutant: the first chunk is taken without asking whether it has room.
ReserveFirst(cs, size) ==
  IF cs # <<>>
  THEN [chunks |-> cs, index |-> 1, offset |-> FindOffsetForAllocation(cs[1], size)]
  ELSE [chunks |-> Append(cs, CreateChunk(size)), index |-> 1, offset |-> 0]

\* Reserve on the chunks cs: the first chunk with room, or a new one.
Reserve(cs, size) ==
  IF Fitting(cs, size) # {}
  THEN LET i == Min(Fitting(cs, size))
       IN  [chunks |-> cs, index |-> i, offset |-> FindOffsetForAllocation(cs[i], size)]
  ELSE [chunks |-> Append(cs, CreateChunk(size)), index |-> Len(cs) + 1, offset |-> 0]

\* The capacity of the chunks, added up from the first to the last.
Capacity(cs) ==
  LET total[n \in 0 .. Len(cs)] == IF n = 0 THEN 0 ELSE total[n - 1] + cs[n].capacity
  IN  total[Len(cs)]

Init ==
  /\ chunks = <<>>
  /\ totalCapacity = 0
  /\ created = 0
  /\ lastFence = 0
  /\ completed = 0
  /\ recorded = FALSE
  /\ waiting = FALSE
  /\ sessionInitialized = FALSE
  /\ pending = {}
  /\ overwritten = FALSE

-----------------------------------------------------------------------------
\* The chunks, the capacity and the number of resources after r was reserved.
Reserved(r, chunksAfter) ==
  LET new == Len(r.chunks) > Len(chunks)
  IN  /\ new => created < MaxChunks
      /\ chunks' = chunksAfter
      /\ totalCapacity' = totalCapacity + (IF new THEN Last(r.chunks).capacity ELSE 0)
      /\ created' = created + (IF new THEN 1 ELSE 0)

CopyOf(resource, a) ==
  [resource |-> resource, size |-> a.size, offset |-> a.offset, fence |-> a.fence]

Overlap(p, q) == p.resource = q.resource /\ p.offset < End(q) /\ q.offset < End(p)

\* BeginUploadToGpu, and the flush that follows it when the last one is long
\* ago (FlushUploadsIfReady): the data is copied into the reserved range, the
\* GPU copy is recorded, and the range is kept until the batch being recorded
\* has completed.
BeginUploadToGpu(size, flush) ==
  LET r == Reserve(ReclaimAllocations(chunks), size)
      allocation == [size |-> size, offset |-> r.offset, fence |-> lastFence + 1]
      copy == CopyOf(r.chunks[r.index].resource, allocation)
  IN  /\ ~waiting
      /\ lastFence < MaxFence
      /\ Reserved(r, [r.chunks EXCEPT ![r.index].allocations = Append(@, allocation)])
      /\ pending' = pending \cup {copy}
      /\ overwritten' = (overwritten \/ \E p \in pending : Overlap(p, copy))
      /\ recorded' = ~flush
      /\ lastFence' = lastFence + (IF flush THEN 1 ELSE 0)
      /\ UNCHANGED <<completed, sessionVars>>

\* The upload throws: no chunk can be created, or the chunk, an old or a new
\* one, cannot be mapped.
BeginUploadToGpuFails(size) ==
  /\ ~waiting
  /\ LET cs == ReclaimAllocations(chunks)
         r == Reserve(cs, size)
     IN  \/ Reserved(r, r.chunks)
         \/ /\ Fitting(cs, size) = {}
            /\ chunks' = cs
            /\ UNCHANGED <<totalCapacity, created>>
  /\ UNCHANGED <<lastFence, completed, recorded, sessionVars, historyVars>>

\* Other operators record work ...
RecordOther ==
  /\ ~waiting
  /\ recorded' = TRUE
  /\ UNCHANGED <<heapVars, lastFence, completed, sessionVars, historyVars>>

\* ... and a batch is submitted: the recorded work, or a reusable command
\* list on its own.
Submit ==
  /\ ~waiting
  /\ lastFence < MaxFence
  /\ lastFence' = lastFence + 1
  /\ recorded' = FALSE
  /\ UNCHANGED <<heapVars, completed, sessionVars, historyVars>>

\* OnSessionInitializationEnd flushes and waits for the batch ...
OnSessionInitializationEnd ==
  /\ ~waiting /\ ~sessionInitialized
  /\ lastFence < MaxFence
  /\ lastFence' = lastFence + (IF recorded THEN 1 ELSE 0)
  /\ recorded' = FALSE
  /\ waiting' = TRUE
  /\ UNCHANGED <<heapVars, completed, sessionInitialized, historyVars>>

\* The chunks of cs that have allocations, in their order.
InUse(cs) ==
  LET kept == {i \in DOMAIN cs : cs[i].allocations # <<>>}
      Kept(j) == CHOOSE i \in kept : Cardinality({k \in kept : k <= i}) = j
  IN  [j \in 1 .. Cardinality(kept) |-> cs[Kept(j)]]

\* Mutant: the allocations are not reclaimed first.
TrimWithoutReclaim ==
  /\ chunks' = InUse(chunks)
  /\ totalCapacity' = Capacity(chunks')

\* Mutant: the total capacity is not calculated again.
TrimKeepsTotal ==
  /\ chunks' = InUse(ReclaimAllocations(chunks))
  /\ totalCapacity' = totalCapacity

\* Chunks without allocations are released.
Trim ==
  /\ chunks' = InUse(ReclaimAllocations(chunks))
  /\ totalCapacity' = Capacity(chunks')

\* ... and trims the heap.
SessionInitialized ==
  /\ waiting
  /\ completed = lastFence
  /\ Trim
  /\ waiting' = FALSE
  /\ sessionInitialized' = TRUE
  /\ UNCHANGED <<created, lastFence, completed, recorded, historyVars>>

\* The GPU executes the oldest submitted batch, with its copies, and signals.
GpuComplete ==
  /\ completed < lastFence
  /\ completed' = completed + 1
  /\ pending' = {p \in pending : p.fence > completed'}
  /\ UNCHANGED <<heapVars, lastFence, recorded, sessionVars, overwritten>>

Next ==
  \/ \E size \in Sizes :
       \/ \E flush \in BOOLEAN : BeginUploadToGpu(size, flush)
       \/ BeginUploadToGpuFails(size)
  \/ RecordOther
  \/ Submit
  \/ OnSessionInitializationEnd
  \/ SessionInitialized
  \/ GpuComplete

Spec == Init /\ [][Next]_vars

-----------------------------------------------------------------------------
\* No upload overwrites data the GPU has still to copy: the range it is given
\* overlaps no copy that is not executed yet, however the ring wraps round
\* (FindOffsetForAllocation, ReclaimAllocations).
UploadsDisjoint == ~overwritten

\* Data waiting to be copied lies inside a chunk that has not been released
\* (Reserve returns "a chunk with enough space", Trim).
UploadsInBounds ==
  \A p \in pending : \E j \in DOMAIN chunks :
    chunks[j].resource = p.resource /\ End(p) <= chunks[j].capacity

\* The pool's capacity, by which it grows, is that of its chunks, whatever
\* uploads failed half-way.
CapacityIsSum == totalCapacity = Capacity(chunks)

\* All staging memory of the weights is released when the session is
\* initialized (OnSessionInitializationEnd).
StagingReleased ==
  sessionInitialized' /\ ~sessionInitialized => chunks' = <<>> /\ totalCapacity' = 0
InitializationReleasesStaging == [][StagingReleased]_vars

\* What the copies that are recorded or submitted read from is never released: the
\* chunks implement the contract of ResourceLifetime.
Lifetime ==
  INSTANCE ResourceLifetime WITH Objects <- Nat,
                                 alive <- {chunks[i].resource : i \in DOMAIN chunks},
                                 pending <- {p.resource : p \in pending}
LifetimeSpec == Lifetime!Spec
=============================================================================
