----------------------------- MODULE ReadbackHeap -----------------------------
(***************************************************************************)
(* The readback heap of one DirectML session: a batch of GPU tensors is    *)
(* copied into one CPU-visible buffer, the call blocks until the GPU has   *)
(* executed the copies, and the bytes go to the callers' tensors.          *)
(*                                                                         *)
(* A call is two steps, up to its wait and after it; between them calls of *)
(* other threads run when there are several.  The bytes of a tensor all    *)
(* carry one value that names the call's thread, its turn and the tensor.  *)
(***************************************************************************)
EXTENDS Integers, Sequences, FiniteSetsExt

CONSTANTS
  Threads,          \* threads that run the session
  Sizes,            \* byte sizes of tensors
  MaxBatch,         \* most tensors of one call
  InitialCapacity,  \* c_initialCapacity
  Width,            \* uint32_t arithmetic is modulo Width
  MaxFence          \* bound on the number of submissions

ASSUME ReadbackAssumption ==
  /\ Sizes \subseteq Nat \ {0}
  /\ InitialCapacity \in Nat \ {0}
  /\ Width \in Nat \ {0}
  /\ MaxBatch \in Nat \ {0} /\ MaxFence \in Nat

\* The sizes of the tensors of one call.
Batches == UNION {[1..n -> Sizes] : n \in 1..MaxBatch}

NoHeap == [resource |-> 0, capacity |-> 0]
Undefined == <<>>

VARIABLES
  heap,       \* m_readbackHeap; resource 0 is nullptr
  capacity,   \* m_capacity
  data,       \* contents of the current heap
  created,    \* number of heaps created
  copies,     \* the submitted batches of copies into a heap not yet executed
  lastFence,  \* last submitted fence value
  completed,  \* last fence value the GPU reached
  call,       \* per thread: the sizes and event of the call that waits
  turn,       \* per thread: distinguishes two calls in a row
  dst         \* per thread: the bytes the last call delivered, per tensor

heapVars == <<heap, capacity, data, created>>
vars == <<heapVars, copies, lastFence, completed, call, turn, dst>>

NoCall == [sizes |-> <<>>, event |-> 0]

\* The value the bytes of tensor i of a thread's call carry.
Value(th, i) == <<th, turn[th], i>>
Values == Threads \X {0, 1} \X (1..MaxBatch) \cup {Undefined}

TypeOK ==
  /\ heap \in [resource : Nat, capacity : Nat]
  /\ capacity \in Nat
  /\ heap # NoHeap => capacity = heap.capacity
  /\ data \in [0..heap.capacity - 1 -> Values]
  /\ created \in Nat
  /\ \A k \in DOMAIN copies : \A i \in DOMAIN copies[k] :
       copies[k][i] \in [resource : 1..created, offset : Nat, size : Sizes, value : Values]
  /\ lastFence \in Nat
  /\ completed \in 0..lastFence
  /\ \A th \in Threads : call[th].sizes \in Batches \cup {<<>>} /\ call[th].event \in Nat
  /\ turn \in [Threads -> {0, 1}]

-----------------------------------------------------------------------------
\* Geometric growth: the capacity after each round of the loop; the desired capacity is
\* far from the limit of size_t.
ComputeNewCapacity(existing, desired) ==
  LET newCapacity[k \in 0..desired] ==
        IF k = 0 THEN existing
        ELSE IF newCapacity[k - 1] < desired THEN 2 * newCapacity[k - 1] ELSE newCapacity[k - 1]
  IN  newCapacity[desired]

\* Mutant: a heap that was created is never replaced.
NeedsHeapOnce(size) == heap = NoHeap

\* EnsureReadbackHeap(size) creates a heap when there is none or it is small.
NeedsHeap(size) == heap = NoHeap \/ capacity < size

NewCapacity(size) ==
  ComputeNewCapacity(IF heap = NoHeap THEN InitialCapacity ELSE capacity, size)

\* The offset of tensor i of the batch, in uint32_t arithmetic; the total size
\* is the offset after the last one.
Offset(sizes, i) ==
  LET offset[k \in 1..Len(sizes) + 1] ==
        IF k = 1 THEN 0 ELSE (offset[k - 1] + sizes[k - 1]) % Width
  IN  offset[i]

TotalSize(sizes) == Offset(sizes, Len(sizes) + 1)

\* Mutant: the capacity is set to what was asked for.
EnsureExactHeap(size) ==
  IF NeedsHeap(size)
  THEN /\ created' = created + 1
       /\ capacity' = size
       /\ heap' = [resource |-> created + 1, capacity |-> NewCapacity(size)]
       /\ data' = [b \in 0..NewCapacity(size) - 1 |-> Undefined]
  ELSE UNCHANGED heapVars

\* The heap after EnsureReadbackHeap(size), if no allocation fails; the old
\* heap is released at once.
EnsureReadbackHeap(size) ==
  IF NeedsHeap(size)
  THEN /\ created' = created + 1
       /\ capacity' = NewCapacity(size)
       /\ heap' = [resource |-> created + 1, capacity |-> NewCapacity(size)]
       /\ data' = [b \in 0..NewCapacity(size) - 1 |-> Undefined]
  ELSE UNCHANGED heapVars

Init ==
  /\ heap = NoHeap
  /\ capacity = 0
  /\ data = <<>>
  /\ created = 0
  /\ copies = <<>>
  /\ lastFence = 0
  /\ completed = 0
  /\ call = [th \in Threads |-> NoCall]
  /\ turn = [th \in Threads |-> 0]
  /\ dst = [th \in Threads |-> <<>>]

-----------------------------------------------------------------------------
\* Mutant: the event of the batch after the flushed one.
NextCompletionEvent == lastFence + 2

\* GetCurrentCompletionEvent after the flush.
CompletionEvent == lastFence + 1

\* ReadbackFromGpu up to its wait: the copies are recorded and flushed, and
\* the thread blocks on the completion event.
ReadbackFromGpu(th, sizes) ==
  /\ call[th] = NoCall
  /\ lastFence < MaxFence
  /\ EnsureReadbackHeap(TotalSize(sizes))
  /\ copies' = Append(copies, [i \in DOMAIN sizes |->
                                 [resource |-> heap'.resource, offset |-> Offset(sizes, i),
                                  size |-> sizes[i], value |-> Value(th, i)]])
  /\ lastFence' = lastFence + 1
  /\ call' = [call EXCEPT ![th] = [sizes |-> sizes, event |-> CompletionEvent]]
  /\ dst' = [dst EXCEPT ![th] = <<>>]
  /\ UNCHANGED <<completed, turn>>

\* The heap cannot be created: the call throws with the new capacity set and
\* no heap.
ReadbackFromGpuFails(th, sizes) ==
  /\ call[th] = NoCall
  /\ NeedsHeap(TotalSize(sizes))
  /\ capacity' = NewCapacity(TotalSize(sizes))
  /\ heap' = NoHeap
  /\ data' = <<>>
  /\ UNCHANGED <<created, copies, lastFence, completed, call, turn, dst>>

\* What memcpy reads from the mapped heap for tensor i of a call.
Mapped(sizes, i) ==
  [b \in 0..sizes[i] - 1 |->
     IF Offset(sizes, i) + b \in DOMAIN data THEN data[Offset(sizes, i) + b] ELSE Undefined]

\* Mutant: the heap is mapped without waiting for the GPU.
FinishEarly(th) ==
  /\ call[th] # NoCall
  /\ dst' = [dst EXCEPT ![th] = [i \in DOMAIN call[th].sizes |-> Mapped(call[th].sizes, i)]]
  /\ call' = [call EXCEPT ![th] = NoCall]
  /\ UNCHANGED <<heapVars, copies, lastFence, completed, turn>>

\* The wait ends: the heap, whichever it is now, is mapped and copied from.
ReadbackDone(th) ==
  /\ call[th] # NoCall
  /\ call[th].event <= completed
  /\ dst' = [dst EXCEPT ![th] = [i \in DOMAIN call[th].sizes |-> Mapped(call[th].sizes, i)]]
  /\ call' = [call EXCEPT ![th] = NoCall]
  /\ UNCHANGED <<heapVars, copies, lastFence, completed, turn>>

\* The caller looks at the tensors and goes on.
NextTurn(th) ==
  /\ call[th] = NoCall
  /\ dst[th] # <<>>
  /\ turn' = [turn EXCEPT ![th] = 1 - @]
  /\ dst' = [dst EXCEPT ![th] = <<>>]
  /\ UNCHANGED <<heapVars, copies, lastFence, completed, call>>

\* The GPU executes the oldest batch; copies into a released heap, or past the
\* end of one, change nothing a caller may rely on.
GpuComplete ==
  /\ completed < lastFence
  /\ completed' = completed + 1
  /\ copies' = Tail(copies)
  /\ data' = [b \in DOMAIN data |->
                LET batch == Head(copies)
                    writers == {i \in DOMAIN batch :
                                  /\ batch[i].resource = heap.resource
                                  /\ b \in batch[i].offset..batch[i].offset + batch[i].size - 1}
                IN  IF writers = {} THEN data[b] ELSE batch[Max(writers)].value]
  /\ UNCHANGED <<heap, capacity, created, lastFence, call, turn, dst>>

Next ==
  \/ \E th \in Threads :
       \/ \E sizes \in Batches : ReadbackFromGpu(th, sizes) \/ ReadbackFromGpuFails(th, sizes)
       \/ ReadbackDone(th)
       \/ NextTurn(th)
  \/ GpuComplete

Spec == Init /\ [][Next]_vars
FairSpec == Spec /\ WF_vars(GpuComplete) /\ \A th \in Threads : WF_vars(ReadbackDone(th))

-----------------------------------------------------------------------------
\* Every call delivers, for each of its tensors, the bytes of that tensor:
\* those of this call, from their own place in the heap
\* (ReadbackFromGpu "copies data from the specified GPU resource").
ReadbackExact ==
  \A th \in Threads :
    \A i \in DOMAIN dst[th] : \A b \in DOMAIN dst[th][i] : dst[th][i][b] = Value(th, i)

\* The GPU never writes into a heap that was released, nor past its end, also
\* after the creation of a larger one failed (EnsureReadbackHeap).
CopiesInHeap ==
  \A k \in DOMAIN copies : \A i \in DOMAIN copies[k] :
    /\ copies[k][i].resource = heap.resource
    /\ copies[k][i].offset + copies[k][i].size <= heap.capacity

\* A call that waits returns once the GPU has executed its batch.
ReadbackReturns == \A th \in Threads : call[th] # NoCall ~> call[th] = NoCall

\* The heap that a recorded copy writes to is never released: it implements the
\* contract of ResourceLifetime.
Lifetime ==
  INSTANCE ResourceLifetime WITH
    Objects <- Nat,
    alive <- {heap.resource} \ {0},
    pending <- UNION {{copies[k][i].resource : i \in DOMAIN copies[k]} : k \in DOMAIN copies}
LifetimeSpec == Lifetime!Spec
=============================================================================
