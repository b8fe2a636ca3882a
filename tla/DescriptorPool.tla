---------------------------- MODULE DescriptorPool ----------------------------
(***************************************************************************)
(* The descriptor pool of the recorder (DescriptorPool.cc), composed with  *)
(* the execution context whose handlers allocate from it.                  *)
(*                                                                         *)
(* A heap is used from its start to its end and recycled as a whole, when  *)
(* the completion event given with its latest allocation is signalled.     *)
(* Which descriptors unfinished work reads, and whether some of them were  *)
(* ever handed out again, is tracked by history variables.                 *)
(***************************************************************************)
EXTENDS ExecutionContext

CONSTANTS
  Counts,           \* how many descriptors a dispatch may need
  InitialCapacity,  \* of a heap (2048 in the code)
  MaxHeaps          \* bound on the number of heaps

ASSUME PoolAssumption ==
  Counts \subseteq Nat /\ InitialCapacity \in Nat \ {0} /\ MaxHeaps \in Nat \ {0}

VARIABLES
  heaps,  \* m_heaps; the event of a heap is 0 before its first allocation
  inUse,  \* history: for each heap the ranges of unfinished work, with the batch
          \* that uses each (0 while it is recorded and not submitted)
  overwritten  \* history: descriptors of unfinished work were handed out again

poolVars == <<heaps, inUse, overwritten>>

Flags == {"NONE", "SHADER_VISIBLE"}
Heap(flags, capacity) == [flags |-> flags, capacity |-> capacity, size |-> 0, event |-> 0]

PoolTypeOK ==
  /\ \A i \in DOMAIN heaps :
       /\ heaps[i].flags \in Flags
       /\ heaps[i].size \in 0 .. heaps[i].capacity
       /\ heaps[i].event \in 0 .. lastFence + 1
  /\ DOMAIN inUse = DOMAIN heaps
  /\ \A i \in DOMAIN inUse : \A r \in inUse[i] :
       /\ r.first + r.count <= heaps[i].capacity
       /\ r.fence \in 0 .. lastFence
  /\ overwritten \in BOOLEAN

PoolInit ==
  /\ heaps = <<Heap("SHADER_VISIBLE", InitialCapacity)>>
  /\ inUse = <<{}>>
  /\ overwritten = FALSE

-----------------------------------------------------------------------------
(* AllocDescriptors *)

\* TryAllocDescriptors starts over in a heap whose latest event is signalled,
\* even if the heap is then too small.
Recycled(h) == IF h.event # 0 /\ IsSignaled(h.event) THEN [h EXCEPT !.size = 0] ELSE h

\* Mutant: the event is that of the batches submitted so far.
CurrentEvent == lastFence

\* GetNextCompletionEvent: the commands go into the next batch.
NextEvent == lastFence + 1

Take(h, count) == [h EXCEPT !.size = @ + count, !.event = NextEvent]

Fits(h, count, flags) == h.flags = flags /\ h.capacity - Recycled(h).size >= count

Overlap(r, s) == r.first < s.first + s.count /\ s.first < r.first + r.count

\* The first heap that fits, or a new one; the heaps of these flags before it
\* were tried, and recycled.
AllocDescriptors(pool, count, flags) ==
  LET new == Heap(flags, IF count > InitialCapacity THEN count ELSE InitialCapacity)
      all == Append(pool.heaps, new)
      at == CHOOSE i \in DOMAIN all :
              Fits(all[i], count, flags) /\ \A j \in 1 .. i - 1 : ~Fits(all[j], count, flags)
      length == IF at > Len(pool.heaps) THEN at ELSE Len(pool.heaps)
      tried == [i \in 1 .. length |->
                  IF i <= at /\ all[i].flags = flags THEN Recycled(all[i]) ELSE all[i]]
      range == [first |-> tried[at].size, count |-> count, fence |-> 0]
      taken == IF removed THEN {} ELSE {range}  \* nothing runs any more
      used == IF at > Len(pool.heaps) THEN {} ELSE pool.inUse[at]
  IN [heaps |-> [tried EXCEPT ![at] = Take(tried[at], count)],
      inUse |-> [i \in 1 .. length |-> IF i = at THEN used \cup taken ELSE pool.inUse[i]],
      overwritten |-> pool.overwritten \/ \E r \in used, s \in taken : Overlap(r, s)]

Pool == [heaps |-> heaps, inUse |-> inUse, overwritten |-> overwritten]
Becomes(pool) ==
  heaps' = pool.heaps /\ inUse' = pool.inUse /\ overwritten' = pool.overwritten

\* InitializeOperator or ExecuteOperator.
Dispatch == \E count \in Counts : Becomes(AllocDescriptors(Pool, count, "SHADER_VISIBLE"))

\* The initialization and the execution of a temporary kernel.
TwoDispatches == \E c, d \in Counts :
  Becomes(AllocDescriptors(AllocDescriptors(Pool, c, "SHADER_VISIBLE"), d, "SHADER_VISIBLE"))

\* FillBufferWithPattern: a descriptor for the CPU and one for the GPU.
Fill == Becomes(AllocDescriptors(AllocDescriptors(Pool, 1, "NONE"), 1, "SHADER_VISIBLE"))

\* Recorded ranges belong to the batch the open list is submitted in, and are free
\* when it completes; the work of a removed device, and what is not submitted when
\* the context is closed, never runs.
Stamped(r) ==
  IF r.fence = 0 /\ recorded /\ lastFence' # lastFence THEN [r EXCEPT !.fence = lastFence'] ELSE r

Unfinished(r) == ~removed' /\ (IF r.fence = 0 THEN ~closed' ELSE r.fence > completed')

\* A step that allocates nothing.
Advance ==
  /\ inUse' = [i \in DOMAIN inUse |-> {r \in {Stamped(s) : s \in inUse[i]} : Unfinished(r)}]
  /\ UNCHANGED <<heaps, overwritten>>

PoolNext ==
  /\ \/ \E k \in Kernels, B \in SUBSET Buffers :
          \/ (CreateKernel(k) \/ ComputeShapeChangedFails(k) \/ Compute(k, B)) /\ Dispatch
          \/ ComputeShapeChanged(k, B) /\ TwoDispatches
          \/ (ReleaseKernel(k) \/ ExecuteCommandListFails(k) \/ ExecuteCommandList(k, B)) /\ Advance
     \/ \E B \in SUBSET Buffers :
          \/ CopyBufferRegion(B) /\ (Fill \/ Advance)
          \/ ReadbackFromGpu(B) /\ Advance
     \/ \E b \in Buffers : (AllocBuffer(b) \/ FreeBuffer(b)) /\ Advance
     \/ /\ \/ Flush \/ OnSessionInitializationEnd \/ WaitDone \/ CloseAndExecuteFails
           \/ Close \/ CloseDone \/ GpuComplete \/ DeviceRemoved
        /\ Advance
  /\ Len(heaps') <= MaxHeaps

PoolSpec == Init /\ PoolInit /\ [][PoolNext]_<<vars, poolVars>> /\ Fairness

-----------------------------------------------------------------------------
(* Properties *)

\* The descriptors of unfinished work, recorded or submitted, lie inside their
\* heap and are never handed out again, although a heap is recycled by the
\* latest of its events alone.
DescriptorsIntact ==
  /\ ~overwritten
  /\ \A i \in DOMAIN inUse : \A r \in inUse[i] : r.first + r.count <= heaps[i].capacity
=============================================================================
