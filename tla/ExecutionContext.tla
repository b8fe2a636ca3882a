--------------------------- MODULE ExecutionContext ---------------------------
(***************************************************************************)
(* The DirectML execution core of one session: the ExecutionContext, the   *)
(* CommandQueue it submits to, the recorder's open command list with its   *)
(* ring of two command allocators, and the GPU that drains the queue.      *)
(*                                                                         *)
(* One CPU thread calls the handlers; each handler is one action.  The GPU *)
(* runs beside it and completes submitted batches in order (one fence      *)
(* value per batch).  COM reference counts are abstracted to who still     *)
(* references an object: the session ("held") or the queue's deferred      *)
(* release list ("refs").                                                  *)
(*                                                                         *)
(* A kernel owns one persistent resource, an unpooled allocation, freed by *)
(* the kernel's destructor.  Buffers are unpooled tensors held by the      *)
(* session.  Uses of objects by recorded and submitted GPU work are        *)
(* tracked by the history variables recordedUses, lastUse, allocBusy.      *)
(***************************************************************************)
EXTENDS Integers, FiniteSets, SequencesExt

CONSTANTS
  Kernels,         \* operator kernels of the session (each with a persistent resource)
  Buffers,         \* unpooled buffers held by the session
  FailingCompute,  \* TRUE: Compute may fail after it recorded work for a present device
  MaxFence,        \* bound on the fence value (number of submissions)
  MaxRefs          \* bound on the length of the deferred release list

ASSUME KernelsAssumption == IsFiniteSet(Kernels)
ASSUME FailingComputeAssumption == FailingCompute \in BOOLEAN
ASSUME BoundsAssumption == MaxFence \in Nat /\ MaxRefs \in Nat

\* The persistent resource owned by kernel k.
Persistent(k) == <<k, "persistent">>
Resources == {Persistent(k) : k \in Kernels}
Objects == Kernels \cup Buffers \cup Resources

ASSUME ObjectsAssumption ==
  Kernels \cap Buffers = {} /\ (Kernels \cup Buffers) \cap Resources = {}

VARIABLES
  lastFence,     \* CommandQueue::m_lastFenceValue
  completed,     \* the fence's completed value, advanced by the GPU
  removed,       \* the D3D12 device was removed: every fence reads as signalled
  refs,          \* CommandQueue::m_queuedReferences, front first
  recorder,      \* ExecutionContext::m_currentRecorder # nullptr
  recorded,      \* m_operationsRecordedInCurrentCommandList
  ring,          \* CommandAllocatorRing: current allocator, completion events
  pc,            \* where the CPU thread is
  event,         \* the fence value it blocks on when it waits
  closed,        \* ExecutionContext::m_closed
  held,          \* kernels and buffers the session holds a reference to
  recordedUses,  \* history: objects used by commands recorded, not submitted
  lastUse,       \* history: fence of the last submitted batch using the object
  allocBusy      \* history: fence of the last batch recorded from the allocator

queueVars == <<lastFence, completed, removed, refs>>
recorderVars == <<recorder, recorded, ring>>
threadVars == <<pc, event, closed>>
useVars == <<recordedUses, lastUse, allocBusy>>
vars == <<queueVars, recorderVars, threadVars, held, useVars>>

Reference == [fence : Nat, object : Objects]
Ring == [current : {0, 1}, event : [{0, 1} -> Nat]]

TypeOK ==
  /\ lastFence \in Nat
  /\ completed \in Nat
  /\ removed \in BOOLEAN
  /\ refs \in Seq(Reference)
  /\ recorder \in BOOLEAN
  /\ recorded \in BOOLEAN
  /\ ring \in Ring
  /\ pc \in {"idle", "wait", "close", "failed"}
  /\ event \in Nat
  /\ closed \in BOOLEAN
  /\ held \subseteq Kernels \cup Buffers
  /\ recordedUses \subseteq Objects
  /\ lastUse \in [Objects -> Nat]
  /\ allocBusy \in [{0, 1} -> Nat]

-----------------------------------------------------------------------------
\* GpuEvent::IsSignaled for an event of the queue's own fence.
IsSignaled(f) == removed \/ f <= completed

Referenced(o, q) == \E i \in DOMAIN q : q[i].object = o

\* An object exists while the session or the release list references it; a
\* persistent resource also while its kernel exists.
Alive(o) ==
  \/ o \in held
  \/ Referenced(o, refs)
  \/ \E k \in Kernels : o = Persistent(k) /\ (k \in held \/ Referenced(k, refs))

\* Mutant: the reference ignores that work is recorded and not submitted.
QueueReferenceIgnoresRecorder(q, open, o) ==
  Append(q, [fence |-> lastFence, object |-> o])

\* Mutant: off by one when nothing is recorded.
QueueReferenceOffByOne(q, open, o) ==
  Append(q, [fence |-> IF open THEN lastFence + 1 ELSE lastFence - 1, object |-> o])

\* CommandQueue::QueueReference on list q, as called by the context: while a
\* recorder is set the reference waits for the *next* fence value.
QueueReference(q, open, o) ==
  Append(q, [fence |-> lastFence + (IF open THEN 1 ELSE 0), object |-> o])

\* Mutant: a reference whose fence value was just reached is not popped.
PoppableBelow(q, n) ==
  /\ \A i \in 1..n : removed \/ q[i].fence < completed
  /\ n < Len(q) => ~removed /\ q[n + 1].fence >= completed

\* The first n references are those a front-popping loop removes at value c.
Poppable(q, n) ==
  /\ \A i \in 1..n : IsSignaled(q[i].fence)
  /\ n < Len(q) => ~IsSignaled(q[n + 1].fence)

\* Kernels whose last reference goes away when the list q shrinks to rest.
Destroyed(q, rest) ==
  {k \in Kernels \ held : Referenced(k, q) /\ ~Referenced(k, rest)}

\* CommandQueue::ReleaseCompletedReferences when a recorder is set and last is
\* the last fence value.  Popping the last reference of a kernel runs its
\* destructor, which frees its persistent resource, which queues a reference
\* again, at the back of the same list (the loop pops that one too when the
\* device is removed).
ReleaseCompleted(last) ==
  \E n \in 0..Len(refs) :
    LET rest == SubSeq(refs, n + 1, Len(refs))
    IN  /\ Poppable(refs, n)
        /\ \E order \in SetToSeqs(Destroyed(refs, rest)) :
             refs' = IF removed THEN <<>>
                     ELSE rest \o [i \in DOMAIN order |->
                                     [fence |-> last + 1, object |-> Persistent(order[i])]]

\* PluginDmlCommandRecorder::Open when the last submitted fence is last, with
\* CommandAllocatorRing::GetNextAllocator: move to the other allocator, and
\* reset it, only if the work recorded from it has completed.
Open(r, last) ==
  LET other == 1 - r.current
      next == IF IsSignaled(r.event[other]) THEN other ELSE r.current
  IN  [current |-> next, event |-> [r.event EXCEPT ![next] = last + 1]]

\* ExecutionContext::SetCommandRecorder(&m_dmlRecorder), the first call of
\* every recording handler, opens the recorder unless it is the current one.
OpenedRing == IF recorder THEN ring ELSE Open(ring, lastFence)

\* Mutant: the ring is not told about the unrelated submission.
UpdateNothing(r) == r

\* UpdateCurrentAllocatorCompletionEvent with the next completion event, after
\* a submission that is not the open list's.
UpdateCurrentAllocatorCompletionEvent(r) ==
  [r EXCEPT !.event[r.current] = lastFence + 2]

\* CommandQueue::ExecuteCommandLists: one batch, using the objects in uses,
\* and one new fence value.
Submit(uses) ==
  /\ lastFence' = lastFence + 1
  /\ lastUse' = [o \in Objects |-> IF o \in uses THEN lastFence + 1 ELSE lastUse[o]]
  /\ recordedUses' = {}
  /\ recorded' = FALSE

Init ==
  /\ lastFence = 0
  /\ completed = 0
  /\ removed = FALSE
  /\ refs = <<>>
  /\ recorder = FALSE
  /\ recorded = FALSE
  /\ ring = [current |-> 0, event |-> [i \in {0, 1} |-> 0]]
  /\ pc = "idle"
  /\ event = 0
  /\ closed = FALSE
  /\ held = {}
  /\ recordedUses = {}
  /\ lastUse = [o \in Objects |-> 0]
  /\ allocBusy = [i \in {0, 1} |-> 0]

-----------------------------------------------------------------------------
\* The CPU thread runs a handler from start to end.
Running == pc = "idle" /\ ~closed

\* Objects a dispatch of kernel k on buffers B uses on the GPU.
Uses(k, B) == {k, Persistent(k)} \cup B

\* A recording handler: the recorder is opened and the commands go into its
\* list.
RecordUses(S) ==
  /\ recorder' = TRUE
  /\ ring' = OpenedRing
  /\ recorded' = TRUE
  /\ recordedUses' = recordedUses \cup S

\* Kernel creation: the operator initialization is recorded, then the kernel
\* is referenced until that work completes.
CreateKernel(k) ==
  /\ Running
  /\ ~Alive(k) /\ ~Alive(Persistent(k))
  /\ Len(refs) < MaxRefs
  /\ RecordUses(Uses(k, {}))
  /\ refs' = QueueReference(refs, TRUE, k)
  /\ held' = held \cup {k}
  /\ lastUse' = [lastUse EXCEPT ![k] = 0, ![Persistent(k)] = 0]
  /\ UNCHANGED <<lastFence, completed, removed, threadVars, allocBusy>>

\* DmlAbiKernel_Compute: record the dispatch, then queue a reference to the
\* kernel.
Compute(k, B) ==
  /\ Running
  /\ k \in held /\ B \subseteq held
  /\ Len(refs) < MaxRefs
  /\ RecordUses(Uses(k, B))
  /\ refs' = QueueReference(refs, TRUE, k)
  /\ UNCHANGED <<lastFence, completed, removed, threadVars, held, lastUse, allocBusy>>

\* Compute after an input's shape changed: a temporary kernel is created
\* (recording its initialization), computes, is referenced, and is dropped.
ComputeShapeChanged(k, B) ==
  /\ Running
  /\ ~Alive(k) /\ ~Alive(Persistent(k)) /\ B \subseteq held
  /\ Len(refs) < MaxRefs
  /\ RecordUses(Uses(k, B))
  /\ refs' = QueueReference(refs, TRUE, k)
  /\ lastUse' = [lastUse EXCEPT ![k] = 0, ![Persistent(k)] = 0]
  /\ UNCHANGED <<lastFence, completed, removed, threadVars, held, allocBusy>>

\* The temporary kernel's Compute fails after its initialization was recorded,
\* at the latest when the device was removed: the early return drops it without a reference, and its destructor frees the
\* persistent resource.
ComputeShapeChangedFails(k) ==
  /\ FailingCompute \/ removed
  /\ Running
  /\ ~Alive(k) /\ ~Alive(Persistent(k))
  /\ Len(refs) < MaxRefs
  /\ RecordUses(Uses(k, {}))
  /\ refs' = QueueReference(refs, TRUE, Persistent(k))
  /\ lastUse' = [lastUse EXCEPT ![k] = 0, ![Persistent(k)] = 0]
  /\ UNCHANGED <<lastFence, completed, removed, threadVars, held, allocBusy>>

\* CopyBufferRegion, FillBufferWithPattern, AddUAVBarrier, ResourceBarrier and
\* a custom op's GetCommandListForRecordingAndInvalidateState.
CopyBufferRegion(B) ==
  /\ Running
  /\ B \subseteq held
  /\ RecordUses(B)
  /\ UNCHANGED <<queueVars, threadVars, held, lastUse, allocBusy>>

\* ExecuteCommandList of a kernel's reusable list, and the reference queued by
\* its caller afterwards.
ExecuteCommandList(k, B) ==
  /\ Running
  /\ ~removed
  /\ k \in held /\ B \subseteq held
  /\ lastFence < MaxFence
  /\ Len(refs) < MaxRefs
  /\ Submit(recordedUses \cup Uses(k, B))
  /\ recorder' = TRUE
  /\ \/ \* Nothing recorded: the list is submitted directly, and what is later
        \* recorded from the current allocator completes one fence later.
        /\ ~recorded
        /\ ring' = UpdateCurrentAllocatorCompletionEvent(OpenedRing)
        /\ UNCHANGED allocBusy
     \/ \* CloseAndExecute both lists, then Open.
        /\ recorded
        /\ allocBusy' = [allocBusy EXCEPT ![OpenedRing.current] = lastFence + 1]
        /\ ring' = Open(OpenedRing, lastFence + 1)
  /\ refs' = Append(refs, [fence |-> lastFence + 2, object |-> k])
  /\ UNCHANGED <<completed, removed, threadVars, held>>

AllocBuffer(b) ==
  /\ Running
  /\ ~Alive(b)
  /\ held' = held \cup {b}
  /\ lastUse' = [lastUse EXCEPT ![b] = 0]
  /\ UNCHANGED <<queueVars, recorderVars, threadVars, recordedUses, allocBusy>>

\* Mutant: the buffer is freed at once.
FreeBufferNow(b) ==
  /\ pc \in {"idle", "failed"}
  /\ b \in held
  /\ held' = held \ {b}
  /\ UNCHANGED <<queueVars, recorderVars, threadVars, useVars>>

\* DmlBucketizedBufferAllocator::FreeResource of an unpooled resource.
FreeBuffer(b) ==
  /\ pc \in {"idle", "failed"}
  /\ b \in held
  /\ closed \/ Len(refs) < MaxRefs
  /\ held' = held \ {b}
  /\ refs' = IF closed THEN refs ELSE QueueReference(refs, recorder, b)
  /\ UNCHANGED <<lastFence, completed, removed, recorderVars, threadVars, useVars>>

\* The session drops a kernel; if that was the last reference its destructor
\* frees the persistent resource.
ReleaseKernel(k) ==
  /\ pc \in {"idle", "failed"}
  /\ k \in held
  /\ closed \/ Len(refs) < MaxRefs
  /\ held' = held \ {k}
  /\ refs' = IF closed \/ Referenced(k, refs) THEN refs
             ELSE QueueReference(refs, recorder, Persistent(k))
  /\ UNCHANGED <<lastFence, completed, removed, recorderVars, threadVars, useVars>>

-----------------------------------------------------------------------------
\* What Flush does when something is recorded, S included: CloseAndExecute,
\* ReleaseCompletedReferences, Open.
FlushRecorded(S) ==
  /\ ~removed
  /\ lastFence < MaxFence
  /\ Submit(recordedUses \cup S)
  /\ allocBusy' = [allocBusy EXCEPT ![OpenedRing.current] = lastFence + 1]
  /\ ReleaseCompleted(lastFence + 1)
  /\ ring' = Open(OpenedRing, lastFence + 1)
  /\ recorder' = TRUE

\* ExecutionContext::Flush (OnRunEnd, periodic upload flush); with nothing
\* recorded it does nothing.
Flush ==
  /\ Running
  /\ recorder /\ recorded
  /\ FlushRecorded({})
  /\ UNCHANGED <<completed, removed, threadVars, held>>

\* Mutant: the event is the next batch's, as if taken before the flush.
WaitForNextSignal ==
  /\ pc' = "wait"
  /\ event' = lastFence' + 1
  /\ UNCHANGED <<completed, removed, closed, held>>

\* The thread blocks on GetCurrentCompletionEvent, taken after the flush.
WaitForSignal ==
  /\ pc' = "wait"
  /\ event' = lastFence'
  /\ UNCHANGED <<completed, removed, closed, held>>

\* ReadbackFromGpu up to its wait: the copies out of the buffers B are
\* recorded and flushed.
ReadbackFromGpu(B) ==
  /\ Running
  /\ B # {} /\ B \subseteq held
  /\ FlushRecorded(B)
  /\ WaitForSignal

\* OnSessionInitializationEnd up to its wait.
OnSessionInitializationEnd ==
  /\ Running
  /\ \/ recorder /\ recorded /\ FlushRecorded({})
     \/ /\ ~(recorder /\ recorded)
        /\ UNCHANGED <<lastFence, refs, recorderVars, useVars>>
  /\ WaitForSignal

\* The wait returns and the completed references are released.
WaitDone ==
  /\ pc = "wait"
  /\ IsSignaled(event)
  /\ ReleaseCompleted(lastFence)
  /\ pc' = "idle"
  /\ UNCHANGED <<lastFence, completed, removed, recorderVars, event, closed, held, useVars>>

\* The device was removed: ExecuteCommandLists bumps the fence and throws (at
\* Signal, or at GetDeviceRemovedReason once the list is cached) before any
\* reference is released and before the recorder is reopened.
CloseAndExecuteFails ==
  /\ Running
  /\ removed /\ recorder /\ recorded
  /\ lastFence < MaxFence
  /\ lastFence' = lastFence + 1
  /\ recorded' \in BOOLEAN
  /\ pc' = "failed"
  /\ UNCHANGED <<completed, removed, refs, recorder, ring, event, closed, held, useVars>>

\* The same for a list submitted directly: the recorder stays usable.
ExecuteCommandListFails(k) ==
  /\ Running
  /\ removed /\ ~recorded
  /\ k \in held
  /\ lastFence < MaxFence
  /\ lastFence' = lastFence + 1
  /\ recorder' = TRUE
  /\ \/ ring' = OpenedRing
     \/ ring' = UpdateCurrentAllocatorCompletionEvent(OpenedRing)
  /\ UNCHANGED <<completed, removed, refs, recorded, threadVars, held, useVars>>

\* Mutant: Close blocks on the work recorded and not submitted, too.
CloseWaitsForRecorded ==
  /\ pc \in {"idle", "failed"} /\ ~closed
  /\ pc' = "close"
  /\ event' = lastFence + (IF recorded THEN 1 ELSE 0)
  /\ UNCHANGED <<queueVars, recorderVars, closed, held, useVars>>

\* ExecutionContext::Close, called by the EP's destructor: the queue blocks on
\* the last submitted batch ...
Close ==
  /\ pc \in {"idle", "failed"} /\ ~closed
  /\ pc' = "close"
  /\ event' = lastFence
  /\ UNCHANGED <<queueVars, recorderVars, closed, held, useVars>>

\* Mutant: destructors run by the clearing queue references (no m_closing).
CloseDoneQueues ==
  /\ pc = "close"
  /\ IsSignaled(event)
  /\ \E order \in SetToSeqs(Destroyed(refs, <<>>)) :
       refs' = [i \in DOMAIN order |-> [fence |-> lastFence + 1, object |-> Persistent(order[i])]]
  /\ recorder' = FALSE
  /\ recordedUses' = {}
  /\ closed' = TRUE
  /\ pc' = "idle"
  /\ UNCHANGED <<lastFence, completed, removed, recorded, ring, event, held, lastUse, allocBusy>>

\* ... and clears the references.  Destructors run by the clearing queue no
\* new ones (m_closing).  The recorded work is discarded with the recorder.
CloseDone ==
  /\ pc = "close"
  /\ IsSignaled(event)
  /\ refs' = <<>>
  /\ recorder' = FALSE
  /\ recordedUses' = {}
  /\ closed' = TRUE
  /\ pc' = "idle"
  /\ UNCHANGED <<lastFence, completed, removed, recorded, ring, event, held, lastUse, allocBusy>>

-----------------------------------------------------------------------------
\* The GPU finishes the oldest batch and signals its fence value.
GpuComplete ==
  /\ ~removed
  /\ completed < lastFence
  /\ completed' = completed + 1
  /\ UNCHANGED <<lastFence, removed, refs, recorderVars, threadVars, held, useVars>>

\* The device is removed: nothing runs any more and every event is signalled.
DeviceRemoved ==
  /\ ~removed
  /\ removed' = TRUE
  /\ UNCHANGED <<lastFence, completed, refs, recorderVars, threadVars, held, useVars>>

Next ==
  \/ \E k \in Kernels :
       \/ CreateKernel(k)
       \/ ComputeShapeChangedFails(k)
       \/ ReleaseKernel(k)
       \/ ExecuteCommandListFails(k)
       \/ \E B \in SUBSET Buffers :
            Compute(k, B) \/ ComputeShapeChanged(k, B) \/ ExecuteCommandList(k, B)
  \/ \E B \in SUBSET Buffers : CopyBufferRegion(B) \/ ReadbackFromGpu(B)
  \/ \E b \in Buffers : AllocBuffer(b) \/ FreeBuffer(b)
  \/ Flush
  \/ OnSessionInitializationEnd
  \/ WaitDone
  \/ CloseAndExecuteFails
  \/ Close
  \/ CloseDone
  \/ GpuComplete
  \/ DeviceRemoved

Spec == Init /\ [][Next]_vars

\* The GPU keeps draining the queue and a signalled wait returns.
Fairness == WF_vars(GpuComplete) /\ WF_vars(WaitDone) /\ WF_vars(CloseDone)
FairSpec == Spec /\ Fairness

-----------------------------------------------------------------------------
\* Work the GPU has not finished never uses a destroyed object: every kernel,
\* persistent resource and buffer used by a submitted, incomplete batch or by
\* the open command list still has a reference (the purpose of QueueReference
\* and of the deferred release list).
InFlightAlive ==
  ~removed =>
    /\ \A o \in Objects : lastUse[o] > completed => Alive(o)
    /\ \A o \in recordedUses : Alive(o)

\* A command allocator is reset only after the GPU finished every batch
\* recorded from it, whatever submissions happened in between
\* (GetNextAllocator, UpdateCurrentAllocatorCompletionEvent).
ResetIdle ==
  \/ ring'.current = ring.current
  \/ removed
  \/ allocBusy[ring'.current] <= completed
AllocatorResetIdle == [][ResetIdle]_vars

\* When a blocking wait ends, no reference whose work has completed is still
\* queued: the front-popping loop never stops at a newer reference while an
\* older one is behind it (ReleaseCompletedReferences).
ReleasedAfterWait ==
  pc = "wait" /\ pc' = "idle" =>
    \A i \in DOMAIN refs' : ~removed /\ refs'[i].fence > completed
WaitReleasesCompleted == [][ReleasedAfterWait]_vars

\* A blocked thread waits for a batch that was submitted, never for one that
\* is still being recorded: GetCurrentCompletionEvent is taken after the flush
\* (a wait on the next fence value would never end).
WaitTargetSubmitted == pc \in {"wait", "close"} => event <= lastFence

\* Nothing is left queued once the context is closed, although destructors
\* queue references while the list is cleared: a leftover would keep the
\* circle Kernel -> Provider -> Context -> QueuedRefs -> Kernel alive.
ClosedDrained == closed => refs = <<>>

\* The objects unfinished work uses.  Nothing runs on a removed device.
Pending ==
  IF removed \/ closed THEN {}
  ELSE recordedUses \cup {o \in Objects : lastUse[o] > completed}

\* The execution context implements the abstract lifetime contract: work is
\* only ever taken away by the GPU or by Close, and every destruction leaves
\* the unfinished work's objects alone.
Lifetime ==
  INSTANCE ResourceLifetime WITH alive <- {o \in Objects : Alive(o)}, pending <- Pending
LifetimeSpec == Lifetime!Spec

\* Every blocking wait and every Close returns.
WaitsEnd == pc \in {"wait", "close"} ~> pc = "idle"
=============================================================================
