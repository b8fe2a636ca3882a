# Verification of the AMD GPU execution providers

This directory holds TLA+ models of the AMD GPU plugin execution providers for
ONNX Runtime in `src/`, TLC configurations that model-check them on small instances, and
TLAPS proofs. Paths below are relative to `src/src/` unless they start with `src/`.

    tlc -config UploadHeap.cfg UploadHeap          # check one configuration
    tlapm ExecutionContextProofs.tla               # check the proofs of a module

`PROJECT.json` records the components, the runs with their properties, the source lines each
definition stands for, one mutation of the code per property that the property
detects, the hazards, and the theorems.

Contents: [the system](#the-system) · [modules](#modules) · [runs and bounds](#runs-and-bounds) ·
[deviations](#deviations-from-the-documented-behaviour) · [proofs](#proofs) ·
[limits](#what-is-not-modelled) · [plan](#plan)

## The system

The plugin registers one execution provider (EP) with ONNX Runtime (ORT), `amdgpu`. It is a meta
provider: each session's options select a backend (DirectML, MIGraphX, or the prebuilt HIP
library) and the meta provider forwards every call to it. ORT may create several sessions in a
process. The DirectML backend declares that it supports concurrent runs of one session
(`directml/dml_ep.cc:1596`), MIGraphX's comments speak of concurrent serving threads, and the meta provider
does not say otherwise (`amdgpu/gpu_ep.cc:82`). Almost no object of the providers takes a lock.

### Inventory

**DirectML execution context** (`directml/dml_execution_context.cc`,
`DmlExecutionProvider/CommandQueue.cc`, `CommandAllocatorRing.h`, `GpuEvent.h`,
`dml_plugin_command_recorder.cc`).
*State:* the last fence value signalled by the queue; a list of objects to release at a fence value;
whether a recorder is set and whether its open list has commands; a ring of two command allocators,
each with the completion event of the work recorded from it.
*Operations:* record (operators, copies, barriers, custom op lists), `ExecuteCommandList`,
`Flush`, `QueueReference`, `ReleaseCompletedReferences`, `GetCurrentCompletionEvent`, `Close`.
*Used by* kernels, the allocator, both staging heaps and the EP. *Hard:* the GPU runs beside
the CPU; an object's last use may be in a list not submitted yet; destructors re-enter the list
being walked; the device may be removed in the middle of a submission.
*Correct when* nothing the GPU may still use is destroyed, an allocator is reset only when idle,
waits are for submitted work and end, and closing leaves nothing behind.

**DirectML descriptor pool** (`DmlExecutionProvider/DescriptorPool.cc`). *State:* heaps of
descriptors, each filled from its start and recycled as a whole, with the completion event of its latest
allocation. *Operation:* `AllocDescriptors`, by each command recorded. *Hard:* one event stands for all
allocations of a heap, of which some may be recorded, some submitted, some done.
*Correct when* descriptors that unfinished work reads are never handed out again.

**DirectML graph partitioning and fusion** (`dml_ep.cc` `GetCapabilityImpl` and `CompileImpl`,
`full_graph_fusion.cc`, `ep_fusion_manager.cc`, `pattern_matcher.cc`, `fusion_utils.cc`). *State:* groups of nodes and
the group each output belongs to; the shapes resolved so far; the groups claimed; the fusions matched.
*Operations:* tier 0 groups nodes, then resolves shapes and claims groups until nothing changes; tier 2 matches patterns
among the nodes left; tier 1 claims nodes alone; ORT then has each set compiled. *Hard:* groups merge when paths
meet; any group may fail validation, translation or compilation while others are claimed; nodes used elsewhere are
left out of a fusion after it was matched. *Correct when* each supported node is claimed once, what is fused leaves
the graph acyclic, and each fused set finds its compiler.

**DirectML pooled upload heap** (`dml_pooled_upload_heap.cc`). *State:* chunks sorted by size, each a
ring buffer with its live allocations; the total capacity. *Operations:* `BeginUploadToGpu`,
`Trim`. *Hard:* wrapping, reclaiming by completion event, failure between reservation and mapping.
*Correct when* no upload overwrites bytes that the GPU has still to copy, or leaves its chunk.

**DirectML readback heap** (`dml_readback_heap.cc`). *State:* one CPU-readable buffer and its
capacity. *Operations:* `ReadbackFromGpu` for one tensor and for a batch; both flush and block.
*Hard:* growth, 32-bit totals, a second thread. *Correct when* every call returns its own bytes.

**DirectML tensor copies** (`dml_execution_provider.cc`, `CopyTensorsPlugin` for the data transfer, `CopyTensors`
for the Memcpy kernels). *State:* the collected readbacks of the call. *Hard:* CPU copies happen now, GPU copies later, readbacks in a
batch. *Correct when* the result is that of copying in list order.

**DirectML bucketized allocator** (`dml_bucketized_buffer_allocator.cc`). *State:* buckets of free
resources, the default rounding mode. *Operations:* `AllocImpl`, `FreeResource`,
`SetDefaultRoundingMode`. *Correct when* a resource has one owner and is large enough.

**DirectML factory and data transfer** (`dml_factory.cc`, `dml_data_transfer.cc`). *State shared by
all sessions:* a raw pointer to the newest EP and the EP attached to the data transfer.
*Correct when* neither outlives its EP and copies are served by the session's own EP.

**amdgpu meta provider** (`amdgpu/gpu_factory.*`, `gpu_ep.cc`, `gpu_allocator.cc`,
`gpu_data_transfer.cc`). *State shared by all sessions:* `backend_ep_factory_`, the backend selected
last, and the backend objects the shared allocator and data transfer were bound to at first use.
*Correct when* each EP, buffer and copy goes to the backend of its session.

**HIP shim** (`hip/hip_factory.cc`). *State:* a reference count and three pointers loaded from the
HIP library. *Hard:* the count is atomic, the pointers are not; loading can fail half-way.
*Correct when* the library is mapped while a factory exists, and a failure can be retried.

**MIGraphX compute** (`migraphx/mgx_ep.cc` `NodeComputeInfo::Compute`, `mgx_dynamic_batch.cc`,
`mgx_hip_graph.cc`). *State of a fused node:* the ONNX options and the shapes set in them, the current program,
programs cached per bucket, staging buffers, scratch buffers, captured hipGraphs. *Hard:* caches
that refer to each other by address; exceptions between assignments; concurrent runs.
*Correct when* each call runs a program compiled for its shapes, through buffers large enough, and a
graph is replayed only while everything it refers to exists.

**Not modelled:** MIGraphX's factory, EP-context nodes and `.mxr` files, partitioning and interop; the
meta provider's EP-context nodes, options, streams and interop; the shared HIP wrappers
(`shared/hip`); shared helpers and model serialization (`shared/common`); DirectML's captured graphs and
reusable command lists, the original provider's graph partitioner, operators and kernels; the
vendored ORT core, generated shaders, build scripts. See [limits](#what-is-not-modelled).

### How the parts interact

    ORT session -> amdgpu EP -> backend EP              SessionFactory, HipBackend
        DirectML EP -> GetCapability, Compile            GraphPartition, Capability
                    -> kernels -> execution context      ExecutionContext, ResourceLifetime
                               -> descriptor pool        DescriptorPool
                    -> CopyTensors -> upload heap        TensorCopy, UploadHeap
                                   -> readback heap      ReadbackHeap
                    -> allocator -> context              BucketAllocator
        MIGraphX EP -> Compute -> programs and graphs    MgxCompute

`DescriptorPool` is composed with `ExecutionContext`: its steps are those of the context, each with the allocations
its handler makes. The upload heap, the readback heap and the allocator touch the context only through its fence (the
current and next completion event), `Flush` and `QueueReference`. Their modules replace it by a count of submitted
batches and a count of executed ones, which is what those calls return in `ExecutionContext`.

## Modules

| Module | Models | Notes |
|---|---|---|
| `ResourceLifetime` | what the context and the heaps promise | abstract: objects exist, work uses them, no object dies while used |
| `ExecutionContext` | the context, queue, ring, recorder, one CPU thread, the GPU | implements `ResourceLifetime` |
| `DescriptorPool` | descriptor heaps, with the context | extends `ExecutionContext` |
| `ExecutionContextProofs` | theorems about both | extends `DescriptorPool`; see [proofs](#proofs) |
| `GraphPartition` | tier 0 of `GetCapabilityImpl` | one step per node, merge, and group tried |
| `Capability` | all tiers, the pattern matcher, `CompileImpl` | extends `GraphPartition` |
| `GraphPartitionProofs` | theorems about both | extends `Capability`; see [proofs](#proofs) |
| `UploadHeap` | pooled upload heap | implements `ResourceLifetime`; sizes and offsets are small integers |
| `UploadHeapProofs` | theorems about it | see [proofs](#proofs) |
| `ReadbackHeap` | readback heap | implements `ResourceLifetime`; bytes carry a value naming thread, call and tensor |
| `ReadbackHeapProofs` | theorems about it | see [proofs](#proofs) |
| `TensorCopy` | `CopyTensorsPlugin`, `CopyTensors` | tensors hold abstract values; a queue of GPU commands |
| `TensorCopyProofs` | theorems about it | see [proofs](#proofs) |
| `BucketAllocator` | bucketized allocator | taking from a bucket is two steps |
| `BucketAllocatorProofs` | theorems about it | see [proofs](#proofs) |
| `SessionFactory` | state shared across sessions | `amdgpu` and the DirectML factory together |
| `HipBackend` | HIP library reference count | one step per access to a global |
| `SharedStateProofs` | theorems about both | extends `SessionFactory` and `HipBackend`, which share no names; see [proofs](#proofs) |
| `MgxCompute` | one fused MIGraphX node | four steps per call: prepare, stage, launch, finish |
| `MgxComputeProofs` | theorems about it | see [proofs](#proofs) |

Each `MC_` module declares the model values of its runs; a module whose constants a configuration can state has none. Definitions whose comment starts with
"Mutant" are deliberately wrong variants of the next definition; nothing uses them, and `PROJECT.json`
says which property each must break.

### ExecutionContext

Variables correspond to fields: `lastFence` to `CommandQueue::m_lastFenceValue`, `refs` to
`m_queuedReferences`, `recorder` to `m_currentRecorder`, `recorded` to
`m_operationsRecordedInCurrentCommandList`, `ring` to `CommandAllocatorRing`, `closed` to `m_closed`.
COM reference counts are abstracted to who holds an object: the session (`held`) or the list. Three
history variables record what the GPU uses: `recordedUses` (commands in the open list), `lastUse`
(the last batch using an object) and `allocBusy` (the last batch recorded from an allocator).

Each handler is one action: `CreateKernel`, `Compute`, `ComputeShapeChanged` (a temporary kernel that is
created, run and dropped in one call), its failure, `CopyBufferRegion` (which stands for all recording
calls without a reference), `ExecuteCommandList`, `AllocBuffer`, `FreeBuffer`, `ReleaseKernel`,
`Flush`. The blocking handlers `ReadbackFromGpu`, `OnSessionInitializationEnd` and `Close` are split at
their wait, where the GPU can run. `ReleaseCompleted` includes the re-entrant part: the
last reference of a kernel runs its destructor, which queues its persistent resource on the list being
walked, in any order when several kernels die. `GpuComplete` finishes the oldest batch; `DeviceRemoved` makes every fence read as signalled
and later submissions throw (`CloseAndExecuteFails`, `ExecuteCommandListFails`) after the fence value was bumped and
before anything was released.

### DescriptorPool

A step of `PoolNext` is a step of the context together with what its handler does to the pool: a
dispatch or an initialization allocates once, a temporary kernel twice, `FillBufferWithPattern` one descriptor that only the CPU sees and one
for shaders. The other steps advance the history variable `inUse`, which keeps for each heap the ranges of work
that is recorded or submitted and not finished, and `overwritten`: one of them was given out again. Heaps are tried in order and recycled on the way, as
`TryAllocDescriptors` does, also when the heap turns out too small.

### GraphPartition and Capability

The graph is a variable: the inputs of each node (a node stands for its only output), which nodes DirectML supports and
has translators for, which shapes are dynamic, and which groups would translate and compile. `GraphPartition` visits the nodes in
topological order. A node that cannot be fused closes the open groups it reads (`Boundary`); any other starts a
group, or merges the open groups it reads one by one (`MergeGroup`) and joins them (`JoinGroup`). `Resolve` and
`ClaimGroup` are the passes of the loop of at most ten iterations. Translating a group that fails still
exports the shapes of its other nodes, so a failure can let another group succeed later.

`Capability` goes on with `ApplyFusions`. A pattern is the tree the rules build; `MatchNode` follows its edges, with
`PSameAs` captures, the single-consumer rule and longest optional edges, as the code does; whether an operand is a given constant
is part of an operation's name. `Kept` is the exclusion of inner nodes with other users. `CompileImpl` is asked for the sets in any order, and any may fail.

### The DirectML heaps and copies

`UploadHeap` has the ring arithmetic (`FindOffsetForAllocation`), the growth policy, reclaiming,
trimming, and the failure of chunk creation (nothing changes) or mapping (space stays reserved). `pending` and `overwritten` are
history variables: the copies out of the heap not yet executed, and whether the range of one was given out again.
An upload may be followed by a flush, which the EP decides on counters the model leaves out. `ReadbackHeap`
splits a call at its wait, so a second thread can come between. `TensorCopy` runs any list of
copies for the data transfer and, for a Memcpy kernel, lists whose destinations are new tensors: the GPU queue executes whenever it likes, except that a readback waits for it.
`BucketAllocator` has the index arithmetic on exact powers of two and their neighbours, both rounding
modes, sub-allocator failures, and ends in `undefined = TRUE` where the code would pop an empty or index a missing
bucket.

### SessionFactory and HipBackend

A session is opened once, with any backend, and closed. `CreateEp` overwrites `backend`;
`ReleaseEp` gives the EP to the backend of that moment, and `DestroyFactory` the shared allocator. `Alloc` and `CopyTensors` bind the shared objects at
first use. `overlapped` is a history variable: two sessions have been open at once. `HipBackend` follows
`CreateEpFactories` and `ReleaseEpFactory` statement by statement for each thread; `mapped` is the loader's own
count, and `crashed` records a call through a null pointer.

### MgxCompute

A *setup* is what differs between sessions: the batch sizes and extents of the calls, `max_dynamic_batch`, `compile_batches`.
The model has a batched input (its extent is the number of rows) and another whose extent varies
freely. A *key* is a pair of extents and stands for the hash of the effective input shapes. A program has an
identity, since graphs refer to it by address, and is freed when neither `program` nor `cached` holds it. Failures
(`parse`, `compile`, `save`, `capture`) leave what was assigned before the exception. `failed` and `compiles` are history variables.

## Runs and bounds

All passing runs are exhaustive for their bounds. `CHECK_DEADLOCK FALSE` is used where the
bound on fence values, resources, factories or sessions stops the model, where the program would
go on; where a session is closed; and where a failed preparation leaves a node on which every later call throws.

| Run | Instance | Shows |
|---|---|---|
| `context` | 2 kernels, 1 buffer, 3 submissions, 3 references | `InFlightAlive`: unfinished work uses live objects. `LifetimeSpec`: refinement of `ResourceLifetime`. |
| `descriptors` | 1 kernel, no buffer, 4 submissions, failing kernels, dispatches of 1 or 3 descriptors, heaps of 2, 2 heaps | `DescriptorsIntact`; `WaitTargetSubmitted`, `WaitReleasesCompleted`, `WaitsEnd` for blocking calls; `AllocatorResetIdle`; `ClosedDrained`. |
| `context_failing_compute` | 1 kernel | counterexample to `InFlightAlive`, below. |
| `upload` | sizes 1 and 5, alignment 2, chunks of 4 to 8, 3 chunks | `UploadsDisjoint`, `UploadsInBounds`, `CapacityIsSum`, `InitializationReleasesStaging`. |
| `readback` | sizes 1, 2, 5, batches of 2, initial capacity 2 | `ReadbackExact`, `CopiesInHeap`, `ReadbackReturns`. |
| `tensor_copy` | 2 CPU and 2 GPU tensors, 4 copies | `CopiesInOrder`. |
| `allocator` | 7 sizes around the boundaries 8 and 16 | `OneOwner`, `ResourceFits`, `BucketsUniform`. |
| `sessions` | 3 sessions, 3 backends, all may overlap | `SequentialRelease`, `TransferLive`, `SequentialCopies`. |
| `sessions_mixed` | 2 backends | counterexample to `ReleasedByCreator`, below. |
| `hip` | 1 thread, 4 factories, 4 loads | `LoadedWhileHeld`, `RetryReattempts`. |
| `mgx_buckets` | buckets 1, 2, 4, 8 with batches 3, 4, 7; buckets 2, 5 with batches 1, 4; none with 2 × 2 shapes; all failures | `RunsOwnUntilFailure`, `StagingFits`, `ServesBatch`, `CompiledOnce`. |
| `capability` | graphs of 4 nodes | `ClaimsAcyclic`, `GroupsOrdered`, `ListsMatchMap`, `ClaimsComplete` of tier 0; `ClaimedOnce`, `CompiledByItsTier`, `CapabilityAcyclic`, `FusionsHavePivot` of all tiers. |

Why the bounds are enough to be interesting:

- *context:* three batches let one be finished, one run and one wait while a fourth is recorded; with
  two allocators the ring turns around. Two kernels let one destructor run while the other's reference is
  in the list. Kernels are interchangeable, so the run uses symmetry; the run with a liveness property does not.
- *descriptors:* the first heap holds two small dispatches and is too small for the large one, which makes a second heap that holds
  one large or three small ones; with four batches a heap is filled by one or two batches, recycled, and filled again while another is used.
- *upload:* a chunk of 4 holds two aligned allocations of size 1, one of 8 a large and a small one, so a
  ring wraps, fills and is reclaimed in every order, and a third chunk is sorted in.
- *readback:* the sizes need no growth, one doubling, or more than doubling.
- *tensor_copy:* an out-of-order batch needs at most a collected source overwritten, or a collected destination read, by a
  later copy, which three copies do; a fourth reads the result.
- *allocator:* sizes below, at and above a bucket, zero, and one that only equals a bucket's width after rounding to 4.
- *capability:* three families, in one run. All 432 graphs of four nodes with every choice of fuseable nodes: two groups that meet at a third node,
  or part at a boundary and meet again, need four. All ways the claim loop can go on graphs whose nodes use the first node or
  the previous one, where each node is a boundary, resizes, has a dynamic shape, or fails to translate or to compile. All graphs
  of the operations of QuickGelu, with and without tier 0, which overlap in every way. TLC also evaluates there that the three rules have the shape the proofs ask for (`RulesAreShaped`). FusedMatMul and BiasGelu are used by the configurations below.
- *sessions:* three sessions are one more than needed for an older session to be closed after a newer one.
- *mgx:* two buckets with padded and exact batches alternate, chosen from powers of two or a list; without buckets either extent changes alone or both do.

**Fairness.** `descriptors` assumes weak fairness of `GpuComplete` (the GPU drains a queue it was
given unless removed, and removal signals all fences), of `WaitDone` and of `CloseDone` (a thread blocked in
`WaitForSingleObject` is woken when the event is set). Nothing is assumed about which handlers ORT calls.
`readback` assumes the same of the GPU and of a waiting call. The other runs check safety only and assume nothing.

## Deviations from the documented behaviour

Two are runs and findings of `PROJECT.json`.

- **`context_failing_compute`** - when an input's shape changes, `DmlAbiKernel_Compute` creates a temporary
  kernel, which records its initialization. If the kernel's `Compute` fails, the early return
  (`directml/dml_abi_kernel.cc:3859`) destroys it without queueing a reference. Line 3988 says "Keep the kernel alive until scheduled GPU work completes."
- **`sessions_mixed`** - `amdgpu/gpu_ep.cc:189` releases the backend EP through the factory selected
  *last*, not, as line 184 says, the "backend factory that created it".

The others have a configuration that ends in a counterexample to the named property. They show
behaviour at the edge of what the passing runs assume (one thread, sequential sessions, no failure, sizes within limits).

| Configuration | Property | What happens |
|---|---|---|
| `UploadHeapOversize.cfg` | `UploadsInBounds` | an upload larger than `c_maxChunkSize` gets offset 0 of a chunk smaller than it (`dml_pooled_upload_heap.cc:125`) |
| `ReadbackHeapWide.cfg` | `ReadbackExact` | the 32-bit total of a batch wraps (`dml_readback_heap.cc:137`) |
| `ReadbackHeapThreads.cfg` | `ReadbackExact` | two runs share the heap, though `dml_ep.cc:1598` says "DML EP supports concurrent runs" |
| `BucketAllocatorThreads.cfg` | `OneOwner` | two runs take the same resource (`dml_bucketized_buffer_allocator.cc:113`) |
| `BucketAllocatorUnpooled.cfg` | `UnpooledStaysOut` | a resource that "will not be pooled" (line 119) enters the pool when its width is a bucket's (line 153) |
| `MC_SessionFactoryOverlap.cfg` | `CopiesServed` | the newest DirectML session serves every session's copies; closing it detaches all (`dml_factory.cc:341`) |
| `MC_SessionFactoryAlloc.cfg` | `AllocatedByActive` | the shared allocator stays bound to its first backend (`gpu_allocator.cc:32`) |
| `MC_SessionFactoryDestroy.cfg` | `AllocatorReturned` | the factory's destructor gives the shared allocator to the backend selected last (`gpu_allocator.cc:25`) |
| `MC_CapabilityMatMul.cfg` | `FusionsAcyclic` | a scale whose output has another user is left out of a FusedMatMul although it lies between the product and its activation, so that the fusion needs its own output (`ep_fusion_manager.cc:183`) |
| `MC_CapabilityBias.cfg` | `FusionsAcyclic` | the same with the division of a BiasGelu |
| `MC_CapabilityOutputs.cfg` | `FusionsHaveOneOutput` | the gate of a QuickGelu is used elsewhere too: leaf edges are exempt from the single-consumer rule (`pattern_matcher.cc:200`), the kernel writes one output |
| `MC_CapabilitySubgraphs.cfg` | `ClaimsAcyclicWithSubgraphs` | values used by a subgraph are not inputs of its node (`fusion_utils.cc:51`), so an If does not close the groups it depends on |
| `HipBackendThreads.cfg` | `LoadedWhileHeld` | a second thread calls through a pointer that is not loaded yet (`hip_factory.cc:42`) |
| `HipBackendErrors.cfg` | `CountsFactories` | an error status keeps the reference counted (`hip_factory.cc:50`) |
| `MC_MgxComputeMaximum.cfg` | `StagingFits` | `max_dynamic_batch` 6 has a bucket of 8, staging has 6 rows; a batch above the largest explicit bucket needs more (`mgx_hip_graph.cc:315`) |
| `MC_MgxComputeExtents.cfg` | `StagingFits` | with buckets another extent grows; staging is not sized again |
| `MC_MgxComputeSave.cfg` | `RunsOwnProgram` | a program that could not be saved is not cached, and a graph outlives it (`mgx_ep.cc:1249`) |
| `MC_MgxComputeFailure.cfg` | `RunsOwnProgram` | after a failed compilation the next call runs the uncompiled program (`mgx_ep.cc:1219`) |
| `MC_MgxComputeParse.cfg` | `RunsOwnProgram` | shapes of a failed parse stay in the options (`mgx_ep.cc:1169`) |
| `MC_MgxComputeThreads.cfg` | `StagedDataIntact` | two runs of a session overwrite each other's staged inputs |

## Proofs

`ExecutionContextProofs` proves, for any finite set of kernels, any set of buffers and any bounds:

| Theorem | Statement |
|---|---|
| `TypeCorrect` | `Spec => []TypeOK` |
| `UseIsSafe` | `Spec => []InFlightAlive`, if no temporary kernel fails on a present device (`~FailingCompute`) |
| `ResetIsSafe` | `Spec => AllocatorResetIdle` |
| `WaitReleasesAll` | `Spec => WaitReleasesCompleted` |
| `CloseIsClean` | `Spec => []ClosedDrained` |
| `WaitIsBounded` | `Spec => []WaitTargetSubmitted` |
| `Implements` | `Spec => LifetimeSpec` (`ExecutionContext` implements `ResourceLifetime`), if `~FailingCompute` |

The assumptions are the named ones of `ExecutionContext`: kernels are finitely many; kernels, buffers and
persistent resources are distinct; the bounds are natural numbers; `FailingCompute` is Boolean.

`InFlightAlive` is not inductive: that an object exists now does not say for how long. The inductive
invariant `IInv` adds:

- `RefsInv` - the release list ascends in fence values and ends at the next batch at the latest, so the
  front-popping loop stops at the right place;
- `UseInv` - each object used by batch *n* is *protected* up to *n*: a guard of it (itself, or the kernel
  that owns it) is in the list with a fence value of at least *n*, or it is a buffer the session holds, which will be queued for the next batch when it is freed;
- `FenceInv`, `WaitInv`, `ClosedInv`, `SetupInv` - fence values name submitted batches; what a waiting, closed or
  just created context looks like;
- `RingInv` - each allocator's completion event covers the work recorded from it, and the
  current one's is the next batch while a list is open. This is why a directly submitted list must call
  `UpdateCurrentAllocatorCompletionEvent`.

There is one lemma per conjunct (`TypeStep`, `FenceStep`, `RefsStep`, `UseStep`, ...), with a step per action.
`ReleaseKeeps` says what the popping loop with its re-entrant destructors keeps, adds and leaves, and `OpenRing` what opening a
recorder does to the ring; the other lemmas rest on these. All conjuncts but `UseInv` hold also with failing
kernels; `UseInv` needs `~FailingCompute`, and the run `context_failing_compute` shows that it must.

`Implements` rests on `UseIsSafe`: what unfinished work uses exists after each step. In addition a step of the
CPU takes no work back (`WorkKeepsPending`): a submission moves uses from the open list to the new batch,
whose fence value is above the completed one, and only an object that does not exist can be created, so the
history forgets no use. `GpuComplete` and `DeviceRemoved` map to `GpuStep`, `CloseDone` to `Shutdown`.

### Partitioning

`GraphPartitionProofs` proves, for graphs of any number of nodes with any inputs, and, but for the last two theorems, any patterns:

| Theorem | Statement |
|---|---|
| `TypeCorrect` | `Spec => []TypeOK` |
| `FusingIsAcyclic` | `Spec => []ClaimsAcyclic` |
| `ListsAgree` | `Spec => []ListsMatchMap` |
| `TranslationOrder` | `Spec => []GroupsOrdered` |
| `ClaimsReachFixedPoint` | `Spec => []ClaimsComplete` |
| `TiersKeepPartition` | `FusionSpec => Spec`: the theorems about tier 0 hold of all tiers together |
| `EveryNodeClaimedOnce` | `FusionSpec => []ClaimedOnce` |
| `EverySetHasCompiler` | `FusionSpec => []CompiledByItsTier` |
| `PivotsKeepAcyclic` | `FusionSpec => [](FusionsHavePivot => CapabilityAcyclic)`, for any rules |
| `RulesHavePivots` | `FusionSpec /\ SchemaArity(Q \cup D) => []FusionsHavePivot` without subgraphs, if `RuleShape(U, Q, D)` |
| `RulesKeepAcyclic` | `FusionSpec /\ SchemaArity(Q \cup D) => []CapabilityAcyclic`, if `RuleShape(U, Q, D)` |

Assumed are that the number of nodes and the bound on iterations are natural numbers and, for those about `FusionSpec`, `PatternAssumption`: an anchor operation has one pattern tree
(`BuildAnchorIndex` merges the rules that share one) and the children in a tree are trees; `NoValueAssumption` says that the mark for no value captured is not a value. What ORT guarantees of a graph (`GraphOK`) is part
of `Init`; `FusionSpec` adds that what tier 0 may fuse is supported. That no fusion makes a cycle is a statement about the end; the inductive invariant says what visiting a node keeps:

- `MembersInv` - a member of a closed group comes before the node that closed it;
- `EdgesInv` - a visited node outside a group that reads from it comes no earlier than the node that closed it, so the group is closed;
- `CountsInv` - groups not started have no state, and nothing is claimed before every node is visited.

`UnitsRunnable` draws the conclusion with a rank: a closed group ranks just before the node that closed it, an open one
after every node, any other node at its own place. An edge between two units goes to a higher rank (`EdgeRank`), so in a set of units one of
least rank waits for no other. `ListsInv` relates the lists to `output_to_group` and keeps them exact (no node twice)
and ordered; merging two open groups keeps the order because no value flows between two groups that are both open (`EdgesForward`, `ConcatOrdered`).
`LoopInv` says that as long as an iteration has resolved and claimed nothing, no shape can be resolved and no group met so far can be claimed; the
counts the code compares are enough because both sets only grow (`SameCardinality`).

`FusionInv` is the invariant of the later tiers: the fusions take supported nodes that tier 0 left, no two of them a common node, the single nodes are
the rest, and a set not compiled yet is a group of tier 0 or still has its match. It rests on what the matcher finds. `MatchAvoids` proves that `MatchNode` returns no node that an earlier fusion
has, for any patterns: the recursion is a function of the depth, never more than the number of nodes, and of the call; `Recursion` proves that such a function exists, and `UpTo` (induction
over a set, from `LeastNumber`) carries the property through the depths and along the edges. That the anchor has one match at most (`AnchorMatches`)
keeps the fusions of one step apart.

`CapabilityAcyclic` rests on `FusionsHavePivot`: for each fusion there is a node, its *pivot*, such that all the fusion waits for is used by the match no later
than it, and no output leaves the fusion earlier. `PivotsRunnable` then ranks the units as `UnitsRunnable` does, a fusion at its pivot. An arbitrary rule can break this: an anchor
with two leaves, the output of the first of which reaches the second through a node outside, is fused into a cycle. So the theorem about the rules says of
what shape they are (`RuleShape`): trees that only go up to producers (*U*), trees that go down and compare no value (*Q*), and trees that go down
and compare with a value captured before (*D*); and that operations met going down read one value besides constants, or two if one of them
is compared (`SchemaArity`: Relu, a scale by a constant, the Mul of a gate). QuickGelu, FusedMatMul and BiasGelu have this shape; TLC evaluates it (`RulesAreShaped`), and
the graphs of the runs have such arities.

What the matcher keeps, through its recursion and along its edges, is that a match is `Anchored`: every node matched before the anchor is a producer of
another one; every node after it was entered from the match and reads nothing else than what a node up to the anchor reads; so is the value captured.
`ChildReady` says that the node an edge leads to may be tried, `ExtendedAnchored` that matching it keeps the match anchored, and `EdgesUnfold` and `MatchUnfold` give the two recursions as
sequences for the induction, for `MatchAvoids` too. The anchor is then the pivot (`AnchorIsPivot`): a node left out after the anchor would be entered from a
node of the fusion (`LeftOutBefore`), which `LeftOutUpstream` excludes. `AnchoredFusions` is the invariant that carries this over the steps.

### Descriptors

`ExecutionContextProofs` also proves, for any capacities and counts of descriptors:

| Theorem | Statement |
|---|---|
| `Composes` | `PoolSpec => Spec`: the theorems about the context hold of the composition |
| `PoolTypeCorrect` | `PoolSpec => []PoolTypeOK` |
| `DescriptorsStay` | `PoolSpec => []DescriptorsIntact`: not handed out again, and inside their heap |

A heap keeps one event, that of its latest allocation, for ranges used by work of several batches. The inductive invariant
`PoolInv` says why this is enough: a range in use lies below the heap's size, and no unfinished work that uses it belongs to a
later batch than the heap's event, so the event is not signalled before that work has finished. Submitting a list turns the ranges
recorded in it into ranges of the next batch, which is the one their event names. Device removal signals all events at once, and from then on
nothing runs.

### Upload heap

`UploadHeapProofs` proves, for any sizes, alignment and number of chunks:

| Theorem | Statement |
|---|---|
| `TypeCorrect` | `Spec => []TypeOK` |
| `UploadsKept` | `Spec => []UploadsDisjoint` |
| `UploadsContained` | `Spec => []UploadsInBounds`, if no size exceeds the largest chunk (`SizesFit`) |
| `StagingIsReleased` | `Spec => InitializationReleasesStaging` |
| `TotalIsSum` | `Spec => []CapacityIsSum` |
| `Implements` | `Spec => LifetimeSpec` (`UploadHeap` implements `ResourceLifetime`) |

The inductive invariant `UploadInv` says of each chunk that its allocations, oldest first, form a `Ring`: from one of them on they
have wrapped, and lie in order before the older ones. Reclaiming drops a prefix (`Reclaimed`), so a ring stays one, and the offset
`FindOffsetForAllocation` finds is free of all that is left. Every copy not executed is `Backed` by an allocation of a chunk and its fence value lies above the completed one, hence it
is never reclaimed. `FenceInv` bounds fence values by the batch being recorded; when the initialization's wait ends, all of
them are signalled and every chunk is empty, which is what `Trim` needs. Without `SizesFit`
the theorem on bounds is false: `UploadHeapOversize.cfg` ends in a counterexample.

`Implements` maps chunks to the objects of the contract and copies not executed to its work: chunks come with `Reserve` and go with `Trim`, which releases
none that a copy still reads, since such a copy is `Backed` by an allocation of it. It needs no `SizesFit`: an upload that does not fit its chunk
still keeps the chunk.

`Capacity` is defined as a running total, a recursive function. What it computes is not proved for every input; `TotalIsSum` needs only how two
totals compare (`SameSum`, `LongerSum`: one more chunk adds its capacity) and that without chunks it is 0, and these follow from the function's equation
by the least place where two running totals would differ.

### Readback heap

`ReadbackHeapProofs` proves, for any sizes, batches and initial capacity:

| Theorem | Statement |
|---|---|
| `TypeCorrect` | `Spec => []TypeOK`, for any threads |
| `ReadbackExactTheorem` | `Spec => []ReadbackExact`, if `Threads = {t}` and `NoWrap` |
| `CopiesInHeapTheorem` | `Spec => []CopiesInHeap`, under the same conditions |
| `Implements` | `Spec => LifetimeSpec` (`ReadbackHeap` implements `ResourceLifetime`), if `Threads = {t}` |

`NoWrap` says that every tensor of a batch ends before `Width`, that is, that the code's 32-bit running offset never wraps.
For `Implements` one thread is enough, whatever the totals: growing releases the old heap at once, and only because the one caller has waited for its copies is nothing left that
writes to it (`LifeInv`).
Both conditions are needed: `ReadbackHeapWide.cfg` and `ReadbackHeapThreads.cfg` end in counterexamples without them.
`TypeInv` adds to the types that the heap is the last one created, with the capacity it was created with, and that one batch is left per fence value not
reached. `CallInv` says that between calls nothing is left to the GPU, and that a waiting call finds either its own batch recorded, in
the present heap and at its own offsets, or its bytes in the heap. The copies of a batch do not disturb each other because its tensors lie one after the other
(`OffsetsApart`); they fit because doubling ends at no less than what is desired (`CapacityGrows`). Both rest on `Recursion` and `UpTo`, which give
the loops of the code (`ComputeNewCapacity`, `Offset`) as recursive functions and bounded induction over a set of numbers.

### Tensor copies

`TensorCopyProofs` proves, for any tensors and any list of copies, from `TensorsAssumption` alone (no tensor is in both memories):

| Theorem | Statement |
|---|---|
| `TypeCorrect` | `Spec => []TypeOK` |
| `CopiesTakeEffectInOrder` | `Spec => []CopiesInOrder` |

`CopiesInOrder` speaks of the end of the call. The inductive invariant compares each moment with `Now`, what the copies handled so far make of the
tensors when done in order. For the GPU, `Waiting`: running the writes at the head of the queue takes the present contents to those of `Now`, and behind them
are only the readbacks asked for, in order, so what is read back is a value of `Now` (`QueueGrows`, `QueueReadbacks`, `QueueRuns`). For the CPU, `Agrees`: a tensor that no
collected readback will write holds its value in `Now`, and the last readback that writes it will bring that value. A copy of
another kind could break this for a collected one; `FlushedBefore` is where the flush of `CopyTensorsPlugin` is needed, or for Memcpy kernels that no copy of the
list depends on another. That the copies in order are well defined for every list is `ContentsFollow`, by `Recursion` and `UpTo` as for the readback heap.

### Allocator

`BucketAllocatorProofs` proves, for one thread (`Threads = {t}`) and any sizes and smallest exponent:

| Theorem | Statement |
|---|---|
| `OneOwnerHolds` | `Spec => []OneOwner` |
| `BucketsStayUniform` | `Spec => []BucketsUniform` |
| `ResourcesFit` | `Spec => []ResourceFits` |
| `TypeCorrect` | `Spec => []TypeOK` |

`OwnInv` adds that ids of resources were all given out by `created`, so that a new one is different, and that a
resource being taken is still the last one of its bucket, so that popping removes that one and no other. With two threads this
fails, as `BucketAllocatorThreads.cfg` shows. That a bucket is wide enough for what is taken from it follows from `BucketsUniform`
and `BucketHolds`: a size is at most its bucket's. `TypedInv` adds the widths (`BucketWidth`). The provers know nothing of powers of two; what they need of them is the named
assumption `ExponentAssumption` (buckets have sizes that are numbers; every request has an exponent; powers up to the smallest bucket's do not exceed it), which TLC evaluates.

### Sessions

`SharedStateProofs` proves, for any sessions and backends and without further assumptions, `TypeCorrect` (`Spec => []TypeOK`), `ReleasesMatch`
(`Spec => []SequentialRelease`), `TransferIsLive` (`Spec => []TransferLive`) and `CopiesFollow` (`Spec => []SequentialCopies`). The invariant
`IInv` adds that what the DirectML factory refers to was created by it (`DmlInv`), that without overlap there is at most one session, that of the
selected backend (`SequentialInv`), and that the data transfer follows the open session as long as all run on DirectML (`FollowsInv`).

### HIP shim

`SharedStateProofs` also proves, for one thread, `ShimTypeCorrect` (`HipSpec => []HipTypeOK`), `HeldIsLoaded` (`HipSpec => []LoadedWhileHeld`) and `FailureIsRetried`
(`HipSpec => []RetryReattempts`). `PlaceInv` says for each place of the code what count, pointers and mapping are there. With two threads
`LoadedWhileHeld` is false (`HipBackendThreads.cfg`).

### MIGraphX compute

`MgxComputeProofs` proves, for any options, batches, extents and failures:

| Theorem | Statement |
|---|---|
| `CompiledOnceTheorem` | `Spec => []CompiledOnce`, for any threads |
| `ServesBatchTheorem` | `Spec /\ ServesHypothesis => []ServesBatch`, for any threads |
| `RunsOwnTheorem` | `Spec => []RunsOwnUntilFailure`, if `Threads = {t}` |
| `StagingFitsTheorem` | `Spec /\ OptionsFit => []StagingFits`, if `Threads = {t}` |

The hypotheses are about the session's options. `ServesHypothesis` says that with buckets only the batch varies and that an explicit list of
buckets has one for `max_dynamic_batch`: a batch above the largest listed bucket finds none, and after a failed parse the options keep the extents of the
call that failed. `OptionsFit` says that with buckets only the batch varies and that no bucket in use is larger than the maximum;
`MC_MgxComputeMaximum.cfg` and `MC_MgxComputeExtents.cfg` end in counterexamples without it, `MC_MgxComputeThreads.cfg` shows why
two threads do not share staging.

`BaseInv` holds for any threads because a call prepares its program in one step. Until something failed, the options describe the current
program, it is compiled, and with buckets it is the one cached for its key, which was compiled exactly once (`ProgramsInv`); a call's parameters are those of
a program for its own key (`ServeInv`). `RunInv` adds, for one thread, that a graph was captured from the program now cached for its key, or from the
current one without buckets (`GraphInv`), and that the current program stays the call's from its preparation to its launch (`CallInv`). `StagingInv`
says whose rows the buffers have: the maximum's with buckets, the program's otherwise. `NearestBucket` proves what `FindNearestCompiledBatchSize` returns.
Two named assumptions replace arithmetic the provers cannot do: a finite list of buckets has a largest entry (`MaximumAssumption`), and doubling from 1
reaches the maximum (`PowersAssumption`). TLC evaluates both.

*Model-checked only:* liveness (`WaitsEnd`, `ReadbackReturns`: fairness and ENABLED are out of the
prover's reach). Every invariant and every other action property of the passing runs is stated by a theorem. `MgxCompute` states a
`TypeOK`, `Capability` a `CapabilityTypeOK`, which no run lists; nor does one list `PoolTypeOK` or the heaps' `LifetimeSpec`, which are proved.

## What is not modelled

- *Concurrent runs of the execution context.* `ExecutionContext` has one CPU thread. The heaps and the allocator have a
  configuration with two threads each.
- *Reusable command lists and captured graphs.* Only the submission of a reusable list is modelled.
- *`DescriptorPool::Trim`*, which nothing calls.
- *MIGraphX:* quantization, the coalesced input arena (another layout of the same buffers), batches of zero
  rows, HIP errors other than in capture, models whose shapes are all static.
- *EP-context nodes, `.mxr` cache files,* and allocations made before the first session.
- *Partitioning:* how scales and shapes are computed (only whether they can be); nodes with several outputs; ORT's renaming of edges; failures of `AddNodesToFuse`
  (it refuses only empty lists); the original provider's `GraphPartitioner.cc`, which the plugin does not call; MIGraphX's partitioning.
- *Operators, shape inference, options, streams, interop, HIP wrappers:* data conversion or forwarding without state of their own.
- *Vendored ORT core, shaders, build scripts:* third-party, generated, or not part of the program's logic.

Most of the repository's lines are vendored ONNX Runtime code, generated shaders and the tables of operator translators.
They hold no state that steps of several actors share, so the models cover a small share of the lines and most of
the providers' own control flow.

## Plan

Done: the execution context, the descriptor pool, the upload and readback heaps, the allocator, tensor copies, sessions, the HIP shim, MIGraphX compute and
partitioning in all its tiers, each with proofs of every safety property. What would come next, in this order:

1. *DirectML:* captured graphs and reusable lists (their state machine and release after `Close`); a module that composes the context with
   the upload heap and the allocator, and shows that their view of the fence is the context's.
2. *MIGraphX:* EP-context nodes and the `.mxr` cache with its fixed temporary file; batches of zero rows.
3. *Proofs:* that the readback heap and the upload heap implement the staging of `TensorCopy`.
