----------------------------- MODULE MgxCompute -----------------------------
(***************************************************************************)
(* One fused node of the MIGraphX provider: NodeComputeInfo::Compute       *)
(* (src/src/migraphx/mgx_ep.cc) on its ComputeState, with the dynamic      *)
(* batch buckets (mgx_dynamic_batch.cc), the staging buffers, the scratch  *)
(* buffers and the captured hipGraphs (mgx_hip_graph.cc).                  *)
(*                                                                         *)
(* The model has two inputs: input 0, batched, whose only extent is the    *)
(* number of rows, and another input whose extent is not the batch.  A     *)
(* KEY is the pair of extents a program is compiled for; it stands for     *)
(* the hash of the effective input shapes, which indexes the cached        *)
(* programs, the scratch buffers and the graphs.                           *)
(*                                                                         *)
(* A call is four steps of its thread: Prepare (match, reuse or compile    *)
(* the program), Stage (allocate and fill the staging buffers), Launch     *)
(* (replay, capture or run) and Finish (copy the outputs out).  No lock    *)
(* spans them; the mutex of the state covers run_async only.               *)
(*                                                                         *)
(* Not modelled: models whose shapes are all known when they are compiled  *)
(* (their effective shapes never change), a batch of zero rows,            *)
(* quantization, and the coalesced input arena (another layout of the same *)
(* staging buffers).                                                       *)
(***************************************************************************)
EXTENDS Integers, FiniteSets, Functions, FiniteSetsExt

CONSTANTS Threads,
          Setups,         \* the sessions considered: options and requests
          HipGraph,       \* option hip_graph_enable
          MayFail         \* the failures considered, among Failures

Failures == {"parse", "compile", "save", "capture"}

ASSUME InputsAssumption ==
  \A s \in Setups : /\ s.batches \subseteq Nat \ {0} /\ s.extents \subseteq Nat \ {0}
                    /\ s.compileBatches \subseteq Nat \ {0} /\ s.maxDynamicBatch \in Nat
                    /\ s.maxScratch \in Nat
ASSUME FailureAssumption == MayFail \subseteq Failures
ASSUME HipGraphAssumption == HipGraph \in BOOLEAN

\* Arithmetic that is evaluated rather than proved: a finite list has a largest
\* entry, and some power of two is the first not below a maximum.
ASSUME MaximumAssumption ==
  \A s \in Setups : LET sizes == s.compileBatches \cup {s.maxDynamicBatch}
                   IN \E m \in sizes : \A r \in sizes : r <= m
ASSUME PowersAssumption ==
  \A s \in Setups : LET max == s.maxDynamicBatch IN
    /\ \A k \in 0 .. max : 2 ^ k \in Nat
    /\ max > 0 => \E k \in 0 .. max : (k = 0 \/ 2 ^ (k - 1) < max) /\ max <= 2 ^ k

VARIABLE setup   \* the session: its options, and the extents its calls have

Batches == setup.batches                 \* batch sizes requested
Extents == setup.extents                 \* extents of the other input
MaxDynamicBatch == setup.maxDynamicBatch \* option max_dynamic_batch; 0: no bucketing
CompileBatches == setup.compileBatches   \* option compile_batches; {}: powers of two
MaxScratch == setup.maxScratch           \* bound: the scratch a program may need

-----------------------------------------------------------------------------
(* Buckets *)

\* The constructor raises the option to the largest explicit bucket.
MaxBatch == Max(CompileBatches \cup {MaxDynamicBatch})

\* GeneratePowerOfTwoBatchSizes: up to the first power not below max.
PowerOfTwoBatchSizes(max) ==
  {2 ^ k : k \in {k \in 0 .. max : k = 0 \/ 2 ^ (k - 1) < max}}

CompiledBatchSizes ==
  IF CompileBatches # {} THEN CompileBatches ELSE PowerOfTwoBatchSizes(MaxBatch)

\* Mutant: a bucket of exactly the requested size is skipped.
TargetBatchAbove(b) ==
  LET serving == {s \in CompiledBatchSizes : s > b}
  IN IF serving = {} THEN b ELSE Min(serving)

\* FindNearestCompiledBatchSize; a batch above every bucket stands for itself.
TargetBatch(b) ==
  LET serving == {s \in CompiledBatchSizes : s >= b}
  IN IF serving = {} THEN b ELSE Min(serving)

Dynamic == MaxBatch > 0

\* An input whose leading extent happens to be the batch would count as batched.
OnlyOneBatched == Extents \cap (Batches \cup CompiledBatchSizes) = {}

\* The effective shapes of a request.
KeyOf(b, e) == [rows |-> IF Dynamic THEN TargetBatch(b) ELSE b, extent |-> e]
Keys == {KeyOf(b, e) : b \in Batches, e \in Extents}
NoKey == [rows |-> 0, extent |-> 0]

-----------------------------------------------------------------------------
VARIABLES hipGraph,  \* cs.hip_graph_enable
          hasShapes, \* cs.has_input_shapes
          options,   \* the input shapes set in cs.onnx_options
          program,   \* cs.program
          cached,    \* cs.cached_programs
          staging,   \* the staging buffers: their sizes and what they hold
          scratch,   \* cs.scratch_bufs: the size of each
          graphs,    \* cs.hip_graph_cache
          compiles,  \* how often each key was compiled (history)
          failed,    \* a preparation failed after it began (history)
          call       \* each thread's call

vars == <<setup, hipGraph, hasShapes, options, program, cached, staging, scratch,
          graphs, compiles, failed, call>>

\* A program has an identity, since a graph refers to one: the handle is freed
\* when neither cs.program nor cs.cached_programs holds it.
NoProgram == [id |-> 0]
MaxPrograms == 2 * Cardinality(Keys) + 2
Program == [id : 1 .. MaxPrograms, key : Keys, compiled : BOOLEAN,
            need : 0 .. MaxScratch]

\* Whose inputs the staging buffers hold, and whose outputs: a thread at most.
NoStaging == [rows |-> 0, extent |-> 0, input |-> {}, output |-> {}]
Allocated == staging.rows > 0

\* A captured graph: the program, the scratch and the staging it refers to.
Graph == [id : 1 .. MaxPrograms, key : Keys, scratch : 0 .. MaxScratch,
          staged : BOOLEAN]

\* A call: its batch and key, the shapes and scratch its program takes, and what
\* it ran: the key of the program, and whether everything used was valid.
Idle == [pc |-> "idle"]
Prepared(b, k, p) == [pc |-> "prepared", batch |-> b, key |-> k,
                      params |-> p.key, need |-> p.need]

TypeOK ==
  /\ setup \in Setups /\ OnlyOneBatched
  /\ hipGraph \in BOOLEAN /\ hasShapes \in BOOLEAN
  /\ options \in Keys \cup {NoKey}
  /\ program \in Program \cup {NoProgram}
  /\ IsInjective([k \in DOMAIN cached |-> cached[k].id])
  /\ DOMAIN cached \subseteq Keys /\ Range(cached) \subseteq Program
  /\ staging.rows \in Nat /\ staging.extent \in Nat
  /\ staging.input \subseteq Threads /\ staging.output \subseteq Threads
  /\ DOMAIN scratch \subseteq Keys /\ Range(scratch) \subseteq 0 .. MaxScratch
  /\ DOMAIN graphs \subseteq Keys /\ Range(graphs) \subseteq Graph
  /\ DOMAIN compiles = Keys /\ Range(compiles) \subseteq 0 .. 2
  /\ failed \in BOOLEAN
  /\ \A t \in Threads : call[t].pc \in {"idle", "prepared", "staged", "launched"}

EmptyMap == [k \in {} |-> 0]

Init ==
  /\ setup \in Setups
  /\ hipGraph = HipGraph
  /\ hasShapes = FALSE
  /\ options = NoKey
  /\ program = NoProgram
  /\ cached = EmptyMap
  /\ staging = NoStaging
  /\ scratch = EmptyMap
  /\ graphs = EmptyMap
  /\ compiles = [k \in Keys |-> 0]
  /\ failed = FALSE
  /\ call = [t \in Threads |-> Idle]

-----------------------------------------------------------------------------
(* Prepare: find or make the program for the effective input shapes *)

AliveIds == {program.id} \cup {cached[k].id : k \in DOMAIN cached}
UsedIds == AliveIds \cup {graphs[k].id : k \in DOMAIN graphs}
NewId == Min(1 .. MaxPrograms \ UsedIds)

\* The first call, or a program whose parameters have other extents.  A call on
\* a program that was never parsed fails: get_parameter_shapes throws.
Mismatch(k) == ~hasShapes \/ (program # NoProgram /\ program.key # k)

\* Only the extents that differ from the program's are set again.
SetInputShapes(k) ==
  /\ hasShapes' = TRUE
  /\ options' = [c \in {"rows", "extent"} |->
       IF ~hasShapes \/ program.key[c] # k[c] THEN k[c] ELSE options[c]]

\* Mutant: the graphs survive the staging buffers they refer to.
FreeStagingOnly ==
  IF hipGraph /\ ~Dynamic
  THEN /\ staging' = NoStaging
       /\ graphs' = [k \in DOMAIN graphs |-> [graphs[k] EXCEPT !.staged = FALSE]]
  ELSE UNCHANGED <<graphs, staging>>

\* Without buckets only the current shape's graph and staging are kept:
\* DestroyHipGraphs and FreeStaging, before the program changes.
Invalidate ==
  IF hipGraph /\ ~Dynamic THEN graphs' = EmptyMap /\ staging' = NoStaging
  ELSE UNCHANGED <<graphs, staging>>

Match(t, b, k) ==
  /\ hasShapes /\ program # NoProgram /\ program.key = k
  /\ call' = [call EXCEPT ![t] = Prepared(b, k, program)]
  /\ UNCHANGED <<hipGraph, hasShapes, options, program, cached, staging,
                 scratch, graphs, compiles, failed>>

ReuseProgram(t, b, k) ==
  /\ Mismatch(k) /\ Dynamic /\ k \in DOMAIN cached
  /\ SetInputShapes(k)
  /\ program' = cached[k]
  /\ call' = [call EXCEPT ![t] = Prepared(b, k, cached[k])]
  /\ UNCHANGED <<hipGraph, cached, staging, scratch, graphs, compiles, failed>>

\* What every compilation does before parse_onnx_buffer.
BeginCompile(k) ==
  /\ Mismatch(k) /\ ~(Dynamic /\ k \in DOMAIN cached)
  /\ SetInputShapes(k)
  /\ Invalidate

\* parse_onnx_buffer takes the extents from the options.
Parsed(compiled) == \E n \in 0 .. MaxScratch :
  program' = [id |-> NewId, key |-> options', compiled |-> compiled, need |-> n]

CountCompile(k) == compiles' = [compiles EXCEPT ![k] = Min({2, @ + 1})]

\* Mutant: the freshly compiled program is not kept.
KeepNothing(k) == UNCHANGED cached

\* Keep a copy of the program, so that it survives later bucket switches.
KeepCopy(k) ==
  cached' = IF Dynamic THEN [l \in DOMAIN cached \cup {k} |->
                               IF l = k THEN program' ELSE cached[l]]
            ELSE cached

\* Compiled and saved, or loaded from the .mxr file of this key.
CompileProgram(t, b, k) ==
  /\ BeginCompile(k)
  /\ Parsed(TRUE)
  /\ CountCompile(k)
  /\ KeepCopy(k)
  /\ call' = [call EXCEPT ![t] = Prepared(b, k, program')]
  /\ UNCHANGED <<hipGraph, scratch, failed>>

\* An exception leaves everything assigned before it as it is.
ParseFails(k) ==
  /\ "parse" \in MayFail
  /\ BeginCompile(k)
  /\ failed' = TRUE
  /\ UNCHANGED <<hipGraph, program, cached, scratch, compiles, call>>

\* Quantization, or compilation of the program already assigned.
CompileFails(k) ==
  /\ "compile" \in MayFail
  /\ BeginCompile(k)
  /\ Parsed(FALSE)
  /\ failed' = TRUE
  /\ UNCHANGED <<hipGraph, cached, scratch, compiles, call>>

SaveFails(k) ==
  /\ "save" \in MayFail
  /\ BeginCompile(k)
  /\ Parsed(TRUE)
  /\ CountCompile(k)
  /\ failed' = TRUE
  /\ UNCHANGED <<hipGraph, cached, scratch, call>>

Prepare(t) ==
  /\ call[t] = Idle
  /\ \E b \in Batches, e \in Extents : LET k == KeyOf(b, e) IN
       \/ Match(t, b, k) \/ ReuseProgram(t, b, k) \/ CompileProgram(t, b, k)
       \/ ParseFails(k) \/ CompileFails(k) \/ SaveFails(k)

-----------------------------------------------------------------------------
(* Stage: AllocateStaging and CopyInputsToStaging *)

UsesStaging == hipGraph \/ Dynamic

\* Mutant: the batched buffers are sized for the bucket at hand.
StagingRowsExact(k) == k.rows

\* Batched buffers are sized at the maximum so that every bucket fits.
StagingRows(k) == IF Dynamic THEN Max({MaxBatch, k.rows}) ELSE k.rows

\* Allocated once; the inputs overwrite what was staged before.
Stage(t) ==
  /\ call[t].pc = "prepared" /\ UsesStaging
  /\ staging' = [rows |-> IF Allocated THEN staging.rows ELSE StagingRows(call[t].params),
                 extent |-> IF Allocated THEN staging.extent ELSE call[t].params.extent,
                 input |-> {t}, output |-> staging.output]
  /\ call' = [call EXCEPT ![t].pc = "staged"]
  /\ UNCHANGED <<hipGraph, hasShapes, options, program, cached, scratch, graphs, compiles, failed>>

-----------------------------------------------------------------------------
(* Launch: BindStagingParams and RunProgramOrHipGraph *)

ScratchOf(k, buffers) == IF k \in DOMAIN buffers THEN buffers[k] ELSE 0

\* GetOrAllocScratch: one buffer per key, reallocated when it must grow.  A new
\* size stands for a new address.
BindScratch(k, need) ==
  scratch' = IF need = 0 THEN scratch
             ELSE [l \in DOMAIN scratch \cup {k} |->
                     IF l = k THEN Max({ScratchOf(k, scratch), need}) ELSE scratch[l]]

Launched(t, key, usable) ==
  /\ call' = [call EXCEPT ![t] = [pc |-> "launched", batch |-> @.batch, key |-> @.key,
                params |-> @.params, ran |-> key, usable |-> usable, staged |-> TRUE]]
  /\ staging' = [staging EXCEPT !.output = staging.input]

\* The graph of this key, unless its scratch was reallocated since the capture.
CanReplay(k) ==
  /\ hipGraph /\ k \in DOMAIN graphs
  /\ graphs[k].scratch = ScratchOf(k, scratch')

GraphUsable(g) ==
  /\ g.id \in AliveIds /\ g.staged
  /\ g.scratch = ScratchOf(g.key, scratch')

Replay(t) == LET k == call[t].key IN
  /\ CanReplay(k)
  /\ Launched(t, graphs[k].key, GraphUsable(graphs[k]))
  /\ UNCHANGED <<hipGraph, graphs>>

\* WarmupAndCaptureHipGraph, over a stale graph or the first for this key.
Capture(t) == LET k == call[t].key IN
  /\ hipGraph /\ ~CanReplay(k)
  /\ graphs' = [l \in DOMAIN graphs \cup {k} |->
       IF l # k THEN graphs[l]
       ELSE [id |-> program.id, key |-> program.key,
             scratch |-> ScratchOf(k, scratch'), staged |-> TRUE]]
  /\ Launched(t, program.key, program.compiled)
  /\ UNCHANGED hipGraph

\* A failed capture disables hipGraph for good, and the program runs eagerly.
CaptureFails(t) == LET k == call[t].key IN
  /\ "capture" \in MayFail
  /\ hipGraph /\ ~CanReplay(k)
  /\ hipGraph' = FALSE
  /\ graphs' = [l \in DOMAIN graphs \ {k} |-> graphs[l]]
  /\ Launched(t, program.key, program.compiled)

RunEagerly(t) ==
  /\ ~hipGraph
  /\ Launched(t, program.key, program.compiled)
  /\ UNCHANGED <<hipGraph, graphs>>

Launch(t) ==
  /\ call[t].pc = "staged"
  /\ BindScratch(call[t].key, call[t].need)
  /\ Replay(t) \/ Capture(t) \/ CaptureFails(t) \/ RunEagerly(t)
  /\ UNCHANGED <<hasShapes, options, program, cached, compiles, failed>>

\* Without staging the program runs on the tensors of the call, under the lock.
LaunchDirect(t) ==
  /\ call[t].pc = "prepared" /\ ~UsesStaging
  /\ call' = [call EXCEPT ![t] = [pc |-> "launched", batch |-> @.batch, key |-> @.key,
       params |-> @.params, ran |-> program.key, usable |-> program.compiled,
       staged |-> FALSE]]
  /\ UNCHANGED <<hipGraph, hasShapes, options, program, cached, staging, scratch,
                 graphs, compiles, failed>>

\* CopyStagingOutputsToOrt, sliced to the requested batch, and synchronize.
Finish(t) ==
  /\ call[t].pc = "launched"
  /\ call' = [call EXCEPT ![t] = Idle]
  /\ UNCHANGED <<hipGraph, hasShapes, options, program, cached, staging, scratch,
                 graphs, compiles, failed>>

Next ==
  /\ \E t \in Threads : Prepare(t) \/ Stage(t) \/ Launch(t) \/ LaunchDirect(t) \/ Finish(t)
  /\ UNCHANGED setup

Spec == Init /\ [][Next]_vars

-----------------------------------------------------------------------------
(* Properties *)

InStaging(t) == call[t].pc = "staged" \/ (call[t].pc = "launched" /\ call[t].staged)

\* What a call runs, eagerly or as a captured graph, was compiled for the
\* effective shapes of that call, from start to end; and a graph is replayed
\* only while its program, its scratch and its staging buffers exist.
RunsOwnProgram ==
  \A t \in Threads : call[t].pc = "launched" => call[t].usable /\ call[t].ran = call[t].key

\* The same as long as no parse, compilation or save has failed: the state that
\* a failure leaves behind can be run by a later call (NodeComputeInfo::Compute
\* assigns has_input_shapes, the options and cs.program before it may throw).
RunsOwnUntilFailure == ~failed => RunsOwnProgram

\* One set of staging buffers serves every program: the rows padded up to the
\* bucket, and the inputs that are not batched, fit in what was allocated for
\* the first bucket.
StagingFits ==
  \A t \in Threads : InStaging(t) =>
    /\ call[t].params.rows <= staging.rows
    /\ call[t].params.extent <= staging.extent

\* A call runs a program with at least the rows requested (without buckets, as
\* long as no parse has failed) and, with buckets, the smallest bucket that has
\* them; a batch within the maximum always has a bucket, so the programs compiled
\* for such batches are a bounded set.
ServesBatch ==
  \A t \in Threads : call[t].pc # "idle" =>
    LET b == call[t].batch  rows == call[t].params.rows IN
      /\ Dynamic \/ ~failed => b <= rows
      /\ Dynamic => \A s \in CompiledBatchSizes : s < rows => s < b
      /\ Dynamic /\ b <= MaxBatch => rows \in CompiledBatchSizes

\* "Reuse a previously compiled bucket program ... and avoid recompilation when
\* batch sizes alternate between buckets": with buckets, no key is compiled
\* twice unless a failure kept its program out of the cache.
CompiledOnce == Dynamic /\ ~failed => \A k \in Keys : compiles[k] <= 1

\* Between the staging of a call's inputs and the copy of its outputs the shared
\* staging buffers hold this call's data.
StagedDataIntact ==
  \A t \in Threads : InStaging(t) =>
    /\ call[t].pc = "staged" => staging.input = {t}
    /\ call[t].pc = "launched" => staging.output = {t}
=============================================================================
