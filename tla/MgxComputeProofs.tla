--------------------------- MODULE MgxComputeProofs ---------------------------
(***************************************************************************)
(* Proofs about MgxCompute: which program a call runs, how often programs  *)
(* are compiled, and that one set of staging buffers serves all buckets.   *)
(***************************************************************************)
EXTENDS MgxCompute, NaturalsInduction, WellFoundedInduction, TLAPS

-----------------------------------------------------------------------------
(* The invariant of the programs, for any threads *)

\* With buckets, only the batch varies.
OneExtent == Dynamic => \A d, e \in Extents : d = e

\* Programs and options name shapes of requests.
ShapesInv ==
  /\ setup \in Setups /\ failed \in BOOLEAN /\ hipGraph \in BOOLEAN
  /\ hasShapes \in BOOLEAN /\ (hasShapes => options \in Keys)
  /\ program # NoProgram => hasShapes /\ program.key \in Keys
  /\ DOMAIN cached \subseteq Keys
  /\ \A k \in DOMAIN cached : cached[k] # NoProgram /\ cached[k].key \in Keys
                             /\ (Dynamic /\ OneExtent => cached[k].key = k)
  /\ DOMAIN compiles = Keys /\ DOMAIN call = Threads

\* Without failures the options describe the current program, it is compiled, and
\* with buckets it is the one cached for its key, which was compiled once.
ProgramsInv == ~failed =>
  /\ hasShapes => program # NoProgram /\ options = program.key /\ program.compiled
  /\ \A k \in DOMAIN cached : cached[k].key = k /\ cached[k].compiled
  /\ Dynamic => /\ program # NoProgram =>
                     program.key \in DOMAIN cached /\ cached[program.key] = program
                /\ \A k \in Keys : compiles[k] = IF k \in DOMAIN cached THEN 1 ELSE 0

\* A call runs a program for its own key, unless a failure left stale extents.
ServeInv == \A t \in Threads : call[t].pc # "idle" =>
  /\ call[t].batch \in Batches
  /\ \E e \in Extents : call[t].key = KeyOf(call[t].batch, e)
  /\ call[t].params \in Keys
  /\ ~failed \/ (Dynamic /\ OneExtent) => call[t].params = call[t].key

BaseInv == ShapesInv /\ ProgramsInv /\ ServeInv

-----------------------------------------------------------------------------
(* The invariant of one thread's call *)

\* A graph refers to the program of its key, which is cached or the current one.
GraphInv == ~failed /\ hipGraph =>
  \A k \in DOMAIN graphs :
    /\ graphs[k].key = k /\ graphs[k].staged
    /\ IF Dynamic THEN k \in DOMAIN cached /\ graphs[k].id = cached[k].id
       ELSE program # NoProgram /\ graphs[k].id = program.id

\* The call's program is the current one until it has run.
CallInv(t) ==
  /\ "pc" \in DOMAIN call[t] /\ call[t].pc \in {"idle", "prepared", "staged", "launched"}
  /\ call[t].pc = "idle" => call[t] = Idle
  /\ call[t].pc \in {"prepared", "staged"} => program # NoProgram /\ call[t].params = program.key
  /\ call[t].pc = "launched" /\ ~failed => call[t].usable /\ call[t].ran = call[t].key

RunInv(t) == GraphInv /\ CallInv(t)

\* The maximum is at least every bucket in use, and only the batch varies.
OptionsFit == OneExtent /\ (Dynamic => \A b \in Batches : TargetBatch(b) <= MaxBatch)

\* The staging buffers have the rows of the largest bucket, or those of the program.
StagingInv(t) ==
  /\ {"rows", "extent"} \subseteq DOMAIN staging /\ staging.rows \in Nat
  /\ Allocated /\ Dynamic => MaxBatch <= staging.rows /\ staging.extent \in Extents
  /\ Allocated /\ ~Dynamic /\ hipGraph =>
       /\ program # NoProgram
       /\ staging.rows = program.key.rows /\ staging.extent = program.key.extent
  /\ InStaging(t) => call[t].params.rows <= staging.rows /\ call[t].params.extent <= staging.extent

-----------------------------------------------------------------------------
(* Keys *)

\* What is derived from the session's options does not change.
LEMMA SetupKept ==
  ASSUME setup' = setup
  PROVE  /\ Keys' = Keys /\ Dynamic' = Dynamic /\ MaxBatch' = MaxBatch
         /\ Batches' = Batches /\ Extents' = Extents /\ OneExtent' = OneExtent
         /\ \A b, e : KeyOf(b, e)' = KeyOf(b, e)
         /\ \A b : TargetBatch(b)' = TargetBatch(b)
         /\ CompiledBatchSizes' = CompiledBatchSizes /\ OptionsFit' = OptionsFit
<1>1. /\ Batches' = Batches /\ Extents' = Extents /\ MaxBatch' = MaxBatch
      /\ CompileBatches' = CompileBatches
  BY DEF Batches, Extents, MaxBatch, CompileBatches, MaxDynamicBatch
<1>2. Dynamic' = Dynamic /\ CompiledBatchSizes' = CompiledBatchSizes
  BY <1>1 DEF Dynamic, CompiledBatchSizes
<1>3. \A b : TargetBatch(b)' = TargetBatch(b)
  BY <1>2 DEF TargetBatch
<1>4. \A b, e : KeyOf(b, e)' = KeyOf(b, e)
  BY <1>2, <1>3 DEF KeyOf
<1>5. Keys' = Keys
  BY <1>1, <1>4 DEF Keys
<1>6. OneExtent' = OneExtent /\ OptionsFit' = OptionsFit
  BY <1>1, <1>2, <1>3 DEF OneExtent, OptionsFit
<1> QED
  BY <1>1, <1>2, <1>3, <1>4, <1>5, <1>6

\* A key is made of the rows of one and the extent of another.
LEMMA KeyMix ==
  ASSUME NEW k \in Keys, NEW l \in Keys
  PROVE  [rows |-> k.rows, extent |-> l.extent] \in Keys
<1>1. PICK b \in Batches, e \in Extents : k = KeyOf(b, e)
  BY DEF Keys
<1>2. PICK c \in Batches, d \in Extents : l = KeyOf(c, d)
  BY DEF Keys
<1>3. [rows |-> k.rows, extent |-> l.extent] = KeyOf(b, d)
  BY <1>1, <1>2 DEF KeyOf
<1> QED
  BY <1>3 DEF Keys

\* Keys are records of two fields.
LEMMA KeyFields ==
  ASSUME NEW k \in Keys
  PROVE  k = [rows |-> k.rows, extent |-> k.extent] /\ k.extent \in Extents
<1>1. PICK b \in Batches, e \in Extents : k = KeyOf(b, e)
  BY DEF Keys
<1> QED
  BY <1>1 DEF KeyOf

\* The options name the call's extents; after a failure some may be stale, unless
\* only the batch varies.
LEMMA OptionsSet ==
  ASSUME ShapesInv, ProgramsInv, NEW k \in Keys, Mismatch(k), SetInputShapes(k)
  PROVE  /\ hasShapes' = TRUE /\ options' \in Keys
         /\ ~failed \/ (Dynamic /\ OneExtent) => options' = k
<1> DEFINE new(c) == IF ~hasShapes \/ program.key[c] # k[c] THEN k[c] ELSE options[c]
<1>1. hasShapes' = TRUE /\ options' = [c \in {"rows", "extent"} |-> new(c)]
  BY DEF SetInputShapes
<1>2. options' = [rows |-> new("rows"), extent |-> new("extent")]
  BY <1>1
<1>3. CASE ~hasShapes
  <2>1. options' = [rows |-> k.rows, extent |-> k.extent]
    BY <1>2, <1>3
  <2> QED
    BY <1>1, <2>1, KeyFields
<1>4. CASE hasShapes
  <2>1. /\ program # NoProgram /\ program.key \in Keys /\ program.key # k /\ options \in Keys
    BY <1>4 DEF Mismatch, ShapesInv
  <2>2. /\ new("rows") = IF program.key.rows # k.rows THEN k.rows ELSE options.rows
        /\ new("extent") = IF program.key.extent # k.extent THEN k.extent ELSE options.extent
    BY <1>4
  <2> HIDE DEF new
  <2>3. options' \in Keys
    BY <1>2, <2>1, <2>2, KeyMix
  <2>4. ASSUME ~failed PROVE options' = k
    <3>1. options = program.key
      BY <1>4, <2>4 DEF ProgramsInv
    <3>2. new("rows") = k.rows /\ new("extent") = k.extent
      BY <2>2, <3>1
    <3> QED
      BY <1>2, <3>2, KeyFields
  <2>5. ASSUME Dynamic, OneExtent PROVE options' = k
    <3>1. \A l \in Keys : l.extent = k.extent
      BY <2>5, KeyFields DEF OneExtent
    <3>2. program.key.rows # k.rows
      BY <2>1, <3>1, KeyFields
    <3>3. new("rows") = k.rows /\ new("extent") = k.extent
      BY <2>1, <2>2, <3>1, <3>2
    <3> QED
      BY <1>2, <3>3, KeyFields
  <2> QED
    BY <1>1, <2>3, <2>4, <2>5
<1> QED
  BY <1>3, <1>4

-----------------------------------------------------------------------------
(* The programs, step by step *)

\* The shapes of a request.
Request(b, k) == b \in Batches /\ \E e \in Extents : k = KeyOf(b, e)

LEMMA RequestKey == ASSUME NEW b, NEW k, Request(b, k) PROVE k \in Keys
  BY DEF Request, Keys

\* A program parsed for a key has an identity and the shapes of the options.
LEMMA ParsedProgram ==
  ASSUME NEW c, Parsed(c)
  PROVE  program' # NoProgram /\ program'.key = options' /\ program'.compiled = c
<1>1. PICK n \in 0 .. MaxScratch :
        program' = [id |-> NewId, key |-> options', compiled |-> c, need |-> n]
  BY DEF Parsed
<1>2. DOMAIN program' = {"id", "key", "compiled", "need"} /\ DOMAIN NoProgram = {"id"}
  BY <1>1 DEF NoProgram
<1>3. program' # NoProgram
  BY <1>2
<1> QED
  BY <1>1, <1>3

\* A call is prepared for a program of its key.
LEMMA ServePrepared ==
  ASSUME ServeInv, DOMAIN call = Threads, NEW t \in Threads, NEW b, NEW k, NEW p,
         call' = [call EXCEPT ![t] = Prepared(b, k, p)], setup' = setup, failed' = failed,
         Request(b, k), p.key \in Keys, ~failed \/ (Dynamic /\ OneExtent) => p.key = k
  PROVE  ServeInv' /\ DOMAIN call' = Threads
<1>1. DOMAIN call' = Threads /\ \A o \in Threads : call'[o] = IF o = t THEN Prepared(b, k, p) ELSE call[o]
  OBVIOUS
<1>2. /\ Prepared(b, k, p).batch = b /\ Prepared(b, k, p).key = k
      /\ Prepared(b, k, p).params = p.key
  BY DEF Prepared
<1>3. ASSUME NEW o \in Threads, call'[o].pc # "idle"
      PROVE  /\ call'[o].batch \in Batches
             /\ \E e \in Extents : call'[o].key = KeyOf(call'[o].batch, e)
             /\ call'[o].params \in Keys
             /\ ~failed \/ (Dynamic /\ OneExtent) => call'[o].params = call'[o].key
  <2>1. CASE o = t
    BY <1>1, <1>2, <2>1 DEF Request
  <2>2. CASE o # t
    BY <1>1, <1>3, <2>2 DEF ServeInv
  <2> QED
    BY <2>1, <2>2
<1> QED
  BY <1>1, <1>3, SetupKept DEF ServeInv

\* The current program has the shapes asked for.
LEMMA MatchStep ==
  ASSUME BaseInv, setup' = setup, NEW t \in Threads, NEW b, NEW k, Request(b, k), Match(t, b, k)
  PROVE  BaseInv'
<1>1. /\ hasShapes' = hasShapes /\ options' = options /\ program' = program /\ cached' = cached
      /\ compiles' = compiles /\ failed' = failed /\ hipGraph' = hipGraph
      /\ program.key = k /\ call' = [call EXCEPT ![t] = Prepared(b, k, program)]
  BY DEF Match
<1>2. ServeInv' /\ DOMAIN call' = Threads
  BY <1>1, ServePrepared, RequestKey DEF BaseInv, ShapesInv
<1>3. ShapesInv'
  BY <1>1, <1>2, SetupKept DEF BaseInv, ShapesInv
<1>4. ProgramsInv'
  BY <1>1, SetupKept DEF BaseInv, ProgramsInv
<1> QED
  BY <1>2, <1>3, <1>4 DEF BaseInv

\* A bucket's program is taken from the cache.
LEMMA ReuseStep ==
  ASSUME BaseInv, setup' = setup, NEW t \in Threads, NEW b, NEW k, Request(b, k), ReuseProgram(t, b, k)
  PROVE  BaseInv'
<1>1. /\ cached' = cached /\ compiles' = compiles /\ failed' = failed /\ hipGraph' = hipGraph
      /\ Dynamic /\ k \in DOMAIN cached /\ program' = cached[k]
      /\ call' = [call EXCEPT ![t] = Prepared(b, k, cached[k])]
  BY DEF ReuseProgram
<1>2. hasShapes' = TRUE /\ options' \in Keys /\ (~failed \/ (Dynamic /\ OneExtent) => options' = k)
  BY OptionsSet, RequestKey DEF ReuseProgram, BaseInv
<1>3. cached[k] # NoProgram /\ cached[k].key \in Keys
  BY <1>1 DEF BaseInv, ShapesInv
<1>4. ~failed => cached[k].key = k /\ cached[k].compiled
  BY <1>1 DEF BaseInv, ProgramsInv
<1>5. Dynamic /\ OneExtent => cached[k].key = k
  BY <1>1 DEF BaseInv, ShapesInv
<1>6. ServeInv' /\ DOMAIN call' = Threads
  BY <1>1, <1>3, <1>4, <1>5, ServePrepared DEF BaseInv, ShapesInv
<1>7. ShapesInv'
  BY <1>1, <1>2, <1>3, <1>6, SetupKept DEF BaseInv, ShapesInv
<1>8. ProgramsInv'
  BY <1>1, <1>2, <1>3, <1>4, SetupKept DEF BaseInv, ProgramsInv
<1> QED
  BY <1>6, <1>7, <1>8 DEF BaseInv

\* A program is compiled and, with buckets, kept.
LEMMA CompileStep ==
  ASSUME BaseInv, setup' = setup, NEW t \in Threads, NEW b, NEW k, Request(b, k),
         CompileProgram(t, b, k)
  PROVE  BaseInv'
<1>1. /\ Mismatch(k) /\ SetInputShapes(k) /\ ~(Dynamic /\ k \in DOMAIN cached)
      /\ Parsed(TRUE) /\ CountCompile(k) /\ KeepCopy(k)
      /\ call' = [call EXCEPT ![t] = Prepared(b, k, program')]
      /\ failed' = failed /\ hipGraph' = hipGraph
  BY DEF CompileProgram, BeginCompile
<1>2. hasShapes' = TRUE /\ options' \in Keys /\ (~failed \/ (Dynamic /\ OneExtent) => options' = k)
  BY <1>1, OptionsSet, RequestKey DEF BaseInv
<1>3. program' # NoProgram /\ program'.key = options' /\ program'.compiled
  BY <1>1, ParsedProgram
<1>4. k \in Keys
  BY RequestKey
<1>5. ServeInv' /\ DOMAIN call' = Threads
  BY <1>1, <1>2, <1>3, ServePrepared DEF BaseInv, ShapesInv
<1>6. /\ Dynamic => /\ DOMAIN cached' = DOMAIN cached \cup {k}
                    /\ \A l \in DOMAIN cached' : cached'[l] = IF l = k THEN program' ELSE cached[l]
      /\ ~Dynamic => cached' = cached
  BY <1>1 DEF KeepCopy
<1>7. /\ DOMAIN compiles' = Keys
      /\ \A l \in Keys : compiles'[l] = IF l = k THEN Min({2, compiles[k] + 1}) ELSE compiles[l]
  BY <1>1, <1>4 DEF CountCompile, BaseInv, ShapesInv
<1>8. ShapesInv'
  BY <1>1, <1>2, <1>3, <1>4, <1>5, <1>6, <1>7, SetupKept DEF BaseInv, ShapesInv
<1>9. ProgramsInv'
  <2> SUFFICES ASSUME ~failed PROVE ProgramsInv'
    BY <1>1 DEF ProgramsInv
  <2>1. options' = program'.key /\ options' = k
    BY <1>2, <1>3
  <2>2. \A l \in DOMAIN cached' : cached'[l].key = l /\ cached'[l].compiled
    <3>1. \A l \in DOMAIN cached : cached[l].key = l /\ cached[l].compiled
      BY DEF BaseInv, ProgramsInv
    <3> QED
      BY <1>3, <1>6, <2>1, <3>1
  <2>3. ASSUME Dynamic
        PROVE  /\ program'.key \in DOMAIN cached' /\ cached'[program'.key] = program'
               /\ \A l \in Keys : compiles'[l] = IF l \in DOMAIN cached' THEN 1 ELSE 0
    <3>1. k \notin DOMAIN cached /\ compiles[k] = 0
      BY <1>1, <1>4, <2>3 DEF BaseInv, ProgramsInv
    <3>2. Min({2, compiles[k] + 1}) = 1
      <4>1. {2, compiles[k] + 1} = {1, 2}
        BY <3>1
      <4>2. \A x : (x \in {1, 2} /\ \A y \in {1, 2} : x <= y) <=> x = 1
        OBVIOUS
      <4>3. Min({1, 2}) = CHOOSE x \in {1, 2} : \A y \in {1, 2} : x <= y
        BY DEF Min
      <4> QED
        BY <4>1, <4>2, <4>3
    <3>3. \A l \in Keys : compiles[l] = IF l \in DOMAIN cached THEN 1 ELSE 0
      BY <2>3 DEF BaseInv, ProgramsInv
    <3> QED
      BY <1>4, <1>6, <1>7, <2>1, <2>3, <3>2, <3>3
  <2> QED
    BY <1>3, <2>1, <2>2, <2>3, SetupKept DEF ProgramsInv
<1> QED
  BY <1>5, <1>8, <1>9 DEF BaseInv

\* A preparation that fails changes no call.
LEMMA ServeKept ==
  ASSUME ServeInv, setup' = setup, call' = call, failed' \in BOOLEAN, failed => failed'
  PROVE  ServeInv'
  BY SetupKept DEF ServeInv

LEMMA ParseFailsStep ==
  ASSUME BaseInv, setup' = setup, NEW k \in Keys, ParseFails(k)
  PROVE  BaseInv'
<1>1. /\ Mismatch(k) /\ SetInputShapes(k) /\ failed' = TRUE /\ hipGraph' = hipGraph
      /\ program' = program /\ cached' = cached /\ compiles' = compiles /\ call' = call
  BY DEF ParseFails, BeginCompile
<1>2. hasShapes' = TRUE /\ options' \in Keys
  BY <1>1, OptionsSet DEF BaseInv
<1>3. ShapesInv'
  BY <1>1, <1>2, SetupKept DEF BaseInv, ShapesInv
<1> QED
  BY <1>1, <1>3, ServeKept DEF BaseInv, ProgramsInv

LEMMA CompileFailsStep ==
  ASSUME BaseInv, setup' = setup, NEW k \in Keys, CompileFails(k)
  PROVE  BaseInv'
<1>1. /\ Mismatch(k) /\ SetInputShapes(k) /\ failed' = TRUE /\ hipGraph' = hipGraph
      /\ Parsed(FALSE) /\ cached' = cached /\ compiles' = compiles /\ call' = call
  BY DEF CompileFails, BeginCompile
<1>2. hasShapes' = TRUE /\ options' \in Keys
  BY <1>1, OptionsSet DEF BaseInv
<1>3. program' # NoProgram /\ program'.key = options'
  BY <1>1, ParsedProgram
<1>4. ShapesInv'
  BY <1>1, <1>2, <1>3, SetupKept DEF BaseInv, ShapesInv
<1> QED
  BY <1>1, <1>4, ServeKept DEF BaseInv, ProgramsInv

LEMMA SaveFailsStep ==
  ASSUME BaseInv, setup' = setup, NEW k \in Keys, SaveFails(k)
  PROVE  BaseInv'
<1>1. /\ Mismatch(k) /\ SetInputShapes(k) /\ failed' = TRUE /\ hipGraph' = hipGraph
      /\ Parsed(TRUE) /\ CountCompile(k) /\ cached' = cached /\ call' = call
  BY DEF SaveFails, BeginCompile
<1>2. hasShapes' = TRUE /\ options' \in Keys
  BY <1>1, OptionsSet DEF BaseInv
<1>3. program' # NoProgram /\ program'.key = options'
  BY <1>1, ParsedProgram
<1>4. DOMAIN compiles' = Keys
  BY <1>1 DEF CountCompile, BaseInv, ShapesInv
<1>5. ShapesInv'
  BY <1>1, <1>2, <1>3, <1>4, SetupKept DEF BaseInv, ShapesInv
<1> QED
  BY <1>1, <1>5, ServeKept DEF BaseInv, ProgramsInv

\* The other steps of a call run the program it was prepared for, and keep it.
LEMMA RunStep ==
  ASSUME BaseInv, setup' = setup, NEW t \in Threads,
         Stage(t) \/ Launch(t) \/ LaunchDirect(t) \/ Finish(t)
  PROVE  BaseInv'
<1>1. /\ hasShapes' = hasShapes /\ options' = options /\ program' = program /\ cached' = cached
      /\ compiles' = compiles /\ failed' = failed
  BY DEF Stage, Launch, LaunchDirect, Finish
<1>2. hipGraph' \in BOOLEAN
  BY DEF Stage, Launch, LaunchDirect, Finish, Replay, Capture, CaptureFails, RunEagerly,
         BaseInv, ShapesInv
<1>3. /\ DOMAIN call' = Threads /\ \A o \in Threads : o # t => call'[o] = call[o]
      /\ call'[t].pc # "idle" => /\ call[t].pc # "idle"
                                 /\ call'[t].batch = call[t].batch /\ call'[t].key = call[t].key
                                 /\ call'[t].params = call[t].params
  <2>1. DOMAIN call = Threads
    BY DEF BaseInv, ShapesInv
  <2>2. CASE Stage(t)
    <3>1. call' = [call EXCEPT ![t].pc = "staged"] /\ call[t].pc = "prepared"
      BY <2>2 DEF Stage
    <3> QED
      BY <2>1, <3>1
  <2>3. CASE Launch(t)
    <3>1. PICK key, usable : Launched(t, key, usable) /\ call[t].pc = "staged"
      BY <2>3 DEF Launch, Replay, Capture, CaptureFails, RunEagerly
    <3> QED
      BY <2>1, <3>1 DEF Launched
  <2>4. CASE LaunchDirect(t)
    BY <2>1, <2>4 DEF LaunchDirect
  <2>5. CASE Finish(t)
    BY <2>1, <2>5 DEF Finish, Idle
  <2> QED
    BY <2>2, <2>3, <2>4, <2>5
<1>4. ServeInv'
  <2>1. ServeInv
    BY DEF BaseInv
  <2>2. ASSUME NEW o \in Threads, call'[o].pc # "idle"
        PROVE  /\ call[o].pc # "idle" /\ call'[o].batch = call[o].batch
               /\ call'[o].key = call[o].key /\ call'[o].params = call[o].params
    BY <1>3, <2>2
  <2> QED
    BY <1>1, <2>1, <2>2, SetupKept DEF ServeInv
<1>5. ShapesInv'
  BY <1>1, <1>2, <1>3, SetupKept DEF BaseInv, ShapesInv
<1>6. ProgramsInv'
  BY <1>1, SetupKept DEF BaseInv, ProgramsInv
<1> QED
  BY <1>4, <1>5, <1>6 DEF BaseInv

LEMMA BaseInit == Init => BaseInv
<1> SUFFICES ASSUME Init PROVE BaseInv
  OBVIOUS
<1>1. HipGraph \in BOOLEAN
  BY HipGraphAssumption
<1> QED
  BY <1>1 DEF Init, BaseInv, ShapesInv, ProgramsInv, ServeInv, EmptyMap, Idle

LEMMA BaseNext == BaseInv /\ [Next]_vars => BaseInv'
<1> SUFFICES ASSUME BaseInv, [Next]_vars PROVE BaseInv'
  OBVIOUS
<1>1. setup' = setup
  BY DEF Next, vars
<1>2. CASE UNCHANGED vars
  BY <1>2, SetupKept DEF vars, BaseInv, ShapesInv, ProgramsInv, ServeInv
<1>3. ASSUME NEW t \in Threads, Prepare(t) PROVE BaseInv'
  <2>1. PICK b \in Batches, e \in Extents :
          LET k == KeyOf(b, e)
          IN \/ Match(t, b, k) \/ ReuseProgram(t, b, k) \/ CompileProgram(t, b, k)
             \/ ParseFails(k) \/ CompileFails(k) \/ SaveFails(k)
    BY <1>3 DEF Prepare
  <2> DEFINE k == KeyOf(b, e)
  <2>2. Request(b, k) /\ k \in Keys
    BY DEF Request, Keys
  <2> HIDE DEF k
  <2> QED
    BY <1>1, <2>1, <2>2, MatchStep, ReuseStep, CompileStep, ParseFailsStep, CompileFailsStep,
       SaveFailsStep DEF k
<1> QED
  BY <1>1, <1>2, <1>3, RunStep DEF Next

LEMMA BaseInvariant == Spec => []BaseInv
  BY BaseInit, BaseNext, PTL DEF Spec

-----------------------------------------------------------------------------
(* Compilations *)

\* NodeComputeInfo::Compute keeps the program of every bucket: as long as nothing
\* has failed, no bucket is compiled twice.
THEOREM CompiledOnceTheorem == Spec => []CompiledOnce
<1>1. BaseInv => CompiledOnce
  BY DEF BaseInv, ProgramsInv, CompiledOnce
<1> QED
  BY <1>1, BaseInvariant, PTL

-----------------------------------------------------------------------------
(* Buckets *)

\* A set of numbers has a least one.
LEMMA LeastNumber ==
  ASSUME NEW S \in SUBSET Nat, S # {}
  PROVE  Min(S) \in S /\ \A m \in S : Min(S) <= m
<1>1. PICK n \in S : \A m \in S : ~(<<m, n>> \in OpToRel(<, Nat))
  BY NatLessThanWellFounded, WFMin
<1>2. \A m \in S : ~(m < n)
  BY <1>1 DEF OpToRel
<1>3. \E k \in S : \A m \in S : k <= m
  BY <1>2
<1> QED
  BY <1>3 DEF Min

\* The larger of two numbers.
LEMMA LargerOf ==
  ASSUME NEW a \in Nat, NEW b \in Nat
  PROVE  /\ Max({a, b}) \in Nat /\ Max({a, b}) >= a /\ Max({a, b}) >= b
         /\ Max({a, b}) \in {a, b}
<1>1. \E x \in {a, b} : \A y \in {a, b} : x >= y
  OBVIOUS
<1>2. Max({a, b}) \in {a, b} /\ \A y \in {a, b} : Max({a, b}) >= y
  BY <1>1 DEF Max
<1> QED
  BY <1>2

\* The maximum is an explicit bucket or the option.
LEMMA MaximumIsNumber ==
  ASSUME setup \in Setups
  PROVE  /\ MaxBatch \in Nat /\ MaxBatch \in CompileBatches \cup {MaxDynamicBatch}
         /\ \A r \in CompileBatches \cup {MaxDynamicBatch} : r <= MaxBatch
<1> DEFINE sizes == CompileBatches \cup {MaxDynamicBatch}
<1>1. sizes \subseteq Nat
  BY InputsAssumption DEF CompileBatches, MaxDynamicBatch
<1>2. \E m \in sizes : \A r \in sizes : r <= m
  BY MaximumAssumption DEF CompileBatches, MaxDynamicBatch
<1>3. \E m \in sizes : \A r \in sizes : m >= r
  BY <1>1, <1>2
<1> HIDE DEF sizes
<1>4. Max(sizes) \in sizes /\ \A r \in sizes : Max(sizes) >= r
  BY <1>3 DEF Max
<1> QED
  BY <1>1, <1>4 DEF MaxBatch, sizes

\* An explicit list serves the option max_dynamic_batch.
ListServesMaximum ==
  CompileBatches # {} => \E s \in CompileBatches : MaxDynamicBatch <= s

\* Buckets are numbers, and one serves the maximum.
LEMMA BucketsServe ==
  ASSUME setup \in Setups, Dynamic
  PROVE  /\ CompiledBatchSizes \subseteq Nat
         /\ ListServesMaximum => \E s \in CompiledBatchSizes : MaxBatch <= s
<1>1. CASE CompileBatches # {}
  <2>1. CompiledBatchSizes = CompileBatches /\ CompileBatches \subseteq Nat /\ MaxDynamicBatch \in Nat
    BY <1>1, InputsAssumption DEF CompiledBatchSizes, CompileBatches, MaxDynamicBatch
  <2>2. CASE MaxBatch \in CompileBatches
    BY <2>1, <2>2, MaximumIsNumber
  <2>3. CASE MaxBatch = MaxDynamicBatch
    BY <1>1, <2>1, <2>3 DEF ListServesMaximum
  <2> QED
    BY <2>1, <2>2, <2>3, MaximumIsNumber
<1>2. CASE CompileBatches = {}
  <2>1. MaxBatch = MaxDynamicBatch
    BY <1>2, MaximumIsNumber
  <2>2. CompiledBatchSizes = PowerOfTwoBatchSizes(MaxDynamicBatch) /\ MaxDynamicBatch > 0
    BY <1>2, <2>1 DEF CompiledBatchSizes, Dynamic
  <2>3. \A k \in 0 .. MaxDynamicBatch : 2 ^ k \in Nat
    BY PowersAssumption DEF MaxDynamicBatch
  <2>4. \E k \in 0 .. MaxDynamicBatch : (k = 0 \/ 2 ^ (k - 1) < MaxDynamicBatch)
                                        /\ MaxDynamicBatch <= 2 ^ k
    BY <2>2, PowersAssumption DEF MaxDynamicBatch
  <2> QED
    BY <2>1, <2>2, <2>3, <2>4 DEF PowerOfTwoBatchSizes
<1> QED
  BY <1>1, <1>2

\* FindNearestCompiledBatchSize: the smallest bucket with the rows requested.
LEMMA NearestBucket ==
  ASSUME setup \in Setups, Dynamic, NEW b \in Nat
  PROVE  /\ TargetBatch(b) \in Nat /\ b <= TargetBatch(b)
         /\ \A s \in CompiledBatchSizes : s < TargetBatch(b) => s < b
         /\ ListServesMaximum /\ b <= MaxBatch => TargetBatch(b) \in CompiledBatchSizes
<1> DEFINE serving == {s \in CompiledBatchSizes : s >= b}
<1>1. CompiledBatchSizes \subseteq Nat
  BY BucketsServe
<1>2. TargetBatch(b) = IF serving = {} THEN b ELSE Min(serving)
  BY DEF TargetBatch
<1>3. CASE serving = {}
  <2>1. TargetBatch(b) = b
    BY <1>2, <1>3
  <2>2. ASSUME ListServesMaximum, b <= MaxBatch PROVE FALSE
    <3>1. PICK s \in CompiledBatchSizes : MaxBatch <= s
      BY <2>2, BucketsServe
    <3>2. s >= b
      BY <1>1, <2>2, <3>1, MaximumIsNumber
    <3> QED
      BY <1>3, <3>2
  <2> QED
    BY <2>1, <2>2
<1>4. CASE serving # {}
  <2>1. serving \in SUBSET Nat
    BY <1>1
  <2>2. TargetBatch(b) = Min(serving)
    BY <1>2, <1>4
  <2> HIDE DEF serving
  <2>3. TargetBatch(b) \in serving /\ \A m \in serving : TargetBatch(b) <= m
    BY <1>4, <2>1, <2>2, LeastNumber
  <2> QED
    BY <1>1, <2>1, <2>3 DEF serving
<1> QED
  BY <1>3, <1>4

\* The session's options: with buckets only the batch varies, and an explicit
\* list serves the maximum.
ServesHypothesis == OneExtent /\ (Dynamic => ListServesMaximum)

\* FindNearestCompiledBatchSize and NodeComputeInfo::Compute: every call runs the
\* smallest bucket that has its rows.
THEOREM ServesBatchTheorem == Spec /\ ServesHypothesis => []ServesBatch
<1>1. BaseInv /\ ServesHypothesis => ServesBatch
  <2> SUFFICES ASSUME BaseInv, ServesHypothesis, NEW t \in Threads, call[t].pc # "idle"
               PROVE  LET b == call[t].batch  rows == call[t].params.rows IN
                        /\ Dynamic \/ ~failed => b <= rows
                        /\ Dynamic => \A s \in CompiledBatchSizes : s < rows => s < b
                        /\ Dynamic /\ b <= MaxBatch => rows \in CompiledBatchSizes
    BY DEF ServesBatch
  <2>1. setup \in Setups
    BY DEF BaseInv, ShapesInv
  <2>2. call[t].batch \in Nat
    BY <2>1, InputsAssumption DEF BaseInv, ServeInv, Batches
  <2>3. PICK e \in Extents : call[t].key = KeyOf(call[t].batch, e)
    BY DEF BaseInv, ServeInv
  <2>4. ~failed \/ Dynamic => call[t].params = call[t].key
    BY DEF BaseInv, ServeInv, ServesHypothesis
  <2>5. ~failed \/ Dynamic =>
          call[t].params.rows = IF Dynamic THEN TargetBatch(call[t].batch) ELSE call[t].batch
    BY <2>3, <2>4 DEF KeyOf
  <2>6. CASE Dynamic
    BY <2>1, <2>2, <2>5, <2>6, NearestBucket DEF ServesHypothesis
  <2>7. CASE ~Dynamic
    BY <2>2, <2>5, <2>7
  <2> QED
    BY <2>6, <2>7
<1>2. ServesHypothesis /\ [Next]_vars => ServesHypothesis'
  <2> SUFFICES ASSUME ServesHypothesis, [Next]_vars PROVE ServesHypothesis'
    OBVIOUS
  <2>1. setup' = setup
    BY DEF Next, vars
  <2>2. ListServesMaximum' = ListServesMaximum
    BY <2>1 DEF ListServesMaximum, CompileBatches, MaxDynamicBatch
  <2> QED
    BY <2>1, <2>2, SetupKept DEF ServesHypothesis
<1> QED
  BY <1>1, <1>2, BaseInvariant, PTL DEF Spec

-----------------------------------------------------------------------------
(* What one thread runs *)

\* The call of a thread after each of its steps.
LEMMA CallSteps ==
  ASSUME NEW t \in Threads, DOMAIN call = Threads, "pc" \in DOMAIN call[t]
  PROVE  /\ \A b, k, p : call' = [call EXCEPT ![t] = Prepared(b, k, p)] =>
              call'[t] = Prepared(b, k, p)
         /\ Stage(t) => /\ DOMAIN call'[t] = DOMAIN call[t] /\ call'[t].pc = "staged"
                        /\ call'[t].params = call[t].params
         /\ LaunchDirect(t) =>
              call'[t] = [pc |-> "launched", batch |-> call[t].batch, key |-> call[t].key,
                          params |-> call[t].params, ran |-> program.key,
                          usable |-> program.compiled, staged |-> FALSE]
         /\ Finish(t) => call'[t] = Idle
<1>1. Stage(t) => /\ DOMAIN call'[t] = DOMAIN call[t] /\ call'[t].pc = "staged"
                  /\ call'[t].params = call[t].params
  BY DEF Stage
<1>2. LaunchDirect(t) =>
        call'[t] = [pc |-> "launched", batch |-> call[t].batch, key |-> call[t].key,
                    params |-> call[t].params, ran |-> program.key,
                    usable |-> program.compiled, staged |-> FALSE]
  BY DEF LaunchDirect
<1>3. Finish(t) => call'[t] = Idle
  BY DEF Finish
<1> QED
  BY <1>1, <1>2, <1>3

\* A prepared call is about to run the current program.
LEMMA CallPrepared ==
  ASSUME NEW t, NEW b, NEW k, NEW p, call'[t] = Prepared(b, k, p), program' = p, p # NoProgram
  PROVE  CallInv(t)'
  BY DEF CallInv, Prepared

LEMMA RunPrepare ==
  ASSUME BaseInv, NEW t \in Threads, RunInv(t), setup' = setup, Prepare(t)
  PROVE  RunInv(t)'
<1> USE DEF RunInv
<1>1. PICK b \in Batches, e \in Extents :
        LET k == KeyOf(b, e)
        IN \/ Match(t, b, k) \/ ReuseProgram(t, b, k) \/ CompileProgram(t, b, k)
           \/ ParseFails(k) \/ CompileFails(k) \/ SaveFails(k)
  BY DEF Prepare
<1> DEFINE k == KeyOf(b, e)
<1>2. k \in Keys
  BY DEF Keys
<1> HIDE DEF k
<1>3. DOMAIN call = Threads /\ "pc" \in DOMAIN call[t] /\ call[t] = Idle /\ Dynamic' = Dynamic
  BY SetupKept DEF BaseInv, ShapesInv, CallInv, Prepare
<1>4. ASSUME Match(t, b, k) PROVE RunInv(t)'
  <2>1. /\ program' = program /\ cached' = cached /\ graphs' = graphs /\ failed' = failed
        /\ hipGraph' = hipGraph /\ program # NoProgram
        /\ call' = [call EXCEPT ![t] = Prepared(b, k, program)]
    BY <1>4 DEF Match
  <2>2. CallInv(t)'
    BY <1>3, <2>1, CallSteps, CallPrepared
  <2> QED
    BY <1>3, <2>1, <2>2 DEF GraphInv
<1>5. ASSUME ReuseProgram(t, b, k) PROVE RunInv(t)'
  <2>1. /\ program' = cached[k] /\ cached' = cached /\ graphs' = graphs /\ failed' = failed
        /\ hipGraph' = hipGraph /\ k \in DOMAIN cached /\ Dynamic
        /\ call' = [call EXCEPT ![t] = Prepared(b, k, cached[k])]
    BY <1>5 DEF ReuseProgram
  <2>2. cached[k] # NoProgram
    BY <2>1 DEF BaseInv, ShapesInv
  <2>3. CallInv(t)'
    BY <1>3, <2>1, <2>2, CallSteps, CallPrepared
  <2> QED
    BY <1>3, <2>1, <2>3 DEF GraphInv
<1>6. ASSUME CompileProgram(t, b, k) PROVE RunInv(t)'
  <2>1. /\ Parsed(TRUE) /\ KeepCopy(k) /\ failed' = failed /\ hipGraph' = hipGraph
        /\ ~(Dynamic /\ k \in DOMAIN cached) /\ Invalidate
        /\ call' = [call EXCEPT ![t] = Prepared(b, k, program')]
    BY <1>6 DEF CompileProgram, BeginCompile
  <2>2. program' # NoProgram
    BY <2>1, ParsedProgram
  <2>3. CallInv(t)'
    BY <1>3, <2>1, <2>2, CallSteps, CallPrepared
  <2>4. CASE Dynamic
    <3>1. /\ DOMAIN cached' = DOMAIN cached \cup {k} /\ k \notin DOMAIN cached /\ graphs' = graphs
          /\ \A l \in DOMAIN cached : cached'[l] = cached[l]
      BY <2>1, <2>4 DEF KeepCopy, Invalidate
    <3> QED
      BY <1>3, <2>1, <2>3, <2>4, <3>1 DEF GraphInv
  <2>5. CASE ~Dynamic
    <3>1. hipGraph => DOMAIN graphs' = {}
      BY <2>1, <2>5 DEF Invalidate, EmptyMap
    <3> QED
      BY <2>1, <2>3, <3>1 DEF GraphInv
  <2> QED
    BY <2>4, <2>5
<1>7. ASSUME ParseFails(k) \/ CompileFails(k) \/ SaveFails(k) PROVE RunInv(t)'
  <2>1. failed' = TRUE /\ call' = call
    BY <1>7 DEF ParseFails, CompileFails, SaveFails
  <2> QED
    BY <1>3, <2>1 DEF GraphInv, CallInv, Idle
<1> QED
  BY <1>1, <1>4, <1>5, <1>6, <1>7 DEF k

\* What a staged call is about to run, while nothing has failed.
LEMMA CallRuns ==
  ASSUME BaseInv, NEW t \in Threads, CallInv(t), call[t].pc \in {"prepared", "staged"}, ~failed
  PROVE  /\ program # NoProgram /\ program.key = call[t].key /\ program.compiled
         /\ Dynamic => call[t].key \in DOMAIN cached /\ cached[call[t].key] = program
<1>1. program # NoProgram /\ call[t].params = program.key
  BY DEF CallInv
<1>2. call[t].params = call[t].key
  BY DEF BaseInv, ServeInv
<1> QED
  BY <1>1, <1>2 DEF BaseInv, ShapesInv, ProgramsInv

\* A replayed graph refers to a program that exists.
LEMMA GraphRuns ==
  ASSUME GraphInv, ~failed, NEW k, CanReplay(k)
  PROVE  graphs[k].key = k /\ GraphUsable(graphs[k])
<1>1. hipGraph /\ k \in DOMAIN graphs /\ graphs[k].scratch = ScratchOf(k, scratch')
  BY DEF CanReplay
<1>2. graphs[k].key = k /\ graphs[k].staged
  BY <1>1 DEF GraphInv
<1>3. graphs[k].id \in AliveIds
  BY <1>1 DEF GraphInv, AliveIds
<1> QED
  BY <1>1, <1>2, <1>3 DEF GraphUsable

LEMMA RunLaunch ==
  ASSUME BaseInv, NEW t \in Threads, RunInv(t), setup' = setup, Launch(t)
  PROVE  RunInv(t)'
<1> USE DEF RunInv
<1> DEFINE k == call[t].key
<1>1. /\ program' = program /\ cached' = cached /\ failed' = failed /\ call[t].pc = "staged"
  BY DEF Launch
<1>2. DOMAIN call = Threads /\ "pc" \in DOMAIN call[t] /\ Dynamic' = Dynamic
  BY SetupKept DEF BaseInv, ShapesInv, CallInv
<1>3. ~failed => /\ program # NoProgram /\ program.key = k /\ program.compiled
                 /\ Dynamic => k \in DOMAIN cached /\ cached[k] = program
  BY <1>1, CallRuns
<1>4. ASSUME NEW key, NEW usable, Launched(t, key, usable), ~failed => usable /\ key = k
      PROVE  CallInv(t)'
  <2>1. call'[t] = [pc |-> "launched", batch |-> call[t].batch, key |-> call[t].key,
                    params |-> call[t].params, ran |-> key, usable |-> usable,
                    staged |-> TRUE]
    BY <1>2, <1>4 DEF Launched
  <2> HIDE DEF k
  <2> QED
    BY <1>1, <1>4, <2>1 DEF CallInv, k
<1> HIDE DEF k
<1>5. ASSUME Replay(t) PROVE RunInv(t)'
  <2>1. /\ CanReplay(k) /\ Launched(t, graphs[k].key, GraphUsable(graphs[k]))
        /\ hipGraph' = hipGraph /\ graphs' = graphs
    BY <1>5 DEF Replay, k
  <2>2. ~failed => GraphUsable(graphs[k]) /\ graphs[k].key = k
    BY <2>1, GraphRuns
  <2> HIDE DEF RunInv
  <2>3. CallInv(t)'
    BY <1>4, <2>1, <2>2
  <2> QED
    BY <1>1, <1>2, <2>1, <2>3 DEF GraphInv, RunInv
<1>6. ASSUME Capture(t) PROVE RunInv(t)'
  <2>1. /\ Launched(t, program.key, program.compiled) /\ hipGraph' = hipGraph
        /\ graphs' = [l \in DOMAIN graphs \cup {k} |->
             IF l # k THEN graphs[l]
             ELSE [id |-> program.id, key |-> program.key,
                   scratch |-> ScratchOf(k, scratch'), staged |-> TRUE]]
    BY <1>6 DEF Capture, k
  <2>2. CallInv(t)'
    BY <1>3, <1>4, <2>1
  <2>3. GraphInv'
    <3> SUFFICES ASSUME ~failed', hipGraph', NEW l \in DOMAIN graphs'
                 PROVE  /\ graphs'[l].key = l /\ graphs'[l].staged
                        /\ IF Dynamic' THEN l \in DOMAIN cached' /\ graphs'[l].id = cached'[l].id
                           ELSE program' # NoProgram /\ graphs'[l].id = program'.id
      BY DEF GraphInv
    <3>1. CASE l = k
      BY <1>1, <1>2, <1>3, <2>1, <3>1
    <3>2. CASE l # k
      <4>1. l \in DOMAIN graphs /\ graphs'[l] = graphs[l] /\ ~failed /\ hipGraph
        BY <1>1, <2>1, <3>2
      <4> QED
        BY <1>1, <1>2, <4>1 DEF GraphInv
    <3> QED
      BY <3>1, <3>2
  <2> QED
    BY <2>2, <2>3
<1>7. ASSUME CaptureFails(t) PROVE RunInv(t)'
  <2>1. Launched(t, program.key, program.compiled) /\ hipGraph' = FALSE
    BY <1>7 DEF CaptureFails
  <2> QED
    BY <1>3, <1>4, <2>1 DEF GraphInv
<1>8. ASSUME RunEagerly(t) PROVE RunInv(t)'
  <2>1. Launched(t, program.key, program.compiled) /\ ~hipGraph /\ hipGraph' = hipGraph
    BY <1>8 DEF RunEagerly
  <2> QED
    BY <1>3, <1>4, <2>1 DEF GraphInv
<1> QED
  BY <1>5, <1>6, <1>7, <1>8 DEF Launch

\* The steps that touch neither programs nor graphs.
LEMMA RunOther ==
  ASSUME BaseInv, NEW t \in Threads, RunInv(t), setup' = setup,
         Stage(t) \/ LaunchDirect(t) \/ Finish(t)
  PROVE  RunInv(t)'
<1>1. /\ program' = program /\ cached' = cached /\ failed' = failed /\ hipGraph' = hipGraph
      /\ graphs' = graphs
  BY DEF Stage, LaunchDirect, Finish
<1>2. DOMAIN call = Threads /\ "pc" \in DOMAIN call[t] /\ Dynamic' = Dynamic /\ CallInv(t)
  BY SetupKept DEF BaseInv, ShapesInv, RunInv, CallInv
<1>3. GraphInv'
  BY <1>1, <1>2 DEF RunInv, GraphInv
<1>4. CASE Stage(t)
  <2>1. call[t].pc = "prepared"
    BY <1>4 DEF Stage
  <2>2. DOMAIN call'[t] = DOMAIN call[t] /\ call'[t].pc = "staged" /\ call'[t].params = call[t].params
    BY <1>2, <1>4, CallSteps
  <2> QED
    BY <1>1, <1>2, <1>3, <2>1, <2>2 DEF RunInv, CallInv
<1>5. CASE LaunchDirect(t)
  <2>1. call[t].pc = "prepared"
    BY <1>5 DEF LaunchDirect
  <2>2. ~failed => program.key = call[t].key /\ program.compiled
    BY <1>2, <2>1, CallRuns
  <2>3. call'[t] = [pc |-> "launched", batch |-> call[t].batch, key |-> call[t].key,
                    params |-> call[t].params, ran |-> program.key,
                    usable |-> program.compiled, staged |-> FALSE]
    BY <1>2, <1>5, CallSteps
  <2>4. CallInv(t)'
    BY <1>1, <2>2, <2>3 DEF CallInv
  <2> QED
    BY <1>3, <2>4 DEF RunInv
<1>6. CASE Finish(t)
  <2>1. call'[t] = Idle
    BY <1>2, <1>6, CallSteps
  <2> QED
    BY <1>3, <2>1 DEF RunInv, CallInv, Idle
<1> QED
  BY <1>4, <1>5, <1>6

\* NodeComputeInfo::Compute, called by one thread at a time: until a preparation
\* fails, a call runs the program of its own shapes, and a replayed graph refers
\* to a program, scratch and staging buffers that exist.
THEOREM RunsOwnTheorem ==
  ASSUME NEW t, Threads = {t}
  PROVE  Spec => []RunsOwnUntilFailure
<1>1. Init => RunInv(t)
  BY DEF Init, RunInv, GraphInv, CallInv, EmptyMap, Idle
<1>2. BaseInv /\ RunInv(t) /\ [Next]_vars => RunInv(t)'
  <2> SUFFICES ASSUME BaseInv, RunInv(t), [Next]_vars PROVE RunInv(t)'
    OBVIOUS
  <2>1. setup' = setup
    BY DEF Next, vars
  <2>2. CASE UNCHANGED vars
    BY <2>1, <2>2, SetupKept DEF vars, RunInv, GraphInv, CallInv
  <2>3. CASE Next
    <3>1. Prepare(t) \/ Stage(t) \/ Launch(t) \/ LaunchDirect(t) \/ Finish(t)
      BY <2>3 DEF Next
    <3> QED
      BY <2>1, <3>1, RunPrepare, RunLaunch, RunOther
  <2> QED
    BY <2>2, <2>3
<1>3. RunInv(t) => RunsOwnUntilFailure
  BY DEF RunInv, CallInv, RunsOwnUntilFailure, RunsOwnProgram
<1> QED
  BY <1>1, <1>2, <1>3, BaseInvariant, PTL DEF Spec

-----------------------------------------------------------------------------
(* The staging buffers of one thread *)

\* Rows and extents are numbers.
LEMMA KeyNumbers ==
  ASSUME setup \in Setups, NEW k \in Keys
  PROVE  k.rows \in Nat /\ k.extent \in Nat
<1>1. PICK b \in Batches, e \in Extents : k = KeyOf(b, e)
  BY DEF Keys
<1>2. b \in Nat /\ e \in Nat
  BY InputsAssumption DEF Batches, Extents
<1>3. k.rows = (IF Dynamic THEN TargetBatch(b) ELSE b) /\ k.extent = e
  BY <1>1 DEF KeyOf
<1> QED
  BY <1>2, <1>3, NearestBucket

\* With buckets, a call has at most the maximum of rows and the one extent.
LEMMA CallFits ==
  ASSUME BaseInv, OptionsFit, NEW t \in Threads, call[t].pc # "idle", Dynamic
  PROVE  call[t].params.rows <= MaxBatch /\ \A e \in Extents : call[t].params.extent = e
<1>1. call[t].batch \in Batches /\ call[t].params = call[t].key /\ call[t].params \in Keys
  BY DEF BaseInv, ServeInv, OptionsFit
<1>2. PICK e \in Extents : call[t].key = KeyOf(call[t].batch, e)
  BY DEF BaseInv, ServeInv
<1>3. call[t].params.rows = TargetBatch(call[t].batch) /\ call[t].params.extent = e
  BY <1>1, <1>2 DEF KeyOf
<1> QED
  BY <1>1, <1>3 DEF OptionsFit, OneExtent

\* A preparation keeps the staging buffers or, when it changes the program that
\* they were sized for, frees them.
LEMMA StagingPrepare ==
  ASSUME NEW t \in Threads, StagingInv(t), setup' = setup, Prepare(t), DOMAIN call = Threads
  PROVE  StagingInv(t)'
<1>1. PICK b \in Batches, e \in Extents :
        LET k == KeyOf(b, e)
        IN \/ Match(t, b, k) \/ ReuseProgram(t, b, k) \/ CompileProgram(t, b, k)
           \/ ParseFails(k) \/ CompileFails(k) \/ SaveFails(k)
  BY DEF Prepare
<1> DEFINE k == KeyOf(b, e)
<1> HIDE DEF k
<1>2. ~InStaging(t)'
  <2>1. call' = call \/ \E p : call' = [call EXCEPT ![t] = Prepared(b, k, p)]
    BY <1>1 DEF Match, ReuseProgram, CompileProgram, ParseFails, CompileFails, SaveFails, k
  <2>2. call'[t].pc \in {"idle", "prepared"}
    BY <2>1 DEF Prepare, Idle, Prepared
  <2> QED
    BY <2>2 DEF InStaging
<1>3. Dynamic' = Dynamic /\ MaxBatch' = MaxBatch /\ Extents' = Extents /\ hipGraph' = hipGraph
  BY <1>1, SetupKept DEF Match, ReuseProgram, CompileProgram, ParseFails, CompileFails, SaveFails
<1>4. \/ staging' = NoStaging
      \/ staging' = staging /\ (program' = program \/ Dynamic \/ ~hipGraph)
  BY <1>1 DEF Match, ReuseProgram, CompileProgram, ParseFails, CompileFails, SaveFails,
              BeginCompile, Invalidate
<1>5. CASE staging' = NoStaging
  BY <1>2, <1>5 DEF StagingInv, Allocated, NoStaging
<1>6. CASE staging' = staging /\ (program' = program \/ Dynamic \/ ~hipGraph)
  BY <1>2, <1>3, <1>6 DEF StagingInv, Allocated
<1> QED
  BY <1>4, <1>5, <1>6

LEMMA StagingStage ==
  ASSUME BaseInv, OptionsFit, NEW t \in Threads, RunInv(t), StagingInv(t), setup' = setup, Stage(t)
  PROVE  StagingInv(t)'
<1> DEFINE p == call[t].params
<1>1. /\ hipGraph' = hipGraph /\ program' = program /\ call[t].pc = "prepared"
      /\ Dynamic' = Dynamic /\ MaxBatch' = MaxBatch /\ Extents' = Extents
      /\ hipGraph \/ Dynamic
  BY SetupKept DEF Stage, UsesStaging
<1>2. /\ DOMAIN staging' = {"rows", "extent", "input", "output"}
      /\ staging'.rows = IF Allocated THEN staging.rows ELSE StagingRows(p)
      /\ staging'.extent = IF Allocated THEN staging.extent ELSE p.extent
  BY DEF Stage
<1>3. call'[t].params = p
  BY CallSteps DEF BaseInv, ShapesInv, RunInv, CallInv
<1>4. /\ setup \in Setups /\ p \in Keys /\ program # NoProgram /\ p = program.key
  BY <1>1 DEF BaseInv, ShapesInv, ServeInv, RunInv, CallInv
<1>5. p.rows \in Nat /\ p.extent \in Nat /\ p.extent \in Extents
  BY <1>4, KeyNumbers, KeyFields
<1>6. MaxBatch \in Nat
  BY <1>4, MaximumIsNumber
<1>7. Dynamic => p.rows <= MaxBatch /\ \A e \in Extents : p.extent = e
  BY <1>1, CallFits
<1>8. /\ StagingRows(p) \in Nat /\ p.rows <= StagingRows(p)
      /\ Dynamic => MaxBatch <= StagingRows(p)
      /\ ~Dynamic => StagingRows(p) = p.rows
  BY <1>5, <1>6, LargerOf DEF StagingRows
<1> HIDE DEF p
<1>9. CASE Allocated
  <2>1. staging'.rows = staging.rows /\ staging'.extent = staging.extent
    BY <1>2, <1>9
  <2>2. p.rows <= staging.rows /\ p.extent <= staging.extent
    <3>1. CASE Dynamic
      <4>1. MaxBatch <= staging.rows /\ staging.extent \in Extents /\ staging.rows \in Nat
        BY <1>9, <3>1 DEF StagingInv
      <4>2. p.extent = staging.extent
        BY <1>7, <3>1, <4>1
      <4> QED
        BY <1>5, <1>6, <1>7, <3>1, <4>1, <4>2
    <3>2. CASE ~Dynamic
      <4>1. staging.rows = p.rows /\ staging.extent = p.extent
        BY <1>1, <1>4, <1>9, <3>2 DEF StagingInv
      <4> QED
        BY <1>5, <4>1
    <3> QED
      BY <3>1, <3>2
  <2> QED
    BY <1>1, <1>2, <1>3, <1>9, <2>1, <2>2 DEF StagingInv, Allocated
<1>10. CASE ~Allocated
  <2>1. staging'.rows = StagingRows(p) /\ staging'.extent = p.extent
    BY <1>2, <1>10
  <2>2. p.extent <= staging'.extent
    BY <1>5, <2>1
  <2> QED
    BY <1>1, <1>2, <1>3, <1>4, <1>5, <1>8, <2>1, <2>2 DEF StagingInv
<1> QED
  BY <1>9, <1>10

\* Running a program moves nothing.
LEMMA StagingOther ==
  ASSUME BaseInv, NEW t \in Threads, RunInv(t), StagingInv(t), setup' = setup,
         Launch(t) \/ LaunchDirect(t) \/ Finish(t)
  PROVE  StagingInv(t)'
<1>1. /\ Dynamic' = Dynamic /\ MaxBatch' = MaxBatch /\ Extents' = Extents
      /\ program' = program /\ (hipGraph' => hipGraph)
  BY SetupKept DEF Launch, LaunchDirect, Finish, Replay, Capture, CaptureFails, RunEagerly
<1>2. DOMAIN call = Threads /\ "pc" \in DOMAIN call[t]
  BY DEF BaseInv, ShapesInv, RunInv, CallInv
<1>3. CASE Launch(t)
  <2>1. PICK key, usable : Launched(t, key, usable) /\ call[t].pc = "staged"
    BY <1>3 DEF Launch, Replay, Capture, CaptureFails, RunEagerly
  <2>2. call'[t].params = call[t].params /\ InStaging(t)
    BY <1>2, <2>1 DEF Launched, InStaging
  <2>3. /\ DOMAIN staging' = DOMAIN staging
        /\ staging'.rows = staging.rows /\ staging'.extent = staging.extent
    BY <2>1 DEF Launched, StagingInv
  <2> QED
    BY <1>1, <2>2, <2>3 DEF StagingInv, Allocated
<1>4. CASE LaunchDirect(t) \/ Finish(t)
  <2>1. staging' = staging
    BY <1>4 DEF LaunchDirect, Finish
  <2>2. ~InStaging(t)'
    <3>1. CASE LaunchDirect(t)
      <4>1. call'[t].pc = "launched" /\ call'[t].staged = FALSE
        BY <1>2, <3>1 DEF LaunchDirect
      <4> QED
        BY <4>1 DEF InStaging
    <3>2. CASE Finish(t)
      <4>1. call'[t].pc = "idle"
        BY <1>2, <3>2 DEF Finish, Idle
      <4> QED
        BY <4>1 DEF InStaging
    <3> QED
      BY <1>4, <3>1, <3>2
  <2> QED
    BY <1>1, <2>1, <2>2 DEF StagingInv, Allocated
<1> QED
  BY <1>3, <1>4

\* AllocateStaging, called by one thread at a time: the buffers allocated for the
\* first bucket hold the inputs of every call.
THEOREM StagingFitsTheorem ==
  ASSUME NEW t, Threads = {t}
  PROVE  Spec /\ OptionsFit => []StagingFits
<1>1. Init => RunInv(t) /\ StagingInv(t)
  BY DEF Init, RunInv, GraphInv, CallInv, EmptyMap, Idle, StagingInv, NoStaging, Allocated, InStaging
<1>2. BaseInv /\ OptionsFit /\ RunInv(t) /\ StagingInv(t) /\ [Next]_vars
        => OptionsFit' /\ RunInv(t)' /\ StagingInv(t)'
  <2> SUFFICES ASSUME BaseInv, OptionsFit, RunInv(t), StagingInv(t), [Next]_vars
               PROVE  OptionsFit' /\ RunInv(t)' /\ StagingInv(t)'
    OBVIOUS
  <2>1. setup' = setup
    BY DEF Next, vars
  <2>2. OptionsFit'
    BY <2>1, SetupKept
  <2>3. DOMAIN call = Threads
    BY DEF BaseInv, ShapesInv
  <2>4. CASE UNCHANGED vars
    BY <2>1, <2>2, <2>4, SetupKept
       DEF vars, RunInv, GraphInv, CallInv, StagingInv, Allocated, InStaging
  <2>5. CASE Next
    <3>1. Prepare(t) \/ Stage(t) \/ Launch(t) \/ LaunchDirect(t) \/ Finish(t)
      BY <2>5 DEF Next
    <3>2. RunInv(t)'
      BY <2>1, <3>1, RunPrepare, RunLaunch, RunOther
    <3>3. StagingInv(t)'
      BY <2>1, <2>3, <3>1, StagingPrepare, StagingStage, StagingOther
    <3> QED
      BY <2>2, <3>2, <3>3
  <2> QED
    BY <2>4, <2>5
<1>3. StagingInv(t) => StagingFits
  BY DEF StagingInv, StagingFits
<1> QED
  BY <1>1, <1>2, <1>3, BaseInvariant, PTL DEF Spec
=============================================================================
