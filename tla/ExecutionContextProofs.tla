------------------------ MODULE ExecutionContextProofs ------------------------
(***************************************************************************)
(* Proofs about ExecutionContext for any number of kernels, buffers,       *)
(* submissions and references, and about the descriptor pool its handlers  *)
(* allocate from (DescriptorPool), for any counts and capacities.          *)
(***************************************************************************)
EXTENDS DescriptorPool, FiniteSetTheorems, SequenceTheorems, NaturalsInduction,
        WellFoundedInduction, TLAPS

\* What keeps object o alive when it is referenced: o itself, and for a
\* persistent resource the kernel that owns it.
Guards(o) == {o} \cup {k \in Kernels : o = Persistent(k)}

\* Object o cannot be destroyed before fence value f is signalled: a guard of
\* it is in the list q for that long, or it is a buffer in h, which joins the
\* list when it is freed.
Protected(q, h, o, f) ==
  \/ \E i \in DOMAIN q : q[i].object \in Guards(o) /\ q[i].fence >= f
  \/ o \in Buffers /\ o \in h

\* Fence values only name submitted batches.
FenceInv ==
  /\ completed <= lastFence
  /\ \A o \in Objects : lastUse[o] <= lastFence
  /\ \A i \in {0, 1} : allocBusy[i] <= lastFence

\* The release list is ascending, and waits for the open batch at the latest.
RefsInv ==
  /\ \A i, j \in DOMAIN refs : i < j => refs[i].fence <= refs[j].fence
  /\ \A i \in DOMAIN refs : refs[i].fence <= lastFence + (IF recorder THEN 1 ELSE 0)

\* Unfinished work only uses protected objects.
UseInv ==
  /\ recordedUses # {} => recorder
  /\ ~removed =>
       /\ \A o \in recordedUses : Protected(refs, held, o, lastFence + 1)
       /\ \A o \in Objects : lastUse[o] > completed => Protected(refs, held, o, lastUse[o])

\* Before the first recording there are no kernels, only buffers.
SetupInv ==
  ~recorder /\ ~closed =>
    /\ held \cap Kernels = {}
    /\ \A i \in DOMAIN refs : refs[i].object \in Buffers

ClosedInv ==
  closed =>
    /\ refs = <<>>
    /\ pc = "idle"
    /\ recordedUses = {}
    /\ ~removed => \A o \in Objects : lastUse[o] <= completed

WaitInv ==
  /\ pc \in {"wait", "close"} => event <= lastFence
  /\ pc = "close" => event = lastFence

\* The completion event of each allocator covers the work recorded from it;
\* the open list's allocator waits for the next batch.
RingInv ==
  ~removed =>
    /\ \A i \in {0, 1} : allocBusy[i] <= ring.event[i]
    /\ recorder => ring.event[ring.current] = lastFence + 1

IInv ==
  TypeOK /\ FenceInv /\ RefsInv /\ SetupInv /\ UseInv /\ ClosedInv /\ WaitInv /\ RingInv

-----------------------------------------------------------------------------
\* Opening the recorder keeps the ring well formed, gives the allocator it
\* chose the event of the next batch, and leaves the other event alone.
LEMMA OpenRing ==
  ASSUME NEW r \in Ring, NEW last \in Nat
  PROVE  /\ Open(r, last) \in Ring
         /\ Open(r, last).event[Open(r, last).current] = last + 1
         /\ \A i \in {0, 1} : \/ Open(r, last).event[i] = r.event[i]
                              \/ Open(r, last).event[i] = last + 1
         /\ Open(r, last).current # r.current
              => IsSignaled(r.event[Open(r, last).current])
<1> DEFINE other == 1 - r.current
           next == IF IsSignaled(r.event[other]) THEN other ELSE r.current
           opened == [current |-> next, event |-> [r.event EXCEPT ![next] = last + 1]]
<1>1. r.current \in {0, 1} /\ r.event \in [{0, 1} -> Nat]
  BY DEF Ring
<1>2. other \in {0, 1} /\ next \in {0, 1}
  BY <1>1
<1>3. Open(r, last) = opened
  BY DEF Open
<1> HIDE DEF next
<1>4. /\ opened \in Ring
      /\ opened.event[opened.current] = last + 1
      /\ \A i \in {0, 1} : opened.event[i] = r.event[i] \/ opened.event[i] = last + 1
  BY <1>1, <1>2 DEF Ring
<1>5. next # r.current => IsSignaled(r.event[next])
  BY DEF next
<1> QED
  BY <1>3, <1>4, <1>5

\* The front-popping loop keeps every reference whose fence value is not
\* signalled, adds only references to the batch after last, and leaves no
\* signalled reference behind when the list is ascending.
LEMMA ReleaseKeeps ==
  ASSUME TypeOK, NEW last \in Nat, ReleaseCompleted(last)
  PROVE  /\ refs' \in Seq(Reference)
         /\ removed => refs' = <<>>
         /\ ~removed => \A i \in DOMAIN refs : refs[i].fence > completed
                          => \E j \in DOMAIN refs' : refs'[j] = refs[i]
         /\ \A j \in DOMAIN refs' :
              \/ /\ refs'[j].fence = last + 1
                 /\ \E i \in DOMAIN refs : refs[i].object \in Kernels
              \/ \E i \in DOMAIN refs : refs'[j] = refs[i]
         /\ /\ \A i, j \in DOMAIN refs : i < j => refs[i].fence <= refs[j].fence
            /\ \A i \in DOMAIN refs : refs[i].fence <= last + 1
            => /\ \A i, j \in DOMAIN refs' : i < j => refs'[i].fence <= refs'[j].fence
               /\ \A j \in DOMAIN refs' : refs'[j].fence > completed \/ refs'[j].fence = last + 1
<1>1. PICK n \in 0..Len(refs) :
        LET rest == SubSeq(refs, n + 1, Len(refs))
        IN  /\ Poppable(refs, n)
            /\ \E order \in SetToSeqs(Destroyed(refs, rest)) :
                 refs' = IF removed THEN <<>>
                         ELSE rest \o [i \in DOMAIN order |->
                                         [fence |-> last + 1, object |-> Persistent(order[i])]]
  BY DEF ReleaseCompleted
<1> DEFINE rest == SubSeq(refs, n + 1, Len(refs))
           freed == Destroyed(refs, rest)
<1>2. PICK order \in SetToSeqs(freed) :
        refs' = IF removed THEN <<>>
                ELSE rest \o [i \in DOMAIN order |->
                                [fence |-> last + 1, object |-> Persistent(order[i])]]
  BY <1>1
<1> DEFINE queued == [i \in DOMAIN order |->
                        [fence |-> last + 1, object |-> Persistent(order[i])]]
<1>3. refs \in Seq(Reference) /\ Len(refs) \in Nat
  BY DEF TypeOK
<1>f. completed \in Nat /\ \A i \in DOMAIN refs : refs[i].fence \in Nat
  <2>1. \A i \in DOMAIN refs : refs[i] \in Reference
    BY <1>3
  <2> QED
    BY <2>1 DEF Reference, TypeOK
<1>4. CASE removed
  <2>1. refs' = <<>>
    BY <1>2, <1>4
  <2> QED
    BY <1>4, <2>1
<1>5. CASE ~removed
  <2>1. refs' = rest \o queued
    BY <1>2, <1>5
  <2>2. rest \in Seq(Reference) /\ Len(rest) = Len(refs) - n
        /\ \A i \in 1..Len(refs) - n : rest[i] = refs[n + i]
    <3>1. n \in Nat /\ n <= Len(refs)
      BY <1>3
    <3>2. \A i \in n + 1 .. Len(refs) : refs[i] \in Reference
      BY <1>3, <3>1
    <3>3. /\ rest \in Seq(Reference)
          /\ Len(rest) = IF n + 1 <= Len(refs) THEN Len(refs) - (n + 1) + 1 ELSE 0
          /\ \A i \in 1 .. Len(refs) - (n + 1) + 1 : rest[i] = refs[(n + 1) + i - 1]
      BY <1>3, <3>1, <3>2, SubSeqProperties
    <3> QED
      BY <1>3, <3>1, <3>3
  <2>3. /\ queued \in Seq(Reference)
        /\ \A i \in DOMAIN queued : /\ queued[i].fence = last + 1
                                    /\ \E m \in DOMAIN refs : refs[m].object \in Kernels
    <3>1. freed \subseteq Kernels /\ IsFiniteSet(freed)
      <4>1. freed \subseteq Kernels
        BY DEF Destroyed
      <4> QED
        BY <4>1, KernelsAssumption, FS_Subset
    <3>2. Cardinality(freed) \in Nat
      BY <3>1, FS_CardinalityType
    <3>3. order \in [1..Cardinality(freed) -> freed]
      BY DEF SetToSeqs
    <3>4. DOMAIN queued = 1..Cardinality(freed)
      BY <3>3
    <3>5. \A i \in DOMAIN queued : queued[i] \in Reference /\ queued[i].fence = last + 1
      <4> SUFFICES ASSUME NEW i \in DOMAIN queued
                   PROVE  queued[i] \in Reference /\ queued[i].fence = last + 1
        OBVIOUS
      <4>1. order[i] \in Kernels
        BY <3>1, <3>3, <3>4
      <4>2. Persistent(order[i]) \in Objects
        BY <4>1 DEF Objects, Resources
      <4> QED
        BY <4>2 DEF Reference
    <3>6. queued \in [1..Cardinality(freed) -> Reference]
      BY <3>4, <3>5
    <3> HIDE DEF queued
    <3>7. queued \in Seq(Reference)
      BY <3>2, <3>6
    <3>8. \A i \in DOMAIN queued : \E m \in DOMAIN refs : refs[m].object \in Kernels
      BY <3>1, <3>3, <3>4 DEF Destroyed, Referenced
    <3> QED
      BY <3>5, <3>7, <3>8
  <2> HIDE DEF rest, queued
  <2>4. /\ refs' \in Seq(Reference)
        /\ Len(refs') = Len(rest) + Len(queued)
        /\ \A i \in 1 .. Len(rest) + Len(queued) :
             refs'[i] = IF i <= Len(rest) THEN rest[i] ELSE queued[i - Len(rest)]
    BY <2>1, <2>2, <2>3, ConcatProperties
  <2>5. \A j \in DOMAIN refs' : \/ /\ j > Len(refs) - n /\ refs'[j].fence = last + 1
                                   /\ \E i \in DOMAIN refs : refs[i].object \in Kernels
                                \/ j <= Len(refs) - n /\ n + j \in DOMAIN refs /\ refs'[j] = refs[n + j]
    <3>1. Len(rest) \in Nat /\ Len(queued) \in Nat
      BY <2>2, <2>3
    <3>2. DOMAIN refs' = 1 .. Len(rest) + Len(queued) /\ DOMAIN refs = 1..Len(refs)
          /\ DOMAIN queued = 1..Len(queued)
      BY <1>3, <2>3, <2>4
    <3> SUFFICES ASSUME NEW j \in 1 .. Len(rest) + Len(queued)
                 PROVE  \/ /\ j > Len(refs) - n /\ refs'[j].fence = last + 1
                           /\ \E i \in DOMAIN refs : refs[i].object \in Kernels
                        \/ /\ j <= Len(refs) - n
                           /\ n + j \in 1..Len(refs)
                           /\ refs'[j] = refs[n + j]
      BY <3>2
    <3>3. CASE j <= Len(rest)
      BY <1>3, <2>2, <2>4, <3>1, <3>3
    <3>4. CASE j > Len(rest)
      <4>1. j - Len(rest) \in DOMAIN queued /\ refs'[j] = queued[j - Len(rest)]
        BY <2>4, <3>1, <3>2, <3>4
      <4> QED
        BY <1>3, <2>2, <2>3, <3>1, <3>4, <4>1
    <3> QED
      BY <3>1, <3>3, <3>4
  <2>6. \A i \in 1..n : refs[i].fence <= completed
    BY <1>1, <1>5 DEF Poppable, IsSignaled
  <2>7. \A i \in DOMAIN refs : refs[i].fence > completed
                                 => \E j \in DOMAIN refs' : refs'[j] = refs[i]
    <3> SUFFICES ASSUME NEW i \in DOMAIN refs, refs[i].fence > completed
                 PROVE  \E j \in DOMAIN refs' : refs'[j] = refs[i]
      OBVIOUS
    <3>0. i \in Nat /\ i <= Len(refs) /\ refs[i] \in Reference /\ completed \in Nat
      BY <1>3 DEF TypeOK
    <3>1. i > n
      BY <2>6, <3>0 DEF Reference
    <3>2. i - n \in 1..Len(rest) /\ rest[i - n] = refs[n + (i - n)]
      BY <1>3, <2>2, <3>0, <3>1
    <3>3. Len(rest) \in Nat /\ Len(queued) \in Nat /\ n + (i - n) = i
      BY <1>3, <2>2, <2>3, <3>0
    <3>4. refs'[i - n] = refs[i]
      BY <2>4, <3>2, <3>3
    <3>5. i - n \in DOMAIN refs'
      BY <2>4, <3>2, <3>3
    <3> QED
      BY <3>4, <3>5
  <2>8. n < Len(refs) => ~(refs[n + 1].fence <= completed)
    BY <1>1, <1>5 DEF Poppable, IsSignaled
  <2>9. ASSUME \A i, j \in DOMAIN refs : i < j => refs[i].fence <= refs[j].fence,
               \A i \in DOMAIN refs : refs[i].fence <= last + 1
        PROVE  /\ \A i, j \in DOMAIN refs' : i < j => refs'[i].fence <= refs'[j].fence
               /\ \A j \in DOMAIN refs' : refs'[j].fence > completed \/ refs'[j].fence = last + 1
    <3>1. \A i, j \in DOMAIN refs' : i < j => refs'[i].fence <= refs'[j].fence
      <4> SUFFICES ASSUME NEW i \in DOMAIN refs', NEW j \in DOMAIN refs', i < j
                   PROVE  refs'[i].fence <= refs'[j].fence
        OBVIOUS
      <4>1. i \in Nat /\ j \in Nat
        BY <2>4
      <4>2. CASE j <= Len(refs) - n
        BY <4>1, <4>2, <2>5, <2>9, <1>3
      <4>3. CASE j > Len(refs) - n
        BY <4>1, <4>3, <2>5, <2>9, <1>3
      <4> QED
        BY <4>1, <4>2, <4>3, <1>3
    <3>2. \A j \in DOMAIN refs' : refs'[j].fence > completed \/ refs'[j].fence = last + 1
      <4> SUFFICES ASSUME NEW j \in DOMAIN refs', refs'[j].fence # last + 1
                   PROVE  refs'[j].fence > completed
        OBVIOUS
      <4>1. /\ j \in Nat /\ j >= 1 /\ j <= Len(refs) - n
            /\ n + j \in DOMAIN refs /\ refs'[j] = refs[n + j]
        BY <2>4, <2>5
      <4>2. n + 1 \in DOMAIN refs /\ n < Len(refs)
        BY <1>3, <4>1
      <4>3. refs[n + 1].fence <= refs[n + j].fence
        BY <1>3, <1>f, <4>1, <4>2, <2>9
      <4>4. refs[n + 1].fence > completed
        <5>1. refs[n + 1].fence \in Nat /\ completed \in Nat
          BY <1>f, <4>2
        <5> QED
          BY <5>1, <4>2, <2>8
      <4>5. refs[n + 1].fence \in Nat /\ refs[n + j].fence \in Nat /\ completed \in Nat
        BY <1>f, <4>1, <4>2
      <4> QED
        BY <4>1, <4>3, <4>4, <4>5
    <3> QED
      BY <3>1, <3>2
  <2> QED
    BY <1>5, <2>4, <2>5, <2>7, <2>9
<1> QED
  BY <1>4, <1>5

\* Every object of the model is one of the three kinds.
LEMMA ObjectKinds ==
  /\ \A k \in Kernels : k \in Objects /\ Persistent(k) \in Objects
  /\ Buffers \subseteq Objects
BY DEF Objects, Resources

\* SetCommandRecorder, a flush and a direct submission keep the ring well
\* formed.
LEMMA RingType ==
  ASSUME TypeOK
  PROVE  /\ OpenedRing \in Ring
         /\ Open(OpenedRing, lastFence + 1) \in Ring
         /\ Open(ring, lastFence + 1) \in Ring
         /\ UpdateCurrentAllocatorCompletionEvent(OpenedRing) \in Ring
         /\ OpenedRing.current \in {0, 1}
         /\ ring.current \in {0, 1}
<1>1. ring \in Ring /\ lastFence \in Nat
  BY DEF TypeOK
<1>2. OpenedRing \in Ring
  BY <1>1, OpenRing DEF OpenedRing
<1>3. Open(OpenedRing, lastFence + 1) \in Ring /\ Open(ring, lastFence + 1) \in Ring
  BY <1>1, <1>2, OpenRing
<1>4. UpdateCurrentAllocatorCompletionEvent(OpenedRing) \in Ring
  BY <1>1, <1>2 DEF UpdateCurrentAllocatorCompletionEvent, Ring
<1>5. OpenedRing.current \in {0, 1} /\ ring.current \in {0, 1}
  BY <1>1, <1>2 DEF Ring
<1> QED
  BY <1>2, <1>3, <1>4, <1>5

\* A queued reference goes to the back of the list and changes nothing else.
LEMMA AppendReference ==
  ASSUME TypeOK, NEW f \in Nat, NEW o \in Objects
  PROVE  LET q == Append(refs, [fence |-> f, object |-> o])
         IN  /\ q \in Seq(Reference)
             /\ Len(q) = Len(refs) + 1
             /\ \A i \in DOMAIN refs : i \in DOMAIN q /\ q[i] = refs[i]
             /\ Len(q) \in DOMAIN q /\ q[Len(q)] = [fence |-> f, object |-> o]
             /\ DOMAIN q = DOMAIN refs \cup {Len(q)}
<1>1. refs \in Seq(Reference) /\ [fence |-> f, object |-> o] \in Reference
  BY DEF TypeOK, Reference
<1> QED
  BY <1>1

LEMMA QueueReferenceType ==
  ASSUME TypeOK, NEW open \in BOOLEAN, NEW o \in Objects
  PROVE  QueueReference(refs, open, o) \in Seq(Reference)
<1>1. lastFence + (IF open THEN 1 ELSE 0) \in Nat
  BY DEF TypeOK
<1> QED
  BY <1>1, AppendReference DEF QueueReference

\* Every step preserves the types.
LEMMA TypeStep == TypeOK /\ [Next]_vars => TypeOK'
<1> SUFFICES ASSUME TypeOK, [Next]_vars PROVE TypeOK'
  OBVIOUS
<1>1. ASSUME NEW k \in Kernels, CreateKernel(k) PROVE TypeOK'
  <2>1. refs' \in Seq(Reference)
    BY <1>1, QueueReferenceType, ObjectKinds DEF CreateKernel
  <2> QED
    BY <1>1, <2>1, RingType, ObjectKinds
       DEF CreateKernel, RecordUses, Uses, threadVars, TypeOK
<1>2. ASSUME NEW k \in Kernels, ComputeShapeChangedFails(k) PROVE TypeOK'
  <2>1. refs' \in Seq(Reference)
    BY <1>2, QueueReferenceType, ObjectKinds DEF ComputeShapeChangedFails
  <2> QED
    BY <1>2, <2>1, RingType, ObjectKinds
       DEF ComputeShapeChangedFails, RecordUses, Uses, threadVars, TypeOK
<1>3. ASSUME NEW k \in Kernels, ReleaseKernel(k) PROVE TypeOK'
  <2>1. refs' \in Seq(Reference)
    BY <1>3, QueueReferenceType, ObjectKinds DEF ReleaseKernel, TypeOK
  <2> QED
    BY <1>3, <2>1 DEF ReleaseKernel, recorderVars, threadVars, useVars, TypeOK
<1>4. ASSUME NEW k \in Kernels, ExecuteCommandListFails(k) PROVE TypeOK'
  <2>1. ring' \in Ring
    BY <1>4, RingType DEF ExecuteCommandListFails
  <2> QED
    BY <1>4, <2>1 DEF ExecuteCommandListFails, threadVars, useVars, TypeOK
<1>5. ASSUME NEW k \in Kernels, NEW B \in SUBSET Buffers, Compute(k, B) PROVE TypeOK'
  <2>1. refs' \in Seq(Reference)
    BY <1>5, QueueReferenceType, ObjectKinds DEF Compute
  <2> QED
    BY <1>5, <2>1, RingType, ObjectKinds
       DEF Compute, RecordUses, Uses, threadVars, TypeOK
<1>6. ASSUME NEW k \in Kernels, NEW B \in SUBSET Buffers, ComputeShapeChanged(k, B) PROVE TypeOK'
  <2>1. refs' \in Seq(Reference)
    BY <1>6, QueueReferenceType, ObjectKinds DEF ComputeShapeChanged
  <2> QED
    BY <1>6, <2>1, RingType, ObjectKinds
       DEF ComputeShapeChanged, RecordUses, Uses, threadVars, TypeOK
<1>7. ASSUME NEW k \in Kernels, NEW B \in SUBSET Buffers, ExecuteCommandList(k, B) PROVE TypeOK'
  <2>1. refs' \in Seq(Reference)
    <3>1. lastFence + 2 \in Nat
      BY DEF TypeOK
    <3> QED
      BY <1>7, <3>1, AppendReference, ObjectKinds DEF ExecuteCommandList
  <2>2. ring' \in Ring
    BY <1>7, RingType DEF ExecuteCommandList
  <2>3. lastUse' \in [Objects -> Nat] /\ allocBusy' \in [{0, 1} -> Nat]
    BY <1>7, RingType DEF ExecuteCommandList, Submit, TypeOK
  <2>4. lastFence' \in Nat /\ recordedUses' = {} /\ recorded' = FALSE /\ recorder' = TRUE
    BY <1>7 DEF ExecuteCommandList, Submit, TypeOK
  <2> QED
    BY <1>7, <2>1, <2>2, <2>3, <2>4 DEF ExecuteCommandList, threadVars, TypeOK
<1>8. ASSUME NEW B \in SUBSET Buffers, CopyBufferRegion(B) PROVE TypeOK'
  BY <1>8, RingType, ObjectKinds DEF CopyBufferRegion, Running, RecordUses, queueVars, recorderVars, threadVars, useVars, TypeOK
<1>9. ASSUME NEW B \in SUBSET Buffers, ReadbackFromGpu(B) PROVE TypeOK'
  <2>1. refs' \in Seq(Reference)
    <3>1. lastFence + 1 \in Nat
      BY DEF TypeOK
    <3> QED
      BY <1>9, <3>1, ReleaseKeeps DEF ReadbackFromGpu, FlushRecorded, WaitForSignal
  <2>2. ring' \in Ring
    BY <1>9, RingType DEF ReadbackFromGpu, FlushRecorded, WaitForSignal
  <2>3. lastUse' \in [Objects -> Nat] /\ allocBusy' \in [{0, 1} -> Nat]
    BY <1>9, RingType DEF ReadbackFromGpu, FlushRecorded, Submit, TypeOK, WaitForSignal
  <2>4. lastFence' \in Nat /\ recordedUses' = {} /\ recorded' = FALSE /\ recorder' = TRUE
    BY <1>9 DEF ReadbackFromGpu, FlushRecorded, Submit, TypeOK
  <2> QED
    BY <1>9, <2>1, <2>2, <2>3, <2>4 DEF ReadbackFromGpu, threadVars, TypeOK, WaitForSignal
<1>10. ASSUME NEW b \in Buffers, AllocBuffer(b) PROVE TypeOK'
  BY <1>10, RingType, ObjectKinds DEF AllocBuffer, Running, queueVars, recorderVars, threadVars, useVars, TypeOK
<1>11. ASSUME NEW b \in Buffers, FreeBuffer(b) PROVE TypeOK'
  <2>1. refs' \in Seq(Reference)
    BY <1>11, QueueReferenceType, ObjectKinds DEF FreeBuffer, TypeOK
  <2> QED
    BY <1>11, <2>1 DEF FreeBuffer, recorderVars, threadVars, useVars, TypeOK
<1>12. ASSUME Flush PROVE TypeOK'
  <2>1. refs' \in Seq(Reference)
    <3>1. lastFence + 1 \in Nat
      BY DEF TypeOK
    <3> QED
      BY <1>12, <3>1, ReleaseKeeps DEF Flush, FlushRecorded
  <2>2. ring' \in Ring
    BY <1>12, RingType DEF Flush, FlushRecorded
  <2>3. lastUse' \in [Objects -> Nat] /\ allocBusy' \in [{0, 1} -> Nat]
    BY <1>12, RingType DEF Flush, FlushRecorded, Submit, TypeOK
  <2>4. lastFence' \in Nat /\ recordedUses' = {} /\ recorded' = FALSE /\ recorder' = TRUE
    BY <1>12 DEF Flush, FlushRecorded, Submit, TypeOK
  <2> QED
    BY <1>12, <2>1, <2>2, <2>3, <2>4 DEF Flush, threadVars, TypeOK
<1>13. ASSUME OnSessionInitializationEnd PROVE TypeOK'
  <2>1. CASE UNCHANGED <<lastFence, refs, recorderVars, useVars>>
    BY <1>13, <2>1 DEF OnSessionInitializationEnd, Running, WaitForSignal, recorderVars, useVars, TypeOK
  <2>2. CASE FlushRecorded({})
    <3>1. refs' \in Seq(Reference)
      <4>1. lastFence + 1 \in Nat
        BY DEF TypeOK
      <4> QED
        BY <2>2, <4>1, ReleaseKeeps DEF FlushRecorded
    <3>2. ring' \in Ring
      BY <2>2, RingType DEF FlushRecorded
    <3>3. lastUse' \in [Objects -> Nat] /\ allocBusy' \in [{0, 1} -> Nat]
      BY <2>2, RingType DEF FlushRecorded, Submit, TypeOK
    <3>4. lastFence' \in Nat /\ recordedUses' = {} /\ recorded' = FALSE /\ recorder' = TRUE
      BY <2>2 DEF FlushRecorded, Submit, TypeOK
    <3>5. UNCHANGED <<completed, removed, closed, held>> /\ pc' = "wait" /\ event' = lastFence'
      BY <1>13 DEF OnSessionInitializationEnd, WaitForSignal
    <3> QED
      BY <3>1, <3>2, <3>3, <3>4, <3>5 DEF TypeOK
  <2> QED
    BY <1>13, <2>1, <2>2 DEF OnSessionInitializationEnd
<1>14. ASSUME WaitDone PROVE TypeOK'
  <2>1. refs' \in Seq(Reference)
    BY <1>14, ReleaseKeeps DEF WaitDone, TypeOK
  <2> QED
    BY <1>14, <2>1 DEF WaitDone, recorderVars, useVars, TypeOK
<1>15. ASSUME CloseAndExecuteFails PROVE TypeOK'
  BY <1>15, RingType, ObjectKinds DEF CloseAndExecuteFails, Running, queueVars, recorderVars, threadVars, useVars, TypeOK
<1>16. ASSUME Close PROVE TypeOK'
  BY <1>16, RingType, ObjectKinds DEF Close, queueVars, recorderVars, threadVars, useVars, TypeOK
<1>17. ASSUME CloseDone PROVE TypeOK'
  <2>1. refs' \in Seq(Reference)
    BY <1>17 DEF CloseDone
  <2> QED
    BY <1>17, <2>1 DEF CloseDone, TypeOK
<1>18. ASSUME GpuComplete PROVE TypeOK'
  BY <1>18, RingType, ObjectKinds DEF GpuComplete, queueVars, recorderVars, threadVars, useVars, TypeOK
<1>19. ASSUME DeviceRemoved PROVE TypeOK'
  BY <1>19, RingType, ObjectKinds DEF DeviceRemoved, queueVars, recorderVars, threadVars, useVars, TypeOK
<1>20. CASE UNCHANGED vars
  BY <1>20 DEF vars, queueVars, recorderVars, threadVars, useVars, TypeOK
<1> QED
  BY <1>1, <1>2, <1>3, <1>4, <1>5, <1>6, <1>7, <1>8, <1>9, <1>10, <1>11, <1>12, <1>13, <1>14, <1>15, <1>16, <1>17, <1>18, <1>19, <1>20 DEF Next

\* The arithmetic content of the type invariant.
LEMMA Numbers ==
  ASSUME TypeOK
  PROVE  /\ lastFence \in Nat /\ completed \in Nat /\ event \in Nat
         /\ lastUse \in [Objects -> Nat] /\ allocBusy \in [{0, 1} -> Nat]
         /\ refs \in Seq(Reference) /\ Len(refs) \in Nat /\ DOMAIN refs = 1..Len(refs)
         /\ \A i \in DOMAIN refs : refs[i].fence \in Nat /\ refs[i].object \in Objects
<1>1. refs \in Seq(Reference)
  BY DEF TypeOK
<1>2. \A i \in DOMAIN refs : refs[i] \in Reference
  BY <1>1
<1>3. \A i \in DOMAIN refs : refs[i].fence \in Nat /\ refs[i].object \in Objects
  BY <1>2 DEF Reference
<1> QED
  BY <1>1, <1>3 DEF TypeOK

\* No step lets the GPU run ahead of the queue, or a use name a batch that
\* was never submitted.
LEMMA FenceStep == TypeOK /\ FenceInv /\ [Next]_vars => FenceInv'
<1> SUFFICES ASSUME TypeOK /\ FenceInv, [Next]_vars PROVE FenceInv'
  OBVIOUS
<1>1. ASSUME NEW k \in Kernels, CreateKernel(k) PROVE FenceInv'
  BY <1>1, Numbers, RingType DEF CreateKernel, Running, RecordUses, QueueReference, Uses, queueVars, recorderVars, threadVars, useVars, FenceInv
<1>2. ASSUME NEW k \in Kernels, ComputeShapeChangedFails(k) PROVE FenceInv'
  BY <1>2, Numbers, RingType DEF ComputeShapeChangedFails, Running, RecordUses, QueueReference, Uses, queueVars, recorderVars, threadVars, useVars, FenceInv
<1>3. ASSUME NEW k \in Kernels, ReleaseKernel(k) PROVE FenceInv'
  BY <1>3, Numbers, RingType DEF ReleaseKernel, QueueReference, queueVars, recorderVars, threadVars, useVars, FenceInv
<1>4. ASSUME NEW k \in Kernels, ExecuteCommandListFails(k) PROVE FenceInv'
  BY <1>4, Numbers, RingType DEF ExecuteCommandListFails, Running, UpdateCurrentAllocatorCompletionEvent, queueVars, recorderVars, threadVars, useVars, FenceInv
<1>5. ASSUME NEW k \in Kernels, NEW B \in SUBSET Buffers, Compute(k, B) PROVE FenceInv'
  BY <1>5, Numbers, RingType DEF Compute, Running, RecordUses, QueueReference, Uses, queueVars, recorderVars, threadVars, useVars, FenceInv
<1>6. ASSUME NEW k \in Kernels, NEW B \in SUBSET Buffers, ComputeShapeChanged(k, B) PROVE FenceInv'
  BY <1>6, Numbers, RingType DEF ComputeShapeChanged, Running, RecordUses, QueueReference, Uses, queueVars, recorderVars, threadVars, useVars, FenceInv
<1>7. ASSUME NEW k \in Kernels, NEW B \in SUBSET Buffers, ExecuteCommandList(k, B) PROVE FenceInv'
  BY <1>7, Numbers, RingType DEF ExecuteCommandList, Running, Submit, UpdateCurrentAllocatorCompletionEvent, Uses, queueVars, recorderVars, threadVars, useVars, FenceInv
<1>8. ASSUME NEW B \in SUBSET Buffers, CopyBufferRegion(B) PROVE FenceInv'
  BY <1>8, Numbers, RingType DEF CopyBufferRegion, Running, RecordUses, queueVars, recorderVars, threadVars, useVars, FenceInv
<1>9. ASSUME NEW B \in SUBSET Buffers, ReadbackFromGpu(B) PROVE FenceInv'
  BY <1>9, Numbers, RingType DEF ReadbackFromGpu, Running, FlushRecorded, Submit, WaitForSignal, queueVars, recorderVars, threadVars, useVars, FenceInv
<1>10. ASSUME NEW b \in Buffers, AllocBuffer(b) PROVE FenceInv'
  BY <1>10, Numbers, RingType DEF AllocBuffer, Running, queueVars, recorderVars, threadVars, useVars, FenceInv
<1>11. ASSUME NEW b \in Buffers, FreeBuffer(b) PROVE FenceInv'
  BY <1>11, Numbers, RingType DEF FreeBuffer, QueueReference, queueVars, recorderVars, threadVars, useVars, FenceInv
<1>12. ASSUME Flush PROVE FenceInv'
  BY <1>12, Numbers, RingType DEF Flush, Running, FlushRecorded, Submit, queueVars, recorderVars, threadVars, useVars, FenceInv
<1>13. ASSUME OnSessionInitializationEnd PROVE FenceInv'
  <2>1. CASE UNCHANGED <<lastFence, refs, recorderVars, useVars>>
    BY <1>13, <2>1 DEF OnSessionInitializationEnd, WaitForSignal, useVars, FenceInv
  <2>2. CASE FlushRecorded({})
    BY <1>13, <2>2, Numbers, RingType
       DEF OnSessionInitializationEnd, WaitForSignal, FlushRecorded, Submit, FenceInv
  <2> QED
    BY <1>13, <2>1, <2>2 DEF OnSessionInitializationEnd
<1>14. ASSUME WaitDone PROVE FenceInv'
  BY <1>14, Numbers, RingType DEF WaitDone, queueVars, recorderVars, threadVars, useVars, FenceInv
<1>15. ASSUME CloseAndExecuteFails PROVE FenceInv'
  BY <1>15, Numbers, RingType DEF CloseAndExecuteFails, Running, queueVars, recorderVars, threadVars, useVars, FenceInv
<1>16. ASSUME Close PROVE FenceInv'
  BY <1>16, Numbers, RingType DEF Close, queueVars, recorderVars, threadVars, useVars, FenceInv
<1>17. ASSUME CloseDone PROVE FenceInv'
  BY <1>17, Numbers, RingType DEF CloseDone, queueVars, recorderVars, threadVars, useVars, FenceInv
<1>18. ASSUME GpuComplete PROVE FenceInv'
  BY <1>18, Numbers, RingType DEF GpuComplete, queueVars, recorderVars, threadVars, useVars, FenceInv
<1>19. ASSUME DeviceRemoved PROVE FenceInv'
  BY <1>19, Numbers, RingType DEF DeviceRemoved, queueVars, recorderVars, threadVars, useVars, FenceInv
<1>20. CASE UNCHANGED vars
  BY <1>20 DEF vars, queueVars, recorderVars, threadVars, useVars, FenceInv
<1> QED
  BY <1>1, <1>2, <1>3, <1>4, <1>5, <1>6, <1>7, <1>8, <1>9, <1>10, <1>11, <1>12, <1>13, <1>14, <1>15, <1>16, <1>17, <1>18, <1>19, <1>20 DEF Next

\* A wait is for a submitted batch, and Close waits for the last one.
LEMMA WaitStep == TypeOK /\ WaitInv /\ [Next]_vars => WaitInv'
<1> SUFFICES ASSUME TypeOK /\ WaitInv, [Next]_vars PROVE WaitInv'
  OBVIOUS
<1>1. ASSUME NEW k \in Kernels, CreateKernel(k) PROVE WaitInv'
  BY <1>1, Numbers DEF CreateKernel, Running, RecordUses, QueueReference, Uses, queueVars, recorderVars, threadVars, useVars, WaitInv
<1>2. ASSUME NEW k \in Kernels, ComputeShapeChangedFails(k) PROVE WaitInv'
  BY <1>2, Numbers DEF ComputeShapeChangedFails, Running, RecordUses, QueueReference, Uses, queueVars, recorderVars, threadVars, useVars, WaitInv
<1>3. ASSUME NEW k \in Kernels, ReleaseKernel(k) PROVE WaitInv'
  BY <1>3, Numbers DEF ReleaseKernel, QueueReference, queueVars, recorderVars, threadVars, useVars, WaitInv
<1>4. ASSUME NEW k \in Kernels, ExecuteCommandListFails(k) PROVE WaitInv'
  BY <1>4, Numbers DEF ExecuteCommandListFails, Running, UpdateCurrentAllocatorCompletionEvent, queueVars, recorderVars, threadVars, useVars, WaitInv
<1>5. ASSUME NEW k \in Kernels, NEW B \in SUBSET Buffers, Compute(k, B) PROVE WaitInv'
  BY <1>5, Numbers DEF Compute, Running, RecordUses, QueueReference, Uses, queueVars, recorderVars, threadVars, useVars, WaitInv
<1>6. ASSUME NEW k \in Kernels, NEW B \in SUBSET Buffers, ComputeShapeChanged(k, B) PROVE WaitInv'
  BY <1>6, Numbers DEF ComputeShapeChanged, Running, RecordUses, QueueReference, Uses, queueVars, recorderVars, threadVars, useVars, WaitInv
<1>7. ASSUME NEW k \in Kernels, NEW B \in SUBSET Buffers, ExecuteCommandList(k, B) PROVE WaitInv'
  BY <1>7, Numbers DEF ExecuteCommandList, Running, Submit, UpdateCurrentAllocatorCompletionEvent, Uses, queueVars, recorderVars, threadVars, useVars, WaitInv
<1>8. ASSUME NEW B \in SUBSET Buffers, CopyBufferRegion(B) PROVE WaitInv'
  BY <1>8, Numbers DEF CopyBufferRegion, Running, RecordUses, queueVars, recorderVars, threadVars, useVars, WaitInv
<1>9. ASSUME NEW B \in SUBSET Buffers, ReadbackFromGpu(B) PROVE WaitInv'
  BY <1>9, Numbers DEF ReadbackFromGpu, Running, FlushRecorded, Submit, WaitForSignal, queueVars, recorderVars, threadVars, useVars, WaitInv
<1>10. ASSUME NEW b \in Buffers, AllocBuffer(b) PROVE WaitInv'
  BY <1>10, Numbers DEF AllocBuffer, Running, queueVars, recorderVars, threadVars, useVars, WaitInv
<1>11. ASSUME NEW b \in Buffers, FreeBuffer(b) PROVE WaitInv'
  BY <1>11, Numbers DEF FreeBuffer, QueueReference, queueVars, recorderVars, threadVars, useVars, WaitInv
<1>12. ASSUME Flush PROVE WaitInv'
  BY <1>12, Numbers DEF Flush, Running, FlushRecorded, Submit, queueVars, recorderVars, threadVars, useVars, WaitInv
<1>13. ASSUME OnSessionInitializationEnd PROVE WaitInv'
  BY <1>13, Numbers DEF OnSessionInitializationEnd, Running, FlushRecorded, Submit, WaitForSignal, queueVars, recorderVars, threadVars, useVars, WaitInv
<1>14. ASSUME WaitDone PROVE WaitInv'
  BY <1>14, Numbers DEF WaitDone, queueVars, recorderVars, threadVars, useVars, WaitInv
<1>15. ASSUME CloseAndExecuteFails PROVE WaitInv'
  BY <1>15, Numbers DEF CloseAndExecuteFails, Running, queueVars, recorderVars, threadVars, useVars, WaitInv
<1>16. ASSUME Close PROVE WaitInv'
  BY <1>16, Numbers DEF Close, queueVars, recorderVars, threadVars, useVars, WaitInv
<1>17. ASSUME CloseDone PROVE WaitInv'
  BY <1>17, Numbers DEF CloseDone, queueVars, recorderVars, threadVars, useVars, WaitInv
<1>18. ASSUME GpuComplete PROVE WaitInv'
  BY <1>18, Numbers DEF GpuComplete, queueVars, recorderVars, threadVars, useVars, WaitInv
<1>19. ASSUME DeviceRemoved PROVE WaitInv'
  BY <1>19, Numbers DEF DeviceRemoved, queueVars, recorderVars, threadVars, useVars, WaitInv
<1>20. CASE UNCHANGED vars
  BY <1>20 DEF vars, queueVars, recorderVars, threadVars, useVars, WaitInv
<1> QED
  BY <1>1, <1>2, <1>3, <1>4, <1>5, <1>6, <1>7, <1>8, <1>9, <1>10, <1>11, <1>12, <1>13, <1>14, <1>15, <1>16, <1>17, <1>18, <1>19, <1>20 DEF Next

\* A closed context stays closed, drained and idle.
LEMMA ClosedStep == TypeOK /\ FenceInv /\ WaitInv /\ ClosedInv /\ [Next]_vars => ClosedInv'
<1> SUFFICES ASSUME TypeOK /\ FenceInv /\ WaitInv /\ ClosedInv, [Next]_vars PROVE ClosedInv'
  OBVIOUS
<1>1. ASSUME NEW k \in Kernels, CreateKernel(k) PROVE ClosedInv'
  BY <1>1, Numbers DEF CreateKernel, Running, RecordUses, QueueReference, Uses, queueVars, recorderVars, threadVars, useVars, ClosedInv, FenceInv, WaitInv, IsSignaled
<1>2. ASSUME NEW k \in Kernels, ComputeShapeChangedFails(k) PROVE ClosedInv'
  BY <1>2, Numbers DEF ComputeShapeChangedFails, Running, RecordUses, QueueReference, Uses, queueVars, recorderVars, threadVars, useVars, ClosedInv, FenceInv, WaitInv, IsSignaled
<1>3. ASSUME NEW k \in Kernels, ReleaseKernel(k) PROVE ClosedInv'
  BY <1>3, Numbers DEF ReleaseKernel, QueueReference, queueVars, recorderVars, threadVars, useVars, ClosedInv, FenceInv, WaitInv, IsSignaled
<1>4. ASSUME NEW k \in Kernels, ExecuteCommandListFails(k) PROVE ClosedInv'
  BY <1>4, Numbers DEF ExecuteCommandListFails, Running, UpdateCurrentAllocatorCompletionEvent, queueVars, recorderVars, threadVars, useVars, ClosedInv, FenceInv, WaitInv, IsSignaled
<1>5. ASSUME NEW k \in Kernels, NEW B \in SUBSET Buffers, Compute(k, B) PROVE ClosedInv'
  BY <1>5, Numbers DEF Compute, Running, RecordUses, QueueReference, Uses, queueVars, recorderVars, threadVars, useVars, ClosedInv, FenceInv, WaitInv, IsSignaled
<1>6. ASSUME NEW k \in Kernels, NEW B \in SUBSET Buffers, ComputeShapeChanged(k, B) PROVE ClosedInv'
  BY <1>6, Numbers DEF ComputeShapeChanged, Running, RecordUses, QueueReference, Uses, queueVars, recorderVars, threadVars, useVars, ClosedInv, FenceInv, WaitInv, IsSignaled
<1>7. ASSUME NEW k \in Kernels, NEW B \in SUBSET Buffers, ExecuteCommandList(k, B) PROVE ClosedInv'
  BY <1>7, Numbers DEF ExecuteCommandList, Running, Submit, UpdateCurrentAllocatorCompletionEvent, Uses, queueVars, recorderVars, threadVars, useVars, ClosedInv, FenceInv, WaitInv, IsSignaled
<1>8. ASSUME NEW B \in SUBSET Buffers, CopyBufferRegion(B) PROVE ClosedInv'
  BY <1>8, Numbers DEF CopyBufferRegion, Running, RecordUses, queueVars, recorderVars, threadVars, useVars, ClosedInv, FenceInv, WaitInv, IsSignaled
<1>9. ASSUME NEW B \in SUBSET Buffers, ReadbackFromGpu(B) PROVE ClosedInv'
  BY <1>9, Numbers DEF ReadbackFromGpu, Running, FlushRecorded, Submit, WaitForSignal, queueVars, recorderVars, threadVars, useVars, ClosedInv, FenceInv, WaitInv, IsSignaled
<1>10. ASSUME NEW b \in Buffers, AllocBuffer(b) PROVE ClosedInv'
  BY <1>10, Numbers DEF AllocBuffer, Running, queueVars, recorderVars, threadVars, useVars, ClosedInv, FenceInv, WaitInv, IsSignaled
<1>11. ASSUME NEW b \in Buffers, FreeBuffer(b) PROVE ClosedInv'
  BY <1>11, Numbers DEF FreeBuffer, QueueReference, queueVars, recorderVars, threadVars, useVars, ClosedInv, FenceInv, WaitInv, IsSignaled
<1>12. ASSUME Flush PROVE ClosedInv'
  BY <1>12, Numbers DEF Flush, Running, FlushRecorded, Submit, queueVars, recorderVars, threadVars, useVars, ClosedInv, FenceInv, WaitInv, IsSignaled
<1>13. ASSUME OnSessionInitializationEnd PROVE ClosedInv'
  BY <1>13, Numbers DEF OnSessionInitializationEnd, Running, FlushRecorded, Submit, WaitForSignal, queueVars, recorderVars, threadVars, useVars, ClosedInv, FenceInv, WaitInv, IsSignaled
<1>14. ASSUME WaitDone PROVE ClosedInv'
  BY <1>14, Numbers DEF WaitDone, queueVars, recorderVars, threadVars, useVars, ClosedInv, FenceInv, WaitInv, IsSignaled
<1>15. ASSUME CloseAndExecuteFails PROVE ClosedInv'
  BY <1>15, Numbers DEF CloseAndExecuteFails, Running, queueVars, recorderVars, threadVars, useVars, ClosedInv, FenceInv, WaitInv, IsSignaled
<1>16. ASSUME Close PROVE ClosedInv'
  BY <1>16, Numbers DEF Close, queueVars, recorderVars, threadVars, useVars, ClosedInv, FenceInv, WaitInv, IsSignaled
<1>17. ASSUME CloseDone PROVE ClosedInv'
  BY <1>17, Numbers DEF CloseDone, queueVars, recorderVars, threadVars, useVars, ClosedInv, FenceInv, WaitInv, IsSignaled
<1>18. ASSUME GpuComplete PROVE ClosedInv'
  BY <1>18, Numbers DEF GpuComplete, queueVars, recorderVars, threadVars, useVars, ClosedInv, FenceInv, WaitInv, IsSignaled
<1>19. ASSUME DeviceRemoved PROVE ClosedInv'
  BY <1>19, Numbers DEF DeviceRemoved, queueVars, recorderVars, threadVars, useVars, ClosedInv, FenceInv, WaitInv, IsSignaled
<1>20. CASE UNCHANGED vars
  BY <1>20 DEF vars, queueVars, recorderVars, threadVars, useVars, ClosedInv, FenceInv, WaitInv, IsSignaled
<1> QED
  BY <1>1, <1>2, <1>3, <1>4, <1>5, <1>6, <1>7, <1>8, <1>9, <1>10, <1>11, <1>12, <1>13, <1>14, <1>15, <1>16, <1>17, <1>18, <1>19, <1>20 DEF Next

\* The recorder's list always belongs to an allocator whose event is the next
\* batch's, whether it was open before or is opened now.
LEMMA RingMoves ==
  ASSUME TypeOK, FenceInv, RingInv, ~removed
  PROVE  /\ OpenedRing.event[OpenedRing.current] = lastFence + 1
         /\ \A i \in {0, 1} : allocBusy[i] <= OpenedRing.event[i]
         /\ LET r == Open(OpenedRing, lastFence + 1)
            IN  /\ r.event[r.current] = lastFence + 2
                /\ \A i \in {0, 1} :
                     [allocBusy EXCEPT ![OpenedRing.current] = lastFence + 1][i] <= r.event[i]
         /\ LET r == UpdateCurrentAllocatorCompletionEvent(OpenedRing)
            IN  /\ r.event[r.current] = lastFence + 2
                /\ \A i \in {0, 1} : allocBusy[i] <= r.event[i]
<1>1. /\ ring \in Ring /\ lastFence \in Nat /\ allocBusy \in [{0, 1} -> Nat]
      /\ OpenedRing \in Ring /\ OpenedRing.current \in {0, 1}
      /\ OpenedRing.event \in [{0, 1} -> Nat] /\ ring.event \in [{0, 1} -> Nat]
  BY RingType, Numbers DEF TypeOK, Ring
<1>2. /\ OpenedRing.event[OpenedRing.current] = lastFence + 1
      /\ \A i \in {0, 1} : allocBusy[i] <= OpenedRing.event[i]
  <2>1. CASE recorder
    BY <1>1, <2>1 DEF OpenedRing, RingInv
  <2>2. CASE ~recorder
    <3>1. OpenedRing = Open(ring, lastFence)
      BY <2>2 DEF OpenedRing
    <3>2. /\ OpenedRing.event[OpenedRing.current] = lastFence + 1
          /\ \A i \in {0, 1} : \/ OpenedRing.event[i] = ring.event[i]
                               \/ OpenedRing.event[i] = lastFence + 1
      BY <1>1, <3>1, OpenRing
    <3>3. \A i \in {0, 1} : allocBusy[i] <= ring.event[i] /\ allocBusy[i] <= lastFence
      BY DEF RingInv, FenceInv
    <3> QED
      BY <1>1, <3>2, <3>3
  <2> QED
    BY <2>1, <2>2
<1>3. LET r == Open(OpenedRing, lastFence + 1)
      IN  /\ r.event[r.current] = lastFence + 2
          /\ \A i \in {0, 1} :
               [allocBusy EXCEPT ![OpenedRing.current] = lastFence + 1][i] <= r.event[i]
  <2> DEFINE r == Open(OpenedRing, lastFence + 1)
  <2>1. /\ r \in Ring
        /\ r.event[r.current] = (lastFence + 1) + 1
        /\ \A i \in {0, 1} : r.event[i] = OpenedRing.event[i] \/ r.event[i] = (lastFence + 1) + 1
    <3>1. lastFence + 1 \in Nat
      BY <1>1
    <3> QED
      BY <1>1, <3>1, OpenRing
  <2>2. r.event \in [{0, 1} -> Nat]
    BY <2>1 DEF Ring
  <2> HIDE DEF r
  <2>3. \A i \in {0, 1} : allocBusy[i] <= lastFence
    BY DEF FenceInv
  <2>4. \A i \in {0, 1} :
          [allocBusy EXCEPT ![OpenedRing.current] = lastFence + 1][i] <= r.event[i]
    <3> SUFFICES ASSUME NEW i \in {0, 1}
                 PROVE  [allocBusy EXCEPT ![OpenedRing.current] = lastFence + 1][i] <= r.event[i]
      OBVIOUS
    <3>1. CASE i = OpenedRing.current
      <4>1. r.event[i] = OpenedRing.event[i] \/ r.event[i] = (lastFence + 1) + 1
        BY <2>1
      <4>2. OpenedRing.event[i] = lastFence + 1
        BY <1>2, <3>1
      <4>3. [allocBusy EXCEPT ![OpenedRing.current] = lastFence + 1][i] = lastFence + 1
        BY <1>1, <3>1
      <4> QED
        BY <1>1, <4>1, <4>2, <4>3
    <3>2. CASE i # OpenedRing.current
      <4>1. [allocBusy EXCEPT ![OpenedRing.current] = lastFence + 1][i] = allocBusy[i]
        BY <1>1, <3>2
      <4> QED
        BY <1>1, <1>2, <2>1, <2>2, <2>3, <4>1
    <3> QED
      BY <3>1, <3>2
  <2>5. r.event[r.current] = lastFence + 2
    BY <1>1, <2>1
  <2> QED
    BY <2>4, <2>5 DEF r
<1>4. LET r == UpdateCurrentAllocatorCompletionEvent(OpenedRing)
      IN  /\ r.event[r.current] = lastFence + 2
          /\ \A i \in {0, 1} : allocBusy[i] <= r.event[i]
  BY <1>1, <1>2 DEF UpdateCurrentAllocatorCompletionEvent, Ring, FenceInv
<1> QED
  BY <1>2, <1>3, <1>4


\* Completion events keep covering the recorded work, across flushes and
\* unrelated submissions.
LEMMA RingStep == TypeOK /\ FenceInv /\ RingInv /\ [Next]_vars => RingInv'
<1> SUFFICES ASSUME TypeOK /\ FenceInv /\ RingInv, [Next]_vars PROVE RingInv'
  OBVIOUS
<1>1. ASSUME NEW k \in Kernels, CreateKernel(k) PROVE RingInv'
  <2>1. ring' = OpenedRing /\ recorder' /\ UNCHANGED <<lastFence, allocBusy, removed>>
    BY <1>1 DEF CreateKernel, RecordUses, queueVars
  <2> QED
    BY <2>1, RingMoves DEF RingInv
<1>2. ASSUME NEW k \in Kernels, ComputeShapeChangedFails(k) PROVE RingInv'
  <2>1. ring' = OpenedRing /\ recorder' /\ UNCHANGED <<lastFence, allocBusy, removed>>
    BY <1>2 DEF ComputeShapeChangedFails, RecordUses, queueVars
  <2> QED
    BY <2>1, RingMoves DEF RingInv
<1>3. ASSUME NEW k \in Kernels, ReleaseKernel(k) PROVE RingInv'
  BY <1>3 DEF ReleaseKernel, QueueReference, queueVars, recorderVars, threadVars, useVars, RingInv
<1>4. ASSUME NEW k \in Kernels, ExecuteCommandListFails(k) PROVE RingInv'
  BY <1>4 DEF ExecuteCommandListFails, Running, UpdateCurrentAllocatorCompletionEvent, queueVars, recorderVars, threadVars, useVars, RingInv
<1>5. ASSUME NEW k \in Kernels, NEW B \in SUBSET Buffers, Compute(k, B) PROVE RingInv'
  <2>1. ring' = OpenedRing /\ recorder' /\ UNCHANGED <<lastFence, allocBusy, removed>>
    BY <1>5 DEF Compute, RecordUses, queueVars
  <2> QED
    BY <2>1, RingMoves DEF RingInv
<1>6. ASSUME NEW k \in Kernels, NEW B \in SUBSET Buffers, ComputeShapeChanged(k, B) PROVE RingInv'
  <2>1. ring' = OpenedRing /\ recorder' /\ UNCHANGED <<lastFence, allocBusy, removed>>
    BY <1>6 DEF ComputeShapeChanged, RecordUses, queueVars
  <2> QED
    BY <2>1, RingMoves DEF RingInv
<1>7. ASSUME NEW k \in Kernels, NEW B \in SUBSET Buffers, ExecuteCommandList(k, B) PROVE RingInv'
  <2>1. lastFence' = lastFence + 1 /\ UNCHANGED removed
    BY <1>7 DEF ExecuteCommandList, Submit
  <2>2. CASE ~recorded
    <3>1. ring' = UpdateCurrentAllocatorCompletionEvent(OpenedRing) /\ UNCHANGED allocBusy
      BY <1>7, <2>2 DEF ExecuteCommandList
    <3> QED
      BY <2>1, <3>1, RingMoves, Numbers DEF RingInv
  <2>3. CASE recorded
    <3>1. /\ ring' = Open(OpenedRing, lastFence + 1)
          /\ allocBusy' = [allocBusy EXCEPT ![OpenedRing.current] = lastFence + 1]
      BY <1>7, <2>3 DEF ExecuteCommandList
    <3> QED
      BY <2>1, <3>1, RingMoves, Numbers DEF RingInv
  <2> QED
    BY <2>2, <2>3
<1>8. ASSUME NEW B \in SUBSET Buffers, CopyBufferRegion(B) PROVE RingInv'
  <2>1. ring' = OpenedRing /\ recorder' /\ UNCHANGED <<lastFence, allocBusy, removed>>
    BY <1>8 DEF CopyBufferRegion, RecordUses, queueVars
  <2> QED
    BY <2>1, RingMoves DEF RingInv
<1>9. ASSUME NEW B \in SUBSET Buffers, ReadbackFromGpu(B) PROVE RingInv'
  <2>1. /\ ring' = Open(OpenedRing, lastFence + 1) /\ UNCHANGED removed
        /\ lastFence' = lastFence + 1
        /\ allocBusy' = [allocBusy EXCEPT ![OpenedRing.current] = lastFence + 1]
    BY <1>9 DEF ReadbackFromGpu, FlushRecorded, Submit, WaitForSignal
  <2> QED
    BY <2>1, RingMoves, Numbers DEF RingInv
<1>10. ASSUME NEW b \in Buffers, AllocBuffer(b) PROVE RingInv'
  BY <1>10 DEF AllocBuffer, Running, queueVars, recorderVars, threadVars, useVars, RingInv
<1>11. ASSUME NEW b \in Buffers, FreeBuffer(b) PROVE RingInv'
  BY <1>11 DEF FreeBuffer, QueueReference, queueVars, recorderVars, threadVars, useVars, RingInv
<1>12. ASSUME Flush PROVE RingInv'
  <2>1. /\ ring' = Open(OpenedRing, lastFence + 1) /\ UNCHANGED removed
        /\ lastFence' = lastFence + 1
        /\ allocBusy' = [allocBusy EXCEPT ![OpenedRing.current] = lastFence + 1]
    BY <1>12 DEF Flush, FlushRecorded, Submit, WaitForSignal
  <2> QED
    BY <2>1, RingMoves, Numbers DEF RingInv
<1>13. ASSUME OnSessionInitializationEnd PROVE RingInv'
  <2>1. CASE UNCHANGED <<lastFence, refs, recorderVars, useVars>>
    BY <1>13, <2>1 DEF OnSessionInitializationEnd, WaitForSignal, recorderVars, useVars, RingInv
  <2>2. CASE FlushRecorded({})
    <3>1. /\ ring' = Open(OpenedRing, lastFence + 1) /\ UNCHANGED removed
          /\ lastFence' = lastFence + 1
          /\ allocBusy' = [allocBusy EXCEPT ![OpenedRing.current] = lastFence + 1]
      BY <1>13, <2>2 DEF OnSessionInitializationEnd, FlushRecorded, Submit, WaitForSignal
    <3> QED
      BY <3>1, RingMoves, Numbers DEF RingInv
  <2> QED
    BY <1>13, <2>1, <2>2 DEF OnSessionInitializationEnd
<1>14. ASSUME WaitDone PROVE RingInv'
  BY <1>14 DEF WaitDone, queueVars, recorderVars, threadVars, useVars, RingInv
<1>15. ASSUME CloseAndExecuteFails PROVE RingInv'
  BY <1>15 DEF CloseAndExecuteFails, Running, queueVars, recorderVars, threadVars, useVars, RingInv
<1>16. ASSUME Close PROVE RingInv'
  BY <1>16 DEF Close, queueVars, recorderVars, threadVars, useVars, RingInv
<1>17. ASSUME CloseDone PROVE RingInv'
  BY <1>17 DEF CloseDone, queueVars, recorderVars, threadVars, useVars, RingInv
<1>18. ASSUME GpuComplete PROVE RingInv'
  BY <1>18 DEF GpuComplete, queueVars, recorderVars, threadVars, useVars, RingInv
<1>19. ASSUME DeviceRemoved PROVE RingInv'
  BY <1>19 DEF DeviceRemoved, queueVars, recorderVars, threadVars, useVars, RingInv
<1>20. CASE UNCHANGED vars
  BY <1>20 DEF vars, queueVars, recorderVars, threadVars, useVars, RingInv
<1> QED
  BY <1>1, <1>2, <1>3, <1>4, <1>5, <1>6, <1>7, <1>8, <1>9, <1>10, <1>11, <1>12, <1>13, <1>14, <1>15, <1>16, <1>17, <1>18, <1>19, <1>20 DEF Next

\* A reference queued last keeps the list ascending, when it waits for the
\* newest batch there is, and keeps every protection.
LEMMA AppendKeeps ==
  ASSUME TypeOK, RefsInv, NEW f \in Nat, NEW o \in Objects,
         f >= lastFence + (IF recorder THEN 1 ELSE 0),
         NEW q, q = Append(refs, [fence |-> f, object |-> o])
  PROVE  /\ \A i, j \in DOMAIN q : i < j => q[i].fence <= q[j].fence
         /\ \A i \in DOMAIN q : q[i].fence <= f
         /\ \A i \in DOMAIN refs : \E j \in DOMAIN q : q[j] = refs[i]
         /\ \E j \in DOMAIN q : q[j].fence = f /\ q[j].object = o
         /\ \A j \in DOMAIN q : q[j].object = o \/ \E i \in DOMAIN refs : q[j] = refs[i]
<1>1. /\ q \in Seq(Reference)
      /\ Len(q) = Len(refs) + 1
      /\ \A i \in DOMAIN refs : i \in DOMAIN q /\ q[i] = refs[i]
      /\ Len(q) \in DOMAIN q /\ q[Len(q)] = [fence |-> f, object |-> o]
      /\ DOMAIN q = DOMAIN refs \cup {Len(q)}
  BY AppendReference
<1>2. /\ lastFence \in Nat /\ Len(refs) \in Nat /\ DOMAIN refs = 1..Len(refs)
      /\ \A i \in DOMAIN refs : refs[i].fence \in Nat
  BY Numbers
<1>3. q[Len(q)].fence = f /\ q[Len(q)].object = o
  BY <1>1
<1>4. \A i \in DOMAIN refs : refs[i].fence <= f
  BY <1>2 DEF RefsInv
<1>5. \A i \in DOMAIN q : q[i].fence <= f
  BY <1>1, <1>2, <1>3, <1>4
<1>6. \A i, j \in DOMAIN q : i < j => q[i].fence <= q[j].fence
  <2> SUFFICES ASSUME NEW i \in DOMAIN q, NEW j \in DOMAIN q, i < j
               PROVE  q[i].fence <= q[j].fence
    OBVIOUS
  <2>1. CASE j = Len(q)
    BY <1>3, <1>5, <2>1
  <2>2. CASE j # Len(q)
    <3>1. i \in DOMAIN refs /\ j \in DOMAIN refs
      BY <1>1, <1>2, <2>2
    <3> QED
      BY <1>1, <3>1 DEF RefsInv
  <2> QED
    BY <2>1, <2>2
<1> QED
  BY <1>1, <1>3, <1>5, <1>6

\* Kernels only exist once something was recorded.
LEMMA SetupStep == TypeOK /\ SetupInv /\ ClosedInv /\ [Next]_vars => SetupInv'
<1> SUFFICES ASSUME TypeOK /\ SetupInv /\ ClosedInv, [Next]_vars PROVE SetupInv'
  OBVIOUS
<1>1. ASSUME NEW k \in Kernels, CreateKernel(k) PROVE SetupInv'
  BY <1>1 DEF CreateKernel, Running, RecordUses, QueueReference, Uses, queueVars, recorderVars, threadVars, useVars, SetupInv
<1>2. ASSUME NEW k \in Kernels, ComputeShapeChangedFails(k) PROVE SetupInv'
  BY <1>2 DEF ComputeShapeChangedFails, Running, RecordUses, QueueReference, Uses, queueVars, recorderVars, threadVars, useVars, SetupInv
<1>3. ASSUME NEW k \in Kernels, ReleaseKernel(k) PROVE SetupInv'
  BY <1>3 DEF ReleaseKernel, QueueReference, queueVars, recorderVars, threadVars, useVars, SetupInv
<1>4. ASSUME NEW k \in Kernels, ExecuteCommandListFails(k) PROVE SetupInv'
  BY <1>4 DEF ExecuteCommandListFails, Running, UpdateCurrentAllocatorCompletionEvent, queueVars, recorderVars, threadVars, useVars, SetupInv
<1>5. ASSUME NEW k \in Kernels, NEW B \in SUBSET Buffers, Compute(k, B) PROVE SetupInv'
  BY <1>5 DEF Compute, Running, RecordUses, QueueReference, Uses, queueVars, recorderVars, threadVars, useVars, SetupInv
<1>6. ASSUME NEW k \in Kernels, NEW B \in SUBSET Buffers, ComputeShapeChanged(k, B) PROVE SetupInv'
  BY <1>6 DEF ComputeShapeChanged, Running, RecordUses, QueueReference, Uses, queueVars, recorderVars, threadVars, useVars, SetupInv
<1>7. ASSUME NEW k \in Kernels, NEW B \in SUBSET Buffers, ExecuteCommandList(k, B) PROVE SetupInv'
  BY <1>7 DEF ExecuteCommandList, Running, Submit, UpdateCurrentAllocatorCompletionEvent, Uses, queueVars, recorderVars, threadVars, useVars, SetupInv
<1>8. ASSUME NEW B \in SUBSET Buffers, CopyBufferRegion(B) PROVE SetupInv'
  BY <1>8 DEF CopyBufferRegion, Running, RecordUses, queueVars, recorderVars, threadVars, useVars, SetupInv
<1>9. ASSUME NEW B \in SUBSET Buffers, ReadbackFromGpu(B) PROVE SetupInv'
  BY <1>9 DEF ReadbackFromGpu, Running, FlushRecorded, Submit, WaitForSignal, queueVars, recorderVars, threadVars, useVars, SetupInv
<1>10. ASSUME NEW b \in Buffers, AllocBuffer(b) PROVE SetupInv'
  BY <1>10, ObjectsAssumption DEF AllocBuffer, Running, queueVars, recorderVars, threadVars, SetupInv
<1>11. ASSUME NEW b \in Buffers, FreeBuffer(b) PROVE SetupInv'
  <2>1. CASE closed
    BY <1>11, <2>1 DEF FreeBuffer, threadVars, SetupInv
  <2>2. CASE ~closed
    <3>1. lastFence + (IF recorder THEN 1 ELSE 0) \in Nat
      BY Numbers DEF TypeOK
    <3>2. \A j \in DOMAIN refs' : refs'[j].object = b \/ \E i \in DOMAIN refs : refs'[j] = refs[i]
      <4>1. refs' = Append(refs, [fence |-> lastFence + (IF recorder THEN 1 ELSE 0), object |-> b])
        BY <1>11, <2>2 DEF FreeBuffer, QueueReference
      <4>2. /\ DOMAIN refs' = DOMAIN refs \cup {Len(refs')}
            /\ \A i \in DOMAIN refs : refs'[i] = refs[i]
            /\ refs'[Len(refs')] = [fence |-> lastFence + (IF recorder THEN 1 ELSE 0), object |-> b]
        BY <3>1, <4>1, AppendReference, ObjectKinds
      <4>3. refs'[Len(refs')].object = b
        BY <4>2
      <4> QED
        BY <4>2, <4>3
    <3> QED
      BY <1>11, <2>2, <3>2 DEF FreeBuffer, recorderVars, threadVars, SetupInv
  <2> QED
    BY <2>1, <2>2
<1>12. ASSUME Flush PROVE SetupInv'
  BY <1>12 DEF Flush, Running, FlushRecorded, Submit, queueVars, recorderVars, threadVars, useVars, SetupInv
<1>13. ASSUME OnSessionInitializationEnd PROVE SetupInv'
  BY <1>13 DEF OnSessionInitializationEnd, Running, FlushRecorded, Submit, WaitForSignal, queueVars, recorderVars, threadVars, useVars, SetupInv
<1>14. ASSUME WaitDone PROVE SetupInv'
  <2>1. \A j \in DOMAIN refs' :
          \/ \E i \in DOMAIN refs : refs[i].object \in Kernels
          \/ \E i \in DOMAIN refs : refs'[j] = refs[i]
    BY <1>14, Numbers, ReleaseKeeps DEF WaitDone
  <2> QED
    BY <1>14, <2>1, ObjectsAssumption DEF WaitDone, recorderVars, SetupInv
<1>15. ASSUME CloseAndExecuteFails PROVE SetupInv'
  BY <1>15 DEF CloseAndExecuteFails, Running, queueVars, recorderVars, threadVars, useVars, SetupInv
<1>16. ASSUME Close PROVE SetupInv'
  BY <1>16 DEF Close, queueVars, recorderVars, threadVars, useVars, SetupInv
<1>17. ASSUME CloseDone PROVE SetupInv'
  BY <1>17 DEF CloseDone, queueVars, recorderVars, threadVars, useVars, SetupInv
<1>18. ASSUME GpuComplete PROVE SetupInv'
  BY <1>18 DEF GpuComplete, queueVars, recorderVars, threadVars, useVars, SetupInv
<1>19. ASSUME DeviceRemoved PROVE SetupInv'
  BY <1>19 DEF DeviceRemoved, queueVars, recorderVars, threadVars, useVars, SetupInv
<1>20. CASE UNCHANGED vars
  BY <1>20 DEF vars, queueVars, recorderVars, threadVars, useVars, SetupInv
<1> QED
  BY <1>1, <1>2, <1>3, <1>4, <1>5, <1>6, <1>7, <1>8, <1>9, <1>10, <1>11, <1>12, <1>13, <1>14, <1>15, <1>16, <1>17, <1>18, <1>19, <1>20 DEF Next

\* A reference queued for the newest batch keeps the list ascending.
LEMMA AppendRefs ==
  ASSUME TypeOK, RefsInv, NEW f \in Nat, NEW o \in Objects,
         f >= lastFence + (IF recorder THEN 1 ELSE 0),
         refs' = Append(refs, [fence |-> f, object |-> o]),
         f = lastFence' + (IF recorder' THEN 1 ELSE 0)
  PROVE  RefsInv'
BY AppendKeeps DEF RefsInv

\* A flush keeps the release list ascending.
LEMMA FlushRefs ==
  ASSUME TypeOK, RefsInv, lastFence' = lastFence + 1, recorder' = TRUE,
         ReleaseCompleted(lastFence + 1)
  PROVE  RefsInv'
<1>1. lastFence + 1 \in Nat /\ \A i \in DOMAIN refs : refs[i].fence <= (lastFence + 1) + 1
  BY Numbers DEF RefsInv
<1>2. /\ \A i, j \in DOMAIN refs' : i < j => refs'[i].fence <= refs'[j].fence
      /\ \A j \in DOMAIN refs' : \/ refs'[j].fence = (lastFence + 1) + 1
                                 \/ \E i \in DOMAIN refs : refs'[j] = refs[i]
  BY <1>1, ReleaseKeeps DEF RefsInv
<1> QED
  BY <1>1, <1>2 DEF RefsInv

\* The release list stays in the order in which its references expire.
LEMMA RefsStep == TypeOK /\ FenceInv /\ RefsInv /\ SetupInv /\ ClosedInv /\ [Next]_vars => RefsInv'
<1> SUFFICES ASSUME TypeOK /\ FenceInv /\ RefsInv /\ SetupInv /\ ClosedInv, [Next]_vars PROVE RefsInv'
  OBVIOUS
<1>1. ASSUME NEW k \in Kernels, CreateKernel(k) PROVE RefsInv'
  <2>1. refs' = Append(refs, [fence |-> lastFence + 1, object |-> k])
    BY <1>1 DEF CreateKernel, QueueReference
  <2>2. UNCHANGED lastFence /\ recorder' = TRUE
    BY <1>1 DEF CreateKernel, RecordUses
  <2> QED
    BY <2>1, <2>2, AppendRefs, ObjectKinds, Numbers
<1>2. ASSUME NEW k \in Kernels, ComputeShapeChangedFails(k) PROVE RefsInv'
  <2>1. refs' = Append(refs, [fence |-> lastFence + 1, object |-> Persistent(k)])
    BY <1>2 DEF ComputeShapeChangedFails, QueueReference
  <2>2. UNCHANGED lastFence /\ recorder' = TRUE
    BY <1>2 DEF ComputeShapeChangedFails, RecordUses
  <2> QED
    BY <2>1, <2>2, AppendRefs, ObjectKinds, Numbers
<1>3. ASSUME NEW k \in Kernels, ReleaseKernel(k) PROVE RefsInv'
  <2>1. CASE closed \/ Referenced(k, refs)
    BY <1>3, <2>1 DEF ReleaseKernel, recorderVars, RefsInv
  <2>2. CASE ~(closed \/ Referenced(k, refs))
    <3>1. refs' = Append(refs, [fence |-> lastFence + (IF recorder THEN 1 ELSE 0), object |-> Persistent(k)])
      BY <1>3, <2>2 DEF ReleaseKernel, QueueReference
    <3>2. lastFence + (IF recorder THEN 1 ELSE 0) \in Nat /\ UNCHANGED <<lastFence, recorder>>
      BY <1>3, Numbers DEF ReleaseKernel, recorderVars
    <3> QED
      BY <3>1, <3>2, AppendRefs, ObjectKinds, Numbers
  <2> QED
    BY <2>1, <2>2
<1>4. ASSUME NEW k \in Kernels, ExecuteCommandListFails(k) PROVE RefsInv'
  BY <1>4, Numbers DEF ExecuteCommandListFails, Running, UpdateCurrentAllocatorCompletionEvent, queueVars, recorderVars, threadVars, useVars, RefsInv
<1>5. ASSUME NEW k \in Kernels, NEW B \in SUBSET Buffers, Compute(k, B) PROVE RefsInv'
  <2>1. refs' = Append(refs, [fence |-> lastFence + 1, object |-> k])
    BY <1>5 DEF Compute, QueueReference
  <2>2. UNCHANGED lastFence /\ recorder' = TRUE
    BY <1>5 DEF Compute, RecordUses
  <2> QED
    BY <2>1, <2>2, AppendRefs, ObjectKinds, Numbers
<1>6. ASSUME NEW k \in Kernels, NEW B \in SUBSET Buffers, ComputeShapeChanged(k, B) PROVE RefsInv'
  <2>1. refs' = Append(refs, [fence |-> lastFence + 1, object |-> k])
    BY <1>6 DEF ComputeShapeChanged, QueueReference
  <2>2. UNCHANGED lastFence /\ recorder' = TRUE
    BY <1>6 DEF ComputeShapeChanged, RecordUses
  <2> QED
    BY <2>1, <2>2, AppendRefs, ObjectKinds, Numbers
<1>7. ASSUME NEW k \in Kernels, NEW B \in SUBSET Buffers, ExecuteCommandList(k, B) PROVE RefsInv'
  <2>1. refs' = Append(refs, [fence |-> lastFence + 2, object |-> k])
    BY <1>7 DEF ExecuteCommandList
  <2>2. lastFence' = lastFence + 1 /\ recorder' = TRUE
    BY <1>7 DEF ExecuteCommandList, Submit
  <2>3. /\ lastFence + 2 \in Nat
        /\ lastFence + 2 >= lastFence + (IF recorder THEN 1 ELSE 0)
        /\ lastFence + 2 = lastFence' + (IF recorder' THEN 1 ELSE 0)
    BY <2>2, Numbers
  <2> QED
    BY <2>1, <2>3, AppendRefs, ObjectKinds
<1>8. ASSUME NEW B \in SUBSET Buffers, CopyBufferRegion(B) PROVE RefsInv'
  BY <1>8, Numbers DEF CopyBufferRegion, Running, RecordUses, queueVars, recorderVars, threadVars, useVars, RefsInv
<1>9. ASSUME NEW B \in SUBSET Buffers, ReadbackFromGpu(B) PROVE RefsInv'
  <2>1. lastFence' = lastFence + 1 /\ recorder' = TRUE /\ ReleaseCompleted(lastFence + 1)
    BY <1>9 DEF ReadbackFromGpu, FlushRecorded, Submit
  <2> QED
    BY <2>1, FlushRefs
<1>10. ASSUME NEW b \in Buffers, AllocBuffer(b) PROVE RefsInv'
  BY <1>10, Numbers DEF AllocBuffer, Running, queueVars, recorderVars, threadVars, useVars, RefsInv
<1>11. ASSUME NEW b \in Buffers, FreeBuffer(b) PROVE RefsInv'
  <2>1. CASE closed
    BY <1>11, <2>1 DEF FreeBuffer, recorderVars, RefsInv
  <2>2. CASE ~closed
    <3>1. refs' = Append(refs, [fence |-> lastFence + (IF recorder THEN 1 ELSE 0), object |-> b])
      BY <1>11, <2>2 DEF FreeBuffer, QueueReference
    <3>2. lastFence + (IF recorder THEN 1 ELSE 0) \in Nat /\ UNCHANGED <<lastFence, recorder>>
      BY <1>11, Numbers DEF FreeBuffer, recorderVars
    <3> QED
      BY <3>1, <3>2, AppendRefs, ObjectKinds, Numbers
  <2> QED
    BY <2>1, <2>2
<1>12. ASSUME Flush PROVE RefsInv'
  <2>1. lastFence' = lastFence + 1 /\ recorder' = TRUE /\ ReleaseCompleted(lastFence + 1)
    BY <1>12 DEF Flush, FlushRecorded, Submit
  <2> QED
    BY <2>1, FlushRefs
<1>13. ASSUME OnSessionInitializationEnd PROVE RefsInv'
  <2>1. CASE UNCHANGED <<lastFence, refs, recorderVars, useVars>>
    BY <1>13, <2>1 DEF recorderVars, RefsInv
  <2>2. CASE FlushRecorded({})
    <3>1. lastFence' = lastFence + 1 /\ recorder' = TRUE /\ ReleaseCompleted(lastFence + 1)
      BY <2>2 DEF FlushRecorded, Submit
    <3> QED
      BY <3>1, FlushRefs
  <2> QED
    BY <1>13, <2>1, <2>2 DEF OnSessionInitializationEnd
<1>14. ASSUME WaitDone PROVE RefsInv'
  <2>1. lastFence' = lastFence /\ UNCHANGED recorder /\ ReleaseCompleted(lastFence) /\ UNCHANGED closed
    BY <1>14 DEF WaitDone, recorderVars
  <2>2. \A i \in DOMAIN refs : refs[i].fence <= lastFence + 1
    BY Numbers DEF RefsInv
  <2>3. /\ \A i, j \in DOMAIN refs' : i < j => refs'[i].fence <= refs'[j].fence
        /\ \A j \in DOMAIN refs' :
             \/ refs'[j].fence = lastFence + 1 /\ \E i \in DOMAIN refs : refs[i].object \in Kernels
             \/ \E i \in DOMAIN refs : refs'[j] = refs[i]
    BY <2>1, <2>2, ReleaseKeeps, Numbers DEF RefsInv
  <2>4. (\E i \in DOMAIN refs : refs[i].object \in Kernels) => recorder
    BY ObjectsAssumption DEF SetupInv, ClosedInv
  <2> QED
    BY <2>1, <2>2, <2>3, <2>4, Numbers DEF RefsInv
<1>15. ASSUME CloseAndExecuteFails PROVE RefsInv'
  BY <1>15, Numbers DEF CloseAndExecuteFails, Running, queueVars, recorderVars, threadVars, useVars, RefsInv
<1>16. ASSUME Close PROVE RefsInv'
  BY <1>16, Numbers DEF Close, queueVars, recorderVars, threadVars, useVars, RefsInv
<1>17. ASSUME CloseDone PROVE RefsInv'
  BY <1>17, Numbers DEF CloseDone, queueVars, recorderVars, threadVars, useVars, RefsInv
<1>18. ASSUME GpuComplete PROVE RefsInv'
  BY <1>18, Numbers DEF GpuComplete, queueVars, recorderVars, threadVars, useVars, RefsInv
<1>19. ASSUME DeviceRemoved PROVE RefsInv'
  BY <1>19, Numbers DEF DeviceRemoved, queueVars, recorderVars, threadVars, useVars, RefsInv
<1>20. CASE UNCHANGED vars
  BY <1>20 DEF vars, queueVars, recorderVars, threadVars, useVars, RefsInv
<1> QED
  BY <1>1, <1>2, <1>3, <1>4, <1>5, <1>6, <1>7, <1>8, <1>9, <1>10, <1>11, <1>12, <1>13, <1>14, <1>15, <1>16, <1>17, <1>18, <1>19, <1>20 DEF Next

-----------------------------------------------------------------------------
\* What a step must do for unfinished work to stay protected.
LEMMA UseInvPrimed ==
  ASSUME recordedUses' # {} => recorder',
         ~removed' => /\ \A x \in recordedUses' : Protected(refs', held', x, lastFence' + 1)
                      /\ \A x \in Objects : lastUse'[x] > completed'
                                              => Protected(refs', held', x, lastUse'[x])
  PROVE  UseInv'
BY DEF UseInv, Protected

\* Protection survives while the references that wait long enough stay queued
\* and the session keeps its buffers.
LEMMA KeepsProtected ==
  ASSUME NEW q, NEW h, NEW x, NEW f,
         Protected(refs, held, x, f),
         x \in Buffers /\ x \in held => x \in h,
         \A i \in DOMAIN refs : refs[i].fence >= f => \E j \in DOMAIN q : q[j] = refs[i]
  PROVE  Protected(q, h, x, f)
BY DEF Protected

\* A recording handler that uses the objects in S and queues a reference to o.
LEMMA RecordStep ==
  ASSUME TypeOK, RefsInv, UseInv, ~removed,
         NEW o \in Objects, NEW S \in SUBSET Objects,
         refs' = Append(refs, [fence |-> lastFence + 1, object |-> o]),
         UNCHANGED <<lastFence, completed, removed>>, held \subseteq held',
         recorder' = TRUE,
         recordedUses' = recordedUses \cup S,
         \A x \in S : o \in Guards(x) \/ (x \in Buffers /\ x \in held'),
         \A x \in Objects : lastUse'[x] = lastUse[x] \/ lastUse'[x] = 0
  PROVE  UseInv'
<1>1. /\ lastFence \in Nat /\ completed \in Nat /\ lastFence + 1 \in Nat
      /\ lastUse \in [Objects -> Nat] /\ recordedUses \subseteq Objects
  BY Numbers DEF TypeOK
<1>2. /\ \A i \in DOMAIN refs : \E j \in DOMAIN refs' : refs'[j] = refs[i]
      /\ \E j \in DOMAIN refs' : refs'[j].fence = lastFence + 1 /\ refs'[j].object = o
  <2>1. lastFence + 1 >= lastFence + (IF recorder THEN 1 ELSE 0)
    BY <1>1
  <2>2. \A i \in DOMAIN refs : \E j \in DOMAIN refs' : refs'[j] = refs[i]
    BY <1>1, <2>1, AppendKeeps
  <2>3. \E j \in DOMAIN refs' : refs'[j].fence = lastFence + 1 /\ refs'[j].object = o
    <3> DEFINE f == lastFence + 1
    <3>1. f \in Nat /\ f >= lastFence + (IF recorder THEN 1 ELSE 0)
          /\ refs' = Append(refs, [fence |-> f, object |-> o])
      BY <1>1, <2>1
    <3> HIDE DEF f
    <3>2. \E j \in DOMAIN refs' : refs'[j].fence = f /\ refs'[j].object = o
      BY <3>1, AppendKeeps
    <3> QED
      BY <3>2 DEF f
  <2> QED
    BY <2>2, <2>3
<1>3. \A x \in recordedUses' : Protected(refs', held', x, lastFence' + 1)
  <2> SUFFICES ASSUME NEW x \in recordedUses'
               PROVE  Protected(refs', held', x, lastFence + 1)
    OBVIOUS
  <2>1. CASE x \in recordedUses
    <3>1. Protected(refs, held, x, lastFence + 1)
      BY <2>1 DEF UseInv
    <3> QED
      BY <1>2, <3>1, KeepsProtected
  <2>2. CASE x \in S
    BY <1>1, <1>2, <2>2 DEF Protected
  <2> QED
    BY <2>1, <2>2
<1>4. \A x \in Objects : lastUse'[x] > completed' => Protected(refs', held', x, lastUse'[x])
  <2> SUFFICES ASSUME NEW x \in Objects, lastUse'[x] > completed'
               PROVE  Protected(refs', held', x, lastUse'[x])
    OBVIOUS
  <2>1. lastUse'[x] = lastUse[x] /\ lastUse[x] > completed
    BY <1>1
  <2>2. Protected(refs, held, x, lastUse[x])
    BY <2>1 DEF UseInv
  <2> QED
    BY <1>2, <2>1, <2>2, KeepsProtected
<1> QED
  BY <1>3, <1>4, UseInvPrimed

\* A flush of the open list, to which copies from the buffers in S were added.
LEMMA FlushStep ==
  ASSUME TypeOK, FenceInv, RefsInv, UseInv, ~removed,
         NEW S \in SUBSET Buffers, S \subseteq held,
         FlushRecorded(S), UNCHANGED <<completed, removed, held>>
  PROVE  UseInv'
<1>1. /\ lastFence \in Nat /\ completed \in Nat /\ lastFence + 1 \in Nat
      /\ lastUse \in [Objects -> Nat] /\ recordedUses \subseteq Objects
      /\ \A i \in DOMAIN refs : refs[i].fence \in Nat
  BY Numbers DEF TypeOK
<1>2. \A i \in DOMAIN refs : refs[i].fence > completed => \E j \in DOMAIN refs' : refs'[j] = refs[i]
  BY <1>1, ReleaseKeeps DEF FlushRecorded
<1>3. /\ recordedUses' = {}
      /\ \A x \in Objects : lastUse'[x] = IF x \in recordedUses \cup S THEN lastFence + 1 ELSE lastUse[x]
  BY DEF FlushRecorded, Submit
<1>4. \A x \in Objects : lastUse'[x] > completed' => Protected(refs', held', x, lastUse'[x])
  <2> SUFFICES ASSUME NEW x \in Objects, lastUse'[x] > completed
               PROVE  Protected(refs', held, x, lastUse'[x])
    OBVIOUS
  <2>1. CASE x \in S
    BY <2>1 DEF Protected
  <2>2. CASE x \notin S
    <3>1. Protected(refs, held, x, lastUse'[x])
      BY <1>3, <2>2 DEF UseInv
    <3>2. lastUse'[x] \in Nat
      BY <1>1, <1>3
    <3>3. \A i \in DOMAIN refs : refs[i].fence >= lastUse'[x] => refs[i].fence > completed
      BY <1>1, <3>2
    <3> QED
      BY <1>2, <3>1, <3>3, KeepsProtected
  <2> QED
    BY <2>1, <2>2
<1> QED
  BY <1>3, <1>4, UseInvPrimed

\* A step that neither uses nor finishes anything, keeps the buffers, and keeps
\* the references that are not signalled.
LEMMA KeepStep ==
  ASSUME TypeOK, UseInv, ~removed,
         UNCHANGED <<lastFence, removed, lastUse>>,
         recordedUses' = {} \/ (recordedUses' = recordedUses /\ recorder' = recorder),
         completed' \in Nat, completed' >= completed,
         \A x \in Buffers : x \in held => x \in held',
         \A i \in DOMAIN refs : refs[i].fence > completed => \E j \in DOMAIN refs' : refs'[j] = refs[i],
         completed <= lastFence
  PROVE  UseInv'
<1>1. /\ lastFence \in Nat /\ completed \in Nat
      /\ lastUse \in [Objects -> Nat] /\ recordedUses \subseteq Objects
      /\ \A i \in DOMAIN refs : refs[i].fence \in Nat
  BY Numbers DEF TypeOK
<1>2. ASSUME NEW x, NEW f \in Nat, f > completed, Protected(refs, held, x, f)
      PROVE  Protected(refs', held', x, f)
  <2>1. \A i \in DOMAIN refs : refs[i].fence >= f => refs[i].fence > completed
    BY <1>1, <1>2
  <2> QED
    BY <1>2, <2>1, KeepsProtected
<1>3. \A x \in recordedUses' : Protected(refs', held', x, lastFence' + 1)
  BY <1>1, <1>2 DEF UseInv
<1>4. \A x \in Objects : lastUse'[x] > completed' => Protected(refs', held', x, lastUse'[x])
  BY <1>1, <1>2 DEF UseInv
<1>5. recordedUses' # {} => recorder'
  BY DEF UseInv
<1> QED
  BY <1>3, <1>4, <1>5, UseInvPrimed

\* No step takes the protection of unfinished work away, when every Compute
\* that recorded work also queues its reference.
LEMMA UseStep == ~FailingCompute /\ TypeOK /\ FenceInv /\ RefsInv /\ UseInv /\ ClosedInv /\ WaitInv /\ [Next]_vars => UseInv'
<1> SUFFICES ASSUME ~FailingCompute /\ TypeOK /\ FenceInv /\ RefsInv /\ UseInv /\ ClosedInv /\ WaitInv, [Next]_vars PROVE UseInv'
  OBVIOUS
<1>1. ASSUME NEW k \in Kernels, CreateKernel(k) PROVE UseInv'
  <2>1. CASE removed
    <3>1. removed' /\ (recordedUses' # {} => recorder')
      BY <1>1, <2>1 DEF UseInv, CreateKernel, RecordUses
    <3> QED
      BY <3>1, UseInvPrimed
  <2>2. CASE ~removed
    <3>1. /\ refs' = Append(refs, [fence |-> lastFence + 1, object |-> k])
          /\ UNCHANGED <<lastFence, completed, removed>> /\ held \subseteq held'
          /\ recorder' = TRUE /\ recordedUses' = recordedUses \cup Uses(k, {})
      BY <1>1 DEF CreateKernel, QueueReference, RecordUses
    <3>2. \A x \in Objects : lastUse'[x] = lastUse[x] \/ lastUse'[x] = 0
      BY <1>1, Numbers DEF CreateKernel
    <3>3. Uses(k, {}) \in SUBSET Objects
      BY ObjectKinds DEF Uses
    <3>4. \A x \in Uses(k, {}) : k \in Guards(x) \/ (x \in Buffers /\ x \in held')
      BY <1>1 DEF CreateKernel, Uses, Guards
    <3> QED
      BY <2>2, <3>1, <3>2, <3>3, <3>4, RecordStep, ObjectKinds
  <2> QED
    BY <2>1, <2>2
<1>2. ASSUME NEW k \in Kernels, ComputeShapeChangedFails(k) PROVE UseInv'
  <2>1. removed' /\ (recordedUses' # {} => recorder')
    BY <1>2 DEF ComputeShapeChangedFails, RecordUses
  <2> QED
    BY <2>1, UseInvPrimed
<1>3. ASSUME NEW k \in Kernels, ReleaseKernel(k) PROVE UseInv'
  <2>1. CASE removed
    <3>1. removed' /\ (recordedUses' # {} => recorder')
      BY <1>3, <2>1 DEF UseInv, ReleaseKernel, recorderVars, useVars
    <3> QED
      BY <3>1, UseInvPrimed
  <2>2. CASE ~removed
    <3>1. /\ UNCHANGED <<lastFence, completed, removed, recorder, recordedUses, lastUse>>
          /\ \A x \in Buffers : x \in held => x \in held'
      BY <1>3, ObjectsAssumption DEF ReleaseKernel, recorderVars, useVars
    <3>2. \A i \in DOMAIN refs : \E j \in DOMAIN refs' : refs'[j] = refs[i]
      <4>1. lastFence + (IF recorder THEN 1 ELSE 0) \in Nat
        BY Numbers
      <4>2. CASE UNCHANGED refs
        BY <4>2
      <4>3. CASE refs' = QueueReference(refs, recorder, Persistent(k))
        BY <4>1, <4>3, AppendKeeps, ObjectKinds, Numbers DEF QueueReference
      <4> QED
        BY <1>3, <4>2, <4>3 DEF ReleaseKernel
    <3> QED
      BY <2>2, <3>1, <3>2, KeepStep, Numbers DEF FenceInv
  <2> QED
    BY <2>1, <2>2
<1>4. ASSUME NEW k \in Kernels, ExecuteCommandListFails(k) PROVE UseInv'
  <2>1. removed' /\ recorder'
    BY <1>4 DEF ExecuteCommandListFails
  <2> QED
    BY <2>1, UseInvPrimed
<1>5. ASSUME NEW k \in Kernels, NEW B \in SUBSET Buffers, Compute(k, B) PROVE UseInv'
  <2>1. CASE removed
    <3>1. removed' /\ (recordedUses' # {} => recorder')
      BY <1>5, <2>1 DEF UseInv, Compute, RecordUses
    <3> QED
      BY <3>1, UseInvPrimed
  <2>2. CASE ~removed
    <3>1. /\ refs' = Append(refs, [fence |-> lastFence + 1, object |-> k])
          /\ UNCHANGED <<lastFence, completed, removed>> /\ held \subseteq held'
          /\ recorder' = TRUE /\ recordedUses' = recordedUses \cup Uses(k, B)
      BY <1>5 DEF Compute, QueueReference, RecordUses
    <3>2. \A x \in Objects : lastUse'[x] = lastUse[x] \/ lastUse'[x] = 0
      BY <1>5, Numbers DEF Compute
    <3>3. Uses(k, B) \in SUBSET Objects
      BY ObjectKinds DEF Uses
    <3>4. \A x \in Uses(k, B) : k \in Guards(x) \/ (x \in Buffers /\ x \in held')
      BY <1>5 DEF Compute, Uses, Guards
    <3> QED
      BY <2>2, <3>1, <3>2, <3>3, <3>4, RecordStep, ObjectKinds
  <2> QED
    BY <2>1, <2>2
<1>6. ASSUME NEW k \in Kernels, NEW B \in SUBSET Buffers, ComputeShapeChanged(k, B) PROVE UseInv'
  <2>1. CASE removed
    <3>1. removed' /\ (recordedUses' # {} => recorder')
      BY <1>6, <2>1 DEF UseInv, ComputeShapeChanged, RecordUses
    <3> QED
      BY <3>1, UseInvPrimed
  <2>2. CASE ~removed
    <3>1. /\ refs' = Append(refs, [fence |-> lastFence + 1, object |-> k])
          /\ UNCHANGED <<lastFence, completed, removed>> /\ held \subseteq held'
          /\ recorder' = TRUE /\ recordedUses' = recordedUses \cup Uses(k, B)
      BY <1>6 DEF ComputeShapeChanged, QueueReference, RecordUses
    <3>2. \A x \in Objects : lastUse'[x] = lastUse[x] \/ lastUse'[x] = 0
      BY <1>6, Numbers DEF ComputeShapeChanged
    <3>3. Uses(k, B) \in SUBSET Objects
      BY ObjectKinds DEF Uses
    <3>4. \A x \in Uses(k, B) : k \in Guards(x) \/ (x \in Buffers /\ x \in held')
      BY <1>6 DEF ComputeShapeChanged, Uses, Guards
    <3> QED
      BY <2>2, <3>1, <3>2, <3>3, <3>4, RecordStep, ObjectKinds
  <2> QED
    BY <2>1, <2>2
<1>7. ASSUME NEW k \in Kernels, NEW B \in SUBSET Buffers, ExecuteCommandList(k, B) PROVE UseInv'
  <2>1. /\ refs' = Append(refs, [fence |-> lastFence + 2, object |-> k])
        /\ UNCHANGED <<completed, removed, held>> /\ ~removed
        /\ recordedUses' = {} /\ k \in held /\ B \subseteq held
        /\ \A x \in Objects : lastUse'[x] = IF x \in recordedUses \cup Uses(k, B)
                                            THEN lastFence + 1 ELSE lastUse[x]
    BY <1>7 DEF ExecuteCommandList, Submit
  <2>2. lastFence \in Nat /\ completed \in Nat /\ lastFence + 2 \in Nat
        /\ lastFence + 2 >= lastFence + (IF recorder THEN 1 ELSE 0)
    BY Numbers
  <2>3. /\ \A i \in DOMAIN refs : \E j \in DOMAIN refs' : refs'[j] = refs[i]
        /\ \E j \in DOMAIN refs' : refs'[j].fence = lastFence + 2 /\ refs'[j].object = k
    <3>1. \A i \in DOMAIN refs : \E j \in DOMAIN refs' : refs'[j] = refs[i]
      BY <2>1, <2>2, AppendKeeps, ObjectKinds
    <3>2. \E j \in DOMAIN refs' : refs'[j].fence = lastFence + 2 /\ refs'[j].object = k
      BY <2>1, <2>2, AppendKeeps, ObjectKinds
    <3> QED
      BY <3>1, <3>2
  <2>4. \A x \in Objects : lastUse'[x] > completed' => Protected(refs', held', x, lastUse'[x])
    <3> SUFFICES ASSUME NEW x \in Objects, lastUse'[x] > completed
                 PROVE  Protected(refs', held, x, lastUse'[x])
      BY <2>1
    <3>1. CASE x \in B
      BY <2>1, <3>1 DEF Protected
    <3>2. CASE x \in {k, Persistent(k)}
      <4>1. k \in Guards(x) /\ lastUse'[x] = lastFence + 1
        BY <2>1, <3>2 DEF Guards, Uses
      <4> QED
        BY <2>2, <2>3, <4>1 DEF Protected
    <3>3. CASE x \notin Uses(k, B)
      <4>1. Protected(refs, held, x, lastUse'[x])
        BY <2>1, <3>3 DEF UseInv
      <4> QED
        BY <2>3, <4>1, KeepsProtected
    <3> QED
      BY <3>1, <3>2, <3>3 DEF Uses
  <2> QED
    BY <2>1, <2>4, UseInvPrimed
<1>8. ASSUME NEW B \in SUBSET Buffers, CopyBufferRegion(B) PROVE UseInv'
  <2>1. CASE removed
    <3>1. removed' /\ (recordedUses' # {} => recorder')
      BY <1>8, <2>1 DEF UseInv, CopyBufferRegion, RecordUses, queueVars
    <3> QED
      BY <3>1, UseInvPrimed
  <2>2. CASE ~removed
    <3>1. /\ UNCHANGED <<lastFence, completed, removed, refs, held, lastUse>>
          /\ recorder' = TRUE /\ recordedUses' = recordedUses \cup B /\ B \subseteq held
      BY <1>8 DEF CopyBufferRegion, RecordUses, queueVars
    <3>2. \A x \in recordedUses' : Protected(refs', held', x, lastFence' + 1)
      BY <2>2, <3>1 DEF UseInv, Protected
    <3>3. \A x \in Objects : lastUse'[x] > completed' => Protected(refs', held', x, lastUse'[x])
      BY <2>2, <3>1 DEF UseInv, Protected
    <3> QED
      BY <3>1, <3>2, <3>3, UseInvPrimed
  <2> QED
    BY <2>1, <2>2
<1>9. ASSUME NEW B \in SUBSET Buffers, ReadbackFromGpu(B) PROVE UseInv'
  <2>1. /\ FlushRecorded(B) /\ ~removed
        /\ UNCHANGED <<completed, removed, held>> /\ B \in SUBSET Buffers /\ B \subseteq held
    BY <1>9 DEF ReadbackFromGpu, FlushRecorded, WaitForSignal
  <2> QED
    BY <2>1, FlushStep
<1>10. ASSUME NEW b \in Buffers, AllocBuffer(b) PROVE UseInv'
  <2>1. CASE removed
    <3>1. removed' /\ (recordedUses' # {} => recorder')
      BY <1>10, <2>1 DEF UseInv, AllocBuffer, queueVars, recorderVars
    <3> QED
      BY <3>1, UseInvPrimed
  <2>2. CASE ~removed
    <3>1. /\ UNCHANGED <<lastFence, completed, removed, refs, recorder, recordedUses>>
          /\ held \subseteq held'
      BY <1>10 DEF AllocBuffer, queueVars, recorderVars
    <3>2. \A x \in Objects : lastUse'[x] = lastUse[x] \/ lastUse'[x] = 0
      BY <1>10, Numbers DEF AllocBuffer
    <3>3. \A x \in recordedUses' : Protected(refs', held', x, lastFence' + 1)
      BY <2>2, <3>1 DEF UseInv, Protected
    <3>4. \A x \in Objects : lastUse'[x] > completed' => Protected(refs', held', x, lastUse'[x])
      BY <2>2, <3>1, <3>2, Numbers DEF UseInv, Protected
    <3> QED
      BY <3>1, <3>3, <3>4, UseInvPrimed DEF UseInv
  <2> QED
    BY <2>1, <2>2
<1>11. ASSUME NEW b \in Buffers, FreeBuffer(b) PROVE UseInv'
  <2>1. CASE removed
    <3>1. removed' /\ (recordedUses' # {} => recorder')
      BY <1>11, <2>1 DEF UseInv, FreeBuffer, recorderVars, useVars
    <3> QED
      BY <3>1, UseInvPrimed
  <2>2. CASE ~removed
    <3>1. UNCHANGED <<lastFence, completed, removed, recorder, recordedUses, lastUse>>
      BY <1>11 DEF FreeBuffer, recorderVars, useVars
    <3>2. CASE closed
      BY <2>2, <3>1, <3>2, Numbers, UseInvPrimed DEF ClosedInv
    <3>3. CASE ~closed
      <4> DEFINE f == lastFence + (IF recorder THEN 1 ELSE 0)
      <4>1. refs' = Append(refs, [fence |-> f, object |-> b]) /\ held' = held \ {b}
        BY <1>11, <3>3 DEF FreeBuffer, QueueReference
      <4>2. f \in Nat /\ lastFence \in Nat /\ lastFence <= f
        BY Numbers
      <4>3. /\ \A i \in DOMAIN refs : \E j \in DOMAIN refs' : refs'[j] = refs[i]
            /\ \E j \in DOMAIN refs' : refs'[j].fence = f /\ refs'[j].object = b
        BY <4>1, <4>2, AppendKeeps, ObjectKinds
      <4>4. \A g \in Nat : g <= f => Protected(refs', held', b, g)
        BY <4>2, <4>3 DEF Protected, Guards
      <4>5. \A x \in recordedUses' : Protected(refs', held', x, lastFence' + 1)
        <5> SUFFICES ASSUME NEW x \in recordedUses
                     PROVE  Protected(refs', held', x, lastFence + 1)
          BY <3>1
        <5>1. Protected(refs, held, x, lastFence + 1) /\ recorder
          BY <2>2 DEF UseInv
        <5>2. CASE x = b
          BY <4>2, <4>4, <5>1, <5>2
        <5>3. CASE x # b
          BY <4>1, <4>3, <5>1, <5>3, KeepsProtected
        <5> QED
          BY <5>2, <5>3
      <4>6. \A x \in Objects : lastUse'[x] > completed' => Protected(refs', held', x, lastUse'[x])
        <5> SUFFICES ASSUME NEW x \in Objects, lastUse[x] > completed
                     PROVE  Protected(refs', held', x, lastUse[x])
          BY <3>1
        <5>1. Protected(refs, held, x, lastUse[x]) /\ lastUse[x] \in Nat /\ lastUse[x] <= f
          BY <2>2, <4>2, Numbers DEF UseInv, FenceInv
        <5>2. CASE x = b
          BY <4>4, <5>1, <5>2
        <5>3. CASE x # b
          BY <4>1, <4>3, <5>1, <5>3, KeepsProtected
        <5> QED
          BY <5>2, <5>3
      <4> QED
        BY <3>1, <4>5, <4>6, UseInvPrimed DEF UseInv
    <3> QED
      BY <3>2, <3>3
  <2> QED
    BY <2>1, <2>2
<1>12. ASSUME Flush PROVE UseInv'
  <2>1. /\ FlushRecorded({}) /\ ~removed
        /\ UNCHANGED <<completed, removed, held>> /\ {} \in SUBSET Buffers /\ {} \subseteq held
    BY <1>12 DEF Flush, FlushRecorded, WaitForSignal
  <2> QED
    BY <2>1, FlushStep
<1>13. ASSUME OnSessionInitializationEnd PROVE UseInv'
  <2>1. CASE UNCHANGED <<lastFence, refs, recorderVars, useVars>>
    BY <1>13, <2>1 DEF OnSessionInitializationEnd, WaitForSignal, recorderVars, useVars, UseInv, Protected
  <2>2. CASE FlushRecorded({})
    <3>1. UNCHANGED <<completed, removed, held>> /\ ~removed
      BY <1>13, <2>2 DEF OnSessionInitializationEnd, WaitForSignal, FlushRecorded
    <3> QED
      BY <2>2, <3>1, FlushStep
  <2> QED
    BY <1>13, <2>1, <2>2 DEF OnSessionInitializationEnd
<1>14. ASSUME WaitDone PROVE UseInv'
  <2>1. CASE removed
    <3>1. removed' /\ (recordedUses' # {} => recorder')
      BY <1>14, <2>1 DEF UseInv, WaitDone, recorderVars, useVars
    <3> QED
      BY <3>1, UseInvPrimed
  <2>2. CASE ~removed
    <3>1. /\ UNCHANGED <<lastFence, completed, removed, recorder, recordedUses, lastUse, held>>
          /\ ReleaseCompleted(lastFence)
      BY <1>14 DEF WaitDone, recorderVars, useVars
    <3>2. \A i \in DOMAIN refs : refs[i].fence > completed => \E j \in DOMAIN refs' : refs'[j] = refs[i]
      BY <2>2, <3>1, Numbers, ReleaseKeeps
    <3> QED
      BY <2>2, <3>1, <3>2, KeepStep, Numbers DEF FenceInv
  <2> QED
    BY <2>1, <2>2
<1>15. ASSUME CloseAndExecuteFails PROVE UseInv'
  <2>1. removed' /\ UNCHANGED <<recordedUses, recorder>>
    BY <1>15 DEF CloseAndExecuteFails, useVars
  <2> QED
    BY <2>1, UseInvPrimed DEF UseInv
<1>16. ASSUME Close PROVE UseInv'
  BY <1>16 DEF Close, queueVars, recorderVars, useVars, UseInv, Protected
<1>17. ASSUME CloseDone PROVE UseInv'
  <2>1. CASE removed
    <3>1. removed' /\ (recordedUses' # {} => recorder')
      BY <1>17, <2>1 DEF UseInv, CloseDone
    <3> QED
      BY <3>1, UseInvPrimed
  <2>2. CASE ~removed
    <3>1. /\ UNCHANGED <<lastFence, completed, removed, lastUse>> /\ recordedUses' = {}
          /\ lastFence <= completed
      BY <1>17, <2>2 DEF CloseDone, IsSignaled, WaitInv
    <3>2. \A x \in Objects : ~(lastUse'[x] > completed')
      BY <3>1, Numbers DEF FenceInv
    <3> QED
      BY <3>1, <3>2, UseInvPrimed
  <2> QED
    BY <2>1, <2>2
<1>18. ASSUME GpuComplete PROVE UseInv'
  <2>1. /\ UNCHANGED <<lastFence, removed, refs, recorder, recordedUses, lastUse, held>>
        /\ ~removed /\ completed' = completed + 1
    BY <1>18 DEF GpuComplete, recorderVars, useVars
  <2>2. completed' \in Nat /\ completed' >= completed
    BY <2>1, Numbers
  <2> QED
    BY <2>1, <2>2, KeepStep, Numbers DEF FenceInv
<1>19. ASSUME DeviceRemoved PROVE UseInv'
  <2>1. removed' /\ UNCHANGED <<recordedUses, recorder>>
    BY <1>19 DEF DeviceRemoved, recorderVars, useVars
  <2> QED
    BY <2>1, UseInvPrimed DEF UseInv
<1>20. CASE UNCHANGED vars
  BY <1>20 DEF vars, queueVars, recorderVars, useVars, UseInv, Protected
<1> QED
  BY <1>1, <1>2, <1>3, <1>4, <1>5, <1>6, <1>7, <1>8, <1>9, <1>10, <1>11, <1>12, <1>13, <1>14, <1>15, <1>16, <1>17, <1>18, <1>19, <1>20 DEF Next

-----------------------------------------------------------------------------
LEMMA InitInv == Init => IInv
<1> SUFFICES ASSUME Init PROVE IInv
  OBVIOUS
<1>1. TypeOK
  <2>1. refs \in Seq(Reference) /\ ring \in Ring
    BY DEF Init, Ring
  <2>2. lastUse \in [Objects -> Nat] /\ allocBusy \in [{0, 1} -> Nat]
    BY DEF Init
  <2> QED
    BY <2>1, <2>2 DEF Init, TypeOK
<1>2. FenceInv /\ RefsInv /\ SetupInv /\ UseInv /\ ClosedInv /\ WaitInv /\ RingInv
  BY DEF Init, FenceInv, RefsInv, SetupInv, UseInv, ClosedInv, WaitInv, RingInv
<1> QED
  BY <1>1, <1>2 DEF IInv

\* The parts of the invariant that hold whatever Compute does on failure.
SafeInv == TypeOK /\ FenceInv /\ RefsInv /\ SetupInv /\ ClosedInv /\ WaitInv /\ RingInv

LEMMA SafeStep == SafeInv /\ [Next]_vars => SafeInv'
BY TypeStep, FenceStep, RefsStep, SetupStep, ClosedStep, WaitStep, RingStep DEF SafeInv

LEMMA SafeInvariant == Spec => []SafeInv
<1>1. Init => SafeInv
  BY InitInv DEF IInv, SafeInv
<1> QED
  BY <1>1, SafeStep, PTL DEF Spec

\* Every state of the execution context is well typed.
THEOREM TypeCorrect == Spec => []TypeOK
<1>1. SafeInv => TypeOK
  BY DEF SafeInv
<1> QED
  BY <1>1, SafeInvariant, PTL

\* The GPU never uses a destroyed kernel, persistent resource or buffer, as
\* long as every Compute that recorded work queues its reference.
THEOREM UseIsSafe == ASSUME ~FailingCompute PROVE Spec => []InFlightAlive
<1>1. IInv /\ [Next]_vars => IInv'
  BY TypeStep, FenceStep, RefsStep, SetupStep, ClosedStep, WaitStep, RingStep, UseStep DEF IInv
<1>2. IInv => InFlightAlive
  <2> SUFFICES ASSUME IInv, ~removed PROVE InFlightAlive
    BY DEF InFlightAlive
  <2>1. \A x, f : Protected(refs, held, x, f) => Alive(x)
    BY DEF Protected, Alive, Guards, Referenced
  <2> QED
    BY <2>1 DEF IInv, UseInv, InFlightAlive
<1> QED
  BY <1>1, <1>2, InitInv, PTL DEF Spec

RingMoved ==
  {ring, OpenedRing, UpdateCurrentAllocatorCompletionEvent(OpenedRing),
   Open(OpenedRing, lastFence + 1)}

\* A step leaves the ring alone, opens the recorder, tells the ring of an
\* unrelated submission, or reopens the recorder after a flush.
LEMMA RingChoice == [Next]_vars => ring' \in RingMoved
<1> SUFFICES ASSUME [Next]_vars PROVE ring' \in RingMoved
  OBVIOUS
<1>1. ASSUME NEW k \in Kernels, CreateKernel(k) PROVE ring' \in RingMoved
  BY <1>1 DEF CreateKernel, RecordUses, RingMoved
<1>2. ASSUME NEW k \in Kernels, ComputeShapeChangedFails(k) PROVE ring' \in RingMoved
  BY <1>2 DEF ComputeShapeChangedFails, RecordUses, RingMoved
<1>3. ASSUME NEW k \in Kernels, ReleaseKernel(k) PROVE ring' \in RingMoved
  BY <1>3 DEF ReleaseKernel, QueueReference, queueVars, recorderVars, threadVars, useVars, RingMoved
<1>4. ASSUME NEW k \in Kernels, ExecuteCommandListFails(k) PROVE ring' \in RingMoved
  BY <1>4 DEF ExecuteCommandListFails, RingMoved
<1>5. ASSUME NEW k \in Kernels, NEW B \in SUBSET Buffers, Compute(k, B) PROVE ring' \in RingMoved
  BY <1>5 DEF Compute, RecordUses, RingMoved
<1>6. ASSUME NEW k \in Kernels, NEW B \in SUBSET Buffers, ComputeShapeChanged(k, B) PROVE ring' \in RingMoved
  BY <1>6 DEF ComputeShapeChanged, RecordUses, RingMoved
<1>7. ASSUME NEW k \in Kernels, NEW B \in SUBSET Buffers, ExecuteCommandList(k, B) PROVE ring' \in RingMoved
  BY <1>7 DEF ExecuteCommandList, RingMoved
<1>8. ASSUME NEW B \in SUBSET Buffers, CopyBufferRegion(B) PROVE ring' \in RingMoved
  BY <1>8 DEF CopyBufferRegion, RecordUses, RingMoved
<1>9. ASSUME NEW B \in SUBSET Buffers, ReadbackFromGpu(B) PROVE ring' \in RingMoved
  BY <1>9 DEF ReadbackFromGpu, FlushRecorded, RingMoved
<1>10. ASSUME NEW b \in Buffers, AllocBuffer(b) PROVE ring' \in RingMoved
  BY <1>10 DEF AllocBuffer, Running, queueVars, recorderVars, threadVars, useVars, RingMoved
<1>11. ASSUME NEW b \in Buffers, FreeBuffer(b) PROVE ring' \in RingMoved
  BY <1>11 DEF FreeBuffer, QueueReference, queueVars, recorderVars, threadVars, useVars, RingMoved
<1>12. ASSUME Flush PROVE ring' \in RingMoved
  BY <1>12 DEF Flush, FlushRecorded, RingMoved
<1>13. ASSUME OnSessionInitializationEnd PROVE ring' \in RingMoved
  BY <1>13 DEF OnSessionInitializationEnd, FlushRecorded, recorderVars, RingMoved
<1>14. ASSUME WaitDone PROVE ring' \in RingMoved
  BY <1>14 DEF WaitDone, queueVars, recorderVars, threadVars, useVars, RingMoved
<1>15. ASSUME CloseAndExecuteFails PROVE ring' \in RingMoved
  BY <1>15 DEF CloseAndExecuteFails, Running, queueVars, recorderVars, threadVars, useVars, RingMoved
<1>16. ASSUME Close PROVE ring' \in RingMoved
  BY <1>16 DEF Close, queueVars, recorderVars, threadVars, useVars, RingMoved
<1>17. ASSUME CloseDone PROVE ring' \in RingMoved
  BY <1>17 DEF CloseDone, queueVars, recorderVars, threadVars, useVars, RingMoved
<1>18. ASSUME GpuComplete PROVE ring' \in RingMoved
  BY <1>18 DEF GpuComplete, queueVars, recorderVars, threadVars, useVars, RingMoved
<1>19. ASSUME DeviceRemoved PROVE ring' \in RingMoved
  BY <1>19 DEF DeviceRemoved, queueVars, recorderVars, threadVars, useVars, RingMoved
<1>20. CASE UNCHANGED vars
  BY <1>20 DEF vars, queueVars, recorderVars, threadVars, useVars, RingMoved
<1> QED
  BY <1>1, <1>2, <1>3, <1>4, <1>5, <1>6, <1>7, <1>8, <1>9, <1>10, <1>11, <1>12, <1>13, <1>14, <1>15, <1>16, <1>17, <1>18, <1>19, <1>20 DEF Next

\* An allocator is never reset under work recorded from it.
THEOREM ResetIsSafe == Spec => AllocatorResetIdle
<1>1. SafeInv /\ [Next]_vars => [ResetIdle]_vars
  <2> SUFFICES ASSUME SafeInv, [Next]_vars, ~removed, ring'.current # ring.current
               PROVE  allocBusy[ring'.current] <= completed
    BY DEF ResetIdle
  <2>1. /\ ring \in Ring /\ lastFence \in Nat /\ completed \in Nat
        /\ ring.current \in {0, 1} /\ ring.event \in [{0, 1} -> Nat]
        /\ allocBusy \in [{0, 1} -> Nat] /\ OpenedRing \in Ring
        /\ OpenedRing.current \in {0, 1} /\ OpenedRing.event \in [{0, 1} -> Nat]
    BY RingType, Numbers DEF SafeInv, TypeOK, Ring
  <2>2. \A i \in {0, 1} : allocBusy[i] <= ring.event[i] /\ allocBusy[i] <= OpenedRing.event[i]
    BY RingMoves DEF SafeInv, RingInv
  <2>3. OpenedRing.current # ring.current => allocBusy[OpenedRing.current] <= completed
    <3> SUFFICES ASSUME OpenedRing.current # ring.current
                 PROVE  allocBusy[OpenedRing.current] <= completed
      OBVIOUS
    <3>1. OpenedRing = Open(ring, lastFence)
      BY DEF OpenedRing
    <3>2. IsSignaled(ring.event[OpenedRing.current])
      BY <2>1, <3>1, OpenRing
    <3> QED
      BY <2>1, <2>2, <3>2 DEF IsSignaled
  <2>4. ASSUME ring' = Open(OpenedRing, lastFence + 1) PROVE allocBusy[ring'.current] <= completed
    <3>1. lastFence + 1 \in Nat
      BY <2>1
    <3>2. /\ ring' \in Ring
          /\ ring'.current # OpenedRing.current => IsSignaled(OpenedRing.event[ring'.current])
      BY <2>1, <2>4, <3>1, OpenRing
    <3>3. ring'.current \in {0, 1}
      BY <3>2 DEF Ring
    <3>4. CASE ring'.current = OpenedRing.current
      BY <2>3, <3>4
    <3>5. CASE ring'.current # OpenedRing.current
      BY <2>1, <2>2, <3>2, <3>3, <3>5 DEF IsSignaled
    <3> QED
      BY <3>4, <3>5
  <2>5. UpdateCurrentAllocatorCompletionEvent(OpenedRing).current = OpenedRing.current
    BY <2>1 DEF UpdateCurrentAllocatorCompletionEvent, Ring
  <2>6. ring' \in RingMoved
    BY RingChoice
  <2> QED
    BY <2>3, <2>4, <2>5, <2>6 DEF RingMoved
<1> QED
  BY <1>1, SafeInvariant, PTL DEF Spec, AllocatorResetIdle

\* A step that ends a wait releases every completed reference.
LEMMA WaitReleases == SafeInv /\ [Next]_vars => ReleasedAfterWait
<1> SUFFICES ASSUME SafeInv, [Next]_vars PROVE ReleasedAfterWait
  OBVIOUS
<1>1. ASSUME NEW k \in Kernels, CreateKernel(k) PROVE ReleasedAfterWait
  BY <1>1 DEF CreateKernel, Running, RecordUses, QueueReference, Uses, queueVars, recorderVars, threadVars, useVars, ReleasedAfterWait
<1>2. ASSUME NEW k \in Kernels, ComputeShapeChangedFails(k) PROVE ReleasedAfterWait
  BY <1>2 DEF ComputeShapeChangedFails, Running, RecordUses, QueueReference, Uses, queueVars, recorderVars, threadVars, useVars, ReleasedAfterWait
<1>3. ASSUME NEW k \in Kernels, ReleaseKernel(k) PROVE ReleasedAfterWait
  BY <1>3 DEF ReleaseKernel, QueueReference, queueVars, recorderVars, threadVars, useVars, ReleasedAfterWait
<1>4. ASSUME NEW k \in Kernels, ExecuteCommandListFails(k) PROVE ReleasedAfterWait
  BY <1>4 DEF ExecuteCommandListFails, Running, UpdateCurrentAllocatorCompletionEvent, queueVars, recorderVars, threadVars, useVars, ReleasedAfterWait
<1>5. ASSUME NEW k \in Kernels, NEW B \in SUBSET Buffers, Compute(k, B) PROVE ReleasedAfterWait
  BY <1>5 DEF Compute, Running, RecordUses, QueueReference, Uses, queueVars, recorderVars, threadVars, useVars, ReleasedAfterWait
<1>6. ASSUME NEW k \in Kernels, NEW B \in SUBSET Buffers, ComputeShapeChanged(k, B) PROVE ReleasedAfterWait
  BY <1>6 DEF ComputeShapeChanged, Running, RecordUses, QueueReference, Uses, queueVars, recorderVars, threadVars, useVars, ReleasedAfterWait
<1>7. ASSUME NEW k \in Kernels, NEW B \in SUBSET Buffers, ExecuteCommandList(k, B) PROVE ReleasedAfterWait
  BY <1>7 DEF ExecuteCommandList, Running, Submit, UpdateCurrentAllocatorCompletionEvent, Uses, queueVars, recorderVars, threadVars, useVars, ReleasedAfterWait
<1>8. ASSUME NEW B \in SUBSET Buffers, CopyBufferRegion(B) PROVE ReleasedAfterWait
  BY <1>8 DEF CopyBufferRegion, Running, RecordUses, queueVars, recorderVars, threadVars, useVars, ReleasedAfterWait
<1>9. ASSUME NEW B \in SUBSET Buffers, ReadbackFromGpu(B) PROVE ReleasedAfterWait
  BY <1>9 DEF ReadbackFromGpu, Running, FlushRecorded, Submit, WaitForSignal, queueVars, recorderVars, threadVars, useVars, ReleasedAfterWait
<1>10. ASSUME NEW b \in Buffers, AllocBuffer(b) PROVE ReleasedAfterWait
  BY <1>10 DEF AllocBuffer, Running, queueVars, recorderVars, threadVars, useVars, ReleasedAfterWait
<1>11. ASSUME NEW b \in Buffers, FreeBuffer(b) PROVE ReleasedAfterWait
  BY <1>11 DEF FreeBuffer, QueueReference, queueVars, recorderVars, threadVars, useVars, ReleasedAfterWait
<1>12. ASSUME Flush PROVE ReleasedAfterWait
  BY <1>12 DEF Flush, Running, FlushRecorded, Submit, queueVars, recorderVars, threadVars, useVars, ReleasedAfterWait
<1>13. ASSUME OnSessionInitializationEnd PROVE ReleasedAfterWait
  BY <1>13 DEF OnSessionInitializationEnd, Running, FlushRecorded, Submit, WaitForSignal, queueVars, recorderVars, threadVars, useVars, ReleasedAfterWait
<1>14. ASSUME WaitDone PROVE ReleasedAfterWait
  <2>1. CASE removed
    <3>1. refs' = <<>>
      BY <1>14, <2>1, Numbers, ReleaseKeeps DEF WaitDone, SafeInv
    <3> QED
      BY <3>1 DEF ReleasedAfterWait
  <2>2. CASE ~removed
    <3>1. /\ \A i, j \in DOMAIN refs : i < j => refs[i].fence <= refs[j].fence
          /\ \A i \in DOMAIN refs : refs[i].fence <= lastFence + 1
      <4>1. RefsInv /\ lastFence \in Nat /\ \A i \in DOMAIN refs : refs[i].fence \in Nat
        BY Numbers DEF SafeInv
      <4>2. \A i \in DOMAIN refs : refs[i].fence <= lastFence + 1
        BY <4>1 DEF RefsInv
      <4> QED
        BY <4>1, <4>2 DEF RefsInv
    <3>2. \A j \in DOMAIN refs' : refs'[j].fence > completed \/ refs'[j].fence = lastFence + 1
      BY <1>14, <3>1, Numbers, ReleaseKeeps DEF WaitDone, SafeInv
    <3>3. lastFence + 1 > completed
      BY Numbers DEF SafeInv, FenceInv
    <3> QED
      BY <2>2, <3>2, <3>3 DEF ReleasedAfterWait
  <2> QED
    BY <2>1, <2>2
<1>15. ASSUME CloseAndExecuteFails PROVE ReleasedAfterWait
  BY <1>15 DEF CloseAndExecuteFails, Running, queueVars, recorderVars, threadVars, useVars, ReleasedAfterWait
<1>16. ASSUME Close PROVE ReleasedAfterWait
  BY <1>16 DEF Close, queueVars, recorderVars, threadVars, useVars, ReleasedAfterWait
<1>17. ASSUME CloseDone PROVE ReleasedAfterWait
  BY <1>17 DEF CloseDone, queueVars, recorderVars, threadVars, useVars, ReleasedAfterWait
<1>18. ASSUME GpuComplete PROVE ReleasedAfterWait
  BY <1>18 DEF GpuComplete, queueVars, recorderVars, threadVars, useVars, ReleasedAfterWait
<1>19. ASSUME DeviceRemoved PROVE ReleasedAfterWait
  BY <1>19 DEF DeviceRemoved, queueVars, recorderVars, threadVars, useVars, ReleasedAfterWait
<1>20. CASE UNCHANGED vars
  BY <1>20 DEF vars, queueVars, recorderVars, threadVars, useVars, ReleasedAfterWait
<1> QED
  BY <1>1, <1>2, <1>3, <1>4, <1>5, <1>6, <1>7, <1>8, <1>9, <1>10, <1>11, <1>12, <1>13, <1>14, <1>15, <1>16, <1>17, <1>18, <1>19, <1>20 DEF Next

\* When a blocking wait ends, no completed reference is left in the queue.
THEOREM WaitReleasesAll == Spec => WaitReleasesCompleted
<1>1. SafeInv /\ [Next]_vars => [ReleasedAfterWait]_vars
  BY WaitReleases
<1> QED
  BY <1>1, SafeInvariant, PTL DEF Spec, WaitReleasesCompleted

\* Nothing stays queued in a closed context.
THEOREM CloseIsClean == Spec => []ClosedDrained
<1>1. SafeInv => ClosedDrained
  BY DEF SafeInv, ClosedInv, ClosedDrained
<1> QED
  BY <1>1, SafeInvariant, PTL

\* A blocking wait is always for a submitted batch.
THEOREM WaitIsBounded == Spec => []WaitTargetSubmitted
<1>1. SafeInv => WaitTargetSubmitted
  BY DEF SafeInv, WaitInv, WaitTargetSubmitted
<1> QED
  BY <1>1, SafeInvariant, PTL
-----------------------------------------------------------------------------
\* An object that does not exist is not used by unfinished work.
LEMMA DeadIsUnused ==
  ASSUME InFlightAlive, ~removed, NEW o \in Objects, ~Alive(o)
  PROVE  ~(lastUse[o] > completed)
BY DEF InFlightAlive

\* Pending work stays pending while uses are only added or submitted, and the
\* history of an object is only forgotten when it is created.
LEMMA PendingKept ==
  ASSUME UNCHANGED <<removed, closed, completed>>,
         ~removed =>
           /\ recordedUses \subseteq recordedUses' \cup {o \in Objects : lastUse'[o] > completed}
           /\ \A o \in Objects : lastUse[o] > completed => lastUse'[o] > completed
  PROVE  Pending \subseteq Pending'
BY DEF Pending

\* A step that keeps the uses as they are.
LEMMA PendingSame ==
  ASSUME TypeOK, UNCHANGED <<removed, closed, completed, recordedUses, lastUse>>
  PROVE  Pending \subseteq Pending'
BY DEF Pending

\* A recording handler that may create the objects in S.
LEMMA PendingRecord ==
  ASSUME TypeOK, InFlightAlive, NEW S, RecordUses(S),
         UNCHANGED <<removed, closed, completed>>,
         \A o \in Objects : lastUse'[o] = lastUse[o] \/ ~Alive(o)
  PROVE  Pending \subseteq Pending'
<1>1. recordedUses \subseteq recordedUses'
  BY DEF RecordUses
<1>2. ASSUME ~removed, NEW o \in Objects, lastUse[o] > completed
      PROVE  lastUse'[o] > completed
  BY <1>2, DeadIsUnused
<1> QED
  BY <1>1, <1>2, PendingKept

\* A submission of everything recorded, with the objects in S.
LEMMA PendingSubmit ==
  ASSUME TypeOK, FenceInv, NEW S, recordedUses \subseteq S, Submit(S),
         UNCHANGED <<removed, closed, completed>>
  PROVE  Pending \subseteq Pending'
<1>1. /\ lastFence \in Nat /\ completed \in Nat /\ completed <= lastFence
      /\ recordedUses \subseteq Objects
  BY DEF TypeOK, FenceInv
<1>2. lastFence + 1 > completed
  BY <1>1
<1>3. \A o \in Objects : lastUse'[o] = IF o \in S THEN lastFence + 1 ELSE lastUse[o]
  BY DEF Submit
<1> QED
  BY <1>1, <1>2, <1>3, PendingKept

\* The steps of the CPU that are not the end of Close.
WorkStep ==
  \/ \E k \in Kernels :
       \/ CreateKernel(k)
       \/ ComputeShapeChangedFails(k)
       \/ ReleaseKernel(k)
       \/ ExecuteCommandListFails(k)
       \/ \E B \in SUBSET Buffers :
            Compute(k, B) \/ ComputeShapeChanged(k, B) \/ ExecuteCommandList(k, B)
  \/ \E B \in SUBSET Buffers : CopyBufferRegion(B) \/ ReadbackFromGpu(B)
  \/ \E b \in Buffers : AllocBuffer(b) \/ FreeBuffer(b)
  \/ Flush
  \/ OnSessionInitializationEnd
  \/ WaitDone
  \/ CloseAndExecuteFails
  \/ Close

\* None of them takes back work: an object is only forgotten by the history
\* when it is created again, and then no unfinished work uses it.
LEMMA WorkKeepsPending ==
  TypeOK /\ FenceInv /\ InFlightAlive /\ WorkStep => Pending \subseteq Pending'
<1> SUFFICES ASSUME TypeOK, FenceInv, InFlightAlive, WorkStep PROVE Pending \subseteq Pending'
  OBVIOUS
<1>0. /\ \A k \in Kernels : k \in Objects /\ Persistent(k) \in Objects
      /\ \A o \in Objects : lastUse \in [Objects -> Nat]
  BY DEF Objects, Resources, TypeOK
<1>1. ASSUME NEW k \in Kernels, ~Alive(k), ~Alive(Persistent(k)),
             lastUse' = [lastUse EXCEPT ![k] = 0, ![Persistent(k)] = 0]
      PROVE  \A o \in Objects : lastUse'[o] = lastUse[o] \/ ~Alive(o)
  BY <1>0, <1>1
<1>2. ASSUME NEW k \in Kernels, CreateKernel(k) PROVE Pending \subseteq Pending'
  <2>1. UNCHANGED <<removed, closed, completed>> /\ RecordUses(Uses(k, {}))
    BY <1>2 DEF CreateKernel, threadVars
  <2>2. \A o \in Objects : lastUse'[o] = lastUse[o] \/ ~Alive(o)
    BY <1>1, <1>2 DEF CreateKernel
  <2> QED
    BY <2>1, <2>2, PendingRecord
<1>3. ASSUME NEW k \in Kernels, ComputeShapeChangedFails(k) PROVE Pending \subseteq Pending'
  <2>1. UNCHANGED <<removed, closed, completed>> /\ RecordUses(Uses(k, {}))
    BY <1>3 DEF ComputeShapeChangedFails, threadVars
  <2>2. \A o \in Objects : lastUse'[o] = lastUse[o] \/ ~Alive(o)
    BY <1>1, <1>3 DEF ComputeShapeChangedFails
  <2> QED
    BY <2>1, <2>2, PendingRecord
<1>4. ASSUME NEW k \in Kernels, NEW B \in SUBSET Buffers, ComputeShapeChanged(k, B)
      PROVE  Pending \subseteq Pending'
  <2>1. UNCHANGED <<removed, closed, completed>> /\ RecordUses(Uses(k, B))
    BY <1>4 DEF ComputeShapeChanged, threadVars
  <2>2. \A o \in Objects : lastUse'[o] = lastUse[o] \/ ~Alive(o)
    BY <1>1, <1>4 DEF ComputeShapeChanged
  <2> QED
    BY <2>1, <2>2, PendingRecord
<1>5. ASSUME NEW k \in Kernels, NEW B \in SUBSET Buffers, Compute(k, B)
      PROVE  Pending \subseteq Pending'
  BY <1>5, PendingRecord DEF Compute, threadVars
<1>6. ASSUME NEW B \in SUBSET Buffers, CopyBufferRegion(B) PROVE Pending \subseteq Pending'
  BY <1>6, PendingRecord DEF CopyBufferRegion, queueVars, threadVars
<1>7. ASSUME NEW k \in Kernels, NEW B \in SUBSET Buffers, ExecuteCommandList(k, B)
      PROVE  Pending \subseteq Pending'
  BY <1>7, PendingSubmit DEF ExecuteCommandList, threadVars
<1>8. ASSUME NEW B \in SUBSET Buffers, ReadbackFromGpu(B) PROVE Pending \subseteq Pending'
  BY <1>8, PendingSubmit DEF ReadbackFromGpu, FlushRecorded, WaitForSignal
<1>9. ASSUME Flush PROVE Pending \subseteq Pending'
  BY <1>9, PendingSubmit DEF Flush, FlushRecorded, threadVars
<1>10. ASSUME OnSessionInitializationEnd PROVE Pending \subseteq Pending'
  <2>1. UNCHANGED <<removed, closed, completed>>
    BY <1>10 DEF OnSessionInitializationEnd, WaitForSignal
  <2>2. CASE FlushRecorded({})
    BY <2>1, <2>2, PendingSubmit DEF FlushRecorded
  <2>3. CASE UNCHANGED useVars
    BY <2>1, <2>3, PendingSame DEF useVars
  <2> QED
    BY <1>10, <2>2, <2>3 DEF OnSessionInitializationEnd
<1>11. ASSUME NEW b \in Buffers, AllocBuffer(b) PROVE Pending \subseteq Pending'
  <2>1. UNCHANGED <<removed, closed, completed, recordedUses>>
    BY <1>11 DEF AllocBuffer, queueVars, threadVars
  <2>2. \A o \in Objects : lastUse'[o] = lastUse[o] \/ ~Alive(o)
    BY <1>0, <1>11 DEF AllocBuffer
  <2>3. ASSUME ~removed, NEW o \in Objects, lastUse[o] > completed
        PROVE  lastUse'[o] > completed
    BY <2>2, <2>3, DeadIsUnused
  <2> QED
    BY <2>1, <2>3, PendingKept
<1>12. ASSUME NEW b \in Buffers, FreeBuffer(b) PROVE Pending \subseteq Pending'
  BY <1>12, PendingSame DEF FreeBuffer, threadVars, useVars
<1>13. ASSUME NEW k \in Kernels, ReleaseKernel(k) PROVE Pending \subseteq Pending'
  BY <1>13, PendingSame DEF ReleaseKernel, threadVars, useVars
<1>14. ASSUME NEW k \in Kernels, ExecuteCommandListFails(k) PROVE Pending \subseteq Pending'
  BY <1>14, PendingSame DEF ExecuteCommandListFails, threadVars, useVars
<1>15. ASSUME WaitDone PROVE Pending \subseteq Pending'
  BY <1>15, PendingSame DEF WaitDone, useVars
<1>16. ASSUME CloseAndExecuteFails PROVE Pending \subseteq Pending'
  BY <1>16, PendingSame DEF CloseAndExecuteFails, useVars
<1>17. ASSUME Close PROVE Pending \subseteq Pending'
  BY <1>17, PendingSame DEF Close, queueVars, useVars
<1> QED
  BY <1>2, <1>3, <1>4, <1>5, <1>6, <1>7, <1>8, <1>9, <1>10, <1>11, <1>12, <1>13, <1>14, <1>15, <1>16, <1>17 DEF WorkStep

Existing == {o \in Objects : Alive(o)}

\* Unfinished work only uses objects that exist.
LEMMA PendingExists == TypeOK /\ InFlightAlive => Pending \subseteq Existing
BY DEF TypeOK, InFlightAlive, Pending, Existing

\* A step of the GPU destroys nothing and only takes work away.
LEMMA GpuShrinks ==
  ASSUME TypeOK, GpuComplete \/ DeviceRemoved
  PROVE  Pending' \subseteq Pending /\ Existing' = Existing
<1>1. /\ UNCHANGED <<held, refs, closed, recordedUses, lastUse>>
      /\ removed => removed'
      /\ completed \in Nat /\ completed' \in {completed, completed + 1}
      /\ \A o \in Objects : lastUse[o] \in Nat
  BY DEF GpuComplete, DeviceRemoved, threadVars, useVars, TypeOK
<1>2. \A o \in Objects : lastUse'[o] > completed' => lastUse[o] > completed
  BY <1>1
<1>3. Existing' = Existing
  BY <1>1 DEF Existing, Alive, Referenced
<1> QED
  BY <1>1, <1>2, <1>3 DEF Pending

\* The end of Close leaves no work and creates nothing.
LEMMA CloseEmpties ==
  ASSUME CloseDone
  PROVE  Pending' = {} /\ Existing' \subseteq Existing
<1>1. refs' = <<>> /\ held' = held /\ closed'
  BY DEF CloseDone
<1>2. \A o : Alive(o)' => Alive(o)
  BY <1>1 DEF Alive, Referenced
<1> QED
  BY <1>1, <1>2 DEF Pending, Existing

\* Every step of the execution context is a step of the lifetime contract.
LEMMA LifetimeStep ==
  TypeOK /\ FenceInv /\ InFlightAlive /\ TypeOK' /\ InFlightAlive' /\ [Next]_vars
    => [Lifetime!Next]_(Lifetime!vars)
<1> SUFFICES ASSUME TypeOK, FenceInv, InFlightAlive, TypeOK', InFlightAlive', [Next]_vars
             PROVE  Lifetime!Next \/ UNCHANGED <<Existing, Pending>>
  BY DEF Lifetime!vars, Existing
<1>1. CASE WorkStep
  <2>1. Pending \subseteq Pending'
    BY <1>1, WorkKeepsPending
  <2>2. Pending' \subseteq Existing'
    BY DEF TypeOK, InFlightAlive, Pending, Existing
  <2>3. Existing' \subseteq Objects
    BY DEF Existing
  <2> QED
    BY <2>1, <2>2, <2>3 DEF Lifetime!Next, Lifetime!CpuStep, Existing
<1>2. CASE GpuComplete \/ DeviceRemoved
  BY <1>2, GpuShrinks DEF Lifetime!Next, Lifetime!GpuStep, Existing
<1>3. CASE CloseDone
  BY <1>3, CloseEmpties DEF Lifetime!Next, Lifetime!Shutdown, Existing
<1>4. CASE UNCHANGED vars
  <2>1. UNCHANGED <<held, refs, closed, removed, completed, recordedUses, lastUse>>
    BY <1>4 DEF vars, queueVars, threadVars, useVars
  <2> QED
    BY <2>1 DEF Existing, Alive, Referenced, Pending
<1> QED
  BY <1>1, <1>2, <1>3, <1>4 DEF Next, WorkStep

\* The execution context implements the contract it makes with its callers, as
\* long as every Compute that recorded work queues its reference.
THEOREM Implements == ASSUME ~FailingCompute PROVE Spec => LifetimeSpec
<1>1. Init => Lifetime!Init
  <2> SUFFICES ASSUME Init PROVE Existing = {} /\ Pending = {}
    BY DEF Lifetime!Init, Existing
  <2>1. held = {} /\ refs = <<>> /\ completed = 0 /\ recordedUses = {}
        /\ \A o \in Objects : lastUse[o] = 0
    BY DEF Init
  <2> QED
    BY <2>1 DEF Existing, Alive, Referenced, Pending
<1>2. Spec => []InFlightAlive
  BY UseIsSafe
<1>3. SafeInv => TypeOK /\ FenceInv
  BY DEF SafeInv
<1> QED
  BY <1>1, <1>2, <1>3, LifetimeStep, SafeInvariant, PTL DEF Spec, LifetimeSpec, Lifetime!Spec

-----------------------------------------------------------------------------
(* The descriptor pool: whatever the context does, descriptors of          *)
(* unfinished work are never handed out again.                             *)

HeapRecord == [flags : Flags, capacity : Nat, size : Nat, event : Nat]
RangeRecord == [first : Nat, count : Nat, fence : Nat]

\* A range of unfinished work lies in the part of its heap that was given out, and
\* the heap's event is not signalled before the work is finished.
GoodRange(h, r) ==
  /\ r.first + r.count <= h.size
  /\ r.fence = 0 => h.event = lastFence + 1
  /\ r.fence # 0 => completed < r.fence /\ r.fence <= h.event /\ r.fence <= lastFence

GoodHeap(h, ranges) ==
  /\ h.size <= h.capacity /\ h.event <= lastFence + 1
  /\ removed => ranges = {}
  /\ \A r \in ranges : GoodRange(h, r)

GoodPool(pool) ==
  /\ pool.heaps \in Seq(HeapRecord) /\ pool.inUse \in Seq(SUBSET RangeRecord)
  /\ Len(pool.inUse) = Len(pool.heaps)
  /\ \A i \in 1 .. Len(pool.heaps) : GoodHeap(pool.heaps[i], pool.inUse[i])
  /\ pool.overwritten = FALSE

PoolInv ==
  /\ GoodPool(Pool)
  /\ \A i \in DOMAIN inUse : \A r \in inUse[i] : r.fence = 0 => recorded

\* What the allocation relies on of the context.
Fences == lastFence \in Nat /\ completed \in Nat /\ completed <= lastFence /\ removed \in BOOLEAN

-----------------------------------------------------------------------------
(* Allocation *)

\* The range a dispatch gets from heap h; nothing runs on a removed device.
Taken(h, count) ==
  IF removed THEN {} ELSE {[first |-> h.size, count |-> count, fence |-> 0]}

\* A heap is only started over when no unfinished work reads it.
LEMMA RecycleGood ==
  ASSUME Fences, NEW h \in HeapRecord, NEW ranges \in SUBSET RangeRecord, GoodHeap(h, ranges)
  PROVE  /\ Recycled(h) \in HeapRecord /\ GoodHeap(Recycled(h), ranges)
         /\ Recycled(h).flags = h.flags /\ Recycled(h).capacity = h.capacity
<1>1. CASE h.event # 0 /\ IsSignaled(h.event)
  <2>1. ranges = {}
    BY <1>1 DEF GoodHeap, GoodRange, IsSignaled, Fences, RangeRecord, HeapRecord
  <2>2. Recycled(h) = [h EXCEPT !.size = 0]
    BY <1>1 DEF Recycled
  <2> QED
    BY <2>1, <2>2 DEF GoodHeap, HeapRecord
<1>2. CASE ~(h.event # 0 /\ IsSignaled(h.event))
  BY <1>2 DEF Recycled
<1> QED
  BY <1>1, <1>2

\* What is taken from a heap with room lies behind everything in use.
LEMMA TakeGood ==
  ASSUME Fences, NEW h \in HeapRecord, NEW ranges \in SUBSET RangeRecord, GoodHeap(h, ranges),
         NEW count \in Nat, h.capacity - h.size >= count
  PROVE  /\ Take(h, count) \in HeapRecord /\ ranges \cup Taken(h, count) \in SUBSET RangeRecord
         /\ GoodHeap(Take(h, count), ranges \cup Taken(h, count))
         /\ \A r \in ranges, s \in Taken(h, count) : ~Overlap(r, s)
<1> DEFINE range == [first |-> h.size, count |-> count, fence |-> 0]
           taken == Taken(h, count)
<1>1. Take(h, count) = [h EXCEPT !.size = h.size + count, !.event = lastFence + 1]
  BY DEF Take, NextEvent
<1>2. /\ Take(h, count) \in HeapRecord
      /\ Take(h, count).size = h.size + count /\ Take(h, count).event = lastFence + 1
      /\ Take(h, count).capacity = h.capacity
  <2>1. h.size \in Nat /\ h.size + count \in Nat /\ lastFence + 1 \in Nat
    BY DEF HeapRecord, Fences
  <2> QED
    BY <1>1, <2>1 DEF HeapRecord
<1>3. range \in RangeRecord /\ range.first = h.size /\ range.count = count /\ range.fence = 0
  BY DEF RangeRecord, HeapRecord
<1>0. taken = IF removed THEN {} ELSE {range}
  BY DEF Taken
<1> HIDE DEF range, taken
<1>4. \A r \in ranges : GoodRange(Take(h, count), r) /\ r.first + r.count <= h.size
  BY <1>2 DEF GoodHeap, GoodRange, HeapRecord, RangeRecord, Fences
<1>5. GoodRange(Take(h, count), range)
  BY <1>2, <1>3 DEF GoodRange, HeapRecord
<1>6. h.size + count <= h.capacity
  BY DEF HeapRecord
<1>7. removed => ranges \cup taken = {}
  BY <1>0 DEF GoodHeap
<1>8. \A r \in ranges \cup taken : GoodRange(Take(h, count), r)
  BY <1>0, <1>4, <1>5
<1>9. GoodHeap(Take(h, count), ranges \cup taken)
  BY <1>2, <1>6, <1>7, <1>8 DEF GoodHeap, Fences
<1>10. \A r \in ranges : ~Overlap(r, range)
  BY <1>3, <1>4 DEF Overlap, RangeRecord, HeapRecord
<1> QED
  BY <1>0, <1>2, <1>3, <1>9, <1>10 DEF taken

\* A set of numbers has a least one.
LEMMA LeastNumber ==
  ASSUME NEW S \in SUBSET Nat, S # {}
  PROVE  \E n \in S : \A m \in S : ~(m < n)
<1>1. PICK n \in S : \A m \in S : ~(<<m, n>> \in OpToRel(<, Nat))
  BY NatLessThanWellFounded, WFMin
<1> QED
  BY <1>1 DEF OpToRel

\* Allocating keeps the pool good: descriptors in use are not handed out.
LEMMA AllocGood ==
  ASSUME Fences, NEW pool, GoodPool(pool), NEW count \in Nat, NEW flags \in Flags
  PROVE  GoodPool(AllocDescriptors(pool, count, flags))
<1> DEFINE new == Heap(flags, IF count > InitialCapacity THEN count ELSE InitialCapacity)
           n == Len(pool.heaps)
           all == Append(pool.heaps, new)
           Best(i) == Fits(all[i], count, flags) /\ \A j \in 1 .. i - 1 : ~Fits(all[j], count, flags)
           at == CHOOSE i \in DOMAIN all : Best(i)
           length == IF at > Len(pool.heaps) THEN at ELSE Len(pool.heaps)
           tried == [i \in 1 .. length |->
                       IF i <= at /\ all[i].flags = flags THEN Recycled(all[i]) ELSE all[i]]
           range == [first |-> tried[at].size, count |-> count, fence |-> 0]
           taken == IF removed THEN {} ELSE {range}
           used == IF at > Len(pool.heaps) THEN {} ELSE pool.inUse[at]
           result == AllocDescriptors(pool, count, flags)
           Used(i) == IF i > n THEN {} ELSE pool.inUse[i]
<1>1. result =
        [heaps |-> [tried EXCEPT ![at] = Take(tried[at], count)],
         inUse |-> [i \in 1 .. length |-> IF i = at THEN used \cup taken ELSE pool.inUse[i]],
         overwritten |-> pool.overwritten \/ \E r \in used, s \in taken : Overlap(r, s)]
  BY Zenon DEF AllocDescriptors
<1>2. new \in HeapRecord /\ new.flags = flags /\ new.size = 0 /\ new.event = 0 /\ new.capacity >= count
  BY PoolAssumption DEF Heap, HeapRecord
<1>3. /\ n \in Nat /\ pool.heaps \in Seq(HeapRecord) /\ all \in Seq(HeapRecord)
      /\ Len(all) = n + 1 /\ DOMAIN all = 1 .. n + 1 /\ all[n + 1] = new
      /\ \A i \in 1 .. n : all[i] = pool.heaps[i]
  BY <1>2 DEF GoodPool
<1>4. at \in 1 .. n + 1 /\ Best(at)
  <2> DEFINE S == {i \in 1 .. n + 1 : Fits(all[i], count, flags)}
  <2>1. Recycled(new) = new
    BY <1>2 DEF Recycled
  <2>2. n + 1 \in S
    BY <1>2, <1>3, <2>1 DEF Fits, HeapRecord
  <2>3. PICK i \in S : \A m \in S : ~(m < i)
    <3>1. S \in SUBSET Nat /\ S # {}
      BY <1>3, <2>2
    <3> HIDE DEF S
    <3> QED
      BY <3>1, LeastNumber
  <2>4. Best(i)
    BY <1>3, <2>3
  <2>5. \E k \in DOMAIN all : Best(k)
    BY <1>3, <2>3, <2>4
  <2> QED
    BY <1>3, <2>5
<1> HIDE DEF at, new, all
<1>5. length \in Nat /\ length \in {n, n + 1} /\ at <= length /\ (at = n + 1 <=> length = n + 1)
  BY <1>3, <1>4
<1>6. \A i \in 1 .. length : /\ all[i] \in HeapRecord /\ Used(i) \in SUBSET RangeRecord
                             /\ GoodHeap(all[i], Used(i))
  <2> SUFFICES ASSUME NEW i \in 1 .. length
               PROVE  all[i] \in HeapRecord /\ Used(i) \in SUBSET RangeRecord /\ GoodHeap(all[i], Used(i))
    OBVIOUS
  <2>1. CASE i \in 1 .. n
    <3>1. pool.inUse[i] \in SUBSET RangeRecord /\ GoodHeap(pool.heaps[i], pool.inUse[i])
      BY <1>3, <2>1 DEF GoodPool
    <3> QED
      BY <1>3, <2>1, <3>1
  <2>2. CASE i = n + 1
    <3>1. GoodHeap(new, {})
      BY <1>2 DEF GoodHeap, Fences, HeapRecord
    <3> QED
      BY <1>2, <1>3, <2>2, <3>1
  <2> QED
    BY <1>3, <1>5, <2>1, <2>2
<1>7. \A i \in 1 .. length : /\ tried[i] \in HeapRecord /\ GoodHeap(tried[i], Used(i))
  BY <1>6, RecycleGood
<1>8. tried[at] = Recycled(all[at]) /\ tried[at].capacity = all[at].capacity /\ at \in 1 .. length
  <2>1. at \in 1 .. length /\ all[at].flags = flags
    BY <1>4, <1>5 DEF Fits
  <2> QED
    BY <1>6, <2>1, RecycleGood
<1>9. tried[at].capacity - tried[at].size >= count
  BY <1>4, <1>8 DEF Fits
<1>10. used = Used(at)
  BY <1>3
<1>11. /\ Take(tried[at], count) \in HeapRecord /\ used \cup taken \in SUBSET RangeRecord
       /\ GoodHeap(Take(tried[at], count), used \cup taken)
       /\ \A r \in used, s \in taken : ~Overlap(r, s)
  <2>1. tried[at] \in HeapRecord /\ used \in SUBSET RangeRecord /\ GoodHeap(tried[at], used)
    BY <1>6, <1>7, <1>8, <1>10
  <2>2. taken = Taken(tried[at], count)
    BY DEF Taken
  <2> HIDE DEF tried, used, taken, range
  <2> QED
    BY <1>9, <2>1, <2>2, TakeGood
<1>12. /\ result.heaps = [tried EXCEPT ![at] = Take(tried[at], count)]
       /\ result.inUse = [i \in 1 .. length |-> IF i = at THEN used \cup taken ELSE pool.inUse[i]]
       /\ result.overwritten = FALSE
  <2> HIDE DEF tried, taken, used, at, length, result
  <2>1. pool.overwritten = FALSE
    BY DEF GoodPool
  <2>2. (\E r \in used, s \in taken : Overlap(r, s)) = FALSE
    BY <1>11
  <2> QED
    BY <1>1, <2>1, <2>2, Zenon
<1>13. /\ DOMAIN tried = 1 .. length
       /\ \A i \in 1 .. length : i # at => Used(i) = pool.inUse[i]
  BY <1>3, <1>4, <1>5
<1> HIDE DEF tried, taken, used, at, length, result
<1>14. /\ result.heaps \in [1 .. length -> HeapRecord]
       /\ \A i \in 1 .. length : result.heaps[i] = IF i = at THEN Take(tried[at], count) ELSE tried[i]
  BY <1>7, <1>8, <1>11, <1>12, <1>13
<1>15. /\ result.inUse \in [1 .. length -> SUBSET RangeRecord]
       /\ \A i \in 1 .. length : result.inUse[i] = IF i = at THEN used \cup taken ELSE Used(i)
  BY <1>6, <1>11, <1>12, <1>13
<1>16. /\ result.heaps \in Seq(HeapRecord) /\ result.inUse \in Seq(SUBSET RangeRecord)
       /\ Len(result.heaps) = length /\ Len(result.inUse) = length
  BY <1>5, <1>14, <1>15
<1>17. \A i \in 1 .. length : GoodHeap(result.heaps[i], result.inUse[i])
  BY <1>7, <1>11, <1>14, <1>15
<1>18. result.overwritten = FALSE
  BY <1>12
<1> QED
  BY <1>16, <1>17, <1>18 DEF GoodPool, result

-----------------------------------------------------------------------------
(* The steps of the context *)

\* Composing the pool with the context adds no behaviour to the context.
LEMMA StepsOfContext == [PoolNext]_<<vars, poolVars>> => [Next]_vars
<1> SUFFICES ASSUME [PoolNext]_<<vars, poolVars>> PROVE [Next]_vars
  OBVIOUS
<1>1. CASE PoolNext
  BY <1>1, Zenon DEF PoolNext, Next
<1>2. CASE UNCHANGED <<vars, poolVars>>
  BY <1>2
<1> QED
  BY <1>1, <1>2

\* A handler that dispatches submits nothing, and leaves an open list.
Records == UNCHANGED <<lastFence, completed, removed>> /\ recorded' = TRUE

LEMMA Dispatching ==
  ASSUME NEW k \in Kernels, NEW B \in SUBSET Buffers,
         \/ CreateKernel(k) \/ ComputeShapeChangedFails(k) \/ Compute(k, B)
         \/ ComputeShapeChanged(k, B)
  PROVE  Records
BY DEF CreateKernel, ComputeShapeChangedFails, Compute, ComputeShapeChanged, RecordUses, Records

\* What a step of the context does to the fence and to the open list: a list that
\* is not submitted stays open.
FenceStepOK ==
  /\ removed => removed'
  /\ completed <= completed'
  /\ lastFence' \in {lastFence, lastFence + 1}
  /\ lastFence' = lastFence /\ recorded => recorded'

LEMMA RecordsKeepFence == TypeOK /\ Records => FenceStepOK
<1> SUFFICES ASSUME TypeOK, Records PROVE FenceStepOK
  OBVIOUS
<1>1. completed <= completed' /\ lastFence' \in {lastFence, lastFence + 1}
  BY DEF Records, TypeOK
<1>2. removed => removed'
  BY DEF Records
<1>3. recorded'
  BY DEF Records
<1> QED
  BY <1>1, <1>2, <1>3 DEF FenceStepOK

LEMMA FenceMoves == TypeOK /\ [Next]_vars => FenceStepOK
<1> SUFFICES ASSUME TypeOK, [Next]_vars PROVE FenceStepOK
  OBVIOUS
<1>0. lastFence \in Nat /\ completed \in Nat
  BY DEF TypeOK
<1> USE <1>0 DEF FenceStepOK
<1>1. CASE \E k \in Kernels : CreateKernel(k) \/ ComputeShapeChangedFails(k)
  <2>1. Records
    BY <1>1, Dispatching, {} \in SUBSET Buffers
  <2> QED
    BY <2>1, RecordsKeepFence
<1>2. CASE \E k \in Kernels : ReleaseKernel(k) \/ ExecuteCommandListFails(k)
  <2>1. ASSUME NEW k \in Kernels, ReleaseKernel(k) PROVE FenceStepOK
    BY <2>1 DEF ReleaseKernel, recorderVars
  <2>2. ASSUME NEW k \in Kernels, ExecuteCommandListFails(k) PROVE FenceStepOK
    BY <2>2 DEF ExecuteCommandListFails
  <2> QED
    BY <1>2, <2>1, <2>2
<1>3. CASE \E k \in Kernels, B \in SUBSET Buffers : Compute(k, B) \/ ComputeShapeChanged(k, B)
  <2>1. Records
    BY <1>3, Dispatching
  <2> QED
    BY <2>1, RecordsKeepFence
<1>4. CASE \E k \in Kernels, B \in SUBSET Buffers : ExecuteCommandList(k, B)
  BY <1>4 DEF ExecuteCommandList, Submit
<1>5. CASE \E B \in SUBSET Buffers : CopyBufferRegion(B)
  BY <1>5 DEF CopyBufferRegion, RecordUses, queueVars
<1>6. CASE \E B \in SUBSET Buffers : ReadbackFromGpu(B)
  BY <1>6 DEF ReadbackFromGpu, FlushRecorded, Submit, WaitForSignal
<1>7. CASE \E b \in Buffers : AllocBuffer(b) \/ FreeBuffer(b)
  BY <1>7 DEF AllocBuffer, FreeBuffer, queueVars, recorderVars
<1>8. CASE Flush
  BY <1>8 DEF Flush, FlushRecorded, Submit
<1>9. CASE OnSessionInitializationEnd
  BY <1>9 DEF OnSessionInitializationEnd, FlushRecorded, Submit, WaitForSignal, recorderVars
<1>10. CASE WaitDone
  BY <1>10 DEF WaitDone, recorderVars
<1>11. CASE CloseAndExecuteFails
  BY <1>11 DEF CloseAndExecuteFails
<1>12. CASE Close
  BY <1>12 DEF Close, queueVars, recorderVars
<1>13. CASE CloseDone
  BY <1>13 DEF CloseDone
<1>14. CASE GpuComplete
  BY <1>14 DEF GpuComplete, recorderVars
<1>15. CASE DeviceRemoved
  BY <1>15 DEF DeviceRemoved, recorderVars
<1>16. CASE UNCHANGED vars
  BY <1>16 DEF vars, queueVars, recorderVars
<1> QED
  BY <1>1, <1>2, <1>3, <1>4, <1>5, <1>6, <1>7, <1>8, <1>9, <1>10, <1>11, <1>12, <1>13, <1>14,
     <1>15, <1>16 DEF Next

-----------------------------------------------------------------------------
(* The invariant *)

LEMMA PoolInvInit == Init /\ PoolInit => PoolInv
<1> SUFFICES ASSUME Init, PoolInit PROVE PoolInv
  OBVIOUS
<1>1. Heap("SHADER_VISIBLE", InitialCapacity) \in HeapRecord
  BY PoolAssumption DEF Heap, HeapRecord, Flags
<1>2. GoodHeap(Heap("SHADER_VISIBLE", InitialCapacity), {})
  BY PoolAssumption DEF Init, Heap, GoodHeap
<1>3. /\ heaps \in Seq(HeapRecord) /\ inUse \in Seq(SUBSET RangeRecord)
      /\ Len(heaps) = 1 /\ Len(inUse) = 1 /\ inUse[1] = {}
      /\ heaps[1] = Heap("SHADER_VISIBLE", InitialCapacity) /\ DOMAIN inUse = 1 .. 1
  BY <1>1 DEF PoolInit
<1>4. overwritten = FALSE
  BY DEF PoolInit
<1>5. \A i \in 1 .. 1 : GoodHeap(heaps[i], inUse[i]) /\ inUse[i] = {}
  <2>1. GoodHeap(heaps[1], inUse[1]) /\ inUse[1] = {}
    BY <1>2, <1>3, Zenon
  <2>2. \A i \in 1 .. 1 : i = 1
    OBVIOUS
  <2> QED
    BY <2>1, <2>2, Zenon
<1>6. GoodPool(Pool)
  BY <1>3, <1>4, <1>5 DEF GoodPool, Pool
<1> QED
  BY <1>3, <1>5, <1>6 DEF PoolInv

\* A pool that is good before a recording handler is the good pool after it.
LEMMA BecomesGood ==
  ASSUME Fences, NEW pool, GoodPool(pool), Becomes(pool), Records
  PROVE  PoolInv'
<1>1. GoodPool(pool)'
  BY DEF GoodPool, GoodHeap, GoodRange, Records
<1>2. Pool'.heaps = pool.heaps /\ Pool'.inUse = pool.inUse /\ Pool'.overwritten = pool.overwritten
  BY DEF Becomes, Pool
<1>3. GoodPool(Pool)'
  BY <1>1, <1>2 DEF GoodPool
<1>4. recorded'
  BY DEF Records
<1> QED
  BY <1>3, <1>4 DEF PoolInv

LEMMA AdvanceGood ==
  ASSUME Fences, Fences', FenceStepOK, PoolInv, Advance
  PROVE  PoolInv'
<1>1. /\ heaps' = heaps /\ heaps \in Seq(HeapRecord) /\ inUse \in Seq(SUBSET RangeRecord)
      /\ Len(heaps) \in Nat /\ Len(inUse) = Len(heaps) /\ DOMAIN inUse = 1 .. Len(heaps)
      /\ overwritten' = FALSE
  BY DEF Advance, PoolInv, GoodPool, Pool
<1>2. ASSUME NEW i \in 1 .. Len(heaps), NEW s \in inUse[i], NEW r, r = Stamped(s), Unfinished(r)
      PROVE  /\ r \in RangeRecord /\ GoodRange(heaps[i], r)'
             /\ r.fence = 0 => recorded'
  <2>1. /\ s \in RangeRecord /\ heaps[i] \in HeapRecord /\ GoodRange(heaps[i], s)
        /\ s.fence = 0 => recorded
    BY <1>1 DEF PoolInv, GoodPool, GoodHeap, Pool
  <2>2. CASE s.fence = 0 /\ lastFence' # lastFence
    <3>1. r = [s EXCEPT !.fence = lastFence'] /\ lastFence' = lastFence + 1
      BY <1>2, <2>1, <2>2 DEF Stamped, FenceStepOK
    <3>2. /\ r \in RangeRecord /\ r.fence = lastFence + 1
          /\ r.first = s.first /\ r.count = s.count
      BY <2>1, <3>1 DEF RangeRecord, Fences
    <3>3. r.fence > completed'
      BY <1>2, <3>2 DEF Unfinished, Fences
    <3> QED
      BY <1>1, <2>1, <2>2, <3>1, <3>2, <3>3 DEF GoodRange, Fences
  <2>3. CASE ~(s.fence = 0 /\ lastFence' # lastFence)
    <3>1. r = s
      BY <1>2, <2>3 DEF Stamped
    <3>2. s.fence = 0 => lastFence' = lastFence /\ recorded'
      BY <2>1, <2>3 DEF FenceStepOK
    <3>3. s.fence # 0 => s.fence > completed'
      BY <1>2, <3>1 DEF Unfinished
    <3>4. lastFence <= lastFence' /\ s.fence \in Nat /\ completed' \in Nat
      BY <2>1 DEF FenceStepOK, Fences, RangeRecord
    <3> QED
      BY <1>1, <2>1, <3>1, <3>2, <3>3, <3>4 DEF GoodRange, Fences
  <2> QED
    BY <2>2, <2>3
<1>3. \A i \in 1 .. Len(heaps) :
        inUse'[i] = {r \in {Stamped(s) : s \in inUse[i]} : Unfinished(r)}
  BY <1>1 DEF Advance
<1>4. inUse' \in [1 .. Len(heaps) -> SUBSET RangeRecord]
  BY <1>1, <1>2, <1>3 DEF Advance
<1>5. inUse' \in Seq(SUBSET RangeRecord) /\ Len(inUse') = Len(heaps) /\ DOMAIN inUse' = 1 .. Len(heaps)
  BY <1>1, <1>4
<1>6. \A i \in 1 .. Len(heaps) : \A r \in inUse'[i] : GoodRange(heaps[i], r)' /\ (r.fence = 0 => recorded')
  <2> SUFFICES ASSUME NEW i \in 1 .. Len(heaps), NEW r \in inUse'[i]
               PROVE  GoodRange(heaps[i], r)' /\ (r.fence = 0 => recorded')
    OBVIOUS
  <2>1. PICK s \in inUse[i] : r = Stamped(s) /\ Unfinished(r)
    BY <1>3
  <2> QED
    BY <1>2, <2>1
<1>7. \A i \in 1 .. Len(heaps) : removed' => inUse'[i] = {}
  BY <1>3 DEF Unfinished
<1>8. \A i \in 1 .. Len(heaps) : heaps[i].size <= heaps[i].capacity /\ heaps[i].event <= lastFence' + 1
  <2> SUFFICES ASSUME NEW i \in 1 .. Len(heaps)
               PROVE  heaps[i].size <= heaps[i].capacity /\ heaps[i].event <= lastFence' + 1
    OBVIOUS
  <2>1. heaps[i] \in HeapRecord /\ GoodHeap(heaps[i], inUse[i])
    BY <1>1 DEF PoolInv, GoodPool, Pool
  <2>2. lastFence <= lastFence' /\ heaps[i].event \in Nat /\ lastFence' \in Nat /\ lastFence \in Nat
    BY <2>1 DEF FenceStepOK, Fences, HeapRecord
  <2> QED
    BY <2>1, <2>2 DEF GoodHeap
<1>9. \A i \in 1 .. Len(heaps) : GoodHeap(heaps[i], inUse[i])'
  BY <1>1, <1>6, <1>7, <1>8 DEF GoodHeap
<1>10. GoodPool(Pool)'
  BY <1>1, <1>5, <1>9 DEF GoodPool, Pool
<1> QED
  BY <1>5, <1>6, <1>10 DEF PoolInv

\* Allocations happen in handlers that record, everything else only advances.
LEMMA PoolStep ==
  Fences /\ Fences' /\ FenceStepOK /\ PoolInv /\ [PoolNext]_<<vars, poolVars>> => PoolInv'
<1> SUFFICES ASSUME Fences, Fences', FenceStepOK, PoolInv, [PoolNext]_<<vars, poolVars>>
             PROVE  PoolInv'
  OBVIOUS
<1>1. GoodPool(Pool) /\ Counts \subseteq Nat /\ "SHADER_VISIBLE" \in Flags /\ "NONE" \in Flags
  BY PoolAssumption DEF PoolInv, Flags
<1>2. CASE Advance
  BY <1>2, AdvanceGood
<1>3. CASE Dispatch /\ \E k \in Kernels, B \in SUBSET Buffers :
             CreateKernel(k) \/ ComputeShapeChangedFails(k) \/ Compute(k, B)
  <2>1. Records
    BY <1>3, Dispatching
  <2>2. PICK count \in Counts : Becomes(AllocDescriptors(Pool, count, "SHADER_VISIBLE"))
    BY <1>3 DEF Dispatch
  <2>3. GoodPool(AllocDescriptors(Pool, count, "SHADER_VISIBLE"))
    BY <1>1, AllocGood
  <2> QED
    BY <2>1, <2>2, <2>3, BecomesGood
<1>4. CASE TwoDispatches /\ \E k \in Kernels, B \in SUBSET Buffers : ComputeShapeChanged(k, B)
  <2>1. Records
    BY <1>4, Dispatching
  <2>2. PICK c \in Counts, d \in Counts :
          Becomes(AllocDescriptors(AllocDescriptors(Pool, c, "SHADER_VISIBLE"), d, "SHADER_VISIBLE"))
    BY <1>4 DEF TwoDispatches
  <2>3. GoodPool(AllocDescriptors(Pool, c, "SHADER_VISIBLE"))
    BY <1>1, AllocGood
  <2>4. GoodPool(AllocDescriptors(AllocDescriptors(Pool, c, "SHADER_VISIBLE"), d, "SHADER_VISIBLE"))
    BY <1>1, <2>3, AllocGood
  <2> QED
    BY <2>1, <2>2, <2>4, BecomesGood
<1>5. CASE Fill /\ \E B \in SUBSET Buffers : CopyBufferRegion(B)
  <2>1. Records
    BY <1>5 DEF CopyBufferRegion, RecordUses, Records, queueVars
  <2>2. GoodPool(AllocDescriptors(Pool, 1, "NONE"))
    BY <1>1, AllocGood
  <2>3. GoodPool(AllocDescriptors(AllocDescriptors(Pool, 1, "NONE"), 1, "SHADER_VISIBLE"))
    BY <1>1, <2>2, AllocGood
  <2> QED
    BY <1>5, <2>1, <2>3, BecomesGood DEF Fill
<1>6. CASE UNCHANGED <<vars, poolVars>>
  BY <1>6 DEF vars, poolVars, queueVars, recorderVars, PoolInv, GoodPool, GoodHeap, GoodRange, Pool
<1> QED
  BY <1>2, <1>3, <1>4, <1>5, <1>6, Zenon DEF PoolNext

-----------------------------------------------------------------------------
(* The theorems *)

\* The context composed with the pool behaves as the context: what is proved of
\* ExecutionContext holds of the composition.
THEOREM Composes == PoolSpec => Spec
<1>1. [PoolNext]_<<vars, poolVars>> => [Next]_vars
  BY StepsOfContext
<1> QED
  BY <1>1, PTL DEF PoolSpec, Spec

LEMMA PoolInvariant == PoolSpec => []PoolInv
<1>1. Init /\ PoolInit => PoolInv
  BY PoolInvInit
<1>2. SafeInv => Fences
  BY DEF SafeInv, TypeOK, FenceInv, Fences
<1>3. SafeInv /\ [PoolNext]_<<vars, poolVars>> => FenceStepOK
  BY StepsOfContext, FenceMoves DEF SafeInv
<1>4. Fences /\ Fences' /\ FenceStepOK /\ PoolInv /\ [PoolNext]_<<vars, poolVars>> => PoolInv'
  BY PoolStep
<1>5. PoolSpec => []SafeInv
  BY Composes, SafeInvariant, PTL
<1> QED
  BY <1>1, <1>2, <1>3, <1>4, <1>5, PTL DEF PoolSpec

\* Heaps never give out more than they hold, and what unfinished work reads lies
\* inside them.
THEOREM PoolTypeCorrect == PoolSpec => []PoolTypeOK
<1>1. PoolInv /\ Fences => PoolTypeOK
  <2> SUFFICES ASSUME PoolInv, Fences PROVE PoolTypeOK
    OBVIOUS
  <2>1. /\ heaps \in Seq(HeapRecord) /\ inUse \in Seq(SUBSET RangeRecord)
        /\ Len(inUse) = Len(heaps) /\ overwritten = FALSE
        /\ \A i \in 1 .. Len(heaps) : GoodHeap(heaps[i], inUse[i])
    BY DEF PoolInv, GoodPool, Pool
  <2>2. ASSUME NEW i \in 1 .. Len(heaps)
        PROVE  /\ heaps[i].flags \in Flags /\ heaps[i].size \in 0 .. heaps[i].capacity
               /\ heaps[i].event \in 0 .. lastFence + 1
               /\ \A r \in inUse[i] : /\ r.first + r.count <= heaps[i].capacity
                                      /\ r.fence \in 0 .. lastFence
    <3>1. heaps[i] \in HeapRecord /\ GoodHeap(heaps[i], inUse[i]) /\ inUse[i] \in SUBSET RangeRecord
      BY <2>1
    <3> QED
      BY <3>1 DEF HeapRecord, RangeRecord, GoodHeap, GoodRange, Fences
  <2> QED
    <3>1. DOMAIN heaps = 1 .. Len(heaps) /\ DOMAIN inUse = 1 .. Len(heaps)
      BY <2>1
    <3> QED
      BY <2>1, <2>2, <3>1 DEF PoolTypeOK
<1>2. SafeInv => Fences
  BY DEF SafeInv, TypeOK, FenceInv, Fences
<1> QED
  BY <1>1, <1>2, PoolInvariant, Composes, SafeInvariant, PTL

\* Whatever heaps are recycled and whenever, no dispatch gets descriptors that
\* recorded or submitted work still reads, or that lie past the end of a heap.
THEOREM DescriptorsStay == PoolSpec => []DescriptorsIntact
<1>1. PoolInv /\ PoolTypeOK => DescriptorsIntact
  BY DEF PoolInv, GoodPool, Pool, PoolTypeOK, DescriptorsIntact
<1> QED
  BY <1>1, PoolInvariant, PoolTypeCorrect, PTL
=============================================================================
