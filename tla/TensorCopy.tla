------------------------------ MODULE TensorCopy ------------------------------
(***************************************************************************)
(* A list of tensor copies between CPU and GPU memory in one call.  GPU    *)
(* work is recorded and executes later, in order; copies from the GPU to   *)
(* the CPU are collected and read back together.  CopyTensorsPlugin, which *)
(* serves the data transfer, flushes the collected ones before a copy of   *)
(* another kind; CopyTensors, which serves the Memcpy kernels, does not.   *)
(*                                                                         *)
(* Tensors hold abstract values.  An upload stages the CPU data when it is *)
(* recorded (see UploadHeap).  The GPU may execute recorded work at any    *)
(* time: batches are also submitted by other calls' flushes.               *)
(***************************************************************************)
EXTENDS Integers, Sequences

CONSTANTS
  CpuTensors,
  GpuTensors,
  MaxCopies    \* bound on the length of the list

Tensors == CpuTensors \cup GpuTensors
Copies == {c \in Tensors \X Tensors : c[1] # c[2]}

ASSUME TensorsAssumption == CpuTensors \cap GpuTensors = {} /\ MaxCopies \in Nat

VARIABLES
  kernel,   \* the call is CopyTensors, not CopyTensorsPlugin
  copies,   \* the call's list of <<source, destination>>
  next,     \* index of the copy the loop looks at
  cpu,      \* contents of the CPU tensors
  gpu,      \* contents of the GPU tensors
  queue,    \* recorded GPU work not executed yet
  pending,  \* copies collected for the batched readback
  staged    \* the readback heap, once its copies executed

vars == <<kernel, copies, next, cpu, gpu, queue, pending, staged>>

\* Each tensor starts with a value of its own.
Initially == [t \in Tensors |-> t]

TypeOK ==
  /\ kernel \in BOOLEAN /\ copies \in Seq(Copies)
  /\ next \in 1..Len(copies) + 2
  /\ cpu \in [CpuTensors -> Tensors]
  /\ gpu \in [GpuTensors -> Tensors]
  /\ pending \in Seq(GpuTensors \X CpuTensors)
  /\ \A i \in DOMAIN queue : queue[i].kind \in {"upload", "copy", "readback"}
  /\ staged \in Seq(Tensors)

\* The contents after each number of the copies of a list, one after the other.
Contents(list) ==
  LET contents[i \in 0..Len(list)] ==
        IF i = 0 THEN Initially
        ELSE [contents[i - 1] EXCEPT ![list[i][2]] = contents[i - 1][list[i][1]]]
  IN  contents

\* What the call promises: the copies happen one after the other.
InOrder(list) == Contents(list)[Len(list)]

\* The outputs of a Memcpy kernel are new tensors, and one side is on the GPU.
KernelList(list) == \A i \in DOMAIN list :
  /\ {list[i][1], list[i][2]} \cap GpuTensors # {}
  /\ \A j \in DOMAIN list : list[i][1] # list[j][2] /\ (i # j => list[i][2] # list[j][2])

Init ==
  /\ copies \in UNION {[1..n -> Copies] : n \in 1..MaxCopies}
  /\ kernel \in {FALSE, KernelList(copies)}
  /\ next = 1
  /\ cpu = [t \in CpuTensors |-> t]
  /\ gpu = [t \in GpuTensors |-> t]
  /\ queue = <<>>
  /\ pending = <<>>
  /\ staged = <<>>

-----------------------------------------------------------------------------
\* A batched readback blocks the loop.
ReadingBack == staged # <<>> \/ \E i \in DOMAIN queue : queue[i].kind = "readback"
Looping == next <= Len(copies) /\ ~ReadingBack
Source == copies[next][1]
Destination == copies[next][2]

\* Mutant: a copy of another kind does not wait for the collected readbacks.
AlwaysFlushed == TRUE

\* CopyTensorsPlugin has flushed the collected readbacks.
Flushed == kernel \/ pending = <<>>

\* CPU -> GPU: the data is staged and the copy is recorded.
CpuToGpuCopy ==
  /\ Looping
  /\ Flushed
  /\ Source \in CpuTensors /\ Destination \in GpuTensors
  /\ queue' = Append(queue, [kind |-> "upload", value |-> cpu[Source], to |-> Destination])
  /\ next' = next + 1
  /\ UNCHANGED <<kernel, copies, cpu, gpu, pending, staged>>

GpuToGpuCopy ==
  /\ Looping
  /\ Flushed
  /\ Source \in GpuTensors /\ Destination \in GpuTensors
  /\ queue' = Append(queue, [kind |-> "copy", from |-> Source, to |-> Destination])
  /\ next' = next + 1
  /\ UNCHANGED <<kernel, copies, cpu, gpu, pending, staged>>

CpuToCpuCopy ==
  /\ Looping
  /\ Flushed
  /\ Source \in CpuTensors /\ Destination \in CpuTensors
  /\ cpu' = [cpu EXCEPT ![Destination] = cpu[Source]]
  /\ next' = next + 1
  /\ UNCHANGED <<kernel, copies, gpu, queue, pending, staged>>

\* GPU -> CPU: collected.
CollectReadback ==
  /\ Looping
  /\ Source \in GpuTensors /\ Destination \in CpuTensors
  /\ pending' = Append(pending, copies[next])
  /\ next' = next + 1
  /\ UNCHANGED <<kernel, copies, cpu, gpu, queue, staged>>

\* The batched readback, before a copy of another kind (CopyTensorsPlugin) and
\* after the loop: the copies into the readback heap are recorded ...
FlushPendingReadbacks ==
  /\ pending # <<>> /\ ~ReadingBack
  /\ next <= Len(copies) => ~kernel /\ ~(Source \in GpuTensors /\ Destination \in CpuTensors)
  /\ queue' = queue \o [i \in DOMAIN pending |-> [kind |-> "readback", from |-> pending[i][1]]]
  /\ UNCHANGED <<kernel, copies, next, cpu, gpu, pending, staged>>

\* ... and when the GPU has executed them the CPU tensors are written.
ReadbackDone ==
  /\ pending # <<>> /\ Len(staged) = Len(pending)
  /\ cpu' = [t \in CpuTensors |->
               LET writes == {i \in DOMAIN pending : pending[i][2] = t}
               IN  IF writes = {} THEN cpu[t]
                   ELSE staged[CHOOSE i \in writes : \A j \in writes : j <= i]]
  /\ pending' = <<>>
  /\ staged' = <<>>
  /\ UNCHANGED <<kernel, copies, next, gpu, queue>>

\* The GPU executes the oldest command.
GpuExecute ==
  /\ queue # <<>>
  /\ queue' = Tail(queue)
  /\ LET command == Head(queue)
     IN  \/ /\ command.kind = "upload"
            /\ gpu' = [gpu EXCEPT ![command.to] = command.value]
            /\ UNCHANGED staged
         \/ /\ command.kind = "copy"
            /\ gpu' = [gpu EXCEPT ![command.to] = gpu[command.from]]
            /\ UNCHANGED staged
         \/ /\ command.kind = "readback"
            /\ staged' = Append(staged, gpu[command.from])
            /\ UNCHANGED gpu
  /\ UNCHANGED <<kernel, copies, next, cpu, pending>>

\* The call returns; GPU work may still be queued.
Return ==
  /\ next = Len(copies) + 1
  /\ pending = <<>>
  /\ next' = next + 1
  /\ UNCHANGED <<kernel, copies, cpu, gpu, queue, pending, staged>>

Next ==
  \/ CpuToGpuCopy \/ GpuToGpuCopy \/ CpuToCpuCopy \/ CollectReadback
  \/ FlushPendingReadbacks \/ ReadbackDone \/ GpuExecute \/ Return

Spec == Init /\ [][Next]_vars

-----------------------------------------------------------------------------
Returned == next = Len(copies) + 2

\* When the call has returned, the CPU tensors hold what copying in order
\* gives, and the GPU tensors will once the queued work has executed
\* ("Process tensors in array order to preserve dependencies"); also for the
\* kernels' CopyTensors, whose lists have no dependencies.
CopiesInOrder ==
  LET expected == InOrder(copies)
  IN  Returned =>
        /\ \A t \in CpuTensors : cpu[t] = expected[t]
        /\ queue = <<>> => \A t \in GpuTensors : gpu[t] = expected[t]
=============================================================================
