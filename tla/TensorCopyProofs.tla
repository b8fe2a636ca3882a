--------------------------- MODULE TensorCopyProofs ---------------------------
(***************************************************************************)
(* Proofs about TensorCopy, for any tensors and any list of copies: that   *)
(* the call leaves the tensors as copying in order would.                  *)
(***************************************************************************)
EXTENDS TensorCopy, WellFoundedInduction, SequenceTheorems, TLAPS

-----------------------------------------------------------------------------
(* The inductive invariant *)

\* How many copies the loop has handled, and what they should make of the tensors.
Done == IF next <= Len(copies) THEN next - 1 ELSE Len(copies)
Now == Contents(copies)[Done]

OnGpu(contents) == [t \in GpuTensors |-> contents[t]]
GpuContents == [GpuTensors -> Tensors]

Commands == [kind : {"upload"}, value : Tensors, to : GpuTensors]
              \cup [kind : {"copy"}, from : GpuTensors, to : GpuTensors]
              \cup [kind : {"readback"}, from : GpuTensors]

Readback(g) == [kind |-> "readback", from |-> g]

\* What a command makes of the GPU tensors.
Runs(f, command, g) ==
  \/ command.kind = "upload" /\ g = [f EXCEPT ![command.to] = command.value]
  \/ command.kind = "copy" /\ g = [f EXCEPT ![command.to] = f[command.from]]

\* The first w commands of queue q write GPU tensors: they take contents c[0] to
\* c[1] and so on.  The others read back what copies p, of which s have been read,
\* ask for.
Split(w, c, q, p, s) ==
  /\ w \in 0 .. Len(q) /\ c \in [0 .. w -> GpuContents]
  /\ \A j \in 1 .. w : Runs(c[j - 1], q[j], c[j])
  /\ \A j \in w + 1 .. Len(q) : q[j] = Readback(p[Len(s) + j - w][1])
  /\ (w < Len(q) \/ s # <<>>) => Len(s) + Len(q) - w = Len(p)
  /\ s # <<>> => w = 0

\* Once queue q has run, contents g of the GPU tensors have become now.
Waiting(q, p, s, g, now) == \E w, c : Split(w, c, q, p, s) /\ c[0] = g /\ c[w] = now

\* The CPU tensors f hold contents now, but for those that copies p will write;
\* what the last of these will write is in now too.
Writes(p, t) == {i \in DOMAIN p : p[i][2] = t}
Latest(p, t, i) == i \in Writes(p, t) /\ \A j \in Writes(p, t) : j <= i
Agrees(f, p, now) == \A t \in CpuTensors :
  /\ Writes(p, t) = {} => f[t] = now[t]
  /\ \A i \in DOMAIN p : Latest(p, t, i) => now[p[i][1]] = now[t]

TypeInv ==
  /\ TypeOK
  /\ queue \in Seq(Commands)
  /\ Len(copies) \in Nat \ {0}
  /\ kernel => KernelList(copies)

PendingInv ==
  /\ \A i \in DOMAIN pending : \E j \in DOMAIN copies : pending[i] = copies[j]
  /\ next = Len(copies) + 2 => pending = <<>>
  /\ \A i \in DOMAIN staged : i \in DOMAIN pending /\ staged[i] = Now[pending[i][1]]

IInv ==
  /\ TypeInv /\ PendingInv
  /\ Agrees(cpu, pending, Now)
  /\ Waiting(queue, pending, staged, gpu, OnGpu(Now))

-----------------------------------------------------------------------------
(* Numbers and functions *)

\* A set of numbers has a least one.
LEMMA LeastNumber ==
  ASSUME NEW S \in SUBSET Nat, S # {}
  PROVE  \E n \in S : \A m \in S : n <= m
<1>1. PICK n \in S : \A m \in S : ~(<<m, n>> \in OpToRel(<, Nat))
  BY NatLessThanWellFounded, WFMin
<1>2. \A m \in S : ~(m < n)
  BY <1>1 DEF OpToRel
<1> QED
  BY <1>2

\* What holds of 0, and of k whenever it holds of k - 1, holds up to m.
LEMMA UpTo ==
  ASSUME NEW m \in Nat, NEW P, 0 \in P, \A k \in 1..m : k - 1 \in P => k \in P
  PROVE  \A k \in 0..m : k \in P
<1> DEFINE Out == {k \in 0..m : k \notin P}
<1> SUFFICES ASSUME Out # {} PROVE FALSE
  OBVIOUS
<1>1. Out \in SUBSET Nat
  OBVIOUS
<1>2. PICK n \in Out : \A k \in Out : n <= k
  <2> HIDE DEF Out
  <2> QED
    BY <1>1, LeastNumber
<1>3. n \in 1..m /\ n - 1 \in 0..m /\ n - 1 < n
  BY <1>2
<1>4. n - 1 \in P
  BY <1>2, <1>3
<1> QED
  BY <1>2, <1>3, <1>4

\* A function may be defined by its value at 0 and a step.
Follows(g, S, e, f, m) ==
  g \in [0..m -> S] /\ \A k \in 0..m : g[k] = IF k = 0 THEN e ELSE f[<<k, g[k - 1]>>]

LEMMA Recursion ==
  ASSUME NEW S, NEW e \in S, NEW m \in Nat, NEW f \in [(1..m) \X S -> S]
  PROVE  \E g : Follows(g, S, e, f, m)
<1> DEFINE P == {n \in 0..m : \E g : Follows(g, S, e, f, n)}
<1>1. 0 \in P
  <2>1. Follows([k \in 0..0 |-> e], S, e, f, 0)
    BY DEF Follows
  <2> QED
    BY <2>1
<1>2. ASSUME NEW n \in 1..m, n - 1 \in P PROVE n \in P
  <2>1. PICK g : Follows(g, S, e, f, n - 1)
    BY <1>2
  <2>2. n - 1 \in 0..n - 1 /\ g[n - 1] \in S /\ f[<<n, g[n - 1]>>] \in S
    BY <2>1 DEF Follows
  <2> DEFINE h == [k \in 0..n |-> IF k = n THEN f[<<n, g[n - 1]>>] ELSE g[k]]
  <2>3. h \in [0..n -> S]
    <3>1. \A k \in 0..n : k # n => k \in 0..n - 1
      OBVIOUS
    <3> QED
      BY <3>1, <2>1, <2>2 DEF Follows
  <2>4. ASSUME NEW k \in 0..n PROVE h[k] = IF k = 0 THEN e ELSE f[<<k, h[k - 1]>>]
    <3>1. CASE k = n
      <4>1. k # 0 /\ k - 1 \in 0..n /\ k - 1 # n
        BY <3>1
      <4> QED
        BY <3>1, <4>1
    <3>2. CASE k # n
      <4>1. k \in 0..n - 1
        BY <3>2
      <4>2. h[k] = g[k] /\ (k # 0 => k - 1 \in 0..n /\ h[k - 1] = g[k - 1])
        BY <3>2, <4>1
      <4> QED
        BY <2>1, <4>1, <4>2 DEF Follows
    <3> QED
      BY <3>1, <3>2
  <2> HIDE DEF h
  <2>5. Follows(h, S, e, f, n)
    BY <2>3, <2>4 DEF Follows
  <2> QED
    BY <2>5
<1> HIDE DEF P
<1>3. m \in P
  BY <1>1, <1>2, UpTo
<1> QED
  BY <1>3 DEF P

\* A set of places in a list has a last one.
LEMMA LastNumber ==
  ASSUME NEW n \in Nat, NEW S \in SUBSET (1 .. n), S # {}
  PROVE  \E i \in S : \A j \in S : j <= i
<1> DEFINE T == {n - i : i \in S}
<1>1. T \in SUBSET Nat /\ T # {}
  <2>1. \A i \in S : n - i \in Nat
    OBVIOUS
  <2>2. T \subseteq Nat
    BY <2>1
  <2>3. PICK i : i \in S
    OBVIOUS
  <2>4. n - i \in T
    BY <2>3
  <2> QED
    BY <2>2, <2>4
<1>2. PICK m \in T : \A k \in T : m <= k
  <2> HIDE DEF T
  <2> QED
    BY <1>1, LeastNumber
<1>3. PICK i \in S : m = n - i
  BY <1>2
<1>4. ASSUME NEW j \in S PROVE j <= i
  <2>1. n - j \in T
    OBVIOUS
  <2> QED
    BY <1>2, <1>3, <2>1
<1> QED
  BY <1>4

-----------------------------------------------------------------------------
(* The copies in order *)

AllContents == [Tensors -> Tensors]

\* One copy.
Copied(f, c) == [f EXCEPT ![c[2]] = f[c[1]]]

LEMMA CopiedType ==
  ASSUME NEW f \in AllContents, NEW c \in Copies
  PROVE  Copied(f, c) \in AllContents
BY DEF Copied, AllContents, Copies

\* The elements of a list of copies.
LEMMA ListOfCopies ==
  ASSUME NEW list \in Seq(Copies)
  PROVE  Len(list) \in Nat /\ DOMAIN list = 1 .. Len(list) /\ \A i \in 1 .. Len(list) : list[i] \in Copies
OBVIOUS

\* The contents after each copy are well defined and those the loop goes through.
LEMMA ContentsFollow ==
  ASSUME NEW list \in Seq(Copies)
  PROVE  /\ \A i \in 0 .. Len(list) : Contents(list)[i] \in AllContents
         /\ Contents(list)[0] = Initially
         /\ \A i \in 1 .. Len(list) :
              Contents(list)[i] = Copied(Contents(list)[i - 1], list[i])
<1> DEFINE m == Len(list)
           f == [x \in (1 .. m) \X AllContents |-> Copied(x[2], list[x[1]])]
           E == CHOOSE g : g = [i \in 0 .. m |->
                  IF i = 0 THEN Initially
                  ELSE [g[i - 1] EXCEPT ![list[i][2]] = g[i - 1][list[i][1]]]]
<1>1. Contents(list) = E
  BY DEF Contents
<1>2. m \in Nat /\ \A i \in 1 .. m : list[i] \in Copies
  BY ListOfCopies
<1> HIDE DEF m
<1>3. Initially \in AllContents
  BY DEF Initially, AllContents
<1>4. f \in [(1 .. m) \X AllContents -> AllContents]
  BY <1>2, CopiedType
<1>5. \A i \in 1 .. m : \A h \in AllContents : f[<<i, h>>] = Copied(h, list[i])
  OBVIOUS
<1> HIDE DEF f
<1>6. PICK g : Follows(g, AllContents, Initially, f, m)
  BY <1>2, <1>3, <1>4, Recursion
<1>7. ASSUME NEW i \in 0 .. m
      PROVE  g[i] = IF i = 0 THEN Initially
                    ELSE [g[i - 1] EXCEPT ![list[i][2]] = g[i - 1][list[i][1]]]
  <2>1. CASE i = 0
    BY <1>6, <2>1 DEF Follows
  <2>2. CASE i # 0
    <3>1. i \in 1 .. m /\ i - 1 \in 0 .. m
      BY <1>2, <2>2
    <3>2. g[i - 1] \in AllContents /\ g[i] = f[<<i, g[i - 1]>>]
      BY <1>6, <2>2, <3>1 DEF Follows
    <3>3. g[i] = Copied(g[i - 1], list[i])
      BY <1>5, <3>1, <3>2
    <3> QED
      BY <2>2, <3>3 DEF Copied
  <2> QED
    BY <2>1, <2>2
<1>8. g = [i \in 0 .. m |-> g[i]]
  BY <1>6 DEF Follows
<1>9. g = [i \in 0 .. m |->
             IF i = 0 THEN Initially
             ELSE [g[i - 1] EXCEPT ![list[i][2]] = g[i - 1][list[i][1]]]]
  BY <1>7, <1>8
<1>10. E = [i \in 0 .. m |->
             IF i = 0 THEN Initially
             ELSE [E[i - 1] EXCEPT ![list[i][2]] = E[i - 1][list[i][1]]]]
  BY <1>9
<1> HIDE DEF E
<1>11. E[0] = Initially
  BY <1>2, <1>10
<1>12. ASSUME NEW i \in 1 .. m PROVE E[i] = Copied(E[i - 1], list[i])
  <2>1. i \in 0 .. m /\ i # 0
    OBVIOUS
  <2> QED
    BY <1>10, <2>1 DEF Copied
<1> DEFINE P == {i \in 0 .. m : E[i] \in AllContents}
<1>13. 0 \in P
  BY <1>2, <1>3, <1>11
<1>14. ASSUME NEW i \in 1 .. m, i - 1 \in P PROVE i \in P
  <2>1. i \in 0 .. m
    OBVIOUS
  <2> QED
    BY <1>2, <1>12, <1>14, <2>1, CopiedType
<1> HIDE DEF P
<1>15. \A i \in 0 .. m : i \in P
  BY <1>2, <1>13, <1>14, UpTo
<1> QED
  BY <1>1, <1>11, <1>12, <1>15 DEF P, m

\* The loop's index.
LEMMA NowType ==
  ASSUME TypeInv
  PROVE  Done \in 0 .. Len(copies) /\ Now \in AllContents
<1>1. copies \in Seq(Copies) /\ next \in 1 .. Len(copies) + 2 /\ Len(copies) \in Nat
  BY DEF TypeInv, TypeOK
<1>2. Done \in 0 .. Len(copies)
  BY <1>1 DEF Done
<1> QED
  BY <1>1, <1>2, ContentsFollow DEF Now

\* One more copy handled.
LEMMA NowNext ==
  ASSUME TypeInv, next <= Len(copies), next' = next + 1, UNCHANGED copies
  PROVE  /\ next \in DOMAIN copies /\ copies[next] \in Copies
         /\ copies[next] = <<Source, Destination>>
         /\ Source \in Tensors /\ Destination \in Tensors /\ Source # Destination
         /\ Now' = [Now EXCEPT ![Destination] = Now[Source]]
<1>1. copies \in Seq(Copies) /\ next \in 1 .. Len(copies) + 2 /\ Len(copies) \in Nat
  BY DEF TypeInv, TypeOK
<1>2. next \in 1 .. Len(copies) /\ next \in DOMAIN copies /\ copies[next] \in Copies
  BY <1>1, ListOfCopies
<1>3. /\ copies[next] = <<Source, Destination>>
      /\ Source \in Tensors /\ Destination \in Tensors /\ Source # Destination
  BY <1>2 DEF Copies, Source, Destination
<1>4. Done = next - 1 /\ Done' = next
  BY <1>1 DEF Done
<1>5. Now' = Contents(copies)[next]
  BY <1>4 DEF Now
<1>6. Contents(copies)[next] = Copied(Contents(copies)[next - 1], copies[next])
  BY <1>1, <1>2, ContentsFollow
<1> QED
  BY <1>2, <1>3, <1>4, <1>5, <1>6 DEF Now, Copied, Source, Destination

\* The others handle none.
LEMMA NowKept ==
  ASSUME TypeInv, UNCHANGED copies,
         next' = next \/ (next = Len(copies) + 1 /\ next' = next + 1)
  PROVE  Now' = Now
<1>1. next \in 1 .. Len(copies) + 2 /\ Len(copies) \in Nat
  BY DEF TypeInv, TypeOK
<1>2. Done' = Done
  BY <1>1 DEF Done
<1> QED
  BY <1>2 DEF Now

-----------------------------------------------------------------------------
(* The queue *)

\* Readback commands are no other commands.
LEMMA ReadbackKind ==
  /\ \A g : Readback(g).kind = "readback" /\ Readback(g).from = g
  /\ \A f, command, g : Runs(f, command, g) => command.kind # "readback"
BY DEF Readback, Runs

\* While no readback is queued or read, every command queued writes a GPU tensor.
LEMMA OnlyWrites ==
  ASSUME NEW q \in Seq(Commands), NEW w, NEW c, NEW p, Split(w, c, q, p, <<>>),
         ~\E i \in DOMAIN q : q[i].kind = "readback"
  PROVE  w = Len(q)
<1>1. Len(q) \in Nat /\ DOMAIN q = 1 .. Len(q) /\ w \in 0 .. Len(q)
  BY DEF Split
<1> SUFFICES ASSUME w # Len(q) PROVE FALSE
  OBVIOUS
<1>2. w + 1 \in w + 1 .. Len(q) /\ w + 1 \in 1 .. Len(q)
  <2>1. \A l \in Nat : \A v \in 0 .. l : v # l => v + 1 \in v + 1 .. l /\ v + 1 \in 1 .. l
    OBVIOUS
  <2> QED
    BY <1>1, <2>1, Zenon
<1>3. \A j \in w + 1 .. Len(q) : q[j] = Readback(p[Len(<<>>) + j - w][1])
  BY DEF Split
<1>4. q[w + 1].kind = "readback"
  BY <1>2, <1>3, ReadbackKind
<1> QED
  BY <1>1, <1>2, <1>4

\* A queue of writes, whatever is asked to be read back.
LEMMA WritesSplit ==
  ASSUME NEW q \in Seq(Commands), NEW c \in [0 .. Len(q) -> GpuContents],
         \A j \in 1 .. Len(q) : Runs(c[j - 1], q[j], c[j]), NEW p
  PROVE  Split(Len(q), c, q, p, <<>>)
<1>1. Len(q) \in Nat
  OBVIOUS
<1> QED
  BY <1>1 DEF Split

\* The same work waits if more is asked to be read back.
LEMMA QueueKept ==
  ASSUME NEW q \in Seq(Commands), ~\E i \in DOMAIN q : q[i].kind = "readback",
         NEW p, NEW g, NEW now, Waiting(q, p, <<>>, g, now), NEW r
  PROVE  Waiting(q, r, <<>>, g, now)
<1>1. PICK w, c : Split(w, c, q, p, <<>>) /\ c[0] = g /\ c[w] = now
  BY DEF Waiting
<1>2. w = Len(q)
  BY <1>1, OnlyWrites
<1>3. Split(w, c, q, r, <<>>)
  BY <1>1, <1>2, WritesSplit DEF Split
<1> QED
  BY <1>1, <1>3 DEF Waiting

\* A write is queued.
LEMMA QueueGrows ==
  ASSUME NEW q \in Seq(Commands), ~\E i \in DOMAIN q : q[i].kind = "readback",
         NEW p, NEW g, NEW now, Waiting(q, p, <<>>, g, now),
         NEW command \in Commands, NEW new \in GpuContents, Runs(now, command, new)
  PROVE  Waiting(Append(q, command), p, <<>>, g, new)
<1>1. PICK w, c : Split(w, c, q, p, <<>>) /\ c[0] = g /\ c[w] = now
  BY DEF Waiting
<1>2. w = Len(q)
  BY <1>1, OnlyWrites
<1> DEFINE r == Append(q, command)
           d == [j \in 0 .. Len(r) |-> IF j = Len(r) THEN new ELSE c[j]]
<1>3. Len(q) \in Nat /\ r \in Seq(Commands) /\ Len(r) = Len(q) + 1
      /\ r[Len(r)] = command /\ \A j \in 1 .. Len(q) : r[j] = q[j]
  OBVIOUS
<1> HIDE DEF r
<1>4. d \in [0 .. Len(r) -> GpuContents]
  <2>1. \A j \in 0 .. Len(r) : j # Len(r) => j \in 0 .. w
    BY <1>2, <1>3
  <2>2. \A j \in 0 .. w : c[j] \in GpuContents
    BY <1>1 DEF Split
  <2> QED
    BY <2>1, <2>2
<1>5. ASSUME NEW j \in 1 .. Len(r) PROVE Runs(d[j - 1], r[j], d[j])
  <2>1. j - 1 \in 0 .. Len(r) /\ j - 1 # Len(r) /\ j \in 0 .. Len(r)
    BY <1>3
  <2>2. d[j - 1] = c[j - 1]
    BY <2>1
  <2>3. CASE j = Len(r)
    <3>1. j - 1 = w /\ r[j] = command /\ d[j] = new
      BY <1>2, <1>3, <2>1, <2>3
    <3> HIDE DEF d
    <3> QED
      BY <1>1, <2>2, <3>1
  <2>4. CASE j # Len(r)
    <3>1. j \in 1 .. Len(q) /\ d[j] = c[j] /\ r[j] = q[j]
      BY <1>3, <2>1, <2>4
    <3> HIDE DEF d
    <3> QED
      BY <1>1, <1>2, <2>2, <3>1 DEF Split
  <2> QED
    BY <2>3, <2>4
<1>6. d[0] = g /\ d[Len(r)] = new
  BY <1>1, <1>3
<1> HIDE DEF d
<1>7. Split(Len(r), d, r, p, <<>>)
  BY <1>3, <1>4, <1>5, WritesSplit
<1> QED
  BY <1>6, <1>7 DEF Waiting, r

\* The readbacks are queued.
LEMMA QueueReadbacks ==
  ASSUME NEW q \in Seq(Commands), ~\E i \in DOMAIN q : q[i].kind = "readback",
         NEW p \in Seq(GpuTensors \X CpuTensors), NEW g, NEW now, Waiting(q, p, <<>>, g, now)
  PROVE  LET r == q \o [i \in DOMAIN p |-> [kind |-> "readback", from |-> p[i][1]]]
         IN  r \in Seq(Commands) /\ Waiting(r, p, <<>>, g, now)
<1>1. PICK w, c : Split(w, c, q, p, <<>>) /\ c[0] = g /\ c[w] = now
  BY DEF Waiting
<1>2. w = Len(q)
  BY <1>1, OnlyWrites
<1> DEFINE t == [i \in DOMAIN p |-> [kind |-> "readback", from |-> p[i][1]]]
           r == q \o t
<1>3. /\ Len(p) \in Nat /\ DOMAIN p = 1 .. Len(p)
      /\ \A i \in 1 .. Len(p) : p[i] \in GpuTensors \X CpuTensors
  OBVIOUS
<1>4. \A i \in 1 .. Len(p) : t[i] = Readback(p[i][1]) /\ t[i] \in Commands
  BY <1>3 DEF Readback, Commands
<1>5. t \in [1 .. Len(p) -> Commands]
  BY <1>3, <1>4
<1> HIDE DEF t
<1>6. t \in Seq(Commands) /\ Len(t) = Len(p)
  BY <1>3, <1>5
<1>7. /\ Len(q) \in Nat /\ r \in Seq(Commands) /\ Len(r) = Len(q) + Len(p)
      /\ \A j \in 1 .. Len(q) : r[j] = q[j]
      /\ \A j \in Len(q) + 1 .. Len(r) : r[j] = t[j - Len(q)]
  BY <1>3, <1>6, ConcatProperties, LenProperties
<1> HIDE DEF r
<1>8. ASSUME NEW j \in w + 1 .. Len(r) PROVE r[j] = Readback(p[Len(<<>>) + j - w][1])
  <2>1. j - w \in 1 .. Len(p) /\ Len(<<>>) + j - w = j - w /\ r[j] = t[j - w]
    BY <1>2, <1>3, <1>7
  <2> QED
    BY <1>4, <2>1
<1>9. w \in 0 .. Len(r) /\ Len(<<>>) + Len(r) - w = Len(p)
  BY <1>2, <1>3, <1>7
<1>10. \A j \in 1 .. w : Runs(c[j - 1], r[j], c[j])
  BY <1>1, <1>2, <1>7 DEF Split
<1>11. Split(w, c, r, p, <<>>)
  BY <1>1, <1>8, <1>9, <1>10 DEF Split
<1> QED
  BY <1>1, <1>7, <1>11 DEF Waiting, r, t

\* The GPU executes the command at the head of the queue.
LEMMA QueueRuns ==
  ASSUME NEW q \in Seq(Commands), q # <<>>, NEW p \in Seq(GpuTensors \X CpuTensors),
         NEW s \in Seq(Tensors), NEW g \in GpuContents, NEW now, Waiting(q, p, s, g, now)
  PROVE  \/ \E h \in GpuContents :
              Runs(g, Head(q), h) /\ s = <<>> /\ Waiting(Tail(q), p, s, h, now)
         \/ /\ Head(q).kind = "readback" /\ Len(s) + 1 \in DOMAIN p
            /\ Head(q).from = p[Len(s) + 1][1] /\ g = now
            /\ \A v \in Tensors : Waiting(Tail(q), p, Append(s, v), g, now)
<1>1. PICK w, c : Split(w, c, q, p, s) /\ c[0] = g /\ c[w] = now
  BY DEF Waiting
<1> DEFINE r == Tail(q)
<1>2. /\ Len(q) \in Nat \ {0} /\ r \in Seq(Commands) /\ Len(r) = Len(q) - 1
      /\ Head(q) = q[1] /\ \A j \in 1 .. Len(r) : r[j] = q[j + 1]
  BY HeadTailProperties, EmptySeq
<1> HIDE DEF r
<1>3. w \in 0 .. Len(q) /\ Len(s) \in Nat
  BY <1>1, LenProperties DEF Split
<1>4. CASE w = 0
  <2>1. 1 \in w + 1 .. Len(q) /\ Len(s) + 1 - w = Len(s) + 1
    BY <1>2, <1>3, <1>4
  <2>2. q[1] = Readback(p[Len(s) + 1][1])
    BY <1>1, <2>1 DEF Split
  <2>3. Len(s) + Len(q) - w = Len(p)
    BY <1>1, <1>2, <1>4 DEF Split
  <2>4. Len(s) + 1 \in DOMAIN p /\ Len(p) \in Nat
    <3>1. Len(p) \in Nat /\ DOMAIN p = 1 .. Len(p)
      BY LenProperties
    <3>2. \A l, k \in Nat : \A m \in Nat \ {0} : l + m - 0 = k => l + 1 \in 1 .. k
      OBVIOUS
    <3>3. Len(s) + Len(q) - 0 = Len(p)
      BY <1>4, <2>3
    <3> QED
      BY <1>2, <1>3, <3>1, <3>2, <3>3, Zenon
  <2>5. g = now
    BY <1>1, <1>4
  <2>6. ASSUME NEW v \in Tensors PROVE Waiting(r, p, Append(s, v), g, now)
    <3> DEFINE u == Append(s, v)
    <3>1. Len(u) = Len(s) + 1 /\ u # <<>>
      OBVIOUS
    <3> HIDE DEF u
    <3>2. ASSUME NEW j \in w + 1 .. Len(r) PROVE r[j] = Readback(p[Len(u) + j - w][1])
      <4>1. j + 1 \in w + 1 .. Len(q) /\ Len(s) + (j + 1) - w = Len(u) + j - w /\ j \in 1 .. Len(r)
        BY <1>2, <1>3, <1>4, <3>1
      <4>2. q[j + 1] = Readback(p[Len(s) + (j + 1) - w][1])
        BY <1>1, <4>1 DEF Split
      <4> QED
        BY <1>2, <4>1, <4>2
    <3>3. w \in 0 .. Len(r) /\ Len(u) + Len(r) - w = Len(p)
      <4>1. Len(u) + Len(r) = Len(s) + Len(q)
        BY <1>2, <1>3, <3>1
      <4>2. Len(r) \in Nat /\ Len(u) + Len(r) \in Nat
        BY <1>2, <1>3, <3>1
      <4>3. w \in 0 .. Len(r) /\ Len(u) + Len(r) - w = Len(u) + Len(r)
        BY <1>4, <4>2
      <4>4. Len(s) + Len(q) - w = Len(s) + Len(q)
        BY <1>2, <1>3, <1>4
      <4> QED
        BY <2>3, <4>1, <4>3, <4>4
    <3>4. Split(w, c, r, p, u)
      <4>1. \A j \in 1 .. w : FALSE
        BY <1>4
      <4> QED
        BY <1>1, <1>4, <3>2, <3>3, <4>1 DEF Split
    <3> QED
      BY <1>1, <3>4 DEF Waiting, u
  <2> QED
    BY <1>2, <2>2, <2>4, <2>5, <2>6, ReadbackKind DEF r
<1>5. CASE w # 0
  <2> DEFINE d == [j \in 0 .. w - 1 |-> c[j + 1]]
  <2>1. s = <<>> /\ w \in 1 .. Len(q) /\ w - 1 \in 0 .. Len(r) /\ 1 \in 0 .. w
    BY <1>1, <1>2, <1>3, <1>5 DEF Split
  <2>2. c[1] \in GpuContents /\ Runs(g, q[1], c[1])
    <3>1. 1 \in 1 .. w /\ 1 - 1 = 0
      BY <2>1
    <3> QED
      BY <1>1, <2>1, <3>1 DEF Split
  <2>3. d \in [0 .. w - 1 -> GpuContents]
    <3>1. \A j \in 0 .. w - 1 : j + 1 \in 0 .. w
      BY <2>1
    <3>2. \A j \in 0 .. w : c[j] \in GpuContents
      BY <1>1 DEF Split
    <3> QED
      BY <3>1, <3>2
  <2>4. ASSUME NEW j \in 1 .. w - 1 PROVE Runs(d[j - 1], r[j], d[j])
    <3>1. /\ j - 1 \in 0 .. w - 1 /\ j \in 0 .. w - 1 /\ j + 1 \in 1 .. w /\ j \in 1 .. Len(r)
          /\ (j - 1) + 1 = j /\ (j + 1) - 1 = j
      BY <1>2, <2>1
    <3>2. d[j - 1] = c[j] /\ d[j] = c[j + 1]
      BY <3>1
    <3>3. Runs(c[j], q[j + 1], c[j + 1])
      BY <1>1, <3>1 DEF Split
    <3> HIDE DEF d
    <3> QED
      BY <1>2, <3>1, <3>2, <3>3
  <2>5. d[0] = c[1] /\ d[w - 1] = now
    <3>1. 0 \in 0 .. w - 1 /\ w - 1 \in 0 .. w - 1 /\ 0 + 1 = 1 /\ (w - 1) + 1 = w
      BY <2>1
    <3> QED
      BY <1>1, <3>1
  <2> HIDE DEF d
  <2>6. ASSUME NEW j \in (w - 1) + 1 .. Len(r) PROVE r[j] = Readback(p[Len(s) + j - (w - 1)][1])
    <3>1. j \in 1 .. Len(r) /\ j + 1 \in w + 1 .. Len(q) /\ Len(s) + (j + 1) - w = Len(s) + j - (w - 1)
      BY <1>2, <1>3, <2>1
    <3>2. q[j + 1] = Readback(p[Len(s) + (j + 1) - w][1])
      BY <1>1, <3>1 DEF Split
    <3> QED
      BY <1>2, <3>1, <3>2
  <2>7. (w - 1 < Len(r) \/ s # <<>>) => Len(s) + Len(r) - (w - 1) = Len(p)
    <3>1. w < Len(q) => Len(s) + Len(q) - w = Len(p)
      BY <1>1 DEF Split
    <3>2. Len(s) + Len(r) - (w - 1) = Len(s) + Len(q) - w /\ (w - 1 < Len(r) => w < Len(q))
      BY <1>2, <1>3, <2>1
    <3> QED
      BY <2>1, <3>1, <3>2
  <2>8. Split(w - 1, d, r, p, s)
    BY <2>1, <2>3, <2>4, <2>6, <2>7 DEF Split
  <2>9. Waiting(r, p, s, c[1], now)
    BY <2>5, <2>8 DEF Waiting
  <2> QED
    BY <1>2, <2>1, <2>2, <2>9 DEF r
<1> QED
  BY <1>4, <1>5

-----------------------------------------------------------------------------
(* The CPU tensors *)

\* Nothing to read back.
LEMMA NothingWrites ==
  /\ \A t : Writes(<<>>, t) = {}
  /\ \A f, now : Agrees(f, <<>>, now) <=> \A t \in CpuTensors : f[t] = now[t]
BY DEF Writes, Agrees

\* A copy to the GPU changes nothing that is to be read back.
LEMMA AgreesOnGpuWrite ==
  ASSUME NEW f, NEW p \in Seq(GpuTensors \X CpuTensors), NEW now \in AllContents,
         Agrees(f, p, now), NEW to \in GpuTensors, NEW v,
         \A i \in DOMAIN p : p[i][1] # to
  PROVE  Agrees(f, p, [now EXCEPT ![to] = v])
<1> DEFINE new == [now EXCEPT ![to] = v]
<1>1. \A t \in Tensors : t # to => new[t] = now[t]
  BY DEF AllContents
<1> HIDE DEF new
<1>2. \A t \in CpuTensors : t \in Tensors /\ t # to
  BY TensorsAssumption DEF Tensors
<1>3. \A i \in DOMAIN p : p[i][1] \in Tensors /\ p[i][1] # to
  <2>1. \A i \in DOMAIN p : p[i] \in GpuTensors \X CpuTensors
    BY ElementOfSeq, LenProperties
  <2> QED
    BY <2>1 DEF Tensors
<1>4. Agrees(f, p, new)
  BY <1>1, <1>2, <1>3 DEF Agrees
<1> QED
  BY <1>4 DEF new

\* A readback is collected.
LEMMA AgreesOnCollect ==
  ASSUME NEW f, NEW p \in Seq(GpuTensors \X CpuTensors), NEW now \in AllContents,
         Agrees(f, p, now), NEW from \in GpuTensors, NEW to \in CpuTensors
  PROVE  Agrees(f, Append(p, <<from, to>>), [now EXCEPT ![to] = now[from]])
<1> DEFINE new == [now EXCEPT ![to] = now[from]]
           r == Append(p, <<from, to>>)
<1>1. /\ \A t \in Tensors : t # to => new[t] = now[t]
      /\ new[to] = now[from]
  BY DEF AllContents, Tensors
<1>2. /\ Len(p) \in Nat /\ DOMAIN p = 1 .. Len(p) /\ DOMAIN r = 1 .. Len(p) + 1
      /\ r[Len(p) + 1] = <<from, to>> /\ \A i \in 1 .. Len(p) : r[i] = p[i]
  OBVIOUS
<1>3. \A i \in DOMAIN p : p[i][1] \in GpuTensors /\ p[i][2] \in CpuTensors
  <2>1. \A i \in DOMAIN p : p[i] \in GpuTensors \X CpuTensors
    BY ElementOfSeq, LenProperties
  <2> QED
    BY <2>1
<1>4. \A x \in GpuTensors : x \in Tensors /\ x # to
  BY TensorsAssumption DEF Tensors
<1>5. CpuTensors \subseteq Tensors
  BY DEF Tensors
<1> HIDE DEF new, r
<1>6. ASSUME NEW t \in CpuTensors
      PROVE  /\ Writes(r, t) = {} => f[t] = new[t]
             /\ \A i \in DOMAIN r : Latest(r, t, i) => new[r[i][1]] = new[t]
  <2>1. CASE t = to
    <3>1. Len(p) + 1 \in Writes(r, t)
      BY <1>2, <2>1 DEF Writes
    <3>2. ASSUME NEW i \in DOMAIN r, Latest(r, t, i) PROVE i = Len(p) + 1
      BY <1>2, <3>1, <3>2 DEF Latest
    <3>3. new[r[Len(p) + 1][1]] = new[t]
      BY <1>1, <1>2, <1>4, <2>1 DEF Tensors
    <3> QED
      BY <3>1, <3>2, <3>3
  <2>2. CASE t # to
    <3>1. Writes(r, t) = Writes(p, t)
      BY <1>2, <2>2 DEF Writes
    <3>2. new[t] = now[t]
      BY <1>1, <1>5, <2>2
    <3>3. ASSUME NEW i \in DOMAIN r, Latest(r, t, i) PROVE new[r[i][1]] = new[t]
      <4>1. i \in DOMAIN p /\ Latest(p, t, i)
        BY <3>1, <3>3 DEF Latest, Writes
      <4>2. r[i] = p[i] /\ p[i][1] \in Tensors /\ p[i][1] # to
        BY <1>2, <1>3, <1>4, <4>1
      <4>3. now[p[i][1]] = now[t]
        BY <4>1 DEF Agrees
      <4> QED
        BY <1>1, <3>2, <4>2, <4>3
    <3> QED
      BY <3>1, <3>2, <3>3 DEF Agrees
  <2> QED
    BY <2>1, <2>2
<1>7. Agrees(f, r, new)
  BY <1>6 DEF Agrees
<1> QED
  BY <1>7 DEF new, r

\* What CPU tensor t, that held f[t], gets from copies p, of which s was read.
Written(f, p, s, t) ==
  IF Writes(p, t) = {} THEN f[t]
  ELSE s[CHOOSE i \in Writes(p, t) : \A j \in Writes(p, t) : j <= i]

\* The readbacks are written.
LEMMA AgreesOnReadback ==
  ASSUME NEW f, NEW p \in Seq(GpuTensors \X CpuTensors), NEW now,
         Agrees(f, p, now), NEW s, \A i \in DOMAIN p : s[i] = now[p[i][1]]
  PROVE  \A t \in CpuTensors : Written(f, p, s, t) = now[t]
<1> SUFFICES ASSUME NEW t \in CpuTensors, Writes(p, t) # {}
             PROVE  s[CHOOSE i \in Writes(p, t) : \A j \in Writes(p, t) : j <= i] = now[t]
  BY DEF Agrees, Written
<1>1. Len(p) \in Nat /\ DOMAIN p = 1 .. Len(p)
  BY LenProperties
<1>2. Writes(p, t) \in SUBSET (1 .. Len(p))
  BY <1>1 DEF Writes
<1> DEFINE last == CHOOSE i \in Writes(p, t) : \A j \in Writes(p, t) : j <= i
<1>3. last \in Writes(p, t) /\ \A j \in Writes(p, t) : j <= last
  <2>1. \E i \in Writes(p, t) : \A j \in Writes(p, t) : j <= i
    BY <1>1, <1>2, LastNumber
  <2> QED
    BY <2>1
<1> HIDE DEF last
<1>4. last \in DOMAIN p /\ Latest(p, t, last)
  BY <1>1, <1>2, <1>3 DEF Latest
<1>5. s[last] = now[t]
  BY <1>4 DEF Agrees
<1> QED
  BY <1>5 DEF last

-----------------------------------------------------------------------------
(* The steps *)

\* No readback is under way.
LEMMA NotReadingBack ==
  ASSUME ~ReadingBack
  PROVE  staged = <<>> /\ ~\E i \in DOMAIN queue : queue[i].kind = "readback"
BY DEF ReadingBack

\* The types that a step of the loop keeps.
LEMMA LoopTypes ==
  ASSUME TypeInv, next <= Len(copies) + 1, next' = next + 1,
         UNCHANGED <<kernel, copies, staged>>, cpu' \in [CpuTensors -> Tensors],
         gpu' \in GpuContents, queue' \in Seq(Commands),
         pending' \in Seq(GpuTensors \X CpuTensors)
  PROVE  TypeInv'
<1>1. next \in 1 .. Len(copies) + 2 /\ Len(copies) \in Nat
  BY DEF TypeInv, TypeOK
<1>2. next' \in 1 .. Len(copies) + 2
  BY <1>1
<1>3. \A i \in DOMAIN queue' : queue'[i].kind \in {"upload", "copy", "readback"}
  <2>1. \A i \in DOMAIN queue' : queue'[i] \in Commands
    BY ElementOfSeq, LenProperties
  <2> QED
    BY <2>1 DEF Commands
<1> QED
  BY <1>2, <1>3 DEF TypeInv, TypeOK, GpuContents

\* In a kernel's list no copy depends on another.
LEMMA Independent ==
  ASSUME TypeInv, PendingInv, kernel, NEW i \in DOMAIN pending, NEW k \in DOMAIN copies
  PROVE  pending[i][1] # copies[k][2] /\ pending[i][2] # copies[k][1]
BY DEF TypeInv, PendingInv, KernelList

\* What was collected before a copy that goes to the GPU, or comes from the CPU,
\* has nothing to do with it.
LEMMA FlushedBefore ==
  ASSUME TypeInv, PendingInv, Flushed, NEW i \in DOMAIN pending, next \in DOMAIN copies
  PROVE  pending[i][1] # Destination /\ pending[i][2] # Source
<1>1. kernel
  BY DEF Flushed
<1> QED
  BY <1>1, Independent DEF Source, Destination

\* PendingInv when the loop goes on and nothing is collected.
LEMMA PendingKept ==
  ASSUME PendingInv, staged = <<>>, UNCHANGED <<copies, pending, staged>>,
         next' # Len(copies) + 2 \/ pending = <<>>
  PROVE  PendingInv'
BY DEF PendingInv

\* A copy to the GPU.
LEMMA GpuWrite ==
  ASSUME IInv, Looping, Flushed, NEW command \in Commands, NEW v \in Tensors,
         Destination \in GpuTensors, v = Now[Source],
         \/ command.kind = "upload" /\ command.value = v
         \/ command.kind = "copy" /\ command.from = Source /\ Source \in GpuTensors,
         command.to = Destination,
         queue' = Append(queue, command), next' = next + 1,
         UNCHANGED <<kernel, copies, cpu, gpu, pending, staged>>
  PROVE  IInv'
<1>1. /\ TypeInv /\ PendingInv /\ Agrees(cpu, pending, Now)
      /\ Waiting(queue, pending, staged, gpu, OnGpu(Now))
  BY DEF IInv
<1>2. next <= Len(copies) /\ ~ReadingBack
  BY DEF Looping
<1>3. staged = <<>> /\ ~\E i \in DOMAIN queue : queue[i].kind = "readback"
  BY <1>2, NotReadingBack
<1>4. /\ queue \in Seq(Commands) /\ pending \in Seq(GpuTensors \X CpuTensors)
      /\ gpu \in GpuContents /\ cpu \in [CpuTensors -> Tensors]
      /\ next \in 1 .. Len(copies) + 2 /\ Len(copies) \in Nat
  BY <1>1 DEF TypeInv, TypeOK, GpuContents
<1>5. Now \in AllContents
  BY <1>1, NowType
<1>6. /\ next \in DOMAIN copies
      /\ Now' = [Now EXCEPT ![Destination] = Now[Source]]
  BY <1>1, <1>2, NowNext
<1>7. TypeInv'
  <2>1. queue' \in Seq(Commands)
    BY <1>4
  <2>2. next <= Len(copies) + 1
    BY <1>2, <1>4
  <2> QED
    BY <1>1, <1>4, <2>1, <2>2, LoopTypes
<1>8. PendingInv'
  <2>1. next' # Len(copies) + 2
    BY <1>2, <1>4
  <2> QED
    BY <1>1, <1>3, <2>1, PendingKept
<1>9. Agrees(cpu', pending', Now')
  <2>1. \A i \in DOMAIN pending : pending[i][1] # Destination
    BY <1>1, <1>6, FlushedBefore
  <2> QED
    BY <1>1, <1>4, <1>5, <1>6, <2>1, AgreesOnGpuWrite
<1>10. Waiting(queue', pending', staged', gpu', OnGpu(Now'))
  <2>1. OnGpu(Now') = [OnGpu(Now) EXCEPT ![Destination] = v]
    BY <1>5, <1>6 DEF OnGpu, AllContents, Tensors
  <2>2. OnGpu(Now') \in GpuContents
    <3>1. OnGpu(Now) \in GpuContents
      BY <1>5 DEF OnGpu, GpuContents, AllContents, Tensors
    <3> QED
      BY <2>1, <3>1 DEF GpuContents
  <2>3. Source \in GpuTensors => OnGpu(Now)[Source] = v
    BY DEF OnGpu
  <2>4. Runs(OnGpu(Now), command, OnGpu(Now'))
    BY <2>1, <2>3 DEF Runs
  <2>5. Waiting(queue, pending, <<>>, gpu, OnGpu(Now))
    BY <1>1, <1>3
  <2>6. Waiting(Append(queue, command), pending, <<>>, gpu, OnGpu(Now'))
    BY <1>3, <1>4, <2>2, <2>4, <2>5, QueueGrows
  <2> QED
    BY <1>3, <2>6
<1> QED
  BY <1>7, <1>8, <1>9, <1>10 DEF IInv

LEMMA CpuToGpuInv == IInv /\ CpuToGpuCopy => IInv'
<1> SUFFICES ASSUME IInv, CpuToGpuCopy PROVE IInv'
  OBVIOUS
<1> DEFINE command == [kind |-> "upload", value |-> cpu[Source], to |-> Destination]
<1>1. /\ Looping /\ Flushed /\ Source \in CpuTensors /\ Destination \in GpuTensors
      /\ queue' = Append(queue, command) /\ next' = next + 1
      /\ UNCHANGED <<kernel, copies, cpu, gpu, pending, staged>>
  BY DEF CpuToGpuCopy
<1>2. cpu \in [CpuTensors -> Tensors] /\ cpu[Source] \in Tensors
  BY <1>1 DEF IInv, TypeInv, TypeOK
<1>3. next \in DOMAIN copies
  BY <1>1, NowNext DEF IInv, Looping
<1>4. Writes(pending, Source) = {}
  BY <1>1, <1>3, FlushedBefore DEF IInv, Writes
<1>5. cpu[Source] = Now[Source]
  BY <1>1, <1>4 DEF IInv, Agrees
<1>6. /\ command \in Commands /\ command.kind = "upload" /\ command.value = cpu[Source]
      /\ command.to = Destination
  BY <1>1, <1>2 DEF Commands
<1> HIDE DEF command
<1> QED
  BY <1>1, <1>2, <1>5, <1>6, GpuWrite

LEMMA GpuToGpuInv == IInv /\ GpuToGpuCopy => IInv'
<1> SUFFICES ASSUME IInv, GpuToGpuCopy PROVE IInv'
  OBVIOUS
<1> DEFINE command == [kind |-> "copy", from |-> Source, to |-> Destination]
<1>1. /\ Looping /\ Flushed /\ Source \in GpuTensors /\ Destination \in GpuTensors
      /\ queue' = Append(queue, command) /\ next' = next + 1
      /\ UNCHANGED <<kernel, copies, cpu, gpu, pending, staged>>
  BY DEF GpuToGpuCopy
<1>2. Now[Source] \in Tensors
  <2>1. Now \in AllContents
    BY NowType DEF IInv
  <2> QED
    BY <1>1, <2>1 DEF AllContents, Tensors
<1>3. /\ command \in Commands /\ command.kind = "copy" /\ command.from = Source
      /\ command.to = Destination
  BY <1>1 DEF Commands
<1> HIDE DEF command
<1> QED
  BY <1>1, <1>2, <1>3, GpuWrite

\* A copy that leaves the GPU tensors alone leaves them so in the result too.
LEMMA CpuWrite ==
  ASSUME TypeInv, Looping, Destination \in CpuTensors, next' = next + 1, UNCHANGED copies
  PROVE  OnGpu(Now') = OnGpu(Now)
<1>1. Now \in AllContents
  BY NowType
<1>2. Now' = [Now EXCEPT ![Destination] = Now[Source]]
  BY NowNext DEF Looping
<1>3. \A t \in GpuTensors : t \in Tensors /\ t # Destination
  BY TensorsAssumption DEF Tensors
<1> QED
  BY <1>1, <1>2, <1>3 DEF OnGpu, AllContents

LEMMA CpuToCpuInv == IInv /\ CpuToCpuCopy => IInv'
<1> SUFFICES ASSUME IInv, CpuToCpuCopy PROVE IInv'
  OBVIOUS
<1>1. /\ TypeInv /\ PendingInv /\ Agrees(cpu, pending, Now)
      /\ Waiting(queue, pending, staged, gpu, OnGpu(Now))
  BY DEF IInv
<1>2. /\ Looping /\ Flushed /\ Source \in CpuTensors /\ Destination \in CpuTensors
      /\ cpu' = [cpu EXCEPT ![Destination] = cpu[Source]] /\ next' = next + 1
      /\ UNCHANGED <<kernel, copies, gpu, queue, pending, staged>>
  BY DEF CpuToCpuCopy
<1>3. next <= Len(copies) /\ staged = <<>>
  BY <1>2, NotReadingBack DEF Looping
<1>4. /\ queue \in Seq(Commands) /\ pending \in Seq(GpuTensors \X CpuTensors)
      /\ gpu \in GpuContents /\ cpu \in [CpuTensors -> Tensors]
      /\ next \in 1 .. Len(copies) + 2 /\ Len(copies) \in Nat
  BY <1>1 DEF TypeInv, TypeOK, GpuContents
<1>5. Now \in AllContents
  BY <1>1, NowType
<1>6. /\ next \in DOMAIN copies
      /\ Now' = [Now EXCEPT ![Destination] = Now[Source]]
  BY <1>1, <1>2, <1>3, NowNext
<1>7. ~kernel
  <2>1. kernel => {Source, Destination} \cap GpuTensors # {}
    BY <1>1, <1>6 DEF TypeInv, KernelList, Source, Destination
  <2> QED
    BY <1>2, <2>1, TensorsAssumption
<1>8. pending = <<>>
  BY <1>2, <1>7 DEF Flushed
<1>9. TypeInv'
  <2>1. cpu' \in [CpuTensors -> Tensors]
    BY <1>2, <1>4
  <2>2. next <= Len(copies) + 1
    BY <1>3, <1>4
  <2> QED
    BY <1>1, <1>2, <1>4, <2>1, <2>2, LoopTypes
<1>10. PendingInv'
  BY <1>1, <1>2, <1>3, <1>8, PendingKept
<1>11. Agrees(cpu', pending', Now')
  <2>1. \A t \in CpuTensors : cpu[t] = Now[t]
    BY <1>1, <1>8, NothingWrites
  <2>2. \A t \in CpuTensors : cpu'[t] = Now'[t]
    BY <1>2, <1>4, <1>5, <1>6, <2>1 DEF AllContents, Tensors
  <2> QED
    BY <1>2, <1>8, <2>2, NothingWrites
<1>12. Waiting(queue', pending', staged', gpu', OnGpu(Now'))
  BY <1>1, <1>2, CpuWrite
<1> QED
  BY <1>9, <1>10, <1>11, <1>12 DEF IInv

LEMMA CollectReadbackInv == IInv /\ CollectReadback => IInv'
<1> SUFFICES ASSUME IInv, CollectReadback PROVE IInv'
  OBVIOUS
<1>1. /\ TypeInv /\ PendingInv /\ Agrees(cpu, pending, Now)
      /\ Waiting(queue, pending, staged, gpu, OnGpu(Now))
  BY DEF IInv
<1>2. /\ Looping /\ Source \in GpuTensors /\ Destination \in CpuTensors
      /\ pending' = Append(pending, copies[next]) /\ next' = next + 1
      /\ UNCHANGED <<kernel, copies, cpu, gpu, queue, staged>>
  BY DEF CollectReadback
<1>3. next <= Len(copies) /\ ~ReadingBack
  BY <1>2 DEF Looping
<1>4. staged = <<>> /\ ~\E i \in DOMAIN queue : queue[i].kind = "readback"
  BY <1>3, NotReadingBack
<1>5. /\ queue \in Seq(Commands) /\ pending \in Seq(GpuTensors \X CpuTensors)
      /\ gpu \in GpuContents /\ cpu \in [CpuTensors -> Tensors]
      /\ next \in 1 .. Len(copies) + 2 /\ Len(copies) \in Nat
  BY <1>1 DEF TypeInv, TypeOK, GpuContents
<1>6. Now \in AllContents
  BY <1>1, NowType
<1>7. /\ next \in DOMAIN copies /\ copies[next] = <<Source, Destination>>
      /\ Now' = [Now EXCEPT ![Destination] = Now[Source]]
  BY <1>1, <1>2, <1>3, NowNext
<1>8. TypeInv'
  <2>1. copies[next] \in GpuTensors \X CpuTensors
    BY <1>2, <1>7
  <2>2. pending' \in Seq(GpuTensors \X CpuTensors)
    BY <1>2, <1>5, <2>1
  <2>3. next <= Len(copies) + 1
    BY <1>3, <1>5
  <2> QED
    BY <1>1, <1>2, <1>5, <2>2, <2>3, LoopTypes
<1>9. PendingInv'
  <2>1. \A i \in DOMAIN pending' : \E j \in DOMAIN copies : pending'[i] = copies[j]
    <3>1. \A i \in DOMAIN pending' : pending'[i] = copies[next] \/ (i \in DOMAIN pending /\ pending'[i] = pending[i])
      BY <1>2, <1>5
    <3> QED
      BY <1>1, <1>7, <3>1 DEF PendingInv
  <2>2. next' # Len(copies) + 2
    BY <1>2, <1>3, <1>5
  <2>3. DOMAIN staged' = {}
    BY <1>2, <1>4
  <2> QED
    BY <1>2, <2>1, <2>2, <2>3 DEF PendingInv
<1>10. Agrees(cpu', pending', Now')
  BY <1>1, <1>2, <1>5, <1>6, <1>7, AgreesOnCollect
<1>11. Waiting(queue', pending', staged', gpu', OnGpu(Now'))
  <2>1. OnGpu(Now') = OnGpu(Now)
    BY <1>1, <1>2, CpuWrite
  <2>2. Waiting(queue, pending, <<>>, gpu, OnGpu(Now))
    BY <1>1, <1>4
  <2>3. Waiting(queue, pending', <<>>, gpu, OnGpu(Now))
    BY <1>4, <1>5, <2>2, QueueKept
  <2> QED
    BY <1>2, <1>4, <2>1, <2>3
<1> QED
  BY <1>8, <1>9, <1>10, <1>11 DEF IInv

\* The types that the other steps keep.
LEMMA OtherTypes ==
  ASSUME TypeInv, UNCHANGED <<kernel, copies, next>>, cpu' \in [CpuTensors -> Tensors],
         gpu' \in GpuContents, queue' \in Seq(Commands),
         pending' \in Seq(GpuTensors \X CpuTensors), staged' \in Seq(Tensors)
  PROVE  TypeInv'
<1>1. \A i \in DOMAIN queue' : queue'[i].kind \in {"upload", "copy", "readback"}
  <2>1. \A i \in DOMAIN queue' : queue'[i] \in Commands
    BY ElementOfSeq, LenProperties
  <2> QED
    BY <2>1 DEF Commands
<1> QED
  BY <1>1 DEF TypeInv, TypeOK, GpuContents

LEMMA FlushPendingInv == IInv /\ FlushPendingReadbacks => IInv'
<1> SUFFICES ASSUME IInv, FlushPendingReadbacks PROVE IInv'
  OBVIOUS
<1>1. /\ TypeInv /\ PendingInv /\ Agrees(cpu, pending, Now)
      /\ Waiting(queue, pending, staged, gpu, OnGpu(Now))
  BY DEF IInv
<1>2. /\ ~ReadingBack
      /\ queue' = queue \o [i \in DOMAIN pending |-> [kind |-> "readback", from |-> pending[i][1]]]
      /\ UNCHANGED <<kernel, copies, next, cpu, gpu, pending, staged>>
  BY DEF FlushPendingReadbacks
<1>3. staged = <<>> /\ ~\E i \in DOMAIN queue : queue[i].kind = "readback"
  BY <1>2, NotReadingBack
<1>4. /\ queue \in Seq(Commands) /\ pending \in Seq(GpuTensors \X CpuTensors)
      /\ gpu \in GpuContents /\ cpu \in [CpuTensors -> Tensors] /\ staged \in Seq(Tensors)
  BY <1>1 DEF TypeInv, TypeOK, GpuContents
<1>5. queue' \in Seq(Commands) /\ Waiting(queue', pending, <<>>, gpu, OnGpu(Now))
  BY <1>1, <1>2, <1>3, <1>4, QueueReadbacks
<1>6. Now' = Now
  BY <1>1, <1>2, NowKept
<1>7. TypeInv'
  BY <1>1, <1>2, <1>4, <1>5, OtherTypes
<1>8. PendingInv'
  BY <1>1, <1>2, <1>6 DEF PendingInv
<1>9. Agrees(cpu', pending', Now')
  BY <1>1, <1>2, <1>6
<1>10. Waiting(queue', pending', staged', gpu', OnGpu(Now'))
  BY <1>2, <1>3, <1>5, <1>6
<1> QED
  BY <1>7, <1>8, <1>9, <1>10 DEF IInv

LEMMA ReadbackDoneInv == IInv /\ ReadbackDone => IInv'
<1> SUFFICES ASSUME IInv, ReadbackDone PROVE IInv'
  OBVIOUS
<1>1. /\ TypeInv /\ PendingInv /\ Agrees(cpu, pending, Now)
      /\ Waiting(queue, pending, staged, gpu, OnGpu(Now))
  BY DEF IInv
<1>2. /\ pending # <<>> /\ Len(staged) = Len(pending)
      /\ pending' = <<>> /\ staged' = <<>>
      /\ UNCHANGED <<kernel, copies, next, gpu, queue>>
  BY DEF ReadbackDone
<1>3. cpu' = [t \in CpuTensors |-> Written(cpu, pending, staged, t)]
  BY DEF ReadbackDone, Writes, Written
<1>4. /\ queue \in Seq(Commands) /\ pending \in Seq(GpuTensors \X CpuTensors)
      /\ gpu \in GpuContents /\ cpu \in [CpuTensors -> Tensors] /\ staged \in Seq(Tensors)
  BY <1>1 DEF TypeInv, TypeOK, GpuContents
<1>5. Now' = Now /\ Now \in AllContents
  BY <1>1, <1>2, NowKept, NowType
<1>6. \A i \in DOMAIN pending : staged[i] = Now[pending[i][1]]
  <2>1. DOMAIN staged = DOMAIN pending
    BY <1>2, <1>4, LenProperties
  <2> QED
    BY <1>1, <2>1 DEF PendingInv
<1>7. \A t \in CpuTensors : cpu'[t] = Now[t]
  BY <1>1, <1>3, <1>4, <1>6, AgreesOnReadback
<1>8. cpu' \in [CpuTensors -> Tensors]
  <2>1. \A t \in CpuTensors : Now[t] \in Tensors
    BY <1>5 DEF AllContents, Tensors
  <2>2. cpu' = [t \in CpuTensors |-> cpu'[t]]
    BY <1>3
  <2> QED
    BY <1>7, <2>1, <2>2
<1>9. TypeInv'
  BY <1>1, <1>2, <1>4, <1>8, EmptySeq, OtherTypes
<1>10. PendingInv'
  BY <1>2 DEF PendingInv
<1>11. Agrees(cpu', pending', Now')
  BY <1>2, <1>5, <1>7, NothingWrites
<1>12. Waiting(queue, <<>>, <<>>, gpu, OnGpu(Now))
  <2>1. PICK w, c : Split(w, c, queue, pending, staged) /\ c[0] = gpu /\ c[w] = OnGpu(Now)
    BY <1>1 DEF Waiting
  <2>2. staged # <<>>
    <3>1. Len(pending) # 0
      BY <1>2, <1>4, EmptySeq
    <3> QED
      BY <1>2, <3>1, EmptySeq
  <2>3. w = 0 /\ Len(queue) = 0
    <3>1. w = 0 /\ Len(staged) + Len(queue) - w = Len(pending)
      BY <2>1, <2>2 DEF Split
    <3>2. Len(queue) \in Nat /\ Len(staged) \in Nat
      BY <1>4, LenProperties
    <3> QED
      BY <1>2, <3>1, <3>2
  <2>4. Split(w, c, queue, <<>>, <<>>)
    <3>1. c \in [0 .. Len(queue) -> GpuContents] /\ \A j \in 1 .. Len(queue) : FALSE
      BY <2>1, <2>3 DEF Split
    <3> QED
      BY <1>4, <2>3, <3>1, WritesSplit
  <2> QED
    BY <2>1, <2>4 DEF Waiting
<1>13. Waiting(queue', pending', staged', gpu', OnGpu(Now'))
  BY <1>2, <1>5, <1>12
<1> QED
  BY <1>9, <1>10, <1>11, <1>13 DEF IInv

LEMMA GpuExecuteInv == IInv /\ GpuExecute => IInv'
<1> SUFFICES ASSUME IInv, GpuExecute PROVE IInv'
  OBVIOUS
<1>1. /\ TypeInv /\ PendingInv /\ Agrees(cpu, pending, Now)
      /\ Waiting(queue, pending, staged, gpu, OnGpu(Now))
  BY DEF IInv
<1>2. /\ queue # <<>> /\ queue' = Tail(queue)
      /\ UNCHANGED <<kernel, copies, next, cpu, pending>>
  BY DEF GpuExecute
<1>3. /\ queue \in Seq(Commands) /\ pending \in Seq(GpuTensors \X CpuTensors)
      /\ gpu \in GpuContents /\ cpu \in [CpuTensors -> Tensors] /\ staged \in Seq(Tensors)
  BY <1>1 DEF TypeInv, TypeOK, GpuContents
<1>4. queue' \in Seq(Commands)
  BY <1>2, <1>3, HeadTailProperties
<1>5. Now' = Now
  BY <1>1, <1>2, NowKept
<1>6. Agrees(cpu', pending', Now')
  BY <1>1, <1>2, <1>5
<1>7. CASE \E h \in GpuContents :
             /\ Runs(gpu, Head(queue), h) /\ staged = <<>>
             /\ Waiting(Tail(queue), pending, staged, h, OnGpu(Now))
  <2>1. PICK h \in GpuContents :
             /\ Runs(gpu, Head(queue), h) /\ staged = <<>>
             /\ Waiting(Tail(queue), pending, staged, h, OnGpu(Now))
    BY <1>7
  <2>2. gpu' = h /\ staged' = staged
    BY <2>1 DEF GpuExecute, Runs
  <2>3. TypeInv'
    BY <1>1, <1>2, <1>3, <1>4, <2>2, OtherTypes
  <2>4. PendingInv'
    BY <1>1, <1>2, <1>5, <2>2 DEF PendingInv
  <2>5. Waiting(queue', pending', staged', gpu', OnGpu(Now'))
    BY <1>2, <1>5, <2>1, <2>2
  <2> QED
    BY <1>6, <2>3, <2>4, <2>5 DEF IInv
<1>8. CASE /\ Head(queue).kind = "readback" /\ Len(staged) + 1 \in DOMAIN pending
           /\ Head(queue).from = pending[Len(staged) + 1][1] /\ gpu = OnGpu(Now)
           /\ \A v \in Tensors :
                Waiting(Tail(queue), pending, Append(staged, v), gpu, OnGpu(Now))
  <2> DEFINE k == Len(staged) + 1
             v == Now[pending[k][1]]
  <2>1. pending[k][1] \in GpuTensors
    BY <1>3, <1>8, ElementOfSeq, LenProperties
  <2>2. v \in Tensors /\ gpu[Head(queue).from] = v
    <3>1. Now \in AllContents
      BY <1>1, NowType
    <3> QED
      BY <1>8, <2>1, <3>1 DEF AllContents, OnGpu, Tensors
  <2>3. gpu' = gpu /\ staged' = Append(staged, v)
    BY <1>8, <2>2 DEF GpuExecute
  <2>4. Waiting(queue', pending', staged', gpu', OnGpu(Now'))
    BY <1>2, <1>5, <1>8, <2>2, <2>3
  <2>5. /\ staged' \in Seq(Tensors) /\ DOMAIN staged' = DOMAIN staged \cup {k}
        /\ staged'[k] = v /\ \A i \in DOMAIN staged : staged'[i] = staged[i]
    <3> HIDE DEF v
    <3> QED
      BY <1>3, <2>2, <2>3
  <2>6. TypeInv'
    BY <1>1, <1>2, <1>3, <1>4, <2>3, <2>5, OtherTypes
  <2>7. PendingInv'
    <3>1. \A i \in DOMAIN staged' : i \in DOMAIN pending /\ staged'[i] = Now[pending[i][1]]
      BY <1>1, <1>8, <2>5 DEF PendingInv
    <3> QED
      BY <1>1, <1>2, <1>5, <3>1 DEF PendingInv
  <2> QED
    BY <1>6, <2>4, <2>6, <2>7 DEF IInv
<1> QED
  <2>1. \/ \E h \in GpuContents :
             /\ Runs(gpu, Head(queue), h) /\ staged = <<>>
             /\ Waiting(Tail(queue), pending, staged, h, OnGpu(Now))
        \/ /\ Head(queue).kind = "readback" /\ Len(staged) + 1 \in DOMAIN pending
           /\ Head(queue).from = pending[Len(staged) + 1][1] /\ gpu = OnGpu(Now)
           /\ \A v \in Tensors :
                Waiting(Tail(queue), pending, Append(staged, v), gpu, OnGpu(Now))
    BY <1>1, <1>2, <1>3, QueueRuns
  <2> QED
    BY <1>7, <1>8, <2>1

LEMMA ReturnInv == IInv /\ Return => IInv'
<1> SUFFICES ASSUME IInv, Return PROVE IInv'
  OBVIOUS
<1>1. /\ TypeInv /\ PendingInv /\ Agrees(cpu, pending, Now)
      /\ Waiting(queue, pending, staged, gpu, OnGpu(Now))
  BY DEF IInv
<1>2. /\ next = Len(copies) + 1 /\ pending = <<>> /\ next' = next + 1
      /\ UNCHANGED <<kernel, copies, cpu, gpu, queue, pending, staged>>
  BY DEF Return
<1>3. TypeInv'
  <2>1. /\ queue \in Seq(Commands) /\ pending \in Seq(GpuTensors \X CpuTensors)
        /\ gpu \in GpuContents /\ cpu \in [CpuTensors -> Tensors]
        /\ Len(copies) \in Nat
    BY <1>1 DEF TypeInv, TypeOK, GpuContents
  <2> QED
    BY <1>1, <1>2, <2>1, LoopTypes
<1>4. Now' = Now
  BY <1>1, <1>2, NowKept
<1>5. PendingInv'
  BY <1>1, <1>2, <1>4 DEF PendingInv
<1>6. Agrees(cpu', pending', Now') /\ Waiting(queue', pending', staged', gpu', OnGpu(Now'))
  BY <1>1, <1>2, <1>4
<1> QED
  BY <1>3, <1>5, <1>6 DEF IInv

LEMMA InitInv == Init => IInv
<1> SUFFICES ASSUME Init PROVE IInv
  OBVIOUS
<1>1. /\ next = 1 /\ cpu = [t \in CpuTensors |-> t] /\ gpu = [t \in GpuTensors |-> t]
      /\ queue = <<>> /\ pending = <<>> /\ staged = <<>>
      /\ kernel \in {FALSE, KernelList(copies)}
  BY DEF Init
<1>2. copies \in Seq(Copies) /\ Len(copies) \in Nat \ {0}
  <2>1. PICK n \in 1 .. MaxCopies : copies \in [1 .. n -> Copies]
    BY DEF Init
  <2>2. n \in Nat \ {0}
    BY TensorsAssumption
  <2> QED
    BY <2>1, <2>2
<1>3. kernel \in BOOLEAN /\ (kernel => KernelList(copies))
  <2>1. KernelList(copies) \in BOOLEAN
    BY DEF KernelList
  <2> QED
    BY <1>1, <2>1, Zenon
<1>4. TypeInv
  <2>1. next \in 1 .. Len(copies) + 2
    BY <1>1, <1>2
  <2>2. cpu \in [CpuTensors -> Tensors] /\ gpu \in [GpuTensors -> Tensors]
    BY <1>1 DEF Tensors
  <2>3. \A i \in DOMAIN queue : queue[i].kind \in {"upload", "copy", "readback"}
    BY <1>1
  <2> QED
    BY <1>1, <1>2, <1>3, <2>1, <2>2, <2>3, EmptySeq DEF TypeInv, TypeOK
<1>5. PendingInv
  BY <1>1 DEF PendingInv
<1>6. Now = Initially
  <2>1. Done = 0
    BY <1>1, <1>2 DEF Done
  <2> QED
    BY <1>2, <2>1, ContentsFollow DEF Now
<1>7. Agrees(cpu, pending, Now)
  <2>1. \A t \in CpuTensors : cpu[t] = Now[t]
    BY <1>1, <1>6 DEF Initially, Tensors
  <2> QED
    BY <1>1, <2>1, NothingWrites
<1>8. Waiting(queue, pending, staged, gpu, OnGpu(Now))
  <2>1. OnGpu(Now) = gpu
    BY <1>1, <1>6 DEF OnGpu, Initially, Tensors
  <2>2. gpu \in GpuContents
    BY <1>1 DEF GpuContents, Tensors
  <2> DEFINE c == [j \in 0 .. 0 |-> gpu]
  <2>3. <<>> \in Seq(Commands) /\ Len(<<>>) = 0
    BY EmptySeq
  <2>4. c \in [0 .. 0 -> GpuContents] /\ c[0] = gpu
    BY <2>2
  <2> HIDE DEF c
  <2>5. Split(0, c, <<>>, <<>>, <<>>)
    BY <2>3, <2>4 DEF Split
  <2> QED
    BY <1>1, <2>1, <2>4, <2>5 DEF Waiting
<1> QED
  BY <1>4, <1>5, <1>7, <1>8 DEF IInv

LEMMA StepInv == IInv /\ [Next]_vars => IInv'
<1> SUFFICES ASSUME IInv, [Next]_vars PROVE IInv'
  OBVIOUS
<1>1. CASE UNCHANGED vars
  <2>1. UNCHANGED <<kernel, copies, next, cpu, gpu, queue, pending, staged>>
    BY <1>1 DEF vars
  <2>2. TypeInv' /\ Now' = Now
    BY <2>1 DEF IInv, TypeInv, TypeOK, Now, Done
  <2>3. PendingInv'
    BY <2>1, <2>2 DEF IInv, PendingInv
  <2> QED
    BY <2>1, <2>2, <2>3 DEF IInv
<1> QED
  BY <1>1, CpuToGpuInv, GpuToGpuInv, CpuToCpuInv, CollectReadbackInv, FlushPendingInv,
     ReadbackDoneInv, GpuExecuteInv, ReturnInv DEF Next

-----------------------------------------------------------------------------
(* Theorems *)

\* The state of a call keeps its type, for any list of copies.
THEOREM TypeCorrect == Spec => []TypeOK
<1>1. IInv => TypeOK
  BY DEF IInv, TypeInv
<1> QED
  BY <1>1, InitInv, StepInv, PTL DEF Spec

\* Copies of all kinds take effect in the order of the list, although uploads and
\* GPU copies execute later and readbacks are collected.
THEOREM CopiesTakeEffectInOrder == Spec => []CopiesInOrder
<1>1. IInv => CopiesInOrder
  <2> SUFFICES ASSUME IInv, Returned
               PROVE  /\ \A t \in CpuTensors : cpu[t] = InOrder(copies)[t]
                      /\ queue = <<>> => \A t \in GpuTensors : gpu[t] = InOrder(copies)[t]
    BY DEF CopiesInOrder
  <2>1. Now = InOrder(copies)
    <3>1. Len(copies) \in Nat
      BY DEF IInv, TypeInv
    <3>2. Done = Len(copies)
      BY <3>1 DEF Returned, Done
    <3> QED
      BY <3>2 DEF Now, InOrder
  <2>2. pending = <<>>
    BY DEF IInv, PendingInv, Returned
  <2>3. \A t \in CpuTensors : cpu[t] = Now[t]
    BY <2>2, NothingWrites DEF IInv
  <2>4. ASSUME queue = <<>> PROVE gpu = OnGpu(Now)
    <3>1. PICK w, c : Split(w, c, queue, pending, staged) /\ c[0] = gpu /\ c[w] = OnGpu(Now)
      BY DEF IInv, Waiting
    <3>2. w = 0
      BY <2>4, <3>1, EmptySeq DEF Split
    <3> QED
      BY <3>1, <3>2
  <2> QED
    BY <2>1, <2>3, <2>4 DEF OnGpu
<1> QED
  BY <1>1, InitInv, StepInv, PTL DEF Spec
=============================================================================
