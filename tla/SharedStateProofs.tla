-------------------------- MODULE SharedStateProofs --------------------------
(***************************************************************************)
(* Proofs about what the sessions of a process share: the meta provider's  *)
(* factory (SessionFactory), for any set of sessions, any set of backends  *)
(* and any way in which the sessions overlap, and the HIP library's        *)
(* reference count (HipBackend), for calls made one after the other by one *)
(* thread, any number of factories, and any failures of the load and of    *)
(* the symbols.                                                            *)
(***************************************************************************)
EXTENDS SessionFactory, HipBackend, TLAPS

-----------------------------------------------------------------------------
(* The inductive invariant *)

\* What the lifetime of a session says of the other variables.
LiveInv ==
  /\ live # {} => backend \in Backends
  /\ \A s \in live : creator[s] \in Backends /\ releasedBy[s] = NoBackend
  /\ \A s \in Sessions : creator[s] = NoBackend => releasedBy[s] = NoBackend
  /\ copy.of # NoSession => creator[copy.of] \in Backends

\* What the DirectML factory refers to was created by it.
DmlInv ==
  /\ mEpRaw # NoSession => creator[mEpRaw] = DirectML /\ DirectML \in Backends
  /\ transferEp # NoSession => creator[transferEp] = DirectML /\ DirectML \in Backends

\* Sessions opened one after the other: the open one is that of the backend.
SequentialInv ==
  ~overlapped =>
    /\ \A s, t \in live : s = t
    /\ \A s \in live : creator[s] = backend

\* The sessions opened so far, one after the other, all run on DirectML.
OnlyDirectML == ~overlapped /\ \A s \in Sessions : creator[s] \in {NoBackend, DirectML}

\* Then the shared data transfer follows the open session.
FollowsInv ==
  OnlyDirectML =>
    /\ backend \in {NoBackend, DirectML}
    /\ boundTransfer \in {NoBackend, DirectML}
    /\ \A s \in live : transferEp = s

IInv ==
  /\ TypeOK /\ LiveInv /\ DmlInv /\ SequentialInv /\ FollowsInv
  /\ SequentialRelease /\ TransferLive /\ SequentialCopies

LEMMA InvInit == Init => IInv
<1> SUFFICES ASSUME Init PROVE IInv
  OBVIOUS
<1>1. TypeOK
  BY DEF Init, TypeOK, SomeBackend, SomeSession, NoCopy
<1>2. LiveInv /\ DmlInv /\ SequentialInv /\ FollowsInv
  BY DEF Init, LiveInv, DmlInv, SequentialInv, FollowsInv, NoCopy
<1>3. SequentialRelease /\ TransferLive /\ SequentialCopies
  BY DEF Init, SequentialRelease, ReleasedByCreator, TransferLive, SequentialCopies,
         CopiesServed, NoCopy
<1> QED
  BY <1>1, <1>2, <1>3 DEF IInv

-----------------------------------------------------------------------------
(* Every step keeps it *)

\* A new session: the backend is its own, and it was never released.
LEMMA CreateStep == ASSUME NEW s \in Sessions, NEW b \in Backends, IInv, CreateEp(s, b) PROVE IInv'
<1> USE NoneAssumption DEF IInv, TypeOK, SomeBackend, SomeSession
<1>1. /\ creator[s] = NoBackend /\ backend' = b /\ live' = live \cup {s}
      /\ creator' = [creator EXCEPT ![s] = b]
      /\ overlapped' = (overlapped \/ live # {})
      /\ UNCHANGED <<releasedBy, boundTransfer, boundAllocator, buffers, copy, destroyed,
                     allocatorReleasedBy>>
  BY DEF CreateEp, SelectBackend, sharedVars, destruction
<1>2. \/ b = DirectML /\ mEpRaw' = s /\ transferEp' = s
      \/ b # DirectML /\ UNCHANGED <<mEpRaw, transferEp>>
  BY DEF CreateEp, DmlCreateEp, dmlVars
<1>3. TypeOK'
  BY <1>1, <1>2
<1>4. b # NoBackend /\ s \notin live /\ releasedBy[s] = NoBackend
  BY <1>1 DEF LiveInv
<1>5. creator'[s] = b /\ \A t \in Sessions \ {s} : creator'[t] = creator[t]
  BY <1>1
<1>6. copy.of \in SomeSession /\ copy.of # s
  BY <1>4, <1>1 DEF LiveInv
<1>7. LiveInv'
  BY <1>1, <1>4, <1>5, <1>6 DEF LiveInv
<1>8. mEpRaw # s /\ transferEp # s
  BY <1>1 DEF DmlInv
<1>9. DmlInv'
  BY <1>1, <1>2, <1>4, <1>5, <1>8 DEF DmlInv
<1>10. SequentialInv'
  BY <1>1, <1>5 DEF SequentialInv
<1>11. OnlyDirectML' => OnlyDirectML /\ b = DirectML /\ live = {}
  BY <1>1, <1>4, <1>5 DEF OnlyDirectML
<1>12. FollowsInv'
  BY <1>1, <1>2, <1>11 DEF FollowsInv
<1>13. SequentialRelease'
  BY <1>1, <1>4, <1>5 DEF SequentialRelease, ReleasedByCreator
<1>14. ReleasedByCreator' => ReleasedByCreator
  BY <1>1, <1>4, <1>5 DEF ReleasedByCreator
<1>15. TransferLive'
  BY <1>1, <1>2, <1>14 DEF TransferLive
<1>16. SequentialCopies'
  BY <1>1, <1>5, <1>6, <1>11 DEF SequentialCopies, CopiesServed, OnlyDirectML
<1> QED
  BY <1>3, <1>7, <1>9, <1>10, <1>12, <1>13, <1>15, <1>16

\* A session is closed: its EP goes to the backend selected last.
LEMMA ReleaseStep == ASSUME NEW s \in Sessions, IInv, ReleaseEp(s) PROVE IInv'
<1> USE NoneAssumption DEF IInv, TypeOK, SomeBackend, SomeSession
<1>1. /\ s \in live /\ live' = live \ {s}
      /\ releasedBy' = [releasedBy EXCEPT ![s] = backend]
      /\ buffers' \subseteq buffers
      /\ UNCHANGED <<backend, creator, boundTransfer, boundAllocator, copy, destroyed,
                     allocatorReleasedBy, overlapped>>
  BY DEF ReleaseEp, destruction
<1>2. \/ backend = DirectML /\ mEpRaw' = NoSession /\ transferEp' = NoSession
      \/ backend # DirectML /\ UNCHANGED <<mEpRaw, transferEp>>
  BY DEF ReleaseEp, DmlReleaseEp, dmlVars
<1>3. TypeOK'
  BY <1>1, <1>2
<1>4. backend # NoBackend /\ creator[s] # NoBackend /\ releasedBy[s] = NoBackend
  BY <1>1 DEF LiveInv
<1>5. releasedBy'[s] = backend /\ \A t \in Sessions \ {s} : releasedBy'[t] = releasedBy[t]
  BY <1>1
<1>6. LiveInv'
  BY <1>1, <1>4, <1>5 DEF LiveInv
<1>7. DmlInv'
  BY <1>1, <1>2 DEF DmlInv
<1>8. SequentialInv'
  BY <1>1 DEF SequentialInv
<1>9. ~overlapped => live' = {} /\ creator[s] = backend
  BY <1>1 DEF SequentialInv
<1>10. FollowsInv'
  BY <1>1, <1>9 DEF FollowsInv, OnlyDirectML
<1>11. SequentialRelease'
  BY <1>1, <1>5, <1>9 DEF SequentialRelease, ReleasedByCreator
<1>12. ReleasedByCreator' => ReleasedByCreator /\ creator[s] = backend
  BY <1>1, <1>4, <1>5 DEF ReleasedByCreator
<1>13. TransferLive'
  BY <1>1, <1>2, <1>12 DEF TransferLive, DmlInv
<1>14. SequentialCopies'
  BY <1>1 DEF SequentialCopies, CopiesServed
<1> QED
  BY <1>3, <1>6, <1>7, <1>8, <1>10, <1>11, <1>13, <1>14

\* An allocation binds the shared allocator.
LEMMA AllocStep == ASSUME NEW s \in Sessions, IInv, Alloc(s) PROVE IInv'
<1> USE NoneAssumption DEF IInv, TypeOK, SomeBackend, SomeSession
<1>1. /\ s \in live
      /\ boundAllocator' = IF boundAllocator = NoBackend THEN backend ELSE boundAllocator
      /\ buffers' = buffers \cup {[of |-> s, from |-> boundAllocator']}
      /\ UNCHANGED <<backend, live, creator, releasedBy, mEpRaw, transferEp, boundTransfer,
                     copy, destroyed, allocatorReleasedBy, overlapped>>
  BY DEF Alloc, BindOnce, destruction
<1>2. boundAllocator' \in Backends
  BY <1>1 DEF LiveInv
<1>3. TypeOK'
  BY <1>1, <1>2 DEF Buffer
<1>4. LiveInv' /\ DmlInv' /\ SequentialInv' /\ FollowsInv'
  BY <1>1 DEF LiveInv, DmlInv, SequentialInv, FollowsInv, OnlyDirectML
<1>5. SequentialRelease' /\ TransferLive' /\ SequentialCopies'
  BY <1>1 DEF SequentialRelease, ReleasedByCreator, TransferLive, SequentialCopies, CopiesServed
<1> QED
  BY <1>3, <1>4, <1>5

\* A copy binds the shared data transfer, and attaches it if it is not.
LEMMA CopyStep == ASSUME NEW s \in Sessions, IInv, CopyTensors(s) PROVE IInv'
<1> USE NoneAssumption DEF IInv, TypeOK, SomeBackend, SomeSession
<1>1. /\ s \in live
      /\ boundTransfer' = IF boundTransfer = NoBackend THEN backend ELSE boundTransfer
      /\ copy' = [of |-> s, through |-> boundTransfer', ep |-> ServingEp(s, boundTransfer')]
      /\ UNCHANGED <<backend, live, creator, releasedBy, mEpRaw, boundAllocator, buffers,
                     destroyed, allocatorReleasedBy, overlapped>>
  BY DEF CopyTensors, BindOnce, destruction
<1>2. \/ transferEp' = transferEp
      \/ transferEp = NoSession /\ transferEp' = mEpRaw
  BY DEF CopyTensors, LazyAttach
<1>3. ServingEp(s, boundTransfer') \in SomeSession
  BY DEF ServingEp, LazyAttach
<1>4. copy'.of = s /\ copy'.through = boundTransfer' /\ copy'.ep = ServingEp(s, boundTransfer')
  BY <1>1
<1>5. TypeOK'
  BY <1>1, <1>2, <1>3
<1>6. LiveInv'
  BY <1>1, <1>4 DEF LiveInv
<1>7. DmlInv'
  BY <1>1, <1>2 DEF DmlInv
<1>8. SequentialInv'
  BY <1>1 DEF SequentialInv
<1>9. OnlyDirectML => transferEp = s /\ s # NoSession /\ backend = DirectML /\ creator[s] = DirectML
  BY <1>1 DEF FollowsInv, LiveInv, OnlyDirectML
<1>10. FollowsInv'
  BY <1>1, <1>2, <1>9 DEF FollowsInv, OnlyDirectML
<1>11. SequentialRelease' /\ TransferLive'
  BY <1>1, <1>2 DEF SequentialRelease, ReleasedByCreator, TransferLive
<1>12. OnlyDirectML => boundTransfer' = DirectML
  BY <1>1, <1>9 DEF FollowsInv
<1>13. OnlyDirectML => ServingEp(s, boundTransfer') = s
  BY <1>9, <1>12 DEF ServingEp, LazyAttach
<1>14. SequentialCopies'
  BY <1>1, <1>4, <1>9, <1>12, <1>13 DEF SequentialCopies, CopiesServed, OnlyDirectML
<1> QED
  BY <1>5, <1>6, <1>7, <1>8, <1>10, <1>11, <1>14

LEMMA InvStep == IInv /\ [Next]_vars => IInv'
<1> SUFFICES ASSUME IInv, [Next]_vars PROVE IInv'
  OBVIOUS
<1>1. CASE \E s \in Sessions, b \in Backends : CreateEp(s, b)
  BY <1>1, CreateStep
<1>2. CASE \E s \in Sessions : ReleaseEp(s)
  BY <1>2, ReleaseStep
<1>3. CASE \E s \in Sessions : Alloc(s)
  BY <1>3, AllocStep
<1>4. CASE \E s \in Sessions : CopyTensors(s)
  BY <1>4, CopyStep
<1>5. CASE DestroyFactory
  <2>1. /\ live' = {} /\ boundTransfer' = NoBackend
        /\ destroyed' = TRUE /\ allocatorReleasedBy' = backend
        /\ UNCHANGED <<backend, live, creator, releasedBy, mEpRaw, transferEp,
                       boundAllocator, buffers, copy, overlapped>>
    BY <1>5 DEF DestroyFactory, dmlVars
  <2>2. TypeOK'
    BY <2>1 DEF IInv, TypeOK, SomeBackend
  <2>3. LiveInv' /\ DmlInv' /\ SequentialInv' /\ FollowsInv'
    BY <2>1 DEF IInv, LiveInv, DmlInv, SequentialInv, FollowsInv, OnlyDirectML
  <2>4. SequentialRelease' /\ TransferLive' /\ SequentialCopies'
    BY <2>1 DEF IInv, SequentialRelease, ReleasedByCreator, TransferLive, SequentialCopies,
                CopiesServed
  <2> QED
    BY <2>2, <2>3, <2>4 DEF IInv
<1>6. CASE UNCHANGED vars
  BY <1>6 DEF vars, IInv, TypeOK, LiveInv, DmlInv, SequentialInv, FollowsInv, OnlyDirectML,
              SequentialRelease, ReleasedByCreator, TransferLive, SequentialCopies, CopiesServed
<1> QED
  BY <1>1, <1>2, <1>3, <1>4, <1>5, <1>6 DEF Next

LEMMA Invariant == Spec => []IInv
<1> QED
  BY InvInit, InvStep, PTL DEF Spec

-----------------------------------------------------------------------------
(* The theorems *)

\* The state keeps its type; in particular a session's buffers come from a
\* backend, never from none.
THEOREM TypeCorrect == Spec => []TypeOK
<1>1. IInv => TypeOK
  BY DEF IInv
<1> QED
  BY <1>1, Invariant, PTL

\* Sessions opened one after the other give their EPs back to the factory that
\* made them, however the backends alternate.
THEOREM ReleasesMatch == Spec => []SequentialRelease
<1>1. IInv => SequentialRelease
  BY DEF IInv
<1> QED
  BY <1>1, Invariant, PTL

\* However sessions overlap, the DirectML factory and its shared data transfer
\* never refer to a closed session, as long as every EP went back to its creator.
THEOREM TransferIsLive == Spec => []TransferLive
<1>1. IInv => TransferLive
  BY DEF IInv
<1> QED
  BY <1>1, Invariant, PTL

\* The shared data transfer follows DirectML sessions opened one after the other.
THEOREM CopiesFollow == Spec => []SequentialCopies
<1>1. IInv => SequentialCopies
  BY DEF IInv
<1> QED
  BY <1>1, Invariant, PTL

-----------------------------------------------------------------------------
(* The HIP backend shim: one thread *)

\* The library is loaded and both of its functions are known.
Usable == module /\ create /\ release /\ mapped > 0

\* What the shared state is at each place of the thread's call: while it is being
\* loaded there is one reference and no factory yet; at any other place a
\* reference is only counted for a library that is usable.
PlaceInv(t) ==
  /\ pc[t] = "idle" => factories <= refcount /\ (refcount > 0 => Usable)
  /\ pc[t] \in {"load", "getCreate", "getRelease", "rollback"} =>
       refcount = 1 /\ factories = 0
  /\ pc[t] \in {"getCreate", "getRelease"} => module /\ mapped > 0
  /\ pc[t] = "getRelease" => create
  /\ pc[t] \in {"call", "callRelease", "drop"} => factories < refcount /\ Usable
  /\ pc[t] = "unload" => refcount = 0 /\ factories = 0 /\ mapped > 0

ShimInv(t) == HipTypeOK /\ ~crashed /\ PlaceInv(t)

LEMMA ShimInit == ASSUME NEW t, Threads = {t} PROVE HipInit => ShimInv(t)
<1> SUFFICES ASSUME HipInit PROVE ShimInv(t)
  OBVIOUS
<1>1. HipTypeOK
  <2>1. 0 \in 0 .. MaxFactories /\ 0 \in 0 .. MaxLoads
    BY BoundsAssumption
  <2>2. pc \in [Threads -> PCs]
    BY DEF HipInit, PCs
  <2> QED
    BY <2>1, <2>2, Zenon DEF HipInit, HipTypeOK
<1>2. ~crashed
  BY DEF HipInit
<1>3. pc[t] = "idle" /\ refcount = 0 /\ factories = 0
  BY DEF HipInit
<1>4. PlaceInv(t)
  BY <1>3 DEF PlaceInv
<1> QED
  BY <1>1, <1>2, <1>4 DEF ShimInv

\* Every step keeps the invariant.
LEMMA ShimStep == ASSUME NEW t, Threads = {t} PROVE ShimInv(t) /\ [HipNext]_hipVars => ShimInv(t)'
<1> SUFFICES ASSUME ShimInv(t), [HipNext]_hipVars PROVE ShimInv(t)'
  OBVIOUS
<1> USE BoundsAssumption DEF ShimInv, HipTypeOK, PlaceInv, Usable, PCs, Goto, symbols
<1>1. CASE BeginCreate(t)
  BY <1>1 DEF BeginCreate
<1>2. CASE Load(t)
  BY <1>2 DEF Load
<1>3. CASE LoadFails(t)
  BY <1>3 DEF LoadFails
<1>4. CASE GetCreate(t)
  BY <1>4 DEF GetCreate
<1>5. CASE GetCreateFails(t)
  BY <1>5 DEF GetCreateFails
<1>6. CASE GetRelease(t)
  BY <1>6 DEF GetRelease
<1>7. CASE GetReleaseFails(t)
  BY <1>7 DEF GetReleaseFails
<1>8. CASE CallCreate(t)
  <2>1. create /\ factories < refcount
    BY <1>8 DEF CallCreate
  <2>2. ~crashed'
    BY <1>8, <2>1, Zenon DEF CallCreate
  <2>3. factories' \in {factories, factories + 1} /\ factories' <= MaxFactories
    BY <1>8, <2>1 DEF CallCreate
  <2>4. factories' \in 0 .. MaxFactories /\ factories' <= refcount
    BY <2>1, <2>3
  <2> QED
    BY <1>8, <2>2, <2>4 DEF CallCreate
<1>9. CASE Rollback(t)
  BY <1>9 DEF Rollback
<1>10. CASE BeginRelease(t)
  BY <1>10 DEF BeginRelease
<1>11. CASE CallRelease(t)
  BY <1>11 DEF CallRelease
<1>12. CASE Drop(t)
  BY <1>12 DEF Drop
<1>13. CASE Unload(t)
  <2>1. pc[t] = "unload" /\ pc'[t] = "idle" /\ pc' \in [Threads -> PCs] /\ ~crashed'
    BY <1>13 DEF Unload
  <2>2. refcount' = 0 /\ factories' = 0 /\ mapped' \in 0 .. MaxLoads
    BY <1>13, <2>1 DEF Unload
  <2>3. module' \in BOOLEAN /\ create' \in BOOLEAN /\ release' \in BOOLEAN /\ crashed' \in BOOLEAN
    BY <1>13, Zenon DEF Unload
  <2>4. PlaceInv(t)'
    BY <2>1, <2>2
  <2>5. HipTypeOK'
    BY <2>1, <2>2, <2>3
  <2> QED
    BY <2>1, <2>4, <2>5
<1>14. CASE UNCHANGED hipVars
  BY <1>14 DEF hipVars
<1> QED
  BY <1>1, <1>2, <1>3, <1>4, <1>5, <1>6, <1>7, <1>8, <1>9, <1>10, <1>11, <1>12, <1>13, <1>14
     DEF HipNext

LEMMA ShimInvariant == ASSUME NEW t, Threads = {t} PROVE HipSpec => []ShimInv(t)
<1>1. HipInit => ShimInv(t)
  BY ShimInit
<1>2. ShimInv(t) /\ [HipNext]_hipVars => ShimInv(t)'
  BY ShimStep
<1> QED
  BY <1>1, <1>2, PTL DEF HipSpec

\* The state keeps its type: the reference count never goes below zero, whichever
\* loads failed and whichever factories were released.
THEOREM ShimTypeCorrect == ASSUME NEW t, Threads = {t} PROVE HipSpec => []HipTypeOK
<1>1. ShimInv(t) => HipTypeOK
  BY DEF ShimInv
<1> QED
  BY <1>1, ShimInvariant, PTL

\* With one call at a time the application never holds a factory of a library
\* that is not mapped, and no call goes through a null pointer.
THEOREM HeldIsLoaded == ASSUME NEW t, Threads = {t} PROVE HipSpec => []LoadedWhileHeld
<1>1. ShimInv(t) => LoadedWhileHeld
  BY DEF ShimInv, HipTypeOK, PlaceInv, Usable, LoadedWhileHeld, PCs
<1> QED
  BY <1>1, ShimInvariant, PTL

\* With one call at a time a failed load or a missing symbol is attempted again
\* by the next call: the reference count was rolled back to zero.
THEOREM FailureIsRetried == ASSUME NEW t, Threads = {t} PROVE HipSpec => []RetryReattempts
<1>1. ShimInv(t) => RetryReattempts
  BY DEF ShimInv, HipTypeOK, PlaceInv, Usable, RetryReattempts, AtRest, PCs
<1> QED
  BY <1>1, ShimInvariant, PTL
=============================================================================
