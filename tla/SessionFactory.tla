--------------------------- MODULE SessionFactory ---------------------------
(***************************************************************************)
(* The amdgpu meta provider: one ProviderFactory shared by every session   *)
(* of the process, which forwards to one of the backend factories          *)
(* (src/src/amdgpu/gpu_factory.{h,cc}, gpu_ep.cc, gpu_allocator.cc,        *)
(* gpu_data_transfer.cc), together with the part of the DirectML factory   *)
(* that is shared across sessions (src/src/directml/dml_factory.cc and     *)
(* dml_data_transfer.cc).                                                  *)
(*                                                                         *)
(* Each session chooses a backend with its profile.  The factory remembers *)
(* only the LAST backend chosen, in backend_ep_factory_, and everything    *)
(* factory-wide goes through that pointer: the release of a session's EP,  *)
(* and the first use of the shared allocator and of the shared data        *)
(* transfer, which stay bound to the backend they met first.               *)
(*                                                                         *)
(* The factory itself is destroyed when every session is closed.           *)
(*                                                                         *)
(* A CreateEp that fails returns before it assigns anything, and is a      *)
(* stuttering step.  Sessions are used by one thread at a time here: the   *)
(* hazards below need no races.                                            *)
(***************************************************************************)
EXTENDS Naturals, FiniteSets

CONSTANTS Sessions,   \* identities of the sessions the application opens
          Backends,   \* the backends their profiles select
          DirectML,   \* the DirectML backend, if any session selects it
          MaxLive,    \* bound: sessions open at the same time
          NoSession,
          NoBackend

ASSUME NoneAssumption == NoSession \notin Sessions /\ NoBackend \notin Backends
ASSUME MaxLiveAssumption == MaxLive \in Nat \ {0}

VARIABLES backend,      \* ProviderFactory::backend_ep_factory_
          live,         \* the sessions whose EP exists
          creator,      \* the backend that created a session's backend_ep_
          releasedBy,   \* the backend its backend_ep_ was given back to
          mEpRaw,       \* DirectML factory: m_ep_raw
          transferEp,   \* DirectML transfer: m_executionProvider, a shared_ptr
          boundTransfer,\* DataTransfer::backend_data_transfer_
          boundAllocator,\* Allocator::backend_allocator_
          buffers,      \* live allocations: session and the backend asked
          copy,         \* the last CopyTensors: who asked, which EP served it
          destroyed,    \* the factory no longer exists
          allocatorReleasedBy, \* the backend the shared allocator was given back to
          overlapped    \* two sessions have been open at once (history)

vars == <<backend, live, creator, releasedBy, mEpRaw, transferEp,
          boundTransfer, boundAllocator, buffers, copy, destroyed,
          allocatorReleasedBy, overlapped>>

destruction == <<destroyed, allocatorReleasedBy>>
dmlVars == <<mEpRaw, transferEp>>
sharedVars == <<boundTransfer, boundAllocator, buffers, copy>>

SomeSession == Sessions \cup {NoSession}
SomeBackend == Backends \cup {NoBackend}
Buffer == [of : Sessions, from : Backends]
NoCopy == [of |-> NoSession, through |-> NoBackend, ep |-> NoSession]

TypeOK ==
  /\ backend \in SomeBackend
  /\ live \in SUBSET Sessions
  /\ creator \in [Sessions -> SomeBackend]
  /\ releasedBy \in [Sessions -> SomeBackend]
  /\ mEpRaw \in SomeSession
  /\ transferEp \in SomeSession
  /\ boundTransfer \in SomeBackend
  /\ boundAllocator \in SomeBackend
  /\ buffers \in SUBSET Buffer
  /\ copy \in [of : SomeSession, through : SomeBackend, ep : SomeSession]
  /\ destroyed \in BOOLEAN /\ allocatorReleasedBy \in SomeBackend
  /\ overlapped \in BOOLEAN

Init ==
  /\ backend = NoBackend
  /\ live = {}
  /\ creator = [s \in Sessions |-> NoBackend]
  /\ releasedBy = [s \in Sessions |-> NoBackend]
  /\ mEpRaw = NoSession
  /\ transferEp = NoSession
  /\ boundTransfer = NoBackend
  /\ boundAllocator = NoBackend
  /\ buffers = {}
  /\ copy = NoCopy
  /\ destroyed = FALSE /\ allocatorReleasedBy = NoBackend
  /\ overlapped = FALSE

-----------------------------------------------------------------------------
(* Opening and closing sessions *)

\* Mutant: the backend is chosen by the first session only.
SelectFirstBackend(b) == backend' = IF backend = NoBackend THEN b ELSE backend

\* CreateDirectMLBackend, CreateMIGraphXBackend, CreateHipBackend: the factory
\* that made the EP becomes the backend of the whole process.
SelectBackend(b) == backend' = b

\* Mutant: the EP is attached only when nothing was attached before.
AttachFirstOnly(s) ==
  /\ mEpRaw' = mEpRaw
  /\ transferEp' = IF transferEp = NoSession THEN mEpRaw ELSE transferEp

\* dml_ep::ProviderFactory::CreateEpImpl: observe and attach the new EP.
DmlCreateEp(s) == mEpRaw' = s /\ transferEp' = s

\* Mutant: the reference held by the shared data transfer is forgotten.
ReleaseObserverOnly(s) == mEpRaw' = NoSession /\ UNCHANGED transferEp

\* dml_ep::ProviderFactory::ReleaseEpImpl: drop the observer and the reference
\* held by the data transfer, whichever EP they were.
DmlReleaseEp(s) == mEpRaw' = NoSession /\ transferEp' = NoSession

CreateEp(s, b) ==
  /\ creator[s] = NoBackend /\ ~destroyed
  /\ Cardinality(live) < MaxLive
  /\ SelectBackend(b)
  /\ live' = live \cup {s}
  /\ creator' = [creator EXCEPT ![s] = b]
  /\ IF b = DirectML THEN DmlCreateEp(s) ELSE UNCHANGED dmlVars
  /\ overlapped' = (overlapped \/ live # {})
  /\ UNCHANGED <<releasedBy, sharedVars, destruction>>

\* The session frees its buffers before its EP; the EP's destructor gives
\* backend_ep_ to the backend selected NOW.
ReleaseEp(s) ==
  /\ s \in live
  /\ live' = live \ {s}
  /\ releasedBy' = [releasedBy EXCEPT ![s] = backend]
  /\ IF backend = DirectML THEN DmlReleaseEp(s) ELSE UNCHANGED dmlVars
  /\ buffers' = {x \in buffers : x.of # s}
  /\ UNCHANGED <<backend, creator, boundTransfer, boundAllocator, copy,
                 destruction, overlapped>>

-----------------------------------------------------------------------------
(* The shared allocator and the shared data transfer, bound at first use *)

BindOnce(bound) == IF bound = NoBackend THEN backend ELSE bound

\* A DirectML session allocates through its own EP (OrtEp::CreateAllocator);
\* the others fall back on the factory's shared Allocator.
Alloc(s) ==
  /\ s \in live
  /\ creator[s] # DirectML
  /\ boundAllocator' = BindOnce(boundAllocator)
  /\ buffers' = buffers \cup {[of |-> s, from |-> boundAllocator']}
  /\ UNCHANGED <<backend, live, creator, releasedBy, mEpRaw, transferEp,
                 boundTransfer, copy, destruction, overlapped>>

\* DMLDataTransfer::CopyTensorsImpl attaches lazily, through m_ep_raw.
LazyAttach == IF transferEp = NoSession THEN mEpRaw ELSE transferEp

\* Which session's EP copies: for the DirectML transfer the attached one (none:
\* the call fails), for a HIP based transfer the process-wide device itself.
ServingEp(s, through) == IF through = DirectML THEN LazyAttach ELSE s

CopyTensors(s) ==
  /\ s \in live
  /\ boundTransfer' = BindOnce(boundTransfer)
  /\ transferEp' = IF boundTransfer' = DirectML THEN LazyAttach ELSE transferEp
  /\ copy' = [of |-> s, through |-> boundTransfer', ep |-> ServingEp(s, boundTransfer')]
  /\ UNCHANGED <<backend, live, creator, releasedBy, mEpRaw, boundAllocator, buffers,
                 destruction, overlapped>>

\* Sessions are closed before.  What the shared allocator was bound to is released
\* through the backend selected last (nothing if there is none), and the shared
\* transfer drops its backend's.
DestroyFactory ==
  /\ live = {} /\ ~destroyed
  /\ destroyed' = TRUE
  /\ allocatorReleasedBy' = backend
  /\ boundTransfer' = NoBackend
  /\ UNCHANGED <<backend, live, creator, releasedBy, dmlVars, boundAllocator, buffers,
                 copy, overlapped>>

Next ==
  \/ \E s \in Sessions :
       \/ \E b \in Backends : CreateEp(s, b)
       \/ ReleaseEp(s)
       \/ Alloc(s)
       \/ CopyTensors(s)
  \/ DestroyFactory

Spec == Init /\ [][Next]_vars

-----------------------------------------------------------------------------
(* Properties *)

\* "Release the backend EP through the backend factory that created it"
\* (gpu_ep.cc): no EP is handed to a factory that did not make it, which would
\* delete it as an object of another class.
ReleasedByCreator ==
  \A s \in Sessions : releasedBy[s] # NoBackend => releasedBy[s] = creator[s]

\* The same while sessions are opened one after the other: however the backends
\* alternate, the backend selected last is that of the session being closed.
SequentialRelease == ~overlapped => ReleasedByCreator

\* The DirectML factory's observer and its data transfer never outlive the EP
\* they refer to, in whatever order sessions overlap and close: a closed
\* session's device and heaps are freed, and a lazy attach cannot follow a
\* dangling m_ep_raw.  Nothing is promised once an EP went to another backend's
\* factory, which knows of neither.
TransferLive ==
  ReleasedByCreator =>
    /\ mEpRaw \in live \cup {NoSession}
    /\ transferEp \in live \cup {NoSession}

\* A copy asked by a session is served by the backend of that session and, for
\* DirectML, by that session's EP (its D3D12 device and queue), and never fails
\* because another session was closed.
CopiesServed ==
  copy.of # NoSession => copy.through = creator[copy.of] /\ copy.ep = copy.of

\* The same while DirectML sessions are opened one after the other: the data
\* transfer, created once for the process, follows each of them.
SequentialCopies ==
  ~overlapped /\ (\A s \in Sessions : creator[s] \in {NoBackend, DirectML}) => CopiesServed

\* "lazily delegates actual allocation to whichever backend is active"
\* (gpu_factory.cc): a session's buffers come from the backend it runs on.
AllocatedByActive == \A x \in buffers : x.from = creator[x.of]

\* The allocator the shared one was bound to is released by the backend that made it.
AllocatorReturned ==
  destroyed /\ boundAllocator # NoBackend => allocatorReleasedBy = boundAllocator
=============================================================================
