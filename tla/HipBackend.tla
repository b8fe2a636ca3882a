----------------------------- MODULE HipBackend -----------------------------
(***************************************************************************)
(* The HIP backend shim (src/src/hip/hip_factory.cc): a pass-through that  *)
(* loads the prebuilt HIP library on the first CreateEpFactories and       *)
(* unloads it on the last ReleaseEpFactory, counting references in an      *)
(* atomic g_refcount.  The three pointers it loads are plain globals.      *)
(*                                                                         *)
(* Each thread runs one call at a time, one step per access to the shared  *)
(* state.  MaxFactories bounds the factories alive and the calls counted,  *)
(* MaxLoads the times the library may be mapped.                           *)
(***************************************************************************)
EXTENDS Naturals

CONSTANTS Threads, MaxFactories, MaxLoads

ASSUME BoundsAssumption == MaxFactories \in Nat /\ MaxLoads \in Nat

VARIABLES refcount,   \* g_refcount
          module,     \* g_hip_module is set
          create,     \* g_hip_create is set
          release,    \* g_hip_release is set
          mapped,     \* the loader's own count of LoadLibrary less FreeLibrary
          factories,  \* factories created and not yet given to ReleaseEpFactory
          pc,         \* where each thread's call is
          crashed     \* a null function pointer was called

hipVars == <<refcount, module, create, release, mapped, factories, pc, crashed>>
symbols == <<module, create, release>>

PCs == {"idle", "load", "getCreate", "getRelease", "call", "rollback",
        "callRelease", "drop", "unload"}

HipTypeOK ==
  /\ refcount \in 0 .. MaxFactories
  /\ module \in BOOLEAN /\ create \in BOOLEAN /\ release \in BOOLEAN
  /\ mapped \in 0 .. MaxLoads
  /\ factories \in 0 .. MaxFactories
  /\ pc \in [Threads -> PCs]
  /\ crashed \in BOOLEAN

HipInit ==
  /\ refcount = 0
  /\ module = FALSE /\ create = FALSE /\ release = FALSE
  /\ mapped = 0
  /\ factories = 0
  /\ pc = [t \in Threads |-> "idle"]
  /\ crashed = FALSE

Goto(t, from, to) ==
  /\ ~crashed
  /\ pc[t] = from
  /\ pc' = [pc EXCEPT ![t] = to]

-----------------------------------------------------------------------------
(* CreateEpFactories *)

\* g_refcount++ == 0: only the caller that saw zero loads the library.
BeginCreate(t) ==
  /\ refcount < MaxFactories
  /\ Goto(t, "idle", IF refcount = 0 THEN "load" ELSE "call")
  /\ refcount' = refcount + 1
  /\ UNCHANGED <<symbols, mapped, factories, crashed>>

Load(t) ==
  /\ mapped < MaxLoads
  /\ Goto(t, "load", "getCreate")
  /\ module' = TRUE
  /\ mapped' = mapped + 1
  /\ UNCHANGED <<refcount, create, release, factories, crashed>>

\* A failed load stores null, over the handle of an earlier incomplete load.
LoadFails(t) ==
  /\ Goto(t, "load", "rollback")
  /\ module' = FALSE
  /\ UNCHANGED <<refcount, create, release, mapped, factories, crashed>>

GetCreate(t) ==
  /\ Goto(t, "getCreate", "getRelease")
  /\ create' = TRUE
  /\ UNCHANGED <<refcount, module, release, mapped, factories, crashed>>

GetRelease(t) ==
  /\ Goto(t, "getRelease", "call")
  /\ release' = TRUE
  /\ UNCHANGED <<refcount, module, create, mapped, factories, crashed>>

\* A missing symbol throws; GetProcAddress stores the null it returned.
GetCreateFails(t) ==
  /\ Goto(t, "getCreate", "rollback")
  /\ create' = FALSE
  /\ UNCHANGED <<refcount, module, release, mapped, factories, crashed>>

GetReleaseFails(t) ==
  /\ Goto(t, "getRelease", "rollback")
  /\ release' = FALSE
  /\ UNCHANGED <<refcount, module, create, mapped, factories, crashed>>

\* g_hip_create returns a factory, or an error status that is passed on.
CallCreate(t) ==
  /\ Goto(t, "call", "idle")
  /\ crashed' = ~create
  /\ factories' \in IF create THEN {factories, factories + 1} ELSE {factories}
  /\ factories' <= MaxFactories
  /\ UNCHANGED <<refcount, symbols, mapped>>

\* Mutant: the exception is returned as a status and nothing more.
KeepReference(t) ==
  /\ Goto(t, "rollback", "idle")
  /\ UNCHANGED <<refcount, symbols, mapped, factories, crashed>>

\* The catch block.
Rollback(t) ==
  /\ Goto(t, "rollback", "idle")
  /\ refcount' = refcount - 1
  /\ UNCHANGED <<symbols, mapped, factories, crashed>>

-----------------------------------------------------------------------------
(* ReleaseEpFactory, called once for each factory created *)

BeginRelease(t) ==
  /\ factories > 0
  /\ Goto(t, "idle", IF release THEN "callRelease" ELSE "drop")
  /\ factories' = factories - 1
  /\ UNCHANGED <<refcount, symbols, mapped, crashed>>

CallRelease(t) ==
  /\ Goto(t, "callRelease", "drop")
  /\ crashed' = ~release
  /\ UNCHANGED <<refcount, symbols, mapped, factories>>

\* Mutant: the library goes with the first factory released.
DropUnloading(t) ==
  /\ Goto(t, "drop", IF module THEN "unload" ELSE "idle")
  /\ refcount' = refcount - 1
  /\ UNCHANGED <<symbols, mapped, factories, crashed>>

\* --g_refcount == 0 && g_hip_module != nullptr
Drop(t) ==
  /\ Goto(t, "drop", IF refcount = 1 /\ module THEN "unload" ELSE "idle")
  /\ refcount' = refcount - 1
  /\ UNCHANGED <<symbols, mapped, factories, crashed>>

\* UnloadDynamicLibrary, and the three pointers reset.
Unload(t) ==
  /\ Goto(t, "unload", "idle")
  /\ mapped' = mapped - 1
  /\ module' = FALSE /\ create' = FALSE /\ release' = FALSE
  /\ UNCHANGED <<refcount, factories, crashed>>

HipNext ==
  \E t \in Threads :
    \/ BeginCreate(t) \/ Load(t) \/ LoadFails(t) \/ GetCreate(t) \/ GetCreateFails(t)
    \/ GetRelease(t) \/ GetReleaseFails(t) \/ CallCreate(t) \/ Rollback(t)
    \/ BeginRelease(t) \/ CallRelease(t) \/ Drop(t) \/ Unload(t)

HipSpec == HipInit /\ [][HipNext]_hipVars

-----------------------------------------------------------------------------
(* Properties *)

AtRest == \A t \in Threads : pc[t] = "idle"

\* The library is loaded before the first factory and unloaded only after the
\* last is released: while the application holds a factory its code is mapped
\* and its release function known, and no call goes through a null pointer.
LoadedWhileHeld ==
  /\ ~crashed
  /\ factories > 0 => mapped > 0 /\ module /\ create /\ release

\* "Roll back the refcount bump so a later retry re-attempts the load": a
\* library that is not usable is never counted as loaded between two calls.
RetryReattempts == AtRest /\ ~(create /\ release) => refcount = 0

\* The library is unloaded when the last factory is released: between two calls
\* the reference count is the number of factories.
CountsFactories == AtRest => refcount = factories
=============================================================================
