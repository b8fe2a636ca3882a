---------------------------- MODULE BucketAllocator ----------------------------
(***************************************************************************)
(* DmlBucketizedBufferAllocator: GPU resources whose width is a power of   *)
(* two are pooled in buckets, one per width; other ones are created for an *)
(* allocation and released with it.  Until the session is initialized a    *)
(* size is rounded up to a bucket's only if it matches it.                 *)
(*                                                                         *)
(* Taking a resource out of a bucket is two steps, so that calls of other  *)
(* threads, when there are several, come between: nothing is locked.       *)
(* Undefined behaviour ends the model in a state with undefined = TRUE.    *)
(***************************************************************************)
EXTENDS Integers, FiniteSetsExt, SequencesExt, Functions

CONSTANTS
  Threads,       \* threads that allocate and free
  Sizes,         \* requested sizes
  MinExponent,   \* c_minResourceSizeExponent
  MaxResources,  \* bound on the number of resources created
  MaxLive        \* bound on the number of live allocations

ASSUME AllocatorAssumption ==
  Sizes \subseteq Nat /\ MinExponent \in Nat /\ MaxResources \in Nat /\ MaxLive \in Nat

VARIABLES
  pool,       \* m_pool: pool[i + 1] are the resources of bucket i, last one on top
  created,    \* m_currentResourceId
  rounding,   \* m_defaultRoundingMode = Enabled
  live,       \* allocations not freed: their resource and requested size
  queued,     \* resources whose release waits for the GPU, as far as created
  taking,     \* per thread: the resource read from a bucket, to be popped
  unpooled,   \* history: ids of the resources created for one allocation
  undefined   \* the behaviour is undefined

vars == <<pool, created, rounding, live, queued, taking, unpooled, undefined>>

Resource == [id : Nat, width : Nat]
Nothing == [bucket |-> 0, resource |-> [id |-> 0, width |-> 0], size |-> 0]

TypeOK ==
  /\ \A b \in DOMAIN pool : \A i \in DOMAIN pool[b] : pool[b][i] \in Resource
  /\ created \in Nat
  /\ rounding \in BOOLEAN
  /\ \A a \in live : a.resource \in Resource /\ a.size \in Nat \ {0}
  /\ queued \subseteq unpooled
  /\ \A th \in Threads : taking[th] = Nothing \/ taking[th].bucket \in DOMAIN pool
  /\ unpooled \subseteq 1..created
  /\ undefined \in BOOLEAN

-----------------------------------------------------------------------------
\* Mutant: the logarithm is rounded down.
FloorBucketIndex(size) ==
  LET exponent == Max({e \in 0..size : 2^e <= size})
  IN  Max({exponent, MinExponent}) - MinExponent

\* The exponent of the smallest power of two that holds size, counted from the
\* smallest bucket's.
GetBucketIndexFromSize(size) ==
  LET exponent == Min({e \in 0..size : 2^e >= size})
  IN  Max({exponent, MinExponent}) - MinExponent

GetBucketSizeFromIndex(index) == 2^(index + MinExponent)

BucketSize(size) == GetBucketSizeFromIndex(GetBucketIndexFromSize(size))

\* AllocImpl rounds an empty request up to one byte.
Request(size) == Max({1, size})

\* What the proofs use of powers of two, of which the provers know nothing: a
\* request has an exponent, its bucket has a width, and the smallest bucket is as
\* wide as it should be.
ASSUME ExponentAssumption ==
  /\ \A s \in Sizes : BucketSize(Request(s)) \in Nat
  /\ \A s \in Sizes : \E e \in 0..Request(s) : 2^e >= Request(s)
  /\ \A e \in 0..MinExponent : 2^e \in Nat /\ 2^e <= 2^MinExponent

\* The size of a resource that "will not be pooled": a multiple of 4.
UnpooledSize(size) == ((size + 3) \div 4) * 4

Pooled(size) == rounding \/ size = BucketSize(size)

\* The pool, resized to hold the bucket of size.
PoolFor(size) ==
  LET n == GetBucketIndexFromSize(size) + 1
  IN  IF Len(pool) >= n THEN pool ELSE pool \o [i \in 1..n - Len(pool) |-> <<>>]

NewResource(width) == [id |-> created + 1, width |-> width]

Init ==
  /\ pool = <<>>
  /\ created = 0
  /\ rounding = FALSE
  /\ live = {}
  /\ queued = {}
  /\ taking = [th \in Threads |-> Nothing]
  /\ unpooled = {}
  /\ undefined = FALSE

-----------------------------------------------------------------------------
Idle(th) == ~undefined /\ taking[th] = Nothing

\* AllocImpl of a pooled size, the bucket is empty: a new resource.
AllocNewPooled(th, size) ==
  /\ Idle(th)
  /\ Pooled(size)
  /\ Cardinality(live) < MaxLive /\ created < MaxResources
  /\ pool' = PoolFor(size)
  /\ pool'[GetBucketIndexFromSize(size) + 1] = <<>>
  /\ live' = live \cup {[resource |-> NewResource(BucketSize(size)), size |-> size]}
  /\ created' = created + 1
  /\ UNCHANGED <<rounding, queued, taking, unpooled, undefined>>

\* The sub-allocator fails: only the pool has grown.
AllocPooledFails(th, size) ==
  /\ Idle(th)
  /\ Pooled(size)
  /\ pool' = PoolFor(size)
  /\ pool'[GetBucketIndexFromSize(size) + 1] = <<>>
  /\ UNCHANGED <<created, rounding, live, queued, taking, unpooled, undefined>>

\* The bucket is not empty: its last resource is moved out of its place ...
\* Another thread may be between the same move and its pop: the two unordered
\* moves of the pointer both succeed, or the later finds it empty.
AllocFromBucket(th, size) ==
  /\ Idle(th)
  /\ Pooled(size)
  /\ Cardinality(live) < MaxLive
  /\ LET b == GetBucketIndexFromSize(size) + 1
     IN  /\ b \in DOMAIN pool
         /\ pool[b] # <<>>
         /\ taking' = [taking EXCEPT ![th] =
                         [bucket |-> b, resource |-> Last(pool[b]), size |-> size]]
         /\ undefined' \in {FALSE, \E other \in Threads :
                                     taking[other] # Nothing /\ taking[other].resource = Last(pool[b])}
  /\ UNCHANGED <<pool, created, rounding, live, queued, unpooled>>

\* Mutant: the resource stays in its bucket.
TakeWithoutPop(th) ==
  /\ ~undefined
  /\ taking[th] # Nothing
  /\ live' = live \cup {[resource |-> taking[th].resource, size |-> taking[th].size]}
  /\ taking' = [taking EXCEPT ![th] = Nothing]
  /\ UNCHANGED <<pool, created, rounding, queued, unpooled, undefined>>

\* ... and popped; popping an empty bucket is undefined.
PopFromBucket(th) ==
  /\ ~undefined
  /\ taking[th] # Nothing
  /\ LET b == taking[th].bucket
     IN  IF pool[b] = <<>>
         THEN undefined' = TRUE /\ UNCHANGED pool
         ELSE pool' = [pool EXCEPT ![b] = Front(@)] /\ UNCHANGED undefined
  /\ live' = live \cup {[resource |-> taking[th].resource, size |-> taking[th].size]}
  /\ taking' = [taking EXCEPT ![th] = Nothing]
  /\ UNCHANGED <<created, rounding, queued, unpooled>>

\* AllocImpl of another size: a resource that "will not be pooled".
AllocUnpooled(th, size) ==
  /\ Idle(th)
  /\ ~Pooled(size)
  /\ Cardinality(live) < MaxLive /\ created < MaxResources
  /\ live' = live \cup {[resource |-> NewResource(UnpooledSize(size)), size |-> size]}
  /\ created' = created + 1
  /\ unpooled' = unpooled \cup {created + 1}
  /\ UNCHANGED <<pool, rounding, queued, taking, undefined>>

\* Mutant: the bucket is that of the requested size, whatever the width.
AnyWidthReturns(a) == TRUE

\* Mutant: whatever is freed while sizes are rounded goes to the pool.
ReturnsWhenRounding(a) == rounding

\* The width of the allocation's resource is that of a bucket.
ReturnsToPool(a) == BucketSize(a.size) = a.resource.width

\* FreeResource of a resource whose width is a bucket's: back to the bucket,
\* without asking whether there is one.
FreeToPool(th, a) ==
  /\ Idle(th)
  /\ a \in live
  /\ ReturnsToPool(a)
  /\ live' = live \ {a}
  /\ LET b == GetBucketIndexFromSize(a.size) + 1
     IN  IF b \in DOMAIN pool
         THEN pool' = [pool EXCEPT ![b] = Append(@, a.resource)] /\ UNCHANGED undefined
         ELSE undefined' = TRUE /\ UNCHANGED pool
  /\ UNCHANGED <<created, rounding, queued, taking, unpooled>>

\* FreeResource of another one: the context releases it later (QueueReference;
\* nothing is queued when the context is closed).
FreeLater(th, a) ==
  /\ Idle(th)
  /\ a \in live
  /\ ~ReturnsToPool(a)
  /\ live' = live \ {a}
  /\ queued' = queued \cup {a.resource.id}
  /\ UNCHANGED <<pool, created, rounding, taking, unpooled, undefined>>

\* SetDefaultRoundingMode, at the end of the session's initialization.
SetDefaultRoundingMode ==
  /\ ~undefined /\ ~rounding
  /\ \A th \in Threads : taking[th] = Nothing
  /\ rounding' = TRUE
  /\ UNCHANGED <<pool, created, live, queued, taking, unpooled, undefined>>

Next ==
  \/ \E th \in Threads :
       \/ \E s \in Sizes :
            \/ AllocNewPooled(th, Request(s)) \/ AllocPooledFails(th, Request(s))
            \/ AllocFromBucket(th, Request(s))
            \/ AllocUnpooled(th, Request(s))
       \/ PopFromBucket(th)
       \/ \E a \in live : FreeToPool(th, a) \/ FreeLater(th, a)
  \/ SetDefaultRoundingMode

Spec == Init /\ [][Next]_vars

-----------------------------------------------------------------------------
\* The resources of the pool, by bucket and position.
PoolPlaces == UNION {{<<b, i>> : i \in DOMAIN pool[b]} : b \in DOMAIN pool}

\* Every resource has one owner: one live allocation, or one place in the
\* pool, or the context's release list (AllocImpl, FreeResource).
OneOwner ==
  /\ \A a, c \in live : a.resource.id = c.resource.id => a = c
  /\ \A p, q \in PoolPlaces : pool[p[1]][p[2]].id = pool[q[1]][q[2]].id => p = q
  /\ \A a \in live : \A p \in PoolPlaces : pool[p[1]][p[2]].id # a.resource.id
  /\ \A a \in live : a.resource.id \notin queued
  /\ \A p \in PoolPlaces : pool[p[1]][p[2]].id \notin queued

\* An allocation's resource is at least as large as requested, also when it
\* comes from a bucket that was filled while another rounding mode was set.
ResourceFits == \A a \in live : a.size <= a.resource.width

\* The bucket a resource waits in is that of its width.
BucketsUniform ==
  \A p \in PoolPlaces : pool[p[1]][p[2]].width = GetBucketSizeFromIndex(p[1] - 1)

\* "The allocation will not be pooled": a resource created for one allocation
\* is released with it.
UnpooledStaysOut == \A p \in PoolPlaces : pool[p[1]][p[2]].id \notin unpooled
=============================================================================
