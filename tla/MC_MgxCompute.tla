---------------------------- MODULE MC_MgxCompute ----------------------------
(* Values for the runs of MgxCompute. *)
EXTENDS MgxCompute
CONSTANTS t1, t2
OneThread == {t1}
TwoThreads == {t1, t2}

Session(batches, extents, max, compile, need) ==
  [batches |-> batches, extents |-> extents, maxDynamicBatch |-> max,
   compileBatches |-> compile, maxScratch |-> need]

\* Powers of two up to 8, a list of buckets, and no buckets.
Sessions == {Session({3, 4, 7}, {11}, 8, {}, 1), Session({1, 4}, {11}, 0, {2, 5}, 1),
             Session({1, 2}, {11, 12}, 0, {}, 0)}

\* Sessions of one kind.
PowersOfTwo == {Session({1, 3, 5}, {11}, 8, {}, 1)}
MaximumTooSmall == {Session({1, 3, 5}, {11}, 6, {}, 1), Session({1, 6}, {11}, 0, {2, 5}, 1)}
TwoExtents == {Session({1, 2}, {11, 12}, 2, {}, 1)}
NoBuckets == {Session({1, 2}, {11, 12}, 0, {}, 0)}
TwoBatches == {Session({2, 3}, {11}, 4, {}, 1)}
=============================================================================
