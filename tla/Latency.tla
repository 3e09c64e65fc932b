------------------------------ MODULE Latency ------------------------------
(***************************************************************************)
(* A latency histogram of a run (internal/latency/histogram.go): transfers  *)
(* add their durations with single atomic operations while the status page  *)
(* and the seal read percentiles from the same counters, without a lock.    *)
(*                                                                         *)
(* A counter is the set of the samples it counts, and a bucket's counter    *)
(* the samples in `binned` with its index.  Buckets have one width here;    *)
(* in the code it grows with the duration, which no property compares.      *)
(***************************************************************************)
EXTENDS Integers, FiniteSets

CONSTANTS
    Samples,        \* the calls of Add
    MaxNs,          \* the longest duration
    BucketWidth,
    NumBuckets,     \* the last one takes what is longer than the range
    Points          \* percentiles a snapshot asks for

ASSUME LatencyAssumption ==
    /\ IsFiniteSet(Samples)
    /\ MaxNs \in Nat /\ Points \in Nat
    /\ BucketWidth \in Nat \ {0} /\ NumBuckets \in Nat \ {0}

VARIABLES
    adds,           \* per call: program counter, duration, maxNs as it was loaded
    binned,         \* samples that are in a bucket
    counted,        \* Histogram.count
    summed,         \* Histogram.sumNs
    maxNs,
    snap            \* Snapshot: program counter and locals

latencyVars == <<adds, binned, counted, summed, maxNs, snap>>

NoSnapshot == [pc |-> "idle", max |-> 0, point |-> 0,
               total |-> {}, target |-> 0, bucket |-> 0, seen |-> {}]

LatencyInit ==
    /\ adds = [x \in Samples |-> [pc |-> "new", ns |-> 0, cur |-> 0]]
    /\ binned = {} /\ counted = {} /\ summed = {} /\ maxNs = 0
    /\ snap = NoSnapshot

bucketIndex(ns) ==
    IF ns >= BucketWidth * (NumBuckets - 1) THEN NumBuckets - 1 ELSE ns \div BucketWidth

InBucket(i) == {x \in binned : bucketIndex(adds[x].ns) = i}

-----------------------------------------------------------------------------
(* Add: bucket, count, sum, then the maximum.                               *)

AddGoes(x, pc) == adds' = [adds EXCEPT ![x].pc = pc]

AddToBucket(x) ==
    /\ adds[x].pc = "new"
    /\ \E ns \in 0..MaxNs : adds' = [adds EXCEPT ![x].ns = ns, ![x].pc = "count"]
    /\ binned' = binned \cup {x}
    /\ UNCHANGED <<counted, summed, maxNs, snap>>

AddToCount(x) ==
    /\ adds[x].pc = "count"
    /\ counted' = counted \cup {x}
    /\ AddGoes(x, "sum")
    /\ UNCHANGED <<binned, summed, maxNs, snap>>

AddToSum(x) ==
    /\ adds[x].pc = "sum"
    /\ summed' = summed \cup {x}
    /\ AddGoes(x, "max")
    /\ UNCHANGED <<binned, counted, maxNs, snap>>

LoadMax(x) ==
    /\ adds[x].pc = "max"
    /\ adds' = [adds EXCEPT ![x].pc = IF adds[x].ns <= maxNs THEN "done" ELSE "swap",
                            ![x].cur = maxNs]
    /\ UNCHANGED <<binned, counted, summed, maxNs, snap>>

\* The swap fails if another call was faster, and the loop loads again.
SwapMax(x) ==
    /\ adds[x].pc = "swap"
    /\ IF maxNs = adds[x].cur
       THEN maxNs' = adds[x].ns /\ AddGoes(x, "done")
       ELSE AddGoes(x, "max") /\ UNCHANGED maxNs
    /\ UNCHANGED <<binned, counted, summed, snap>>

-----------------------------------------------------------------------------
(* Snapshot and percentile.                                                 *)

\* Nothing counted: the snapshot is empty.  The mean is left out.
SnapshotBegins ==
    /\ snap.pc = "idle" /\ counted # {}
    /\ snap' = [snap EXCEPT !.pc = "max"]
    /\ UNCHANGED <<adds, binned, counted, summed, maxNs>>

SnapshotMax ==
    /\ snap.pc = "max"
    /\ snap' = [snap EXCEPT !.pc = "percentile", !.max = maxNs]
    /\ UNCHANGED <<adds, binned, counted, summed, maxNs>>

\* percentile loads the count again; the target is the rank p of it.
PercentileBegins ==
    /\ snap.pc = "percentile" /\ snap.point < Points
    /\ \E rank \in 1..Cardinality(counted) :
          snap' = [snap EXCEPT !.pc = "walk", !.point = @ + 1, !.total = counted,
                               !.target = rank, !.bucket = 0, !.seen = {}]
    /\ UNCHANGED <<adds, binned, counted, summed, maxNs>>

\* A walk that ends one sample late.
PercentileOvershoots ==
    /\ snap.pc = "walk"
    /\ LET both == snap.seen \cup InBucket(snap.bucket) IN
       snap' = IF snap.bucket = NumBuckets THEN [snap EXCEPT !.pc = "overrun"]
               ELSE IF Cardinality(both) > snap.target THEN [snap EXCEPT !.pc = "found"]
               ELSE [snap EXCEPT !.seen = both, !.bucket = @ + 1]
    /\ UNCHANGED <<adds, binned, counted, summed, maxNs>>

\* The next bucket is loaded; the one that reaches the target ends the walk.
\* Past the last one the maximum is the answer.
PercentileWalks ==
    /\ snap.pc = "walk"
    /\ LET both == snap.seen \cup InBucket(snap.bucket) IN
       snap' = IF snap.bucket = NumBuckets THEN [snap EXCEPT !.pc = "overrun"]
               ELSE IF Cardinality(both) >= snap.target THEN [snap EXCEPT !.pc = "found"]
               ELSE [snap EXCEPT !.seen = both, !.bucket = @ + 1]
    /\ UNCHANGED <<adds, binned, counted, summed, maxNs>>

PercentileReturns ==
    /\ snap.pc \in {"found", "overrun"}
    /\ snap' = [snap EXCEPT !.pc = "percentile"]
    /\ UNCHANGED <<adds, binned, counted, summed, maxNs>>

SnapshotReturns ==
    /\ snap.pc = "percentile" /\ snap.point = Points
    /\ snap' = NoSnapshot
    /\ UNCHANGED <<adds, binned, counted, summed, maxNs>>

LatencyNext ==
    \/ \E x \in Samples : \/ AddToBucket(x) \/ AddToCount(x) \/ AddToSum(x)
                          \/ LoadMax(x) \/ SwapMax(x)
    \/ SnapshotBegins \/ SnapshotMax \/ PercentileBegins \/ PercentileWalks
    \/ PercentileReturns \/ SnapshotReturns

LatencySpec == LatencyInit /\ [][LatencyNext]_latencyVars

-----------------------------------------------------------------------------
\* "counts are monotonic so no value is ever wrong by more than the in-flight
\* delta" (histogram.go:88-90): a percentile read while samples arrive lies
\* between the exact one of the samples that were counted when it began and
\* the exact one of those in the buckets when it ends, and the walk never runs
\* past the last bucket.
PercentileBracketed ==
    /\ snap.pc # "overrun"
    /\ snap.pc = "found" =>
          /\ Cardinality({x \in snap.total : bucketIndex(adds[x].ns) < snap.bucket}) < snap.target
          /\ snap.target <= Cardinality({x \in binned : bucketIndex(adds[x].ns) <= snap.bucket})

\* The maximum is a duration that was added, and no call that returned added a
\* longer one, however their compare-and-swap loops met (histogram.go:63-68).
MaxCovers ==
    /\ maxNs = 0 \/ \E x \in summed : adds[x].ns = maxNs
    /\ \A x \in Samples : adds[x].pc = "done" => adds[x].ns <= maxNs
=============================================================================
