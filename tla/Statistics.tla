------------------------------ MODULE Statistics ------------------------------
(* What the statistics of ftalat promise of a calibration.                 *)
EXTENDS ConfInterval

VARIABLE bench    \* the loop times of the calibration at the target frequency

(* While every sample fits an unsigned int, the low bound of the interval  *)
(* only wraps around below zero, which puts it above the high bound, when  *)
(* some loop took more than n times as long as the shortest one            *)
(* (ConfInterval.c:88).                                                    *)
WrapNeedsOutlier ==
  Len(bench) > 1 /\ (\A x \in ToSet(bench) : x < HalfWord)
    /\ LowBound(bench) > HighBound(bench) =>
    Max(ToSet(bench)) > Len(bench) * Min(ToSet(bench))

(* At most r values of the sample are below v, and more than r not above.  *)
Rank(r, v) ==
  /\ Cardinality({k \in DOMAIN bench : bench[k] < v}) <= r
  /\ Cardinality({k \in DOMAIN bench : bench[k] <= v}) > r

(* While every sample fits an unsigned int the sort is a sort: whatever    *)
(* qsort() does with equal elements, the quartiles are the samples of rank *)
(* n / 4 and 3 * n / 4.                                                    *)
QuartilesAreRanks ==
  Len(bench) > 1 /\ (\A x \in ToSet(bench) : x < HalfWord) =>
    \A ys \in Sorted(bench) :
      LET q == interQuartileRange(ys)
      IN  /\ Rank(Len(bench) \div 4, q[1])
          /\ Rank((3 * Len(bench)) \div 4, q[2])

=============================================================================
