----------------------------- MODULE ConfInterval -----------------------------
(***************************************************************************)
(* The statistics of ftalat (src/ftalat/ConfInterval.c) on a sample: a     *)
(* sequence xs of loop times.  The functions compute with doubles; here    *)
(* the same quantities are integers, each multiplied by what makes it one. *)
(* A loop time is an unsigned long, of which comparer() reads the low half.*)
(***************************************************************************)
EXTENDS Integers, SequencesExt, FiniteSetsExt

CONSTANT HalfWord    \* the values of an unsigned int, 2 ^ 32 in the code; an
                     \* unsigned long has twice as many bits

ASSUME HalfAssumption == HalfWord \in Nat \ {0, 1}

Word == HalfWord * HalfWord
Low(v) == v % HalfWord

(* n times average(), and n * n * (n - 1) times the square of sd().        *)
Total(xs) == FoldSeq(LAMBDA x, y : x + y, 0, xs)
Spread(xs) ==
  LET total == Total(xs)
      Deviation(k) == Len(xs) * xs[k] - total
  IN  Total([k \in DOMAIN xs |-> Deviation(k) * Deviation(k)])

(* d / n is at least the standard error 1.96 * sd / sqrt(n) of a sample of *)
(* n values and this spread; the factor 1.96 is 49 / 25.                   *)
Confidence == 49 ^ 2
(* Mutant of ExceedsError: the root of n is forgotten.                     *)
ExceedsDeviation(n, spread, d) ==
  d >= 0 /\ Confidence * spread <= 25 ^ 2 * (n - 1) * (d * d)

ExceedsError(n, spread, d) ==
  d >= 0 /\ Confidence * spread <= 25 ^ 2 * n * (n - 1) * (d * d)

(* floor(average - standardError) and ceil(average + standardError) before *)
(* they are cast; neither is further away from the sample than its span.   *)
Around(xs) ==
  LET low == Min(ToSet(xs))
      high == Max(ToSet(xs))
  IN  (2 * low - high) .. (2 * high - low)

Floor(xs) ==
  LET n == Len(xs)
      total == Total(xs)
      spread == Spread(xs)
      Below(m) == ExceedsError(n, spread, total - n * m)
  IN  CHOOSE m \in Around(xs) : Below(m) /\ ~Below(m + 1)

Ceil(xs) ==
  LET n == Len(xs)
      total == Total(xs)
      spread == Spread(xs)
      Above(m) == ExceedsError(n, spread, n * m - total)
  IN  CHOOSE m \in Around(xs) : Above(m) /\ ~Above(m - 1)

(* The casts to unsigned long: a negative bound wraps around.              *)
LowBound(xs) == Floor(xs) % Word
HighBound(xs) == Ceil(xs) % Word

(* qsort with comparer(), then the elements at n / 4 and 3 * n / 4, counted*)
(* from zero.  Two values with equal low halves may end in either order.   *)
comparer(a, b) == Low(a) <= Low(b)

Sorted(xs) ==
  {ys \in {[k \in DOMAIN xs |-> xs[p[k]]] : p \in Bijection(DOMAIN xs, DOMAIN xs)} :
     \A k \in 1..(Len(xs) - 1) : comparer(ys[k], ys[k + 1])}

(* Mutant of interQuartileRange: indices counted from one.                 *)
interQuartileRangeOff(ys) ==
  <<ys[Len(ys) \div 4 + 1], ys[Min({(3 * Len(ys)) \div 4 + 2, Len(ys)})]>>

interQuartileRange(ys) ==
  <<ys[Len(ys) \div 4 + 1], ys[(3 * Len(ys)) \div 4 + 1]>>

confidenceInterval(xs) == <<LowBound(xs), HighBound(xs)>>

(* The decision of runTest() on its two calibrations: their intervals      *)
(* overlap and one contains the average of the other.                      *)
Inside(xs, bounds) ==
  Total(xs) >= Len(xs) * bounds[1] /\ Total(xs) <= Len(xs) * bounds[2]

Overlap(b, t) == ~(b[1] >= t[2] \/ t[1] >= b[2])

Equal(xs, ys) ==
  LET b == confidenceInterval(xs)
      t == confidenceInterval(ys)
  IN  Overlap(b, t) /\ (Inside(xs, t) \/ Inside(ys, b))

(* The validation of runTest(): the interval of xs meets the bounds.       *)
Accepted(xs, bounds) ==
  LET v == confidenceInterval(xs)
  IN  ~(v[2] < bounds[1] \/ v[1] > bounds[2])

=============================================================================
