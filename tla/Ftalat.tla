-------------------------------- MODULE Ftalat --------------------------------
(***************************************************************************)
(* runTest() of ftalat (src/ftalat/main.c): calibrate the loop at the two  *)
(* frequencies, then repeatedly request the target frequency, run the loop *)
(* until its time says that the core has switched, validate, go back to    *)
(* the start frequency, validate, and keep one row of results.             *)
(*                                                                         *)
(* The hardware is external: a core switches to the requested frequency    *)
(* some time after the request, and the time of one loop is any of a set   *)
(* that depends on the frequency it ran at.  The time stamp counter counts *)
(* the requests and the loops of the detection, the only things that a     *)
(* measured interval contains.                                             *)
(***************************************************************************)
EXTENDS Statistics

CONSTANTS
  StartFreq, TargetFreq,  \* the arguments of the program
  LoopTimes,              \* the times of loop() at a frequency
  SwitchTimes,            \* and when the core switches while it runs
  Benchmarks,             \* the calibrations at a frequency that occur
  ValidationRepet,        \* NB_VALIDATION_REPET
  TryRepetLoop,           \* NB_TRY_REPET_LOOP
  ReportTimes             \* NB_REPORT_TIMES

Freqs == {StartFreq, TargetFreq}

ASSUME FreqAssumption == StartFreq \in Nat \ {0} /\ TargetFreq \in Nat \ {0}
ASSUME LoopTimesAssumption ==
  /\ \A f \in Freqs : LoopTimes[f] \subseteq Nat
  /\ SwitchTimes \subseteq Nat
ASSUME BoundsAssumption ==
  /\ ValidationRepet \in Nat \ {0, 1}
  /\ TryRepetLoop \in Nat \ {0}
  /\ ReportTimes \in Nat \ {0}
ASSUME BenchmarksAssumption ==
  \A f \in Freqs : \A xs \in Benchmarks[f] :
    xs \in Seq(Nat) /\ Len(xs) >= ValidationRepet

VARIABLES
  pc,            \* where runTest() is
  requested,     \* the frequency written to scaling_setspeed
  actual,        \* the frequency the core runs at
  tsc,           \* the time stamp counter
  times,         \* the array times, from index 0 on
  fresh,         \* indices of times stored since the last request
  bounds,        \* the confidence interval of each calibration
  quartiles,     \* lowBoundTime and highBoundTime: the target's quartiles
  it,            \* the iterations done
  stamps,        \* startLoopTime, lateStartLoopTime and endLoopTime
  niters,        \* loops of the detection outside the quartiles
  validated,
  k,             \* the next index of times to be stored by a validation
  rows           \* measurements, measurements_late, measurements_timestamps

vars == <<pc, requested, actual, tsc, times, fresh, bench, bounds, quartiles,
          it, stamps, niters, validated, k, rows>>

hardware == <<requested, actual>>
calibration == <<bench, bounds, quartiles>>

NoStamps == [start |-> 0, late |-> 0, end |-> 0]

-----------------------------------------------------------------------------

Init ==
  /\ pc = "set_target"
  /\ requested = StartFreq
  /\ actual \in Freqs
  /\ tsc = 0
  /\ times = [n \in 0 .. ValidationRepet - 1 |-> 0]
  /\ fresh = {}
  /\ bench = <<>>
  /\ bounds = [f \in Freqs |-> <<0, 0>>]
  /\ quartiles = <<0, 0>>
  /\ it = 0
  /\ stamps = NoStamps
  /\ niters = 0
  /\ validated = TRUE
  /\ k = 0
  /\ rows = <<>>

(* The core reaches the requested frequency between two loops.             *)
Switch ==
  /\ actual # requested
  /\ actual' = requested
  /\ UNCHANGED <<pc, requested, tsc, times, fresh, calibration, it, stamps,
                 niters, validated, k, rows>>

(* One call of loop(), during which the core may switch.                   *)
Loop(time) ==
  \/ time \in LoopTimes[actual] /\ UNCHANGED actual
  \/ actual # requested /\ time \in SwitchTimes /\ actual' = requested

Times == LoopTimes[StartFreq] \union LoopTimes[TargetFreq] \union SwitchTimes

Store(n, time) ==
  /\ times' = [times EXCEPT ![n] = time]
  /\ fresh' = fresh \union {n}

(* setFreq(coreID, f): from now on all of times is old.                    *)
SetFreq(f, from, to) ==
  /\ pc = from
  /\ pc' = to
  /\ requested' = f
  /\ fresh' = {}

CalibrationRequest(f, from, to) ==
  /\ SetFreq(f, from, to)
  /\ UNCHANGED <<actual, tsc, times, calibration, it, stamps, niters,
                 validated, k, rows>>

(* waitCurFreq(): the measured frequency is within 5 % of f.               *)
waitCurFreq(f, from, to) ==
  /\ pc = from
  /\ 95 * f < 100 * actual /\ 100 * actual < 105 * f
  /\ pc' = to
  /\ UNCHANGED <<hardware, tsc, times, fresh, calibration, it, stamps, niters,
                 validated, k, rows>>

(* measureLoop() fills times; the calibration at the target is then sorted *)
(* for its quartiles.                                                      *)
Filled(xs) == [n \in DOMAIN times |-> xs[n + 1]]

BenchTarget ==
  /\ pc = "bench_target"
  /\ \E xs \in Benchmarks[actual] : \E ys \in Sorted(xs) :
       /\ times' = Filled(ys)
       /\ bench' = xs
       /\ quartiles' = interQuartileRange(ys)
  /\ fresh' = DOMAIN times
  /\ pc' = "set_start"
  /\ UNCHANGED <<hardware, tsc, bounds, it, stamps, niters, validated, k, rows>>

(* With the second calibration come the two intervals; the test is given   *)
(* up, without a row, when they are not told apart.                        *)
BenchStart ==
  /\ pc = "bench_start"
  /\ \E xs \in Benchmarks[actual] :
       /\ times' = Filled(xs)
       /\ bounds' = [f \in Freqs |->
            confidenceInterval(IF f = TargetFreq THEN bench ELSE xs)]
       /\ pc' = IF Equal(xs, bench) THEN "given_up" ELSE "iteration"
  /\ fresh' = DOMAIN times
  /\ UNCHANGED <<hardware, tsc, bench, quartiles, it, stamps, niters, validated,
                 k, rows>>

(* The head of an iteration: the first stamp, ...                          *)
StartStamp ==
  /\ pc = "iteration"
  /\ it < ReportTimes
  /\ stamps' = [NoStamps EXCEPT !.start = tsc]
  /\ niters' = 0
  /\ pc' = "request"
  /\ UNCHANGED <<hardware, tsc, times, fresh, calibration, it, validated, k, rows>>

(* ... the request of the target frequency, which takes time, ...          *)
Request ==
  /\ SetFreq(TargetFreq, "request", "late_stamp")
  /\ tsc' = tsc + 1
  /\ UNCHANGED <<actual, times, calibration, it, stamps, niters, validated, k, rows>>

(* ... and the stamp after it.                                             *)
LateStamp ==
  /\ pc = "late_stamp"
  /\ stamps' = [stamps EXCEPT !.late = tsc]
  /\ pc' = "detect"
  /\ UNCHANGED <<hardware, tsc, times, fresh, calibration, it, niters, validated,
                 k, rows>>

InRange(time) == quartiles[1] <= time /\ time <= quartiles[2]

(* Mutant of Detect: one loop too many.                                    *)
DetectOneMore ==
  /\ pc = "detect"
  /\ tsc' = tsc + 1
  /\ \E time \in Times :
       /\ Loop(time)
       /\ niters' = IF InRange(time) THEN niters ELSE niters + 1
       /\ IF InRange(time) \/ niters >= TryRepetLoop
          THEN Store(0, time) /\ pc' = "end_stamp"
          ELSE UNCHANGED <<pc, times, fresh>>
  /\ UNCHANGED <<requested, calibration, it, stamps, validated, k, rows>>

(* One loop of the detection: it ends with a time between the quartiles,   *)
(* or after NB_TRY_REPET_LOOP loops.  The last time becomes times[0].      *)
Detect ==
  /\ pc = "detect"
  /\ tsc' = tsc + 1
  /\ \E time \in Times :
       /\ Loop(time)
       /\ niters' = IF InRange(time) THEN niters ELSE niters + 1
       /\ IF InRange(time) \/ niters + 1 >= TryRepetLoop
          THEN Store(0, time) /\ pc' = "end_stamp"
          ELSE UNCHANGED <<pc, times, fresh>>
  /\ UNCHANGED <<requested, calibration, it, stamps, validated, k, rows>>

(* Mutant of Row: a rejected row has no time stamp.                        *)
RowCleared(end, valid, before) ==
  [measurement |-> IF valid THEN end - stamps.start ELSE 0,
   late |-> IF valid THEN end - stamps.late ELSE 0,
   timestamp |-> IF valid THEN end ELSE 0]

Row(end, valid, before) ==
  [measurement |-> IF valid THEN end - stamps.start ELSE 0,
   late |-> IF valid THEN end - stamps.late ELSE 0,
   timestamp |-> IF valid \/ before = <<>> THEN end
                 ELSE before[Len(before)].timestamp]

EndStamp ==
  /\ pc = "end_stamp"
  /\ stamps' = [stamps EXCEPT !.end = tsc]
  /\ validated' = TRUE
  /\ k' = 1
  /\ pc' = "validate_target"
  /\ UNCHANGED <<hardware, tsc, times, fresh, calibration, it, niters, rows>>

(* The validation samples from index 1 on; times[0] is what it was.        *)
Sample(from, to) ==
  /\ pc = from
  /\ \E time \in Times : Loop(time) /\ Store(k, time)
  /\ k' = k + 1
  /\ pc' = IF k + 1 = ValidationRepet THEN to ELSE from
  /\ UNCHANGED <<requested, tsc, calibration, it, stamps, niters, validated, rows>>

ValidationSample == [n \in 1..ValidationRepet |-> times[n - 1]]

(* Mutant of CheckTarget: the start frequency is not requested again.      *)
CheckTargetStays ==
  /\ SetFreq(TargetFreq, "check_target", "return")
  /\ validated' = Accepted(ValidationSample, bounds[TargetFreq])
  /\ tsc' = tsc + 1
  /\ UNCHANGED <<actual, times, calibration, it, stamps, niters, k, rows>>

(* Mutant of CheckTarget: the validation is by the wrong calibration.      *)
CheckTargetByStart ==
  /\ SetFreq(StartFreq, "check_target", "return")
  /\ validated' = Accepted(ValidationSample, bounds[StartFreq])
  /\ tsc' = tsc + 1
  /\ UNCHANGED <<actual, times, calibration, it, stamps, niters, k, rows>>

(* The interval of the validation sample must meet that of the target, ... *)
CheckTarget ==
  /\ SetFreq(StartFreq, "check_target", "return")
  /\ validated' = Accepted(ValidationSample, bounds[TargetFreq])
  /\ tsc' = tsc + 1
  /\ UNCHANGED <<actual, times, calibration, it, stamps, niters, k, rows>>

(* Mutant of NearStart: a tolerance of 50 % below.                         *)
RoughlyStart(time) ==
  /\ 100 * time >= 50 * bounds[StartFreq][1]
  /\ 100 * time <= 105 * bounds[StartFreq][2]

NearStart(time) ==
  /\ 100 * time >= 95 * bounds[StartFreq][1]
  /\ 100 * time <= 105 * bounds[StartFreq][2]

(* ... then the loop runs, without a limit, until its time is within 5 % of*)
(* the interval of the start frequency, ...                                *)
Return ==
  /\ pc = "return"
  /\ \E time \in Times :
       /\ Loop(time)
       /\ pc' = IF NearStart(time) THEN "validate_start" ELSE "return"
  /\ k' = 1
  /\ UNCHANGED <<requested, tsc, times, fresh, calibration, it, stamps, niters,
                 validated, rows>>

(* ... and a second validation decides together with the first one whether *)
(* the row is kept or cleared.                                             *)
CheckStart ==
  /\ pc = "check_start"
  /\ LET valid == validated /\ Accepted(ValidationSample, bounds[StartFreq])
     IN  /\ validated' = valid
         /\ rows' = Append(rows, Row(stamps.end, valid, rows))
  /\ it' = it + 1
  /\ pc' = "iteration"
  /\ UNCHANGED <<hardware, tsc, times, fresh, calibration, stamps, niters, k>>

Report ==
  /\ pc = "iteration"
  /\ it = ReportTimes
  /\ pc' = "reported"
  /\ UNCHANGED <<hardware, tsc, times, fresh, calibration, it, stamps, niters,
                 validated, k, rows>>

-----------------------------------------------------------------------------

Iteration ==
  \/ StartStamp \/ Request \/ LateStamp \/ Detect \/ EndStamp
  \/ Sample("validate_target", "check_target") \/ CheckTarget
  \/ Return
  \/ Sample("validate_start", "check_start") \/ CheckStart

Calibration ==
  \/ CalibrationRequest(TargetFreq, "set_target", "wait_target")
  \/ waitCurFreq(TargetFreq, "wait_target", "bench_target")
  \/ BenchTarget
  \/ CalibrationRequest(StartFreq, "set_start", "wait_start")
  \/ waitCurFreq(StartFreq, "wait_start", "bench_start")
  \/ BenchStart

runTest == Calibration \/ Iteration \/ Report

Ended == pc \in {"given_up", "reported"}

Next == runTest \/ Switch \/ (Ended /\ UNCHANGED vars)

Spec == Init /\ [][Next]_vars

(* The program is scheduled (it has real-time priority on its own core) and*)
(* a requested frequency is eventually reached.                            *)
FairSpec == Spec /\ WF_vars(runTest) /\ WF_vars(Switch)

-----------------------------------------------------------------------------

Locations ==
  {"set_target", "wait_target", "bench_target", "set_start", "wait_start",
   "bench_start", "iteration", "request", "late_stamp", "detect", "end_stamp",
   "validate_target", "check_target", "return", "validate_start",
   "check_start", "given_up", "reported"}

(* The types of the variables of runTest(), main.c:115-318.                *)
TypeOK ==
  /\ pc \in Locations
  /\ requested \in Freqs /\ actual \in Freqs
  /\ tsc \in Nat
  /\ times \in [0 .. ValidationRepet - 1 -> Nat]
  /\ fresh \subseteq DOMAIN times
  /\ it \in 0..ReportTimes
  /\ stamps \in [start : 0..tsc, late : 0..tsc, end : 0..tsc]
  /\ niters \in 0..TryRepetLoop
  /\ validated \in BOOLEAN
  /\ k \in 0..ValidationRepet
  /\ rows \in Seq([measurement : Nat, late : Nat, timestamp : 0..tsc])
  /\ Len(rows) = it

(* The rows follow each other in time: a kept row has a long time and a    *)
(* shorter short time, apart by the cost of the request, and starts after  *)
(* the row before it ended; a rejected one has neither and repeats the     *)
(* stamp before it, so that the unsigned difference to the first stamp that*)
(* is printed cannot wrap (main.c:238-240, 290-295 and 315).               *)
RowsInOrder ==
  /\ \A m, n \in 1..Len(rows) : m <= n => rows[m].timestamp <= rows[n].timestamp
  /\ \A n \in 1..Len(rows) :
       \/ rows[n].measurement = 0 /\ rows[n].late = 0
       \/ /\ 0 < rows[n].late /\ rows[n].late < rows[n].measurement
          /\ n > 1 => rows[n - 1].timestamp + rows[n].measurement <
                         rows[n].timestamp

(* The validation at the start frequency averages only loops that ran after*)
(* the request of that frequency (main.c:266-277).                         *)
StartValidationFresh == pc = "check_start" => fresh = DOMAIN times

(* The two frequencies, and the loop times at each of them, are further    *)
(* apart than the code's tolerances: 5 % around the frequency that is      *)
(* waited for, the quartiles of the target frequency, and 5 % around the   *)
(* interval of the start frequency, of calibrations that are told apart    *)
(* (main.c:138, 148, 231 and 263).                                         *)
FrequenciesApart ==
  95 * TargetFreq >= 100 * StartFreq \/ 95 * StartFreq >= 100 * TargetFreq

TimesApart ==
  \A bm \in Benchmarks[TargetFreq] :
    /\ \A ys \in Sorted(bm), time \in LoopTimes[StartFreq] :
         LET range == interQuartileRange(ys)
         IN  ~(range[1] <= time /\ time <= range[2])
    /\ \A xs \in Benchmarks[StartFreq], time \in LoopTimes[TargetFreq] :
         LET interval == confidenceInterval(xs)
         IN  100 * time >= 95 * interval[1] /\ 100 * time <= 105 * interval[2]
               => Equal(xs, bm)

(* ... and a validation sample that was taken at the start frequency alone *)
(* is told from the calibration at the target frequency (main.c:255-258).  *)
SamplesApart ==
  \A xs \in Benchmarks[StartFreq], bm \in Benchmarks[TargetFreq] :
    ~Equal(xs, bm) =>
      \A sample \in [1..ValidationRepet -> LoopTimes[StartFreq]] :
        ~Accepted(sample, confidenceInterval(bm))

(* What makes them so: loop times that all are within two spans, further   *)
(* apart than the spans are wide, and calibrations that are within them or *)
(* are not told from any other.                                            *)
Quiet(xs, low, high) == ToSet(xs) \subseteq low..high

SpansApart(startLow, startHigh, targetLow, targetHigh) ==
  /\ LoopTimes[StartFreq] \subseteq startLow..startHigh
  /\ LoopTimes[TargetFreq] \subseteq targetLow..targetHigh
  /\ \A bm \in Benchmarks[TargetFreq] : Quiet(bm, targetLow, targetHigh)
  /\ \A xs \in Benchmarks[StartFreq] :
       \/ Quiet(xs, startLow, startHigh)
       \/ \A bm \in Benchmarks[TargetFreq] : Equal(xs, bm)
  /\ startLow <= startHigh /\ startHigh <= 2 * startLow
  /\ targetLow <= targetHigh /\ targetHigh <= 2 * targetLow
  /\ 2 * startHigh - startLow < Word /\ 2 * targetHigh - targetLow < Word
  /\ \/ /\ 2 * targetHigh - targetLow < 2 * startLow - startHigh
        /\ 100 * targetHigh < 95 * (2 * startLow - startHigh)
     \/ /\ 2 * startHigh - startLow < 2 * targetLow - targetHigh
        /\ 105 * (2 * startHigh - startLow) < 100 * targetLow

(* The stamps enclose the switch: every iteration requests the target with *)
(* the core at the start frequency, which the loop of main.c:260-263 waited*)
(* for, and a detection that does not run out of loops ends with the core  *)
(* at the target frequency (main.c:222-231).                               *)
StampsEncloseSwitch ==
  /\ pc = "request" => actual = StartFreq
  /\ pc = "end_stamp" /\ niters < TryRepetLoop => actual = TargetFreq

(* A row is only kept when the core did reach the target frequency: if it  *)
(* is still at the start frequency after the validation loops, the interval*)
(* of their times rejects the row (main.c:255-258).                        *)
NoSwitchRejected ==
  [][pc = "check_target" /\ pc' = "return" /\ actual = StartFreq
       => ~validated']_vars

(* runTest() returns, having reported all rows or given up.                *)
Terminates == <>Ended

=============================================================================
