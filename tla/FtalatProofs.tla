----------------------------- MODULE FtalatProofs -----------------------------
(* Proofs about runTest() of ftalat, for every pair of frequencies, every  *)
(* set of loop times and every number of iterations and of loops.          *)
EXTENDS FtalatTrace, FiniteSetTheorems, SequenceTheorems, TLAPS

Calibrating ==
  {"set_target", "wait_target", "bench_target", "set_start", "wait_start",
   "bench_start"}
Returning == {"return", "validate_start", "check_start"}
InIteration ==
  {"request", "late_stamp", "detect", "end_stamp", "validate_target",
   "check_target"} \union Returning

(* Which of the stamps have been taken, and what has taken time since.     *)
Stamped ==
  /\ pc \in InIteration => stamps.start <= tsc
  /\ pc \in InIteration \ {"request"} => stamps.start < tsc
  /\ pc \in InIteration \ {"request", "late_stamp"} =>
       stamps.start < stamps.late /\ stamps.late <= tsc
  /\ pc = "end_stamp" => stamps.late < tsc
  /\ pc \in {"validate_target", "check_target"} \union Returning =>
       stamps.late < stamps.end /\ stamps.end <= tsc
  /\ pc \in Returning => stamps.end < tsc

(* The rows kept are over before the iteration that comes next.            *)
Over ==
  /\ pc \in Calibrating => rows = <<>>
  /\ pc = "iteration" => \A n \in 1..Len(rows) : rows[n].timestamp < tsc
  /\ pc \in InIteration => \A n \in 1..Len(rows) : rows[n].timestamp < stamps.start

RowType == [measurement : Int, late : Int, timestamp : Int]

Types ==
  /\ tsc \in Nat
  /\ stamps \in [start : Nat, late : Nat, end : Nat]
  /\ rows \in Seq(RowType)

IInv == Types /\ Stamped /\ Over /\ RowsInOrder

USE DEF Calibrating, Returning, InIteration

LEMMA NonEmpty ==
  ASSUME NEW S, NEW s \in Seq(S)
  PROVE  s # <<>> => Len(s) \in Nat \ {0}
BY EmptySeq

LEMMA RowsTyped ==
  ASSUME Types
  PROVE  \A n \in 1..Len(rows) : rows[n].timestamp \in Int
<1>1. rows \in Seq(RowType)
  BY DEF Types
<1>2. \A n \in 1..Len(rows) : rows[n] \in RowType
  BY <1>1, ElementOfSeq
<1>3. \A row \in RowType : row.timestamp \in Int
  BY DEF RowType
<1>4. QED
  BY <1>2, <1>3

LEMMA InitInv == Init => IInv
BY DEF Init, IInv, Types, Stamped, Over, RowsInOrder, NoStamps, RowType

(* Steps that take no row and no stamp, and only let time pass, keep what  *)
(* is known of the rows.                                                   *)
LEMMA RowsStay ==
  ASSUME IInv, UNCHANGED <<rows, stamps>>, tsc' \in Nat, tsc' >= tsc,
         Stamped',
         pc' \in Calibrating => pc \in Calibrating,
         pc' = "iteration" => pc \in Calibrating \union {"iteration"},
         pc' \in InIteration => pc \in InIteration
  PROVE  IInv'
<1>1. Types' /\ RowsInOrder'
  BY DEF IInv, Types, RowsInOrder
<1>2. \A n \in 1..Len(rows) : rows[n].timestamp \in Int
  BY RowsTyped DEF IInv
<1>3. (\A n \in 1..Len(rows) : rows[n].timestamp < tsc) =>
        \A n \in 1..Len(rows) : rows[n].timestamp < tsc'
  BY <1>2 DEF IInv, Types
<1>4. rows = <<>> => \A n \in 1..Len(rows) : rows[n].timestamp < tsc'
  OBVIOUS
<1>5. Over'
  BY <1>3, <1>4 DEF IInv, Over
<1>6. QED
  BY <1>1, <1>5 DEF IInv

LEMMA CalibrationInv ==
  ASSUME IInv, Calibration
  PROVE  IInv'
<1>1. /\ UNCHANGED <<rows, stamps, tsc>>
      /\ pc \in Calibrating /\ pc' \in Calibrating \union {"iteration", "given_up"}
  BY DEF Calibration, CalibrationRequest, SetFreq, waitCurFreq, BenchTarget, BenchStart
<1>2. Stamped'
  BY <1>1 DEF Stamped
<1>3. QED
  BY <1>1, <1>2, RowsStay DEF IInv, Types

(* The row of an iteration that was kept starts after all rows before it;  *)
(* the one of a rejected iteration repeats the stamp before it.            *)
LEMMA NextRow ==
  ASSUME IInv, pc = "check_start", NEW valid \in BOOLEAN,
         rows' = Append(rows, Row(stamps.end, valid, rows))
  PROVE  /\ rows' \in Seq(RowType)
         /\ RowsInOrder'
         /\ \A n \in 1..Len(rows') : rows'[n].timestamp < tsc
<1> DEFINE row == Row(stamps.end, valid, rows)
           len == Len(rows)
<1>1. /\ stamps.start \in Nat /\ stamps.late \in Nat /\ stamps.end \in Nat
      /\ stamps.start < stamps.late /\ stamps.late < stamps.end
      /\ stamps.end < tsc /\ tsc \in Nat
      /\ \A n \in 1..len : rows[n].timestamp < stamps.start
      /\ rows \in Seq(RowType) /\ len \in Nat
      /\ \A n \in 1..len : rows[n].timestamp \in Int
  <2>1. \A n \in 1..len : rows[n].timestamp \in Int
    BY RowsTyped DEF IInv
  <2>2. rows \in Seq(RowType) /\ len \in Nat
    BY DEF IInv, Types
  <2>3. \A n \in 1..len : rows[n].timestamp < stamps.start
    BY DEF IInv, Over
  <2>4. QED
    BY <2>1, <2>2, <2>3 DEF IInv, Types, Stamped
<1>2. rows = <<>> <=> len = 0
  <2>1. rows # <<>> => len \in Nat \ {0}
    BY <1>1, NonEmpty
  <2>2. rows = <<>> => len = 0
    OBVIOUS
  <2>3. QED
    BY <2>1, <2>2
<1>3. /\ row \in RowType
      /\ row.timestamp < tsc
      /\ \A n \in 1..len : rows[n].timestamp <= row.timestamp
      /\ \/ row.measurement = 0 /\ row.late = 0
         \/ /\ 0 < row.late /\ row.late < row.measurement
            /\ len > 0 => rows[len].timestamp + row.measurement < row.timestamp
  <2>1. CASE valid
    <3>1. row = [measurement |-> stamps.end - stamps.start,
                 late |-> stamps.end - stamps.late, timestamp |-> stamps.end]
      BY <2>1 DEF Row
    <3>2. /\ row \in RowType
          /\ row.timestamp = stamps.end
          /\ row.measurement = stamps.end - stamps.start
          /\ row.late = stamps.end - stamps.late
      BY <1>1, <3>1 DEF RowType
    <3>3. len > 0 => len \in 1..len
      BY <1>1
    <3> HIDE DEF row, len
    <3>4. \A n \in 1..len : rows[n].timestamp <= row.timestamp
      BY <1>1, <3>2
    <3>5. len > 0 => rows[len].timestamp + row.measurement < row.timestamp
      BY <1>1, <3>2, <3>3
    <3>6. row.timestamp < tsc /\ 0 < row.late /\ row.late < row.measurement
      BY <1>1, <3>2
    <3>7. QED
      BY <3>2, <3>4, <3>5, <3>6
  <2>2. CASE ~valid /\ rows = <<>>
    <3>1. row = [measurement |-> 0, late |-> 0, timestamp |-> stamps.end]
      BY <2>2 DEF Row
    <3>2. QED
      BY <1>1, <1>2, <2>2, <3>1 DEF RowType
  <2>3. CASE ~valid /\ rows # <<>>
    <3>1. row = [measurement |-> 0, late |-> 0, timestamp |-> rows[len].timestamp]
      BY <2>3 DEF Row
    <3>2. len \in 1..len
      BY <1>1, <1>2, <2>3
    <3>3. \A n \in 1..len : rows[n].timestamp <= rows[len].timestamp
      BY <1>1, <3>2 DEF IInv, RowsInOrder
    <3>4. rows[len].timestamp \in Int /\ rows[len].timestamp < tsc
      <4> HIDE DEF len
      <4>1. QED
        BY <1>1, <3>2
    <3>5. /\ row \in RowType
          /\ row.timestamp = rows[len].timestamp
          /\ row.measurement = 0 /\ row.late = 0
      BY <3>1, <3>4 DEF RowType
    <3> HIDE DEF row, len
    <3>6. QED
      BY <3>3, <3>4, <3>5
  <2>4. QED
    BY <2>1, <2>2, <2>3
<1>4. /\ rows' \in Seq(RowType) /\ Len(rows') = len + 1
      /\ \A n \in 1..len : rows'[n] = rows[n]
      /\ rows'[len + 1] = row
  <2> HIDE DEF row
  <2>1. rows' = Append(rows, row)
    BY DEF row
  <2>2. QED
    BY <1>1, <1>3, <2>1
<1>5. \A n \in 1..len + 1 : n \in 1..len \/ n = len + 1
  BY <1>1
<1>6. \A n \in 1..Len(rows') : rows'[n].timestamp < tsc
  <2> HIDE DEF row
  <2>1. QED
    BY <1>1, <1>3, <1>4, <1>5
<1>7. RowsInOrder'
  <2> HIDE DEF row
  <2>1. \A m, n \in 1..len + 1 : m <= n => rows'[m].timestamp <= rows'[n].timestamp
    <3> SUFFICES ASSUME NEW m \in 1..len + 1, NEW n \in 1..len + 1, m <= n
                 PROVE  rows'[m].timestamp <= rows'[n].timestamp
      OBVIOUS
    <3>1. CASE n \in 1..len
      <4>1. m \in 1..len
        BY <1>1, <3>1
      <4>2. rows[m].timestamp <= rows[n].timestamp
        BY <3>1, <4>1 DEF IInv, RowsInOrder
      <4>3. QED
        BY <1>4, <3>1, <4>1, <4>2
    <3>2. CASE n = len + 1 /\ m \in 1..len
      BY <1>3, <1>4, <3>2
    <3>3. CASE n = len + 1 /\ m = len + 1
      BY <1>3, <1>4, <3>3 DEF RowType
    <3>4. QED
      BY <1>5, <1>1, <3>1, <3>2, <3>3
  <2>2. \A n \in 1..len + 1 :
          \/ rows'[n].measurement = 0 /\ rows'[n].late = 0
          \/ /\ 0 < rows'[n].late /\ rows'[n].late < rows'[n].measurement
             /\ n > 1 => rows'[n - 1].timestamp + rows'[n].measurement <
                           rows'[n].timestamp
    <3> SUFFICES ASSUME NEW n \in 1..len + 1
                 PROVE  \/ rows'[n].measurement = 0 /\ rows'[n].late = 0
                        \/ /\ 0 < rows'[n].late /\ rows'[n].late < rows'[n].measurement
                           /\ n > 1 => rows'[n - 1].timestamp + rows'[n].measurement <
                                         rows'[n].timestamp
      OBVIOUS
    <3>1. n > 1 => n - 1 \in 1..len
      BY <1>1
    <3>2. CASE n \in 1..len
      <4>1. \/ rows[n].measurement = 0 /\ rows[n].late = 0
            \/ /\ 0 < rows[n].late /\ rows[n].late < rows[n].measurement
               /\ n > 1 => rows[n - 1].timestamp + rows[n].measurement <
                             rows[n].timestamp
        BY <3>2 DEF IInv, RowsInOrder
      <4>2. rows'[n] = rows[n] /\ (n > 1 => rows'[n - 1] = rows[n - 1])
        BY <1>4, <3>1, <3>2
      <4>3. QED
        BY <4>1, <4>2
    <3>3. CASE n = len + 1
      <4>1. n - 1 = len
        BY <1>1, <3>3
      <4>2. n > 1 => rows'[n - 1] = rows[len] /\ len > 0
        BY <1>1, <1>4, <3>1, <4>1
      <4>3. rows'[n] = row
        BY <1>4, <3>3
      <4>4. QED
        BY <1>3, <4>2, <4>3
    <3>4. QED
      BY <1>5, <3>2, <3>3
  <2>3. QED
    BY <1>4, <2>1, <2>2 DEF RowsInOrder
<1>8. QED
  BY <1>4, <1>6, <1>7

LEMMA IterationInv ==
  ASSUME IInv, Iteration
  PROVE  IInv'
<1>1. CASE StartStamp
  <2>1. Types' /\ RowsInOrder'
    BY <1>1 DEF StartStamp, NoStamps, IInv, Types, RowsInOrder
  <2>2. /\ stamps'.start = tsc /\ pc' = "request" /\ UNCHANGED <<rows, tsc>>
    BY <1>1 DEF StartStamp, NoStamps
  <2>3. Stamped' /\ Over'
    BY <1>1, <2>2 DEF StartStamp, IInv, Types, Stamped, Over
  <2>4. QED
    BY <2>1, <2>3 DEF IInv
<1>2. CASE Request
  <2>1. /\ UNCHANGED <<rows, stamps>> /\ tsc' = tsc + 1
        /\ pc = "request" /\ pc' = "late_stamp"
    BY <1>2 DEF Request, SetFreq
  <2>2. Stamped'
    BY <2>1 DEF IInv, Types, Stamped
  <2>3. QED
    BY <2>1, <2>2, RowsStay DEF IInv, Types
<1>3. CASE LateStamp
  <2>1. /\ stamps'.late = tsc /\ stamps'.start = stamps.start
        /\ stamps' \in [start : Nat, late : Nat, end : Nat]
        /\ UNCHANGED <<rows, tsc>> /\ pc = "late_stamp" /\ pc' = "detect"
    BY <1>3 DEF LateStamp, IInv, Types
  <2>2. Types' /\ RowsInOrder' /\ Over'
    BY <2>1 DEF IInv, Types, RowsInOrder, Over
  <2>3. Stamped'
    BY <2>1 DEF IInv, Types, Stamped
  <2>4. QED
    BY <2>2, <2>3 DEF IInv
<1>4. CASE Detect
  <2>1. /\ UNCHANGED <<rows, stamps>> /\ tsc' = tsc + 1
        /\ pc = "detect" /\ pc' \in {"detect", "end_stamp"}
    BY <1>4 DEF Detect
  <2>2. Stamped'
    BY <2>1 DEF IInv, Types, Stamped
  <2>3. QED
    BY <2>1, <2>2, RowsStay DEF IInv, Types
<1>5. CASE EndStamp
  <2>1. /\ stamps'.end = tsc /\ stamps'.start = stamps.start
        /\ stamps'.late = stamps.late
        /\ stamps' \in [start : Nat, late : Nat, end : Nat]
        /\ UNCHANGED <<rows, tsc>>
        /\ pc = "end_stamp" /\ pc' = "validate_target"
    BY <1>5 DEF EndStamp, IInv, Types
  <2>2. Types' /\ RowsInOrder' /\ Over'
    BY <2>1 DEF IInv, Types, RowsInOrder, Over
  <2>3. Stamped'
    BY <2>1 DEF IInv, Types, Stamped
  <2>4. QED
    BY <2>2, <2>3 DEF IInv
<1>6. CASE \/ Sample("validate_target", "check_target") \/ Return
           \/ Sample("validate_start", "check_start")
  <2>1. /\ UNCHANGED <<rows, stamps, tsc>>
        /\ \/ pc = "validate_target" /\ pc' \in {"validate_target", "check_target"}
           \/ pc \in Returning /\ pc' \in Returning
    BY <1>6 DEF Sample, Return
  <2>2. Stamped'
    BY <2>1 DEF IInv, Types, Stamped
  <2>3. QED
    BY <2>1, <2>2, RowsStay DEF IInv, Types
<1>7. CASE CheckTarget
  <2>1. /\ UNCHANGED <<rows, stamps>> /\ tsc' = tsc + 1
        /\ pc = "check_target" /\ pc' = "return"
    BY <1>7 DEF CheckTarget, SetFreq
  <2>2. Stamped'
    BY <2>1 DEF IInv, Types, Stamped
  <2>3. QED
    BY <2>1, <2>2, RowsStay DEF IInv, Types
<1>8. CASE CheckStart
  <2>1. PICK valid \in BOOLEAN : rows' = Append(rows, Row(stamps.end, valid, rows))
    BY <1>8 DEF CheckStart, Accepted
  <2>2. pc = "check_start" /\ pc' = "iteration" /\ UNCHANGED <<stamps, tsc>>
    BY <1>8 DEF CheckStart
  <2>3. /\ rows' \in Seq(RowType) /\ RowsInOrder'
        /\ \A n \in 1..Len(rows') : rows'[n].timestamp < tsc
    BY <2>1, <2>2, NextRow
  <2>4. Types' /\ Stamped' /\ Over'
    BY <2>2, <2>3 DEF IInv, Types, Stamped, Over
  <2>5. QED
    BY <2>3, <2>4 DEF IInv
<1>9. QED
  BY <1>1, <1>2, <1>3, <1>4, <1>5, <1>6, <1>7, <1>8 DEF Iteration

LEMMA OtherInv ==
  ASSUME IInv, Report \/ Switch \/ UNCHANGED vars
  PROVE  IInv'
<1>1. UNCHANGED <<rows, stamps, tsc>> /\ (pc' = pc \/ pc' = "reported")
  BY DEF Report, Switch, vars
<1>2. Stamped'
  BY <1>1 DEF IInv, Stamped
<1>3. QED
  BY <1>1, <1>2, RowsStay DEF IInv, Types

(* Whatever the loop times, the frequencies and the calibration are, the   *)
(* rows follow each other in time, and the unsigned differences of their   *)
(* stamps cannot wrap (main.c:238-240, 290-295 and 315).                   *)
THEOREM RowsAreOrdered == Spec => []RowsInOrder
<1>1. IInv /\ [Next]_vars => IInv'
  BY CalibrationInv, IterationInv, OtherInv DEF Next, runTest
<1>2. IInv => RowsInOrder
  BY DEF IInv
<1>3. QED
  BY InitInv, <1>1, <1>2, PTL DEF Spec

-----------------------------------------------------------------------------

(* Where runTest() is tells which frequency was requested last, ...        *)
Requests ==
  /\ actual \in Freqs /\ requested \in Freqs
  /\ pc \in {"wait_target", "bench_target", "set_start"} => requested = TargetFreq
  /\ pc \in {"wait_start", "bench_start", "iteration", "request"} \union Returning =>
       requested = StartFreq
  /\ pc \in {"late_stamp", "detect", "end_stamp", "validate_target", "check_target"} =>
       requested = TargetFreq

(* ... where that frequency was waited for, that the core runs at it, ...  *)
Reached ==
  /\ pc = "bench_target" => actual = TargetFreq
  /\ pc \in {"bench_start", "iteration", "request", "validate_start", "check_start"} =>
       actual = StartFreq
  /\ pc = "end_stamp" /\ niters < TryRepetLoop => actual = TargetFreq

(* ... and the calibrations are those of their frequencies.                *)
Calibrated ==
  /\ pc \in {"set_start", "wait_start", "bench_start", "iteration"} \union InIteration =>
       /\ bench \in Benchmarks[TargetFreq]
       /\ \E ys \in Sorted(bench) : quartiles = interQuartileRange(ys)
  /\ pc \in {"iteration"} \union InIteration =>
       \E xs \in Benchmarks[StartFreq] :
         bounds[StartFreq] = confidenceInterval(xs) /\ ~Equal(xs, bench)

SwitchInv == niters \in Nat /\ Requests /\ Reached /\ Calibrated

(* A core that does not change during a loop takes the time of its         *)
(* frequency.                                                              *)
LEMMA LoopTime ==
  ASSUME actual \in Freqs, requested \in Freqs, NEW time, Loop(time)
  PROVE  /\ actual' \in Freqs /\ actual' \in {actual, requested}
         /\ actual' = actual => time \in LoopTimes[actual]
BY DEF Loop

(* The pauses before the calibrations end at the frequency requested.      *)
LEMMA Waited ==
  ASSUME FrequenciesApart, NEW f \in Freqs, NEW from, NEW to,
         actual \in Freqs, waitCurFreq(f, from, to)
  PROVE  actual = f
BY FreqAssumption DEF FrequenciesApart, waitCurFreq, Freqs

LEMMA InitSwitch == Init => SwitchInv
BY DEF Init, SwitchInv, Requests, Reached, Calibrated, Freqs

LEMMA SwitchInvCalibration ==
  ASSUME FrequenciesApart, SwitchInv, Calibration
  PROVE  SwitchInv'
<1>f. StartFreq \in Freqs /\ TargetFreq \in Freqs /\ StartFreq # TargetFreq
  BY FreqAssumption DEF Freqs, FrequenciesApart
<1> USE DEF SwitchInv, Requests, Reached, Calibrated
<1>1. CASE \/ CalibrationRequest(TargetFreq, "set_target", "wait_target")
           \/ CalibrationRequest(StartFreq, "set_start", "wait_start")
  BY <1>f, <1>1 DEF CalibrationRequest, SetFreq, calibration
<1>2. CASE waitCurFreq(TargetFreq, "wait_target", "bench_target")
  <2>1. actual = TargetFreq
    BY <1>f, <1>2, Waited
  <2>2. QED
    BY <1>2, <2>1 DEF waitCurFreq, hardware, calibration
<1>3. CASE waitCurFreq(StartFreq, "wait_start", "bench_start")
  <2>1. actual = StartFreq
    BY <1>f, <1>3, Waited
  <2>2. QED
    BY <1>3, <2>1 DEF waitCurFreq, hardware, calibration
<1>4. CASE BenchTarget
  <2>1. pc = "bench_target" /\ pc' = "set_start" /\ UNCHANGED <<hardware, niters>>
    BY <1>4 DEF BenchTarget
  <2>2. /\ bench' \in Benchmarks[TargetFreq]
        /\ \E ys \in Sorted(bench') : quartiles' = interQuartileRange(ys)
    BY <1>4, <2>1 DEF BenchTarget
  <2>3. QED
    BY <2>1, <2>2 DEF hardware
<1>5. CASE BenchStart
  <2>1. /\ pc = "bench_start" /\ pc' \in {"given_up", "iteration"}
        /\ UNCHANGED <<hardware, quartiles, niters>>
    BY <1>5 DEF BenchStart
  <2>2. PICK xs \in Benchmarks[StartFreq] :
          /\ bounds' = [f \in Freqs |->
               confidenceInterval(IF f = TargetFreq THEN bench ELSE xs)]
          /\ pc' = IF Equal(xs, bench) THEN "given_up" ELSE "iteration"
    BY <1>5, <2>1 DEF BenchStart
  <2>3. bounds'[StartFreq] = confidenceInterval(xs)
    BY <1>f, <2>2
  <2>4. pc' = "iteration" => ~Equal(xs, bench)
    BY <2>2
  <2>5. bench' = bench
    BY <1>5 DEF BenchStart
  <2>6. QED
    BY <2>1, <2>3, <2>4, <2>5 DEF hardware
<1>6. QED
  BY <1>1, <1>2, <1>3, <1>4, <1>5 DEF Calibration

(* The detection ends between the quartiles only with the core at the      *)
(* target frequency, ...                                                   *)
LEMMA Detected ==
  ASSUME FrequenciesApart, TimesApart, SwitchInv, Detect
  PROVE  SwitchInv'
<1>f. StartFreq \in Freqs /\ TargetFreq \in Freqs /\ StartFreq # TargetFreq
  BY FreqAssumption DEF Freqs, FrequenciesApart
<1>1. /\ pc = "detect" /\ pc' \in {"detect", "end_stamp"}
      /\ UNCHANGED <<requested, calibration>>
      /\ requested = TargetFreq /\ niters \in Nat /\ actual \in Freqs
  BY DEF Detect, SwitchInv, Requests
<1>2. PICK time \in Times :
        /\ Loop(time)
        /\ niters' = IF InRange(time) THEN niters ELSE niters + 1
        /\ pc' = "end_stamp" => InRange(time) \/ niters + 1 >= TryRepetLoop
  BY <1>1 DEF Detect
<1>3. /\ actual' \in Freqs /\ actual' \in {actual, requested}
      /\ actual' = actual => time \in LoopTimes[actual]
  BY <1>f, <1>1, <1>2, LoopTime
<1>4. niters' \in Nat
  BY <1>1, <1>2
<1>5. pc' = "end_stamp" /\ niters' < TryRepetLoop => actual' = TargetFreq
  <2> SUFFICES ASSUME pc' = "end_stamp", niters' < TryRepetLoop, actual' # TargetFreq
               PROVE  FALSE
    OBVIOUS
  <2>1. InRange(time)
    BY <1>1, <1>2, BoundsAssumption
  <2>2. time \in LoopTimes[StartFreq]
    BY <1>1, <1>3 DEF Freqs
  <2>3. PICK ys \in Sorted(bench) : quartiles = interQuartileRange(ys)
    BY <1>1 DEF SwitchInv, Calibrated
  <2>4. ~(quartiles[1] <= time /\ time <= quartiles[2])
    BY <1>1, <2>2, <2>3 DEF TimesApart, SwitchInv, Calibrated
  <2>5. QED
    BY <2>1, <2>4 DEF InRange
<1>6. QED
  BY <1>1, <1>3, <1>4, <1>5 DEF SwitchInv, Requests, Reached, Calibrated, calibration

(* ... and the way back only with the core at the start frequency.         *)
LEMMA Returned ==
  ASSUME FrequenciesApart, TimesApart, SwitchInv, Return
  PROVE  SwitchInv'
<1>f. StartFreq \in Freqs /\ TargetFreq \in Freqs /\ StartFreq # TargetFreq
  BY FreqAssumption DEF Freqs, FrequenciesApart
<1>1. /\ pc = "return" /\ pc' \in {"return", "validate_start"}
      /\ UNCHANGED <<requested, calibration, niters>>
      /\ requested = StartFreq /\ niters \in Nat /\ actual \in Freqs
  BY DEF Return, SwitchInv, Requests
<1>2. PICK time \in Times : Loop(time) /\ (pc' = "validate_start" => NearStart(time))
  BY <1>1 DEF Return
<1>3. /\ actual' \in Freqs /\ actual' \in {actual, requested}
      /\ actual' = actual => time \in LoopTimes[actual]
  BY <1>f, <1>1, <1>2, LoopTime
<1>4. pc' = "validate_start" => actual' = StartFreq
  <2> SUFFICES ASSUME NearStart(time), actual' # StartFreq PROVE FALSE
    BY <1>2
  <2>1. time \in LoopTimes[TargetFreq]
    BY <1>1, <1>3 DEF Freqs
  <2>2. PICK xs \in Benchmarks[StartFreq] :
          bounds[StartFreq] = confidenceInterval(xs) /\ ~Equal(xs, bench)
    BY <1>1 DEF SwitchInv, Calibrated
  <2>3. ~(/\ 100 * time >= 95 * bounds[StartFreq][1]
          /\ 100 * time <= 105 * bounds[StartFreq][2])
    BY <1>1, <2>1, <2>2 DEF TimesApart, SwitchInv, Calibrated
  <2>4. QED
    BY <2>3 DEF NearStart
<1>5. QED
  BY <1>1, <1>3, <1>4 DEF SwitchInv, Requests, Reached, Calibrated, calibration

LEMMA SwitchInvIteration ==
  ASSUME FrequenciesApart, TimesApart, SwitchInv, Iteration
  PROVE  SwitchInv'
<1> USE DEF SwitchInv, Requests, Reached, Calibrated, hardware, calibration
<1>f. StartFreq \in Freqs /\ TargetFreq \in Freqs
  BY DEF Freqs
<1>1. CASE StartStamp \/ LateStamp \/ EndStamp \/ CheckStart
  BY <1>1 DEF StartStamp, LateStamp, EndStamp, CheckStart
<1>2. CASE Request \/ CheckTarget
  BY <1>f, <1>2 DEF Request, CheckTarget, SetFreq
<1>3. CASE Sample("validate_target", "check_target") \/ Sample("validate_start", "check_start")
  <2>1. /\ \/ pc = "validate_target" /\ pc' \in {"validate_target", "check_target"}
           \/ pc = "validate_start" /\ pc' \in {"validate_start", "check_start"}
        /\ UNCHANGED <<requested, calibration, niters>>
        /\ \E time \in Times : Loop(time)
    BY <1>3 DEF Sample
  <2>2. actual \in Freqs /\ requested \in Freqs
    BY <1>f, <2>1
  <2>3. actual' \in Freqs /\ actual' \in {actual, requested}
    BY <2>1, <2>2, LoopTime
  <2>4. QED
    BY <2>1, <2>2, <2>3
<1>4. QED
  BY <1>1, <1>2, <1>3, Detected, Returned DEF Iteration

LEMMA SwitchInvOther ==
  ASSUME SwitchInv, Report \/ Switch \/ UNCHANGED vars
  PROVE  SwitchInv'
<1> USE DEF SwitchInv, Requests, Reached, Calibrated, hardware, calibration
<1>1. CASE Report \/ UNCHANGED vars
  BY <1>1 DEF Report, vars
<1>2. CASE Switch
  BY <1>2 DEF Switch, Freqs
<1>3. QED
  BY <1>1, <1>2

(* However late the core switches, and in the middle of which loop: while  *)
(* the two frequencies and their loop times are further apart than the     *)
(* tolerances of the code, every interval that is measured begins at the   *)
(* start frequency and, unless the detection runs out of loops, ends at the*)
(* target frequency (main.c:222-231 and 260-263).                          *)
THEOREM StampsEnclose ==
  ASSUME FrequenciesApart, TimesApart
  PROVE  Spec => []StampsEncloseSwitch
<1>1. SwitchInv /\ [Next]_vars => SwitchInv'
  BY SwitchInvCalibration, SwitchInvIteration, SwitchInvOther DEF Next, runTest
<1>2. SwitchInv => StampsEncloseSwitch
  BY DEF SwitchInv, Reached, StampsEncloseSwitch
<1>3. QED
  BY InitSwitch, <1>1, <1>2, PTL DEF Spec

-----------------------------------------------------------------------------

(* Where runTest() is limits its counters.                                 *)
Limits ==
  /\ pc \in Calibrating \union {"given_up"} => it = 0
  /\ pc \in InIteration => it < ReportTimes
  /\ pc = "reported" => it = ReportTimes
  /\ pc \in {"request", "late_stamp"} => niters = 0
  /\ pc = "detect" => niters < TryRepetLoop
  /\ pc \in {"validate_target", "validate_start"} => k \in 1..ValidationRepet - 1

TypeInv == IInv /\ TypeOK /\ Limits

(* A sorted sample has as many values as the sample, all of them in it.    *)
LEMMA SortedType ==
  ASSUME NEW S, NEW xs \in Seq(S), NEW ys \in Sorted(xs)
  PROVE  ys \in Seq(S) /\ Len(ys) = Len(xs)
<1>1. PICK p \in Bijection(DOMAIN xs, DOMAIN xs) :
        ys = [n \in DOMAIN xs |-> xs[p[n]]]
  BY DEF Sorted
<1>2. p \in [1..Len(xs) -> 1..Len(xs)]
  <2>1. p \in [DOMAIN xs -> DOMAIN xs]
    BY <1>1 DEF Bijection, Injection
  <2>2. DOMAIN xs = 1..Len(xs)
    OBVIOUS
  <2>3. QED
    BY <2>1, <2>2
<1>3. \A n \in 1..Len(xs) : xs[p[n]] \in S
  BY <1>2, ElementOfSeq
<1>4. ys \in [1..Len(xs) -> S] /\ Len(xs) \in Nat
  BY <1>1, <1>3
<1>5. QED
  BY <1>4

LEMMA FilledType ==
  ASSUME times \in [0 .. ValidationRepet - 1 -> Nat],
         NEW xs \in Seq(Nat), Len(xs) >= ValidationRepet
  PROVE  Filled(xs) \in [0 .. ValidationRepet - 1 -> Nat]
<1>1. \A n \in 0 .. ValidationRepet - 1 : n + 1 \in 1..Len(xs)
  BY BoundsAssumption
<1>2. \A n \in 0 .. ValidationRepet - 1 : xs[n + 1] \in Nat
  BY <1>1, ElementOfSeq
<1>3. QED
  BY <1>2 DEF Filled

LEMMA RowIsTyped ==
  ASSUME NEW a \in Nat, NEW b \in Nat, NEW S, NEW c \in S
  PROVE  [measurement |-> a, late |-> b, timestamp |-> c] \in
           [measurement : Nat, late : Nat, timestamp : S]
OBVIOUS

LEMMA TimesAreNat == Times \subseteq Nat
BY LoopTimesAssumption DEF Times, Freqs

LEMMA InitTypes == Init => TypeOK /\ Limits
<1>1. Init => /\ times \in [0 .. ValidationRepet - 1 -> Nat] /\ rows = <<>>
              /\ stamps \in [start : 0..tsc, late : 0..tsc, end : 0..tsc]
  BY DEF Init, NoStamps
<1>2. QED
  BY <1>1, BoundsAssumption DEF Init, TypeOK, Limits, Locations, Freqs

LEMMA TypesCalibration ==
  ASSUME TypeInv, Calibration
  PROVE  TypeOK' /\ Limits'
<1>f. StartFreq \in Freqs /\ TargetFreq \in Freqs
  BY DEF Freqs
<1>1. /\ pc \in Calibrating
      /\ pc' \in Calibrating \union {"iteration", "given_up"}
      /\ UNCHANGED <<actual, tsc, it, stamps, niters, validated, k, rows>>
  BY DEF Calibration, CalibrationRequest, SetFreq, waitCurFreq, BenchTarget,
         BenchStart, hardware
<1>2. requested' \in Freqs
  BY <1>f DEF Calibration, CalibrationRequest, SetFreq, waitCurFreq, BenchTarget,
         BenchStart, hardware, TypeInv, TypeOK
<1>3. times' \in [0 .. ValidationRepet - 1 -> Nat] /\ fresh' \subseteq DOMAIN times
  <2>1. CASE BenchTarget
    <3>1. PICK xs \in Benchmarks[actual] : \E ys \in Sorted(xs) : times' = Filled(ys)
      BY <2>1 DEF BenchTarget
    <3>2. PICK ys \in Sorted(xs) : times' = Filled(ys)
      BY <3>1
    <3>3. xs \in Seq(Nat) /\ Len(xs) >= ValidationRepet
      BY <3>1, BenchmarksAssumption DEF TypeInv, TypeOK
    <3>4. ys \in Seq(Nat) /\ Len(ys) >= ValidationRepet
      BY <3>2, <3>3, SortedType
    <3>5. fresh' = DOMAIN times
      BY <2>1 DEF BenchTarget
    <3>6. QED
      BY <3>2, <3>4, <3>5, FilledType DEF TypeInv, TypeOK
  <2>2. CASE BenchStart
    <3>1. PICK xs \in Benchmarks[actual] : times' = Filled(xs)
      BY <2>2 DEF BenchStart
    <3>2. xs \in Seq(Nat) /\ Len(xs) >= ValidationRepet
      BY <3>1, BenchmarksAssumption DEF TypeInv, TypeOK
    <3>3. fresh' = DOMAIN times
      BY <2>2 DEF BenchStart
    <3>4. QED
      BY <3>1, <3>2, <3>3, FilledType DEF TypeInv, TypeOK
  <2>3. CASE ~BenchTarget /\ ~BenchStart
    <3>1. UNCHANGED times /\ fresh' \in {fresh, {}}
      BY <2>3 DEF Calibration, CalibrationRequest, SetFreq, waitCurFreq
    <3>2. QED
      BY <3>1 DEF TypeInv, TypeOK
  <2>4. QED
    BY <2>1, <2>2, <2>3
<1>4. DOMAIN times' = DOMAIN times
  BY <1>3 DEF TypeInv, TypeOK
<1>5. TypeOK'
  BY <1>1, <1>2, <1>3, <1>4 DEF TypeInv, TypeOK, Locations
<1>6. Limits'
  BY <1>1 DEF TypeInv, Limits
<1>7. QED
  BY <1>5, <1>6

(* A loop leaves the core at one of the two frequencies.                   *)
LEMMA LoopType ==
  ASSUME TypeOK, NEW time, Loop(time)
  PROVE  actual' \in Freqs
BY DEF TypeOK, Loop

(* What is stored is a time of the sample.                                 *)
LEMMA StoreType ==
  ASSUME TypeOK, NEW n \in 0 .. ValidationRepet - 1, NEW time \in Times, Store(n, time)
  PROVE  times' \in [0 .. ValidationRepet - 1 -> Nat] /\ fresh' \subseteq DOMAIN times'
BY TimesAreNat DEF TypeOK, Store

(* Rows and stamps stay in the past while time passes.                     *)
LEMMA PastStays ==
  ASSUME TypeOK, tsc' \in Nat, tsc' >= tsc, UNCHANGED <<rows, stamps>>
  PROVE  /\ stamps' \in [start : 0..tsc', late : 0..tsc', end : 0..tsc']
         /\ rows' \in Seq([measurement : Nat, late : Nat, timestamp : 0..tsc'])
<1>1. tsc \in Nat /\ 0..tsc \subseteq 0..tsc'
  BY DEF TypeOK
<1>2. stamps' \in [start : 0..tsc', late : 0..tsc', end : 0..tsc']
  BY <1>1 DEF TypeOK
<1>3. [measurement : Nat, late : Nat, timestamp : 0..tsc] \subseteq
        [measurement : Nat, late : Nat, timestamp : 0..tsc']
  BY <1>1
<1>4. QED
  BY <1>2, <1>3, SeqMonotonic DEF TypeOK

LEMMA TypesIteration ==
  ASSUME TypeInv, Iteration
  PROVE  TypeOK' /\ Limits'
<1>f. StartFreq \in Freqs /\ TargetFreq \in Freqs
  BY DEF Freqs
<1>b. /\ ValidationRepet \in Nat /\ ValidationRepet >= 2
      /\ TryRepetLoop \in Nat /\ TryRepetLoop >= 1
      /\ ReportTimes \in Nat
  BY BoundsAssumption
<1>t. TypeOK /\ Limits /\ IInv
  BY DEF TypeInv
<1>1. CASE StartStamp
  <2>1. stamps' = [start |-> tsc, late |-> 0, end |-> 0]
    BY <1>1 DEF StartStamp, NoStamps
  <2>2. stamps' \in [start : 0..tsc', late : 0..tsc', end : 0..tsc']
    <3>1. tsc \in 0..tsc /\ 0 \in 0..tsc /\ tsc' = tsc
      BY <1>1, <1>t DEF StartStamp, TypeOK
    <3>2. QED
      BY <2>1, <3>1
  <2>3. QED
    BY SMTT(20), <1>1, <1>b, <1>t, <2>2
       DEF StartStamp, TypeOK, Limits, Locations, hardware
<1>2. CASE Request \/ CheckTarget
  <2>1. /\ tsc' = tsc + 1 /\ tsc' \in Nat /\ tsc' >= tsc
        /\ UNCHANGED <<rows, stamps, actual, times, it, niters, k>>
        /\ requested' \in Freqs /\ fresh' = {}
    BY <1>2, <1>f, <1>t DEF Request, CheckTarget, SetFreq, TypeOK
  <2>2. /\ stamps' \in [start : 0..tsc', late : 0..tsc', end : 0..tsc']
        /\ rows' \in Seq([measurement : Nat, late : Nat, timestamp : 0..tsc'])
    BY <1>t, <2>1, PastStays
  <2>3. validated' \in BOOLEAN /\ pc' \in Locations
    BY <1>2, <1>t DEF Request, CheckTarget, SetFreq, TypeOK, Accepted, Locations
  <2>4. TypeOK'
    BY <1>t, <2>1, <2>2, <2>3 DEF TypeOK
  <2>5. Limits'
    BY <1>2, <1>t, <2>1 DEF Limits, Request, CheckTarget, SetFreq
  <2>6. QED
    BY <2>4, <2>5
<1>3. CASE LateStamp
  <2>1. stamps' = [stamps EXCEPT !.late = tsc] /\ UNCHANGED tsc
    BY <1>3 DEF LateStamp
  <2>2. stamps' \in [start : 0..tsc', late : 0..tsc', end : 0..tsc']
    <3>1. tsc \in 0..tsc /\ stamps \in [start : 0..tsc, late : 0..tsc, end : 0..tsc]
      BY <1>t DEF TypeOK
    <3>2. \A S : \A r \in [start : S, late : S, end : S] : \A x \in S :
            [r EXCEPT !.late = x] \in [start : S, late : S, end : S]
      OBVIOUS
    <3>3. QED
      BY <2>1, <3>1, <3>2, Zenon
  <2>3. QED
    BY SMTT(20), <1>3, <1>b, <1>t, <2>2 DEF LateStamp, TypeOK, Limits, Locations, hardware
<1>4. CASE Detect
  <2>1. /\ tsc' = tsc + 1 /\ tsc' \in Nat /\ tsc' >= tsc
        /\ pc = "detect" /\ niters \in Nat /\ niters < TryRepetLoop
        /\ UNCHANGED <<requested, it, stamps, validated, k, rows>>
    BY <1>4, <1>b, <1>t DEF Detect, TypeOK, Limits
  <2>2. PICK time \in Times :
          /\ Loop(time)
          /\ niters' = IF InRange(time) THEN niters ELSE niters + 1
          /\ IF InRange(time) \/ niters + 1 >= TryRepetLoop
             THEN Store(0, time) /\ pc' = "end_stamp"
             ELSE UNCHANGED <<pc, times, fresh>>
    BY <1>4 DEF Detect
  <2>3. actual' \in Freqs
    BY <1>t, <2>2, LoopType
  <2>4. niters' \in 0..TryRepetLoop /\ (pc' = "detect" => niters' < TryRepetLoop)
    BY <1>b, <2>1, <2>2
  <2>5. times' \in [0 .. ValidationRepet - 1 -> Nat] /\ fresh' \subseteq DOMAIN times'
    <3>1. 0 \in 0 .. ValidationRepet - 1
      BY <1>b
    <3>2. CASE Store(0, time)
      BY <1>t, <3>1, <3>2, StoreType
    <3>3. CASE UNCHANGED <<times, fresh>>
      BY <1>t, <3>3 DEF TypeOK
    <3>4. QED
      BY <2>2, <3>2, <3>3
  <2>6. /\ stamps' \in [start : 0..tsc', late : 0..tsc', end : 0..tsc']
        /\ rows' \in Seq([measurement : Nat, late : Nat, timestamp : 0..tsc'])
    BY <1>t, <2>1, PastStays
  <2>7. pc' \in {"detect", "end_stamp"}
    BY <2>1, <2>2
  <2>8. TypeOK'
    BY <1>t, <2>1, <2>3, <2>4, <2>5, <2>6, <2>7 DEF TypeOK, Locations
  <2>9. Limits'
    BY <1>t, <2>1, <2>4, <2>7 DEF Limits
  <2>10. QED
    BY <2>8, <2>9
<1>5. CASE EndStamp
  <2>1. stamps' = [stamps EXCEPT !.end = tsc] /\ UNCHANGED tsc
    BY <1>5 DEF EndStamp
  <2>2. stamps' \in [start : 0..tsc', late : 0..tsc', end : 0..tsc']
    BY <1>t, <2>1 DEF TypeOK
  <2>3. QED
    BY SMTT(20), <1>5, <1>b, <1>t, <2>2 DEF EndStamp, TypeOK, Limits, Locations, hardware
<1>6. CASE Sample("validate_target", "check_target") \/ Sample("validate_start", "check_start")
  <2>1. /\ pc \in {"validate_target", "validate_start"}
        /\ k' = k + 1 /\ k \in 1 .. ValidationRepet - 1
        /\ pc' \in {pc, "check_target", "check_start"}
        /\ (pc' = pc => k + 1 # ValidationRepet)
        /\ UNCHANGED <<requested, tsc, it, stamps, niters, validated, rows>>
    BY <1>6, <1>t DEF Sample, Limits
  <2>2. PICK time \in Times : Loop(time) /\ Store(k, time)
    BY <1>6 DEF Sample
  <2>3. k \in 0 .. ValidationRepet - 1
    BY <1>b, <2>1
  <2>4. actual' \in Freqs
    BY <1>t, <2>2, LoopType
  <2>5. times' \in [0 .. ValidationRepet - 1 -> Nat] /\ fresh' \subseteq DOMAIN times'
    BY <1>t, <2>2, <2>3, StoreType
  <2>6. k' \in 0..ValidationRepet /\ (pc' = pc => k' \in 1..ValidationRepet - 1)
    BY <1>b, <2>1
  <2>7. TypeOK'
    BY <1>t, <2>1, <2>4, <2>5, <2>6 DEF TypeOK, Locations
  <2>8. Limits'
    BY <1>t, <2>1, <2>6 DEF Limits
  <2>9. QED
    BY <2>7, <2>8
<1>7. CASE Return
  <2>1. /\ pc = "return" /\ pc' \in {"return", "validate_start"} /\ k' = 1
        /\ UNCHANGED <<requested, tsc, times, fresh, it, stamps, niters, validated, rows>>
        /\ \E time \in Times : Loop(time)
    BY <1>7 DEF Return
  <2>2. actual' \in Freqs
    BY <1>t, <2>1, LoopType
  <2>3. k' \in 1..ValidationRepet - 1 /\ k' \in 0..ValidationRepet
    BY <1>b, <2>1
  <2>4. QED
    BY <1>t, <2>1, <2>2, <2>3 DEF TypeOK, Limits, Locations
<1>8. CASE CheckStart
  <2>1. PICK valid \in BOOLEAN :
          validated' = valid /\ rows' = Append(rows, Row(stamps.end, valid, rows))
    BY <1>8 DEF CheckStart, Accepted
  <2>2. /\ pc = "check_start" /\ pc' = "iteration" /\ it' = it + 1
        /\ UNCHANGED <<hardware, tsc, times, fresh, stamps, niters, k>>
    BY <1>8 DEF CheckStart
  <2>3. /\ rows' \in Seq(RowType) /\ RowsInOrder'
        /\ \A n \in 1..Len(rows') : rows'[n].timestamp < tsc
    BY <1>t, <2>1, <2>2, NextRow
  <2>4. Row(stamps.end, valid, rows) \in
          [measurement : Nat, late : Nat, timestamp : 0..tsc]
    <3>1. /\ stamps.start \in Nat /\ stamps.late \in Nat /\ stamps.end \in 0..tsc
          /\ stamps.start <= stamps.end /\ stamps.late <= stamps.end
      BY <1>t, <2>2 DEF TypeOK, IInv, Types, Stamped
    <3>2. rows # <<>> => rows[Len(rows)].timestamp \in 0..tsc
      <4>1. SUFFICES ASSUME rows # <<>> PROVE rows[Len(rows)].timestamp \in 0..tsc
        OBVIOUS
      <4>2. rows \in Seq([measurement : Nat, late : Nat, timestamp : 0..tsc])
        BY <1>t DEF TypeOK
      <4>3. Len(rows) \in Nat \ {0}
        BY <4>1, <4>2, NonEmpty
      <4>4. Len(rows) \in 1..Len(rows)
        BY <4>3
      <4>5. \A n \in 1..Len(rows) :
              rows[n] \in [measurement : Nat, late : Nat, timestamp : 0..tsc]
        BY <4>2, ElementOfSeq
      <4>6. rows[Len(rows)] \in [measurement : Nat, late : Nat, timestamp : 0..tsc]
        BY <4>4, <4>5
      <4>7. QED
        BY <4>6
    <3>3. valid => Row(stamps.end, valid, rows) =
            [measurement |-> stamps.end - stamps.start,
             late |-> stamps.end - stamps.late, timestamp |-> stamps.end]
      BY DEF Row
    <3>4. ~valid => \E stamp \in 0..tsc : Row(stamps.end, valid, rows) =
            [measurement |-> 0, late |-> 0, timestamp |-> stamp]
      BY <3>1, <3>2 DEF Row
    <3>5. CASE valid
      <4>1. stamps.end - stamps.start \in Nat /\ stamps.end - stamps.late \in Nat
        BY <3>1
      <4>2. stamps.end \in 0..tsc
        BY <3>1
      <4>3. [measurement |-> stamps.end - stamps.start,
             late |-> stamps.end - stamps.late, timestamp |-> stamps.end] \in
              [measurement : Nat, late : Nat, timestamp : 0..tsc]
        BY <4>1, <4>2
      <4>4. QED
        BY <3>3, <3>5, <4>3
    <3>6. CASE ~valid
      BY <3>4, <3>6, RowIsTyped, 0 \in Nat
    <3>7. QED
      BY <3>5, <3>6
  <2>5. /\ rows' \in Seq([measurement : Nat, late : Nat, timestamp : 0..tsc])
        /\ Len(rows') = Len(rows) + 1
    <3> HIDE DEF Row
    <3>1. rows \in Seq([measurement : Nat, late : Nat, timestamp : 0..tsc])
      BY <1>t DEF TypeOK
    <3>2. QED
      BY <2>1, <2>4, <3>1, AppendProperties
  <2>6. it \in 0..ReportTimes - 1 /\ it + 1 \in 0..ReportTimes /\ Len(rows) = it
    BY <1>b, <1>t, <2>2 DEF TypeOK, Limits
  <2>7. TypeOK'
    BY <1>t, <2>1, <2>2, <2>5, <2>6 DEF TypeOK, Locations, hardware
  <2>8. Limits'
    BY <1>t, <2>2 DEF Limits
  <2>9. QED
    BY <2>7, <2>8
<1>9. QED
  BY <1>1, <1>2, <1>3, <1>4, <1>5, <1>6, <1>7, <1>8 DEF Iteration

LEMMA TypesOther ==
  ASSUME TypeInv, Report \/ Switch \/ UNCHANGED vars
  PROVE  TypeOK' /\ Limits'
<1>1. UNCHANGED <<requested, tsc, times, fresh, it, stamps, niters, validated, k, rows>>
  BY DEF Report, Switch, vars, hardware
<1>2. /\ actual' \in Freqs
      /\ pc' = pc \/ (pc = "iteration" /\ pc' = "reported" /\ it = ReportTimes)
  BY DEF Report, Switch, vars, hardware, TypeInv, TypeOK
<1>3. QED
  BY <1>1, <1>2 DEF TypeInv, TypeOK, Limits, Locations

LEMMA TypeInvStep == TypeInv /\ [Next]_vars => TypeInv'
<1>1. IInv /\ [Next]_vars => IInv'
  BY CalibrationInv, IterationInv, OtherInv DEF Next, runTest
<1>2. TypeInv /\ [Next]_vars => TypeOK' /\ Limits'
  BY TypesCalibration, TypesIteration, TypesOther DEF Next, runTest
<1>3. QED
  BY <1>1, <1>2 DEF TypeInv

LEMMA TypeInvHolds == Spec => []TypeInv
<1>1. Init => TypeInv
  BY InitInv, InitTypes DEF TypeInv
<1>2. QED
  BY <1>1, TypeInvStep, PTL DEF Spec

(* The variables of runTest() have their types: every index into times is  *)
(* below NB_VALIDATION_REPET, no stamp and no row is of the future, and the*)
(* number of rows is that of the iterations done (main.c:115-318).         *)
THEOREM TypeCorrect == Spec => []TypeOK
<1>1. TypeInv => TypeOK
  BY DEF TypeInv
<1>2. QED
  BY <1>1, TypeInvHolds, PTL

-----------------------------------------------------------------------------

(* The interval that the first validation is compared with, of a calibration*)
(* that was told from the one at the start frequency.                      *)
ToldApart ==
  pc \in {"iteration"} \union InIteration =>
    /\ bounds[TargetFreq] = confidenceInterval(bench)
    /\ \E xs \in Benchmarks[StartFreq] : ~Equal(xs, bench)

StartTimes(S) == \A n \in S : times[n] \in LoopTimes[StartFreq]

(* A core that is at the start frequency after the validation loops has    *)
(* been there since the request: the last loop of the detection and all of *)
(* the validation have taken the times of that frequency.                  *)
NeverSwitched ==
  actual = StartFreq =>
    /\ pc = "end_stamp" => StartTimes({0})
    /\ pc = "validate_target" => StartTimes(0 .. k - 1)
    /\ pc = "check_target" => StartTimes(0 .. ValidationRepet - 1)

SampleInv == TypeInv /\ SwitchInv /\ ToldApart /\ NeverSwitched

LEMMA InitSample == Init => ToldApart /\ NeverSwitched
BY DEF Init, ToldApart, NeverSwitched

LEMMA ToldApartStep ==
  ASSUME SwitchInv, ToldApart, [Next]_vars
  PROVE  ToldApart'
<1>f. StartFreq \in Freqs /\ TargetFreq \in Freqs
  BY DEF Freqs
<1>1. CASE BenchStart
  <2>1. pc = "bench_start" /\ actual = StartFreq
    BY <1>1 DEF BenchStart, SwitchInv, Reached
  <2>2. PICK xs \in Benchmarks[StartFreq] :
          /\ bounds' = [f \in Freqs |->
               confidenceInterval(IF f = TargetFreq THEN bench ELSE xs)]
          /\ pc' = IF Equal(xs, bench) THEN "given_up" ELSE "iteration"
    BY <1>1, <2>1 DEF BenchStart
  <2>3. bounds'[TargetFreq] = confidenceInterval(bench)
    BY <1>f, <2>2
  <2>4. pc' = "iteration" => ~Equal(xs, bench)
    BY <2>2
  <2>5. bench' = bench /\ pc' \in {"given_up", "iteration"}
    BY <1>1, <2>2 DEF BenchStart
  <2>6. QED
    BY <2>3, <2>4, <2>5 DEF ToldApart
<1>2. CASE Calibration /\ ~BenchStart
  <2>1. pc' \in Calibrating
    BY <1>2 DEF Calibration, CalibrationRequest, SetFreq, waitCurFreq, BenchTarget
  <2>2. QED
    BY <2>1 DEF ToldApart
<1>3. CASE Iteration
  <2>1. UNCHANGED <<bench, bounds>> /\ pc \in {"iteration"} \union InIteration
    BY <1>3 DEF Iteration, StartStamp, Request, LateStamp, Detect, EndStamp, Sample,
                CheckTarget, Return, CheckStart, SetFreq, calibration
  <2>2. QED
    BY <2>1 DEF ToldApart
<1>4. CASE Report \/ Switch \/ UNCHANGED vars
  <2>1. UNCHANGED <<bench, bounds>> /\ (pc' = pc \/ pc' = "reported")
    BY <1>4 DEF Report, Switch, vars, calibration
  <2>2. QED
    BY <2>1 DEF ToldApart
<1>5. QED
  BY <1>1, <1>2, <1>3, <1>4 DEF Next, runTest

LEMMA NeverSwitchedStep ==
  ASSUME FrequenciesApart, SampleInv, [Next]_vars
  PROVE  NeverSwitched'
<1>f. StartFreq # TargetFreq
  BY FreqAssumption DEF FrequenciesApart
<1>t. /\ TypeOK /\ Limits /\ Requests /\ NeverSwitched
      /\ times \in [0 .. ValidationRepet - 1 -> Nat]
      /\ actual \in Freqs /\ requested \in Freqs
      /\ ValidationRepet \in Nat /\ ValidationRepet >= 2
  BY BoundsAssumption DEF SampleInv, TypeInv, TypeOK, SwitchInv
<1>s. SUFFICES ASSUME actual' = StartFreq,
                      pc' \in {"end_stamp", "validate_target", "check_target"}
               PROVE  NeverSwitched'
  BY DEF NeverSwitched
<1>1. CASE Detect
  <2>1. /\ requested = TargetFreq /\ pc' = "end_stamp"
        /\ \E time \in Times : Loop(time) /\ Store(0, time)
    BY <1>1, <1>s, <1>t DEF Detect, Requests
  <2>2. PICK time \in Times : Loop(time) /\ Store(0, time)
    BY <2>1
  <2>3. actual = StartFreq /\ time \in LoopTimes[StartFreq]
    BY <1>f, <1>s, <2>1, <2>2 DEF Loop
  <2>4. times'[0] = time
    BY <1>t, <2>2 DEF Store
  <2>5. StartTimes({0})'
    BY <2>3, <2>4 DEF StartTimes
  <2>6. QED
    BY <2>1, <2>5 DEF NeverSwitched
<1>2. CASE EndStamp
  <2>1. /\ pc = "end_stamp" /\ pc' = "validate_target" /\ k' = 1
        /\ UNCHANGED <<actual, times>>
    BY <1>2 DEF EndStamp, hardware
  <2>2. StartTimes({0})
    BY <1>s, <1>t, <2>1 DEF NeverSwitched
  <2>3. 0 .. k' - 1 = {0}
    BY <2>1
  <2>4. StartTimes(0 .. k - 1)'
    BY <2>1, <2>2, <2>3 DEF StartTimes
  <2>5. QED
    BY <2>1, <2>4 DEF NeverSwitched
<1>3. CASE Sample("validate_target", "check_target")
  <2>1. /\ pc = "validate_target" /\ requested = TargetFreq
        /\ k \in 1 .. ValidationRepet - 1 /\ k' = k + 1
        /\ pc' = IF k + 1 = ValidationRepet THEN "check_target" ELSE "validate_target"
    BY <1>3, <1>t DEF Sample, Requests, Limits
  <2>2. PICK time \in Times : Loop(time) /\ Store(k, time)
    BY <1>3 DEF Sample
  <2>3. actual = StartFreq /\ time \in LoopTimes[StartFreq]
    BY <1>f, <1>s, <2>1, <2>2 DEF Loop
  <2>4. StartTimes(0 .. k - 1)
    BY <1>t, <2>1, <2>3 DEF NeverSwitched
  <2>5. \A n \in 0 .. k : times'[n] = IF n = k THEN time ELSE times[n]
    BY <1>t, <2>1, <2>2 DEF Store
  <2>6. \A n \in 0 .. k : n = k \/ n \in 0 .. k - 1
    BY <2>1
  <2>7. \A n \in 0 .. k : times'[n] \in LoopTimes[StartFreq]
    BY <2>3, <2>4, <2>5, <2>6 DEF StartTimes
  <2>8. 0 .. k' - 1 = 0 .. k /\ (pc' = "check_target" => 0 .. ValidationRepet - 1 = 0 .. k)
    BY <1>t, <2>1
  <2>9. QED
    BY <2>1, <2>7, <2>8 DEF NeverSwitched, StartTimes
<1>4. CASE Switch \/ UNCHANGED vars
  <2>1. CASE Switch
    <3>1. actual' = requested /\ pc' = pc
      BY <2>1 DEF Switch
    <3>2. pc' = "end_stamp" \/ pc' = "validate_target" \/ pc' = "check_target"
      BY <1>s
    <3>3. requested = TargetFreq
      BY <1>t, <3>1, <3>2 DEF Requests
    <3>4. QED
      BY <1>f, <1>s, <3>1, <3>3
  <2>2. CASE UNCHANGED vars
    BY <1>t, <2>2 DEF vars, NeverSwitched, StartTimes
  <2>3. QED
    BY <1>4, <2>1, <2>2
<1>5. \/ Detect \/ EndStamp \/ Sample("validate_target", "check_target")
      \/ Switch \/ UNCHANGED vars
  <2>1. ~Calibration /\ ~Report
    BY <1>s DEF Calibration, CalibrationRequest, SetFreq, waitCurFreq, BenchTarget,
                BenchStart, Report
  <2>2. /\ ~StartStamp /\ ~Request /\ ~LateStamp /\ ~CheckTarget /\ ~Return
        /\ ~Sample("validate_start", "check_start") /\ ~CheckStart
    BY <1>s DEF StartStamp, Request, LateStamp, CheckTarget, Return, Sample,
                CheckStart, SetFreq
  <2>3. QED
    BY <2>1, <2>2 DEF Next, runTest, Iteration
<1>6. QED
  BY <1>1, <1>2, <1>3, <1>4, <1>5

LEMMA SampleInvStep ==
  ASSUME FrequenciesApart, TimesApart
  PROVE  SampleInv /\ [Next]_vars => SampleInv'
<1>1. SwitchInv /\ [Next]_vars => SwitchInv'
  BY SwitchInvCalibration, SwitchInvIteration, SwitchInvOther DEF Next, runTest
<1>2. QED
  BY <1>1, TypeInvStep, ToldApartStep, NeverSwitchedStep DEF SampleInv

(* The validation of a core that never left the start frequency.           *)
LEMMA StartSampleRejected ==
  ASSUME SamplesApart, SampleInv, pc = "check_target", actual = StartFreq
  PROVE  ~Accepted(ValidationSample, bounds[TargetFreq])
<1>1. StartTimes(0 .. ValidationRepet - 1)
  BY DEF SampleInv, NeverSwitched
<1>2. \A n \in 1..ValidationRepet : n - 1 \in 0 .. ValidationRepet - 1
  BY BoundsAssumption
<1>3. ValidationSample \in [1..ValidationRepet -> LoopTimes[StartFreq]]
  BY <1>1, <1>2 DEF StartTimes, ValidationSample
<1>4. /\ bench \in Benchmarks[TargetFreq]
      /\ bounds[TargetFreq] = confidenceInterval(bench)
      /\ \E xs \in Benchmarks[StartFreq] : ~Equal(xs, bench)
  BY DEF SampleInv, SwitchInv, Calibrated, ToldApart
<1>5. QED
  BY <1>3, <1>4 DEF SamplesApart

(* However the core switches, a row of an iteration in which it did not    *)
(* reach the target frequency is rejected by the first validation, while   *)
(* the times of the two frequencies are told apart by the code's intervals *)
(* (main.c:255-258).                                                       *)
THEOREM StuckCoreIsRejected ==
  ASSUME FrequenciesApart, TimesApart, SamplesApart
  PROVE  Spec => NoSwitchRejected
<1>1. Init => SampleInv
  BY InitInv, InitTypes, InitSwitch, InitSample DEF SampleInv, TypeInv
<1>2. SampleInv /\ [Next]_vars =>
        [pc = "check_target" /\ pc' = "return" /\ actual = StartFreq => ~validated']_vars
  <2> SUFFICES ASSUME SampleInv, Next, pc = "check_target", pc' = "return",
                      actual = StartFreq
               PROVE  ~validated'
    OBVIOUS
  <2>1. CheckTarget
    <3>1. ~Calibration /\ ~Report /\ ~Switch /\ ~(Ended /\ UNCHANGED vars)
      BY DEF Calibration, CalibrationRequest, SetFreq, waitCurFreq, BenchTarget,
             BenchStart, Report, Switch, Ended
    <3>2. Iteration
      BY <3>1 DEF Next, runTest
    <3>3. QED
      BY <3>2 DEF Iteration, StartStamp, Request, LateStamp, Detect, EndStamp, Sample,
                  Return, CheckStart, SetFreq
  <2>2. validated' = Accepted(ValidationSample, bounds[TargetFreq])
    BY <2>1 DEF CheckTarget
  <2>3. QED
    BY <2>2, StartSampleRejected
<1>3. QED
  BY <1>1, <1>2, SampleInvStep, PTL DEF Spec, NoSwitchRejected

-----------------------------------------------------------------------------

(* The iteration whose samples the trace has, and how many it can have     *)
(* had, at each place of runTest().                                        *)
Current == IF pc \in InIteration THEN it ELSE it - 1

Sampled ==
  /\ sampled \in Nat
  /\ pc \in Calibrating \union {"given_up", "request", "late_stamp"} => sampled = 0
  /\ pc = "iteration" /\ it = 0 => sampled = 0
  /\ pc = "detect" => sampled = niters
  /\ pc = "end_stamp" => sampled <= TryRepetLoop
  /\ pc = "validate_target" => sampled + 1 <= TryRepetLoop + k
  /\ pc \in {"check_target", "return"} =>
       sampled + 1 <= TryRepetLoop + ValidationRepet
  /\ pc = "validate_start" =>
       sampled + 2 <= TryRepetLoop + ValidationRepet + k
  /\ pc \in {"check_start", "iteration", "reported"} =>
       sampled + 2 <= TryRepetLoop + 2 * ValidationRepet

(* What the buffer and the file have of them: all in the buffer, until the *)
(* trace is closed.                                                        *)
Samples == [n \in 1 .. sampled |-> <<Current, n>>]

Written ==
  /\ stage \in {"start", "test", "cleaned"}
  /\ stage = "start" => opened = {} /\ buf = <<>> /\ pc = "set_target" /\ sampled = 0
  /\ "buf" \in opened =>
       /\ opened = {"file", "buf"}
       /\ bufCapacity = TryRepetLoop * ValidationRepet
  /\ "buf" \notin opened => buf = <<>>
  /\ stage = "test" /\ "buf" \in opened => dumpFile = <<>> /\ buf = Samples
  /\ stage = "cleaned" /\ "buf" \in opened => dumpFile = Samples /\ buf = <<>>
  /\ stage = "cleaned" => Ended

TraceInv == TypeInv /\ Sampled /\ Written

(* main.c:436 makes room for more than an iteration ever writes, if the    *)
(* detection may take three loops or more.                                 *)
LEMMA Room ==
  ASSUME TryRepetLoop > 2
  PROVE  /\ TryRepetLoop * ValidationRepet \in Nat
         /\ TryRepetLoop + 2 * ValidationRepet - 2 < TryRepetLoop * ValidationRepet
<1>1. /\ TryRepetLoop \in Nat /\ ValidationRepet \in Nat
      /\ TryRepetLoop >= 3 /\ ValidationRepet >= 2
  BY BoundsAssumption
<1>2. (TryRepetLoop - 3) * (ValidationRepet - 1) >= 0
  BY <1>1
<1>3. (TryRepetLoop - 3) * (ValidationRepet - 1) =
        TryRepetLoop * ValidationRepet - TryRepetLoop - 3 * ValidationRepet + 3
  BY <1>1
<1>4. QED
  BY <1>1, <1>2, <1>3

(* The number of samples is that of the buffer.                            *)
LEMMA SamplesLength ==
  ASSUME sampled \in Nat
  PROVE  Samples \in Seq({Current} \X Nat) /\ Len(Samples) = sampled
BY DEF Samples

(* So many samples at most, wherever runTest() is.                         *)
LEMMA SampledBound ==
  TypeInv /\ Sampled =>
    sampled \in Nat /\ sampled <= TryRepetLoop + 2 * ValidationRepet - 2
<1> SUFFICES ASSUME TypeInv, Sampled
             PROVE  sampled \in Nat /\ sampled <= TryRepetLoop + 2 * ValidationRepet - 2
  OBVIOUS
<1>1. /\ TryRepetLoop \in Nat /\ TryRepetLoop >= 1
      /\ ValidationRepet \in Nat /\ ValidationRepet >= 2
      /\ niters \in 0..TryRepetLoop /\ k \in 0..ValidationRepet
      /\ sampled \in Nat /\ pc \in Locations
  BY BoundsAssumption DEF TypeInv, TypeOK, Sampled
<1>2. pc \in {"validate_target", "validate_start"} => k \in 1..ValidationRepet - 1
  BY DEF TypeInv, Limits
<1>3. QED
  BY <1>1, <1>2 DEF Sampled, Locations

(* What main() does with runTest() are steps of runTest().                 *)
LEMMA TracedStepIsStep == [TracedNext]_tracedVars => [Next]_vars
BY DEF TracedNext, tracedVars, TracedMain, TracedSwitch, Open, TracedTest, Traced,
       Untraced, Close, Next, runTest, Iteration, vars

LEMMA SampledStep ==
  ASSUME TraceInv, [TracedNext]_tracedVars
  PROVE  Sampled'
<1>t. /\ TryRepetLoop \in Nat /\ TryRepetLoop >= 1
      /\ ValidationRepet \in Nat /\ ValidationRepet >= 2
      /\ niters \in 0..TryRepetLoop /\ k \in 0..ValidationRepet /\ it \in Nat
      /\ sampled \in Nat /\ Limits /\ Sampled /\ Written
  BY BoundsAssumption DEF TraceInv, TypeInv, TypeOK, Sampled
<1>1. CASE TracedTest /\ Calibration
  <2>1. /\ pc \in Calibrating /\ pc' \in Calibrating \union {"iteration", "given_up"}
        /\ UNCHANGED <<sampled, it>>
    <3>1. /\ pc \in Calibrating /\ pc' \in Calibrating \union {"iteration", "given_up"}
          /\ UNCHANGED it
      BY <1>1 DEF Calibration, CalibrationRequest, SetFreq, waitCurFreq,
                  BenchTarget, BenchStart
    <3>2. UNCHANGED sampled
      BY <1>1, <3>1 DEF TracedTest, Traced, Untraced, StartStamp, Detect, Sample,
                  Request, LateStamp, EndStamp, CheckTarget, Return, CheckStart,
                  Report, SetFreq
    <3>3. QED
      BY <3>1, <3>2
  <2>2. sampled = 0
    BY <1>t, <2>1 DEF Sampled
  <2>3. QED
    BY <1>t, <2>1, <2>2 DEF Sampled
<1>2. CASE TracedTest /\ StartStamp
  <2>1. pc = "iteration" /\ pc' = "request"
    BY <1>2 DEF StartStamp
  <2>2. sampled' = 0
    BY <1>2, <2>1 DEF TracedTest, Traced, Untraced, StartStamp, Detect, Sample,
         Request, LateStamp, EndStamp, CheckTarget, Return, CheckStart, Report,
         SetFreq, Calibration, CalibrationRequest, waitCurFreq, BenchTarget, BenchStart
  <2>3. QED
    BY <2>1, <2>2 DEF Sampled
<1>3. CASE Traced(Detect)
  <2>1. /\ pc = "detect" /\ sampled' = sampled + 1
        /\ pc' \in {"detect", "end_stamp"}
        /\ pc' = "detect" => niters' = niters + 1
    BY <1>3 DEF Traced, Detect
  <2>2. sampled = niters /\ niters < TryRepetLoop
    BY <1>t, <2>1 DEF Sampled, Limits
  <2>3. QED
    BY <1>t, <2>1, <2>2 DEF Sampled
<1>4. CASE Traced(Sample("validate_target", "check_target"))
  <2>1. /\ pc = "validate_target" /\ sampled' = sampled + 1 /\ k' = k + 1
        /\ pc' = IF k + 1 = ValidationRepet THEN "check_target" ELSE "validate_target"
    BY <1>4 DEF Traced, Sample
  <2>2. sampled + 1 <= TryRepetLoop + k
    BY <1>t, <2>1 DEF Sampled
  <2>3. QED
    BY <1>t, <2>1, <2>2 DEF Sampled
<1>5. CASE Traced(Sample("validate_start", "check_start"))
  <2>1. /\ pc = "validate_start" /\ sampled' = sampled + 1 /\ k' = k + 1
        /\ pc' = IF k + 1 = ValidationRepet THEN "check_start" ELSE "validate_start"
    BY <1>5 DEF Traced, Sample
  <2>2. sampled + 2 <= TryRepetLoop + ValidationRepet + k
    BY <1>t, <2>1 DEF Sampled
  <2>3. QED
    BY <1>t, <2>1, <2>2 DEF Sampled
<1>6. CASE Untraced /\ UNCHANGED sampled
  <2>1. \/ pc = "request" /\ pc' = "late_stamp" /\ UNCHANGED niters
        \/ pc = "late_stamp" /\ pc' = "detect" /\ UNCHANGED niters
        \/ pc = "end_stamp" /\ pc' = "validate_target" /\ k' = 1
        \/ pc = "check_target" /\ pc' = "return"
        \/ pc = "return" /\ pc' = "return"
        \/ pc = "return" /\ pc' = "validate_start" /\ k' = 1
        \/ pc = "check_start" /\ pc' = "iteration" /\ it' = it + 1
    BY <1>6 DEF Untraced, Request, LateStamp, EndStamp, CheckTarget, Return,
                CheckStart, SetFreq
  <2>2. QED
    BY <1>t, <1>6, <2>1 DEF Sampled, Limits
<1>7. CASE \/ Report /\ UNCHANGED sampled
           \/ UNCHANGED <<vars, sampled>>
           \/ Switch /\ UNCHANGED sampled
  <2>1. /\ UNCHANGED <<sampled, it, niters, k>>
        /\ pc' = pc \/ (pc = "iteration" /\ pc' = "reported")
    BY <1>7 DEF Report, Switch, vars
  <2>2. QED
    BY <1>t, <2>1 DEF Sampled
<1>8. QED
  <2>1. CASE TracedTest
    BY <2>1, <1>1, <1>2, <1>3, <1>4, <1>5, <1>6, <1>7 DEF TracedTest
  <2>2. CASE Open \/ Close
    BY <2>2, <1>7 DEF Open, Close
  <2>3. CASE TracedSwitch \/ UNCHANGED tracedVars
    BY <2>3, <1>7 DEF TracedSwitch, tracedVars
  <2>4. QED
    BY <2>1, <2>2, <2>3 DEF TracedNext, TracedMain

(* A sample that is written goes behind the ones of its iteration.         *)
LEMMA WriteStep ==
  ASSUME TryRepetLoop > 2, TraceInv, TypeInv', Sampled', stage = "test",
         UNCHANGED stage, pc \in InIteration, pc' \in InIteration, UNCHANGED it,
         sampled' = sampled + 1, writeDump(<<it, sampled + 1>>)
  PROVE  Written'
<1>1. /\ sampled \in Nat /\ sampled' \in Nat
      /\ sampled' <= TryRepetLoop + 2 * ValidationRepet - 2
  <2>1. (TypeInv /\ Sampled)' =>
          (sampled \in Nat /\ sampled <= TryRepetLoop + 2 * ValidationRepet - 2)'
    BY SampledBound, PTL
  <2>2. QED
    BY <2>1, BoundsAssumption DEF TraceInv, Sampled
<1>2. sampled + 1 < TryRepetLoop * ValidationRepet
  BY <1>1, Room, BoundsAssumption
<1>3. Written /\ UNCHANGED <<opened, bufCapacity>>
  BY DEF TraceInv, writeDump
<1>4. CASE "buf" \notin opened
  <2>1. UNCHANGED <<buf, dumpFile>>
    BY <1>4 DEF writeDump
  <2>2. QED
    BY <1>3, <1>4, <2>1 DEF Written
<1>5. CASE "buf" \in opened
  <2>1. /\ buf = [n \in 1..sampled |-> <<it, n>>] /\ dumpFile = <<>>
        /\ opened = {"file", "buf"}
        /\ bufCapacity = TryRepetLoop * ValidationRepet
    BY <1>3, <1>5 DEF Written, Samples, Current
  <2>2. Len(buf) = sampled /\ buf \in Seq({it} \X Nat)
    BY <1>1, <2>1
  <2>3. ~(Len(buf) + 1 >= bufCapacity)
    BY <1>1, <1>2, <2>1, <2>2, Room
  <2>4. buf' = Append(buf, <<it, sampled + 1>>) /\ UNCHANGED dumpFile
    BY <1>5, <2>3 DEF writeDump
  <2>5. buf' = [n \in 1..sampled + 1 |-> <<it, n>>]
    BY <1>1, <2>1, <2>2, <2>4
  <2>6. Samples' = [n \in 1..sampled + 1 |-> <<it, n>>]
    BY DEF Samples, Current
  <2>7. QED
    BY <1>3, <1>5, <2>1, <2>4, <2>5, <2>6 DEF Written
<1>6. QED
  BY <1>4, <1>5

LEMMA NoSamples ==
  ASSUME sampled = 0
  PROVE  Samples = <<>>
BY DEF Samples

LEMMA WrittenStep ==
  ASSUME TryRepetLoop > 2, TraceInv, TypeInv', Sampled', [TracedNext]_tracedVars
  PROVE  Written'
<1>t. Written /\ Sampled /\ Limits
  BY DEF TraceInv, TypeInv
<1>1. CASE Open
  <2>1. /\ stage = "start" /\ stage' = "test" /\ dumpFile' = <<>>
        /\ opened' \in {{}, {"file"}, {"file", "buf"}}
        /\ bufCapacity' = IF "buf" \in opened'
                          THEN TryRepetLoop * ValidationRepet ELSE bufCapacity
        /\ UNCHANGED <<buf, sampled, pc>>
    BY <1>1 DEF Open, openDump, vars
  <2>2. buf' = <<>> /\ sampled' = 0
    BY <1>t, <2>1 DEF Written
  <2>3. Samples' = <<>>
    BY <2>2 DEF Samples
  <2>4. "buf" \in opened' => opened' = {"file", "buf"}
    BY <2>1
  <2>5. QED
    BY <2>1, <2>2, <2>3, <2>4 DEF Written
<1>2. CASE Close
  <2>1. /\ stage = "test" /\ stage' = "cleaned" /\ Ended
        /\ UNCHANGED <<opened, bufCapacity, pc, it, sampled>>
        /\ IF opened = {"file", "buf"}
           THEN dumpFile' = dumpFile \o buf /\ buf' = <<>>
           ELSE buf' = buf /\ UNCHANGED dumpFile
    BY <1>2 DEF Close, closeDump, flushDump, vars
  <2>2. Samples' = Samples /\ Ended'
    BY <2>1 DEF Samples, Current, Ended
  <2>3. CASE "buf" \in opened
    <3>1. dumpFile = <<>> /\ buf = Samples /\ opened = {"file", "buf"}
      BY <1>t, <2>1, <2>3 DEF Written
    <3>2. Samples \in Seq({Current} \X Nat)
      BY <1>t, SamplesLength DEF Sampled
    <3>3. dumpFile' = Samples /\ buf' = <<>>
      BY <2>1, <3>1, <3>2
    <3>4. QED
      BY <1>t, <2>1, <2>2, <2>3, <3>3 DEF Written
  <2>4. CASE "buf" \notin opened
    <3>1. buf' = <<>>
      BY <1>t, <2>1, <2>4 DEF Written
    <3>2. QED
      BY <1>t, <2>1, <2>2, <2>4, <3>1 DEF Written
  <2>5. QED
    BY <2>3, <2>4
<1>3. CASE TracedTest
  <2>s. stage = "test" /\ UNCHANGED stage
    BY <1>3 DEF TracedTest
  <2>1. CASE Traced(Detect) \/ Traced(Sample("validate_target", "check_target"))
             \/ Traced(Sample("validate_start", "check_start"))
    <3>1. pc \in InIteration /\ pc' \in InIteration /\ UNCHANGED it
      BY <2>1 DEF Traced, Detect, Sample
    <3>2. sampled' = sampled + 1 /\ writeDump(<<it, sampled + 1>>)
      BY <2>1 DEF Traced
    <3>3. QED
      BY <2>s, <3>1, <3>2, WriteStep
  <2>2. CASE StartStamp /\ sampled' = 0 /\ resetDump
    <3>1. buf' = <<>> /\ UNCHANGED <<opened, bufCapacity, dumpFile>>
      BY <2>2 DEF resetDump
    <3>2. Samples' = <<>>
      BY <2>2 DEF Samples
    <3>3. QED
      BY <1>t, <2>s, <3>1, <3>2 DEF Written
  <2>3. CASE \/ Calibration /\ UNCHANGED <<dumpVars, sampled>>
             \/ (Untraced \/ Report) /\ UNCHANGED <<dumpVars, sampled>>
    <3>1. Samples' = Samples
      <4>1. CASE Calibration
        <5>1. pc \in Calibrating /\ UNCHANGED sampled
          BY <2>3, <4>1 DEF Calibration, CalibrationRequest, SetFreq, waitCurFreq,
                            BenchTarget, BenchStart
        <5>2. sampled = 0 /\ sampled' = 0
          BY <1>t, <5>1 DEF Sampled
        <5>3. QED
          BY <5>2 DEF Samples
      <4>2. CASE Report
        BY <2>3, <4>2 DEF Report, Samples, Current
      <4>3. CASE Untraced
        <5>1. \/ pc \in InIteration /\ pc' \in InIteration /\ UNCHANGED it
              \/ pc \in InIteration /\ pc' = "iteration" /\ it' = it + 1
          BY <4>3 DEF Untraced, Request, LateStamp, EndStamp, CheckTarget, Return,
                      CheckStart, SetFreq
        <5>2. it \in Nat
          BY BoundsAssumption DEF TraceInv, TypeInv, TypeOK
        <5>3. Current' = Current
          BY <5>1, <5>2 DEF Current
        <5>4. UNCHANGED sampled
          BY <2>3
        <5>5. QED
          BY <5>3, <5>4 DEF Samples
      <4>4. QED
        BY <2>3, <4>1, <4>2, <4>3
    <3>2. UNCHANGED dumpVars
      BY <2>3
    <3>3. QED
      BY <1>t, <2>s, <3>1, <3>2 DEF Written, dumpVars
  <2>4. QED
    BY <1>3, <2>1, <2>2, <2>3 DEF TracedTest
<1>4. CASE TracedSwitch \/ UNCHANGED tracedVars \/ (stage = "cleaned" /\ UNCHANGED tracedVars)
  <2>1. UNCHANGED <<pc, it, stage, sampled, opened, bufCapacity, buf, dumpFile>>
    BY <1>4 DEF TracedSwitch, Switch, tracedVars, vars, dumpVars
  <2>2. Samples' = Samples
    BY <2>1 DEF Samples, Current
  <2>3. QED
    BY <1>t, <2>1, <2>2 DEF Written, Ended
<1>5. QED
  BY <1>1, <1>2, <1>3, <1>4 DEF TracedNext, TracedMain

LEMMA InitTrace == TracedInit => TraceInv
<1> SUFFICES ASSUME TracedInit PROVE TraceInv
  OBVIOUS
<1>1. TypeInv
  BY InitInv, InitTypes DEF TracedInit, TypeInv
<1>2. Sampled /\ Written
  BY DEF TracedInit, Init, InitDump, Sampled, Written
<1>3. QED
  BY <1>1, <1>2 DEF TraceInv

(* With its trace runTest() behaves as without.                            *)
THEOREM TraceOnlyWatches == TracedSpec => Spec
<1>1. TracedInit => Init
  BY DEF TracedInit
<1>2. QED
  BY <1>1, TracedStepIsStep, PTL DEF TracedSpec, Spec

(* However often the test iterates, and however many loops the detection   *)
(* takes of three or more: the buffer never fills up within an iteration,  *)
(* and the file holds every sample of the last iteration, in order, and    *)
(* none of those before (dumpResults.h:40, main.c:436).                    *)
THEOREM TraceIsComplete ==
  ASSUME TryRepetLoop > 2
  PROVE  TracedSpec => []TraceIsLastIteration
<1>1. TraceInv /\ [TracedNext]_tracedVars => TraceInv'
  <2> SUFFICES ASSUME TraceInv, [TracedNext]_tracedVars PROVE TraceInv'
    OBVIOUS
  <2>1. TypeInv'
    BY TracedStepIsStep, TypeInvStep DEF TraceInv
  <2>2. Sampled'
    BY SampledStep
  <2>3. QED
    BY <2>1, <2>2, WrittenStep DEF TraceInv
<1>2. TraceInv => TraceIsLastIteration
  <2> SUFFICES ASSUME TraceInv PROVE TraceIsLastIteration
    OBVIOUS
  <2>1. "buf" \in opened => Len(buf) < bufCapacity
    <3> SUFFICES ASSUME "buf" \in opened PROVE Len(buf) < bufCapacity
      OBVIOUS
    <3>1. bufCapacity = TryRepetLoop * ValidationRepet /\ (buf = Samples \/ buf = <<>>)
      BY DEF TraceInv, Written
    <3>2. sampled \in Nat /\ sampled <= TryRepetLoop + 2 * ValidationRepet - 2
      BY SampledBound DEF TraceInv
    <3>3. Len(buf) = 0 \/ Len(buf) = sampled
      BY <3>1, <3>2, SamplesLength
    <3>4. QED
      BY <3>1, <3>2, <3>3, Room, BoundsAssumption
  <2>2. ASSUME stage = "cleaned", "buf" \in opened
        PROVE  dumpFile = IF it = 0 THEN <<>>
                          ELSE [n \in 1 .. sampled |-> <<it - 1, n>>]
    <3>1. dumpFile = Samples /\ Ended
      BY <2>2 DEF TraceInv, Written
    <3>2. Current = it - 1
      BY <3>1 DEF Ended, Current
    <3>3. it = 0 => sampled = 0
      BY <3>1, BoundsAssumption DEF Ended, TraceInv, TypeInv, Limits, Sampled
    <3>4. QED
      BY <3>1, <3>2, <3>3, NoSamples DEF Samples
  <2>3. QED
    BY <2>1, <2>2 DEF TraceIsLastIteration
<1>3. QED
  BY InitTrace, <1>1, <1>2, PTL DEF TracedSpec

-----------------------------------------------------------------------------

(* An adjacent order is an order.                                          *)
LEMMA AdjacentOrder ==
  ASSUME NEW n \in Nat, NEW ys, \A i \in 1..n : ys[i] \in Nat,
         \A i \in 1..(n - 1) : ys[i] <= ys[i + 1]
  PROVE  \A i, j \in 1..n : i <= j => ys[i] <= ys[j]
<1> SUFFICES ASSUME NEW i \in 1..n, NEW l \in 1..n, i <= l, ~(ys[i] <= ys[l])
             PROVE  FALSE
  OBVIOUS
<1> DEFINE T == {j \in 1..n : i <= j /\ ~(ys[i] <= ys[j])}
<1>1. PICK j \in T : \A m \in T : j <= m
  <2>1. IsWellFoundedOn(OpToRel(<, Nat), Nat)
    BY NatLessThanWellFounded
  <2>2. T \subseteq Nat /\ T # {}
    OBVIOUS
  <2> HIDE DEF T
  <2>3. PICK j \in T : \A m \in T : ~(<<m, j>> \in OpToRel(<, Nat))
    BY <2>1, <2>2, WFMin
  <2>4. \A m \in T : ~(m < j)
    BY <2>2, <2>3 DEF OpToRel
  <2>5. QED
    BY <2>2, <2>4
<1>2. j \in 1..n /\ i <= j /\ ~(ys[i] <= ys[j]) /\ j # i
  OBVIOUS
<1>3. j - 1 \in 1..(n - 1) /\ j - 1 \in 1..n /\ i <= j - 1 /\ (j - 1) + 1 = j /\ ~(j <= j - 1)
  BY <1>2
<1>4. ys[i] <= ys[j - 1]
  BY <1>1, <1>3
<1>5. ys[j - 1] <= ys[j]
  BY <1>3
<1>6. QED
  BY <1>2, <1>3, <1>4, <1>5

(* The indices of the values below v, and of those not above.              *)
Lower(n, xs, v) == {i \in 1..n : xs[i] < v}
UpTo(n, xs, v) == {i \in 1..n : xs[i] <= v}

(* In a rearrangement in order the element r, counted from zero, has r     *)
(* elements of the sample below it at most, and more than r not above.     *)
LEMMA RankInOrder ==
  ASSUME NEW n \in Nat, NEW xs, \A i \in 1..n : xs[i] \in Nat,
         NEW p \in Bijection(1..n, 1..n), NEW ys, \A i \in 1..n : ys[i] = xs[p[i]],
         \A i, j \in 1..n : i <= j => ys[i] <= ys[j],
         NEW r \in Nat, r < n
  PROVE  /\ Cardinality(Lower(n, xs, ys[r + 1])) <= r
         /\ Cardinality(UpTo(n, xs, ys[r + 1])) > r
<1> DEFINE v == ys[r + 1]
           below == {i \in 1..n : xs[i] < v}
           upto == {i \in 1..n : xs[i] <= v}
           first == {p[i] : i \in 1..r}
<1>1. /\ p \in [1..n -> 1..n]
      /\ \A i, j \in 1..n : p[i] = p[j] => i = j
      /\ \A i \in 1..n : \E j \in 1..n : p[j] = i
  BY DEF Bijection, Injection, Surjection, IsInjective
<1>2. r + 1 \in 1..n /\ 1..r \subseteq 1..n /\ 1..(r + 1) \subseteq 1..n
  OBVIOUS
<1>3. \A i \in 1..n : ys[i] \in Nat /\ ys[i] = xs[p[i]]
  BY <1>1
<1>4. below \subseteq first
  <2> SUFFICES ASSUME NEW i \in below PROVE i \in first
    OBVIOUS
  <2>1. PICK j \in 1..n : p[j] = i
    BY <1>1
  <2>2. ys[j] < v
    BY <1>3, <2>1
  <2>3. ~(r + 1 <= j)
    BY <1>2, <1>3, <2>2
  <2>4. j \in 1..r
    BY <2>3
  <2>5. QED
    BY <2>1, <2>4
<1>5. IsFiniteSet(first) /\ Cardinality(first) <= r
  <2> DEFINE f == [i \in 1..r |-> p[i]]
  <2>1. f \in Surjection(1..r, first)
    BY DEF Surjection
  <2>2. ExistsSurjection(1..r, first)
    BY <2>1, Zenon DEF ExistsSurjection
  <2>3. IsFiniteSet(1..r)
    BY FS_Interval
  <2> HIDE DEF first, f
  <2>4. QED
    BY <2>1, <2>2, <2>3, FS_SurjCardinalityBound, FS_Surjection
<1>6. Cardinality(below) <= r
  <2> HIDE DEF below, first
  <2>1. Cardinality(below) <= Cardinality(first) /\ Cardinality(below) \in Nat
    BY <1>4, <1>5, FS_Subset, FS_CardinalityType
  <2>2. Cardinality(first) \in Nat
    BY <1>5, FS_CardinalityType
  <2>3. QED
    BY <1>5, <2>1, <2>2
<1>7. Cardinality(upto) > r
  <2> DEFINE f == [i \in 1..(r + 1) |-> p[i]]
  <2>1. \A i \in 1..(r + 1) : p[i] \in upto
    BY <1>1, <1>2, <1>3
  <2>2. IsFiniteSet(upto)
    <3>1. IsFiniteSet(1..n)
      BY FS_Interval
    <3>2. QED
      BY <3>1, FS_Subset
  <2> HIDE DEF upto
  <2>3. f \in Injection(1..(r + 1), upto)
    BY <1>1, <1>2, <2>1 DEF Injection, IsInjective
  <2>4. Cardinality(1..(r + 1)) = r + 1
    BY FS_Interval
  <2> HIDE DEF f
  <2>5. Cardinality(1..(r + 1)) <= Cardinality(upto)
    BY <2>2, <2>3, FS_Injection
  <2>6. Cardinality(upto) \in Nat
    BY <2>2, FS_CardinalityType
  <2>7. QED
    BY <2>4, <2>5, <2>6
<1>8. QED
  BY <1>6, <1>7 DEF Lower, UpTo

LEMMA LowOfSmall ==
  ASSUME NEW x \in Nat, x < HalfWord
  PROVE  Low(x) = x
BY HalfAssumption DEF Low

LEMMA QuartileRanks ==
  ASSUME NEW xs \in Seq(Nat), Len(xs) > 1, \A x \in ToSet(xs) : x < HalfWord,
         NEW ys \in Sorted(xs), NEW r \in Nat, r < Len(xs)
  PROVE  /\ Cardinality(Lower(Len(xs), xs, ys[r + 1])) <= r
         /\ Cardinality(UpTo(Len(xs), xs, ys[r + 1])) > r
<1> DEFINE n == Len(xs)
<1>1. n \in Nat /\ DOMAIN xs = 1..n /\ \A i \in 1..n : xs[i] \in Nat /\ xs[i] < HalfWord
  BY DEF ToSet
<1>2. PICK p \in Bijection(1..n, 1..n) :
        /\ ys = [i \in 1..n |-> xs[p[i]]]
        /\ \A i \in 1..(n - 1) : comparer(ys[i], ys[i + 1])
  BY <1>1 DEF Sorted
<1>3. p \in [1..n -> 1..n]
  BY DEF Bijection, Injection
<1> HIDE DEF n
<1>4. \A i \in 1..n : ys[i] \in Nat /\ Low(ys[i]) = ys[i]
  <2> SUFFICES ASSUME NEW i \in 1..n PROVE ys[i] \in Nat /\ Low(ys[i]) = ys[i]
    OBVIOUS
  <2>1. ys[i] = xs[p[i]] /\ p[i] \in 1..n
    BY <1>2, <1>3
  <2>2. ys[i] \in Nat /\ ys[i] < HalfWord
    BY <1>1, <2>1
  <2>3. QED
    BY <2>2, LowOfSmall
<1>5. \A i \in 1..(n - 1) : ys[i] <= ys[i + 1]
  <2> SUFFICES ASSUME NEW i \in 1..(n - 1) PROVE ys[i] <= ys[i + 1]
    OBVIOUS
  <2>1. i \in 1..n /\ i + 1 \in 1..n
    BY <1>1
  <2>2. Low(ys[i]) <= Low(ys[i + 1])
    BY <1>2 DEF comparer
  <2>3. QED
    BY <1>4, <2>1, <2>2
<1>6. \A i, j \in 1..n : i <= j => ys[i] <= ys[j]
  BY <1>1, <1>4, <1>5, AdjacentOrder
<1>7. /\ Cardinality(Lower(n, xs, ys[r + 1])) <= r
      /\ Cardinality(UpTo(n, xs, ys[r + 1])) > r
  <2>1. r < n
    BY DEF n
  <2>2. n \in Nat /\ \A i \in 1..n : xs[i] \in Nat
    BY <1>1
  <2>3. ys = [i \in 1..n |-> xs[p[i]]]
    BY <1>2
  <2>4. p \in Bijection(1..n, 1..n)
    BY <1>2
  <2>5. \A i \in 1..n : ys[i] = xs[p[i]]
    BY <2>3
  <2>6. QED
    BY <1>6, <2>1, <2>2, <2>4, <2>5, RankInOrder
<1>8. QED
  BY <1>7 DEF n

(* The same with the indices and the ranks of the code.                    *)
LEMMA RanksOfSorted ==
  ASSUME bench \in Seq(Nat), Len(bench) > 1, \A x \in ToSet(bench) : x < HalfWord,
         NEW ys \in Sorted(bench)
  PROVE  /\ Rank(Len(bench) \div 4, interQuartileRange(ys)[1])
         /\ Rank((3 * Len(bench)) \div 4, interQuartileRange(ys)[2])
<1>1. Len(ys) = Len(bench)
  BY SortedType
<1>2. Len(bench) \in Nat
  BY LenProperties
<1>3. /\ Len(bench) \div 4 \in Nat /\ Len(bench) \div 4 < Len(bench)
      /\ (3 * Len(bench)) \div 4 \in Nat /\ (3 * Len(bench)) \div 4 < Len(bench)
  <2>1. \A n \in Nat : n > 1 => /\ n \div 4 \in Nat /\ n \div 4 < n
                                /\ (3 * n) \div 4 \in Nat /\ (3 * n) \div 4 < n
    OBVIOUS
  <2>2. QED
    BY <1>2, <2>1
<1>4. \A r \in Nat : r < Len(bench) => Rank(r, ys[r + 1])
  <2> SUFFICES ASSUME NEW r \in Nat, r < Len(bench)
               PROVE  Rank(r, ys[r + 1])
    OBVIOUS
  <2>1. /\ Cardinality(Lower(Len(bench), bench, ys[r + 1])) <= r
        /\ Cardinality(UpTo(Len(bench), bench, ys[r + 1])) > r
    BY QuartileRanks
  <2>2. /\ {n \in DOMAIN bench : bench[n] < ys[r + 1]} = Lower(Len(bench), bench, ys[r + 1])
        /\ {n \in DOMAIN bench : bench[n] <= ys[r + 1]} = UpTo(Len(bench), bench, ys[r + 1])
    BY DEF Lower, UpTo
  <2>3. QED
    BY <2>1, <2>2, Zenon DEF Rank
<1>5. /\ interQuartileRange(ys)[1] = ys[Len(bench) \div 4 + 1]
      /\ interQuartileRange(ys)[2] = ys[(3 * Len(bench)) \div 4 + 1]
  BY <1>1 DEF interQuartileRange
<1>6. QED
  BY <1>3, <1>4, <1>5, Zenon

(* The calibration at the target frequency, and the quartiles taken of it. *)
OfCalibration ==
  /\ bench \in Seq(Nat)
  /\ bench = <<>> \/ \E ys \in Sorted(bench) : quartiles = interQuartileRange(ys)

LEMMA OfCalibrationHolds == Spec => []OfCalibration
<1>1. Init => OfCalibration
  BY DEF Init, OfCalibration
<1>2. OfCalibration /\ TypeInv /\ [Next]_vars => OfCalibration'
  <2> SUFFICES ASSUME OfCalibration, TypeInv, [Next]_vars PROVE OfCalibration'
    OBVIOUS
  <2>1. CASE UNCHANGED <<bench, quartiles>>
    BY <2>1 DEF OfCalibration
  <2>2. CASE BenchTarget
    <3>1. PICK xs \in Benchmarks[actual] : \E ys \in Sorted(xs) :
            bench' = xs /\ quartiles' = interQuartileRange(ys)
      BY <2>2 DEF BenchTarget
    <3>2. xs \in Seq(Nat)
      BY <3>1, BenchmarksAssumption DEF TypeInv, TypeOK
    <3>3. QED
      BY <3>1, <3>2 DEF OfCalibration
  <2>3. QED
    BY <2>1, <2>2
       DEF Next, runTest, Calibration, CalibrationRequest, waitCurFreq, BenchStart,
           Iteration, StartStamp, Request, LateStamp, Detect, EndStamp, Sample,
           CheckTarget, Return, CheckStart, Report, Switch, calibration, vars
<1>3. QED
  BY <1>1, <1>2, TypeInvHolds, PTL DEF Spec

(* In the calibration at the target frequency of every execution, whatever *)
(* qsort() does with equal times, the bounds of the detection are the times*)
(* of rank n / 4 and 3 * n / 4, while all times fit an unsigned int        *)
(* (ConfInterval.c:92-126, main.c:143-145).                                 *)
THEOREM QuartilesHaveTheirRanks ==
  Spec => [](/\ QuartilesAreRanks
             /\ Len(bench) > 1 /\ (\A x \in ToSet(bench) : x < HalfWord) =>
                  /\ Rank(Len(bench) \div 4, quartiles[1])
                  /\ Rank((3 * Len(bench)) \div 4, quartiles[2]))
<1>1. OfCalibration => QuartilesAreRanks
  <2> SUFFICES ASSUME OfCalibration, Len(bench) > 1,
                      \A x \in ToSet(bench) : x < HalfWord, NEW ys \in Sorted(bench)
               PROVE  /\ Rank(Len(bench) \div 4, interQuartileRange(ys)[1])
                      /\ Rank((3 * Len(bench)) \div 4, interQuartileRange(ys)[2])
    BY Zenon DEF QuartilesAreRanks
  <2>1. QED
    BY RanksOfSorted DEF OfCalibration
<1>2. OfCalibration =>
        (Len(bench) > 1 /\ (\A x \in ToSet(bench) : x < HalfWord) =>
           /\ Rank(Len(bench) \div 4, quartiles[1])
           /\ Rank((3 * Len(bench)) \div 4, quartiles[2]))
  <2> SUFFICES ASSUME OfCalibration, Len(bench) > 1,
                      \A x \in ToSet(bench) : x < HalfWord
               PROVE  /\ Rank(Len(bench) \div 4, quartiles[1])
                      /\ Rank((3 * Len(bench)) \div 4, quartiles[2])
    OBVIOUS
  <2>1. bench # <<>>
    OBVIOUS
  <2>2. PICK ys \in Sorted(bench) : quartiles = interQuartileRange(ys)
    BY <2>1 DEF OfCalibration
  <2>3. QED
    BY <2>2, RanksOfSorted DEF OfCalibration
<1>3. QED
  BY <1>1, <1>2, OfCalibrationHolds, PTL

-----------------------------------------------------------------------------

(* The element of a set that a fold takes first, and the values of the fold*)
(* of f over the subsets of S.                                             *)
Some(s) == CHOOSE x \in s : TRUE

Sums(f, D) ==
  CHOOSE g : g = [s \in D |-> IF s = {} THEN 0 ELSE f[Some(s)] + g[s \ {Some(s)}]]

(* Induction: what holds of the empty set, and of a set whenever it holds  *)
(* of the set without one of its elements, holds of all finite sets.       *)
LEMMA SubsetInduction ==
  ASSUME NEW S, IsFiniteSet(S), NEW G, {} \in G,
         \A s \in SUBSET S : s # {} /\ s \ {Some(s)} \in G => s \in G
  PROVE  SUBSET S \subseteq G
<1> DEFINE T == {Cardinality(s) : s \in (SUBSET S) \ G}
<1> SUFFICES ASSUME (SUBSET S) \ G # {} PROVE FALSE
  OBVIOUS
<1>1. \A s \in SUBSET S : IsFiniteSet(s) /\ Cardinality(s) \in Nat
  BY FS_Subset, FS_CardinalityType
<1>2. PICK m \in T : \A i \in T : ~(<<i, m>> \in OpToRel(<, Nat))
  <2>1. T \subseteq Nat /\ T # {}
    BY <1>1
  <2>2. IsWellFoundedOn(OpToRel(<, Nat), Nat)
    BY NatLessThanWellFounded
  <2> HIDE DEF T
  <2>3. QED
    BY <2>1, <2>2, WFMin
<1>3. PICK s \in (SUBSET S) \ G : m = Cardinality(s)
  BY <1>2
<1>4. s # {} /\ Some(s) \in s
  <2>1. s # {}
    BY <1>3
  <2>2. QED
    BY <2>1, Zenon DEF Some
<1>5. s \ {Some(s)} \in SUBSET S /\ Cardinality(s \ {Some(s)}) = Cardinality(s) - 1
  BY <1>1, <1>3, <1>4, FS_RemoveElement
<1>6. s \ {Some(s)} \notin G
  BY <1>3, <1>4, Zenon
<1>7. Cardinality(s) - 1 \in T /\ Cardinality(s) - 1 \in Nat
  BY <1>1, <1>5, <1>6
<1>8. <<Cardinality(s) - 1, Cardinality(s)>> \in OpToRel(<, Nat)
  BY <1>1, <1>3, <1>7 DEF OpToRel
<1>9. QED
  BY <1>2, <1>3, <1>7, <1>8

(* The recursive function of the fold exists.                              *)
LEMMA SumsExist ==
  ASSUME NEW S, IsFiniteSet(S), NEW f
  PROVE  LET g == Sums(f, SUBSET S)
         IN  g = [s \in SUBSET S |-> IF s = {} THEN 0 ELSE f[Some(s)] + g[s \ {Some(s)}]]
<1> DEFINE Step(g, s) == IF s = {} THEN 0 ELSE f[Some(s)] + g[s \ {Some(s)}]
           Small(i) == {s \in SUBSET S : Cardinality(s) <= i}
           Is(g, D) == g = [s \in D |-> Step(g, s)]
           T == {i \in Nat : ~\E g : Is(g, Small(i))}
<1>1. \A s \in SUBSET S : IsFiniteSet(s) /\ Cardinality(s) \in Nat
  BY FS_Subset, FS_CardinalityType
<1>2. ASSUME NEW s \in SUBSET S, s # {}
      PROVE  s \ {Some(s)} \in SUBSET S /\ Cardinality(s \ {Some(s)}) = Cardinality(s) - 1
  <2>1. Some(s) \in s
    BY <1>2, Zenon DEF Some
  <2>2. QED
    BY <1>1, <2>1, FS_RemoveElement
<1>3. \E g : Is(g, Small(0))
  <2> DEFINE g == [s \in Small(0) |-> 0]
  <2>1. \A s \in Small(0) : s = {}
    BY <1>1, FS_EmptySet
  <2>2. Is(g, Small(0))
    BY <2>1, Zenon
  <2> HIDE DEF g, Is
  <2>3. QED
    BY <2>2, Zenon
<1>4. ASSUME NEW i \in Nat, NEW g, Is(g, Small(i))
      PROVE  \E h : Is(h, Small(i + 1))
  <2> DEFINE h == [s \in Small(i + 1) |-> Step(g, s)]
  <2>1. \A s \in Small(i + 1) : s \in Small(i) => h[s] = g[s]
    <3>1. \A s \in Small(i) : g[s] = Step(g, s)
      BY <1>4, Zenon
    <3> HIDE DEF Step, Small
    <3>2. QED
      BY <3>1
  <2>2. \A s \in Small(i + 1) : s # {} => s \ {Some(s)} \in Small(i) /\ s \ {Some(s)} \in Small(i + 1)
    <3> SUFFICES ASSUME NEW s \in Small(i + 1), s # {}
                 PROVE  s \ {Some(s)} \in Small(i) /\ s \ {Some(s)} \in Small(i + 1)
      OBVIOUS
    <3>1. s \in SUBSET S /\ Cardinality(s) \in Nat /\ Cardinality(s) <= i + 1
      BY <1>1
    <3>2. s \ {Some(s)} \in SUBSET S /\ Cardinality(s \ {Some(s)}) = Cardinality(s) - 1
      BY <1>2, <3>1
    <3>3. Cardinality(s) - 1 <= i /\ Cardinality(s) - 1 <= i + 1
      BY <3>1
    <3>4. QED
      BY <3>2, <3>3, Zenon
  <2>3. \A s \in Small(i + 1) : Step(g, s) = Step(h, s)
    <3> HIDE DEF h, Small
    <3>1. QED
      BY <2>1, <2>2, Zenon
  <2>4. Is(h, Small(i + 1))
    <3>1. h = [s \in Small(i + 1) |-> Step(g, s)]
      OBVIOUS
    <3>2. [s \in Small(i + 1) |-> Step(g, s)] = [s \in Small(i + 1) |-> Step(h, s)]
      BY <2>3, Zenon
    <3> HIDE DEF h, Small, Step
    <3>3. QED
      BY <3>1, <3>2
  <2> HIDE DEF h, Is
  <2>5. QED
    BY <2>4, Zenon
<1>5. T = {}
  <2> SUFFICES ASSUME T # {} PROVE FALSE
    OBVIOUS
  <2>1. PICK m \in T : \A i \in T : ~(<<i, m>> \in OpToRel(<, Nat))
    <3>1. T \subseteq Nat
      OBVIOUS
    <3>2. IsWellFoundedOn(OpToRel(<, Nat), Nat)
      BY NatLessThanWellFounded
    <3> HIDE DEF T
    <3>3. QED
      BY <3>1, <3>2, WFMin
  <2>2. m \in Nat /\ ~\E g : Is(g, Small(m))
    BY <2>1, Zenon
  <2> HIDE DEF Is, Small
  <2>3. m # 0
    BY <1>3, <2>2, Zenon
  <2>4. m - 1 \in Nat /\ m - 1 + 1 = m
    BY <2>2, <2>3
  <2>5. ~\E g : Is(g, Small(m - 1))
    BY <1>4, <2>2, <2>4
  <2>6. m - 1 \in T
    BY <2>4, <2>5, Zenon
  <2>7. <<m - 1, m>> \in OpToRel(<, Nat)
    BY <2>2, <2>4 DEF OpToRel
  <2>8. QED
    BY <2>1, <2>6, <2>7, Zenon
<1>6. \E g : Is(g, SUBSET S)
  <2>1. Cardinality(S) \in Nat /\ \A s \in SUBSET S : Cardinality(s) <= Cardinality(S)
    BY FS_CardinalityType, FS_Subset
  <2>2. Small(Cardinality(S)) = SUBSET S
    BY <2>1, Zenon
  <2>3. Cardinality(S) \notin T
    BY <1>5, Zenon
  <2> HIDE DEF Is, Small
  <2>4. QED
    BY <2>1, <2>2, <2>3, Zenon
<1>7. QED
  BY <1>6, Zenon DEF Sums

LEMMA TotalIs ==
  ASSUME NEW xs
  PROVE  Total(xs) = Sums(xs, SUBSET DOMAIN xs)[DOMAIN xs]
BY Zenon DEF Total, FoldSeq, FoldFunction, FoldFunctionOnSet, MapThenFoldSet, Sums, Some

(* One step of a fold.                                                     *)
LEMMA SumsStep ==
  ASSUME NEW S, IsFiniteSet(S), NEW f
  PROVE  LET g == Sums(f, SUBSET S) IN
         /\ g[{}] = 0
         /\ \A s \in SUBSET S : s # {} => g[s] = f[Some(s)] + g[s \ {Some(s)}]
<1> DEFINE g == Sums(f, SUBSET S)
<1>1. g = [s \in SUBSET S |-> IF s = {} THEN 0 ELSE f[Some(s)] + g[s \ {Some(s)}]]
  BY SumsExist
<1>2. {} \in SUBSET S
  OBVIOUS
<1> HIDE DEF g
<1>3. \A s \in SUBSET S : g[s] = IF s = {} THEN 0 ELSE f[Some(s)] + g[s \ {Some(s)}]
  BY <1>1, Zenon
<1>4. QED
  BY <1>2, <1>3, Zenon DEF g

-----------------------------------------------------------------------------

(* The indices of a sample.                                                *)
LEMMA Indices ==
  \A n \in Nat : IsFiniteSet(1..n) /\ Cardinality(1..n) = n
BY FS_Interval

(* Every element of the domain is between low and high, and so is the      *)
(* average.                                                                *)
LEMMA TotalBetween ==
  ASSUME NEW xs \in Seq(Int), NEW low \in Int, NEW high \in Int,
         \A i \in DOMAIN xs : low <= xs[i] /\ xs[i] <= high
  PROVE  /\ Total(xs) \in Int
         /\ Len(xs) * low <= Total(xs) /\ Total(xs) <= Len(xs) * high
<1> DEFINE n == Len(xs)
           S == 1..n
           g == Sums(xs, SUBSET S)
           G == {s \in SUBSET S : /\ g[s] \in Int
                                  /\ Cardinality(s) * low <= g[s]
                                  /\ g[s] <= Cardinality(s) * high}
<1>1. n \in Nat /\ DOMAIN xs = S /\ \A i \in S : xs[i] \in Int
  OBVIOUS
<1>2. IsFiniteSet(S) /\ Cardinality(S) = n
  BY <1>1, Indices
<1>3. /\ g[{}] = 0
      /\ \A s \in SUBSET S : s # {} => g[s] = xs[Some(s)] + g[s \ {Some(s)}]
  BY <1>2, SumsStep
<1>4. \A s \in SUBSET S : IsFiniteSet(s) /\ Cardinality(s) \in Nat
  BY <1>2, FS_Subset, FS_CardinalityType
<1>5. Total(xs) = g[S]
  BY <1>1, TotalIs
<1> HIDE DEF g, n, S
<1>6. {} \in G
  BY <1>3, FS_EmptySet
<1>7. ASSUME NEW s \in SUBSET S, s # {}, s \ {Some(s)} \in G PROVE s \in G
  <2> DEFINE t == s \ {Some(s)}
  <2>1. Some(s) \in s
    BY <1>7, Zenon DEF Some
  <2>2. g[s] = xs[Some(s)] + g[t] /\ Cardinality(t) = Cardinality(s) - 1
    BY <1>3, <1>4, <1>7, <2>1, FS_RemoveElement
  <2>3. /\ g[t] \in Int /\ Cardinality(t) * low <= g[t] /\ g[t] <= Cardinality(t) * high
    BY <1>7
  <2>4. xs[Some(s)] \in Int /\ low <= xs[Some(s)] /\ xs[Some(s)] <= high
    BY <1>1, <2>1
  <2>5. Cardinality(s) \in Nat
    BY <1>4
  <2>6. \A c, v, x \in Int :
          /\ c * low - low <= v /\ v <= c * high - high /\ low <= x /\ x <= high
          => c * low <= x + v /\ x + v <= c * high
    OBVIOUS
  <2> HIDE DEF t
  <2>7. /\ Cardinality(s) * low - low <= g[t]
        /\ g[t] <= Cardinality(s) * high - high
    <3>1. (Cardinality(s) - 1) * low = Cardinality(s) * low - low
      BY <2>5
    <3>2. (Cardinality(s) - 1) * high = Cardinality(s) * high - high
      BY <2>5
    <3>3. QED
      BY <2>2, <2>3, <3>1, <3>2
  <2> DEFINE c == Cardinality(s)
             x == xs[Some(s)]
             v == g[t]
  <2>8. c \in Int /\ v \in Int /\ x \in Int /\ g[s] = x + v
    BY <2>2, <2>3, <2>4, <2>5
  <2>9. /\ c * low - low <= v /\ v <= c * high - high /\ low <= x /\ x <= high
    BY <2>4, <2>7
  <2> HIDE DEF c, x, v
  <2>10. x + v \in Int /\ c * low <= x + v /\ x + v <= c * high
    BY <2>6, <2>8, <2>9
  <2>11. g[s] \in Int /\ Cardinality(s) * low <= g[s] /\ g[s] <= Cardinality(s) * high
    BY <2>8, <2>10 DEF c
  <2>12. QED
    BY <2>11
<1>8. S \in G
  <2> HIDE DEF G
  <2>1. SUBSET S \subseteq G
    BY <1>2, <1>6, <1>7, SubsetInduction
  <2>2. QED
    BY <2>1
<1>9. QED
  BY <1>2, <1>5, <1>8 DEF n

(* The sum of squares of values between low and high.                      *)
LEMMA SquaresBetween ==
  ASSUME NEW xs \in Seq(Int), NEW low \in Int, NEW high \in Int,
         \A i \in DOMAIN xs : low <= xs[i] /\ xs[i] <= high
  PROVE  LET sq == [i \in DOMAIN xs |-> xs[i] * xs[i]] IN
         /\ Total(sq) \in Int
         /\ Total(sq) <= (low + high) * Total(xs) - Len(xs) * (low * high)
<1> DEFINE n == Len(xs)
           S == 1..n
           sq == [i \in DOMAIN xs |-> xs[i] * xs[i]]
           g == Sums(xs, SUBSET S)
           h == Sums(sq, SUBSET S)
           G == {s \in SUBSET S : /\ g[s] \in Int /\ h[s] \in Int
                                  /\ h[s] <= (low + high) * g[s] - Cardinality(s) * (low * high)}
<1>1. n \in Nat /\ DOMAIN xs = S /\ \A i \in S : xs[i] \in Int
  OBVIOUS
<1>2. IsFiniteSet(S) /\ Cardinality(S) = n
  BY <1>1, Indices
<1>3. /\ g[{}] = 0
      /\ \A s \in SUBSET S : s # {} => g[s] = xs[Some(s)] + g[s \ {Some(s)}]
  BY <1>2, SumsStep
<1>4. /\ h[{}] = 0
      /\ \A s \in SUBSET S : s # {} => h[s] = sq[Some(s)] + h[s \ {Some(s)}]
  BY <1>2, SumsStep
<1>5. \A s \in SUBSET S : IsFiniteSet(s) /\ Cardinality(s) \in Nat
  BY <1>2, FS_Subset, FS_CardinalityType
<1>6. Total(xs) = g[S] /\ Total(sq) = h[S]
  <2>1. DOMAIN sq = S
    BY <1>1
  <2> HIDE DEF sq
  <2>2. QED
    BY <1>1, <2>1, TotalIs
<1>7. \A i \in S : sq[i] = xs[i] * xs[i]
  BY <1>1
<1> HIDE DEF g, h, n, S, sq
<1>8. {} \in G
  BY <1>3, <1>4, FS_EmptySet
<1>9. ASSUME NEW s \in SUBSET S, s # {}, s \ {Some(s)} \in G PROVE s \in G
  <2> DEFINE t == s \ {Some(s)}
             x == xs[Some(s)]
             c == Cardinality(s)
  <2>1. Some(s) \in s
    BY <1>9, Zenon DEF Some
  <2>2. g[s] = x + g[t] /\ h[s] = x * x + h[t] /\ Cardinality(t) = c - 1
    BY <1>3, <1>4, <1>5, <1>7, <1>9, <2>1, FS_RemoveElement
  <2>3. /\ g[t] \in Int /\ h[t] \in Int
        /\ h[t] <= (low + high) * g[t] - Cardinality(t) * (low * high)
    BY <1>9
  <2>4. x \in Int /\ low <= x /\ x <= high
    BY <1>1, <2>1
  <2>5. c \in Int
    BY <1>5
  <2> HIDE DEF t, x, c
  <2>6. x * x <= (low + high) * x - low * high
    <3>1. (x - low) * (high - x) >= 0
      BY <2>4
    <3>2. (x - low) * (high - x) = (low + high) * x - low * high - x * x
      BY <2>4
    <3>3. x * x \in Int /\ (low + high) * x \in Int /\ low * high \in Int
      BY <2>4
    <3>4. QED
      BY <3>1, <3>2, <3>3
  <2>7. (low + high) * (x + g[t]) = (low + high) * x + (low + high) * g[t]
    BY <2>3, <2>4
  <2>8. (c - 1) * (low * high) = c * (low * high) - low * high
    BY <2>5
  <2>9. x * x + h[t] <= (low + high) * (x + g[t]) - c * (low * high)
    <3>1. \A q, p, r, u, v, w \in Int :
            q <= p - r /\ u <= v - (w - r) => q + u <= (p + v) - w
      OBVIOUS
    <3>2. /\ x * x \in Int /\ (low + high) * x \in Int /\ low * high \in Int
          /\ (low + high) * g[t] \in Int /\ c * (low * high) \in Int
      <4>1. x \in Int /\ g[t] \in Int /\ low + high \in Int
        BY <2>3, <2>4
      <4>2. \A u, v \in Int : u * v \in Int
        OBVIOUS
      <4>3. QED
        BY <2>5, <4>1, <4>2, Zenon
    <3>3. h[t] <= (low + high) * g[t] - (c * (low * high) - low * high)
      BY <2>2, <2>3, <2>8
    <3>4. x * x + h[t] <= ((low + high) * x + (low + high) * g[t]) - c * (low * high)
      BY <2>3, <2>6, <3>1, <3>2, <3>3
    <3>5. QED
      BY <2>7, <3>4
  <2>10. g[s] \in Int /\ h[s] \in Int
    BY <2>2, <2>3, <2>4
  <2>11. h[s] <= (low + high) * g[s] - Cardinality(s) * (low * high)
    BY <2>2, <2>9 DEF c
  <2>12. QED
    BY <2>10, <2>11
<1>10. S \in G
  <2> HIDE DEF G
  <2>1. SUBSET S \subseteq G
    BY <1>2, <1>8, <1>9, SubsetInduction
  <2>2. QED
    BY <2>1
<1>11. QED
  BY <1>2, <1>6, <1>10 DEF n, sq

-----------------------------------------------------------------------------

(* The total of a linear function of the values.                           *)
LEMMA TotalLinear ==
  ASSUME NEW xs \in Seq(Int), NEW fac \in Int, NEW off \in Int
  PROVE  Total([i \in DOMAIN xs |-> fac * xs[i] - off]) = fac * Total(xs) - Len(xs) * off
<1> DEFINE n == Len(xs)
           S == 1..n
           ys == [i \in DOMAIN xs |-> fac * xs[i] - off]
           g == Sums(xs, SUBSET S)
           h == Sums(ys, SUBSET S)
           G == {s \in SUBSET S : /\ g[s] \in Int /\ h[s] \in Int
                                  /\ h[s] = fac * g[s] - Cardinality(s) * off}
<1>1. n \in Nat /\ DOMAIN xs = S /\ \A i \in S : xs[i] \in Int
  OBVIOUS
<1>2. IsFiniteSet(S) /\ Cardinality(S) = n
  BY <1>1, Indices
<1>3. /\ g[{}] = 0
      /\ \A s \in SUBSET S : s # {} => g[s] = xs[Some(s)] + g[s \ {Some(s)}]
  BY <1>2, SumsStep
<1>4. /\ h[{}] = 0
      /\ \A s \in SUBSET S : s # {} => h[s] = ys[Some(s)] + h[s \ {Some(s)}]
  BY <1>2, SumsStep
<1>5. \A s \in SUBSET S : IsFiniteSet(s) /\ Cardinality(s) \in Nat
  BY <1>2, FS_Subset, FS_CardinalityType
<1>6. Total(xs) = g[S] /\ Total(ys) = h[S]
  <2>1. DOMAIN ys = S
    BY <1>1
  <2> HIDE DEF ys
  <2>2. QED
    BY <1>1, <2>1, TotalIs
<1>7. \A i \in S : ys[i] = fac * xs[i] - off
  BY <1>1
<1> HIDE DEF g, h, n, S, ys
<1>8. {} \in G
  BY <1>3, <1>4, FS_EmptySet
<1>9. ASSUME NEW s \in SUBSET S, s # {}, s \ {Some(s)} \in G PROVE s \in G
  <2> DEFINE t == s \ {Some(s)}
             x == xs[Some(s)]
             c == Cardinality(s)
  <2>1. Some(s) \in s
    BY <1>9, Zenon DEF Some
  <2>2. g[s] = x + g[t] /\ h[s] = (fac * x - off) + h[t] /\ Cardinality(t) = c - 1
    BY <1>3, <1>4, <1>5, <1>7, <1>9, <2>1, FS_RemoveElement
  <2>3. /\ g[t] \in Int /\ h[t] \in Int
        /\ h[t] = fac * g[t] - Cardinality(t) * off
    BY <1>9
  <2>4. x \in Int /\ c \in Int
    BY <1>1, <1>5, <2>1
  <2> HIDE DEF t, x, c
  <2>5. fac * (x + g[t]) = fac * x + fac * g[t] /\ (c - 1) * off = c * off - off
    BY <2>3, <2>4
  <2>6. h[s] = fac * (x + g[t]) - c * off
    <3>1. /\ fac * x \in Int /\ fac * g[t] \in Int /\ c * off \in Int
      BY <2>3, <2>4
    <3>2. h[t] = fac * g[t] - (c * off - off)
      BY <2>2, <2>3, <2>5
    <3>3. h[s] = (fac * x + fac * g[t]) - c * off
      BY <2>2, <3>1, <3>2
    <3>4. QED
      BY <2>5, <3>3
  <2>7. g[s] \in Int /\ h[s] \in Int
    <3>1. x + g[t] \in Int
      BY <2>3, <2>4
    <3>2. fac * (x + g[t]) \in Int /\ c * off \in Int
      BY <2>4, <3>1
    <3>3. QED
      BY <2>2, <2>6, <3>1, <3>2
  <2>8. QED
    BY <2>2, <2>6, <2>7 DEF c
<1>10. S \in G
  <2> HIDE DEF G
  <2>1. SUBSET S \subseteq G
    BY <1>2, <1>8, <1>9, SubsetInduction
  <2>2. QED
    BY <2>1
<1>11. QED
  BY <1>2, <1>6, <1>10 DEF n, ys

LEMMA Monotone ==
  \A a, b, c \in Int : 0 <= c /\ a <= b => c * a <= c * b
<1> SUFFICES ASSUME NEW a \in Int, NEW b \in Int, NEW c \in Int, 0 <= c, a <= b
             PROVE  c * a <= c * b
  OBVIOUS
<1>1. c * (b - a) >= 0
  OBVIOUS
<1>2. c * (b - a) = c * b - c * a
  OBVIOUS
<1>3. QED
  BY <1>1, <1>2

(* A finite set of numbers has a least and a greatest one.                 *)
LEMMA MinMax ==
  ASSUME NEW S \in SUBSET Int, IsFiniteSet(S), S # {}
  PROVE  /\ Min(S) \in S /\ \A y \in S : Min(S) <= y
         /\ Max(S) \in S /\ \A y \in S : y <= Max(S)
<1> DEFINE Least(s) == \E x \in s : \A y \in s : x <= y
           Most(s) == \E x \in s : \A y \in s : x >= y
           G == {s \in SUBSET S : s = {} \/ (Least(s) /\ Most(s))}
<1>1. {} \in G
  OBVIOUS
<1>2. ASSUME NEW s \in SUBSET S, s # {}, s \ {Some(s)} \in G PROVE s \in G
  <2> DEFINE a == Some(s)
             t == s \ {a}
  <2>1. a \in s /\ a \in Int
    <3>1. a \in s
      BY <1>2, Zenon DEF Some
    <3>2. QED
      BY <3>1
  <2> HIDE DEF a
  <2>2. \A y \in s : y = a \/ y \in t
    OBVIOUS
  <2>3. t \in SUBSET s /\ t \in G
    BY <1>2 DEF a
  <2> HIDE DEF t
  <2>4. CASE t = {}
    BY <2>1, <2>2, <2>4
  <2>5. CASE t # {}
    <3>1. PICK x \in t : \A y \in t : x <= y
      BY <2>3, <2>5, Zenon
    <3>2. PICK z \in t : \A y \in t : z >= y
      BY <2>3, <2>5, Zenon
    <3>3. x \in s /\ z \in s /\ x \in Int /\ z \in Int /\ \A y \in t : y \in Int
      BY <2>3
    <3>4. Least(s)
      <4>1. CASE x <= a
        BY <2>2, <3>1, <3>3, <4>1
      <4>2. CASE a <= x
        <5>1. \A y \in t : a <= y
          BY <2>1, <3>1, <3>3, <4>2
        <5>2. QED
          BY <2>1, <2>2, <5>1
      <4>3. QED
        BY <2>1, <3>3, <4>1, <4>2
    <3>5. Most(s)
      <4>1. CASE z >= a
        BY <2>2, <3>2, <3>3, <4>1
      <4>2. CASE a >= z
        <5>1. \A y \in t : a >= y
          BY <2>1, <3>2, <3>3, <4>2
        <5>2. QED
          BY <2>1, <2>2, <5>1
      <4>3. QED
        BY <2>1, <3>3, <4>1, <4>2
    <3>6. QED
      BY <3>4, <3>5, Zenon
  <2>6. QED
    BY <2>4, <2>5
<1>3. SUBSET S \subseteq G
  <2> HIDE DEF G
  <2>1. QED
    BY <1>1, <1>2, SubsetInduction
<1>4. Least(S) /\ Most(S)
  BY <1>3
<1>5. Min(S) \in S /\ \A y \in S : Min(S) <= y
  BY <1>4, Zenon DEF Min
<1>6. Max(S) \in S /\ \A y \in S : Max(S) >= y
  BY <1>4, Zenon DEF Max
<1>7. QED
  BY <1>5, <1>6

(* A set that contains a but not b + 1 ends somewhere between.             *)
LEMMA EndsBetween ==
  ASSUME NEW B, NEW a \in Int, NEW b \in Int, a <= b, a \in B, b + 1 \notin B
  PROVE  \E m \in a..b : m \in B /\ m + 1 \notin B
<1> SUFFICES ASSUME \A m \in a..b : m \in B => m + 1 \in B PROVE FALSE
  OBVIOUS
<1> DEFINE T == {i \in 0..(b - a + 1) : a + i \notin B}
<1>1. b - a + 1 \in T
  OBVIOUS
<1>2. PICK m \in T : \A i \in T : m <= i
  <2>1. T \in SUBSET Int /\ T # {} /\ T \subseteq 0..(b - a + 1)
    BY <1>1
  <2>2. IsFiniteSet(T)
    <3> HIDE DEF T
    <3>1. IsFiniteSet(0..(b - a + 1))
      BY FS_Interval
    <3>2. QED
      BY <2>1, <3>1, FS_Subset
  <2> HIDE DEF T
  <2>3. QED
    BY <2>1, <2>2, MinMax
<1>3. m \in Int /\ 0 <= m /\ m <= b - a + 1 /\ a + m \notin B
  BY <1>2
<1>4. m # 0
  BY <1>3
<1>5. m - 1 \in 0..(b - a + 1) /\ m - 1 \notin T
  BY <1>2, <1>3, <1>4
<1>6. a + (m - 1) \in B
  BY <1>5
<1>7. a + (m - 1) \in a..b /\ a + (m - 1) + 1 = a + m
  BY <1>3, <1>4
<1>8. QED
  BY <1>3, <1>6, <1>7

(* The sample xs has its values between low and high, p and q are how far  *)
(* the total is from that of n low and of n high values.                   *)
LEMMA SpreadBound ==
  ASSUME NEW xs \in Seq(Nat), Len(xs) > 1
  PROVE  LET n == Len(xs)
             low == Min(ToSet(xs))
             high == Max(ToSet(xs))
             p == Total(xs) - n * low
             q == n * high - Total(xs)
         IN  /\ low \in Nat /\ high \in Nat /\ low <= high
             /\ \A i \in DOMAIN xs : low <= xs[i] /\ xs[i] <= high
             /\ low \in ToSet(xs) /\ high \in ToSet(xs)
             /\ Total(xs) \in Nat /\ p \in Nat /\ q \in Nat
             /\ Spread(xs) \in Int /\ Spread(xs) <= n * (p * q)
<1> DEFINE n == Len(xs)
           low == Min(ToSet(xs))
           high == Max(ToSet(xs))
           total == Total(xs)
           p == total - n * low
           q == n * high - total
<1>1. n \in Nat /\ n > 1 /\ DOMAIN xs = 1..n /\ \A i \in 1..n : xs[i] \in Nat
  OBVIOUS
<1>2. ToSet(xs) = {xs[i] : i \in 1..n}
  BY <1>1 DEF ToSet
<1>3. IsFiniteSet(ToSet(xs)) /\ ToSet(xs) # {} /\ ToSet(xs) \in SUBSET Int
  <2>1. IsFiniteSet(1..n)
    BY <1>1, Indices
  <2>2. 1 \in 1..n
    BY <1>1
  <2>3. IsFiniteSet({xs[i] : i \in 1..n})
    <3>1. xs \in Surjection(1..n, {xs[i] : i \in 1..n})
      BY <1>1 DEF Surjection
    <3>2. QED
      BY <2>1, <3>1, FS_Surjection, Zenon
  <2> HIDE DEF n
  <2>4. QED
    BY <1>1, <1>2, <2>2, <2>3
<1>4. /\ low \in ToSet(xs) /\ high \in ToSet(xs)
      /\ \A y \in ToSet(xs) : low <= y /\ y <= high
  BY <1>3, MinMax
<1> HIDE DEF n, low, high
<1>5. low \in Nat /\ high \in Nat
  BY <1>1, <1>2, <1>4
<1>6. \A i \in 1..n : low <= xs[i] /\ xs[i] <= high
  BY <1>2, <1>4
<1>7. xs \in Seq(Int)
  <2>1. xs \in [1..n -> Int]
    BY <1>1 DEF n
  <2>2. QED
    BY <1>1, <2>1, SeqDef
<1>8. total \in Int /\ n * low <= total /\ total <= n * high
  <2>1. low \in Int /\ high \in Int /\ \A i \in DOMAIN xs : low <= xs[i] /\ xs[i] <= high
    BY <1>1, <1>5, <1>6
  <2>2. /\ Total(xs) \in Int
        /\ Len(xs) * low <= Total(xs) /\ Total(xs) <= Len(xs) * high
    BY <1>7, <2>1, TotalBetween
  <2>3. QED
    BY <2>2 DEF n
<1>9. n * low \in Nat /\ n * high \in Nat
  BY <1>1, <1>5
<1>10. total \in Nat /\ p \in Nat /\ q \in Nat
  BY <1>8, <1>9
<1>11. low <= high
  BY <1>1, <1>5, <1>6
<1>12. Spread(xs) \in Int /\ Spread(xs) <= n * (p * q)
  <2> DEFINE ds == [i \in 1..n |-> n * xs[i] - total]
  <2>1. ds \in Seq(Int) /\ Len(ds) = n /\ DOMAIN ds = 1..n
    <3>1. \A i \in 1..n : n * xs[i] - total \in Int
      BY <1>1, <1>8
    <3>2. ds \in [1..n -> Int]
      BY <3>1
    <3> HIDE DEF ds
    <3>3. QED
      BY <1>1, <3>2, SeqDef
  <2>2. \A i \in 1..n : ds[i] = n * xs[i] - total
    OBVIOUS
  <2>3. Spread(xs) = Total([i \in DOMAIN ds |-> ds[i] * ds[i]])
    <3>1. \A i \in 1..n : (n * xs[i] - total) * (n * xs[i] - total) = ds[i] * ds[i]
      BY <2>2
    <3>2. [i \in 1..n |-> (n * xs[i] - total) * (n * xs[i] - total)] =
            [i \in 1..n |-> ds[i] * ds[i]]
      BY <3>1, Zenon
    <3>3. Spread(xs) = Total([i \in 1..n |-> (n * xs[i] - total) * (n * xs[i] - total)])
      BY <1>1, Zenon DEF Spread, n
    <3> HIDE DEF ds
    <3>4. QED
      BY <2>1, <3>2, <3>3, Zenon
  <2>4. \A i \in DOMAIN ds : -p <= ds[i] /\ ds[i] <= q
    <3> SUFFICES ASSUME NEW i \in 1..n PROVE -p <= ds[i] /\ ds[i] <= q
      BY <2>1
    <3>1. n * low <= n * xs[i] /\ n * xs[i] <= n * high
      <4>1. xs[i] \in Int /\ low <= xs[i] /\ xs[i] <= high
        BY <1>1, <1>6
      <4>2. n \in Int /\ low \in Int /\ high \in Int /\ 0 <= n
        BY <1>1, <1>5
      <4>3. n * low <= n * xs[i]
        BY <4>1, <4>2, Monotone, Zenon
      <4>4. n * xs[i] <= n * high
        BY <4>1, <4>2, Monotone, Zenon
      <4>5. QED
        BY <4>3, <4>4
    <3>2. n * xs[i] \in Int
      BY <1>1
    <3>3. QED
      BY <1>8, <1>9, <2>2, <3>1, <3>2
  <2>5. Total(ds) = 0
    <3>1. ds = [i \in DOMAIN xs |-> n * xs[i] - total]
      BY <1>1
    <3>2. Total(ds) = n * total - Len(xs) * total
      <4>1. n \in Int /\ total \in Int
        BY <1>1, <1>8
      <4> HIDE DEF ds, total
      <4>2. Total([i \in DOMAIN xs |-> n * xs[i] - total]) = n * Total(xs) - Len(xs) * total
        BY <1>7, <4>1, TotalLinear
      <4>3. QED
        BY <3>1, <4>2 DEF total
    <3>3. n * total - n * total = 0
      BY <1>1, <1>8
    <3>4. QED
      BY <3>2, <3>3 DEF n
  <2>6. QED
    <3>1. /\ Spread(xs) \in Int
          /\ Spread(xs) <= (-p + q) * Total(ds) - n * ((-p) * q)
      <4>1. -p \in Int /\ q \in Int
        BY <1>10
      <4> DEFINE a == -p
      <4>2. a \in Int /\ \A i \in DOMAIN ds : a <= ds[i] /\ ds[i] <= q
        BY <2>4, <4>1
      <4> HIDE DEF p, q, ds, a
      <4>3. LET sq == [i \in DOMAIN ds |-> ds[i] * ds[i]] IN
            /\ Total(sq) \in Int
            /\ Total(sq) <= (a + q) * Total(ds) - Len(ds) * (a * q)
        BY <2>1, <4>1, <4>2, SquaresBetween
      <4>4. /\ Spread(xs) \in Int
            /\ Spread(xs) <= (a + q) * Total(ds) - Len(ds) * (a * q)
        BY <2>3, <4>3
      <4>5. Len(ds) = n
        BY <2>1
      <4>6. QED
        BY <4>4, <4>5 DEF a
    <3>2. (-p + q) * 0 - n * ((-p) * q) = n * (p * q)
      BY <1>1, <1>10
    <3>3. QED
      BY <2>5, <3>1, <3>2
<1>13. QED
  BY <1>1, <1>4, <1>5, <1>6, <1>10, <1>11, <1>12 DEF n, low, high

(* The error test only looks at products; which ones it compares.          *)
LEMMA ErrorTest ==
  ASSUME NEW n \in Int, NEW spread \in Int, NEW d \in Int
  PROVE  ExceedsError(n, spread, d) <=>
           d >= 0 /\ 2401 * spread <= 625 * n * (n - 1) * (d * d)
<1>1. 49 ^ 2 = 2401 /\ 25 ^ 2 = 625
  OBVIOUS
<1>2. QED
  BY <1>1 DEF ExceedsError, Confidence

(* Of two distances from the average the greater one passes the test too.  *)
LEMMA ErrorTestMonotone ==
  ASSUME NEW n \in Nat, n > 1, NEW spread \in Int, NEW d \in Int, NEW e \in Int,
         ExceedsError(n, spread, d), d <= e
  PROVE  ExceedsError(n, spread, e)
<1> DEFINE w == 625 * n * (n - 1)
<1>1. w \in Nat
  <2> DEFINE a == 625 * n
             b == n - 1
  <2>1. a \in Nat /\ b \in Nat
    OBVIOUS
  <2> HIDE DEF a, b
  <2>2. a * b \in Nat
    BY <2>1
  <2>3. QED
    BY <2>2 DEF a, b
<1> HIDE DEF w
<1>2. d >= 0 /\ 2401 * spread <= w * (d * d)
  BY ErrorTest DEF w
<1>3. d * d <= e * e
  <2>1. d * d <= d * e
    BY <1>2, Monotone
  <2>2. e * d <= e * e
    BY <1>2, Monotone
  <2>3. d * e = e * d /\ d * d \in Int /\ e * e \in Int /\ d * e \in Int
    OBVIOUS
  <2>4. QED
    BY <2>1, <2>2, <2>3
<1>4. w * (d * d) <= w * (e * e)
  BY <1>1, <1>3, Monotone
<1>5. /\ w * (d * d) \in Int /\ w * (e * e) \in Int
      /\ 2401 * spread \in Int
  BY <1>1
<1>6. e >= 0 /\ 2401 * spread <= w * (e * e)
  BY <1>2, <1>4, <1>5
<1>7. QED
  BY <1>6, ErrorTest DEF w

(* A distance whose square is at least 8 p q passes the test.              *)
LEMMA FarEnough ==
  ASSUME NEW n \in Nat, n > 1, NEW p \in Nat, NEW q \in Nat,
         NEW spread \in Int, spread <= n * (p * q)
  PROVE  ExceedsError(n, spread, 2 * p + q)
<1> DEFINE d == 2 * p + q
           w == n * (p * q)
           u == n * (d * d)
<1>1. d \in Nat /\ p * q \in Nat /\ d * d \in Nat
  OBVIOUS
<1>2. 8 * (p * q) <= d * d
  <2>1. (2 * p - q) * (2 * p - q) >= 0
    OBVIOUS
  <2>2. (2 * p - q) * (2 * p - q) = d * d - 8 * (p * q)
    OBVIOUS
  <2> HIDE DEF d
  <2>3. QED
    BY <1>1, <2>1, <2>2
<1> HIDE DEF d
<1>3. w \in Nat /\ u \in Nat
  BY <1>1
<1>4. 8 * w <= u
  <2>1. n * (8 * (p * q)) <= u
    BY <1>1, <1>2, Monotone
  <2>2. n * (8 * (p * q)) = 8 * w
    BY <1>1
  <2>3. QED
    BY <2>1, <2>2
<1>5. 625 * n * (n - 1) * (d * d) = 625 * ((n - 1) * u)
  BY <1>1
<1>6. u <= (n - 1) * u
  <2>1. n - 1 \in Int /\ 1 <= n - 1
    OBVIOUS
  <2> HIDE DEF u
  <2>2. u * 1 <= u * (n - 1)
    BY <1>3, <2>1, Monotone
  <2>3. QED
    BY <1>3, <2>2
<1>7. (n - 1) * u \in Int
  BY <1>3
<1> HIDE DEF w, u
<1>8. spread <= w
  BY DEF w
<1>9. 2401 * spread <= 625 * ((n - 1) * u)
  BY <1>3, <1>4, <1>6, <1>7, <1>8
<1>10. QED
  BY <1>1, <1>5, <1>9, ErrorTest DEF d

(* Where the bounds are before the casts: around the sample, the low one   *)
(* not above the average and the high one not below.                       *)
LEMMA FloorIs ==
  ASSUME NEW xs \in Seq(Nat), Len(xs) > 1
  PROVE  LET n == Len(xs) IN
         /\ Floor(xs) \in Around(xs)
         /\ ExceedsError(n, Spread(xs), Total(xs) - n * Floor(xs))
         /\ ~ExceedsError(n, Spread(xs), Total(xs) - n * (Floor(xs) + 1))
<1> DEFINE n == Len(xs)
           low == Min(ToSet(xs))
           high == Max(ToSet(xs))
           total == Total(xs)
           spread == Spread(xs)
           p == total - n * low
           q == n * high - total
           Below(m) == ExceedsError(n, spread, total - n * m)
           B == {m \in Int : Below(m)}
           first == 2 * low - high
           last == 2 * high - low
<1>1. /\ low \in Nat /\ high \in Nat /\ low <= high
      /\ total \in Nat /\ p \in Nat /\ q \in Nat
      /\ spread \in Int /\ spread <= n * (p * q)
  BY SpreadBound
<1>2. n \in Nat /\ n > 1
  OBVIOUS
<1> HIDE DEF n, low, high, total, spread
<1>3. n * low \in Int /\ n * high \in Int
  BY <1>1, <1>2
<1>4. total - n * first = 2 * p + q
  <2>1. n * first = 2 * (n * low) - n * high
    BY <1>1, <1>2
  <2>2. n * first \in Int
    BY <1>3, <2>1
  <2>3. \A t, a, b, x \in Int : x = 2 * a - b => t - x = 2 * (t - a) + (b - t)
    OBVIOUS
  <2>4. total \in Int
    BY <1>1
  <2> HIDE DEF first
  <2>5. QED
    BY <1>3, <2>1, <2>2, <2>3, <2>4
<1>5. ExceedsError(n, spread, 2 * p + q)
  <2> HIDE DEF p, q
  <2>1. QED
    BY <1>1, <1>2, FarEnough
<1>6. first \in Int /\ last \in Int /\ first <= last
  BY <1>1
<1>7. first \in B
  BY <1>4, <1>5, <1>6
<1>8. last + 1 \notin B
  <2>1. n * (last + 1) = 2 * (n * high) - n * low + n
    BY <1>1, <1>2
  <2>2. n * low <= n * high
    BY <1>1, <1>2, Monotone
  <2>3. total - n * (last + 1) < 0
    BY <1>1, <1>2, <1>3, <2>1, <2>2
  <2>4. total - n * (last + 1) \in Int
    BY <1>1, <1>2, <1>6
  <2>5. ~Below(last + 1)
    BY <1>1, <1>2, <2>3, <2>4, ErrorTest
  <2>6. QED
    BY <2>5
<1>9. \E m \in first..last : Below(m) /\ ~Below(m + 1)
  <2> HIDE DEF first, last
  <2>1. PICK m \in first..last : m \in B /\ m + 1 \notin B
    <3> HIDE DEF B
    <3>1. QED
      BY <1>6, <1>7, <1>8, EndsBetween
  <2>2. m \in Int /\ m + 1 \in Int
    BY <1>6
  <2>3. Below(m) /\ ~Below(m + 1)
    BY <2>1, <2>2
  <2>4. QED
    BY <2>3
<1>10. Around(xs) = first..last
  BY DEF Around, low, high
<1>11. Floor(xs) = CHOOSE m \in Around(xs) : Below(m) /\ ~Below(m + 1)
  BY DEF Floor, n, total, spread
<1>12. Floor(xs) \in Around(xs) /\ Below(Floor(xs)) /\ ~Below(Floor(xs) + 1)
  <2> HIDE DEF first, last, Below
  <2>1. QED
    BY <1>9, <1>10, <1>11, Zenon
<1>13. QED
  BY <1>12 DEF n, total, spread

LEMMA CeilIs ==
  ASSUME NEW xs \in Seq(Nat), Len(xs) > 1
  PROVE  LET n == Len(xs) IN
         /\ Ceil(xs) \in Around(xs)
         /\ ExceedsError(n, Spread(xs), n * Ceil(xs) - Total(xs))
         /\ ~ExceedsError(n, Spread(xs), n * (Ceil(xs) - 1) - Total(xs))
<1> DEFINE n == Len(xs)
           low == Min(ToSet(xs))
           high == Max(ToSet(xs))
           total == Total(xs)
           spread == Spread(xs)
           p == total - n * low
           q == n * high - total
           Above(m) == ExceedsError(n, spread, n * m - total)
           B == {m \in Int : ~Above(m)}
           first == 2 * low - high
           last == 2 * high - low
<1>1. /\ low \in Nat /\ high \in Nat /\ low <= high
      /\ total \in Nat /\ p \in Nat /\ q \in Nat
      /\ spread \in Int /\ spread <= n * (p * q)
  BY SpreadBound
<1>2. n \in Nat /\ n > 1
  OBVIOUS
<1> HIDE DEF n, low, high, total, spread
<1>3. n * low \in Int /\ n * high \in Int
  BY <1>1, <1>2
<1>4. n * last - total = 2 * q + p
  <2>1. n * last = 2 * (n * high) - n * low
    BY <1>1, <1>2
  <2>2. n * last \in Int
    BY <1>3, <2>1
  <2>3. \A t, a, b, x \in Int : x = 2 * b - a => x - t = 2 * (b - t) + (t - a)
    OBVIOUS
  <2>4. total \in Int
    BY <1>1
  <2> HIDE DEF last
  <2>5. QED
    BY <1>3, <2>1, <2>2, <2>3, <2>4
<1>5. ExceedsError(n, spread, 2 * q + p)
  <2> HIDE DEF p, q
  <2>1. p * q = q * p
    BY <1>1
  <2>2. QED
    BY <1>1, <1>2, <2>1, FarEnough
<1>6. first \in Int /\ last \in Int /\ first <= last
  BY <1>1
<1>7. last \notin B
  BY <1>4, <1>5, <1>6
<1>8. first - 1 \in B
  <2>1. n * (first - 1) = 2 * (n * low) - n * high - n
    BY <1>1, <1>2
  <2>2. n * low <= n * high
    BY <1>1, <1>2, Monotone
  <2>3. n * (first - 1) - total < 0
    BY <1>1, <1>2, <1>3, <2>1, <2>2
  <2>4. n * (first - 1) - total \in Int /\ first - 1 \in Int
    BY <1>1, <1>2, <1>6
  <2>5. ~Above(first - 1)
    BY <1>1, <1>2, <2>3, <2>4, ErrorTest
  <2>6. QED
    BY <2>4, <2>5
<1>9. \E m \in first..last : Above(m) /\ ~Above(m - 1)
  <2> HIDE DEF first, last
  <2>1. first - 1 \in Int /\ last - 1 \in Int /\ first - 1 <= last - 1 /\ (last - 1) + 1 = last
    BY <1>6
  <2>2. PICK m \in (first - 1)..(last - 1) : m \in B /\ m + 1 \notin B
    <3> HIDE DEF B
    <3>1. QED
      BY <1>7, <1>8, <2>1, EndsBetween
  <2>3. m \in Int /\ m + 1 \in first..last /\ (m + 1) - 1 = m /\ m + 1 \in Int
    BY <1>6
  <2>4. Above(m + 1) /\ ~Above(m)
    BY <2>2, <2>3
  <2> HIDE DEF Above
  <2>5. QED
    BY <2>3, <2>4
<1>10. Around(xs) = first..last
  BY DEF Around, low, high
<1>11. Ceil(xs) = CHOOSE m \in Around(xs) : Above(m) /\ ~Above(m - 1)
  BY DEF Ceil, n, total, spread
<1>12. Ceil(xs) \in Around(xs) /\ Above(Ceil(xs)) /\ ~Above(Ceil(xs) - 1)
  <2> HIDE DEF first, last, Above
  <2>1. QED
    BY <1>9, <1>10, <1>11, Zenon
<1>13. QED
  BY <1>12 DEF n, total, spread

(* No bound is negative when no value is more than n times the least.      *)
LEMMA FloorIsPositive ==
  ASSUME NEW xs \in Seq(Nat), Len(xs) > 1,
         Max(ToSet(xs)) <= Len(xs) * Min(ToSet(xs))
  PROVE  Floor(xs) >= 0
<1> DEFINE n == Len(xs)
           low == Min(ToSet(xs))
           high == Max(ToSet(xs))
           total == Total(xs)
           spread == Spread(xs)
           p == total - n * low
           q == n * high - total
           f == Floor(xs)
           np == n * p
           y == (n - 1) * total
<1>1. /\ low \in Nat /\ high \in Nat /\ low <= high
      /\ total \in Nat /\ p \in Nat /\ q \in Nat
      /\ spread \in Int /\ spread <= n * (p * q)
  BY SpreadBound
<1>2. n \in Nat /\ n > 1 /\ high <= n * low
  OBVIOUS
<1>3. f \in Int /\ ~ExceedsError(n, spread, total - n * (f + 1))
  <2>1. Around(xs) \subseteq Int
    BY <1>1 DEF Around
  <2>2. QED
    BY <2>1, FloorIs
<1> SUFFICES ASSUME f < 0 PROVE FALSE
  BY <1>3 DEF f
<1> HIDE DEF n, low, high, total, spread, f
<1>4. n * low \in Int /\ n * high \in Int /\ n * (n * low) \in Int /\ n * total \in Int
  BY <1>1, <1>2
<1>5. q <= y - np
  <2>1. n * high <= n * (n * low)
    BY <1>1, <1>2, <1>4, Monotone
  <2>2. n * p = n * total - n * (n * low)
    BY <1>1, <1>2, <1>4
  <2>3. y = n * total - total
    BY <1>1, <1>2
  <2> HIDE DEF y
  <2>4. np = n * total - n * (n * low)
    BY <2>2
  <2> HIDE DEF np
  <2>5. \A t, u, a, b, z, x \in Int : b <= a /\ z = u - t /\ x = u - a => b - t <= z - x
    OBVIOUS
  <2>6. np \in Int /\ total \in Int
    <3>1. total \in Int
      BY <1>1
    <3>2. np \in Int
      BY <1>4, <2>4
    <3>3. QED
      BY <3>1, <3>2
  <2>7. y \in Int
    BY <1>4, <2>3, <2>6
  <2> HIDE DEF y
  <2>8. QED
    BY <1>4, <2>1, <2>3, <2>4, <2>5, <2>6, <2>7
<1> HIDE DEF p, q
<1>6. np \in Nat /\ y \in Nat
  BY <1>1, <1>2
<1>7. n * (p * q) = np * q
  BY <1>1, <1>2
<1> HIDE DEF np
<1>8. np * q <= np * (y - np)
  <2>1. q \in Int /\ y - np \in Int /\ np \in Int /\ 0 <= np
    BY <1>1, <1>6
  <2>2. QED
    BY <1>5, <2>1, Monotone, Zenon
<1>9. 4 * (np * (y - np)) <= y * y
  <2>1. (y - 2 * np) * (y - 2 * np) >= 0
    BY <1>6
  <2> HIDE DEF y
  <2>2. (y - 2 * np) * (y - 2 * np) = y * y - 4 * (np * (y - np))
    BY <1>6
  <2>3. y * y \in Int /\ np * (y - np) \in Int
    BY <1>6
  <2>4. QED
    BY <2>1, <2>2, <2>3
<1> DEFINE v == (n - 1) * (total * total)
<1>10. y * y = (n - 1) * v
  BY <1>1, <1>2
<1>11. v \in Nat /\ y * y \in Int /\ np * q \in Int /\ np * (y - np) \in Int
  BY <1>1, <1>2, <1>6
<1>12. 625 * n * (n - 1) * (total * total) = 625 * (n * v)
  BY <1>1, <1>2
<1> HIDE DEF v, y
<1>13. (n - 1) * v = n * v - v /\ n * v \in Int
  BY <1>2, <1>11
<1>14. 4 * spread <= n * v - v
  BY <1>1, <1>7, <1>8, <1>9, <1>10, <1>11, <1>13
<1>15. 0 <= n * v
  BY <1>2, <1>11
<1>16. 2401 * spread <= 625 * (n * v)
  BY <1>1, <1>11, <1>13, <1>14, <1>15
<1>17. ExceedsError(n, spread, total)
  BY <1>1, <1>2, <1>12, <1>16, ErrorTest
<1>18. total <= total - n * (f + 1) /\ total - n * (f + 1) \in Int
  <2>1. f + 1 \in Int /\ f + 1 <= 0
    BY <1>3
  <2>2. n * (f + 1) <= n * 0
    BY <1>2, <2>1, Monotone
  <2>3. n * (f + 1) \in Int /\ n * 0 = 0
    BY <1>2, <2>1
  <2>4. QED
    BY <1>1, <2>2, <2>3
<1>19. QED
  BY <1>1, <1>2, <1>3, <1>17, <1>18, ErrorTestMonotone

(* Then the casts change nothing and the interval contains the average.    *)
LEMMA NoOutlier ==
  ASSUME NEW xs \in Seq(Nat), Len(xs) > 1, \A x \in ToSet(xs) : x < HalfWord,
         Max(ToSet(xs)) <= Len(xs) * Min(ToSet(xs))
  PROVE  /\ LowBound(xs) = Floor(xs) /\ HighBound(xs) = Ceil(xs)
         /\ LowBound(xs) <= HighBound(xs)
         /\ Inside(xs, confidenceInterval(xs))
<1> DEFINE n == Len(xs)
           low == Min(ToSet(xs))
           high == Max(ToSet(xs))
           total == Total(xs)
           spread == Spread(xs)
           f == Floor(xs)
           c == Ceil(xs)
<1>1. /\ low \in Nat /\ high \in Nat /\ low <= high /\ high \in ToSet(xs)
      /\ total \in Nat /\ spread \in Int
      /\ n * high - total \in Nat
  BY SpreadBound
<1>2. n \in Nat /\ n > 1
  OBVIOUS
<1>3. /\ f \in Int /\ f <= 2 * high - low /\ ExceedsError(n, spread, total - n * f)
      /\ c \in Int /\ c <= 2 * high - low /\ ExceedsError(n, spread, n * c - total)
  <2>1. \A m \in Around(xs) : m \in Int /\ m <= 2 * high - low
    BY <1>1 DEF Around
  <2> HIDE DEF low, high
  <2>2. QED
    BY <2>1, FloorIs, CeilIs
<1>4. f >= 0
  BY FloorIsPositive
<1>5. high < HalfWord
  BY <1>1
<1>6. 2 * high - low < Word /\ Word \in Nat
  <2>1. HalfWord \in Nat /\ HalfWord >= 2
    BY HalfAssumption
  <2>2. HalfWord * 2 <= HalfWord * HalfWord
    BY <2>1, Monotone
  <2> HIDE DEF high, low
  <2>3. HalfWord * HalfWord \in Nat
    BY <2>1
  <2>4. QED
    BY <1>1, <1>5, <2>1, <2>2, <2>3 DEF Word
<1>7. Inside(xs, <<f, c>>) /\ f <= c
  <2> HIDE DEF n, total, spread, f, c
  <2>1. n * f \in Int /\ n * c \in Int
    BY <1>2, <1>3
  <2>2. total - n * f >= 0 /\ n * c - total >= 0
    BY <1>1, <1>2, <1>3, <2>1, ErrorTest
  <2>3. total >= n * f /\ total <= n * c
    BY <1>1, <2>1, <2>2
  <2>4. f <= c
    <3> SUFFICES ASSUME c + 1 <= f PROVE FALSE
      BY <1>3
    <3>1. n * (c + 1) <= n * f
      BY <1>2, <1>3, Monotone
    <3>2. n * (c + 1) = n * c + n
      BY <1>2, <1>3
    <3>3. QED
      BY <1>1, <1>2, <2>1, <2>3, <3>1, <3>2
  <2>5. QED
    BY <2>3, <2>4 DEF Inside, n, total
<1> HIDE DEF f, c, high, low
<1>8. f % Word = f /\ c % Word = c
  <2>1. f \in 0..(Word - 1) /\ c \in 0..(Word - 1)
    <3>1. /\ f \in Int /\ c \in Int /\ 0 <= f /\ f <= c /\ c <= 2 * high - low
      BY <1>3, <1>4, <1>7
    <3>2. high \in Int /\ low \in Int
      BY <1>1
    <3>3. QED
      BY <1>6, <3>1, <3>2
  <2>2. \A w \in Nat : \A v \in 0..(w - 1) : v % w = v
    OBVIOUS
  <2>3. QED
    BY <1>6, <2>1, <2>2
<1>9. LowBound(xs) = f /\ HighBound(xs) = c
  BY <1>8 DEF LowBound, HighBound, f, c
<1>10. QED
  BY <1>7, <1>9, Zenon DEF confidenceInterval, f, c

(* In the calibration of every execution the low bound is only above the   *)
(* high one, by wrapping around below zero, when some loop took more than n*)
(* times as long as the shortest one; otherwise the interval encloses the  *)
(* average of the sample, while all times fit an unsigned int              *)
(* (ConfInterval.c:72-90, main.c:138-141).                                 *)
THEOREM WrapsOnlyForOutliers ==
  Spec => [](/\ WrapNeedsOutlier
             /\ Len(bench) > 1 /\ (\A x \in ToSet(bench) : x < HalfWord)
                  /\ Max(ToSet(bench)) <= Len(bench) * Min(ToSet(bench)) =>
                  Inside(bench, confidenceInterval(bench)))
<1> DEFINE Small == Len(bench) > 1 /\ (\A x \in ToSet(bench) : x < HalfWord)
           Even == Max(ToSet(bench)) <= Len(bench) * Min(ToSet(bench))
<1>1. ASSUME OfCalibration, Small, Even
      PROVE  /\ LowBound(bench) \in Int /\ HighBound(bench) \in Int
             /\ LowBound(bench) <= HighBound(bench)
             /\ Inside(bench, confidenceInterval(bench))
  <2>1. bench \in Seq(Nat)
    BY <1>1 DEF OfCalibration
  <2>2. Around(bench) \subseteq Int
    BY <1>1, <2>1, SpreadBound DEF Around
  <2>3. Floor(bench) \in Int /\ Ceil(bench) \in Int
    BY <1>1, <2>1, <2>2, FloorIs, CeilIs
  <2>4. QED
    BY <1>1, <2>1, <2>3, NoOutlier
<1>2. ASSUME OfCalibration, Small, LowBound(bench) > HighBound(bench)
      PROVE  Max(ToSet(bench)) > Len(bench) * Min(ToSet(bench))
  <2>1. bench \in Seq(Nat)
    BY <1>2 DEF OfCalibration
  <2>2. Max(ToSet(bench)) \in Nat /\ Min(ToSet(bench)) \in Nat
    BY <1>2, <2>1, SpreadBound
  <2>3. Len(bench) * Min(ToSet(bench)) \in Nat
    BY <2>1, <2>2
  <2>4. ~Even
    BY <1>1, <1>2
  <2>5. QED
    BY <2>2, <2>3, <2>4
<1>3. OfCalibration =>
        /\ WrapNeedsOutlier
        /\ Small /\ Even => Inside(bench, confidenceInterval(bench))
  BY <1>1, <1>2 DEF WrapNeedsOutlier
<1>4. QED
  BY <1>3, OfCalibrationHolds, PTL

-----------------------------------------------------------------------------

(* The interval of a sample within a span is not further from the span than*)
(* the span is wide.                                                       *)
LEMMA QuietInterval ==
  ASSUME NEW xs \in Seq(Nat), Len(xs) > 1, NEW low \in Nat, NEW high \in Nat,
         Quiet(xs, low, high), high <= 2 * low, 2 * high - low < Word
  PROVE  LET v == confidenceInterval(xs) IN
         /\ v[1] \in Int /\ 2 * low - high <= v[1] /\ v[1] <= 2 * high - low
         /\ v[2] \in Int /\ 2 * low - high <= v[2] /\ v[2] <= 2 * high - low
<1> DEFINE first == Min(ToSet(xs))
           last == Max(ToSet(xs))
<1>1. first \in Nat /\ last \in Nat /\ first \in low..high /\ last \in low..high
  BY SpreadBound DEF Quiet
<1>2. \A m \in Around(xs) : m \in Int /\ 2 * low - high <= m /\ m <= 2 * high - low
  <2>1. Around(xs) = (2 * first - last)..(2 * last - first)
    BY DEF Around
  <2> HIDE DEF first, last
  <2>2. QED
    BY <1>1, <2>1
<1>3. /\ Floor(xs) \in Int /\ 2 * low - high <= Floor(xs) /\ Floor(xs) <= 2 * high - low
      /\ Ceil(xs) \in Int /\ 2 * low - high <= Ceil(xs) /\ Ceil(xs) <= 2 * high - low
  BY <1>2, FloorIs, CeilIs
<1>4. Word \in Nat
  BY HalfAssumption DEF Word
<1>5. Floor(xs) % Word = Floor(xs) /\ Ceil(xs) % Word = Ceil(xs)
  <2>1. Floor(xs) \in 0..(Word - 1) /\ Ceil(xs) \in 0..(Word - 1)
    BY <1>3, <1>4
  <2>2. \A w \in Nat : \A v \in 0..(w - 1) : v % w = v
    OBVIOUS
  <2>3. QED
    BY <1>4, <2>1, <2>2
<1>6. confidenceInterval(xs) = <<Floor(xs), Ceil(xs)>>
  BY <1>5, Zenon DEF confidenceInterval, LowBound, HighBound
<1>7. QED
  BY <1>3, <1>6

(* Both quartiles of a sample are values of it.                            *)
LEMMA QuietQuartiles ==
  ASSUME NEW xs \in Seq(Nat), Len(xs) > 1, NEW low \in Nat, NEW high \in Nat,
         Quiet(xs, low, high), NEW ys \in Sorted(xs)
  PROVE  LET range == interQuartileRange(ys)
         IN  range[1] \in low..high /\ range[2] \in low..high
<1>1. xs \in Seq(low..high)
  <2>1. Len(xs) \in Nat /\ \A n \in 1..Len(xs) : xs[n] \in low..high
    BY DEF Quiet, ToSet
  <2>2. xs \in [1..Len(xs) -> low..high]
    BY <2>1
  <2>3. QED
    BY <2>1, <2>2, SeqDef
<1>2. ys \in Seq(low..high) /\ Len(ys) = Len(xs) /\ Len(xs) \in Nat
  BY <1>1, SortedType
<1>3. Len(ys) \div 4 + 1 \in 1..Len(ys) /\ (3 * Len(ys)) \div 4 + 1 \in 1..Len(ys)
  <2>1. \A n \in Nat : n > 1 => n \div 4 + 1 \in 1..n /\ (3 * n) \div 4 + 1 \in 1..n
    OBVIOUS
  <2>2. QED
    BY <1>2, <2>1
<1>4. QED
  BY <1>2, <1>3, ElementOfSeq DEF interQuartileRange

(* Times within spans that are far enough apart are told apart by every    *)
(* comparison of runTest(), and so are the calibrations (main.c:148, 231,  *)
(* 255 and 263).                                                           *)
THEOREM SpansSuffice ==
  ASSUME NEW startLow \in Nat, NEW startHigh \in Nat,
         NEW targetLow \in Nat, NEW targetHigh \in Nat,
         SpansApart(startLow, startHigh, targetLow, targetHigh)
  PROVE  /\ TimesApart /\ SamplesApart
         /\ \A xs \in Benchmarks[StartFreq], bm \in Benchmarks[TargetFreq] :
              Quiet(xs, startLow, startHigh) => ~Equal(xs, bm)
<1> DEFINE a == 2 * startLow - startHigh
           b == 2 * startHigh - startLow
           c == 2 * targetLow - targetHigh
           d == 2 * targetHigh - targetLow
<1>1. /\ a \in Int /\ b \in Int /\ c \in Int /\ d \in Int
      /\ \/ d < a /\ 100 * targetHigh < 95 * a /\ targetHigh < startLow
         \/ b < c /\ 105 * b < 100 * targetLow /\ startHigh < targetLow
  <2>1. startLow <= startHigh /\ targetLow <= targetHigh
    BY DEF SpansApart
  <2>2. \/ d < a /\ 100 * targetHigh < 95 * a
        \/ b < c /\ 105 * b < 100 * targetLow
    BY DEF SpansApart
  <2>3. QED
    BY <2>1, <2>2
<1> HIDE DEF a, b, c, d
<1>2. /\ \A time \in LoopTimes[StartFreq] :
           time \in Nat /\ startLow <= time /\ time <= startHigh
      /\ \A time \in LoopTimes[TargetFreq] :
           time \in Nat /\ targetLow <= time /\ time <= targetHigh
  BY LoopTimesAssumption DEF SpansApart, Freqs
<1>3. \A f \in Freqs : \A xs \in Benchmarks[f] : xs \in Seq(Nat) /\ Len(xs) > 1
  BY BenchmarksAssumption, BoundsAssumption
<1>4. ASSUME NEW xs \in Seq(Nat), Len(xs) > 1, Quiet(xs, startLow, startHigh)
      PROVE  LET v == confidenceInterval(xs) IN
             /\ v[1] \in Int /\ a <= v[1] /\ v[1] <= b
             /\ v[2] \in Int /\ a <= v[2] /\ v[2] <= b
  BY <1>4, QuietInterval DEF SpansApart, a, b
<1>5. ASSUME NEW bm \in Benchmarks[TargetFreq]
      PROVE  /\ bm \in Seq(Nat) /\ Len(bm) > 1 /\ Quiet(bm, targetLow, targetHigh)
             /\ LET v == confidenceInterval(bm) IN
                /\ v[1] \in Int /\ c <= v[1] /\ v[1] <= d
                /\ v[2] \in Int /\ c <= v[2] /\ v[2] <= d
  <2>1. bm \in Seq(Nat) /\ Len(bm) > 1 /\ Quiet(bm, targetLow, targetHigh)
    BY <1>3 DEF SpansApart, Freqs
  <2>2. QED
    BY <2>1, QuietInterval DEF SpansApart, c, d
<1>6. ASSUME NEW bm \in Benchmarks[TargetFreq], NEW ys \in Sorted(bm),
             NEW time \in LoopTimes[StartFreq]
      PROVE  LET range == interQuartileRange(ys)
             IN  ~(range[1] <= time /\ time <= range[2])
  <2>1. /\ interQuartileRange(ys)[1] \in targetLow..targetHigh
        /\ interQuartileRange(ys)[2] \in targetLow..targetHigh
    BY <1>5, QuietQuartiles
  <2>2. QED
    BY <1>1, <1>2, <2>1
<1>7. ASSUME NEW xs \in Benchmarks[StartFreq], NEW bm \in Benchmarks[TargetFreq],
             NEW time \in LoopTimes[TargetFreq],
             100 * time >= 95 * confidenceInterval(xs)[1],
             100 * time <= 105 * confidenceInterval(xs)[2]
      PROVE  Equal(xs, bm)
  <2>1. xs \in Seq(Nat) /\ Len(xs) > 1
    BY <1>3 DEF Freqs
  <2>2. ASSUME Quiet(xs, startLow, startHigh) PROVE FALSE
    <3> DEFINE v == confidenceInterval(xs)
    <3>1. /\ v[1] \in Int /\ a <= v[1] /\ v[1] <= b
          /\ v[2] \in Int /\ a <= v[2] /\ v[2] <= b
      BY <1>4, <2>1, <2>2
    <3>2. 100 * time >= 95 * v[1] /\ 100 * time <= 105 * v[2]
      BY <1>7
    <3>3. time \in Nat /\ targetLow <= time /\ time <= targetHigh
      BY <1>2
    <3> HIDE DEF v
    <3>4. QED
      BY <1>1, <3>1, <3>2, <3>3
  <2>3. QED
    BY <2>2 DEF SpansApart
<1>8. TimesApart
  BY <1>6, <1>7 DEF TimesApart
<1>9. ASSUME NEW bm \in Benchmarks[TargetFreq],
             NEW sample \in [1..ValidationRepet -> LoopTimes[StartFreq]]
      PROVE  ~Accepted(sample, confidenceInterval(bm))
  <2>1. /\ sample \in Seq(Nat) /\ Len(sample) > 1
        /\ \A n \in 1..Len(sample) : sample[n] \in startLow..startHigh
    <3>1. sample \in [1..ValidationRepet -> Nat] /\ ValidationRepet \in Nat
      BY <1>2, BoundsAssumption
    <3>2. sample \in Seq(Nat) /\ Len(sample) = ValidationRepet
      BY <3>1, SeqDef
    <3>3. QED
      BY <1>2, <3>1, <3>2, BoundsAssumption
  <2>2. Quiet(sample, startLow, startHigh)
    <3>1. DOMAIN sample = 1..Len(sample)
      BY <2>1
    <3>2. ToSet(sample) = {sample[n] : n \in 1..Len(sample)}
      BY <3>1, Zenon DEF ToSet
    <3>3. QED
      BY <2>1, <3>2 DEF Quiet
  <2> DEFINE v == confidenceInterval(sample)
             t == confidenceInterval(bm)
  <2>3. /\ v[1] \in Int /\ a <= v[1] /\ v[2] \in Int /\ v[2] <= b
    BY <1>4, <2>1, <2>2
  <2>4. /\ t[1] \in Int /\ c <= t[1] /\ t[2] \in Int /\ t[2] <= d
    BY <1>5
  <2> HIDE DEF v, t
  <2>5. v[2] < t[1] \/ v[1] > t[2]
    <3>1. CASE d < a
      BY <1>1, <2>3, <2>4, <3>1
    <3>2. CASE b < c
      BY <1>1, <2>3, <2>4, <3>2
    <3>3. QED
      BY <1>1, <3>1, <3>2
  <2>6. QED
    BY <2>5, Zenon DEF Accepted, v, t
<1>10. SamplesApart
  BY <1>9 DEF SamplesApart
<1>11. ASSUME NEW xs \in Benchmarks[StartFreq], NEW bm \in Benchmarks[TargetFreq],
              Quiet(xs, startLow, startHigh)
       PROVE  ~Equal(xs, bm)
  <2>1. xs \in Seq(Nat) /\ Len(xs) > 1
    BY <1>3 DEF Freqs
  <2> DEFINE v == confidenceInterval(xs)
             t == confidenceInterval(bm)
  <2>2. /\ v[1] \in Int /\ a <= v[1] /\ v[2] \in Int /\ v[2] <= b
    BY <1>4, <1>11, <2>1
  <2>3. /\ t[1] \in Int /\ c <= t[1] /\ t[2] \in Int /\ t[2] <= d
    BY <1>5
  <2> HIDE DEF v, t
  <2>4. v[1] >= t[2] \/ t[1] >= v[2]
    <3>1. CASE d < a
      BY <1>1, <2>2, <2>3, <3>1
    <3>2. CASE b < c
      BY <1>1, <2>2, <2>3, <3>2
    <3>3. QED
      BY <1>1, <3>1, <3>2
  <2>5. QED
    BY <2>4, Zenon DEF Equal, Overlap, v, t
<1>12. QED
  BY <1>8, <1>10, <1>11

(* Then a test that is given up has been disturbed: the calibration at the *)
(* start frequency, which fills times, is not within the span of its loops *)
(* (main.c:148-186).                                                       *)
THEOREM OnlyNoiseEndsTheTest ==
  ASSUME FrequenciesApart,
         NEW startLow \in Nat, NEW startHigh \in Nat,
         NEW targetLow \in Nat, NEW targetHigh \in Nat,
         SpansApart(startLow, startHigh, targetLow, targetHigh)
  PROVE  Spec => [][pc # "given_up" /\ pc' = "given_up" =>
                      \E xs \in Benchmarks[StartFreq] :
                        times' = Filled(xs) /\ ~Quiet(xs, startLow, startHigh)]_vars
<1>1. SwitchInv /\ [Next]_vars => SwitchInv'
  BY SpansSuffice, SwitchInvCalibration, SwitchInvIteration, SwitchInvOther
     DEF Next, runTest
<1>2. ASSUME SwitchInv, [Next]_vars, pc # "given_up", pc' = "given_up"
      PROVE  \E xs \in Benchmarks[StartFreq] :
               times' = Filled(xs) /\ ~Quiet(xs, startLow, startHigh)
  <2>1. BenchStart
    BY <1>2 DEF Next, runTest, Calibration, CalibrationRequest, SetFreq, waitCurFreq,
                BenchTarget, Iteration, StartStamp, Request, LateStamp, Detect,
                EndStamp, Sample, CheckTarget, Return, CheckStart, Report, Switch,
                Ended, vars
  <2>2. actual = StartFreq /\ bench \in Benchmarks[TargetFreq]
    BY <1>2, <2>1 DEF BenchStart, SwitchInv, Reached, Calibrated
  <2>3. PICK xs \in Benchmarks[StartFreq] : times' = Filled(xs) /\ Equal(xs, bench)
    BY <1>2, <2>1, <2>2 DEF BenchStart
  <2>4. ~Quiet(xs, startLow, startHigh)
    BY <2>2, <2>3, SpansSuffice
  <2>5. QED
    BY <2>3, <2>4
<1>3. SwitchInv /\ [Next]_vars =>
        [pc # "given_up" /\ pc' = "given_up" =>
           \E xs \in Benchmarks[StartFreq] :
             times' = Filled(xs) /\ ~Quiet(xs, startLow, startHigh)]_vars
  BY <1>2
<1>4. QED
  BY InitSwitch, <1>1, <1>3, PTL DEF Spec

(* What StampsEnclose and StuckCoreIsRejected promise, from the loop times *)
(* alone.                                                                  *)
THEOREM SpansProtectRows ==
  ASSUME FrequenciesApart,
         NEW startLow \in Nat, NEW startHigh \in Nat,
         NEW targetLow \in Nat, NEW targetHigh \in Nat,
         SpansApart(startLow, startHigh, targetLow, targetHigh)
  PROVE  Spec => []StampsEncloseSwitch /\ NoSwitchRejected
<1>1. TimesApart /\ SamplesApart
  BY SpansSuffice
<1>2. Spec => []StampsEncloseSwitch
  BY <1>1, StampsEnclose
<1>3. Spec => NoSwitchRejected
  BY <1>1, StuckCoreIsRejected
<1>4. QED
  BY <1>2, <1>3

=============================================================================
