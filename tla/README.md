# Verification models of the measurement programs

The repository holds the measurement code and the data of the paper *Energy
Efficiency Aspects of the AMD Zen 2 Architecture* (`src/README.md`). It is not one
system but a handful of small programs, each of which claims something about what
it measured: an energy belongs to an operand, a time is that of a frequency
switch, a power value belongs to a set of idle states. This directory states those
claims in TLA+, model-checks them with TLC and proves nearly all safety properties of them with TLAPS.

Paths below are relative to the root of the repository unless they begin with
`src/`; line numbers are those of the commit the models were written from.

## 1. Inventory

### data_rapl_stats (C++, OpenMP)

*State*: per thread a generator, an array of operands and a loop counter; of the
master thread the previous time and the previous reading of two energy counters
(package, cores); the list of records. *Operations*: `calibrate()` times rounds of a
kernel on all threads and derives the number of instructions that fill the requested
duration; `init_rapl()` finds a source of energy counters; the measuring loop runs
one kernel per iteration on all threads and the master keeps a record; the report
is written at the end. The operands come from a `pcg32` of the vendored PCG headers.
*Interaction*: threads share nothing but barriers and the
processor, whose counters add up the work of all of them. *Hard*: the loop has one
barrier, before the kernel. Nothing keeps the master from reading the counters while
other threads still execute their kernels, or the other threads from waiting in front
of the next barrier while the master reads. *Correct* means: kernels that run
together have the same operand, a record holds the energy of known kernels only, no
energy is lost or counted twice, the calibrated kernel takes the requested time,
operands are drawn evenly.

### ftalat (C) and its scripts

Measures how long a core takes to switch between two frequencies. *State of the
process*: three tables (frequencies, related cores, open `scaling_setspeed` files)
and, when built with `_DUMP`, the buffer and the file of a trace;
*state that outlives it*: the governor and the frequency of every core. `main()` parses
arguments, fills the tables, sets the `userspace` governor, opens the files, calls
`runTest()` and `cleanup()`. `runTest()` calibrates a short loop at both frequencies,
then requests the target frequency, runs the loop until its duration is that of the
target, validates with a confidence interval, goes back, validates again, and keeps a
row. `ConfInterval.c` computes the statistics. `ftalat_runner.sh` calls ftalat for every
couple of frequencies and can be killed, with or without the ftalat it waits for, and started again; `benchmark.sh` is an older
form of it. *Hard*: the core switches at any moment after the request; every file in
`/sys` can fail to open; the kernel may refuse a governor that was written, which the code does not notice; cores go offline; a signal ends the process anywhere and the next
one starts on what it left; unsigned arithmetic on measured times;
two loops without a limit. *Correct* means: a kept row encloses a switch, rejected
rows do not damage others, the statistics are those of the sample, the trace is that of
the last iteration, the governor is put back, no result file mixes two runs.

### cstate_power (Python)

`cstate_power.py` sets one configuration of frequency and idle states after the other, lets the
machine idle (or runs `low_power_pause` on the CPUs in `POLL`), and notes when.
`c0_loops.py` is a second script with the same runner: it runs one of four loops, or none, on
all CPUs. A power meter records all the time. The readings are fetched and labelled at the end only.
*Hard*: two processes with their own pace are joined by time stamps; the label is
an object that was built before and is used long after; any tool may raise an
exception, and the report is written row by row. *Correct* means: the label tells what the machine did when the power was
read, and what is in the file, after a failure at any point as well, is a front part of the complete report.

### The programs of the power experiments (C)

`src/power_var/vxor_test_high.c` executes a kernel in all threads for every combination of two
operands with 0, 8, ... 64 bits set, each as a region of a trace with two metrics. *Hard*: the
threads read their operands from one array that `main()` overwrites; the last value of the loops shifts by 64.
`src/RAPL_resoultion/test.c` polls an energy counter and prints the times between its updates. *Hard*:
the first interval begins at no update, the scheduler takes the processor away, the register may be unreadable.

### The rest

| part | what it is | here |
|---|---|---|
| `src/cstate_power/low_power.c` | endless loops without state | started and killed in CStatePower, partly |
| `src/ftalat/measure.c` | not called by anything | not modelled |
| PCG headers in `src/data_rapl_stats` | vendored random number library | partly: the engines and what the program uses of them |
| `src/ftalat/benchmark.sh` | couples of frequencies, no state between runs | not modelled |
| `src/mixed-freq`, `src/firestarter_frequency`, `data_rapl_stats/run*.sh` | lists of shell commands around external tools | not modelled: no branch depends on a result |
| `src/roco2`, notebooks, CSV data | plots and data | not modelled: no state, no control flow |

`PROJECT.json` lists all of them with their status, and under `hazards` every place
where something can go wrong that a test would hardly reach.

## 2. Modules

| module | models | lines of TLA+ |
|---|---|---|
| KernelRounds | abstract specification: kernels of several threads in rounds | 57 |
| KernelRoundsProofs | its invariants, proved | 55 |
| RaplStats | parallel region of `main()` and report, `main.cpp:165-242` | 337 |
| RaplStatsProofs | types, lock step, refinement of KernelRounds, records and report, proved | 1421 |
| Calibrate | `calibrate()`, `init_rapl()`, count-down of the kernels | 278 |
| CalibrateProofs | types, durations, refinement of KernelRounds, size of the kernel, proved | 1364 |
| PcgOutput, Pcg | bit operations and output functions; the engines of `pcg_random.hpp` | 122, 278 |
| ConfInterval | `ConfInterval.c` as operators on sequences | 94 |
| Statistics | what they promise of a calibration | 31 |
| Ftalat | `runTest()`; extends Statistics | 418 |
| FtalatProofs | types, order of the rows, stamps around the switch, stuck cores, trace, quartiles, intervals, proved | 3252 |
| DumpResults, FtalatTrace | `dumpResults.c`; `runTest()` composed with it | 55, 89 |
| FtalatMain | `main()`, `cleanup()`, FreqGetter, FreqSetter, CoreRelation | 399 |
| FtalatMainProofs | types, governors, effective writes, related cores, proved | 682 |
| FtalatRunner | `ftalat_runner.sh` | 223 |
| FtalatRunnerProofs | types, result files, couples, orphans, proved | 1086 |
| CStatePower | `cstate_power.py`, `c0_loops.py` and the power meter | 314 |
| CStatePowerProofs | types, labels, report, proved | 2021 |
| VxorTest | `vxor_test_high.c` | 219 |
| RaplResolution | `RAPL_resoultion/test.c` and the counter it polls | 161 |
| MCPowerPrograms | one of the two programs, picked by its Init | 72 |
| PowerProgramsProofs | types, metrics, combinations, update intervals, proved | 2062 |

The modules `MC...` give the constants values that a cfg cannot express. Two of them compose modules
that do not interact, so that one run checks both: `Init` of MCAlgorithms picks the statistics, the generators or the operands, `MCInit` of
MCPowerPrograms picks one of the two C programs, and the variables of the others stay as they are. Only Pcg declares RECURSIVE
operators; it uses Bitwise as well and is the one module that is not made to be proved about.

How they compose: RaplStats and Calibrate each implement KernelRounds (`INSTANCE ...
WITH` a mapping of their program counters). Ftalat extends Statistics, which extends ConfInterval, and decides
with their operators. FtalatTrace extends Ftalat and DumpResults: each of its steps is one of `runTest()` together with
what that step does to the trace. FtalatMain contains `runTest()` as a choice of requested
frequencies followed, under fairness, by its return; Ftalat is the detail of that
action and says when it returns and when it does not. FtalatRunner has one run of
ftalat as one entry of a result file.

### KernelRounds

Two variables: the threads in their kernel and the number of kernels each has
finished. A thread begins the kernel of its next round only when every thread has
finished all earlier ones. This is what a reader of the energy counters relies on;
barriers, operands and energy are left out.

### RaplStats

`pc` is the line a thread is at. `Prepare` draws an operand and fills the array
(lines 189-200), `Arrive` and `Pass` are the barrier, `KernelWork` one unit of the kernel,
`TakeNow`, `ReadScope` (twice) and `Record` the master's block (lines 205-225). The
initial readings are `FirstRead` and `FirstTime`. Every reading is an action of its own, because
other threads work between them.

*The abstraction of energy.* A counter value is the matrix `counted[thread][iteration]` of
kernel work done so far, and a time stamp is the same matrix. A difference of two values
then says which kernels a record contains. This is what the properties need and it is
stronger than a number: two errors cannot cancel out. What is left out is power drawn
outside of kernels, and the wrap-around of counters, which the external library handles.

*Barrier.* A thread increments `arrived` and passes when nobody is behind. This is a
barrier that can be reused without a reset, as OpenMP requires.

### Calibrate

Rounds between two barriers, the kernel's count-down by `Unroll` modulo `WordSize` (the
`jnz` ends it only at exactly zero), the shortest duration, the rate and its rounding
(lines 28-61), the search of a source and of two counters with their exceptions
(98-147), and the first kernel that uses the result. The clock is a choice from `Durations`
in every round: the loads of other threads may stretch it in any way.

### Pcg

A generator is a record of its state and increment; a kind is a record of stream, output function and widths. The engines (`setseq`, `oneseq`, `mcg`,
`unique`), seeding, `advance` and `distance` with their loops over bits, `operator-` within and across streams, text form, `bounded_rand` and the inverse of a
permutation are the operations; `Once_insecure`, `Fast` and `Pcg32` of MCAlgorithms are instances of the code's types, with the constants the code has for
their widths. `Pcg32` has two halvings less than the `pcg32` of the program, so that a whole period can be drawn.

### ConfInterval and Statistics

Average, standard deviation and confidence interval without square roots: every
comparison is multiplied out, so `ExceedsError(n, spread, d)` states that `d/n` is at least the standard error.
The casts to
`unsigned long` are `% Word`, where `Word` is the square of `HalfWord`, the number of values of an `unsigned int`; `comparer()` reads the lower half of a value. `Sorted` is the set of
all orders `qsort()` may produce, because equal elements have no fixed order. Statistics holds the calibration `bench` and its two
properties: the run algorithms stores every sample in it, in Ftalat it is the calibration at the target frequency.

### Ftalat, DumpResults and FtalatTrace

`requested` is what was written to `scaling_setspeed`, `actual` what the core runs at; `Switch`
and the second disjunct of `Loop` let the core change between and during loops at any
time. `times` is the array of the code, with its index 0, and `fresh` says which of its
entries were stored after the last request: it is the only history variable. `tsc` counts
requests and detection loops, which is all that a measured interval contains. The pauses between
iterations change no state and are left out. `Ftalat` is the build with more than one reported time;
one iteration is `ReportTimes = 1`.

DumpResults is the buffer and the file in front of which it stands, with the failures of `fopen()` and `malloc()`. In FtalatTrace a sample
is known by its iteration and number. The rule `trace` of `src/ftalat/Makefile` names a `loop.c` that the repository does not have; the model is that of the
code under `_DUMP`.

### FtalatMain

`Read` fills a table of which any row may be missing. `setCPUGovernor` is the loop of
`FreqSetter.c`, which stops at the first core it cannot open; the same action is used for
`userspace` and for `powersave`. Per core it opens the file and writes, and `WriteGovernor` is both outcomes of the write: the governor changes, or the
kernel refuses it and the core is in `refused`, where the loop goes on all the same because the results of `fprintf()` and `fclose()` are ignored. `AllocSetFiles` leaves entries "null" or "garbage", as `malloc()` does.
`Unplug` takes a core offline at any moment after the start. `Usage`, the argument checks, `pinCPU` (whose
failure is `exit(0)` without cleanup) and the assertion of `setFreq()` are the ways to end; `Kill` is a signal at
any moment, for which there is no handler. `Restart` is the next process: all memory is new, the governors are those the last one left, and cores may have gone or come back.

### FtalatRunner

`todo` is what the two `for` loops have left. `Open` (the shell creates the file), `RunFtalat`
(the output is written) and `Separate` (`####`) are steps of their own, because `Kill` can come between any
two. `Kill` ends the script together with its ftalat, or the script alone: then its ftalat is one of the `orphans`, which go on next to later starts of the script and end by `OrphanEnds` at any time, with all, a part or nothing printed. `FREQUENCIES` models the `sed`/`sort` pipeline by what it does with the blank that the kernel prints after
the last frequency. A report and an error message are the same entry, as the script does not look at the exit status.

### CStatePower

The configurations are computed as in the generator functions of either script. Setting the states is one step per state (`enable_disable()` is
called once for each), in any order, which includes the one of the dictionary. The loop is started in the first tenth of an experiment and killed by the
timeout in the last one; readings of either are cut off. `Reading` is the meter: it stores
what the machine really does, so that `LabelsAreTrue` can compare it with the label that `CollectPower` attaches much later.
`WriteRow` writes one row of the report, `Close` is the regular end of `main()`. `Raise` is an exception or an interrupt at any point, between two rows as well: it ends the script and its loop, and
leaves the rows written so far, or a front part of them when the others were still buffered and the file cannot be written. A row that is cut off counts as not written, and the file that an earlier run of the script left is not part of the model.

### VxorTest

A word is the set of its bits that are set, and eight registers that always hold the same are one. `WithBit` is the shift, whose result for the shift by the width of the word is any set of bits.
`Load` and `XorPass` are the kernel of a thread, `Join` the end of the parallel region with the leaving of the trace region and the next bit.

### RaplResolution

Each step of the program takes one tick and as many more as the scheduler takes; in `Elapse` the counter is updated at multiples of `Period`. `Pread` leaves its
variable alone when the register is unreadable, and both variables start uninitialised.

## 3. Runs

No run needs more than four minutes with two workers.

| run | question | bounds | result |
|---|---|---|---|
| rapl_stats | what do the records contain, in every interleaving? | 2 threads, 3 iterations, 2 units of work | holds |
| calibrate | what is timed, and is the kernel it sizes right? | 2 threads, 3 rounds, register of 32 values, 2 passes | holds |
| algorithms | are interval and quartiles those of the sample, differences of generators the number of steps, and draws even? | all samples of up to 5 times from 5 values, 4-bit halves; generators of 8 and 16 bits | holds |
| ftalat | are rows, stamps, validations and the trace right for every switching delay? | 2 rows, 4 samples a calibration, 3 a validation, 3 tries | holds |
| ftalat_stale_sample | does the second validation use its own samples? | 1 row | violated |
| ftalat_interrupted | does the test end after one interrupted sample? | 1 row | violated |
| ftalat_main | what does a process leave behind, whatever fails or is refused, and what does the next one make of it? | 2 cores, 2 core arguments, 3 frequencies, 2 processes | holds |
| ftalat_offline_core | `FreqSetter.c:62` | 3 cores, core 2 offline, so that 2 are counted | violated |
| ftalat_handles | are only opened files closed? | 3 cores | violated |
| ftalat_runner | what do result files hold after restarts, next to orphans? | 3 frequencies, 3 measurements, 2 kills | holds |
| cstate_power | are labels true, what is in the file? | 3 CPUs, 2 states, 2 frequencies (10 configurations, 10 of `c0_loops.py`), 2 readings | holds |
| power_programs | do metrics tell the operands, are intervals whole periods? | 2 threads, 4-bit words; 5 stamps, 5 ticks taken | holds |

Why these bounds are enough to be interesting:

* *rapl_stats*: the first iteration is dropped and the others are recorded, so three
  iterations give two records, which `ExactlyOnce` relates. Two units of work
  let the master read in the middle of another thread's kernel. The two threads are not
  symmetric (one is the master), so no symmetry is used. All its safety properties are
  proved for every number of threads and iterations as well.
* *calibrate*: three rounds and three durations include a first, a middle and a last
  round being the shortest; `Durations` and `KernelDuration` are chosen so that the division leaves a rest and the rounding
  matters. `MaxDuration` is larger than every duration, as `duration::max()` is.
* *algorithms*: five samples have quartiles at different indices, the values include a pair
  far apart enough for the interval to wrap. A generator of 8 bits goes through its whole period, one of 16 bits is jumped with;
  the operands are those of a whole period of 2^16. `MaxOrigins` and `NearOrigin` bound how often and where a generator is copied or read back.
* *ftalat*: one of the start calibrations is so noisy that the test is given up. The loop times of the two frequencies are apart, one detection sample may be
  taken while the core switches, and the detection may run out of tries. Two rows are
  needed for a rejected row after a kept one and the reverse, and for a reset of the trace.
* *ftalat_main*: cores 0 and 1 share a frequency domain, so that the tested core has a related one; a third core of its own domain is beyond five minutes, the theorems cover any number. Core argument 5 does not exist (and becomes core 0) and
  9999 is no available frequency. `MaxRuns = 2` has any process after any end of another; the theorems cover any number.
* *ftalat_runner*: with two kills, one can hit the file of a couple while another is left over, and two orphans can be there at a time.
* *cstate_power*: with POLL, another state and three CPUs there are configurations with no, some and all CPUs in POLL, at two frequencies that a label must not mix up.
  Two readings (`MaxReadings`) cover two different experiments, or the same.
* *power_programs*: with words of four bits and a report every two there are three numbers of bits, hence an inner loop that starts over twice, and a last shift past the word. The counter
  wraps at `CounterSize` and may come back to the value it had; `Stolen` (5) is longer than a `Period` (4), so an update can be missed; `Horizon` stops the clock only for a
  program that polls a register it cannot read.

`CHECK_DEADLOCK FALSE` stands only in the configuration of MCAlgorithms, whose behaviours are a sample
that grows to its bound, or a generator drawn from for its period. All other specifications have an explicit stuttering step where the program has ended and are checked for deadlock.

### Safety properties

Each is stated with its comment in the module. The ones to look at first:

* `RecordsAreRight` (`Attribution`, `OperandOfRecord`, `Windows`) and `ExactlyOnce` (RaplStats): although nothing separates the master's reading from stragglers, a
  record contains only work of its own iteration and of the one before, and what it
  misses is in the next record. This bounds the error of the published data by the rest
  of one kernel, and only for threads other than the master.
* `WindowIsOneRound`, `KernelFillsDuration` (Calibrate): what is timed is one round; the count-down reaches exactly zero and the work is within one pass of the budget.
* `DistanceCountsSteps`, `DrawsAreEven` (Pcg).
* `StampsEncloseSwitch`, `NoSwitchRejected` (Ftalat): a kept row encloses a real switch.
* `RowsInOrder` (Ftalat): the unsigned differences that are printed cannot wrap, also after a rejected row.
* `TraceIsLastIteration` (FtalatTrace): `resetDump()` does not rewind the file, as `dumpResults.h:40` says; the buffer that `main.c:436` asks for is just large enough for this to make no difference.
* `WrapNeedsOutlier`, `QuartilesAreRanks` (Statistics): what the casts and the comparison of half words can and cannot do.
* `GovernorPutBack`, `WritesTakeEffect` (FtalatMain): what cleanup puts back, a killed predecessor's `userspace` included, and under which governor frequencies are written. Both name the cores that refused
  the last governor written to them as the one exception: nothing in the code tells them from the others.
* `EveryCouple`, `OldFilesKept`, `OneLossPerKill`, `OneWriter` (FtalatRunner): result files after kills, and that no start prints to the file of an orphan.
* `LabelsAreTrue`, `ReportIsAFront` (CStatePower): nothing is written of an incomplete collection, and what is in the file after a failure is a front part of the report.
* `MetricsTellOperands`, `EveryCombination` (VxorTest), `WholePeriods` (RaplResolution).

### Fairness

* RaplStats, Calibrate: `WF(Thread(t))` for every thread. Threads are OS threads that keep being scheduled, and a thread in the loop
  waits for nothing but a barrier, which weak fairness suffices for (a passable barrier stays passable).
* Ftalat, FtalatTrace: `WF(runTest)` – the process is pinned and has real-time priority – and `WF(Switch)` – a requested frequency is
  eventually reached, which the program presupposes by waiting for it. The wait (`waitCurFreq()`) presupposes a cycle counter as well: where `perf_event_open()` fails (`FreqGetter.c:158-188`), it never
  ends, which is not modelled.
* FtalatMain: `WF(main)` and `SF` of the return of `runTest()`. Strong fairness is a summary of the liveness of Ftalat, not a property
  of scheduling; where that liveness fails (run ftalat_interrupted) this one fails with it. Signals and restarts are not fair.
* FtalatRunner: none, and no liveness is claimed. The script waits for every ftalat, and ftalat_interrupted shows that one need not end.
* CStatePower: `WF(Script)`: sleeps end, and the pause loop ends by the timeout. An exception is not part of `Script`, so that termination does not rest on one.
* VxorTest, RaplResolution: `WF` of `main()` and of every thread's kernel. The polling loop ends because the register changes, which is claimed only for a
  register that can be read; for any other one the run checks that it never ends.

### Findings

Four runs are expected to fail; each violates one property that the code or its documentation states.

1. *ftalat_stale_sample*: the second validation averages `times[0]`, which is still the last sample of the detection, taken at the target frequency.
2. *ftalat_interrupted*: a negative lower bound of the interval wraps, and the return loop, which has no limit, never ends.
3. *ftalat_offline_core*: cores are counted online but numbered with the offline ones. With core 2 of three offline, two are counted; a test of core 1, which is online, reads core 2 from its `related_cpus` and sets it, where `setFreq()`
   asserts, with the `userspace` governor left on the cores.
4. *ftalat_handles*: the table of files is not initialised before it is filled, and cleanup closes what it finds.

Observations without a run: `comparer()` sorts `unsigned long` values by their low 32 bits, so that `QuartilesAreRanks` is promised only for samples below 2^32 (and `WrapNeedsOutlier`, because the high bound of samples near 2^64 wraps as well);
`getMinAvailableFreq()` returns the last entry of the list, which is the minimum only while the driver lists
frequencies in descending order (`RelatedAtMinimum` is promised under this condition, `LowestLast`); a signal leaves the `userspace` governor until the next process that gets as far as its cleanup; a governor that the kernel refuses goes
unnoticed, although `FreqSetter.h:55` says that 0 is returned when everything has gone fine and `main.c:453` would report any other result (the exception of the two properties of FtalatMain above); an ftalat that outlives a killed script
shares the machine with the ftalat of the next start, so that each may disturb what the other measures; a report of `cstate_power.py` that a failure has cut short looks like a complete one; the runner
skips incomplete and failed result files for ever; a requested kernel duration of 0 ms makes the kernel count down through the whole register; for frequencies closer
than 5 %, the return loop of `runTest()` accepts the target frequency, so that `StampsEncloseSwitch` is promised only for frequencies further apart.

Every property of a passing run has a mutant in `PROJECT.json`: a changed form of one modelled definition, as a plausible bug
would change it, under which the run must fail.

## 4. Proofs

All hold for every value of the constants that satisfies the named assumptions of the module. What a theorem assumes beyond these is part of its statement:

| theorem | assumes | which means |
|---|---|---|
| `StampsEnclose`, `StuckCoreIsRejected` | `FrequenciesApart`, `TimesApart` | frequencies and loop times are further apart than the tolerances of the code |
| `StuckCoreIsRejected` | `SamplesApart` | a validation sample of loops at the start frequency does not pass for one at the target frequency, by the code's own intervals |
| `SpansSuffice`, `SpansProtectRows`, `OnlyNoiseEndsTheTest` | `SpansApart` | the loop times of each frequency are within a span, the spans are further apart than they are wide, and a calibration is within its span or is not told from any of the other frequency |
| `SpansProtectRows`, `OnlyNoiseEndsTheTest` | `FrequenciesApart` | as above |
| `TraceIsComplete` | `TryRepetLoop > 2` | the detection may take three loops or more (1000000 in the code, `main.c:47`); with fewer the buffer of `main.c:436` is too small |
| `UnreadableNeverEnds` | `Measurements > 2` | more stamps are wanted than the two uninitialised variables can cause (10000 in the code) |
| `RelatedAreLowered` | `LowestLast` | the lists of the kernel end with the lowest frequency |

The ASSUMEs of the MC modules check each of the named conditions for the instance of a run. `ResolutionAssumption` of MCPowerPrograms says that a turn of the polling loop that stamps is shorter than an update
period (`Period` of three ticks at least) and that no single update leaves the counter as it was; without either, `RAPL_resoultion/test.c` cannot see every update and its output is not what it is taken for.

**KernelRoundsProofs.** `RoundsNeverOverlap`: kernels that run together are of one round and no thread is two ahead.
The inductive invariant: a thread that is running is not ahead of any other.

**RaplStatsProofs.** `TypeCorrect`, `KernelsInLockStep`, `LoopImplementsRounds`. `LockStep` alone is not inductive. The invariant
adds what the program counter says about `arrived` (at "loop" and "barrier" it is `i`, from "wait" to the end of the master's block `i + 1`), that a thread behind the
barrier was not ahead of anyone, and that `gen` equals the number of prepared iterations, so that
`op[t] = 32 * Draw[i[t]]` in the kernel. From this follow equal iterations and equal operands.
The refinement maps `Pass` to `Begin`, `KernelReturn` to `End` and everything else to a stutter; the guard of `Begin` is the barrier invariant.

On top of these: `RecordsAreAttributed`, `WorkIsRecordedOnce`, `WindowsAreAdjacent`, `StragglersHaveTheOperand`, together `RecordsTellTheirKernels`, and `ReportIsComplete`:
all other safety properties of the run rapl_stats. The inductive invariant `RInv` is a ledger on top of the one above. From the barrier it follows (`MasterReads`) that whatever the master reads
in iteration `r` is complete for earlier iterations, zero for later ones, and undetermined only for the other threads' kernels of
`r` itself (`IsReading`). The readings it keeps are all of this form (`Readings`, `Times`), so that the difference of two consecutive ones is a share as
`Attribution` demands (`ReadingDifference`, `Energies`, `Shares`), and what the last record misses is what the next difference will contain (`Carried`).

**CalibrateProofs.** `DurationsCoverOneRound`, `CalibrationImplementsRounds`, `KernelsFillTheDuration`, `TypeCorrect`. As in RaplStats, the number of barriers a thread has arrived at follows from where it is, and
nobody has passed one that somebody has not arrived at (`Control`); here there are two a round. `Work` says which passes each thread has counted at each place and that the register is what is
left, a multiple of a pass below `WordSize`, so that the count-down meets zero exactly. `BeginInv` and `Windows` give what the master's two stamps can have seen. For the size of the kernel, the minimum kept
is that of the durations so far (`Shortest`), and its division is bounded with the rounding up to a pass (`Sized`). The types need `Values` in addition: no difference of two stamps is negative, and the size computed fits the register.

**FtalatProofs.** Six layers; the last two are about the statistics of a sample of any length.

* `TypeCorrect` and `RowsAreOrdered`. The invariant orders the stamps of an iteration by where it is (`Stamped`: strictly, wherever something takes time between two of them) and puts every kept row before the
  iteration in progress (`Over`). The proof is that the repeated stamp of a rejected row fits in between. `Limits` adds which counter is below its limit where, without which an index into `times` would have no bound.
* `StampsEnclose` and `StuckCoreIsRejected`. The invariant says which frequency was requested last, where the
  core must run at it, and that quartiles and bounds are those of calibrations at their frequencies (`SwitchInv`). For the second one: the calibrations of an iteration were told apart (`ToldApart`), and a core
  that is at the start frequency after the validation loops has been there since the request, so that the last loop of the detection and all of the validation took times of that frequency (`NeverSwitched`); at the decision they are a
  sample of which `SamplesApart` speaks.
* `TraceOnlyWatches` and `TraceIsComplete`. Every step of the traced program is one of `runTest()`, so that all invariants above hold of it. `Sampled` bounds the number of samples by where the iteration is, `Written` says that buffer and file together are these samples, and
  `Room` that the buffer has more places than an iteration takes: (t - 3)(v - 1) >= 0 for t tries and v validations.
* `QuartilesHaveTheirRanks`, the property `QuartilesAreRanks` of the calibration in every state of the program, and the same for the quartiles it keeps. For samples below `HalfWord` the
  comparer is the order of the numbers (`LowOfSmall`); `Sorted` says only that neighbours are in order, from which a pair out of order that is nearest to the first of the two would be a contradiction (`AdjacentOrder`); the positions below and not above a place give the two counts (`RankInOrder`), which the
  bijection of `Sorted` carries over to the sample.
* `WrapsOnlyForOutliers`, the property `WrapNeedsOutlier` in every state of the program, and that without such an outlier the interval contains the average. A sum is a fold over the set of indices, a recursive function on its subsets, which exists (`SumsExist`) because a least set without one would be a
  contradiction; so what holds of the empty set and of a set whenever it holds of the set without one element holds of all of them (`SubsetInduction`). From this come the bounds of a sum, of a sum of squares and of a linear function (`TotalBetween`, `SquaresBetween`, `TotalLinear`). With *p* the distance of the total from n times the least value
  and *q* that from n times the greatest one, the spread of a sample of n values is n *p* *q* at most (`SpreadBound`). Hence the test of the standard error passes at the distance 2 *p* + *q*, at the edge of `Around` (`FarEnough`, as (2*p* - *q*)^2 >= 0), and fails behind the average: floor and ceiling exist and are neither
  further from the sample than its span nor on the wrong side of the average (`FloorIs`, `CeilIs`), so the CHOOSE of `Floor` and `Ceil` always has a value to choose and the bound `Around` of the model takes nothing away. When the greatest value is n times the least one at most, the test passes at 0 as well (`FloorIsPositive`), and no cast changes anything.
* `SpansSuffice`. Intervals are within `Around` the sample (`QuietInterval`) and quartiles are values of it (`QuietQuartiles`), so loop times within spans that are far enough apart satisfy `TimesApart` and `SamplesApart`. With these `SpansProtectRows` gives the promises of `StampsEnclose` and `StuckCoreIsRejected` from loop times alone, and
  `OnlyNoiseEndsTheTest` adds that then a test is only given up after a calibration that was disturbed, as one of the instance is.

**FtalatMainProofs.** `TypeCorrect`, `GovernorIsPutBack`, `WritesAreEffective`, `RelatedAreLowered`. The invariant has a conjunct for each reason: the
frequencies that were checked stay in the table (`Checked`), the cores below `j` have the new governor or have refused it, and after a cleanup a `userspace` governor exists
only on a core that refused the other one or behind an unopenable core (`Governors`, which asks nothing of the governors a later process finds), the files below `j` are open (`Files`), a written speed is one of the list (`Speeds`). For the related cores, those before place `j` of the list
have the last entry of the list of frequencies (`Lowered`), which `LowestLast` makes the minimum. One step for each action, one leaf for each conjunct it can disturb.

**FtalatRunnerProofs.** `TypeCorrect`, `OldFilesStay`, `KillsLoseOneFile`, `EveryCoupleHasAFile`, `OneWriterPerFile`. The file being written was created by this start and has as many separators as measurements are done (`Working`); no orphan prints to it, because the file of an orphan is there and its couple is skipped (`OrphanInv`). Only existing files have entries
(`Created`). The files that are neither complete nor current are `Lost`; a kill is the only step that adds one, and an orphan, which prints no separator, completes and spoils none (`OrphanLoses`). That no couple is missed is two facts. The script is before the couples from some number on and has those behind it in files (`Progress`), also after it was
killed and begins again. And the couples it goes through are all pairs of frequencies (`AllCouples`): the ranks of different numbers are different, so the sorted list has each of them (`RankIsUnique`, `FrequenciesOfFile`), its first entry is the blank, and the quotient and the rest of a number are any pair of indices.

**CStatePowerProofs.** `TypeCorrect`, `LabelsTell`, `FrontOfTheReport`, for either script, any configuration data and any number of readings. While a configuration is measured the machine is in it (`Machine`); hence a reading of a body tells its configuration (`Meter`), and rows made from it much later take the label from there (`TrueRows`).
For the report, readings are in the order of the experiments, so that the rows of the first `m` experiments are the readings of their bodies, in order and without repetition (`Collected`, `Covered`). What is in the file are the first of these rows, and none before all experiments are collected (`Written`, `FirstRowsAre`). The lists are built with `FlattenSeq`, a recursive function of the community modules. That it has the
values expected (`FlattenIs`) is shown without an induction theorem, as are its laws (`FlattenAppend`, `FlattenConcat`, `FlatMapTwice`): a least counterexample exists because `<` is well-founded on the naturals, and a sequence that grows by one element at a time reaches every length (`GrowingSequence`).

**PowerProgramsProofs.** For `vxor_test_high`: `MetricsAreTrue` and `EveryCombinationIsTraced`. An operand is the interval of its lowest bits, as long as its number is within the word (`Numbers`); a region's metrics are the numbers of the operands in memory
(`Regions`); and a thread that has loaded its registers has those operands (`Registers`). The undefined shift yields a word that no guard lets into a region. The regions traced so far are the first combinations, of which the positions of the two loops tell the number (`Walk`).
For `RAPL_resoultion/test`: `PeriodsAreWhole` and `UnreadableNeverEnds`. A turn of the polling loop that finds the old value leaves less than a period since the reading, unless the scheduler took the processor away; so the program knows how far the update it saw lies back (`Polling`), every stamp is within the latency of the update it
belongs to, and the numbers of these updates increase, by one if nothing was taken (`Recorded`). Only the first stamp belongs to no update, and it is not printed. For both: `ProgramsTypeCorrect`. A register that cannot be read yields two stamps at most (`Unreadable`), whatever the two uninitialised variables hold; the count-down of the threads' loops stays a multiple of
`Unroll` (`Turns`).

*Only model-checked*: liveness and the fairness part of the refinements (TLAPS 1.4.5 has no ENABLED): `Terminates` and the fair half of `ImplementsRounds`, whose safety half is proved twice; and `DistanceCountsSteps` and `DrawsAreEven` of Pcg, which is written with RECURSIVE operators and Bitwise. All other properties of the passing runs are theorems.

## 5. Not modelled

* *PCG*: the output functions `xsl_rr_rr` and `rxs`, the extended generators, seed sequences, and 128-bit arithmetic with its input and output. Nothing in the repository uses them, and the
  smallest types the code defines for most of them are beyond what TLC can enumerate.
* *ftalat*: the instructions of the measured loop and the counter reads; functions that nothing calls (`setAllFreq`, `setMinFreqForAll`, `getHeadCore`, `getCurFreq`, `getMaxAvailableFreq`, `measure.c`); display functions; a failing `perf_event_open()`; the assertion at `ConfInterval.c:125`, which for samples below 2^32 follows from `QuartilesAreRanks`.
* *Scripts*: `benchmark.sh`, `mixed-freq`, `firestarter_frequency`, `data_rapl_stats/run*.sh`. They call external tools one after the other and branch on nothing; the state they change is kept elsewhere.
* *Content of result files*: the runner looks at whether a file is there only, so a model has nothing to promise about a failed run of ftalat in one (hazard at `ftalat_runner.sh:65`). An ftalat that is killed without its script is an entry like any other.
* *Data and plots*: no state.

## 6. Plan

Done: RaplStats with KernelRounds; ConfInterval and Ftalat; FtalatMain; Calibrate; FtalatRunner; CStatePower; FtalatTrace; VxorTest; RaplResolution; Pcg; `c0_loops.py`; killed and restarted processes of ftalat; the proofs of section 4, with which every safety property of the passing runs except the two of Pcg is a theorem.

Left: the algorithms of Pcg, whose theorems would need the operators rewritten as recursive functions and facts about powers of two that the provers do not have; liveness, which stays with TLC.
