------------------------------ MODULE RaplStats ------------------------------
(***************************************************************************)
(* The measuring loop of data_rapl_stats (src/data_rapl_stats/main.cpp):   *)
(* the parallel region of main() and the report written after it.  Every   *)
(* OpenMP thread draws an operand weight from its own generator, waits at  *)
(* the barrier and runs the kernel; the master thread then stamps the time,*)
(* reads the RAPL counters of two scopes one after the other and keeps the *)
(* differences to its previous reading.  Nothing separates that reading    *)
(* from kernels that other threads are still executing.                    *)
(*                                                                         *)
(* A counter value is represented by what it counts, the kernel work done  *)
(* so far: counted[t][j] units of the kernel that thread t runs in         *)
(* iteration j.  The same snapshot stands for a time stamp, so that a      *)
(* record tells which kernels it covers.  Power drawn outside the kernels  *)
(* is left out.                                                            *)
(***************************************************************************)
EXTENDS Integers, Sequences

CONSTANTS
  Threads,      \* the OpenMP threads of the parallel region
  Master,       \* the one that executes the master blocks
  Iterations,   \* second argument of the program
  Work,         \* units of work of one kernel call
  Draw          \* the numbers a pcg32 with the fixed seed yields, modulo 3

Loop == 0 .. Iterations - 1

(* reserve(iterations - 1) at main.cpp:165 throws for zero iterations.     *)
ASSUME MasterAssumption == Master \in Threads
ASSUME IterationsAssumption == Iterations \in Nat \ {0}
ASSUME WorkAssumption == Work \in Nat \ {0}
ASSUME DrawAssumption == Draw \in [Loop -> 0..2]

VARIABLES
  pc,                \* where each thread is
  i,                 \* its loop counter
  gen,               \* numbers drawn from its generator so far
  op,                \* ex.op_weights[0], which fills its data array
  arrived,           \* barriers the thread has arrived at
  counted,           \* the work done, which clock and counters observe
  now,               \* the master's variable now
  previous_time,     \* and what it keeps from one iteration to the next
  previous_energy,
  energy,            \* ex.energy of the record being built
  experiments,       \* the records kept
  csv                \* the report

vars == <<pc, i, gen, op, arrived, counted, now, previous_time,
          previous_energy, energy, experiments, csv>>

masterVars == <<now, previous_time, previous_energy, energy, experiments>>

Scopes == {"PCKG", "CORES"}

Snapshot == [Threads -> [Loop -> 0..Work]]
Difference == [Threads -> [Loop -> Int]]
NoWork == [t \in Threads |-> [j \in Loop |-> 0]]

Minus(a, b) == [t \in Threads |-> [j \in Loop |-> a[t][j] - b[t][j]]]

Goto(t, from, to) == pc[t] = from /\ pc' = [pc EXCEPT ![t] = to]

-----------------------------------------------------------------------------

Init ==
  /\ pc = [t \in Threads |-> IF t = Master THEN "first_pckg" ELSE "loop"]
  /\ i = [t \in Threads |-> 0]
  /\ gen = [t \in Threads |-> 0]
  /\ op = [t \in Threads |-> 0]
  /\ arrived = [t \in Threads |-> 0]
  /\ counted = NoWork
  /\ now = NoWork
  /\ previous_time = NoWork
  /\ previous_energy = [s \in Scopes |-> NoWork]
  /\ energy = [s \in Scopes |-> NoWork]
  /\ experiments = <<>>
  /\ csv = <<>>

(* The first master block: a reading of each scope, then the time.         *)
FirstRead(s, from, to) ==
  /\ Goto(Master, from, to)
  /\ previous_energy' = [previous_energy EXCEPT ![s] = counted]
  /\ UNCHANGED <<i, gen, op, arrived, counted, now, previous_time, energy,
                 experiments, csv>>

FirstTime ==
  /\ Goto(Master, "first_time", "loop")
  /\ previous_time' = counted
  /\ UNCHANGED <<i, gen, op, arrived, counted, now, previous_energy, energy,
                 experiments, csv>>

(* Mutants of Prepare: the factor 32 is missing; one generator is shared.   *)
PrepareUnscaled(t) ==
  /\ i[t] < Iterations
  /\ Goto(t, "loop", "barrier")
  /\ op' = [op EXCEPT ![t] = Draw[gen[t]]]
  /\ gen' = [gen EXCEPT ![t] = @ + 1]
  /\ UNCHANGED <<i, arrived, counted, csv, masterVars>>

PrepareSharedGenerator(t) ==
  /\ i[t] < Iterations
  /\ Goto(t, "loop", "barrier")
  /\ op' = [op EXCEPT ![t] = 32 * Draw[gen[t]]]
  /\ gen' = [u \in Threads |-> (gen[u] + 1) % Iterations]
  /\ UNCHANGED <<i, arrived, counted, csv, masterVars>>

(* Draw the operand of this iteration and fill the data with it, or leave  *)
(* the loop for the barrier that ends the parallel region.                 *)
Prepare(t) ==
  /\ i[t] < Iterations
  /\ Goto(t, "loop", "barrier")
  /\ op' = [op EXCEPT ![t] = 32 * Draw[gen[t]]]
  /\ gen' = [gen EXCEPT ![t] = @ + 1]
  /\ UNCHANGED <<i, arrived, counted, csv, masterVars>>

LeaveLoop(t) ==
  /\ i[t] = Iterations
  /\ Goto(t, "loop", "region_end")
  /\ UNCHANGED <<i, gen, op, arrived, counted, csv, masterVars>>

(* A barrier: a thread that has arrived at its n-th barrier passes once    *)
(* every thread has arrived at its n-th barrier.                           *)
Arrive(t, from, to) ==
  /\ Goto(t, from, to)
  /\ arrived' = [arrived EXCEPT ![t] = @ + 1]
  /\ UNCHANGED <<i, gen, op, counted, csv, masterVars>>

(* Mutants of AllArrived: no barrier; a barrier that waits for one too many.*)
NobodyAwaited(t) == TRUE
OneTooMany(t) == \A u \in Threads \ {t} : arrived[t] < arrived[u]

AllArrived(t) == \A u \in Threads : arrived[t] <= arrived[u]

Pass(t, from, to) ==
  /\ AllArrived(t)
  /\ Goto(t, from, to)
  /\ UNCHANGED <<i, gen, op, arrived, counted, csv, masterVars>>

(* KERNEL(data.data(), instructions), one unit of work at a time.          *)
KernelWork(t) ==
  /\ pc[t] = "kernel"
  /\ counted[t][i[t]] < Work
  /\ counted' = [counted EXCEPT ![t][i[t]] = @ + 1]
  /\ UNCHANGED <<pc, i, gen, op, arrived, csv, masterVars>>

NextIteration(t, from) ==
  /\ Goto(t, from, "loop")
  /\ i' = [i EXCEPT ![t] = @ + 1]

KernelReturn(t) ==
  /\ pc[t] = "kernel"
  /\ counted[t][i[t]] = Work
  /\ \/ t = Master /\ Goto(t, "kernel", "now") /\ UNCHANGED i
     \/ t # Master /\ NextIteration(t, "kernel")
  /\ UNCHANGED <<gen, op, arrived, counted, csv, masterVars>>

(* The master block after the kernel: the time first, then each scope.     *)
TakeNow ==
  /\ Goto(Master, "now", "read_pckg")
  /\ now' = counted
  /\ UNCHANGED <<i, gen, op, arrived, counted, previous_time,
                 previous_energy, energy, experiments, csv>>

(* Mutant of ReadScope: one previous reading is kept for both scopes.      *)
ReadScopeOneSlot(s, from, to) ==
  /\ Goto(Master, from, to)
  /\ energy' = [energy EXCEPT ![s] = Minus(counted, previous_energy["PCKG"])]
  /\ previous_energy' = [previous_energy EXCEPT !["PCKG"] = counted]
  /\ UNCHANGED <<i, gen, op, arrived, counted, now, previous_time,
                 experiments, csv>>

ReadScope(s, from, to) ==
  /\ Goto(Master, from, to)
  /\ energy' = [energy EXCEPT ![s] = Minus(counted, previous_energy[s])]
  /\ previous_energy' = [previous_energy EXCEPT ![s] = counted]
  /\ UNCHANGED <<i, gen, op, arrived, counted, now, previous_time,
                 experiments, csv>>

Experiment ==
  [start |-> previous_time, duration |-> Minus(now, previous_time),
   weight |-> op[Master], energy |-> energy]

(* Mutant of Record: the first one is kept.                                *)
RecordFirst ==
  /\ NextIteration(Master, "record")
  /\ previous_time' = now
  /\ experiments' = Append(experiments, Experiment)
  /\ UNCHANGED <<gen, op, arrived, counted, now, previous_energy, energy, csv>>

(* The first record is dropped: it holds what ran before the loop.         *)
Record ==
  /\ NextIteration(Master, "record")
  /\ previous_time' = now
  /\ experiments' = IF i[Master] > 0 THEN Append(experiments, Experiment)
                                     ELSE experiments
  /\ UNCHANGED <<gen, op, arrived, counted, now, previous_energy, energy, csv>>

WriteCsv ==
  /\ Goto(Master, "report", "done")
  /\ csv' = experiments
  /\ UNCHANGED <<i, gen, op, arrived, counted, masterVars>>

-----------------------------------------------------------------------------

MasterBlock ==
  \/ FirstRead("PCKG", "first_pckg", "first_cores")
  \/ FirstRead("CORES", "first_cores", "first_time")
  \/ FirstTime
  \/ TakeNow
  \/ ReadScope("PCKG", "read_pckg", "read_cores")
  \/ ReadScope("CORES", "read_cores", "record")
  \/ Record
  \/ WriteCsv

Thread(t) ==
  \/ Prepare(t)
  \/ Arrive(t, "barrier", "wait")
  \/ Pass(t, "wait", "kernel")
  \/ KernelWork(t)
  \/ KernelReturn(t)
  \/ LeaveLoop(t)
  \/ Arrive(t, "region_end", "join")
  \/ t = Master /\ Pass(t, "join", "report")
  \/ t # Master /\ Pass(t, "join", "done")
  \/ t = Master /\ MasterBlock

Done == \A t \in Threads : pc[t] = "done"

Next == (\E t \in Threads : Thread(t)) \/ (Done /\ UNCHANGED vars)

Spec == Init /\ [][Next]_vars

(* Every thread is an operating-system thread that keeps being scheduled,  *)
(* and nothing in the loop waits for anything but the barrier.             *)
FairSpec == Spec /\ \A t \in Threads : WF_vars(Thread(t))

-----------------------------------------------------------------------------

Locations ==
  {"first_pckg", "first_cores", "first_time", "loop", "barrier", "wait",
   "kernel", "now", "read_pckg", "read_cores", "record", "region_end",
   "join", "report", "done"}

MasterLocations ==
  {"first_pckg", "first_cores", "first_time", "now", "read_pckg",
   "read_cores", "record", "report"}

Experiments ==
  [start : Snapshot, duration : Difference, weight : {0, 32, 64},
   energy : [Scopes -> Difference]]

(* The types of the loop's variables; main.cpp:170-227.                    *)
TypeOK ==
  /\ pc \in [Threads -> Locations]
  /\ \A t \in Threads \ {Master} : pc[t] \notin MasterLocations
  /\ i \in [Threads -> 0..Iterations]
  /\ \A t \in Threads : pc[t] \in {"barrier", "wait", "kernel", "now",
         "read_pckg", "read_cores", "record"} => i[t] \in Loop
  /\ gen \in [Threads -> 0..Iterations]
  /\ op \in [Threads -> {0, 32, 64}]
  /\ arrived \in [Threads -> 0..(Iterations + 1)]
  /\ counted \in Snapshot
  /\ now \in Snapshot
  /\ previous_time \in Snapshot
  /\ previous_energy \in [Scopes -> Snapshot]
  /\ energy \in [Scopes -> Difference]
  /\ experiments \in Seq(Experiments)
  /\ csv \in Seq(Experiments)

(* Threads that execute the kernel at the same time run it for the same    *)
(* iteration and with the same operand: the measured power belongs to one  *)
(* operand (the generators are private and the barrier is the only         *)
(* synchronisation of main.cpp:187-226).                                   *)
LockStep ==
  \A t, u \in Threads :
    pc[t] = "kernel" /\ pc[u] = "kernel" => i[t] = i[u] /\ op[t] = op[u]

(* The energy of a record comes from the kernels of its own iteration and  *)
(* of the one before and from nothing else, and the master's share is      *)
(* exactly its own kernel of that iteration (main.cpp:204-225).            *)
Attribution ==
  \A n \in 1..Len(experiments), s \in Scopes, t \in Threads, j \in Loop :
    LET share == experiments[n].energy[s][t][j] IN
    /\ j \notin {n - 1, n} => share = 0
    /\ t = Master => share = IF j = n THEN Work ELSE 0
    /\ share \in 0..Work

(* No work is recorded twice or lost between two records: what record n    *)
(* misses of the kernels of its iteration is in record n + 1, in each of   *)
(* the two scopes although they are read at different times.               *)
ExactlyOnce ==
  \A n \in 1..(Len(experiments) - 1), s \in Scopes, t \in Threads :
    experiments[n].energy[s][t][n] + experiments[n + 1].energy[s][t][n] = Work

(* A straggler that still runs the kernel of an iteration that the master  *)
(* has already recorded runs it with the operand written in that record.   *)
OperandOfRecord ==
  \A n \in 1..Len(experiments), t \in Threads :
    pc[t] = "kernel" /\ i[t] = n => op[t] = experiments[n].weight

(* The time windows of the records cover the measurement without gap or    *)
(* overlap, and window n holds no work of iteration n + 1, whose kernels   *)
(* the other threads could only start after the master's next barrier.     *)
Windows ==
  \A n \in 1..Len(experiments) :
    LET ex == experiments[n] IN
    /\ n < Len(experiments) =>
         ex.duration = Minus(experiments[n + 1].start, ex.start)
    /\ \A t \in Threads, j \in Loop : j > n => ex.duration[t][j] = 0

(* A record says what it says of the work it was measured for: energy of   *)
(* its kernels and of stragglers with the operand of the record before,    *)
(* and a window that neither skips nor repeats time (main.cpp:189-225).    *)
RecordsAreRight == Attribution /\ OperandOfRecord /\ Windows

(* The report holds one row per iteration but the first, in order          *)
(* (main.cpp:216-220 and 229-242).                                         *)
CompleteReport ==
  Done => /\ Len(csv) = Iterations - 1
          /\ \A n \in 1..Len(csv) : csv[n].weight = 32 * Draw[n]

(* The kernels run in rounds that do not overlap.                          *)
RoundsOfKernels == INSTANCE KernelRounds WITH
  Rounds <- Iterations,
  running <- {t \in Threads : pc[t] = "kernel"},
  completed <- [t \in Threads |->
     IF pc[t] \in {"now", "read_pckg", "read_cores", "record"}
     THEN i[t] + 1 ELSE i[t]]

(* The loop implements KernelRounds, fairness included: no thread is left  *)
(* behind at the barrier.                                                  *)
ImplementsRounds == RoundsOfKernels!FairSpec

(* The program ends: all threads leave the region and the report is there. *)
Terminates == <>Done

=============================================================================
