------------------------------ MODULE Calibrate ------------------------------
(***************************************************************************)
(* What data_rapl_stats does before its measuring loop: calibrate() times  *)
(* a few rounds of the kernel on all OpenMP threads and derives from the   *)
(* shortest one how many instructions fill the requested kernel duration,  *)
(* init_rapl() looks for the energy counters, and then kernels run with    *)
(* that number (module RaplStats; here the master's first one).  The       *)
(* kernels of kernel.h count a register of WordSize values down by Unroll  *)
(* instructions a pass and stop when it is exactly zero.                   *)
(*                                                                         *)
(* The clock of the master is a choice of Durations for each round; which  *)
(* kernel passes a duration covers is kept beside it in windows.           *)
(***************************************************************************)
EXTENDS Integers, Sequences, FiniteSetsExt, SequencesExt

CONSTANTS
  Threads, Master,
  Rounds,             \* 6 in the code
  Instructions,       \* of a kernel of the calibration, 1e9 in the code
  Unroll,             \* instructions of a pass, 32 in the code
  WordSize,           \* values of a register, 2^64
  Durations,          \* what the master can measure for a round
  MaxDuration,        \* duration::max()
  KernelDuration,     \* the first argument of the program
  Sources             \* access sources x86_energy offers

ASSUME MasterAssumption == Master \in Threads
ASSUME RoundsAssumption == Rounds \in Nat \ {0} /\ Sources \in Nat
ASSUME KernelAssumption ==
  /\ Unroll \in Nat \ {0} /\ WordSize \in Nat /\ WordSize % Unroll = 0
  /\ Instructions \in 1 .. WordSize - 1 /\ Instructions % Unroll = 0
(* The requested duration takes at least a pass and fits a register.       *)
ASSUME DurationAssumption ==
  /\ KernelDuration \in Nat /\ MaxDuration \in Nat
  /\ \A d \in Durations :
       /\ d \in 1 .. MaxDuration
       /\ (KernelDuration * Instructions) \div d \in Unroll .. WordSize - 1

VARIABLES
  pc,             \* where each thread is
  i,              \* its loop counter
  arrived,        \* barriers it has arrived at
  register,       \* the counter of the kernel it executes
  counted,        \* passes of its kernel of each round
  begin,          \* what was counted when the master read the clock
  windows,        \* what was counted during each measured duration
  measured,       \* the durations
  min_duration,
  instructions,   \* the result
  executed,       \* passes of the master's first kernel after that
  source,         \* the access source init_rapl() tries or has found
  counters        \* the counter of each scope

vars == <<pc, i, arrived, register, counted, begin, windows, measured,
          min_duration, instructions, executed, source, counters>>

measuring == <<begin, windows, measured, min_duration>>
rapl == <<source, counters>>

Round == 0 .. Rounds - 1
Passes == Instructions \div Unroll
NoWork == [t \in Threads |-> [r \in Round |-> 0]]

Goto(t, from, to) == pc[t] = from /\ pc' = [pc EXCEPT ![t] = to]

-----------------------------------------------------------------------------

Init ==
  /\ pc = [t \in Threads |-> "round"]
  /\ i = [t \in Threads |-> 0]
  /\ arrived = [t \in Threads |-> 0]
  /\ register = [t \in Threads |-> 0]
  /\ counted = NoWork
  /\ begin = NoWork
  /\ windows = <<>> /\ measured = <<>>
  /\ min_duration = MaxDuration
  /\ instructions = Instructions
  /\ executed = 0
  /\ source = 1
  /\ counters = [scope \in {"PCKG", "CORES"} |-> "none"]

(* The two barriers of a round and the one that ends the region.           *)
Arrive(t, from, to) ==
  /\ Goto(t, from, to)
  /\ arrived' = [arrived EXCEPT ![t] = @ + 1]
  /\ UNCHANGED <<i, register, counted, instructions, executed, measuring, rapl>>

(* Mutant of AllArrived: no barrier.                                       *)
NobodyAwaited(t) == TRUE

AllArrived(t) == \A u \in Threads : arrived[t] <= arrived[u]

Pass(t, from, to) ==
  /\ AllArrived(t)
  /\ Goto(t, from, to)
  /\ UNCHANGED <<i, arrived, register, counted, instructions, executed,
                 measuring, rapl>>

Begin(t) ==
  /\ Goto(t, "begin", "kernel")
  /\ register' = [register EXCEPT ![t] = Instructions]
  /\ begin' = IF t = Master THEN counted ELSE begin
  /\ UNCHANGED <<i, arrived, counted, windows, measured, min_duration,
                 instructions, executed, rapl>>

(* sub $32 and jnz, at the end of a pass of the unrolled loop.             *)
Subtract(t, from, to) ==
  LET rest == (register[t] - Unroll) % WordSize IN
  /\ pc[t] = from
  /\ register' = [register EXCEPT ![t] = rest]
  /\ pc' = IF rest = 0 THEN [pc EXCEPT ![t] = to] ELSE pc

KernelPass(t) ==
  /\ Subtract(t, "kernel", "kernel_end")
  /\ counted' = [counted EXCEPT ![t][i[t]] = @ + 1]
  /\ UNCHANGED <<i, arrived, instructions, executed, measuring, rapl>>

(* Mutant of Duration: the last duration is kept, not the shortest.        *)
DurationLast(t) ==
  /\ Goto(t, "duration", "round")
  /\ i' = [i EXCEPT ![t] = @ + 1]
  /\ \/ t # Master /\ UNCHANGED measuring
     \/ /\ t = Master
        /\ min_duration' \in Durations
        /\ measured' = Append(measured, min_duration')
        /\ UNCHANGED <<begin, windows>>
  /\ UNCHANGED <<arrived, register, counted, instructions, executed, rapl>>

(* Every thread reads the clock, the master keeps the shortest duration.   *)
Duration(t) ==
  /\ Goto(t, "duration", "round")
  /\ i' = [i EXCEPT ![t] = @ + 1]
  /\ \/ t # Master /\ UNCHANGED measuring
     \/ /\ t = Master
        /\ \E d \in Durations :
             /\ measured' = Append(measured, d)
             /\ min_duration' = Min({d, min_duration})
        /\ windows' = Append(windows, [u \in Threads |->
                         [r \in Round |-> counted[u][r] - begin[u][r]]])
        /\ UNCHANGED begin
  /\ UNCHANGED <<arrived, register, counted, instructions, executed, rapl>>

(* Mutant of Rounded: what does not fill a pass stays.                     *)
NotRounded(n) == n

(* The end of calibrate(): the rate times the duration, in whole passes.   *)
Rounded(n) == n - (n % Unroll)

(* Mutant of Result: the rate is the number of instructions.               *)
ResultPerRound ==
  /\ AllArrived(Master)
  /\ Goto(Master, "join", "init_rapl")
  /\ instructions' = Rounded(KernelDuration * Instructions)
  /\ UNCHANGED <<i, arrived, register, counted, executed, measuring, rapl>>

Result ==
  /\ AllArrived(Master)
  /\ Goto(Master, "join", "init_rapl")
  /\ instructions' = Rounded((KernelDuration * Instructions) \div min_duration)
  /\ UNCHANGED <<i, arrived, register, counted, executed, measuring, rapl>>

(* init_rapl(): the first source that initialises; nothing catches what is *)
(* thrown when there is none, or when a scope has no counter.              *)
InitSource ==
  /\ pc[Master] = "init_rapl"
  /\ \/ source > Sources /\ pc' = [pc EXCEPT ![Master] = "threw"] /\ UNCHANGED source
     \/ source <= Sources /\ source' = source + 1 /\ UNCHANGED pc
     \/ source <= Sources /\ pc' = [pc EXCEPT ![Master] = "get_pckg"] /\ UNCHANGED source
  /\ UNCHANGED <<i, arrived, register, counted, instructions, executed,
                 measuring, counters>>

GetCounter(scope, counter, from, to, missing) ==
  /\ \/ /\ Goto(Master, from, to)
        /\ counters' = [counters EXCEPT ![scope] = counter]
     \/ Goto(Master, from, missing) /\ UNCHANGED counters
  /\ UNCHANGED <<i, arrived, register, counted, instructions, executed,
                 measuring, source>>

(* The master's first KERNEL() of the measuring loop.                      *)
CallKernel ==
  /\ Goto(Master, "measure", "measured_kernel")
  /\ register' = [register EXCEPT ![Master] = instructions]
  /\ UNCHANGED <<i, arrived, counted, instructions, executed, measuring, rapl>>

MeasuredPass ==
  /\ Subtract(Master, "measured_kernel", "done")
  /\ executed' = (executed + 1) % (WordSize \div Unroll)
  /\ UNCHANGED <<i, arrived, counted, instructions, measuring, rapl>>

-----------------------------------------------------------------------------

init_rapl ==
  \/ InitSource
  \/ GetCounter("PCKG", "PCKG", "get_pckg", "get_cores", "threw")
  \/ GetCounter("CORES", "CORES", "get_cores", "measure", "get_single_core")
  \/ GetCounter("CORES", "SINGLE_CORE", "get_single_core", "measure", "threw")

Thread(t) ==
  \/ i[t] < Rounds /\ Arrive(t, "round", "wait_begin")
  \/ Pass(t, "wait_begin", "begin")
  \/ Begin(t)
  \/ KernelPass(t)
  \/ Arrive(t, "kernel_end", "wait_end")
  \/ Pass(t, "wait_end", "duration")
  \/ Duration(t)
  \/ i[t] = Rounds /\ Arrive(t, "round", "join")
  \/ t # Master /\ Pass(t, "join", "done")
  \/ t = Master /\ (Result \/ init_rapl \/ CallKernel \/ MeasuredPass)

Done == /\ pc[Master] \in {"done", "threw"}
        /\ \A t \in Threads \ {Master} : pc[t] = "done"

Next == (\E t \in Threads : Thread(t)) \/ (Done /\ UNCHANGED vars)

Spec == Init /\ [][Next]_vars

(* Every thread keeps being scheduled.                                     *)
FairSpec == Spec /\ \A t \in Threads : WF_vars(Thread(t))

-----------------------------------------------------------------------------

(* The types of the variables of calibrate(), init_rapl() and the kernels. *)
TypeOK ==
  /\ pc \in [Threads -> {"round", "wait_begin", "begin", "kernel", "kernel_end",
               "wait_end", "duration", "join", "init_rapl", "get_pckg",
               "get_cores", "get_single_core", "measure", "measured_kernel",
               "done", "threw"}]
  /\ i \in [Threads -> 0..Rounds]
  /\ arrived \in [Threads -> 0 .. 2 * Rounds + 1]
  /\ register \in [Threads -> 0 .. WordSize - 1]
  /\ counted \in [Threads -> [Round -> 0..Passes]]
  /\ begin \in [Threads -> [Round -> 0..Passes]]
  /\ windows \in Seq([Threads -> [Round -> 0..Passes]])
  /\ measured \in Seq(Durations)
  /\ min_duration \in Durations \union {MaxDuration}
  /\ instructions \in 0 .. WordSize - 1
  /\ executed \in Nat
  /\ source \in 1 .. Sources + 1
  /\ counters \in [{"PCKG", "CORES"} -> {"none", "PCKG", "CORES", "SINGLE_CORE"}]

(* A measured duration covers kernels of its own round only and all of the *)
(* master's, and when the master reads the clock at its end every thread   *)
(* has finished that round: a slow thread counts, and none still executes  *)
(* the last round or already the next (barriers of main.cpp:40 and 43).    *)
WindowIsOneRound ==
  /\ \A n \in 1..Len(windows), t \in Threads, r \in Round :
       /\ r # n - 1 => windows[n][t][r] = 0
       /\ t = Master => windows[n][t][n - 1] = Passes
  /\ pc[Master] = "duration" =>
       \A t \in Threads : counted[t][i[Master]] = Passes

(* The calibration keeps the shortest of all rounds, so that an outlier    *)
(* does not matter, and the master's kernel then executes, in whole passes,*)
(* what fits the requested duration at that rate, neither more nor a pass  *)
(* less (main.cpp:46 and 54-56, kernel.h:7-13).                            *)
KernelFillsDuration ==
  pc[Master] = "done" =>
    LET shortest == Min(ToSet(measured))
        budget == KernelDuration * Instructions IN
    /\ Len(measured) = Rounds
    /\ executed * Unroll = instructions /\ executed > 0
    /\ instructions * shortest <= budget
    /\ budget < (instructions + Unroll) * shortest

(* The kernels of the calibration run in rounds that do not overlap.       *)
RoundsOfCalibration == INSTANCE KernelRounds WITH
  running <- {t \in Threads : pc[t] = "kernel"},
  completed <- [t \in Threads |->
     IF pc[t] \in {"kernel_end", "wait_end", "duration"} THEN i[t] + 1 ELSE i[t]]

(* calibrate() implements KernelRounds, fairness included.                 *)
ImplementsRounds == RoundsOfCalibration!FairSpec

(* Calibration, search for counters and kernels end: the count-down of a   *)
(* kernel hits zero exactly.                                               *)
Terminates == <>Done

=============================================================================
