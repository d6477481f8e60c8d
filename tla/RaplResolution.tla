---------------------------- MODULE RaplResolution ----------------------------
(***************************************************************************)
(* RAPL_resoultion/test.c: a program polls the register of an energy       *)
(* counter and takes a time stamp whenever it finds another value; the     *)
(* differences of the stamps are to tell how often the hardware updates    *)
(* the counter.                                                            *)
(*                                                                         *)
(* Time is counted in ticks: a step of the program takes one, and as many  *)
(* more as the scheduler keeps the program from running.                   *)
(***************************************************************************)
EXTENDS Integers, Sequences

CONSTANTS
  Measurements,   \* NR_MEASUREMENTS, 10000 in the code
  Period,         \* the ticks between two updates of the counter
  Energies,       \* what an update may add to the counter
  CounterSize,    \* the counter wraps here
  Stolen,         \* bound: the ticks the scheduler may take, in all
  Horizon         \* bound: the clock stops here for a program that polls a
                  \* register it cannot read

VARIABLES
  line,           \* where main() is
  readable,       \* whether the register can be read
  msr,            \* the register
  tsc,            \* the time-stamp counter
  stolen,         \* the ticks the scheduler has taken
  status, cur_status,
  cycles,         \* the stamps; the code's cycles[i] is cycles[i + 1]
  updates,        \* for each stamp, the updates the value read before includes
  read_at,        \* when the register was last read
  printed         \* the output: pairs of the index i and the difference

vars == <<line, readable, msr, tsc, stolen, status, cur_status, cycles,
          updates, read_at, printed>>

machine == <<readable, msr, tsc, stolen>>

Counter == 0 .. CounterSize - 1

-----------------------------------------------------------------------------

(* The program is started at any time; both variables for the values are   *)
(* uninitialized.                                                          *)
Init ==
  /\ line = "read first" /\ readable \in BOOLEAN
  /\ msr = 0 /\ tsc \in Period .. 2 * Period - 1 /\ stolen = 0
  /\ status \in Counter /\ cur_status \in Counter
  /\ cycles = <<>> /\ updates = <<>> /\ read_at = tsc /\ printed = <<>>

(* A step takes its time, in which the hardware may update the counter.    *)
Elapse ==
  /\ \E extra \in 0 .. Stolen - stolen :
       /\ stolen' = stolen + extra
       /\ tsc' = IF readable \/ tsc + 1 + extra < Horizon
                 THEN tsc + 1 + extra ELSE Horizon
  /\ \E e \in Energies :
       msr' = (msr + e * (tsc' \div Period - tsc \div Period)) % CounterSize
  /\ UNCHANGED readable

(* pread() leaves the variable alone when it fails, which is not looked at.*)
Pread(x) == IF readable THEN msr ELSE x

(* The value the polling loop will wait to change.                         *)
ReadFirst ==
  /\ line = "read first"
  /\ status' = Pread(status) /\ read_at' = tsc
  /\ line' = "stamp"
  /\ Elapse
  /\ UNCHANGED <<cur_status, cycles, updates, printed>>

(* Mutant of Stamp: the array gets one stamp more than it has places.      *)
StampOneMore ==
  /\ line = "stamp"
  /\ cycles' = Append(cycles, tsc)
  /\ updates' = Append(updates, read_at \div Period)
  /\ line' = IF Len(cycles') < Measurements + 1 THEN "poll" ELSE "print"
  /\ Elapse
  /\ UNCHANGED <<status, cur_status, read_at, printed>>

(* sync_rdtsc2(cycles[i]), of i = 0 too.                                   *)
Stamp ==
  /\ line = "stamp"
  /\ cycles' = Append(cycles, tsc)
  /\ updates' = Append(updates, read_at \div Period)
  /\ line' = IF Len(cycles') < Measurements THEN "poll" ELSE "print"
  /\ Elapse
  /\ UNCHANGED <<status, cur_status, read_at, printed>>

(* Mutant of Poll: the value seen is not kept, and any later one differs.  *)
PollNotKept ==
  /\ line = "poll"
  /\ cur_status' = Pread(cur_status) /\ read_at' = tsc
  /\ IF cur_status' = status
     THEN UNCHANGED <<line, status>>
     ELSE line' = "stamp" /\ UNCHANGED status
  /\ Elapse
  /\ UNCHANGED <<cycles, updates, printed>>

(* One turn of the polling loop.                                           *)
Poll ==
  /\ line = "poll"
  /\ cur_status' = Pread(cur_status) /\ read_at' = tsc
  /\ IF cur_status' = status
     THEN UNCHANGED <<line, status>>
     ELSE line' = "stamp" /\ status' = cur_status'
  /\ Elapse
  /\ UNCHANGED <<cycles, updates, printed>>

Difference(i) == <<i, cycles[i + 1] - cycles[i]>>

(* Mutant of Output: the first interval, begun at no update, is printed.   *)
OutputFirst ==
  /\ line = "print"
  /\ printed' = [n \in 1 .. Measurements - 2 |-> Difference(n)]
  /\ line' = "end"
  /\ UNCHANGED <<machine, status, cur_status, cycles, updates, read_at>>

(* The differences from i = 2 to NR_MEASUREMENTS - 2.                      *)
Output ==
  /\ line = "print"
  /\ printed' = [n \in 1 .. Measurements - 3 |-> Difference(n + 1)]
  /\ line' = "end"
  /\ UNCHANGED <<machine, status, cur_status, cycles, updates, read_at>>

-----------------------------------------------------------------------------

main == ReadFirst \/ Stamp \/ Poll \/ Output

Done == line = "end"

-----------------------------------------------------------------------------

(* Where main() is goes with what it has: a stamp for every value found,   *)
(* the differences only at the end (test.c:43-56).                         *)
TypeOK ==
  /\ line \in {"read first", "stamp", "poll", "print", "end"}
  /\ readable \in BOOLEAN /\ msr \in Counter
  /\ stolen \in 0 .. Stolen /\ read_at \in 0 .. tsc
  /\ {status, cur_status} \subseteq Counter
  /\ Len(cycles) \in 0 .. Measurements /\ Len(updates) = Len(cycles)
  /\ (printed # <<>>) => Done

(* The ticks that may pass between an update and the stamp after the value *)
(* it leaves was read: a turn of the loop, the reading, and what the       *)
(* scheduler has taken.                                                    *)
Latency == 1 + stolen

(* Every difference printed spans one whole number of update periods, one  *)
(* at least, give or take the latency of a stamp; with nothing taken by    *)
(* the scheduler it is one period (test.c:45-56).  This needs the first    *)
(* difference, begun at no update, to be left out.                         *)
WholePeriods ==
  \A n \in DOMAIN printed :
    LET i == printed[n][1]
        periods == updates[i + 1] - updates[i] IN
    /\ printed[n][2] \in periods * Period - Latency .. periods * Period + Latency
    /\ periods >= 1
    /\ stolen = 0 => periods = 1

=============================================================================
