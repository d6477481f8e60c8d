------------------------------- MODULE VxorTest -------------------------------
(***************************************************************************)
(* vxor_test_high.c: after a warm-up the program executes one kernel, in   *)
(* all threads, for every combination of two operands with 0, 8, ... 64    *)
(* bits set, as a region of a trace with the numbers of bits as metrics.   *)
(* The second operand is exclusive-ored with the first one again and again.*)
(*                                                                         *)
(* A word is the set of its bits that are set.  The eight pairs of         *)
(* registers of a thread always hold the same, so there is one here.       *)
(***************************************************************************)
EXTENDS Integers, Sequences, FiniteSets, SequencesExt

CONSTANTS
  Threads,
  WordBits,       \* 64 in the code
  ReportEvery,    \* report_every, 8 in the code
  Unroll,         \* what a pass of the kernel subtracts from r10, 32
  Passes,         \* passes, 1e10 in the code
  WarmUp          \* the warm-up is so many times as long, 50 in the code

ASSUME BitsAssumption ==
  /\ WordBits \in Nat \ {0} /\ ReportEvery \in 1 .. WordBits
  /\ WordBits % ReportEvery = 0
ASSUME PassesAssumption ==
  /\ Unroll \in Nat \ {0} /\ Passes \in Nat \ {0} /\ WarmUp \in Nat \ {0}
  /\ Passes % Unroll = 0

VARIABLES
  at,             \* where main() is
  value_i, value2_i,
  value, value2,
  addr,           \* the operands in memory: words 0 to 7, words 8 to 15
  metric,         \* the metrics last reported
  region,         \* whether the region of the trace is entered
  regions,        \* the metrics of the regions that have ended
  thread          \* where each thread is, its registers ymm0, ymm8 and r10

vars == <<at, value_i, value2_i, value, value2, addr, metric, region, regions,
          thread>>

loops == <<value_i, value2_i, value, value2>>
trace == <<metric, region, regions>>

Word == 0 .. WordBits - 1
Reported == {n \in 0 .. WordBits : n % ReportEvery = 0}

Waiting == [pc |-> "fork", ymm0 |-> {}, ymm8 |-> {}, r10 |-> 0]

Xor(a, b) == (a \ b) \union (b \ a)

-----------------------------------------------------------------------------

Init ==
  /\ at = "warm_up"
  /\ value_i = 0 /\ value2_i = 0 /\ value = {} /\ value2 = {}
  /\ addr = <<{}, {}>>
  /\ metric = <<0, 0>> /\ region = FALSE /\ regions = <<>>
  /\ thread = [t \in Threads |-> Waiting]

(* The call of calculate(): its threads start where they are.              *)
Call(first, second) ==
  /\ at' = "calculate"
  /\ addr' = <<first, second>>

(* The warm-up has all bits set, and is no region of the trace.            *)
Warm ==
  /\ at = "warm_up"
  /\ Call(Word, Word)
  /\ UNCHANGED <<loops, trace, thread>>

(* x | 1 << n.  A shift by the width of the word is undefined.             *)
WithBit(x, n) == IF n < WordBits THEN {x \union {n}} ELSE SUBSET Word

(* Mutant of Outer: the inner loop is not started over.                    *)
OuterKeepsInner ==
  /\ at = "outer"
  /\ \/ /\ value_i > WordBits
        /\ at' = "end"
        /\ UNCHANGED <<loops, metric>>
     \/ /\ value_i <= WordBits /\ value_i \notin Reported
        /\ value' \in WithBit(value, value_i)
        /\ value_i' = value_i + 1
        /\ UNCHANGED <<at, value2_i, value2, metric>>
     \/ /\ value_i \in Reported
        /\ metric' = [metric EXCEPT ![1] = value_i]
        /\ at' = "inner"
        /\ UNCHANGED loops
  /\ UNCHANGED <<addr, region, regions, thread>>

(* One turn of the outer loop ...                                          *)
Outer ==
  /\ at = "outer"
  /\ \/ /\ value_i > WordBits
        /\ at' = "end"
        /\ UNCHANGED <<loops, metric>>
     \/ /\ value_i <= WordBits /\ value_i \notin Reported
        /\ value' \in WithBit(value, value_i)
        /\ value_i' = value_i + 1
        /\ UNCHANGED <<at, value2_i, value2, metric>>
     \/ /\ value_i \in Reported
        /\ metric' = [metric EXCEPT ![1] = value_i]
        /\ value2' = {} /\ value2_i' = 0
        /\ at' = "inner"
        /\ UNCHANGED <<value_i, value>>
  /\ UNCHANGED <<addr, region, regions, thread>>

(* ... and of the inner one: it ends, skips a number of bits that is not   *)
(* reported, or enters a region and calls the kernel.                      *)
Inner ==
  /\ at = "inner"
  /\ \/ /\ value2_i > WordBits
        /\ value' \in WithBit(value, value_i)
        /\ value_i' = value_i + 1
        /\ at' = "outer"
        /\ UNCHANGED <<value2_i, value2, addr, metric, region>>
     \/ /\ value2_i <= WordBits /\ value2_i \notin Reported
        /\ value2' \in WithBit(value2, value2_i)
        /\ value2_i' = value2_i + 1
        /\ UNCHANGED <<at, value_i, value, addr, metric, region>>
     \/ /\ value2_i \in Reported
        /\ metric' = [metric EXCEPT ![2] = value2_i]
        /\ region' = TRUE
        /\ Call(value, value2)
        /\ UNCHANGED loops
  /\ UNCHANGED <<regions, thread>>

(* A thread of the parallel region loads its registers ...                 *)
Load(t) ==
  /\ at = "calculate" /\ thread[t].pc = "fork"
  /\ thread' = [thread EXCEPT ![t] =
       [pc |-> "loop", ymm0 |-> addr[1], ymm8 |-> addr[2],
        r10 |-> IF region THEN Passes ELSE Passes * WarmUp]]
  /\ UNCHANGED <<at, loops, addr, trace>>

(* ... and executes passes of four exclusive-ors until r10 is zero.        *)
XorPass(t) ==
  LET me == thread[t]
      Once(x) == Xor(me.ymm0, x) IN
  /\ me.pc = "loop"
  /\ thread' = [thread EXCEPT ![t] =
       [me EXCEPT !.ymm8 = Once(Once(Once(Once(me.ymm8)))),
                  !.r10 = me.r10 - Unroll,
                  !.pc = IF me.r10 - Unroll = 0 THEN "join" ELSE "loop"]]
  /\ UNCHANGED <<at, loops, addr, trace>>

(* Mutant of Join: the threads are not waited for.                         *)
JoinNoWait ==
  /\ at = "calculate" /\ \E t \in Threads : thread[t].pc = "join"
  /\ thread' = [t \in Threads |->
       IF thread[t].pc = "join" THEN Waiting ELSE thread[t]]
  /\ IF region
     THEN /\ value2' \in WithBit(value2, value2_i)
          /\ value2_i' = value2_i + 1
          /\ at' = "inner" /\ region' = FALSE
          /\ regions' = Append(regions, metric)
     ELSE at' = "outer" /\ UNCHANGED <<value2, value2_i, region, regions>>
  /\ UNCHANGED <<value_i, value, addr, metric>>

(* The parallel region ends when all threads are there; main() leaves the  *)
(* region of the trace and sets the next bit.                              *)
Join ==
  /\ at = "calculate" /\ \A t \in Threads : thread[t].pc = "join"
  /\ thread' = [t \in Threads |-> Waiting]
  /\ IF region
     THEN /\ value2' \in WithBit(value2, value2_i)
          /\ value2_i' = value2_i + 1
          /\ at' = "inner" /\ region' = FALSE
          /\ regions' = Append(regions, metric)
     ELSE at' = "outer" /\ UNCHANGED <<value2, value2_i, region, regions>>
  /\ UNCHANGED <<value_i, value, addr, metric>>

-----------------------------------------------------------------------------

main == Warm \/ Outer \/ Inner \/ Join

Kernel(t) == Load(t) \/ XorPass(t)

Done == at = "end"

Next == main \/ (\E t \in Threads : Kernel(t)) \/ (Done /\ UNCHANGED vars)

Spec == Init /\ [][Next]_vars

-----------------------------------------------------------------------------

(* Where main() is goes with the numbers, operands and registers it has    *)
(* there (vxor_test_high.c:33-49).                                         *)
TypeOK ==
  /\ at \in {"warm_up", "outer", "inner", "calculate", "end"}
  /\ value_i \in 0 .. WordBits + 1 /\ value2_i \in 0 .. WordBits + 1
  /\ value \subseteq Word /\ value2 \subseteq Word
  /\ addr \in (SUBSET Word) \X (SUBSET Word)
  /\ metric \in Reported \X Reported /\ region \in BOOLEAN
  /\ regions \in Seq(Reported \X Reported)
  /\ thread \in [Threads -> [pc : {"fork", "loop", "join"}, ymm0 : SUBSET Word,
                             ymm8 : SUBSET Word, r10 : 0 .. Passes * WarmUp]]

(* While a region of the trace is entered, every thread that computes does *)
(* so on operands with as many bits set as the metrics of that region tell,*)
(* and the second one has them again after every pass; no thread computes  *)
(* anything else, except the warm-up (vxor_test_high.c:63-100).  The       *)
(* undefined shift by 64 never gets into an operand.                       *)
MetricsTellOperands ==
  \A t \in Threads : thread[t].pc \in {"loop", "join"} =>
    IF region
    THEN /\ Cardinality(thread[t].ymm0) = metric[1]
         /\ Cardinality(thread[t].ymm8) = metric[2]
    ELSE regions = <<>> /\ thread[t].ymm0 = Word

(* Every combination of the reported numbers of bits becomes one region of *)
(* the trace, the second number counting faster (lines 63-100).            *)
EveryCombination ==
  LET width == Cardinality(Reported)
      Expected(n) == <<((n - 1) \div width) * ReportEvery,
                       ((n - 1) % width) * ReportEvery>> IN
  /\ \A n \in DOMAIN regions : regions[n] = Expected(n)
  /\ Done => Len(regions) = width * width

=============================================================================
