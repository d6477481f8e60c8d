---------------------------- MODULE KernelRounds ----------------------------
(***************************************************************************)
(* What the OpenMP kernels of data_rapl_stats promise to whoever reads the *)
(* energy counters: the threads execute the same number of kernels, in     *)
(* rounds that do not overlap.  A thread may only begin the kernel of its  *)
(* next round when every other thread has finished all earlier rounds.     *)
(*                                                                         *)
(* The barriers, the operands and the energy are left out: RaplStats and   *)
(* Calibrate each implement this specification with a barrier of their own.*)
(***************************************************************************)
EXTENDS Integers

CONSTANTS Threads, Rounds

VARIABLES
  running,     \* the threads that execute their kernel
  completed    \* how many kernels each thread has finished

vars == <<running, completed>>

Init ==
  /\ running = {}
  /\ completed = [t \in Threads |-> 0]

Begin(t) ==
  /\ t \notin running
  /\ completed[t] < Rounds
  /\ \A u \in Threads : completed[t] <= completed[u]
  /\ running' = running \union {t}
  /\ UNCHANGED completed

End(t) ==
  /\ t \in running
  /\ running' = running \ {t}
  /\ completed' = [completed EXCEPT ![t] = @ + 1]

Next == \E t \in Threads : Begin(t) \/ End(t)

Spec == Init /\ [][Next]_vars

FairSpec == Spec /\ \A t \in Threads : WF_vars(Begin(t) \/ End(t))

-----------------------------------------------------------------------------

TypeOK ==
  /\ running \subseteq Threads
  /\ completed \in [Threads -> 0..Rounds]

(* Two kernels that run at the same time belong to the same round.         *)
RoundsDisjoint ==
  \A t, u \in running : completed[t] = completed[u]

(* No thread is ever two kernels ahead of another.                         *)
WithinOneRound ==
  \A t, u \in Threads : completed[t] <= completed[u] + 1

=============================================================================
