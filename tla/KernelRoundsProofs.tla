------------------------- MODULE KernelRoundsProofs -------------------------
(* Proofs about the abstract rounds, for every set of threads and every    *)
(* number of rounds.                                                       *)
EXTENDS KernelRounds, TLAPS

(* A running thread is never ahead of another one.                         *)
RunningBehind ==
  \A t \in running : \A u \in Threads : completed[t] <= completed[u]

RunningBelow == \A t \in running : completed[t] < Rounds

IInv == TypeOK /\ RunningBehind /\ RunningBelow /\ WithinOneRound

(* The strengthened invariant holds in every reachable state.              *)
LEMMA RoundsInductive == ASSUME Rounds \in Nat PROVE Spec => []IInv
<1>1. Init => IInv
  BY DEF Init, IInv, TypeOK, RunningBehind, RunningBelow, WithinOneRound
<1>2. IInv /\ [Next]_vars => IInv'
  <2> SUFFICES ASSUME IInv, [Next]_vars PROVE IInv'
    OBVIOUS
  <2> USE DEF IInv, TypeOK, RunningBehind, RunningBelow, WithinOneRound
  <2>1. ASSUME NEW t \in Threads, Begin(t) PROVE IInv'
    BY <2>1 DEF Begin
  <2>2. ASSUME NEW t \in Threads, End(t) PROVE IInv'
    <3>1. TypeOK'
      BY <2>2 DEF End
    <3>2. \A u \in Threads : completed'[u] =
             IF u = t THEN completed[u] + 1 ELSE completed[u]
      BY <2>2 DEF End
    <3>3. running' = running \ {t} /\ t \in running
      BY <2>2 DEF End
    <3>4. RunningBehind' /\ RunningBelow'
      BY <3>2, <3>3
    <3>5. WithinOneRound'
      BY <3>2, <3>3
    <3>6. QED
      BY <3>1, <3>4, <3>5
  <2>3. CASE UNCHANGED vars
    BY <2>3 DEF vars
  <2>4. QED
    BY <2>1, <2>2, <2>3 DEF Next
<1>3. QED
  BY <1>1, <1>2, PTL DEF Spec

(* Kernels that run at the same time are of the same round, however many   *)
(* threads there are.                                                      *)
THEOREM RoundsNeverOverlap ==
  ASSUME Rounds \in Nat
  PROVE  Spec => [](RoundsDisjoint /\ WithinOneRound)
<1>1. IInv => RoundsDisjoint /\ WithinOneRound
  BY DEF IInv, TypeOK, RunningBehind, RoundsDisjoint
<1>2. QED
  BY <1>1, RoundsInductive, PTL

=============================================================================
