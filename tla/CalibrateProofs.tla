--------------------------- MODULE CalibrateProofs ---------------------------
(* Proofs about the calibration of data_rapl_stats, for every number of    *)
(* threads, of rounds and of instructions, and every clock.                *)
EXTENDS Calibrate, SequenceTheorems, TLAPS

USE MasterAssumption, RoundsAssumption, KernelAssumption DEF Round

-----------------------------------------------------------------------------

LEMMA SmallMod ==
  ASSUME NEW a \in Nat, NEW b \in Nat, a < b
  PROVE  a % b = a
OBVIOUS

(* The instructions of a kernel are whole passes.                          *)
LEMMA WholePasses == Passes \in Nat \ {0} /\ Instructions = Unroll * Passes
<1>1. Instructions \in Nat /\ Instructions > 0 /\ Instructions < WordSize
  OBVIOUS
<1>2. Instructions = Unroll * (Instructions \div Unroll) + (Instructions % Unroll)
  BY <1>1
<1>3. Instructions \div Unroll \in Nat
  BY <1>1
<1>4. Instructions = Unroll * (Instructions \div Unroll)
  BY <1>1, <1>2, <1>3
<1>5. Instructions \div Unroll # 0
  BY <1>1, <1>4
<1>6. QED
  BY <1>3, <1>4, <1>5 DEF Passes

(* The count-down, m passes before its end.                                *)
LEMMA CountDown ==
  ASSUME NEW m \in Nat \ {0}, Unroll * m < WordSize
  PROVE  /\ (Unroll * m - Unroll) % WordSize = Unroll * (m - 1)
         /\ Unroll * (m - 1) = 0 <=> m = 1
         /\ Unroll * (m - 1) < WordSize
<1>1. Unroll * m - Unroll = Unroll * (m - 1)
  OBVIOUS
<1>2. Unroll * (m - 1) \in Nat /\ Unroll * (m - 1) < Unroll * m
  BY <1>1
<1>3. Unroll * (m - 1) < WordSize
  BY <1>2
<1>4. (Unroll * (m - 1)) % WordSize = Unroll * (m - 1)
  BY <1>2, <1>3, SmallMod
<1>5. Unroll * (m - 1) = 0 <=> m = 1
  OBVIOUS
<1>6. QED
  BY <1>1, <1>3, <1>4, <1>5

-----------------------------------------------------------------------------

(* Between the two barriers of a round, behind both, and after the region. *)
AtFirst == {"wait_begin", "begin", "kernel", "kernel_end"}
AtSecond == {"wait_end", "duration"}
Region == {"round"} \union AtFirst \union AtSecond
Single == {"init_rapl", "get_pckg", "get_cores", "get_single_core", "measure",
           "measured_kernel", "done", "threw"}
After == {"join"} \union Single

(* The barriers of the current round a thread has arrived at and passed.   *)
ArrivedAt(l) == IF l = "round" THEN 0 ELSE IF l \in AtSecond THEN 2 ELSE 1
PassedAt(l) == IF l \in {"round", "wait_begin", "join"} THEN 0
               ELSE IF l = "duration" THEN 2 ELSE 1

(* How often a thread has arrived follows from where it is, and nobody has *)
(* passed a barrier that somebody has not arrived at.                      *)
Places ==
  /\ pc \in [Threads -> Region \union After]
  /\ i \in [Threads -> 0..Rounds]
  /\ arrived \in [Threads -> Nat]
  /\ \A t \in Threads :
       /\ pc[t] \in AtFirst \union AtSecond => i[t] < Rounds
       /\ pc[t] \in After => i[t] = Rounds
       /\ arrived[t] = 2 * i[t] + ArrivedAt(pc[t])
BarrierInv ==
  \A t, u \in Threads : 2 * i[t] + PassedAt(pc[t]) <= arrived[u]
Control == Places /\ BarrierInv

USE DEF AtFirst, AtSecond, Region, Single, After, ArrivedAt, PassedAt

LEMMA Moved ==
  ASSUME Places, NEW t \in Threads, NEW from, NEW to, Goto(t, from, to)
  PROVE  /\ pc[t] = from
         /\ \A u \in Threads : pc'[u] = IF u = t THEN to ELSE pc[u]
         /\ pc' \in [Threads -> Region \union After \union {to}]
BY DEF Goto, Places

(* A step that arrives at no barrier and passes none.                      *)
LEMMA MoveControl ==
  ASSUME Control, NEW t \in Threads, NEW from, NEW to \in Region \union After,
         Goto(t, from, to), UNCHANGED <<i, arrived>>,
         \/ from \in AtFirst /\ to \in AtFirst
         \/ from \in Single /\ to \in Single,
         PassedAt(from) = PassedAt(to)
  PROVE  Control'
<1>1. /\ pc[t] = from
      /\ \A u \in Threads : pc'[u] = IF u = t THEN to ELSE pc[u]
      /\ pc' \in [Threads -> Region \union After]
  BY Moved DEF Control
<1>2. Places'
  BY <1>1 DEF Control, Places
<1>3. BarrierInv'
  BY <1>1 DEF Control, BarrierInv
<1>4. QED
  BY <1>2, <1>3 DEF Control

LEMMA ArriveControl ==
  ASSUME Control, NEW t \in Threads, NEW from, NEW to, Arrive(t, from, to),
         \/ from = "round" /\ to = "wait_begin" /\ i[t] < Rounds
         \/ from = "kernel_end" /\ to = "wait_end"
         \/ from = "round" /\ to = "join" /\ i[t] = Rounds
  PROVE  Control'
<1>1. /\ pc[t] = from
      /\ \A u \in Threads : pc'[u] = IF u = t THEN to ELSE pc[u]
      /\ pc' \in [Threads -> Region \union After]
  BY Moved DEF Control, Arrive
<1>2. /\ i' = i
      /\ arrived' \in [Threads -> Nat]
      /\ \A u \in Threads : arrived'[u] = IF u = t THEN arrived[u] + 1 ELSE arrived[u]
  BY DEF Arrive, Control, Places
<1>3. Places'
  BY <1>1, <1>2 DEF Control, Places
<1>4. BarrierInv'
  <2> SUFFICES ASSUME NEW u \in Threads, NEW v \in Threads
               PROVE  2 * i'[u] + PassedAt(pc'[u]) <= arrived'[v]
    BY DEF BarrierInv
  <2>1. 2 * i[u] + PassedAt(pc[u]) <= arrived[v]
    BY DEF Control, BarrierInv
  <2>2. PassedAt(pc'[u]) <= PassedAt(pc[u])
    BY <1>1
  <2>3. arrived[v] <= arrived'[v] /\ arrived[v] \in Nat /\ arrived'[v] \in Nat
        /\ i[u] \in Nat
    BY <1>2 DEF Control, Places
  <2>4. QED
    BY <1>2, <2>1, <2>2, <2>3
<1>5. QED
  BY <1>3, <1>4 DEF Control

LEMMA PassControl ==
  ASSUME Control, NEW t \in Threads, NEW from, NEW to, AllArrived(t),
         Goto(t, from, to), UNCHANGED <<i, arrived>>,
         \/ from = "wait_begin" /\ to = "begin"
         \/ from = "wait_end" /\ to = "duration"
         \/ from = "join" /\ to \in {"done", "init_rapl"}
  PROVE  Control'
<1>1. /\ pc[t] = from
      /\ \A u \in Threads : pc'[u] = IF u = t THEN to ELSE pc[u]
      /\ pc' \in [Threads -> Region \union After]
  BY Moved DEF Control
<1>2. Places'
  BY <1>1 DEF Control, Places
<1>3. \A u \in Threads : 2 * i[t] + PassedAt(to) <= arrived[u]
  BY <1>1 DEF AllArrived, Control, Places
<1>4. BarrierInv'
  BY <1>1, <1>3 DEF Control, BarrierInv
<1>5. QED
  BY <1>2, <1>4 DEF Control

LEMMA DurationControl ==
  ASSUME Control, NEW t \in Threads, Duration(t)
  PROVE  Control'
<1>1. /\ pc[t] = "duration"
      /\ \A u \in Threads : pc'[u] = IF u = t THEN "round" ELSE pc[u]
      /\ pc' \in [Threads -> Region \union After]
  BY Moved DEF Control, Duration
<1>2. i[t] < Rounds /\ i[t] \in 0..Rounds
  BY <1>1 DEF Control, Places
<1>3. /\ i' \in [Threads -> 0..Rounds] /\ arrived' = arrived
      /\ \A u \in Threads : i'[u] = IF u = t THEN i[u] + 1 ELSE i[u]
  BY <1>2 DEF Duration, Control, Places
<1>4. Places'
  <2>1. \A u \in Threads : i[u] \in Nat
    BY DEF Control, Places
  <2>2. \A u \in Threads : arrived'[u] = 2 * i'[u] + ArrivedAt(pc'[u])
    BY <1>1, <1>3, <2>1 DEF Control, Places
  <2>3. QED
    BY <1>1, <1>3, <2>2 DEF Control, Places
<1>5. BarrierInv'
  BY <1>1, <1>3 DEF Control, BarrierInv, Places
<1>6. QED
  BY <1>4, <1>5 DEF Control

LEMMA ControlInit == Init => Control
BY DEF Init, Control, Places, BarrierInv

LEMMA ControlNext == Control /\ [Next]_vars => Control'
<1> SUFFICES ASSUME Control, [Next]_vars PROVE Control'
  OBVIOUS
<1>1. ASSUME NEW t \in Threads, Begin(t) PROVE Control'
  BY <1>1, MoveControl DEF Begin
<1>2. ASSUME NEW t \in Threads, NEW from, NEW to, Subtract(t, from, to),
             UNCHANGED <<i, arrived>>,
             <<from, to>> \in {<<"kernel", "kernel_end">>, <<"measured_kernel", "done">>}
      PROVE Control'
  <2>1. CASE pc' = pc
    BY <1>2, <2>1 DEF Control, Places, BarrierInv
  <2>2. CASE Goto(t, from, to)
    BY <1>2, <2>2, MoveControl
  <2>3. QED
    BY <1>2, <2>1, <2>2 DEF Subtract, Goto
<1>3. ASSUME init_rapl \/ CallKernel PROVE Control'
  <2>1. UNCHANGED <<i, arrived>>
    BY <1>3 DEF init_rapl, CallKernel, InitSource, GetCounter
  <2>2. \/ pc' = pc
        \/ \E from, to \in Single \ {"done"} : Goto(Master, from, to)
    BY <1>3 DEF init_rapl, CallKernel, InitSource, GetCounter, Goto
  <2>3. CASE pc' = pc
    BY <2>1, <2>3 DEF Control, Places, BarrierInv
  <2>4. QED
    BY <2>1, <2>2, <2>3, MoveControl
<1>4. ASSUME NEW t \in Threads, Thread(t) PROVE Control'
  <2>1. CASE \/ i[t] < Rounds /\ Arrive(t, "round", "wait_begin")
             \/ Arrive(t, "kernel_end", "wait_end")
             \/ i[t] = Rounds /\ Arrive(t, "round", "join")
    BY <2>1, ArriveControl
  <2>2. CASE \/ Pass(t, "wait_begin", "begin") \/ Pass(t, "wait_end", "duration")
             \/ t # Master /\ Pass(t, "join", "done")
    BY <2>2, PassControl DEF Pass
  <2>3. CASE t = Master /\ Result
    BY <2>3, PassControl DEF Result
  <2>4. CASE KernelPass(t)
    BY <2>4, <1>2 DEF KernelPass
  <2>5. CASE MeasuredPass
    BY <2>5, <1>2 DEF MeasuredPass
  <2>6. QED
    BY <1>4, <1>1, <1>3, <2>1, <2>2, <2>3, <2>4, <2>5, DurationControl DEF Thread
<1>5. CASE UNCHANGED vars
  BY <1>5 DEF vars, Control, Places, BarrierInv
<1>6. QED
  BY <1>4, <1>5 DEF Next

-----------------------------------------------------------------------------

Matrix == [Threads -> [Round -> Nat]]
Window == [Threads -> [Round -> Int]]
Finished == {"kernel_end", "wait_end", "duration"}

(* A thread has counted all passes of the rounds it is through, none of the*)
(* later ones, and in its kernel those that the register does not hold.    *)
Work ==
  /\ DOMAIN register = Threads
  /\ counted \in Matrix
  /\ \A t \in Threads, r \in Round :
       /\ r < i[t] \/ (r = i[t] /\ pc[t] \in Finished) => counted[t][r] = Passes
       /\ r > i[t] \/ (r = i[t] /\ pc[t] \notin Finished \union {"kernel"}) =>
            counted[t][r] = 0
       /\ r = i[t] /\ pc[t] = "kernel" =>
            /\ Passes - counted[t][r] \in 1..Passes
            /\ register[t] = Unroll * (Passes - counted[t][r])

(* What the master reads is complete for earlier rounds, nothing for later *)
(* ones and, at the beginning of its kernel, nothing of its own kernel.    *)
BeginInv ==
  /\ begin \in Matrix
  /\ pc[Master] \in {"kernel"} \union Finished =>
       /\ begin[Master][i[Master]] = 0
       /\ \A t \in Threads, r \in Round :
            /\ r < i[Master] => begin[t][r] = Passes
            /\ r > i[Master] => begin[t][r] = 0

OneRound(w, n) ==
  \A t \in Threads, r \in Round :
    /\ r # n - 1 => w[t][r] = 0
    /\ t = Master => w[t][n - 1] = Passes

Windows ==
  /\ windows \in Seq(Window)
  /\ Len(windows) = i[Master]
  /\ \A n \in 1..Len(windows) : OneRound(windows[n], n)

IInv == Control /\ Work /\ BeginInv /\ Windows

USE DEF Finished

(* At the first barrier of a round nobody is in another round, ...         *)
LEMMA AtBegin ==
  ASSUME IInv, pc[Master] = "begin"
  PROVE  /\ i[Master] \in Round
         /\ counted[Master][i[Master]] = 0
         /\ \A t \in Threads, r \in Round :
              /\ r < i[Master] => counted[t][r] = Passes
              /\ r > i[Master] => counted[t][r] = 0
<1>1. i[Master] \in Round
  BY DEF IInv, Control, Places
<1>2. ASSUME NEW t \in Threads PROVE i[t] = i[Master]
  <2>1. 2 * i[Master] + 1 <= arrived[t] /\ 2 * i[t] <= arrived[Master]
    BY DEF IInv, Control, BarrierInv, Places
  <2>2. arrived[Master] = 2 * i[Master] + 1 /\ arrived[t] <= 2 * i[t] + 2
    BY DEF IInv, Control, Places
  <2>3. i[t] \in Nat /\ i[Master] \in Nat /\ arrived[t] \in Nat
    BY DEF IInv, Control, Places
  <2>4. i[Master] <= i[t] /\ i[t] <= i[Master]
    BY <2>1, <2>2, <2>3
  <2>5. QED
    BY <2>3, <2>4
<1>3. QED
  BY <1>1, <1>2 DEF IInv, Work

(* ... and when the master reads the clock at the second, everybody is     *)
(* through with this round and nobody has begun the next.                  *)
LEMMA AtDuration ==
  ASSUME IInv, pc[Master] = "duration"
  PROVE  /\ i[Master] \in Round
         /\ \A t \in Threads, r \in Round :
              /\ r <= i[Master] => counted[t][r] = Passes
              /\ r > i[Master] => counted[t][r] = 0
<1>1. i[Master] \in Round
  BY DEF IInv, Control, Places
<1>2. ASSUME NEW t \in Threads
      PROVE \/ i[t] = i[Master] /\ pc[t] \in AtSecond
            \/ i[t] = i[Master] + 1 /\ pc[t] \in {"round", "wait_begin", "join"}
  <2>1. /\ 2 * i[Master] + 2 <= arrived[t]
        /\ 2 * i[t] + PassedAt(pc[t]) <= arrived[Master]
    BY DEF IInv, Control, BarrierInv, Places
  <2>2. /\ arrived[Master] = 2 * i[Master] + 2
        /\ arrived[t] = 2 * i[t] + ArrivedAt(pc[t])
    BY DEF IInv, Control, Places
  <2>3. /\ i[t] \in Nat /\ i[Master] \in Nat /\ pc[t] \in Region \union After
    BY DEF IInv, Control, Places
  <2>4. PassedAt(pc[t]) \in 0..2 /\ ArrivedAt(pc[t]) \in 0..2
    OBVIOUS
  <2>5. i[t] <= i[Master] + 1 /\ i[t] >= i[Master]
    BY <2>1, <2>2, <2>3, <2>4
  <2>6. CASE i[t] = i[Master]
    <3>1. ArrivedAt(pc[t]) = 2
      BY <2>1, <2>2, <2>3, <2>4, <2>6
    <3>2. QED
      BY <2>6, <3>1
  <2>7. CASE i[t] = i[Master] + 1
    <3>1. PassedAt(pc[t]) = 0
      BY <2>1, <2>2, <2>3, <2>4, <2>7
    <3>2. QED
      BY <2>3, <2>7, <3>1
  <2>8. QED
    BY <2>3, <2>5, <2>6, <2>7
<1>3. ASSUME NEW t \in Threads, NEW r \in Round
      PROVE  /\ r <= i[Master] => counted[t][r] = Passes
             /\ r > i[Master] => counted[t][r] = 0
  <2>1. i[t] \in Nat /\ i[Master] \in Nat
    BY DEF IInv, Control, Places
  <2>2. QED
    BY <1>2, <2>1 DEF IInv, Work
<1>4. QED
  BY <1>1, <1>3

(* Steps that leave the work alone and move between places that mean the   *)
(* same for it.                                                            *)
LEMMA MoveWork ==
  ASSUME IInv, NEW t \in Threads, NEW from, NEW to, Goto(t, from, to),
         UNCHANGED <<i, counted, begin, windows>>,
         DOMAIN register' = Threads,
         \A u \in Threads : pc[u] = "kernel" => register'[u] = register[u],
         \/ from \in Finished /\ to \in Finished
         \/ /\ from \notin Finished \union {"kernel"}
            /\ to \notin Finished \union {"kernel"}
  PROVE  Work' /\ BeginInv' /\ Windows'
<1>1. /\ pc[t] = from
      /\ \A u \in Threads : pc'[u] = IF u = t THEN to ELSE pc[u]
  BY Moved DEF IInv, Control
<1>2. Work'
  BY <1>1 DEF IInv, Work
<1>3. BeginInv'
  BY <1>1 DEF IInv, BeginInv
<1>4. Windows'
  BY DEF IInv, Windows
<1>5. QED
  BY <1>2, <1>3, <1>4

LEMMA BeginWork ==
  ASSUME IInv, NEW t \in Threads, Begin(t)
  PROVE  Work' /\ BeginInv' /\ Windows'
<1>1. /\ pc[t] = "begin"
      /\ \A u \in Threads : pc'[u] = IF u = t THEN "kernel" ELSE pc[u]
  BY Moved DEF IInv, Control, Begin
<1>2. /\ DOMAIN register' = Threads /\ register'[t] = Instructions
      /\ \A u \in Threads \ {t} : register'[u] = register[u]
      /\ UNCHANGED <<i, counted, windows>>
      /\ begin' = IF t = Master THEN counted ELSE begin
  BY DEF Begin, IInv, Work
<1>3. Work'
  BY <1>1, <1>2, WholePasses DEF IInv, Work
<1>4. BeginInv'
  <2>1. CASE t = Master
    BY <1>1, <1>2, <2>1, AtBegin DEF IInv, Work, BeginInv
  <2>2. CASE t # Master
    BY <1>1, <1>2, <2>2 DEF IInv, BeginInv
  <2>3. QED
    BY <2>1, <2>2
<1>5. Windows'
  BY <1>2 DEF IInv, Windows
<1>6. QED
  BY <1>3, <1>4, <1>5

LEMMA OneMore ==
  ASSUME NEW T, NEW R, NEW c \in [T -> [R -> Nat]], NEW t \in T, NEW r \in R
  PROVE  LET d == [c EXCEPT ![t][r] = @ + 1] IN
         /\ d \in [T -> [R -> Nat]] /\ d[t][r] = c[t][r] + 1
         /\ \A u \in T, q \in R : u # t \/ q # r => d[u][q] = c[u][q]
OBVIOUS

LEMMA Difference ==
  ASSUME NEW T, NEW R, NEW a \in [T -> [R -> Nat]], NEW b \in [T -> [R -> Nat]]
  PROVE  [t \in T |-> [r \in R |-> a[t][r] - b[t][r]]] \in [T -> [R -> Int]]
OBVIOUS

LEMMA KernelWork ==
  ASSUME IInv, NEW t \in Threads, KernelPass(t)
  PROVE  Work' /\ BeginInv' /\ Windows'
<1> DEFINE r == i[t]
           m == Passes - counted[t][r]
           rest == (register[t] - Unroll) % WordSize
<1>1. /\ pc[t] = "kernel" /\ r \in Round
      /\ m \in 1..Passes /\ register[t] = Unroll * m
      /\ counted[t][r] \in Nat /\ Passes \in Nat
  <2>1. pc[t] = "kernel"
    BY DEF KernelPass, Subtract
  <2>2. r \in Round
    BY <2>1 DEF IInv, Control, Places
  <2>3. QED
    BY <2>1, <2>2, WholePasses DEF IInv, Work, Matrix
<1>2. rest = Unroll * (m - 1) /\ (rest = 0 <=> m = 1) /\ rest \in Int
  <2>1. rest = Unroll * (m - 1) /\ (Unroll * (m - 1) = 0 <=> m = 1)
    <3>1. m \in Nat \ {0} /\ Unroll * m < WordSize
      <4>1. Unroll * m <= Unroll * Passes /\ Unroll * Passes < WordSize
        BY <1>1, WholePasses
      <4>2. QED
        BY <1>1, <4>1
    <3> HIDE DEF m
    <3>2. QED
      BY <1>1, <3>1, CountDown
  <2>2. Unroll * (m - 1) \in Int
    BY <1>1
  <2>3. QED
    BY <2>1, <2>2
<1> HIDE DEF rest
<1>3. /\ register' = [register EXCEPT ![t] = rest]
      /\ counted' = [counted EXCEPT ![t][r] = @ + 1]
      /\ pc' = IF rest = 0 THEN [pc EXCEPT ![t] = "kernel_end"] ELSE pc
      /\ UNCHANGED <<i, begin, windows>>
  BY DEF KernelPass, Subtract, rest, measuring
<1>4. /\ DOMAIN register' = Threads /\ register'[t] = rest
      /\ \A u \in Threads \ {t} : register'[u] = register[u]
  BY <1>2, <1>3 DEF IInv, Work
<1>5. /\ counted' \in Matrix /\ counted'[t][r] = counted[t][r] + 1
      /\ \A u \in Threads, q \in Round :
           u # t \/ q # r => counted'[u][q] = counted[u][q]
  <2> DEFINE d == [counted EXCEPT ![t][r] = @ + 1]
  <2>1. counted \in [Threads -> [Round -> Nat]]
    BY DEF IInv, Work, Matrix
  <2>2. /\ d \in [Threads -> [Round -> Nat]] /\ d[t][r] = counted[t][r] + 1
        /\ \A u \in Threads, q \in Round :
             u # t \/ q # r => d[u][q] = counted[u][q]
    <3> HIDE DEF r, Round
    <3>1. QED
      BY <1>1, <2>1, OneMore
  <2>3. counted' = d
    BY <1>3
  <2> HIDE DEF d, r
  <2>4. QED
    BY <2>2, <2>3 DEF Matrix
<1>6. /\ \A u \in Threads \ {t} : pc'[u] = pc[u]
      /\ pc'[t] = IF rest = 0 THEN "kernel_end" ELSE "kernel"
  BY <1>1, <1>3 DEF IInv, Control, Places
<1>7. CASE m = 1
  <2>1. counted'[t][r] = Passes /\ pc'[t] = "kernel_end"
    BY <1>1, <1>2, <1>5, <1>6, <1>7
  <2>2. Work'
    BY <1>1, <1>3, <1>4, <1>5, <1>6, <2>1 DEF IInv, Work
  <2>3. QED
    BY <1>1, <1>3, <1>6, <2>1, <2>2 DEF IInv, BeginInv, Windows
<1>8. CASE m # 1
  <2>1. /\ Passes - counted'[t][r] = m - 1 /\ m - 1 \in 1..Passes
        /\ register'[t] = Unroll * (m - 1) /\ pc'[t] = "kernel"
    BY <1>1, <1>2, <1>4, <1>5, <1>6, <1>8
  <2>2. Work'
    <3> HIDE DEF m
    <3>1. QED
      BY <1>1, <1>3, <1>4, <1>5, <1>6, <2>1 DEF IInv, Work
  <2>3. QED
    BY <1>1, <1>3, <1>6, <2>1, <2>2 DEF IInv, BeginInv, Windows
<1>9. QED
  BY <1>7, <1>8

(* A duration that the master measures covers one round.                   *)
LEMMA DurationWork ==
  ASSUME IInv, NEW t \in Threads, Duration(t)
  PROVE  Work' /\ BeginInv' /\ Windows'
<1>1. /\ pc[t] = "duration" /\ i[t] \in Nat
      /\ \A u \in Threads : pc'[u] = IF u = t THEN "round" ELSE pc[u]
  BY Moved DEF IInv, Control, Places, Duration
<1>2. /\ \A u \in Threads : i'[u] = IF u = t THEN i[u] + 1 ELSE i[u]
      /\ UNCHANGED <<register, counted, begin>>
  BY DEF Duration, IInv, Control, Places, measuring
<1>3. Work'
  <2>1. DOMAIN register' = Threads /\ counted' \in Matrix
    BY <1>2 DEF IInv, Work
  <2>2. ASSUME NEW r \in Round
        PROVE /\ r < i'[t] => counted'[t][r] = Passes
              /\ r >= i'[t] => counted'[t][r] = 0
    BY <1>1, <1>2 DEF IInv, Work
  <2>3. QED
    BY <1>1, <1>2, <2>1, <2>2 DEF IInv, Work
<1>4. BeginInv'
  <2>1. CASE t = Master
    BY <1>1, <1>2, <2>1 DEF IInv, BeginInv
  <2>2. CASE t # Master
    BY <1>1, <1>2, <2>2 DEF IInv, BeginInv
  <2>3. QED
    BY <2>1, <2>2
<1>5. Windows'
  <2>1. CASE t # Master
    <3>1. UNCHANGED windows /\ i'[Master] = i[Master]
      BY <1>2, <2>1 DEF Duration, measuring
    <3>2. QED
      BY <3>1 DEF IInv, Windows
  <2>2. CASE t = Master
    <3> DEFINE w == [u \in Threads |-> [r \in Round |-> counted[u][r] - begin[u][r]]]
               n == Len(windows) + 1
    <3>1. /\ windows' = Append(windows, w)
          /\ w \in Window
          /\ windows \in Seq(Window)
          /\ Len(windows) = i[Master]
      <4>1. windows' = Append(windows, w)
        BY <2>2 DEF Duration
      <4>2. w \in Window
        <5>1. /\ counted \in [Threads -> [Round -> Nat]]
              /\ begin \in [Threads -> [Round -> Nat]]
          BY DEF IInv, Work, BeginInv, Matrix
        <5>2. QED
          <6> HIDE DEF Round
          <6>1. QED
            BY <5>1, Difference DEF Window
      <4>3. QED
        BY <4>1, <4>2 DEF IInv, Windows
    <3>2. \A u \in Threads, r \in Round : w[u][r] = counted[u][r] - begin[u][r]
      OBVIOUS
    <3> HIDE DEF w
    <3>3. /\ windows' \in Seq(Window) /\ Len(windows') = n
          /\ \A m \in 1..Len(windows) : windows'[m] = windows[m]
          /\ windows'[n] = w
      BY <3>1, AppendProperties
    <3>4. /\ i[Master] \in Round /\ Passes \in Nat
          /\ \A u \in Threads, r \in Round :
               /\ r <= i[Master] => counted[u][r] = Passes
               /\ r > i[Master] => counted[u][r] = 0
               /\ r < i[Master] => begin[u][r] = Passes
               /\ r > i[Master] => begin[u][r] = 0
          /\ begin[Master][i[Master]] = 0
      BY <1>1, <2>2, AtDuration, WholePasses DEF IInv, BeginInv
    <3>5. /\ \A u \in Threads, r \in Round : r # i[Master] => w[u][r] = 0
          /\ w[Master][i[Master]] = Passes
      BY <3>2, <3>4
    <3>6. OneRound(windows'[n], n)
      <4>1. n - 1 = i[Master]
        BY <3>1, <3>4
      <4> HIDE DEF n
      <4>2. OneRound(w, n)
        BY <3>5, <4>1 DEF OneRound
      <4>3. QED
        BY <3>3, <4>2
    <3>7. \A m \in 1..Len(windows) : OneRound(windows'[m], m)
      BY <3>3 DEF IInv, Windows
    <3>8. \A m \in 1..n : m \in 1..Len(windows) \/ m = n
      BY <3>1, <3>4
    <3>9. \A m \in 1..Len(windows') : OneRound(windows'[m], m)
      BY <3>3, <3>6, <3>7, <3>8
    <3>10. Len(windows') = i'[Master]
      BY <1>2, <2>2, <3>1, <3>3
    <3>11. QED
      BY <3>3, <3>9, <3>10 DEF Windows
  <2>3. QED
    BY <2>1, <2>2
<1>6. QED
  BY <1>3, <1>4, <1>5

LEMMA IInit == Init => IInv
<1> SUFFICES ASSUME Init PROVE IInv
  OBVIOUS
<1>1. Work
  BY DEF Init, Work, Matrix, NoWork
<1>2. BeginInv /\ Windows
  BY DEF Init, BeginInv, Windows, Matrix, NoWork
<1>3. QED
  BY <1>1, <1>2, ControlInit DEF IInv

LEMMA INext == IInv /\ [Next]_vars => IInv'
<1> SUFFICES ASSUME IInv, [Next]_vars PROVE Work' /\ BeginInv' /\ Windows'
  BY ControlNext DEF IInv
<1> DEFINE Goal == Work' /\ BeginInv' /\ Windows'
<1>1. ASSUME NEW t \in Threads, NEW from, NEW to, Arrive(t, from, to),
             <<from, to>> \in {<<"round", "wait_begin">>, <<"round", "join">>,
                              <<"kernel_end", "wait_end">>}
      PROVE  Goal
  BY <1>1, MoveWork DEF Arrive, measuring, IInv, Work
<1>2. ASSUME NEW t \in Threads, NEW from, NEW to, Pass(t, from, to),
             <<from, to>> \in {<<"wait_begin", "begin">>, <<"wait_end", "duration">>,
                              <<"join", "done">>}
      PROVE  Goal
  BY <1>2, MoveWork DEF Pass, measuring, IInv, Work
<1>3. ASSUME Result \/ init_rapl PROVE Goal
  <2>1. UNCHANGED <<i, register, counted, begin, windows>>
    BY <1>3 DEF Result, init_rapl, InitSource, GetCounter, measuring
  <2>2. \/ pc' = pc
        \/ \E from, to \in After : Goto(Master, from, to)
    BY <1>3 DEF Result, init_rapl, InitSource, GetCounter, Goto
  <2>3. CASE pc' = pc
    BY <2>1, <2>3 DEF IInv, Work, BeginInv, Windows
  <2>4. QED
    BY <2>1, <2>2, <2>3, MoveWork DEF IInv, Work
<1>4. ASSUME CallKernel \/ MeasuredPass PROVE Goal
  <2>1. UNCHANGED <<i, counted, begin, windows>> /\ pc[Master] \in Single
    BY <1>4 DEF CallKernel, MeasuredPass, Subtract, Goto, measuring
  <2>2. \E n : register' = [register EXCEPT ![Master] = n]
    BY <1>4 DEF CallKernel, MeasuredPass, Subtract
  <2>3. /\ DOMAIN register' = Threads
        /\ \A u \in Threads : pc[u] = "kernel" => register'[u] = register[u]
    BY <2>1, <2>2 DEF IInv, Work
  <2>4. \/ pc' = pc
        \/ \E from, to \in After : Goto(Master, from, to)
    BY <1>4 DEF CallKernel, MeasuredPass, Subtract, Goto
  <2>5. CASE pc' = pc
    BY <2>1, <2>3, <2>5 DEF IInv, Work, BeginInv, Windows
  <2>6. QED
    BY <2>1, <2>3, <2>4, <2>5, MoveWork
<1>5. ASSUME NEW t \in Threads, Thread(t) PROVE Goal
  <2>1. CASE \/ Arrive(t, "round", "wait_begin") \/ Arrive(t, "round", "join")
             \/ Arrive(t, "kernel_end", "wait_end")
    BY <2>1, <1>1
  <2>2. CASE \/ Pass(t, "wait_begin", "begin") \/ Pass(t, "wait_end", "duration")
             \/ Pass(t, "join", "done")
    BY <2>2, <1>2
  <2>3. QED
    BY <1>3, <1>4, <1>5, <2>1, <2>2, BeginWork, KernelWork, DurationWork DEF Thread
<1>6. CASE UNCHANGED vars
  BY <1>6 DEF vars, IInv, Work, BeginInv, Windows
<1>7. QED
  BY <1>5, <1>6 DEF Next

LEMMA Inductive == Spec => []IInv
BY IInit, INext, PTL DEF Spec

(* However slow a thread is, a measured duration covers kernels of its own *)
(* round only, all of the master's, and ends when everybody has finished   *)
(* that round (main.cpp:37-46).                                            *)
THEOREM DurationsCoverOneRound == Spec => []WindowIsOneRound
<1>1. IInv => WindowIsOneRound
  <2> SUFFICES ASSUME IInv PROVE WindowIsOneRound
    OBVIOUS
  <2>1. \A n \in 1..Len(windows) : OneRound(windows[n], n)
    BY DEF IInv, Windows
  <2>2. \A n \in 1..Len(windows), t \in Threads, r \in Round :
          /\ r # n - 1 => windows[n][t][r] = 0
          /\ t = Master => windows[n][t][n - 1] = Passes
    BY <2>1 DEF OneRound
  <2>3. pc[Master] = "duration" =>
          \A t \in Threads : counted[t][i[Master]] = Passes
    BY AtDuration DEF IInv, Control, Places
  <2>4. QED
    BY <2>2, <2>3 DEF WindowIsOneRound
<1>2. QED
  BY <1>1, Inductive, PTL

-----------------------------------------------------------------------------

(* The state of the rounds that a state of the calibration stands for.     *)
Running == {t \in Threads : pc[t] = "kernel"}
Completed == [t \in Threads |-> IF pc[t] \in Finished THEN i[t] + 1 ELSE i[t]]

LEMMA Mapping ==
  /\ RoundsOfCalibration!vars = <<Running, Completed>>
  /\ RoundsOfCalibration!Init <=>
       Running = {} /\ Completed = [t \in Threads |-> 0]
  /\ \A t \in Threads : RoundsOfCalibration!Begin(t) <=>
       /\ t \notin Running
       /\ Completed[t] < Rounds
       /\ \A u \in Threads : Completed[t] <= Completed[u]
       /\ Running' = Running \union {t}
       /\ Completed' = Completed
  /\ \A t \in Threads : RoundsOfCalibration!End(t) <=>
       /\ t \in Running
       /\ Running' = Running \ {t}
       /\ Completed' = [Completed EXCEPT ![t] = @ + 1]
BY DEF RoundsOfCalibration!vars, RoundsOfCalibration!Init,
       RoundsOfCalibration!Begin, RoundsOfCalibration!End, Running, Completed

(* A step that neither begins nor ends a kernel is not visible.            *)
LEMMA MoveSimulation ==
  ASSUME Control, NEW t \in Threads, NEW from, NEW to, Goto(t, from, to),
         UNCHANGED i, from # "kernel", to # "kernel",
         from \in Finished <=> to \in Finished
  PROVE  Running' = Running /\ Completed' = Completed
<1>1. /\ pc[t] = from
      /\ \A u \in Threads : pc'[u] = IF u = t THEN to ELSE pc[u]
  BY Moved DEF Control
<1>2. QED
  BY <1>1 DEF Running, Completed

LEMMA BeginSimulation ==
  ASSUME Control, NEW t \in Threads, Begin(t)
  PROVE  RoundsOfCalibration!Begin(t)
<1>1. /\ pc[t] = "begin" /\ i' = i
      /\ \A u \in Threads : pc'[u] = IF u = t THEN "kernel" ELSE pc[u]
  BY Moved DEF Control, Begin
<1>2. /\ t \notin Running /\ Running' = Running \union {t}
      /\ Completed' = Completed /\ Completed[t] = i[t] /\ i[t] < Rounds
  BY <1>1 DEF Running, Completed, Control, Places
<1>3. ASSUME NEW u \in Threads PROVE Completed[t] <= Completed[u]
  <2>1. 2 * i[t] + 1 <= arrived[u]
    BY <1>1 DEF Control, BarrierInv
  <2>2. /\ arrived[u] = 2 * i[u] + ArrivedAt(pc[u])
        /\ i[u] \in Nat /\ i[t] \in Nat
    BY DEF Control, Places
  <2>3. i[t] <= i[u]
    BY <2>1, <2>2
  <2>4. QED
    BY <1>2, <2>2, <2>3 DEF Completed
<1>4. QED
  BY <1>2, <1>3, Mapping

LEMMA PassSimulation ==
  ASSUME Control, NEW t \in Threads, KernelPass(t)
  PROVE  \/ Running' = Running /\ Completed' = Completed
         \/ RoundsOfCalibration!End(t)
<1>1. /\ pc[t] = "kernel" /\ i' = i
      /\ pc' = pc \/ pc' = [pc EXCEPT ![t] = "kernel_end"]
  BY DEF KernelPass, Subtract
<1>2. CASE pc' = pc
  BY <1>1, <1>2 DEF Running, Completed
<1>3. CASE pc' = [pc EXCEPT ![t] = "kernel_end"]
  <2>1. \A u \in Threads : pc'[u] = IF u = t THEN "kernel_end" ELSE pc[u]
    BY <1>3 DEF Control, Places
  <2>2. /\ t \in Running /\ Running' = Running \ {t}
        /\ Completed' = [Completed EXCEPT ![t] = @ + 1]
    BY <1>1, <2>1 DEF Running, Completed
  <2>3. QED
    BY <2>2, Mapping
<1>4. QED
  BY <1>1, <1>2, <1>3

LEMMA StepSimulation ==
  Control /\ [Next]_vars => [RoundsOfCalibration!Next]_(RoundsOfCalibration!vars)
<1> SUFFICES ASSUME Control, [Next]_vars
             PROVE  [RoundsOfCalibration!Next]_(RoundsOfCalibration!vars)
  OBVIOUS
<1> DEFINE Stutter == Running' = Running /\ Completed' = Completed
<1>1. ASSUME NEW t \in Threads, Duration(t) PROVE Stutter
  <2>1. /\ pc[t] = "duration"
        /\ \A u \in Threads : pc'[u] = IF u = t THEN "round" ELSE pc[u]
        /\ \A u \in Threads : i'[u] = IF u = t THEN i[u] + 1 ELSE i[u]
    BY <1>1, Moved DEF Duration, Control, Places
  <2>2. QED
    BY <2>1 DEF Running, Completed
<1>2. ASSUME Result \/ init_rapl \/ CallKernel \/ MeasuredPass PROVE Stutter
  <2>1. UNCHANGED i
    BY <1>2 DEF Result, init_rapl, InitSource, GetCounter, CallKernel, MeasuredPass
  <2>2. \/ pc' = pc
        \/ \E from, to \in After : Goto(Master, from, to)
    BY <1>2 DEF Result, init_rapl, InitSource, GetCounter, CallKernel,
                MeasuredPass, Subtract, Goto
  <2>3. CASE pc' = pc
    BY <2>1, <2>3 DEF Running, Completed
  <2>4. QED
    BY <2>1, <2>2, <2>3, MoveSimulation
<1>3. ASSUME NEW t \in Threads, Thread(t)
      PROVE  Stutter \/ \E u \in Threads : RoundsOfCalibration!Begin(u)
                                          \/ RoundsOfCalibration!End(u)
  <2>1. CASE \/ Arrive(t, "round", "wait_begin") \/ Arrive(t, "round", "join")
             \/ Arrive(t, "kernel_end", "wait_end")
    BY <2>1, MoveSimulation DEF Arrive
  <2>2. CASE \/ Pass(t, "wait_begin", "begin") \/ Pass(t, "wait_end", "duration")
             \/ Pass(t, "join", "done")
    BY <2>2, MoveSimulation DEF Pass
  <2>3. QED
    BY <1>1, <1>2, <1>3, <2>1, <2>2, BeginSimulation, PassSimulation DEF Thread
<1>4. ASSUME UNCHANGED vars PROVE Stutter
  BY <1>4 DEF vars, Running, Completed
<1>5. ASSUME Stutter PROVE UNCHANGED RoundsOfCalibration!vars
  BY <1>5 DEF RoundsOfCalibration!vars, Running, Completed
<1>6. CASE \E t \in Threads : Thread(t)
  BY <1>3, <1>5, <1>6 DEF RoundsOfCalibration!Next
<1>7. CASE UNCHANGED vars
  BY <1>4, <1>5, <1>7
<1>8. QED
  BY <1>6, <1>7 DEF Next

(* The calibration implements the abstract rounds of kernels.              *)
THEOREM CalibrationImplementsRounds == Spec => RoundsOfCalibration!Spec
<1>1. Init => RoundsOfCalibration!Init
  BY Mapping DEF Init, Running, Completed
<1>2. IInv => Control
  BY DEF IInv
<1>3. QED
  BY <1>1, <1>2, StepSimulation, Inductive, PTL DEF Spec, RoundsOfCalibration!Spec

-----------------------------------------------------------------------------

(* What Min and the rounding of the result compute.                        *)
LEMMA MinOf ==
  ASSUME NEW S \in SUBSET Int, NEW x \in S, \A y \in S : x <= y
  PROVE  Min(S) = x
<1>1. \A y \in S : (\A z \in S : y <= z) => y = x
  OBVIOUS
<1>2. QED
  BY <1>1 DEF Min

LEMMA MinOfTwo ==
  ASSUME NEW a \in Nat, NEW b \in Nat
  PROVE  /\ Min({a, b}) \in {a, b}
         /\ Min({a, b}) <= a /\ Min({a, b}) <= b
<1>1. CASE a <= b
  BY <1>1, MinOf
<1>2. CASE b <= a
  BY <1>2, MinOf
<1>3. QED
  BY <1>1, <1>2

LEMMA WordPasses ==
  /\ WordSize \div Unroll \in Nat
  /\ WordSize = Unroll * (WordSize \div Unroll)
<1>1. WordSize = Unroll * (WordSize \div Unroll) + (WordSize % Unroll)
  OBVIOUS
<1>2. WordSize \div Unroll \in Nat
  OBVIOUS
<1>3. QED
  BY <1>1, <1>2

LEMMA WholeDuration ==
  ASSUME NEW d \in Durations
  PROVE  LET n == (KernelDuration * Instructions) \div d IN
         \E m \in Nat \ {0} :
           /\ Rounded(n) = Unroll * m /\ Unroll * m < WordSize
           /\ (Unroll * m) * d <= KernelDuration * Instructions
           /\ KernelDuration * Instructions < (Unroll * m + Unroll) * d
<1> DEFINE budget == KernelDuration * Instructions
           n == budget \div d
           m == n \div Unroll
<1>1. budget \in Nat /\ d \in Nat \ {0} /\ n \in Unroll .. WordSize - 1
  BY DurationAssumption
<1>2. budget = d * n + (budget % d) /\ budget % d \in 0 .. d - 1 /\ n \in Nat
  <2> HIDE DEF budget
  <2>1. QED
    BY <1>1
<1>3. n = Unroll * m + (n % Unroll) /\ n % Unroll \in 0 .. Unroll - 1 /\ m \in Nat
  <2> HIDE DEF n
  <2>1. QED
    BY <1>1, <1>2
<1>4. Rounded(n) = n - (n % Unroll)
  BY DEF Rounded
<1> DEFINE whole == Unroll * m
           r == n % Unroll
           q == budget % d
<1> HIDE DEF budget, n, m, r, q
<1>5. whole \in Nat /\ whole <= n /\ n < whole + Unroll /\ Rounded(n) = whole
  BY <1>2, <1>3, <1>4 DEF r
<1>6. m # 0
  BY <1>1, <1>5
<1> HIDE DEF whole
<1>7. whole * d <= budget
  <2>1. whole * d <= n * d
    BY <1>1, <1>2, <1>5
  <2>2. QED
    BY <1>1, <1>2, <1>5, <2>1 DEF q
<1>8. budget < (whole + Unroll) * d
  <2>1. budget < (n + 1) * d
    BY <1>1, <1>2 DEF q
  <2>2. (n + 1) * d <= (whole + Unroll) * d
    BY <1>1, <1>2, <1>5
  <2>3. QED
    BY <1>1, <1>2, <1>5, <2>1, <2>2
<1>9. whole < WordSize
  BY <1>1, <1>5
<1>10. QED
  BY <1>3, <1>5, <1>6, <1>7, <1>8, <1>9 DEF n, budget, whole

(* The duration that is kept is one of those measured, and none is shorter.*)
Shortest ==
  /\ measured \in Seq(Durations)
  /\ Len(measured) = i[Master]
  /\ min_duration \in Nat
  /\ \A n \in 1..Len(measured) : min_duration <= measured[n]
  /\ IF Len(measured) = 0 THEN min_duration = MaxDuration
     ELSE \E n \in 1..Len(measured) : measured[n] = min_duration

(* The result is m whole passes, and so is what the master's kernel counts *)
(* down.                                                                   *)
Fits(m) ==
  /\ instructions = Unroll * m /\ Unroll * m < WordSize
  /\ instructions * min_duration <= KernelDuration * Instructions
  /\ KernelDuration * Instructions < (instructions + Unroll) * min_duration
  /\ pc[Master] = "measured_kernel" =>
       m - executed \in 1..m /\ register[Master] = Unroll * (m - executed)
  /\ pc[Master] = "done" => executed = m

Sized ==
  /\ executed \in Nat
  /\ pc[Master] \notin {"measured_kernel", "done"} => executed = 0
  /\ pc[Master] \in Single => \E m \in Nat \ {0} : Fits(m)

LEMMA ShortestNext == IInv /\ Shortest /\ [Next]_vars => Shortest'
<1> SUFFICES ASSUME IInv, Shortest, [Next]_vars PROVE Shortest'
  OBVIOUS
<1>1. CASE Duration(Master)
  <2>1. PICK d \in Durations : /\ measured' = Append(measured, d)
                              /\ min_duration' = Min({d, min_duration})
    BY <1>1 DEF Duration
  <2>2. i'[Master] = i[Master] + 1
    BY <1>1 DEF Duration, IInv, Control, Places
  <2>3. /\ measured' \in Seq(Durations) /\ Len(measured') = Len(measured) + 1
        /\ \A n \in 1..Len(measured) : measured'[n] = measured[n]
        /\ measured'[Len(measured) + 1] = d
        /\ Len(measured) \in Nat
    BY <2>1, AppendProperties DEF Shortest
  <2>4. d \in Nat /\ d <= MaxDuration /\ \A e \in Durations : e \in Nat
    BY DurationAssumption
  <2>5. /\ min_duration' \in {d, min_duration} /\ min_duration' \in Nat
        /\ min_duration' <= d /\ min_duration' <= min_duration
    BY <2>1, <2>4, MinOfTwo DEF Shortest
  <2>6. \A n \in 1..Len(measured') : n \in 1..Len(measured) \/ n = Len(measured) + 1
    BY <2>3
  <2>7. \A n \in 1..Len(measured) : measured[n] \in Nat
    BY <2>4, ElementOfSeq DEF Shortest
  <2>8. \A n \in 1..Len(measured') : min_duration' <= measured'[n]
    <3>1. \A n \in 1..Len(measured) : min_duration' <= measured[n]
      BY <2>5, <2>7 DEF Shortest
    <3>2. QED
      BY <2>3, <2>5, <2>6, <3>1
  <2>9. \E n \in 1..Len(measured') : measured'[n] = min_duration'
    <3>1. CASE min_duration' = d
      BY <2>3, <3>1
    <3>2. CASE min_duration' # d /\ Len(measured) = 0
      <4>1. min_duration = MaxDuration /\ MaxDuration \in Nat
        BY <3>2, DurationAssumption DEF Shortest
      <4>2. QED
        BY <2>4, <2>5, <3>2, <4>1
    <3>3. CASE min_duration' # d /\ Len(measured) # 0
      <4>1. PICK n \in 1..Len(measured) : measured[n] = min_duration
        BY <3>3 DEF Shortest
      <4>2. n \in 1..Len(measured') /\ measured'[n] = min_duration'
        BY <2>3, <2>5, <3>3, <4>1
      <4>3. QED
        BY <4>2
    <3>4. QED
      BY <3>1, <3>2, <3>3
  <2>10. QED
    BY <2>2, <2>3, <2>5, <2>8, <2>9 DEF Shortest
<1>2. ASSUME NEW t \in Threads, Thread(t), ~Duration(Master)
      PROVE  UNCHANGED <<measured, min_duration>> /\ i'[Master] = i[Master]
  BY <1>2 DEF Thread, Arrive, Pass, Begin, KernelPass, Duration, Result, init_rapl,
              InitSource, GetCounter, CallKernel, MeasuredPass, measuring,
              IInv, Control, Places
<1>3. CASE UNCHANGED vars
  BY <1>3 DEF vars, Shortest
<1>4. QED
  BY <1>1, <1>2, <1>3 DEF Next, Shortest

(* Steps that have no part in the result and in the kernel that uses it.   *)
LEMMA QuietSized ==
  ASSUME Sized, UNCHANGED <<instructions, executed>>,
         \/ pc'[Master] = pc[Master]
         \/ /\ pc[Master] \notin {"measured_kernel", "done"}
            /\ pc'[Master] \notin {"measured_kernel", "done"},
         pc'[Master] \in Single => pc[Master] \in Single /\ UNCHANGED min_duration,
         pc[Master] = "measured_kernel" => register'[Master] = register[Master]
  PROVE  Sized'
BY DEF Sized, Fits

LEMMA ResultSized ==
  ASSUME IInv, Shortest, Sized, Result
  PROVE  Sized'
<1>1. /\ pc[Master] = "join" /\ pc'[Master] = "init_rapl"
      /\ UNCHANGED <<executed, min_duration>>
      /\ instructions' = Rounded((KernelDuration * Instructions) \div min_duration)
  BY DEF Result, Goto, measuring, IInv, Control, Places
<1>2. Len(measured) # 0
  BY <1>1 DEF Shortest, IInv, Control, Places
<1>3. min_duration \in Durations
  BY <1>2, ElementOfSeq DEF Shortest
<1>4. \E m \in Nat \ {0} :
        /\ instructions' = Unroll * m /\ Unroll * m < WordSize
        /\ instructions' * min_duration <= KernelDuration * Instructions
        /\ KernelDuration * Instructions < (instructions' + Unroll) * min_duration
  BY <1>1, <1>3, WholeDuration
<1>5. QED
  BY <1>1, <1>4 DEF Sized, Fits

LEMMA CallSized ==
  ASSUME IInv, Sized, CallKernel
  PROVE  Sized'
<1>1. /\ pc[Master] = "measure" /\ pc'[Master] = "measured_kernel"
      /\ register'[Master] = instructions
      /\ UNCHANGED <<executed, min_duration, instructions>>
  BY DEF CallKernel, Goto, measuring, IInv, Control, Places, Work
<1>2. PICK m \in Nat \ {0} : Fits(m)
  BY <1>1 DEF Sized
<1>3. executed = 0 /\ m - executed = m /\ m \in 1..m
  BY <1>1 DEF Sized
<1>4. Fits(m)'
  BY <1>1, <1>2, <1>3 DEF Fits
<1>5. QED
  BY <1>1, <1>3, <1>4 DEF Sized

LEMMA MeasuredSized ==
  ASSUME IInv, Sized, MeasuredPass
  PROVE  Sized'
<1> DEFINE rest == (register[Master] - Unroll) % WordSize
<1>1. /\ pc[Master] = "measured_kernel"
      /\ pc'[Master] = IF rest = 0 THEN "done" ELSE "measured_kernel"
      /\ register'[Master] = rest
      /\ executed' = (executed + 1) % (WordSize \div Unroll)
      /\ UNCHANGED <<min_duration, instructions>>
  BY DEF MeasuredPass, Subtract, measuring, IInv, Control, Places, Work
<1> HIDE DEF rest
<1>2. PICK m \in Nat \ {0} : Fits(m)
  BY <1>1 DEF Sized
<1>3. /\ executed \in Nat /\ m - executed \in 1..m /\ Unroll * m < WordSize
      /\ register[Master] = Unroll * (m - executed)
  BY <1>1, <1>2 DEF Sized, Fits
<1> DEFINE left == m - executed
<1>4. rest = Unroll * (left - 1) /\ (rest = 0 <=> left = 1)
  <2>1. left \in Nat \ {0} /\ left <= m
    BY <1>3
  <2>2. Unroll * left <= Unroll * m
    BY <2>1
  <2>3. Unroll * left < WordSize
    BY <1>3, <2>1, <2>2
  <2> HIDE DEF left
  <2>4. QED
    BY <1>3, <2>1, <2>3, CountDown DEF rest, left
<1>5. executed' = executed + 1
  <2> DEFINE w == WordSize \div Unroll
  <2>1. w \in Nat /\ Unroll * m < Unroll * w
    BY <1>3, WordPasses
  <2> HIDE DEF w
  <2>2. m < w
    BY <2>1
  <2>3. executed + 1 \in Nat /\ executed + 1 < w
    BY <1>3, <2>1, <2>2
  <2>4. (executed + 1) % w = executed + 1
    BY <2>1, <2>3, SmallMod
  <2>5. QED
    BY <1>1, <2>4 DEF w
<1>6. /\ m - executed' = left - 1
      /\ left = 1 => executed' = m
      /\ left # 1 => left - 1 \in 1..m
      /\ executed' \in Nat
  BY <1>3, <1>5
<1>7. Fits(m)'
  <2>1. /\ instructions' = Unroll * m /\ Unroll * m < WordSize
        /\ instructions' * min_duration' <= KernelDuration * Instructions
        /\ KernelDuration * Instructions < (instructions' + Unroll) * min_duration'
    BY <1>1, <1>2 DEF Fits
  <2> HIDE DEF left
  <2>2. /\ pc'[Master] = "measured_kernel" =>
             m - executed' \in 1..m /\ register'[Master] = Unroll * (m - executed')
        /\ pc'[Master] = "done" => executed' = m
    BY <1>1, <1>4, <1>6
  <2>3. QED
    BY <2>1, <2>2 DEF Fits
<1>8. QED
  BY <1>1, <1>6, <1>7 DEF Sized

LEMMA SizedNext == IInv /\ Shortest /\ Sized /\ [Next]_vars => Sized'
<1> SUFFICES ASSUME IInv, Shortest, Sized, [Next]_vars PROVE Sized'
  OBVIOUS
<1>1. ASSUME NEW t \in Threads, NEW from, NEW to, Goto(t, from, to),
             UNCHANGED <<instructions, executed, register, min_duration>>,
             from \in Region \union {"join"}, t = Master => to \notin Single
      PROVE  Sized'
  <2>1. pc[t] = from /\ \A u \in Threads : pc'[u] = IF u = t THEN to ELSE pc[u]
    BY <1>1, Moved DEF IInv, Control
  <2>2. QED
    BY <1>1, <2>1, QuietSized
<1>2. ASSUME NEW t \in Threads, Begin(t) PROVE Sized'
  <2>1. /\ pc[t] = "begin"
        /\ \A u \in Threads : pc'[u] = IF u = t THEN "kernel" ELSE pc[u]
    BY <1>2, Moved DEF Begin, IInv, Control
  <2>2. UNCHANGED <<instructions, executed, min_duration>>
    BY <1>2 DEF Begin
  <2>3. t # Master => register'[Master] = register[Master]
    BY <1>2 DEF Begin, IInv, Work
  <2>4. QED
    BY <2>1, <2>2, <2>3, QuietSized
<1>3. ASSUME NEW t \in Threads, KernelPass(t) PROVE Sized'
  <2>1. /\ pc[t] = "kernel"
        /\ \A u \in Threads \ {t} : pc'[u] = pc[u]
        /\ pc'[t] \in {"kernel", "kernel_end"}
    BY <1>3 DEF KernelPass, Subtract, IInv, Control, Places
  <2>2. UNCHANGED <<instructions, executed, min_duration>>
    BY <1>3 DEF KernelPass, measuring
  <2>3. t # Master => register'[Master] = register[Master]
    BY <1>3 DEF KernelPass, Subtract, IInv, Work
  <2>4. QED
    BY <2>1, <2>2, <2>3, QuietSized
<1>4. ASSUME NEW t \in Threads, Duration(t) PROVE Sized'
  <2>1. /\ pc[t] = "duration"
        /\ \A u \in Threads : pc'[u] = IF u = t THEN "round" ELSE pc[u]
    BY <1>4, Moved DEF Duration, IInv, Control
  <2>2. /\ UNCHANGED <<instructions, executed, register>>
        /\ t # Master => UNCHANGED min_duration
    BY <1>4 DEF Duration, measuring
  <2>3. QED
    BY <2>1, <2>2, QuietSized
<1>5. ASSUME init_rapl PROVE Sized'
  <2>1. UNCHANGED <<instructions, executed, register, min_duration>>
    BY <1>5 DEF init_rapl, InitSource, GetCounter, measuring
  <2>2. /\ pc[Master] \in Single \ {"measured_kernel", "done"}
        /\ pc'[Master] \in Single \ {"measured_kernel", "done"}
    BY <1>5 DEF init_rapl, InitSource, GetCounter, Goto, IInv, Control, Places
  <2>3. QED
    BY <2>1, <2>2, QuietSized
<1>6. ASSUME NEW t \in Threads, Thread(t) PROVE Sized'
  <2>1. CASE \/ Arrive(t, "round", "wait_begin") \/ Arrive(t, "round", "join")
             \/ Arrive(t, "kernel_end", "wait_end")
    BY <2>1, <1>1 DEF Arrive, measuring
  <2>2. CASE \/ Pass(t, "wait_begin", "begin") \/ Pass(t, "wait_end", "duration")
             \/ t # Master /\ Pass(t, "join", "done")
    BY <2>2, <1>1 DEF Pass, measuring
  <2>3. QED
    BY <1>2, <1>3, <1>4, <1>5, <1>6, <2>1, <2>2, ResultSized, CallSized,
       MeasuredSized DEF Thread
<1>7. CASE UNCHANGED vars
  BY <1>7, QuietSized DEF vars
<1>8. QED
  BY <1>6, <1>7 DEF Next

(* The kernel of the master executes the whole passes that fit the         *)
(* requested duration at the rate of the shortest round, whatever the      *)
(* clock shows in the others (main.cpp:46 and 54-56, kernel.h:7-13).       *)
THEOREM KernelsFillTheDuration == Spec => []KernelFillsDuration
<1>1. Init => Shortest /\ Sized
  BY DurationAssumption DEF Init, Shortest, Sized
<1>2. IInv /\ Shortest /\ Sized => KernelFillsDuration
  <2> SUFFICES ASSUME IInv, Shortest, Sized, pc[Master] = "done"
               PROVE  LET shortest == Min(ToSet(measured))
                          budget == KernelDuration * Instructions IN
                      /\ Len(measured) = Rounds
                      /\ executed * Unroll = instructions /\ executed > 0
                      /\ instructions * shortest <= budget
                      /\ budget < (instructions + Unroll) * shortest
    BY DEF KernelFillsDuration
  <2>1. Len(measured) = Rounds
    BY DEF Shortest, IInv, Control, Places
  <2>2. Min(ToSet(measured)) = min_duration
    <3>1. DOMAIN measured = 1..Len(measured)
      BY DEF Shortest
    <3>2. min_duration \in ToSet(measured)
      BY <2>1, <3>1 DEF Shortest, ToSet
    <3>3. ToSet(measured) \in SUBSET Int
      BY <3>1, ElementOfSeq, DurationAssumption DEF Shortest, ToSet
    <3>4. \A d \in ToSet(measured) : min_duration <= d
      BY <3>1 DEF Shortest, ToSet
    <3>5. QED
      BY <3>2, <3>3, <3>4, MinOf
  <2>3. PICK m \in Nat \ {0} : Fits(m)
    BY DEF Sized
  <2>4. executed = m /\ instructions = Unroll * m
    BY <2>3 DEF Fits
  <2>5. executed * Unroll = instructions /\ executed > 0
    BY <2>4
  <2>6. QED
    BY <2>1, <2>2, <2>3, <2>5 DEF Fits
<1>3. QED
  BY <1>1, <1>2, Inductive, ShortestNext, SizedNext, PTL DEF Spec

-----------------------------------------------------------------------------

Counts == [Threads -> [Round -> 0..Passes]]

(* The values of what no other invariant bounds: registers stay below the  *)
(* word size, and what a window has counted is never negative.             *)
Values ==
  /\ register \in [Threads -> 0 .. WordSize - 1]
  /\ begin \in Counts
  /\ windows \in Seq(Counts)
  /\ instructions \in 0 .. WordSize - 1
  /\ source \in 1 .. Sources + 1
  /\ counters \in [{"PCKG", "CORES"} -> {"none", "PCKG", "CORES", "SINGLE_CORE"}]

LEMMA CountedBound == IInv => counted \in Counts
<1> SUFFICES ASSUME IInv PROVE counted \in Counts
  OBVIOUS
<1>1. Passes \in Nat /\ counted \in Matrix
  BY WholePasses DEF IInv, Work
<1>2. ASSUME NEW t \in Threads, NEW r \in Round
      PROVE  counted[t][r] \in 0..Passes
  <2>1. i[t] \in Nat /\ counted[t][r] \in Nat
    BY <1>1 DEF IInv, Control, Places, Matrix
  <2>2. r \in Nat
    OBVIOUS
  <2>3. r < i[t] \/ r > i[t] \/ r = i[t]
    BY <2>1, <2>2
  <2>4. \/ counted[t][r] = Passes \/ counted[t][r] = 0
        \/ Passes - counted[t][r] \in 1..Passes
    BY <2>3 DEF IInv, Work
  <2>5. QED
    BY <1>1, <2>1, <2>4
<1>3. QED
  BY <1>1, <1>2 DEF Matrix, Counts

LEMMA ValuesInit == Init => Values
<1> SUFFICES ASSUME Init PROVE Values
  OBVIOUS
<1>1. 0 \in 0..Passes
  BY WholePasses
<1>2. begin \in Counts /\ windows \in Seq(Counts)
  BY <1>1 DEF Init, NoWork, Counts
<1>3. register \in [Threads -> 0 .. WordSize - 1] /\ instructions \in 0 .. WordSize - 1
  BY DEF Init
<1>4. /\ source \in 1 .. Sources + 1
      /\ counters \in [{"PCKG", "CORES"} -> {"none", "PCKG", "CORES", "SINGLE_CORE"}]
  BY DEF Init
<1>5. QED
  BY <1>2, <1>3, <1>4 DEF Values

(* What a thread has counted between two readings of the clock.            *)
LEMMA WindowBound ==
  ASSUME IInv, Values, pc[Master] = "duration"
  PROVE  [u \in Threads |-> [r \in Round |-> counted[u][r] - begin[u][r]]] \in Counts
<1>1. ASSUME NEW u \in Threads, NEW r \in Round
      PROVE  counted[u][r] - begin[u][r] \in 0..Passes
  <2>1. /\ Passes \in Nat /\ begin[u][r] \in 0..Passes /\ i[Master] \in Nat
        /\ r \in Nat
    BY WholePasses DEF Values, Counts, IInv, Control, Places
  <2>2. CASE r <= i[Master]
    <3>1. counted[u][r] = Passes
      BY <2>2, AtDuration
    <3>2. QED
      BY <2>1, <3>1
  <2>3. CASE r > i[Master]
    <3>1. counted[u][r] = 0 /\ begin[u][r] = 0
      BY <2>3, AtDuration DEF IInv, BeginInv
    <3>2. QED
      BY <2>1, <3>1
  <2>4. QED
    BY <2>1, <2>2, <2>3
<1>2. QED
  BY <1>1 DEF Counts

LEMMA SubtractBound ==
  ASSUME Values, NEW t \in Threads, NEW from, NEW to, Subtract(t, from, to)
  PROVE  register' \in [Threads -> 0 .. WordSize - 1]
<1>1. register[t] - Unroll \in Int /\ WordSize \in Nat \ {0}
  BY DEF Values
<1>2. (register[t] - Unroll) % WordSize \in 0 .. WordSize - 1
  BY <1>1
<1>3. QED
  BY <1>2 DEF Subtract, Values

LEMMA ValuesNext ==
  IInv /\ IInv' /\ Shortest /\ Sized' /\ Values /\ [Next]_vars => Values'
<1> SUFFICES ASSUME IInv, IInv', Shortest, Sized', Values, [Next]_vars
             PROVE  Values'
  OBVIOUS
<1> DEFINE Scopes == {"PCKG", "CORES"}
           Found == {"none", "PCKG", "CORES", "SINGLE_CORE"}
<1>1. ASSUME NEW t \in Threads, Begin(t) PROVE Values'
  <2>1. register' \in [Threads -> 0 .. WordSize - 1]
    BY <1>1 DEF Begin, Values
  <2>2. begin' \in Counts
    BY <1>1, CountedBound DEF Begin, Values
  <2>3. QED
    BY <1>1, <2>1, <2>2 DEF Begin, rapl, Values
<1>2. ASSUME NEW t \in Threads, KernelPass(t) PROVE Values'
  BY <1>2, SubtractBound DEF KernelPass, measuring, rapl, Values
<1>3. ASSUME NEW t \in Threads, Duration(t) PROVE Values'
  <2>1. CASE t # Master
    BY <1>3, <2>1 DEF Duration, measuring, rapl, Values
  <2>2. CASE t = Master
    <3> DEFINE w == [u \in Threads |-> [r \in Round |-> counted[u][r] - begin[u][r]]]
    <3>1. windows' = Append(windows, w) /\ pc[Master] = "duration" /\ begin' = begin
      BY <1>3, <2>2 DEF Duration, Goto
    <3>2. w \in Counts
      BY <3>1, WindowBound
    <3> HIDE DEF w
    <3>3. windows' \in Seq(Counts)
      BY <3>1, <3>2, AppendProperties DEF Values
    <3>4. QED
      BY <1>3, <2>2, <3>1, <3>3 DEF Duration, rapl, Values
  <2>3. QED
    BY <2>1, <2>2
<1>4. CASE Result
  <2>1. pc'[Master] = "init_rapl"
    BY <1>4 DEF Result, Goto, IInv, Control, Places
  <2>2. PICK m \in Nat \ {0} : Fits(m)'
    BY <2>1 DEF Sized
  <2>3. instructions' = Unroll * m /\ Unroll * m < WordSize /\ Unroll * m \in Nat
    BY <2>2 DEF Fits
  <2>4. instructions' \in 0 .. WordSize - 1
    BY <2>3
  <2>5. QED
    BY <1>4, <2>4 DEF Result, measuring, rapl, Values
<1>5. CASE init_rapl
  <2>1. source' \in 1 .. Sources + 1
    BY <1>5 DEF init_rapl, InitSource, GetCounter, Values
  <2>2. counters' \in [Scopes -> Found]
    <3>1. CASE InitSource
      BY <3>1 DEF InitSource, Values
    <3>2. ASSUME NEW scope \in Scopes, NEW counter \in Found, NEW from, NEW to,
                 NEW missing, GetCounter(scope, counter, from, to, missing)
          PROVE  counters' \in [Scopes -> Found]
      BY <3>2 DEF GetCounter, Values
    <3>3. QED
      BY <1>5, <3>1, <3>2 DEF init_rapl
  <2>3. UNCHANGED <<register, instructions, measuring>>
    BY <1>5 DEF init_rapl, InitSource, GetCounter
  <2>4. QED
    BY <2>1, <2>2, <2>3 DEF measuring, Values
<1>6. CASE CallKernel
  BY <1>6 DEF CallKernel, measuring, rapl, Values
<1>7. CASE MeasuredPass
  BY <1>7, SubtractBound DEF MeasuredPass, measuring, rapl, Values
<1>8. ASSUME NEW t \in Threads, Thread(t) PROVE Values'
  <2>1. CASE \/ Arrive(t, "round", "wait_begin") \/ Arrive(t, "round", "join")
             \/ Arrive(t, "kernel_end", "wait_end")
    BY <2>1 DEF Arrive, measuring, rapl, Values
  <2>2. CASE \/ Pass(t, "wait_begin", "begin") \/ Pass(t, "wait_end", "duration")
             \/ t # Master /\ Pass(t, "join", "done")
    BY <2>2 DEF Pass, measuring, rapl, Values
  <2>3. QED
    BY <1>1, <1>2, <1>3, <1>4, <1>5, <1>6, <1>7, <1>8, <2>1, <2>2 DEF Thread
<1>9. CASE UNCHANGED vars
  BY <1>9 DEF vars, Values
<1>10. QED
  BY <1>8, <1>9 DEF Next

(* For every number of threads, of rounds and of instructions and every    *)
(* clock, no count-down leaves the word, no thread counts more than the    *)
(* passes of a kernel, and no window of the master has a negative count    *)
(* (main.cpp:30-58, kernel.h:7-13).                                        *)
THEOREM TypeCorrect == Spec => []TypeOK
<1>1. IInv /\ Shortest /\ Sized /\ Values => TypeOK
  <2> SUFFICES ASSUME IInv, Shortest, Sized, Values PROVE TypeOK
    OBVIOUS
  <2>1. arrived \in [Threads -> 0 .. 2 * Rounds + 1]
    <3> SUFFICES ASSUME NEW t \in Threads PROVE arrived[t] \in 0 .. 2 * Rounds + 1
      BY DEF IInv, Control, Places
    <3>1. /\ i[t] \in 0..Rounds /\ arrived[t] = 2 * i[t] + ArrivedAt(pc[t])
          /\ pc[t] \in Region \union After
          /\ pc[t] \in AtFirst \union AtSecond => i[t] < Rounds
      BY DEF IInv, Control, Places
    <3>2. ArrivedAt(pc[t]) \in 0..2 /\ (ArrivedAt(pc[t]) = 2 => i[t] < Rounds)
      BY <3>1
    <3> HIDE DEF ArrivedAt
    <3>3. QED
      BY <3>1, <3>2
  <2>2. min_duration \in Durations \union {MaxDuration}
    <3>1. CASE Len(measured) = 0
      BY <3>1 DEF Shortest
    <3>2. CASE Len(measured) # 0
      BY <3>2, ElementOfSeq DEF Shortest
    <3>3. QED
      BY <3>1, <3>2
  <2>3. counted \in Counts
    BY CountedBound
  <2>4. QED
    BY <2>1, <2>2, <2>3
    DEF IInv, Control, Places, Shortest, Sized, Values, Counts, TypeOK
<1>2. Init => Shortest /\ Sized
  BY DurationAssumption DEF Init, Shortest, Sized
<1>3. IInv /\ IInv' /\ Shortest /\ Sized /\ Sized' /\ Values /\ [Next]_vars => Values'
  BY ValuesNext
<1>4. QED
  BY <1>1, <1>2, <1>3, Inductive, ShortestNext, SizedNext, ValuesInit, PTL DEF Spec

=============================================================================
