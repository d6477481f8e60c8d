--------------------------- MODULE RaplStatsProofs ---------------------------
(* Proofs about the measuring loop of data_rapl_stats, for every number of *)
(* threads, of iterations and of units of work, and every random sequence. *)
EXTENDS RaplStats, TLAPS

(* Past the barrier of the current iteration, kernel included.             *)
AfterKernel == {"now", "read_pckg", "read_cores", "record"}
InIteration == {"barrier", "wait", "kernel"} \union AfterKernel

Passed(t) == IF pc[t] = "kernel" \/ pc[t] \in AfterKernel
             THEN i[t] + 1 ELSE i[t]

(* How often a thread has arrived at a barrier follows from where it is.   *)
Arrivals ==
  \A t \in Threads :
    /\ pc[t] \in {"region_end", "join", "report", "done"} => i[t] = Iterations
    /\ arrived[t] = IF pc[t] \in {"wait", "kernel", "join", "report", "done"}
                       \/ pc[t] \in AfterKernel
                    THEN i[t] + 1 ELSE i[t]

(* What a thread has drawn follows from where it is.                       *)
Operands ==
  \A t \in Threads :
    /\ gen[t] = IF pc[t] \in InIteration THEN i[t] + 1 ELSE i[t]
    /\ pc[t] \in InIteration => op[t] = 32 * Draw[i[t]]

(* Nobody has passed a barrier that somebody has not arrived at.           *)
BarrierInv == \A t, u \in Threads : Passed(t) <= arrived[u]

IInv == TypeOK /\ Arrivals /\ Operands /\ BarrierInv

USE MasterAssumption, IterationsAssumption, WorkAssumption, DrawAssumption

LEMMA DrawWeight == \A n \in Loop : 32 * Draw[n] \in {0, 32, 64}
BY DEF Loop

LEMMA SnapshotDifference ==
  ASSUME NEW a \in Snapshot, NEW b \in Snapshot
  PROVE  Minus(a, b) \in Difference
<1>1. \A t \in Threads, j \in Loop : a[t][j] - b[t][j] \in Int
  BY DEF Snapshot
<1>2. QED
  BY <1>1 DEF Minus, Difference

LEMMA TypeInit == Init => TypeOK
BY DEF Init, TypeOK, NoWork, Snapshot, Difference, Scopes, Locations,
       MasterLocations, Loop, Experiments

-----------------------------------------------------------------------------

(* Moving one thread to an allowed location keeps the types of pc.         *)
LEMMA GotoType ==
  ASSUME TypeOK, NEW t \in Threads, NEW from, NEW to \in Locations,
         Goto(t, from, to), t # Master => to \notin MasterLocations
  PROVE  /\ pc' \in [Threads -> Locations]
         /\ \A u \in Threads \ {Master} : pc'[u] \notin MasterLocations
         /\ \A u \in Threads : pc'[u] = IF u = t THEN to ELSE pc[u]
         /\ pc[t] = from
BY DEF TypeOK, Goto

LEMMA TypeNext == IInv /\ [Next]_vars => TypeOK'
<1> SUFFICES ASSUME IInv, [Next]_vars PROVE TypeOK'
  OBVIOUS
<1>t. TypeOK
  BY DEF IInv
<1>a. ASSUME NEW t \in Threads, Prepare(t) PROVE TypeOK'
  <2>1. i[t] \in Loop /\ gen[t] = i[t]
    <3>1. pc[t] = "loop" /\ i[t] < Iterations
      BY <1>a DEF Prepare, Goto
    <3>2. i[t] \in 0..Iterations
      BY <1>t DEF TypeOK
    <3>3. i[t] \in Loop
      BY <3>1, <3>2 DEF Loop
    <3>4. gen[t] = i[t]
      BY <3>1 DEF IInv, Operands, InIteration, AfterKernel
    <3>5. QED
      BY <3>3, <3>4
  <2>2. op' \in [Threads -> {0, 32, 64}] /\ gen' \in [Threads -> 0..Iterations]
    BY SMTT(20), <1>a, <1>t, <2>1, DrawWeight DEF Prepare, TypeOK, Loop
  <2>3. /\ pc' \in [Threads -> Locations]
        /\ \A u \in Threads \ {Master} : pc'[u] \notin MasterLocations
        /\ \A u \in Threads : pc'[u] = IF u = t THEN "barrier" ELSE pc[u]
    <3>1. Goto(t, "loop", "barrier")
      BY <1>a DEF Prepare
    <3>2. "barrier" \in Locations /\ "barrier" \notin MasterLocations
      BY DEF Locations, MasterLocations
    <3>3. QED
      BY <1>t, <3>1, <3>2, GotoType
  <2>4. QED
    BY <1>a, <1>t, <2>1, <2>2, <2>3 DEF Prepare, TypeOK, masterVars
<1>b. ASSUME NEW t \in Threads, LeaveLoop(t) PROVE TypeOK'
  BY <1>b, <1>t DEF LeaveLoop, Goto, TypeOK, masterVars, Locations, MasterLocations
<1>c. ASSUME NEW t \in Threads, Arrive(t, "barrier", "wait") PROVE TypeOK'
  <2>1. arrived[t] + 1 \in 0..(Iterations + 1)
    <3>1. pc[t] = "barrier"
      BY <1>c DEF Arrive, Goto
    <3>2. arrived[t] = i[t]
      BY <3>1 DEF IInv, Arrivals, AfterKernel
    <3>3. i[t] \in 0..Iterations
      BY <1>t DEF TypeOK
    <3>4. QED
      BY <3>2, <3>3
  <2>2. QED
    BY SMTT(20), <1>c, <1>t, <2>1 DEF Arrive, Goto, TypeOK, masterVars, Locations,
                            MasterLocations
<1>d. ASSUME NEW t \in Threads, Arrive(t, "region_end", "join") PROVE TypeOK'
  <2>1. arrived[t] + 1 \in 0..(Iterations + 1)
    <3>1. pc[t] = "region_end"
      BY <1>d DEF Arrive, Goto
    <3>2. arrived[t] = i[t]
      BY <3>1 DEF IInv, Arrivals, AfterKernel
    <3>3. i[t] \in 0..Iterations
      BY <1>t DEF TypeOK
    <3>4. QED
      BY <3>2, <3>3
  <2>2. QED
    BY SMTT(20), <1>d, <1>t, <2>1 DEF Arrive, Goto, TypeOK, masterVars, Locations,
                            MasterLocations
<1>e. ASSUME NEW t \in Threads, Pass(t, "wait", "kernel") PROVE TypeOK'
  BY <1>e, <1>t DEF Pass, Goto, TypeOK, masterVars, Locations, MasterLocations
<1>f. ASSUME NEW t \in Threads, Pass(t, "join", "done") PROVE TypeOK'
  BY <1>f, <1>t DEF Pass, Goto, TypeOK, masterVars, Locations, MasterLocations
<1>g. ASSUME Pass(Master, "join", "report") PROVE TypeOK'
  BY <1>g, <1>t DEF Pass, Goto, TypeOK, masterVars, Locations, MasterLocations
<1>h. ASSUME NEW t \in Threads, KernelWork(t) PROVE TypeOK'
  <2>1. i[t] \in Loop /\ counted[t][i[t]] + 1 \in 0..Work
    BY SMTT(20), <1>h, <1>t DEF KernelWork, TypeOK, Snapshot
  <2>2. counted' \in Snapshot
    BY <1>h, <1>t, <2>1 DEF KernelWork, TypeOK, Snapshot
  <2>3. QED
    BY <1>h, <1>t, <2>2 DEF KernelWork, TypeOK, masterVars
<1>i. ASSUME NEW t \in Threads, KernelReturn(t) PROVE TypeOK'
  <2>1. pc[t] = "kernel" /\ i[t] \in Loop
    BY <1>i, <1>t DEF KernelReturn, TypeOK
  <2>2. CASE t = Master
    <3>1. /\ Goto(t, "kernel", "now")
          /\ UNCHANGED <<i, gen, op, arrived, counted, csv, masterVars>>
      BY <1>i, <2>2 DEF KernelReturn
    <3>2. /\ pc' \in [Threads -> Locations]
          /\ \A u \in Threads \ {Master} : pc'[u] \notin MasterLocations
          /\ \A u \in Threads : pc'[u] = IF u = t THEN "now" ELSE pc[u]
      BY <1>t, <2>2, <3>1, GotoType DEF Locations, MasterLocations
    <3>3. \A u \in Threads : pc'[u] \in {"barrier", "wait", "kernel", "now",
             "read_pckg", "read_cores", "record"} => i[u] \in Loop
      BY <1>t, <2>1, <3>2 DEF TypeOK
    <3>4. QED
      BY <1>t, <3>1, <3>2, <3>3 DEF TypeOK, masterVars
  <2>3. CASE t # Master
    <3>1. i' = [i EXCEPT ![t] = @ + 1] /\ i[t] + 1 \in 0..Iterations
      BY <1>i, <2>1, <2>3 DEF KernelReturn, NextIteration, Loop
    <3>2. pc' = [pc EXCEPT ![t] = "loop"]
      BY <1>i, <2>3 DEF KernelReturn, NextIteration, Goto
    <3>3. \A u \in Threads : pc'[u] \in {"barrier", "wait", "kernel", "now",
             "read_pckg", "read_cores", "record"} => i'[u] \in Loop
      BY <1>t, <3>1, <3>2 DEF TypeOK
    <3>4. QED
      BY <1>i, <1>t, <3>1, <3>2, <3>3 DEF KernelReturn, TypeOK, masterVars,
                                      Locations, MasterLocations
  <2>4. QED
    BY <2>2, <2>3
<1>j. ASSUME NEW s \in Scopes, NEW from, NEW to \in {"first_cores", "first_time"},
             FirstRead(s, from, to)
      PROVE TypeOK'
  BY <1>j, <1>t DEF FirstRead, Goto, TypeOK, Locations, MasterLocations
<1>k. ASSUME FirstTime PROVE TypeOK'
  BY <1>k, <1>t DEF FirstTime, Goto, TypeOK, Locations, MasterLocations
<1>l. ASSUME TakeNow PROVE TypeOK'
  BY <1>l, <1>t DEF TakeNow, Goto, TypeOK, Locations, MasterLocations
<1>m. ASSUME NEW s \in Scopes, NEW from \in {"read_pckg", "read_cores"},
             NEW to \in {"read_cores", "record"}, ReadScope(s, from, to)
      PROVE TypeOK'
  <2>1. energy' \in [Scopes -> Difference]
    <3>1. previous_energy[s] \in Snapshot /\ counted \in Snapshot
      BY <1>t DEF TypeOK
    <3>2. Minus(counted, previous_energy[s]) \in Difference
      BY <3>1, SnapshotDifference
    <3>3. QED
      BY <1>m, <1>t, <3>2 DEF ReadScope, TypeOK
  <2>2. previous_energy' \in [Scopes -> Snapshot]
    BY <1>m, <1>t DEF ReadScope, TypeOK
  <2>3. QED
    BY <1>m, <1>t, <2>1, <2>2 DEF ReadScope, Goto, TypeOK, Locations,
                                  MasterLocations
<1>n. ASSUME Record PROVE TypeOK'
  <2>1. Experiment \in Experiments
    <3>1. Minus(now, previous_time) \in Difference
      BY <1>t, SnapshotDifference DEF TypeOK
    <3>2. QED
      BY <1>t, <3>1 DEF Experiment, Experiments, TypeOK
  <2>2. experiments' \in Seq(Experiments)
    BY <1>n, <1>t, <2>1 DEF Record, TypeOK
  <2>3. QED
    BY <1>n, <1>t, <2>2 DEF Record, NextIteration, Goto, TypeOK, Locations,
                            MasterLocations, Loop
<1>o. ASSUME WriteCsv PROVE TypeOK'
  BY <1>o, <1>t DEF WriteCsv, Goto, TypeOK, masterVars, Locations, MasterLocations
<1>p. CASE UNCHANGED vars
  BY <1>p, <1>t DEF vars, TypeOK
<1>q. QED
  <2>1. ASSUME MasterBlock PROVE TypeOK'
    BY <2>1, <1>j, <1>k, <1>l, <1>m, <1>n, <1>o DEF MasterBlock, Scopes
  <2>2. ASSUME NEW t \in Threads, Thread(t) PROVE TypeOK'
    BY <2>2, <2>1, <1>a, <1>b, <1>c, <1>d, <1>e, <1>f, <1>g, <1>h, <1>i
    DEF Thread
  <2>3. QED
    BY <2>2, <1>p DEF Next

-----------------------------------------------------------------------------

(* The part of the state the barrier argument is about.                    *)
Counting == Arrivals /\ Operands /\ BarrierInv

(* A step that moves one thread within the same part of the iteration and  *)
(* changes no counter keeps the counting.                                  *)
LEMMA SamePart ==
  ASSUME IInv, NEW t \in Threads, NEW from, NEW to, Goto(t, from, to),
         UNCHANGED <<i, gen, op, arrived>>,
         \/ from \in {"first_pckg", "first_cores", "first_time"}
            /\ to \in {"first_cores", "first_time", "loop"}
         \/ from \in {"kernel"} \union AfterKernel /\ to \in AfterKernel
         \/ from \in {"join", "report"} /\ to \in {"report", "done"}
  PROVE  Counting'
<1>1. /\ \A u \in Threads : pc'[u] = IF u = t THEN to ELSE pc[u]
      /\ pc[t] = from
  BY DEF Goto, IInv, TypeOK
<1>2. \A u \in Threads : Passed(u)' = Passed(u)
  BY <1>1 DEF Passed, AfterKernel
<1>3. Arrivals'
  BY <1>1 DEF Arrivals, IInv, AfterKernel
<1>4. Operands'
  BY <1>1 DEF Operands, IInv, AfterKernel, InIteration
<1>5. BarrierInv'
  BY <1>2 DEF BarrierInv, IInv
<1>6. QED
  BY <1>3, <1>4, <1>5 DEF Counting

(* A thread that completes its iteration keeps the counting.               *)
LEMMA IterationEnd ==
  ASSUME IInv, NEW t \in Threads, NEW from \in {"kernel", "record"},
         NextIteration(t, from), UNCHANGED <<gen, op, arrived>>
  PROVE  Counting'
<1>1. /\ \A u \in Threads : pc'[u] = IF u = t THEN "loop" ELSE pc[u]
      /\ \A u \in Threads : i'[u] = IF u = t THEN i[u] + 1 ELSE i[u]
      /\ pc[t] = from
  BY DEF NextIteration, Goto, IInv, TypeOK
<1>2. \A u \in Threads : Passed(u)' = Passed(u)
  BY <1>1 DEF Passed, AfterKernel
<1>3. Arrivals'
  BY <1>1 DEF Arrivals, IInv, AfterKernel
<1>4. Operands'
  BY <1>1 DEF Operands, IInv, AfterKernel, InIteration
<1>5. BarrierInv'
  BY <1>2 DEF BarrierInv, IInv
<1>6. QED
  BY <1>3, <1>4, <1>5 DEF Counting

LEMMA CountingNext == IInv /\ [Next]_vars => Counting'
<1> SUFFICES ASSUME IInv, [Next]_vars PROVE Counting'
  OBVIOUS
<1>t. TypeOK
  BY DEF IInv
<1>a. ASSUME NEW t \in Threads, Prepare(t) PROVE Counting'
  <2>1. /\ pc[t] = "loop"
        /\ \A u \in Threads : pc'[u] = IF u = t THEN "barrier" ELSE pc[u]
        /\ i' = i /\ arrived' = arrived
    BY <1>a, <1>t DEF Prepare, Goto, TypeOK
  <2>2. gen[t] = i[t]
    BY <2>1 DEF IInv, Operands, InIteration, AfterKernel
  <2>3. /\ \A u \in Threads : gen'[u] = IF u = t THEN gen[u] + 1 ELSE gen[u]
        /\ \A u \in Threads : op'[u] = IF u = t THEN 32 * Draw[i[t]] ELSE op[u]
    BY <1>a, <1>t, <2>2 DEF Prepare, TypeOK
  <2>4. Arrivals'
    BY <2>1 DEF IInv, Arrivals, AfterKernel
  <2>5. Operands'
    BY <2>1, <2>2, <2>3 DEF IInv, Operands, InIteration, AfterKernel
  <2>6. BarrierInv'
    BY <2>1 DEF IInv, BarrierInv, Passed, AfterKernel
  <2>7. QED
    BY <2>4, <2>5, <2>6 DEF Counting
<1>b. ASSUME NEW t \in Threads, LeaveLoop(t) PROVE Counting'
  <2>1. /\ pc[t] = "loop" /\ i[t] = Iterations
        /\ \A u \in Threads : pc'[u] = IF u = t THEN "region_end" ELSE pc[u]
        /\ i' = i /\ arrived' = arrived /\ gen' = gen /\ op' = op
    BY <1>b, <1>t DEF LeaveLoop, Goto, TypeOK
  <2>2. QED
    BY <2>1 DEF IInv, Counting, Arrivals, Operands, BarrierInv, Passed,
                InIteration, AfterKernel
<1>c. ASSUME NEW t \in Threads, NEW from, NEW to,
             <<from, to>> \in {<<"barrier", "wait">>, <<"region_end", "join">>},
             Arrive(t, from, to)
      PROVE Counting'
  <2>1. /\ pc[t] = from
        /\ \A u \in Threads : pc'[u] = IF u = t THEN to ELSE pc[u]
        /\ \A u \in Threads : arrived'[u] =
               IF u = t THEN arrived[u] + 1 ELSE arrived[u]
        /\ i' = i /\ gen' = gen /\ op' = op
    BY <1>c, <1>t DEF Arrive, Goto, TypeOK
  <2>2. Arrivals'
    BY <1>c, <2>1 DEF IInv, Arrivals, AfterKernel
  <2>3. Operands'
    BY <1>c, <2>1 DEF IInv, Operands, InIteration, AfterKernel
  <2>4. BarrierInv'
    <3>1. \A u \in Threads : Passed(u)' = Passed(u) /\ Passed(u) \in Int
      BY SMTT(20), <1>c, <1>t, <2>1 DEF Passed, AfterKernel, TypeOK
    <3>2. \A u \in Threads : arrived[u] \in Int
      BY <1>t DEF TypeOK
    <3>3. \A u \in Threads : arrived'[u] \in Int /\ arrived[u] <= arrived'[u]
      BY <2>1, <3>2
    <3>4. SUFFICES ASSUME NEW u \in Threads, NEW v \in Threads
                   PROVE  Passed(u)' <= arrived'[v]
      BY DEF BarrierInv
    <3>5. Passed(u) <= arrived[v]
      BY DEF IInv, BarrierInv
    <3>6. QED
      BY <3>1, <3>2, <3>3, <3>5
  <2>5. QED
    BY <2>2, <2>3, <2>4 DEF Counting
<1>d. ASSUME NEW t \in Threads, Pass(t, "wait", "kernel") PROVE Counting'
  <2>1. /\ pc[t] = "wait"
        /\ \A u \in Threads : pc'[u] = IF u = t THEN "kernel" ELSE pc[u]
        /\ i' = i /\ arrived' = arrived /\ gen' = gen /\ op' = op
    BY <1>d, <1>t DEF Pass, Goto, TypeOK
  <2>2. \A u \in Threads : i[t] + 1 <= arrived[u]
    BY <1>d, <2>1 DEF IInv, Arrivals, Pass, AllArrived, AfterKernel
  <2>3. Arrivals' /\ Operands'
    BY <2>1 DEF IInv, Arrivals, Operands, InIteration, AfterKernel
  <2>4. BarrierInv'
    BY <2>1, <2>2 DEF IInv, BarrierInv, Passed, AfterKernel
  <2>5. QED
    BY <2>3, <2>4 DEF Counting
<1>e. ASSUME NEW t \in Threads, NEW to \in {"report", "done"},
             Pass(t, "join", to)
      PROVE Counting'
  BY <1>e, SamePart DEF Pass
<1>f. ASSUME NEW t \in Threads, KernelWork(t) PROVE Counting'
  BY <1>f DEF KernelWork, IInv, Counting, Arrivals, Operands, BarrierInv, Passed
<1>g. ASSUME NEW t \in Threads, KernelReturn(t) PROVE Counting'
  <2>1. CASE t = Master
    <3>1. Goto(t, "kernel", "now") /\ UNCHANGED <<i, gen, op, arrived>>
      BY <1>g, <2>1 DEF KernelReturn
    <3>2. "kernel" \in {"kernel"} \union AfterKernel /\ "now" \in AfterKernel
      BY DEF AfterKernel
    <3>3. QED
      BY <3>1, <3>2, SamePart
  <2>2. CASE t # Master
    BY <1>g, <2>2, IterationEnd DEF KernelReturn
  <2>3. QED
    BY <2>1, <2>2
<1>h. ASSUME NEW s \in Scopes, NEW from \in {"first_pckg", "first_cores"},
             NEW to \in {"first_cores", "first_time"}, FirstRead(s, from, to)
      PROVE Counting'
  BY <1>h, SamePart DEF FirstRead
<1>i. ASSUME FirstTime PROVE Counting'
  BY <1>i, SamePart DEF FirstTime
<1>j. ASSUME TakeNow PROVE Counting'
  <2>1. "now" \in AfterKernel /\ "read_pckg" \in AfterKernel
    BY DEF AfterKernel
  <2>2. QED
    BY <1>j, <2>1, SamePart DEF TakeNow
<1>k. ASSUME NEW s \in Scopes, NEW from \in AfterKernel, NEW to \in AfterKernel,
             ReadScope(s, from, to)
      PROVE Counting'
  BY <1>k, SamePart DEF ReadScope
<1>l. ASSUME Record PROVE Counting'
  BY <1>l, IterationEnd DEF Record
<1>m. ASSUME WriteCsv PROVE Counting'
  BY <1>m, SamePart DEF WriteCsv, masterVars
<1>n. CASE UNCHANGED vars
  BY <1>n DEF vars, IInv, Counting, Arrivals, Operands, BarrierInv, Passed
<1>o. QED
  <2>1. ASSUME MasterBlock PROVE Counting'
    <3>1. {"read_pckg", "read_cores", "record"} \subseteq AfterKernel
      BY DEF AfterKernel
    <3>2. QED
      BY <2>1, <3>1, <1>h, <1>i, <1>j, <1>k, <1>l, <1>m DEF MasterBlock, Scopes
  <2>2. ASSUME NEW t \in Threads, Thread(t) PROVE Counting'
    BY <2>1, <2>2, <1>a, <1>b, <1>c, <1>d, <1>e, <1>f, <1>g DEF Thread
  <2>3. QED
    BY <2>2, <1>n DEF Next

LEMMA Inductive == Spec => []IInv
<1>1. Init => IInv
  BY TypeInit DEF Init, IInv, Arrivals, Operands, BarrierInv, Passed,
                  AfterKernel, InIteration
<1>2. IInv /\ [Next]_vars => IInv'
  BY TypeNext, CountingNext DEF IInv, Counting
<1>3. QED
  BY <1>1, <1>2, PTL DEF Spec

(* The variables of the measuring loop keep their types.                   *)
THEOREM TypeCorrect == Spec => []TypeOK
BY Inductive, PTL DEF IInv

(* Kernels that run at the same time are of the same iteration and work on *)
(* the same operand, for any number of threads and iterations.             *)
THEOREM KernelsInLockStep == Spec => []LockStep
<1>1. IInv => LockStep
  <2> SUFFICES ASSUME IInv, NEW t \in Threads, NEW u \in Threads,
                      pc[t] = "kernel", pc[u] = "kernel"
               PROVE  i[t] = i[u] /\ op[t] = op[u]
    BY DEF LockStep
  <2>1. arrived[t] = i[t] + 1 /\ arrived[u] = i[u] + 1
    BY DEF IInv, Arrivals
  <2>2. i[t] + 1 <= arrived[u] /\ i[u] + 1 <= arrived[t]
    BY DEF IInv, BarrierInv, Passed
  <2>3. i[t] = i[u]
    BY <2>1, <2>2 DEF IInv, TypeOK
  <2>4. QED
    BY <2>3 DEF IInv, Operands, InIteration
<1>2. QED
  BY <1>1, Inductive, PTL

-----------------------------------------------------------------------------

(* The state of the rounds that a state of the loop stands for.            *)
Running == {t \in Threads : pc[t] = "kernel"}
Completed == [t \in Threads |-> IF pc[t] \in AfterKernel THEN i[t] + 1 ELSE i[t]]

LEMMA Mapping ==
  /\ RoundsOfKernels!vars = <<Running, Completed>>
  /\ RoundsOfKernels!Init <=>
       Running = {} /\ Completed = [t \in Threads |-> 0]
  /\ \A t \in Threads : RoundsOfKernels!Begin(t) <=>
       /\ t \notin Running
       /\ Completed[t] < Iterations
       /\ \A u \in Threads : Completed[t] <= Completed[u]
       /\ Running' = Running \union {t}
       /\ Completed' = Completed
  /\ \A t \in Threads : RoundsOfKernels!End(t) <=>
       /\ t \in Running
       /\ Running' = Running \ {t}
       /\ Completed' = [Completed EXCEPT ![t] = @ + 1]
BY DEF RoundsOfKernels!vars, RoundsOfKernels!Init, RoundsOfKernels!Begin,
       RoundsOfKernels!End, Running, Completed, AfterKernel

(* Every step of the loop begins a kernel, ends one, or is invisible.      *)
LEMMA StepSimulation ==
  IInv /\ [Next]_vars => [RoundsOfKernels!Next]_(RoundsOfKernels!vars)
<1> SUFFICES ASSUME IInv, [Next]_vars
             PROVE  [RoundsOfKernels!Next]_(RoundsOfKernels!vars)
  OBVIOUS
<1> DEFINE Stutter == Running' = Running /\ Completed' = Completed
           Goal == Stutter \/ \E t \in Threads : RoundsOfKernels!Begin(t)
                                             \/ RoundsOfKernels!End(t)
<1>t. TypeOK
  BY DEF IInv
<1>1. ASSUME NEW t \in Threads, NEW from, NEW to, Goto(t, from, to), i' = i,
             \/ from # "kernel" /\ to # "kernel" /\ from \notin AfterKernel
                /\ to \notin AfterKernel
             \/ from \in AfterKernel /\ to \in AfterKernel
      PROVE Stutter
  <2>1. /\ \A u \in Threads : pc'[u] = IF u = t THEN to ELSE pc[u]
        /\ pc[t] = from
    BY <1>1, <1>t DEF Goto, TypeOK
  <2>2. QED
    BY <1>1, <2>1 DEF Running, Completed, AfterKernel
<1>2. ASSUME NEW t \in Threads, Pass(t, "wait", "kernel")
      PROVE RoundsOfKernels!Begin(t)
  <2>1. /\ pc[t] = "wait" /\ i' = i
        /\ \A u \in Threads : pc'[u] = IF u = t THEN "kernel" ELSE pc[u]
    BY <1>2, <1>t DEF Pass, Goto, TypeOK
  <2>2. /\ t \notin Running
        /\ Running' = Running \union {t}
        /\ Completed' = Completed
    BY <2>1 DEF Running, Completed, AfterKernel
  <2>3. Completed[t] = i[t] /\ i[t] < Iterations
    BY <2>1, <1>t DEF Completed, AfterKernel, TypeOK, Loop
  <2>4. ASSUME NEW u \in Threads PROVE Completed[t] <= Completed[u]
    <3>1. i[t] + 1 <= arrived[u]
      BY <1>2, <2>1 DEF IInv, Arrivals, Pass, AllArrived, AfterKernel
    <3>2. arrived[u] <= Completed[u] + 1
      <4>1. i[u] \in Int
        BY <1>t DEF TypeOK
      <4>2. arrived[u] \in {i[u], i[u] + 1}
        BY DEF IInv, Arrivals
      <4>3. Completed[u] \in {i[u], i[u] + 1}
        BY DEF Completed
      <4>4. QED
        BY <4>1, <4>2, <4>3
    <3>3. i[t] \in Int /\ arrived[u] \in Int /\ Completed[u] \in Int
      BY <1>t DEF Completed, TypeOK
    <3>4. QED
      BY <2>3, <3>1, <3>2, <3>3
  <2>5. QED
    BY <2>2, <2>3, <2>4, Mapping
<1>3. ASSUME NEW t \in Threads, KernelReturn(t) PROVE RoundsOfKernels!End(t)
  <2>1. pc[t] = "kernel" /\ Completed[t] = i[t]
    BY <1>3 DEF KernelReturn, Completed, AfterKernel
  <2>2. CASE t = Master
    <3>1. /\ i' = i
          /\ \A u \in Threads : pc'[u] = IF u = t THEN "now" ELSE pc[u]
      BY <1>3, <1>t, <2>2 DEF KernelReturn, Goto, TypeOK
    <3>2. QED
      <4>1. t \in Running /\ Running' = Running \ {t}
        BY <2>1, <3>1 DEF Running
      <4>2. Completed' = [Completed EXCEPT ![t] = @ + 1]
        BY <2>1, <3>1 DEF Completed, AfterKernel
      <4>3. QED
        BY <4>1, <4>2, Mapping
  <2>3. CASE t # Master
    <3>1. /\ \A u \in Threads : i'[u] = IF u = t THEN i[u] + 1 ELSE i[u]
          /\ \A u \in Threads : pc'[u] = IF u = t THEN "loop" ELSE pc[u]
      BY SMTT(20), <1>3, <1>t, <2>3 DEF KernelReturn, NextIteration, Goto, TypeOK
    <3>2. t \in Running /\ Running' = Running \ {t}
      BY <2>1, <3>1 DEF Running
    <3>3. Completed' = [Completed EXCEPT ![t] = @ + 1]
      BY <2>1, <3>1 DEF Completed, AfterKernel
    <3>4. QED
      BY <3>2, <3>3, Mapping
  <2>4. QED
    BY <2>2, <2>3
<1>4. ASSUME Record PROVE Stutter
  <2>1. /\ pc[Master] = "record"
        /\ \A u \in Threads : i'[u] = IF u = Master THEN i[u] + 1 ELSE i[u]
        /\ \A u \in Threads : pc'[u] = IF u = Master THEN "loop" ELSE pc[u]
    BY <1>4, <1>t DEF Record, NextIteration, Goto, TypeOK
  <2>2. QED
    BY <2>1 DEF Running, Completed, AfterKernel
<1>5. ASSUME MasterBlock PROVE Stutter
  BY <1>5, <1>1, <1>4 DEF MasterBlock, FirstRead, FirstTime, TakeNow, ReadScope,
                          WriteCsv, AfterKernel, masterVars
<1>6. ASSUME NEW t \in Threads, Thread(t) PROVE Goal
  <2>1. CASE Prepare(t) \/ LeaveLoop(t) \/ Arrive(t, "barrier", "wait")
             \/ Arrive(t, "region_end", "join")
             \/ Pass(t, "join", "report") \/ Pass(t, "join", "done")
    BY <2>1, <1>1 DEF Prepare, LeaveLoop, Arrive, Pass, AfterKernel
  <2>2. CASE KernelWork(t)
    BY <2>2 DEF KernelWork, Running, Completed
  <2>3. QED
    BY <1>6, <2>1, <2>2, <1>2, <1>3, <1>5 DEF Thread
<1>7. ASSUME UNCHANGED vars PROVE Stutter
  BY <1>7 DEF vars, Running, Completed
<1>8. ASSUME Stutter PROVE UNCHANGED RoundsOfKernels!vars
  BY <1>8 DEF RoundsOfKernels!vars, Running, Completed, AfterKernel
<1>9. CASE Next
  <2>1. CASE \E t \in Threads : Thread(t)
    BY <1>6, <1>8, <2>1 DEF RoundsOfKernels!Next
  <2>2. CASE UNCHANGED vars
    BY <1>7, <1>8, <2>2
  <2>3. QED
    BY <1>9, <2>1, <2>2 DEF Next
<1>10. QED
  BY <1>7, <1>8, <1>9

(* The measuring loop implements the abstract rounds of kernels.           *)
THEOREM LoopImplementsRounds == Spec => RoundsOfKernels!Spec
<1>1. Init => RoundsOfKernels!Init
  BY Mapping DEF Init, Running, Completed, AfterKernel
<1>2. QED
  BY <1>1, StepSimulation, Inductive, PTL DEF Spec, RoundsOfKernels!Spec

-----------------------------------------------------------------------------

(***************************************************************************)
(* What the records contain, that nothing is lost or counted twice, and    *)
(* what is reported.  The argument is a ledger: every reading of the       *)
(* master is complete for the iterations before its own, empty for those   *)
(* after it, and a record is the difference of two consecutive readings.   *)
(***************************************************************************)

(* The scope has been read in this iteration of the master; the iteration  *)
(* of its last reading, -1 for the one before the loop.                    *)
HasRead(s) == \/ pc[Master] = "record"
              \/ pc[Master] = "read_cores" /\ s = "PCKG"

LastRead(s) == IF HasRead(s) THEN i[Master] ELSE i[Master] - 1

HasTime == pc[Master] \in {"read_pckg", "read_cores", "record"}

(* A counter value that the master reads after its kernel of iteration r:  *)
(* only the other threads' kernels of r may be incomplete.                 *)
IsReading(x, r) ==
  \A t \in Threads, k \in Loop :
    /\ k < r => x[t][k] = Work
    /\ k > r => x[t][k] = 0
    /\ t = Master /\ k = r => x[t][k] = Work

(* What a record of iteration r may contain.                               *)
IsShare(e, r) ==
  \A t \in Threads, k \in Loop :
    /\ k \notin {r - 1, r} => e[t][k] = 0
    /\ t = Master => e[t][k] = IF k = r THEN Work ELSE 0
    /\ e[t][k] \in 0..Work

-----------------------------------------------------------------------------
(* The conjuncts of the invariant.                                         *)

(* A thread has finished the kernels of the iterations behind it and not   *)
(* begun those ahead.                                                      *)
WorkDone ==
  \A t \in Threads, k \in Loop :
    /\ k < i[t] => counted[t][k] = Work
    /\ k > i[t] => counted[t][k] = 0
    /\ k = i[t] /\ pc[t] \in AfterKernel => counted[t][k] = Work
    /\ k = i[t] /\ pc[t] \notin AfterKernel \union {"kernel"} =>
         counted[t][k] = 0

Readings == \A s \in Scopes : IsReading(previous_energy[s], LastRead(s))

Times == /\ IsReading(previous_time, i[Master] - 1)
         /\ HasTime => IsReading(now, i[Master])

(* The differences of the record being built; the kernels of its own       *)
(* iteration were zero in the reading before.                              *)
Energies ==
  \A s \in Scopes : HasRead(s) =>
    /\ IsShare(energy[s], i[Master])
    /\ \A t \in Threads :
         energy[s][t][i[Master]] = previous_energy[s][t][i[Master]]

RecordCount == Len(experiments) = IF i[Master] = 0 THEN 0 ELSE i[Master] - 1

Shares ==
  \A n \in 1..Len(experiments) : \A s \in Scopes :
    IsShare(experiments[n].energy[s], n)

(* The last record and what comes after it make up the kernels of its      *)
(* iteration.                                                              *)
Carried ==
  LET n == Len(experiments) IN
  n > 0 => \A s \in Scopes, t \in Threads :
    experiments[n].energy[s][t][n] =
      IF HasRead(s) THEN Work - energy[s][t][n] ELSE previous_energy[s][t][n]

Weights == \A n \in 1..Len(experiments) : experiments[n].weight = 32 * Draw[n]

LastWindow ==
  LET n == Len(experiments) IN
  n > 0 => experiments[n].duration =
             Minus(previous_time, experiments[n].start)

Ledger == /\ Readings /\ Times /\ Energies /\ RecordCount /\ Shares /\ Carried
          /\ ExactlyOnce /\ Weights /\ Windows /\ LastWindow

Reported == pc[Master] = "done" => csv = experiments

Before == {"first_pckg", "first_cores", "first_time"}

AtStart == pc[Master] \in Before => i[Master] = 0

RInv == IInv /\ WorkDone /\ Ledger /\ Reported /\ AtStart

-----------------------------------------------------------------------------

LEMMA MinusAt ==
  ASSUME NEW a, NEW b, NEW t \in Threads, NEW k \in Loop
  PROVE  Minus(a, b)[t][k] = a[t][k] - b[t][k]
BY DEF Minus

LEMMA SnapshotAt ==
  ASSUME NEW a \in Snapshot, NEW t \in Threads, NEW k \in Loop
  PROVE  a[t][k] \in 0..Work
BY DEF Snapshot

(* The barrier lets the master read only when all threads are at its       *)
(* iteration or wait for the next.                                         *)
LEMMA OthersAtReading ==
  ASSUME IInv, pc[Master] \in AfterKernel, NEW t \in Threads
  PROVE  /\ i[Master] \in Loop
         /\ i[t] \in {i[Master], i[Master] + 1}
         /\ i[t] = i[Master] + 1 => pc[t] \notin AfterKernel \union {"kernel"}
<1>1. i[Master] \in Loop /\ i[t] \in Int /\ i[Master] \in Int
  BY DEF IInv, TypeOK, AfterKernel, Loop
<1>2. Passed(Master) = i[Master] + 1 /\ arrived[Master] = i[Master] + 1
  BY DEF IInv, Arrivals, Passed
<1>3. i[Master] + 1 <= arrived[t] /\ Passed(t) <= i[Master] + 1
  BY <1>2 DEF IInv, BarrierInv
<1>4. arrived[t] \in {i[t], i[t] + 1} /\ Passed(t) \in {i[t], i[t] + 1}
  BY DEF IInv, Arrivals, Passed
<1>5. pc[t] \in AfterKernel \union {"kernel"} => Passed(t) = i[t] + 1
  BY DEF Passed
<1>6. QED
  BY <1>1, <1>3, <1>4, <1>5

LEMMA MasterReads ==
  ASSUME IInv, WorkDone, pc[Master] \in AfterKernel
  PROVE  IsReading(counted, i[Master])
<1> SUFFICES ASSUME NEW t \in Threads, NEW k \in Loop
             PROVE  /\ k < i[Master] => counted[t][k] = Work
                    /\ k > i[Master] => counted[t][k] = 0
                    /\ t = Master /\ k = i[Master] => counted[t][k] = Work
  BY DEF IsReading
<1>1. k \in Int /\ i[t] \in Int /\ i[Master] \in Int
  BY DEF Loop, IInv, TypeOK
<1>2. /\ i[t] \in {i[Master], i[Master] + 1}
      /\ i[t] = i[Master] + 1 => pc[t] \notin AfterKernel \union {"kernel"}
  BY OthersAtReading
<1>3. QED
  BY <1>1, <1>2 DEF WorkDone

(* Before the master's first barrier no kernel has begun.                  *)
LEMMA NothingDone ==
  ASSUME IInv, WorkDone,
         AtStart, pc[Master] \in Before
  PROVE  IsReading(counted, -1)
<1> SUFFICES ASSUME NEW t \in Threads, NEW k \in Loop
             PROVE  counted[t][k] = 0 /\ k \in Nat
  BY DEF IsReading, Loop
<1>1. k \in Nat /\ i[t] \in Nat
  BY DEF Loop, IInv, TypeOK
<1>2. arrived[Master] = 0
  BY DEF IInv, Arrivals, AtStart, Before, AfterKernel
<1>3. Passed(t) <= 0 /\ Passed(t) \in {i[t], i[t] + 1}
  BY <1>2 DEF IInv, BarrierInv, Passed
<1>4. pc[t] \in AfterKernel \union {"kernel"} => Passed(t) = i[t] + 1
  BY DEF Passed
<1>5. i[t] = 0 /\ pc[t] \notin AfterKernel \union {"kernel"}
  BY <1>1, <1>3, <1>4
<1>6. QED
  BY <1>1, <1>5 DEF WorkDone

(* The difference of the readings of two consecutive iterations.           *)
LEMMA ReadingDifference ==
  ASSUME NEW a \in Snapshot, NEW b \in Snapshot, NEW r \in Loop,
         IsReading(a, r), IsReading(b, r - 1)
  PROVE  /\ IsShare(Minus(a, b), r)
         /\ \A t \in Threads : Minus(a, b)[t][r] = a[t][r]
         /\ \A t \in Threads : r > 0 =>
              Minus(a, b)[t][r - 1] = Work - b[t][r - 1]
<1>1. r \in Int /\ \A k \in Loop : k \in Int
  BY DEF Loop
<1>2. ASSUME NEW t \in Threads, NEW k \in Loop
      PROVE  /\ Minus(a, b)[t][k] = a[t][k] - b[t][k]
             /\ a[t][k] \in 0..Work /\ b[t][k] \in 0..Work
  BY MinusAt, SnapshotAt
<1>3. IsShare(Minus(a, b), r)
  <2> SUFFICES ASSUME NEW t \in Threads, NEW k \in Loop
               PROVE  /\ k \notin {r - 1, r} => Minus(a, b)[t][k] = 0
                      /\ t = Master =>
                           Minus(a, b)[t][k] = IF k = r THEN Work ELSE 0
                      /\ Minus(a, b)[t][k] \in 0..Work
    BY DEF IsShare
  <2>1. /\ k < r => a[t][k] = Work
        /\ k > r => a[t][k] = 0
        /\ t = Master /\ k = r => a[t][k] = Work
    BY DEF IsReading
  <2>2. /\ k < r - 1 => b[t][k] = Work
        /\ k > r - 1 => b[t][k] = 0
        /\ t = Master /\ k = r - 1 => b[t][k] = Work
    BY DEF IsReading
  <2>3. k \in Int /\ Work \in Int
    BY <1>1
  <2>4. QED
    BY <1>1, <1>2, <2>1, <2>2, <2>3
<1>4. ASSUME NEW t \in Threads PROVE Minus(a, b)[t][r] = a[t][r]
  <2>1. b[t][r] = 0
    BY <1>1 DEF IsReading
  <2>2. QED
    BY <1>2, <2>1
<1>5. ASSUME NEW t \in Threads, r > 0
      PROVE  Minus(a, b)[t][r - 1] = Work - b[t][r - 1]
  <2>1. r - 1 \in Loop
    BY <1>5 DEF Loop
  <2>2. a[t][r - 1] = Work
    BY <1>1, <2>1 DEF IsReading
  <2>3. QED
    BY <1>2, <2>1, <2>2
<1>6. QED
  BY <1>3, <1>4, <1>5

-----------------------------------------------------------------------------

(* What a step that moves one thread does to pc.                           *)
LEMMA Moved ==
  ASSUME TypeOK, NEW t \in Threads, NEW from, NEW to, Goto(t, from, to)
  PROVE  /\ pc[t] = from
         /\ \A u \in Threads : pc'[u] = IF u = t THEN to ELSE pc[u]
BY DEF TypeOK, Goto

LEMMA Advanced ==
  ASSUME TypeOK, NEW t \in Threads, NEW from, NextIteration(t, from)
  PROVE  /\ pc[t] = from
         /\ \A u \in Threads : pc'[u] = IF u = t THEN "loop" ELSE pc[u]
         /\ \A u \in Threads : i'[u] = IF u = t THEN i[u] + 1 ELSE i[u]
BY DEF TypeOK, Goto, NextIteration

LEMMA WorkMoved ==
  ASSUME TypeOK, WorkDone, NEW t \in Threads, NEW from, NEW to,
         Goto(t, from, to), UNCHANGED <<i, counted>>,
         to \in AfterKernel => from \in AfterKernel,
         to \notin AfterKernel \union {"kernel"} =>
           from \notin AfterKernel \union {"kernel"}
  PROVE  WorkDone'
BY Moved DEF WorkDone

LEMMA WorkAdvanced ==
  ASSUME TypeOK, WorkDone, NEW t \in Threads, NEW from,
         NextIteration(t, from), UNCHANGED counted,
         i[t] \in Loop => counted[t][i[t]] = Work \/ from \in AfterKernel
  PROVE  WorkDone'
<1>1. /\ pc[t] = from
      /\ \A u \in Threads : pc'[u] = IF u = t THEN "loop" ELSE pc[u]
      /\ \A u \in Threads : i'[u] = IF u = t THEN i[u] + 1 ELSE i[u]
  BY Advanced
<1>2. SUFFICES ASSUME NEW u \in Threads, NEW k \in Loop
               PROVE  /\ k < i'[u] => counted[u][k] = Work
                      /\ k > i'[u] => counted[u][k] = 0
                      /\ k = i'[u] /\ pc'[u] \in AfterKernel =>
                           counted[u][k] = Work
                      /\ k = i'[u] /\ pc'[u] \notin AfterKernel \union {"kernel"}
                           => counted[u][k] = 0
  BY DEF WorkDone
<1>3. k \in Int /\ i[u] \in Int
  BY DEF TypeOK, Loop
<1>4. CASE u = t
  <2>1. k = i[t] => counted[t][k] = Work
    BY <1>1 DEF WorkDone
  <2>2. QED
    BY <1>1, <1>3, <1>4, <2>1 DEF WorkDone, AfterKernel
<1>5. CASE u # t
  BY <1>1, <1>5 DEF WorkDone
<1>6. QED
  BY <1>4, <1>5

LEMMA WorkNext == IInv /\ WorkDone /\ [Next]_vars => WorkDone'
<1> SUFFICES ASSUME IInv, WorkDone, [Next]_vars PROVE WorkDone'
  OBVIOUS
<1>t. TypeOK
  BY DEF IInv
<1>1. ASSUME NEW t \in Threads,
             \/ Prepare(t) \/ LeaveLoop(t)
             \/ Arrive(t, "barrier", "wait") \/ Arrive(t, "region_end", "join")
             \/ Pass(t, "wait", "kernel") \/ Pass(t, "join", "report")
             \/ Pass(t, "join", "done")
      PROVE  WorkDone'
  BY <1>1, <1>t, WorkMoved
     DEF Prepare, LeaveLoop, Arrive, Pass, AfterKernel
<1>2. ASSUME FirstRead("PCKG", "first_pckg", "first_cores")
             \/ FirstRead("CORES", "first_cores", "first_time")
             \/ FirstTime \/ TakeNow
             \/ ReadScope("PCKG", "read_pckg", "read_cores")
             \/ ReadScope("CORES", "read_cores", "record") \/ WriteCsv
      PROVE  WorkDone'
  BY <1>2, <1>t, WorkMoved
     DEF FirstRead, FirstTime, TakeNow, ReadScope, WriteCsv, AfterKernel
<1>3. ASSUME Record PROVE WorkDone'
  BY <1>3, <1>t, WorkAdvanced DEF Record, AfterKernel
<1>4. ASSUME NEW t \in Threads, KernelWork(t) PROVE WorkDone'
  <2>1. \A u \in Threads, k \in Loop :
          counted'[u][k] = IF u = t /\ k = i[t] THEN counted[u][k] + 1
                                                ELSE counted[u][k]
    <3>1. counted \in [Threads -> [Loop -> 0..Work]]
      BY <1>t DEF TypeOK, Snapshot
    <3>2. counted' = [counted EXCEPT ![t] =
                        [counted[t] EXCEPT ![i[t]] = counted[t][i[t]] + 1]]
      BY <1>4 DEF KernelWork
    <3>3. counted[t] \in [Loop -> 0..Work]
      BY <3>1
    <3>4. QED
      BY <3>1, <3>2, <3>3
  <2>2. \A k \in Loop : k \in Int
    BY DEF Loop
  <2>3. QED
    BY SMTT(20), <1>4, <1>t, <2>1, <2>2 DEF KernelWork, WorkDone, AfterKernel, TypeOK
<1>5. ASSUME NEW t \in Threads, KernelReturn(t) PROVE WorkDone'
  <2>1. CASE t = Master
    <3>1. /\ \A u \in Threads : pc'[u] = IF u = t THEN "now" ELSE pc[u]
          /\ i' = i /\ counted' = counted /\ counted[t][i[t]] = Work
      BY <1>5, <1>t, <2>1, Moved DEF KernelReturn
    <3>2. QED
      BY <3>1 DEF WorkDone, AfterKernel
  <2>2. CASE t # Master
    BY <1>5, <1>t, <2>2, WorkAdvanced DEF KernelReturn
  <2>3. QED
    BY <2>1, <2>2
<1>6. ASSUME UNCHANGED vars PROVE WorkDone'
  BY <1>6 DEF vars, WorkDone
<1>7. QED
  BY <1>1, <1>2, <1>3, <1>4, <1>5, <1>6 DEF Next, Thread, MasterBlock

-----------------------------------------------------------------------------

(* A step that keeps the records keeps what is said about them.            *)
LEMMA RecordsKept ==
  ASSUME Ledger, experiments' = experiments, previous_time' = previous_time,
         i'[Master] = i[Master]
  PROVE  /\ RecordCount' /\ Shares' /\ ExactlyOnce'
         /\ Weights' /\ Windows' /\ LastWindow'
<1>1. RecordCount'
  BY DEF Ledger, RecordCount
<1>2. Shares'
  BY DEF Ledger, Shares, IsShare
<1>3. ExactlyOnce'
  BY DEF Ledger, ExactlyOnce
<1>4. Weights'
  BY DEF Ledger, Weights
<1>5. Windows'
  BY DEF Ledger, Windows
<1>6. LastWindow'
  BY DEF Ledger, LastWindow
<1>7. QED
  BY <1>1, <1>2, <1>3, <1>4, <1>5, <1>6

(* The ledger only looks at the master and at what it keeps.               *)
LEMMA LedgerElsewhere ==
  ASSUME Ledger, UNCHANGED masterVars, i'[Master] = i[Master],
         \/ pc'[Master] = pc[Master]
         \/ ~HasTime /\ ~HasTime'
  PROVE  Ledger'
<1>1. /\ HasTime' = HasTime
      /\ \A s \in Scopes : HasRead(s)' = HasRead(s)
  BY DEF HasTime, HasRead
<1>2. /\ now' = now /\ previous_time' = previous_time /\ energy' = energy
      /\ previous_energy' = previous_energy /\ experiments' = experiments
      /\ i'[Master] = i[Master]
  BY DEF masterVars
<1>3. Readings' /\ Times' /\ Energies'
  BY <1>1, <1>2 DEF Ledger, Readings, Times, Energies, LastRead, IsReading, IsShare
<1>4. RecordCount' /\ Shares' /\ ExactlyOnce' /\ Weights' /\ Windows' /\ LastWindow'
  BY <1>2, RecordsKept
<1>5. Carried'
  BY <1>1, <1>2 DEF Ledger, Carried
<1>6. QED
  BY <1>3, <1>4, <1>5 DEF Ledger

(* The readings in front of the loop see nothing.                          *)
LEMMA LedgerFirst ==
  ASSUME IInv, WorkDone, Ledger, AtStart,
         \/ FirstRead("PCKG", "first_pckg", "first_cores")
         \/ FirstRead("CORES", "first_cores", "first_time")
         \/ FirstTime
  PROVE  Ledger'
<1>1. /\ pc[Master] \in Before
      /\ pc'[Master] \in {"first_cores", "first_time", "loop"}
  BY Moved DEF FirstRead, FirstTime, Before, IInv
<1>2. /\ i' = i /\ i[Master] = 0 /\ now' = now /\ energy' = energy
      /\ experiments' = experiments
  BY <1>1 DEF FirstRead, FirstTime, AtStart
<1>3. IsReading(counted, -1)
  BY <1>1, NothingDone
<1>4. /\ \A s \in Scopes : ~HasRead(s) /\ ~HasRead(s)'
      /\ ~HasTime /\ ~HasTime'
  BY <1>1 DEF HasRead, HasTime, Before
<1>5. Len(experiments) = 0
  BY <1>2 DEF Ledger, RecordCount
<1>6. Readings'
  <2>1. ASSUME NEW s \in Scopes PROVE IsReading(previous_energy'[s], -1)
    <3>1. IsReading(previous_energy[s], -1)
      BY <1>2, <1>4 DEF Ledger, Readings, LastRead
    <3>2. previous_energy'[s] \in {previous_energy[s], counted}
      BY DEF FirstRead, FirstTime, IInv, TypeOK
    <3>3. QED
      BY <1>3, <3>1, <3>2
  <2>2. QED
    BY <2>1, <1>2, <1>4 DEF Readings, LastRead, IsReading
<1>7. Times'
  <2>1. IsReading(previous_time, -1)
    BY <1>2 DEF Ledger, Times
  <2>2. previous_time' \in {previous_time, counted}
    BY DEF FirstRead, FirstTime
  <2>3. IsReading(previous_time', -1)
    BY <1>3, <2>1, <2>2
  <2>4. QED
    BY <2>3, <1>2, <1>4 DEF Times, IsReading
<1>8. Energies'
  BY <1>4 DEF Energies
<1>9. RecordCount' /\ Shares' /\ ExactlyOnce' /\ Weights' /\ Windows'
      /\ LastWindow' /\ Carried'
  BY <1>2, <1>5 DEF RecordCount, Shares, ExactlyOnce, Weights, Windows,
                    LastWindow, Carried
<1>10. QED
  BY <1>6, <1>7, <1>8, <1>9 DEF Ledger

LEMMA LedgerTakeNow ==
  ASSUME IInv, WorkDone, Ledger, TakeNow
  PROVE  Ledger'
<1>1. pc[Master] = "now" /\ pc'[Master] = "read_pckg"
  BY Moved DEF TakeNow, IInv
<1>2. /\ i' = i /\ now' = counted /\ energy' = energy
      /\ previous_time' = previous_time /\ previous_energy' = previous_energy
      /\ experiments' = experiments
  BY DEF TakeNow
<1>3. IsReading(counted, i[Master])
  BY <1>1, MasterReads DEF AfterKernel
<1>4. \A s \in Scopes : ~HasRead(s) /\ ~HasRead(s)'
  BY <1>1 DEF HasRead
<1>5. Readings' /\ Times' /\ Energies'
  BY <1>2, <1>3, <1>4 DEF Ledger, Readings, Times, Energies, LastRead, IsReading
<1>6. RecordCount' /\ Shares' /\ ExactlyOnce' /\ Weights' /\ Windows' /\ LastWindow'
  BY <1>2, RecordsKept
<1>7. Carried'
  BY <1>2, <1>4 DEF Ledger, Carried
<1>8. QED
  BY <1>5, <1>6, <1>7 DEF Ledger

(* Reading a scope: the difference to the reading of the iteration before. *)
LEMMA LedgerReadScope ==
  ASSUME IInv, WorkDone, Ledger, NEW s \in Scopes, NEW from, NEW to,
         <<s, from, to>> \in {<<"PCKG", "read_pckg", "read_cores">>,
                              <<"CORES", "read_cores", "record">>},
         ReadScope(s, from, to)
  PROVE  Ledger'
<1> DEFINE r == i[Master]
<1>1. pc[Master] = from /\ pc'[Master] = to
  BY Moved DEF ReadScope, IInv
<1>2. /\ pc[Master] \in AfterKernel /\ r \in Loop
      /\ HasTime /\ HasTime'
      /\ ~HasRead(s)
      /\ \A u \in Scopes : HasRead(u)' <=> u = s \/ HasRead(u)
  BY <1>1 DEF AfterKernel, HasTime, HasRead, Scopes, IInv, TypeOK
<1>3. /\ i' = i /\ now' = now /\ previous_time' = previous_time
      /\ experiments' = experiments
  BY DEF ReadScope
<1>4. \A u \in Scopes :
        /\ previous_energy'[u] = IF u = s THEN counted ELSE previous_energy[u]
        /\ energy'[u] = IF u = s THEN Minus(counted, previous_energy[s])
                                 ELSE energy[u]
  BY DEF ReadScope, IInv, TypeOK
<1>5. IsReading(counted, r)
  BY <1>2, MasterReads
<1>6. IsReading(previous_energy[s], r - 1)
  BY <1>2 DEF Ledger, Readings, LastRead
<1>7. counted \in Snapshot /\ previous_energy[s] \in Snapshot
  BY DEF IInv, TypeOK
<1>8. /\ IsShare(Minus(counted, previous_energy[s]), r)
      /\ \A t \in Threads :
           Minus(counted, previous_energy[s])[t][r] = counted[t][r]
      /\ \A t \in Threads : r > 0 =>
           Minus(counted, previous_energy[s])[t][r - 1] =
             Work - previous_energy[s][t][r - 1]
  BY <1>2, <1>5, <1>6, <1>7, ReadingDifference
<1>9. Readings'
  <2>1. ASSUME NEW u \in Scopes
        PROVE IsReading(previous_energy'[u], IF u = s \/ HasRead(u) THEN r ELSE r - 1)
    BY <1>4, <1>5 DEF Ledger, Readings, LastRead
  <2>2. QED
    BY <2>1, <1>2, <1>3 DEF Readings, LastRead, IsReading
<1>10. Times'
  BY <1>2, <1>3 DEF Ledger, Times, IsReading
<1>11. Energies'
  <2>1. ASSUME NEW u \in Scopes, u = s \/ HasRead(u)
        PROVE  /\ IsShare(energy'[u], r)
               /\ \A t \in Threads : energy'[u][t][r] = previous_energy'[u][t][r]
    <3>1. CASE u = s
      BY <1>4, <1>8, <3>1
    <3>2. CASE u # s
      BY <1>4, <2>1, <3>2 DEF Ledger, Energies
    <3>3. QED
      BY <3>1, <3>2
  <2>2. QED
    BY <2>1, <1>2, <1>3 DEF Energies, IsShare
<1>12. RecordCount' /\ Shares' /\ ExactlyOnce' /\ Weights' /\ Windows' /\ LastWindow'
  BY <1>3, RecordsKept
<1>13. Carried'
  <2>1. SUFFICES ASSUME Len(experiments) > 0, NEW u \in Scopes, NEW t \in Threads
                 PROVE  experiments[Len(experiments)].energy[u][t][Len(experiments)] =
                          IF u = s \/ HasRead(u)
                          THEN Work - energy'[u][t][Len(experiments)]
                          ELSE previous_energy'[u][t][Len(experiments)]
    BY <1>2, <1>3 DEF Carried
  <2>2. Len(experiments) = r - 1 /\ r > 0
    BY <1>2, <2>1 DEF Ledger, RecordCount, Loop
  <2>3. experiments[r - 1].energy[u][t][r - 1] =
          IF HasRead(u) THEN Work - energy[u][t][r - 1]
                        ELSE previous_energy[u][t][r - 1]
    BY <2>1, <2>2 DEF Ledger, Carried
  <2>4. CASE u = s
    <3>1. previous_energy[s][t][r - 1] \in 0..Work
      <4>1. r - 1 \in Loop
        BY <1>2, <2>2 DEF Loop
      <4>2. QED
        BY <1>7, <4>1, SnapshotAt
    <3>2. energy'[s][t][r - 1] = Work - previous_energy[s][t][r - 1]
      BY <1>4, <1>8, <2>2
    <3>3. Work - energy'[s][t][r - 1] = previous_energy[s][t][r - 1]
      BY <3>1, <3>2
    <3>4. QED
      BY <1>2, <2>2, <2>3, <2>4, <3>3
  <2>5. CASE u # s
    BY <1>4, <2>2, <2>3, <2>5
  <2>6. QED
    BY <2>4, <2>5
<1>14. QED
  BY <1>9, <1>10, <1>11, <1>12, <1>13 DEF Ledger

(* Keeping the record, which becomes the last one.                         *)
LEMMA LedgerRecord ==
  ASSUME IInv, Ledger, Record
  PROVE  Ledger'
<1> DEFINE r == i[Master]
<1>1. /\ pc[Master] = "record" /\ pc'[Master] = "loop"
      /\ i'[Master] = r + 1
  BY Advanced DEF Record, IInv
<1>2. r \in Loop /\ r \in Nat
  BY <1>1 DEF IInv, TypeOK, Loop
<1>3. /\ HasTime /\ ~HasTime'
      /\ \A s \in Scopes : HasRead(s) /\ ~HasRead(s)'
  BY <1>1 DEF HasTime, HasRead
<1>4. /\ previous_time' = now /\ now' = now /\ energy' = energy
      /\ previous_energy' = previous_energy
      /\ experiments' = IF r > 0 THEN Append(experiments, Experiment)
                                 ELSE experiments
  BY DEF Record
<1>5. Readings'
  <2>1. \A s \in Scopes : IsReading(previous_energy[s], r)
    BY <1>3 DEF Ledger, Readings, LastRead
  <2>2. i'[Master] - 1 = r
    BY <1>1, <1>2
  <2>3. ASSUME NEW s \in Scopes PROVE LastRead(s)' = r
    BY <1>3, <2>2 DEF LastRead
  <2>4. QED
    BY <1>4, <2>1, <2>3 DEF Readings, IsReading
<1>6. Times'
  <2>1. IsReading(now, r)
    BY <1>3 DEF Ledger, Times
  <2>2. i'[Master] - 1 = r
    BY <1>1, <1>2
  <2>3. QED
    BY <1>3, <1>4, <2>1, <2>2 DEF Times, IsReading
<1>7. Energies'
  BY <1>3 DEF Energies
<1>8. CASE r = 0
  <2>1. Len(experiments) = 0 /\ experiments' = experiments
    BY <1>4, <1>8 DEF Ledger, RecordCount
  <2>2. RecordCount' /\ Shares' /\ ExactlyOnce' /\ Weights' /\ Windows'
        /\ LastWindow' /\ Carried'
    BY <1>1, <1>8, <2>1 DEF RecordCount, Shares, ExactlyOnce, Weights, Windows,
                            LastWindow, Carried
  <2>3. QED
    BY <1>5, <1>6, <1>7, <2>2 DEF Ledger
<1>9. CASE r > 0
  <2>1. /\ Len(experiments) = r - 1 /\ Len(experiments') = r
        /\ \A n \in 1 .. r - 1 : experiments'[n] = experiments[n]
        /\ experiments'[r] = Experiment
    <3>1. Len(experiments) = r - 1
      BY <1>9 DEF Ledger, RecordCount
    <3>2. experiments' = Append(experiments, Experiment)
      BY <1>4, <1>9
    <3>3. experiments \in Seq(Experiments)
      BY DEF IInv, TypeOK
    <3>4. QED
      BY <1>2, <3>1, <3>2, <3>3
  <2>2. /\ experiments'[r].start = previous_time
        /\ experiments'[r].duration = Minus(now, previous_time)
        /\ experiments'[r].weight = op[Master]
        /\ experiments'[r].energy = energy
    BY <2>1 DEF Experiment
  <2>3. RecordCount'
    BY <1>1, <1>2, <2>1 DEF RecordCount
  <2>4. Shares'
    <3>1. \A s \in Scopes : IsShare(energy[s], r)
      BY <1>3 DEF Ledger, Energies
    <3>2. ASSUME NEW n \in 1..r, NEW s \in Scopes
          PROVE  IsShare(experiments'[n].energy[s], n)
      <4>1. CASE n = r
        BY <2>2, <3>1, <4>1
      <4>2. CASE n \in 1 .. r - 1
        BY <2>1, <4>2 DEF Ledger, Shares
      <4>3. QED
        BY <1>2, <4>1, <4>2
    <3>3. QED
      BY <2>1, <3>2 DEF Shares, IsShare
  <2>5. Weights'
    <3>1. op[Master] = 32 * Draw[r]
      BY <1>1 DEF IInv, Operands, InIteration, AfterKernel
    <3>2. ASSUME NEW n \in 1..r PROVE experiments'[n].weight = 32 * Draw[n]
      <4>1. CASE n = r
        BY <2>2, <3>1, <4>1
      <4>2. CASE n \in 1 .. r - 1
        BY <2>1, <4>2 DEF Ledger, Weights
      <4>3. QED
        BY <1>2, <4>1, <4>2
    <3>3. QED
      BY <2>1, <3>2 DEF Weights
  <2>6. Carried'
    <3>1. ASSUME NEW s \in Scopes, NEW t \in Threads
          PROVE  experiments'[r].energy[s][t][r] = previous_energy[s][t][r]
      BY <1>3, <2>2 DEF Ledger, Energies
    <3>2. QED
      BY <1>3, <1>4, <2>1, <3>1 DEF Carried
  <2>7. ExactlyOnce'
    <3>1. ASSUME NEW n \in 1 .. r - 1, NEW s \in Scopes, NEW t \in Threads
          PROVE  experiments'[n].energy[s][t][n]
                   + experiments'[n + 1].energy[s][t][n] = Work
      <4>1. CASE n + 1 = r
        <5>1. experiments[n].energy[s][t][n] = Work - energy[s][t][n]
          BY <1>3, <2>1, <4>1 DEF Ledger, Carried
        <5>2. energy[s][t][n] \in 0..Work
          <6>1. n \in Loop
            BY <1>2, <4>1 DEF Loop
          <6>2. QED
            BY <1>3, <6>1 DEF Ledger, Energies, IsShare
        <5>3. /\ experiments'[n] = experiments[n]
              /\ experiments'[n + 1].energy = energy
          BY <2>1, <2>2, <4>1
        <5>4. QED
          BY <5>1, <5>2, <5>3
      <4>2. CASE n + 1 \in 1 .. r - 1
        <5>1. n \in 1 .. (Len(experiments) - 1) /\ n \in 1 .. r - 1
          BY <1>2, <2>1, <4>2
        <5>2. experiments[n].energy[s][t][n]
                + experiments[n + 1].energy[s][t][n] = Work
          BY <5>1 DEF Ledger, ExactlyOnce
        <5>3. QED
          BY <2>1, <4>2, <5>1, <5>2
      <4>3. n \in Int /\ (n + 1 = r \/ n + 1 \in 1 .. r - 1)
        BY <1>2
      <4>4. QED
        BY <4>1, <4>2, <4>3
    <3>2. QED
      BY <2>1, <3>1 DEF ExactlyOnce
  <2>8. LastWindow'
    BY <1>4, <2>1, <2>2 DEF LastWindow, Minus
  <2>9. Windows'
    <3>1. ASSUME NEW t \in Threads, NEW k \in Loop, k > r
          PROVE  Minus(now, previous_time)[t][k] = 0
      <4>1. k > r - 1 /\ k \in Int
        BY <1>2, <3>1 DEF Loop
      <4>2. now[t][k] = 0 /\ previous_time[t][k] = 0
        BY <1>3, <3>1, <4>1 DEF Ledger, Times, IsReading
      <4>3. QED
        BY <4>2, MinusAt
    <3>2. ASSUME NEW n \in 1..r
          PROVE  /\ n < r => experiments'[n].duration =
                      Minus(experiments'[n + 1].start, experiments'[n].start)
                 /\ \A t \in Threads, k \in Loop :
                      k > n => experiments'[n].duration[t][k] = 0
      <4>1. CASE n = r
        BY <1>2, <2>2, <3>1, <4>1
      <4>2. CASE n + 1 = r
        BY <2>1, <2>2, <4>2 DEF Ledger, LastWindow, Windows
      <4>3. CASE n + 1 \in 1 .. r - 1
        BY SMTT(20), <2>1, <4>3 DEF Ledger, Windows
      <4>4. QED
        BY <1>2, <4>1, <4>2, <4>3
    <3>3. QED
      BY <2>1, <3>2 DEF Windows, Minus
  <2>10. QED
    BY <1>5, <1>6, <1>7, <2>3, <2>4, <2>5, <2>6, <2>7, <2>8, <2>9 DEF Ledger
<1>10. QED
  BY <1>2, <1>8, <1>9

-----------------------------------------------------------------------------

LEMMA LedgerNext ==
  IInv /\ WorkDone /\ Ledger /\ AtStart /\ [Next]_vars => Ledger'
<1> SUFFICES ASSUME IInv, WorkDone, Ledger, AtStart, [Next]_vars PROVE Ledger'
  OBVIOUS
<1>t. TypeOK
  BY DEF IInv
<1>1. ASSUME NEW t \in Threads, NEW from, NEW to, Goto(t, from, to),
             UNCHANGED <<masterVars, i>>,
             from \notin {"read_pckg", "read_cores", "record"},
             to \notin {"read_pckg", "read_cores", "record"}
      PROVE  Ledger'
  <2>1. pc'[Master] = pc[Master] \/ (~HasTime /\ ~HasTime')
    BY <1>1, <1>t, Moved DEF HasTime
  <2>2. UNCHANGED masterVars /\ i'[Master] = i[Master]
    BY <1>1
  <2>3. QED
    BY <2>1, <2>2, LedgerElsewhere
<1>2. ASSUME NEW t \in Threads,
             \/ Prepare(t) \/ LeaveLoop(t)
             \/ Arrive(t, "barrier", "wait") \/ Arrive(t, "region_end", "join")
             \/ Pass(t, "wait", "kernel") \/ Pass(t, "join", "report")
             \/ Pass(t, "join", "done")
      PROVE  Ledger'
  BY <1>2, <1>1 DEF Prepare, LeaveLoop, Arrive, Pass
<1>3. ASSUME NEW t \in Threads, KernelWork(t) PROVE Ledger'
  BY <1>3, LedgerElsewhere DEF KernelWork
<1>4. ASSUME NEW t \in Threads, KernelReturn(t) PROVE Ledger'
  <2>1. CASE t = Master
    BY <1>4, <2>1, <1>1 DEF KernelReturn
  <2>2. CASE t # Master
    <3>1. i'[Master] = i[Master] /\ pc'[Master] = pc[Master]
      BY <1>4, <1>t, <2>2, Advanced DEF KernelReturn
    <3>2. QED
      BY <1>4, <3>1, LedgerElsewhere DEF KernelReturn
  <2>3. QED
    BY <2>1, <2>2
<1>5. ASSUME WriteCsv PROVE Ledger'
  BY <1>5, <1>1 DEF WriteCsv
<1>6. ASSUME UNCHANGED vars PROVE Ledger'
  BY <1>6, LedgerElsewhere DEF vars, masterVars
<1>7. ASSUME ReadScope("PCKG", "read_pckg", "read_cores")
             \/ ReadScope("CORES", "read_cores", "record")
      PROVE  Ledger'
  BY <1>7, LedgerReadScope DEF Scopes
<1>8. QED
  BY <1>2, <1>3, <1>4, <1>5, <1>6, <1>7, LedgerFirst, LedgerTakeNow, LedgerRecord
     DEF Next, Thread, MasterBlock

LEMMA ReportedNext ==
  IInv /\ Reported /\ AtStart /\ [Next]_vars => Reported' /\ AtStart'
<1> SUFFICES ASSUME IInv, Reported, AtStart, [Next]_vars
             PROVE  Reported' /\ AtStart'
  OBVIOUS
<1>t. TypeOK
  BY DEF IInv
<1>1. ASSUME NEW t \in Threads, NEW from, NEW to, Goto(t, from, to),
             UNCHANGED <<experiments, csv, i>>, t = Master => to # "done",
             t = Master /\ to \in Before => from \in Before
      PROVE  Reported' /\ AtStart'
  BY <1>1, <1>t, Moved DEF Reported, AtStart
<1>2. ASSUME NEW t \in Threads, NEW from, NextIteration(t, from),
             UNCHANGED csv, t = Master \/ experiments' = experiments
      PROVE  Reported' /\ AtStart'
  BY <1>2, <1>t, Advanced DEF Reported, AtStart, Before
<1>3. ASSUME NEW t \in Threads,
             \/ Prepare(t) \/ LeaveLoop(t)
             \/ Arrive(t, "barrier", "wait") \/ Arrive(t, "region_end", "join")
             \/ Pass(t, "wait", "kernel") \/ Pass(t, "join", "report")
             \/ t # Master /\ Pass(t, "join", "done")
      PROVE  Reported' /\ AtStart'
  BY <1>3, <1>1 DEF Prepare, LeaveLoop, Arrive, Pass, masterVars, Before
<1>4. ASSUME NEW t \in Threads, KernelWork(t) PROVE Reported' /\ AtStart'
  BY <1>4 DEF KernelWork, masterVars, Reported, AtStart
<1>5. ASSUME NEW t \in Threads, KernelReturn(t) PROVE Reported' /\ AtStart'
  BY <1>5, <1>1, <1>2 DEF KernelReturn, masterVars, Before
<1>6. ASSUME \/ FirstRead("PCKG", "first_pckg", "first_cores")
             \/ FirstRead("CORES", "first_cores", "first_time")
             \/ FirstTime \/ TakeNow
             \/ ReadScope("PCKG", "read_pckg", "read_cores")
             \/ ReadScope("CORES", "read_cores", "record")
      PROVE  Reported' /\ AtStart'
  BY <1>6, <1>1 DEF FirstRead, FirstTime, TakeNow, ReadScope, Before
<1>7. ASSUME Record PROVE Reported' /\ AtStart'
  BY <1>7, <1>2 DEF Record
<1>8. ASSUME WriteCsv PROVE Reported' /\ AtStart'
  BY <1>8, <1>t, Moved DEF WriteCsv, masterVars, Reported, AtStart, Before
<1>9. ASSUME UNCHANGED vars PROVE Reported' /\ AtStart'
  BY <1>9 DEF vars, Reported, AtStart
<1>10. QED
  BY <1>3, <1>4, <1>5, <1>6, <1>7, <1>8, <1>9 DEF Next, Thread, MasterBlock

LEMMA RecordsInit == Init => WorkDone /\ Ledger /\ Reported /\ AtStart
<1> SUFFICES ASSUME Init PROVE WorkDone /\ Ledger /\ Reported /\ AtStart
  OBVIOUS
<1>1. /\ pc[Master] = "first_pckg" /\ i[Master] = 0
      /\ \A t \in Threads : i[t] = 0 /\ pc[t] \in {"first_pckg", "loop"}
      /\ \A t \in Threads, k \in Loop :
           NoWork[t][k] = 0 /\ k \in Nat
  BY DEF Init, NoWork, Loop
<1>2. \A s \in Scopes : ~HasRead(s) /\ ~HasTime
  BY <1>1 DEF HasRead, HasTime
<1>3. IsReading(NoWork, -1)
  BY <1>1 DEF IsReading
<1>4. WorkDone
  BY <1>1 DEF Init, WorkDone, AfterKernel
<1>5. Readings /\ Times /\ Energies
  BY <1>1, <1>2, <1>3 DEF Init, Readings, LastRead, Times, Energies, Scopes, HasTime
<1>6. Len(experiments) = 0
  BY DEF Init
<1>7. RecordCount /\ Shares /\ Carried /\ ExactlyOnce /\ Weights /\ Windows
      /\ LastWindow
  BY <1>1, <1>6 DEF RecordCount, Shares, Carried, ExactlyOnce, Weights, Windows,
                    LastWindow
<1>8. QED
  BY <1>1, <1>4, <1>5, <1>7 DEF Ledger, Reported, AtStart

LEMMA RecordsInductive == Spec => []RInv
<1>1. Init /\ IInv => RInv
  BY RecordsInit DEF RInv
<1>2. RInv /\ IInv' /\ [Next]_vars => RInv'
  BY WorkNext, LedgerNext, ReportedNext DEF RInv
<1>3. QED
  BY <1>1, <1>2, Inductive, PTL DEF Spec

-----------------------------------------------------------------------------

(* The energy of a record is that of the kernels of its own iteration and  *)
(* of the one before, and of the master's own kernel exactly               *)
(* (main.cpp:204-225).                                                     *)
THEOREM RecordsAreAttributed == Spec => []Attribution
<1>1. RInv => Attribution
  BY DEF RInv, Ledger, Shares, IsShare, Attribution
<1>2. QED
  BY <1>1, RecordsInductive, PTL

(* No work is lost or recorded twice, whenever the master reads            *)
(* (main.cpp:209-214).                                                     *)
THEOREM WorkIsRecordedOnce == Spec => []ExactlyOnce
<1>1. RInv => ExactlyOnce
  BY DEF RInv, Ledger
<1>2. QED
  BY <1>1, RecordsInductive, PTL

(* The windows of the records follow each other without gap or overlap     *)
(* (main.cpp:206-225).                                                     *)
THEOREM WindowsAreAdjacent == Spec => []Windows
<1>1. RInv => Windows
  BY DEF RInv, Ledger
<1>2. QED
  BY <1>1, RecordsInductive, PTL

(* A straggler runs with the operand of the record that misses its work    *)
(* (main.cpp:189-225).                                                     *)
THEOREM StragglersHaveTheOperand == Spec => []OperandOfRecord
<1>1. ASSUME RInv PROVE OperandOfRecord
  <2>1. \A t \in Threads : pc[t] = "kernel" => op[t] = 32 * Draw[i[t]]
    BY <1>1 DEF RInv, IInv, Operands, InIteration
  <2>2. QED
    BY <1>1, <2>1 DEF RInv, Ledger, Weights, OperandOfRecord
<1>2. QED
  BY <1>1, RecordsInductive, PTL

(* A record tells the energy, the operand and the window of its own        *)
(* kernels, up to the stragglers of the iteration before                   *)
(* (main.cpp:189-225).                                                     *)
THEOREM RecordsTellTheirKernels == Spec => []RecordsAreRight
<1>1. Attribution /\ OperandOfRecord /\ Windows => RecordsAreRight
  BY DEF RecordsAreRight
<1>2. QED
  BY <1>1, RecordsAreAttributed, StragglersHaveTheOperand, WindowsAreAdjacent, PTL

(* The report has a row for every iteration but the first, in order        *)
(* (main.cpp:216-220 and 229-242).                                         *)
THEOREM ReportIsComplete == Spec => []CompleteReport
<1>1. ASSUME RInv PROVE CompleteReport
  <2>1. SUFFICES ASSUME pc[Master] = "done" PROVE
          /\ Len(csv) = Iterations - 1
          /\ \A n \in 1..Len(csv) : csv[n].weight = 32 * Draw[n]
    BY DEF CompleteReport, Done
  <2>2. csv = experiments /\ i[Master] = Iterations
    BY <1>1, <2>1 DEF RInv, Reported, IInv, Arrivals
  <2>3. QED
    BY <1>1, <2>2 DEF RInv, Ledger, RecordCount, Weights
<1>2. QED
  BY <1>1, RecordsInductive, PTL

=============================================================================
