-------------------------- MODULE PowerProgramsProofs --------------------------
(* Proofs about the two C programs of the power experiments: vxor_test_high *)
(* for every number of threads, width of the operands and length of the    *)
(* kernel, RAPL_resoultion/test for every number of stamps, every period   *)
(* of the updates and all the time the scheduler may take.                 *)
EXTENDS MCPowerPrograms, FiniteSetTheorems, SequenceTheorems, TLAPS

(***************************************************************************)
(* RAPL_resoultion/test.c                                                  *)
(***************************************************************************)

(* What the program does, whichever of the two is started.                 *)
ResolutionSpec == R!Init /\ [][R!main]_resolutionVars

LEMMA ResolutionBehaves == MCSpec => ResolutionSpec
<1>1. MCInit => R!Init
  BY DEF MCInit, Unstarted
<1>2. [MCNext]_all => [R!main]_resolutionVars
  BY DEF MCNext, Vxor, VxorKernel, Resolution, all
<1>3. QED
  BY <1>1, <1>2, PTL DEF MCSpec, ResolutionSpec

(* The last update before a time.                                          *)
Update(t) == Period * (t \div Period)

LEMMA Constants ==
  /\ Measurements \in Nat \ {0} /\ Stolen \in Nat /\ Horizon \in Nat
  /\ Period \in Nat \ {0, 1, 2} /\ Horizon >= 2 * Period
  /\ CounterSize \in Nat \ {0} /\ Energies \subseteq Nat
  /\ \A e \in Energies : e % CounterSize # 0
BY ResolutionAssumption

LEMMA UpdateBefore ==
  \A t \in Nat : /\ t \div Period \in Nat /\ Update(t) \in Nat
                 /\ Update(t) <= t /\ t < Update(t) + Period
<1> SUFFICES ASSUME NEW t \in Nat
             PROVE  /\ t \div Period \in Nat /\ Update(t) \in Nat
                    /\ Update(t) <= t /\ t < Update(t) + Period
  OBVIOUS
<1>1. Period \in Nat \ {0}
  BY Constants
<1>2. t = Period * (t \div Period) + (t % Period) /\ t % Period \in 0 .. Period - 1
  BY <1>1
<1>3. t \div Period \in Nat
  BY <1>1
<1>4. Period * (t \div Period) \in Nat
  BY <1>1, <1>3
<1>5. QED
  BY <1>1, <1>2, <1>3, <1>4 DEF Update

LEMMA UpdatesApart ==
  \A t, v \in Nat :
    /\ t <= v => t \div Period <= v \div Period
    /\ t \div Period < v \div Period => Update(t) + Period <= Update(v)
    /\ v < t + Period => v \div Period <= (t \div Period) + 1
<1> SUFFICES ASSUME NEW t \in Nat, NEW v \in Nat
             PROVE  /\ t <= v => t \div Period <= v \div Period
                    /\ t \div Period < v \div Period => Update(t) + Period <= Update(v)
                    /\ v < t + Period => v \div Period <= (t \div Period) + 1
  OBVIOUS
<1>1. \A p, a, b \in Nat : a < b => p * a + p <= p * b
  <2> SUFFICES ASSUME NEW p \in Nat, NEW a \in Nat, NEW b \in Nat, a < b
               PROVE  p * a + p <= p * b
    OBVIOUS
  <2>1. a + 1 <= b
    OBVIOUS
  <2>2. p * (a + 1) <= p * b
    BY <2>1
  <2>3. p * (a + 1) = p * a + p
    OBVIOUS
  <2>4. QED
    BY <2>2, <2>3
<1> DEFINE qt == t \div Period
           qv == v \div Period
<1>2. /\ Period \in Nat /\ Period > 0 /\ qt \in Nat /\ qv \in Nat
      /\ Period * qt <= t /\ t < Period * qt + Period
      /\ Period * qv <= v /\ v < Period * qv + Period
      /\ Period * qt \in Nat /\ Period * qv \in Nat
  BY Constants, UpdateBefore DEF Update
<1>3. qv < qt => Period * qv + Period <= Period * qt
  BY <1>1, <1>2
<1>4. qt < qv => Period * qt + Period <= Period * qv
  BY <1>1, <1>2
<1>5. qt + 1 < qv => Period * (qt + 1) + Period <= Period * qv
  BY <1>1, <1>2
<1>6. Period * (qt + 1) = Period * qt + Period
  BY <1>2
<1> HIDE DEF qt, qv
<1>7. /\ t <= v => qt <= qv
      /\ v < t + Period => qv <= qt + 1
  BY <1>2, <1>3, <1>5, <1>6
<1>8. QED
  BY <1>4, <1>7 DEF Update, qt, qv
LEMMA Modulo ==
  \A x \in Nat : x % CounterSize \in R!Counter
BY Constants DEF R!Counter

LEMMA OneUpdate ==
  \A x \in R!Counter : \A e \in Energies :
    /\ (x + e * 0) % CounterSize = x
    /\ (x + e * 1) % CounterSize # x
<1> SUFFICES ASSUME NEW x \in R!Counter, NEW e \in Energies
             PROVE  /\ (x + e * 0) % CounterSize = x
                    /\ (x + e * 1) % CounterSize # x
  OBVIOUS
<1> DEFINE c == CounterSize
<1>1. c \in Nat \ {0} /\ e \in Nat /\ x \in 0 .. c - 1 /\ e % c # 0
  BY Constants DEF R!Counter
<1> HIDE DEF c
<1>2. x % c = x
  BY <1>1
<1>3. ASSUME (x + e) % c = x PROVE FALSE
  <2> DEFINE q == (x + e) \div c
  <2>1. x + e = c * q + ((x + e) % c) /\ q \in Int
    BY <1>1
  <2>2. e = c * q
    BY <1>1, <1>3, <2>1
  <2>3. e % c = 0
    <3> HIDE DEF q
    <3>1. q \in Nat
      BY <1>1, <2>1, <2>2
    <3>2. \A p \in Nat \ {0} : \A k \in Nat : (p * k) % p = 0
      OBVIOUS
    <3>3. QED
      BY <1>1, <2>2, <3>1, <3>2
  <2>4. QED
    BY <1>1, <2>3
<1>4. e * 0 = 0 /\ e * 1 = e /\ x + 0 = x
  BY <1>1
<1>5. QED
  BY <1>2, <1>3, <1>4 DEF c

(* The types of the program and of the hardware, and how many stamps there *)
(* are where.                                                              *)
Clock ==
  /\ readable \in BOOLEAN /\ msr \in R!Counter
  /\ tsc \in Nat /\ read_at \in Nat /\ read_at <= tsc
  /\ stolen \in Nat /\ stolen <= Stolen
  /\ ~readable => tsc <= Horizon
  /\ status \in R!Counter /\ cur_status \in R!Counter

Stamped ==
  /\ line \in {"read first", "stamp", "poll", "print", "end"}
  /\ cycles \in Seq(Nat) /\ updates \in Seq(Nat) /\ Len(updates) = Len(cycles)
  /\ line = "read first" => Len(cycles) = 0
  /\ line = "stamp" => Len(cycles) < Measurements
  /\ line = "poll" => Len(cycles) \in 1 .. Measurements - 1
  /\ line \in {"print", "end"} => Len(cycles) = Measurements

Printed ==
  printed = IF line = "end"
            THEN [n \in 1 .. Measurements - 3 |-> R!Difference(n + 1)] ELSE <<>>

LEMMA ElapseIs ==
  ASSUME Clock, R!Elapse
  PROVE  /\ msr' \in R!Counter /\ readable' = readable
         /\ tsc' \in Nat /\ tsc <= tsc' /\ (~readable => tsc' <= Horizon)
         /\ stolen' \in Nat /\ stolen' <= Stolen /\ stolen <= stolen'
         /\ readable => tsc' = tsc + 1 + (stolen' - stolen)
         /\ tsc' \div Period = tsc \div Period => msr' = msr
         /\ tsc' \div Period = (tsc \div Period) + 1 => msr' # msr
<1>1. PICK extra \in 0 .. Stolen - stolen :
        /\ stolen' = stolen + extra
        /\ tsc' = IF readable \/ tsc + 1 + extra < Horizon
                  THEN tsc + 1 + extra ELSE Horizon
  BY DEF R!Elapse
<1>0. /\ tsc \in Nat /\ stolen \in Nat /\ stolen <= Stolen /\ (~readable => tsc <= Horizon)
      /\ Stolen \in Nat /\ Horizon \in Nat /\ extra \in Nat /\ extra <= Stolen - stolen
  BY Constants DEF Clock
<1>t. tsc' = tsc + 1 + extra \/ (~readable /\ tsc' = Horizon)
  <2>1. tsc' = tsc + 1 + extra \/ tsc' = Horizon
    BY <1>1, Zenon
  <2>2. readable => tsc' = tsc + 1 + extra
    BY <1>1, Zenon
  <2>3. QED
    BY <2>1, <2>2, Zenon
<1>r. readable => tsc' = tsc + 1 + extra
  BY <1>1, Zenon
<1>n. tsc' = Horizon \/ (tsc' = tsc + 1 + extra /\ (readable \/ tsc + 1 + extra < Horizon))
  BY <1>1, Zenon
<1>s. stolen' = stolen + extra
  BY <1>1
<1>2a. stolen' \in Nat /\ stolen' <= Stolen /\ stolen <= stolen'
  BY <1>0, <1>s
<1>2b. readable => tsc' = tsc + 1 + (stolen' - stolen)
  <2>1. stolen' - stolen = extra
    BY <1>0, <1>s
  <2>2. QED
    BY <1>r, <2>1, Zenon
<1>2c. tsc' \in Nat /\ tsc <= tsc'
  <2>1. CASE tsc' = tsc + 1 + extra
    BY <1>0, <2>1
  <2>2. CASE ~readable /\ tsc' = Horizon
    <3>1. tsc <= Horizon /\ Horizon \in Nat
      BY <1>0, <2>2
    <3>2. QED
      BY <3>1, <2>2
  <2>3. QED
    BY <1>t, <2>1, <2>2, Zenon
<1>2d. ~readable => tsc' <= Horizon
  <2>1. SUFFICES ASSUME ~readable PROVE tsc' <= Horizon
    OBVIOUS
  <2>2. tsc' = Horizon \/ (tsc' = tsc + 1 + extra /\ tsc + 1 + extra < Horizon)
    BY <1>n, <2>1, Zenon
  <2>3. QED
    BY <1>0, <2>2
<1>2. /\ tsc' \in Nat /\ tsc <= tsc' /\ (~readable => tsc' <= Horizon)
      /\ stolen' \in Nat /\ stolen' <= Stolen /\ stolen <= stolen'
      /\ readable => tsc' = tsc + 1 + (stolen' - stolen)
  BY <1>2a, <1>2b, <1>2c, <1>2d, Zenon
<1> DEFINE d == tsc' \div Period - tsc \div Period
<1>3. tsc \div Period \in Nat /\ tsc' \div Period \in Nat /\ d \in Nat
  <2>1. tsc \div Period \in Nat /\ tsc' \div Period \in Nat
    BY <1>0, <1>2c, UpdateBefore
  <2>2. tsc \div Period <= tsc' \div Period
    BY <1>0, <1>2c, UpdatesApart
  <2> DEFINE a == tsc \div Period
             b == tsc' \div Period
  <2> HIDE DEF a, b
  <2>3. a \in Nat /\ b \in Nat /\ a <= b
    BY <2>1, <2>2 DEF a, b
  <2>4. b - a \in Nat
    BY <2>3
  <2>5. QED
    BY <2>1, <2>4 DEF a, b
<1>4. PICK e \in Energies : msr' = (msr + e * d) % CounterSize
  BY DEF R!Elapse
<1> HIDE DEF d
<1>5. e \in Nat /\ msr \in R!Counter
  BY Constants DEF Clock
<1>6. msr + e * d \in Nat
  BY <1>3, <1>5 DEF R!Counter
<1>7. msr' \in R!Counter
  BY <1>4, <1>6, Modulo
<1>8. d = 0 => msr' = msr
  BY <1>4, <1>5, OneUpdate
<1>9. d = 1 => msr' # msr
  BY <1>4, <1>5, OneUpdate
<1>10. /\ tsc' \div Period = tsc \div Period => d = 0
       /\ tsc' \div Period = (tsc \div Period) + 1 => d = 1
  BY <1>3 DEF d
<1>11. readable' = readable
  BY DEF R!Elapse
<1>12. QED
  BY <1>2, <1>7, <1>8, <1>9, <1>10, <1>11

LEMMA ResolutionInit == R!Init => Clock /\ Stamped /\ Printed
<1> SUFFICES ASSUME R!Init PROVE Clock /\ Stamped /\ Printed
  OBVIOUS
<1>1. Clock
  <2>1. 0 \in R!Counter
    BY Constants DEF R!Counter
  <2>2. tsc \in Period .. 2 * Period - 1 /\ read_at = tsc /\ stolen = 0
    BY DEF R!Init
  <2>3. tsc \in Nat /\ tsc <= Horizon
    BY <2>2, Constants
  <2>4. stolen \in Nat /\ stolen <= Stolen
    BY <2>2, Constants
  <2>5. QED
    <3>1. /\ msr \in R!Counter /\ status \in R!Counter /\ cur_status \in R!Counter
          /\ readable \in BOOLEAN /\ read_at = tsc
      BY <2>1 DEF R!Init
    <3>2. read_at <= tsc /\ read_at \in Nat
      BY <3>1, <2>3
    <3>3. QED
      BY <2>3, <2>4, <3>1, <3>2, Zenon DEF Clock
<1>2. Stamped
  <2>1. <<>> \in Seq(Nat) /\ Len(<<>>) = 0
    OBVIOUS
  <2>2. QED
    BY <2>1 DEF R!Init, Stamped
<1>3. Printed
  BY DEF R!Init, Printed
<1>4. QED
  BY <1>1, <1>2, <1>3

LEMMA ResolutionStep ==
  ASSUME Clock, Stamped, Printed, [R!main]_resolutionVars
  PROVE  Clock' /\ Stamped' /\ Printed'
<1>1. CASE R!ReadFirst
  <2>1. status' \in R!Counter /\ read_at' = tsc /\ cur_status' = cur_status /\ R!Elapse
    BY <1>1 DEF R!ReadFirst, R!Pread, Clock
  <2>2. Clock'
    BY <2>1, ElapseIs DEF Clock
  <2>3. Stamped'
    <3>1. /\ line = "read first" /\ line' = "stamp"
          /\ cycles' = cycles /\ updates' = updates
      BY <1>1 DEF R!ReadFirst
    <3>2. Len(cycles) = 0 /\ Measurements > 0
      <4>1. Len(cycles) = 0
        BY <3>1 DEF Stamped
      <4>2. Measurements > 0
        BY Constants
      <4>3. QED
        BY <4>1, <4>2
    <3>3. QED
      BY <3>1, <3>2 DEF Stamped
  <2>5. Printed'
    BY <1>1 DEF R!ReadFirst, Printed
  <2>4. QED
    BY <2>2, <2>3, <2>5
<1>2. CASE R!Stamp
  <2>1. /\ cycles' = Append(cycles, tsc)
        /\ updates' = Append(updates, read_at \div Period)
        /\ tsc \in Nat /\ read_at \div Period \in Nat
        /\ UNCHANGED <<status, cur_status, read_at, printed>> /\ R!Elapse
        /\ line = "stamp"
    BY <1>2, UpdateBefore DEF R!Stamp, Clock
  <2>2. Clock'
    BY <2>1, ElapseIs DEF Clock
  <2>3. /\ cycles' \in Seq(Nat) /\ updates' \in Seq(Nat)
        /\ Len(cycles') = Len(cycles) + 1 /\ Len(updates') = Len(cycles')
        /\ Len(cycles) \in Nat /\ Len(cycles) < Measurements
    BY <2>1, AppendProperties DEF Stamped
  <2>4. /\ line' = "poll" => Len(cycles') \in 1 .. Measurements - 1
        /\ line' = "print" => Len(cycles') = Measurements
        /\ line' \in {"poll", "print"}
    BY <1>2, <2>3, Constants DEF R!Stamp
  <2>5. Stamped'
    BY <2>3, <2>4 DEF Stamped
  <2>6. Printed'
    BY <2>1, <2>4 DEF Printed
  <2>7. QED
    BY <2>2, <2>5, <2>6
<1>3. CASE R!Poll
  <2>1. /\ status' \in R!Counter /\ cur_status' \in R!Counter /\ read_at' = tsc
        /\ line' \in {"poll", "stamp"} /\ line = "poll" /\ R!Elapse
        /\ UNCHANGED <<cycles, updates, printed>>
    BY <1>3 DEF R!Poll, R!Pread, Clock
  <2>2. Clock'
    BY <2>1, ElapseIs DEF Clock
  <2>3. Len(cycles) \in 1 .. Measurements - 1 /\ Len(cycles) < Measurements
    BY <2>1, Constants DEF Stamped
  <2>4. Stamped' /\ Printed'
    BY <2>1, <2>3 DEF Stamped, Printed
  <2>5. QED
    BY <2>2, <2>4
<1>4. CASE R!Output
  BY <1>4 DEF R!Output, R!machine, R!Difference, Clock, Stamped, Printed
<1>5. CASE UNCHANGED resolutionVars
  BY <1>5 DEF resolutionVars, Clock, Stamped, Printed, R!Difference
<1>6. QED
  BY <1>1, <1>2, <1>3, <1>4, <1>5 DEF R!main

(* What the program knows while it polls a register it can read: whether   *)
(* the register changed since it was read, how long ago that was, and how  *)
(* the update it saw relates to the last one it stamped.                   *)
Polling ==
  readable /\ line \in {"stamp", "poll"} =>
    /\ tsc \div Period = read_at \div Period => msr = status
    /\ stolen = 0 =>
         /\ tsc \div Period <= (read_at \div Period) + 1
         /\ tsc \div Period = (read_at \div Period) + 1 => msr # status
    /\ line = "stamp" =>
         /\ read_at + 1 <= tsc /\ tsc <= read_at + 1 + stolen
         /\ Len(updates) >= 1 =>
              /\ updates[Len(updates)] < read_at \div Period
              /\ stolen = 0 => read_at \div Period = updates[Len(updates)] + 1
              /\ tsc <= Update(read_at) + stolen + (IF Len(updates) = 1 THEN 2 ELSE 1)
    /\ line = "poll" =>
         /\ updates[Len(updates)] <= read_at \div Period
         /\ stolen = 0 => updates[Len(updates)] = read_at \div Period
         /\ read_at \div Period < tsc \div Period =>
              tsc <= Update(tsc) + stolen + (IF Len(updates) = 1 THEN 1 ELSE 0)

(* What the stamps of a readable register say about the updates.           *)
Recorded ==
  readable =>
    /\ \A i \in 1 .. Len(updates) - 1 :
         /\ updates[i] < updates[i + 1]
         /\ stolen = 0 => updates[i + 1] = updates[i] + 1
    /\ \A i \in 2 .. Len(cycles) :
         /\ Period * updates[i] + 1 <= cycles[i]
         /\ cycles[i] <= Period * updates[i] + stolen + (IF i = 2 THEN 2 ELSE 1)

(* A register that cannot be read: the two uninitialized values differ at  *)
(* most once, and no value changes after that.                             *)
Unreadable ==
  ~readable =>
    /\ Len(cycles) <= 2
    /\ line = "stamp" => Len(cycles) <= 1
    /\ Len(cycles) = 2 => status = cur_status
    /\ line = "stamp" /\ Len(cycles) = 1 => status = cur_status

(* The read of a turn of the loop sees an update no later than that.       *)
LEMMA SeenAfterPoll ==
  ASSUME NEW t \in Nat, NEW u \in Nat, NEW x \in Nat,
         u = t + 1 + x, t \div Period < u \div Period
  PROVE  u <= Update(u) + x
<1>1. Update(t) + Period <= Update(u)
  BY UpdatesApart
<1>2. t < Update(t) + Period /\ Update(t) \in Nat /\ Update(u) \in Nat
  BY UpdateBefore
<1>3. Period \in Nat
  BY Constants
<1>4. QED
  BY <1>1, <1>2, <1>3

LEMMA SeenAfterStamp ==
  ASSUME NEW r \in Nat, NEW t \in Nat, NEW u \in Nat, NEW x \in Nat, NEW s \in Nat,
         t <= Update(r) + 2 + s, u = t + 1 + x, r \div Period < u \div Period
  PROVE  u <= Update(u) + s + x
<1>1. Update(r) + Period <= Update(u)
  BY UpdatesApart
<1>2. Update(r) \in Nat /\ Update(u) \in Nat
  BY UpdateBefore
<1>3. Period \in Nat /\ Period >= 3
  BY Constants
<1>4. QED
  BY <1>1, <1>2, <1>3

(* The first stamp follows no update.                                      *)
LEMMA SeenAfterFirstStamp ==
  ASSUME NEW r \in Nat, NEW t \in Nat, NEW u \in Nat, NEW x \in Nat, NEW s \in Nat,
         t <= r + 1 + s, u = t + 1 + x, r \div Period < u \div Period
  PROVE  u <= Update(u) + s + x + 1
<1>1. Update(r) + Period <= Update(u)
  BY UpdatesApart
<1>2. Update(r) \in Nat /\ Update(u) \in Nat /\ r < Update(r) + Period
  BY UpdateBefore
<1>3. Period \in Nat
  BY Constants
<1>4. QED
  BY <1>1, <1>2, <1>3

(* After a reading the register differs from the value read just when an   *)
(* update came.                                                            *)
LEMMA AfterReading ==
  ASSUME Clock, Clock', R!Elapse, readable, read_at' = tsc, status' = msr
  PROVE  /\ tsc' \div Period = read_at' \div Period => msr' = status'
         /\ stolen' = 0 =>
              /\ tsc' \div Period <= (read_at' \div Period) + 1
              /\ tsc' \div Period = (read_at' \div Period) + 1 => msr' # status'
<1>1. /\ tsc \in Nat /\ tsc' \in Nat /\ stolen \in Nat /\ stolen' \in Nat
      /\ stolen <= stolen' /\ tsc' = tsc + 1 + (stolen' - stolen)
      /\ tsc' \div Period = tsc \div Period => msr' = msr
      /\ tsc' \div Period = (tsc \div Period) + 1 => msr' # msr
  <2>1. tsc \in Nat /\ stolen \in Nat
    BY DEF Clock
  <2>2. QED
    BY <2>1, ElapseIs
<1>2. stolen' = 0 => tsc' < tsc + Period
  <2>1. Period \in Nat /\ Period >= 3
    BY Constants
  <2>2. QED
    BY <1>1, <2>1
<1>3. stolen' = 0 => tsc' \div Period <= (tsc \div Period) + 1
  BY <1>1, <1>2, UpdatesApart
<1>4. QED
  BY <1>1, <1>3

(* A step of a program that can read the register.                         *)
LEMMA Passing ==
  ASSUME Clock, R!Elapse, readable
  PROVE  \E x \in Nat : /\ stolen' = stolen + x /\ tsc' = tsc + 1 + x
                        /\ tsc \in Nat /\ stolen \in Nat
                        /\ tsc' \in Nat /\ stolen' \in Nat
<1>1. tsc \in Nat /\ stolen \in Nat
  BY DEF Clock
<1>2. stolen' \in Nat /\ stolen <= stolen' /\ tsc' \in Nat
  BY ElapseIs, Zenon
<1>3. tsc' = tsc + 1 + (stolen' - stolen)
  BY ElapseIs, Zenon
<1>4. stolen' - stolen \in Nat /\ stolen' = stolen + (stolen' - stolen)
  <2>1. \A a, b \in Nat : a <= b => b - a \in Nat /\ b = a + (b - a)
    OBVIOUS
  <2>2. QED
    BY <1>1, <1>2, <2>1, Zenon
<1>5. QED
  BY <1>1, <1>2, <1>3, <1>4

LEMMA PollingReadFirst ==
  ASSUME Clock, Clock', Stamped, R!ReadFirst
  PROVE  Polling'
<1>1. /\ R!Elapse /\ read_at' = tsc /\ line' = "stamp" /\ updates' = updates
      /\ readable => status' = msr
      /\ line = "read first"
  BY DEF R!ReadFirst, R!Pread
<1>2. Len(updates') = 0
  BY <1>1 DEF Stamped
<1>3. readable' = readable
  BY <1>1, ElapseIs, Zenon
<1>4. SUFFICES ASSUME readable PROVE Polling'
  BY <1>3, Zenon DEF Polling
<1>5. /\ tsc' \div Period = read_at' \div Period => msr' = status'
      /\ stolen' = 0 =>
           /\ tsc' \div Period <= (read_at' \div Period) + 1
           /\ tsc' \div Period = (read_at' \div Period) + 1 => msr' # status'
  BY <1>1, <1>4, AfterReading, Zenon
<1>6. read_at' + 1 <= tsc' /\ tsc' <= read_at' + 1 + stolen'
  <2>1. PICK x \in Nat : /\ stolen' = stolen + x /\ tsc' = tsc + 1 + x
                         /\ tsc \in Nat /\ stolen \in Nat
    BY <1>1, <1>4, Passing, Zenon
  <2>2. tsc + 1 <= tsc' /\ tsc' <= tsc + 1 + stolen'
    BY <2>1
  <2>3. read_at' = tsc
    BY <1>1, Zenon
  <2>4. QED
    BY <2>2, <2>3, Zenon
<1>7. ~(Len(updates') >= 1) /\ line' # "poll"
  <2>1. line' = "stamp"
    BY <1>1, Zenon
  <2>2. QED
    BY <2>1, <1>2
<1>8. QED
  BY <1>5, <1>6, <1>7, Zenon DEF Polling

LEMMA PollingStamp ==
  ASSUME Clock, Clock', Stamped, Polling, R!Stamp
  PROVE  Polling'
<1>1. /\ R!Elapse /\ read_at' = read_at /\ status' = status
      /\ updates' = Append(updates, read_at \div Period)
      /\ line = "stamp" /\ line' \in {"poll", "print"}
  BY DEF R!Stamp
<1>2. readable' = readable
  BY <1>1, ElapseIs, Zenon
<1>3. SUFFICES ASSUME readable, line' = "poll" PROVE Polling'
  <2>1. CASE line' = "print"
    BY <2>1 DEF Polling
  <2>2. QED
    BY <1>1, <1>2, <2>1 DEF Polling
<1> DEFINE n == Len(updates)
           U == read_at \div Period
           T == tsc \div Period
           V == tsc' \div Period
<1>4. /\ n \in Nat /\ updates \in Seq(Nat) /\ read_at \in Nat /\ read_at <= tsc
  <2>1. updates \in Seq(Nat) /\ read_at \in Nat /\ read_at <= tsc
    BY Zenon DEF Stamped, Clock
  <2>2. n \in Nat
    BY <2>1
  <2>3. QED
    BY <2>1, <2>2, Zenon
<1>5. PICK x \in Nat : /\ stolen' = stolen + x /\ tsc' = tsc + 1 + x
                       /\ tsc \in Nat /\ stolen \in Nat
                       /\ tsc' \in Nat /\ stolen' \in Nat
  BY <1>1, <1>3, Passing, Zenon
<1>6. /\ U \in Nat /\ T \in Nat /\ V \in Nat /\ U <= T /\ T <= V
  <2>1. tsc <= tsc'
    BY <1>5
  <2>2. QED
    BY <2>1, <1>4, <1>5, UpdateBefore, UpdatesApart
<1>7. V = T => msr' = msr
  BY <1>1, ElapseIs, Zenon
<1>8. V = T + 1 => msr' # msr
  BY <1>1, ElapseIs, Zenon
<1>9. /\ T = U => msr = status
      /\ stolen = 0 => (T = U + 1 => msr # status)
      /\ read_at + 1 <= tsc /\ tsc <= read_at + 1 + stolen
      /\ n >= 1 => tsc <= Update(read_at) + stolen + (IF n = 1 THEN 2 ELSE 1)
  BY <1>1, <1>3, Zenon DEF Polling
<1>10. stolen' = 0 => V <= U + 1
  <2>1. Period \in Nat /\ Period >= 3
    BY Constants
  <2>2. stolen' = 0 => tsc' < read_at + Period
    BY <2>1, <1>4, <1>5, <1>9
  <2>3. QED
    BY <2>2, <1>4, <1>5, UpdatesApart
<1>11. Len(updates') = n + 1 /\ updates'[Len(updates')] = U
  BY <1>1, <1>4, <1>6, AppendProperties
<1>12. U < V => tsc' <= Update(tsc') + stolen' + (IF n + 1 = 1 THEN 1 ELSE 0)
  <2>1. SUFFICES ASSUME U < V
                 PROVE  tsc' <= Update(tsc') + stolen' + (IF n + 1 = 1 THEN 1 ELSE 0)
    OBVIOUS
  <2>2. Update(tsc') \in Nat /\ Update(read_at) \in Nat
    BY <1>4, <1>5, UpdateBefore
  <2>3. CASE n = 0
    <3>1. tsc' <= Update(tsc') + stolen + x + 1
      BY <1>4, <1>5, <1>9, <2>1, SeenAfterFirstStamp
    <3>2. QED
      BY <3>1, <2>2, <2>3, <1>5
  <2>4. CASE n >= 1
    <3>1. tsc <= Update(read_at) + 2 + stolen
      BY <1>4, <1>5, <1>9, <2>2, <2>4
    <3>2. tsc' <= Update(tsc') + stolen + x
      BY <1>4, <1>5, <2>1, <3>1, SeenAfterStamp
    <3>3. QED
      BY <3>2, <2>2, <2>4, <1>4, <1>5
  <2>5. QED
    BY <2>3, <2>4, <1>4
<1> HIDE DEF n, U, T, V
<1>13. V = U => msr' = status
  BY <1>6, <1>7, <1>9
<1>14. stolen' = 0 => (V = U + 1 => msr' # status)
  <2>1. stolen' = 0 => stolen = 0
    BY <1>5
  <2>2. V = U + 1 => T = U \/ T = U + 1
    BY <1>6
  <2>3. QED
    BY <2>1, <2>2, <1>7, <1>8, <1>9
<1>15. U <= U
  BY <1>6
<1>16. Len(updates') = 1 <=> n + 1 = 1
  BY <1>11
<1>17. /\ V = U => msr' = status
       /\ stolen' = 0 => /\ V <= U + 1
                         /\ V = U + 1 => msr' # status
       /\ updates'[Len(updates')] <= U
       /\ stolen' = 0 => updates'[Len(updates')] = U
       /\ U < V => tsc' <= Update(tsc') + stolen' + (IF Len(updates') = 1 THEN 1 ELSE 0)
  BY <1>10, <1>11, <1>12, <1>13, <1>14, <1>15, Zenon
<1>18. line' # "stamp"
  BY <1>3
<1>19. QED
  BY <1>1, <1>17, <1>18, Zenon DEF Polling, U, V

LEMMA PollingPoll ==
  ASSUME Clock, Clock', Stamped, Polling, R!Poll
  PROVE  Polling'
<1>1. /\ R!Elapse /\ read_at' = tsc /\ updates' = updates /\ line = "poll"
      /\ readable => cur_status' = msr
      /\ \/ cur_status' = status /\ line' = "poll" /\ status' = status
         \/ cur_status' # status /\ line' = "stamp" /\ status' = cur_status'
  BY DEF R!Poll, R!Pread
<1>2. readable' = readable
  BY <1>1, ElapseIs, Zenon
<1>3. SUFFICES ASSUME readable PROVE Polling'
  BY <1>2, Zenon DEF Polling
<1> DEFINE n == Len(updates)
           U == read_at \div Period
           T == tsc \div Period
           V == tsc' \div Period
<1>4. /\ n \in Nat \ {0} /\ updates \in Seq(Nat) /\ read_at \in Nat /\ read_at <= tsc
  <2>1. Len(cycles) \in 1 .. Measurements - 1 /\ Len(updates) = Len(cycles)
    BY <1>1 DEF Stamped
  <2>2. updates \in Seq(Nat) /\ read_at \in Nat /\ read_at <= tsc
    BY Zenon DEF Stamped, Clock
  <2>3. n \in Nat \ {0}
    BY <2>1
  <2>4. QED
    BY <2>2, <2>3, Zenon
<1>5. PICK x \in Nat : /\ stolen' = stolen + x /\ tsc' = tsc + 1 + x
                       /\ tsc \in Nat /\ stolen \in Nat
                       /\ tsc' \in Nat /\ stolen' \in Nat
  BY <1>1, <1>3, Passing, Zenon
<1>6. U \in Nat /\ T \in Nat /\ U <= T /\ updates[n] \in Nat
  <2>1. U \in Nat /\ T \in Nat /\ U <= T
    BY <1>4, <1>5, UpdateBefore, UpdatesApart
  <2>2. updates[n] \in Nat
    BY <1>4, ElementOfSeq
  <2>3. QED
    BY <2>1, <2>2, Zenon
<1>7. /\ T = U => msr = status
      /\ stolen = 0 => /\ T <= U + 1
                       /\ T = U + 1 => msr # status
      /\ updates[n] <= U
      /\ stolen = 0 => updates[n] = U
      /\ U < T => tsc <= Update(tsc) + stolen + (IF n = 1 THEN 1 ELSE 0)
  BY <1>1, <1>3, Zenon DEF Polling
<1>8. status' = msr /\ (line' = "poll" => msr = status) /\ (line' = "stamp" => msr # status)
  BY <1>1, <1>3
<1>9. /\ V = T => msr' = status'
      /\ stolen' = 0 => /\ V <= T + 1
                        /\ V = T + 1 => msr' # status'
  BY <1>1, <1>3, <1>8, AfterReading, Zenon
<1>10. stolen' = 0 => stolen = 0
  BY <1>5
<1>11. T < V => tsc' <= Update(tsc') + stolen' + (IF n = 1 THEN 1 ELSE 0)
  <2>1. SUFFICES ASSUME T < V
                 PROVE  tsc' <= Update(tsc') + stolen' + (IF n = 1 THEN 1 ELSE 0)
    OBVIOUS
  <2>2. Update(tsc') \in Nat
    BY <1>5, UpdateBefore
  <2>3. tsc' <= Update(tsc') + x
    BY <1>5, <2>1, SeenAfterPoll
  <2>4. QED
    BY <2>2, <2>3, <1>5
<1>12. tsc + 1 <= tsc' /\ tsc' <= tsc + 1 + stolen'
  BY <1>5
<1>13. U < T => tsc' <= Update(tsc) + stolen' + (IF n = 1 THEN 2 ELSE 1)
  <2>1. Update(tsc) \in Nat
    BY <1>5, UpdateBefore
  <2>2. QED
    BY <2>1, <1>5, <1>7
<1> HIDE DEF n, U, T, V
<1>14. updates[n] <= T /\ (msr # status => U < T /\ updates[n] < T)
  BY <1>6, <1>7
<1>15. stolen' = 0 /\ msr = status => updates[n] = T
  BY <1>6, <1>7, <1>10
<1>16. stolen' = 0 /\ msr # status => T = updates[n] + 1
  BY <1>6, <1>7, <1>10, <1>14
<1>17. CASE line' = "poll"
  <2>1. msr = status
    BY <1>8, <1>17, Zenon
  <2>2. line' # "stamp"
    BY <1>17
  <2>3. QED
    BY <1>1, <1>9, <1>11, <1>14, <1>15, <2>1, <2>2, Zenon DEF Polling, n, T, V
<1>18. CASE line' = "stamp"
  <2>1. msr # status
    BY <1>8, <1>18, Zenon
  <2>2. line' # "poll"
    BY <1>18
  <2>3. QED
    BY <1>1, <1>9, <1>12, <1>13, <1>14, <1>16, <2>1, <2>2, Zenon DEF Polling, n, T, V
<1>19. QED
  BY <1>1, <1>17, <1>18, Zenon

LEMMA PollingStep ==
  ASSUME Clock, Clock', Stamped, Polling, [R!main]_resolutionVars
  PROVE  Polling'
<1>1. CASE R!Output
  <2>1. line' = "end"
    BY <1>1 DEF R!Output
  <2>2. QED
    BY <2>1 DEF Polling
<1>2. CASE UNCHANGED resolutionVars
  BY <1>2, Zenon DEF resolutionVars, Polling
<1>3. QED
  BY <1>1, <1>2, PollingReadFirst, PollingStamp, PollingPoll DEF R!main

LEMMA StolenGrows ==
  ASSUME Clock, [R!main]_resolutionVars
  PROVE  /\ stolen \in Nat /\ stolen' \in Nat /\ stolen <= stolen'
         /\ readable' = readable
<1>1. stolen \in Nat /\ stolen <= stolen
  BY DEF Clock
<1>2. CASE R!Elapse
  BY <1>1, <1>2, ElapseIs, Zenon
<1>3. CASE UNCHANGED <<readable, stolen>>
  BY <1>1, <1>3
<1>4. R!Elapse \/ UNCHANGED <<readable, stolen>>
  BY DEF R!main, R!ReadFirst, R!Stamp, R!Poll, R!Output, R!machine, resolutionVars
<1>5. QED
  BY <1>2, <1>3, <1>4, Zenon

(* What is recorded stays true: only the scheduler takes more.             *)
LEMMA RecordedKeeps ==
  ASSUME Stamped, Recorded, stolen \in Nat, stolen' \in Nat, stolen <= stolen',
         readable' = readable, UNCHANGED <<cycles, updates>>
  PROVE  Recorded'
<1>1. SUFFICES ASSUME readable PROVE Recorded'
  BY Zenon DEF Recorded
<1>2. /\ \A i \in 1 .. Len(updates) - 1 :
           /\ updates[i] < updates[i + 1]
           /\ stolen = 0 => updates[i + 1] = updates[i] + 1
      /\ \A i \in 2 .. Len(cycles) :
           /\ Period * updates[i] + 1 <= cycles[i]
           /\ cycles[i] <= Period * updates[i] + stolen + (IF i = 2 THEN 2 ELSE 1)
  BY <1>1, Zenon DEF Recorded
<1>3. stolen' = 0 => stolen = 0
  OBVIOUS
<1>4. ASSUME NEW i \in 2 .. Len(cycles)
      PROVE  cycles[i] <= Period * updates[i] + stolen' + (IF i = 2 THEN 2 ELSE 1)
  <2>1. cycles \in Seq(Nat) /\ updates \in Seq(Nat) /\ Len(updates) = Len(cycles)
    BY Zenon DEF Stamped
  <2>2. cycles[i] \in Nat /\ updates[i] \in Nat
    BY <2>1, ElementOfSeq
  <2>3. Period * updates[i] \in Nat
    BY <2>2, Constants
  <2> DEFINE p == Period * updates[i]
  <2> HIDE DEF p
  <2>4. cycles[i] <= p + stolen + (IF i = 2 THEN 2 ELSE 1) /\ p \in Nat
    BY <1>2, <2>3 DEF p
  <2>5. cycles[i] <= p + stolen' + (IF i = 2 THEN 2 ELSE 1)
    BY <2>2, <2>4
  <2>6. QED
    BY <2>5 DEF p
<1>5. QED
  BY <1>2, <1>3, <1>4, Zenon DEF Recorded

LEMMA RecordedStamp ==
  ASSUME Clock, Stamped, Polling, Recorded, R!Stamp
  PROVE  Recorded'
<1>1. /\ R!Elapse /\ read_at' = read_at /\ line = "stamp"
      /\ cycles' = Append(cycles, tsc) /\ updates' = Append(updates, read_at \div Period)
  BY DEF R!Stamp
<1>2. readable' = readable
  BY <1>1, ElapseIs, Zenon
<1>3. SUFFICES ASSUME readable PROVE Recorded'
  BY <1>2, Zenon DEF Recorded
<1> DEFINE n == Len(updates)
           U == read_at \div Period
<1>4. PICK x \in Nat : /\ stolen' = stolen + x /\ tsc' = tsc + 1 + x
                       /\ tsc \in Nat /\ stolen \in Nat
                       /\ tsc' \in Nat /\ stolen' \in Nat
  BY <1>1, <1>3, Passing, Zenon
<1>5. /\ cycles \in Seq(Nat) /\ updates \in Seq(Nat) /\ Len(cycles) = n /\ read_at \in Nat
  BY Zenon DEF Stamped, Clock
<1>6. U \in Nat /\ Period * U \in Nat /\ Period * U <= read_at /\ n \in Nat
  <2>1. n \in Nat
    BY <1>5
  <2>2. QED
    BY <1>5, <2>1, UpdateBefore, Zenon DEF Update
<1>7. /\ Len(cycles') = n + 1 /\ Len(updates') = n + 1
      /\ \A i \in 1 .. n : cycles'[i] = cycles[i] /\ updates'[i] = updates[i]
      /\ cycles'[n + 1] = tsc /\ updates'[n + 1] = U
  BY <1>1, <1>4, <1>5, <1>6, AppendProperties
<1>8. /\ \A i \in 1 .. n - 1 :
           /\ updates[i] < updates[i + 1]
           /\ stolen = 0 => updates[i + 1] = updates[i] + 1
      /\ \A i \in 2 .. n :
           /\ Period * updates[i] + 1 <= cycles[i]
           /\ cycles[i] <= Period * updates[i] + stolen + (IF i = 2 THEN 2 ELSE 1)
  BY <1>3, <1>5, Zenon DEF Recorded
<1>9. /\ read_at + 1 <= tsc
      /\ n >= 1 => /\ updates[n] < U
                   /\ stolen = 0 => U = updates[n] + 1
                   /\ tsc <= Period * U + stolen + (IF n = 1 THEN 2 ELSE 1)
  BY <1>1, <1>3, Zenon DEF Polling, Update
<1> HIDE DEF n, U
<1>10. stolen' = 0 => stolen = 0
  BY <1>4
<1>11. ASSUME NEW i \in 1 .. n
       PROVE  /\ updates'[i] < updates'[i + 1]
              /\ stolen' = 0 => updates'[i + 1] = updates'[i] + 1
  <2>1. CASE i = n
    <3>1. updates'[i] = updates[n] /\ updates'[i + 1] = U /\ n >= 1
      BY <1>6, <1>7, <2>1
    <3>2. QED
      BY <3>1, <1>9, <1>10, Zenon
  <2>2. CASE i # n
    <3>1. i \in 1 .. n - 1 /\ i + 1 \in 1 .. n
      BY <1>6, <2>2
    <3>2. updates'[i] = updates[i] /\ updates'[i + 1] = updates[i + 1]
      BY <3>1, <1>7, Zenon
    <3>3. QED
      BY <3>1, <3>2, <1>8, <1>10, Zenon
  <2>3. QED
    BY <2>1, <2>2, Zenon
<1>12. ASSUME NEW i \in 2 .. n + 1
       PROVE  /\ Period * updates'[i] + 1 <= cycles'[i]
              /\ cycles'[i] <= Period * updates'[i] + stolen' + (IF i = 2 THEN 2 ELSE 1)
  <2>1. CASE i = n + 1
    <3>1. updates'[i] = U /\ cycles'[i] = tsc /\ n >= 1
      BY <1>6, <1>7, <2>1
    <3> DEFINE p == Period * U
    <3> HIDE DEF p
    <3>2. p \in Nat /\ p <= read_at
      BY <1>6 DEF p
    <3>3. tsc <= p + stolen + (IF n = 1 THEN 2 ELSE 1) /\ read_at + 1 <= tsc
      BY <1>9, <3>1 DEF p
    <3>4. p + 1 <= tsc
      BY <3>2, <3>3, <1>4, <1>5
    <3>5. tsc <= p + stolen' + (IF i = 2 THEN 2 ELSE 1)
      BY <3>2, <3>3, <1>4, <1>6, <2>1
    <3>6. QED
      BY <3>1, <3>4, <3>5 DEF p
  <2>2. CASE i # n + 1
    <3>1. i \in 2 .. n /\ i \in 1 .. n
      BY <1>6, <2>2
    <3>2. updates'[i] = updates[i] /\ cycles'[i] = cycles[i]
      BY <3>1, <1>7, Zenon
    <3>3. cycles[i] \in Nat /\ updates[i] \in Nat
      BY <1>5, <3>1, ElementOfSeq DEF n
    <3> DEFINE p == Period * updates[i]
    <3>4. p \in Nat
      BY <3>3, Constants
    <3> HIDE DEF p
    <3>5. p + 1 <= cycles[i] /\ cycles[i] <= p + stolen + (IF i = 2 THEN 2 ELSE 1)
      BY <3>1, <1>8 DEF p
    <3>6. cycles[i] <= p + stolen' + (IF i = 2 THEN 2 ELSE 1)
      BY <3>3, <3>4, <3>5, <1>4
    <3>7. QED
      BY <3>2, <3>5, <3>6 DEF p
  <2>3. QED
    BY <2>1, <2>2, Zenon
<1>13. Len(updates') - 1 = n
  BY <1>6, <1>7
<1>14. QED
  BY <1>7, <1>11, <1>12, <1>13, Zenon DEF Recorded

LEMMA RecordedStep ==
  ASSUME Clock, Stamped, Polling, Recorded, [R!main]_resolutionVars
  PROVE  Recorded'
<1>1. CASE R!Stamp
  BY <1>1, RecordedStamp
<1>2. CASE UNCHANGED <<cycles, updates>>
  BY <1>2, StolenGrows, RecordedKeeps
<1>3. QED
  BY <1>1, <1>2, Zenon DEF R!main, R!ReadFirst, R!Poll, R!Output, resolutionVars

LEMMA OneOrTwo == \A n \in Nat : n >= 1 /\ n <= 2 => n = 1 \/ n = 2
OBVIOUS

LEMMA OneMore ==
  \A n \in Nat : n <= 1 => n + 1 <= 2 /\ (n + 1 = 2 => n = 1)
OBVIOUS

LEMMA UnreadableStep ==
  ASSUME Clock, Stamped, Unreadable, [R!main]_resolutionVars
  PROVE  Unreadable'
<1>1. readable' = readable
  BY StolenGrows, Zenon
<1>2. SUFFICES ASSUME ~readable PROVE Unreadable'
  BY <1>1, Zenon DEF Unreadable
<1>3. /\ Len(cycles) <= 2
      /\ line = "stamp" => Len(cycles) <= 1
      /\ Len(cycles) = 2 => status = cur_status
      /\ line = "stamp" /\ Len(cycles) = 1 => status = cur_status
      /\ Len(cycles) \in Nat /\ cycles \in Seq(Nat) /\ tsc \in Nat
      /\ line = "poll" => Len(cycles) >= 1
  <2>1. /\ cycles \in Seq(Nat) /\ tsc \in Nat
        /\ line = "poll" => Len(cycles) \in 1 .. Measurements - 1
    BY Zenon DEF Stamped, Clock
  <2>2. Len(cycles) \in Nat /\ (line = "poll" => Len(cycles) >= 1)
    BY <2>1, Constants
  <2>3. QED
    BY <1>2, <2>1, <2>2, Zenon DEF Unreadable
<1>4. CASE R!ReadFirst
  <2>1. Len(cycles) = 0 /\ cycles' = cycles
    BY <1>4 DEF R!ReadFirst, Stamped
  <2>2. QED
    BY <2>1 DEF Unreadable
<1>5. CASE R!Stamp
  <2>1. /\ cycles' = Append(cycles, tsc) /\ line = "stamp" /\ line' # "stamp"
        /\ status' = status /\ cur_status' = cur_status
    BY <1>5 DEF R!Stamp
  <2>2. Len(cycles') = Len(cycles) + 1
    BY <1>3, <2>1, AppendProperties
  <2>3. Len(cycles) <= 1 /\ (Len(cycles) = 1 => status = cur_status)
    BY <1>3, <2>1, Zenon
  <2>4. Len(cycles) \in Nat
    BY <1>3, Zenon
  <2>5. Len(cycles') <= 2 /\ (Len(cycles') = 2 => status' = cur_status')
    BY <2>1, <2>2, <2>3, <2>4, OneMore, Zenon
  <2>6. QED
    BY <2>1, <2>5, Zenon DEF Unreadable
<1>6. CASE R!Poll
  <2>1. /\ cycles' = cycles /\ cur_status' = cur_status /\ line = "poll"
        /\ \/ cur_status = status /\ status' = status /\ line' = "poll"
           \/ cur_status # status /\ status' = cur_status /\ line' = "stamp"
    BY <1>2, <1>6 DEF R!Poll, R!Pread
  <2>2. Len(cycles) = 1 \/ Len(cycles) = 2
    <3>1. Len(cycles) \in Nat /\ Len(cycles) >= 1 /\ Len(cycles) <= 2
      BY <1>3, <2>1, Zenon
    <3>2. QED
      BY <3>1, OneOrTwo, Zenon
  <2>3. QED
    BY <1>3, <2>1, <2>2 DEF Unreadable
<1>7. CASE R!Output
  <2>1. /\ cycles' = cycles /\ cur_status' = cur_status /\ status' = status /\ line' = "end"
    BY <1>7 DEF R!Output
  <2>2. QED
    BY <1>3, <2>1 DEF Unreadable
<1>8. CASE UNCHANGED resolutionVars
  BY <1>8, <1>3 DEF resolutionVars, Unreadable
<1>9. QED
  BY <1>4, <1>5, <1>6, <1>7, <1>8 DEF R!main

-----------------------------------------------------------------------------

ResolutionInv == Clock /\ Stamped /\ Printed /\ Polling /\ Recorded /\ Unreadable

LEMMA ResolutionInvariant == ResolutionSpec => []ResolutionInv
<1>1. R!Init => ResolutionInv
  <2> SUFFICES ASSUME R!Init PROVE ResolutionInv
    OBVIOUS
  <2>1. line = "read first" /\ cycles = <<>> /\ updates = <<>>
    BY DEF R!Init
  <2>2. Len(cycles) = 0 /\ Len(updates) = 0
    BY <2>1
  <2>3. Polling
    BY <2>1 DEF Polling
  <2>4. Recorded
    BY <2>2 DEF Recorded
  <2>5. Unreadable
    BY <2>2 DEF Unreadable
  <2>6. QED
    BY <2>3, <2>4, <2>5, ResolutionInit DEF ResolutionInv
<1>2. ResolutionInv /\ [R!main]_resolutionVars => ResolutionInv'
  <2> SUFFICES ASSUME ResolutionInv, [R!main]_resolutionVars PROVE ResolutionInv'
    OBVIOUS
  <2>1. Clock /\ Stamped /\ Printed /\ Polling /\ Recorded /\ Unreadable
    BY DEF ResolutionInv
  <2>2. Clock' /\ Stamped' /\ Printed'
    BY <2>1, ResolutionStep
  <2>3. QED
    BY <2>1, <2>2, PollingStep, RecordedStep, UnreadableStep DEF ResolutionInv
<1>3. QED
  BY <1>1, <1>2, PTL DEF ResolutionSpec

-----------------------------------------------------------------------------

LEMMA InvWholePeriods == ResolutionInv => WholePeriods
<1> SUFFICES ASSUME ResolutionInv, NEW n \in DOMAIN printed
             PROVE  LET i == printed[n][1]
                        periods == updates[i + 1] - updates[i] IN
                    /\ printed[n][2] \in periods * Period - R!Latency
                                          .. periods * Period + R!Latency
                    /\ periods >= 1
                    /\ stolen = 0 => periods = 1
  BY DEF WholePeriods, R!WholePeriods
<1>1. Clock /\ Stamped /\ Printed /\ Recorded /\ Unreadable
  BY DEF ResolutionInv
<1>2. line = "end"
  BY <1>1 DEF Printed
<1>3. /\ n \in 1 .. Measurements - 3
      /\ printed[n] = <<n + 1, cycles[n + 2] - cycles[n + 1]>>
  <2>1. printed = [m \in 1 .. Measurements - 3 |-> R!Difference(m + 1)]
    BY <1>1, <1>2 DEF Printed
  <2>2. n \in 1 .. Measurements - 3 /\ printed[n] = R!Difference(n + 1)
    BY <2>1
  <2>3. (n + 1) + 1 = n + 2
    BY <2>2, Constants
  <2>4. QED
    BY <2>2, <2>3 DEF R!Difference
<1>4. /\ Len(cycles) = Measurements /\ Len(updates) = Measurements
      /\ cycles \in Seq(Nat) /\ updates \in Seq(Nat) /\ Measurements \in Nat
  BY <1>1, <1>2, Constants DEF Stamped
<1>5. /\ n \in Nat /\ n + 1 \in 2 .. Len(cycles) /\ n + 2 \in 2 .. Len(cycles)
      /\ n + 1 \in 1 .. Len(updates) - 1 /\ n + 2 \in 1 .. Len(updates)
      /\ n + 1 \in 1 .. Len(updates) /\ n + 2 # 2 /\ Len(cycles) > 2
      /\ (n + 1) + 1 = n + 2
  <2>1. /\ n \in Nat /\ n + 2 <= Measurements - 1 /\ n >= 1
    <3>1. \A m \in Nat : \A k \in 1 .. m - 3 : k \in Nat /\ k + 2 <= m - 1 /\ k >= 1
      OBVIOUS
    <3>2. n \in 1 .. Measurements - 3 /\ Measurements \in Nat
      BY <1>3, <1>4, Zenon
    <3>3. QED
      BY <3>1, <3>2, Zenon
  <2>2. Len(cycles) = Measurements /\ Len(updates) = Measurements /\ Measurements \in Nat
    BY <1>4
  <2>3. /\ n + 1 \in 2 .. Measurements /\ n + 2 \in 2 .. Measurements
        /\ n + 1 \in 1 .. Measurements - 1 /\ n + 2 \in 1 .. Measurements
        /\ n + 1 \in 1 .. Measurements /\ n + 2 # 2 /\ Measurements > 2
        /\ (n + 1) + 1 = n + 2
    BY <2>1, <2>2
  <2>4. QED
    BY <2>1, <2>2, <2>3
<1>6. readable
  BY <1>1, <1>4, <1>5 DEF Unreadable
<1> DEFINE a == cycles[n + 1]
           b == cycles[n + 2]
           u == updates[n + 1]
           v == updates[n + 2]
<1>7. a \in Nat /\ b \in Nat /\ u \in Nat /\ v \in Nat /\ stolen \in Nat
  <2>1. stolen \in Nat
    BY <1>1 DEF Clock
  <2>2. QED
    BY <2>1, <1>4, <1>5, ElementOfSeq
<1>8. u < v /\ (stolen = 0 => v = u + 1)
  BY <1>1, <1>5, <1>6, Zenon DEF Recorded
<1>9. /\ Period * u + 1 <= a /\ a <= Period * u + stolen + 2
      /\ Period * v + 1 <= b /\ b <= Period * v + stolen + 1
  <2>1. /\ Period * u + 1 <= a
        /\ a <= Period * u + stolen + (IF n + 1 = 2 THEN 2 ELSE 1)
        /\ Period * v + 1 <= b
        /\ b <= Period * v + stolen + (IF n + 2 = 2 THEN 2 ELSE 1)
    BY <1>1, <1>5, <1>6, Zenon DEF Recorded
  <2>2. Period * u \in Nat /\ Period * v \in Nat
    BY <1>7, Constants
  <2> HIDE DEF a, b, u, v
  <2>3. QED
    <3>1. \A x \in Nat : x <= Period * u + stolen + (IF n + 1 = 2 THEN 2 ELSE 1)
                         => x <= Period * u + stolen + 2
      BY <2>2, <1>7
    <3>2. \A x \in Nat : x <= Period * v + stolen + (IF n + 2 = 2 THEN 2 ELSE 1)
                         => x <= Period * v + stolen + 1
      BY <2>2, <1>5, <1>7
    <3>3. QED
      BY <2>1, <3>1, <3>2, <1>7, Zenon
<1>10. \A p \in Nat : /\ p * u \in Nat /\ p * v \in Nat
                      /\ (v - u) * p = p * v - p * u
  <2> HIDE DEF a, b, u, v
  <2>1. QED
    BY <1>7
<1> HIDE DEF a, b, u, v
<1>11. v - u >= 1 /\ (stolen = 0 => v - u = 1)
  BY <1>7, <1>8
<1>12. b - a \in (v - u) * Period - (1 + stolen) .. (v - u) * Period + (1 + stolen)
  <2>1. /\ Period * u \in Nat /\ Period * v \in Nat
        /\ (v - u) * Period = Period * v - Period * u
    BY <1>10, Constants
  <2>2. QED
    BY <2>1, <1>7, <1>9
<1>13. printed[n][1] = n + 1 /\ printed[n][2] = b - a
  BY <1>3 DEF a, b
<1>14. updates[printed[n][1] + 1] - updates[printed[n][1]] = v - u
  BY <1>5, <1>13 DEF u, v
<1>15. QED
  BY <1>11, <1>12, <1>13, <1>14, Zenon DEF R!Latency

(* For every update period of three ticks and more, every number of stamps *)
(* and all the time the scheduler may take, the differences that           *)
(* RAPL_resoultion/test prints span whole update periods (test.c:45-56).   *)
THEOREM PeriodsAreWhole == MCSpec => []WholePeriods
BY ResolutionBehaves, ResolutionInvariant, InvWholePeriods, PTL

(* No reading that failed is taken for an update: whatever the two         *)
(* uninitialized variables hold, the program that polls a register it      *)
(* cannot read never has the stamps it waits for, three or more, and prints*)
(* nothing (test.c:43-56).                                                 *)
THEOREM UnreadableNeverEnds ==
  ASSUME Measurements > 2
  PROVE  MCSpec => [](~readable => ~R!Done /\ printed = <<>>)
<1>1. ResolutionInv => (~readable => ~R!Done /\ printed = <<>>)
  <2> SUFFICES ASSUME ResolutionInv, ~readable PROVE line # "end" /\ printed = <<>>
    BY Zenon DEF R!Done
  <2>1. Len(cycles) <= 2
    BY Zenon DEF ResolutionInv, Unreadable
  <2>2. line = "end" => Len(cycles) = Measurements
    BY DEF ResolutionInv, Stamped
  <2>3. line # "end"
    BY <2>1, <2>2, ResolutionAssumption
  <2>4. QED
    BY <2>3, Zenon DEF ResolutionInv, Printed
<1>2. QED
  BY <1>1, ResolutionBehaves, ResolutionInvariant, PTL

LEMMA InvResolutionType == ResolutionInv => R!TypeOK
<1> SUFFICES ASSUME ResolutionInv PROVE R!TypeOK
  OBVIOUS
<1>1. Clock /\ Stamped /\ Printed
  BY DEF ResolutionInv
<1>2. stolen \in 0 .. Stolen /\ read_at \in 0 .. tsc
  <2>1. /\ stolen \in Nat /\ stolen <= Stolen /\ Stolen \in Nat
        /\ tsc \in Nat /\ read_at \in Nat /\ read_at <= tsc
    BY <1>1, Constants, Zenon DEF Clock
  <2>2. QED
    BY <2>1
<1>3. Len(cycles) \in 0 .. Measurements /\ Len(updates) = Len(cycles)
  <2>1. Measurements \in Nat /\ Measurements > 0
    BY Constants
  <2>2. QED
    <3>1. /\ cycles \in Seq(Nat) /\ Len(updates) = Len(cycles)
          /\ line = "read first" => Len(cycles) = 0
          /\ line = "stamp" => Len(cycles) < Measurements
          /\ line = "poll" => Len(cycles) \in 1 .. Measurements - 1
          /\ line \in {"print", "end"} => Len(cycles) = Measurements
          /\ line \in {"read first", "stamp", "poll", "print", "end"}
      BY <1>1, Zenon DEF Stamped
    <3>2. Len(cycles) \in Nat
      <4>1. cycles \in Seq(Nat)
        BY <3>1, Zenon
      <4>2. QED
        BY <4>1, LenProperties
    <3>3. \A n \in Nat : /\ n = 0 => n \in 0 .. Measurements
                         /\ n < Measurements => n \in 0 .. Measurements
                         /\ n \in 1 .. Measurements - 1 => n \in 0 .. Measurements
                         /\ n = Measurements => n \in 0 .. Measurements
      BY <2>1
    <3>4. QED
      BY <3>1, <3>2, <3>3, Zenon
<1>4. (printed # <<>>) => R!Done
  BY <1>1, Zenon DEF Printed, R!Done
<1>5. {status, cur_status} \subseteq R!Counter
  BY <1>1, Zenon DEF Clock
<1>6. QED
  BY <1>1, <1>2, <1>3, <1>4, <1>5, Zenon DEF R!TypeOK, Clock, Stamped

(***************************************************************************)
(* vxor_test_high.c                                                        *)
(***************************************************************************)

(* The loops set the bits in order, the lowest first.                      *)
Lowest(x, n) == n <= WordBits => x = 0 .. n - 1

Numbers ==
  /\ value_i \in 0 .. WordBits + 1 /\ value2_i \in 0 .. WordBits + 1
  /\ Lowest(value, value_i) /\ Lowest(value2, value2_i)

(* What the region of the trace and the operands in memory are at each     *)
(* point of main().                                                        *)
Regions ==
  /\ at = "warm_up" => ~region /\ regions = <<>>
  /\ at = "outer" => ~region
  /\ at = "inner" => ~region /\ value_i \in Reported /\ metric[1] = value_i
  /\ at = "calculate" /\ region =>
       /\ value_i \in Reported /\ value2_i \in Reported
       /\ metric = <<value_i, value2_i>>
       /\ addr = <<value, value2>>
  /\ at = "calculate" /\ ~region => addr = <<Word, Word>> /\ regions = <<>>
  /\ region \in BOOLEAN /\ metric \in Nat \X Nat

(* Outside of the parallel region there are no threads, and inside every   *)
(* one that has loaded its registers has the operands of the region.       *)
Registers ==
  /\ thread \in [Threads -> [pc : {"fork", "loop", "join"}, ymm0 : SUBSET Int,
                             ymm8 : SUBSET Int, r10 : Int]]
  /\ at # "calculate" => \A t \in Threads : thread[t].pc = "fork"
  /\ \A t \in Threads : thread[t].pc \in {"loop", "join"} =>
       thread[t].ymm0 = addr[1] /\ thread[t].ymm8 = addr[2]

IInv == Numbers /\ Regions /\ Registers

LEMMA Sizes == WordBits \in Nat \ {0} /\ Unroll \in Nat \ {0} /\ Passes \in Nat
               /\ WarmUp \in Nat
BY BitsAssumption, PassesAssumption

LEMMA ReportedNumbers == Reported \subseteq 0 .. WordBits
BY DEF Reported

USE Sizes, ReportedNumbers

(* Setting the next bit keeps the bits in order; what the undefined shift  *)
(* does is past the last bit.                                              *)
LEMMA NextBit ==
  ASSUME NEW n \in 0 .. WordBits, NEW x, Lowest(x, n), NEW y \in WithBit(x, n)
  PROVE  Lowest(y, n + 1)
<1>1. CASE n < WordBits
  <2>1. x = 0 .. n - 1 /\ y = x \union {n}
    BY <1>1 DEF Lowest, WithBit
  <2>2. \A b : b \in 0 .. n - 1 \/ b = n <=> b \in 0 .. n
    OBVIOUS
  <2>3. y = 0 .. n
    BY <2>1, <2>2
  <2>4. (n + 1) - 1 = n
    OBVIOUS
  <2>5. QED
    BY <2>3, <2>4 DEF Lowest
<1>2. CASE n = WordBits
  BY <1>2 DEF Lowest
<1>3. QED
  BY <1>1, <1>2

LEMMA NoBit == Lowest({}, 0)
<1>1. \A b : ~(b \in 0 .. 0 - 1)
  OBVIOUS
<1>2. {} = 0 .. 0 - 1
  BY <1>1
<1>3. QED
  BY <1>2 DEF Lowest

(* The turns of the loops: a number goes up by one and its bit is set, or  *)
(* both are as they were, or start over.                                   *)
LEMMA NextNumbers ==
  ASSUME Numbers,
         \/ value_i' = value_i /\ value' = value
         \/ /\ value_i <= WordBits /\ value_i' = value_i + 1
            /\ value' \in WithBit(value, value_i),
         \/ value2_i' = value2_i /\ value2' = value2
         \/ value2_i' = 0 /\ value2' = {}
         \/ /\ value2_i <= WordBits /\ value2_i' = value2_i + 1
            /\ value2' \in WithBit(value2, value2_i)
  PROVE  Numbers'
<1>1. value_i' \in 0 .. WordBits + 1 /\ value2_i' \in 0 .. WordBits + 1
  BY DEF Numbers
<1>2. Lowest(value', value_i')
  <2>1. CASE value_i' = value_i /\ value' = value
    BY <2>1 DEF Numbers
  <2>2. CASE /\ value_i <= WordBits /\ value_i' = value_i + 1
             /\ value' \in WithBit(value, value_i)
    <3>1. value_i \in 0 .. WordBits /\ Lowest(value, value_i)
      BY <2>2 DEF Numbers
    <3>2. Lowest(value', value_i + 1)
      BY <2>2, <3>1, NextBit
    <3>3. QED
      BY <2>2, <3>2
  <2>3. QED
    BY <2>1, <2>2
<1>3. Lowest(value2', value2_i')
  <2>1. CASE value2_i' = value2_i /\ value2' = value2
    BY <2>1 DEF Numbers
  <2>2. CASE /\ value2_i <= WordBits /\ value2_i' = value2_i + 1
             /\ value2' \in WithBit(value2, value2_i)
    <3>1. value2_i \in 0 .. WordBits /\ Lowest(value2, value2_i)
      BY <2>2 DEF Numbers
    <3>2. Lowest(value2', value2_i + 1)
      BY <2>2, <3>1, NextBit
    <3>3. QED
      BY <2>2, <3>2
  <2>3. CASE value2_i' = 0 /\ value2' = {}
    BY <2>3, NoBit
  <2>4. QED
    BY <2>1, <2>2, <2>3
<1>4. QED
  BY <1>1, <1>2, <1>3 DEF Numbers, Lowest

(* Exclusive-or with the same operand four times changes nothing.          *)
LEMMA XorTwice == ASSUME NEW a, NEW b PROVE Xor(a, Xor(a, b)) = b
BY DEF Xor

LEMMA InitInv == Init => IInv
<1> SUFFICES ASSUME Init PROVE IInv
  OBVIOUS
<1>1. Numbers
  BY NoBit DEF Init, Numbers
<1>2. Regions
  BY DEF Init, Regions
<1>3. Registers
  BY DEF Init, Registers, Waiting
<1>4. QED
  BY <1>1, <1>2, <1>3 DEF IInv

LEMMA MainInv ==
  ASSUME IInv, main
  PROVE  IInv'
<1>1. CASE Warm
  <2>1. Numbers'
    BY <1>1 DEF Warm, loops, IInv, Numbers, Lowest
  <2>2. Regions'
    BY <1>1 DEF Warm, Call, trace, IInv, Regions
  <2>3. Registers'
    BY <1>1 DEF Warm, Call, IInv, Registers
  <2>4. QED
    BY <2>1, <2>2, <2>3 DEF IInv
<1>2. CASE Outer
  <2>1. Numbers'
    BY <1>2, NextNumbers DEF Outer, loops, IInv
  <2>2. Regions'
    <3>1. ~region' /\ at' # "calculate" /\ at' # "warm_up"
          /\ region' \in BOOLEAN /\ metric \in Nat \X Nat
      BY <1>2 DEF Outer, Regions, IInv
    <3>2. CASE at' = "inner"
      <4>1. value_i' \in Reported /\ metric' = [metric EXCEPT ![1] = value_i']
        BY <1>2, <3>2 DEF Outer
      <4>2. value_i' \in Nat
        BY <4>1
      <4>3. metric'[1] = value_i' /\ metric' \in Nat \X Nat
        BY <3>1, <4>1, <4>2
      <4>4. QED
        BY <3>1, <3>2, <4>1, <4>3 DEF Regions
    <3>3. CASE at' # "inner"
      BY <1>2, <3>1, <3>3 DEF Outer, loops, Regions
    <3>4. QED
      BY <3>2, <3>3
  <2>3. Registers'
    BY <1>2 DEF Outer, Registers, IInv
  <2>4. QED
    BY <2>1, <2>2, <2>3 DEF IInv
<1>3. CASE Inner
  <2>1. Numbers'
    BY <1>3, NextNumbers DEF Inner, loops, Regions, IInv
  <2>2. Regions'
    <3>1. value_i \in Reported /\ metric[1] = value_i /\ metric \in Nat \X Nat
      BY <1>3 DEF Inner, IInv, Regions
    <3>2. \A n : [metric EXCEPT ![2] = n] = <<value_i, n>>
      BY <3>1
    <3>3. CASE at' = "calculate"
      <4>1. /\ value2_i \in Reported /\ value_i' = value_i /\ value2_i' = value2_i
            /\ metric' = <<value_i, value2_i>> /\ region' /\ region' \in BOOLEAN
            /\ addr' = <<value, value2>> /\ value' = value /\ value2' = value2
        BY <1>3, <3>2, <3>3 DEF Inner, Call, loops
      <4>2. metric' \in Nat \X Nat
        BY <3>1, <4>1
      <4>3. QED
        BY <3>1, <3>3, <4>1, <4>2 DEF Regions
    <3>4. CASE at' # "calculate"
      BY <1>3, <3>1, <3>4 DEF Inner, Call, loops, IInv, Regions
    <3>5. QED
      BY <3>3, <3>4
  <2>3. Registers'
    BY <1>3 DEF Inner, Call, Registers, IInv
  <2>4. QED
    BY <2>1, <2>2, <2>3 DEF IInv
<1>4. CASE Join
  <2>1. Numbers'
    BY <1>4, NextNumbers DEF Join, Regions, IInv
  <2>2. Regions'
    <3>1. CASE region
      <4>1. value_i \in Reported /\ metric[1] = value_i /\ metric \in Nat \X Nat
        BY <1>4, <3>1 DEF Join, IInv, Regions
      <4>2. QED
        BY <1>4, <3>1, <4>1 DEF Join, Regions
    <3>2. CASE ~region
      BY <1>4, <3>2 DEF Join, IInv, Regions
    <3>3. QED
      BY <3>1, <3>2
  <2>3. Registers'
    BY <1>4 DEF Join, Registers, Waiting, IInv
  <2>4. QED
    BY <2>1, <2>2, <2>3 DEF IInv
<1>5. QED
  BY <1>1, <1>2, <1>3, <1>4 DEF main

LEMMA PassType ==
  ASSUME NEW P, NEW S, NEW N, NEW r \in [pc : P, ymm0 : S, ymm8 : S, r10 : N],
         NEW p \in P, NEW n \in N
  PROVE  [r EXCEPT !.ymm8 = r.ymm8, !.r10 = n, !.pc = p]
           \in [pc : P, ymm0 : S, ymm8 : S, r10 : N]
OBVIOUS

LEMMA KernelInv ==
  ASSUME IInv, NEW t \in Threads, Kernel(t)
  PROVE  IInv'
<1>1. Numbers' /\ Regions'
  BY DEF Kernel, Load, XorPass, IInv, Numbers, Regions, Lowest, loops, trace
<1>2. CASE Load(t)
  <2>1. addr[1] \in SUBSET Int /\ addr[2] \in SUBSET Int
    BY <1>2 DEF Load, IInv, Numbers, Lowest, Regions, Word
  <2>2. Registers'
    BY <1>2, <2>1 DEF Load, IInv, Registers
  <2>3. QED
    BY <1>1, <2>2 DEF IInv
<1>3. CASE XorPass(t)
  <2> DEFINE me == thread[t]
             Once(x) == Xor(me.ymm0, x)
  <2>1. Once(Once(Once(Once(me.ymm8)))) = me.ymm8
    BY XorTwice
  <2>2. PICK next \in {"loop", "join"} :
          thread' = [thread EXCEPT ![t] =
            [me EXCEPT !.ymm8 = me.ymm8, !.r10 = me.r10 - Unroll, !.pc = next]]
    BY <1>3, <2>1 DEF XorPass
  <2>3. addr' = addr /\ at' = at /\ me.pc = "loop"
    BY <1>3 DEF XorPass
  <2>4. \A u \in Threads : thread[u].pc # "fork" =>
          thread[u].ymm0 = addr[1] /\ thread[u].ymm8 = addr[2]
    BY DEF IInv, Registers
  <2>5. at = "calculate"
    BY <2>3 DEF IInv, Registers
  <2>6. thread' \in [Threads -> [pc : {"fork", "loop", "join"}, ymm0 : SUBSET Int,
                                ymm8 : SUBSET Int, r10 : Int]]
    <3>1. /\ me \in [pc : {"fork", "loop", "join"}, ymm0 : SUBSET Int,
                     ymm8 : SUBSET Int, r10 : Int]
          /\ me.r10 - Unroll \in Int
      BY DEF IInv, Registers
    <3>2. [me EXCEPT !.ymm8 = me.ymm8, !.r10 = me.r10 - Unroll, !.pc = next]
            \in [pc : {"fork", "loop", "join"}, ymm0 : SUBSET Int,
                 ymm8 : SUBSET Int, r10 : Int]
      BY <3>1, PassType
    <3>3. QED
      BY <2>2, <3>2 DEF IInv, Registers
  <2>7. \A u \in Threads :
          /\ thread'[u].ymm0 = thread[u].ymm0
          /\ thread'[u].ymm8 = thread[u].ymm8
          /\ u # t => thread'[u].pc = thread[u].pc
    BY <2>2 DEF IInv, Registers
  <2>8. Registers'
    <3>1. \A u \in Threads : thread'[u].pc # "fork" =>
            thread'[u].ymm0 = addr'[1] /\ thread'[u].ymm8 = addr'[2]
      <4> SUFFICES ASSUME NEW u \in Threads, thread'[u].pc # "fork"
                   PROVE  thread'[u].ymm0 = addr'[1] /\ thread'[u].ymm8 = addr'[2]
        OBVIOUS
      <4>1. thread[u].pc # "fork"
        BY <2>3, <2>7
      <4>2. thread[u].ymm0 = addr[1] /\ thread[u].ymm8 = addr[2]
        BY <2>4, <4>1
      <4>3. QED
        BY <2>3, <2>7, <4>2
    <3>2. QED
      BY <2>3, <2>5, <2>6, <3>1 DEF Registers
  <2>9. QED
    BY <1>1, <2>8 DEF IInv
<1>4. QED
  BY <1>2, <1>3 DEF Kernel

LEMMA InvMetrics == IInv => MetricsTellOperands
<1> SUFFICES ASSUME IInv, NEW t \in Threads, thread[t].pc \in {"loop", "join"}
             PROVE  IF region
                    THEN /\ Cardinality(thread[t].ymm0) = metric[1]
                         /\ Cardinality(thread[t].ymm8) = metric[2]
                    ELSE regions = <<>> /\ thread[t].ymm0 = Word
  BY DEF MetricsTellOperands
<1>1. at = "calculate" /\ thread[t].ymm0 = addr[1] /\ thread[t].ymm8 = addr[2]
  BY DEF IInv, Registers
<1>2. CASE region
  <2>1. /\ value_i \in 0 .. WordBits /\ value2_i \in 0 .. WordBits
        /\ thread[t].ymm0 = 0 .. value_i - 1 /\ thread[t].ymm8 = 0 .. value2_i - 1
        /\ metric[1] = value_i /\ metric[2] = value2_i
    BY <1>1, <1>2 DEF IInv, Regions, Numbers, Lowest
  <2>2. \A n \in Nat : Cardinality(0 .. n - 1) = n
    BY FS_Interval
  <2>3. QED
    BY <1>2, <2>1, <2>2
<1>3. CASE ~region
  BY <1>1, <1>3 DEF IInv, Regions
<1>4. QED
  BY <1>2, <1>3

LEMMA InvSpec == Spec => []IInv
<1>1. IInv /\ [Next]_vars => IInv'
  <2> SUFFICES ASSUME IInv, [Next]_vars PROVE IInv'
    OBVIOUS
  <2>1. CASE main
    BY <2>1, MainInv
  <2>2. CASE \E t \in Threads : Kernel(t)
    BY <2>2, KernelInv
  <2>3. CASE UNCHANGED vars
    BY <2>3 DEF vars, loops, trace, IInv, Numbers, Lowest, Regions, Registers
  <2>4. QED
    BY <2>1, <2>2, <2>3 DEF Next
<1>2. QED
  BY InitInv, <1>1, PTL DEF Spec

(* For every number of threads and every width of the operands, a region   *)
(* of the trace tells how many bits the operands of every thread have set  *)
(* that computes in it (vxor_test_high.c:63-100).                          *)
THEOREM MetricsAreTrue == Spec => []MetricsTellOperands
BY InvSpec, InvMetrics, PTL

-----------------------------------------------------------------------------

(* The reported numbers are width multiples of ReportEvery.                *)
LastOne == WordBits \div ReportEvery
Width == LastOne + 1

(* a reported numbers are less than v.                                     *)
Behind(v, a) ==
  a \in Nat /\ (a - 1) * ReportEvery < v /\ v <= a * ReportEvery

Combination(n) == <<((n - 1) \div Width) * ReportEvery,
                    ((n - 1) % Width) * ReportEvery>>

LEMMA Multiples ==
  /\ LastOne \in Nat /\ Width \in Nat \ {0} /\ WordBits = LastOne * ReportEvery
  /\ ReportEvery \in Nat \ {0}
  /\ \A a \in 0 .. LastOne : a * ReportEvery \in Reported
  /\ \A n \in Reported : \E a \in 0 .. LastOne : n = a * ReportEvery
<1>1. ReportEvery \in Nat \ {0} /\ WordBits % ReportEvery = 0
  BY BitsAssumption
<1>2. WordBits = ReportEvery * LastOne + (WordBits % ReportEvery) /\ LastOne \in Nat
  BY <1>1 DEF LastOne
<1>3. WordBits = LastOne * ReportEvery
  BY <1>1, <1>2
<1>4. ASSUME NEW a \in 0 .. LastOne PROVE a * ReportEvery \in Reported
  <2>1. a * ReportEvery \in 0 .. LastOne * ReportEvery
    BY <1>1, <1>2
  <2>2. (a * ReportEvery) % ReportEvery = 0
    BY <1>1
  <2>3. QED
    BY <1>3, <2>1, <2>2 DEF Reported
<1>5. ASSUME NEW n \in Reported PROVE \E a \in 0 .. LastOne : n = a * ReportEvery
  <2> DEFINE a == n \div ReportEvery
  <2>1. n \in 0 .. WordBits /\ n % ReportEvery = 0
    BY DEF Reported
  <2>2. n = ReportEvery * a + (n % ReportEvery) /\ a \in Nat
    BY <1>1, <2>1
  <2> HIDE DEF a
  <2>3. n = a * ReportEvery
    BY <1>1, <2>1, <2>2
  <2>4. a <= LastOne
    <3>1. a * ReportEvery <= LastOne * ReportEvery
      BY <1>3, <2>1, <2>3
    <3>2. QED
      BY <1>1, <1>2, <2>2, <3>1
  <2>5. QED
    BY <2>2, <2>3, <2>4
<1>6. Width \in Nat \ {0}
  BY <1>2 DEF Width
<1> HIDE DEF LastOne
<1>7. QED
  BY <1>1, <1>2, <1>3, <1>4, <1>5, <1>6

LEMMA WidthIsCardinality == Cardinality(Reported) = Width
<1> DEFINE f == [a \in 0 .. LastOne |-> a * ReportEvery]
<1>1. \A a, b \in 0 .. LastOne : a * ReportEvery = b * ReportEvery => a = b
  BY Multiples
<1>2. f \in Bijection(0 .. LastOne, Reported)
  BY <1>1, Multiples DEF Bijection, Injection, Surjection, IsInjective
<1>3. IsFiniteSet(0 .. LastOne) /\ Cardinality(0 .. LastOne) = Width
  BY Multiples, FS_Interval DEF Width
<1>4. QED
  BY <1>2, <1>3, FS_Bijection DEF ExistsBijection

LEMMA DivMod ==
  \A a, l \in Nat : \A b \in 0 .. l - 1 :
    (a * l + b) \div l = a /\ (a * l + b) % l = b
OBVIOUS

(* What a step of a loop does to the reported numbers behind it.           *)
LEMMA BehindStep ==
  ASSUME NEW v \in 0 .. WordBits + 1, NEW a, Behind(v, a)
  PROVE  /\ v \notin Reported /\ v <= WordBits => Behind(v + 1, a)
         /\ v \in Reported => v = a * ReportEvery /\ a \in 0 .. LastOne
         /\ v > WordBits => a = Width
<1> DEFINE E == ReportEvery
<1>1. a \in Nat /\ (a - 1) * E < v /\ v <= a * E
  BY DEF Behind
<1>2. E \in Nat \ {0} /\ LastOne \in Nat /\ WordBits = LastOne * E /\ Width = LastOne + 1
  BY Multiples DEF Width
<1> HIDE DEF E
<1>3. ASSUME v \notin Reported, v <= WordBits PROVE Behind(v + 1, a)
  <2>1. v # a * E
    <3> SUFFICES ASSUME v = a * E PROVE FALSE
      OBVIOUS
    <3>1. a <= LastOne
      BY <1>1, <1>2, <1>3
    <3>2. QED
      BY <1>1, <1>2, <1>3, <3>1, Multiples DEF E
  <2>2. (a - 1) * E < v + 1 /\ v + 1 <= a * E
    BY <1>1, <1>2, <2>1
  <2>3. QED
    BY <1>1, <2>2 DEF Behind, E
<1>4. ASSUME v \in Reported PROVE v = a * E /\ a \in 0 .. LastOne
  <2>1. PICK k \in 0 .. LastOne : v = k * E
    BY <1>4, Multiples DEF E
  <2>2. a - 1 < k /\ k <= a
    BY <1>1, <1>2, <2>1
  <2>3. k = a
    BY <1>1, <1>2, <2>2
  <2>4. QED
    BY <2>1, <2>3
<1>5. ASSUME v > WordBits PROVE a = Width
  <2>1. v = LastOne * E + 1
    BY <1>2, <1>5
  <2>2. LastOne * E < a * E
    BY <1>1, <1>2, <2>1
  <2>3. (a - 1) * E <= LastOne * E
    BY <1>1, <1>2, <2>1
  <2>4. LastOne < a /\ a - 1 <= LastOne
    BY <1>1, <1>2, <2>2, <2>3
  <2>5. QED
    BY <1>1, <1>2, <2>4
<1>6. QED
  BY <1>3, <1>4, <1>5 DEF E

LEMMA BehindFirst == Behind(0, 0)
BY Multiples DEF Behind

LEMMA BehindNext == \A a \in Nat : Behind(a * ReportEvery + 1, a + 1)
<1> SUFFICES ASSUME NEW a \in Nat PROVE Behind(a * ReportEvery + 1, a + 1)
  OBVIOUS
<1>1. ReportEvery \in Nat \ {0}
  BY Multiples
<1>2. (a + 1) * ReportEvery = a * ReportEvery + ReportEvery /\ (a + 1) - 1 = a
  BY <1>1
<1>3. a * ReportEvery \in Nat
  BY <1>1
<1>4. QED
  BY <1>1, <1>2, <1>3 DEF Behind

-----------------------------------------------------------------------------

(* The regions so far are the first combinations, in order; how many there *)
(* are is where the loops are.                                             *)
InnerAt(a, b) ==
  /\ a \in 0 .. LastOne /\ value_i = a * ReportEvery /\ Behind(value2_i, b)
  /\ Len(regions) = a * Width + b

OuterAt(a) == Behind(value_i, a) /\ Len(regions) = a * Width

Walk ==
  /\ at \in {"warm_up", "outer", "inner", "calculate", "end"}
  /\ regions \in Seq(Nat \X Nat)
  /\ \A n \in 1 .. Len(regions) : regions[n] = Combination(n)
  /\ at = "warm_up" \/ (at = "calculate" /\ ~region) => value_i = 0
  /\ at = "outer" => \E a \in Nat : OuterAt(a)
  /\ at = "inner" \/ (at = "calculate" /\ region) => \E a, b \in Nat : InnerAt(a, b)
  /\ at = "end" => Len(regions) = Width * Width

LEMMA WalkInit == Init => Walk
BY DEF Init, Walk

(* The region that ends is the next combination.                           *)
LEMMA RegionEnds ==
  ASSUME IInv, Walk, Join, region
  PROVE  Walk'
<1>1. /\ at = "calculate" /\ at' = "inner" /\ ~region' /\ value_i' = value_i
      /\ value2_i' = value2_i + 1 /\ regions' = Append(regions, metric)
  BY DEF Join, IInv, Regions
<1>2. /\ value_i \in Reported /\ value2_i \in Reported
      /\ metric = <<value_i, value2_i>> /\ metric \in Nat \X Nat
      /\ value2_i \in 0 .. WordBits + 1
  BY <1>1 DEF IInv, Regions, Numbers
<1>3. PICK a, b \in Nat : InnerAt(a, b)
  BY <1>1 DEF Walk
<1>4. /\ value_i = a * ReportEvery /\ a \in 0 .. LastOne
      /\ Len(regions) = a * Width + b
      /\ value2_i = b * ReportEvery /\ b \in 0 .. LastOne
  BY <1>2, <1>3, BehindStep DEF InnerAt
<1>5. /\ regions' \in Seq(Nat \X Nat) /\ Len(regions') = Len(regions) + 1
      /\ \A n \in 1 .. Len(regions) : regions'[n] = regions[n]
      /\ regions'[Len(regions) + 1] = metric /\ Len(regions) \in Nat
  BY <1>1, <1>2, AppendProperties DEF Walk
<1>6. metric = Combination(Len(regions) + 1)
  <2>1. (Len(regions) + 1) - 1 = a * Width + b
    BY <1>4, <1>5
  <2>2. b \in 0 .. Width - 1 /\ Width \in Nat
    BY <1>4, Multiples DEF Width
  <2>3. \A c \in 0 .. Width - 1 : /\ (a * Width + c) \div Width = a
                                  /\ (a * Width + c) % Width = c
    BY <2>2, DivMod
  <2>4. (a * Width + b) \div Width = a /\ (a * Width + b) % Width = b
    BY <2>2, <2>3
  <2>5. QED
    BY <1>2, <1>4, <2>1, <2>4 DEF Combination
<1>7. \A n \in 1 .. Len(regions') : regions'[n] = Combination(n)
  <2>1. \A n \in 1 .. Len(regions') : n \in 1 .. Len(regions) \/ n = Len(regions) + 1
    BY <1>5
  <2>2. QED
    BY <1>5, <1>6, <2>1 DEF Walk
<1>8. InnerAt(a, b + 1)'
  <2>1. Behind(value2_i', b + 1)
    BY <1>1, <1>4, BehindNext
  <2>2. a * Width \in Nat
    BY Multiples
  <2>3. Len(regions') = a * Width + (b + 1)
    BY <1>4, <1>5, <2>2
  <2>4. QED
    BY <1>1, <1>4, <2>1, <2>3 DEF InnerAt, Behind
<1>9. b + 1 \in Nat
  OBVIOUS
<1>10. QED
  BY <1>1, <1>5, <1>7, <1>8, <1>9 DEF Walk

LEMMA WalkNext == IInv /\ Walk /\ [Next]_vars => Walk'
<1> SUFFICES ASSUME IInv, Walk, [Next]_vars PROVE Walk'
  OBVIOUS
<1>n. value_i \in 0 .. WordBits + 1 /\ value2_i \in 0 .. WordBits + 1
  BY DEF IInv, Numbers
<1>1. CASE Warm
  BY <1>1 DEF Warm, Call, loops, trace, Walk, IInv, Regions
<1>2. CASE Outer
  <2>1. /\ at = "outer" /\ UNCHANGED <<regions, region>>
        /\ at' \in {"end", "outer", "inner"}
    BY <1>2 DEF Outer
  <2>2. PICK a \in Nat : OuterAt(a)
    BY <2>1 DEF Walk
  <2>3. Behind(value_i, a) /\ Len(regions) = a * Width
    BY <2>2 DEF OuterAt
  <2>4. CASE value_i > WordBits
    <3>1. a = Width
      BY <1>n, <2>3, <2>4, BehindStep
    <3>2. at' = "end"
      BY <1>2, <1>n, <2>4 DEF Outer
    <3>3. QED
      BY <2>1, <2>3, <3>1, <3>2 DEF Walk
  <2>5. CASE value_i <= WordBits /\ value_i \notin Reported
    <3>1. at' = "outer" /\ value_i' = value_i + 1
      BY <1>2, <1>n, <2>1, <2>5 DEF Outer
    <3>2. Behind(value_i + 1, a)
      BY <1>n, <2>3, <2>5, BehindStep
    <3>3. OuterAt(a)'
      BY <2>1, <2>3, <3>1, <3>2 DEF OuterAt, Behind
    <3>4. QED
      BY <2>1, <3>1, <3>3 DEF Walk
  <2>6. CASE value_i \in Reported
    <3>1. at' = "inner" /\ value_i' = value_i /\ value2_i' = 0
      BY <1>2, <1>n, <2>6 DEF Outer
    <3>2. value_i = a * ReportEvery /\ a \in 0 .. LastOne
      BY <1>n, <2>3, <2>6, BehindStep
    <3>3. a * Width + 0 = a * Width
      BY Multiples
    <3>4. InnerAt(a, 0)'
      BY <2>1, <2>3, <3>1, <3>2, <3>3, BehindFirst DEF InnerAt, Behind
    <3>5. QED
      BY <2>1, <3>1, <3>4 DEF Walk
  <2>7. QED
    BY <1>n, <2>4, <2>5, <2>6
<1>3. CASE Inner
  <2>1. at = "inner" /\ regions' = regions /\ at' \in {"outer", "inner", "calculate"}
    BY <1>3 DEF Inner, Call
  <2>2. PICK a, b \in Nat : InnerAt(a, b)
    BY <2>1 DEF Walk
  <2>3. /\ a \in 0 .. LastOne /\ value_i = a * ReportEvery /\ Behind(value2_i, b)
        /\ Len(regions) = a * Width + b
    BY <2>2 DEF InnerAt
  <2>4. CASE value2_i > WordBits
    <3>1. at' = "outer" /\ value_i' = value_i + 1
      BY <1>3, <1>n, <2>4 DEF Inner
    <3>2. b = Width
      BY <1>n, <2>3, <2>4, BehindStep
    <3>3. Len(regions) = (a + 1) * Width
      BY <2>3, <3>2, Multiples
    <3>4. Behind(value_i', a + 1)
      BY <2>3, <3>1, BehindNext
    <3>5. OuterAt(a + 1)' /\ a + 1 \in Nat
      BY <2>1, <3>1, <3>3, <3>4 DEF OuterAt, Behind
    <3>6. QED
      BY <2>1, <3>1, <3>5 DEF Walk
  <2>5. CASE value2_i <= WordBits /\ value2_i \notin Reported
    <3>1. at' = "inner" /\ value_i' = value_i /\ value2_i' = value2_i + 1
      BY <1>3, <1>n, <2>1, <2>5 DEF Inner
    <3>2. Behind(value2_i + 1, b)
      BY <1>n, <2>3, <2>5, BehindStep
    <3>3. InnerAt(a, b)'
      BY <2>1, <2>3, <3>1, <3>2 DEF InnerAt, Behind
    <3>4. QED
      BY <2>1, <3>1, <3>3 DEF Walk
  <2>6. CASE value2_i \in Reported
    <3>1. at' = "calculate" /\ region' /\ UNCHANGED <<value_i, value2_i>>
      BY <1>3, <1>n, <2>6 DEF Inner, Call, loops
    <3>2. InnerAt(a, b)'
      BY <2>1, <2>3, <3>1 DEF InnerAt, Behind
    <3>3. QED
      BY <2>1, <3>1, <3>2 DEF Walk
  <2>7. QED
    BY <1>n, <2>4, <2>5, <2>6
<1>4. CASE Join
  <2>1. CASE region
    BY <1>4, <2>1, RegionEnds
  <2>2. CASE ~region
    <3>1. /\ at = "calculate" /\ at' = "outer"
          /\ UNCHANGED <<value_i, region, regions>>
      BY <1>4, <2>2 DEF Join
    <3>2. regions = <<>> /\ value_i = 0
      BY <2>2, <3>1 DEF IInv, Regions, Walk
    <3>3. 0 * Width = 0
      BY Multiples
    <3>4. OuterAt(0)'
      BY <3>1, <3>2, <3>3, BehindFirst DEF OuterAt, Behind
    <3>5. QED
      BY <3>1, <3>2, <3>4 DEF Walk
  <2>3. QED
    BY <2>1, <2>2
<1>5. CASE (\E t \in Threads : Kernel(t)) \/ UNCHANGED vars
  <2>1. UNCHANGED <<at, value_i, value2_i, region, regions>>
    BY <1>5 DEF Kernel, Load, XorPass, loops, trace, vars
  <2>2. QED
    BY <2>1 DEF Walk, InnerAt, OuterAt, Behind
<1>6. QED
  BY <1>1, <1>2, <1>3, <1>4, <1>5 DEF Next, main

(* For every width of the operands that is a multiple of report_every, the *)
(* regions of the trace are the combinations of the reported numbers, each *)
(* once and in order, and at the end all of them (vxor_test_high.c:63-100).*)
THEOREM EveryCombinationIsTraced == Spec => []EveryCombination
<1>1. Walk => EveryCombination
  <2> SUFFICES ASSUME Walk
               PROVE  /\ \A n \in DOMAIN regions : regions[n] = Combination(n)
                      /\ Done => Len(regions) = Width * Width
    BY WidthIsCardinality DEF EveryCombination, Combination
  <2>1. DOMAIN regions = 1 .. Len(regions)
    BY DEF Walk
  <2>2. QED
    BY <2>1 DEF Walk, Done
<1>2. QED
  BY InvSpec, WalkInit, WalkNext, <1>1, PTL DEF Spec

-----------------------------------------------------------------------------

(* The passes a thread has left are a multiple of those of a turn.         *)
Turns(r) == \E k \in Nat : r = Unroll * k

OfThread == [pc : {"fork", "loop", "join"}, ymm0 : SUBSET Word,
             ymm8 : SUBSET Word, r10 : 0 .. Passes * WarmUp]

Places == {"warm_up", "outer", "inner", "calculate", "end"}

Typed ==
  /\ at \in Places /\ value \subseteq Word /\ value2 \subseteq Word
  /\ addr \in (SUBSET Word) \X (SUBSET Word)
  /\ metric \in Reported \X Reported
  /\ regions \in Seq(Reported \X Reported)
  /\ thread \in [Threads -> OfThread]
  /\ \A t \in Threads : thread[t].pc = "loop" =>
       Turns(thread[t].r10) /\ thread[t].r10 > 0

LEMMA BitsAreBits ==
  ASSUME NEW x \in SUBSET Word, NEW n \in Nat, NEW y \in WithBit(x, n)
  PROVE  y \subseteq Word
BY DEF WithBit, Word

LEMMA InitTyped == Init => Typed
<1> SUFFICES ASSUME Init PROVE Typed
  OBVIOUS
<1>1. 0 \in Reported
  BY BitsAssumption DEF Reported
<1>2. Passes * WarmUp \in Nat
  OBVIOUS
<1>3. Waiting \in OfThread /\ Waiting.pc = "fork"
  BY <1>2 DEF Waiting, OfThread
<1>4. <<>> \in Seq(Reported \X Reported)
  OBVIOUS
<1>5. metric \in Reported \X Reported
  BY <1>1 DEF Init
<1>6. thread \in [Threads -> OfThread] /\ \A t \in Threads : thread[t].pc # "loop"
  BY <1>3 DEF Init
<1>7. QED
  BY <1>4, <1>5, <1>6 DEF Init, Typed, Places

LEMMA MainTyped ==
  ASSUME IInv, Typed, main
  PROVE  Typed'
<1>1. value_i \in Nat /\ value2_i \in Nat
  BY DEF IInv, Numbers
<1>2. CASE Warm
  <2>1. /\ at' = "calculate" /\ addr' = <<Word, Word>>
        /\ UNCHANGED <<value, value2, metric, regions, thread>>
    BY <1>2 DEF Warm, Call, loops, trace
  <2>2. QED
    BY <2>1 DEF Typed, Places
<1>3. CASE Outer
  <2>1. /\ at' \in Places /\ UNCHANGED <<addr, regions, thread>>
        /\ value' = value \/ value' \in WithBit(value, value_i)
        /\ value2' = value2 \/ value2' = {}
        /\ \/ metric' = metric
           \/ value_i \in Reported /\ metric' = [metric EXCEPT ![1] = value_i]
    BY <1>3 DEF Outer, loops, Typed, Places
  <2>2. value' \subseteq Word /\ value2' \subseteq Word
    BY <1>1, <2>1, BitsAreBits DEF Typed
  <2>3. metric' \in Reported \X Reported
    BY <2>1 DEF Typed
  <2>4. QED
    BY <2>1, <2>2, <2>3 DEF Typed
<1>4. CASE Inner
  <2>1. /\ at' \in Places /\ UNCHANGED <<regions, thread>>
        /\ value' = value \/ value' \in WithBit(value, value_i)
        /\ value2' = value2 \/ value2' \in WithBit(value2, value2_i)
        /\ addr' = addr \/ addr' = <<value, value2>>
        /\ \/ metric' = metric
           \/ value2_i \in Reported /\ metric' = [metric EXCEPT ![2] = value2_i]
    BY <1>4 DEF Inner, Call, loops, Typed, Places
  <2>2. value' \subseteq Word /\ value2' \subseteq Word
    BY <1>1, <2>1, BitsAreBits DEF Typed
  <2>3. metric' \in Reported \X Reported
    BY <2>1 DEF Typed
  <2>4. addr' \in (SUBSET Word) \X (SUBSET Word)
    BY <2>1 DEF Typed
  <2>5. QED
    BY <2>1, <2>2, <2>3, <2>4 DEF Typed
<1>5. CASE Join
  <2>1. /\ at' \in Places /\ UNCHANGED <<value, addr, metric>>
        /\ value2' = value2 \/ value2' \in WithBit(value2, value2_i)
        /\ regions' = regions \/ regions' = Append(regions, metric)
        /\ thread' = [t \in Threads |-> Waiting]
    BY <1>5 DEF Join, Places
  <2>2. value2' \subseteq Word
    BY <1>1, <2>1, BitsAreBits DEF Typed
  <2>3. regions' \in Seq(Reported \X Reported)
    BY <2>1, AppendProperties DEF Typed
  <2>4. /\ thread' \in [Threads -> OfThread]
        /\ \A t \in Threads : thread'[t].pc # "loop"
    <3>1. Passes * WarmUp \in Nat
      OBVIOUS
    <3>2. Waiting \in OfThread /\ Waiting.pc = "fork"
      BY <3>1 DEF Waiting, OfThread
    <3>3. QED
      BY <2>1, <3>2
  <2>5. QED
    BY <2>1, <2>2, <2>3, <2>4 DEF Typed
<1>6. QED
  BY <1>2, <1>3, <1>4, <1>5 DEF main

(* What the threads load into r10 is a positive multiple of the unrolled   *)
(* passes, whether it is the warm-up or not.                               *)
LEMMA Loaded ==
  /\ Turns(Passes) /\ Passes \in 1 .. Passes * WarmUp
  /\ Turns(Passes * WarmUp) /\ Passes * WarmUp \in 1 .. Passes * WarmUp
<1>1. /\ Unroll \in Nat \ {0} /\ Passes \in Nat \ {0} /\ WarmUp \in Nat \ {0}
      /\ Passes % Unroll = 0
  BY PassesAssumption
<1> DEFINE k == Passes \div Unroll
<1>2. k \in Nat /\ Passes = Unroll * k
  <2>1. Passes = Unroll * k + (Passes % Unroll) /\ k \in Nat
    BY <1>1
  <2> HIDE DEF k
  <2>2. Unroll * k \in Nat
    BY <1>1, <2>1
  <2>3. QED
    BY <1>1, <2>1, <2>2
<1> HIDE DEF k
<1>3. k * WarmUp \in Nat /\ Passes * WarmUp = Unroll * (k * WarmUp)
  <2>1. \A a, b, c \in Nat : b * c \in Nat /\ (a * b) * c = a * (b * c)
    OBVIOUS
  <2>2. QED
    BY <1>1, <1>2, <2>1
<1>4. Passes * WarmUp \in Nat /\ Passes <= Passes * WarmUp
  <2>1. \A a, b \in Nat \ {0} : a * b \in Nat /\ a <= a * b
    <3> SUFFICES ASSUME NEW a \in Nat \ {0}, NEW b \in Nat \ {0}
                 PROVE  a * b \in Nat /\ a <= a * b
      OBVIOUS
    <3>1. b - 1 \in Nat /\ b = 1 + (b - 1)
      OBVIOUS
    <3>2. a * (b - 1) \in Nat
      BY <3>1
    <3>3. a * b = a + a * (b - 1)
      BY <3>1
    <3>4. QED
      BY <3>2, <3>3
  <2>2. QED
    BY <1>1, <2>1
<1>5. QED
  BY <1>1, <1>2, <1>3, <1>4 DEF Turns

LEMMA KernelTyped ==
  ASSUME Typed, NEW t \in Threads, Kernel(t)
  PROVE  Typed'
<1>1. UNCHANGED <<at, value, value2, addr, metric, regions>>
  BY DEF Kernel, Load, XorPass, loops, trace
<1>2. ASSUME NEW r \in OfThread, thread' = [thread EXCEPT ![t] = r],
             r.pc = "loop" => Turns(r.r10) /\ r.r10 > 0
      PROVE  Typed'
  <2>1. /\ thread' \in [Threads -> OfThread] /\ thread'[t] = r
        /\ \A s \in Threads : s # t => thread'[s] = thread[s]
    BY <1>2 DEF Typed
  <2>2. \A s \in Threads : thread'[s].pc = "loop" =>
          Turns(thread'[s].r10) /\ thread'[s].r10 > 0
    BY <1>2, <2>1 DEF Typed
  <2>3. QED
    BY <1>1, <2>1, <2>2 DEF Typed
<1>3. CASE Load(t)
  <2> DEFINE n == IF region THEN Passes ELSE Passes * WarmUp
             r == [pc |-> "loop", ymm0 |-> addr[1], ymm8 |-> addr[2], r10 |-> n]
  <2>1. n = Passes \/ n = Passes * WarmUp
    BY Zenon
  <2> HIDE DEF n
  <2>2. Turns(n) /\ n \in 1 .. Passes * WarmUp
    BY <2>1, Loaded, Zenon
  <2>3. addr[1] \subseteq Word /\ addr[2] \subseteq Word
    BY DEF Typed
  <2>4. Passes * WarmUp \in Nat
    OBVIOUS
  <2>5. n \in 0 .. Passes * WarmUp /\ n > 0
    BY <2>2, <2>4
  <2>6. r \in OfThread /\ r.r10 = n
    BY <2>3, <2>5 DEF OfThread
  <2>7. thread' = [thread EXCEPT ![t] = r]
    BY <1>3 DEF Load, n
  <2> HIDE DEF r
  <2>8. QED
    BY <1>2, <2>2, <2>5, <2>6, <2>7
<1>4. CASE XorPass(t)
  <2> DEFINE me == thread[t]
             Once(x) == Xor(me.ymm0, x)
             n == me.r10 - Unroll
             p == IF n = 0 THEN "join" ELSE "loop"
             r == [me EXCEPT !.ymm8 = me.ymm8, !.r10 = n, !.pc = p]
  <2>1. Once(Once(Once(Once(me.ymm8)))) = me.ymm8
    BY XorTwice
  <2>2. thread' = [thread EXCEPT ![t] = r] /\ me.pc = "loop"
    BY <1>4, <2>1 DEF XorPass
  <2>3. me \in OfThread /\ Turns(me.r10) /\ me.r10 > 0
    BY <2>2 DEF Typed
  <2>4. PICK k \in Nat : me.r10 = Unroll * k
    BY <2>3 DEF Turns
  <2>5. k >= 1
    BY <2>3, <2>4
  <2>6. k - 1 \in Nat /\ Unroll * (k - 1) \in Nat /\ Unroll * k = Unroll * (k - 1) + Unroll
    BY <2>5
  <2>7. n = Unroll * (k - 1) /\ n \in Nat /\ Turns(n)
    <3>1. n = Unroll * (k - 1) /\ n \in Nat
      BY <2>4, <2>6
    <3>2. QED
      BY <3>1, <2>6 DEF Turns
  <2>8. n \in 0 .. Passes * WarmUp
    <3>1. me.r10 \in 0 .. Passes * WarmUp /\ Passes * WarmUp \in Nat
      BY <2>3 DEF OfThread
    <3>2. QED
      BY <3>1, <2>7
  <2>9. p \in {"fork", "loop", "join"} /\ (p = "loop" => n > 0)
    BY <2>7
  <2>10. /\ r \in OfThread /\ r.pc = p /\ r.r10 = n
    <3> HIDE DEF n, p, me
    <3>1. me \in [pc : {"fork", "loop", "join"}, ymm0 : SUBSET Word,
                  ymm8 : SUBSET Word, r10 : 0 .. Passes * WarmUp]
      BY <2>3 DEF OfThread
    <3>2. r \in OfThread
      BY <3>1, <2>8, <2>9, PassType DEF OfThread
    <3>3. QED
      BY <3>1, <3>2
  <2> HIDE DEF r, n, p, me
  <2>11. QED
    BY <1>2, <2>2, <2>7, <2>9, <2>10
<1>5. QED
  BY <1>3, <1>4 DEF Kernel

LEMMA TypedSpec == Spec => []Typed
<1>1. IInv /\ Typed /\ [Next]_vars => Typed'
  <2> SUFFICES ASSUME IInv, Typed, [Next]_vars PROVE Typed'
    OBVIOUS
  <2>1. CASE main
    BY <2>1, MainTyped
  <2>2. CASE \E t \in Threads : Kernel(t)
    BY <2>2, KernelTyped
  <2>3. CASE UNCHANGED vars
    BY <2>3 DEF vars, loops, trace, Typed, Turns
  <2>4. QED
    BY <2>1, <2>2, <2>3 DEF Next
<1>2. QED
  BY InitTyped, InvSpec, <1>1, PTL DEF Spec

(* What vxor_test_high does, whichever of the two is started.              *)
LEMMA VxorBehaves == MCSpec => Spec
<1>1. MCInit => Init
  BY DEF MCInit
<1>2. [MCNext]_all => [Next]_vars
  BY DEF MCNext, Vxor, VxorKernel, Resolution, all, Next
<1>3. QED
  BY <1>1, <1>2, PTL DEF MCSpec, Spec

(* Of both programs, for every number of threads, width of the operands,   *)
(* length of the kernel, number of stamps and update period, the variables *)
(* go with where they are (vxor_test_high.c:31-49, test.c:36-44).          *)
THEOREM ProgramsTypeCorrect == MCSpec => []ProgramsTypeOK
<1>1. IInv /\ Typed => TypeOK
  BY Zenon DEF IInv, Numbers, Regions, Typed, Places, OfThread, TypeOK
<1>2. QED
  BY VxorBehaves, InvSpec, TypedSpec, ResolutionBehaves, ResolutionInvariant,
     InvResolutionType, <1>1, PTL DEF ProgramsTypeOK

=============================================================================
