----------------------------- MODULE MCAlgorithms -----------------------------
(* The algorithms of two of the programs in one run, of which Init picks   *)
(* one: the statistics of ftalat, on samples of up to MaxLen loop times,   *)
(* stored one after the other as measureLoop() does; the operations of the *)
(* random number generators; the operands data_rapl_stats draws.           *)
EXTENDS Statistics, Pcg

CONSTANTS LoopTimes, MaxLen

VARIABLE algorithm

Engine(stream, output, bits) ==
  [stream |-> stream, output |-> output, bits |-> bits, xtypebits |-> 8]

Once_insecure == {Engine(s, "rxs_m_xs", 8) : s \in {"setseq", "oneseq", "unique"}}
Fast == Engine("mcg", "xsh_rs", 16)
Pcg32 == Engine("setseq", "xsh_rr", 16)     \* two sizes smaller

MCKinds == Once_insecure \union {Fast, Pcg32}

Init ==
  /\ algorithm \in {"statistics", "engine", "operands"}
  /\ bench = <<>>
  /\ PcgInit
  /\ algorithm = "statistics" => kind = Fast
  /\ algorithm = "engine" => kind # Pcg32
  /\ algorithm = "operands" => kind = Pcg32 /\ rng.inc = default_increment(kind)

measureLoop ==
  /\ algorithm = "statistics"
  /\ Len(bench) < MaxLen
  /\ \E t \in LoopTimes : bench' = Append(bench, t)
  /\ UNCHANGED <<algorithm, pcgVars>>

Operate == algorithm = "engine" /\ Operation /\ UNCHANGED <<algorithm, bench>>

main == algorithm = "operands" /\ DrawOperand /\ UNCHANGED <<algorithm, bench>>

Next == measureLoop \/ Operate \/ main

Spec == Init /\ [][Next]_<<algorithm, bench, pcgVars>>

=============================================================================
