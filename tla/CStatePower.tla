----------------------------- MODULE CStatePower -----------------------------
(***************************************************************************)
(* cstate_power.py and c0_loops.py, two scripts with the same runner.  For *)
(* every configuration the first one sets frequency and idle states of the *)
(* CPUs and lets the machine idle, with a pause loop on the CPUs in POLL;  *)
(* the second one sets the frequency only and executes one of four loops on*)
(* all CPUs, or none.  Either notes when that was.  A power meter takes its*)
(* readings all the time and independently; only after the last            *)
(* configuration the script asks its database for the readings of each     *)
(* experiment and writes them with the configuration as label.             *)
(*                                                                         *)
(* The time of an experiment is divided into its first tenth, its body and *)
(* its last tenth.  The loop is started in the first tenth and killed in   *)
(* the last one.  A reading keeps what the machine really did.             *)
(***************************************************************************)
EXTENDS Integers, Sequences, SequencesExt

CONSTANTS
  NbCpus,          \* online CPUs
  test_states,     \* the idle states, the shallowest first
  frequencies,
  Repetitions,     \* of c0_loops.py
  Initial,         \* idle states enabled before
  MaxReadings      \* bound: readings of the meter

Cpus == 0 .. NbCpus - 1
States == ToSet(test_states)

ASSUME CpusAssumption ==
  /\ NbCpus \in Nat \ {0} /\ Repetitions \in Nat \ {0}
  /\ MaxReadings \in Nat
ASSUME StatesAssumption ==
  /\ IsInjective(test_states) /\ Len(test_states) > 0 /\ Initial \subseteq States
  /\ frequencies \in Seq(Nat \ {0}) /\ Len(frequencies) > 0

VARIABLES
  script,        \* which of the two scripts this is
  pc,            \* where the script is
  n,             \* the configuration it is at
  todo,          \* the idle states it has not yet enabled for their CPUs
  enabled,       \* the idle states each CPU may use
  frequency,     \* of the CPUs, 0 before it is set
  running,       \* the loops executed: pairs of a CPU and an instruction
  readings,      \* what the meter has read
  experiments,   \* the configurations that were measured
  samples,       \* _samples: the rows to write
  csv            \* the rows written

vars == <<script, pc, n, todo, enabled, frequency, running, readings, experiments,
          samples, csv>>

machine == <<enabled, frequency, running>>
results == <<readings, experiments, samples, csv>>

Goto(from, to) == pc = from /\ pc' = to /\ UNCHANGED script

-----------------------------------------------------------------------------

(* The first count CPUs in the shallow state, the others in the base state.*)
Configuration(freq, base, shallow, count, strategy) ==
  [states |-> [cpu \in Cpus |-> IF cpu < count THEN shallow ELSE base],
   base_state |-> base, shallow_state |-> shallow, shallow_count |-> count,
   frequency |-> freq, strategy |-> strategy]

OfBase(freq, b) ==
  <<Configuration(freq, test_states[b], test_states[b], 0, "all")>> \o
  FlattenSeq([s \in 1 .. b - 1 |-> [count \in 1 .. NbCpus |->
    Configuration(freq, test_states[b], test_states[s], count, "linear")]])

cstate_configurations ==
  FlattenSeq([f \in DOMAIN frequencies |->
    FlattenSeq([b \in DOMAIN test_states |-> OfBase(frequencies[f], b)])])

(* The other script: each of four loops, and none, which it calls POLL; all*)
(* of that three times.                                                    *)
Implementations == <<"repnop", "pause", "sqrtsd", "fsqrt", "POLL">>

c0_configurations ==
  FlattenSeq([repetition \in 1 .. Repetitions |->
    FlattenSeq([f \in DOMAIN frequencies |->
      [x \in DOMAIN Implementations |->
        [implementation |-> Implementations[x], frequency |-> frequencies[f]]]])])

configurations ==
  IF script = "c0_loops" THEN c0_configurations ELSE cstate_configurations

states == configurations[n].states

InState(state) == {cpu \in Cpus : states[cpu] = state}

(* What run_experiment() executes, one thread on each of some CPUs: in the *)
(* other script the loop of the configuration, where there is one.         *)
c0_load ==
  IF configurations[n].implementation = "POLL" THEN {}
  ELSE Cpus \X {configurations[n].implementation}

Load == IF script = "c0_loops" THEN c0_load ELSE InState("POLL") \X {"pause"}

-----------------------------------------------------------------------------

Init ==
  /\ script \in {"cstate_power", "c0_loops"}
  /\ pc = "set_frequency"
  /\ n = 1
  /\ todo = {}
  /\ enabled = [cpu \in Cpus |-> Initial]
  /\ frequency = 0
  /\ running = {}
  /\ readings = <<>> /\ experiments = <<>> /\ samples = <<>> /\ csv = <<>>

(* apply_configuration(): the frequency, then in one of the scripts state  *)
(* by state the CPUs that shall use only that one.                         *)
SetFrequency ==
  /\ Goto("set_frequency", "set_states")
  /\ frequency' = configurations[n].frequency
  /\ todo' = IF script = "c0_loops" THEN {} ELSE {states[cpu] : cpu \in Cpus}
  /\ UNCHANGED <<n, enabled, running, results>>

EnableDisable ==
  /\ pc = "set_states"
  /\ \E state \in todo :
       /\ enabled' = [cpu \in Cpus |->
            IF cpu \in InState(state) THEN {state} ELSE enabled[cpu]]
       /\ todo' = todo \ {state}
  /\ UNCHANGED <<script, pc, n, frequency, running, results>>

(* start = now()                                                           *)
Begin ==
  /\ pc = "set_states" /\ todo = {}
  /\ pc' = "first_tenth"
  /\ UNCHANGED <<script, n, todo, machine, results>>

CheckCall ==
  /\ pc = "first_tenth" /\ running = {}
  /\ running' = Load /\ running' # {}
  /\ UNCHANGED <<script, pc, n, todo, enabled, frequency, results>>

Body ==
  /\ running = Load
  /\ Goto("first_tenth", "body")
  /\ UNCHANGED <<n, todo, machine, results>>

LastTenth ==
  /\ Goto("body", "last_tenth")
  /\ UNCHANGED <<n, todo, machine, results>>

(* Mutant of TimeoutExpired: check_call() has no timeout.                  *)
NoTimeout ==
  /\ pc = "last_tenth" /\ running # {}
  /\ UNCHANGED vars

TimeoutExpired ==
  /\ pc = "last_tenth" /\ running # {}
  /\ running' = {}
  /\ UNCHANGED <<script, pc, n, todo, enabled, frequency, results>>

(* Mutant of End: one configuration too many.                              *)
EndOneMore ==
  /\ pc = "last_tenth" /\ running = {}
  /\ experiments' = Append(experiments, n)
  /\ IF n <= Len(configurations)
     THEN pc' = "set_frequency" /\ n' = n + 1
     ELSE pc' = "collect" /\ n' = 1
  /\ UNCHANGED <<script, todo, machine, readings, samples, csv>>

(* end = now(); the next configuration, or the collection.                 *)
End ==
  /\ pc = "last_tenth" /\ running = {}
  /\ experiments' = Append(experiments, n)
  /\ IF n < Len(configurations)
     THEN pc' = "set_frequency" /\ n' = n + 1
     ELSE pc' = "collect" /\ n' = 1
  /\ UNCHANGED <<script, todo, machine, readings, samples, csv>>

(* The rows of the readings in some parts of an experiment.                *)
Labelled(e, parts) ==
  FlattenSeq([k \in DOMAIN readings |->
    IF readings[k].of = e /\ readings[k].in \in parts
    THEN <<[label |-> configurations[e], power |-> <<readings[k]>>]>>
    ELSE <<>>])

NotANumber(e) == <<[label |-> configurations[e], power |-> <<>>]>>

(* Mutants of RowsOf: the tenths are not cut off; no row without readings. *)
RowsOfUntrimmed(e) ==
  LET inside == Labelled(e, {"first_tenth", "body", "last_tenth"}) IN
  IF inside = <<>> THEN NotANumber(e) ELSE inside

RowsOfPresent(e) == Labelled(e, {"body"})

(* An experiment's readings between the two tenths, a row for each, or one *)
(* row whose power is not a number.                                        *)
RowsOf(e) ==
  LET inside == Labelled(e, {"body"}) IN
  IF inside = <<>> THEN NotANumber(e) ELSE inside

CollectPower ==
  /\ pc = "collect"
  /\ samples' = samples \o RowsOf(experiments[n])
  /\ IF n < Len(experiments)
     THEN n' = n + 1 /\ UNCHANGED pc
     ELSE n' = n /\ pc' = "report"
  /\ UNCHANGED <<script, todo, machine, readings, experiments, csv>>

(* report() writes row by row.                                             *)
WriteRow ==
  /\ pc = "report" /\ Len(csv) < Len(samples)
  /\ csv' = Append(csv, samples[Len(csv) + 1])
  /\ UNCHANGED <<script, pc, n, todo, machine, readings, experiments, samples>>

(* main() returns, which closes the file.                                  *)
Close ==
  /\ Len(csv) = Len(samples)
  /\ Goto("report", "done")
  /\ UNCHANGED <<n, todo, machine, results>>

(* An exception, anywhere: the tools, the program, the database or the file*)
(* fail, or the user interrupts.  Nothing catches it, but check_call()     *)
(* kills its program, and the file is closed.  Rows that were still        *)
(* buffered may then be lost; one that is cut off does not count.          *)
Raise ==
  /\ pc \notin {"done", "raised"}
  /\ pc' = "raised"
  /\ running' = {}
  /\ \E rows \in 0 .. Len(csv) : csv' = SubSeq(csv, 1, rows)
  /\ UNCHANGED <<script, n, todo, enabled, frequency, readings, experiments, samples>>

(* The meter.                                                              *)
Reading ==
  /\ pc \notin {"collect", "report", "done", "raised"}
  /\ Len(readings) < MaxReadings
  /\ readings' = Append(readings,
       [of |-> n, in |-> pc, enabled |-> enabled, frequency |-> frequency,
        running |-> running])
  /\ UNCHANGED <<script, pc, n, todo, machine, experiments, samples, csv>>

-----------------------------------------------------------------------------

Script ==
  \/ SetFrequency \/ EnableDisable \/ Begin \/ CheckCall \/ Body \/ LastTenth
  \/ TimeoutExpired \/ End \/ CollectPower \/ WriteRow \/ Close

Ended == pc \in {"done", "raised"}

Next == Script \/ Raise \/ Reading \/ (Ended /\ UNCHANGED vars)

Spec == Init /\ [][Next]_vars

(* The script runs: every step of it ends, by a timeout if need be.        *)
FairSpec == Spec /\ WF_vars(Script)

-----------------------------------------------------------------------------

Rows == [label : ToSet(configurations),
         power : {<<>>} \union {<<r>> : r \in ToSet(readings)}]

(* The types of the state of the script, of the machine and of the meter.  *)
TypeOK ==
  /\ script \in {"cstate_power", "c0_loops"}
  /\ pc \in {"set_frequency", "set_states", "first_tenth", "body",
             "last_tenth", "collect", "report", "done", "raised"}
  /\ n \in DOMAIN configurations
  /\ todo \subseteq States
  /\ enabled \in [Cpus -> SUBSET States]
  /\ frequency \in ToSet(frequencies) \union {0}
  /\ running \subseteq Cpus \X ToSet(Implementations)
  /\ Len(readings) <= MaxReadings
  /\ experiments \in Seq(DOMAIN configurations)
  /\ samples \in Seq(Rows) /\ csv \in Seq(Rows)

(* The label of a row tells what the machine did when its power was read,  *)
(* although the rows are put together long after: the frequency was that of*)
(* the label, and the loop of the label ran on all CPUs and no other one   *)
(* anywhere; or each CPU could only use the state of the label,            *)
(* shallow_count of them the shallow one, and the pause loop ran on the    *)
(* CPUs in POLL and on no other (cstate_power.py:48-80, 95-127 and 138-164,*)
(* c0_loops.py:43-59 and 74-122).                                          *)
LabelsAreTrue ==
  \A row \in ToSet(samples) : row.power # <<>> =>
    LET reading == row.power[1]
        only(state) == {cpu \in Cpus : reading.enabled[cpu] = {state}} IN
    /\ reading.frequency = row.label.frequency
    /\ script = "c0_loops" =>
         reading.running =
           {pair \in Cpus \X {row.label.implementation} : pair[2] # "POLL"}
    /\ script = "cstate_power" =>
         /\ \A cpu \in Cpus : reading.enabled[cpu] = {row.label.states[cpu]}
         /\ row.label.strategy = "all" => only(row.label.base_state) = Cpus
         /\ row.label.strategy = "linear" =>
              /\ only(row.label.shallow_state) = 0 .. row.label.shallow_count - 1
              /\ only(row.label.base_state) =
                   Cpus \ only(row.label.shallow_state)
         /\ reading.running = only("POLL") \X {"pause"}

(* What is in the file is a front part of the report: its rows are the     *)
(* first ones of a list in which every configuration has a row and every   *)
(* reading of a body is in exactly one, in order.  Nothing is written of a *)
(* collection that failed midway; a failure during report() leaves some of *)
(* the rows, and only after the regular end all are there (lines 82-135 and*)
(* 190-194).                                                               *)
ReportIsAFront ==
  /\ IsPrefix(csv, samples)
  /\ csv # <<>> \/ pc = "done" =>
       /\ \A c \in DOMAIN configurations :
            \E r \in DOMAIN samples : samples[r].label = configurations[c]
       /\ FlattenSeq([r \in DOMAIN samples |-> samples[r].power]) =
            FlattenSeq([k \in DOMAIN readings |->
              IF readings[k].in = "body" THEN <<readings[k]>> ELSE <<>>])
  /\ pc = "done" => csv = samples

(* The script ends.                                                        *)
Terminates == <>Ended

=============================================================================
