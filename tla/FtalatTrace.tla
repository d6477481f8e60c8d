------------------------------ MODULE FtalatTrace ------------------------------
(***************************************************************************)
(* runTest() with its trace: main() opens the trace before the test, every *)
(* iteration starts with resetDump(), the times of the detection and of    *)
(* both validations are written to it, and cleanup() closes it.  Here a    *)
(* sample is known by its iteration and its number there, not by its time. *)
(***************************************************************************)
EXTENDS Ftalat, DumpResults

VARIABLES
  stage,         \* of main(): "start", "test" or "cleaned"
  sampled        \* times taken for the trace in this iteration

tracedVars == <<vars, dumpVars, stage, sampled>>

-----------------------------------------------------------------------------

TracedInit == Init /\ InitDump /\ stage = "start" /\ sampled = 0

Open ==
  /\ stage = "start" /\ stage' = "test"
  /\ openDump(TryRepetLoop * ValidationRepet)
  /\ UNCHANGED <<vars, sampled>>

Traced(step) ==
  /\ step
  /\ sampled' = sampled + 1
  /\ writeDump(<<it, sampled + 1>>)

Untraced ==
  \/ Request \/ LateStamp \/ EndStamp \/ CheckTarget \/ Return \/ CheckStart

(* Mutant of TracedTest: the trace is not reset.                           *)
TracedTestNoReset ==
  /\ stage = "test"
  /\ \/ Calibration /\ UNCHANGED <<dumpVars, sampled>>
     \/ StartStamp /\ sampled' = 0 /\ UNCHANGED dumpVars
     \/ Traced(Detect)
     \/ Traced(Sample("validate_target", "check_target"))
     \/ Traced(Sample("validate_start", "check_start"))
     \/ (Untraced \/ Report) /\ UNCHANGED <<dumpVars, sampled>>
  /\ UNCHANGED stage

(* The steps of runTest() and what each of them does to the trace.         *)
TracedTest ==
  /\ stage = "test"
  /\ \/ Calibration /\ UNCHANGED <<dumpVars, sampled>>
     \/ StartStamp /\ sampled' = 0 /\ resetDump
     \/ Traced(Detect)
     \/ Traced(Sample("validate_target", "check_target"))
     \/ Traced(Sample("validate_start", "check_start"))
     \/ (Untraced \/ Report) /\ UNCHANGED <<dumpVars, sampled>>
  /\ UNCHANGED stage

Close ==
  /\ stage = "test" /\ Ended
  /\ closeDump
  /\ stage' = "cleaned"
  /\ UNCHANGED <<vars, sampled>>

TracedMain == Open \/ TracedTest \/ Close

TracedSwitch == Switch /\ UNCHANGED <<dumpVars, stage, sampled>>

TracedNext ==
  \/ TracedMain
  \/ TracedSwitch
  \/ stage = "cleaned" /\ UNCHANGED tracedVars

TracedSpec == TracedInit /\ [][TracedNext]_tracedVars

(* As in FairSpec, which this specification implements.                    *)
TracedFairSpec ==
  TracedSpec /\ WF_tracedVars(TracedMain) /\ WF_tracedVars(TracedSwitch)

-----------------------------------------------------------------------------

(* The trace that ftalat leaves behind holds every sample of the last      *)
(* iteration, in order, and nothing of the ones before.  resetDump() alone *)
(* does not make it so, as it keeps what is in the file already (its header*)
(* promises to rewind it, dumpResults.h:40): the buffer must never fill up *)
(* within an iteration, which is what main.c:436 makes room for.           *)
TraceIsLastIteration ==
  /\ "buf" \in opened => Len(buf) < bufCapacity
  /\ stage = "cleaned" /\ "buf" \in opened =>
       dumpFile = IF it = 0 THEN <<>>
                  ELSE [n \in 1 .. sampled |-> <<it - 1, n>>]

=============================================================================
