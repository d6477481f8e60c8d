---------------------------- MODULE MCPowerPrograms ----------------------------
(* The two C programs of the power experiments in one run: Init picks the *)
(* one that is started, and the other one's variables never change.        *)
EXTENDS VxorTest

CONSTANTS Measurements, Period, Energies, CounterSize, Stolen, Horizon

(* A turn of the polling loop is shorter than a period, and the register   *)
(* shows every single update.                                              *)
ASSUME ResolutionAssumption ==
  /\ Measurements \in Nat \ {0} /\ Stolen \in Nat /\ Horizon \in Nat
  /\ Period \in Nat \ {0, 1, 2} /\ Horizon >= 2 * Period
  /\ CounterSize \in Nat \ {0}
  /\ Energies \subseteq Nat /\ \A e \in Energies : e % CounterSize # 0

VARIABLES
  program,        \* the program that runs
  line, readable, msr, tsc, stolen, status, cur_status, cycles, updates,
  read_at, printed

resolutionVars ==
  <<line, readable, msr, tsc, stolen, status, cur_status, cycles, updates,
    read_at, printed>>

R == INSTANCE RaplResolution

Unstarted ==
  /\ R!Init /\ readable = FALSE /\ tsc = Period
  /\ status = 0 /\ cur_status = 0

MCInit ==
  \/ program = "vxor_test_high" /\ Init /\ Unstarted
  \/ program = "RAPL_resoultion/test" /\ Init /\ R!Init

Vxor == program = "vxor_test_high" /\ main /\ UNCHANGED <<program, resolutionVars>>

VxorKernel(t) ==
  program = "vxor_test_high" /\ Kernel(t) /\ UNCHANGED <<program, resolutionVars>>

Resolution ==
  program = "RAPL_resoultion/test" /\ R!main /\ UNCHANGED <<program, vars>>

Ended == Done \/ R!Done

all == <<program, vars, resolutionVars>>

MCNext ==
  \/ Vxor \/ (\E t \in Threads : VxorKernel(t))
  \/ Resolution
  \/ Ended /\ UNCHANGED all

MCSpec ==
  /\ MCInit /\ [][MCNext]_all
  /\ WF_all(Vxor) /\ (\A t \in Threads : WF_all(VxorKernel(t)))
  /\ WF_all(Resolution)

(* The types of both programs (vxor_test_high.c:31-49, test.c:36-44).      *)
ProgramsTypeOK == TypeOK /\ R!TypeOK

(* The differences printed are whole update periods (test.c:45-56).        *)
WholePeriods == R!WholePeriods

(* vxor_test_high ends.  RAPL_resoultion/test ends when the register can be *)
(* read and keeps changing, whatever the scheduler takes, and never when it *)
(* cannot be read: no reading that failed is taken for an update           *)
(* (test.c:43-56).                                                         *)
Terminates ==
  /\ program = "vxor_test_high" ~> Done
  /\ (program = "RAPL_resoultion/test" /\ readable) ~> R!Done
  /\ ~readable => []~R!Done

=============================================================================
