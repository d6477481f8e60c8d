------------------------------ MODULE FtalatMain ------------------------------
(***************************************************************************)
(* The life of one ftalat process: main() and cleanup() of                 *)
(* src/ftalat/main.c with the modules they drive, FreqGetter.c (the table  *)
(* of frequencies), CoreRelation.c (the table of related cores),           *)
(* FreqSetter.c (governors and scaling_setspeed files) and utils.c.  The   *)
(* process changes state that outlives it, the governors of all cores, and *)
(* has many ways to end.                                                   *)
(*                                                                         *)
(* Any of the files in /sys may fail to open, and a core may go offline at *)
(* any moment, which takes its scaling_governor away.  A governor that is  *)
(* written may be refused by the kernel, which nobody looks at.  Memory    *)
(* that malloc() did not initialise holds anything: a null pointer or      *)
(* garbage.  A signal ends the process where it is, and the next process   *)
(* starts on what this one has left.                                       *)
(***************************************************************************)
EXTENDS Integers, Sequences, SequencesExt

CONSTANTS
  NbCore,        \* cores online, what getCoreNumber() returns
  Available,     \* scaling_available_frequencies of each core
  Related,       \* related_cpus of each core
  CoreArgs,      \* the -c argument
  FreqArgs,      \* the frequencies given as arguments
  MaxRuns        \* how many times ftalat is started, a bound

Cores == 0 .. NbCore - 1

ASSUME NbCoreAssumption == NbCore \in Nat \ {0}
ASSUME FilesAssumption == /\ Available \in [Cores -> Seq(Nat)]
                          /\ Related \in [Cores -> Seq(Nat)]
ASSUME ArgsAssumption == CoreArgs \subseteq Nat /\ FreqArgs \subseteq Nat
ASSUME RunsAssumption == MaxRuns \in Nat \ {0}

VARIABLES
  run,           \* which process it is, counted from 1
  pc,            \* where the process is
  j,             \* the core a loop over the cores is at
  coreID, startFreq, targetFreq,
  freqs,         \* pAvailableFreqsTable: a list, or null, for each core
  relations,     \* pRelationsTable, the same
  setFiles,      \* pSetFiles: "open", "null" or "garbage" for each core
  allocated,     \* which of these three tables are allocated
  governor,      \* the governor of each core, kept by the kernel
  noGovernor,    \* cores whose scaling_governor cannot be opened
  refused,       \* cores that refused the last governor of this process
  setspeed,      \* the frequency this process last wrote for each core, or 0
  result         \* what the process returned to its parent

vars == <<run, pc, j, coreID, startFreq, targetFreq, freqs, relations, setFiles,
          allocated, governor, noGovernor, refused, setspeed, result>>

invocation == <<run, coreID, startFreq, targetFreq>>
tables == <<freqs, relations, setFiles, allocated>>
kernel == <<governor, noGovernor, refused, setspeed>>

NullRow == <<>>     \* a null pointer and an empty list behave alike

Goto(from, to) == pc = from /\ pc' = to

-----------------------------------------------------------------------------

Init ==
  /\ run = 1
  /\ pc = "start"
  /\ j = 0
  /\ coreID = 0 /\ startFreq = 0 /\ targetFreq = 0
  /\ freqs = [c \in Cores |-> NullRow]
  /\ relations = [c \in Cores |-> NullRow]
  /\ setFiles = [c \in Cores |-> "null"]
  /\ allocated = {}
  /\ governor = [c \in Cores |-> "initial"]
  /\ noGovernor \in SUBSET Cores
  /\ refused = {}
  /\ setspeed = [c \in Cores |-> 0]
  /\ result = 0

Ended == pc \in {"exited", "aborted", "crashed", "killed"}

(* A core goes offline while ftalat runs.                                  *)
Unplug ==
  /\ pc # "start" /\ ~Ended
  /\ \E c \in Cores \ noGovernor : noGovernor' = noGovernor \union {c}
  /\ UNCHANGED <<pc, j, invocation, tables, governor, refused, setspeed, result>>

(* A signal: there is no handler, so nothing is put back.                  *)
Kill ==
  /\ pc # "start" /\ ~Ended
  /\ pc' = "killed"
  /\ UNCHANGED <<j, invocation, tables, kernel, result>>

(* The next process finds the governors as the last one left them; cores   *)
(* may have gone offline or come back in between.                          *)
Restart ==
  /\ Ended /\ run < MaxRuns
  /\ run' = run + 1
  /\ pc' = "start"
  /\ j' = 0
  /\ coreID' = 0 /\ startFreq' = 0 /\ targetFreq' = 0
  /\ freqs' = [c \in Cores |-> NullRow]
  /\ relations' = [c \in Cores |-> NullRow]
  /\ setFiles' = [c \in Cores |-> "null"]
  /\ allocated' = {}
  /\ noGovernor' \in SUBSET Cores
  /\ refused' = {}
  /\ setspeed' = [c \in Cores |-> 0]
  /\ result' = 0
  /\ UNCHANGED governor

(* Arguments that cannot be read end the process at once.                  *)
Usage ==
  /\ Goto("start", "exited")
  /\ result' \in {-1, -2, -3, -4}
  /\ UNCHANGED <<j, invocation, tables, kernel>>

(* Mutant of Parse: a core that is not there is kept.                      *)
ParseUnchecked ==
  /\ Goto("start", "init_freqs")
  /\ coreID' \in CoreArgs
  /\ startFreq' \in FreqArgs
  /\ targetFreq' \in FreqArgs
  /\ UNCHANGED <<run, j, tables, kernel, result>>

(* The arguments; a core that is not there is replaced by core 0.          *)
Parse ==
  /\ Goto("start", "init_freqs")
  /\ \E c \in CoreArgs : coreID' = IF c >= NbCore THEN 0 ELSE c
  /\ startFreq' \in FreqArgs
  /\ targetFreq' \in FreqArgs
  /\ UNCHANGED <<run, j, tables, kernel, result>>

(* Each core's file is read, or its row stays empty.                       *)
Read(files) == {[c \in Cores |-> IF c \in opened THEN files[c] ELSE NullRow] :
                  opened \in SUBSET Cores}

initFreqInfo ==
  /\ Goto("init_freqs", "check_start")
  /\ freqs' \in Read(Available)
  /\ allocated' = allocated \union {"freqs"}
  /\ UNCHANGED <<j, invocation, relations, setFiles, kernel, result>>

isFreqAvailable(core, freq) == freq \in ToSet(freqs[core])

(* An argument check: cleanup() and an error, or on to the next one.       *)
Check(freq, from, to, error) ==
  /\ pc = from
  /\ IF isFreqAvailable(coreID, freq)
     THEN pc' = to /\ UNCHANGED <<j, result>>
     ELSE pc' = "cleanup_governor" /\ j' = 0 /\ result' = error
  /\ UNCHANGED <<invocation, tables, kernel>>

initCoreRelations ==
  /\ Goto("init_relations", "pin")
  /\ relations' \in Read(Related)
  /\ allocated' = allocated \union {"relations"}
  /\ UNCHANGED <<j, invocation, freqs, setFiles, kernel, result>>

(* pinCPU(): a failure is exit(0), without cleanup().                      *)
pinCPU ==
  /\ pc = "pin"
  /\ pc' \in {"set_governor", "exited"}
  /\ j' = 0
  /\ UNCHANGED <<invocation, tables, kernel, result>>

(* What is written to the scaling_governor of a core takes effect, or the  *)
(* kernel refuses it (the governor is not there, the driver is busy), which*)
(* only fclose() would tell.                                               *)
WriteGovernor(core, policy) ==
  \/ /\ governor' = [governor EXCEPT ![core] = policy]
     /\ refused' = refused \ {core}
  \/ /\ refused' = refused \union {core}
     /\ UNCHANGED governor

(* Mutant of setCPUGovernor: a file that cannot be opened is no failure.   *)
setCPUGovernorIgnored(policy, from, to, failed) ==
  /\ pc = from
  /\ \/ /\ j < NbCore /\ j \notin noGovernor
        /\ WriteGovernor(j, policy)
        /\ j' = j + 1
        /\ UNCHANGED pc
     \/ /\ j = NbCore \/ j \in noGovernor
        /\ pc' = to /\ j' = 0
        /\ UNCHANGED <<governor, refused>>
  /\ UNCHANGED <<invocation, tables, noGovernor, setspeed, result>>

(* Mutant of setCPUGovernor: a file that cannot be opened is tried again.  *)
setCPUGovernorRetry(policy, from, to, failed) ==
  /\ pc = from
  /\ \/ /\ j = NbCore
        /\ pc' = to /\ j' = 0
        /\ UNCHANGED <<governor, refused>>
     \/ /\ j < NbCore /\ j \notin noGovernor
        /\ WriteGovernor(j, policy)
        /\ j' = j + 1
        /\ UNCHANGED pc
  /\ UNCHANGED <<invocation, tables, noGovernor, setspeed, result>>

(* One core in the loop of setCPUGovernor(), which stops at the first core *)
(* whose file cannot be opened, but not at one that refuses the governor.  *)
setCPUGovernor(policy, from, to, failed) ==
  /\ pc = from
  /\ \/ /\ j = NbCore
        /\ pc' = to /\ j' = 0
        /\ UNCHANGED <<governor, refused, result>>
     \/ /\ j < NbCore /\ j \notin noGovernor
        /\ WriteGovernor(j, policy)
        /\ j' = j + 1
        /\ UNCHANGED <<pc, result>>
     \/ /\ j < NbCore /\ j \in noGovernor
        /\ pc' = failed /\ j' = 0
        /\ result' = IF policy = "userspace" THEN -5 ELSE result
        /\ UNCHANGED <<governor, refused>>
  /\ UNCHANGED <<invocation, tables, noGovernor, setspeed>>

(* openFreqSetterFiles(): malloc() leaves every entry uninitialised, then  *)
(* the files are opened core by core until one fails.                      *)
AllocSetFiles ==
  /\ Goto("alloc_files", "open_files")
  /\ allocated' = allocated \union {"setFiles"}
  /\ setFiles' \in [Cores -> {"null", "garbage"}]
  /\ j' = 0
  /\ UNCHANGED <<invocation, freqs, relations, kernel, result>>

(* Mutant of OpenSetFile: main() returns its error without cleanup().      *)
OpenSetFileNoCleanup ==
  /\ pc = "open_files"
  /\ \/ /\ j = NbCore
        /\ pc' = "set_related" /\ j' = 1
        /\ UNCHANGED <<setFiles, result>>
     \/ /\ j < NbCore
        /\ setFiles' = [setFiles EXCEPT ![j] = "open"]
        /\ j' = j + 1
        /\ UNCHANGED <<pc, result>>
     \/ /\ j < NbCore
        /\ setFiles' = [setFiles EXCEPT ![j] = "null"]
        /\ pc' = "exited" /\ result' = -3
        /\ UNCHANGED j
  /\ UNCHANGED <<invocation, freqs, relations, allocated, kernel>>

OpenSetFile ==
  /\ pc = "open_files"
  /\ \/ /\ j = NbCore
        /\ pc' = "set_related" /\ j' = 1
        /\ UNCHANGED <<setFiles, result>>
     \/ /\ j < NbCore
        /\ setFiles' = [setFiles EXCEPT ![j] = "open"]
        /\ j' = j + 1
        /\ UNCHANGED <<pc, result>>
     \/ /\ j < NbCore
        /\ setFiles' = [setFiles EXCEPT ![j] = "null"]
        /\ pc' = "cleanup_governor" /\ j' = 0 /\ result' = -3
  /\ UNCHANGED <<invocation, freqs, relations, allocated, kernel>>

(* Mutant of getMinAvailableFreq: the first frequency of the list.         *)
getMinAvailableFreqHead(core) ==
  IF freqs[core] = NullRow THEN 0 ELSE Head(freqs[core])

getMinAvailableFreq(core) ==
  IF freqs[core] = NullRow THEN 0 ELSE Last(freqs[core])

(* setFreq(): its assertion ends the process where it is.                  *)
setFreq(core, freq) ==
  \/ /\ core < NbCore
     /\ setspeed' = [setspeed EXCEPT ![core] = freq]
     /\ UNCHANGED pc
  \/ core >= NbCore /\ pc' = "aborted" /\ UNCHANGED setspeed

setFreqForAllRelatedCore ==
  /\ pc = "set_related"
  /\ \/ /\ j <= Len(relations[coreID])
        /\ setFreq(relations[coreID][j], getMinAvailableFreq(coreID))
        /\ j' = j + 1
     \/ /\ j > Len(relations[coreID])
        /\ pc' = "run_test"
        /\ UNCHANGED <<j, setspeed>>
  /\ UNCHANGED <<invocation, tables, governor, noGovernor, refused, result>>

(* runTest() requests the two frequencies by turns; it may never return.   *)
runTest ==
  /\ pc = "run_test"
  /\ \/ \E f \in {startFreq, targetFreq} : setFreq(coreID, f) /\ UNCHANGED j
     \/ pc' = "cleanup_governor" /\ j' = 0 /\ UNCHANGED setspeed
  /\ UNCHANGED <<invocation, tables, governor, noGovernor, refused, result>>

(* closeFreqSetterFiles() closes every entry that is not null; fclose() of *)
(* garbage crashes or goes unnoticed.                                      *)
closeFreqSetterFiles ==
  /\ pc = "cleanup_files"
  /\ \/ "setFiles" \in allocated /\ (\E c \in Cores : setFiles[c] = "garbage")
        /\ pc' = "crashed" /\ UNCHANGED <<setFiles, allocated>>
     \/ /\ pc' = "cleanup_tables"
        /\ setFiles' = [c \in Cores |-> "null"]
        /\ allocated' = allocated \ {"setFiles"}
  /\ UNCHANGED <<j, invocation, freqs, relations, kernel, result>>

(* freeCoreRelations() and freeFreqInfo().                                 *)
freeTables ==
  /\ Goto("cleanup_tables", "exited")
  /\ allocated' = allocated \ {"freqs", "relations"}
  /\ UNCHANGED <<j, invocation, freqs, relations, setFiles, kernel, result>>

-----------------------------------------------------------------------------

cleanup ==
  \/ setCPUGovernor("powersave", "cleanup_governor", "cleanup_files", "cleanup_files")
  \/ closeFreqSetterFiles
  \/ freeTables

main ==
  \/ Usage
  \/ Parse
  \/ initFreqInfo
  \/ Check(startFreq, "check_start", "check_target", -6)
  \/ Check(targetFreq, "check_target", "init_relations", -7)
  \/ initCoreRelations
  \/ pinCPU
  \/ setCPUGovernor("userspace", "set_governor", "alloc_files", "cleanup_governor")
  \/ AllocSetFiles
  \/ OpenSetFile
  \/ setFreqForAllRelatedCore
  \/ runTest
  \/ cleanup

Next == main \/ Unplug \/ Kill \/ Restart \/ (Ended /\ UNCHANGED vars)

Spec == Init /\ [][Next]_vars

(* The process runs, and runTest() returns (module Ftalat says when).      *)
FairSpec == Spec /\ WF_vars(main)
                 /\ SF_vars(runTest /\ pc' = "cleanup_governor")

-----------------------------------------------------------------------------

(* The types of the state of the process and of what it leaves behind.     *)
TypeOK ==
  /\ pc \in {"start", "init_freqs", "check_start", "check_target",
             "init_relations", "pin", "set_governor", "alloc_files",
             "open_files", "set_related", "run_test", "cleanup_governor",
             "cleanup_files", "cleanup_tables", "exited", "aborted", "crashed",
             "killed"}
  /\ run \in 1 .. MaxRuns /\ j \in Nat
  /\ coreID \in Cores /\ startFreq \in Nat /\ targetFreq \in Nat
  /\ freqs \in [Cores -> Seq(Nat)] /\ relations \in [Cores -> Seq(Nat)]
  /\ setFiles \in [Cores -> {"open", "null", "garbage"}]
  /\ allocated \subseteq {"freqs", "relations", "setFiles"}
  /\ governor \in [Cores -> {"initial", "userspace", "powersave"}]
  /\ noGovernor \subseteq Cores /\ refused \subseteq Cores
  /\ setspeed \in [Cores -> Nat]
  /\ result \in -7 .. 0

(* When cleanup() has been through the governors, userspace is left only on*)
(* a core that refused powersave just then, or that cannot be opened, or   *)
(* before which one cannot be: cleanup() gives up at the first core it     *)
(* cannot open, which without a change is where setting userspace gave up  *)
(* as well.  This holds whatever the run or one killed before it has set,  *)
(* and the first process keeps it in all of its exits, those without a     *)
(* cleanup() included (main.c:343-356, FreqSetter.c:106-129).              *)
GovernorPutBack ==
  \/ pc \in {"cleanup_files", "cleanup_tables"}
  \/ pc = "exited" /\ run = 1
  => \A c \in Cores : governor[c] = "userspace" =>
       c \in refused \/ \E offline \in 0 .. c : offline \in noGovernor

(* Each list in /sys ends with its lowest frequency (FreqGetter.c:217-227).*)
LowestLast ==
  \A c \in Cores : \A n \in DOMAIN Available[c] :
    Last(Available[c]) <= Available[c][n]

(* When the test begins, the cores related to the tested one have been set *)
(* to the lowest frequency it offers, which is taken to be the last one of *)
(* the list in /sys (main.c:460-467, FreqGetter.c:217-227).                *)
RelatedAtMinimum ==
  pc = "run_test" => \A c \in ToSet(relations[coreID]) \ {coreID} :
                       setspeed[c] = Min(ToSet(Available[coreID]))

(* A frequency is one the core offers, and is written to a file that is   *)
(* open and to a core that the userspace governor rules, unless that core  *)
(* refused this governor, the one failure that setCPUGovernor() does not   *)
(* return and main() therefore does not stop at (main.c:453-468,           *)
(* FreqSetter.c:118-120).                                                  *)
WritesTakeEffect ==
  \A c \in Cores : setspeed[c] # 0 =>
    /\ setspeed[c] \in ToSet(Available[coreID])
    /\ pc \in {"set_related", "run_test"} =>
         /\ setFiles[c] = "open"
         /\ governor[c] = "userspace" \/ c \in refused

(* assert(coreID < getCoreNumber()) of setFreq(), FreqSetter.c:62.         *)
CoreExists == pc # "aborted"

(* Only files that were opened are closed (FreqSetter.h:29).               *)
ClosesOpenedFiles ==
  pc = "cleanup_files" /\ "setFiles" \in allocated =>
    \A c \in Cores : setFiles[c] # "garbage"

(* Every process ends, also one that starts on what a killed one left.     *)
Terminates == <>[]Ended

=============================================================================
