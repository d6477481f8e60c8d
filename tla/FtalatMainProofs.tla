--------------------------- MODULE FtalatMainProofs ---------------------------
(* Proofs about the life of an ftalat process, for every number of cores,  *)
(* every content of the files in /sys and every argument.                  *)
EXTENDS FtalatMain, TLAPS

BeforeGovernor ==
  {"start", "init_freqs", "check_start", "check_target", "init_relations", "pin"}

TargetChecked ==
  {"init_relations", "pin", "set_governor", "alloc_files", "open_files",
   "set_related", "run_test"}

(* What the process has checked and read.                                  *)
Checked ==
  /\ \A c \in Cores : freqs[c] \in {NullRow, Available[c]}
  /\ pc \in TargetChecked \union {"check_target"} => startFreq \in ToSet(freqs[coreID])
  /\ pc \in TargetChecked => targetFreq \in ToSet(freqs[coreID])
  /\ pc = "set_related" => j >= 1

(* How far the loops over the governors have come.                         *)
Governors ==
  /\ pc \in BeforeGovernor /\ run = 1 =>
       \A c \in Cores : governor[c] = "initial"
  /\ pc = "set_governor" =>
       \A c \in Cores : c < j => governor[c] = "userspace" \/ c \in refused
  /\ pc \in {"alloc_files", "open_files", "set_related", "run_test"} =>
       \A c \in Cores : governor[c] = "userspace" \/ c \in refused
  /\ pc = "cleanup_governor" =>
       \A c \in Cores : c < j => governor[c] # "userspace" \/ c \in refused
  /\ pc \in {"cleanup_files", "cleanup_tables"} \/ (pc = "exited" /\ run = 1) =>
       \A c \in Cores : governor[c] = "userspace" =>
         c \in refused \/ \E offline \in 0 .. c : offline \in noGovernor

(* How far the loop over the files has come.                               *)
Files ==
  /\ pc = "open_files" => \A c \in Cores : c < j => setFiles[c] = "open"
  /\ pc \in {"set_related", "run_test"} => \A c \in Cores : setFiles[c] = "open"

(* What has been written to the files.                                     *)
Speeds ==
  /\ pc \in BeforeGovernor \union {"set_governor", "alloc_files", "open_files"} =>
       \A c \in Cores : setspeed[c] = 0
  /\ \A c \in Cores : setspeed[c] # 0 => setspeed[c] \in ToSet(Available[coreID])

IInv == TypeOK /\ Checked /\ Governors /\ Files /\ Speeds

-----------------------------------------------------------------------------

(* A table read from the files holds a core's list or nothing.             *)
LEMMA ReadType ==
  ASSUME NEW Content \in [Cores -> Seq(Nat)], NEW read \in Read(Content)
  PROVE  /\ read \in [Cores -> Seq(Nat)]
         /\ \A c \in Cores : read[c] \in {NullRow, Content[c]}
<1>1. PICK opened \in SUBSET Cores :
        read = [c \in Cores |-> IF c \in opened THEN Content[c] ELSE NullRow]
  BY DEF Read
<1>2. \A c \in Cores : read[c] \in {NullRow, Content[c]}
  BY <1>1
<1>3. NullRow \in Seq(Nat)
  BY DEF NullRow
<1>4. QED
  BY <1>1, <1>2, <1>3

(* The minimum is 0 or a frequency the core offers.                        *)
LEMMA MinimumAvailable ==
  ASSUME NEW core \in Cores, freqs \in [Cores -> Seq(Nat)],
         freqs[core] \in {NullRow, Available[core]}
  PROVE  /\ getMinAvailableFreq(core) \in Nat
         /\ getMinAvailableFreq(core) # 0 =>
              getMinAvailableFreq(core) \in ToSet(Available[core])
<1>1. CASE freqs[core] = NullRow
  BY <1>1 DEF getMinAvailableFreq
<1>2. CASE freqs[core] # NullRow
  <2> DEFINE list == freqs[core]
  <2>1. list = Available[core] /\ list \in Seq(Nat) /\ list # <<>>
    BY <1>2 DEF NullRow
  <2>2. Len(list) \in DOMAIN list /\ list[Len(list)] \in Nat
    BY <2>1
  <2>3. getMinAvailableFreq(core) = list[Len(list)]
    BY <1>2 DEF getMinAvailableFreq, Last
  <2>4. QED
    BY <2>1, <2>2, <2>3 DEF ToSet
<1>3. QED
  BY <1>1, <1>2

(* An available frequency of a table is one the core offers.               *)
LEMMA AvailableOffered ==
  ASSUME NEW core \in Cores, freqs[core] \in {NullRow, Available[core]},
         NEW freq \in ToSet(freqs[core])
  PROVE  freq \in ToSet(Available[core])
BY DEF ToSet, NullRow

(* A write keeps the types and what is known of the frequencies written.   *)
LEMMA SetFreqSpeeds ==
  ASSUME setspeed \in [Cores -> Nat], coreID \in Cores,
         \A c \in Cores : setspeed[c] # 0 => setspeed[c] \in ToSet(Available[coreID]),
         NEW core \in Nat, NEW freq \in Nat, setFreq(core, freq),
         freq # 0 => freq \in ToSet(Available[coreID])
  PROVE  /\ setspeed' \in [Cores -> Nat]
         /\ \A c \in Cores : setspeed'[c] # 0 => setspeed'[c] \in ToSet(Available[coreID])
         /\ pc' \in {pc, "aborted"}
<1>1. CASE core < NbCore
  <2>1. core \in Cores /\ setspeed' = [setspeed EXCEPT ![core] = freq] /\ pc' = pc
    BY <1>1, NbCoreAssumption DEF setFreq, Cores
  <2>2. QED
    BY <2>1
<1>2. CASE ~(core < NbCore)
  BY <1>2 DEF setFreq
<1>3. QED
  BY <1>1, <1>2

-----------------------------------------------------------------------------

LEMMA InvInit == Init => IInv
<1> SUFFICES ASSUME Init PROVE IInv
  OBVIOUS
<1>1. 0 \in Cores
  BY NbCoreAssumption DEF Cores
<1>2. TypeOK
  BY <1>1, RunsAssumption DEF Init, TypeOK, NullRow
<1>3. Checked /\ Governors /\ Files /\ Speeds
  BY DEF Init, Checked, Governors, Files, Speeds, BeforeGovernor, TargetChecked
<1>4. QED
  BY <1>2, <1>3 DEF IInv

(* Core j has the policy now or has refused it; the others are as before.  *)
Wrote(policy) ==
  /\ governor'[j] = policy \/ j \in refused'
  /\ \A c \in Cores \ {j} :
       governor'[c] = governor[c] /\ (c \in refused' <=> c \in refused)

(* What a step of setCPUGovernor() does, whatever the policy.              *)
LEMMA GovernorSteps ==
  ASSUME TypeOK, NEW policy \in {"userspace", "powersave"}, NEW from, NEW to,
         NEW failed, setCPUGovernor(policy, from, to, failed)
  PROVE  /\ pc = from
         /\ UNCHANGED <<invocation, tables, noGovernor, setspeed>>
         /\ j' \in Nat
         /\ governor' \in [Cores -> {"initial", "userspace", "powersave"}]
         /\ refused' \subseteq Cores
         /\ result' \in -7 .. 0
         /\ \/ /\ j = NbCore /\ pc' = to /\ j' = 0
               /\ governor' = governor /\ refused' = refused
            \/ /\ pc' = pc /\ j \in Cores /\ j' = j + 1
               /\ Wrote(policy)
            \/ /\ j \in noGovernor /\ j \in Cores /\ pc' = failed /\ j' = 0
               /\ governor' = governor /\ refused' = refused
<1>1. pc = from /\ UNCHANGED <<invocation, tables, noGovernor, setspeed>>
  BY DEF setCPUGovernor
<1>2. CASE j = NbCore /\ pc' = to /\ j' = 0 /\ UNCHANGED <<governor, refused, result>>
  BY <1>1, <1>2 DEF TypeOK
<1>3. CASE /\ j < NbCore /\ j \notin noGovernor
           /\ WriteGovernor(j, policy)
           /\ j' = j + 1
           /\ UNCHANGED <<pc, result>>
  <2>1. j \in Cores
    BY <1>3, NbCoreAssumption DEF TypeOK, Cores
  <2>2. /\ governor' \in [Cores -> {"initial", "userspace", "powersave"}]
        /\ refused' \subseteq Cores /\ Wrote(policy)
    BY <1>3, <2>1 DEF WriteGovernor, Wrote, TypeOK
  <2>3. QED
    BY <1>1, <1>3, <2>1, <2>2 DEF TypeOK
<1>4. CASE /\ j < NbCore /\ j \in noGovernor
           /\ pc' = failed /\ j' = 0
           /\ result' = IF policy = "userspace" THEN -5 ELSE result
           /\ UNCHANGED <<governor, refused>>
  <2>1. j \in Cores
    BY <1>4 DEF TypeOK
  <2>2. result' \in -7 .. 0
    BY <1>4 DEF TypeOK
  <2>3. QED
    BY <1>1, <1>4, <2>1, <2>2 DEF TypeOK
<1>5. QED
  BY <1>2, <1>3, <1>4 DEF setCPUGovernor

LEMMA SetUserspace ==
  ASSUME IInv,
         setCPUGovernor("userspace", "set_governor", "alloc_files", "cleanup_governor")
  PROVE  IInv'
<1>t. TypeOK
  BY DEF IInv
<1>s. /\ pc = "set_governor"
      /\ UNCHANGED <<invocation, tables, noGovernor, setspeed>>
      /\ j' \in Nat
      /\ governor' \in [Cores -> {"initial", "userspace", "powersave"}]
      /\ refused' \subseteq Cores /\ result' \in -7 .. 0
      /\ \/ /\ j = NbCore /\ pc' = "alloc_files" /\ j' = 0
            /\ governor' = governor /\ refused' = refused
         \/ /\ pc' = pc /\ j \in Cores /\ j' = j + 1
            /\ Wrote("userspace")
         \/ /\ j \in noGovernor /\ j \in Cores /\ pc' = "cleanup_governor" /\ j' = 0
            /\ governor' = governor /\ refused' = refused
  BY <1>t, GovernorSteps
<1>1. TypeOK'
  BY <1>t, <1>s DEF TypeOK, invocation, tables
<1>2. Checked' /\ Files' /\ Speeds'
  BY <1>s DEF IInv, Checked, Files, Speeds, invocation, tables,
              BeforeGovernor, TargetChecked
<1>3. Governors'
  <2>1. \A c \in Cores : c < j => governor[c] = "userspace" \/ c \in refused
    BY <1>s DEF IInv, Governors
  <2>2. \A c \in Cores : c \in Int /\ 0 <= c /\ c < NbCore
    BY NbCoreAssumption DEF Cores
  <2>3. CASE /\ pc' = "alloc_files" /\ j = NbCore
             /\ governor' = governor /\ refused' = refused
    BY <2>1, <2>2, <2>3 DEF Governors, BeforeGovernor
  <2>4. CASE /\ pc' = pc /\ j \in Cores /\ j' = j + 1
             /\ Wrote("userspace")
    <3>1. \A c \in Cores : c < j' => governor'[c] = "userspace" \/ c \in refused'
      BY <2>1, <2>2, <2>4 DEF Wrote
    <3>2. QED
      BY <1>s, <2>4, <3>1 DEF Governors, BeforeGovernor
  <2>5. CASE pc' = "cleanup_governor" /\ j' = 0
    BY <2>2, <2>5 DEF Governors, BeforeGovernor
  <2>6. QED
    BY <1>s, <2>3, <2>4, <2>5
<1>4. QED
  BY <1>1, <1>2, <1>3 DEF IInv

LEMMA SetPowersave ==
  ASSUME IInv,
         setCPUGovernor("powersave", "cleanup_governor", "cleanup_files", "cleanup_files")
  PROVE  IInv'
<1>t. TypeOK
  BY DEF IInv
<1>s. /\ pc = "cleanup_governor"
      /\ UNCHANGED <<invocation, tables, noGovernor, setspeed>>
      /\ j' \in Nat
      /\ governor' \in [Cores -> {"initial", "userspace", "powersave"}]
      /\ refused' \subseteq Cores /\ result' \in -7 .. 0
      /\ \/ /\ j = NbCore /\ pc' = "cleanup_files" /\ j' = 0
            /\ governor' = governor /\ refused' = refused
         \/ /\ pc' = pc /\ j \in Cores /\ j' = j + 1
            /\ Wrote("powersave")
         \/ /\ j \in noGovernor /\ j \in Cores /\ pc' = "cleanup_files" /\ j' = 0
            /\ governor' = governor /\ refused' = refused
  BY <1>t, GovernorSteps
<1>1. TypeOK'
  BY <1>t, <1>s DEF TypeOK, invocation, tables
<1>2. Checked' /\ Files' /\ Speeds'
  BY <1>s DEF IInv, Checked, Files, Speeds, invocation, tables,
              BeforeGovernor, TargetChecked
<1>3. Governors'
  <2>1. \A c \in Cores : c < j => governor[c] # "userspace" \/ c \in refused
    BY <1>s DEF IInv, Governors
  <2>2. \A c \in Cores : c \in Int /\ 0 <= c /\ c < NbCore
    BY NbCoreAssumption DEF Cores
  <2>3. CASE /\ j \in noGovernor /\ j \in Cores /\ pc' = "cleanup_files"
             /\ governor' = governor /\ refused' = refused
    <3>1. \A c \in Cores : governor[c] = "userspace" => c \in refused \/ j \in 0 .. c
      BY <2>1, <2>2, <2>3
    <3>2. QED
      BY <1>s, <2>3, <3>1 DEF Governors, BeforeGovernor
  <2>4. CASE /\ j = NbCore /\ pc' = "cleanup_files"
             /\ governor' = governor /\ refused' = refused
    BY <2>1, <2>2, <2>4 DEF Governors, BeforeGovernor
  <2>5. CASE /\ pc' = pc /\ j \in Cores /\ j' = j + 1
             /\ Wrote("powersave")
    <3>1. \A c \in Cores : c < j' => governor'[c] # "userspace" \/ c \in refused'
      BY <2>1, <2>2, <2>5 DEF Wrote
    <3>2. QED
      BY <1>s, <2>5, <3>1 DEF Governors, BeforeGovernor
  <2>6. QED
    BY <1>s, <2>3, <2>4, <2>5
<1>4. QED
  BY <1>1, <1>2, <1>3 DEF IInv

-----------------------------------------------------------------------------

LEMMA InvNext == IInv /\ [Next]_vars => IInv'
<1> SUFFICES ASSUME IInv, [Next]_vars PROVE IInv'
  OBVIOUS
<1> USE DEF IInv, invocation, tables, kernel, Goto
<1>z. \A c \in Cores : ~(c < 0)
  BY NbCoreAssumption DEF Cores
<1>a. CASE Usage
  <2>1. TypeOK' /\ Checked' /\ Files' /\ Speeds'
    BY <1>a DEF Usage, TypeOK, Checked, Files, Speeds, BeforeGovernor, TargetChecked
  <2>2. Governors'
    BY <1>a DEF Usage, Governors, BeforeGovernor
  <2>3. QED
    BY <2>1, <2>2
<1>b. CASE Parse
  <2>1. coreID' \in Cores
    BY <1>b, NbCoreAssumption, ArgsAssumption DEF Parse, Cores
  <2>2. TypeOK'
    BY <1>b, <2>1, ArgsAssumption DEF Parse, TypeOK
  <2>3. Checked' /\ Files' /\ Governors'
    BY <1>b DEF Parse, Checked, Files, Governors, BeforeGovernor, TargetChecked
  <2>4. Speeds'
    BY <1>b DEF Parse, Speeds, BeforeGovernor
  <2>5. QED
    BY <2>2, <2>3, <2>4
<1>c. CASE initFreqInfo
  <2>1. /\ freqs' \in [Cores -> Seq(Nat)]
        /\ \A c \in Cores : freqs'[c] \in {NullRow, Available[c]}
    BY <1>c, ReadType, FilesAssumption DEF initFreqInfo
  <2>2. TypeOK' /\ Checked'
    BY <1>c, <2>1 DEF initFreqInfo, TypeOK, Checked, TargetChecked
  <2>3. Files' /\ Governors' /\ Speeds'
    BY <1>c DEF initFreqInfo, Files, Governors, Speeds, BeforeGovernor
  <2>4. QED
    BY <2>2, <2>3
<1>d. CASE Check(startFreq, "check_start", "check_target", -6)
  <2>1. TypeOK' /\ Checked'
    <3>1. TypeOK'
      BY SMTT(20), <1>d DEF Check, TypeOK
    <3>2. Checked'
      BY <1>d DEF Check, isFreqAvailable, Checked, TargetChecked
    <3>3. QED
      BY <3>1, <3>2
  <2>2. Files' /\ Governors' /\ Speeds'
    BY <1>d, <1>z DEF Check, Files, Governors, Speeds, BeforeGovernor
  <2>3. QED
    BY <2>1, <2>2
<1>e. CASE Check(targetFreq, "check_target", "init_relations", -7)
  <2>1. TypeOK' /\ Checked'
    BY SMTT(20), <1>e DEF Check, isFreqAvailable, TypeOK, Checked, TargetChecked
  <2>2. Files' /\ Governors' /\ Speeds'
    BY <1>e, <1>z DEF Check, Files, Governors, Speeds, BeforeGovernor
  <2>3. QED
    BY <2>1, <2>2
<1>f. CASE initCoreRelations
  <2>1. relations' \in [Cores -> Seq(Nat)]
    BY <1>f, ReadType, FilesAssumption DEF initCoreRelations
  <2>2. TypeOK' /\ Checked'
    BY <1>f, <2>1 DEF initCoreRelations, TypeOK, Checked, TargetChecked
  <2>3. Files' /\ Governors' /\ Speeds'
    BY <1>f DEF initCoreRelations, Files, Governors, Speeds, BeforeGovernor
  <2>4. QED
    BY <2>2, <2>3
<1>g. CASE pinCPU
  <2>1. TypeOK' /\ Checked'
    BY <1>g DEF pinCPU, TypeOK, Checked, TargetChecked
  <2>2. \A c \in Cores : (run = 1 => governor'[c] = "initial") /\ ~(c < j')
    BY <1>g, NbCoreAssumption DEF pinCPU, Governors, BeforeGovernor, Cores
  <2>3. Files' /\ Governors' /\ Speeds'
    BY <1>g, <2>2 DEF pinCPU, Files, Governors, Speeds, BeforeGovernor
  <2>4. QED
    BY <2>1, <2>3
<1>h. CASE setCPUGovernor("userspace", "set_governor", "alloc_files", "cleanup_governor")
  BY <1>h, SetUserspace
<1>i. CASE AllocSetFiles
  <2>1. TypeOK' /\ Checked'
    BY <1>i DEF AllocSetFiles, TypeOK, Checked, TargetChecked
  <2>2. \A c \in Cores : ~(c < j')
    BY <1>i, NbCoreAssumption DEF AllocSetFiles, Cores
  <2>3. Files' /\ Governors' /\ Speeds'
    BY <1>i, <2>2 DEF AllocSetFiles, Files, Governors, Speeds, BeforeGovernor
  <2>4. QED
    BY <2>1, <2>3
<1>j. CASE OpenSetFile
  <2>1. \A c \in Cores : c \in Int /\ 0 <= c /\ c < NbCore
    BY NbCoreAssumption DEF Cores
  <2>2. TypeOK'
    <3>1. setFiles' \in [Cores -> {"open", "null", "garbage"}]
      BY <1>j DEF OpenSetFile, TypeOK
    <3>2. j' \in Nat /\ result' \in -7 .. 0
      BY <1>j DEF OpenSetFile, TypeOK
    <3>3. pc' \in {"open_files", "set_related", "cleanup_governor"}
      BY <1>j DEF OpenSetFile
    <3>4. UNCHANGED <<invocation, freqs, relations, allocated, kernel>>
      BY <1>j DEF OpenSetFile
    <3>5. QED
      BY <3>1, <3>2, <3>3, <3>4 DEF TypeOK
  <2>3. Checked'
    BY <1>j DEF OpenSetFile, Checked, TargetChecked
  <2>4. Files'
    <3>1. \A c \in Cores : c < j => setFiles[c] = "open"
      BY <1>j DEF OpenSetFile, Files
    <3>2. CASE j = NbCore /\ pc' = "set_related" /\ setFiles' = setFiles
      BY <2>1, <3>1, <3>2 DEF Files
    <3>3. CASE /\ setFiles' = [setFiles EXCEPT ![j] = "open"]
               /\ j' = j + 1 /\ pc' = pc
      BY <1>j, <2>1, <3>1, <3>3 DEF Files, OpenSetFile, TypeOK
    <3>4. CASE pc' = "cleanup_governor"
      BY <3>4 DEF Files
    <3>5. QED
      BY <1>j, <3>2, <3>3, <3>4 DEF OpenSetFile
  <2>5. Governors' /\ Speeds'
    BY <1>j, <2>1 DEF OpenSetFile, Governors, Speeds, BeforeGovernor
  <2>6. QED
    BY <2>2, <2>3, <2>4, <2>5
<1>k. CASE setFreqForAllRelatedCore
  <2>1. CASE /\ j <= Len(relations[coreID]) /\ j' = j + 1
             /\ setFreq(relations[coreID][j], getMinAvailableFreq(coreID))
    <3>1. relations[coreID][j] \in Nat
      <4>1. relations[coreID] \in Seq(Nat)
        BY DEF TypeOK
      <4>2. j \in 1 .. Len(relations[coreID])
        BY <1>k, <2>1, <4>1 DEF setFreqForAllRelatedCore, Checked, TypeOK
      <4>3. QED
        BY <4>1, <4>2
    <3>2. /\ getMinAvailableFreq(coreID) \in Nat
          /\ getMinAvailableFreq(coreID) # 0 =>
               getMinAvailableFreq(coreID) \in ToSet(Available[coreID])
      BY MinimumAvailable DEF TypeOK, Checked
    <3>3. /\ setspeed' \in [Cores -> Nat]
          /\ \A c \in Cores : setspeed'[c] # 0 => setspeed'[c] \in ToSet(Available[coreID])
          /\ pc' \in {pc, "aborted"}
      BY <2>1, <3>1, <3>2, SetFreqSpeeds DEF TypeOK, Speeds
    <3>4. /\ pc = "set_related"
          /\ UNCHANGED <<invocation, tables, governor, noGovernor, refused, result>>
      BY <1>k DEF setFreqForAllRelatedCore
    <3>5. TypeOK' /\ Checked'
      BY <2>1, <3>3, <3>4 DEF TypeOK, Checked, TargetChecked
    <3>6. Files' /\ Governors' /\ Speeds'
      BY <3>3, <3>4 DEF Files, Governors, Speeds, BeforeGovernor
    <3>7. QED
      BY <3>5, <3>6
  <2>2. CASE pc' = "run_test" /\ UNCHANGED <<j, setspeed>>
    BY <1>k, <2>2 DEF setFreqForAllRelatedCore, TypeOK, Checked, Files, Governors,
                      Speeds, BeforeGovernor, TargetChecked
  <2>3. QED
    BY <1>k, <2>1, <2>2 DEF setFreqForAllRelatedCore
<1>l. CASE runTest
  <2>0. /\ pc = "run_test"
        /\ UNCHANGED <<invocation, tables, governor, noGovernor, refused, result>>
    BY <1>l DEF runTest
  <2>1. ASSUME NEW f \in {startFreq, targetFreq}, setFreq(coreID, f), UNCHANGED j
        PROVE  IInv'
    <3>1. f \in ToSet(Available[coreID])
      BY <2>0, AvailableOffered DEF Checked, TypeOK, TargetChecked
    <3>2. coreID \in Nat /\ f \in Nat
      BY NbCoreAssumption DEF TypeOK, Cores
    <3>3. /\ setspeed' \in [Cores -> Nat]
          /\ \A c \in Cores : setspeed'[c] # 0 => setspeed'[c] \in ToSet(Available[coreID])
          /\ pc' \in {pc, "aborted"}
      BY <2>1, <3>1, <3>2, SetFreqSpeeds DEF TypeOK, Speeds
    <3>4. TypeOK' /\ Checked'
      BY <2>0, <2>1, <3>3 DEF TypeOK, Checked, TargetChecked
    <3>5. Files' /\ Governors' /\ Speeds'
      BY <2>0, <3>3 DEF Files, Governors, Speeds, BeforeGovernor
    <3>6. QED
      BY <3>4, <3>5
  <2>2. CASE pc' = "cleanup_governor" /\ j' = 0 /\ UNCHANGED setspeed
    <3>1. \A c \in Cores : ~(c < j')
      BY <2>2, NbCoreAssumption DEF Cores
    <3>2. QED
      BY <2>0, <2>2, <3>1 DEF TypeOK, Checked, Files, Governors, Speeds,
                              BeforeGovernor, TargetChecked
  <2>3. QED
    BY <1>l, <2>1, <2>2 DEF runTest
<1>m. CASE setCPUGovernor("powersave", "cleanup_governor", "cleanup_files", "cleanup_files")
  BY <1>m, SetPowersave
<1>n. CASE closeFreqSetterFiles
  <2>1. /\ pc' \in {"crashed", "cleanup_tables"}
        /\ UNCHANGED <<j, run, coreID, startFreq, targetFreq, freqs, relations, kernel, result>>
        /\ setFiles' \in [Cores -> {"open", "null", "garbage"}]
        /\ allocated' \subseteq {"freqs", "relations", "setFiles"}
    BY <1>n DEF closeFreqSetterFiles, TypeOK
  <2>2. TypeOK'
    BY <2>1 DEF TypeOK
  <2>3. Checked' /\ Files' /\ Speeds'
    BY <2>1 DEF Checked, TargetChecked, Files, Speeds, BeforeGovernor
  <2>4. Governors'
    BY <1>n, <2>1 DEF closeFreqSetterFiles, Governors, BeforeGovernor
  <2>5. QED
    BY <2>2, <2>3, <2>4
<1>o. CASE freeTables
  BY <1>o DEF freeTables, TypeOK, Checked, Files, Governors, Speeds,
              BeforeGovernor, TargetChecked
<1>p. CASE Unplug
  BY <1>p DEF Unplug, TypeOK, Checked, Files, Governors, Speeds, BeforeGovernor
<1>u. CASE Kill
  BY <1>u DEF Kill, TypeOK, Checked, Files, Governors, Speeds, BeforeGovernor,
              TargetChecked
<1>v. CASE Restart
  <2>1. 0 \in Cores
    BY NbCoreAssumption DEF Cores
  <2>2. TypeOK' /\ Checked'
    BY <1>v, <2>1, RunsAssumption DEF Restart, TypeOK, Checked, NullRow, TargetChecked
  <2>3. Files' /\ Speeds'
    BY <1>v DEF Restart, Files, Speeds
  <2>4. run' # 1
    BY <1>v DEF Restart, TypeOK
  <2>5. Governors'
    BY <1>v, <2>4 DEF Restart, Governors, BeforeGovernor
  <2>6. QED
    BY <2>2, <2>3, <2>5
<1>q. CASE UNCHANGED vars
  BY <1>q DEF vars, TypeOK, Checked, Files, Governors, Speeds
<1>r. QED
  BY <1>a, <1>b, <1>c, <1>d, <1>e, <1>f, <1>g, <1>h, <1>i, <1>j, <1>k, <1>l,
     <1>m, <1>n, <1>o, <1>p, <1>u, <1>v, <1>q DEF Next, main, cleanup

LEMMA Inductive == Spec => []IInv
<1>1. QED
  BY InvInit, InvNext, PTL DEF Spec

-----------------------------------------------------------------------------

(* The variables of main() keep their types, for every number of cores.    *)
THEOREM TypeCorrect == Spec => []TypeOK
<1>1. IInv => TypeOK
  BY DEF IInv
<1>2. QED
  BY <1>1, Inductive, PTL

(* Whatever files could not be opened, whichever cores went offline,       *)
(* whatever was refused and whatever a killed process left, cleanup()      *)
(* leaves userspace only on cores that refused powersave then and on cores *)
(* behind (or on) one whose scaling_governor cannot be opened              *)
(* (main.c:343-356, FreqSetter.c:106-129).                                 *)
THEOREM GovernorIsPutBack == Spec => []GovernorPutBack
<1>1. IInv => GovernorPutBack
  BY DEF IInv, Governors, GovernorPutBack
<1>2. QED
  BY <1>1, Inductive, PTL

(* Every frequency that ftalat writes is one the tested core offers, and is*)
(* written to an open file with the userspace governor in place, except on *)
(* a core that refused it, which nobody looks at (FreqSetter.c:118-120).   *)
THEOREM WritesAreEffective == Spec => []WritesTakeEffect
<1>1. IInv => WritesTakeEffect
  BY DEF IInv, Governors, Files, Speeds, WritesTakeEffect
<1>2. QED
  BY <1>1, Inductive, PTL

-----------------------------------------------------------------------------

(* How many of the related cores have been set to the lowest frequency.    *)
Lowered ==
  LET lowest == Last(Available[coreID]) IN
  /\ pc = "set_related" =>
       \A n \in DOMAIN relations[coreID] :
         n < j => setspeed[relations[coreID][n]] = lowest
  /\ pc = "run_test" =>
       \A n \in DOMAIN relations[coreID] :
         relations[coreID][n] # coreID => setspeed[relations[coreID][n]] = lowest

(* A core whose frequencies have been checked has some.                    *)
LEMMA ListRead ==
  ASSUME IInv, pc \in TargetChecked
  PROVE  /\ freqs[coreID] = Available[coreID] /\ freqs[coreID] # NullRow
         /\ Available[coreID] \in Seq(Nat) /\ Len(Available[coreID]) \in Nat \ {0}
<1>1. coreID \in Cores /\ freqs \in [Cores -> Seq(Nat)]
  BY DEF IInv, TypeOK
<1>2. startFreq \in ToSet(freqs[coreID])
  BY DEF IInv, Checked
<1>3. freqs[coreID] # <<>>
  BY <1>2 DEF ToSet
<1>4. freqs[coreID] = Available[coreID] /\ Available[coreID] \in Seq(Nat)
  BY <1>1, <1>3, FilesAssumption DEF IInv, Checked, NullRow
<1>5. QED
  BY <1>3, <1>4 DEF NullRow

LEMMA LoweredStep ==
  ASSUME IInv, Lowered, [Next]_vars
  PROVE  Lowered'
<1>s. SUFFICES ASSUME pc' \in {"set_related", "run_test"} PROVE Lowered'
  BY DEF Lowered
<1>1. CASE OpenSetFile
  <2>1. pc' = "set_related" /\ j' = 1
    BY <1>s, <1>1 DEF OpenSetFile
  <2>2. UNCHANGED <<coreID, relations>>
    BY <1>1 DEF OpenSetFile, invocation
  <2>3. \A n \in DOMAIN relations[coreID] : ~(n < 1)
    BY DEF IInv, TypeOK
  <2>4. QED
    BY <2>1, <2>2, <2>3 DEF Lowered
<1>2. CASE setFreqForAllRelatedCore
  <2>1. /\ pc = "set_related" /\ j \in Nat /\ j >= 1 /\ coreID \in Cores
        /\ relations[coreID] \in Seq(Nat) /\ setspeed \in [Cores -> Nat]
        /\ UNCHANGED <<coreID, relations>>
    BY <1>2 DEF setFreqForAllRelatedCore, IInv, TypeOK, Checked, invocation, tables
  <2>2. CASE /\ j <= Len(relations[coreID]) /\ j' = j + 1
             /\ setFreq(relations[coreID][j], getMinAvailableFreq(coreID))
    <3>1. j \in 1 .. Len(relations[coreID]) /\ relations[coreID][j] \in Nat
      BY <2>1, <2>2
    <3>2. /\ relations[coreID][j] \in Cores /\ pc' = "set_related"
          /\ setspeed' = [setspeed EXCEPT ![relations[coreID][j]] =
                            getMinAvailableFreq(coreID)]
      <4>1. pc' # "aborted"
        BY <1>s
      <4>2. /\ relations[coreID][j] < NbCore /\ pc' = pc
            /\ setspeed' = [setspeed EXCEPT ![relations[coreID][j]] =
                              getMinAvailableFreq(coreID)]
        BY <2>2, <4>1 DEF setFreq
      <4>3. relations[coreID][j] \in Cores
        BY <3>1, <4>2, NbCoreAssumption DEF Cores
      <4>4. QED
        BY <2>1, <4>2, <4>3
    <3>3. getMinAvailableFreq(coreID) = Last(Available[coreID])
      BY <2>1, ListRead DEF getMinAvailableFreq, TargetChecked
    <3>4. ASSUME NEW n \in DOMAIN relations[coreID], n < j'
          PROVE  setspeed'[relations[coreID][n]] = Last(Available[coreID])
      <4>1. n < j \/ n = j
        BY <2>1, <2>2, <3>4
      <4>2. CASE n = j
        BY <2>1, <3>2, <3>3, <4>2
      <4>3. CASE n < j
        BY <2>1, <3>2, <3>3, <4>3 DEF Lowered
      <4>4. QED
        BY <4>1, <4>2, <4>3
    <3>5. QED
      BY <2>1, <3>2, <3>4 DEF Lowered
  <2>3. CASE j > Len(relations[coreID]) /\ pc' = "run_test" /\ UNCHANGED <<j, setspeed>>
    <3>1. \A n \in DOMAIN relations[coreID] : n < j
      BY <2>1, <2>3
    <3>2. QED
      BY <2>1, <2>3, <3>1 DEF Lowered
  <2>4. QED
    BY <1>2, <2>2, <2>3 DEF setFreqForAllRelatedCore
<1>3. CASE runTest
  <2>1. /\ pc = "run_test" /\ pc' = "run_test"
        /\ UNCHANGED <<coreID, relations>>
        /\ \E f \in {startFreq, targetFreq} : setFreq(coreID, f)
    BY <1>s, <1>3 DEF runTest, setFreq, invocation, tables
  <2>2. \E f \in {startFreq, targetFreq} : setspeed' = [setspeed EXCEPT ![coreID] = f]
    BY <2>1 DEF setFreq
  <2>3. \A c \in Nat : c # coreID => setspeed'[c] = setspeed[c]
    BY <2>2
  <2>4. \A n \in DOMAIN relations[coreID] : relations[coreID][n] \in Nat
    BY DEF IInv, TypeOK
  <2>5. QED
    BY <2>1, <2>3, <2>4 DEF Lowered
<1>4. CASE Unplug \/ UNCHANGED vars
  <2>1. UNCHANGED <<pc, j, coreID, relations, setspeed>>
    BY <1>4 DEF Unplug, vars, invocation, tables
  <2>2. QED
    BY <2>1 DEF Lowered
<1>5. OpenSetFile \/ setFreqForAllRelatedCore \/ runTest \/ Unplug \/ UNCHANGED vars
  <2>1. ~Kill /\ ~Restart /\ ~Usage /\ ~Parse /\ ~initFreqInfo /\ ~initCoreRelations
    BY <1>s DEF Kill, Restart, Usage, Parse, initFreqInfo, initCoreRelations, Goto
  <2>2. /\ ~Check(startFreq, "check_start", "check_target", -6)
        /\ ~Check(targetFreq, "check_target", "init_relations", -7)
        /\ ~pinCPU /\ ~AllocSetFiles /\ ~closeFreqSetterFiles /\ ~freeTables
    BY <1>s DEF Check, pinCPU, AllocSetFiles, closeFreqSetterFiles, freeTables, Goto
  <2>3. /\ ~setCPUGovernor("userspace", "set_governor", "alloc_files", "cleanup_governor")
        /\ ~setCPUGovernor("powersave", "cleanup_governor", "cleanup_files", "cleanup_files")
    BY <1>s DEF setCPUGovernor
  <2>4. QED
    BY <2>1, <2>2, <2>3 DEF Next, main, cleanup
<1>6. QED
  BY <1>1, <1>2, <1>3, <1>4, <1>5

(* The lowest frequency of a list is its minimum.                          *)
LEMMA LastIsMin ==
  ASSUME LowestLast, NEW core \in Cores, Len(Available[core]) # 0
  PROVE  Last(Available[core]) = Min(ToSet(Available[core]))
<1> DEFINE list == Available[core]
           lowest == Last(list)
<1>1. list \in Seq(Nat) /\ Len(list) \in 1 .. Len(list)
  BY FilesAssumption
<1>2. lowest = list[Len(list)] /\ lowest \in ToSet(list)
  BY <1>1 DEF Last, ToSet
<1>3. \A x \in ToSet(list) : lowest <= x
  BY DEF LowestLast, ToSet
<1>4. ToSet(list) \subseteq Nat
  BY <1>1 DEF ToSet
<1>5. \A x \in ToSet(list) : (\A y \in ToSet(list) : x <= y) => x = lowest
  BY <1>2, <1>3, <1>4
<1>6. QED
  BY <1>2, <1>3, <1>5 DEF Min

(* Whatever cores a core is related to: when the test begins they all have *)
(* been set to its lowest frequency, provided that the lists end with it.  *)
THEOREM RelatedAreLowered ==
  ASSUME LowestLast
  PROVE  Spec => []RelatedAtMinimum
<1>1. Init => Lowered
  BY DEF Init, Lowered
<1>2. IInv /\ Lowered /\ [Next]_vars => Lowered'
  BY LoweredStep
<1>3. IInv /\ Lowered => RelatedAtMinimum
  <2> SUFFICES ASSUME IInv, Lowered, pc = "run_test",
                      NEW c \in ToSet(relations[coreID]) \ {coreID}
               PROVE  setspeed[c] = Min(ToSet(Available[coreID]))
    BY DEF RelatedAtMinimum
  <2>1. PICK n \in DOMAIN relations[coreID] : relations[coreID][n] = c
    BY DEF ToSet
  <2>2. setspeed[c] = Last(Available[coreID])
    BY <2>1 DEF Lowered
  <2>3. coreID \in Cores /\ Len(Available[coreID]) # 0
    BY ListRead DEF TargetChecked, IInv, TypeOK
  <2>4. QED
    BY <2>2, <2>3, LastIsMin
<1>4. QED
  BY <1>1, <1>2, <1>3, Inductive, PTL DEF Spec

=============================================================================
