----------------------------- MODULE FtalatRunner -----------------------------
(***************************************************************************)
(* The script ftalat_runner.sh: it measures every couple of frequencies    *)
(* Iter times with ftalat and appends what ftalat prints to one result file*)
(* per couple.  A couple whose file is there already is skipped, so that a *)
(* script that was killed can be started again and continues.              *)
(*                                                                         *)
(* What ftalat prints is one entry of the file, "run", or "part" when it is*)
(* cut off.  A report and an error message count the same: the script does *)
(* not look at the exit status.                                            *)
(*                                                                         *)
(* A signal that ends the script alone leaves the ftalat it was waiting for*)
(* behind: this orphan goes on, perhaps next to the ftalat of a later start*)
(* of the script, and prints to its file when it ends.                     *)
(***************************************************************************)
EXTENDS Integers, Sequences, FiniteSets, SequencesExt

CONSTANTS
  FreqFile,      \* scaling_available_frequencies: a list, highest first
  Iter,          \* ITER, 31 in the script
  MaxKills       \* bound: how often the script is killed

ASSUME FreqAssumption ==
  FreqFile \in Seq(Nat \ {0}) /\ FreqFile # <<>> /\ IsInjective(FreqFile)
ASSUME RunnerAssumption == Iter \in Nat \ {0} /\ MaxKills \in Nat

VARIABLES
  ida,       \* the CPU flags contain "ida": the first frequency is turbo
  pc,        \* where the script is
  todo,      \* the couples its two loops have left
  i,         \* the number of the measurement of a couple
  exists,    \* the couples that have a result file
  files,     \* the entries of the files
  orphans,   \* the couples whose ftalat outlived the script that started it
  kills      \* how often the script was killed

vars == <<ida, pc, todo, i, exists, files, orphans, kills>>

Separator == "####"

(* sort -g, of different numbers.                                          *)
Ascending(s) ==
  [n \in 1..Len(s) |-> CHOOSE f \in ToSet(s) :
     Cardinality({g \in ToSet(s) : g < f}) = n - 1]

(* Every frequency in the file is followed by a blank, which makes an empty*)
(* line; sort -g puts it first and sed deletes it.                         *)
Blank == 0
(* Mutant of FREQUENCIES: no blank after the last one.                     *)
FREQUENCIESNoBlank == Tail(Ascending(FreqFile))

FREQUENCIES == Tail(Ascending(Append(FreqFile, Blank)))

turbo == IF ida THEN FreqFile[1] ELSE 0

(* The passes of the inner loop, in the order of the two loops.            *)
Couples ==
  LET F == FREQUENCIES
      len == Len(F)
  IN [n \in 1 .. len * len |-> <<F[1 + ((n - 1) \div len)], F[1 + ((n - 1) % len)]>>]

(* Mutant of Skipped: the result file is not looked for.                   *)
SkippedIfSame(couple) ==
  turbo \in {couple[1], couple[2]} \/ couple[1] = couple[2]

Skipped(couple) ==
  \/ turbo \in {couple[1], couple[2]}
  \/ couple[1] = couple[2]
  \/ couple \in exists

-----------------------------------------------------------------------------

Init ==
  /\ ida \in BOOLEAN
  /\ pc = "start"
  /\ todo = <<>>
  /\ i = 0
  /\ exists = {}
  /\ files = [couple \in ToSet(Couples) |-> <<>>]
  /\ orphans = {}
  /\ kills = 0

Start ==
  /\ pc = "start" /\ pc' = "couples"
  /\ todo' = Couples
  /\ UNCHANGED <<ida, i, exists, files, orphans, kills>>

Skip ==
  /\ pc = "couples" /\ todo # <<>>
  /\ Skipped(Head(todo))
  /\ todo' = Tail(todo)
  /\ UNCHANGED <<ida, pc, i, exists, files, orphans, kills>>

Measure ==
  /\ pc = "couples" /\ todo # <<>>
  /\ ~Skipped(Head(todo))
  /\ pc' = "iteration" /\ i' = 1
  /\ UNCHANGED <<ida, todo, exists, files, orphans, kills>>

(* The shell opens the file before it starts ftalat.                       *)
Open ==
  /\ pc = "iteration" /\ pc' = "ftalat"
  /\ exists' = exists \union {Head(todo)}
  /\ UNCHANGED <<ida, todo, i, files, orphans, kills>>

Write(entry) == files' = [files EXCEPT ![Head(todo)] = Append(@, entry)]

RunFtalat ==
  /\ pc = "ftalat" /\ pc' = "separator"
  /\ Write("run")
  /\ UNCHANGED <<ida, todo, i, exists, orphans, kills>>

(* Mutants of Separate: one measurement too many, one too few.             *)
SeparateOneMore ==
  /\ pc = "separator"
  /\ Write(Separator)
  /\ IF i <= Iter
     THEN pc' = "iteration" /\ i' = i + 1 /\ UNCHANGED todo
     ELSE pc' = "couples" /\ i' = i /\ todo' = Tail(todo)
  /\ UNCHANGED <<ida, exists, orphans, kills>>

SeparateOneLess ==
  /\ pc = "separator"
  /\ Write(Separator)
  /\ IF i < Iter - 1
     THEN pc' = "iteration" /\ i' = i + 1 /\ UNCHANGED todo
     ELSE pc' = "couples" /\ i' = i /\ todo' = Tail(todo)
  /\ UNCHANGED <<ida, exists, orphans, kills>>

Separate ==
  /\ pc = "separator"
  /\ Write(Separator)
  /\ IF i < Iter
     THEN pc' = "iteration" /\ i' = i + 1 /\ UNCHANGED todo
     ELSE pc' = "couples" /\ i' = i /\ todo' = Tail(todo)
  /\ UNCHANGED <<ida, exists, orphans, kills>>

Finish ==
  /\ pc = "couples" /\ todo = <<>>
  /\ pc' = "finished"
  /\ UNCHANGED <<ida, todo, i, exists, files, orphans, kills>>

(* The script is killed: with its ftalat, which may have printed a part, or*)
(* without it.                                                             *)
Kill ==
  /\ pc # "finished" /\ kills < MaxKills
  /\ pc' = "start" /\ todo' = <<>> /\ i' = 0
  /\ kills' = kills + 1
  /\ \/ UNCHANGED <<files, orphans>>
     \/ pc = "ftalat" /\ Write("part") /\ UNCHANGED orphans
     \/ /\ pc = "ftalat" /\ orphans' = orphans \union {Head(todo)}
        /\ UNCHANGED files
  /\ UNCHANGED <<ida, exists>>

(* An orphan ends, with all, a part or nothing of what it has to print.    *)
OrphanEnds ==
  /\ \E couple \in orphans :
       /\ orphans' = orphans \ {couple}
       /\ \/ UNCHANGED files
          \/ \E entry \in {"run", "part"} :
               files' = [files EXCEPT ![couple] = Append(@, entry)]
  /\ UNCHANGED <<ida, pc, todo, i, exists, kills>>

-----------------------------------------------------------------------------

Script ==
  Start \/ Skip \/ Measure \/ Open \/ RunFtalat \/ Separate \/ Finish

Next == Script \/ Kill \/ OrphanEnds \/ (pc = "finished" /\ UNCHANGED vars)

Spec == Init /\ [][Next]_vars

-----------------------------------------------------------------------------

Entries(couple, entry) ==
  Cardinality({n \in DOMAIN files[couple] : files[couple][n] = entry})

Complete(couple) == Entries(couple, Separator) = Iter

Current(couple) ==
  pc \in {"iteration", "ftalat", "separator"} /\ couple = Head(todo)

Wanted ==
  {couple \in ToSet(FreqFile) \X ToSet(FreqFile) :
     couple[1] # couple[2] /\ (ida => FreqFile[1] \notin {couple[1], couple[2]})}

(* The types of the state of the script and of its result files.           *)
TypeOK ==
  /\ ida \in BOOLEAN
  /\ pc \in {"start", "couples", "iteration", "ftalat", "separator", "finished"}
  /\ \E n \in 0..Len(Couples) : todo = SubSeq(Couples, n + 1, Len(Couples))
  /\ i \in 0..Iter
  /\ exists \subseteq ToSet(Couples)
  /\ files \in [ToSet(Couples) -> Seq({"run", "part", Separator})]
  /\ orphans \subseteq exists
  /\ kills \in 0..MaxKills

(* When the script finishes there is a result file for every couple of     *)
(* different frequencies below turbo, the lowest one included, and for no  *)
(* other (README.md:23, ftalat_runner.sh:24 and 38-57).                    *)
EveryCouple == pc = "finished" => exists = Wanted

(* Every time the script is killed it leaves at most one incomplete file,  *)
(* which no later start completes; all the others are complete, however    *)
(* often it was started (ftalat_runner.sh:61).                             *)
OneLossPerKill ==
  Cardinality({couple \in exists : ~Complete(couple) /\ ~Current(couple)}) <= kills

(* A file is only written by the start of the script that created it, whose*)
(* separators are the measurements it has done, or by an orphan of that    *)
(* start, once.  What was complete, or left over by a kill, never changes  *)
(* otherwise (the >> of lines 65 and 66 never appends to an older file).   *)
OldFilesKept ==
  [][\A couple \in exists : files'[couple] # files[couple] =>
       \/ Current(couple) /\ Entries(couple, Separator) = i - 1
       \/ couple \in orphans \ orphans']_vars

(* Two ftalat never print to the same file: a start of the script does not *)
(* measure the couple that an orphan of an earlier one is still measuring, *)
(* although it does not know of it (ftalat_runner.sh:61-66).               *)
OneWriter == \A couple \in orphans : ~Current(couple)

=============================================================================
