-------------------------- MODULE FtalatRunnerProofs --------------------------
(* Proofs about the script of ftalat, for every list of frequencies, every *)
(* number of measurements and every number of kills.                       *)
EXTENDS FtalatRunner, FiniteSetTheorems, SequenceTheorems, TLAPS

Busy == {"iteration", "ftalat", "separator"}
All == ToSet(Couples)
Entry == {"run", "part", Separator}
Count(s, entry) == Cardinality({n \in DOMAIN s : s[n] = entry})
Lost == {couple \in exists : ~Complete(couple) /\ ~Current(couple)}

Types ==
  /\ pc \in Busy \union {"start", "couples", "finished"}
  /\ todo \in Seq(All)
  /\ i \in Nat /\ kills \in Nat
  /\ exists \subseteq All /\ IsFiniteSet(exists)
  /\ files \in [All -> Seq(Entry)]
  /\ orphans \subseteq exists

(* The file that is written has been created by this start of the script,  *)
(* so that no orphan has it, and has a separator for each measurement done.*)
Working ==
  /\ pc \in Busy => /\ todo # <<>> /\ i \in 1..Iter
                    /\ Entries(Head(todo), Separator) = i - 1
                    /\ Head(todo) \notin orphans
  /\ pc \in {"ftalat", "separator"} => Head(todo) \in exists

Created == \A couple \in All \ exists : files[couple] = <<>>

IInv == Types /\ Working /\ Created

USE RunnerAssumption DEF Busy, Entry

-----------------------------------------------------------------------------

(* What one more entry adds to the count of an entry.                      *)
LEMMA CountAppend ==
  ASSUME NEW S, NEW s \in Seq(S), NEW e \in S, NEW x
  PROVE  Count(Append(s, e), x) = Count(s, x) + (IF e = x THEN 1 ELSE 0)
<1> DEFINE old == {n \in DOMAIN s : s[n] = x}
           new == {n \in DOMAIN Append(s, e) : Append(s, e)[n] = x}
           last == Len(s) + 1
<1>1. /\ DOMAIN s = 1..Len(s) /\ DOMAIN Append(s, e) = 1..last
      /\ \A n \in 1..Len(s) : Append(s, e)[n] = s[n]
      /\ Append(s, e)[last] = e /\ Len(s) \in Nat
  BY AppendProperties
<1>2. IsFiniteSet(1..Len(s)) /\ old \in SUBSET (1..Len(s))
  BY <1>1, FS_Interval
<1>3. IsFiniteSet(old) /\ Cardinality(old) \in Nat
  BY <1>2, FS_Subset, FS_CardinalityType
<1>4. last \notin old
  BY <1>1
<1>5. \A n : n \in 1..last <=> n \in 1..Len(s) \/ n = last
  BY <1>1
<1>6. CASE e = x
  <2>1. new = old \union {last}
    BY <1>1, <1>5, <1>6
  <2>2. Cardinality(new) = Cardinality(old) + 1
    BY <1>3, <1>4, <2>1, FS_AddElement
  <2>3. QED
    BY <1>6, <2>2 DEF Count
<1>7. CASE e # x
  <2>1. new = old
    BY <1>1, <1>5, <1>7
  <2>2. Count(Append(s, e), x) = Count(s, x) /\ Count(s, x) \in Nat
    BY <1>3, <2>1 DEF Count
  <2>3. QED
    BY <1>7, <2>2
<1>8. QED
  BY <1>6, <1>7

LEMMA CountType == ASSUME NEW S, NEW s \in Seq(S), NEW x PROVE Count(s, x) \in Nat
<1>1. DOMAIN s = 1..Len(s) /\ Len(s) \in Nat
  OBVIOUS
<1>2. IsFiniteSet(1..Len(s)) /\ {n \in DOMAIN s : s[n] = x} \in SUBSET (1..Len(s))
  BY <1>1, FS_Interval
<1>3. QED
  BY <1>2, FS_Subset, FS_CardinalityType DEF Count

LEMMA CountEmpty == \A x : Count(<<>>, x) = 0
<1> SUFFICES ASSUME NEW x PROVE Count(<<>>, x) = 0
  OBVIOUS
<1>1. {n \in DOMAIN <<>> : <<>>[n] = x} = {}
  OBVIOUS
<1>2. QED
  BY <1>1, FS_EmptySet DEF Count

LEMMA FunctionIsSeq ==
  ASSUME NEW m \in Nat, NEW S, NEW f \in [1..m -> S]
  PROVE  f \in Seq(S) /\ Len(f) = m
OBVIOUS

(* The couples are a sequence, whatever the order of the frequencies is.   *)
LEMMA CouplesType == Couples \in Seq(All)
<1>1. Len(FREQUENCIES) \in Nat
  <2> DEFINE s == Append(FreqFile, Blank)
             sorted == Ascending(s)
             S == {sorted[n] : n \in 1..Len(s)}
  <2>1. s \in Seq(Nat) /\ Len(s) \in Nat /\ Len(s) > 0
    BY FreqAssumption, AppendProperties DEF Blank
  <2>2. sorted \in Seq(S) /\ Len(sorted) = Len(s)
    <3>1. sorted \in [1..Len(s) -> S]
      BY Zenon DEF Ascending
    <3>2. QED
      BY <2>1, <3>1, FunctionIsSeq
  <2> HIDE DEF s, sorted, S
  <2>3. sorted # <<>>
    BY <2>1, <2>2
  <2>4. Len(Tail(sorted)) = Len(sorted) - 1
    BY <2>2, <2>3, HeadTailProperties
  <2>5. FREQUENCIES = Tail(sorted)
    BY DEF FREQUENCIES, sorted, s
  <2>6. QED
    BY <2>1, <2>2, <2>4, <2>5
<1>2. Len(FREQUENCIES) * Len(FREQUENCIES) \in Nat
  BY <1>1
<1>3. DOMAIN Couples = 1 .. Len(FREQUENCIES) * Len(FREQUENCIES)
  BY DEF Couples
<1>4. \A n \in DOMAIN Couples : Couples[n] \in All
  BY DEF All, ToSet
<1>5. QED
  BY <1>2, <1>3, <1>4 DEF Couples

-----------------------------------------------------------------------------

LEMMA InitInv == Init => IInv
<1> SUFFICES ASSUME Init PROVE IInv
  OBVIOUS
<1>1. Types
  BY FS_EmptySet DEF Init, Types, All
<1>2. Working /\ Created
  BY DEF Init, Working, Created, All
<1>3. QED
  BY <1>1, <1>2 DEF IInv

(* What a step writes: one entry, to a file that exists.                   *)
LEMMA WriteOne ==
  ASSUME IInv, pc \in {"ftalat", "separator"}, NEW e \in Entry, Write(e)
  PROVE  /\ Head(todo) \in All /\ Head(todo) \in exists
         /\ files' \in [All -> Seq(Entry)]
         /\ files'[Head(todo)] = Append(files[Head(todo)], e)
         /\ \A couple \in All \ {Head(todo)} : files'[couple] = files[couple]
         /\ \A couple \in All \ exists : files'[couple] = <<>>
<1>1. /\ todo \in Seq(All) /\ todo # <<>> /\ Head(todo) \in exists
      /\ files \in [All -> Seq(Entry)]
  BY DEF IInv, Types, Working
<1>2. Head(todo) \in All
  BY <1>1, HeadTailProperties
<1>3. Append(files[Head(todo)], e) \in Seq(Entry)
  BY <1>1, <1>2, AppendProperties
<1>4. /\ files' \in [All -> Seq(Entry)]
      /\ files'[Head(todo)] = Append(files[Head(todo)], e)
      /\ \A couple \in All \ {Head(todo)} : files'[couple] = files[couple]
  BY <1>1, <1>2, <1>3 DEF Write
<1>5. QED
  BY <1>1, <1>2, <1>4 DEF IInv, Created

(* What is counted of the file that is written.                            *)
LEMMA WriteCount ==
  ASSUME IInv, pc \in {"ftalat", "separator"}, NEW e \in Entry, Write(e), NEW x
  PROVE  /\ Count(files'[Head(todo)], x) =
              Count(files[Head(todo)], x) + (IF e = x THEN 1 ELSE 0)
         /\ \A couple \in All \ {Head(todo)} :
              Count(files'[couple], x) = Count(files[couple], x)
<1>1. /\ Head(todo) \in All
      /\ files'[Head(todo)] = Append(files[Head(todo)], e)
      /\ \A couple \in All \ {Head(todo)} : files'[couple] = files[couple]
  BY WriteOne
<1>2. files[Head(todo)] \in Seq(Entry)
  BY <1>1 DEF IInv, Types
<1>3. Count(Append(files[Head(todo)], e), x) =
        Count(files[Head(todo)], x) + (IF e = x THEN 1 ELSE 0)
  BY <1>2, CountAppend
<1>4. QED
  BY <1>1, <1>3

LEMMA EntriesCount ==
  /\ \A couple, x : Entries(couple, x) = Count(files[couple], x)
  /\ \A couple, x : Entries(couple, x)' = Count(files'[couple], x)
BY DEF Entries, Count

LEMMA ScriptInv ==
  ASSUME IInv, Script
  PROVE  IInv'
<1>t. /\ todo \in Seq(All) /\ i \in Nat /\ kills \in Nat
      /\ exists \subseteq All /\ IsFiniteSet(exists)
      /\ files \in [All -> Seq(Entry)]
      /\ orphans \subseteq exists
      /\ pc \in Busy \union {"start", "couples", "finished"}
  BY DEF IInv, Types
<1>1. CASE Start
  BY <1>1, <1>t, CouplesType DEF Start, IInv, Types, Working, Created
<1>2. CASE Skip
  <2>1. Tail(todo) \in Seq(All)
    BY <1>2, <1>t, HeadTailProperties DEF Skip
  <2>2. QED
    BY <1>2, <1>t, <2>1 DEF Skip, IInv, Types, Working, Created
<1>3. CASE Measure
  <2>1. Head(todo) \in All \ exists
    BY <1>3, <1>t, HeadTailProperties DEF Measure, Skipped
  <2>2. Entries(Head(todo), Separator) = 0
    BY <2>1, CountEmpty, EntriesCount DEF IInv, Created
  <2>3. (Entries(Head(todo), Separator) = 0)'
    BY <1>3, <2>2, EntriesCount DEF Measure
  <2>4. Working'
    BY <1>3, <1>t, <2>1, <2>3 DEF Measure, Working
  <2>5. Types' /\ Created'
    BY <1>3, <1>t DEF Measure, IInv, Types, Created
  <2>6. QED
    BY <2>4, <2>5 DEF IInv
<1>4. CASE Open
  <2>1. todo # <<>> /\ Head(todo) \in All
    BY <1>4, <1>t, HeadTailProperties DEF Open, IInv, Working
  <2>2. exists' \subseteq All /\ IsFiniteSet(exists')
    BY <1>4, <1>t, <2>1, FS_AddElement DEF Open
  <2>3. Working'
    BY <1>4, EntriesCount DEF Open, IInv, Working
  <2>4. Types' /\ Created'
    BY <1>4, <1>t, <2>2 DEF Open, IInv, Types, Created
  <2>5. QED
    BY <2>3, <2>4 DEF IInv
<1>5. CASE RunFtalat
  <2>1. pc = "ftalat" /\ "run" \in Entry /\ Write("run") /\ Separator # "run"
    BY <1>5 DEF RunFtalat, Separator
  <2>2. Count(files'[Head(todo)], Separator) =
          Count(files[Head(todo)], Separator) + 0
    BY <2>1, WriteCount
  <2>3. Types' /\ Created'
    BY <1>5, <1>t, <2>1, WriteOne DEF RunFtalat, Types, Created
  <2>4. Working'
    BY <1>5, <2>1, <2>2, EntriesCount DEF RunFtalat, IInv, Working
  <2>5. QED
    BY <2>3, <2>4 DEF IInv
<1>6. CASE Separate
  <2>1. pc = "separator" /\ Separator \in Entry /\ Write(Separator)
    BY <1>6 DEF Separate
  <2>2. Count(files'[Head(todo)], Separator) =
          Count(files[Head(todo)], Separator) + 1
    BY <2>1, WriteCount
  <2>3. /\ todo # <<>> /\ i \in 1..Iter /\ Head(todo) \in exists
        /\ Head(todo) \notin orphans
        /\ Count(files[Head(todo)], Separator) = i - 1
    BY <2>1, EntriesCount DEF IInv, Working
  <2>4. Tail(todo) \in Seq(All)
    BY <1>t, <2>3, HeadTailProperties
  <2>5. Types' /\ Created'
    <3>1. /\ files' \in [All -> Seq(Entry)]
          /\ \A couple \in All \ exists : files'[couple] = <<>>
      BY <2>1, WriteOne
    <3>2. i' \in Nat /\ todo' \in Seq(All) /\ pc' \in {"iteration", "couples"}
      <4>1. CASE i < Iter
        BY <1>6, <1>t, <4>1 DEF Separate
      <4>2. CASE ~(i < Iter)
        BY <1>6, <1>t, <2>4, <4>2 DEF Separate
      <4>3. QED
        BY <4>1, <4>2
    <3>3. UNCHANGED <<kills, exists, orphans>>
      BY <1>6 DEF Separate
    <3>4. QED
      BY <1>t, <3>1, <3>2, <3>3 DEF Types, Created
  <2>6. Working'
    BY <1>6, <2>2, <2>3, EntriesCount DEF Separate, Working
  <2>7. QED
    BY <2>5, <2>6 DEF IInv
<1>7. CASE Finish
  BY <1>7, <1>t DEF Finish, IInv, Types, Working, Created
<1>8. QED
  BY <1>1, <1>2, <1>3, <1>4, <1>5, <1>6, <1>7 DEF Script

LEMMA KillInv ==
  ASSUME IInv, Kill
  PROVE  IInv'
<1>1. files' \in [All -> Seq(Entry)] /\ Created'
  <2>1. CASE UNCHANGED files
    BY <2>1 DEF Kill, IInv, Types, Created
  <2>2. CASE pc = "ftalat" /\ Write("part")
    <3>1. "part" \in Entry
      OBVIOUS
    <3>2. QED
      BY <2>2, <3>1, WriteOne DEF Kill, Created
  <2>3. QED
    BY <2>1, <2>2 DEF Kill
<1>2. orphans' \subseteq exists'
  BY DEF Kill, IInv, Types, Working
<1>3. QED
  BY <1>1, <1>2 DEF Kill, IInv, Types, Working

(* What an orphan prints, if anything, is one entry of its file.           *)
LEMMA OrphanWrites ==
  ASSUME IInv, OrphanEnds
  PROVE  \E couple \in orphans :
           /\ couple \in exists /\ couple \in All /\ orphans' = orphans \ {couple}
           /\ files' \in [All -> Seq(Entry)]
           /\ \A other \in All \ {couple} : files'[other] = files[other]
           /\ Count(files'[couple], Separator) = Count(files[couple], Separator)
<1>1. PICK couple \in orphans :
        /\ orphans' = orphans \ {couple}
        /\ \/ UNCHANGED files
           \/ \E entry \in {"run", "part"} :
                files' = [files EXCEPT ![couple] = Append(@, entry)]
  BY DEF OrphanEnds
<1>2. couple \in exists /\ couple \in All /\ files \in [All -> Seq(Entry)]
  BY DEF IInv, Types
<1>3. CASE UNCHANGED files
  BY <1>1, <1>2, <1>3
<1>4. ASSUME NEW entry \in {"run", "part"},
             files' = [files EXCEPT ![couple] = Append(@, entry)]
      PROVE  /\ files' \in [All -> Seq(Entry)]
             /\ \A other \in All \ {couple} : files'[other] = files[other]
             /\ Count(files'[couple], Separator) = Count(files[couple], Separator)
  <2>1. files[couple] \in Seq(Entry) /\ entry \in Entry /\ entry # Separator
    BY <1>2 DEF Separator
  <2>2. Append(files[couple], entry) \in Seq(Entry)
    BY <2>1, AppendProperties
  <2>3. Count(Append(files[couple], entry), Separator) =
          Count(files[couple], Separator) + 0
    BY <2>1, CountAppend
  <2>4. Count(files[couple], Separator) \in Nat
    BY <2>1, CountType
  <2>5. files'[couple] = Append(files[couple], entry)
    BY <1>2, <1>4
  <2>6. QED
    BY <1>2, <1>4, <2>2, <2>3, <2>4, <2>5
<1>5. QED
  BY <1>1, <1>2, <1>3, <1>4

LEMMA OrphanInv ==
  ASSUME IInv, OrphanEnds
  PROVE  IInv'
<1>1. PICK couple \in orphans :
        /\ couple \in exists /\ couple \in All /\ orphans' = orphans \ {couple}
        /\ files' \in [All -> Seq(Entry)]
        /\ \A other \in All \ {couple} : files'[other] = files[other]
        /\ Count(files'[couple], Separator) = Count(files[couple], Separator)
  BY OrphanWrites
<1>2. UNCHANGED <<ida, pc, todo, i, exists, kills>>
  BY DEF OrphanEnds
<1>3. Types' /\ Created'
  BY <1>1, <1>2 DEF IInv, Types, Created
<1>4. ASSUME pc \in Busy
      PROVE  (Entries(Head(todo), Separator) = i - 1)' /\ Head(todo) \notin orphans'
  <2>1. /\ Head(todo) \in All /\ Head(todo) \notin orphans
        /\ Count(files[Head(todo)], Separator) = i - 1
    BY <1>4, HeadTailProperties, EntriesCount DEF IInv, Types, Working
  <2>2. QED
    BY <1>1, <1>2, <2>1, EntriesCount
<1>5. Working'
  BY <1>2, <1>4 DEF IInv, Working
<1>6. QED
  BY <1>3, <1>5 DEF IInv

LEMMA NextInv == IInv /\ [Next]_vars => IInv'
<1> SUFFICES ASSUME IInv, [Next]_vars PROVE IInv'
  OBVIOUS
<1>1. CASE UNCHANGED vars
  BY <1>1, EntriesCount DEF vars, IInv, Types, Working, Created
<1>2. QED
  BY <1>1, ScriptInv, KillInv, OrphanInv DEF Next

(* However often the script was killed and started again, and whichever    *)
(* ftalat it left behind: the couple it measures has no other ftalat, so   *)
(* the entries of two never mix in a file (ftalat_runner.sh:61-66).        *)
THEOREM OneWriterPerFile == Spec => []OneWriter
<1>1. IInv => OneWriter
  BY DEF IInv, Working, OneWriter, Current
<1>2. QED
  BY InitInv, NextInv, <1>1, PTL DEF Spec

(* However often the script is killed and started again, it appends only   *)
(* to the file that this start has created for the couple it measures, and *)
(* the file has a separator for each measurement of this start; any other  *)
(* file only grows by what its orphan prints, once                         *)
(* (ftalat_runner.sh:61-66).                                               *)
THEOREM OldFilesStay == Spec => OldFilesKept
<1>1. ASSUME IInv, Next
      PROVE  \A couple \in exists : files'[couple] # files[couple] =>
               \/ Current(couple) /\ Entries(couple, Separator) = i - 1
               \/ couple \in orphans \ orphans'
  <2> SUFFICES ASSUME NEW couple \in exists, files'[couple] # files[couple]
               PROVE  \/ Current(couple) /\ Entries(couple, Separator) = i - 1
                      \/ couple \in orphans \ orphans'
    OBVIOUS
  <2>0. couple \in All
    BY <1>1 DEF IInv, Types
  <2>1. CASE OrphanEnds
    <3>1. PICK other \in orphans :
            /\ orphans' = orphans \ {other}
            /\ \A c \in All \ {other} : files'[c] = files[c]
      BY <1>1, <2>1, OrphanWrites
    <3>2. QED
      BY <2>0, <3>1
  <2>2. CASE ~OrphanEnds
    <3>1. PICK e \in Entry : pc \in {"ftalat", "separator"} /\ Write(e)
      BY <1>1, <2>2 DEF Next, Script, Start, Skip, Measure, Open, RunFtalat, Separate,
                  Finish, Kill, vars
    <3>2. couple = Head(todo)
      BY <1>1, <2>0, <3>1, WriteOne
    <3>3. QED
      BY <1>1, <3>1, <3>2 DEF Current, IInv, Working
  <2>3. QED
    BY <2>1, <2>2
<1>2. QED
  BY InitInv, NextInv, <1>1, PTL DEF Spec, OldFilesKept

-----------------------------------------------------------------------------

(* The files that are lost are those that a kill has left over.            *)
LostInv == Cardinality(Lost) <= kills

(* A step of the script loses no file: the one it stops writing is         *)
(* complete.                                                               *)
LEMMA ScriptLoses ==
  ASSUME IInv, Script
  PROVE  Lost' \subseteq Lost
<1>1. CASE Start \/ Skip \/ Measure \/ Finish
  <2>1. UNCHANGED <<files, exists>> /\ pc \notin Busy
    BY <1>1 DEF Start, Skip, Measure, Finish
  <2>2. QED
    BY <2>1, EntriesCount DEF Lost, Complete, Current
<1>2. CASE Open
  <2>1. /\ UNCHANGED <<files, todo>> /\ exists' = exists \union {Head(todo)}
        /\ pc' = "ftalat"
    BY <1>2 DEF Open
  <2>2. QED
    BY <2>1, EntriesCount DEF Lost, Complete, Current
<1>3. CASE RunFtalat
  <2>1. /\ Write("run") /\ UNCHANGED <<exists, todo>>
        /\ pc = "ftalat" /\ pc' = "separator"
    BY <1>3 DEF RunFtalat
  <2>2. \A couple \in All \ {Head(todo)} : files'[couple] = files[couple]
    BY <2>1, WriteOne
  <2>3. QED
    BY <2>1, <2>2, EntriesCount DEF Lost, Complete, Current, IInv, Types
<1>4. CASE Separate
  <2>1. /\ Write(Separator) /\ UNCHANGED exists /\ pc = "separator"
        /\ \/ pc' = "iteration" /\ UNCHANGED todo
           \/ i >= Iter
    BY <1>4 DEF Separate, IInv, Types
  <2>2. \A couple \in All \ {Head(todo)} : files'[couple] = files[couple]
    BY <2>1, WriteOne
  <2>3. i >= Iter => Count(files'[Head(todo)], Separator) = Iter
    <3>1. Count(files'[Head(todo)], Separator) =
            Count(files[Head(todo)], Separator) + 1
      BY <2>1, WriteCount
    <3>2. i \in 1..Iter /\ Count(files[Head(todo)], Separator) = i - 1
      BY <2>1, EntriesCount DEF IInv, Working
    <3>3. QED
      BY <3>1, <3>2
  <2>4. exists \subseteq All
    BY DEF IInv, Types
  <2>5. SUFFICES ASSUME NEW couple \in exists,
                        Count(files'[couple], Separator) # Iter,
                        ~Current(couple)'
                 PROVE  couple \in Lost
    BY <2>1, EntriesCount DEF Lost, Complete
  <2>6. couple # Head(todo)
    BY <2>1, <2>3, <2>5 DEF Current
  <2>7. files'[couple] = files[couple]
    BY <2>2, <2>4, <2>6
  <2>8. QED
    BY <2>5, <2>6, <2>7, EntriesCount DEF Lost, Complete, Current
<1>5. QED
  BY <1>1, <1>2, <1>3, <1>4 DEF Script

(* A kill loses the file that is being written, and no other.              *)
LEMMA KillLoses ==
  ASSUME IInv, Kill
  PROVE  Lost' \subseteq Lost \union {Head(todo)}
<1>1. \A couple \in All \ {Head(todo)} : files'[couple] = files[couple]
  <2>1. CASE UNCHANGED files
    BY <2>1
  <2>2. CASE pc = "ftalat" /\ Write("part")
    <3>1. "part" \in Entry
      OBVIOUS
    <3>2. QED
      BY <2>2, <3>1, WriteOne
  <2>3. QED
    BY <2>1, <2>2 DEF Kill
<1>2. UNCHANGED exists
  BY DEF Kill
<1>3. QED
  BY <1>1, <1>2, EntriesCount DEF Lost, Complete, Current, IInv, Types

(* An orphan prints no separator: what was complete stays so, and what was *)
(* lost stays lost.                                                        *)
LEMMA OrphanLoses ==
  ASSUME IInv, OrphanEnds
  PROVE  Lost' = Lost
<1>1. \A couple \in All :
        Count(files'[couple], Separator) = Count(files[couple], Separator)
  <2>1. PICK couple \in orphans :
          /\ \A other \in All \ {couple} : files'[other] = files[other]
          /\ Count(files'[couple], Separator) = Count(files[couple], Separator)
    BY OrphanWrites
  <2>2. QED
    BY <2>1
<1>2. UNCHANGED <<pc, todo, exists>> /\ exists \subseteq All
  BY DEF OrphanEnds, IInv, Types
<1>3. \A couple \in exists : Complete(couple)' <=> Complete(couple)
  BY <1>1, <1>2, EntriesCount DEF Complete
<1>4. \A couple : Current(couple)' <=> Current(couple)
  BY <1>2 DEF Current
<1>5. QED
  BY <1>2, <1>3, <1>4 DEF Lost

(* However many couples there are, each kill costs at most one of them its *)
(* measurements (ftalat_runner.sh:61).                                     *)
THEOREM KillsLoseOneFile == Spec => []OneLossPerKill
<1>1. Init => LostInv
  BY FS_EmptySet DEF Init, Lost, LostInv
<1>2. IInv /\ LostInv /\ [Next]_vars => LostInv'
  <2> SUFFICES ASSUME IInv, LostInv, [Next]_vars PROVE LostInv'
    OBVIOUS
  <2>1. IInv'
    BY NextInv
  <2>2. /\ IsFiniteSet(Lost) /\ Cardinality(Lost) \in Nat
        /\ IsFiniteSet(Lost') /\ Cardinality(Lost') \in Nat
        /\ kills \in Nat /\ kills' \in Nat
    <3>1. IsFiniteSet(exists) /\ IsFiniteSet(exists') /\ kills \in Nat /\ kills' \in Nat
      BY <2>1 DEF IInv, Types
    <3>2. Lost \in SUBSET exists /\ Lost' \in SUBSET exists'
      BY DEF Lost
    <3>3. IsFiniteSet(Lost) /\ IsFiniteSet(Lost')
      BY <3>1, <3>2, FS_Subset
    <3>4. QED
      BY <3>1, <3>3, FS_CardinalityType
  <2>3. CASE Script
    <3>1. Cardinality(Lost') <= Cardinality(Lost)
      BY <2>2, <2>3, ScriptLoses, FS_Subset
    <3>2. UNCHANGED kills
      BY <2>3 DEF Script, Start, Skip, Measure, Open, RunFtalat, Separate, Finish
    <3>3. QED
      BY <2>2, <3>1, <3>2 DEF LostInv
  <2>4. CASE Kill
    <3>1. /\ IsFiniteSet(Lost \union {Head(todo)})
          /\ Cardinality(Lost \union {Head(todo)}) <= Cardinality(Lost) + 1
          /\ Cardinality(Lost \union {Head(todo)}) \in Nat
      <4> DEFINE more == Lost \union {Head(todo)}
      <4>1. /\ IsFiniteSet(more)
            /\ Cardinality(more) = IF Head(todo) \in Lost
                                   THEN Cardinality(Lost) ELSE Cardinality(Lost) + 1
        BY <2>2, FS_AddElement
      <4> HIDE DEF more
      <4>2. /\ Cardinality(more) <= Cardinality(Lost) + 1
            /\ Cardinality(more) \in Nat
        BY <2>2, <4>1
      <4>3. QED
        BY <4>1, <4>2 DEF more
    <3>2. Cardinality(Lost') <= Cardinality(Lost \union {Head(todo)})
      BY <2>4, <3>1, KillLoses, FS_Subset
    <3>3. kills' = kills + 1
      BY <2>4 DEF Kill
    <3>4. QED
      BY <2>2, <3>1, <3>2, <3>3 DEF LostInv
  <2>5. CASE UNCHANGED vars
    BY <2>5, EntriesCount DEF vars, LostInv, Lost, Complete, Current
  <2>6. CASE OrphanEnds
    BY <2>6, OrphanLoses DEF OrphanEnds, LostInv
  <2>7. QED
    BY <2>3, <2>4, <2>5, <2>6 DEF Next
<1>3. LostInv => OneLossPerKill
  BY DEF LostInv, Lost, OneLossPerKill
<1>4. QED
  BY InitInv, NextInv, <1>1, <1>2, <1>3, PTL DEF Spec

-----------------------------------------------------------------------------

(* The rank of a number in a finite set.                                   *)
Rank(T, f) == Cardinality({g \in T : g < f})

LEMMA RankIsMonotone ==
  ASSUME NEW T \in SUBSET Nat, IsFiniteSet(T), NEW f \in T
  PROVE  /\ Rank(T, f) \in 0 .. Cardinality(T) - 1
         /\ \A g \in T : g < f => Rank(T, g) < Rank(T, f)
<1> DEFINE below(x) == {g \in T : g < x}
<1>1. \A x \in T : /\ IsFiniteSet(below(x)) /\ Cardinality(below(x)) \in Nat
                   /\ Cardinality(below(x)) <= Cardinality(T)
                   /\ Cardinality(below(x)) = Cardinality(T) => below(x) = T
  <2>1. \A x \in T : below(x) \in SUBSET T
    OBVIOUS
  <2>2. QED
    BY <2>1, FS_Subset, FS_CardinalityType
<1>2. f \notin below(f) /\ Cardinality(T) \in Nat
  BY FS_CardinalityType
<1>3. Rank(T, f) \in 0 .. Cardinality(T) - 1
  BY <1>1, <1>2 DEF Rank
<1>4. ASSUME NEW g \in T, g < f PROVE Rank(T, g) < Rank(T, f)
  <2>1. below(g) \in SUBSET below(f) /\ g \in below(f) /\ g \notin below(g)
    <3>1. \A x \in T : x < g => x < f
      BY <1>4
    <3>2. ~(g < g)
      OBVIOUS
    <3>3. QED
      BY <1>4, <3>1, <3>2
  <2>2. /\ Cardinality(below(g)) <= Cardinality(below(f))
        /\ Cardinality(below(g)) = Cardinality(below(f)) => below(g) = below(f)
    BY <1>1, <2>1, FS_Subset
  <2>3. QED
    BY <1>1, <2>1, <2>2 DEF Rank
<1>5. QED
  BY <1>3, <1>4

(* For every rank there is one number of that rank.                        *)
LEMMA RankIsUnique ==
  ASSUME NEW T \in SUBSET Nat, IsFiniteSet(T)
  PROVE  /\ \A f, g \in T : Rank(T, f) = Rank(T, g) => f = g
         /\ \A r \in 0 .. Cardinality(T) - 1 : \E f \in T : Rank(T, f) = r
<1> DEFINE ranks == 0 .. Cardinality(T) - 1
           rank == [f \in T |-> Rank(T, f)]
<1>1. Cardinality(T) \in Nat
  BY FS_CardinalityType
<1>2. \A f, g \in T : Rank(T, f) = Rank(T, g) => f = g
  <2> SUFFICES ASSUME NEW f \in T, NEW g \in T, f # g
               PROVE  Rank(T, f) # Rank(T, g)
    OBVIOUS
  <2>1. f < g \/ g < f
    OBVIOUS
  <2>2. /\ Rank(T, f) \in ranks /\ Rank(T, g) \in ranks
        /\ g < f => Rank(T, g) < Rank(T, f)
        /\ f < g => Rank(T, f) < Rank(T, g)
    BY RankIsMonotone
  <2>3. QED
    BY <2>1, <2>2
<1>3. \A f \in T : Rank(T, f) \in ranks
  BY RankIsMonotone
<1>4. IsFiniteSet(ranks) /\ Cardinality(ranks) = Cardinality(T)
  <2>1. 0 \in Int /\ Cardinality(T) - 1 \in Int
    BY <1>1
  <2>2. /\ IsFiniteSet(ranks)
        /\ Cardinality(ranks) = IF 0 > Cardinality(T) - 1 THEN 0
                                ELSE Cardinality(T) - 1 - 0 + 1
    BY <2>1, FS_Interval
  <2> HIDE DEF ranks
  <2>3. QED
    BY <1>1, <2>2
<1>5. rank \in Injection(T, ranks)
  BY <1>2, <1>3 DEF Injection, IsInjective
<1> HIDE DEF ranks
<1>6. rank \in Surjection(T, ranks)
  BY <1>4, <1>5, FS_Injection
<1>7. \A r \in ranks : \E f \in T : rank[f] = r
  BY <1>6 DEF Surjection
<1>8. QED
  BY <1>2, <1>7 DEF ranks

(* What sort -g gives and sed leaves are the frequencies of the file.      *)
LEMMA FrequenciesOfFile ==
  /\ FREQUENCIES \in Seq(Nat \ {0})
  /\ ToSet(FREQUENCIES) = ToSet(FreqFile)
<1> DEFINE s == Append(FreqFile, Blank)
           T == ToSet(s)
           m == Len(s)
           A == Ascending(s)
<1>1. /\ s \in Seq(Nat) /\ m = Len(FreqFile) + 1 /\ Len(FreqFile) \in Nat
      /\ \A k \in 1 .. Len(FreqFile) : s[k] = FreqFile[k]
      /\ s[m] = 0
  BY FreqAssumption, AppendProperties DEF Blank
<1>2. T = ToSet(FreqFile) \union {0} /\ ToSet(FreqFile) \subseteq Nat \ {0}
  <2>1. DOMAIN s = 1 .. m /\ DOMAIN FreqFile = 1 .. Len(FreqFile)
    BY <1>1, FreqAssumption
  <2>2. \A k : k \in 1 .. m <=> k \in 1 .. Len(FreqFile) \/ k = m
    BY <1>1
  <2>3. QED
    BY <1>1, <2>1, <2>2, FreqAssumption DEF ToSet
<1>3. IsFiniteSet(T) /\ Cardinality(T) = m
  <2> DEFINE value == [k \in 1 .. m |-> s[k]]
  <2>1. \A j, k \in 1 .. Len(FreqFile) : FreqFile[j] = FreqFile[k] => j = k
    BY FreqAssumption DEF IsInjective
  <2>2. \A k \in 1 .. Len(FreqFile) : FreqFile[k] # 0
    BY FreqAssumption
  <2>3. \A j, k \in 1 .. m : s[j] = s[k] => j = k
    BY SMTT(20), <1>1, <2>1, <2>2
  <2>4. value \in Bijection(1 .. m, T)
    <3>1. T = {s[k] : k \in 1 .. m}
      BY <1>1 DEF ToSet
    <3>2. QED
      BY <2>3, <3>1 DEF Bijection, Injection, Surjection, IsInjective
  <2>5. IsFiniteSet(1 .. m) /\ Cardinality(1 .. m) = m
    BY <1>1, FS_Interval
  <2>6. QED
    BY <2>4, <2>5, FS_Bijection DEF ExistsBijection
<1>4. T \in SUBSET Nat /\ m \in Nat \ {0}
  <2>1. m \in Nat \ {0}
    BY <1>1
  <2> HIDE DEF T
  <2>2. QED
    BY <1>2, <2>1
<1>5. /\ \A f, g \in T : Rank(T, f) = Rank(T, g) => f = g
      /\ \A r \in 0 .. m - 1 : \E f \in T : Rank(T, f) = r
      /\ \A f \in T : Rank(T, f) \in 0 .. m - 1
  BY <1>3, <1>4, RankIsUnique, RankIsMonotone
<1>6. A = [n \in 1 .. m |-> CHOOSE f \in T : Rank(T, f) = n - 1]
  BY DEF Ascending, Rank
<1> HIDE DEF T, A, m
<1>7. \A n \in 1 .. m : A[n] \in T /\ Rank(T, A[n]) = n - 1
  BY <1>4, <1>5, <1>6
<1>8. \A f \in T : Rank(T, f) + 1 \in 1 .. m /\ A[Rank(T, f) + 1] = f
  <2> TAKE f \in T
  <2>1. Rank(T, f) + 1 \in 1 .. m /\ (Rank(T, f) + 1) - 1 = Rank(T, f)
    BY <1>4, <1>5
  <2>2. QED
    BY <1>5, <1>7, <2>1
<1>9. Rank(T, 0) = 0 /\ 0 \in T
  <2>1. \A g \in T : ~(g < 0)
    BY <1>4
  <2>2. {g \in T : g < 0} = {}
    BY <2>1
  <2>3. QED
    BY <1>2, <2>2, FS_EmptySet DEF Rank, T
<1>10. A \in Seq(T) /\ Len(A) = m /\ A # <<>>
  <2>1. A \in [1 .. m -> T]
    BY <1>6, <1>7
  <2>2. A \in Seq(T) /\ Len(A) = m
    BY <1>4, <2>1, FunctionIsSeq
  <2>3. QED
    BY <1>4, <2>2
<1>11. /\ FREQUENCIES \in Seq(T) /\ Len(FREQUENCIES) = m - 1
       /\ \A n \in 1 .. m - 1 : FREQUENCIES[n] = A[n + 1]
  <2>1. FREQUENCIES = Tail(A)
    BY DEF FREQUENCIES, A
  <2>2. QED
    BY <1>10, <2>1, HeadTailProperties
<1>12. \A n \in 1 .. m - 1 : FREQUENCIES[n] \in T \ {0}
  <2> TAKE n \in 1 .. m - 1
  <2>1. n + 1 \in 1 .. m /\ n + 1 - 1 # 0
    BY <1>4
  <2>2. QED
    BY <1>7, <1>9, <1>11, <2>1
<1>13. \A f \in T \ {0} : \E n \in 1 .. m - 1 : FREQUENCIES[n] = f
  <2> TAKE f \in T \ {0}
  <2>1. Rank(T, f) # 0
    BY <1>5, <1>9
  <2>2. Rank(T, f) \in 1 .. m - 1
    BY <1>4, <1>5, <2>1
  <2>3. QED
    BY <1>8, <1>11, <2>2
<1>14. DOMAIN FREQUENCIES = 1 .. m - 1
  BY <1>11
<1>15. T \ {0} = ToSet(FreqFile) /\ T \ {0} \subseteq Nat \ {0}
  BY <1>2
<1>16. FREQUENCIES \in Seq(Nat \ {0})
  <2>1. FREQUENCIES \in [1 .. m - 1 -> Nat \ {0}]
    BY <1>11, <1>12, <1>14, <1>15
  <2>2. m - 1 \in Nat
    BY <1>4
  <2>3. QED
    BY <2>1, <2>2, FunctionIsSeq
<1>17. QED
  <2>1. ToSet(FREQUENCIES) = {FREQUENCIES[n] : n \in 1 .. m - 1}
    BY <1>14 DEF ToSet
  <2>2. ToSet(FREQUENCIES) = T \ {0}
    BY <1>12, <1>13, <2>1
  <2>3. QED
    BY <1>15, <1>16, <2>2

(* Where the two loops meet a couple.                                      *)
LEMMA DivMod ==
  \A a, l \in Nat : \A b \in 0 .. l - 1 :
    (a * l + b) \div l = a /\ (a * l + b) % l = b
OBVIOUS

LEMMA AllCouples ==
  \A couple : couple \in All <=>
    couple \in ToSet(FreqFile) \X ToSet(FreqFile)
<1> DEFINE F == FREQUENCIES
           len == Len(F)
           S == ToSet(FreqFile)
<1>1. F \in Seq(Nat \ {0}) /\ len \in Nat /\ DOMAIN F = 1 .. len /\ S = {F[k] : k \in 1 .. len}
  <2>1. F \in Seq(Nat \ {0}) /\ ToSet(F) = S
    BY FrequenciesOfFile
  <2>2. len \in Nat /\ DOMAIN F = 1 .. len
    BY <2>1
  <2>3. QED
    BY <2>1, <2>2 DEF ToSet
<1>2. Couples = [n \in 1 .. len * len |->
                  <<F[1 + ((n - 1) \div len)], F[1 + ((n - 1) % len)]>>]
  BY DEF Couples
<1>3. All = {Couples[n] : n \in 1 .. len * len}
  BY <1>2 DEF All, ToSet
<1> HIDE DEF F, S, len
<1>4. ASSUME NEW n \in 1 .. len * len
      PROVE  Couples[n] \in S \X S
  <2>1. len * len \in Nat /\ n - 1 \in Nat /\ len # 0 /\ n - 1 < len * len
    <3>1. len * len \in Nat /\ len * len >= 1
      BY <1>1
    <3>2. len # 0
      BY <3>1
    <3>3. QED
      BY <1>1, <3>1, <3>2
  <2>2. (n - 1) % len \in 0 .. len - 1
    BY <1>1, <2>1
  <2>3. (n - 1) \div len \in 0 .. len - 1
    BY <1>1, <2>1
  <2>4. 1 + ((n - 1) % len) \in 1 .. len /\ 1 + ((n - 1) \div len) \in 1 .. len
    BY <1>1, <2>2, <2>3
  <2>5. QED
    BY <1>1, <1>2, <2>4
<1>5. ASSUME NEW p \in 1 .. len, NEW q \in 1 .. len
      PROVE  <<F[p], F[q]>> \in All
  <2> DEFINE n == ((p - 1) * len + (q - 1)) + 1
  <2>1. p - 1 \in 0 .. len - 1 /\ q - 1 \in 0 .. len - 1 /\ n - 1 = (p - 1) * len + (q - 1)
    BY <1>1
  <2>2. n \in 1 .. len * len
    <3>1. (p - 1) * len \in Nat /\ (p - 1) * len + len <= len * len
      BY <1>1
    <3>2. len * len \in Nat
      BY <1>1
    <3>3. QED
      BY <1>1, <3>1, <3>2
  <2>3. ((n - 1) \div len) = p - 1 /\ ((n - 1) % len) = q - 1
    <3>1. p - 1 \in Nat
      BY <2>1
    <3>2. \A b \in 0 .. len - 1 : /\ ((p - 1) * len + b) \div len = p - 1
                                 /\ ((p - 1) * len + b) % len = b
      BY <1>1, <3>1, DivMod
    <3>3. /\ ((p - 1) * len + (q - 1)) \div len = p - 1
          /\ ((p - 1) * len + (q - 1)) % len = q - 1
      BY <2>1, <3>2
    <3> HIDE DEF n
    <3>4. QED
      BY <2>1, <3>3
  <2> HIDE DEF n
  <2>4. Couples[n] = <<F[1 + (p - 1)], F[1 + (q - 1)]>>
    BY <1>2, <2>2, <2>3
  <2>5. QED
    BY <1>1, <1>3, <2>2, <2>4
<1>6. QED
  <2>1. ASSUME NEW couple \in S \X S PROVE couple \in All
    BY <1>1, <1>5
  <2>2. ASSUME NEW couple \in All PROVE couple \in S \X S
    BY <1>3, <1>4
  <2>3. QED
    BY <2>1, <2>2 DEF S

-----------------------------------------------------------------------------

(* The script is before the couples from the n-th on; those it has behind  *)
(* it and wants have a file.                                               *)
At(n) ==
  /\ todo = SubSeq(Couples, n + 1, Len(Couples))
  /\ \A m \in 1 .. n : Couples[m] \in Wanted => Couples[m] \in exists

Progress ==
  /\ ida \in BOOLEAN /\ i <= Iter /\ kills <= MaxKills
  /\ exists \subseteq Wanted
  /\ pc \in Busy => Head(todo) \in Wanted
  /\ pc \in {"start", "finished"} => todo = <<>>
  /\ pc # "start" => \E n \in 0 .. Len(Couples) : At(n)

LEMMA WantedCouple ==
  ida \in BOOLEAN => \A couple \in All :
    couple \in Wanted <=>
      couple[1] # couple[2] /\ turbo \notin {couple[1], couple[2]}
<1> SUFFICES ASSUME ida \in BOOLEAN, NEW couple \in All
             PROVE  couple \in Wanted <=>
                      couple[1] # couple[2] /\ turbo \notin {couple[1], couple[2]}
  OBVIOUS
<1>1. couple \in ToSet(FreqFile) \X ToSet(FreqFile)
  BY AllCouples
<1>2. 0 \notin ToSet(FreqFile)
  BY FreqAssumption DEF ToSet
<1>3. CASE ida
  BY <1>1, <1>3 DEF Wanted, turbo
<1>4. CASE ~ida
  BY <1>1, <1>2, <1>4 DEF Wanted, turbo
<1>5. QED
  BY <1>3, <1>4

LEMMA LeftToDo ==
  ASSUME NEW n \in 0 .. Len(Couples), At(n)
  PROVE  /\ todo = <<>> => n = Len(Couples)
         /\ todo # <<>> => /\ n < Len(Couples)
                           /\ Head(todo) = Couples[n + 1]
                           /\ Tail(todo) = SubSeq(Couples, n + 2, Len(Couples))
<1>1. Couples \in Seq(All) /\ Len(Couples) \in Nat
  BY CouplesType
<1>2. todo = SubSeq(Couples, n + 1, Len(Couples))
  BY DEF At
<1>3. CASE n = Len(Couples)
  <2>1. SubSeq(Couples, n + 1, Len(Couples)) = <<>>
    BY <1>1, <1>3, SubSeqEmpty
  <2>2. QED
    BY <1>2, <1>3, <2>1
<1>4. CASE n < Len(Couples)
  <2>1. n + 1 \in 1 .. Len(Couples) /\ Len(Couples) \in n + 1 .. Len(Couples)
    BY <1>1, <1>4
  <2>2. /\ Head(todo) = Couples[n + 1]
        /\ Tail(todo) = SubSeq(Couples, (n + 1) + 1, Len(Couples))
    BY <1>1, <1>2, <2>1, HeadTailOfSubSeq
  <2>3. todo # <<>>
    <3>1. \A k \in n + 1 .. Len(Couples) : Couples[k] \in All
      BY <1>1
    <3>2. Len(todo) = Len(Couples) - (n + 1) + 1
      BY <1>1, <1>2, <2>1, <3>1, SubSeqProperties
    <3>3. QED
      BY <1>1, <1>4, <3>2
  <2>4. (n + 1) + 1 = n + 2
    OBVIOUS
  <2>5. QED
    BY <1>4, <2>2, <2>3, <2>4
<1>5. QED
  BY <1>1, <1>3, <1>4

(* A couple is behind the script when it is not wanted or has a file.      *)
LEMMA Advance ==
  ASSUME NEW n \in 0 .. Len(Couples), At(n), todo # <<>>,
         todo' = Tail(todo), ida' = ida, exists' = exists,
         Head(todo) \in Wanted => Head(todo) \in exists
  PROVE  \E k \in 0 .. Len(Couples) : At(k)'
<1>1. Len(Couples) \in Nat
  BY CouplesType
<1>2. /\ n + 1 \in 0 .. Len(Couples) /\ (n + 1) + 1 = n + 2
      /\ Head(todo) = Couples[n + 1]
      /\ todo' = SubSeq(Couples, n + 2, Len(Couples))
  BY <1>1, LeftToDo
<1>3. \A m \in 1 .. n + 1 : m \in 1 .. n \/ m = n + 1
  OBVIOUS
<1>4. Wanted' = Wanted
  BY DEF Wanted
<1>5. At(n + 1)'
  BY <1>2, <1>3, <1>4 DEF At
<1>6. QED
  BY <1>2, <1>5

LEMMA StartAtFirst ==
  ASSUME todo' = Couples
  PROVE  \E n \in 0 .. Len(Couples) : At(n)'
<1>1. Couples \in Seq(All) /\ Len(Couples) \in Nat
  BY CouplesType
<1>2. SubSeq(Couples, 0 + 1, Len(Couples)) = Couples
  BY <1>1, SubSeqFull
<1>3. At(0)'
  BY <1>2 DEF At
<1>4. QED
  BY <1>1, <1>3

(* The couples stay where they are when none is finished and no file goes. *)
LEMMA StayAt ==
  ASSUME NEW n \in 0 .. Len(Couples), At(n), todo' = todo, ida' = ida,
         exists \subseteq exists'
  PROVE  \E k \in 0 .. Len(Couples) : At(k)'
<1>1. Wanted' = Wanted
  BY DEF Wanted
<1>2. At(n)'
  BY <1>1 DEF At
<1>3. QED
  BY <1>2

LEMMA ProgressInv ==
  ASSUME IInv, IInv', Progress, [Next]_vars
  PROVE  Progress'
<1>t. /\ todo \in Seq(All) /\ i \in Nat /\ kills \in Nat /\ ida' = ida
      /\ ida \in BOOLEAN /\ i <= Iter /\ kills <= MaxKills
      /\ exists \subseteq Wanted /\ Wanted' = Wanted
  BY DEF IInv, Types, Progress, Next, Script, Start, Skip, Measure, Open, RunFtalat,
         Separate, Finish, Kill, OrphanEnds, vars, Wanted
<1>1. CASE Start
  <2>1. \E n \in 0 .. Len(Couples) : At(n)'
    BY <1>1, StartAtFirst DEF Start
  <2>2. QED
    BY <1>1, <1>t, <2>1 DEF Start, Progress
<1>2. CASE Skip
  <2>1. Head(todo) \in All
    BY <1>2, <1>t, HeadTailProperties DEF Skip
  <2>2. Head(todo) \in Wanted => Head(todo) \in exists
    BY <1>2, <1>t, <2>1, WantedCouple DEF Skip, Skipped
  <2>3. \E n \in 0 .. Len(Couples) : At(n)'
    BY <1>2, <2>2, Advance DEF Skip, Progress
  <2>4. QED
    BY <1>2, <1>t, <2>3 DEF Skip, Progress
<1>3. CASE Measure
  <2>1. Head(todo) \in All
    BY <1>3, <1>t, HeadTailProperties DEF Measure
  <2>2. Head(todo) \in Wanted
    BY <1>3, <1>t, <2>1, WantedCouple DEF Measure, Skipped
  <2>3. \E n \in 0 .. Len(Couples) : At(n)'
    BY <1>3, StayAt DEF Measure, Progress
  <2>4. QED
    BY <1>3, <1>t, <2>2, <2>3 DEF Measure, Progress
<1>4. CASE Open
  <2>1. \E n \in 0 .. Len(Couples) : At(n)'
    BY <1>4, StayAt DEF Open, Progress
  <2>2. QED
    BY <1>4, <1>t, <2>1 DEF Open, Progress
<1>5. CASE RunFtalat
  <2>1. \E n \in 0 .. Len(Couples) : At(n)'
    BY <1>5, StayAt DEF RunFtalat, Progress
  <2>2. QED
    BY <1>5, <1>t, <2>1 DEF RunFtalat, Progress
<1>6. CASE Separate
  <2>1. /\ todo # <<>> /\ Head(todo) \in exists /\ Head(todo) \in Wanted
        /\ \E n \in 0 .. Len(Couples) : At(n)
    BY <1>6 DEF Separate, IInv, Working, Progress
  <2>2. CASE i < Iter
    <3>1. \E n \in 0 .. Len(Couples) : At(n)'
      BY <1>6, <2>1, <2>2, StayAt DEF Separate
    <3>2. QED
      BY <1>6, <1>t, <2>1, <2>2, <3>1 DEF Separate, Progress
  <2>3. CASE ~(i < Iter)
    <3>1. \E n \in 0 .. Len(Couples) : At(n)'
      BY <1>6, <2>1, <2>3, <1>t, Advance DEF Separate
    <3>2. QED
      BY <1>6, <1>t, <2>1, <2>3, <3>1 DEF Separate, Progress
  <2>4. QED
    BY <2>2, <2>3
<1>7. CASE Finish
  <2>1. \E n \in 0 .. Len(Couples) : At(n)'
    BY <1>7, StayAt DEF Finish, Progress
  <2>2. QED
    BY <1>7, <1>t, <2>1 DEF Finish, Progress
<1>8. CASE Kill
  BY <1>8, <1>t DEF Kill, Progress
<1>9. CASE UNCHANGED vars
  <2>1. pc # "start" => \E n \in 0 .. Len(Couples) : At(n)'
    BY <1>9, StayAt DEF vars, Progress
  <2>2. QED
    BY <1>9, <1>t, <2>1 DEF vars, Progress
<1>10. CASE OrphanEnds
  <2>1. pc # "start" => \E n \in 0 .. Len(Couples) : At(n)'
    BY <1>10, StayAt DEF OrphanEnds, Progress
  <2>2. QED
    BY <1>10, <1>t, <2>1 DEF OrphanEnds, Progress
<1>11. QED
  BY <1>1, <1>2, <1>3, <1>4, <1>5, <1>6, <1>7, <1>8, <1>9, <1>10 DEF Next, Script

THEOREM SpecProgress == Spec => [](IInv /\ Progress)
<1>1. Init => Progress
  BY DEF Init, Progress
<1>2. IInv /\ IInv' /\ Progress /\ [Next]_vars => Progress'
  BY ProgressInv
<1>3. QED
  BY InitInv, NextInv, <1>1, <1>2, PTL DEF Spec

(* Whatever the frequencies, their order in the file and the number of     *)
(* starts are, the script keeps files for couples of its frequencies only, *)
(* what it has left to do is always the rest of its loops, and a kill      *)
(* leaves no loop counter out of range (ftalat_runner.sh:38-68).           *)
THEOREM TypeCorrect == Spec => []TypeOK
<1>1. IInv /\ Progress => TypeOK
  <2> SUFFICES ASSUME IInv, Progress PROVE TypeOK
    OBVIOUS
  <2>1. Couples \in Seq(All) /\ Len(Couples) \in Nat
    BY CouplesType
  <2>2. \E n \in 0 .. Len(Couples) : todo = SubSeq(Couples, n + 1, Len(Couples))
    <3>1. CASE pc = "start"
      <4>1. SubSeq(Couples, Len(Couples) + 1, Len(Couples)) = <<>>
        BY <2>1, SubSeqEmpty
      <4>2. QED
        BY <2>1, <3>1, <4>1 DEF Progress
    <3>2. CASE pc # "start"
      BY <3>2 DEF Progress, At
    <3>3. QED
      BY <3>1, <3>2
  <2>3. i \in 0 .. Iter /\ kills \in 0 .. MaxKills
    BY DEF IInv, Types, Progress
  <2>4. QED
    BY <2>2, <2>3 DEF IInv, Types, Progress, TypeOK, All
<1>2. QED
  BY SpecProgress, <1>1, PTL

(* For every list of frequencies, in whatever order, and however often the *)
(* script was killed before, once it finishes there is a file for every    *)
(* couple of different frequencies below turbo and for no other: sort and  *)
(* the two loops lose none (ftalat_runner.sh:24 and 38-57).                *)
THEOREM EveryCoupleHasAFile == Spec => []EveryCouple
<1>1. IInv /\ Progress => EveryCouple
  <2> SUFFICES ASSUME IInv, Progress, pc = "finished", NEW couple \in Wanted
               PROVE  couple \in exists
    BY DEF EveryCouple, Progress
  <2>1. couple \in All
    BY AllCouples DEF Wanted
  <2>2. PICK n \in 0 .. Len(Couples) : At(n)
    BY DEF Progress
  <2>3. n = Len(Couples)
    BY <2>2, LeftToDo DEF Progress
  <2>4. PICK m \in 1 .. Len(Couples) : couple = Couples[m]
    <3>1. DOMAIN Couples = 1 .. Len(Couples)
      BY CouplesType
    <3>2. QED
      BY <2>1, <3>1 DEF All, ToSet
  <2>5. QED
    BY <2>2, <2>3, <2>4 DEF At
<1>2. QED
  BY SpecProgress, <1>1, PTL

=============================================================================
