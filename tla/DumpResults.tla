------------------------------ MODULE DumpResults ------------------------------
(***************************************************************************)
(* The trace of ftalat (src/ftalat/dumpResults.c, compiled with _DUMP): a  *)
(* file and a buffer in front of it.  Only what goes through them is       *)
(* modelled; of a sample it keeps whatever its writer passes, although the *)
(* buffer has room for the low half of a time only.                        *)
(***************************************************************************)
EXTENDS Naturals, Sequences

VARIABLES
  opened,        \* which of pDumpFile and pBuf are not null
  bufCapacity,
  buf,           \* the first bufSize elements of pBuf
  dumpFile       \* the lines of the file

dumpVars == <<opened, bufCapacity, buf, dumpFile>>

InitDump ==
  /\ opened = {}
  /\ bufCapacity = 0
  /\ buf = <<>>
  /\ dumpFile = <<>>

(* fopen() empties the file; it, or malloc() after it, may fail.           *)
openDump(bufferSize) ==
  /\ opened' \in {{}, {"file"}, {"file", "buf"}}
  /\ bufCapacity' = IF "buf" \in opened' THEN bufferSize ELSE bufCapacity
  /\ dumpFile' = <<>>
  /\ UNCHANGED buf

(* Prints what the buffer holds, if there is a buffer and a file.          *)
flushDump(held) ==
  IF opened = {"file", "buf"}
  THEN dumpFile' = dumpFile \o held /\ buf' = <<>>
  ELSE buf' = held /\ UNCHANGED dumpFile

writeDump(sample) ==
  /\ IF "buf" \notin opened
     THEN UNCHANGED <<buf, dumpFile>>
     ELSE IF Len(buf) + 1 >= bufCapacity
     THEN flushDump(Append(buf, sample))
     ELSE buf' = Append(buf, sample) /\ UNCHANGED dumpFile
  /\ UNCHANGED <<opened, bufCapacity>>

(* The buffer is emptied; the file stays as it is, and is not rewound.     *)
resetDump ==
  /\ buf' = <<>>
  /\ UNCHANGED <<opened, bufCapacity, dumpFile>>

(* What is left is printed.                                                *)
closeDump ==
  /\ flushDump(buf)
  /\ UNCHANGED <<opened, bufCapacity>>

=============================================================================
