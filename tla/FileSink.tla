------------------------------ MODULE FileSink ------------------------------
(***************************************************************************)
(* The rotating log file: FileSink::write(), flush(), the steps of         *)
(* rotate(), the constructor and destructor, and crashes of the process    *)
(* between any two of them.  write() holds mu_ until its rotation is done, *)
(* which is what step # 0 stands for.                                      *)
(*                                                                         *)
(* A line is a record with its size; the stdio buffer reaches the disk     *)
(* whole lines at a time.  An absent file is an empty one: rotate() never  *)
(* renames an empty file.  Renames that fail though the file exists are    *)
(* left out, as are full disks.                                            *)
(***************************************************************************)
EXTENDS Naturals, Sequences, SequencesExt, FiniteSetsExt, Pieces

CONSTANTS
    Lines,           \* what may be logged: records with a field size
    MaxFileSize,     \* config_.maxFileSize
    MaxFilesChoices, \* values of config_.maxFiles
    MaxCrashes       \* bound: ends of the process

MaxLine == Max({l.size : l \in Lines})

(* There is a longest line, and a file may hold something. *)
ASSUME SinkAssumption ==
    /\ Lines # {} /\ MaxLine \in Nat
    /\ \A l \in Lines : l.size \in Nat /\ l.size <= MaxLine
    /\ MaxFileSize \in Nat \ {0} /\ MaxFilesChoices \subseteq Nat /\ MaxCrashes \in Nat

VARIABLES
    maxFiles,  \* config_.maxFiles
    files,     \* on disk: files[0] is config_.path, files[i] is rotatedPath(i)
    open,      \* file_ # nullptr
    buffer,    \* lines in the buffer of file_
    size,      \* currentSize_
    step,      \* rotate(): maxFiles + 2 before fclose(), i: files i.. are shifted
    logged,    \* ghost: the lines written, without those a crash lost
    crashes    \* ghost: ends of the process so far

sinkVars == <<maxFiles, files, open, buffer, size, step, logged, crashes>>

Slots == 0..Max({1, maxFiles})
SizeOf(s) == SumSeq([i \in DOMAIN s |-> s[i].size])

(* openFile(): append to what is there; fopen() may fail. *)
OpenFile(onDisk) ==
    \/ open' = TRUE /\ size' = SizeOf(onDisk)
    \/ open' = FALSE /\ size' = 0

SinkInit ==
    /\ maxFiles \in MaxFilesChoices
    /\ files = [i \in Slots |-> <<>>]
    /\ open = TRUE /\ buffer = <<>> /\ size = 0 /\ step = 0
    /\ logged = <<>> /\ crashes = 0

(* write(): without a file the line is dropped. *)
WriteLine(l) ==
    /\ step = 0
    /\ IF open
       THEN /\ buffer' = Append(buffer, l)
            /\ size' = size + l.size
            /\ step' = IF size' < MaxFileSize THEN 0 ELSE maxFiles + 2
            /\ logged' = Append(logged, l)
       ELSE UNCHANGED <<buffer, size, step, logged>>
    /\ UNCHANGED <<maxFiles, files, open, crashes>>

(* Mutant of RotateClose: the oldest file is taken to be the one before it. *)
RotateCloseOneOff ==
    /\ step = maxFiles + 2
    /\ files' = [i \in Slots |-> CASE i = 0 -> files[0] \o buffer
                                   [] i > 0 /\ i = maxFiles - 1 -> <<>>
                                   [] OTHER -> files[i]]
    /\ open' = FALSE /\ buffer' = <<>>
    /\ step' = Max({1, maxFiles})
    /\ UNCHANGED <<maxFiles, size, logged, crashes>>

(* rotate(): close the file, which flushes it, and delete the oldest one. *)
RotateClose ==
    /\ step = maxFiles + 2
    /\ files' = [i \in Slots |-> CASE i = 0 -> files[0] \o buffer
                                   [] i > 0 /\ i = maxFiles -> <<>>
                                   [] OTHER -> files[i]]
    /\ open' = FALSE /\ buffer' = <<>>
    /\ step' = Max({1, maxFiles})
    /\ UNCHANGED <<maxFiles, size, logged, crashes>>

(* fs::rename(): nothing happens when the source is missing. *)
Rename(fs, src, dst) ==
    IF fs[src] = <<>> THEN fs ELSE [fs EXCEPT ![dst] = fs[src], ![src] = <<>>]

RotateShift ==
    /\ 2 <= step /\ step <= maxFiles
    /\ files' = Rename(files, step - 1, step)
    /\ step' = step - 1
    /\ UNCHANGED <<maxFiles, open, buffer, size, logged, crashes>>

RotateOpen ==
    /\ step = 1 /\ ~open
    /\ files' = Rename(files, 0, 1)
    /\ OpenFile(files'[0])
    /\ step' = 0
    /\ UNCHANGED <<maxFiles, buffer, logged, crashes>>

Rotate == RotateClose \/ RotateShift \/ RotateOpen

(* stdio writes lines out when it likes. *)
Spill ==
    /\ \E n \in 1..Len(buffer) :
          /\ files' = [files EXCEPT ![0] = @ \o SubSeq(buffer, 1, n)]
          /\ buffer' = SubSeq(buffer, n + 1, Len(buffer))
    /\ UNCHANGED <<maxFiles, open, size, step, logged, crashes>>

Flush ==
    /\ step = 0
    /\ files' = [files EXCEPT ![0] = @ \o buffer]
    /\ buffer' = <<>>
    /\ UNCHANGED <<maxFiles, open, size, step, logged, crashes>>

(* The process ends and another one takes the file over: by the destructor,  *)
(* with everything written, or by a crash, at any step, with the buffer lost.*)
Reopen(kept) ==
    /\ crashes < MaxCrashes
    /\ files' = [files EXCEPT ![0] = @ \o kept]
    /\ OpenFile(files'[0])
    /\ buffer' = <<>> /\ step' = 0 /\ crashes' = crashes + 1
    /\ logged' = SubSeq(logged, 1, Len(logged) - Len(buffer) + Len(kept))
    /\ UNCHANGED maxFiles

Destroy == step = 0 /\ Reopen(buffer)

Crash == Reopen(<<>>)

-----------------------------------------------------------------------------
(* What the files hold, oldest first, then what is still buffered. *)
Log ==
    LET n == Max(Slots)
    IN  FlattenSeq([i \in 1..(n + 1) |-> files[n + 1 - i]]) \o buffer

(* Whatever rotations, crashes and restarts there were, the files and the    *)
(* buffer hold the latest of the lines, in order and without a gap.  While   *)
(* the process lives a line is only given up for a full set of rotated       *)
(* files, and a file outgrows the limit by less than a line; each crash      *)
(* before a rename may leave it one line more.                               *)
LogContiguous ==
    /\ IsSuffix(Log, logged)
    /\ (crashes = 0 /\ step = 0 /\ Log # logged) => \A i \in Slots \ {0} : files[i] # <<>>
    /\ \A i \in Slots : SizeOf(files[i]) < MaxFileSize + (crashes + 1) * MaxLine

(* At most maxFiles rotated files are kept; the README has the case that     *)
(* fails.                                                                    *)
RotatedBounded == Cardinality({i \in Slots \ {0} : files[i] # <<>>}) <= maxFiles
=============================================================================
