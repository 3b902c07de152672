----------------------------- MODULE LogManager -----------------------------
(***************************************************************************)
(* The default log manager of stable objects (stable/src/LogManager.m3):   *)
(* the files of one directory, and one operator per call of the file       *)
(* system between which the program may crash.  The file system keeps what *)
(* the program wrote to it, in order, when the program crashes.            *)
(*                                                                         *)
(* A checkpoint is the sequence of the updates it includes, the log is the *)
(* sequence of the call records a reader finds before it meets the end of  *)
(* the file or a record without its EndCallMark.                           *)
(***************************************************************************)
EXTENDS Integers, Sequences

CONSTANT DirectorySize   \* the size FS.Status reports for the directory

ASSUME DirectoryAssumption == DirectorySize \in Nat

VARIABLES
  files,  \* the files that exist
  data,   \* the contents of the checkpoint files
  log,    \* the readable records of the log
  tail    \* "cut": half of the writer's next record follows them; "torn":
          \* half of a record of a program that crashed does

disk == <<files, data, log, tail>>

Checkpoints == {"checkpoint", "old", "new"}
Files == Checkpoints \cup {"dummy", "log"}

DiskOK ==
  /\ files \in SUBSET Files
  /\ data \in [Checkpoints -> Seq(Nat)]
  /\ log \in Seq(Nat)
  /\ tail \in {"whole", "cut", "torn"}

DiskInit ==
  /\ files = {}
  /\ data = [f \in Checkpoints |-> <<>>]
  /\ log = <<>>
  /\ tail = "whole"

\* TestFile
Has(f) == f \in files

Rename(f, g) ==
  /\ Has(f)
  /\ files' = (files \ {f}) \cup {g}
  /\ data' = [data EXCEPT ![g] = data[f]]
  /\ UNCHANGED <<log, tail>>

CreateFile(f) == files' = files \cup {f} /\ UNCHANGED <<data, log, tail>>
DeleteFile(f) == files' = files \ {f} /\ UNCHANGED <<data, log, tail>>

-----------------------------------------------------------------------------
(* Checkpoints.                                                            *)

\* Faults: the backup gets a name that Recover does not know; or is not made.
SaveBackupMisnamed ==
  \/ Has("checkpoint") /\ Rename("checkpoint", "backup")
  \/ ~Has("checkpoint") /\ CreateFile("dummy")
SaveNothing == UNCHANGED disk

\* BeginCheckpoint keeps the old checkpoint, or notes that there is none.
SaveBackup ==
  \/ Has("checkpoint") /\ Rename("checkpoint", "old")
  \/ ~Has("checkpoint") /\ CreateFile("dummy")

OpenNew ==
  /\ files' = files \cup {"new"}
  /\ data' = [data EXCEPT !["new"] = <<>>]
  /\ UNCHANGED <<log, tail>>

WriteNew(state) ==
  /\ data' = [data EXCEPT !["new"] = state]
  /\ UNCHANGED <<files, log, tail>>

\* EndCheckpoint: the new checkpoint gets its name, ...
CommitNew == Rename("new", "checkpoint")

\* Fault: the new log is opened for appending.
TruncateNothing == CreateFile("log")

\* ... the log is emptied, ...
TruncateLog ==
  /\ files' = files \cup {"log"}
  /\ log' = <<>>
  /\ tail' = "whole"
  /\ UNCHANGED data

\* ... and the backup, or the note that there is none, is deleted.
DropBackup ==
  \/ Has("dummy") /\ DeleteFile("dummy")
  \/ ~Has("dummy") /\ Has("old") /\ DeleteFile("old")

-----------------------------------------------------------------------------
(* The log.                                                                *)

\* Fault: the log is opened for writing from its start.
ReOpenTruncated == TruncateLog

ReOpenLog == CreateFile("log")

\* The writer's records reach the file.  A reader does not get past the torn
\* record of an earlier program.
AppendToLog(records) ==
  /\ IF tail = "torn" THEN UNCHANGED <<log, tail>>
     ELSE log' = log \o records /\ tail' = "whole"
  /\ UNCHANGED <<files, data>>

DeleteLog ==
  /\ files' = files \ {"log"}
  /\ log' = <<>>
  /\ tail' = "whole"
  /\ UNCHANGED data

-----------------------------------------------------------------------------
(* Recovery.                                                               *)

Recoverable == Has("checkpoint") \/ Has("old")

\* Fault: every log passes for empty, so that Init never makes a checkpoint.
EmptyLogAlways == TRUE

\* The size is that of the directory nm, and the test is inverted.
EmptyLog == Has("log") => DirectorySize > 0

\* Fault: a log that the new checkpoint includes is replayed on top of it.
LogAlwaysValid == FALSE

\* Recover's cases (1) and (2): a checkpoint was not committed, so the backup
\* and the log are valid; or it was, and the log is not.
BackupValid == Has("new") \/ ~Has("checkpoint")
NewValid == ~BackupValid /\ Has("old")

\* What Recover and a replay of the log arrive at from the files as they are.
\* If there is no backup Recover refuses; then it is what they hold once the
\* half-written new checkpoint is deleted by hand.
OnDisk ==
  CASE ~Recoverable -> <<>>
    [] Recoverable /\ BackupValid ->
         data[IF Has("old") THEN "old" ELSE "checkpoint"] \o log
    [] NewValid -> data["checkpoint"]
    [] OTHER -> data["checkpoint"] \o log
=============================================================================
