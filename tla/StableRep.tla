----------------------------- MODULE StableRep ------------------------------
(***************************************************************************)
(* A stable object: StableRep.mg, the update methods stablegen makes       *)
(* (GenModuleCode.m3) and the default log manager, in a program that may   *)
(* crash and be started again.  pc is the point the program has reached    *)
(* between two calls of the file system; the points named by a number are  *)
(* the CrashPoints of the code and of stable/test.                         *)
(*                                                                         *)
(* The object is the sequence of the updates applied to it, each named by  *)
(* a number of its own.  Memory is lost in a crash, files are not.         *)
(***************************************************************************)
EXTENDS LogManager, SequencesExt

CONSTANTS
  ForceToDisk,      \* the parameter of init: flush after each update
  Spills,           \* some records are longer than the writer's buffer
  CrashPoints,      \* where the program may crash ...
  BootCrashPoints,  \* ... while the dummy checkpoint exists
  FailurePoints,    \* the calls of a checkpoint that may raise OSError.E
  MaxUpdates, MaxCrashes, MaxFailures   \* bounds

Labels == {"down", "off", "up", "403", "stuck",
           "101", "open", "102", "103", "104", "105",
           "restore", "dropNew", "dropOld", "dropLog", "read",
           "501", "501old", "501new", "502", "503"}
CheckpointLabels == {"101", "open", "102", "103", "104", "105"}
RecoverLabels == {"restore", "dropNew", "dropOld", "dropLog", "read"}

ASSUME SwitchAssumption == ForceToDisk \in BOOLEAN /\ Spills \in BOOLEAN
ASSUME PointsAssumption ==
  /\ CrashPoints \subseteq Labels \ {"down", "stuck"}
  /\ BootCrashPoints \subseteq Labels \ {"down", "stuck"}
  /\ FailurePoints \subseteq CheckpointLabels
ASSUME BoundsAssumption ==
  MaxUpdates \in Nat /\ MaxCrashes \in Nat /\ MaxFailures \in Nat

VARIABLES
  pc,
  obj,        \* the updates applied to the object
  logOpen,    \* self.log # NIL
  buf,        \* the complete records in the log writer's buffer
  mustSave,   \* Init found a log that it takes not to be empty
  inInit,     \* the checkpoint in progress is Init's
  safe,       \* obj when it was last flushed or saved (history)
  nUpdates, nCrashes, nFailures

memory == <<obj, logOpen, buf, mustSave, inInit>>
counters == <<nUpdates, nCrashes, nFailures>>
vars == <<disk, pc, memory, safe, counters>>

TypeOK ==
  /\ DiskOK
  /\ pc \in Labels
  /\ obj \in Seq(Nat) /\ buf \in Seq(Nat) /\ safe \in Seq(Nat)
  /\ logOpen \in BOOLEAN /\ mustSave \in BOOLEAN /\ inInit \in BOOLEAN
  /\ nUpdates \in 0 .. MaxUpdates
  /\ nCrashes \in 0 .. MaxCrashes
  /\ nFailures \in 0 .. MaxFailures

Init ==
  /\ DiskInit
  /\ pc = "down"
  /\ obj = <<>> /\ buf = <<>> /\ safe = <<>>
  /\ logOpen = FALSE /\ mustSave = FALSE /\ inInit = FALSE
  /\ nUpdates = 0 /\ nCrashes = 0 /\ nFailures = 0

Goto(from, to) == pc = from /\ pc' = to

-----------------------------------------------------------------------------
(* Init and Recover.                                                       *)

\* A program calls init for an object that is not stable: one that is new,
\* or one that was disposed of.
CallInit ==
  /\ pc \in {"down", "off"}
  /\ pc' = CASE ~Recoverable                 -> "101"
             [] Recoverable /\ BackupValid   -> "restore"
             [] NewValid                     -> "dropOld"
             [] OTHER                        -> "read"
  /\ mustSave' = (Recoverable /\ ~EmptyLog)
  /\ inInit' = TRUE
  /\ UNCHANGED <<disk, obj, logOpen, buf, safe, counters>>

\* Recover, case (1).
RestoreBackup ==
  /\ Rename("old", "checkpoint")
  /\ Goto("restore", IF Has("new") THEN "dropNew" ELSE "read")
  /\ UNCHANGED <<memory, safe, counters>>

\* The backup must exist or init raises StableError.E.
NoBackup ==
  /\ ~Has("old")
  /\ Goto("restore", "stuck")
  /\ UNCHANGED <<disk, memory, safe, counters>>

DropNew ==
  /\ DeleteFile("new")
  /\ Goto("dropNew", "read")
  /\ UNCHANGED <<memory, safe, counters>>

\* Recover, case (2).
DropOld ==
  /\ DeleteFile("old")
  /\ Goto("dropOld", IF Has("log") THEN "dropLog" ELSE "read")
  /\ UNCHANGED <<memory, safe, counters>>

DropLog ==
  /\ DeleteLog
  /\ Goto("dropLog", "read")
  /\ UNCHANGED <<memory, safe, counters>>

\* The checkpoint is read and the log is replayed, up to its first bad record.
ReadAndReplay ==
  /\ Goto("read", IF mustSave THEN "101" ELSE "up")
  /\ obj' = data["checkpoint"] \o log
  /\ safe' = obj'
  /\ inInit' = mustSave
  /\ mustSave' = FALSE
  /\ UNCHANGED <<disk, logOpen, buf, counters>>

-----------------------------------------------------------------------------
(* Checkpoint.                                                             *)

\* Fault: the log's writer is dropped, not closed.
FreeLogDropped(to) ==
  /\ Goto("up", to)
  /\ UNCHANGED disk
  /\ buf' = <<>>
  /\ logOpen' = FALSE
  /\ safe' = obj
  /\ UNCHANGED <<obj, mustSave, inInit, counters>>

\* FreeLog closes the log's writer, which flushes its buffer.
FreeLog(to) ==
  /\ Goto("up", to)
  /\ AppendToLog(buf)
  /\ buf' = <<>>
  /\ logOpen' = FALSE
  /\ safe' = obj
  /\ UNCHANGED <<obj, mustSave, inInit, counters>>

Checkpoint == FreeLog("101")

BeginCheckpoint ==
  \/ SaveBackup /\ Goto("101", "open") /\ UNCHANGED <<memory, safe, counters>>
  \/ OpenNew /\ Goto("open", "102") /\ UNCHANGED <<memory, safe, counters>>

WriteCheckpoint ==
  /\ WriteNew(obj)
  /\ Goto("102", "103")
  /\ UNCHANGED <<memory, safe, counters>>

EndCheckpoint ==
  \/ /\ CommitNew /\ Goto("103", "104")
     /\ safe' = obj
     /\ UNCHANGED <<memory, counters>>
  \/ TruncateLog /\ Goto("104", "105") /\ UNCHANGED <<memory, safe, counters>>
  \/ /\ DropBackup /\ Goto("105", "up")
     /\ logOpen' = TRUE /\ inInit' = FALSE
     /\ UNCHANGED <<obj, buf, mustSave, safe, counters>>

\* A call of the file system, or writeCheckpoint, raises an exception.  The
\* client goes on with the object, or gives up if this was init.
FailCheckpoint ==
  /\ pc \in FailurePoints
  /\ nFailures < MaxFailures
  /\ nFailures' = nFailures + 1
  /\ pc' = IF inInit THEN "down" ELSE "up"
  /\ obj' = IF inInit THEN <<>> ELSE obj
  /\ inInit' = FALSE
  /\ UNCHANGED <<disk, logOpen, buf, mustSave, safe, nUpdates, nCrashes>>

-----------------------------------------------------------------------------
(* Update methods, as stablegen makes them.                                *)

\* The log is opened; the call and its parameters go to the writer.
CallUpdate ==
  /\ Goto("up", "403")
  /\ nUpdates < MaxUpdates
  /\ logOpen' = TRUE
  /\ IF logOpen THEN UNCHANGED disk ELSE ReOpenLog
  /\ UNCHANGED <<obj, buf, mustSave, inInit, safe, counters>>

\* The method is done and its EndCallMark is written.
EndUpdate ==
  /\ Goto("403", "up")
  /\ nUpdates' = nUpdates + 1
  /\ obj' = Append(obj, nUpdates')
  /\ IF ForceToDisk
     THEN /\ AppendToLog(Append(buf, nUpdates'))
          /\ buf' = <<>>
          /\ safe' = obj'
     ELSE /\ buf' = Append(buf, nUpdates')
          /\ UNCHANGED <<disk, safe>>
  /\ UNCHANGED <<logOpen, mustSave, inInit, nCrashes, nFailures>>

\* The buffer runs over: its first k records are written, and half the next.
Spill ==
  /\ Spills /\ logOpen /\ pc \in {"up", "403"} /\ tail # "torn"
  /\ \E k \in 0 .. Len(buf) :
       /\ k < Len(buf) \/ pc = "403"
       /\ log' = log \o SubSeq(buf, 1, k)
       /\ buf' = SubSeq(buf, k + 1, Len(buf))
  /\ tail' = "cut"
  /\ UNCHANGED <<files, data, pc, obj, logOpen, mustSave, inInit, safe,
                 counters>>

FlushLog ==
  /\ pc = "up" /\ logOpen
  /\ AppendToLog(buf)
  /\ buf' = <<>>
  /\ safe' = obj
  /\ UNCHANGED <<pc, obj, logOpen, mustSave, inInit, counters>>

\* An update of an object that is not stable.
PlainUpdate ==
  /\ pc = "off"
  /\ nUpdates < MaxUpdates
  /\ nUpdates' = nUpdates + 1
  /\ obj' = Append(obj, nUpdates')
  /\ UNCHANGED <<disk, pc, logOpen, buf, mustSave, inInit, safe, nCrashes,
                 nFailures>>

-----------------------------------------------------------------------------
(* Dispose.                                                                *)

Dispose == FreeLog("501")

DisposeFiles ==
  \/ /\ DeleteFile("checkpoint") /\ Goto("501", "501old")
     /\ safe' = <<>>
     /\ UNCHANGED <<memory, counters>>
  \/ /\ \/ DeleteFile("old") /\ Goto("501old", "501new")
        \/ DeleteFile("new") /\ Goto("501new", "502")
        \/ DeleteLog /\ Goto("502", "503")
        \/ DeleteFile("dummy") /\ Goto("503", "off")
     /\ UNCHANGED <<memory, safe, counters>>

-----------------------------------------------------------------------------
(* Crashes.                                                                *)

MayCrash ==
  pc \in IF Has("dummy") THEN BootCrashPoints ELSE CrashPoints

\* The program ends, in a crash or because its client ends it.
Crash ==
  /\ MayCrash
  /\ nCrashes < MaxCrashes
  /\ nCrashes' = nCrashes + 1
  /\ pc' = "down"
  /\ tail' = IF tail = "cut" THEN "torn" ELSE tail
  /\ obj' = <<>> /\ buf' = <<>>
  /\ logOpen' = FALSE /\ mustSave' = FALSE /\ inInit' = FALSE
  /\ UNCHANGED <<files, data, log, safe, nUpdates, nFailures>>

Stuck == pc = "stuck" /\ UNCHANGED vars

-----------------------------------------------------------------------------

Next ==
  \/ CallInit \/ RestoreBackup \/ NoBackup \/ DropNew \/ DropOld \/ DropLog
  \/ ReadAndReplay
  \/ Checkpoint \/ BeginCheckpoint \/ WriteCheckpoint \/ EndCheckpoint
  \/ FailCheckpoint
  \/ CallUpdate \/ EndUpdate \/ Spill \/ FlushLog \/ FreeLog("up") \/ PlainUpdate
  \/ Dispose \/ DisposeFiles
  \/ Crash \/ Stuck

Spec == Init /\ [][Next]_vars
-----------------------------------------------------------------------------
(* Safety.                                                                 *)

\* Wherever the program may end, the files hold at least what was flushed to
\* the log or saved: "without loosing anything that was flushed to the log".
\* That includes the files that init refuses.
Durable == pc \in {"down", "stuck"} \/ MayCrash => IsPrefix(safe, OnDisk)

\* No recovery applies an update twice, or updates out of their order.
ReplayedOnce ==
  pc \in {"down", "stuck"} \/ MayCrash =>
    \A i, j \in DOMAIN OnDisk : i < j => OnDisk[i] < OnDisk[j]

\* Init never meets files it refuses to recover from.
RecoverySucceeds == pc # "stuck"

-----------------------------------------------------------------------------
(* Stable.ig's promise as an abstract store.  A checkpoint takes effect    *)
(* when EndCheckpoint gives it its name; a recovery, when it is read.      *)

\* The stable state, also between two steps of a recovery or a checkpoint.
Committed ==
  CASE pc = "dropNew"             -> data["checkpoint"] \o log
    [] pc \in {"dropLog", "104"} -> data["checkpoint"]
    [] OTHER                     -> OnDisk

Store == INSTANCE StableStore WITH
  running <- pc \notin RecoverLabels \cup {"down", "stuck"},
  value   <- obj,
  exists  <- Recoverable,
  stable  <- Committed

\* A crash between any two calls of the file system takes the object back to
\* its stable state, and every flush, checkpoint and dispose is atomic.
ImplementsStore == Store!Spec
-----------------------------------------------------------------------------
(* An inductive invariant for Durable.                                     *)

\* The switches under which the code keeps its promise.  A writer that runs
\* over may leave a torn record, so Init must make a checkpoint.
Sound ==
  /\ Spills => DirectorySize = 0
  /\ FailurePoints \subseteq {"101"}
  /\ "dropLog" \notin CrashPoints \cup BootCrashPoints
  /\ {"104", "105"} \cap BootCrashPoints = {}

\* The directories a program may leave behind.
NoState   == ~Has("checkpoint") /\ ~Has("old")
Settled   == Has("checkpoint") /\ files \cap {"old", "new", "dummy"} = {}
Saving    == ~Has("checkpoint") /\ Has("old") /\ ~Has("dummy")
Saved     == Has("checkpoint") /\ Has("old") /\ files \cap {"new", "dummy"} = {}
Booted    == Has("checkpoint") /\ Has("dummy") /\ files \cap {"old", "new"} = {}
Refused   == Has("checkpoint") /\ Has("new") /\ files \cap {"old", "dummy"} = {}

FilesOK ==
  /\ pc = "down" => NoState \/ Settled \/ Saving \/ Saved \/ Refused
  /\ pc \in {"up", "403", "read", "501"} => Settled
  /\ pc \in {"off", "501old", "501new", "502", "503"} => NoState
  /\ pc = "101" => Settled \/ (inInit /\ NoState)
  /\ pc = "open" => (Saving /\ ~Has("new")) \/ (NoState /\ Has("dummy"))
  /\ pc \in {"102", "103"} => Has("new") /\ (Saving \/ (NoState /\ Has("dummy")))
  /\ pc \in {"104", "105"} => Saved \/ Booted
  /\ pc = "restore" => Saving \/ Refused
  /\ pc \in {"stuck", "dropNew"} => Refused
  /\ pc = "dropOld" => Saved
  /\ pc = "dropLog" => Settled

LogOK ==
  /\ ~Has("log") => log = <<>> /\ tail = "whole"
  /\ logOpen => Has("log") /\ pc \in {"up", "403"}
  /\ buf # <<>> \/ pc = "403" => logOpen
  /\ pc = "105" => Has("log") /\ log = <<>> /\ tail = "whole"

\* Nobody appends to a torn log.
TornOK ==
  /\ tail # "whole" => Spills
  /\ tail = "torn" => pc \notin {"up", "403", "501"}
  /\ tail = "torn" /\ pc \in RecoverLabels => mustSave
  /\ tail = "torn" /\ pc = "101" => inInit

\* The object is what is on disk and in the log's buffer.
ValueOK ==
  /\ pc \in {"up", "403"} => obj = Committed \o buf
  /\ pc \in {"101", "open", "102", "103"} /\ ~NoState => obj = Committed
  /\ pc = "103" => obj = data["new"]
  /\ pc \in {"104", "105"} => obj = data["checkpoint"]

CountOK == pc = "403" => nUpdates < MaxUpdates

DurInv ==
  /\ TypeOK /\ CountOK /\ FilesOK /\ LogOK /\ TornOK /\ ValueOK
  /\ IsPrefix(safe, Committed)
=============================================================================
