------------------------------ MODULE SmallDB -------------------------------
(***************************************************************************)
(* The database of smalldb (SmallDB.m3): a snapshot, a log of the updates  *)
(* since, and a file that says which version of the two is current.        *)
(*                                                                         *)
(* A program may stop between any two operations on files, which keeps     *)
(* what the kernel has; or the machine stops, which keeps what is on the   *)
(* disk.  A file that is closed, and the directory, are on the disk; the   *)
(* pages of the open log reach it when they are synced, or whenever the    *)
(* kernel likes, and so does the length of its file.  Any operation on a   *)
(* file may fail, but for GetVersion's deletion of a new version file.     *)
(***************************************************************************)
EXTENDS Integers, FiniteSets, SequencesExt

CONSTANTS
  Pad,            \* t.pad
  PageSize,       \* DiskPageSize
  IntBytes,       \* the bytes of an update's length
  Sizes,          \* the lengths of updates
  WideUnforced,   \* updates that cross a page need not be forced to disk
  FailurePoints,  \* the steps that may fail
  Absent, Torn,   \* a file that is not there, or has nothing in it yet
  MaxPages, MaxUpdates, MaxVersions, MaxCrashes, MaxFailures   \* bounds

ASSUME LayoutAssumption ==
  /\ Pad \in BOOLEAN /\ WideUnforced \in BOOLEAN
  /\ IntBytes \in Nat \ {0} /\ PageSize \in Nat /\ PageSize > IntBytes
  /\ Sizes \subseteq Nat

ASSUME NameAssumption ==
  /\ Absent # Torn
  /\ \A f \in {Absent, Torn} : f \notin Nat /\ f \notin Seq(Nat)

ASSUME BoundAssumption ==
  /\ MaxPages \in Nat /\ MaxUpdates \in Nat /\ MaxVersions \in Nat
  /\ MaxCrashes \in Nat /\ MaxFailures \in Nat

Version == 1 .. MaxVersions
Update == 1 .. MaxUpdates
Garbage == 0   \* what the client reads of a record that is not complete

VARIABLES
  versionFile,  \* Version_Number: Absent, Torn or a number
  newFile,      \* New_Version_Number
  snapshot,     \* [v -> Snapshot.v: Absent, Torn or a value]
  logfile,      \* the versions whose Logfile is there
  cached,       \* [v -> the records of Logfile.v as the kernel has them]
  disk,         \* [v -> [page -> the records that this page of it holds]]
  length,       \* [v -> how far Logfile.v goes at least, its padding included]
  stable,       \* the same of the file on the disk
  pc,           \* the next step of the program
  caller,       \* what CommitToNewVersion returns to: boot, create, snapshot
  version,      \* t.version
  old,          \* Snapshot's oldversion
  out,          \* the version whose log t.logWriter writes, 0 for NIL
  index,        \* Wr.Index(t.logWriter)
  forced,       \* Update's forceToDisk
  value,        \* the updates applied to the client's data
  updates, crashes, failures,   \* counters for the bounds
  safe          \* history: the updates that the client was told are stable

sizes == <<length, stable>>
files == <<versionFile, newFile, snapshot, logfile, cached, disk, sizes>>
writer == <<out, index, forced>>
counters == <<updates, crashes, failures>>
vars == <<files, pc, caller, version, old, writer, value, counters, safe>>

-----------------------------------------------------------------------------
(* The layout of the log.                                                  *)

RoundUp(n) == ((n + PageSize - 1) \div PageSize) * PageSize

\* Fault: a length that would just fit into the page is taken not to fit.
AlignEarly(n) ==
  IF Pad \/ n % PageSize >= PageSize - IntBytes THEN RoundUp(n) ELSE n

\* A record does not start so near the end of a page that its length crosses.
Fills(n) == Pad \/ n % PageSize > PageSize - IntBytes
Align(n) == IF Fills(n) THEN RoundUp(n) ELSE n

\* The same as the reader of the log has it.
AlignRead(n) == IF Pad \/ RoundUp(n) - n < IntBytes THEN RoundUp(n) ELSE n

End(e) == e.at + IntBytes + e.size
PageOf(n) == n \div PageSize
PagesOf(e) == PageOf(e.at) .. PageOf(End(e) - 1)
Page == 0 .. MaxPages

\* The reader comes to record i of a log, and it is complete.  When it comes to
\* another place, it reads part of a length and of an update: whatever it takes
\* that for - the end, a length, a log that is malformed - it finds none of the
\* updates that follow, and the model takes it for the end.
Reads(s, i) ==
  /\ s[i].len /\ s[i].size > 0
  /\ s[i].at = IF i = 1 THEN 0 ELSE AlignRead(End(s[i - 1]))

\* How many records the reader finds: it ends at a length that is zero.
Complete(s) == Cardinality({n \in DOMAIN s : \A i \in 1 .. n : Reads(s, i)})

Contents(e) == IF e.whole THEN e.u ELSE Garbage
UpdatesOf(s) == [i \in 1 .. Complete(s) |-> Contents(s[i])]

OnPage(s, p) == {e \in ToSet(s) : p \in PagesOf(e)}

\* Records one after another, as a reader of the log comes to them.
InOrder(S) ==
  [i \in 1 .. Cardinality(S) |->
     CHOOSE e \in S : Cardinality({f \in S : f.at < e.at}) = i - 1]

Starting(d) == UNION {{e \in d[p] : PageOf(e.at) = p} : p \in Page}

\* A record as it is read: without its contents unless all its pages have it.
Found(d, e) ==
  LET Has(q) == \E f \in d[q] : f.at = e.at /\ f.u = e.u
  IN [e EXCEPT !.whole = @ /\ \A q \in PagesOf(e) : Has(q)]

\* The log as a machine that starts anew finds it on the disk.
OnDisk(d) == InOrder({Found(d, e) : e \in Starting(d)})

Written(s) == [p \in Page |-> OnPage(s, p)]

-----------------------------------------------------------------------------
Init ==
  /\ versionFile = Absent /\ newFile = Absent
  /\ snapshot = [v \in Version |-> Absent] /\ logfile = {}
  /\ cached = [v \in Version |-> <<>>]
  /\ disk = [v \in Version |-> Written(<<>>)]
  /\ length = [v \in Version |-> 0] /\ stable = [v \in Version |-> 0]
  /\ pc = "off" /\ caller = "boot"
  /\ version = 0 /\ old = 0 /\ out = 0 /\ index = 0 /\ forced = FALSE
  /\ value = <<>> /\ safe = <<>>
  /\ updates = 0 /\ crashes = 0 /\ failures = 0

-----------------------------------------------------------------------------
(* New, and GetVersion.                                                    *)

\* A version file whose contents are a number greater than zero.
Valid(f) == f \notin {Absent, Torn, 0}

New ==
  /\ pc = "off"
  /\ pc' = "getVersion" /\ caller' = "boot" /\ version' = 0
  /\ UNCHANGED <<files, old, writer, value, counters, safe>>

\* What a crash left uncommitted is committed, or deleted.
GetVersion ==
  /\ pc = "getVersion"
  /\ IF Valid(newFile)
     THEN version' = newFile /\ pc' = "commit" /\ UNCHANGED newFile
     ELSE newFile' = Absent /\ pc' = "getOldVersion" /\ UNCHANGED version
  /\ UNCHANGED <<versionFile, snapshot, logfile, cached, disk, sizes, caller,
                 old, writer, value, counters, safe>>

GetOldVersion ==
  /\ pc = "getOldVersion"
  /\ \/ /\ Valid(versionFile)
        /\ version' = versionFile /\ pc' = "recover"
        /\ UNCHANGED versionFile
     \/ /\ ~Valid(versionFile)   \* CreateFirstVersion
        /\ version' = 0 /\ versionFile' = 0 /\ pc' = "create"
  /\ UNCHANGED <<newFile, snapshot, logfile, cached, disk, sizes, caller, old,
                 writer, value, counters, safe>>

-----------------------------------------------------------------------------
(* Snapshot.                                                               *)

\* Called by the client, and by New to make version 1.
Snapshot ==
  /\ version < MaxVersions
  /\ \/ pc = "run" /\ caller' = "snapshot" /\ UNCHANGED value
     \/ pc = "create" /\ caller' = "create" /\ value' = <<>>
  /\ old' = version /\ version' = version + 1
  /\ pc' = "openSnapshot"
  /\ UNCHANGED <<files, writer, counters, safe>>

\* Fault: no log is made before the version is committed.
WriteSnapshotOnly ==
  /\ \/ /\ pc = "openSnapshot" /\ pc' = "writeSnapshot"
        /\ snapshot' = [snapshot EXCEPT ![version] = Torn]
     \/ /\ pc = "writeSnapshot" /\ pc' = "newVersion"
        /\ snapshot' = [snapshot EXCEPT ![version] = value]
  /\ UNCHANGED <<versionFile, newFile, logfile, cached, disk, sizes, caller,
                 version, old, writer, value, counters, safe>>

WriteSnapshot ==
  /\ \/ /\ pc = "openSnapshot" /\ pc' = "writeSnapshot"
        /\ snapshot' = [snapshot EXCEPT ![version] = Torn]
     \/ /\ pc = "writeSnapshot" /\ pc' = "openLog"
        /\ snapshot' = [snapshot EXCEPT ![version] = value]
  /\ UNCHANGED <<versionFile, newFile, logfile, cached, disk, sizes, caller,
                 version, old, writer, value, counters, safe>>

\* The writer's buffer is emptied, and with it the padding that it holds.
Flushed == [v \in Version |-> IF v = out THEN index ELSE length[v]]

\* OpenLogfile(t, TRUE) closes the log that is open.
OpenLog ==
  /\ pc = "openLog"
  /\ logfile' = logfile \cup {version}
  /\ cached' = [cached EXCEPT ![version] = <<>>]
  /\ disk' = [disk EXCEPT ![version] = Written(<<>>)]
  /\ length' = [Flushed EXCEPT ![version] = 0]
  /\ stable' = [stable EXCEPT ![version] = 0]
  /\ out' = version /\ index' = 0
  /\ pc' = "newVersion"
  /\ UNCHANGED <<versionFile, newFile, snapshot, caller, version, old, forced,
                 value, counters, safe>>

\* WriteVersionFile(t, TRUE)
NewVersion ==
  /\ \/ pc = "newVersion" /\ newFile' = Torn /\ pc' = "writeNewVersion"
     \/ pc = "writeNewVersion" /\ newFile' = version /\ pc' = "commit"
  /\ UNCHANGED <<versionFile, snapshot, logfile, cached, disk, sizes, caller,
                 version, old, writer, value, counters, safe>>

\* WriteVersionFile(t, FALSE), DeleteNewVersionFile
CommitToNewVersion ==
  /\ \/ /\ pc = "commit" /\ versionFile' = Torn /\ pc' = "writeVersion"
        /\ UNCHANGED newFile
     \/ /\ pc = "writeVersion" /\ versionFile' = version
        /\ pc' = "deleteNewVersion" /\ UNCHANGED newFile
     \/ /\ pc = "deleteNewVersion" /\ newFile' = Absent
        /\ pc' = IF caller = "boot" THEN "recover" ELSE "dropSnapshot"
        /\ UNCHANGED versionFile
  /\ UNCHANGED <<snapshot, logfile, cached, disk, sizes, caller, version, old,
                 writer, value, counters, safe>>

DropSnapshot ==
  /\ pc = "dropSnapshot"
  /\ \/ old = 0 /\ pc' = "dropLog" /\ UNCHANGED snapshot
     \/ /\ old # 0 /\ snapshot[old] # Absent
        /\ snapshot' = [snapshot EXCEPT ![old] = Absent] /\ pc' = "dropLog"
     \/ /\ old # 0 /\ snapshot[old] = Absent   \* DeleteFile raises
        /\ pc' = "run" /\ UNCHANGED snapshot
  /\ UNCHANGED <<versionFile, newFile, logfile, cached, disk, sizes, caller,
                 version, old, writer, value, counters, safe>>

DropLog ==
  /\ pc = "dropLog"
  /\ \/ old \in logfile \cup {0} /\ safe' = value
     \/ old \notin logfile \cup {0} /\ UNCHANGED safe   \* DeleteFile raises
  /\ logfile' = logfile \ {old}
  /\ cached' = [v \in Version |-> IF v = old THEN <<>> ELSE cached[v]]
  /\ disk' = [v \in Version |-> IF v = old THEN Written(<<>>) ELSE disk[v]]
  /\ length' = [v \in Version |-> IF v = old THEN 0 ELSE length[v]]
  /\ stable' = [v \in Version |-> IF v = old THEN 0 ELSE stable[v]]
  /\ pc' = IF caller = "create" THEN "recover" ELSE "run"
  /\ UNCHANGED <<versionFile, newFile, snapshot, caller, version, old, writer,
                 value, counters>>

-----------------------------------------------------------------------------
(* Recover, and RecoverUpdates.                                            *)

HasContents(f) == f \notin {Absent, Torn}

\* Fault: the page in which the log was cut is not filled.
PlaceUnfilled(pos, seek) == seek

\* Where the writer goes on: it fills the page from where Seek came to, if the
\* reader's position says so.
Place(pos, seek) == IF Fills(pos) THEN RoundUp(seek) ELSE seek

\* The log is cut behind the last record that is complete.  Seek stops at the
\* end of the file: behind the record, if the program ended before it gave the
\* padding to the kernel.  That the files are there is RecoverySucceeds.
Recover ==
  LET found == SubSeq(cached[version], 1, Complete(cached[version]))
      pos == IF found = <<>> THEN 0 ELSE AlignRead(End(Last(found)))
      seek == IF found = <<>> \/ pos <= length[version] THEN pos
              ELSE End(Last(found))
  IN /\ pc = "recover"
     /\ HasContents(snapshot[version]) /\ version \in logfile
     /\ value' = snapshot[version] \o UpdatesOf(cached[version])
     /\ cached' = [cached EXCEPT ![version] = found]
     /\ disk' = [disk EXCEPT ![version] =
          [p \in Page |-> {e \in @[p] : e.at < pos}]]
     /\ length' = [length EXCEPT ![version] = seek]
     /\ stable' = [stable EXCEPT ![version] = IF seek < @ THEN seek ELSE @]
     /\ out' = version /\ index' = Place(pos, seek)
     /\ pc' = "run"
     /\ UNCHANGED <<versionFile, newFile, snapshot, logfile, caller, version,
                    old, forced, counters, safe>>

-----------------------------------------------------------------------------
(* Update.                                                                 *)

\* Fault: the length counts its own bytes.
CountingRecord(size) ==
  [u |-> updates + 1, at |-> index, size |-> size + IntBytes, len |-> FALSE,
   whole |-> TRUE]
Record(size) ==
  [u |-> updates + 1, at |-> index, size |-> size, len |-> FALSE,
   whole |-> TRUE]

\* A length of zero and the update are written and given to the kernel, behind
\* what the buffer holds: by Flush if the update is forced, else by Seek.  What
\* part of it the kernel has before that makes no difference to who reads the
\* log.
LogUpdate(force, size) ==
  LET e == Record(size)
  IN /\ pc = "run" /\ out # 0   \* the ASSERT
     /\ updates < MaxUpdates /\ PageOf(End(e)) <= MaxPages
     /\ force \/ WideUnforced \/ Cardinality(PagesOf(e)) = 1
     /\ updates' = updates + 1 /\ forced' = force
     /\ cached' = [cached EXCEPT ![out] = Append(@, e)]
     /\ index' = End(e) /\ length' = [length EXCEPT ![out] = End(e)]
     /\ pc' = IF force THEN "syncContents" ELSE "writeLength"
     /\ UNCHANGED <<versionFile, newFile, snapshot, logfile, disk, stable,
                    caller, version, old, out, value, crashes, failures, safe>>

\* fsync, when the kernel has n bytes of the log.
Sync(n) ==
  /\ disk' = [disk EXCEPT ![out] = Written(cached[out])]
  /\ stable' = [stable EXCEPT ![out] = n]

\* Fault: the contents are not forced to the disk before the length.
SkipContents ==
  /\ pc = "syncContents" /\ pc' = "writeLength"
  /\ UNCHANGED <<files, caller, version, old, writer, value, counters, safe>>

SyncContents ==
  /\ pc = "syncContents" /\ pc' = "writeLength"
  /\ Sync(length[out])
  /\ UNCHANGED <<versionFile, newFile, snapshot, logfile, cached, length, caller,
                 version, old, writer, value, counters, safe>>

\* Seek gives the length to the kernel; the padding stays in the buffer.
WriteLength ==
  /\ pc = "writeLength" /\ pc' = "finish"
  /\ cached' = [cached EXCEPT ![out][Len(cached[out])].len = TRUE]
  /\ index' = Align(index)
  /\ UNCHANGED <<versionFile, newFile, snapshot, logfile, disk, sizes, caller,
                 version, old, out, forced, value, counters, safe>>

\* Once update has returned, the client's data has the update.
Finish ==
  /\ pc = "finish" /\ pc' = "run"
  /\ value' = Append(value, updates)
  /\ \/ forced /\ length' = Flushed /\ Sync(index) /\ safe' = value'
     \/ ~forced /\ UNCHANGED <<disk, sizes, safe>>
  /\ UNCHANGED <<versionFile, newFile, snapshot, logfile, cached, caller,
                 version, old, writer, counters>>

-----------------------------------------------------------------------------
(* Failures and crashes.                                                   *)

InSnapshot ==
  pc \in {"openSnapshot", "writeSnapshot", "openLog", "newVersion",
          "writeNewVersion", "commit", "writeVersion", "deleteNewVersion",
          "dropSnapshot", "dropLog"}
InCall == pc \in {"syncContents", "writeLength", "finish"}
Running == pc = "run" \/ InCall \/ (InSnapshot /\ caller = "snapshot")

\* The program ends, and its memory is gone.
Ends ==
  /\ pc' = "off" /\ caller' = "boot"
  /\ version' = 0 /\ old' = 0 /\ out' = 0 /\ index' = 0 /\ forced' = FALSE
  /\ value' = <<>>

\* A step raises OSError.E.  The client goes on; New and Recover do not, except
\* that GetVersion takes a file that it fails to read for one that is not there,
\* and a commit that failed for a new version that was not made.
Raise ==
  /\ pc \in FailurePoints /\ failures < MaxFailures
  /\ failures' = failures + 1
  /\ \/ /\ Running
        /\ pc' = "run" /\ out' = IF pc = "openLog" THEN 0 ELSE out
        /\ length' = IF pc = "openLog" THEN Flushed ELSE length
        /\ UNCHANGED <<versionFile, newFile, caller, version, old, index, forced,
                       value>>
     \/ /\ pc = "getVersion" \/ (InSnapshot /\ caller = "boot")
        /\ pc' = "getOldVersion" /\ newFile' = Absent
        /\ UNCHANGED <<versionFile, caller, version, old, writer, value, length>>
     \/ /\ pc = "getOldVersion"   \* CreateFirstVersion
        /\ version' = 0 /\ versionFile' = 0 /\ pc' = "create"
        /\ UNCHANGED <<newFile, caller, old, writer, value, length>>
     \/ /\ \/ (InSnapshot /\ caller = "create") \/ pc = "recover"
           \/ pc = "getOldVersion" /\ ~Valid(versionFile)
        /\ Ends /\ UNCHANGED <<versionFile, newFile, length>>
  /\ UNCHANGED <<snapshot, logfile, cached, disk, stable, updates, crashes, safe>>

\* CloseLogfile, which empties the writer's buffer; then the program ends.
Close ==
  /\ pc = "run"
  /\ Ends /\ length' = Flushed
  /\ UNCHANGED <<versionFile, newFile, snapshot, logfile, cached, disk, stable,
                 counters, safe>>

Crash ==
  /\ pc # "off" /\ crashes < MaxCrashes
  /\ crashes' = crashes + 1
  /\ Ends
  /\ UNCHANGED <<files, updates, failures, safe>>

MachineCrash ==
  /\ crashes < MaxCrashes
  /\ crashes' = crashes + 1
  /\ Ends
  /\ cached' = [v \in Version |-> OnDisk(disk[v])] /\ length' = stable
  /\ UNCHANGED <<versionFile, newFile, snapshot, logfile, disk, stable, updates,
                 failures, safe>>

\* The kernel writes a page of a log to the disk, or the length of its file.
Writeback(v, p) ==
  /\ disk[v][p] # OnPage(cached[v], p)
  /\ disk' = [disk EXCEPT ![v][p] = OnPage(cached[v], p)]
  /\ UNCHANGED <<versionFile, newFile, snapshot, logfile, cached, sizes, pc,
                 caller, version, old, writer, value, counters, safe>>

WriteSize(v) ==
  /\ stable[v] # length[v]
  /\ stable' = [stable EXCEPT ![v] = length[v]]
  /\ UNCHANGED <<versionFile, newFile, snapshot, logfile, cached, disk, length,
                 pc, caller, version, old, writer, value, counters, safe>>

-----------------------------------------------------------------------------
Boot == New \/ GetVersion \/ GetOldVersion \/ Recover

SnapshotStep ==
  \/ Snapshot \/ WriteSnapshot \/ OpenLog \/ NewVersion \/ CommitToNewVersion
  \/ DropSnapshot \/ DropLog

UpdateStep ==
  \/ \E force \in BOOLEAN, size \in Sizes : LogUpdate(force, size)
  \/ SyncContents \/ WriteLength \/ Finish

Next ==
  \/ Boot \/ SnapshotStep \/ UpdateStep
  \/ Raise \/ Close \/ Crash \/ MachineCrash
  \/ \E v \in Version, p \in Page : Writeback(v, p)
  \/ \E v \in Version : WriteSize(v)

Spec == Init /\ [][Next]_vars

-----------------------------------------------------------------------------
(* Properties.                                                             *)

Records ==
  [u : Update, at : Nat, size : Sizes, len : BOOLEAN, whole : BOOLEAN]
Value == Seq(Update \cup {Garbage})
VersionFile == {Absent, Torn} \cup 0 .. MaxVersions

StateOK ==
  /\ versionFile \in VersionFile /\ newFile \in VersionFile
  /\ snapshot \in [Version -> {Absent, Torn} \cup Value]
  /\ logfile \subseteq Version
  /\ cached \in [Version -> Seq(Records)]
  /\ disk \in [Version -> [Page -> SUBSET Records]]
  /\ version \in 0 .. MaxVersions /\ old \in 0 .. MaxVersions
  /\ out \in 0 .. MaxVersions /\ index \in Nat /\ forced \in BOOLEAN
  /\ value \in Value /\ safe \in Value
  /\ updates \in 0 .. MaxUpdates

SizesOK == length \in [Version -> Nat] /\ stable \in [Version -> Nat]

TypeOK == StateOK /\ SizesOK

\* What a program that starts now would find, given the logs.
Current ==
  IF Valid(newFile) THEN newFile ELSE IF Valid(versionFile) THEN versionFile
  ELSE 0
Stored(log) ==
  IF Current = 0 \/ ~HasContents(snapshot[Current]) THEN <<>>
  ELSE snapshot[Current] \o UpdatesOf(log)

\* SmallDB.i3: "no update is lost".  Wherever the program and the machine stop
\* now, the next program finds every update that was forced to the disk, and
\* every snapshot, that a client was told is there, and in their order.
Durable ==
  IsPrefix(safe, Stored(IF Current = 0 THEN <<>> ELSE OnDisk(disk[Current])))

\* Whatever steps of Snapshot and GetVersion a crash comes between, the version
\* that GetVersion chooses has a snapshot that is complete, and a log.
RecoverySucceeds ==
  Current # 0 => HasContents(snapshot[Current]) /\ Current \in logfile

\* The files implement the database: an update is found completely or not at
\* all, with all before it, and a snapshot replaces the whole of them at once.
Abstract == INSTANCE Database WITH
  Updates <- Update, running <- Running,
  value <- IF Running THEN value
           ELSE Stored(IF Current = 0 THEN <<>> ELSE cached[Current])
ImplementsDatabase == Abstract!Spec
=============================================================================
