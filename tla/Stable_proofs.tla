---------------------------- MODULE Stable_proofs ----------------------------
(***************************************************************************)
(* Theorems about StableRep for any number of updates, crashes and failed  *)
(* checkpoints, under the switches of Sound.                               *)
(***************************************************************************)
EXTENDS StableRep, SequenceTheorems, TLAPS

-----------------------------------------------------------------------------
(* Prefixes.                                                               *)

\* What is a prefix stays one when records are appended.
LEMMA PrefixOfConcat ==
  ASSUME NEW s \in Seq(Nat), NEW t \in Seq(Nat), NEW u \in Seq(Nat),
         IsPrefix(s, t)
  PROVE  IsPrefix(s, t \o u)
<1>1. t \o u \in Seq(Nat) /\ Len(t \o u) = Len(t) + Len(u)
  BY ConcatProperties
<1>2. Len(s) \in Nat /\ Len(t) \in Nat /\ Len(u) \in Nat
  BY LenProperties
<1>3. SubSeq(t, 1, Len(s)) = SubSeq(s, 1, Len(s)) /\ Len(t) >= Len(s)
  BY DEF IsPrefix
<1>4. CASE Len(s) = 0
  <2>1. SubSeq(s, 1, 0) = <<>> /\ SubSeq(t \o u, 1, 0) = <<>>
    BY SubSeqEmpty
  <2> QED  BY <1>1, <1>2, <1>4, <2>1 DEF IsPrefix
<1>5. CASE Len(s) # 0
  <2>1. 1 \in 1 .. Len(t) /\ Len(s) \in 1 .. Len(t)
    BY <1>2, <1>3, <1>5
  <2>2. SubSeq(t \o u, 1, Len(s)) = SubSeq(t, 1, Len(s))
    BY <2>1, SubSeqOfConcat1
  <2> QED  BY <1>1, <1>2, <1>3, <2>2 DEF IsPrefix
<1> QED  BY <1>4, <1>5

\* A sequence is a prefix of itself, and the empty one is of every sequence.
LEMMA PrefixFacts ==
  ASSUME NEW s \in Seq(Nat)
  PROVE  IsPrefix(s, s) /\ IsPrefix(<<>>, s)
<1>1. Len(s) \in Nat /\ Len(<<>>) = 0
  BY LenProperties, EmptySeq
<1>2. SubSeq(<<>>, 1, 0) = <<>> /\ SubSeq(s, 1, 0) = <<>>
  BY SubSeqEmpty
<1> QED  BY <1>1, <1>2 DEF IsPrefix

-----------------------------------------------------------------------------
(* Types.                                                                  *)

\* The first k records of the buffer and the others make up the buffer.
LEMMA SplitBuffer ==
  ASSUME NEW s \in Seq(Nat), NEW k \in 0 .. Len(s)
  PROVE  /\ SubSeq(s, 1, k) \in Seq(Nat)
         /\ SubSeq(s, k + 1, Len(s)) \in Seq(Nat)
         /\ SubSeq(s, 1, k) \o SubSeq(s, k + 1, Len(s)) = s
<1>1. Len(s) \in Nat /\ s \in [1 .. Len(s) -> Nat] /\ k \in Nat
  BY LenProperties
<1>2. SubSeq(s, 1, k) \in Seq(Nat)
  <2>1. \A i \in 1 .. k : s[i] \in Nat
    BY <1>1
  <2> QED  BY <1>1, <2>1, SubSeqProperties
<1>3. SubSeq(s, k + 1, Len(s)) \in Seq(Nat)
  <2>1. \A i \in k + 1 .. Len(s) : s[i] \in Nat
    BY <1>1
  <2>2. k + 1 \in Int /\ Len(s) \in Int
    BY <1>1
  <2> QED  BY <2>1, <2>2, SubSeqProperties
<1>4. SubSeq(s, 1, k) \o SubSeq(s, k + 1, Len(s)) = SubSeq(s, 1, Len(s))
  <2>1. /\ 1 \in 1 .. Len(s) + 1 /\ k \in 1 - 1 .. Len(s)
        /\ Len(s) \in k .. Len(s)
    BY <1>1
  <2> QED  BY <2>1, ConcatAdjacentSubSeq
<1>5. SubSeq(s, 1, Len(s)) = s
  BY SubSeqFull
<1> QED  BY <1>2, <1>3, <1>4, <1>5

\* Renaming a checkpoint file keeps the types of the disk.
LEMMA RenameType ==
  ASSUME DiskOK, NEW f \in Checkpoints, NEW g \in Checkpoints, Rename(f, g)
  PROVE  DiskOK'
BY DEF DiskOK, Rename, Files, Checkpoints

\* So do the other operations on the disk.
LEMMA DiskType ==
  ASSUME TypeOK, NEW f \in Files, NEW r \in Seq(Nat)
  PROVE  /\ CreateFile(f) => DiskOK'
         /\ DeleteFile(f) => DiskOK'
         /\ DeleteLog => DiskOK'
         /\ TruncateLog => DiskOK'
         /\ AppendToLog(r) => DiskOK'
         /\ OpenNew => DiskOK'
         /\ WriteNew(obj) => DiskOK'
         /\ UNCHANGED disk => DiskOK'
<1> USE DEF TypeOK, DiskOK, Files, Checkpoints
<1>1. CreateFile(f) => DiskOK'
  BY DEF CreateFile
<1>2. DeleteFile(f) => DiskOK'
  BY DEF DeleteFile
<1>3. DeleteLog \/ TruncateLog => DiskOK'
  BY EmptySeq DEF DeleteLog, TruncateLog
<1>4. AppendToLog(r) => DiskOK'
  <2>1. log \o r \in Seq(Nat)
    BY ConcatProperties
  <2> QED  BY <2>1 DEF AppendToLog
<1>5. OpenNew => DiskOK'
  <2>1. <<>> \in Seq(Nat)
    BY EmptySeq
  <2> QED  BY <2>1 DEF OpenNew
<1>7. WriteNew(obj) => DiskOK'
  BY DEF WriteNew
<1>6. UNCHANGED disk => DiskOK'
  BY DEF disk
<1> QED  BY <1>1, <1>2, <1>3, <1>4, <1>5, <1>6, <1>7

\* The initial state has the right types.
LEMMA TypeInit == Init => TypeOK /\ CountOK
<1>1. <<>> \in Seq(Nat)
  BY EmptySeq
<1>2. 0 \in 0 .. MaxUpdates /\ 0 \in 0 .. MaxCrashes /\ 0 \in 0 .. MaxFailures
  BY BoundsAssumption
<1>3. DiskInit => DiskOK
  BY <1>1 DEF DiskInit, DiskOK
<1> QED  BY <1>1, <1>2, <1>3 DEF Init, TypeOK, CountOK, Labels

\* Memory and the counters keep their types in every step.
LEMMA TypeStep ==
  ASSUME TypeOK, CountOK, [Next]_vars
  PROVE  TypeOK' /\ CountOK'
<1> USE BoundsAssumption, PointsAssumption DEF TypeOK, CountOK
<1>e. <<>> \in Seq(Nat)
  BY EmptySeq
<1>f. "checkpoint" \in Checkpoints /\ "old" \in Checkpoints /\ "new" \in Checkpoints
  BY DEF Checkpoints
<1>d. {"checkpoint", "old", "new", "dummy", "log"} \subseteq Files
  BY DEF Files, Checkpoints
<1>1. CASE CallInit
  <2>1. DiskOK'
    BY <1>1, <1>d, <1>e, DiskType DEF CallInit
  <2>2. mustSave' \in BOOLEAN
    BY <1>1 DEF CallInit, EmptyLog, Recoverable
  <2>3. pc' \in Labels /\ pc' # "403"
    BY <1>1 DEF CallInit, Labels
  <2> QED  BY <1>1, <2>1, <2>2, <2>3 DEF CallInit, counters
<1>2. CASE RestoreBackup \/ NoBackup \/ DropNew \/ DropOld \/ DropLog
  <2>1. DiskOK'
    BY <1>2, <1>d, <1>f, <1>e, RenameType, DiskType
    DEF RestoreBackup, NoBackup, DropNew, DropOld, DropLog
  <2>2. pc' \in Labels /\ pc' # "403"
    BY <1>2 DEF RestoreBackup, NoBackup, DropNew, DropOld, DropLog, Goto, Labels
  <2>3. UNCHANGED <<memory, safe, counters>>
    BY <1>2 DEF RestoreBackup, NoBackup, DropNew, DropOld, DropLog
  <2> QED  BY <2>1, <2>2, <2>3 DEF memory, counters
<1>3. CASE ReadAndReplay
  <2>1. DiskOK'
    BY <1>3, <1>d, <1>e, DiskType DEF ReadAndReplay
  <2>2. obj' \in Seq(Nat) /\ safe' \in Seq(Nat)
    <3>1. data["checkpoint"] \in Seq(Nat) /\ log \in Seq(Nat)
      BY <1>f DEF DiskOK
    <3> QED  BY <1>3, <3>1, ConcatProperties DEF ReadAndReplay
  <2> QED  BY <1>3, <2>1, <2>2 DEF ReadAndReplay, Goto, Labels, counters
<1>4. ASSUME NEW to \in {"101", "up", "501"}, FreeLog(to)
      PROVE  TypeOK' /\ CountOK'
  <2>1. DiskOK'
    BY <1>4, <1>d, DiskType DEF FreeLog
  <2> QED  BY <1>4, <1>e, <2>1 DEF FreeLog, Goto, Labels, counters
<1>5. CASE BeginCheckpoint \/ WriteCheckpoint \/ EndCheckpoint
  <2>1. DiskOK'
    BY <1>5, <1>d, <1>e, <1>f, RenameType, DiskType
    DEF BeginCheckpoint, WriteCheckpoint, EndCheckpoint, SaveBackup, CommitNew,
        DropBackup
  <2>2. pc' \in Labels /\ pc' # "403"
    BY <1>5 DEF BeginCheckpoint, WriteCheckpoint, EndCheckpoint, Goto, Labels
  <2>3. /\ UNCHANGED <<obj, buf, mustSave, counters>>
        /\ safe' \in {safe, obj}
        /\ logOpen' \in {logOpen, TRUE} /\ inInit' \in {inInit, FALSE}
    BY <1>5 DEF BeginCheckpoint, WriteCheckpoint, EndCheckpoint, memory
  <2> QED  BY <2>1, <2>2, <2>3 DEF counters
<1>6. CASE FailCheckpoint
  <2>1. DiskOK'
    BY <1>6, <1>d, <1>e, DiskType DEF FailCheckpoint
  <2>2. nFailures' \in 0 .. MaxFailures
    BY <1>6 DEF FailCheckpoint
  <2> QED  BY <1>6, <1>e, <2>1, <2>2 DEF FailCheckpoint, Labels
<1>7. CASE CallUpdate
  <2>1. DiskOK'
    BY <1>7, <1>d, <1>e, DiskType DEF CallUpdate, ReOpenLog
  <2> QED  BY <1>7, <2>1 DEF CallUpdate, Goto, Labels, counters
<1>8. CASE EndUpdate
  <2>1. nUpdates' \in 0 .. MaxUpdates /\ nUpdates' \in Nat
    BY <1>8 DEF EndUpdate, Goto
  <2>2. Append(obj, nUpdates') \in Seq(Nat) /\ Append(buf, nUpdates') \in Seq(Nat)
    BY <2>1, AppendProperties
  <2>3. DiskOK'
    BY <1>8, <1>d, <2>2, DiskType DEF EndUpdate
  <2>4. buf' \in Seq(Nat) /\ obj' \in Seq(Nat) /\ safe' \in Seq(Nat)
    BY <1>8, <1>e, <2>2 DEF EndUpdate
  <2> QED  BY <1>8, <2>1, <2>3, <2>4 DEF EndUpdate, Goto, Labels
<1>9. CASE Spill
  <2>1. PICK k \in 0 .. Len(buf) :
          /\ log' = log \o SubSeq(buf, 1, k)
          /\ buf' = SubSeq(buf, k + 1, Len(buf))
    BY <1>9 DEF Spill
  <2>2. log' \in Seq(Nat) /\ buf' \in Seq(Nat)
    BY <2>1, SplitBuffer, ConcatProperties DEF DiskOK
  <2> QED  BY <1>9, <2>2 DEF Spill, DiskOK, counters
<1>10. CASE FlushLog
  <2>1. DiskOK'
    BY <1>10, <1>d, DiskType DEF FlushLog
  <2> QED  BY <1>10, <1>e, <2>1 DEF FlushLog, counters
<1>11. CASE PlainUpdate
  <2>1. nUpdates' \in 0 .. MaxUpdates /\ nUpdates' \in Nat
    BY <1>11 DEF PlainUpdate
  <2>2. obj' \in Seq(Nat)
    BY <1>11, <2>1, AppendProperties DEF PlainUpdate
  <2>3. DiskOK'
    BY <1>11, <1>d, <1>e, DiskType DEF PlainUpdate
  <2> QED  BY <1>11, <2>1, <2>2, <2>3 DEF PlainUpdate
<1>12. CASE DisposeFiles
  <2>1. DiskOK'
    BY <1>12, <1>d, <1>e, DiskType DEF DisposeFiles
  <2>2. pc' \in Labels /\ pc' # "403"
    BY <1>12 DEF DisposeFiles, Goto, Labels
  <2>3. UNCHANGED <<memory, counters>> /\ safe' \in {safe, <<>>}
    BY <1>12 DEF DisposeFiles
  <2> QED  BY <1>e, <2>1, <2>2, <2>3 DEF memory, counters
<1>13. CASE Crash
  <2>1. nCrashes' \in 0 .. MaxCrashes
    BY <1>13 DEF Crash
  <2>2. DiskOK'
    BY <1>13 DEF Crash, DiskOK
  <2> QED  BY <1>13, <1>e, <2>1, <2>2 DEF Crash, Labels
<1>14. CASE Stuck \/ UNCHANGED vars
  <2>1. UNCHANGED disk
    BY <1>14 DEF Stuck, vars
  <2>2. DiskOK'
    BY <1>d, <1>e, <2>1, DiskType
  <2> QED  BY <1>14, <2>2 DEF Stuck, vars, memory, counters
<1> QED  BY <1>1, <1>2, <1>3, <1>4, <1>5, <1>6, <1>7, <1>8, <1>9, <1>10, <1>11,
            <1>12, <1>13, <1>14 DEF Next, Checkpoint, Dispose

-----------------------------------------------------------------------------
(* The directory.                                                          *)

\* Recovery and checkpoints move from one of the directories of FilesOK to
\* another, and a crash finds one that a program may leave behind.
LEMMA FilesStep ==
  ASSUME Sound, TypeOK, FilesOK, LogOK, [Next]_vars
  PROVE  FilesOK'
<1> USE DEF FilesOK, Has, NoState, Settled, Saving, Saved, Booted, Refused
<1>1. CASE CallInit
  BY <1>1 DEF CallInit, disk, Recoverable, BackupValid, NewValid
<1>2. CASE RestoreBackup
  <2>1. Saving
    BY <1>2 DEF RestoreBackup, Goto, Rename
  <2>2. files' = (files \ {"old"}) \cup {"checkpoint"}
    BY <1>2 DEF RestoreBackup, Rename
  <2> QED  BY <1>2, <2>1, <2>2 DEF RestoreBackup, Goto
<1>3. CASE NoBackup
  BY <1>3 DEF NoBackup, Goto, disk
<1>4. CASE DropNew \/ DropOld
  BY <1>4 DEF DropNew, DropOld, DeleteFile, Goto
<1>5. CASE DropLog
  BY <1>5 DEF DropLog, DeleteLog, Goto
<1>6. CASE ReadAndReplay
  BY <1>6 DEF ReadAndReplay, disk, Goto
<1>7. ASSUME NEW to \in {"101", "up", "501"}, FreeLog(to) PROVE FilesOK'
  BY <1>7 DEF FreeLog, AppendToLog, Goto
<1>8. CASE BeginCheckpoint
  <2>1. CASE SaveBackup /\ Goto("101", "open")
    BY <2>1 DEF SaveBackup, Rename, CreateFile, Goto
  <2>2. CASE OpenNew /\ Goto("open", "102")
    BY <2>2 DEF OpenNew, Goto
  <2> QED  BY <1>8, <2>1, <2>2 DEF BeginCheckpoint
<1>9. CASE WriteCheckpoint
  BY <1>9 DEF WriteCheckpoint, WriteNew, Goto
<1>10. CASE EndCheckpoint
  <2>1. CASE CommitNew /\ Goto("103", "104")
    BY <2>1 DEF CommitNew, Rename, Goto
  <2>2. CASE TruncateLog /\ Goto("104", "105")
    BY <2>2 DEF TruncateLog, Goto
  <2>3. CASE DropBackup /\ Goto("105", "up")
    BY <2>3 DEF DropBackup, DeleteFile, Goto
  <2> QED  BY <1>10, <2>1, <2>2, <2>3 DEF EndCheckpoint
<1>11. CASE FailCheckpoint
  <2>1. pc = "101" /\ files' = files /\ pc' = IF inInit THEN "down" ELSE "up"
    BY <1>11 DEF FailCheckpoint, Sound, disk
  <2> QED  BY <2>1
<1>12. CASE CallUpdate
  <2>1. files' = files \/ files' = files \cup {"log"}
    BY <1>12 DEF CallUpdate, ReOpenLog, CreateFile, disk
  <2> QED  BY <1>12, <2>1 DEF CallUpdate, Goto
<1>13. CASE EndUpdate
  <2>1. files' = files
    BY <1>13 DEF EndUpdate, AppendToLog, disk
  <2> QED  BY <1>13, <2>1 DEF EndUpdate, Goto
<1>14. CASE Spill \/ PlainUpdate
  BY <1>14 DEF Spill, PlainUpdate, disk
<1>15. CASE FlushLog
  BY <1>15 DEF FlushLog, AppendToLog
<1>16. CASE DisposeFiles
  <2>1. files' \subseteq files
    BY <1>16 DEF DisposeFiles, DeleteFile, DeleteLog
  <2>2. pc = "501" => "checkpoint" \notin files'
    BY <1>16 DEF DisposeFiles, DeleteFile, Goto
  <2>3. pc' \in {"501old", "501new", "502", "503", "off"}
    BY <1>16 DEF DisposeFiles, Goto
  <2>4. pc \in {"501", "501old", "501new", "502", "503"}
    BY <1>16 DEF DisposeFiles, Goto
  <2> QED  BY <2>1, <2>2, <2>3, <2>4
<1>17. CASE Crash
  <2>1. pc \notin {"down", "stuck", "dropLog"} /\ (Has("dummy") => pc \notin {"104", "105"})
    BY <1>17, PointsAssumption DEF Crash, MayCrash, Sound
  <2>2. pc' = "down" /\ files' = files
    BY <1>17 DEF Crash
  <2> QED  BY <2>1, <2>2 DEF TypeOK, Labels
<1>18. CASE Stuck \/ UNCHANGED vars
  BY <1>18 DEF Stuck, vars, disk, memory
<1> QED  BY <1>1, <1>2, <1>3, <1>4, <1>5, <1>6, <1>7, <1>8, <1>9, <1>10, <1>11,
            <1>12, <1>13, <1>14, <1>15, <1>16, <1>17, <1>18
         DEF Next, Checkpoint, Dispose

-----------------------------------------------------------------------------
(* The log.                                                                *)

\* No log without its file, no buffer without an open log, and no log after
\* it was emptied.
LEMMA LogStep ==
  ASSUME TypeOK, LogOK, [Next]_vars
  PROVE  LogOK'
<1> USE DEF LogOK, Has
<1>e. <<>> \o <<>> = <<>>
  BY EmptySeq, ConcatEmptySeq
<1>1. CASE CallInit \/ NoBackup \/ ReadAndReplay
  BY <1>1 DEF CallInit, NoBackup, ReadAndReplay, disk, memory, Goto
<1>2. CASE RestoreBackup \/ DropNew \/ DropOld
  BY <1>2 DEF RestoreBackup, DropNew, DropOld, Rename, DeleteFile, memory, Goto
<1>3. CASE DropLog
  BY <1>3 DEF DropLog, DeleteLog, memory, Goto
<1>4. ASSUME NEW to \in {"101", "up", "501"}, FreeLog(to) PROVE LogOK'
  <2>1. /\ files' = files /\ ~logOpen' /\ buf' = <<>> /\ pc' = to /\ pc = "up"
        /\ \/ UNCHANGED <<log, tail>>
           \/ log' = log \o buf /\ tail' = "whole"
    BY <1>4 DEF FreeLog, AppendToLog, Goto
  <2>2. ~Has("log") => log = <<>> /\ buf = <<>> /\ tail = "whole"
    OBVIOUS
  <2>3. ~Has("log") => log' = <<>> /\ tail' = "whole"
    BY <1>e, <2>1, <2>2
  <2> QED  BY <2>1, <2>3
<1>5. CASE BeginCheckpoint
  <2>1. /\ "log" \in files' <=> "log" \in files
        /\ UNCHANGED <<log, tail>>
    BY <1>5 DEF BeginCheckpoint, SaveBackup, Rename, CreateFile, OpenNew
  <2> QED  BY <1>5, <2>1 DEF BeginCheckpoint, memory, Goto
<1>6. CASE WriteCheckpoint
  BY <1>6 DEF WriteCheckpoint, WriteNew, memory, Goto
<1>7. CASE EndCheckpoint
  <2>1. CASE CommitNew /\ Goto("103", "104")
    BY <1>7, <2>1 DEF EndCheckpoint, CommitNew, Rename, memory, Goto
  <2>2. CASE TruncateLog /\ Goto("104", "105")
    BY <1>7, <2>2 DEF EndCheckpoint, TruncateLog, memory, Goto
  <2>3. CASE DropBackup /\ Goto("105", "up") /\ logOpen' = TRUE /\ UNCHANGED buf
    <3>1. Has("log")
      BY <2>3 DEF Goto
    <3> QED  BY <2>3, <3>1 DEF DropBackup, DeleteFile, Goto
  <2> QED  BY <1>7, <2>1, <2>2, <2>3 DEF EndCheckpoint
<1>8. CASE FailCheckpoint
  BY <1>8, PointsAssumption DEF FailCheckpoint, CheckpointLabels, disk
<1>9. CASE CallUpdate
  <2>1. /\ "log" \in files' /\ UNCHANGED <<log, tail, buf>>
    BY <1>9 DEF CallUpdate, ReOpenLog, CreateFile, disk
  <2> QED  BY <1>9, <2>1 DEF CallUpdate, Goto
<1>10. CASE EndUpdate
  <2>1. /\ logOpen' = logOpen /\ files' = files /\ pc' = "up"
        /\ pc = "403"
    BY <1>10 DEF EndUpdate, AppendToLog, disk, Goto
  <2> QED  BY <1>10, <2>1
<1>11. CASE Spill \/ FlushLog
  <2>1. /\ logOpen /\ UNCHANGED <<logOpen, files, pc>>
    BY <1>11 DEF Spill, FlushLog, AppendToLog
  <2> QED  BY <2>1
<1>12. CASE PlainUpdate \/ Stuck \/ UNCHANGED vars
  BY <1>12 DEF PlainUpdate, Stuck, vars, disk, memory
<1>13. CASE DisposeFiles
  <2>1. \/ DeleteLog
        \/ ("log" \in files' <=> "log" \in files) /\ UNCHANGED <<log, tail>>
    BY <1>13 DEF DisposeFiles, DeleteFile
  <2>2. pc' # "105" /\ pc' \notin {"up", "403"} /\ pc \notin {"up", "403"}
    BY <1>13 DEF DisposeFiles, Goto
  <2>3. UNCHANGED memory
    BY <1>13 DEF DisposeFiles
  <2> QED  BY <2>1, <2>2, <2>3 DEF DeleteLog, memory
<1>14. CASE Crash
  BY <1>14 DEF Crash
<1> QED  BY <1>1, <1>2, <1>3, <1>4, <1>5, <1>6, <1>7, <1>8, <1>9, <1>10, <1>11,
            <1>12, <1>13, <1>14 DEF Next, Checkpoint, Dispose

\* A torn log is not appended to: where records spill, Init finds that the
\* log is not empty, and a checkpoint replaces it first.
LEMMA TornStep ==
  ASSUME Sound, TypeOK, LogOK, TornOK, [Next]_vars
  PROVE  TornOK'
<1> USE DEF TornOK
<1>1. CASE CallInit
  <2>1. tail = "torn" => Has("log") /\ DirectorySize = 0
    BY DEF LogOK, Sound
  <2>2. tail = "torn" => ~EmptyLog
    BY <2>1, DirectoryAssumption DEF EmptyLog
  <2>3. ~Recoverable => pc' = "101"
    BY <1>1 DEF CallInit, Recoverable, BackupValid, NewValid, Has
  <2>4. mustSave' <=> Recoverable /\ ~EmptyLog
    BY <1>1 DEF CallInit
  <2>5. pc' \in RecoverLabels \cup {"101"} /\ inInit' = TRUE /\ UNCHANGED tail
    BY <1>1 DEF CallInit, disk, RecoverLabels
  <2> QED  BY <2>2, <2>3, <2>4, <2>5 DEF RecoverLabels
<1>2. CASE NoBackup \/ ReadAndReplay
  BY <1>2 DEF NoBackup, ReadAndReplay, disk, memory, Goto, RecoverLabels
<1>3. CASE RestoreBackup \/ DropNew \/ DropOld
  <2>1. /\ UNCHANGED <<tail, mustSave>> /\ pc \in RecoverLabels
        /\ pc' \in RecoverLabels
    BY <1>3 DEF RestoreBackup, DropNew, DropOld, Rename, DeleteFile, memory,
               Goto, RecoverLabels
  <2> QED  BY <2>1 DEF RecoverLabels
<1>4. CASE DropLog
  BY <1>4 DEF DropLog, DeleteLog
<1>5. ASSUME NEW to \in {"101", "up", "501"}, FreeLog(to) PROVE TornOK'
  BY <1>5 DEF FreeLog, AppendToLog, Goto
<1>6. CASE BeginCheckpoint
  <2>1. UNCHANGED tail /\ pc' \in {"open", "102"}
    BY <1>6 DEF BeginCheckpoint, SaveBackup, Rename, CreateFile, OpenNew, Goto
  <2> QED  BY <2>1 DEF RecoverLabels
<1>7. CASE WriteCheckpoint
  BY <1>7 DEF WriteCheckpoint, WriteNew, Goto, RecoverLabels
<1>8. CASE EndCheckpoint
  <2>1. \/ UNCHANGED tail /\ pc' = "104"
        \/ tail' = "whole"
        \/ UNCHANGED tail /\ pc = "105"
    BY <1>8 DEF EndCheckpoint, CommitNew, Rename, TruncateLog, DropBackup,
               DeleteFile, Goto
  <2> QED  BY <2>1 DEF LogOK, RecoverLabels
<1>9. CASE FailCheckpoint
  <2>1. pc = "101" /\ UNCHANGED tail /\ pc' = IF inInit THEN "down" ELSE "up"
    BY <1>9 DEF FailCheckpoint, Sound, disk
  <2> QED  BY <2>1 DEF RecoverLabels
<1>10. CASE CallUpdate \/ EndUpdate \/ FlushLog
  <2>1. tail' \in {tail, "whole"} /\ pc \in {"up", "403"} /\ pc' \in {"up", "403"}
    BY <1>10 DEF CallUpdate, EndUpdate, FlushLog, AppendToLog, ReOpenLog,
                CreateFile, disk, Goto
  <2> QED  BY <2>1 DEF RecoverLabels
<1>11. CASE Spill
  BY <1>11 DEF Spill
<1>12. CASE PlainUpdate \/ Stuck \/ UNCHANGED vars
  BY <1>12 DEF PlainUpdate, Stuck, vars, disk, memory
<1>13. CASE DisposeFiles
  <2>1. /\ tail' \in {tail, "whole"}
        /\ pc' \in {"501old", "501new", "502", "503", "off"}
    BY <1>13 DEF DisposeFiles, DeleteFile, DeleteLog, Goto
  <2> QED  BY <2>1 DEF RecoverLabels
<1>14. CASE Crash
  BY <1>14 DEF Crash, RecoverLabels
<1> QED  BY <1>1, <1>2, <1>3, <1>4, <1>5, <1>6, <1>7, <1>8, <1>9, <1>10, <1>11,
            <1>12, <1>13, <1>14 DEF Next, Checkpoint, Dispose

-----------------------------------------------------------------------------
(* The stable state.                                                       *)

\* The stable state of each of the directories of FilesOK.
CommittedFacts ==
  /\ NoState /\ pc \notin {"dropNew", "dropLog", "104"} => Committed = <<>>
  /\ Settled /\ pc \notin {"dropLog", "104"} => Committed = data["checkpoint"] \o log
  /\ Refused /\ pc \notin {"dropLog", "104"} => Committed = data["checkpoint"] \o log
  /\ Saving /\ pc \notin {"dropNew", "dropLog", "104"} => Committed = data["old"] \o log
  /\ Saved /\ pc # "dropNew" => Committed = data["checkpoint"]
  /\ pc \in {"104", "dropLog"} => Committed = data["checkpoint"]
  /\ Booted /\ pc = "105" => Committed = data["checkpoint"] \o log

\* They follow from the definitions, before and after a step.
LEMMA CommittedValue == CommittedFacts /\ CommittedFacts'
<1> USE DEF NoState, Settled, Refused, Saving, Saved, Booted, Has, Committed,
            OnDisk, Recoverable, BackupValid, NewValid, CommittedFacts
<1>1. CommittedFacts
  OBVIOUS
<1>2. CommittedFacts'
  OBVIOUS
<1> QED  BY <1>1, <1>2

\* The stable state depends on the files alone, but for three labels.
LEMMA CommittedFrame ==
  ASSUME UNCHANGED <<files, data, log>>,
         pc \notin {"dropNew", "dropLog", "104"},
         pc' \notin {"dropNew", "dropLog", "104"}
  PROVE  Committed' = Committed
BY DEF Committed, OnDisk, Recoverable, BackupValid, NewValid, Has

\* Three sequences of records can be joined in either order.
LEMMA ConcatThree ==
  ASSUME NEW s \in Seq(Nat), NEW t \in Seq(Nat), NEW u \in Seq(Nat)
  PROVE  (s \o t) \o u = s \o (t \o u)
BY ConcatAssociative, SMTT(30)

\* Appending to the second of two sequences appends to both.
LEMMA ConcatAppend ==
  ASSUME NEW s \in Seq(Nat), NEW t \in Seq(Nat), NEW n \in Nat
  PROVE  Append(s \o t, n) = s \o Append(t, n)
<1>1. s \o t \in Seq(Nat) /\ <<n>> \in Seq(Nat)
  BY ConcatProperties
<1>2. Append(s \o t, n) = (s \o t) \o <<n>> /\ Append(t, n) = t \o <<n>>
  BY <1>1, AppendIsConcat
<1> QED  BY <1>1, <1>2, ConcatAssociative

-----------------------------------------------------------------------------
(* Recovery, checkpoints and disposal.                                     *)

Value == ValueOK /\ IsPrefix(safe, Committed)

\* A recovery brings back the stable state, whichever files hold it.
LEMMA RecoverValue ==
  ASSUME DurInv, TypeOK', FilesOK', LogOK',
         CallInit \/ RestoreBackup \/ NoBackup \/ DropNew \/ DropOld \/ DropLog
           \/ ReadAndReplay
  PROVE  Value' /\ Committed' = Committed
<1> USE DEF DurInv
<1>t. /\ data["checkpoint"] \in Seq(Nat) /\ log \in Seq(Nat) /\ safe \in Seq(Nat)
      /\ data["checkpoint"] \o log \in Seq(Nat)
      /\ data["checkpoint"] \o <<>> = data["checkpoint"]
  BY ConcatProperties, ConcatEmptySeq DEF TypeOK, DiskOK, Checkpoints
<1>1. CASE CallInit
  <2>1. Committed' = Committed
    BY <1>1, CommittedFrame DEF CallInit, disk
  <2>2. pc' = "101" => NoState'
    BY <1>1 DEF CallInit, disk, Recoverable, BackupValid, NewValid, Has, NoState
  <2>3. pc' \in {"101", "restore", "dropOld", "read"} /\ UNCHANGED <<obj, safe>>
    BY <1>1 DEF CallInit
  <2> QED  BY <2>1, <2>2, <2>3 DEF Value, ValueOK
<1>2. CASE RestoreBackup
  <2>1. /\ Saving /\ pc = "restore" /\ log' = log /\ safe' = safe
        /\ data'["checkpoint"] = data["old"]
        /\ pc' \in {"dropNew", "read"}
    BY <1>2 DEF RestoreBackup, Rename, Goto, memory, FilesOK, Saving, Refused,
               TypeOK, DiskOK, Checkpoints, Has
  <2>2. Settled' \/ Refused'
    BY <2>1 DEF FilesOK
  <2>3. Committed = data["old"] \o log
    BY <2>1, CommittedValue DEF CommittedFacts
  <2>4. Committed' = data'["checkpoint"] \o log'
    BY <2>1, <2>2, CommittedValue DEF CommittedFacts
  <2> QED  BY <2>1, <2>3, <2>4 DEF Value, ValueOK
<1>3. CASE NoBackup
  <2>1. Committed' = Committed
    BY <1>3, CommittedFrame DEF NoBackup, Goto, disk
  <2> QED  BY <1>3, <2>1 DEF NoBackup, Goto, Value, ValueOK
<1>4. CASE DropNew
  <2>1. /\ pc = "dropNew" /\ pc' = "read" /\ UNCHANGED <<data, log, safe>>
    BY <1>4 DEF DropNew, DeleteFile, Goto
  <2>2. Refused /\ Settled'
    BY <2>1 DEF FilesOK
  <2> QED  BY <2>1, <2>2, CommittedValue DEF CommittedFacts, Value, ValueOK
<1>5. CASE DropOld
  <2>1. /\ pc = "dropOld" /\ UNCHANGED <<data, log, safe>>
        /\ pc' = "dropLog" \/ (pc' = "read" /\ log = <<>>)
    BY <1>5 DEF DropOld, DeleteFile, Goto, LogOK
  <2>2. Saved /\ Settled'
    BY <2>1 DEF FilesOK
  <2>3. Committed = data["checkpoint"]
    BY <2>1, <2>2, CommittedValue DEF CommittedFacts
  <2>4. Committed' = data["checkpoint"]
    BY <1>t, <2>1, <2>2, CommittedValue DEF CommittedFacts
  <2> QED  BY <2>1, <2>3, <2>4 DEF Value, ValueOK
<1>6. CASE DropLog
  <2>1. /\ pc = "dropLog" /\ pc' = "read" /\ UNCHANGED <<data, safe>> /\ log' = <<>>
    BY <1>6 DEF DropLog, DeleteLog, Goto
  <2>2. Settled'
    BY <2>1 DEF FilesOK
  <2>3. Committed = data["checkpoint"] /\ Committed' = data["checkpoint"]
    BY <1>t, <2>1, <2>2, CommittedValue DEF CommittedFacts
  <2> QED  BY <2>1, <2>3 DEF Value, ValueOK
<1>7. CASE ReadAndReplay
  <2>1. /\ pc = "read" /\ pc' \in {"101", "up"} /\ UNCHANGED <<files, data, log, buf>>
        /\ obj' = data["checkpoint"] \o log /\ safe' = obj'
    BY <1>7 DEF ReadAndReplay, Goto, disk
  <2>2. Settled /\ buf = <<>>
    BY <2>1 DEF FilesOK, LogOK
  <2>3. Committed = obj' /\ Committed' = Committed
    BY <2>1, <2>2, CommittedValue, CommittedFrame DEF CommittedFacts
  <2>4. obj' \in Seq(Nat) /\ obj' \o <<>> = obj'
    BY <1>t, <2>1, ConcatEmptySeq
  <2> QED  BY <2>1, <2>2, <2>3, <2>4, PrefixFacts DEF Value, ValueOK
<1> QED  BY <1>1, <1>2, <1>3, <1>4, <1>5, <1>6, <1>7

\* A checkpoint keeps the stable state until the new one has its name, and
\* makes it the object's then.
LEMMA CheckpointValue ==
  ASSUME Sound, DurInv, TypeOK', FilesOK', LogOK',
         BeginCheckpoint \/ WriteCheckpoint \/ EndCheckpoint \/ FailCheckpoint
  PROVE  Value' /\ Committed' = IF pc = "103" THEN obj ELSE Committed
<1> USE DEF DurInv
<1>t. /\ data["checkpoint"] \in Seq(Nat) /\ obj \in Seq(Nat)
      /\ data["checkpoint"] \o <<>> = data["checkpoint"]
      /\ obj \o <<>> = obj
      /\ data \in [Checkpoints -> Seq(Nat)]
      /\ {"checkpoint", "old", "new"} \subseteq Checkpoints
  BY ConcatEmptySeq DEF TypeOK, DiskOK, Checkpoints
<1>1. CASE SaveBackup /\ Goto("101", "open") /\ UNCHANGED <<memory, safe, counters>>
  <2>0. pc = "101" /\ pc' = "open" /\ UNCHANGED <<obj, log, safe>>
    BY <1>1 DEF Goto, memory, SaveBackup, Rename, CreateFile
  <2>1. CASE Settled
    <3>1. data'["old"] = data["checkpoint"]
      BY <1>t, <1>1, <2>1 DEF SaveBackup, Rename, Settled
    <3>2. Saving'
      BY <1>1, <2>0, <2>1 DEF FilesOK, SaveBackup, Rename, Settled, Has, NoState
    <3>3. Committed = data["checkpoint"] \o log /\ Committed' = data'["old"] \o log
      BY <2>0, <2>1, <3>2, CommittedValue DEF CommittedFacts
    <3>4. ~NoState
      BY <2>1 DEF Settled, NoState
    <3> QED  BY <2>0, <3>1, <3>3, <3>4 DEF Value, ValueOK
  <2>2. CASE NoState
    <3>1. NoState'
      BY <1>1, <2>2 DEF SaveBackup, CreateFile, NoState, Has
    <3>2. Committed = <<>> /\ Committed' = <<>>
      BY <2>0, <2>2, <3>1, CommittedValue DEF CommittedFacts
    <3> QED  BY <2>0, <3>1, <3>2 DEF Value, ValueOK
  <2> QED  BY <2>0, <2>1, <2>2 DEF FilesOK
<1>2. CASE (OpenNew /\ Goto("open", "102") /\ UNCHANGED <<memory, safe, counters>>)
             \/ WriteCheckpoint
  <2>1. /\ pc \in {"open", "102"} /\ pc' \in {"102", "103"}
        /\ UNCHANGED <<obj, log, safe>>
        /\ data'["old"] = data["old"]
        /\ files' \in {files, files \cup {"new"}}
    BY <1>t, <1>2 DEF Goto, memory, OpenNew, WriteCheckpoint, WriteNew
  <2>2. pc' = "103" => data'["new"] = obj
    BY <1>t, <1>2 DEF Goto, OpenNew, WriteCheckpoint, WriteNew
  <2>3. CASE Saving
    <3>1. Saving'
      BY <2>1, <2>3 DEF Saving, Has
    <3>2. Committed' = Committed
      BY <2>1, <2>3, <3>1, CommittedValue DEF CommittedFacts
    <3>3. ~NoState
      BY <2>3 DEF Saving, NoState
    <3> QED  BY <2>1, <2>2, <3>2, <3>3 DEF Value, ValueOK
  <2>4. CASE NoState
    <3>1. NoState'
      BY <2>1, <2>4 DEF NoState, Has
    <3>2. Committed = <<>> /\ Committed' = <<>>
      BY <2>1, <2>4, <3>1, CommittedValue DEF CommittedFacts
    <3> QED  BY <2>1, <2>2, <3>1, <3>2 DEF Value, ValueOK
  <2> QED  BY <2>1, <2>3, <2>4 DEF FilesOK
<1>3. CASE CommitNew /\ Goto("103", "104") /\ safe' = obj /\ UNCHANGED memory
  <2>1. data'["checkpoint"] = obj /\ pc' = "104" /\ obj' = obj
    BY <1>t, <1>3 DEF CommitNew, Rename, Goto, memory, ValueOK
  <2>2. Committed' = obj
    BY <2>1, CommittedValue DEF CommittedFacts
  <2>3. pc = "103"
    BY <1>3 DEF Goto
  <2> QED  BY <1>t, <1>3, <2>1, <2>2, <2>3, PrefixFacts DEF Value, ValueOK
<1>4. CASE TruncateLog /\ Goto("104", "105") /\ UNCHANGED <<memory, safe, counters>>
  <2>1. /\ pc = "104" /\ pc' = "105" /\ log' = <<>>
        /\ UNCHANGED <<data, obj, safe>>
    BY <1>4 DEF TruncateLog, Goto, memory
  <2>2. Saved' \/ Booted'
    BY <2>1 DEF FilesOK
  <2>3. Committed = data["checkpoint"] /\ Committed' = data["checkpoint"]
    BY <1>t, <2>1, <2>2, CommittedValue DEF CommittedFacts
  <2> QED  BY <2>1, <2>3 DEF Value, ValueOK
<1>5. CASE DropBackup /\ Goto("105", "up") /\ UNCHANGED <<obj, buf, safe>>
  <2>1. /\ pc = "105" /\ pc' = "up" /\ UNCHANGED <<data, log>>
    BY <1>5 DEF DropBackup, DeleteFile, Goto
  <2>2. (Saved \/ Booted) /\ Settled' /\ log = <<>> /\ buf = <<>>
    BY <2>1 DEF FilesOK, LogOK
  <2>3. Committed = data["checkpoint"] /\ Committed' = data["checkpoint"]
    BY <1>t, <2>1, <2>2, CommittedValue DEF CommittedFacts
  <2> QED  BY <1>t, <1>5, <2>1, <2>2, <2>3 DEF Value, ValueOK
<1>6. CASE FailCheckpoint
  <2>1. /\ pc = "101" /\ pc' = (IF inInit THEN "down" ELSE "up")
        /\ UNCHANGED <<files, data, log, buf, safe>>
        /\ ~inInit => obj' = obj
    BY <1>6 DEF FailCheckpoint, Sound, disk
  <2>2. Committed' = Committed
    BY <2>1, CommittedFrame
  <2>3. ~inInit => obj = Committed /\ buf = <<>>
    BY <2>1 DEF FilesOK, ValueOK, LogOK, Settled, NoState
  <2> QED  BY <1>t, <2>1, <2>2, <2>3 DEF Value, ValueOK
<1> QED  BY <1>1, <1>2, <1>3, <1>4, <1>5, <1>6 DEF BeginCheckpoint, EndCheckpoint

-----------------------------------------------------------------------------
(* Updates, disposal and crashes.                                          *)

\* Closing or flushing the log makes the object's state the stable one.
LEMMA FlushValue ==
  ASSUME DurInv, FilesOK', NEW to \in {"101", "up", "501"}, FreeLog(to) \/ FlushLog
  PROVE  Value' /\ Committed' = obj
<1> USE DEF DurInv
<1>1. /\ pc = "up" /\ pc' \in {"101", "up", "501"}
      /\ AppendToLog(buf) /\ buf' = <<>> /\ obj' = obj /\ safe' = obj
  BY DEF FreeLog, FlushLog, Goto
<1>2. /\ data["checkpoint"] \in Seq(Nat) /\ log \in Seq(Nat) /\ buf \in Seq(Nat)
      /\ obj \in Seq(Nat) /\ obj \o <<>> = obj
  BY ConcatEmptySeq DEF TypeOK, DiskOK, Checkpoints
<1>3. log' = log \o buf /\ data' = data
  BY <1>1 DEF AppendToLog, TornOK
<1>4. Settled /\ Settled'
  <2>1. files' = files
    BY <1>1 DEF AppendToLog
  <2> QED  BY <1>1, <2>1 DEF FilesOK, Settled, Has
<1>5. Committed = data["checkpoint"] \o log /\ Committed' = data["checkpoint"] \o (log \o buf)
  BY <1>1, <1>3, <1>4, CommittedValue DEF CommittedFacts
<1>6. obj = Committed \o buf
  BY <1>1 DEF ValueOK
<1>7. Committed' = obj
  <2>1. (data["checkpoint"] \o log) \o buf = data["checkpoint"] \o (log \o buf)
    BY <1>2, ConcatThree
  <2> QED  BY <1>5, <1>6, <2>1
<1> QED  BY <1>1, <1>2, <1>7, PrefixFacts DEF Value, ValueOK

\* An update keeps what is stable, and is in the log or the buffer when done.
LEMMA UpdateValue ==
  ASSUME DurInv, TypeOK', FilesOK', CallUpdate \/ EndUpdate \/ Spill \/ PlainUpdate
  PROVE  /\ Value'
         /\ IF pc = "403" /\ pc' = "up" /\ ForceToDisk THEN Committed' = obj'
            ELSE IF pc' = pc /\ pc # "off"
            THEN IsPrefix(Committed, Committed') /\ IsPrefix(Committed', obj)
            ELSE Committed' = Committed
<1> USE DEF DurInv
<1>t. /\ data["checkpoint"] \in Seq(Nat) /\ log \in Seq(Nat) /\ buf \in Seq(Nat)
      /\ obj \in Seq(Nat) /\ obj' \in Seq(Nat) /\ obj' \o <<>> = obj'
      /\ safe \in Seq(Nat) /\ data["checkpoint"] \o log \in Seq(Nat)
  BY ConcatEmptySeq, ConcatProperties DEF TypeOK, DiskOK, Checkpoints
<1>a. \A r \in Seq(Nat) :
        (data["checkpoint"] \o log) \o r = data["checkpoint"] \o (log \o r)
  <2> DEFINE c == data["checkpoint"]
  <2>1. c \in Seq(Nat) /\ log \in Seq(Nat)
    BY <1>t
  <2> HIDE DEF c
  <2>2. \A r \in Seq(Nat) : (c \o log) \o r = c \o (log \o r)
    BY <2>1, ConcatThree
  <2> QED  BY <2>2 DEF c
<1>1. CASE CallUpdate
  <2>1. /\ pc = "up" /\ pc' = "403" /\ UNCHANGED <<data, log, obj, buf, safe>>
    BY <1>1 DEF CallUpdate, ReOpenLog, CreateFile, disk, Goto
  <2>2. Settled /\ Settled'
    BY <2>1 DEF FilesOK
  <2>3. Committed' = Committed
    BY <2>1, <2>2, CommittedValue DEF CommittedFacts
  <2> QED  BY <2>1, <2>3 DEF Value, ValueOK
<1>2. CASE EndUpdate
  <2>1. /\ pc = "403" /\ pc' = "up" /\ obj' = Append(obj, nUpdates') /\ data' = data
    BY <1>2 DEF EndUpdate, Goto, AppendToLog, disk
  <2>2. Settled /\ Settled'
    BY <2>1 DEF FilesOK
  <2>3. nUpdates' \in Nat
    BY BoundsAssumption DEF TypeOK
  <2>4. Append(buf, nUpdates') \in Seq(Nat)
    BY <1>t, <2>3, AppendProperties
  <2>5. Committed = data["checkpoint"] \o log /\ Committed' = data["checkpoint"] \o log'
    BY <2>1, <2>2, CommittedValue DEF CommittedFacts
  <2>6. obj' = (data["checkpoint"] \o log) \o Append(buf, nUpdates')
    <3>1. obj = (data["checkpoint"] \o log) \o buf
      BY <2>1, <2>5 DEF ValueOK
    <3>2. Append((data["checkpoint"] \o log) \o buf, nUpdates')
            = (data["checkpoint"] \o log) \o Append(buf, nUpdates')
      BY <1>t, <2>3, ConcatAppend
    <3> QED  BY <2>1, <3>1, <3>2
  <2>7. CASE ForceToDisk
    <3>1. log' = log \o Append(buf, nUpdates') /\ buf' = <<>> /\ safe' = obj'
      BY <1>2, <2>1, <2>7 DEF EndUpdate, AppendToLog, TornOK
    <3>2. Committed' = obj'
      <4>1. (data["checkpoint"] \o log) \o Append(buf, nUpdates')
              = data["checkpoint"] \o (log \o Append(buf, nUpdates'))
        BY <1>a, <2>4
      <4> QED  BY <2>5, <2>6, <3>1, <4>1
    <3> QED  BY <1>t, <2>1, <2>7, <3>1, <3>2, PrefixFacts DEF Value, ValueOK
  <2>8. CASE ~ForceToDisk
    <3>1. log' = log /\ buf' = Append(buf, nUpdates') /\ safe' = safe
      BY <1>2, <2>8 DEF EndUpdate, disk
    <3> QED  BY <2>1, <2>5, <2>6, <2>8, <3>1 DEF Value, ValueOK
  <2> QED  BY <2>7, <2>8
<1>3. CASE Spill
  <2>1. /\ pc \in {"up", "403"} /\ UNCHANGED <<pc, files, data, obj, safe>>
    BY <1>3 DEF Spill
  <2>2. PICK k \in 0 .. Len(buf) :
          /\ log' = log \o SubSeq(buf, 1, k)
          /\ buf' = SubSeq(buf, k + 1, Len(buf))
    BY <1>3 DEF Spill
  <2> DEFINE p == SubSeq(buf, 1, k)
             q == SubSeq(buf, k + 1, Len(buf))
  <2>3. p \in Seq(Nat) /\ q \in Seq(Nat) /\ p \o q = buf
    BY <1>t, SplitBuffer
  <2>4. log' = log \o p /\ buf' = q
    BY <2>2
  <2> HIDE DEF p, q
  <2>5. Settled /\ Settled'
    BY <2>1 DEF FilesOK
  <2>6. Committed = data["checkpoint"] \o log /\ Committed' = data["checkpoint"] \o (log \o p)
    BY <2>1, <2>4, <2>5, CommittedValue DEF CommittedFacts
  <2>7. Committed' = Committed \o p
    <3>1. (data["checkpoint"] \o log) \o p = data["checkpoint"] \o (log \o p)
      BY <1>a, <2>3
    <3> QED  BY <2>6, <3>1
  <2>8. obj = Committed' \o q
    <3>1. obj = Committed \o (p \o q)
      BY <2>1, <2>3 DEF ValueOK
    <3>2. ((data["checkpoint"] \o log) \o p) \o q
            = (data["checkpoint"] \o log) \o (p \o q)
      <4> DEFINE c == data["checkpoint"] \o log
      <4>1. c \in Seq(Nat)
        BY <1>t
      <4> HIDE DEF c
      <4>2. (c \o p) \o q = c \o (p \o q)
        BY <2>3, <4>1, ConcatThree
      <4> QED  BY <4>2 DEF c
    <3> QED  BY <2>6, <2>7, <3>1, <3>2
  <2>9. IsPrefix(safe, Committed \o p)
    BY <1>t, <2>3, <2>6, PrefixOfConcat
  <2>10. IsPrefix(Committed, Committed')
    BY <1>t, <2>3, <2>6, <2>7, PrefixFacts, PrefixOfConcat
  <2>11. IsPrefix(Committed', obj)
    <3>1. Committed' \in Seq(Nat)
      BY <1>t, <2>3, <2>6, <2>7, ConcatProperties
    <3> QED  BY <2>3, <2>8, <3>1, PrefixFacts, PrefixOfConcat
  <2> QED  BY <2>1, <2>4, <2>7, <2>8, <2>9, <2>10, <2>11 DEF Value, ValueOK
<1>4. CASE PlainUpdate
  <2>1. Committed' = Committed
    BY <1>4, CommittedFrame DEF PlainUpdate, disk
  <2>2. pc = "off" /\ pc' = "off" /\ UNCHANGED <<data, buf, safe>>
    BY <1>4 DEF PlainUpdate, disk
  <2> QED  BY <2>1, <2>2 DEF Value, ValueOK
<1> QED  BY <1>1, <1>2, <1>3, <1>4

\* Disposal takes the stable state away at once; a crash leaves it.
LEMMA EndValue ==
  ASSUME Sound, DurInv, FilesOK', DisposeFiles \/ Crash \/ Stuck \/ UNCHANGED vars
  PROVE  /\ Value'
         /\ Committed' = IF pc = "501" /\ pc' = "501old" THEN <<>> ELSE Committed
<1> USE DEF DurInv
<1>1. CASE DisposeFiles
  <2>1. /\ pc \in {"501", "501old", "501new", "502", "503"}
        /\ pc' \in {"501old", "501new", "502", "503", "off"}
        /\ IF pc = "501" THEN safe' = <<>> /\ pc' = "501old" ELSE safe' = safe
    BY <1>1 DEF DisposeFiles, Goto
  <2>2. NoState' /\ Committed' = <<>>
    BY <2>1, CommittedValue DEF FilesOK, CommittedFacts
  <2>3. pc # "501" => Committed = <<>>
    BY <2>1, CommittedValue DEF FilesOK, CommittedFacts
  <2>4. IsPrefix(<<>>, <<>>)
    BY PrefixFacts, EmptySeq
  <2> QED  BY <2>1, <2>2, <2>3, <2>4 DEF Value, ValueOK
<1>2. CASE Crash
  <2>1. /\ pc \notin {"down", "stuck", "dropLog"} /\ pc' = "down"
        /\ Has("dummy") => pc # "104"
        /\ UNCHANGED <<files, data, log, safe>>
    BY <1>2, PointsAssumption DEF Crash, MayCrash, Sound
  <2>2. CASE pc = "104"
    <3>1. Saved
      BY <2>1, <2>2 DEF FilesOK, Booted
    <3>2. Saved'
      BY <2>1, <3>1 DEF Saved, Has
    <3> QED  BY <2>1, <2>2, <3>1, <3>2, CommittedValue DEF CommittedFacts, Value,
                ValueOK
  <2>3. CASE pc = "dropNew"
    <3>1. Refused
      BY <2>3 DEF FilesOK
    <3>2. Refused'
      BY <2>1, <3>1 DEF Refused, Has
    <3> QED  BY <2>1, <2>3, <3>1, <3>2, CommittedValue DEF CommittedFacts, Value,
                ValueOK
  <2>4. CASE pc \notin {"104", "dropNew"}
    <3>1. Committed' = Committed
      BY <2>1, <2>4, CommittedFrame
    <3> QED  BY <2>1, <3>1 DEF Value, ValueOK
  <2> QED  BY <2>2, <2>3, <2>4
<1>3. CASE Stuck \/ UNCHANGED vars
  <2>1. UNCHANGED <<files, data, log, pc, obj, buf, safe>>
    BY <1>3 DEF Stuck, vars, disk, memory
  <2>2. Committed' = Committed /\ (NoState' <=> NoState)
    BY <2>1 DEF Committed, OnDisk, Recoverable, BackupValid, NewValid, Has, NoState
  <2> QED  BY <2>1, <2>2 DEF Value, ValueOK
<1> QED  BY <1>1, <1>2, <1>3

-----------------------------------------------------------------------------
(* The invariant.                                                          *)

\* The inductive invariant holds when nothing exists yet.
LEMMA DurInit == Init => DurInv
<1> SUFFICES ASSUME Init PROVE DurInv
  OBVIOUS
<1>1. pc = "down" /\ files = {} /\ log = <<>> /\ tail = "whole" /\ safe = <<>>
      /\ buf = <<>> /\ ~logOpen
  BY DEF Init, DiskInit
<1>2. TypeOK /\ CountOK
  BY TypeInit
<1>3. NoState /\ FilesOK /\ LogOK /\ TornOK
  BY <1>1 DEF FilesOK, LogOK, TornOK, NoState, Has, RecoverLabels
<1>4. Committed = <<>>
  BY <1>1, <1>3, CommittedValue DEF CommittedFacts
<1>5. IsPrefix(safe, Committed)
  BY <1>1, <1>4, PrefixFacts, EmptySeq
<1> QED  BY <1>1, <1>2, <1>3, <1>5 DEF DurInv, ValueOK

\* Every step preserves it.
LEMMA DurStep ==
  ASSUME Sound, DurInv, [Next]_vars
  PROVE  DurInv'
<1>1. TypeOK' /\ CountOK' /\ FilesOK' /\ LogOK' /\ TornOK'
  BY TypeStep, FilesStep, LogStep, TornStep DEF DurInv
<1>2. Value'
  <2>1. "101" \in {"101", "up", "501"} /\ "up" \in {"101", "up", "501"}
        /\ "501" \in {"101", "up", "501"}
    OBVIOUS
  <2> QED  BY <1>1, <2>1, RecoverValue, CheckpointValue, FlushValue, UpdateValue,
              EndValue
           DEF Next, Checkpoint, Dispose
<1> QED  BY <1>1, <1>2 DEF DurInv, Value

\* Where the program may end, the stable state is what a recovery finds.
LEMMA AtRest ==
  ASSUME Sound, DurInv, pc \in {"down", "stuck"} \/ MayCrash
  PROVE  OnDisk = Committed
<1>1. pc # "dropLog"
  BY DEF MayCrash, Sound
<1>2. CASE pc = "104"
  <2>1. Saved
    BY <1>2 DEF MayCrash, Sound, DurInv, FilesOK, Booted
  <2>2. OnDisk = data["checkpoint"]
    BY <2>1 DEF OnDisk, Saved, Recoverable, BackupValid, NewValid, Has
  <2> QED  BY <1>2, <2>2 DEF Committed
<1>3. CASE pc = "dropNew"
  <2>1. Refused
    BY <1>3 DEF DurInv, FilesOK
  <2>2. OnDisk = data["checkpoint"] \o log
    BY <2>1 DEF OnDisk, Refused, Recoverable, BackupValid, NewValid, Has
  <2> QED  BY <1>3, <2>2 DEF Committed
<1> QED  BY <1>1, <1>2, <1>3 DEF Committed

\* Every state a program can be in has the types of TypeOK, whatever crashes
\* and fails.
THEOREM TypeCorrect == Spec => []TypeOK
<1>1. Init => TypeOK /\ CountOK
  BY TypeInit
<1>2. TypeOK /\ CountOK /\ [Next]_vars => (TypeOK /\ CountOK)'
  BY TypeStep
<1> QED  BY <1>1, <1>2, PTL DEF Spec

\* Whenever the program may end, what was flushed to the log or saved is on
\* disk, and Recover and ReplayLog find it there: "without loosing anything
\* that was flushed to the log".
THEOREM Durability ==
  ASSUME Sound
  PROVE  Spec => []Durable
<1>1. Init => DurInv
  BY DurInit
<1>2. DurInv /\ [Next]_vars => DurInv'
  BY DurStep
<1>3. DurInv => Durable
  <2> SUFFICES ASSUME DurInv, pc \in {"down", "stuck"} \/ MayCrash
               PROVE  IsPrefix(safe, OnDisk)
    BY DEF Durable
  <2> QED  BY AtRest DEF DurInv
<1> QED  BY <1>1, <1>2, <1>3, PTL DEF Spec

-----------------------------------------------------------------------------
(* Recovery finds a backup whenever it needs one.                          *)

\* The files that init refuses are left behind only inside Recover.
BackupKept ==
  /\ pc \in {"down", "restore"} => ~Refused
  /\ pc # "stuck"

\* A program that does not end between the two calls of Recover's case (1)
\* does not leave such files.
LEMMA BackupStep ==
  ASSUME "dropNew" \notin CrashPoints \cup BootCrashPoints,
         FailurePoints \subseteq {"101"},
         TypeOK, FilesOK, BackupKept, [Next]_vars
  PROVE  BackupKept'
<1> USE DEF BackupKept
<1>1. CASE CallInit
  <2>1. UNCHANGED files /\ pc' \in {"101", "restore", "dropOld", "read"}
    BY <1>1 DEF CallInit, disk
  <2>2. pc = "off" => pc' # "restore"
    BY <1>1 DEF CallInit, FilesOK, NoState, Recoverable
  <2>3. pc \in {"down", "off"}
    BY <1>1 DEF CallInit
  <2> QED  BY <2>1, <2>2, <2>3 DEF Refused, Has
<1>2. CASE NoBackup
  <2>1. pc = "restore" /\ ~Has("old")
    BY <1>2 DEF NoBackup, Goto
  <2> QED  BY <2>1 DEF FilesOK, Saving
<1>3. CASE FailCheckpoint
  <2>1. pc = "101" /\ UNCHANGED files /\ pc' \in {"down", "up"}
    BY <1>3 DEF FailCheckpoint, disk
  <2> QED  BY <2>1 DEF FilesOK, Settled, NoState, Refused, Has
<1>4. CASE Crash
  <2>1. pc \notin {"down", "stuck", "dropNew"} /\ pc' = "down" /\ files' = files
    BY <1>4, PointsAssumption DEF Crash, MayCrash
  <2>2. ~Refused
    BY <2>1 DEF FilesOK, TypeOK, Labels, NoState, Settled, Saving, Saved, Booted,
                Refused, Has
  <2> QED  BY <2>1, <2>2 DEF Refused, Has
<1>5. CASE Stuck \/ UNCHANGED vars
  BY <1>5 DEF Stuck, vars, disk, Refused, Has
<1>6. CASE RestoreBackup \/ DropNew \/ DropOld \/ DropLog \/ ReadAndReplay
  BY <1>6 DEF RestoreBackup, DropNew, DropOld, DropLog, ReadAndReplay, Goto
<1>7. CASE BeginCheckpoint \/ WriteCheckpoint \/ EndCheckpoint
  BY <1>7 DEF BeginCheckpoint, WriteCheckpoint, EndCheckpoint, Goto
<1>8. CASE FreeLog("101") \/ FreeLog("up") \/ FreeLog("501") \/ DisposeFiles
  BY <1>8 DEF FreeLog, DisposeFiles, Goto
<1>9. CASE CallUpdate \/ EndUpdate \/ Spill \/ FlushLog \/ PlainUpdate
  BY <1>9 DEF CallUpdate, EndUpdate, Spill, FlushLog, PlainUpdate, Goto
<1> QED  BY <1>1, <1>2, <1>3, <1>4, <1>5, <1>6, <1>7, <1>8, <1>9
         DEF Next, Checkpoint, Dispose

\* If the program does not end between the two calls of Recover's case (1), no
\* crash, failure or later start leads init to a directory that it refuses:
\* the StableError.E of Recover is never raised.
THEOREM RecoveryNeverRefuses ==
  ASSUME Sound, "dropNew" \notin CrashPoints \cup BootCrashPoints
  PROVE  Spec => []RecoverySucceeds
<1> DEFINE Inv == DurInv /\ BackupKept
<1>1. Init => Inv
  <2>1. Init => BackupKept
    BY DEF Init, DiskInit, BackupKept, Refused, Has
  <2> QED  BY <2>1, DurInit
<1>2. Inv /\ [Next]_vars => Inv'
  BY DurStep, BackupStep DEF DurInv, Sound
<1>3. Inv => RecoverySucceeds
  BY DEF BackupKept, RecoverySucceeds
<1> QED  BY <1>1, <1>2, <1>3, PTL DEF Spec

-----------------------------------------------------------------------------
(* The stable object as the store of Stable.ig.                            *)

Running == pc \notin RecoverLabels \cup {"down", "stuck"}

\* A program that has not read the checkpoint yet has no object.
NoObject == ~Running => obj = <<>>

\* Nothing but a crash, or init giving up, takes the object away.
LEMMA NoObjectStep ==
  ASSUME FilesOK, NoObject, [Next]_vars
  PROVE  NoObject'
<1> USE DEF NoObject, Running, RecoverLabels
<1>1. CASE CallInit
  <2>1. pc \in {"down", "off"} /\ obj' = obj
    BY <1>1 DEF CallInit
  <2>2. pc = "off" => pc' = "101"
    BY <1>1 DEF CallInit, FilesOK, NoState, Recoverable, BackupValid, NewValid
  <2> QED  BY <2>1, <2>2
<1>2. CASE RestoreBackup \/ NoBackup \/ DropNew \/ DropOld \/ DropLog
  BY <1>2 DEF RestoreBackup, NoBackup, DropNew, DropOld, DropLog, Goto, memory
<1>3. CASE ReadAndReplay
  BY <1>3 DEF ReadAndReplay, Goto
<1>4. CASE FreeLog("101") \/ FreeLog("up") \/ FreeLog("501") \/ DisposeFiles
  BY <1>4 DEF FreeLog, DisposeFiles, Goto
<1>5. CASE BeginCheckpoint \/ WriteCheckpoint \/ EndCheckpoint
  BY <1>5 DEF BeginCheckpoint, WriteCheckpoint, EndCheckpoint, Goto
<1>6. CASE FailCheckpoint
  BY <1>6 DEF FailCheckpoint
<1>7. CASE CallUpdate \/ EndUpdate \/ Spill \/ FlushLog \/ PlainUpdate
  BY <1>7 DEF CallUpdate, EndUpdate, Spill, FlushLog, PlainUpdate, Goto
<1>8. CASE Crash
  BY <1>8 DEF Crash
<1>9. CASE Stuck \/ UNCHANGED vars
  BY <1>9 DEF Stuck, vars, memory
<1> QED  BY <1>1, <1>2, <1>3, <1>4, <1>5, <1>6, <1>7, <1>8, <1>9
         DEF Next, Checkpoint, Dispose

StoreStep == [Store!Next]_(Store!vars)

\* Which steps are steps of the store.
LEMMA StoreStay ==
  ASSUME Running' = Running, Recoverable' = Recoverable, Committed' = Committed,
         obj' = obj, safe' = safe
  PROVE  StoreStep
BY DEF StoreStep, Store!vars, Running

LEMMA StoreStart ==
  ASSUME ~Running, ~Recoverable, Running', Recoverable' = Recoverable,
         Committed' = Committed, obj' = obj, safe' = safe
  PROVE  StoreStep
<1>1. Store!Start
  BY DEF Store!Start, Running
<1> QED  BY <1>1 DEF StoreStep, Store!Next

LEMMA StoreSave ==
  ASSUME Running, Running', Recoverable', Committed' = obj, safe' = obj, obj' = obj
  PROVE  StoreStep
<1>1. Store!Save
  BY DEF Store!Save, Running
<1> QED  BY <1>1 DEF StoreStep, Store!Next

LEMMA StoreUpdate ==
  ASSUME Running, Running', Recoverable' = Recoverable, NEW forced \in BOOLEAN,
         obj' # <<>>, obj' = Append(obj, Last(obj')),
         IF Recoverable /\ forced THEN Committed' = obj' /\ safe' = obj'
         ELSE Committed' = Committed /\ safe' = safe
  PROVE  StoreStep
<1>1. Store!Update(forced)
  BY DEF Store!Update, Running, Store!Last, Last
<1>2. CASE forced = TRUE
  BY <1>1, <1>2 DEF StoreStep, Store!Next
<1>3. CASE forced = FALSE
  BY <1>1, <1>3 DEF StoreStep, Store!Next
<1> QED  BY <1>2, <1>3

LEMMA StoreSpill ==
  ASSUME Running, Running', Recoverable, Recoverable', obj' = obj, safe' = safe,
         IsPrefix(Committed, Committed'), IsPrefix(Committed', obj)
  PROVE  StoreStep
<1>1. Store!Spill
  BY DEF Store!Spill, Running, Store!IsPrefix, IsPrefix
<1> QED  BY <1>1 DEF StoreStep, Store!Next

LEMMA StoreDispose ==
  ASSUME Running, Running', Recoverable, ~Recoverable', obj' = obj,
         Committed' = <<>>, safe' = <<>>
  PROVE  StoreStep
<1>1. Store!Dispose
  BY DEF Store!Dispose, Running
<1> QED  BY <1>1 DEF StoreStep, Store!Next

LEMMA StoreCrash ==
  ASSUME Running, ~Running', Recoverable' = Recoverable, obj' = <<>>,
         Committed' = Committed, safe' = safe
  PROVE  StoreStep
<1>1. Store!Crash
  BY DEF Store!Crash, Running
<1> QED  BY <1>1 DEF StoreStep, Store!Next

LEMMA StoreRecover ==
  ASSUME ~Running, Recoverable, Running', Recoverable', obj' = Committed,
         Committed' = Committed, safe' = obj'
  PROVE  StoreStep
<1>1. Store!Recover
  BY DEF Store!Recover, Running
<1> QED  BY <1>1 DEF StoreStep, Store!Next

\* A recovery is no step of the store before the checkpoint is read.
LEMMA RecoverStep ==
  ASSUME DurInv, DurInv', NoObject, Committed' = Committed,
         CallInit \/ RestoreBackup \/ NoBackup \/ DropNew \/ DropOld \/ DropLog
           \/ ReadAndReplay
  PROVE  StoreStep
<1> USE DEF Running, RecoverLabels
<1>1. CASE CallInit
  <2>1. /\ pc \in {"down", "off"} /\ UNCHANGED <<obj, safe>>
        /\ Recoverable' = Recoverable
        /\ pc' \in {"101"} \cup RecoverLabels
        /\ pc' = "101" => ~Recoverable
    BY <1>1 DEF CallInit, disk, Recoverable, BackupValid, NewValid, Has
  <2>2. pc = "off" => pc' = "101"
    <3>1. pc = "off" => ~Recoverable
      BY DEF DurInv, FilesOK, NoState, Recoverable
    <3>2. ~Recoverable => pc' = "101"
      BY <1>1 DEF CallInit, Recoverable, BackupValid, NewValid
    <3> QED  BY <3>1, <3>2
  <2>3. CASE pc = "down" /\ pc' = "101"
    BY <2>1, <2>3, StoreStart
  <2>4. CASE (pc = "off") \/ (pc' # "101")
    <3>1. Running' = Running
      BY <2>1, <2>2, <2>4
    <3> QED  BY <2>1, <3>1, StoreStay
  <2> QED  BY <2>1, <2>3, <2>4
<1>2. CASE RestoreBackup \/ NoBackup \/ DropNew \/ DropOld \/ DropLog
  <2>1. /\ pc \in RecoverLabels /\ pc' \in RecoverLabels \cup {"stuck"}
        /\ UNCHANGED <<obj, safe>>
    BY <1>2 DEF RestoreBackup, NoBackup, DropNew, DropOld, DropLog, Goto, memory
  <2>2. Recoverable' = Recoverable
    <3>1. Recoverable
      BY <2>1 DEF DurInv, FilesOK, Settled, Saving, Saved, Refused, Recoverable
    <3>2. Recoverable'
      BY <2>1 DEF DurInv, FilesOK, Settled, Saving, Saved, Refused, Recoverable
    <3> QED  BY <3>1, <3>2 DEF Recoverable
  <2> QED  BY <2>1, <2>2, StoreStay
<1>3. CASE ReadAndReplay
  <2>1. /\ pc = "read" /\ pc' \in {"101", "up"}
        /\ UNCHANGED <<files, data, log, buf>> /\ safe' = obj'
        /\ obj' = data["checkpoint"] \o log
    BY <1>3 DEF ReadAndReplay, Goto, disk
  <2>2. Recoverable /\ Recoverable' = Recoverable
    BY <2>1 DEF DurInv, FilesOK, Settled, Recoverable, Has
  <2>3. obj' = Committed
    BY <2>1, CommittedValue DEF CommittedFacts, DurInv, FilesOK
  <2> QED  BY <2>1, <2>2, <2>3, StoreRecover
<1> QED  BY <1>1, <1>2, <1>3

\* A checkpoint is one step of the store, when the new one gets its name; a
\* failure in init is a crash.
LEMMA CheckpointStep ==
  ASSUME Sound, DurInv, DurInv',
         Committed' = IF pc = "103" THEN obj ELSE Committed,
         BeginCheckpoint \/ WriteCheckpoint \/ EndCheckpoint \/ FailCheckpoint
  PROVE  StoreStep
<1> USE DEF Running, RecoverLabels
<1>1. CASE BeginCheckpoint \/ WriteCheckpoint \/ EndCheckpoint
  <2>1. /\ pc \in CheckpointLabels /\ pc' \in {"up", "open", "102", "103", "104", "105"}
        /\ obj' = obj
        /\ safe' = IF pc = "103" THEN obj ELSE safe
    BY <1>1 DEF BeginCheckpoint, WriteCheckpoint, EndCheckpoint, Goto, memory,
               CheckpointLabels
  <2>2. pc # "103" => Recoverable' = Recoverable
    <3>1. CASE Recoverable
      <4>1. "old" \in files' \/ "checkpoint" \in files'
        BY <1>1, <3>1
           DEF BeginCheckpoint, WriteCheckpoint, EndCheckpoint, SaveBackup,
               OpenNew, WriteNew, CommitNew, TruncateLog, DropBackup, Rename,
               CreateFile, DeleteFile, Goto, Recoverable, Has, DurInv, FilesOK,
               Saved, Booted
      <4> QED  BY <3>1, <4>1 DEF Recoverable, Has
    <3>2. CASE ~Recoverable /\ pc # "103"
      <4>1. files' \subseteq files \cup {"new", "dummy", "log"}
        BY <1>1, <3>2
           DEF BeginCheckpoint, WriteCheckpoint, EndCheckpoint, SaveBackup,
               OpenNew, WriteNew, CommitNew, TruncateLog, DropBackup, Rename,
               CreateFile, DeleteFile, Goto, Recoverable, Has
      <4> QED  BY <3>2, <4>1 DEF Recoverable, Has
    <3> QED  BY <3>1, <3>2
  <2>3. pc = "103" => Recoverable'
    <3>1. pc = "103" => pc' = "104"
      BY <1>1 DEF BeginCheckpoint, WriteCheckpoint, EndCheckpoint, Goto
    <3> QED  BY <3>1 DEF DurInv, FilesOK, Saved, Booted, Recoverable
  <2>4. Running /\ Running'
    BY <2>1 DEF CheckpointLabels
  <2>5. CASE pc = "103"
    BY <2>1, <2>3, <2>4, <2>5, StoreSave
  <2>6. CASE pc # "103"
    BY <2>1, <2>2, <2>4, <2>6, StoreStay
  <2> QED  BY <2>5, <2>6
<1>2. CASE FailCheckpoint
  <2>1. /\ pc = "101" /\ UNCHANGED <<files, safe>>
        /\ IF inInit THEN pc' = "down" /\ obj' = <<>> ELSE pc' = "up" /\ obj' = obj
    BY <1>2 DEF FailCheckpoint, Sound, disk
  <2>2. Recoverable' = Recoverable
    BY <2>1 DEF Recoverable, Has
  <2> QED  BY <2>1, <2>2, StoreCrash, StoreStay
<1> QED  BY <1>1, <1>2

\* The log's records become stable when they reach its file, all of them in a
\* flush and some of them when the buffer runs over.
LEMMA UpdateStep ==
  ASSUME DurInv, DurInv',
         CallUpdate \/ EndUpdate \/ Spill \/ PlainUpdate,
         IF pc = "403" /\ pc' = "up" /\ ForceToDisk THEN Committed' = obj'
         ELSE IF pc' = pc /\ pc # "off"
         THEN IsPrefix(Committed, Committed') /\ IsPrefix(Committed', obj)
         ELSE Committed' = Committed
  PROVE  StoreStep
<1> USE DEF Running, RecoverLabels
<1>a. ASSUME NEW n \in Nat, obj' = Append(obj, n)
      PROVE  obj' # <<>> /\ obj' = Append(obj, Last(obj'))
  <2>1. obj \in Seq(Nat) /\ obj' \in Seq(Nat)
    BY DEF DurInv, TypeOK
  <2>2. Len(obj') = Len(obj) + 1 /\ obj'[Len(obj) + 1] = n /\ Len(obj) \in Nat
    BY <1>a, <2>1, AppendProperties, LenProperties
  <2>3. Last(obj') = n
    BY <2>2 DEF Last
  <2>4. Len(<<>>) = 0
    BY EmptySeq
  <2> QED  BY <1>a, <2>2, <2>3, <2>4
<1>1. CASE CallUpdate
  <2>1. pc = "up" /\ pc' = "403" /\ UNCHANGED <<obj, safe>>
    BY <1>1 DEF CallUpdate, Goto
  <2>2. Recoverable /\ Recoverable'
    BY <2>1 DEF DurInv, FilesOK, Settled, Recoverable
  <2>3. Recoverable' = Recoverable
    BY <2>2 DEF Recoverable
  <2> QED  BY <2>1, <2>3, StoreStay
<1>2. CASE EndUpdate
  <2>1. /\ pc = "403" /\ pc' = "up"
        /\ nUpdates' \in Nat /\ obj' = Append(obj, nUpdates')
        /\ safe' = IF ForceToDisk THEN obj' ELSE safe
    BY <1>2, BoundsAssumption DEF EndUpdate, Goto, DurInv, TypeOK
  <2>2. Recoverable /\ Recoverable'
    BY <2>1 DEF DurInv, FilesOK, Settled, Recoverable
  <2>3. obj' # <<>> /\ obj' = Append(obj, Last(obj'))
    BY <1>a, <2>1
  <2>4. Recoverable' = Recoverable
    BY <2>2 DEF Recoverable
  <2> QED  BY <2>1, <2>2, <2>3, <2>4, SwitchAssumption, StoreUpdate
<1>3. CASE Spill
  <2>1. pc \in {"up", "403"} /\ UNCHANGED <<pc, files, obj, safe>>
    BY <1>3 DEF Spill
  <2>2. Recoverable /\ Recoverable'
    BY <2>1 DEF DurInv, FilesOK, Settled, Recoverable
  <2> QED  BY <2>1, <2>2, StoreSpill
<1>4. CASE PlainUpdate
  <2>1. /\ pc = "off" /\ pc' = "off" /\ UNCHANGED <<files, safe>>
        /\ nUpdates' \in Nat /\ obj' = Append(obj, nUpdates')
    BY <1>4, BoundsAssumption DEF PlainUpdate, DurInv, TypeOK, disk
  <2>2. Recoverable' = Recoverable
    BY <2>1 DEF Recoverable, Has
  <2>3. obj' # <<>> /\ obj' = Append(obj, Last(obj'))
    BY <1>a, <2>1
  <2> QED  BY <2>1, <2>2, <2>3, StoreUpdate
<1> QED  BY <1>1, <1>2, <1>3, <1>4

\* The first file that a disposal deletes is the checkpoint, and a program
\* that ends before it had an object takes nothing away.
LEMMA EndStep ==
  ASSUME Sound, DurInv, DurInv', NoObject, NoObject',
         Committed' = IF pc = "501" /\ pc' = "501old" THEN <<>> ELSE Committed,
         DisposeFiles \/ Crash \/ Stuck \/ UNCHANGED vars
  PROVE  StoreStep
<1> USE DEF Running, RecoverLabels
<1>1. CASE DisposeFiles
  <2>1. /\ pc \in {"501", "501old", "501new", "502", "503"}
        /\ pc' \in {"501old", "501new", "502", "503", "off"}
        /\ IF pc = "501" THEN safe' = <<>> /\ pc' = "501old"
           ELSE safe' = safe /\ pc' # "501old"
        /\ obj' = obj
    BY <1>1 DEF DisposeFiles, Goto, memory
  <2>2. ~Recoverable' /\ (Recoverable <=> pc = "501")
    BY <2>1 DEF DurInv, FilesOK, Settled, NoState, Recoverable
  <2>3. CASE pc = "501"
    BY <2>1, <2>2, <2>3, StoreDispose
  <2>4. CASE pc # "501"
    <3>1. Recoverable' = Recoverable
      BY <2>2, <2>4 DEF Recoverable
    <3> QED  BY <2>1, <2>4, <3>1, StoreStay
  <2> QED  BY <2>3, <2>4
<1>2. CASE Crash
  <2>1. /\ pc \notin {"down", "stuck"} /\ pc' = "down"
        /\ UNCHANGED <<files, safe>> /\ obj' = <<>>
    BY <1>2, PointsAssumption DEF Crash, MayCrash
  <2>2. Recoverable' = Recoverable
    BY <2>1 DEF Recoverable, Has
  <2>3. CASE Running
    BY <2>1, <2>2, <2>3, StoreCrash
  <2>4. CASE ~Running
    BY <2>1, <2>2, <2>4, StoreStay DEF NoObject
  <2> QED  BY <2>3, <2>4
<1>3. CASE Stuck \/ UNCHANGED vars
  <2>1. UNCHANGED <<pc, files, obj, safe>>
    BY <1>3 DEF Stuck, vars, disk, memory
  <2>2. Recoverable' = Recoverable
    BY <2>1 DEF Recoverable, Has
  <2>3. pc' # "501old" \/ pc # "501"
    BY <2>1
  <2> QED  BY <2>1, <2>2, <2>3, StoreStay
<1> QED  BY <1>1, <1>2, <1>3

\* Closing and flushing the log save the object.
LEMMA FlushStep ==
  ASSUME DurInv, DurInv', NEW to \in {"101", "up", "501"},
         FreeLog(to) \/ FlushLog, Committed' = obj
  PROVE  StoreStep
<1>1. /\ pc = "up" /\ pc' \in {"101", "up", "501"} /\ files' = files
      /\ obj' = obj /\ safe' = obj
  BY DEF FreeLog, FlushLog, Goto, AppendToLog
<1>2. Recoverable'
  BY <1>1 DEF DurInv, FilesOK, Settled, Recoverable, Has
<1> QED  BY <1>1, <1>2, StoreSave DEF Running, RecoverLabels

\* Every step of the stable object is one of the store, or none.
LEMMA RefineStep ==
  ASSUME Sound, DurInv, NoObject, [Next]_vars
  PROVE  StoreStep
<1>1. DurInv' /\ NoObject'
  BY DurStep, NoObjectStep DEF DurInv
<1>2. TypeOK' /\ CountOK' /\ FilesOK' /\ LogOK' /\ TornOK'
  BY <1>1 DEF DurInv
<1>3. "101" \in {"101", "up", "501"} /\ "up" \in {"101", "up", "501"}
      /\ "501" \in {"101", "up", "501"}
  OBVIOUS
<1>4. ASSUME CallInit \/ RestoreBackup \/ NoBackup \/ DropNew \/ DropOld
               \/ DropLog \/ ReadAndReplay
      PROVE  StoreStep
  BY <1>1, <1>2, <1>4, RecoverValue, RecoverStep
<1>5. ASSUME BeginCheckpoint \/ WriteCheckpoint \/ EndCheckpoint \/ FailCheckpoint
      PROVE  StoreStep
  BY <1>1, <1>2, <1>5, CheckpointValue, CheckpointStep
<1>6. ASSUME NEW to \in {"101", "up", "501"}, FreeLog(to) \/ FlushLog
      PROVE  StoreStep
  BY <1>1, <1>2, <1>6, FlushValue, FlushStep
<1>7. ASSUME CallUpdate \/ EndUpdate \/ Spill \/ PlainUpdate
      PROVE  StoreStep
  BY <1>1, <1>2, <1>7, UpdateValue, UpdateStep
<1>8. ASSUME DisposeFiles \/ Crash \/ Stuck \/ UNCHANGED vars
      PROVE  StoreStep
  BY <1>1, <1>2, <1>8, EndValue, EndStep
<1> QED  BY <1>3, <1>4, <1>5, <1>6, <1>7, <1>8 DEF Next, Checkpoint, Dispose

\* Stable.ig's promise: to its client a stable object is the store, in which a
\* flush, a checkpoint and a disposal are one step each, and a crash between
\* any two calls of the file system takes the object back to its stable state.
THEOREM StoreImplemented ==
  ASSUME Sound
  PROVE  Spec => ImplementsStore
<1> DEFINE Inv == DurInv /\ NoObject
<1>1. Init => Inv /\ Store!Init
  <2> SUFFICES ASSUME Init PROVE Inv /\ Store!Init
    OBVIOUS
  <2>1. DurInv
    BY DurInit
  <2>2. pc = "down" /\ files = {} /\ obj = <<>> /\ safe = <<>> /\ log = <<>>
    BY DEF Init, DiskInit
  <2>3. ~Recoverable
    BY <2>2 DEF Recoverable, Has
  <2>4. Committed = <<>>
    BY <2>2, CommittedValue DEF CommittedFacts, NoState, Has
  <2> QED  BY <2>1, <2>2, <2>3, <2>4 DEF NoObject, Store!Init
<1>2. Inv /\ [Next]_vars => Inv'
  BY DurStep, NoObjectStep DEF DurInv
<1>3. Inv /\ [Next]_vars => [Store!Next]_(Store!vars)
  BY RefineStep DEF StoreStep
<1> QED  BY <1>1, <1>2, <1>3, PTL DEF Spec, ImplementsStore, Store!Spec

-----------------------------------------------------------------------------
(* No update is replayed twice.                                            *)

\* The updates of s were made in this order, and none after the n-th.
Ordered(s, n) ==
  /\ s \in Seq(Nat)
  /\ \A i \in 1 .. Len(s) : s[i] <= n
  /\ \A i, j \in 1 .. Len(s) : i < j => s[i] < s[j]

OnceOK == Ordered(obj, nUpdates) /\ Ordered(Committed, nUpdates)

\* The first updates of a sequence are in order if all are.
LEMMA OrderedPrefix ==
  ASSUME NEW s \in Seq(Nat), NEW t, NEW n \in Nat, Ordered(t, n), IsPrefix(s, t)
  PROVE  Ordered(s, n)
<1>1. /\ Len(s) \in Nat /\ Len(t) \in Nat /\ Len(s) <= Len(t)
      /\ SubSeq(t, 1, Len(s)) = SubSeq(s, 1, Len(s))
  BY LenProperties DEF IsPrefix, Ordered
<1>2. \A i \in 1 .. Len(s) : s[i] = t[i] /\ i \in 1 .. Len(t)
  <2> SUFFICES ASSUME NEW i \in 1 .. Len(s) PROVE s[i] = t[i] /\ i \in 1 .. Len(t)
    OBVIOUS
  <2>1. SubSeq(s, 1, Len(s)) = s
    BY SubSeqFull
  <2>2. SubSeq(t, 1, Len(s))[i] = t[i]
    BY <1>1 DEF Ordered
  <2> QED  BY <1>1, <2>1, <2>2
<1> QED  BY <1>1, <1>2 DEF Ordered

\* A later update can be appended.
LEMMA OrderedAppend ==
  ASSUME NEW s, NEW n \in Nat, Ordered(s, n)
  PROVE  Ordered(Append(s, n + 1), n + 1)
<1>1. s \in Seq(Nat) /\ Len(s) \in Nat /\ n + 1 \in Nat
  BY LenProperties DEF Ordered
<1>2. /\ Append(s, n + 1) \in Seq(Nat) /\ Len(Append(s, n + 1)) = Len(s) + 1
      /\ \A i \in 1 .. Len(s) : Append(s, n + 1)[i] = s[i] /\ s[i] \in Nat
      /\ Append(s, n + 1)[Len(s) + 1] = n + 1
  BY <1>1, AppendProperties, ElementOfSeq
<1> DEFINE t == Append(s, n + 1)
<1> HIDE DEF t
<1>3. /\ t \in Seq(Nat) /\ Len(t) = Len(s) + 1 /\ t[Len(s) + 1] = n + 1
      /\ \A i \in 1 .. Len(s) : t[i] = s[i] /\ s[i] \in Nat
  BY <1>2 DEF t
<1>4. \A i \in 1 .. Len(t) : i \in 1 .. Len(s) \/ i = Len(s) + 1
  BY <1>1, <1>3
<1>o. \A i \in 1 .. Len(s) : t[i] < n + 1
  <2> SUFFICES ASSUME NEW i \in 1 .. Len(s) PROVE t[i] < n + 1
    OBVIOUS
  <2>1. s[i] <= n
    BY DEF Ordered
  <2>2. t[i] = s[i] /\ s[i] \in Nat
    BY <1>3
  <2> QED  BY <2>1, <2>2
<1>5. \A i \in 1 .. Len(t) : t[i] <= n + 1
  <2> SUFFICES ASSUME NEW i \in 1 .. Len(t) PROVE t[i] <= n + 1
    OBVIOUS
  <2>1. CASE i \in 1 .. Len(s)
    <3>1. t[i] < n + 1 /\ t[i] \in Nat
      BY <1>o, <1>3, <2>1
    <3> QED  BY <3>1
  <2>2. CASE i = Len(s) + 1
    BY <1>3, <2>2
  <2> QED  BY <1>4, <2>1, <2>2
<1>6. \A i, j \in 1 .. Len(t) : i < j => t[i] < t[j]
  <2> SUFFICES ASSUME NEW i \in 1 .. Len(t), NEW j \in 1 .. Len(t), i < j
               PROVE  t[i] < t[j]
    OBVIOUS
  <2>1. i \in 1 .. Len(s)
    BY <1>1, <1>3, <1>4
  <2>2. CASE j \in 1 .. Len(s)
    BY <1>3, <2>1, <2>2 DEF Ordered
  <2>3. CASE j = Len(s) + 1
    BY <1>3, <1>o, <2>1, <2>3
  <2> QED  BY <1>4, <2>2, <2>3
<1>7. Ordered(t, n + 1)
  BY <1>3, <1>5, <1>6 DEF Ordered
<1> QED  BY <1>7 DEF t

\* A step numbers a new update after all the others; what it makes stable are
\* updates of the object, and what it takes as the object is stable.
LEMMA ObjectStep ==
  ASSUME DurInv, [Next]_vars
  PROVE  \/ obj' \in {obj, <<>>} /\ nUpdates' = nUpdates
         \/ ReadAndReplay /\ nUpdates' = nUpdates
         \/ obj' = Append(obj, nUpdates + 1) /\ nUpdates' = nUpdates + 1
<1>1. CASE CallInit \/ RestoreBackup \/ NoBackup \/ DropNew \/ DropOld \/ DropLog
  BY <1>1 DEF CallInit, RestoreBackup, NoBackup, DropNew, DropOld, DropLog,
              memory, counters
<1>2. CASE ReadAndReplay
  BY <1>2 DEF ReadAndReplay, counters
<1>3. CASE FreeLog("101") \/ FreeLog("up") \/ FreeLog("501") \/ DisposeFiles
  BY <1>3 DEF FreeLog, DisposeFiles, memory, counters
<1>4. CASE BeginCheckpoint \/ WriteCheckpoint \/ EndCheckpoint \/ FailCheckpoint
  BY <1>4 DEF BeginCheckpoint, WriteCheckpoint, EndCheckpoint, FailCheckpoint,
              memory, counters
<1>5. CASE CallUpdate \/ Spill \/ FlushLog \/ Crash \/ Stuck \/ UNCHANGED vars
  BY <1>5 DEF CallUpdate, Spill, FlushLog, Crash, Stuck, vars, memory, counters
<1>6. CASE EndUpdate \/ PlainUpdate
  BY <1>6 DEF EndUpdate, PlainUpdate
<1> QED  BY <1>1, <1>2, <1>3, <1>4, <1>5, <1>6 DEF Next, Checkpoint, Dispose

\* The stable state of the next state is the present one, the object, or, when
\* the buffer runs over, a prefix of the object.
LEMMA CommittedStep ==
  ASSUME Sound, DurInv, [Next]_vars
  PROVE  \/ Committed' \in {Committed, obj, obj', <<>>}
         \/ IsPrefix(Committed', obj)
<1>1. DurInv'
  BY DurStep
<1>2. TypeOK' /\ CountOK' /\ FilesOK' /\ LogOK' /\ TornOK'
  BY <1>1 DEF DurInv
<1>3. "101" \in {"101", "up", "501"} /\ "up" \in {"101", "up", "501"}
      /\ "501" \in {"101", "up", "501"}
  OBVIOUS
<1>4. ASSUME CallInit \/ RestoreBackup \/ NoBackup \/ DropNew \/ DropOld
               \/ DropLog \/ ReadAndReplay
      PROVE  Committed' = Committed
  BY <1>2, <1>4, RecoverValue
<1>5. ASSUME BeginCheckpoint \/ WriteCheckpoint \/ EndCheckpoint \/ FailCheckpoint
      PROVE  Committed' \in {Committed, obj}
  BY <1>2, <1>5, CheckpointValue
<1>6. ASSUME NEW to \in {"101", "up", "501"}, FreeLog(to) \/ FlushLog
      PROVE  Committed' = obj
  BY <1>2, <1>6, FlushValue
<1>7. ASSUME CallUpdate \/ EndUpdate \/ Spill \/ PlainUpdate
      PROVE  Committed' \in {Committed, obj'} \/ IsPrefix(Committed', obj)
  BY <1>2, <1>7, UpdateValue
<1>8. ASSUME DisposeFiles \/ Crash \/ Stuck \/ UNCHANGED vars
      PROVE  Committed' \in {Committed, <<>>}
  BY <1>2, <1>8, EndValue
<1> QED  BY <1>3, <1>4, <1>5, <1>6, <1>7, <1>8 DEF Next, Checkpoint, Dispose

\* The checkpoint files, the log and the object have sequences of numbers.
LEMMA CommittedType == DurInv => Committed \in Seq(Nat)
<1> SUFFICES ASSUME DurInv PROVE Committed \in Seq(Nat)
  OBVIOUS
<1>1. /\ log \in Seq(Nat) /\ \A f \in Checkpoints : data[f] \in Seq(Nat)
  BY DEF DurInv, TypeOK, DiskOK
<1>2. /\ data["checkpoint"] \in Seq(Nat) /\ data["old"] \in Seq(Nat)
  BY <1>1 DEF Checkpoints
<1>3. /\ data["checkpoint"] \o log \in Seq(Nat) /\ data["old"] \o log \in Seq(Nat)
      /\ <<>> \in Seq(Nat)
  BY <1>1, <1>2, ConcatProperties, EmptySeq
<1>4. OnDisk \in Seq(Nat)
  <2>1. OnDisk \in {<<>>, data["checkpoint"], data["checkpoint"] \o log,
                    data["old"] \o log}
    BY DEF OnDisk, NewValid
  <2> QED  BY <1>2, <1>3, <2>1
<1> QED  BY <1>2, <1>3, <1>4 DEF Committed

\* Every step keeps the updates in order.
LEMMA OnceStep ==
  ASSUME Sound, DurInv, OnceOK, [Next]_vars
  PROVE  OnceOK'
<1>1. nUpdates \in Nat /\ nUpdates' \in Nat /\ nUpdates' \in {nUpdates, nUpdates + 1}
  <2>1. nUpdates \in Nat
    BY BoundsAssumption DEF DurInv, TypeOK
  <2> QED  BY <2>1, ObjectStep
<1>2. ASSUME NEW s, Ordered(s, nUpdates) PROVE Ordered(s, nUpdates')
  <2>1. s \in Seq(Nat) /\ \A i \in 1 .. Len(s) : s[i] \in Nat
    BY <1>2, ElementOfSeq DEF Ordered
  <2> QED  BY <1>1, <1>2, <2>1 DEF Ordered
<1>3. Ordered(<<>>, nUpdates)
  BY EmptySeq DEF Ordered
<1>4. Ordered(obj', nUpdates')
  <2>1. CASE obj' \in {obj, <<>>}
    BY <1>2, <1>3, <2>1 DEF OnceOK
  <2>2. CASE ReadAndReplay
    <3>1. TypeOK' /\ FilesOK' /\ LogOK'
      BY DurStep DEF DurInv
    <3>2. obj' = Committed
      <4>1. /\ pc = "read" /\ obj' = data["checkpoint"] \o log
        BY <2>2 DEF ReadAndReplay, Goto
      <4> QED  BY <4>1, CommittedValue DEF CommittedFacts, DurInv, FilesOK
    <3> QED  BY <1>2, <3>2 DEF OnceOK
  <2>3. CASE obj' = Append(obj, nUpdates + 1) /\ nUpdates' = nUpdates + 1
    BY <1>1, <2>3, OrderedAppend DEF OnceOK
  <2> QED  BY <2>1, <2>2, <2>3, ObjectStep
<1>5. Ordered(Committed', nUpdates')
  <2>1. CASE Committed' \in {Committed, obj, obj', <<>>}
    BY <1>2, <1>3, <1>4, <2>1 DEF OnceOK
  <2>2. CASE IsPrefix(Committed', obj)
    <3>1. PICK c : c = Committed'
      OBVIOUS
    <3>2. c \in Seq(Nat)
      <4>1. DurInv'
        BY DurStep
      <4>2. DurInv' => (Committed \in Seq(Nat))'
        BY CommittedType, PTL
      <4> QED  BY <3>1, <4>1, <4>2
    <3>3. Ordered(c, nUpdates)
      BY <1>1, <2>2, <3>1, <3>2, OrderedPrefix DEF OnceOK
    <3> QED  BY <1>2, <3>1, <3>3
  <2> QED  BY <2>1, <2>2, CommittedStep
<1> QED  BY <1>4, <1>5 DEF OnceOK

\* Wherever the program may end, a recovery finds each update at most once,
\* and in the order in which they were made: a log that a checkpoint includes
\* is not replayed on top of it.
THEOREM UpdatesOnce ==
  ASSUME Sound
  PROVE  Spec => []ReplayedOnce
<1> DEFINE Inv == DurInv /\ OnceOK
<1>1. Init => Inv
  <2> SUFFICES ASSUME Init PROVE Inv
    OBVIOUS
  <2>1. DurInv
    BY DurInit
  <2>2. pc = "down" /\ files = {} /\ obj = <<>>
    BY DEF Init, DiskInit
  <2>3. Committed = <<>>
    BY <2>2, CommittedValue DEF CommittedFacts, NoState, Has
  <2> QED  BY <2>1, <2>2, <2>3, EmptySeq DEF OnceOK, Ordered
<1>2. Inv /\ [Next]_vars => Inv'
  BY DurStep, OnceStep
<1>3. Inv => ReplayedOnce
  <2> SUFFICES ASSUME Inv, pc \in {"down", "stuck"} \/ MayCrash
               PROVE  \A i, j \in DOMAIN OnDisk : i < j => OnDisk[i] < OnDisk[j]
    BY DEF ReplayedOnce
  <2>1. OnDisk = Committed
    BY AtRest
  <2>2. DOMAIN Committed = 1 .. Len(Committed)
    BY LenProperties DEF OnceOK, Ordered
  <2> QED  BY <2>1, <2>2 DEF OnceOK, Ordered
<1> QED  BY <1>1, <1>2, <1>3, PTL DEF Spec
=============================================================================
