--------------------------- MODULE FileStoreProofs ---------------------------
(***************************************************************************)
(* Theorems about FileStore, for any sets of submissions, uploads and      *)
(* printers and any placing of files in directories: whatever crashes or   *)
(* fails to be written, committed, read back or removed, the stores stay   *)
(* in step but for what the histories name.                                *)
(***************************************************************************)
EXTENDS FileStore, TLAPS

\* The program starts with nothing stored.
LEMMA InitIInv == StoreInit => StoreInv
BY RequestsAssumption
   DEF StoreInit, StoreInv, StoreTypeOK, NamedFileIsWhole, FilesAreInDirs, RequestsAndRows,
       Jobs, Named, Working, Answered

\* The variables keep their types.
LEMMA TypesKept ==
  ASSUME StoreTypeOK, [StoreNext]_storeVars
  PROVE  StoreTypeOK'
<1> USE RequestsAssumption DEF StoreTypeOK, Moves, Working, Answered, Named, Jobs, histories
<1>1. UNCHANGED storeVars => StoreTypeOK'
  BY DEF storeVars, histories
<1>2. Crash => StoreTypeOK'
  BY DEF Crash
<1>3. \A j \in Submits : Begin(j) \/ Turned(j) \/ Invalid(j) => StoreTypeOK'
  BY DEF Begin, Turned, Invalid
<1>4. \A j \in Submits : Prints(j) \/ MarkReady(j) \/ RemoveFile(j) => StoreTypeOK'
  BY DEF Prints, MarkReady, RemoveFile, RemoveDir
<1>5. \A j \in UploadJobs : Gate(j) \/ Refresh(j) => StoreTypeOK'
  BY DEF Gate, Refresh
<1>6. \A j \in Jobs : MakeDir(j) => StoreTypeOK'
  BY DEF MakeDir, Dirs
<1>7. \A j \in Jobs : Write(j) \/ WriteFails(j) => StoreTypeOK'
  BY DEF Write, WriteFails
<1>8. \A j \in Jobs : Commits(j) => StoreTypeOK'
  BY DEF Commits, Commit, CommitFails, CommitUnheard, FailsUndone, First
<1>9. \A j \in Jobs : Undoing(j) => StoreTypeOK'
  BY DEF Undoing, Unlink, UnlinkFails, Tidy, RemoveDir
<1>10. \A p \in Printers : PrinterRow(p) => StoreTypeOK'
  BY DEF PrinterRow, DeleteLooks, DeleteCommits, SetStatus
<1> QED
  <2> HIDE DEF StoreTypeOK, Moves
  <2> QED BY <1>1, <1>2, <1>3, <1>4, <1>5, <1>6, <1>7, <1>8, <1>9, <1>10
             DEF StoreNext, Submission, Upload, Storing

\* A row is written after its file, and taken back before it: the rows, the
\* files and the requests stay in step.
LEMMA RowsKept ==
  ASSUME StoreInv, [StoreNext]_storeVars
  PROVE  NamedFileIsWhole' /\ RequestsAndRows'
<1> DEFINE G == NamedFileIsWhole' /\ RequestsAndRows'
<1> USE RequestsAssumption
    DEF StoreInv, StoreTypeOK, NamedFileIsWhole, RequestsAndRows, Moves, Named, Jobs, histories
<1>1. UNCHANGED storeVars => G
  BY DEF storeVars, histories
<1>2. Crash => G
  BY DEF Crash, Working
<1>3. \A j \in Submits : Begin(j) \/ Turned(j) \/ Invalid(j) => G
  BY DEF Begin, Turned, Invalid
<1>4. \A j \in Submits : Prints(j) \/ MarkReady(j) \/ RemoveFile(j) => G
  <2> SUFFICES ASSUME NEW j \in Submits, Prints(j) \/ MarkReady(j) \/ RemoveFile(j) PROVE G
    OBVIOUS
  <2>1. CASE Prints(j)
    BY <2>1 DEF Prints
  <2>2. CASE MarkReady(j)
    BY <2>2 DEF MarkReady
  <2>3. CASE RemoveFile(j)
    <3>1. /\ row[j] = "ready" /\ row' = row /\ progress' = progress /\ clearing' \subseteq clearing
          /\ unread' = unread
      BY <2>3 DEF RemoveFile
    <3>2. \A i \in Jobs : i # j => file'[i] = file[i]
      BY <2>3 DEF RemoveFile
    <3>3. progress[j] # "written"
      BY <3>1
    <3> QED BY <3>1, <3>2, <3>3
  <2> QED BY <2>1, <2>2, <2>3
<1>5. \A j \in UploadJobs : Gate(j) \/ Refresh(j) => G
  <2> SUFFICES ASSUME NEW j \in UploadJobs, Gate(j) \/ Refresh(j) PROVE G
    OBVIOUS
  <2>1. CASE Gate(j)
    BY <2>1 DEF Gate
  <2>2. CASE Refresh(j)
    BY <2>2 DEF Refresh
  <2> QED BY <2>1, <2>2
<1>6. \A j \in Jobs : MakeDir(j) => G
  BY DEF MakeDir
<1>7. \A j \in Jobs : Write(j) \/ WriteFails(j) => G
  BY DEF Write, WriteFails
<1>8. \A j \in Jobs : Commits(j) => G
  BY DEF Commits, Commit, CommitFails, CommitUnheard, FailsUndone, First
<1>9. \A j \in Jobs : Undoing(j) => G
  BY DEF Undoing, Unlink, UnlinkFails, Tidy
<1>10. \A p \in Printers : PrinterRow(p) => G
  BY DEF PrinterRow, DeleteLooks, DeleteCommits, SetStatus
<1> QED
  <2> HIDE DEF G, Moves
  <2>1. G
    BY <1>1, <1>2, <1>3, <1>4, <1>5, <1>6, <1>7, <1>8, <1>9, <1>10
       DEF StoreNext, Submission, Upload, Storing
  <2> QED BY <2>1 DEF G

\* A directory goes only when it is empty, and a file comes only into one.
LEMMA DirsKept ==
  ASSUME StoreInv, [StoreNext]_storeVars
  PROVE  FilesAreInDirs'
<1> USE RequestsAssumption DEF StoreInv, StoreTypeOK, FilesAreInDirs, Jobs
<1>1. CASE \E j \in Jobs : Write(j) \/ WriteFails(j)
  BY <1>1 DEF Write, WriteFails
<1>2. CASE \E j \in Jobs : Undoing(j)
  BY <1>2 DEF Undoing, Unlink, UnlinkFails, Tidy, RemoveDir, Empty
<1>3. CASE \E j \in Submits : RemoveFile(j)
  BY <1>3 DEF RemoveFile, RemoveDir, Empty
<1>4. CASE \E j \in Jobs : MakeDir(j)
  BY <1>4 DEF MakeDir
<1>5. ASSUME ~\E j \in Jobs : Write(j) \/ WriteFails(j), ~\E j \in Jobs : Undoing(j),
             ~\E j \in Submits : RemoveFile(j), ~\E j \in Jobs : MakeDir(j)
      PROVE  UNCHANGED <<file, dirs>>
  BY <1>5 DEF StoreNext, storeVars, Submission, Upload, Storing, Crash, Begin, Turned, Invalid, Gate,
     Prints, MarkReady, Refresh, Commits, Commit, CommitFails, CommitUnheard, FailsUndone,
     PrinterRow, DeleteLooks, DeleteCommits, SetStatus
<1> QED BY <1>1, <1>2, <1>3, <1>4, <1>5

\* Whatever crashes, fails to be written, committed or removed, and whoever
\* deletes printers and tidies directories meanwhile: the invariant holds.
THEOREM StoresInStep == StoreSpec => []StoreInv
<1>1. StoreInv /\ [StoreNext]_storeVars => StoreInv'
  <2> SUFFICES ASSUME StoreInv, [StoreNext]_storeVars PROVE StoreInv'
    OBVIOUS
  <2>1. StoreTypeOK'
    BY TypesKept DEF StoreInv
  <2> QED BY <2>1, RowsKept, DirsKept DEF StoreInv
<1> QED BY InitIInv, <1>1, PTL DEF StoreSpec

\* A job that waits for its printer or its owner has its file, whole.
THEOREM FilesAreThere == StoreSpec => []NamedFileIsWhole
<1>1. StoreInv => NamedFileIsWhole
  BY DEF StoreInv
<1> QED BY StoresInStep, <1>1, PTL

-----------------------------------------------------------------------------
\* A request gives up its file before it is over, and a collected job's file is
\* on the list until it is gone.
LEMMA NothingLost ==
  ASSUME StoreInv, NoOrphans, AnsweredWithout, [StoreNext]_storeVars
  PROVE  NoOrphans' /\ AnsweredWithout'
<1> DEFINE G == NoOrphans' /\ AnsweredWithout'
<1> USE RequestsAssumption
    DEF StoreInv, StoreTypeOK, NoOrphans, AnsweredWithout, RequestsAndRows, FilesAreInDirs,
        Moves, Named, Jobs, Working, histories
<1>1. UNCHANGED storeVars => G
  BY DEF storeVars, histories
<1>2. Crash => G
  BY DEF Crash
<1>3. \A j \in Submits : Begin(j) \/ Turned(j) \/ Invalid(j) => G
  BY DEF Begin, Turned, Invalid
<1>4. \A j \in Submits : Prints(j) \/ MarkReady(j) \/ RemoveFile(j) => G
  <2> SUFFICES ASSUME NEW j \in Submits, Prints(j) \/ MarkReady(j) \/ RemoveFile(j) PROVE G
    OBVIOUS
  <2>1. CASE Prints(j)
    BY <2>1 DEF Prints
  <2>2. CASE MarkReady(j)
    BY <2>2 DEF MarkReady
  <2>3. CASE RemoveFile(j)
    <3>1. row' = row /\ progress' = progress /\ clearing' = clearing \ {j}
      BY <2>3 DEF RemoveFile
    <3>2. CASE file' = [file EXCEPT ![j] = "none"] /\ stranded' = stranded
      BY <3>1, <3>2
    <3>3. CASE /\ \E left \in {file[j], "none"} : file' = [file EXCEPT ![j] = left]
               /\ stranded' = stranded \cup {j}
      BY <3>1, <3>3
    <3> QED BY <2>3, <3>2, <3>3 DEF RemoveFile
  <2> QED BY <2>1, <2>2, <2>3
<1>5. \A j \in UploadJobs : Gate(j) \/ Refresh(j) => G
  BY DEF Gate, Refresh
<1>6. \A j \in Jobs : MakeDir(j) => G
  BY DEF MakeDir
<1>7. \A j \in Jobs : Write(j) \/ WriteFails(j) => G
  <2> SUFFICES ASSUME NEW j \in Jobs, Write(j) \/ WriteFails(j) PROVE G
    OBVIOUS
  <2>1. CASE Write(j)
    BY <2>1 DEF Write
  <2>2. CASE WriteFails(j)
    BY <2>2 DEF WriteFails
  <2> QED BY <2>1, <2>2
<1>8. \A j \in Jobs : Commits(j) => G
  BY DEF Commits, Commit, CommitFails, CommitUnheard, FailsUndone, First
<1>9. \A j \in Jobs : Undoing(j) => G
  BY DEF Undoing, Unlink, UnlinkFails, Tidy
<1>10. \A p \in Printers : PrinterRow(p) => G
  BY DEF PrinterRow, DeleteLooks, DeleteCommits, SetStatus
<1> QED
  <2> HIDE DEF G, Moves
  <2>1. G
    BY <1>1, <1>2, <1>3, <1>4, <1>5, <1>6, <1>7, <1>8, <1>9, <1>10
       DEF StoreNext, Submission, Upload, Storing
  <2> QED BY <2>1 DEF G

\* Every file on disk is a job's or a request's, but for those that are stranded.
THEOREM NothingOrphaned == StoreSpec => []NoOrphans
<1>1. StoreInit => NoOrphans /\ AnsweredWithout
  BY DEF StoreInit, NoOrphans, AnsweredWithout
<1>2. StoreInv /\ NoOrphans /\ AnsweredWithout /\ [StoreNext]_storeVars => NoOrphans' /\ AnsweredWithout'
  BY NothingLost
<1>3. StoreSpec => []StoreInv
  BY StoresInStep
<1> QED BY <1>1, <1>2, <1>3, PTL DEF StoreSpec

-----------------------------------------------------------------------------
\* Why no directory is empty: whoever is past the making of it, or has left a file in it,
\* uses it; and an upload that is read back has written its file.
Uses(j) ==
  file[j] # "none" \/ progress[j] \in Working \ {"validating"} \/ j \in clearing \cup stranded
DirsUsed ==
  /\ \A d \in dirs : \E j \in Jobs : DirOf[j] = d /\ Uses(j)
  /\ \A j \in Jobs : progress[j] = "refresh" => file[j] # "none"

\* A step that keeps the directories and all their users keeps it.
LEMMA UsersStay ==
  ASSUME DirsUsed, dirs' \subseteq dirs, \A j \in Jobs : Uses(j) => Uses(j)',
         \A j \in Jobs : progress'[j] = "refresh" => file'[j] # "none"
  PROVE  DirsUsed'
BY DEF DirsUsed

\* A directory is removed when its last file is, and only by one that uses it.
LEMMA LastOneTidies ==
  ASSUME DirsUsed, StoreInv, NEW j \in Jobs, RemoveDir(DirOf[j], file'),
         \A i \in Jobs \ {j} : Uses(i) => Uses(i)',
         \A i \in Jobs : progress'[i] = "refresh" => file'[i] # "none"
  PROVE  DirsUsed'
<1> SUFFICES ASSUME NEW d \in dirs' PROVE \E i \in Jobs : DirOf[i] = d /\ Uses(i)'
  BY DEF DirsUsed
<1>1. d \in dirs
  BY DEF RemoveDir
<1>2. CASE d = DirOf[j]
  <2>1. \E i \in Jobs : DirOf[i] = d /\ file'[i] # "none"
    BY <1>1, <1>2 DEF RemoveDir, Empty
  <2> QED BY <2>1 DEF Uses
<1>3. CASE d # DirOf[j]
  BY <1>1, <1>3 DEF DirsUsed
<1> QED BY <1>2, <1>3

LEMMA DirsStayUsed ==
  ASSUME StoreInv, DirsUsed, [StoreNext]_storeVars
  PROVE  DirsUsed'
<1> USE RequestsAssumption DEF Jobs
<1>0. StoreTypeOK /\ RequestsAndRows
  BY DEF StoreInv
<1>1. CASE UNCHANGED storeVars
  BY <1>1, UsersStay DEF storeVars, histories, Uses, DirsUsed
<1>2. CASE Crash
  BY <1>0, <1>2, UsersStay DEF Crash, Uses, DirsUsed, StoreTypeOK, Working
<1>3. ASSUME NEW j \in Submits, Begin(j) \/ Turned(j) \/ Invalid(j) PROVE DirsUsed'
  BY <1>0, <1>3, UsersStay DEF Begin, Turned, Invalid, Moves, histories, Uses, DirsUsed, StoreTypeOK, Working
<1>4. ASSUME NEW j \in Submits, Prints(j) \/ MarkReady(j) PROVE DirsUsed'
  BY <1>0, <1>4, UsersStay DEF Prints, MarkReady, histories, Uses, DirsUsed, StoreTypeOK, Working
<1>5. ASSUME NEW j \in Submits, RemoveFile(j) PROVE DirsUsed'
  <2>1. CASE file' = [file EXCEPT ![j] = "none"] /\ RemoveDir(DirOf[j], file') /\ UNCHANGED stranded
    <3>1. \A i \in Jobs \ {j} : Uses(i) => Uses(i)'
      BY <1>0, <1>5, <2>1 DEF RemoveFile, Uses, StoreTypeOK
    <3>2. progress[j] # "refresh"
      BY <1>0, <1>5 DEF RequestsAndRows, RemoveFile
    <3>3. \A i \in Jobs : progress'[i] = "refresh" => file'[i] # "none"
      BY <1>0, <1>5, <2>1, <3>2 DEF RemoveFile, DirsUsed, StoreTypeOK
    <3> QED BY <2>1, <3>1, <3>3, LastOneTidies
  <2>2. CASE /\ \E left \in {file[j], "none"} : file' = [file EXCEPT ![j] = left]
             /\ stranded' = stranded \cup {j} /\ UNCHANGED dirs
    <3>1. \A i \in Jobs : Uses(i) => Uses(i)'
      BY <1>0, <1>5, <2>2 DEF RemoveFile, Uses, StoreTypeOK
    <3>2. progress[j] # "refresh"
      BY <1>0, <1>5 DEF RequestsAndRows, RemoveFile
    <3>3. \A i \in Jobs : progress'[i] = "refresh" => file'[i] # "none"
      BY <1>0, <1>5, <2>2, <3>2 DEF RemoveFile, DirsUsed, StoreTypeOK
    <3> QED BY <2>2, <3>1, <3>3, UsersStay
  <2> QED BY <1>5, <2>1, <2>2 DEF RemoveFile
<1>6. ASSUME NEW j \in UploadJobs, Gate(j) \/ Refresh(j) PROVE DirsUsed'
  BY <1>0, <1>6, UsersStay DEF Gate, Refresh, Moves, histories, Uses, DirsUsed, StoreTypeOK, Working
<1>7. ASSUME NEW j \in Jobs, MakeDir(j) PROVE DirsUsed'
  <2>1. \A i \in Jobs : Uses(i) => Uses(i)'
    BY <1>0, <1>7 DEF MakeDir, Moves, histories, Uses, StoreTypeOK, Working
  <2>2. Uses(j)'
    BY <1>0, <1>7 DEF MakeDir, Moves, Uses, StoreTypeOK, Working
  <2>3. \A i \in Jobs : progress'[i] = "refresh" => file'[i] # "none"
    BY <1>0, <1>7 DEF MakeDir, Moves, DirsUsed, StoreTypeOK
  <2> QED BY <1>7, <2>1, <2>2, <2>3 DEF MakeDir, DirsUsed
<1>8. ASSUME NEW j \in Jobs, Write(j) \/ WriteFails(j) PROVE DirsUsed'
  <2>1. \A i \in Jobs : Uses(i) => Uses(i)'
    BY <1>0, <1>8 DEF Write, WriteFails, Moves, histories, Uses, StoreTypeOK, Working
  <2>2. \A i \in Jobs : progress'[i] = "refresh" => file'[i] # "none"
    BY <1>0, <1>8 DEF Write, WriteFails, Moves, DirsUsed, StoreTypeOK
  <2>3. dirs' = dirs
    BY <1>8 DEF Write, WriteFails
  <2> QED BY <2>1, <2>2, <2>3, UsersStay
<1>9. ASSUME NEW j \in Jobs, Commits(j) PROVE DirsUsed'
  <2>1. file[j] = "whole" /\ dirs' = dirs /\ file' = file /\ clearing' = clearing
        /\ stranded \subseteq stranded'
    BY <1>0, <1>9 DEF Commits, Commit, CommitFails, CommitUnheard, FailsUndone, Moves,
                      RequestsAndRows, histories
  <2>2. \A i \in Jobs : i # j => progress'[i] = progress[i]
    BY <1>0, <1>9 DEF Commits, Commit, CommitFails, CommitUnheard, FailsUndone, Moves, StoreTypeOK
  <2>3. \A i \in Jobs : Uses(i) => Uses(i)'
    BY <2>1, <2>2 DEF Uses
  <2>4. \A i \in Jobs : progress'[i] = "refresh" => file'[i] # "none"
    BY <2>1, <2>2 DEF DirsUsed
  <2> QED BY <2>1, <2>3, <2>4, UsersStay
<1>10. ASSUME NEW j \in Jobs, Unlink(j) \/ UnlinkFails(j) PROVE DirsUsed'
  BY <1>0, <1>10, UsersStay
     DEF Unlink, UnlinkFails, Moves, histories, Uses, DirsUsed, StoreTypeOK, Working
<1>11. ASSUME NEW j \in Jobs, Tidy(j), RemoveDir(DirOf[j], file), UNCHANGED stranded PROVE DirsUsed'
  <2>1. \A i \in Jobs \ {j} : Uses(i) => Uses(i)'
    BY <1>0, <1>11 DEF Tidy, Moves, histories, Uses, StoreTypeOK
  <2>2. \A i \in Jobs : progress'[i] = "refresh" => file'[i] # "none"
    BY <1>0, <1>11 DEF Tidy, Moves, DirsUsed, StoreTypeOK
  <2>3. RemoveDir(DirOf[j], file')
    BY <1>11 DEF Tidy, RemoveDir
  <2> QED BY <2>1, <2>2, <2>3, LastOneTidies
<1>12. ASSUME NEW j \in Jobs, Tidy(j), stranded' = stranded \cup {j}, UNCHANGED dirs PROVE DirsUsed'
  BY <1>0, <1>12, UsersStay DEF Tidy, Moves, Uses, DirsUsed, StoreTypeOK
<1>13. ASSUME NEW j \in Jobs, Tidy(j) PROVE DirsUsed'
  BY <1>11, <1>12, <1>13 DEF Tidy
<1>14. ASSUME NEW p \in Printers, PrinterRow(p) PROVE DirsUsed'
  BY <1>14, UsersStay DEF PrinterRow, DeleteLooks, DeleteCommits, SetStatus, histories, Uses, DirsUsed
<1> QED
  BY <1>1, <1>2, <1>3, <1>4, <1>5, <1>6, <1>7, <1>8, <1>9, <1>10, <1>13, <1>14
     DEF StoreNext, Submission, Upload, Storing, Commits, Undoing

\* What is stranded stays so, and so does the reason: an answered request is over, and a
\* job that is ready stays ready.
LEMMA ReasonsStay ==
  ASSUME StoreInv, StrandedForAReason, [StoreNext]_storeVars
  PROVE  StrandedForAReason'
<1> DEFINE G == StrandedForAReason'
<1> USE RequestsAssumption
    DEF StoreInv, StoreTypeOK, StrandedForAReason, RequestsAndRows, Moves, Jobs, Working, histories
<1>1. UNCHANGED storeVars => G
  BY DEF storeVars
<1>2. Crash => G
  BY DEF Crash
<1>3. \A j \in Submits : Begin(j) \/ Turned(j) \/ Invalid(j) => G
  BY DEF Begin, Turned, Invalid
<1>4. \A j \in Submits : Prints(j) \/ MarkReady(j) \/ RemoveFile(j) => G
  BY DEF Prints, MarkReady, RemoveFile
<1>5. \A j \in UploadJobs : Gate(j) \/ Refresh(j) => G
  BY DEF Gate, Refresh
<1>6. \A j \in Jobs : MakeDir(j) \/ Write(j) \/ WriteFails(j) => G
  BY DEF MakeDir, Write, WriteFails
<1>7. \A j \in Jobs : Commits(j) => G
  BY DEF Commits, Commit, CommitFails, CommitUnheard, FailsUndone
<1>8. \A j \in Jobs : Undoing(j) => G
  BY DEF Undoing, Unlink, UnlinkFails, Tidy
<1>9. \A p \in Printers : PrinterRow(p) => G
  BY DEF PrinterRow, DeleteLooks, DeleteCommits, SetStatus
<1> QED
  <2> HIDE DEF G, Moves
  <2>1. G
    BY <1>1, <1>2, <1>3, <1>4, <1>5, <1>6, <1>7, <1>8, <1>9
       DEF StoreNext, Submission, Upload, Storing
  <2> QED BY <2>1 DEF G

\* Neither a file nor a directory is left behind, whatever fails, but for what is stranded;
\* and a job is stranded only by a request that crashed or failed or by its collection.
THEOREM NothingLeft == StoreSpec => []NothingLeftBehind
<1>1. StoreInit => DirsUsed /\ StrandedForAReason
  BY DEF StoreInit, DirsUsed, StrandedForAReason
<1>2. /\ StoreInv /\ DirsUsed /\ StrandedForAReason /\ [StoreNext]_storeVars
      => DirsUsed' /\ StrandedForAReason'
  BY DirsStayUsed, ReasonsStay
<1>3. DirsUsed => NoEmptyDirs
  BY DEF DirsUsed, Uses, NoEmptyDirs
<1>4. StoreSpec => [](NoEmptyDirs /\ StrandedForAReason)
  BY <1>1, <1>2, <1>3, StoresInStep, PTL DEF StoreSpec
<1> QED BY <1>4, NothingOrphaned, PTL DEF NothingLeftBehind
================================================================================
