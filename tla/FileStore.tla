------------------------------- MODULE FileStore -------------------------------
(***************************************************************************)
(* Jobs in the database and their G-code on disk: the two stores that      *)
(* submission_service.submit_job and upload_service.upload_gcode write one *)
(* after the other, that mark_ready_for_collection clears again, and that  *)
(* no transaction joins.  delete_printer runs beside them.                 *)
(*                                                                         *)
(* A request is named by the job it makes: its id is fresh.  A submission  *)
(* stores its file in a directory of its own, an upload in its user's.     *)
(***************************************************************************)
EXTENDS FiniteSets

CONSTANTS
    Submits,     \* jobs made by POST /jobs
    UploadJobs,  \* jobs made by POST /jobs/upload
    Printers,
    PrinterOf,   \* the printer a submission names
    DirOf        \* the directory a job's file goes to

Jobs == Submits \cup UploadJobs
Dirs == {DirOf[j] : j \in Jobs}

ASSUME RequestsAssumption ==
    /\ Submits \cap UploadJobs = {}
    /\ PrinterOf \in [Submits -> Printers]
ASSUME DirAssumption ==
    /\ DOMAIN DirOf = Jobs
    /\ \A i \in Submits, j \in Jobs : DirOf[i] = DirOf[j] => i = j

VARIABLES
    row,        \* print_jobs: the status of a job, or "none"
    file,       \* the file of a job on disk
    dirs,       \* the directories that exist
    printer,    \* printers: can it take jobs, or is it deleted
    progress,   \* how far a request is, and how it was answered
    clearing,   \* jobs committed as ready whose file is still to be removed
    deleting,   \* printers delete_printer has looked up and found unused
    unread,     \* history: jobs that are committed, which their request did not learn
    stranded    \* history: jobs whose file or directory nobody will look at again: of a
                \* crash, a removal that failed, a request that failed out of reach of its undo

histories == <<unread, stranded>>
storeVars == <<row, file, dirs, printer, progress, clearing, deleting, histories>>

Working == {"validating", "dir", "written", "refresh", "undo", "tidy"}
Answered == {"ok", "refused", "failed", "lost"}
Named == {"pending_selection", "queued", "completed"}

StoreTypeOK ==
    /\ row \in [Jobs -> Named \cup {"none", "failed", "ready"}]
    /\ file \in [Jobs -> {"none", "partial", "whole"}]
    /\ dirs \subseteq Dirs
    /\ printer \in [Printers -> {"up", "down", "gone"}]
    /\ progress \in [Jobs -> {"idle"} \cup Working \cup Answered]
    /\ clearing \subseteq Submits
    /\ deleting \subseteq Printers
    /\ unread \subseteq Jobs /\ stranded \subseteq Jobs

StoreInit ==
    /\ row = [j \in Jobs |-> "none"]
    /\ file = [j \in Jobs |-> "none"]
    /\ dirs = {}
    /\ printer = [p \in Printers |-> "up"]
    /\ progress = [j \in Jobs |-> "idle"]
    /\ clearing = {}
    /\ deleting = {}
    /\ unread = {} /\ stranded = {}

\* The request for j takes a step.
Moves(j, from, to) == progress[j] = from /\ progress' = [progress EXCEPT ![j] = to]

-------------------------------------------------------------------------------
(* submit_job, up to the stores *)

Begin(j) ==
    /\ printer[PrinterOf[j]] = "up"
    /\ Moves(j, "idle", "validating")
    /\ UNCHANGED <<row, file, dirs, printer, clearing, deleting, histories>>

\* A printer that is unknown or cannot take jobs.
Turned(j) ==
    /\ printer[PrinterOf[j]] # "up"
    /\ Moves(j, "idle", "refused")
    /\ UNCHANGED <<row, file, dirs, printer, clearing, deleting, histories>>

\* The validator, the printer's profile or the material says no.
Invalid(j) ==
    /\ Moves(j, "validating", "refused")
    /\ UNCHANGED <<row, file, dirs, printer, clearing, deleting, histories>>

\* The gate of an upload: extension, size, emptiness.
Gate(j) ==
    /\ Moves(j, "idle", "refused")
    /\ UNCHANGED <<row, file, dirs, printer, clearing, deleting, histories>>

-------------------------------------------------------------------------------
(* The two stores *)

MakeDir(j) ==
    /\ Moves(j, IF j \in Submits THEN "validating" ELSE "idle", "dir")
    /\ dirs' = dirs \cup {DirOf[j]}
    /\ UNCHANGED <<row, file, printer, clearing, deleting, histories>>

Write(j) ==
    /\ DirOf[j] \in dirs
    /\ Moves(j, "dir", "written")
    /\ file' = [file EXCEPT ![j] = "whole"]
    /\ UNCHANGED <<row, dirs, printer, clearing, deleting, histories>>

\* Mutant: a write cut short is not seen.
WriteFailsUnseen(j) ==
    /\ DirOf[j] \in dirs
    /\ Moves(j, "dir", "written")
    /\ file' = [file EXCEPT ![j] = "partial"]
    /\ UNCHANGED <<row, dirs, printer, clearing, deleting, histories>>

\* An upload takes back what it may have written; a submission does not.
WriteFails(j) ==
    /\ Moves(j, "dir", IF j \in UploadJobs THEN "undo" ELSE "failed")
    /\ \/ /\ DirOf[j] \notin dirs
          /\ UNCHANGED file
       \/ /\ DirOf[j] \in dirs
          /\ \E left \in {"none", "partial"} : file' = [file EXCEPT ![j] = left]
    /\ stranded' = stranded \cup ({j} \cap Submits)
    /\ UNCHANGED <<row, dirs, printer, clearing, deleting, unread>>

\* The rows that refer to a printer, which the foreign key protects.
References(p) == {j \in Submits : row[j] # "none" /\ PrinterOf[j] = p}

HasItsPrinter(j) == j \in Submits => printer[PrinterOf[j]] # "gone"

\* The status of a job that is new.
First(j) == IF j \in UploadJobs THEN "pending_selection" ELSE "queued"

\* What follows the commit of a submission may fail: it is queued whatever is answered.
Commit(j) ==
    /\ HasItsPrinter(j)
    /\ \E next \in IF j \in UploadJobs THEN {"refresh"} ELSE {"ok", "failed"} : Moves(j, "written", next)
    /\ row' = [row EXCEPT ![j] = First(j)]
    /\ UNCHANGED <<file, dirs, printer, clearing, deleting, histories>>

\* For want of its printer, or of the database.
CommitFails(j) ==
    /\ Moves(j, "written", "undo")
    /\ UNCHANGED <<row, file, dirs, printer, clearing, deleting, histories>>

\* The database commits and its answer is lost.
CommitUnheard(j) ==
    /\ HasItsPrinter(j)
    /\ Moves(j, "written", "undo")
    /\ row' = [row EXCEPT ![j] = First(j)]
    /\ unread' = unread \cup {j}
    /\ UNCHANGED <<file, dirs, printer, clearing, deleting, stranded>>

\* A submission looks up whom to notify once its file is written and before its try: when
\* that fails nothing is undone.  Nor when, after a commit that failed, the rollback does.
FailsUndone(j) ==
    /\ Moves(j, "written", "failed")
    /\ stranded' = stranded \cup {j}
    /\ UNCHANGED <<row, file, dirs, printer, clearing, deleting, unread>>

\* upload_gcode reads the row back under the same except as the commit.
Refresh(j) ==
    /\ \/ Moves(j, "refresh", "ok") /\ UNCHANGED unread
       \/ Moves(j, "refresh", "undo") /\ unread' = unread \cup {j}
    /\ UNCHANGED <<row, file, dirs, printer, clearing, deleting, stranded>>

\* Mutant: the file is not taken back.
UnlinkNothing(j) ==
    /\ Moves(j, "undo", "tidy")
    /\ UNCHANGED <<row, file, dirs, printer, clearing, deleting, histories>>

\* An upload's file need not be there.
Unlink(j) ==
    /\ j \in Submits => file[j] # "none"
    /\ Moves(j, "undo", "tidy")
    /\ file' = [file EXCEPT ![j] = "none"]
    /\ UNCHANGED <<row, dirs, printer, clearing, deleting, histories>>

\* os.remove raises, delete_if_exists returns: either way the directory stays too.
UnlinkFails(j) ==
    /\ Moves(j, "undo", "failed")
    /\ stranded' = stranded \cup {j}
    /\ UNCHANGED <<row, file, dirs, printer, clearing, deleting, unread>>

Empty(d, left) == \A i \in Jobs : DirOf[i] = d => left[i] = "none"

\* rmdir removes an empty directory only, whoever filled it since the look.
RemoveDir(d, left) == dirs' = IF Empty(d, left) THEN dirs \ {d} ELSE dirs

Tidy(j) ==
    /\ Moves(j, "tidy", "failed")
    /\ \/ RemoveDir(DirOf[j], file) /\ UNCHANGED stranded
       \/ stranded' = stranded \cup {j} /\ UNCHANGED dirs
    /\ UNCHANGED <<row, file, printer, clearing, deleting, unread>>

-------------------------------------------------------------------------------
(* After the submission *)

\* The poller opens the file, sends it and records how the print ended.  It looks for
\* a printer's jobs: one without a printer waits for ever, and so does one without a file.
Prints(j) ==
    /\ row[j] = "queued" /\ HasItsPrinter(j) /\ file[j] # "none"
    /\ \E end \in {"completed", "failed"} : row' = [row EXCEPT ![j] = end]
    /\ UNCHANGED <<file, dirs, printer, progress, clearing, deleting, histories>>

MarkReady(j) ==
    /\ row[j] = "completed"
    /\ row' = [row EXCEPT ![j] = "ready"]
    /\ clearing' = clearing \cup {j}
    /\ UNCHANGED <<file, dirs, printer, progress, deleting, histories>>

\* Whichever of the two removals fails, that is that.
RemoveFile(j) ==
    /\ j \in clearing
    /\ clearing' = clearing \ {j}
    /\ \/ /\ file[j] # "none"
          /\ file' = [file EXCEPT ![j] = "none"]
          /\ RemoveDir(DirOf[j], file')
          /\ UNCHANGED stranded
       \/ /\ \E left \in {file[j], "none"} : file' = [file EXCEPT ![j] = left]
          /\ stranded' = stranded \cup {j}
          /\ UNCHANGED dirs
    /\ UNCHANGED <<row, printer, progress, deleting, unread>>

DeleteLooks(p) ==
    /\ printer[p] # "gone" /\ References(p) = {}
    /\ deleting' = deleting \cup {p}
    /\ UNCHANGED <<row, file, dirs, printer, progress, clearing, histories>>

\* Printer.print_jobs has no cascade: the flush loads the jobs that refer to the
\* printer, those committed since the look too, clears their printer_id and
\* deletes the row.  Nothing in the way of it fails.
DeleteCommits(p) ==
    /\ p \in deleting
    /\ deleting' = deleting \ {p}
    /\ printer' = [printer EXCEPT ![p] = "gone"]
    /\ UNCHANGED <<row, file, dirs, progress, clearing, histories>>

\* The poller or an administrator.
SetStatus(p) ==
    /\ printer[p] # "gone"
    /\ \E s \in {"up", "down"} \ {printer[p]} : printer' = [printer EXCEPT ![p] = s]
    /\ UNCHANGED <<row, file, dirs, progress, clearing, deleting, histories>>

\* What is on disk and committed stays, what was under way is lost.
Crash ==
    /\ progress' = [j \in Jobs |-> IF progress[j] \in Working THEN "lost" ELSE progress[j]]
    /\ clearing' = {}
    /\ deleting' = {}
    /\ stranded' = stranded \cup clearing \cup {j \in Jobs : progress[j] \in Working}
    /\ UNCHANGED <<row, file, dirs, printer, unread>>

-------------------------------------------------------------------------------
Submission(j) == Begin(j) \/ Turned(j) \/ Invalid(j) \/ Prints(j) \/ MarkReady(j) \/ RemoveFile(j)
Upload(j) == Gate(j) \/ Refresh(j)
Commits(j) == Commit(j) \/ CommitFails(j) \/ CommitUnheard(j) \/ FailsUndone(j)
Undoing(j) == Unlink(j) \/ UnlinkFails(j) \/ Tidy(j)
Storing(j) == MakeDir(j) \/ Write(j) \/ WriteFails(j) \/ Commits(j) \/ Undoing(j)
PrinterRow(p) == DeleteLooks(p) \/ DeleteCommits(p) \/ SetStatus(p)

StoreNext ==
    \/ \E j \in Submits : Submission(j)
    \/ \E j \in UploadJobs : Upload(j)
    \/ \E j \in Jobs : Storing(j)
    \/ \E p \in Printers : PrinterRow(p)
    \/ Crash

StoreSpec == StoreInit /\ [][StoreNext]_storeVars

-------------------------------------------------------------------------------
(* Properties *)

\* A job that is waiting, printed or about to be has its whole file, whatever
\* crashed, failed or was removed next to it: the poller opens gcode_path
\* without a check, and a job whose file is missing blocks its printer's queue.  One that
\* was committed without its request's knowledge loses its file.
NamedFileIsWhole == \A j \in Jobs \ unread : row[j] \in Named => file[j] = "whole"

\* A file is some job's, or a request is still at it: whatever is refused, fails or is
\* collected, the cleanups of both handlers and of the collection reach every file, but
\* for one that is stranded.
NoOrphans ==
    \A j \in Jobs \ stranded : file[j] # "none" =>
        progress[j] \in Working \/ row[j] \in Named \cup {"failed"} \/ j \in clearing

\* Nor do they leave a directory nobody uses, though uploads of a user share one.
NoEmptyDirs ==
    \A d \in dirs : \E j \in Jobs :
        DirOf[j] = d /\ (file[j] # "none" \/ progress[j] \in Working \/ j \in clearing \cup stranded)

\* A job is stranded only with a reason: a request that crashed or failed, or a collection.
StrandedForAReason ==
    \A j \in stranded : progress[j] \in {"lost", "failed"} \/ row[j] = "ready"

\* A failure, a refusal and a collection leave nothing on disk but what is stranded: there
\* a request has answered that it failed, or not at all, or the job was collected.
NothingLeftBehind == NoOrphans /\ NoEmptyDirs /\ StrandedForAReason

\* A cleanup removes no directory that holds another upload's file.
FilesAreInDirs == \A j \in Jobs : file[j] # "none" => DirOf[j] \in dirs

\* "Delete printer by ID or raise 404 if not found or 409 if referenced": no job's printer
\* is deleted under it.  A job committed between the look and the delete loses its own.
JobsHavePrinters == \A j \in Submits : row[j] # "none" => printer[PrinterOf[j]] # "gone"

-------------------------------------------------------------------------------
(* Why the named file is whole *)

\* A request that has not committed, or takes its file back, has no row unless it
\* could not be read; one about to commit has written its file; what is being
\* removed is ready.
RequestsAndRows ==
    /\ \A j \in Jobs :
        /\ progress[j] \in {"idle", "validating", "dir", "written"} => row[j] = "none" /\ j \notin unread
        /\ progress[j] \in {"undo", "tidy"} => row[j] = "none" \/ j \in unread
        /\ progress[j] = "refresh" => j \in UploadJobs /\ row[j] = "pending_selection"
        /\ row[j] = "none" => j \notin unread
        /\ progress[j] = "written" => file[j] = "whole"
    /\ \A j \in clearing : row[j] = "ready"

StoreInv == StoreTypeOK /\ NamedFileIsWhole /\ FilesAreInDirs /\ RequestsAndRows

\* Why nothing is orphaned: a request that is over without a row has no file.
AnsweredWithout ==
    \A j \in Jobs \ stranded :
        progress[j] \in {"idle", "validating", "dir", "tidy", "refused"} => file[j] = "none"
================================================================================
