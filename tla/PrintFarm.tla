------------------------------ MODULE PrintFarm ------------------------------
(***************************************************************************)
(* The backend of the print farm around its background poller:             *)
(*                                                                         *)
(*  - the poller (printer_sync_service.py, started by main.py): one thread *)
(*    that sweeps the printers, reads each one's state over PrusaLink,     *)
(*    moves the printing job along and sends the oldest queued job to a    *)
(*    printer that is free;                                                *)
(*  - the request handlers that race it: submit, pause, resume, collect    *)
(*    and the administrator's edit of a printer;                           *)
(*  - the printers, as the PrusaLink adapter sees them (external).         *)
(*                                                                         *)
(* A network call, a database commit and a file operation are steps of     *)
(* their own, so a crash or another actor can fall between any two.        *)
(*                                                                         *)
(* Time enters only through START_GRACE: "settled" holds the jobs whose    *)
(* grace since started_at is over.  What a job or a message says beyond    *)
(* its kind, the farmers' copies of a notification, the CollectionRecord   *)
(* written with ready_for_collection and the duration columns are left     *)
(* out: they are written in the same commit as the change they go with.    *)
(***************************************************************************)
EXTENDS Integers, Sequences

CONSTANTS
  Jobs,          \* the uploads that may become rows of print_jobs
  Printers,      \* the printers with a PrusaLink connection
  NoJob,         \* "no job"
  LocalPrint,    \* a print an operator starts at the printer itself
  Adversities,   \* which of AllAdversities the environment may show
  MaxEvents      \* bound on the unforced events of a behaviour: see Spend

AllAdversities ==
  {"crash", "lost reply", "slow upload", "local print", "maintenance"}

ASSUME JobsAssumption ==
  /\ NoJob \notin Jobs
  /\ LocalPrint \notin Jobs
  /\ NoJob # LocalPrint
ASSUME AdversitiesAssumption == Adversities \subseteq AllAdversities
ASSUME MaxEventsAssumption == MaxEvents \in Nat

(***************************************************************************)
(* The enumerations.  "new" is a job that has no row yet; the statuses     *)
(* submitted, pending_selection and removed are never written on this path *)
(***************************************************************************)
JobStatus ==
  {"new", "queued", "printing", "completed", "failed", "ready_for_collection"}
PrinterStatus == {"idle", "printing", "error", "offline", "maintenance"}
NotificationType ==
  {"job_started", "job_paused", "job_resumed", "job_completed", "job_error",
   "ready_for_collection"}

ACTIVE == {"PRINTING", "PAUSED"}
FAULT == {"ERROR", "ATTENTION"}
READY_FOR_JOB == {"IDLE", "READY", "FINISHED", "STOPPED"}
PrinterState == ACTIVE \cup FAULT \cup READY_FOR_JOB \cup {"BUSY", "UNKNOWN"}
UNAVAILABLE == {"error", "offline", "maintenance"}

VARIABLES
  \* print_jobs
  status, printer_id, submitted_at, printer_job_id,
  paused,          \* the jobs whose paused_at is set
  settled,         \* the jobs whose START_GRACE since started_at is over
  notes,           \* per job, the owner's notifications in order
  \* printers
  printer_status,
  \* the file store
  files,           \* the jobs whose G-code is on disk
  \* the request handlers in progress
  req, cmd, clock,
  \* the poller thread: where it is and its local variables
  pc, todo, at, seen, snap, pick, old, late,
  \* the printers themselves
  reported, running, job_ids,
  runs,            \* history: how often a printer accepted the job
  printed,         \* history: the jobs whose print ran to its end
  events

dbVars == <<status, printer_id, submitted_at, printer_job_id, paused, settled,
            notes, printer_status>>
apiVars == <<req, cmd, clock>>
pollVars == <<pc, todo, at, seen, snap, pick, old, late>>
worldVars == <<reported, running, job_ids, runs, printed>>
vars == <<dbVars, files, apiVars, pollVars, worldVars, events>>

NoCommand == [job |-> NoJob, id |-> 0, action |-> "none"]
Commands == [job : Jobs \cup {NoJob}, id : Nat, action : {"none", "pause", "resume"}]
Snapshots == [state : PrinterState, job_id : Nat]
NoSnapshot == [state |-> "UNKNOWN", job_id |-> 0]

DbTypeOK ==
  /\ status \in [Jobs -> JobStatus]
  /\ printer_id \in [Jobs -> Printers]
  /\ submitted_at \in [Jobs -> Nat]
  /\ printer_job_id \in [Jobs -> Nat]
  /\ paused \subseteq Jobs
  /\ settled \subseteq Jobs
  /\ notes \in [Jobs -> Seq(NotificationType)]
  /\ printer_status \in [Printers -> PrinterStatus]

ApiTypeOK ==
  /\ files \subseteq Jobs
  /\ req \in [Jobs -> {"none", "validating", "stored", "unlinking", "aborted"}]
  /\ cmd \in Commands
  /\ clock \in Nat

PollTypeOK ==
  /\ pc \in {"idle", "status", "apply", "select", "upload", "record", "confirm"}
  /\ todo \subseteq Printers
  /\ at \in Printers
  /\ seen \in PrinterStatus
  /\ snap \in Snapshots
  /\ pick \in Jobs \cup {NoJob}
  /\ old \subseteq Jobs
  /\ late \in BOOLEAN

WorldTypeOK ==
  /\ reported \in [Printers -> PrinterState]
  /\ running \in [Printers -> Jobs \cup {NoJob, LocalPrint}]
  /\ job_ids \in [Printers -> Nat]
  /\ runs \in [Jobs -> Nat]
  /\ printed \subseteq Jobs
  /\ events \in Nat

TypeOK == DbTypeOK /\ ApiTypeOK /\ PollTypeOK /\ WorldTypeOK

Init ==
  /\ status = [j \in Jobs |-> "new"]
  /\ printer_id \in [Jobs -> Printers]     \* the student's choice
  /\ submitted_at = [j \in Jobs |-> 0]
  /\ printer_job_id = [j \in Jobs |-> 0]
  /\ paused = {}
  /\ settled = {}
  /\ notes = [j \in Jobs |-> <<>>]
  /\ printer_status = [p \in Printers |-> "idle"]
  /\ files = {}
  /\ req = [j \in Jobs |-> "none"]
  /\ cmd = NoCommand
  /\ clock = 0
  /\ pc = "idle"
  /\ todo = {}
  /\ at \in Printers
  /\ seen = "idle"
  /\ snap = NoSnapshot
  /\ pick = NoJob
  /\ old = {}
  /\ late = FALSE
  /\ reported = [p \in Printers |-> "IDLE"]
  /\ running = [p \in Printers |-> NoJob]
  /\ job_ids = [p \in Printers |-> 0]
  /\ runs = [j \in Jobs |-> 0]
  /\ printed = {}
  /\ events = 0

\* An event nothing forces: a command, a fault, a failure.  MaxEvents bounds
\* how many a behaviour has, in any mix and at any points.
Spend == events < MaxEvents /\ events' = events + 1

Holding(p) == {j \in Jobs : printer_id[j] = p /\ status[j] \in {"printing", "completed"}}
Queue(p) == {j \in Jobs : printer_id[j] = p /\ status[j] = "queued"}
ActiveJobs(p) == {j \in Jobs : printer_id[j] = p /\ status[j] = "printing"}

-----------------------------------------------------------------------------
(***************************************************************************)
(* Writes shared by the actions.                                           *)
(***************************************************************************)

\* _notify: one row for the job's owner, in the transaction of the change.
Notify(j, kind) == notes' = [notes EXCEPT ![j] = Append(@, kind)]

\* The ORM emits an UPDATE for a column only when the new value differs from
\* the one this session loaded: "seen" is what the poller loaded.
WritePrinterStatus(p, s) ==
  printer_status' = IF s = seen THEN printer_status
                    ELSE [printer_status EXCEPT ![p] = s]

\* sync_printer returns: its locals are gone.
SyncReturns ==
  /\ pc' = "idle"
  /\ seen' = "idle" /\ snap' = NoSnapshot /\ pick' = NoJob
  /\ old' = {} /\ late' = FALSE
  /\ UNCHANGED <<todo, at>>

-----------------------------------------------------------------------------
(***************************************************************************)
(* The poller.                                                             *)
(***************************************************************************)

\* _poll_printers / sync_all_printers: a new cycle over every printer.
StartSweep ==
  /\ pc = "idle" /\ todo = {}
  /\ todo' = Printers
  /\ UNCHANGED <<dbVars, files, apiVars, worldVars, events,
                 pc, at, seen, snap, pick, old, late>>

\* sync_printer, first lines: take "now", load the printer row, skip a
\* printer that is in maintenance.
BeginSync(p) ==
  /\ pc = "idle" /\ p \in todo
  /\ todo' = todo \ {p}
  /\ \/ /\ printer_status[p] = "maintenance"
        /\ UNCHANGED <<pc, at, seen, old>>
     \/ /\ printer_status[p] # "maintenance"
        /\ pc' = "status" /\ at' = p /\ seen' = printer_status[p]
        /\ old' = settled
  /\ UNCHANGED <<dbVars, files, apiVars, worldVars, events, snap, pick, late>>

\* What GET /api/v1/status answers: the state and, while it prints, the job.
StatusOf(p) ==
  [state |-> reported[p], job_id |-> IF running[p] = NoJob THEN 0 ELSE job_ids[p]]

ReadStatus ==
  /\ pc = "status"
  /\ pc' = "apply" /\ snap' = StatusOf(at)
  /\ UNCHANGED <<dbVars, files, apiVars, worldVars, events,
                 todo, at, seen, pick, old, late>>

\* The call fails: the printer row says why, the jobs are not looked at.
ReadStatusFails ==
  /\ pc = "status"
  /\ Spend
  /\ \E s \in {"offline", "error"} : WritePrinterStatus(at, s)
  /\ SyncReturns
  /\ UNCHANGED <<status, printer_id, submitted_at, printer_job_id, paused,
                 settled, notes, files, apiVars, worldVars>>

\* Mutant: a job that failed goes back to the queue.
FinishRequeues(j, ok) ==
  /\ status' = [status EXCEPT ![j] = IF ok THEN "completed" ELSE "queued"]
  /\ paused' = paused \ {j}
  /\ Notify(j, IF ok THEN "job_completed" ELSE "job_error")

\* _finish
Finish(j, ok) ==
  /\ status' = [status EXCEPT ![j] = IF ok THEN "completed" ELSE "failed"]
  /\ paused' = paused \ {j}
  /\ Notify(j, IF ok THEN "job_completed" ELSE "job_error")

\* Mutants: FINISHED is believed at once; an idle printer ends no job.
EndsWellAtOnce(j) == snap.state = "FINISHED"
EndsBadlyNeverIdle(j) ==
  \/ snap.state \in FAULT
  \/ snap.state = "STOPPED" /\ j \in old

\* The readings that end job j, and how: a fault at once; any other reading
\* only when the job's grace was over at "now".
EndsWell(j) == snap.state = "FINISHED" /\ j \in old
EndsBadly(j) ==
  \/ snap.state \in FAULT
  \/ snap.state \in {"STOPPED", "IDLE", "READY"} /\ j \in old

\* Mutant: every PAUSED reading counts as a new pause.
BecomesPausedAgain(j) == snap.state = "PAUSED"

\* A pause or a resume is recorded, and told, once.
BecomesPaused(j) == snap.state = "PAUSED" /\ j \notin paused
BecomesResumed(j) == snap.state = "PRINTING" /\ j \in paused

\* _apply_active_job
ApplyActiveJob(j) ==
  /\ printer_job_id' = IF snap.job_id = 0 THEN printer_job_id
                       ELSE [printer_job_id EXCEPT ![j] = snap.job_id]
  /\ \/ EndsWell(j) /\ Finish(j, TRUE)
     \/ EndsBadly(j) /\ Finish(j, FALSE)
     \/ /\ BecomesPaused(j)
        /\ paused' = paused \cup {j} /\ Notify(j, "job_paused")
        /\ UNCHANGED status
     \/ /\ BecomesResumed(j)
        /\ paused' = paused \ {j} /\ Notify(j, "job_resumed")
        /\ UNCHANGED status
     \/ /\ ~EndsWell(j) /\ ~EndsBadly(j)
        /\ ~BecomesPaused(j) /\ ~BecomesResumed(j)
        /\ UNCHANGED <<status, paused, notes>>

\* The status the reading gives the printer row; BUSY leaves it as it was.
ShownStatus ==
  IF snap.state \in ACTIVE THEN "printing"
  ELSE IF snap.state \in FAULT THEN "error"
  ELSE IF snap.state = "BUSY" THEN seen ELSE "idle"

\* Only the printer and "now" are used after the commit.
GoSelect ==
  /\ pc' = "select" /\ seen' = "idle" /\ snap' = NoSnapshot /\ old' = {}
  /\ UNCHANGED <<todo, at, pick, late>>

\* sync_printer from the snapshot to its commit, one transaction.
Apply ==
  /\ pc = "apply"
  /\ \/ \E j \in ActiveJobs(at) : ApplyActiveJob(j)
     \/ ActiveJobs(at) = {} /\ UNCHANGED <<status, paused, notes, printer_job_id>>
  /\ WritePrinterStatus(at, ShownStatus)
  /\ IF snap.state \in READY_FOR_JOB THEN GoSelect ELSE SyncReturns
  /\ UNCHANGED <<printer_id, submitted_at, settled, files, apiVars, worldVars, events>>

\* Mutants: a completed job holds nothing; a failed job holds the bed too.
BedIsClearUnheld(p) == ActiveJobs(p) = {}
BedIsClearUnlessFailed(p) ==
  \A j \in Jobs : printer_id[j] = p => status[j] \notin {"printing", "completed", "failed"}

\* The removal hold: no job printing, none finished and still on the bed.
BedIsClear(p) == Holding(p) = {}

\* ORDER BY submitted_at, first row.
Oldest(p) == {j \in Queue(p) : \A i \in Queue(p) : submitted_at[j] <= submitted_at[i]}

\* The end of sync_printer and the start of _dispatch_next: the rows are read
\* again (the commit expired them), and so is the printer's status.
Select ==
  /\ pc = "select"
  /\ \/ /\ BedIsClear(at)
        /\ \E j \in Oldest(at) : pick' = j
        /\ pc' = "upload" /\ seen' = printer_status[at]
        /\ UNCHANGED <<todo, at, snap, old, late>>
     \/ /\ ~BedIsClear(at) \/ Queue(at) = {}
        /\ SyncReturns
  /\ UNCHANGED <<dbVars, files, apiVars, worldVars, events>>

\* The printer takes the file and starts it (Print-After-Upload).  Until it
\* reports PRINTING it goes on reporting what it did before, or READY.
Accepts(p, j) ==
  /\ running[p] = NoJob
  /\ running' = [running EXCEPT ![p] = j]
  /\ job_ids' = [job_ids EXCEPT ![p] = @ + 1]
  /\ runs' = [runs EXCEPT ![j] = @ + 1]
  /\ \E r \in {reported[p], "READY"} : reported' = [reported EXCEPT ![p] = r]
  /\ UNCHANGED printed

\* upload_and_start returns: the printer has the job.  The upload may have
\* taken longer than START_GRACE; "now" was taken before it.
Upload ==
  /\ pc = "upload" /\ pick \in files
  /\ Accepts(at, pick)
  /\ pc' = "record"
  /\ late' \in {l \in BOOLEAN : l => "slow upload" \in Adversities}
  /\ UNCHANGED <<dbVars, files, apiVars, events, todo, at, seen, snap, pick, old>>

\* It raises and nothing was started: 409 from a printer that runs something or
\* is not ready, or OSError for a file that is gone.
UploadRefused ==
  /\ pc = "upload"
  /\ \/ pick \notin files
     \/ running[at] # NoJob
     \/ reported[at] \notin READY_FOR_JOB
  /\ SyncReturns
  /\ UNCHANGED <<dbVars, files, apiVars, worldVars, events>>

\* The transport fails before the printer has the file, or, for a lost reply,
\* after it: the adapter raises the same PrinterUnreachableError.
UploadFails ==
  /\ pc = "upload"
  /\ Spend
  /\ \/ UNCHANGED worldVars
     \/ "lost reply" \in Adversities /\ pick \in files /\ Accepts(at, pick)
  /\ SyncReturns
  /\ UNCHANGED <<dbVars, files, apiVars>>

\* started_at := now, the time sync_printer began.
GraceFrom(j) == settled' = IF late THEN settled \cup {j} ELSE settled \ {j}

\* The job is recorded as printing, one commit.
RecordStart ==
  /\ pc = "record"
  /\ status' = [status EXCEPT ![pick] = "printing"]
  /\ GraceFrom(pick)
  /\ WritePrinterStatus(at, "printing")
  /\ Notify(pick, "job_started")
  /\ pc' = "confirm" /\ UNCHANGED <<todo, at, seen, snap, pick, old, late>>
  /\ UNCHANGED <<printer_id, submitted_at, printer_job_id, paused,
                 files, apiVars, worldVars, events>>

\* The printer's own number for the job, if the second status call answers.
Confirm ==
  /\ pc = "confirm"
  /\ printer_job_id' \in
       {printer_job_id, [printer_job_id EXCEPT ![pick] = StatusOf(at).job_id]}
  /\ SyncReturns
  /\ UNCHANGED <<status, printer_id, submitted_at, paused, settled, notes,
                 printer_status, files, apiVars, worldVars, events>>

\* A statement or a commit raises: sync_all_printers rolls back and goes on.
PollerRollsBack ==
  /\ "crash" \in Adversities
  /\ pc \in {"status", "apply", "select", "record", "confirm"}
  /\ Spend
  /\ SyncReturns
  /\ UNCHANGED <<dbVars, files, apiVars, worldVars>>

-----------------------------------------------------------------------------
(***************************************************************************)
(* The request handlers.  Each job has at most one in progress, besides    *)
(* the farmers' pause and resume commands, of which one is in flight.      *)
(***************************************************************************)

Handler(j, from, to) == req[j] = from /\ req' = [req EXCEPT ![j] = to]

\* submit_job up to the slow validation: the printer must be available.
SubmitCheck(j) ==
  /\ status[j] = "new"
  /\ printer_status[printer_id[j]] \notin UNAVAILABLE
  /\ Handler(j, "none", "validating")
  /\ UNCHANGED <<dbVars, files, cmd, clock, pollVars, worldVars, events>>

\* The validator, the profile, the material or the duration is refused.
SubmitReject(j) ==
  /\ Handler(j, "validating", "aborted")
  /\ UNCHANGED <<dbVars, files, cmd, clock, pollVars, worldVars, events>>

\* The file is written, then submitted_at is taken.
StoreFile(j) ==
  /\ Handler(j, "validating", "stored")
  /\ files' = files \cup {j}
  /\ clock' = clock + 1
  /\ submitted_at' = [submitted_at EXCEPT ![j] = clock + 1]
  /\ UNCHANGED <<status, printer_id, printer_job_id, paused, settled, notes,
                 printer_status, cmd, pollVars, worldVars, events>>

CommitSubmission(j) ==
  /\ Handler(j, "stored", "none")
  /\ status' = [status EXCEPT ![j] = "queued"]
  /\ UNCHANGED <<printer_id, submitted_at, printer_job_id, paused, settled, notes,
                 printer_status, files, cmd, clock, pollVars, worldVars, events>>

\* The commit raises: rolled back, and the file is removed.
CommitSubmissionFails(j) ==
  /\ Spend
  /\ Handler(j, "stored", "aborted")
  /\ files' = files \ {j}
  /\ UNCHANGED <<dbVars, cmd, clock, pollVars, worldVars>>

\* _send up to the call: the job must be printing and its number known.
Send(j, action) ==
  /\ cmd = NoCommand
  /\ status[j] = "printing" /\ printer_job_id[j] # 0
  /\ Spend
  /\ cmd' = [job |-> j, id |-> printer_job_id[j], action |-> action]
  /\ UNCHANGED <<dbVars, files, req, clock, pollVars, worldVars>>

\* Mutant: the command goes to whatever the printer runs.
NamesAny(p, id) == running[p] # NoJob

\* PUT /api/v1/job/{id}/pause or /resume: the printer looks the number up.
Names(p, id) == running[p] # NoJob /\ job_ids[p] = id

\* The call arrives, and is obeyed or refused, or does not arrive.
Deliver ==
  /\ cmd # NoCommand
  /\ cmd' = NoCommand
  /\ LET p == printer_id[cmd.job] IN
     \/ /\ Names(p, cmd.id) /\ cmd.action = "pause" /\ reported[p] = "PRINTING"
        /\ reported' = [reported EXCEPT ![p] = "PAUSED"]
     \/ /\ Names(p, cmd.id) /\ cmd.action = "resume" /\ reported[p] = "PAUSED"
        /\ reported' = [reported EXCEPT ![p] = "PRINTING"]
     \/ UNCHANGED reported
  /\ UNCHANGED <<dbVars, files, req, clock, pollVars, running, job_ids, runs,
                 printed, events>>

\* Mutant: the file goes before the commit.
MarkReadyUnlinksFirst(j) ==
  /\ status[j] = "completed"
  /\ Handler(j, "none", "unlinking")
  /\ UNCHANGED <<dbVars, files, cmd, clock, pollVars, worldVars, events>>

\* mark_ready_for_collection up to its commit (the row is locked): only a
\* completed job; a repeat on a job already ready changes nothing.
MarkReady(j) ==
  /\ status[j] = "completed"
  /\ Handler(j, "none", "unlinking")
  /\ status' = [status EXCEPT ![j] = "ready_for_collection"]
  /\ Notify(j, "ready_for_collection")
  /\ UNCHANGED <<printer_id, submitted_at, printer_job_id, paused, settled,
                 printer_status, files, cmd, clock, pollVars, worldVars, events>>

\* The rest of it, after the commit: os.remove, whose OSError is swallowed.
RemoveFile(j) ==
  /\ Handler(j, "unlinking", "none")
  /\ files' \in {files, files \ {j}}
  /\ UNCHANGED <<dbVars, cmd, clock, pollVars, worldVars, events>>

\* update_printer: an administrator takes a printer out of service, or back.
SetPrinterStatus(p, s) ==
  /\ "maintenance" \in Adversities
  /\ printer_status[p] # s
  /\ Spend
  /\ printer_status' = [printer_status EXCEPT ![p] = s]
  /\ UNCHANGED <<status, printer_id, submitted_at, printer_job_id, paused, settled,
                 notes, files, apiVars, pollVars, worldVars>>

\* The backend process dies and is started again: poller and handlers alike.
Crash ==
  /\ "crash" \in Adversities
  /\ Spend
  /\ pc' = "idle" /\ todo' = {} /\ seen' = "idle" /\ snap' = NoSnapshot
  /\ pick' = NoJob /\ old' = {} /\ late' = FALSE /\ UNCHANGED at
  /\ cmd' = NoCommand
  /\ req' = [j \in Jobs |-> IF req[j] = "none" THEN "none" ELSE "aborted"]
  /\ UNCHANGED <<dbVars, files, clock, worldVars>>

-----------------------------------------------------------------------------
(***************************************************************************)
(* The printers (external) and the clock.                                  *)
(***************************************************************************)

Report(p, s) == reported' = [reported EXCEPT ![p] = s]

PrinterOnly ==
  UNCHANGED <<dbVars, files, apiVars, pollVars, job_ids, runs>>

\* The printer reports the job it has accepted, or the one it has recovered.
BeginsPrinting(p) ==
  /\ running[p] # NoJob /\ reported[p] \notin ACTIVE
  /\ Report(p, "PRINTING")
  /\ PrinterOnly /\ UNCHANGED <<running, printed, events>>

FinishesPrint(p) ==
  /\ running[p] # NoJob /\ reported[p] = "PRINTING"
  /\ Report(p, "FINISHED")
  /\ running' = [running EXCEPT ![p] = NoJob]
  /\ printed' = IF running[p] \in Jobs THEN printed \cup {running[p]} ELSE printed
  /\ PrinterOnly /\ UNCHANGED events

\* Stopped at the printer, or its power fails, or it will not print the file.
LosesPrint(p) ==
  /\ running[p] # NoJob
  /\ Spend
  /\ \E s \in {"STOPPED", "IDLE"} \cup FAULT : Report(p, s)
  /\ running' = [running EXCEPT ![p] = NoJob]
  /\ PrinterOnly /\ UNCHANGED printed

\* A fault does not by itself end the print.
Faults(p) ==
  /\ reported[p] \notin FAULT
  /\ Spend
  /\ \E s \in FAULT : Report(p, s)
  /\ PrinterOnly /\ UNCHANGED <<running, printed>>

\* Someone pauses or resumes the print at the printer.
PausedByHand(p) ==
  /\ running[p] # NoJob /\ reported[p] = "PRINTING"
  /\ Spend
  /\ Report(p, "PAUSED")
  /\ PrinterOnly /\ UNCHANGED <<running, printed>>

ResumedByHand(p) ==
  /\ running[p] # NoJob /\ reported[p] = "PAUSED"
  /\ Report(p, "PRINTING")
  /\ PrinterOnly /\ UNCHANGED <<running, printed, events>>

\* Homing, heating, or a state this backend does not know.
GoesBusy(p) ==
  /\ running[p] = NoJob /\ reported[p] \in READY_FOR_JOB
  /\ Spend
  /\ \E s \in {"BUSY", "UNKNOWN"} : Report(p, s)
  /\ PrinterOnly /\ UNCHANGED <<running, printed>>

\* An operator clears what the display shows, or the printer is done with it.
Clears(p) ==
  /\ running[p] = NoJob /\ reported[p] \notin {"IDLE", "READY"}
  /\ \E s \in {"IDLE", "READY"} : Report(p, s)
  /\ PrinterOnly /\ UNCHANGED <<running, printed, events>>

StartsLocalPrint(p) ==
  /\ "local print" \in Adversities
  /\ running[p] = NoJob
  /\ Spend
  /\ running' = [running EXCEPT ![p] = LocalPrint]
  /\ job_ids' = [job_ids EXCEPT ![p] = @ + 1]
  /\ Report(p, "PRINTING")
  /\ UNCHANGED <<dbVars, files, apiVars, pollVars, runs, printed>>

\* The printer has accepted j and does not report it yet.
Starting(j) ==
  \E p \in Printers : running[p] = j /\ reported[p] \in READY_FOR_JOB \cup {"BUSY", "UNKNOWN"}

\* START_GRACE has passed since started_at.  A printer reports a job it has
\* accepted within that time.
GraceElapses(j) ==
  /\ status[j] = "printing" /\ j \notin settled /\ ~Starting(j)
  /\ settled' = settled \cup {j}
  /\ UNCHANGED <<status, printer_id, submitted_at, printer_job_id, paused, notes,
                 printer_status, files, apiVars, pollVars, worldVars, events>>

-----------------------------------------------------------------------------
PollerStep ==
  \/ StartSweep
  \/ \E p \in Printers : BeginSync(p)
  \/ ReadStatus \/ ReadStatusFails
  \/ Apply \/ Select
  \/ Upload \/ UploadRefused \/ UploadFails
  \/ RecordStart \/ Confirm
  \/ PollerRollsBack

HandlerStep ==
  \/ \E j \in Jobs :
       \/ SubmitCheck(j) \/ SubmitReject(j) \/ StoreFile(j)
       \/ CommitSubmission(j) \/ CommitSubmissionFails(j)
       \/ MarkReady(j) \/ RemoveFile(j)
       \/ \E action \in {"pause", "resume"} : Send(j, action)
  \/ Deliver
  \/ \E p \in Printers, s \in PrinterStatus : SetPrinterStatus(p, s)

PrinterStep ==
  \/ \E p \in Printers :
       \/ BeginsPrinting(p) \/ FinishesPrint(p) \/ LosesPrint(p) \/ Faults(p)
       \/ PausedByHand(p) \/ ResumedByHand(p) \/ GoesBusy(p) \/ Clears(p)
       \/ StartsLocalPrint(p)
  \/ \E j \in Jobs : GraceElapses(j)

Next == PollerStep \/ HandlerStep \/ PrinterStep \/ Crash

Spec == Init /\ [][Next]_vars

(***************************************************************************)
(* Fairness.  The poller thread runs (main.py's loop survives every        *)
(* exception), an accepted request is carried through and time passes.     *)
(* The rest is assumed of the world: a print is reported and ends, a       *)
(* paused one is resumed, a display is cleared, farmers collect.           *)
(***************************************************************************)
BackendFairness ==
  /\ WF_vars(PollerStep)
  /\ \A j \in Jobs :
       /\ WF_vars(GraceElapses(j))
       /\ WF_vars(StoreFile(j) \/ SubmitReject(j))
       /\ WF_vars(CommitSubmission(j) \/ CommitSubmissionFails(j))
       /\ WF_vars(RemoveFile(j))

WorldFairness ==
  /\ \A p \in Printers :
       /\ WF_vars(BeginsPrinting(p)) /\ WF_vars(FinishesPrint(p))
       /\ WF_vars(ResumedByHand(p)) /\ WF_vars(Clears(p))
  /\ \A j \in Jobs : WF_vars(MarkReady(j))

FairSpec == Spec /\ BackendFairness /\ WorldFairness

-----------------------------------------------------------------------------
(***************************************************************************)
(* Properties.                                                             *)
(***************************************************************************)

\* A printer carries one print: at most one of its jobs is printing or has
\* completed and not been collected.  It is what the removal hold of
\* _dispatch_next and the active-job check of sync_printer are for, with the
\* rows read some steps before the job is recorded as printing.
BedHold == \A p \in Printers : \A i, j \in Holding(p) : i = j

\* The owner's notifications tell the job's story: a start, then pauses and
\* resumes in turn, one ending, and the call to collect after a good one; and
\* the last of them is the job's present state.
Follows ==
  ({"job_started", "job_resumed"} \X {"job_paused", "job_completed", "job_error"})
    \cup ({"job_paused"} \X {"job_resumed", "job_completed", "job_error"})
    \cup {<<"job_completed", "ready_for_collection">>}

LastNotes(j) ==
  CASE status[j] = "printing" /\ j \in paused    -> {"job_paused"}
    [] status[j] = "printing" /\ j \notin paused -> {"job_started", "job_resumed"}
    [] status[j] = "completed"                   -> {"job_completed"}
    [] status[j] = "failed"                      -> {"job_error"}
    [] OTHER                                     -> {"ready_for_collection"}

NotificationsTellTheStory ==
  \A j \in Jobs :
    IF status[j] \in {"new", "queued"} THEN notes[j] = <<>>
    ELSE /\ notes[j] # <<>>
         /\ notes[j][1] = "job_started"
         /\ \A i \in 1 .. Len(notes[j]) - 1 : <<notes[j][i], notes[j][i + 1]>> \in Follows
         /\ notes[j][Len(notes[j])] \in LastNotes(j)

\* A job is called completed only when its own print ran to its end: no reading
\* left over from the job before is taken for it (START_GRACE).
CompletedWasPrinted ==
  \A j \in Jobs : status[j] \in {"completed", "ready_for_collection"} => j \in printed

\* A job is printed once, however the poller's sweeps fall.
PrintedAtMostOnce == \A j \in Jobs : runs[j] <= 1

\* No print is started while a finished one lies on the bed.  (A failed job
\* does not hold the bed: that is the documented limit of the code.)
UnremovedPrint(p) ==
  \E j \in printed : printer_id[j] = p /\ status[j] \in {"queued", "printing", "completed"}

NeverPrintsOntoAPrint ==
  [][\A p \in Printers :
       running[p] = NoJob /\ running'[p] \in Jobs => ~UnremovedPrint(p)]_vars

\* What a printer runs is known to the database: the job is printing there, or
\* was failed for a fault while it ran, or is about to be recorded.
RunningIsKnown ==
  \A p \in Printers, j \in Jobs :
    running[p] = j => \/ printer_id[j] = p /\ status[j] \in {"printing", "failed"}
                      \/ pc = "record" /\ at = p /\ pick = j

\* A farmer's pause or resume acts on the job it was given for, and on no
\* other, however late it arrives.
CommandReachesItsJob ==
  [][\A p \in Printers :
       cmd # NoCommand /\ cmd' = NoCommand /\ reported'[p] # reported[p]
         => running[p] = cmd.job]_vars

\* The G-code is kept for as long as the job may still be printed, or printed
\* again; only a confirmed removal gives it up.
FileKeptUntilRemoval ==
  \A j \in Jobs :
    status[j] \in {"queued", "printing", "completed", "failed"} => j \in files

\* An administrator's "maintenance" stays until an administrator ends it: the
\* poller never overwrites it.
OnlyAdminEndsMaintenance ==
  [][\A p \in Printers :
       printer_status[p] = "maintenance" /\ printer_status'[p] # "maintenance"
         => UNCHANGED pc]_vars

\* A job whose print is over does not stay "printing" for ever.
EndedPrintIsRecorded ==
  \A j \in Jobs :
    status[j] = "printing" /\ running[printer_id[j]] # j ~> status[j] # "printing"

\* A queued job is started in the end, if farmers collect what is finished.
QueueMoves == \A j \in Jobs : status[j] = "queued" ~> status[j] = "printing"

(***************************************************************************)
(* The inductive invariant.  BedHold is not inductive: RecordStart writes  *)
(* "printing" some steps after Select read the rows.  What carries it over *)
(* is that the poller is the only one to start a job, so what it saw of    *)
(* the printer is still so when it records the start.                      *)
(***************************************************************************)
PickIsNext ==
  pc \in {"upload", "record"} => pick \in Queue(at) /\ Holding(at) = {}

PickIsKnown == pc = "confirm" => pick \in Jobs

RequestsAreNew == \A j \in Jobs : req[j] \in {"validating", "stored"} => status[j] = "new"

PausedIsPrinting == \A j \in paused : status[j] = "printing"

IInv ==
  /\ TypeOK
  /\ BedHold
  /\ PickIsNext
  /\ PickIsKnown
  /\ RequestsAreNew
  /\ PausedIsPrinting

\* What the handlers between two steps rely on: a submission has stored its
\* file, and a removal is under way only of a job that is ready.
RequestsKeepFiles ==
  \A j \in Jobs :
    /\ req[j] = "stored" => j \in files
    /\ req[j] = "unlinking" => status[j] = "ready_for_collection"

(***************************************************************************)
(* The agreement of the database with the printers, as an inductive        *)
(* invariant.  It holds if none of the adversities in Blinding happens.    *)
(***************************************************************************)
Blinding == {"crash", "lost reply", "slow upload", "local print"}

\* The poller has the printer's answer and has not recorded it yet.
Recording(j) == pc = "record" /\ pick = j

\* A printer got a job exactly when the job left the queue, or is leaving it.
StartedOnce ==
  \A j \in Jobs :
    runs[j] = IF status[j] \in {"new", "queued"} /\ ~Recording(j) THEN 0 ELSE 1

PrintedWasStarted == \A j \in printed : runs[j] = 1

\* While a job is printing in the database its printer runs it, or nothing.
RunsNoOther ==
  \A j \in Jobs :
    status[j] = "printing" \/ Recording(j) => running[printer_id[j]] \in {j, NoJob}

\* If the printer runs it no more and says FINISHED, then of this job.
FinishedIsItsOwn ==
  \A j \in Jobs :
    /\ status[j] = "printing" \/ Recording(j)
    /\ running[printer_id[j]] # j /\ reported[printer_id[j]] = "FINISHED"
    => j \in printed

\* Once the grace is over, a printer that runs the job reports it.
GraceCoversTheStart ==
  \A j \in settled :
    status[j] = "printing" /\ running[printer_id[j]] = j
      => reported[printer_id[j]] \in ACTIVE \cup FAULT

\* The poller takes FINISHED for the active job's only when it is.
ReadingIsItsOwn ==
  /\ pc \in {"status", "apply"} => old \subseteq settled
  /\ pc = "apply" /\ snap.state = "FINISHED"
       => \A j \in old : j \in ActiveJobs(at) => j \in printed /\ running[at] # j

Agreement ==
  /\ StartedOnce /\ PrintedWasStarted
  /\ RunningIsKnown /\ RunsNoOther
  /\ FinishedIsItsOwn /\ GraceCoversTheStart /\ ReadingIsItsOwn
  /\ CompletedWasPrinted
  /\ pc = "record" => ~late

\* Everything the backend does to its jobs is a step of the abstract life of a
\* job, or none: see JobLifecycle.
Lifecycle ==
  INSTANCE JobLifecycle WITH phase <- status, printer <- printer_id, told <- notes

ImplementsLifecycle == Lifecycle!Spec

=============================================================================
