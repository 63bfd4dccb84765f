---------------------------- MODULE PrintFarmProofs ----------------------------
(***************************************************************************)
(* Theorems about PrintFarm, for any sets of jobs and printers and every   *)
(* mix of adversities.  The inductive invariant IInv is proved part by     *)
(* part: one lemma for each group of types, one for each other conjunct.   *)
(* StatusChanges lists the ways a job changes its status; the lemmas about *)
(* BedHold and the requests need no more of the actions than that.         *)
(***************************************************************************)
EXTENDS PrintFarm, TLAPS

\* The states the model writes by name are states.
LEMMA StatesAreStates ==
  /\ ACTIVE \subseteq PrinterState /\ FAULT \subseteq PrinterState
  /\ READY_FOR_JOB \subseteq PrinterState
  /\ {"PRINTING", "PAUSED", "FINISHED", "STOPPED", "IDLE", "READY", "BUSY", "UNKNOWN"}
       \subseteq PrinterState
BY DEF PrinterState, ACTIVE, FAULT, READY_FOR_JOB

-----------------------------------------------------------------------------
\* The printers' variables keep their types: an upload concerns a known job.
LEMMA WorldTypes ==
  ASSUME TypeOK, PickIsNext, [Next]_vars
  PROVE  WorldTypeOK'
<1> USE StatesAreStates DEF TypeOK, WorldTypeOK
<1>1. ASSUME NEW j \in Jobs, NEW p \in Printers, Accepts(p, j), events' \in Nat
      PROVE  WorldTypeOK'
  <2>1. reported' \in [Printers -> PrinterState]
    BY <1>1 DEF Accepts
  <2> QED BY <1>1, <2>1 DEF Accepts
<1>2. CASE PollerStep
  <2>1. CASE Upload
    <3>1. pick \in Jobs /\ at \in Printers
      BY <2>1 DEF Upload, PickIsNext, Queue, PollTypeOK
    <3> QED BY <1>1, <2>1, <3>1 DEF Upload
  <2>2. CASE UploadFails
    <3>1. pick \in Jobs /\ at \in Printers
      BY <2>2 DEF UploadFails, PickIsNext, Queue, PollTypeOK
    <3>2. Spend
      BY <2>2 DEF UploadFails
    <3>3. UNCHANGED worldVars \/ Accepts(at, pick)
      BY <2>2 DEF UploadFails
    <3>4. events' \in Nat
      BY <3>2 DEF Spend
    <3> QED BY <1>1, <3>1, <3>3, <3>4 DEF worldVars
  <2>3. ASSUME ~Upload, ~UploadFails PROVE UNCHANGED worldVars /\ events' \in Nat
    BY <1>2, <2>3 DEF PollerStep, StartSweep, BeginSync, ReadStatus, ReadStatusFails,
       Apply, Select, UploadRefused, RecordStart, Confirm, PollerRollsBack, Spend
  <2> QED BY <2>1, <2>2, <2>3 DEF worldVars
<1>3. CASE HandlerStep
  <2>1. CASE Deliver
    BY <2>1 DEF Deliver
  <2>2. ASSUME ~Deliver PROVE UNCHANGED worldVars /\ events' \in Nat
    BY <1>3, <2>2 DEF HandlerStep, SubmitCheck, SubmitReject, StoreFile, CommitSubmission,
       CommitSubmissionFails, MarkReady, RemoveFile, Send, SetPrinterStatus, Spend
  <2> QED BY <2>1, <2>2 DEF worldVars
<1>4. CASE PrinterStep
  <2> USE DEF Report, PrinterOnly
  <2>1. ASSUME NEW p \in Printers, BeginsPrinting(p) PROVE WorldTypeOK'
    BY <2>1 DEF BeginsPrinting
  <2>2. ASSUME NEW p \in Printers, FinishesPrint(p) PROVE WorldTypeOK'
    BY <2>2 DEF FinishesPrint
  <2>3. ASSUME NEW p \in Printers, LosesPrint(p) PROVE WorldTypeOK'
    BY <2>3 DEF LosesPrint, Spend
  <2>4. ASSUME NEW p \in Printers, Faults(p) PROVE WorldTypeOK'
    BY <2>4 DEF Faults, Spend
  <2>5. ASSUME NEW p \in Printers, PausedByHand(p) PROVE WorldTypeOK'
    BY <2>5 DEF PausedByHand, Spend
  <2>6. ASSUME NEW p \in Printers, ResumedByHand(p) PROVE WorldTypeOK'
    BY <2>6 DEF ResumedByHand
  <2>7. ASSUME NEW p \in Printers, GoesBusy(p) PROVE WorldTypeOK'
    BY <2>7 DEF GoesBusy, Spend
  <2>8. ASSUME NEW p \in Printers, Clears(p) PROVE WorldTypeOK'
    BY <2>8 DEF Clears
  <2>9. ASSUME NEW p \in Printers, StartsLocalPrint(p) PROVE WorldTypeOK'
    <3>1. reported' \in [Printers -> PrinterState]
      BY <2>9 DEF StartsLocalPrint
    <3>2. job_ids' \in [Printers -> Nat]
      <4>1. job_ids' = [job_ids EXCEPT ![p] = @ + 1]
        BY <2>9 DEF StartsLocalPrint
      <4> QED BY <4>1
    <3>3. running' \in [Printers -> Jobs \cup {NoJob, LocalPrint}]
      BY <2>9 DEF StartsLocalPrint
    <3>4. Spend /\ UNCHANGED runs /\ UNCHANGED printed
      BY <2>9 DEF StartsLocalPrint
    <3>5. events' \in Nat
      BY <3>4 DEF Spend
    <3> QED BY <3>1, <3>2, <3>3, <3>4, <3>5
  <2>10. ASSUME NEW j \in Jobs, GraceElapses(j) PROVE WorldTypeOK'
    BY <2>10 DEF GraceElapses, worldVars
  <2> QED BY <1>4, <2>1, <2>2, <2>3, <2>4, <2>5, <2>6, <2>7, <2>8, <2>9, <2>10
          DEF PrinterStep
<1>5. CASE Crash
  BY <1>5 DEF Crash, Spend, worldVars
<1>6. CASE UNCHANGED vars
  BY <1>6 DEF vars, worldVars
<1> QED BY <1>2, <1>3, <1>4, <1>5, <1>6 DEF Next
-----------------------------------------------------------------------------
\* The poller's locals keep their types.
LEMMA PollTypes ==
  ASSUME TypeOK, PickIsNext, [Next]_vars
  PROVE  PollTypeOK'
<1> USE DEF TypeOK, PollTypeOK
<1>1. "idle" \in PrinterStatus /\ NoSnapshot \in Snapshots
  BY StatesAreStates DEF PrinterStatus, Snapshots, NoSnapshot
<1>2. SyncReturns => PollTypeOK'
  BY <1>1 DEF SyncReturns
<1>3. \A p \in Printers : StatusOf(p) \in Snapshots
  BY DEF StatusOf, Snapshots, WorldTypeOK
<1>4. CASE PollerStep
  <2>1. CASE StartSweep
    BY <2>1 DEF StartSweep
  <2>2. ASSUME NEW p \in Printers, BeginSync(p) PROVE PollTypeOK'
    BY <2>2 DEF BeginSync, DbTypeOK
  <2>3. CASE ReadStatus
    BY <2>3, <1>3 DEF ReadStatus
  <2>4. CASE Apply
    BY <2>4, <1>1, <1>2 DEF Apply, GoSelect
  <2>5. CASE Select
    BY <2>5, <1>2 DEF Select, Oldest, Queue, DbTypeOK
  <2>6. CASE Upload
    BY <2>6 DEF Upload
  <2>7. CASE RecordStart
    BY <2>7 DEF RecordStart
  <2>8. ASSUME ReadStatusFails \/ UploadRefused \/ UploadFails \/ Confirm \/ PollerRollsBack
        PROVE  SyncReturns
    BY <2>8 DEF ReadStatusFails, UploadRefused, UploadFails, Confirm, PollerRollsBack
  <2> QED BY <1>4, <1>2, <2>1, <2>2, <2>3, <2>4, <2>5, <2>6, <2>7, <2>8 DEF PollerStep
<1>5. CASE Crash
  BY <1>5, <1>1 DEF Crash
<1>6. ASSUME HandlerStep \/ PrinterStep \/ UNCHANGED vars PROVE UNCHANGED pollVars
  BY <1>6 DEF HandlerStep, SubmitCheck, SubmitReject, StoreFile, CommitSubmission,
     CommitSubmissionFails, MarkReady, RemoveFile, Send, Deliver, SetPrinterStatus,
     PrinterStep, PrinterOnly, BeginsPrinting, FinishesPrint, LosesPrint, Faults,
     PausedByHand, ResumedByHand, GoesBusy, Clears, StartsLocalPrint, GraceElapses, vars
<1> QED BY <1>4, <1>5, <1>6 DEF Next, pollVars

\* The request handlers' variables keep their types.
LEMMA ApiTypes ==
  ASSUME TypeOK, [Next]_vars
  PROVE  ApiTypeOK'
<1> USE DEF TypeOK, ApiTypeOK
<1>1. NoCommand \in Commands
  BY DEF NoCommand, Commands
<1>2. CASE HandlerStep
  <2> USE DEF Handler
  <2>1. ASSUME NEW j \in Jobs, SubmitCheck(j) \/ SubmitReject(j) PROVE ApiTypeOK'
    BY <2>1 DEF SubmitCheck, SubmitReject
  <2>2. ASSUME NEW j \in Jobs, StoreFile(j) PROVE ApiTypeOK'
    BY <2>2 DEF StoreFile
  <2>3. ASSUME NEW j \in Jobs, CommitSubmission(j) PROVE ApiTypeOK'
    BY <2>3 DEF CommitSubmission
  <2>4. ASSUME NEW j \in Jobs, CommitSubmissionFails(j) PROVE ApiTypeOK'
    BY <2>4 DEF CommitSubmissionFails
  <2>5. ASSUME NEW j \in Jobs, MarkReady(j) PROVE ApiTypeOK'
    BY <2>5 DEF MarkReady
  <2>6. ASSUME NEW j \in Jobs, RemoveFile(j) PROVE ApiTypeOK'
    BY <2>6 DEF RemoveFile
  <2>7. ASSUME NEW j \in Jobs, NEW action \in {"pause", "resume"}, Send(j, action)
        PROVE  ApiTypeOK'
    BY <2>7 DEF Send, Commands, DbTypeOK
  <2>8. CASE Deliver
    BY <2>8, <1>1 DEF Deliver
  <2>9. ASSUME NEW p \in Printers, NEW s \in PrinterStatus, SetPrinterStatus(p, s)
        PROVE  ApiTypeOK'
    BY <2>9 DEF SetPrinterStatus, apiVars
  <2> QED BY <1>2, <2>1, <2>2, <2>3, <2>4, <2>5, <2>6, <2>7, <2>8, <2>9 DEF HandlerStep
<1>3. CASE Crash
  BY <1>3, <1>1 DEF Crash
<1>4. ASSUME PollerStep \/ PrinterStep \/ UNCHANGED vars PROVE UNCHANGED <<files, apiVars>>
  BY <1>4 DEF PollerStep, StartSweep, BeginSync, ReadStatus, ReadStatusFails, Apply, Select,
     Upload, UploadRefused, UploadFails, RecordStart, Confirm, PollerRollsBack,
     PrinterStep, PrinterOnly, BeginsPrinting, FinishesPrint, LosesPrint, Faults,
     PausedByHand, ResumedByHand, GoesBusy, Clears, StartsLocalPrint, GraceElapses, vars
<1> QED BY <1>2, <1>3, <1>4 DEF Next, apiVars

\* The rows keep their types: every status the code writes is of its enumeration.
LEMMA DbTypes ==
  ASSUME TypeOK, PickIsNext, PickIsKnown, [Next]_vars
  PROVE  DbTypeOK'
<1> USE DEF TypeOK, DbTypeOK
<1>1. ASSUME NEW p \in Printers, NEW s \in PrinterStatus, WritePrinterStatus(p, s)
      PROVE  printer_status' \in [Printers -> PrinterStatus]
  BY <1>1 DEF WritePrinterStatus
<1>2. ASSUME NEW j \in Jobs, NEW kind \in NotificationType, Notify(j, kind)
      PROVE  notes' \in [Jobs -> Seq(NotificationType)]
  BY <1>2 DEF Notify
<1>3. {"printing", "error", "offline", "idle"} \subseteq PrinterStatus
  BY DEF PrinterStatus
<1>4. NotificationType = {"job_started", "job_paused", "job_resumed", "job_completed",
                          "job_error", "ready_for_collection"}
  BY DEF NotificationType
<1>5. {"queued", "printing", "completed", "failed", "ready_for_collection"} \subseteq JobStatus
  BY DEF JobStatus
<1>6. at \in Printers
  BY DEF PollTypeOK
<1>7. CASE ReadStatusFails
  <2>1. PICK s \in {"offline", "error"} : WritePrinterStatus(at, s)
    BY <1>7 DEF ReadStatusFails
  <2>2. printer_status' \in [Printers -> PrinterStatus]
    BY <2>1, <1>1, <1>3, <1>6
  <2> QED BY <1>7, <2>2 DEF ReadStatusFails
<1>8. CASE Apply
  <2>1. ShownStatus \in PrinterStatus
    BY <1>3 DEF ShownStatus, PollTypeOK
  <2>2. printer_status' \in [Printers -> PrinterStatus]
    <3>1. WritePrinterStatus(at, ShownStatus)
      BY <1>8 DEF Apply
    <3> QED BY <3>1, <2>1, <1>1, <1>6
  <2>3. UNCHANGED <<printer_id, submitted_at, settled>>
    BY <1>8 DEF Apply
  <2>4. CASE UNCHANGED <<status, paused, notes, printer_job_id>>
    BY <2>2, <2>3, <2>4
  <2>5. ASSUME NEW j \in Jobs, ApplyActiveJob(j) PROVE DbTypeOK'
    <3>1. printer_job_id' \in [Jobs -> Nat]
      BY <2>5 DEF ApplyActiveJob, PollTypeOK, Snapshots
    <3>2. ASSUME NEW ok \in BOOLEAN, Finish(j, ok) PROVE DbTypeOK'
      <4>1. notes' \in [Jobs -> Seq(NotificationType)]
        BY <3>2, <1>2, <1>4 DEF Finish
      <4>2. status' \in [Jobs -> JobStatus] /\ paused' \subseteq Jobs
        BY <3>2, <1>5 DEF Finish
      <4> QED BY <4>1, <4>2, <3>1, <2>2, <2>3
    <3>3. ASSUME UNCHANGED status, paused' \subseteq Jobs,
                 UNCHANGED notes \/ \E kind \in NotificationType : Notify(j, kind)
          PROVE  DbTypeOK'
      <4>1. notes' \in [Jobs -> Seq(NotificationType)]
        BY <3>3, <1>2
      <4> QED BY <4>1, <3>1, <3>3, <2>2, <2>3
    <3>4. \/ Finish(j, TRUE) \/ Finish(j, FALSE)
          \/ /\ UNCHANGED status /\ paused' \subseteq Jobs
             /\ UNCHANGED notes \/ Notify(j, "job_paused") \/ Notify(j, "job_resumed")
      BY <2>5 DEF ApplyActiveJob
    <3> QED BY <3>2, <3>3, <3>4, <1>4
  <2> QED BY <1>8, <2>4, <2>5 DEF Apply, ActiveJobs
<1>9. CASE RecordStart
  <2>1. pick \in Jobs
    BY <1>9 DEF RecordStart, PickIsNext, Queue
  <2>2. printer_status' \in [Printers -> PrinterStatus]
    BY <1>9, <1>1, <1>3, <1>6 DEF RecordStart
  <2>3. notes' \in [Jobs -> Seq(NotificationType)]
    BY <1>9, <2>1, <1>2, <1>4 DEF RecordStart
  <2>4. status' \in [Jobs -> JobStatus] /\ settled' \subseteq Jobs
    BY <1>9, <2>1, <1>5 DEF RecordStart, GraceFrom
  <2> QED BY <1>9, <2>2, <2>3, <2>4 DEF RecordStart
<1>10. CASE Confirm
  <2>1. StatusOf(at).job_id \in Nat
    BY <1>6 DEF StatusOf, WorldTypeOK
  <2>2. printer_job_id' \in [Jobs -> Nat]
    BY <1>10, <2>1 DEF Confirm, PickIsKnown
  <2> QED BY <1>10, <2>2 DEF Confirm
<1>11. ASSUME NEW j \in Jobs, StoreFile(j) PROVE DbTypeOK'
  BY <1>11 DEF StoreFile, ApiTypeOK
<1>12. ASSUME NEW j \in Jobs, CommitSubmission(j) PROVE DbTypeOK'
  BY <1>12, <1>5 DEF CommitSubmission
<1>13. ASSUME NEW j \in Jobs, MarkReady(j) PROVE DbTypeOK'
  <2>1. notes' \in [Jobs -> Seq(NotificationType)]
    BY <1>13, <1>2, <1>4 DEF MarkReady
  <2> QED BY <1>13, <2>1, <1>5 DEF MarkReady
<1>14. ASSUME NEW p \in Printers, NEW s \in PrinterStatus, SetPrinterStatus(p, s)
       PROVE  DbTypeOK'
  BY <1>14 DEF SetPrinterStatus
<1>15. ASSUME NEW j \in Jobs, GraceElapses(j) PROVE DbTypeOK'
  BY <1>15 DEF GraceElapses
<1>16. CASE PollerStep
  <2>1. ASSUME ~ReadStatusFails, ~Apply, ~RecordStart, ~Confirm PROVE UNCHANGED dbVars
    BY <1>16, <2>1 DEF PollerStep, StartSweep, BeginSync, ReadStatus, Select, Upload,
       UploadRefused, UploadFails, PollerRollsBack
  <2> QED BY <1>7, <1>8, <1>9, <1>10, <2>1 DEF dbVars
<1>17. CASE HandlerStep
  <2>1. ASSUME NEW j \in Jobs, \/ SubmitCheck(j) \/ SubmitReject(j)
                               \/ CommitSubmissionFails(j) \/ RemoveFile(j)
        PROVE  UNCHANGED dbVars
    BY <2>1 DEF SubmitCheck, SubmitReject, CommitSubmissionFails, RemoveFile
  <2>2. ASSUME NEW j \in Jobs, NEW action \in {"pause", "resume"}, Send(j, action)
        PROVE  UNCHANGED dbVars
    BY <2>2 DEF Send
  <2>3. CASE Deliver
    BY <2>3 DEF Deliver, dbVars
  <2> QED BY <1>17, <1>11, <1>12, <1>13, <1>14, <2>1, <2>2, <2>3 DEF HandlerStep, dbVars
<1>18. CASE PrinterStep
  <2>1. ASSUME NEW p \in Printers,
               \/ BeginsPrinting(p) \/ FinishesPrint(p) \/ LosesPrint(p) \/ Faults(p)
               \/ PausedByHand(p) \/ ResumedByHand(p) \/ GoesBusy(p) \/ Clears(p)
               \/ StartsLocalPrint(p)
        PROVE  UNCHANGED dbVars
    BY <2>1 DEF PrinterOnly, BeginsPrinting, FinishesPrint, LosesPrint, Faults, PausedByHand,
       ResumedByHand, GoesBusy, Clears, StartsLocalPrint
  <2> QED BY <1>18, <1>15, <2>1 DEF PrinterStep, dbVars
<1>19. CASE Crash \/ UNCHANGED vars
  BY <1>19 DEF Crash, vars, dbVars
<1> QED BY <1>16, <1>17, <1>18, <1>19 DEF Next

-----------------------------------------------------------------------------
(***************************************************************************)
(* The four ways a step changes a status, each with what it needed.        *)
(***************************************************************************)
Ends(j) == status[j] = "printing" /\ \E s \in {"completed", "failed"} :
                                       status' = [status EXCEPT ![j] = s]
Starts(j) == pc = "record" /\ j = pick /\ status' = [status EXCEPT ![j] = "printing"]
Enters(j) == req[j] = "stored" /\ status' = [status EXCEPT ![j] = "queued"]
Leaves(j) == /\ status[j] = "completed"
             /\ status' = [status EXCEPT ![j] = "ready_for_collection"]

\* All the ways a job's status can change in one step of the system.
LEMMA StatusChanges ==
  ASSUME TypeOK, PickIsNext, [Next]_vars
  PROVE  /\ UNCHANGED printer_id
         /\ \/ UNCHANGED status
            \/ \E j \in Jobs : Ends(j) \/ Starts(j) \/ Enters(j) \/ Leaves(j)
<1> DEFINE Goal == /\ UNCHANGED printer_id
                   /\ \/ UNCHANGED status
                      \/ \E j \in Jobs : Ends(j) \/ Starts(j) \/ Enters(j) \/ Leaves(j)
<1>1. CASE Apply
  <2>1. UNCHANGED printer_id
    BY <1>1 DEF Apply
  <2>2. ASSUME NEW j \in ActiveJobs(at), ApplyActiveJob(j)
        PROVE  UNCHANGED status \/ Ends(j)
    BY <2>2 DEF ApplyActiveJob, Finish, Ends, ActiveJobs
  <2>3. UNCHANGED status \/ \E j \in ActiveJobs(at) : ApplyActiveJob(j)
    BY <1>1 DEF Apply
  <2> QED BY <2>1, <2>2, <2>3 DEF ActiveJobs
<1>2. CASE RecordStart
  BY <1>2 DEF RecordStart, Starts, PickIsNext, Queue
<1>3. ASSUME NEW j \in Jobs, CommitSubmission(j) PROVE Goal
  BY <1>3 DEF CommitSubmission, Handler, Enters
<1>4. ASSUME NEW j \in Jobs, MarkReady(j) PROVE Goal
  BY <1>4 DEF MarkReady, Leaves
<1>5. CASE PollerStep
  <2>1. ASSUME ~Apply, ~RecordStart PROVE UNCHANGED <<printer_id, status>>
    BY <1>5, <2>1 DEF PollerStep, StartSweep, BeginSync, ReadStatus, ReadStatusFails, Select,
       Upload, UploadRefused, UploadFails, Confirm, PollerRollsBack, dbVars
  <2> QED BY <1>1, <1>2, <2>1
<1>6. CASE HandlerStep
  <2>1. ASSUME NEW j \in Jobs, \/ SubmitCheck(j) \/ SubmitReject(j) \/ StoreFile(j)
                               \/ CommitSubmissionFails(j) \/ RemoveFile(j)
        PROVE  Goal
    BY <2>1 DEF SubmitCheck, SubmitReject, StoreFile, CommitSubmissionFails, RemoveFile, dbVars
  <2>2. ASSUME NEW j \in Jobs, NEW action \in {"pause", "resume"}, Send(j, action)
        PROVE  Goal
    BY <2>2 DEF Send, dbVars
  <2>3. CASE Deliver
    BY <2>3 DEF Deliver, dbVars
  <2>4. ASSUME NEW p \in Printers, NEW s \in PrinterStatus, SetPrinterStatus(p, s)
        PROVE  Goal
    BY <2>4 DEF SetPrinterStatus
  <2> QED BY <1>6, <1>3, <1>4, <2>1, <2>2, <2>3, <2>4 DEF HandlerStep
<1>7. ASSUME PrinterStep \/ Crash \/ UNCHANGED vars PROVE UNCHANGED <<printer_id, status>>
  BY <1>7 DEF PrinterStep, PrinterOnly, BeginsPrinting, FinishesPrint, LosesPrint, Faults,
     PausedByHand, ResumedByHand, GoesBusy, Clears, StartsLocalPrint, GraceElapses, Crash,
     vars, dbVars
<1> QED BY <1>5, <1>6, <1>7 DEF Next

\* No step puts a second print on a printer.
LEMMA BedHoldStep ==
  ASSUME IInv, [Next]_vars
  PROVE  BedHold'
<1> USE DEF IInv, TypeOK, DbTypeOK, BedHold, Holding
<1>1. UNCHANGED printer_id
  BY StatusChanges
<1>2. CASE UNCHANGED status
  BY <1>1, <1>2
<1>3. ASSUME NEW j \in Jobs, Ends(j) PROVE BedHold'
  BY <1>1, <1>3 DEF Ends
<1>4. ASSUME NEW j \in Jobs, Starts(j) PROVE BedHold'
  BY <1>1, <1>4 DEF Starts, PickIsNext, Queue
<1>5. ASSUME NEW j \in Jobs, Enters(j) PROVE BedHold'
  BY <1>1, <1>5 DEF Enters
<1>6. ASSUME NEW j \in Jobs, Leaves(j) PROVE BedHold'
  BY <1>1, <1>6 DEF Leaves
<1> QED BY <1>2, <1>3, <1>4, <1>5, <1>6, StatusChanges

\* What the poller read in Select is still so when it records the start: only
\* the poller starts a job.
LEMMA PickIsNextStep ==
  ASSUME IInv, [Next]_vars
  PROVE  PickIsNext'
<1> USE DEF IInv, TypeOK, DbTypeOK, PickIsNext, Queue, Holding
<1>1. UNCHANGED printer_id
  BY StatusChanges
<1>2. CASE PollerStep
  <2>1. CASE Select
    <3>1. SUFFICES ASSUME pc' = "upload" PROVE PickIsNext'
      BY <2>1 DEF Select, SyncReturns
    <3>2. pick' \in Queue(at) /\ Holding(at) = {} /\ at' = at
      BY <2>1, <3>1 DEF Select, SyncReturns, Oldest, BedIsClear
    <3>3. UNCHANGED <<status, printer_id>>
      BY <2>1 DEF Select, dbVars
    <3> QED BY <3>2, <3>3
  <2>2. CASE Upload
    BY <2>2 DEF Upload, dbVars
  <2>3. ASSUME ~Select, ~Upload PROVE pc' \notin {"upload", "record"}
    BY <1>2, <2>3 DEF PollerStep, StartSweep, BeginSync, ReadStatus, ReadStatusFails, Apply,
       GoSelect, UploadRefused, UploadFails, RecordStart, Confirm, PollerRollsBack, SyncReturns
  <2> QED BY <2>1, <2>2, <2>3
<1>3. CASE HandlerStep \/ PrinterStep \/ UNCHANGED vars
  <2>1. UNCHANGED <<pc, pick, at>>
    BY <1>3 DEF HandlerStep, SubmitCheck, SubmitReject, StoreFile, CommitSubmission,
       CommitSubmissionFails, MarkReady, RemoveFile, Send, Deliver, SetPrinterStatus,
       PrinterStep, PrinterOnly, BeginsPrinting, FinishesPrint, LosesPrint, Faults,
       PausedByHand, ResumedByHand, GoesBusy, Clears, StartsLocalPrint, GraceElapses,
       vars, pollVars
  <2>2. \A j \in Jobs : ~Starts(j)
    <3>1. SUFFICES ASSUME pc = "record", status' = [status EXCEPT ![pick] = "printing"]
                   PROVE  FALSE
      BY DEF Starts
    <3>2. pick \in Jobs /\ status[pick] = "queued"
      BY <3>1
    <3>3. status'[pick] = "printing"
      BY <3>1, <3>2
    <3> QED BY <1>3, <3>2, <3>3
         DEF HandlerStep, SubmitCheck, SubmitReject, StoreFile, CommitSubmission,
             CommitSubmissionFails, MarkReady, RemoveFile, Send, Deliver, SetPrinterStatus,
             PrinterStep, PrinterOnly, BeginsPrinting, FinishesPrint, LosesPrint, Faults,
             PausedByHand, ResumedByHand, GoesBusy, Clears, StartsLocalPrint, GraceElapses,
             vars, dbVars
  <2>3. CASE UNCHANGED status
    BY <1>1, <2>1, <2>3
  <2>4. ASSUME NEW j \in Jobs, Ends(j) PROVE PickIsNext'
    BY <1>1, <2>1, <2>4 DEF Ends
  <2>5. ASSUME NEW j \in Jobs, Enters(j) PROVE PickIsNext'
    BY <1>1, <2>1, <2>5 DEF Enters, RequestsAreNew
  <2>6. ASSUME NEW j \in Jobs, Leaves(j) PROVE PickIsNext'
    BY <1>1, <2>1, <2>6 DEF Leaves
  <2> QED BY <2>2, <2>3, <2>4, <2>5, <2>6, StatusChanges
<1>4. CASE Crash
  BY <1>4 DEF Crash
<1> QED BY <1>2, <1>3, <1>4 DEF Next

\* A submission in progress has no row in print_jobs until its commit.
LEMMA RequestsStep ==
  ASSUME IInv, [Next]_vars
  PROVE  RequestsAreNew'
<1> USE DEF IInv, TypeOK, DbTypeOK, ApiTypeOK, RequestsAreNew
<1>1. ASSUME NEW j \in Jobs, req'[j] \in {"validating", "stored"}
      PROVE  status[j] = "new"
  <2>1. CASE HandlerStep
    BY <1>1, <2>1 DEF HandlerStep, Handler, SubmitCheck, SubmitReject, StoreFile,
       CommitSubmission, CommitSubmissionFails, MarkReady, RemoveFile, Send, Deliver,
       SetPrinterStatus, apiVars
  <2>2. CASE Crash
    BY <1>1, <2>2 DEF Crash
  <2>3. ASSUME PollerStep \/ PrinterStep \/ UNCHANGED vars PROVE UNCHANGED req
    BY <2>3 DEF PollerStep, StartSweep, BeginSync, ReadStatus, ReadStatusFails, Apply, Select,
       Upload, UploadRefused, UploadFails, RecordStart, Confirm, PollerRollsBack,
       PrinterStep, PrinterOnly, BeginsPrinting, FinishesPrint, LosesPrint, Faults,
       PausedByHand, ResumedByHand, GoesBusy, Clears, StartsLocalPrint, GraceElapses,
       vars, apiVars
  <2> QED BY <1>1, <2>1, <2>2, <2>3 DEF Next
<1>2. CASE UNCHANGED status
  BY <1>1, <1>2
<1>3. ASSUME NEW i \in Jobs, Ends(i) \/ Leaves(i) PROVE RequestsAreNew'
  BY <1>1, <1>3 DEF Ends, Leaves
<1>4. ASSUME NEW i \in Jobs, Starts(i) PROVE RequestsAreNew'
  BY <1>1, <1>4 DEF Starts, PickIsNext, Queue
<1>5. ASSUME NEW i \in Jobs, CommitSubmission(i) PROVE RequestsAreNew'
  <2>1. req' = [req EXCEPT ![i] = "none"] /\ status' = [status EXCEPT ![i] = "queued"]
    BY <1>5 DEF CommitSubmission, Handler
  <2> QED BY <1>1, <2>1
<1>6. ASSUME NEW i \in Jobs, Enters(i) PROVE RequestsAreNew'
  <2>1. status[i] = "new" /\ status'[i] = "queued"
    BY <1>6 DEF Enters
  <2>2. CASE \E j \in Jobs : CommitSubmission(j)
    BY <1>5, <2>2
  <2>3. CASE \E j \in Jobs : MarkReady(j)
    BY <2>1, <2>3 DEF MarkReady
  <2>4. CASE Apply
    BY <2>1, <2>4 DEF Apply, ApplyActiveJob, Finish, ActiveJobs
  <2>5. CASE RecordStart
    BY <2>1, <2>5 DEF RecordStart, PickIsNext, Queue
  <2>6. ASSUME ~\E j \in Jobs : CommitSubmission(j) \/ MarkReady(j), ~Apply, ~RecordStart
        PROVE  UNCHANGED status
    BY <2>6 DEF Next, PollerStep, StartSweep, BeginSync, ReadStatus, ReadStatusFails, Select,
       Upload, UploadRefused, UploadFails, Confirm, PollerRollsBack,
       HandlerStep, SubmitCheck, SubmitReject, StoreFile, CommitSubmissionFails, RemoveFile,
       Send, Deliver, SetPrinterStatus,
       PrinterStep, PrinterOnly, BeginsPrinting, FinishesPrint, LosesPrint, Faults,
       PausedByHand, ResumedByHand, GoesBusy, Clears, StartsLocalPrint, GraceElapses,
       Crash, vars, dbVars
  <2> QED BY <1>2, <2>2, <2>3, <2>4, <2>5, <2>6
<1> QED BY <1>2, <1>3, <1>4, <1>6, StatusChanges

\* The job whose start was just recorded is a job.
LEMMA PickIsKnownStep ==
  ASSUME IInv, [Next]_vars
  PROVE  PickIsKnown'
<1> USE DEF IInv, PickIsKnown
<1>1. CASE RecordStart
  BY <1>1 DEF RecordStart, PickIsNext, Queue
<1>2. CASE PollerStep
  <2>1. ASSUME ~RecordStart PROVE pc' # "confirm"
    BY <1>2, <2>1 DEF PollerStep, StartSweep, BeginSync, ReadStatus, ReadStatusFails, Apply,
       GoSelect, Select, Upload, UploadRefused, UploadFails, Confirm, PollerRollsBack, SyncReturns
  <2> QED BY <1>1, <2>1
<1>3. ASSUME HandlerStep \/ PrinterStep \/ UNCHANGED vars PROVE UNCHANGED <<pc, pick>>
  BY <1>3 DEF HandlerStep, SubmitCheck, SubmitReject, StoreFile, CommitSubmission,
     CommitSubmissionFails, MarkReady, RemoveFile, Send, Deliver, SetPrinterStatus,
     PrinterStep, PrinterOnly, BeginsPrinting, FinishesPrint, LosesPrint, Faults,
     PausedByHand, ResumedByHand, GoesBusy, Clears, StartsLocalPrint, GraceElapses,
     vars, pollVars
<1>4. CASE Crash
  BY <1>4 DEF Crash
<1> QED BY <1>2, <1>3, <1>4 DEF Next

\* paused_at is cleared by whatever ends a print.
LEMMA PausedStep ==
  ASSUME IInv, [Next]_vars
  PROVE  PausedIsPrinting'
<1> USE DEF IInv, TypeOK, DbTypeOK, PausedIsPrinting
<1>1. CASE Apply
  <2>1. ASSUME NEW j \in ActiveJobs(at), ApplyActiveJob(j) PROVE PausedIsPrinting'
    BY <2>1 DEF ApplyActiveJob, Finish, ActiveJobs
  <2> QED BY <1>1, <2>1 DEF Apply
<1>2. CASE ~Apply
  <2>1. UNCHANGED paused
    BY <1>2 DEF Next, PollerStep, StartSweep, BeginSync, ReadStatus, ReadStatusFails, Select,
       Upload, UploadRefused, UploadFails, RecordStart, Confirm, PollerRollsBack,
       HandlerStep, SubmitCheck, SubmitReject, StoreFile, CommitSubmission,
       CommitSubmissionFails, MarkReady, RemoveFile, Send, Deliver, SetPrinterStatus,
       PrinterStep, PrinterOnly, BeginsPrinting, FinishesPrint, LosesPrint, Faults,
       PausedByHand, ResumedByHand, GoesBusy, Clears, StartsLocalPrint, GraceElapses,
       Crash, vars, dbVars
  <2>2. \A j \in Jobs : status[j] = "printing" => status'[j] = "printing"
    BY <1>2 DEF Next, PollerStep, StartSweep, BeginSync, ReadStatus, ReadStatusFails, Select,
       Upload, UploadRefused, UploadFails, RecordStart, Confirm, PollerRollsBack,
       HandlerStep, SubmitCheck, SubmitReject, StoreFile, CommitSubmission,
       CommitSubmissionFails, MarkReady, RemoveFile, Send, Deliver, SetPrinterStatus,
       PrinterStep, PrinterOnly, BeginsPrinting, FinishesPrint, LosesPrint, Faults,
       PausedByHand, ResumedByHand, GoesBusy, Clears, StartsLocalPrint, GraceElapses,
       Crash, vars, dbVars, Handler, RequestsAreNew
  <2> QED BY <2>1, <2>2
<1> QED BY <1>1, <1>2

-----------------------------------------------------------------------------
\* The farm starts in a state of the inductive invariant: no rows, idle printers.
THEOREM InitIInv == Init => IInv
<1> SUFFICES ASSUME Init PROVE IInv
  OBVIOUS
<1> USE DEF Init
<1>1. DbTypeOK
  BY DEF DbTypeOK, JobStatus, PrinterStatus
<1>2. ApiTypeOK
  BY DEF ApiTypeOK, Commands, NoCommand
<1>3. PollTypeOK
  BY DEF PollTypeOK, PrinterStatus, Snapshots, NoSnapshot, PrinterState
<1>4. WorldTypeOK
  BY StatesAreStates DEF WorldTypeOK
<1>5. BedHold /\ PickIsNext /\ PickIsKnown /\ RequestsAreNew /\ PausedIsPrinting
  BY DEF BedHold, Holding, PickIsNext, PickIsKnown, RequestsAreNew, PausedIsPrinting
<1> QED BY <1>1, <1>2, <1>3, <1>4, <1>5 DEF IInv, TypeOK

\* Every step of the poller, a handler, a printer or a crash keeps it.
LEMMA NextIInv ==
  ASSUME IInv, [Next]_vars
  PROVE  IInv'
<1>1. TypeOK'
  BY DbTypes, ApiTypes, PollTypes, WorldTypes DEF IInv, TypeOK
<1> QED BY <1>1, BedHoldStep, PickIsNextStep, PickIsKnownStep, RequestsStep, PausedStep DEF IInv

\* The inductive invariant holds of every behaviour, with any number of jobs
\* and printers and under every adversity.
THEOREM Invariant == Spec => []IInv
<1>1. IInv /\ [Next]_vars => IInv'
  BY NextIInv
<1> QED BY InitIInv, <1>1, PTL DEF Spec

\* Every variable keeps its type.
THEOREM TypeCorrect == Spec => []TypeOK
<1>1. IInv => TypeOK
  BY DEF IInv
<1> QED BY <1>1, Invariant, PTL

\* A printer never carries two prints, as far as the database knows: whatever
\* crashes, replies are lost or handlers race the one poller.
THEOREM BedHoldAlways == Spec => []BedHold
<1>1. IInv => BedHold
  BY DEF IInv
<1> QED BY <1>1, Invariant, PTL

-----------------------------------------------------------------------------
\* The farm starts as the abstract life of its jobs does.
LEMMA LifecycleInit == Init => Lifecycle!Init
BY DEF Init, Lifecycle!Init

\* Every step of the farm is a step of a job's abstract life, or none.
LEMMA LifecycleStep ==
  ASSUME IInv, [Next]_vars
  PROVE  [Lifecycle!Next]_(Lifecycle!vars)
<1> USE DEF Lifecycle!Move, Lifecycle!Tell, Notify
<1>1. CASE Apply
  <2>1. UNCHANGED printer_id
    BY <1>1 DEF Apply
  <2>2. ASSUME NEW j \in ActiveJobs(at), ApplyActiveJob(j)
        PROVE  [Lifecycle!Next]_(Lifecycle!vars)
    <3>1. j \in Jobs /\ status[j] = "printing"
      BY DEF ActiveJobs
    <3>2. CASE Finish(j, TRUE)
      <4>1. Lifecycle!End(j, "completed", "job_completed")
        BY <2>1, <3>1, <3>2 DEF Finish, Lifecycle!End
      <4> QED BY <3>1, <4>1 DEF Lifecycle!Next
    <3>3. CASE Finish(j, FALSE)
      <4>1. Lifecycle!End(j, "failed", "job_error")
        BY <2>1, <3>1, <3>3 DEF Finish, Lifecycle!End
      <4> QED BY <3>1, <4>1 DEF Lifecycle!Next
    <3>4. CASE /\ BecomesPaused(j) /\ paused' = paused \cup {j}
               /\ Notify(j, "job_paused") /\ UNCHANGED status
      <4>1. Lifecycle!Pause(j)
        BY <2>1, <3>1, <3>4 DEF BecomesPaused, Lifecycle!Pause
      <4> QED BY <3>1, <4>1 DEF Lifecycle!Next
    <3>5. CASE /\ BecomesResumed(j) /\ paused' = paused \ {j}
               /\ Notify(j, "job_resumed") /\ UNCHANGED status
      <4>1. Lifecycle!Resume(j)
        BY <2>1, <3>1, <3>5 DEF BecomesResumed, Lifecycle!Resume
      <4> QED BY <3>1, <4>1 DEF Lifecycle!Next
    <3>6. CASE UNCHANGED <<status, paused, notes>>
      BY <2>1, <3>6 DEF Lifecycle!vars
    <3> QED BY <2>2, <3>2, <3>3, <3>4, <3>5, <3>6 DEF ApplyActiveJob
  <2>3. CASE UNCHANGED <<status, paused, notes, printer_job_id>>
    BY <2>1, <2>3 DEF Lifecycle!vars
  <2> QED BY <1>1, <2>2, <2>3 DEF Apply
<1>2. CASE RecordStart
  <2>1. pick \in Queue(at) /\ Holding(at) = {}
    BY <1>2 DEF RecordStart, IInv, PickIsNext
  <2>2. pick \in Jobs /\ \A i \in Jobs : ~Lifecycle!Occupies(i, printer_id[pick])
    BY <2>1 DEF Queue, Holding, Lifecycle!Occupies
  <2>3. Lifecycle!Start(pick)
    BY <1>2, <2>1, <2>2 DEF RecordStart, Queue, Lifecycle!Start
  <2> QED BY <2>2, <2>3 DEF Lifecycle!Next
<1>3. ASSUME NEW j \in Jobs, CommitSubmission(j) PROVE Lifecycle!Next
  BY <1>3 DEF CommitSubmission, Handler, IInv, RequestsAreNew, Lifecycle!Submit, Lifecycle!Next
<1>4. ASSUME NEW j \in Jobs, MarkReady(j) PROVE Lifecycle!Next
  BY <1>4 DEF MarkReady, Lifecycle!Collect, Lifecycle!Next
<1>5. ASSUME ~\E j \in Jobs : CommitSubmission(j) \/ MarkReady(j), ~Apply, ~RecordStart
      PROVE  UNCHANGED <<status, printer_id, paused, notes>>
  BY <1>5 DEF Next, PollerStep, StartSweep, BeginSync, ReadStatus, ReadStatusFails, Select,
     Upload, UploadRefused, UploadFails, Confirm, PollerRollsBack,
     HandlerStep, SubmitCheck, SubmitReject, StoreFile, CommitSubmissionFails, RemoveFile,
     Send, Deliver, SetPrinterStatus,
     PrinterStep, PrinterOnly, BeginsPrinting, FinishesPrint, LosesPrint, Faults,
     PausedByHand, ResumedByHand, GoesBusy, Clears, StartsLocalPrint, GraceElapses,
     Crash, vars, dbVars
<1> QED BY <1>1, <1>2, <1>3, <1>4, <1>5 DEF Lifecycle!vars

\* The poller, the handlers, the printers and the crashes together implement the
\* life of a job that JobLifecycle specifies.
THEOREM Implements == Spec => ImplementsLifecycle
<1>1. IInv /\ [Next]_vars => [Lifecycle!Next]_(Lifecycle!vars)
  BY LifecycleStep
<1> QED BY LifecycleInit, Invariant, <1>1, PTL DEF Spec, ImplementsLifecycle, Lifecycle!Spec

-----------------------------------------------------------------------------
\* A handler's step keeps the files it has stored, and removes one only of a
\* job that is ready or never got its row.
LEMMA HandlerKeepsFiles ==
  ASSUME IInv, FileKeptUntilRemoval, RequestsKeepFiles, HandlerStep
  PROVE  (FileKeptUntilRemoval /\ RequestsKeepFiles)'
<1> DEFINE Goal == (FileKeptUntilRemoval /\ RequestsKeepFiles)'
<1> USE DEF FileKeptUntilRemoval, RequestsKeepFiles
<1>0. /\ status \in [Jobs -> JobStatus] /\ files \subseteq Jobs
      /\ req \in [Jobs -> {"none", "validating", "stored", "unlinking", "aborted"}]
      /\ \A j \in Jobs : req[j] \in {"validating", "stored"} => status[j] = "new"
  BY DEF IInv, TypeOK, DbTypeOK, ApiTypeOK, RequestsAreNew
<1>1. ASSUME NEW j \in Jobs, SubmitCheck(j) \/ SubmitReject(j) PROVE Goal
  BY <1>0, <1>1 DEF SubmitCheck, SubmitReject, Handler, dbVars
<1>2. ASSUME NEW j \in Jobs, StoreFile(j) PROVE Goal
  BY <1>0, <1>2 DEF StoreFile, Handler
<1>3. ASSUME NEW j \in Jobs, CommitSubmission(j) PROVE Goal
  BY <1>0, <1>3 DEF CommitSubmission, Handler
<1>4. ASSUME NEW j \in Jobs, CommitSubmissionFails(j) PROVE Goal
  <2>1. /\ req[j] = "stored" /\ req' = [req EXCEPT ![j] = "aborted"]
        /\ files' = files \ {j} /\ status' = status
    BY <1>4 DEF CommitSubmissionFails, Handler, dbVars
  <2>2. status[j] = "new"
    BY <1>0, <2>1
  <2> QED BY <1>0, <2>1, <2>2
<1>5. ASSUME NEW j \in Jobs, MarkReady(j) PROVE Goal
  BY <1>0, <1>5 DEF MarkReady, Handler
<1>6. ASSUME NEW j \in Jobs, RemoveFile(j) PROVE Goal
  <2>1. /\ req[j] = "unlinking" /\ req' = [req EXCEPT ![j] = "none"]
        /\ files' = files \/ files' = files \ {j}
        /\ status' = status
    BY <1>6 DEF RemoveFile, Handler, dbVars
  <2>2. status[j] = "ready_for_collection"
    BY <2>1
  <2> QED BY <1>0, <2>1, <2>2
<1>7. ASSUME UNCHANGED <<status, files, req>> PROVE Goal
  BY <1>7
<1>8. ASSUME NEW j \in Jobs, NEW action \in {"pause", "resume"}, Send(j, action) PROVE Goal
  BY <1>7, <1>8 DEF Send, dbVars
<1>9. CASE Deliver
  BY <1>7, <1>9 DEF Deliver, dbVars
<1>10. ASSUME NEW p \in Printers, NEW s \in PrinterStatus, SetPrinterStatus(p, s) PROVE Goal
  BY <1>7, <1>10 DEF SetPrinterStatus, apiVars
<1> QED BY <1>1, <1>2, <1>3, <1>4, <1>5, <1>6, <1>8, <1>9, <1>10 DEF HandlerStep

\* No other step touches the files.
LEMMA FilesStep ==
  ASSUME IInv, FileKeptUntilRemoval, RequestsKeepFiles, [Next]_vars
  PROVE  (FileKeptUntilRemoval /\ RequestsKeepFiles)'
<1> USE DEF FileKeptUntilRemoval, RequestsKeepFiles
<1>1. ASSUME PollerStep \/ PrinterStep \/ UNCHANGED vars PROVE UNCHANGED <<files, req>>
  BY <1>1 DEF PollerStep, StartSweep, BeginSync, ReadStatus, ReadStatusFails, Apply, Select,
     Upload, UploadRefused, UploadFails, RecordStart, Confirm, PollerRollsBack,
     PrinterStep, PrinterOnly, BeginsPrinting, FinishesPrint, LosesPrint, Faults,
     PausedByHand, ResumedByHand, GoesBusy, Clears, StartsLocalPrint, GraceElapses,
     vars, apiVars
<1>2. ASSUME UNCHANGED <<files, req>> PROVE (FileKeptUntilRemoval /\ RequestsKeepFiles)'
  <2>1. status \in [Jobs -> JobStatus] /\ (pc = "record" => status[pick] = "queued")
    BY DEF IInv, TypeOK, DbTypeOK, PickIsNext, Queue
  <2>2. CASE UNCHANGED status
    BY <1>2, <2>2
  <2>3. ASSUME NEW i \in Jobs, Ends(i) \/ Starts(i) \/ Enters(i) \/ Leaves(i)
        PROVE  (FileKeptUntilRemoval /\ RequestsKeepFiles)'
    BY <1>2, <2>1, <2>3 DEF Ends, Starts, Enters, Leaves
  <2> QED BY <2>2, <2>3, StatusChanges DEF IInv
<1>3. CASE Crash
  BY <1>3 DEF Crash, dbVars
<1> QED BY <1>1, <1>2, <1>3, HandlerKeepsFiles DEF Next

\* A job's file is kept for as long as it may be printed or printed again,
\* whatever crashes, fails to commit or cannot be removed.
THEOREM FileKept == Spec => []FileKeptUntilRemoval
<1> DEFINE FInv == FileKeptUntilRemoval /\ RequestsKeepFiles
<1>1. Init => FInv
  BY DEF Init, FileKeptUntilRemoval, RequestsKeepFiles
<1>2. IInv /\ FInv /\ [Next]_vars => FInv'
  BY FilesStep
<1>3. FInv => FileKeptUntilRemoval
  OBVIOUS
<1> QED BY <1>1, <1>2, <1>3, Invariant, PTL DEF Spec
-----------------------------------------------------------------------------
\* A story goes on when what is told may follow what was told last.
Story(s) ==
  /\ s # <<>> /\ s[1] = "job_started"
  /\ \A i \in 1 .. Len(s) - 1 : <<s[i], s[i + 1]>> \in Follows

LEMMA StoryGoesOn ==
  ASSUME NEW s \in Seq(NotificationType), Story(s), NEW kind \in NotificationType,
         <<s[Len(s)], kind>> \in Follows
  PROVE  Story(Append(s, kind)) /\ Append(s, kind)[Len(Append(s, kind))] = kind
<1> DEFINE t == Append(s, kind)
<1>1. /\ t # <<>> /\ Len(t) = Len(s) + 1 /\ t[Len(t)] = kind
      /\ Len(s) \in Nat \ {0} /\ \A i \in 1 .. Len(s) : t[i] = s[i]
  BY DEF Story
<1>2. t[1] = "job_started"
  BY <1>1 DEF Story
<1> HIDE DEF t
<1>3. ASSUME NEW i \in 1 .. Len(t) - 1 PROVE <<t[i], t[i + 1]>> \in Follows
  <2>1. CASE i = Len(s)
    BY <1>1, <2>1
  <2>2. CASE i # Len(s)
    <3>1. i \in 1 .. Len(s) - 1 /\ i + 1 \in 1 .. Len(s)
      BY <1>1, <2>2
    <3> QED BY <1>1, <3>1 DEF Story
  <2> QED BY <2>1, <2>2
<1>4. Story(t) /\ t[Len(t)] = kind
  BY <1>1, <1>2, <1>3 DEF Story
<1> QED BY <1>4 DEF t

LEMMA StoryBegins ==
  Story(Append(<<>>, "job_started"))
    /\ Append(<<>>, "job_started")[Len(Append(<<>>, "job_started"))] = "job_started"
BY DEF Story

\* What NotificationsTellTheStory says of one job.
Told(j) ==
  IF status[j] \in {"new", "queued"} THEN notes[j] = <<>>
  ELSE Story(notes[j]) /\ notes[j][Len(notes[j])] \in LastNotes(j)

LEMMA TellsOn ==
  ASSUME IInv, NEW j \in Jobs, Story(notes[j]), NEW kind \in NotificationType,
         <<notes[j][Len(notes[j])], kind>> \in Follows, Lifecycle!Tell(j, kind),
         status'[j] \notin {"new", "queued"}, kind \in LastNotes(j)'
  PROVE  Told(j)'
<1>1. notes \in [Jobs -> Seq(NotificationType)]
  BY DEF IInv, TypeOK, DbTypeOK
<1>2. notes[j] \in Seq(NotificationType) /\ notes'[j] = Append(notes[j], kind)
  BY <1>1 DEF Lifecycle!Tell
<1>3. Story(notes'[j]) /\ notes'[j][Len(notes'[j])] = kind
  BY <1>2, StoryGoesOn
<1> QED BY <1>3 DEF Told

\* A step of a job's life keeps the story of every job.
LEMMA StoryStep ==
  ASSUME IInv, NotificationsTellTheStory, [Lifecycle!Next]_(Lifecycle!vars)
  PROVE  NotificationsTellTheStory'
<1> SUFFICES ASSUME NEW k \in Jobs PROVE Told(k)'
  BY DEF NotificationsTellTheStory, Told, Story
<1>0. Told(k)
  BY DEF NotificationsTellTheStory, Told, Story
<1>1. /\ status \in [Jobs -> JobStatus] /\ notes \in [Jobs -> Seq(NotificationType)]
      /\ \A j \in paused : status[j] = "printing"
  BY DEF IInv, TypeOK, DbTypeOK, PausedIsPrinting
<1>2. ASSUME status'[k] = status[k], notes'[k] = notes[k], k \in paused' <=> k \in paused
      PROVE  Told(k)'
  BY <1>0, <1>2 DEF Told, LastNotes
<1>3. ASSUME NEW j \in Jobs, Lifecycle!Submit(j) PROVE Told(k)'
  BY <1>0, <1>1, <1>3 DEF Lifecycle!Submit, Lifecycle!Move, Told, LastNotes
<1>4. ASSUME NEW j \in Jobs, Lifecycle!Start(j) PROVE Told(k)'
  <2>1. CASE k = j
    <3>1. notes[j] = <<>> /\ notes'[j] = Append(<<>>, "job_started")
      BY <1>0, <1>1, <1>4, <2>1 DEF Lifecycle!Start, Lifecycle!Move, Lifecycle!Tell, Told
    <3>2. status'[j] = "printing" /\ j \notin paused'
      BY <1>1, <1>4 DEF Lifecycle!Start, Lifecycle!Move
    <3>3. LastNotes(j)' = {"job_started", "job_resumed"}
      BY <3>2 DEF LastNotes
    <3> QED BY <2>1, <3>1, <3>2, <3>3, StoryBegins DEF Told
  <2>2. CASE k # j
    BY <1>1, <1>2, <1>4, <2>2 DEF Lifecycle!Start, Lifecycle!Move, Lifecycle!Tell
  <2> QED BY <2>1, <2>2
<1>5. ASSUME NEW j \in Jobs, Lifecycle!Pause(j) PROVE Told(k)'
  <2>1. CASE k = j
    <3>1. Story(notes[j]) /\ notes[j][Len(notes[j])] \in {"job_started", "job_resumed"}
      BY <1>0, <1>5, <2>1 DEF Lifecycle!Pause, Told, LastNotes
    <3>2. <<notes[j][Len(notes[j])], "job_paused">> \in Follows
      BY <3>1 DEF Follows
    <3>3. LastNotes(j)' = {"job_paused"} /\ status'[j] = "printing"
      BY <1>5 DEF Lifecycle!Pause, LastNotes
    <3> QED BY <1>5, <2>1, <3>1, <3>2, <3>3, TellsOn DEF Lifecycle!Pause, NotificationType
  <2>2. CASE k # j
    BY <1>1, <1>2, <1>5, <2>2 DEF Lifecycle!Pause, Lifecycle!Tell
  <2> QED BY <2>1, <2>2
<1>6. ASSUME NEW j \in Jobs, Lifecycle!Resume(j) PROVE Told(k)'
  <2>1. CASE k = j
    <3>1. Story(notes[j]) /\ notes[j][Len(notes[j])] = "job_paused" /\ status[j] = "printing"
      BY <1>0, <1>1, <1>6, <2>1 DEF Lifecycle!Resume, Told, LastNotes
    <3>2. <<notes[j][Len(notes[j])], "job_resumed">> \in Follows
      BY <3>1 DEF Follows
    <3>3. LastNotes(j)' = {"job_started", "job_resumed"} /\ status'[j] = "printing"
      BY <1>6, <3>1 DEF Lifecycle!Resume, LastNotes
    <3> QED BY <1>6, <2>1, <3>1, <3>2, <3>3, TellsOn DEF Lifecycle!Resume, NotificationType
  <2>2. CASE k # j
    BY <1>1, <1>2, <1>6, <2>2 DEF Lifecycle!Resume, Lifecycle!Tell
  <2> QED BY <2>1, <2>2
<1>7. ASSUME NEW j \in Jobs, NEW outcome, NEW kind, Lifecycle!End(j, outcome, kind),
             <<outcome, kind>> \in {<<"completed", "job_completed">>, <<"failed", "job_error">>}
      PROVE  Told(k)'
  <2>1. CASE k = j
    <3>1. Story(notes[j])
          /\ notes[j][Len(notes[j])] \in {"job_started", "job_resumed", "job_paused"}
      BY <1>0, <1>7, <2>1 DEF Lifecycle!End, Lifecycle!Move, Told, LastNotes
    <3>2. <<notes[j][Len(notes[j])], kind>> \in Follows
      BY <1>7, <3>1 DEF Follows
    <3>3. status'[j] = outcome
      BY <1>1, <1>7 DEF Lifecycle!End, Lifecycle!Move
    <3>4. LastNotes(j)' = {kind} /\ status'[j] \notin {"new", "queued"}
      BY <1>7, <3>3 DEF LastNotes
    <3>5. Lifecycle!Tell(j, kind) /\ kind \in NotificationType
      BY <1>7 DEF Lifecycle!End, NotificationType
    <3> QED BY <2>1, <3>1, <3>2, <3>4, <3>5, TellsOn
  <2>2. CASE k # j
    BY <1>1, <1>2, <1>7, <2>2 DEF Lifecycle!End, Lifecycle!Move, Lifecycle!Tell
  <2> QED BY <2>1, <2>2
<1>8. ASSUME NEW j \in Jobs, Lifecycle!Collect(j) PROVE Told(k)'
  <2>1. CASE k = j
    <3>1. Story(notes[j]) /\ notes[j][Len(notes[j])] = "job_completed"
      BY <1>0, <1>8, <2>1 DEF Lifecycle!Collect, Lifecycle!Move, Told, LastNotes
    <3>2. <<notes[j][Len(notes[j])], "ready_for_collection">> \in Follows
      BY <3>1 DEF Follows
    <3>3. status'[j] = "ready_for_collection"
      BY <1>1, <1>8 DEF Lifecycle!Collect, Lifecycle!Move
    <3>4. LastNotes(j)' = {"ready_for_collection"}
      BY <3>3 DEF LastNotes
    <3> QED BY <1>8, <2>1, <3>1, <3>2, <3>3, <3>4, TellsOn DEF Lifecycle!Collect, NotificationType
  <2>2. CASE k # j
    BY <1>1, <1>2, <1>8, <2>2 DEF Lifecycle!Collect, Lifecycle!Move, Lifecycle!Tell
  <2> QED BY <2>1, <2>2
<1>9. CASE UNCHANGED Lifecycle!vars
  BY <1>2, <1>9 DEF Lifecycle!vars
<1> QED BY <1>3, <1>4, <1>5, <1>6, <1>7, <1>8, <1>9 DEF Lifecycle!Next

\* What an owner is told of a job is a story that can happen, in order, and its
\* last word is the job's status: under every adversity, crashes included.
THEOREM StoryAlways == Spec => []NotificationsTellTheStory
<1>1. ASSUME Init PROVE NotificationsTellTheStory
  <2>1. \A j \in Jobs : status[j] = "new" /\ notes[j] = <<>>
    BY <1>1 DEF Init
  <2> QED BY <2>1 DEF NotificationsTellTheStory
<1>2. IInv /\ NotificationsTellTheStory /\ [Next]_vars => NotificationsTellTheStory'
  BY LifecycleStep, StoryStep
<1> QED BY <1>1, <1>2, Invariant, PTL DEF Spec

-------------------------------------------------------------------------------
(***************************************************************************)
(* Theorems about the printers themselves: if the backend neither crashes, *)
(* nor loses a reply, nor uploads for longer than the grace, and nobody    *)
(* prints behind its back, then what the database says is what happened,   *)
(* for any sets of jobs and printers and any number of faults, late        *)
(* commands, unreachable printers and edits by an administrator.           *)
(*                                                                         *)
(* BackendSteps and PrinterMoves say all that the proofs need of the       *)
(* actions; each conjunct of Agreement then has a lemma of its own.        *)
(***************************************************************************)

\* None of the adversities that blind the backend happens.
Calm == Adversities \cap Blinding = {}

Backend(j) == CommitSubmission(j) \/ MarkReady(j)

\* Steps other than these few leave the jobs' statuses and the poller's record
\* of a started job as they are.
LEMMA BackendSteps ==
  ASSUME Calm, [Next]_vars, ~Upload, ~RecordStart, ~Apply, \A j \in Jobs : ~Backend(j)
  PROVE  /\ UNCHANGED <<status, printer_id, runs>>
         /\ pc = "record" <=> pc' = "record"
         /\ pc = "record" => UNCHANGED <<pick, at, late>>
<1>1. Adversities \cap {"crash", "lost reply"} = {}
  BY DEF Calm, Blinding
<1>2. CASE PollerStep
  BY <1>1, <1>2 DEF PollerStep, StartSweep, BeginSync, ReadStatus, ReadStatusFails, Select,
     UploadRefused, UploadFails, Confirm, PollerRollsBack, SyncReturns, dbVars, worldVars
<1>3. CASE HandlerStep
  BY <1>3 DEF HandlerStep, Backend, SubmitCheck, SubmitReject, StoreFile,
     CommitSubmissionFails, RemoveFile, Send, Deliver, SetPrinterStatus,
     dbVars, worldVars, pollVars
<1>4. CASE PrinterStep
  BY <1>4 DEF PrinterStep, PrinterOnly, BeginsPrinting, FinishesPrint, LosesPrint, Faults,
     PausedByHand, ResumedByHand, GoesBusy, Clears, StartsLocalPrint, GraceElapses,
     dbVars, worldVars, pollVars
<1>5. CASE Crash
  BY <1>1, <1>5 DEF Crash
<1>6. CASE UNCHANGED vars
  BY <1>6 DEF vars, dbVars, worldVars, pollVars
<1> QED BY <1>2, <1>3, <1>4, <1>5, <1>6 DEF Next

\* What can happen to a printer in a step that uploads nothing.
Moves(p) ==
  \/ running'[p] = running[p] /\ reported'[p] = reported[p]
  \/ running'[p] = running[p] /\ running[p] # NoJob /\ reported'[p] \in ACTIVE \cup FAULT
  \/ running'[p] = NoJob /\ running[p] # NoJob /\ (running[p] \in Jobs => running[p] \in printed')
  \/ running'[p] = NoJob /\ reported'[p] # "FINISHED"

\* A step that uploads nothing starts nothing: a printer keeps its job, reports
\* it, or ends it; and a job has printed only where a printer ran it.
LEMMA PrinterMoves ==
  ASSUME Calm, TypeOK, [Next]_vars, ~Upload
  PROVE  /\ \A p \in Printers : Moves(p)
         /\ printed \subseteq printed'
         /\ \A j \in printed' : j \in printed \/ \E p \in Printers : running[p] = j
<1> USE DEF TypeOK, WorldTypeOK, Moves
<1>1. Adversities \cap {"crash", "lost reply", "local print"} = {}
  BY DEF Calm, Blinding
<1>2. CASE UNCHANGED <<running, reported, printed>>
  BY <1>2
<1>3. CASE Deliver
  <2>1. UNCHANGED <<running, printed>>
    BY <1>3 DEF Deliver
  <2>2. ASSUME NEW p \in Printers PROVE Moves(p)
    BY <1>3, <2>1, <2>2 DEF Deliver, Names, ACTIVE
  <2> QED BY <2>1, <2>2
<1>4. ASSUME NEW p \in Printers,
             BeginsPrinting(p) \/ PausedByHand(p) \/ ResumedByHand(p)
      PROVE  /\ \A q \in Printers : Moves(q)
             /\ UNCHANGED printed
  BY <1>4 DEF BeginsPrinting, PausedByHand, ResumedByHand, Report, ACTIVE
<1>5. ASSUME NEW p \in Printers, FinishesPrint(p)
      PROVE  /\ \A q \in Printers : Moves(q)
             /\ printed \subseteq printed'
             /\ \A j \in printed' : j \in printed \/ \E q \in Printers : running[q] = j
  BY <1>5 DEF FinishesPrint, Report
<1>6. ASSUME NEW p \in Printers, LosesPrint(p) \/ GoesBusy(p) \/ Clears(p)
      PROVE  /\ \A q \in Printers : Moves(q)
             /\ UNCHANGED printed
  BY <1>6 DEF LosesPrint, GoesBusy, Clears, Report, FAULT
<1>7. ASSUME NEW p \in Printers, Faults(p)
      PROVE  /\ \A q \in Printers : Moves(q)
             /\ UNCHANGED printed
  BY <1>7 DEF Faults, Report, FAULT
<1>8. CASE PollerStep
  BY <1>1, <1>2, <1>8 DEF PollerStep, StartSweep, BeginSync, ReadStatus, ReadStatusFails,
     Apply, Select, UploadRefused, UploadFails, RecordStart, Confirm, PollerRollsBack, worldVars
<1>9. CASE HandlerStep
  BY <1>2, <1>3, <1>9 DEF HandlerStep, SubmitCheck, SubmitReject, StoreFile, CommitSubmission,
     CommitSubmissionFails, MarkReady, RemoveFile, Send, SetPrinterStatus, worldVars
<1>10. CASE PrinterStep
  <2>1. ASSUME NEW j \in Jobs, GraceElapses(j) PROVE UNCHANGED <<running, reported, printed>>
    BY <2>1 DEF GraceElapses, worldVars
  <2>2. \A p \in Printers : ~StartsLocalPrint(p)
    BY <1>1 DEF StartsLocalPrint
  <2> QED BY <1>2, <1>4, <1>5, <1>6, <1>7, <1>10, <2>1, <2>2 DEF PrinterStep
<1>11. CASE Crash \/ UNCHANGED vars
  BY <1>2, <1>11 DEF Crash, vars, worldVars
<1> QED BY <1>8, <1>9, <1>10, <1>11 DEF Next

-----------------------------------------------------------------------------
\* The job in the poller's hands is queued for the printer it is at, and that
\* printer holds nothing.
LEMMA PickFacts ==
  ASSUME IInv, pc \in {"upload", "record"}
  PROVE  /\ pick \in Jobs /\ at \in Printers
         /\ status[pick] = "queued" /\ printer_id[pick] = at
         /\ \A j \in Jobs : status[j] = "printing" => printer_id[j] # at
BY DEF IInv, TypeOK, PollTypeOK, PickIsNext, Queue, Holding

\* What an upload changes.
LEMMA UploadFacts ==
  ASSUME IInv, Calm, Upload
  PROVE  /\ running[at] = NoJob
         /\ running' = [running EXCEPT ![at] = pick]
         /\ runs' = [runs EXCEPT ![pick] = @ + 1]
         /\ \A p \in Printers : p # at => reported'[p] = reported[p]
         /\ pc = "upload" /\ pc' = "record" /\ late' = FALSE
         /\ UNCHANGED <<status, printer_id, settled, printed, pick, at>>
<1>1. "slow upload" \notin Adversities
  BY DEF Calm, Blinding
<1>2. at \in Printers /\ reported \in [Printers -> PrinterState]
  BY DEF IInv, TypeOK, PollTypeOK, WorldTypeOK
<1> QED BY <1>1, <1>2 DEF Upload, Accepts, dbVars

\* An active job changes only from printing to one of its two ends.
LEMMA ApplyFacts ==
  ASSUME IInv, Apply
  PROVE  /\ UNCHANGED <<printer_id, settled, runs, running, reported, printed, at>>
         /\ pc = "apply" /\ pc' \in {"idle", "select"}
         /\ \A j \in Jobs :
              \/ status'[j] = status[j]
              \/ status[j] = "printing" /\ status'[j] = "failed"
              \/ /\ status[j] = "printing" /\ status'[j] = "completed"
                 /\ j \in ActiveJobs(at) /\ EndsWell(j)
<1>1. status \in [Jobs -> JobStatus]
  BY DEF IInv, TypeOK, DbTypeOK
<1>2. ASSUME NEW i \in ActiveJobs(at), ApplyActiveJob(i), NEW j \in Jobs
      PROVE  \/ status'[j] = status[j]
             \/ status[j] = "printing" /\ status'[j] = "failed"
             \/ /\ status[j] = "printing" /\ status'[j] = "completed"
                /\ j \in ActiveJobs(at) /\ EndsWell(j)
  BY <1>1, <1>2 DEF ApplyActiveJob, Finish, ActiveJobs
<1>3. UNCHANGED <<printer_id, settled, runs, running, reported, printed, at>>
  BY DEF Apply, worldVars, GoSelect, SyncReturns
<1>4. pc = "apply" /\ pc' \in {"idle", "select"}
  BY DEF Apply, GoSelect, SyncReturns
<1> QED BY <1>2, <1>3, <1>4 DEF Apply

\* What the record of a start changes.
LEMMA RecordFacts ==
  ASSUME IInv, RecordStart
  PROVE  /\ status' = [status EXCEPT ![pick] = "printing"]
         /\ pc = "record" /\ pc' = "confirm"
         /\ settled' = IF late THEN settled \cup {pick} ELSE settled \ {pick}
         /\ UNCHANGED <<printer_id, runs, running, reported, printed, pick, at>>
BY DEF RecordStart, GraceFrom, worldVars

\* What a commit of a handler changes: a new job is queued, a completed one
\* is handed over.
LEMMA BackendFacts ==
  ASSUME IInv, NEW j \in Jobs, Backend(j)
  PROVE  /\ \/ status[j] = "new" /\ status' = [status EXCEPT ![j] = "queued"]
            \/ status[j] = "completed" /\ status' = [status EXCEPT ![j] = "ready_for_collection"]
         /\ UNCHANGED <<printer_id, settled, runs, running, reported, printed>>
         /\ UNCHANGED <<pc, old, snap, pick, at, late>>
BY DEF IInv, RequestsAreNew, Backend, CommitSubmission, MarkReady, Handler, worldVars, pollVars

\* A grace is over only when it has elapsed, or when the start is recorded late.
LEMMA SettledSteps ==
  ASSUME [Next]_vars, ~RecordStart
  PROVE  UNCHANGED settled \/ \E j \in Jobs : GraceElapses(j)
<1>1. CASE PollerStep
  BY <1>1 DEF PollerStep, StartSweep, BeginSync, ReadStatus, ReadStatusFails, Apply, Select,
     Upload, UploadRefused, UploadFails, Confirm, PollerRollsBack, dbVars
<1>2. CASE HandlerStep
  BY <1>2 DEF HandlerStep, SubmitCheck, SubmitReject, StoreFile, CommitSubmission,
     CommitSubmissionFails, MarkReady, RemoveFile, Send, Deliver, SetPrinterStatus, dbVars
<1>3. CASE PrinterStep
  BY <1>3 DEF PrinterStep, PrinterOnly, BeginsPrinting, FinishesPrint, LosesPrint, Faults,
     PausedByHand, ResumedByHand, GoesBusy, Clears, StartsLocalPrint, dbVars
<1>4. CASE Crash \/ UNCHANGED vars
  BY <1>4 DEF Crash, vars, dbVars
<1> QED BY <1>1, <1>2, <1>3, <1>4 DEF Next

\* What the poller holds of a reading: it keeps it from ReadStatus to Apply.
LEMMA ReadingSteps ==
  ASSUME [Next]_vars, pc' \in {"status", "apply"}
  PROVE  \/ pc = "idle" /\ pc' = "status" /\ old' = settled
         \/ /\ pc = "status" /\ pc' = "apply" /\ snap'.state = reported[at]
            /\ UNCHANGED <<old, at, status, printer_id, running, printed, settled>>
         \/ UNCHANGED <<pc, old, snap, at>>
<1>1. CASE PollerStep
  <2>1. CASE ReadStatus
    <3>1. snap'.state = reported[at]
      BY <2>1 DEF ReadStatus, StatusOf
    <3> QED BY <2>1, <3>1 DEF ReadStatus, dbVars, worldVars
  <2>2. ASSUME NEW p \in Printers, BeginSync(p)
        PROVE  pc = "idle" /\ pc' = "status" /\ old' = settled
    BY <2>2 DEF BeginSync
  <2>3. CASE ~ReadStatus /\ \A p \in Printers : ~BeginSync(p)
    BY <1>1, <2>3 DEF PollerStep, StartSweep, ReadStatusFails, Apply, Select, Upload,
       UploadRefused, UploadFails, RecordStart, Confirm, PollerRollsBack, GoSelect, SyncReturns
  <2> QED BY <1>1, <2>1, <2>2, <2>3 DEF PollerStep
<1>2. CASE HandlerStep
  BY <1>2 DEF HandlerStep, SubmitCheck, SubmitReject, StoreFile, CommitSubmission,
     CommitSubmissionFails, MarkReady, RemoveFile, Send, Deliver, SetPrinterStatus, pollVars
<1>3. CASE PrinterStep
  BY <1>3 DEF PrinterStep, PrinterOnly, BeginsPrinting, FinishesPrint, LosesPrint, Faults,
     PausedByHand, ResumedByHand, GoesBusy, Clears, StartsLocalPrint, GraceElapses, pollVars
<1>4. CASE Crash \/ UNCHANGED vars
  BY <1>4 DEF Crash, vars, pollVars
<1> QED BY <1>1, <1>2, <1>3, <1>4 DEF Next

-----------------------------------------------------------------------------
\* A job is sent to a printer exactly once: it leaves the queue with it.
LEMMA StartedOnceStep ==
  ASSUME IInv, Calm, StartedOnce, [Next]_vars
  PROVE  StartedOnce'
<1> USE DEF StartedOnce, Recording
<1>0. runs \in [Jobs -> Nat] /\ status \in [Jobs -> JobStatus]
  BY DEF IInv, TypeOK, WorldTypeOK, DbTypeOK
<1>1. CASE Upload
  <2>1. runs[pick] = 0
    BY <1>1, UploadFacts, PickFacts
  <2> QED BY <1>0, <1>1, <2>1, UploadFacts, PickFacts
<1>2. CASE RecordStart
  BY <1>0, <1>2, RecordFacts, PickFacts
<1>3. CASE Apply
  BY <1>0, <1>3, ApplyFacts
<1>4. ASSUME NEW j \in Jobs, Backend(j) PROVE StartedOnce'
  BY <1>0, <1>4, BackendFacts
<1>5. CASE ~Upload /\ ~RecordStart /\ ~Apply /\ \A j \in Jobs : ~Backend(j)
  BY <1>5, BackendSteps
<1> QED BY <1>1, <1>2, <1>3, <1>4, <1>5

\* What has printed was sent.
LEMMA PrintedWasStartedStep ==
  ASSUME IInv, Calm, Agreement, [Next]_vars
  PROVE  PrintedWasStarted'
<1>0. runs \in [Jobs -> Nat] /\ printed \subseteq Jobs /\ TypeOK
  BY DEF IInv, TypeOK, WorldTypeOK
<1>1. CASE Upload
  <2>1. runs[pick] = 0
    BY <1>1, UploadFacts, PickFacts DEF Agreement, StartedOnce, Recording
  <2>2. pick \notin printed
    BY <2>1 DEF Agreement, PrintedWasStarted
  <2> QED BY <1>0, <1>1, <2>2, UploadFacts DEF Agreement, PrintedWasStarted
<1>2. CASE ~Upload
  <2>1. UNCHANGED runs
    BY <1>2, ApplyFacts, RecordFacts, BackendFacts, BackendSteps
  <2>2. ASSUME NEW p \in Printers, NEW j \in Jobs, running[p] = j PROVE runs[j] = 1
    BY <2>2 DEF Agreement, RunningIsKnown, StartedOnce, Recording
  <2>3. printed' \subseteq Jobs
    BY NextIInv DEF IInv, TypeOK, WorldTypeOK
  <2> QED BY <1>0, <1>2, <2>1, <2>2, <2>3, PrinterMoves DEF Agreement, PrintedWasStarted
<1> QED BY <1>1, <1>2

\* A printer runs what the database knows it to run.
LEMMA RunningIsKnownStep ==
  ASSUME IInv, Calm, Agreement, [Next]_vars
  PROVE  RunningIsKnown'
<1> USE DEF RunningIsKnown
<1>0. running \in [Printers -> Jobs \cup {NoJob, LocalPrint}] /\ TypeOK /\ NoJob \notin Jobs
  BY JobsAssumption DEF IInv, TypeOK, WorldTypeOK
<1>a. RunningIsKnown /\ status \in [Jobs -> JobStatus]
  BY DEF Agreement, IInv, TypeOK, DbTypeOK
<1>b. ~Upload => \A p \in Printers, j \in Jobs : running'[p] = j => running[p] = j
  BY <1>0, PrinterMoves DEF Moves
<1>1. CASE Upload
  BY <1>0, <1>a, <1>1, UploadFacts, PickFacts
<1>2. CASE RecordStart
  BY <1>a, <1>2, RecordFacts, PickFacts
<1>3. CASE Apply
  <2>1. \A j \in Jobs : j \in ActiveJobs(at) /\ EndsWell(j) => running[at] # j
    BY <1>3, ApplyFacts DEF Agreement, ReadingIsItsOwn, EndsWell
  <2> QED BY <1>a, <1>3, <2>1, ApplyFacts DEF ActiveJobs
<1>4. ASSUME NEW j \in Jobs, Backend(j) PROVE RunningIsKnown'
  BY <1>a, <1>b, <1>4, BackendFacts, PickFacts
<1>5. CASE ~Upload /\ ~RecordStart /\ ~Apply /\ \A j \in Jobs : ~Backend(j)
  BY <1>a, <1>b, <1>5, BackendSteps
<1> QED BY <1>1, <1>2, <1>3, <1>4, <1>5

\* While a job is printing in the database its printer runs it, or nothing.
LEMMA RunsNoOtherStep ==
  ASSUME IInv, Calm, Agreement, [Next]_vars
  PROVE  RunsNoOther'
<1> USE DEF RunsNoOther, Recording
<1>0. /\ running \in [Printers -> Jobs \cup {NoJob, LocalPrint}]
      /\ status \in [Jobs -> JobStatus] /\ printer_id \in [Jobs -> Printers]
      /\ TypeOK /\ RunsNoOther
  BY DEF Agreement, IInv, TypeOK, WorldTypeOK, DbTypeOK
<1>1. CASE Upload
  BY <1>0, <1>1, UploadFacts, PickFacts
<1>2. CASE RecordStart
  BY <1>0, <1>2, RecordFacts, PickFacts
<1>3. CASE Apply
  BY <1>0, <1>3, ApplyFacts
<1>4. ASSUME NEW j \in Jobs, Backend(j) PROVE RunsNoOther'
  BY <1>0, <1>4, BackendFacts
<1>5. CASE ~Upload /\ ~RecordStart /\ ~Apply /\ \A j \in Jobs : ~Backend(j)
  BY <1>0, <1>5, BackendSteps, PrinterMoves DEF Moves
<1> QED BY <1>1, <1>2, <1>3, <1>4, <1>5

\* A printer that has ended the active job and says FINISHED has printed it.
LEMMA FinishedIsItsOwnStep ==
  ASSUME IInv, Calm, Agreement, [Next]_vars
  PROVE  FinishedIsItsOwn'
<1> USE DEF FinishedIsItsOwn, Recording
<1>0. /\ running \in [Printers -> Jobs \cup {NoJob, LocalPrint}]
      /\ status \in [Jobs -> JobStatus] /\ printer_id \in [Jobs -> Printers]
      /\ TypeOK /\ FinishedIsItsOwn /\ NoJob \notin Jobs
  BY JobsAssumption DEF Agreement, IInv, TypeOK, WorldTypeOK, DbTypeOK
<1>1. CASE Upload
  BY <1>0, <1>1, UploadFacts, PickFacts
<1>2. CASE RecordStart
  BY <1>0, <1>2, RecordFacts, PickFacts
<1>3. CASE Apply
  BY <1>0, <1>3, ApplyFacts
<1>4. ASSUME NEW j \in Jobs, Backend(j) PROVE FinishedIsItsOwn'
  BY <1>0, <1>4, BackendFacts
<1>5. CASE ~Upload /\ ~RecordStart /\ ~Apply /\ \A j \in Jobs : ~Backend(j)
  <2>1. SUFFICES ASSUME NEW j \in Jobs,
                        status[j] = "printing" \/ Recording(j),
                        running'[printer_id[j]] # j, reported'[printer_id[j]] = "FINISHED"
                 PROVE  j \in printed'
    BY <1>5, BackendSteps
  <2>2. printed \subseteq printed' /\ Moves(printer_id[j])
    BY <1>0, <1>5, PrinterMoves
  <2>3. running[printer_id[j]] \in {j, NoJob}
    BY <2>1 DEF Agreement, RunsNoOther
  <2> QED BY <1>0, <2>1, <2>2, <2>3 DEF Moves, ACTIVE, FAULT
<1> QED BY <1>1, <1>2, <1>3, <1>4, <1>5

\* Once the grace is over, a printer that runs the job reports it.
LEMMA GraceCoversTheStartStep ==
  ASSUME IInv, Calm, Agreement, [Next]_vars
  PROVE  GraceCoversTheStart'
<1> USE DEF GraceCoversTheStart
<1>0. /\ running \in [Printers -> Jobs \cup {NoJob, LocalPrint}]
      /\ reported \in [Printers -> PrinterState]
      /\ status \in [Jobs -> JobStatus] /\ printer_id \in [Jobs -> Printers]
      /\ settled \subseteq Jobs
      /\ TypeOK /\ GraceCoversTheStart /\ NoJob \notin Jobs
  BY JobsAssumption DEF Agreement, IInv, TypeOK, WorldTypeOK, DbTypeOK
<1>1. CASE Upload
  BY <1>0, <1>1, UploadFacts, PickFacts
<1>2. CASE RecordStart
  <2>1. ~late
    BY <1>2, RecordFacts DEF Agreement
  <2> QED BY <1>0, <1>2, <2>1, RecordFacts, PickFacts
<1>3. CASE Apply
  BY <1>0, <1>3, ApplyFacts
<1>4. ASSUME NEW j \in Jobs, Backend(j) PROVE GraceCoversTheStart'
  BY <1>0, <1>4, BackendFacts
<1>5. ASSUME NEW j \in Jobs, GraceElapses(j) PROVE GraceCoversTheStart'
  <2>1. /\ UNCHANGED <<status, printer_id, running, reported>> /\ settled' = settled \cup {j}
        /\ running[printer_id[j]] = j =>
             reported[printer_id[j]] \notin READY_FOR_JOB \cup {"BUSY", "UNKNOWN"}
    BY <1>0, <1>5 DEF GraceElapses, Starting, worldVars
  <2>2. running[printer_id[j]] = j => reported[printer_id[j]] \in ACTIVE \cup FAULT
    BY <1>0, <2>1 DEF PrinterState
  <2> QED BY <1>0, <2>1, <2>2
<1>6. CASE ~Upload /\ ~RecordStart /\ ~Apply /\ \A j \in Jobs : ~Backend(j) /\ ~GraceElapses(j)
  BY <1>0, <1>6, BackendSteps, SettledSteps, PrinterMoves DEF Moves
<1> QED BY <1>1, <1>2, <1>3, <1>4, <1>5, <1>6

\* A reading of FINISHED that is old enough to be believed is of the active job.
LEMMA ReadingIsItsOwnStep ==
  ASSUME IInv, Calm, Agreement, [Next]_vars
  PROVE  ReadingIsItsOwn'
<1>0. TypeOK /\ at \in Printers /\ running \in [Printers -> Jobs \cup {NoJob, LocalPrint}]
      /\ NoJob \notin Jobs /\ ReadingIsItsOwn
  BY JobsAssumption DEF Agreement, IInv, TypeOK, PollTypeOK, WorldTypeOK
<1>1. SUFFICES ASSUME pc' \in {"status", "apply"} PROVE ReadingIsItsOwn'
  BY DEF ReadingIsItsOwn
<1>2. ~Upload /\ ~RecordStart /\ ~Apply
  BY <1>1, UploadFacts, RecordFacts, ApplyFacts
<1>3. settled \subseteq settled'
  BY <1>2, SettledSteps DEF GraceElapses
<1>4. /\ UNCHANGED printer_id
      /\ \A j \in Jobs : status'[j] = "printing" => status[j] = "printing"
  BY <1>2, BackendFacts, BackendSteps DEF IInv, TypeOK, DbTypeOK
<1>5. ASSUME UNCHANGED <<pc, old, snap, at>> PROVE ReadingIsItsOwn'
  <2>1. printed \subseteq printed' /\ Moves(at)
    BY <1>0, <1>2, PrinterMoves
  <2>2. \A j \in Jobs : running'[at] = j => running[at] = j
    BY <1>0, <2>1 DEF Moves
  <2> QED BY <1>0, <1>3, <1>4, <1>5, <2>1, <2>2 DEF ReadingIsItsOwn, ActiveJobs
<1>6. CASE pc = "idle" /\ pc' = "status" /\ old' = settled
  BY <1>3, <1>6 DEF ReadingIsItsOwn
<1>7. CASE /\ pc = "status" /\ pc' = "apply" /\ snap'.state = reported[at]
           /\ UNCHANGED <<old, at, status, printer_id, running, printed, settled>>
  <2>1. ASSUME NEW j \in old, j \in ActiveJobs(at), reported[at] = "FINISHED"
        PROVE  j \in printed /\ running[at] # j
    <3>1. j \in settled /\ j \in Jobs /\ status[j] = "printing" /\ printer_id[j] = at
      BY <1>0, <1>7, <2>1 DEF ReadingIsItsOwn, ActiveJobs
    <3>2. running[at] # j
      BY <2>1, <3>1 DEF Agreement, GraceCoversTheStart, ACTIVE, FAULT
    <3> QED BY <2>1, <3>1, <3>2 DEF Agreement, FinishedIsItsOwn
  <2> QED BY <1>0, <1>7, <2>1 DEF ReadingIsItsOwn, ActiveJobs
<1> QED BY <1>1, <1>5, <1>6, <1>7, ReadingSteps

\* A job becomes completed by a reading of its own print.
LEMMA CompletedWasPrintedStep ==
  ASSUME IInv, Calm, Agreement, [Next]_vars
  PROVE  CompletedWasPrinted'
<1> USE DEF CompletedWasPrinted
<1>0. TypeOK /\ status \in [Jobs -> JobStatus] /\ CompletedWasPrinted
  BY DEF Agreement, IInv, TypeOK, DbTypeOK
<1>1. CASE Upload
  BY <1>0, <1>1, UploadFacts
<1>2. CASE RecordStart
  BY <1>0, <1>2, RecordFacts, PickFacts
<1>3. CASE Apply
  <2>1. \A j \in Jobs : j \in ActiveJobs(at) /\ EndsWell(j) => j \in printed
    BY <1>3, ApplyFacts DEF Agreement, ReadingIsItsOwn, EndsWell
  <2> QED BY <1>0, <1>3, <2>1, ApplyFacts
<1>4. ASSUME NEW j \in Jobs, Backend(j) PROVE CompletedWasPrinted'
  BY <1>0, <1>4, BackendFacts
<1>5. CASE ~Upload /\ ~RecordStart /\ ~Apply /\ \A j \in Jobs : ~Backend(j)
  BY <1>0, <1>5, BackendSteps, PrinterMoves
<1> QED BY <1>1, <1>2, <1>3, <1>4, <1>5

\* The agreement is inductive, beside IInv.
LEMMA AgreementStep ==
  ASSUME IInv, Calm, Agreement, [Next]_vars
  PROVE  Agreement'
<1>1. (pc = "record" => ~late)'
  <2>1. CASE RecordStart \/ Apply
    BY <2>1, RecordFacts, ApplyFacts
  <2>2. CASE \E j \in Jobs : Backend(j)
    BY <2>2, BackendFacts DEF Agreement
  <2>3. CASE ~Upload /\ ~RecordStart /\ ~Apply /\ \A j \in Jobs : ~Backend(j)
    BY <2>3, BackendSteps DEF Agreement
  <2> QED BY <2>1, <2>2, <2>3, UploadFacts
<1>2. StartedOnce
  BY DEF Agreement
<1> QED
  BY <1>1, <1>2, StartedOnceStep, PrintedWasStartedStep, RunningIsKnownStep,
     RunsNoOtherStep, FinishedIsItsOwnStep, GraceCoversTheStartStep,
     ReadingIsItsOwnStep, CompletedWasPrintedStep
  DEF Agreement

\* Nothing has been sent or printed at first.
LEMMA InitAgreement == Init => Agreement
BY JobsAssumption
DEF Init, Agreement, StartedOnce, Recording, PrintedWasStarted, RunningIsKnown,
    RunsNoOther, FinishedIsItsOwn, GraceCoversTheStart, ReadingIsItsOwn,
    CompletedWasPrinted

-----------------------------------------------------------------------------
\* The database and the printers agree, for any jobs, printers and number of
\* faults, if nothing blinds the backend.
THEOREM AgreementAlways == ASSUME Calm PROVE Spec => []Agreement
<1>1. IInv /\ Agreement /\ [Next]_vars => Agreement'
  BY AgreementStep
<1>2. Spec => []IInv
  BY InitIInv, NextIInv, PTL DEF Spec
<1> QED BY <1>1, <1>2, InitAgreement, PTL DEF Spec

\* A job is sent to a printer at most once.
THEOREM PrintedOnce == ASSUME Calm PROVE Spec => []PrintedAtMostOnce
<1>1. Agreement => PrintedAtMostOnce
  <2>1. ASSUME StartedOnce, NEW j \in Jobs PROVE runs[j] = 0 \/ runs[j] = 1
    BY <2>1 DEF StartedOnce
  <2>2. 0 <= 1 /\ 1 <= 1
    OBVIOUS
  <2> QED BY <2>1, <2>2, Zenon DEF Agreement, PrintedAtMostOnce
<1> QED BY <1>1, AgreementAlways, PTL

\* What a printer runs is known to the database.
THEOREM RunningKnown == ASSUME Calm PROVE Spec => []RunningIsKnown
<1>1. Agreement => RunningIsKnown
  BY DEF Agreement
<1> QED BY <1>1, AgreementAlways, PTL

\* A completed job was printed to its end.
THEOREM CompletedPrinted == ASSUME Calm PROVE Spec => []CompletedWasPrinted
<1>1. Agreement => CompletedWasPrinted
  BY DEF Agreement
<1> QED BY <1>1, AgreementAlways, PTL

\* No print is started onto a finished one.
THEOREM NoPrintOntoPrint == ASSUME Calm PROVE Spec => NeverPrintsOntoAPrint
<1>1. ASSUME IInv, Agreement, [Next]_vars
      PROVE  [\A p \in Printers :
                running[p] = NoJob /\ running'[p] \in Jobs => ~UnremovedPrint(p)]_vars
  <2>1. SUFFICES ASSUME NEW p \in Printers, running[p] = NoJob, running'[p] \in Jobs,
                        NEW j \in printed, printer_id[j] = p,
                        status[j] \in {"queued", "printing", "completed"}
                 PROVE  FALSE
    BY DEF UnremovedPrint
  <2>2. /\ running \in [Printers -> Jobs \cup {NoJob, LocalPrint}]
        /\ TypeOK /\ NoJob \notin Jobs /\ j \in Jobs
    BY <1>1, <2>1, JobsAssumption DEF IInv, TypeOK, WorldTypeOK
  <2>3. Upload
    BY <1>1, <2>1, <2>2, PrinterMoves DEF Moves
  <2>4. p = at /\ pick \in Jobs /\ Holding(at) = {}
    BY <1>1, <2>1, <2>2, <2>3, UploadFacts, PickFacts DEF IInv, PickIsNext
  <2>5. status[j] = "queued" /\ ~Recording(j)
    BY <1>1, <2>1, <2>2, <2>3, <2>4, UploadFacts DEF Holding, Recording
  <2> QED BY <1>1, <2>1, <2>2, <2>5 DEF Agreement, StartedOnce, PrintedWasStarted
<1>2. Spec => []IInv
  BY InitIInv, NextIInv, PTL DEF Spec
<1> QED BY <1>1, <1>2, AgreementAlways, PTL DEF Spec, NeverPrintsOntoAPrint
-----------------------------------------------------------------------------
(***************************************************************************)
(* The printers' numbers.  A command is sent with the number the database  *)
(* has for its job, and arrives when the printer may be at another.        *)
(***************************************************************************)

\* Number n was the printer's number of job j: the printer has gone on to
\* another number, or it runs j, or nothing.
IsNumberOf(n, j) ==
  /\ n <= job_ids[printer_id[j]]
  /\ n # 0 /\ n = job_ids[printer_id[j]] => running[printer_id[j]] \in {j, NoJob}

NumbersNameTheirJob ==
  /\ \A j \in Jobs : IsNumberOf(printer_job_id[j], j)
  /\ cmd # NoCommand => cmd.job \in Jobs /\ cmd.id # 0 /\ IsNumberOf(cmd.id, cmd.job)
  /\ pc = "apply" => snap.job_id <= job_ids[at]
  /\ pc = "confirm" => status[pick] = "printing" /\ printer_id[pick] = at

\* A printer changes its number only as it accepts a job.
LEMMA NumberSteps ==
  ASSUME Calm, [Next]_vars, ~Upload
  PROVE  UNCHANGED job_ids
<1>1. Adversities \cap {"crash", "lost reply", "local print"} = {}
  BY DEF Calm, Blinding
<1>2. CASE PollerStep
  BY <1>1, <1>2 DEF PollerStep, StartSweep, BeginSync, ReadStatus, ReadStatusFails,
     Apply, Select, UploadRefused, UploadFails, RecordStart, Confirm, PollerRollsBack, worldVars
<1>3. CASE HandlerStep
  BY <1>3 DEF HandlerStep, SubmitCheck, SubmitReject, StoreFile, CommitSubmission,
     CommitSubmissionFails, MarkReady, RemoveFile, Send, Deliver, SetPrinterStatus, worldVars
<1>4. CASE PrinterStep
  BY <1>1, <1>4 DEF PrinterStep, PrinterOnly, BeginsPrinting, FinishesPrint, LosesPrint, Faults,
     PausedByHand, ResumedByHand, GoesBusy, Clears, StartsLocalPrint, GraceElapses, worldVars
<1>5. CASE Crash \/ UNCHANGED vars
  BY <1>5 DEF Crash, vars, worldVars
<1> QED BY <1>2, <1>3, <1>4, <1>5 DEF Next

LEMMA UploadNumbers ==
  ASSUME IInv, Upload
  PROVE  /\ job_ids' = [job_ids EXCEPT ![at] = @ + 1] /\ at \in Printers
         /\ running' = [running EXCEPT ![at] = pick]
         /\ UNCHANGED <<printer_id, printer_job_id, cmd>>
         /\ pc' = "record"
BY DEF IInv, TypeOK, PollTypeOK, Upload, Accepts, dbVars, apiVars

\* Once a number names a job it never names another.
LEMMA NumberStays ==
  ASSUME IInv, Calm, [Next]_vars, NEW j \in Jobs, NEW n \in Nat, IsNumberOf(n, j)
  PROVE  IsNumberOf(n, j)'
<1>0. /\ printer_id[j] \in Printers /\ job_ids \in [Printers -> Nat] /\ printer_id' = printer_id
      /\ running \in [Printers -> Jobs \cup {NoJob, LocalPrint}]
  BY StatusChanges DEF IInv, TypeOK, DbTypeOK, WorldTypeOK
<1>1. CASE Upload
  <2>1. CASE printer_id[j] = at
    <3>1. job_ids'[at] = job_ids[at] + 1 /\ job_ids[at] \in Nat
      BY <1>0, <1>1, UploadNumbers
    <3>2. n <= job_ids[at]
      BY <2>1 DEF IsNumberOf
    <3> QED BY <1>0, <2>1, <3>1, <3>2 DEF IsNumberOf
  <2>2. CASE printer_id[j] # at
    BY <1>0, <1>1, <2>2, UploadNumbers DEF IsNumberOf
  <2> QED BY <2>1, <2>2
<1>2. CASE ~Upload
  <2>1. running'[printer_id[j]] \in {running[printer_id[j]], NoJob}
    BY <1>0, <1>2, PrinterMoves DEF Moves, IInv
  <2> QED BY <1>0, <1>2, <2>1, NumberSteps DEF IsNumberOf
<1> QED BY <1>1, <1>2

\* The number a printer reports while a job is active there is that job's.
LEMMA ReportedIsItsNumber ==
  ASSUME IInv, Agreement, NEW j \in Jobs, status[j] = "printing",
         NEW n \in Nat, n <= job_ids[printer_id[j]]
  PROVE  IsNumberOf(n, j)
BY DEF Agreement, RunsNoOther, IsNumberOf

LEMMA StatusNumber ==
  ASSUME IInv, NEW p \in Printers
  PROVE  StatusOf(p).job_id \in Nat /\ StatusOf(p).job_id <= job_ids[p]
<1>1. job_ids[p] \in Nat
  BY DEF IInv, TypeOK, WorldTypeOK
<1>2. StatusOf(p).job_id = IF running[p] = NoJob THEN 0 ELSE job_ids[p]
  BY DEF StatusOf
<1> QED BY <1>1, <1>2

\* The database's number of a job stays that job's.
LEMMA RecordedNumbers ==
  ASSUME IInv, Calm, Agreement, NumbersNameTheirJob, [Next]_vars, NEW j \in Jobs
  PROVE  IsNumberOf(printer_job_id[j], j)'
<1>0. /\ printer_job_id \in [Jobs -> Nat] /\ snap.job_id \in Nat
      /\ at \in Printers
  BY DEF IInv, TypeOK, DbTypeOK, PollTypeOK, Snapshots
<1>1. CASE printer_job_id'[j] = printer_job_id[j]
  BY <1>0, <1>1, NumberStays DEF NumbersNameTheirJob, IsNumberOf
<1>2. ASSUME Apply, printer_job_id'[j] # printer_job_id[j]
      PROVE  IsNumberOf(printer_job_id[j], j)'
  <2>1. PICK i \in ActiveJobs(at) : ApplyActiveJob(i)
    BY <1>2 DEF Apply
  <2>2. i = j /\ printer_job_id'[j] = snap.job_id
    BY <1>0, <1>2, <2>1 DEF ApplyActiveJob, ActiveJobs
  <2>3. status[j] = "printing" /\ printer_id[j] = at
    BY <2>1, <2>2 DEF ActiveJobs
  <2>4. snap.job_id <= job_ids[at]
    BY <1>2 DEF NumbersNameTheirJob, Apply
  <2>5. IsNumberOf(snap.job_id, j)
    BY <1>0, <2>3, <2>4, ReportedIsItsNumber DEF IsNumberOf
  <2> QED BY <1>0, <2>2, <2>5, NumberStays DEF IsNumberOf
<1>3. ASSUME Confirm, printer_job_id'[j] # printer_job_id[j]
      PROVE  IsNumberOf(printer_job_id[j], j)'
  <2>1. j = pick /\ printer_job_id'[j] = StatusOf(at).job_id
    BY <1>0, <1>3 DEF Confirm
  <2>2. status[j] = "printing" /\ printer_id[j] = at
    BY <1>3, <2>1 DEF Confirm, NumbersNameTheirJob
  <2>3. StatusOf(at).job_id \in Nat /\ IsNumberOf(StatusOf(at).job_id, j)
    BY <1>0, <2>2, StatusNumber, ReportedIsItsNumber DEF IsNumberOf
  <2> QED BY <1>0, <2>1, <2>3, NumberStays DEF IsNumberOf
<1>4. CASE ~Apply /\ ~Confirm
  <2>1. UNCHANGED printer_job_id
    BY <1>4 DEF Next, PollerStep, StartSweep, BeginSync, ReadStatus, ReadStatusFails, Select,
       Upload, UploadRefused, UploadFails, RecordStart, PollerRollsBack,
       HandlerStep, SubmitCheck, SubmitReject, StoreFile, CommitSubmission,
       CommitSubmissionFails, MarkReady, RemoveFile, Send, Deliver, SetPrinterStatus,
       PrinterStep, PrinterOnly, BeginsPrinting, FinishesPrint, LosesPrint, Faults,
       PausedByHand, ResumedByHand, GoesBusy, Clears, StartsLocalPrint, GraceElapses,
       Crash, vars, dbVars
  <2> QED BY <1>1, <2>1
<1> QED BY <1>1, <1>2, <1>3, <1>4

\* A command keeps the number of the job it was given for.
LEMMA CommandNumber ==
  ASSUME IInv, Calm, NumbersNameTheirJob, [Next]_vars, cmd' # NoCommand
  PROVE  (cmd.job \in Jobs /\ cmd.id # 0 /\ IsNumberOf(cmd.id, cmd.job))'
<1>0. printer_job_id \in [Jobs -> Nat] /\ cmd.id \in Nat
  BY DEF IInv, TypeOK, DbTypeOK, ApiTypeOK, Commands
<1>1. CASE UNCHANGED cmd
  BY <1>0, <1>1, NumberStays DEF NumbersNameTheirJob, IsNumberOf
<1>2. ASSUME NEW j \in Jobs, NEW action \in {"pause", "resume"}, Send(j, action)
      PROVE  (cmd.job \in Jobs /\ cmd.id # 0 /\ IsNumberOf(cmd.id, cmd.job))'
  <2>1. cmd'.job = j /\ cmd'.id = printer_job_id[j] /\ printer_job_id[j] # 0
    BY <1>2 DEF Send
  <2>2. IsNumberOf(printer_job_id[j], j)'
    BY <1>0, <1>2, NumberStays DEF NumbersNameTheirJob, IsNumberOf, Send, dbVars
  <2> QED BY <1>2, <2>1, <2>2 DEF Send, dbVars, IsNumberOf
<1>3. CASE UNCHANGED cmd \/ \E j \in Jobs, action \in {"pause", "resume"} : Send(j, action)
  BY <1>1, <1>2, <1>3
<1>4. UNCHANGED cmd \/ \E j \in Jobs, action \in {"pause", "resume"} : Send(j, action)
  BY DEF Next, PollerStep, StartSweep, BeginSync, ReadStatus, ReadStatusFails, Apply, Select,
       Upload, UploadRefused, UploadFails, RecordStart, Confirm, PollerRollsBack,
       HandlerStep, SubmitCheck, SubmitReject, StoreFile, CommitSubmission,
       CommitSubmissionFails, MarkReady, RemoveFile, Deliver, SetPrinterStatus,
       PrinterStep, PrinterOnly, BeginsPrinting, FinishesPrint, LosesPrint, Faults,
       PausedByHand, ResumedByHand, GoesBusy, Clears, StartsLocalPrint, GraceElapses,
       Crash, vars, apiVars
<1> QED BY <1>3, <1>4

\* A reading's number is not newer than the printer's.
LEMMA ReadingNumber ==
  ASSUME IInv, Calm, NumbersNameTheirJob, [Next]_vars, pc' = "apply"
  PROVE  snap'.job_id <= job_ids'[at']
<1>0. job_ids \in [Printers -> Nat] /\ snap.job_id \in Nat /\ at \in Printers
  BY DEF IInv, TypeOK, WorldTypeOK, PollTypeOK, Snapshots
<1>1. CASE ReadStatus
  BY <1>0, <1>1, StatusNumber DEF ReadStatus, worldVars
<1>2. CASE ~ReadStatus
  <2>1. ~Upload
    BY DEF Upload
  <2>2. UNCHANGED job_ids
    BY <2>1, NumberSteps
  <2>3. UNCHANGED <<pc, snap, at>>
    BY <1>2, ReadingSteps DEF Next, PollerStep, StartSweep, BeginSync, ReadStatusFails, Apply,
       Select, Upload, UploadRefused, UploadFails, RecordStart, Confirm, PollerRollsBack,
       SyncReturns, GoSelect, HandlerStep, SubmitCheck, SubmitReject, StoreFile, CommitSubmission,
       CommitSubmissionFails, MarkReady, RemoveFile, Send, Deliver, SetPrinterStatus,
       PrinterStep, PrinterOnly, BeginsPrinting, FinishesPrint, LosesPrint, Faults,
       PausedByHand, ResumedByHand, GoesBusy, Clears, StartsLocalPrint, GraceElapses,
       Crash, vars, pollVars
  <2> QED BY <2>2, <2>3 DEF NumbersNameTheirJob
<1> QED BY <1>1, <1>2

\* Until the second status call the job just started is printing.
LEMMA ConfirmsAPrint ==
  ASSUME IInv, Calm, NumbersNameTheirJob, [Next]_vars, pc' = "confirm"
  PROVE  status'[pick'] = "printing" /\ printer_id'[pick'] = at'
<1>0. status \in [Jobs -> JobStatus]
  BY DEF IInv, TypeOK, DbTypeOK
<1>1. CASE RecordStart
  BY <1>0, <1>1, RecordFacts, PickFacts
<1>2. CASE ~RecordStart
  <2>1. UNCHANGED <<pc, pick, at>>
    BY <1>2 DEF Next, PollerStep, StartSweep, BeginSync, ReadStatus, ReadStatusFails, Apply,
       Select, Upload, UploadRefused, UploadFails, Confirm, PollerRollsBack,
       SyncReturns, GoSelect, HandlerStep, SubmitCheck, SubmitReject, StoreFile, CommitSubmission,
       CommitSubmissionFails, MarkReady, RemoveFile, Send, Deliver, SetPrinterStatus,
       PrinterStep, PrinterOnly, BeginsPrinting, FinishesPrint, LosesPrint, Faults,
       PausedByHand, ResumedByHand, GoesBusy, Clears, StartsLocalPrint, GraceElapses,
       Crash, vars, pollVars
  <2>2. pick \in Jobs /\ status[pick] = "printing" /\ printer_id[pick] = at /\ ~Apply
    BY <2>1 DEF NumbersNameTheirJob, IInv, PickIsKnown, Apply
  <2>3. status'[pick] = "printing" /\ printer_id' = printer_id
    <3>1. CASE \E j \in Jobs : Backend(j)
      BY <1>0, <2>2, <3>1, BackendFacts
    <3>2. CASE \A j \in Jobs : ~Backend(j)
      <4>1. ~Upload
        BY <2>1 DEF Upload
      <4> QED BY <1>2, <2>2, <3>2, <4>1, BackendSteps
    <3> QED BY <3>1, <3>2
  <2> QED BY <2>1, <2>2, <2>3
<1> QED BY <1>1, <1>2

LEMMA NumbersStep ==
  ASSUME IInv, Calm, Agreement, NumbersNameTheirJob, [Next]_vars
  PROVE  NumbersNameTheirJob'
BY RecordedNumbers, CommandNumber, ReadingNumber, ConfirmsAPrint DEF NumbersNameTheirJob, IsNumberOf

\* A farmer's pause or resume reaches the job it was given for or none, however
\* late it arrives and whatever the printer has begun since.
THEOREM CommandReaches == ASSUME Calm PROVE Spec => CommandReachesItsJob
<1>1. ASSUME IInv, NumbersNameTheirJob, [Next]_vars
      PROVE  [\A p \in Printers :
                cmd # NoCommand /\ cmd' = NoCommand /\ reported'[p] # reported[p]
                  => running[p] = cmd.job]_vars
  <2>1. SUFFICES ASSUME NEW p \in Printers, cmd # NoCommand, cmd' = NoCommand,
                        reported'[p] # reported[p]
                 PROVE  running[p] = cmd.job
    OBVIOUS
  <2>2. Deliver
    BY <1>1, <2>1 DEF Next, PollerStep, StartSweep, BeginSync, ReadStatus, ReadStatusFails, Apply,
       Select, Upload, UploadRefused, UploadFails, RecordStart, Confirm, PollerRollsBack,
       HandlerStep, SubmitCheck, SubmitReject, StoreFile, CommitSubmission,
       CommitSubmissionFails, MarkReady, RemoveFile, Send, SetPrinterStatus,
       PrinterStep, PrinterOnly, BeginsPrinting, FinishesPrint, LosesPrint, Faults,
       PausedByHand, ResumedByHand, GoesBusy, Clears, StartsLocalPrint, GraceElapses,
       Crash, vars, apiVars, worldVars
  <2>3. p = printer_id[cmd.job] /\ Names(p, cmd.id)
    BY <1>1, <2>1, <2>2 DEF Deliver, IInv, TypeOK, WorldTypeOK
  <2> QED BY <1>1, <2>1, <2>3 DEF Names, NumbersNameTheirJob, IsNumberOf
<1>2. Init => NumbersNameTheirJob
  BY JobsAssumption DEF Init, NumbersNameTheirJob, IsNumberOf
<1>3. IInv /\ Agreement /\ NumbersNameTheirJob /\ [Next]_vars => NumbersNameTheirJob'
  BY NumbersStep
<1>4. Spec => []IInv
  BY InitIInv, NextIInv, PTL DEF Spec
<1> QED BY <1>1, <1>2, <1>3, <1>4, AgreementAlways, PTL DEF Spec, CommandReachesItsJob
=============================================================================
