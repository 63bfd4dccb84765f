----------------------------- MODULE MockPrinter -----------------------------
(***************************************************************************)
(* One printer of the mock PrusaLink server: the simulator's thread        *)
(* (simulator.py) and the requests that race it (prusalink.py,             *)
(* sdk_worker.py and main.py's /control).                                  *)
(*                                                                         *)
(* A request is a sequence of steps, one per read or write of the shared   *)
(* objects outside the simulator's lock: the routes are sync functions,    *)
(* each in a thread of the pool, and the upload awaits its body between    *)
(* its checks and the rest.  The file's name and contents, temperatures    *)
(* and percentages are left out; whether a file passes validation, the     *)
(* heaters are warm or the print is through is a choice.                   *)
(***************************************************************************)
EXTENDS Naturals, FiniteSets

CONSTANTS
  Clients,     \* requests that may be in progress at a time
  Ops,         \* the operations the clients use: a subset of AllOps
  MaxRuns,     \* bound on the prints started
  MaxNumber    \* bound on the numbers given to prints

AllOps == {"print", "store", "connect", "status", "stop", "pause", "resume",
           "command", "fault", "reset", "slow join"}
Actions == {"stop", "pause", "resume"}
Runs == 1 .. MaxRuns

ASSUME OpsAssumption == Ops \subseteq AllOps
ASSUME BoundsAssumption == MaxRuns \in Nat \ {0} /\ MaxNumber \in Nat

VARIABLES
  state,       \* transport.state
  phase,       \* snapshot.phase
  started,     \* how many prints start() has begun; the last is simulator._thread
  thread,      \* where the thread of each print is
  warm,        \* _is_preheated()
  stop, pause, \* the two events
  job_ids,     \* the router's number for this printer, 0 when it has none
  req,         \* the requests in progress
  told,        \* history: the numbers clients were told, with the print they meant
  printed      \* history: the prints that ran to their end and took their filament

simVars == <<phase, started, thread, warm, stop, pause, printed>>
vars == <<state, simVars, job_ids, req, told>>

States == {"READY", "PRINTING", "PAUSED", "FINISHED", "STOPPED", "ERROR", "ATTENTION"}
Phases == {"IDLE", "PREHEATING", "PRINTING", "FINISHED", "STOPPED"}
ThreadSteps == {"none", "begin", "preheat", "heated", "print", "tick", "finish",
                "consume", "report", "stopping", "stopped", "exit", "dead"}
RequestSteps == {"idle", "body", "start", "number", "running", "id", "check", "act",
                 "tell", "join", "clear", "ready"}
NoRequest == [op |-> "none", pc |-> "idle", id |-> 0, run |-> 0]

TypeOK ==
  /\ state \in States /\ phase \in Phases
  /\ started \in 0 .. MaxRuns
  /\ thread \in [Runs -> ThreadSteps]
  /\ warm \in BOOLEAN /\ stop \in BOOLEAN /\ pause \in BOOLEAN
  /\ job_ids \in Nat
  /\ req \in [Clients -> [op : AllOps \cup {"none"}, pc : RequestSteps,
                          id : Nat, run : 0 .. MaxRuns]]
  /\ told \subseteq Runs \X Nat
  /\ printed \subseteq Runs

\* PrinterManager.start, and the transport's own first state.
Init ==
  /\ state = "READY" /\ phase = "IDLE"
  /\ started = 0 /\ thread = [r \in Runs |-> "none"]
  /\ warm = FALSE /\ stop = FALSE /\ pause = FALSE
  /\ job_ids = 0
  /\ req = [c \in Clients |-> NoRequest]
  /\ told = {} /\ printed = {}

Alive(r) == thread[r] \notin {"none", "dead"}

\* PrintSimulator.running: the latest thread is alive.
Running == started # 0 /\ Alive(started)

-----------------------------------------------------------------------------
(***************************************************************************)
(* The simulator's thread, for print r.                                    *)
(***************************************************************************)
At(r, from, to) == thread[r] = from /\ thread' = [thread EXCEPT ![r] = to]

ReportsPrinting(r) ==
  /\ At(r, "begin", "preheat")
  /\ state' = "PRINTING"
  /\ UNCHANGED <<phase, started, warm, stop, pause, printed, job_ids, req, told>>

\* The heaters only ramp while the print is not paused.
Warms(r) ==
  /\ thread[r] = "preheat" /\ ~warm /\ ~stop /\ ~pause
  /\ warm' = TRUE
  /\ UNCHANGED <<state, phase, started, thread, stop, pause, printed, job_ids, req, told>>

Preheated(r) ==
  /\ \/ ~stop /\ warm /\ At(r, "preheat", "heated")
     \/ stop /\ At(r, "preheat", "stopping")
  /\ UNCHANGED <<state, phase, started, warm, stop, pause, printed, job_ids, req, told>>

Prints(r) ==
  /\ At(r, "heated", "print")
  /\ phase' = "PRINTING"
  /\ UNCHANGED <<state, started, warm, stop, pause, printed, job_ids, req, told>>

\* Mutant: a paused print does not look at the stop event.
LoopTopPausedFirst(r) ==
  /\ ~pause
  /\ \/ stop /\ At(r, "print", "stopping")
     \/ ~stop /\ At(r, "print", "tick")
  /\ UNCHANGED <<state, phase, started, warm, stop, pause, printed, job_ids, req, told>>

\* The top of the loop: the stop event first, then the pause event.
LoopTop(r) ==
  /\ \/ stop /\ At(r, "print", "stopping")
     \/ ~stop /\ ~pause /\ At(r, "print", "tick")
  /\ UNCHANGED <<state, phase, started, warm, stop, pause, printed, job_ids, req, told>>

\* Progress is made; at 100 % the print is through.
Ticks(r) ==
  /\ At(r, "tick", "print") \/ At(r, "tick", "finish")
  /\ UNCHANGED <<state, phase, started, warm, stop, pause, printed, job_ids, req, told>>

Finishes(r) ==
  /\ At(r, "finish", "consume")
  /\ phase' = "FINISHED"
  /\ UNCHANGED <<state, started, warm, stop, pause, printed, job_ids, req, told>>

\* on_finished: see Spools.
Consumes(r) ==
  /\ At(r, "consume", "report")
  /\ printed' = printed \cup {r}
  /\ UNCHANGED <<state, phase, started, warm, stop, pause, job_ids, req, told>>

ReportsFinished(r) ==
  /\ At(r, "report", "exit")
  /\ state' = "FINISHED"
  /\ UNCHANGED <<phase, started, warm, stop, pause, printed, job_ids, req, told>>

\* _finish_stopped
Stops(r) ==
  /\ At(r, "stopping", "stopped")
  /\ phase' = "STOPPED"
  /\ UNCHANGED <<state, started, warm, stop, pause, printed, job_ids, req, told>>

ReportsStopped(r) ==
  /\ At(r, "stopped", "exit")
  /\ state' = "STOPPED"
  /\ UNCHANGED <<phase, started, warm, stop, pause, printed, job_ids, req, told>>

Exits(r) ==
  /\ At(r, "exit", "dead")
  /\ UNCHANGED <<state, phase, started, warm, stop, pause, printed, job_ids, req, told>>

\* _run
ThreadStep(r) ==
  \/ ReportsPrinting(r) \/ Warms(r) \/ Preheated(r) \/ Prints(r) \/ LoopTop(r)
  \/ Ticks(r) \/ Finishes(r) \/ Consumes(r) \/ ReportsFinished(r)
  \/ Stops(r) \/ ReportsStopped(r) \/ Exits(r)

-----------------------------------------------------------------------------
(***************************************************************************)
(* Requests.  Call(c, op, pc) is the arrival of one and its first read;    *)
(* Goes(c, from, to) a later step; a request that is refused or answered   *)
(* is gone.                                                                *)
(***************************************************************************)
Call(c, op, pc) ==
  /\ op \in Ops /\ req[c].pc = "idle"
  /\ req' = [req EXCEPT ![c] = [NoRequest EXCEPT !.op = op, !.pc = pc]]

Goes(c, from, to) ==
  /\ req[c].pc = from
  /\ req' = [req EXCEPT ![c] = IF to = "idle" THEN NoRequest ELSE [@ EXCEPT !.pc = to]]

\* PUT with Print-After-Upload, or POST on a stored file: 409 while a print
\* runs.  PUT without it, and Connect's download of a file or START_PRINT of one
\* it has, ask for no idle printer.  The body is awaited, or the thread scheduled,
\* after the check.
AskFile(c) ==
  /\ \/ ~Running /\ job_ids < MaxNumber /\ Call(c, "print", "body")
     \/ Call(c, "store", "body")
     \/ started < MaxRuns /\ \E pc \in {"body", "start"} : Call(c, "connect", pc)
  /\ UNCHANGED <<state, simVars, job_ids, told>>

\* handle_upload, _download_finished: a file that passes makes the printer READY,
\* one that does not ATTENTION, whatever the printer is doing.
Stores(c) ==
  /\ \/ /\ state' = "READY"
        /\ \/ req[c].op # "store" /\ Goes(c, "body", "start")
           \/ req[c].op # "print" /\ Goes(c, "body", "idle")
     \/ /\ state' = "ATTENTION"
        /\ Goes(c, "body", IF req[c].op = "print" THEN "number" ELSE "idle")
  /\ UNCHANGED <<simVars, job_ids, told>>

Begins(c) ==
  /\ started < MaxRuns
  /\ stop' = FALSE /\ pause' = FALSE /\ warm' \in BOOLEAN
  /\ phase' = "PREHEATING"
  /\ started' = started + 1
  /\ thread' = [thread EXCEPT ![started + 1] = "begin"]
  /\ Goes(c, "start", IF req[c].op = "print" THEN "number" ELSE "idle")
  /\ UNCHANGED <<state, printed, job_ids, told>>

\* _start_validated_file refuses a file without a duration, and start() a second
\* print: RuntimeError.
Refuses(c) ==
  /\ Goes(c, "start", "idle")
  /\ UNCHANGED <<state, simVars, job_ids, told>>

\* Mutant: start() does not look for a running print.
StartsAnyway(c) == Begins(c) \/ Refuses(c)

\* PrintSimulator.start, under its lock.
Starts(c) == (~Running /\ Begins(c)) \/ Refuses(c)

\* Mutant: the number of a print is not raised.
NumbersNothing(c) ==
  /\ Goes(c, "number", "idle")
  /\ job_ids' = IF job_ids = 0 THEN 1 ELSE job_ids
  /\ UNCHANGED <<state, simVars, told>>

\* begin: the number is raised after the print has started.
Numbers(c) ==
  /\ Goes(c, "number", "idle")
  /\ job_ids' = job_ids + 1
  /\ UNCHANGED <<state, simVars, told>>

\* GET status or job, active_job: nothing to tell of an idle printer.
AskStatus(c) ==
  /\ Running
  /\ "status" \in Ops /\ req[c].pc = "idle"
  /\ req' = [req EXCEPT ![c] = [op |-> "status", pc |-> "tell", id |-> 0, run |-> started]]
  /\ UNCHANGED <<state, simVars, job_ids, told>>

\* setdefault(printer_id, 1)
SetDefault == job_ids' = IF job_ids = 0 THEN 1 ELSE job_ids

Tells(c) ==
  /\ SetDefault
  /\ told' = told \cup {<<req[c].run, job_ids'>>}
  /\ Goes(c, "tell", "idle")
  /\ UNCHANGED <<state, simVars>>

\* _control: a client names a print by the number it was told.
AskControl(c, action) ==
  /\ action \in Ops /\ req[c].pc = "idle"
  /\ Running
  /\ \E t \in told :
       req' = [req EXCEPT ![c] = [op |-> action, pc |-> "id", id |-> t[2], run |-> t[1]]]
  /\ UNCHANGED <<state, simVars, job_ids, told>>

\* Mutant: any number will do.
MatchesAny(c) ==
  /\ SetDefault
  /\ Goes(c, "id", "check")
  /\ UNCHANGED <<state, simVars, told>>

\* 404 unless the number is the printer's present one.
MatchesId(c) ==
  /\ SetDefault
  /\ Goes(c, "id", IF job_ids' = req[c].id THEN "check" ELSE "idle")
  /\ UNCHANGED <<state, simVars, told>>

\* The handlers of Connect's commands: they name no print.
AskCommand(c, action) ==
  /\ {"command", action} \subseteq Ops
  /\ req[c].pc = "idle"
  /\ req' = [req EXCEPT ![c] = [op |-> action, pc |-> "check", id |-> 0, run |-> 0]]
  /\ UNCHANGED <<state, simVars, job_ids, told>>

\* PrintSimulator.stop, pause and resume check that a print is running, resume
\* that it is paused as well: RuntimeError, answered 409.
Checks(c) ==
  /\ Goes(c, "check", IF Running /\ (req[c].op = "resume" => pause) THEN "act" ELSE "idle")
  /\ UNCHANGED <<state, simVars, job_ids, told>>

\* The event is set or cleared; pause and resume then report it.
Acts(c) ==
  /\ \/ /\ req[c].op = "stop" /\ stop' = TRUE /\ UNCHANGED pause
        /\ Goes(c, "act", "idle")
     \/ /\ req[c].op \in {"pause", "resume"} /\ pause' = (req[c].op = "pause")
        /\ UNCHANGED stop
        /\ Goes(c, "act", "ready")
  /\ UNCHANGED <<state, phase, started, thread, warm, printed, job_ids, told>>

\* The state of a pause, of a resume, and of a reset.
Answers(c) ==
  /\ state' = CASE req[c].op = "pause" -> "PAUSED"
                [] req[c].op = "resume" -> "PRINTING"
                [] OTHER -> "READY"
  /\ Goes(c, "ready", "idle")
  /\ UNCHANGED <<simVars, job_ids, told>>

\* /control fault: ERROR or ATTENTION, whatever the printer is doing.
Fault ==
  /\ "fault" \in Ops
  /\ state' \in {"ERROR", "ATTENTION"}
  /\ UNCHANGED <<simVars, job_ids, req, told>>

\* /control reset: the print is stopped and waited for, at most two seconds.
AskReset(c) ==
  /\ Call(c, "reset", IF Running THEN "join" ELSE "clear")
  /\ stop' = IF Running THEN TRUE ELSE stop
  /\ UNCHANGED <<state, phase, started, thread, warm, pause, printed, job_ids, told>>

Joins(c) ==
  /\ ~Running \/ "slow join" \in Ops
  /\ Goes(c, "join", "clear")
  /\ UNCHANGED <<state, simVars, job_ids, told>>

ClearsSnapshot(c) ==
  /\ pause' = FALSE /\ phase' = "IDLE"
  /\ Goes(c, "clear", "ready")
  /\ UNCHANGED <<state, started, thread, warm, stop, printed, job_ids, told>>

RequestStep ==
  \/ \E c \in Clients :
       \/ AskFile(c) \/ Stores(c) \/ Starts(c) \/ Numbers(c)
       \/ AskStatus(c) \/ Tells(c)
       \/ \E action \in Actions : AskControl(c, action) \/ AskCommand(c, action)
       \/ MatchesId(c) \/ Checks(c) \/ Acts(c) \/ Answers(c)
       \/ AskReset(c) \/ Joins(c) \/ ClearsSnapshot(c)
  \/ Fault

Next == (\E r \in Runs : ThreadStep(r)) \/ RequestStep

Spec == Init /\ [][Next]_vars

\* The thread of a print goes on whenever it can: it sleeps, and never blocks.
FairSpec == Spec /\ \A r \in Runs : WF_vars(ThreadStep(r))

-----------------------------------------------------------------------------
(***************************************************************************)
(* Properties.                                                             *)
(***************************************************************************)

\* Two prints never share the printer, whoever starts them: the check in
\* start(), under its lock, is the one that counts.
OneRun == \A r, s \in Runs : Alive(r) /\ Alive(s) => r = s

\* A stopped print ends, even while it is paused.
StopEndsThePrint == stop /\ Running ~> ~Running

\* A number a client is told means one print.
NumbersNameOnePrint == \A t, u \in told : t[2] = u[2] => t[1] = u[1]

\* A step: a stop or a pause that was given for one print is not carried out on another.
ControlReachesItsPrint ==
  \A c \in Clients :
    req[c].pc = "act" /\ req'[c].pc # "act" /\ req[c].run # 0 /\ Running
      => req[c].run = started

\* A step: a print is not asked for while another runs: it would overwrite its state,
\* and its file.
BusyIsRefused ==
  \A c \in Clients :
    req[c].op = "print" /\ req[c].pc = "body" /\ req'[c].pc # "body" => ~Running

\* FINISHED is reported of a print that ran to its end, and of the latest.
FinishedWasPrinted == state = "FINISHED" => started \in printed

-----------------------------------------------------------------------------
(***************************************************************************)
(* MockPrinter implements PrinterContract.  A print is the contract's from *)
(* its start until it has reported its end; the number of a print in the   *)
(* hands of begin is as good as raised.                                    *)
(***************************************************************************)
Contract ==
  INSTANCE PrinterContract
    WITH reported <- state,
         active <- IF Running /\ thread[started] # "exit" THEN started ELSE 0,
         number <- IF \E c \in Clients : req[c].pc = "number" THEN job_ids + 1 ELSE job_ids,
         accepted <- started
=============================================================================
