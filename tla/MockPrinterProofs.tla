-------------------------- MODULE MockPrinterProofs --------------------------
(***************************************************************************)
(* Theorems about MockPrinter, for any clients, any operations and any     *)
(* number of prints: it never runs two prints.  For a plain caller it is   *)
(* the printer that PrinterContract describes.  And one caller, whatever   *)
(* it asks for, is told the truth and reaches the print it means.          *)
(***************************************************************************)
EXTENDS MockCallers, TLAPS

\* Only the latest print can be alive.
LatestOnly == \A r \in Runs : r # started => ~Alive(r)

\* What a status request will tell of is a print.
TellsOfAPrint == \A c \in Clients : req[c].pc = "tell" => req[c].run \in Runs

IInv == TypeOK /\ LatestOnly /\ TellsOfAPrint

Request == [op : AllOps \cup {"none"}, pc : RequestSteps, id : Nat, run : 0 .. MaxRuns]

LEMMA NoRequestType == NoRequest \in Request
BY BoundsAssumption DEF NoRequest, Request, RequestSteps, AllOps

LEMMA InitIInv == Init => IInv
<1> SUFFICES ASSUME Init PROVE IInv
  OBVIOUS
<1>1. req \in [Clients -> Request]
  BY NoRequestType DEF Init
<1>2. thread \in [Runs -> ThreadSteps] /\ \A r \in Runs : ~Alive(r)
  BY DEF Init, ThreadSteps, Alive
<1>3. TellsOfAPrint
  BY DEF Init, TellsOfAPrint, NoRequest
<1>4. started \in 0 .. MaxRuns
  BY BoundsAssumption DEF Init
<1> QED
  BY <1>1, <1>2, <1>3, <1>4 DEF Init, IInv, TypeOK, LatestOnly, States, Phases, Request

\* A request that arrives replaces the client's, and no other's.
LEMMA Called ==
  ASSUME TypeOK, NEW c \in Clients, NEW op \in AllOps, NEW pc \in RequestSteps, Call(c, op, pc)
  PROVE  /\ req' \in [Clients -> Request]
         /\ req'[c].op = op /\ req'[c].pc = pc /\ req'[c].run = 0
         /\ req[c].pc = "idle"
         /\ \A d \in Clients : d # c => req'[d] = req[d]
<1>1. [NoRequest EXCEPT !.op = op, !.pc = pc] \in Request
  <2>1. [NoRequest EXCEPT !.op = op] \in Request
    BY NoRequestType DEF Request
  <2>2. [[NoRequest EXCEPT !.op = op] EXCEPT !.pc = pc] \in Request
    BY <2>1 DEF Request
  <2>3. [NoRequest EXCEPT !.op = op, !.pc = pc] = [[NoRequest EXCEPT !.op = op] EXCEPT !.pc = pc]
    OBVIOUS
  <2> QED BY <2>2, <2>3
<1>2. req \in [Clients -> Request]
  BY DEF TypeOK, Request
<1> QED BY <1>1, <1>2 DEF Call, NoRequest

\* A request that goes on keeps what it is, until it is gone.
LEMMA Gone ==
  ASSUME TypeOK, NEW c \in Clients, NEW from, NEW to \in RequestSteps, Goes(c, from, to)
  PROVE  /\ req' \in [Clients -> Request]
         /\ req[c].pc = from /\ req'[c].pc = to
         /\ to = "idle" => req'[c] = NoRequest
         /\ to # "idle" => req'[c].op = req[c].op /\ req'[c].run = req[c].run
         /\ \A d \in Clients : d # c => req'[d] = req[d]
<1>1. req \in [Clients -> Request]
  BY DEF TypeOK, Request
<1>2. CASE to = "idle"
  <2>1. req' = [req EXCEPT ![c] = NoRequest]
    BY <1>2 DEF Goes
  <2> QED BY <1>1, <1>2, <2>1, NoRequestType DEF Goes, NoRequest
<1>3. CASE to # "idle"
  <2>1. req' = [req EXCEPT ![c] = [req[c] EXCEPT !.pc = to]]
    BY <1>3 DEF Goes
  <2>2. [req[c] EXCEPT !.pc = to] \in Request
    BY <1>1 DEF Request
  <2> QED BY <1>1, <1>3, <2>1, <2>2 DEF Goes, Request
<1> QED BY <1>2, <1>3

\* What each step of a print's thread can do.
LEMMA ThreadMoves ==
  ASSUME TypeOK, NEW r \in Runs, ThreadStep(r)
  PROVE  /\ Alive(r) /\ UNCHANGED <<started, job_ids, req, told, stop, pause>>
         /\ \E s \in ThreadSteps \ {"none"} : thread' = [thread EXCEPT ![r] = s]
         /\ state' \in States /\ phase' \in Phases /\ warm' \in BOOLEAN
         /\ printed' \subseteq Runs
<1> USE DEF TypeOK, Alive, At, States, Phases
<1> DEFINE Goal(s) == /\ s \in ThreadSteps \ {"none"}
                      /\ thread' = [thread EXCEPT ![r] = s]
<1>1. Alive(r) /\ UNCHANGED <<started, job_ids, req, told, stop, pause>>
  BY DEF ThreadStep, ReportsPrinting, Warms, Preheated, Prints, LoopTop, Ticks, Finishes,
         Consumes, ReportsFinished, Stops, ReportsStopped, Exits
<1>2. state' \in States /\ phase' \in Phases /\ warm' \in BOOLEAN /\ printed' \subseteq Runs
  BY DEF ThreadStep, ReportsPrinting, Warms, Preheated, Prints, LoopTop, Ticks, Finishes,
         Consumes, ReportsFinished, Stops, ReportsStopped, Exits
<1>3. \E s : Goal(s)
  <2>1. CASE ReportsPrinting(r)
    <3>1. Goal("preheat")
      BY <2>1 DEF ReportsPrinting, ThreadSteps
    <3> QED BY <3>1
  <2>2. CASE Warms(r)
    <3>1. thread' = [thread EXCEPT ![r] = "preheat"]
      BY <2>2 DEF Warms
    <3>2. Goal("preheat")
      BY <3>1 DEF ThreadSteps
    <3> QED BY <3>2
  <2>3. CASE Preheated(r)
    <3>1. Goal("heated") \/ Goal("stopping")
      BY <2>3 DEF Preheated, ThreadSteps
    <3> QED BY <3>1
  <2>4. CASE Prints(r)
    <3>1. Goal("print")
      BY <2>4 DEF Prints, ThreadSteps
    <3> QED BY <3>1
  <2>5. CASE LoopTop(r)
    <3>1. Goal("stopping") \/ Goal("tick")
      BY <2>5 DEF LoopTop, ThreadSteps
    <3> QED BY <3>1
  <2>6. CASE Ticks(r)
    <3>1. Goal("print") \/ Goal("finish")
      BY <2>6 DEF Ticks, ThreadSteps
    <3> QED BY <3>1
  <2>7. CASE Finishes(r)
    <3>1. Goal("consume")
      BY <2>7 DEF Finishes, ThreadSteps
    <3> QED BY <3>1
  <2>8. CASE Consumes(r)
    <3>1. Goal("report")
      BY <2>8 DEF Consumes, ThreadSteps
    <3> QED BY <3>1
  <2>9. CASE ReportsFinished(r)
    <3>1. Goal("exit")
      BY <2>9 DEF ReportsFinished, ThreadSteps
    <3> QED BY <3>1
  <2>10. CASE Stops(r)
    <3>1. Goal("stopped")
      BY <2>10 DEF Stops, ThreadSteps
    <3> QED BY <3>1
  <2>11. CASE ReportsStopped(r)
    <3>1. Goal("exit")
      BY <2>11 DEF ReportsStopped, ThreadSteps
    <3> QED BY <3>1
  <2>12. CASE Exits(r)
    <3>1. Goal("dead")
      BY <2>12 DEF Exits, ThreadSteps
    <3> QED BY <3>1
  <2> QED
    BY <2>1, <2>2, <2>3, <2>4, <2>5, <2>6, <2>7, <2>8, <2>9, <2>10, <2>11, <2>12 DEF ThreadStep
<1> QED BY <1>1, <1>2, <1>3

\* A step of a request keeps the types, and touches no thread unless it starts a print.
LEMMA RequestMoves ==
  ASSUME TypeOK, TellsOfAPrint, RequestStep
  PROVE  /\ TypeOK' /\ TellsOfAPrint'
         /\ \/ UNCHANGED <<started, thread>>
            \/ \E c \in Clients : ~Running /\ Begins(c)
<1> DEFINE Threads == UNCHANGED <<started, thread>> \/ \E c \in Clients : ~Running /\ Begins(c)
           Rest == /\ state' \in States /\ phase' \in Phases
                   /\ started' \in 0 .. MaxRuns /\ thread' \in [Runs -> ThreadSteps]
                   /\ warm' \in BOOLEAN /\ stop' \in BOOLEAN /\ pause' \in BOOLEAN
                   /\ job_ids' \in Nat /\ told' \subseteq Runs \X Nat /\ printed' \subseteq Runs
           G == req' \in [Clients -> Request] /\ Rest /\ TellsOfAPrint' /\ Threads
<1> SUFFICES G
  BY DEF TypeOK, Request
<1>1. ASSUME NEW c \in Clients, AskFile(c) PROVE G
  <2>1. PICK op \in {"print", "store", "connect"}, pc \in {"body", "start"} : Call(c, op, pc)
    BY <1>1 DEF AskFile
  <2>2. op \in AllOps /\ pc \in RequestSteps /\ pc # "tell"
    BY DEF AllOps, RequestSteps
  <2>3. req' \in [Clients -> Request] /\ TellsOfAPrint'
    BY <2>1, <2>2, Called DEF TellsOfAPrint
  <2> QED BY <1>1, <2>3 DEF AskFile, simVars, TypeOK
<1>2. ASSUME NEW c \in Clients, Stores(c) PROVE G
  <2>1. \E to \in {"start", "idle", "number"} : Goes(c, "body", to)
    BY <1>2 DEF Stores
  <2>2. req' \in [Clients -> Request] /\ TellsOfAPrint'
    BY <2>1, Gone DEF TellsOfAPrint, RequestSteps
  <2>3. state' \in States /\ UNCHANGED <<simVars, job_ids, told>>
    BY <1>2 DEF Stores, States
  <2> QED BY <2>2, <2>3 DEF simVars, TypeOK
<1>3. ASSUME NEW c \in Clients, Starts(c) PROVE G
  <2>1. \E to \in {"idle", "number"} : Goes(c, "start", to)
    BY <1>3 DEF Starts, Begins, Refuses
  <2>2. req' \in [Clients -> Request] /\ TellsOfAPrint'
    BY <2>1, Gone DEF TellsOfAPrint, RequestSteps
  <2>3. CASE Refuses(c)
    BY <2>2, <2>3 DEF Refuses, simVars, TypeOK
  <2>4. CASE ~Running /\ Begins(c)
    <3>1. thread' \in [Runs -> ThreadSteps] /\ started' \in 0 .. MaxRuns
      BY <2>4, BoundsAssumption DEF Begins, ThreadSteps, TypeOK, Runs
    <3> QED BY <2>2, <2>4, <3>1 DEF Begins, Phases, TypeOK
  <2> QED BY <1>3, <2>3, <2>4 DEF Starts
<1>4. ASSUME NEW c \in Clients, Numbers(c) PROVE G
  <2>1. Goes(c, "number", "idle")
    BY <1>4 DEF Numbers
  <2>2. req' \in [Clients -> Request] /\ TellsOfAPrint'
    BY <2>1, Gone DEF TellsOfAPrint, RequestSteps
  <2> QED BY <1>4, <2>2 DEF Numbers, simVars, TypeOK
<1>5. ASSUME NEW c \in Clients, AskStatus(c) PROVE G
  <2>1. [op |-> "status", pc |-> "tell", id |-> 0, run |-> started] \in Request
    BY DEF Request, AllOps, RequestSteps, TypeOK
  <2>2. started \in Runs
    BY <1>5, BoundsAssumption DEF AskStatus, Running, TypeOK, Runs
  <2>3. req' \in [Clients -> Request] /\ TellsOfAPrint'
    BY <1>5, <2>1, <2>2 DEF AskStatus, TellsOfAPrint, TypeOK, Request
  <2> QED BY <1>5, <2>3 DEF AskStatus, simVars, TypeOK
<1>6. ASSUME NEW c \in Clients, Tells(c) PROVE G
  <2>1. Goes(c, "tell", "idle") /\ job_ids' \in Nat /\ UNCHANGED <<state, simVars>>
    BY <1>6 DEF Tells, SetDefault, TypeOK
  <2>2. req' \in [Clients -> Request] /\ TellsOfAPrint' /\ req[c].run \in Runs
    BY <2>1, Gone DEF TellsOfAPrint, RequestSteps
  <2>3. told' \subseteq Runs \X Nat
    BY <1>6, <2>1, <2>2 DEF Tells, TypeOK
  <2> QED BY <2>1, <2>2, <2>3 DEF simVars, TypeOK
<1>7. ASSUME NEW c \in Clients, NEW action \in Actions,
             AskControl(c, action) \/ AskCommand(c, action)
      PROVE G
  <2>1. \A id \in Nat, run \in 0 .. MaxRuns, pc \in {"id", "check"} :
          [op |-> action, pc |-> pc, id |-> id, run |-> run] \in Request
    BY DEF Request, AllOps, RequestSteps, Actions
  <2>2. \E id \in Nat, run \in 0 .. MaxRuns, pc \in {"id", "check"} :
          req' = [req EXCEPT ![c] = [op |-> action, pc |-> pc, id |-> id, run |-> run]]
    <3>1. CASE AskCommand(c, action)
      <4>1. 0 \in Nat /\ 0 \in 0 .. MaxRuns
        BY BoundsAssumption
      <4> QED BY <3>1, <4>1 DEF AskCommand
    <3>2. CASE AskControl(c, action)
      <4>1. PICK t \in told :
              req' = [req EXCEPT ![c] = [op |-> action, pc |-> "id", id |-> t[2], run |-> t[1]]]
        BY <3>2 DEF AskControl
      <4>2. t[2] \in Nat /\ t[1] \in 0 .. MaxRuns
        BY DEF TypeOK, Runs
      <4> QED BY <4>1, <4>2
    <3> QED BY <1>7, <3>1, <3>2
  <2>3. req' \in [Clients -> Request] /\ TellsOfAPrint'
    BY <2>1, <2>2 DEF TellsOfAPrint, TypeOK, Request
  <2> QED BY <1>7, <2>3 DEF AskControl, AskCommand, simVars, TypeOK
<1>8. ASSUME NEW c \in Clients, MatchesId(c) PROVE G
  <2>1. \E to \in {"check", "idle"} : Goes(c, "id", to)
    BY <1>8 DEF MatchesId
  <2>2. req' \in [Clients -> Request] /\ TellsOfAPrint'
    BY <2>1, Gone DEF TellsOfAPrint, RequestSteps
  <2> QED BY <1>8, <2>2 DEF MatchesId, SetDefault, simVars, TypeOK
<1>9. ASSUME NEW c \in Clients, Checks(c) PROVE G
  <2>1. \E to \in {"act", "idle"} : Goes(c, "check", to)
    BY <1>9 DEF Checks
  <2>2. req' \in [Clients -> Request] /\ TellsOfAPrint'
    BY <2>1, Gone DEF TellsOfAPrint, RequestSteps
  <2> QED BY <1>9, <2>2 DEF Checks, simVars, TypeOK
<1>10. ASSUME NEW c \in Clients, Acts(c) PROVE G
  <2>1. \E to \in {"ready", "idle"} : Goes(c, "act", to)
    BY <1>10 DEF Acts
  <2>2. req' \in [Clients -> Request] /\ TellsOfAPrint'
    BY <2>1, Gone DEF TellsOfAPrint, RequestSteps
  <2> QED BY <1>10, <2>2 DEF Acts, TypeOK
<1>11. ASSUME NEW c \in Clients, Answers(c) PROVE G
  <2>1. Goes(c, "ready", "idle")
    BY <1>11 DEF Answers
  <2>2. req' \in [Clients -> Request] /\ TellsOfAPrint'
    BY <2>1, Gone DEF TellsOfAPrint, RequestSteps
  <2>3. state' \in States
    BY <1>11 DEF Answers, States
  <2>4. UNCHANGED <<phase, started, thread, warm, stop, pause, printed, job_ids, told>>
    BY <1>11 DEF Answers, simVars
  <2> QED BY <2>2, <2>3, <2>4 DEF TypeOK
<1>12. ASSUME NEW c \in Clients, AskReset(c) PROVE G
  <2>1. PICK pc \in {"join", "clear"} : Call(c, "reset", pc)
    BY <1>12 DEF AskReset
  <2>2. "reset" \in AllOps /\ pc \in RequestSteps /\ pc # "tell"
    BY DEF AllOps, RequestSteps
  <2>3. req' \in [Clients -> Request] /\ TellsOfAPrint'
    BY <2>1, <2>2, Called DEF TellsOfAPrint
  <2> QED BY <1>12, <2>3 DEF AskReset, TypeOK
<1>13. ASSUME NEW c \in Clients, Joins(c) \/ ClearsSnapshot(c) PROVE G
  <2>1. Goes(c, "join", "clear") \/ Goes(c, "clear", "ready")
    BY <1>13 DEF Joins, ClearsSnapshot
  <2>2. req' \in [Clients -> Request] /\ TellsOfAPrint'
    BY <2>1, Gone DEF TellsOfAPrint, RequestSteps
  <2> QED BY <1>13, <2>2 DEF Joins, ClearsSnapshot, simVars, TypeOK, Phases
<1>14. ASSUME Fault PROVE G
  BY <1>14 DEF Fault, simVars, TypeOK, TellsOfAPrint, States, Request
<1> HIDE DEF G
<1> QED
  BY <1>1, <1>2, <1>3, <1>4, <1>5, <1>6, <1>7, <1>8, <1>9, <1>10, <1>11, <1>12, <1>13, <1>14
     DEF RequestStep

LEMMA IInvKept == IInv /\ [Next]_vars => IInv'
<1> SUFFICES ASSUME IInv, [Next]_vars PROVE IInv'
  OBVIOUS
<1> USE DEF IInv
<1>1. ASSUME NEW r \in Runs, ThreadStep(r) PROVE IInv'
  <2>1. Alive(r) /\ UNCHANGED <<started, job_ids, req, told, stop, pause>>
    BY <1>1, ThreadMoves
  <2>2. TypeOK'
    BY <1>1, ThreadMoves DEF TypeOK
  <2>3. \A s \in Runs : s # r => thread'[s] = thread[s]
    BY <1>1, ThreadMoves DEF TypeOK
  <2>4. LatestOnly'
    BY <2>1, <2>3 DEF LatestOnly, Alive
  <2> QED BY <2>1, <2>2, <2>4 DEF TellsOfAPrint
<1>2. ASSUME RequestStep PROVE IInv'
  <2>1. TypeOK' /\ TellsOfAPrint'
    BY <1>2, RequestMoves
  <2>2. CASE UNCHANGED <<started, thread>>
    BY <2>1, <2>2 DEF LatestOnly, Alive
  <2>3. CASE \E c \in Clients : ~Running /\ Begins(c)
    <3>1. /\ started' = started + 1 /\ started' \in Runs
          /\ \A s \in Runs : s # started + 1 => thread'[s] = thread[s]
      BY <2>3, BoundsAssumption DEF Begins, TypeOK, Runs
    <3>2. \A s \in Runs : ~Alive(s)
      BY <2>3, BoundsAssumption DEF Running, LatestOnly, TypeOK, Runs
    <3>3. LatestOnly'
      BY <3>1, <3>2 DEF LatestOnly, Alive
    <3> QED BY <2>1, <3>3
  <2> QED BY <1>2, <2>2, <2>3, RequestMoves
<1>3. CASE UNCHANGED vars
  BY <1>3 DEF vars, simVars, TypeOK, LatestOnly, TellsOfAPrint, Alive
<1> QED BY <1>1, <1>2, <1>3 DEF Next

\* The inductive invariant.
THEOREM Invariant == Spec => []IInv
<1>1. Init => IInv
  BY InitIInv
<1>2. IInv /\ [Next]_vars => IInv'
  BY IInvKept
<1> QED BY <1>1, <1>2, PTL DEF Spec

\* The state, the thread and the requests of the mock keep their types.
THEOREM TypeCorrect == Spec => []TypeOK
<1>1. IInv => TypeOK
  BY DEF IInv
<1> QED BY <1>1, Invariant, PTL

\* However requests and prints interleave, two prints never share a printer.
THEOREM OneRunAlways == Spec => []OneRun
<1>1. IInv => OneRun
  BY DEF IInv, LatestOnly, OneRun
<1> QED BY <1>1, Invariant, PTL

-----------------------------------------------------------------------------
(***************************************************************************)
(* A plain caller.                                                         *)
(***************************************************************************)
Numbering == \E c \in Clients : req[c].pc = "number"

\* Of one caller's requests the one that moves is the only one.
LEMMA OnlyCaller ==
  ASSUME OneAtATime, OneAtATime', NEW c \in Clients, req[c].pc # "idle" \/ req'[c].pc # "idle",
         \A d \in Clients : d # c => req'[d] = req[d]
  PROVE  /\ \A d \in Clients : d # c => req[d].pc = "idle" /\ req'[d].pc = "idle"
         /\ Numbering <=> req[c].pc = "number"
         /\ Numbering' <=> req'[c].pc = "number"
<1>1. \A d \in Clients : d # c => req[d].pc = "idle" /\ req'[d].pc = "idle"
  BY DEF OneAtATime
<1> QED BY <1>1 DEF Numbering

\* A print that was asked for, and a reset past its wait, find the printer idle.
Finds(c) ==
  /\ req[c].pc \in {"body", "start"} => ~Running /\ req[c].op = "print"
  /\ req[c].pc \in {"clear", "ready"} => ~Running /\ req[c].op = "reset"
  /\ req[c].pc = "join" => req[c].op = "reset"
  /\ req[c].pc \in {"id", "check", "act"} => req[c].op = "stop"

FoundIdle == \A c \in Clients : Finds(c)

\* A print has a number, or is being given one; what names a print comes after it.
Numbered ==
  /\ started # 0 => job_ids # 0 \/ Numbering
  /\ \A c \in Clients : req[c].pc \in {"tell", "id"} => started # 0
  /\ told # {} => started # 0

PlainInv == OneAtATime /\ AsksPlainly /\ FoundIdle /\ Numbered

\* What a plain caller's steps are.
PlainStep == OneAtATime' /\ AsksPlainly' /\ WaitsLongEnough

Active == IF Running /\ thread[started] # "exit" THEN started ELSE 0
Number == IF Numbering THEN job_ids + 1 ELSE job_ids

\* A print's thread only runs while it is the printer's.
LEMMA ThreadIsLatest ==
  ASSUME IInv, NEW r \in Runs, ThreadStep(r)
  PROVE  /\ r = started /\ Running /\ started # 0
         /\ UNCHANGED <<started, job_ids, req, told>>
<1>1. Alive(r) /\ UNCHANGED <<started, job_ids, req, told>>
  BY ThreadMoves DEF IInv
<1>2. r = started
  BY <1>1 DEF IInv, LatestOnly
<1> QED BY <1>1, <1>2 DEF Running, IInv, TypeOK, Runs

\* Each step of the thread is a step of the contract, or none.
LEMMA ThreadImplements ==
  ASSUME IInv, NEW r \in Runs, ThreadStep(r)
  PROVE  /\ UNCHANGED <<started, Number>>
         /\ \/ UNCHANGED <<state, Active>>
            \/ Active # 0 /\ state' = "PRINTING" /\ UNCHANGED Active
            \/ Active # 0 /\ Active' = 0 /\ state' \in {"FINISHED", "STOPPED"}
<1> USE DEF Active, Running, Alive, At, Runs
<1>0. /\ r = started /\ Running /\ started # 0
      /\ UNCHANGED <<started, job_ids, req, told>>
  BY ThreadIsLatest
<1>1. UNCHANGED Number
  BY <1>0 DEF Number, Numbering
<1>2. thread \in [Runs -> ThreadSteps]
  BY DEF IInv, TypeOK
<1>3. CASE ReportsPrinting(r)
  BY <1>0, <1>1, <1>2, <1>3 DEF ReportsPrinting
<1>4. CASE Warms(r)
  BY <1>0, <1>1, <1>2, <1>4 DEF Warms
<1>5. CASE Preheated(r)
  BY <1>0, <1>1, <1>2, <1>5 DEF Preheated
<1>6. CASE Prints(r)
  BY <1>0, <1>1, <1>2, <1>6 DEF Prints
<1>7. CASE LoopTop(r)
  BY <1>0, <1>1, <1>2, <1>7 DEF LoopTop
<1>8. CASE Ticks(r)
  BY <1>0, <1>1, <1>2, <1>8 DEF Ticks
<1>9. CASE Finishes(r)
  BY <1>0, <1>1, <1>2, <1>9 DEF Finishes
<1>10. CASE Consumes(r)
  BY <1>0, <1>1, <1>2, <1>10 DEF Consumes
<1>11. CASE ReportsFinished(r)
  BY <1>0, <1>1, <1>2, <1>11 DEF ReportsFinished
<1>12. CASE Stops(r)
  BY <1>0, <1>1, <1>2, <1>12 DEF Stops
<1>13. CASE ReportsStopped(r)
  BY <1>0, <1>1, <1>2, <1>13 DEF ReportsStopped
<1>14. CASE Exits(r)
  BY <1>0, <1>1, <1>2, <1>14 DEF Exits
<1> QED
  BY <1>3, <1>4, <1>5, <1>6, <1>7, <1>8, <1>9, <1>10, <1>11, <1>12, <1>13, <1>14 DEF ThreadStep

LEMMA PlainFirst == Init => PlainInv
BY DEF Init, PlainInv, FoundIdle, Finds, Numbered, NoRequest, Running, OneAtATime, AsksPlainly

\* A step of the caller's request: what is to be looked at is that request.
LEMMA OthersWait ==
  ASSUME PlainInv, PlainStep, NEW c \in Clients, req[c].pc # "idle" \/ req'[c].pc # "idle",
         \A d \in Clients : d # c => req'[d] = req[d],
         Finds(c)', started' # 0 => job_ids' # 0 \/ req'[c].pc = "number",
         req'[c].pc \in {"tell", "id"} => started' # 0, told' # {} => started' # 0
  PROVE  FoundIdle' /\ Numbered'
<1>1. /\ \A d \in Clients : d # c => req[d].pc = "idle" /\ req'[d].pc = "idle"
      /\ Numbering' <=> req'[c].pc = "number"
  BY OnlyCaller DEF PlainInv, PlainStep
<1>2. \A d \in Clients : d # c => Finds(d)'
  BY <1>1 DEF Finds
<1> QED BY <1>1, <1>2 DEF FoundIdle, Numbered

LEMMA NumberIs ==
  ASSUME PlainInv, PlainStep, NEW c \in Clients, req[c].pc # "idle" \/ req'[c].pc # "idle",
         \A d \in Clients : d # c => req'[d] = req[d]
  PROVE  /\ Number = IF req[c].pc = "number" THEN job_ids + 1 ELSE job_ids
         /\ Number' = IF req'[c].pc = "number" THEN job_ids' + 1 ELSE job_ids'
         /\ Numbering <=> req[c].pc = "number"
BY OnlyCaller DEF PlainInv, PlainStep, Number

\* What a step of the caller's does to the contract, and that it keeps PlainInv.
LEMMA RequestImplements ==
  ASSUME IInv, IInv', PlainInv, PlainStep, RequestStep
  PROVE  /\ PlainInv'
         /\ Contract!Next \/ UNCHANGED <<state, Active, Number, started>>
<1> DEFINE Stutter == UNCHANGED <<state, Active, Number, started>>
           G == FoundIdle' /\ Numbered' /\ (Contract!Next \/ Stutter)
           Still == UNCHANGED <<started, thread>>
<1>0. /\ TypeOK /\ job_ids \in Nat /\ started \in 0 .. MaxRuns /\ job_ids' \in Nat
      /\ req \in [Clients -> Request]
      /\ Still => (Running' <=> Running) /\ UNCHANGED Active
      /\ ~Running => Active = 0
      /\ FoundIdle /\ Numbered /\ WaitsLongEnough
      /\ \A c \in Clients :
           /\ Finds(c)
           /\ req[c].op \in {"none", "print", "status", "stop", "reset"}
           /\ req'[c].op \in {"none", "print", "status", "stop", "reset"}
  BY DEF IInv, TypeOK, Running, Active, Alive, PlainInv, PlainStep, AsksPlainly, FoundIdle, Request
<1>1. ASSUME NEW c \in Clients, AskFile(c) PROVE G
  <2>1. PICK op \in {"print", "store", "connect"}, pc \in {"body", "start"} :
          Call(c, op, pc) /\ (op = "print" => ~Running /\ pc = "body")
    BY <1>1 DEF AskFile
  <2>2. /\ req[c].pc = "idle" /\ req'[c].pc = pc /\ req'[c].op = op
        /\ \A d \in Clients : d # c => req'[d] = req[d]
    <3>1. op \in AllOps /\ pc \in RequestSteps BY DEF AllOps, RequestSteps
    <3> QED BY <2>1, <3>1, <1>0, Called
  <2>3. op = "print" /\ pc = "body" /\ ~Running BY <2>1, <2>2, <1>0
  <2>4. UNCHANGED <<state, simVars, job_ids, told>> BY <1>1 DEF AskFile
  <2>5. ~Running' /\ UNCHANGED Active BY <1>0, <2>3, <2>4 DEF simVars
  <2>6. Finds(c)' BY <2>2, <2>3, <2>5 DEF Finds
  <2>7. Numbering <=> req[c].pc = "number" BY <2>2, <2>3, NumberIs
  <2>8. FoundIdle' /\ Numbered'
    BY <1>0, <2>2, <2>3, <2>4, <2>6, <2>7, OthersWait DEF Numbered, simVars
  <2>9. UNCHANGED Number BY <2>2, <2>3, <2>4, NumberIs
  <2> QED BY <2>4, <2>5, <2>8, <2>9 DEF simVars
<1>2. ASSUME NEW c \in Clients, Stores(c) PROVE G
  <2>1. req[c].pc = "body" /\ UNCHANGED <<simVars, job_ids, told>>
    BY <1>2 DEF Stores, Goes
  <2>2. ~Running /\ req[c].op = "print" /\ Active = 0
    BY <2>1, <1>0 DEF Finds
  <2>3. ~Running' /\ Active' = 0
    BY <2>1, <2>2, <1>0 DEF simVars
  <2>4. PICK to \in {"start", "number"} :
          Goes(c, "body", to) /\ state' = IF to = "start" THEN "READY" ELSE "ATTENTION"
    BY <1>2, <2>2 DEF Stores
  <2>5. /\ req'[c].pc = to /\ req'[c].op = "print"
        /\ \A d \in Clients : d # c => req'[d] = req[d]
    BY <2>4, <2>2, <1>0, Gone DEF RequestSteps
  <2>6. /\ Number = job_ids
        /\ Number' = IF to = "number" THEN job_ids + 1 ELSE job_ids
        /\ ~Numbering
    BY <2>1, <2>5, NumberIs
  <2>7. Finds(c)' BY <2>3, <2>5 DEF Finds
  <2>8. FoundIdle' /\ Numbered'
    BY <1>0, <2>1, <2>5, <2>6, <2>7, OthersWait DEF Numbered, simVars
  <2>9. CASE to = "start"
    BY <2>1, <2>2, <2>3, <2>4, <2>6, <2>8, <2>9 DEF Contract!Next, Contract!Clears, Active, Number, Numbering, simVars
  <2>10. CASE to = "number"
    BY <2>1, <2>2, <2>3, <2>4, <2>6, <2>8, <2>10 DEF Contract!Next, Contract!Rejects, Active, Number, Numbering, simVars
  <2> QED BY <2>9, <2>10
<1>3. ASSUME NEW c \in Clients, Starts(c) PROVE G
  <2>1. req[c].pc = "start" /\ UNCHANGED <<state, job_ids, told>>
    BY <1>3 DEF Starts, Begins, Refuses, Goes
  <2>2. ~Running /\ req[c].op = "print" /\ Active = 0
    BY <2>1, <1>0 DEF Finds
  <2>3. CASE Refuses(c)
    <3>1. /\ req'[c].pc = "idle" /\ UNCHANGED simVars
          /\ \A d \in Clients : d # c => req'[d] = req[d]
      BY <2>3, <1>0, Gone DEF Refuses, RequestSteps
    <3>2. ~Running' /\ UNCHANGED Active
      BY <3>1, <2>2, <1>0 DEF simVars
    <3>3. Finds(c)' BY <3>1 DEF Finds
    <3>4. UNCHANGED Number /\ ~Numbering BY <2>1, <3>1, NumberIs
    <3>5. FoundIdle' /\ Numbered'
      BY <1>0, <2>1, <3>1, <3>3, <3>4, OthersWait DEF Numbered, simVars
    <3> QED BY <2>1, <3>1, <3>2, <3>4, <3>5 DEF simVars
  <2>4. CASE Begins(c)
    <3>1. req'[c].pc = "number" /\ \A d \in Clients : d # c => req'[d] = req[d]
      BY <2>4, <2>2, <1>0, Gone DEF Begins, RequestSteps
    <3>2. /\ started < MaxRuns /\ started' = started + 1
          /\ thread' = [thread EXCEPT ![started + 1] = "begin"]
      BY <2>4 DEF Begins
    <3>3. started + 1 \in Runs /\ thread'[started'] = "begin"
      BY <3>2, <1>0, BoundsAssumption DEF Runs, TypeOK
    <3>4. Active' = started + 1
      BY <3>2, <3>3, <1>0 DEF Active, Running, Alive
    <3>5. Number = job_ids /\ Number' = Number + 1
      BY <1>0, <2>1, <3>1, NumberIs
    <3>6. Finds(c)' BY <3>1 DEF Finds
    <3>7. FoundIdle' /\ Numbered'
      BY <1>0, <2>1, <3>1, <3>2, <3>6, OthersWait
    <3> QED BY <2>1, <2>2, <3>2, <3>4, <3>5, <3>7 DEF Contract!Next, Contract!Accepts, Active, Number, Numbering
  <2> QED BY <1>3, <2>3, <2>4 DEF Starts
<1>4. ASSUME NEW c \in Clients, Numbers(c) PROVE G
  <2>1. Goes(c, "number", "idle") /\ job_ids' = job_ids + 1 /\ UNCHANGED <<state, simVars, told>>
    BY <1>4 DEF Numbers
  <2>2. req[c].pc = "number" /\ req'[c].pc = "idle" /\ \A d \in Clients : d # c => req'[d] = req[d]
    BY <2>1, <1>0, Gone DEF RequestSteps
  <2>3. UNCHANGED <<Number, Active>> /\ Still
    <3>1. UNCHANGED Number BY <2>1, <2>2, NumberIs
    <3> QED BY <1>0, <2>1, <3>1 DEF simVars
  <2>4. Finds(c)' BY <2>2 DEF Finds
  <2>5. FoundIdle' /\ Numbered'
    BY <1>0, <2>1, <2>2, <2>4, OthersWait DEF Numbered, simVars
  <2> QED BY <2>1, <2>3, <2>5
<1>5. ASSUME NEW c \in Clients, AskStatus(c) PROVE G
  <2>1. Running /\ UNCHANGED <<state, simVars, job_ids, told>> /\ req[c].pc = "idle"
    BY <1>5 DEF AskStatus
  <2>2. /\ req'[c].pc = "tell" /\ req'[c].op = "status"
        /\ \A d \in Clients : d # c => req'[d] = req[d]
    BY <1>5, <1>0 DEF AskStatus
  <2>3. UNCHANGED Number /\ ~Numbering BY <2>1, <2>2, NumberIs
  <2>4. Finds(c)' BY <2>2 DEF Finds
  <2>5. FoundIdle' /\ Numbered'
    BY <1>0, <2>1, <2>2, <2>3, <2>4, OthersWait DEF Numbered, simVars, Running
  <2> QED BY <1>0, <2>1, <2>3, <2>5 DEF simVars
<1>6. ASSUME NEW c \in Clients, Tells(c) \/ MatchesId(c) PROVE G
  <2>1. PICK from \in {"tell", "id"}, to \in {"idle", "check"} : Goes(c, from, to)
    BY <1>6 DEF Tells, MatchesId
  <2>2. /\ req[c].pc = from /\ req'[c].pc = to
        /\ (to # "idle" => req'[c].op = req[c].op /\ req[c].pc = "id")
        /\ \A d \in Clients : d # c => req'[d] = req[d]
    BY <2>1, <1>0, Gone, <1>6 DEF RequestSteps, Tells, MatchesId, Goes
  <2>3. Number = job_ids /\ Number' = job_ids' /\ ~Numbering BY <2>2, NumberIs
  <2>4. started # 0 /\ job_ids # 0
    BY <1>0, <2>2, <2>3 DEF Numbered
  <2>5. UNCHANGED <<state, simVars, job_ids>>
    BY <1>6, <2>4 DEF Tells, MatchesId, SetDefault
  <2>6. Finds(c)' BY <1>0, <2>2 DEF Finds
  <2>7. FoundIdle' /\ Numbered'
    BY <2>2, <2>4, <2>5, <2>6, OthersWait DEF simVars
  <2> QED BY <1>0, <2>3, <2>5, <2>7 DEF simVars
<1>7. ASSUME NEW c \in Clients, NEW action \in Actions,
             AskControl(c, action) \/ AskCommand(c, action)
      PROVE G
  <2>1. req[c].pc = "idle" /\ UNCHANGED <<state, simVars, job_ids, told>>
    BY <1>7 DEF AskControl, AskCommand
  <2>2. /\ req'[c].op = action /\ req'[c].pc \in {"id", "check"} /\ (req'[c].pc = "id" => told # {})
        /\ \A d \in Clients : d # c => req'[d] = req[d]
    BY <1>7, <2>1, <1>0 DEF AskControl, AskCommand
  <2>3. action = "stop" BY <1>0, <2>2 DEF Actions
  <2>4. UNCHANGED Number /\ ~Numbering BY <2>1, <2>2, NumberIs
  <2>5. Finds(c)' BY <2>2, <2>3 DEF Finds
  <2>6. FoundIdle' /\ Numbered'
    BY <1>0, <2>1, <2>2, <2>4, <2>5, OthersWait DEF Numbered, simVars
  <2> QED BY <1>0, <2>1, <2>4, <2>6 DEF simVars
<1>8. ASSUME NEW c \in Clients, Checks(c) \/ Acts(c) PROVE G
  <2>1. req[c].pc \in {"check", "act"} /\ UNCHANGED <<state, started, thread, job_ids, told>>
    BY <1>8 DEF Checks, Acts, Goes, simVars
  <2>2. req[c].op = "stop"
    BY <1>0, <2>1 DEF Finds
  <2>3. PICK from \in {"check", "act"}, to \in {"idle", "act"} : Goes(c, from, to)
    BY <1>8, <2>2 DEF Checks, Acts
  <2>4. /\ req'[c].pc = to /\ (to = "act" => req'[c].op = "stop")
        /\ \A d \in Clients : d # c => req'[d] = req[d]
    BY <2>2, <2>3, <1>0, Gone DEF RequestSteps
  <2>5. UNCHANGED Number /\ ~Numbering BY <2>1, <2>4, NumberIs
  <2>6. Finds(c)' BY <2>4 DEF Finds
  <2>7. FoundIdle' /\ Numbered'
    BY <1>0, <2>1, <2>4, <2>5, <2>6, OthersWait DEF Numbered
  <2> QED BY <1>0, <2>1, <2>5, <2>7
<1>9. ASSUME NEW c \in Clients, Answers(c) PROVE G
  <2>1. Goes(c, "ready", "idle") /\ UNCHANGED <<simVars, job_ids, told>>
    BY <1>9 DEF Answers
  <2>2. req[c].pc = "ready" /\ req'[c].pc = "idle" /\ \A d \in Clients : d # c => req'[d] = req[d]
    BY <2>1, <1>0, Gone DEF RequestSteps
  <2>3. ~Running /\ req[c].op = "reset"
    BY <1>0, <2>2 DEF Finds
  <2>4. UNCHANGED Number /\ ~Numbering BY <2>1, <2>2, NumberIs
  <2>5. state' = "READY" /\ Active = 0 /\ UNCHANGED Active
    BY <1>9, <2>1, <2>3, <1>0 DEF Answers, simVars
  <2>6. Finds(c)' BY <2>2 DEF Finds
  <2>7. FoundIdle' /\ Numbered'
    BY <1>0, <2>1, <2>2, <2>4, <2>6, OthersWait DEF Numbered, simVars
  <2> QED BY <2>1, <2>4, <2>5, <2>7 DEF Contract!Next, Contract!Clears, Active, Number, Numbering, simVars
<1>10. ASSUME Fault PROVE G
  <2>1. state' \in {"ERROR", "ATTENTION"} /\ UNCHANGED <<simVars, job_ids, req, told>>
    BY <1>10 DEF Fault
  <2>2. UNCHANGED <<Number, Active>>
    BY <2>1, <1>0 DEF simVars, Number, Numbering
  <2>3. FoundIdle' /\ Numbered'
    BY <2>1, <1>0 DEF FoundIdle, Finds, Numbered, Numbering, simVars
  <2> QED
    BY <2>1, <2>2, <2>3 DEF Contract!Next, Contract!Faults, Contract!FaultStates, Active, Number, Numbering, simVars
<1>11. ASSUME NEW c \in Clients, AskReset(c) PROVE G
  <2>1. UNCHANGED <<state, started, thread, job_ids, told>>
    BY <1>11 DEF AskReset
  <2>2. PICK pc \in {"join", "clear"} : Call(c, "reset", pc) /\ (pc = "clear" => ~Running)
    BY <1>11 DEF AskReset
  <2>3. /\ req[c].pc = "idle" /\ req'[c].pc = pc /\ req'[c].op = "reset"
        /\ \A d \in Clients : d # c => req'[d] = req[d]
    BY <2>2, <1>0, Called DEF AllOps, RequestSteps
  <2>4. UNCHANGED Number /\ ~Numbering BY <2>1, <2>3, NumberIs
  <2>5. Finds(c)' BY <1>0, <2>1, <2>2, <2>3 DEF Finds
  <2>6. FoundIdle' /\ Numbered'
    BY <1>0, <2>1, <2>3, <2>4, <2>5, OthersWait DEF Numbered
  <2> QED BY <1>0, <2>1, <2>4, <2>6
<1>12. ASSUME NEW c \in Clients, Joins(c) \/ ClearsSnapshot(c) PROVE G
  <2>1. UNCHANGED <<state, started, thread, job_ids, told>>
    BY <1>12 DEF Joins, ClearsSnapshot, simVars
  <2>2. PICK from \in {"join", "clear"}, to \in {"clear", "ready"} : Goes(c, from, to)
    BY <1>12 DEF Joins, ClearsSnapshot
  <2>3. /\ req[c].pc = from /\ req'[c].pc = to /\ req'[c].op = req[c].op
        /\ \A d \in Clients : d # c => req'[d] = req[d]
    BY <2>2, <1>0, Gone DEF RequestSteps
  <2>4. ~Running /\ req[c].op = "reset"
    <3>1. CASE from = "join"
      <4>1. Goes(c, "join", "clear") BY <1>12, <2>3, <3>1 DEF Joins, ClearsSnapshot, Goes
      <4>2. req'[c].pc = "clear" BY <4>1, <1>0, Gone DEF RequestSteps
      <4> QED BY <1>0, <2>3, <3>1, <4>2 DEF WaitsLongEnough, Finds
    <3>2. CASE from = "clear" BY <1>0, <2>3, <3>2 DEF Finds
    <3> QED BY <3>1, <3>2
  <2>5. UNCHANGED Number /\ ~Numbering BY <2>1, <2>3, NumberIs
  <2>6. Finds(c)' BY <1>0, <2>1, <2>3, <2>4 DEF Finds
  <2>7. FoundIdle' /\ Numbered'
    BY <1>0, <2>1, <2>3, <2>5, <2>6, OthersWait DEF Numbered
  <2> QED BY <1>0, <2>1, <2>5, <2>7
<1>13. G
  <2> HIDE DEF G
  <2> QED
    BY <1>1, <1>2, <1>3, <1>4, <1>5, <1>6, <1>7, <1>8, <1>9, <1>10, <1>11, <1>12 DEF RequestStep
<1> QED BY <1>13 DEF PlainInv, PlainStep

\* Every step of the mock is one of the contract's, or none.
LEMMA StepImplements ==
  ASSUME IInv, IInv', PlainInv, PlainStep, [Next]_vars
  PROVE  PlainInv' /\ [Contract!Next]_(Contract!vars)
<1>1. Contract!vars = <<state, Active, Number, started>>
      /\ Contract!vars' = <<state, Active, Number, started>>'
  BY DEF Contract!vars, Active, Number, Numbering
<1>2. ASSUME NEW r \in Runs, ThreadStep(r) PROVE PlainInv' /\ [Contract!Next]_(Contract!vars)
  <2>1. /\ UNCHANGED <<started, Number>>
        /\ \/ UNCHANGED <<state, Active>>
           \/ Active # 0 /\ state' = "PRINTING" /\ UNCHANGED Active
           \/ Active # 0 /\ Active' = 0 /\ state' \in {"FINISHED", "STOPPED"}
    BY <1>2, ThreadImplements
  <2>2. Running /\ UNCHANGED <<started, job_ids, req, told>>
    BY <1>2, ThreadIsLatest
  <2>3. FoundIdle' /\ Numbered'
    BY <2>2 DEF PlainInv, FoundIdle, Finds, Numbered, Numbering
  <2>4. PlainInv' BY <2>3 DEF PlainInv, PlainStep
  <2> QED
    BY <1>1, <2>1, <2>4 DEF Contract!Next, Contract!Begins, Contract!Ends, Active, Number, Numbering
<1>3. ASSUME RequestStep PROVE PlainInv' /\ [Contract!Next]_(Contract!vars)
  <2>1. Contract!Next => [Contract!Next]_(Contract!vars) OBVIOUS
  <2> QED BY <1>1, <1>3, <2>1, RequestImplements
<1>4. CASE UNCHANGED vars
  <2>1. UNCHANGED <<state, Active, Number, started>>
    BY <1>4 DEF vars, simVars, Running, Alive, Active, Number, Numbering
  <2>2. PlainInv'
    BY <1>4 DEF vars, simVars, PlainInv, PlainStep, FoundIdle, Finds, Numbered, Numbering, Running, Alive
  <2> QED BY <1>1, <2>1, <2>2
<1> QED BY <1>2, <1>3, <1>4 DEF Next

\* For a plain caller the mock is the printer the backend assumes: it accepts one print
\* at a time and numbers it, and says FINISHED or STOPPED only as a print ends.
THEOREM Implements == CallersSpec => PlainImplementsContract
<1>1. CallersInit => IInv /\ (plain => alone /\ PlainInv) /\ (plain => Contract!Init)
  <2>1. Init => Contract!Init
    BY DEF Init, Contract!Init, Running, NoRequest
  <2> QED BY <2>1, InitIInv, PlainFirst DEF CallersInit
<1>2. IInv /\ (plain => alone /\ PlainInv) /\ [CallersNext]_callersVars
        => (IInv /\ (plain => alone /\ PlainInv))' /\ [plain => Contract!Next]_(Contract!vars)
  <2> SUFFICES ASSUME IInv, plain => alone /\ PlainInv, [CallersNext]_callersVars
               PROVE  (IInv /\ (plain => alone /\ PlainInv))' /\ [plain => Contract!Next]_(Contract!vars)
    OBVIOUS
  <2>1. [Next]_vars /\ UNCHANGED <<alone, plain>> BY DEF CallersNext, callersVars
  <2>2. IInv' BY <2>1, IInvKept
  <2>3. ASSUME plain PROVE PlainInv' /\ [Contract!Next]_(Contract!vars)
    <3>1. CASE CallersNext
      <4>1. PlainStep BY <2>3, <3>1 DEF CallersNext, PlainStep
      <4> QED BY <2>1, <2>2, <2>3, <4>1, StepImplements
    <3>2. CASE UNCHANGED callersVars
      <4>1. UNCHANGED vars /\ PlainStep
        BY <2>3, <3>2 DEF callersVars, vars, PlainInv, PlainStep, OneAtATime, AsksPlainly, WaitsLongEnough
      <4> QED BY <2>1, <2>2, <2>3, <4>1, StepImplements
    <3> QED BY <3>1, <3>2
  <2> QED BY <2>1, <2>2, <2>3
<1> QED BY <1>1, <1>2, PTL DEF CallersSpec, PlainImplementsContract

-----------------------------------------------------------------------------
(***************************************************************************)
(* One caller.  The number it is told, the number it names and the print   *)
(* it means stay together because nothing but its own requests starts a    *)
(* print; a number is behind the print only while the request that began   *)
(* the print has yet to raise it.                                          *)
(***************************************************************************)
\* The numbers that were told, and what the latest of them means.
ToldOK ==
  \A t \in told : t[2] # 0 /\ t[2] <= job_ids /\ (t[2] = job_ids => t[1] = started \/ Numbering)

\* What a request has seen is still so.
CallOK(c) ==
  /\ req[c].pc = "tell" => req[c].run = started /\ started # 0
  /\ req[c].pc = "id" => <<req[c].run, req[c].id>> \in told
  /\ req[c].pc \in {"check", "act"} => req[c].run \in {0, started}
  /\ req[c].pc = "body" => req[c].op \in {"print", "store"}
  /\ req[c].pc = "body" /\ req[c].op = "print" => ~Running
  /\ req[c].pc = "start" => req[c].op = "print" /\ ~Running /\ state # "FINISHED"

ToldInv ==
  /\ OneAtATime /\ ToldOK /\ NumbersNameOnePrint
  /\ started # 0 => job_ids # 0 \/ Numbering
  /\ \A c \in Clients : CallOK(c)
  /\ \A r \in Runs : thread[r] = "report" => r \in printed
  /\ FinishedWasPrinted

\* A step of the thread: it is the latest print's, so no request waits for an idle printer.
LEMMA ToldThread ==
  ASSUME IInv, ToldInv, OneAtATime', NEW r \in Runs, ThreadStep(r)
  PROVE  ToldInv'
<1>1. Alive(r) /\ UNCHANGED <<started, job_ids, req, told, stop, pause>>
  BY ThreadMoves DEF IInv
<1>2. r = started /\ Running
  BY <1>1, BoundsAssumption DEF IInv, LatestOnly, Running, Runs, TypeOK
<1>3. ToldOK' /\ NumbersNameOnePrint' /\ (started' # 0 => job_ids' # 0 \/ Numbering')
  BY <1>1 DEF ToldInv, ToldOK, NumbersNameOnePrint, Numbering
<1>4. \A c \in Clients : CallOK(c)'
  BY <1>1, <1>2 DEF ToldInv, CallOK
<1>5. thread \in [Runs -> ThreadSteps] BY DEF IInv, TypeOK
<1>6. (\A q \in Runs : thread'[q] = "report" => q \in printed') /\ FinishedWasPrinted'
  <2> USE <1>1, <1>2, <1>5 DEF ToldInv, FinishedWasPrinted, At
  <2>1. CASE ReportsPrinting(r) BY <2>1 DEF ReportsPrinting
  <2>2. CASE Warms(r) BY <2>2 DEF Warms
  <2>3. CASE Preheated(r) BY <2>3 DEF Preheated
  <2>4. CASE Prints(r) BY <2>4 DEF Prints
  <2>5. CASE LoopTop(r) BY <2>5 DEF LoopTop
  <2>6. CASE Ticks(r) BY <2>6 DEF Ticks
  <2>7. CASE Finishes(r) BY <2>7 DEF Finishes
  <2>8. CASE Consumes(r) BY <2>8 DEF Consumes
  <2>9. CASE ReportsFinished(r) BY <2>9 DEF ReportsFinished
  <2>10. CASE Stops(r) BY <2>10 DEF Stops
  <2>11. CASE ReportsStopped(r) BY <2>11 DEF ReportsStopped
  <2>12. CASE Exits(r) BY <2>12 DEF Exits
  <2> QED
    BY <2>1, <2>2, <2>3, <2>4, <2>5, <2>6, <2>7, <2>8, <2>9, <2>10, <2>11, <2>12 DEF ThreadStep
<1> QED BY <1>3, <1>4, <1>6 DEF ToldInv

\* A step of a request that starts no print, raises no number and tells none.
LEMMA ToldQuiet ==
  ASSUME IInv, ToldInv, OneAtATime', NEW c \in Clients,
         UNCHANGED <<started, thread, printed, told>>,
         job_ids' = job_ids \/ (job_ids = 0 /\ told = {} /\ started = 0),
         req[c].pc # "idle" \/ req'[c].pc # "idle", req[c].pc # "number",
         \A d \in Clients : d # c => req'[d] = req[d],
         CallOK(c)', state' # "FINISHED" \/ state' = state
  PROVE  ToldInv'
<1>1. /\ \A d \in Clients : d # c => req[d].pc = "idle" /\ req'[d].pc = "idle"
      /\ Numbering <=> req[c].pc = "number"
      /\ Numbering' <=> req'[c].pc = "number"
  BY OnlyCaller DEF ToldInv
<1>2. \A d \in Clients : CallOK(d)'
  BY <1>1 DEF CallOK
<1>3. ToldOK' /\ NumbersNameOnePrint' /\ (started' # 0 => job_ids' # 0 \/ Numbering')
  BY <1>1 DEF ToldInv, ToldOK, NumbersNameOnePrint
<1>4. (\A q \in Runs : thread'[q] = "report" => q \in printed') /\ FinishedWasPrinted'
  BY DEF ToldInv, FinishedWasPrinted
<1> QED BY <1>2, <1>3, <1>4 DEF ToldInv

LEMMA ToldRequest ==
  ASSUME IInv, ToldInv, OneAtATime', NEW c \in Clients,
         \/ AskFile(c) \/ Stores(c) \/ Starts(c) \/ Numbers(c)
         \/ AskStatus(c) \/ Tells(c)
         \/ \E action \in Actions : AskControl(c, action) \/ AskCommand(c, action)
         \/ MatchesId(c) \/ Checks(c) \/ Acts(c) \/ Answers(c)
         \/ AskReset(c) \/ Joins(c) \/ ClearsSnapshot(c)
  PROVE  ToldInv'
<1>0. /\ TypeOK /\ CallOK(c) /\ req[c].op # "connect" /\ req'[c].op # "connect"
      /\ req \in [Clients -> Request] /\ started \in Nat /\ job_ids \in Nat
  <2>1. TypeOK /\ CallOK(c) /\ OneAtATime BY DEF IInv, ToldInv
  <2>2. req[c].op # "connect" /\ req'[c].op # "connect" BY <2>1 DEF OneAtATime
  <2>3. req \in [Clients -> Request] /\ started \in Nat /\ job_ids \in Nat
    BY <2>1, BoundsAssumption DEF TypeOK, Request
  <2> QED BY <2>1, <2>2, <2>3
<1>1. CASE AskFile(c)
  <2>1. PICK op \in {"print", "store", "connect"}, pc \in {"body", "start"} : 
           Call(c, op, pc) /\ (op = "print" => ~Running) /\ (op # "connect" => pc = "body")
    BY <1>1 DEF AskFile
  <2>2. op \in AllOps /\ pc \in RequestSteps BY DEF AllOps, RequestSteps
  <2>3. /\ req'[c].op = op /\ req'[c].pc = pc /\ req[c].pc = "idle"
        /\ \A d \in Clients : d # c => req'[d] = req[d]
    BY <1>0, <2>1, <2>2, Called
  <2>4. UNCHANGED <<state, simVars, job_ids, told>> BY <1>1 DEF AskFile
  <2>5. CallOK(c)' BY <1>0, <2>1, <2>3, <2>4 DEF CallOK, simVars, Running, Alive
  <2> QED BY <2>3, <2>4, <2>5, ToldQuiet DEF simVars
<1>2. CASE Stores(c)
  <2>1. PICK to \in {"start", "idle", "number"} :
          Goes(c, "body", to) /\ (to = "start" => req[c].op = "print" /\ state' = "READY")
    BY <1>0, <1>2 DEF Stores, CallOK, Goes
  <2>2. /\ req[c].pc = "body" /\ req'[c].pc = to /\ (to # "idle" => req'[c].op = req[c].op)
        /\ \A d \in Clients : d # c => req'[d] = req[d]
    BY <1>0, <2>1, Gone DEF RequestSteps
  <2>3. UNCHANGED <<simVars, job_ids, told>> /\ state' # "FINISHED" BY <1>2 DEF Stores
  <2>4. CallOK(c)' BY <1>0, <2>1, <2>2, <2>3 DEF CallOK, simVars, Running, Alive
  <2> QED BY <2>2, <2>3, <2>4, ToldQuiet DEF simVars
<1>3. CASE Starts(c)
  <2>0. PICK to \in {"idle", "number"} : Goes(c, "start", to)
    BY <1>3 DEF Starts, Begins, Refuses
  <2>1. /\ req[c].pc = "start" /\ req'[c].pc = to
        /\ \A d \in Clients : d # c => req'[d] = req[d]
    BY <1>0, <2>0, Gone DEF RequestSteps
  <2>2. CASE Refuses(c)
    <3>1. UNCHANGED <<state, simVars, job_ids, told>> BY <2>2 DEF Refuses
    <3>2. CallOK(c)' BY <2>1 DEF CallOK
    <3> QED BY <2>1, <3>1, <3>2, ToldQuiet DEF simVars
  <2>3. CASE Begins(c)
    <3>1. /\ started' = started + 1 /\ thread' = [thread EXCEPT ![started + 1] = "begin"]
          /\ UNCHANGED <<state, printed, job_ids, told>> /\ Goes(c, "start", "number")
      BY <1>0, <2>1, <2>3 DEF Begins, CallOK
    <3>2. req'[c].pc = "number" BY <1>0, <3>1, Gone DEF RequestSteps
    <3>3. Numbering' BY <3>2 DEF Numbering
    <3>4. \A d \in Clients : d # c => req'[d].pc = "idle"
      BY <2>1, OnlyCaller DEF ToldInv
    <3>5. \A d \in Clients : CallOK(d)' BY <3>2, <3>4 DEF CallOK
    <3>6. ToldOK' /\ NumbersNameOnePrint' 
      BY <3>1, <3>3 DEF ToldInv, ToldOK, NumbersNameOnePrint
    <3>7. FinishedWasPrinted' BY <1>0, <2>1, <3>1 DEF CallOK, FinishedWasPrinted
    <3>8. \A q \in Runs : thread'[q] = "report" => q \in printed'
      BY <1>0, <3>1 DEF ToldInv, TypeOK
    <3> QED BY <3>3, <3>5, <3>6, <3>7, <3>8 DEF ToldInv
  <2> QED BY <1>3, <2>2, <2>3 DEF Starts
<1>4. CASE Numbers(c)
  <2>1. /\ req[c].pc = "number" /\ req'[c].pc = "idle"
        /\ \A d \in Clients : d # c => req'[d] = req[d]
    BY <1>0, <1>4, Gone DEF RequestSteps, Numbers
  <2>2. job_ids' = job_ids + 1 /\ UNCHANGED <<state, simVars, told>> BY <1>4 DEF Numbers
  <2>3. \A d \in Clients : d # c => req'[d].pc = "idle"
    BY <2>1, OnlyCaller DEF ToldInv
  <2>4. \A d \in Clients : CallOK(d)' BY <2>1, <2>3 DEF CallOK
  <2>5. \A t \in told : t[2] \in Nat BY <1>0 DEF TypeOK
  <2>6. ToldOK' BY <1>0, <2>2, <2>5 DEF ToldInv, ToldOK
  <2>7. NumbersNameOnePrint' BY <2>2 DEF ToldInv, NumbersNameOnePrint
  <2>8. job_ids' # 0 BY <1>0, <2>2
  <2> QED BY <2>2, <2>4, <2>6, <2>7, <2>8 DEF ToldInv, FinishedWasPrinted, simVars
<1>5. CASE AskStatus(c)
  <2>1. /\ req[c].pc = "idle" /\ Running
        /\ req' = [req EXCEPT ![c] = [op |-> "status", pc |-> "tell", id |-> 0, run |-> started]]
        /\ UNCHANGED <<state, simVars, job_ids, told>>
    BY <1>5 DEF AskStatus
  <2>2. req'[c].pc = "tell" /\ req'[c].run = started /\ \A d \in Clients : d # c => req'[d] = req[d]
    BY <1>0, <2>1
  <2>3. CallOK(c)' BY <2>1, <2>2 DEF CallOK, simVars, Running
  <2> QED BY <2>1, <2>2, <2>3, ToldQuiet DEF simVars
<1>6. CASE Tells(c)
  <2>1. /\ req[c].pc = "tell" /\ req'[c].pc = "idle"
        /\ \A d \in Clients : d # c => req'[d] = req[d]
    BY <1>0, <1>6, Gone DEF RequestSteps, Tells
  <2>2. req[c].run = started /\ started # 0 BY <1>0, <2>1 DEF CallOK
  <2>3. /\ \A d \in Clients : d # c => req'[d].pc = "idle"
        /\ ~Numbering /\ ~Numbering'
    BY <2>1, OnlyCaller DEF ToldInv
  <2>4. job_ids # 0 BY <2>2, <2>3 DEF ToldInv
  <2>5. /\ job_ids' = job_ids /\ told' = told \cup {<<started, job_ids>>}
        /\ UNCHANGED <<state, simVars>>
    BY <1>6, <2>2, <2>4 DEF Tells, SetDefault
  <2>6. \A d \in Clients : CallOK(d)' BY <2>1, <2>3 DEF CallOK
  <2>7. \A t \in told' : t \in told \/ (t[1] = started /\ t[2] = job_ids) BY <2>5
  <2>8. ToldOK' BY <1>0, <2>3, <2>4, <2>5, <2>7 DEF ToldInv, ToldOK, simVars
  <2>9. \A t \in told : t[2] = job_ids => t[1] = started
    BY <2>3 DEF ToldInv, ToldOK
  <2>10. NumbersNameOnePrint' BY <2>7, <2>9 DEF ToldInv, NumbersNameOnePrint
  <2> QED BY <2>4, <2>5, <2>6, <2>8, <2>10 DEF ToldInv, FinishedWasPrinted, simVars
<1>7. ASSUME NEW action \in Actions, AskControl(c, action) \/ AskCommand(c, action)
      PROVE  ToldInv'
  <2>1. req[c].pc = "idle" /\ UNCHANGED <<state, simVars, job_ids, told>>
    BY <1>7 DEF AskControl, AskCommand
  <2>2. CASE AskCommand(c, action)
    <3>1. /\ req'[c].pc = "check" /\ req'[c].run = 0
          /\ \A d \in Clients : d # c => req'[d] = req[d]
      BY <1>0, <2>2 DEF AskCommand
    <3>2. CallOK(c)' BY <3>1 DEF CallOK
    <3> QED BY <2>1, <3>1, <3>2, ToldQuiet DEF simVars
  <2>3. CASE AskControl(c, action)
    <3>1. PICK t \in told :
            req' = [req EXCEPT ![c] = [op |-> action, pc |-> "id", id |-> t[2], run |-> t[1]]]
      BY <2>3 DEF AskControl
    <3>2. /\ req'[c].pc = "id" /\ req'[c].run = t[1] /\ req'[c].id = t[2]
          /\ \A d \in Clients : d # c => req'[d] = req[d]
      BY <1>0, <3>1
    <3>3. t = <<t[1], t[2]>> BY <1>0 DEF TypeOK
    <3>4. CallOK(c)' BY <2>1, <3>2, <3>3 DEF CallOK
    <3> QED BY <2>1, <3>2, <3>4, ToldQuiet DEF simVars
  <2> QED BY <1>7, <2>2, <2>3
<1>8. CASE MatchesId(c)
  <2>1. PICK to \in {"check", "idle"} :
          Goes(c, "id", to) /\ (to = "check" => job_ids' = req[c].id)
    BY <1>8 DEF MatchesId
  <2>2. /\ req[c].pc = "id" /\ req'[c].pc = to /\ (to # "idle" => req'[c].run = req[c].run)
        /\ \A d \in Clients : d # c => req'[d] = req[d]
    BY <1>0, <2>1, Gone DEF RequestSteps
  <2>3. ~Numbering BY <2>2, OnlyCaller DEF ToldInv
  <2>4. <<req[c].run, req[c].id>> \in told BY <1>0, <2>2 DEF CallOK
  <2>5. /\ req[c].id # 0 /\ req[c].id <= job_ids /\ req[c].id \in Nat
        /\ req[c].id = job_ids => req[c].run = started
    BY <1>0, <2>3, <2>4 DEF ToldInv, ToldOK, Request
  <2>6. job_ids' = job_ids /\ UNCHANGED <<state, simVars, told>>
    BY <1>0, <1>8, <2>5 DEF MatchesId, SetDefault
  <2>7. CallOK(c)' BY <2>1, <2>2, <2>5, <2>6 DEF CallOK, simVars
  <2> QED BY <2>2, <2>6, <2>7, ToldQuiet DEF simVars
<1>9. CASE Checks(c)
  <2>1. PICK to \in {"act", "idle"} : Goes(c, "check", to)
    BY <1>9 DEF Checks
  <2>2. /\ req[c].pc = "check" /\ req'[c].pc = to /\ (to # "idle" => req'[c].run = req[c].run)
        /\ \A d \in Clients : d # c => req'[d] = req[d]
    BY <1>0, <2>1, Gone DEF RequestSteps
  <2>3. UNCHANGED <<state, simVars, job_ids, told>> BY <1>9 DEF Checks
  <2>4. CallOK(c)' BY <1>0, <2>2, <2>3 DEF CallOK, simVars
  <2> QED BY <2>2, <2>3, <2>4, ToldQuiet DEF simVars
<1>10. CASE Acts(c)
  <2>1. PICK to \in {"ready", "idle"} : Goes(c, "act", to)
    BY <1>10 DEF Acts
  <2>2. /\ req[c].pc = "act" /\ req'[c].pc = to
        /\ \A d \in Clients : d # c => req'[d] = req[d]
    BY <1>0, <2>1, Gone DEF RequestSteps
  <2>3. UNCHANGED <<state, started, thread, printed, job_ids, told>> BY <1>10 DEF Acts
  <2>4. CallOK(c)' BY <2>2 DEF CallOK
  <2> QED BY <2>2, <2>3, <2>4, ToldQuiet
<1>11. CASE Answers(c)
  <2>2. /\ req[c].pc = "ready" /\ req'[c].pc = "idle"
        /\ \A d \in Clients : d # c => req'[d] = req[d]
    BY <1>0, <1>11, Gone DEF RequestSteps, Answers
  <2>3. UNCHANGED <<simVars, job_ids, told>> /\ state' # "FINISHED" BY <1>11 DEF Answers
  <2>4. CallOK(c)' BY <2>2 DEF CallOK
  <2> QED BY <2>2, <2>3, <2>4, ToldQuiet DEF simVars
<1>12. CASE AskReset(c)
  <2>1. PICK pc \in {"join", "clear"} : Call(c, "reset", pc) BY <1>12 DEF AskReset
  <2>2. /\ req'[c].pc = pc /\ \A d \in Clients : d # c => req'[d] = req[d] /\ req[c].pc = "idle"
    BY <1>0, <2>1, Called DEF AllOps, RequestSteps
  <2>3. UNCHANGED <<state, started, thread, printed, job_ids, told>> BY <1>12 DEF AskReset
  <2>4. CallOK(c)' BY <2>2 DEF CallOK
  <2>5. req[c].pc = "idle" BY <2>1 DEF Call
  <2> QED BY <2>2, <2>3, <2>4, <2>5, ToldQuiet
<1>13. CASE Joins(c) \/ ClearsSnapshot(c)
  <2>1. PICK from \in {"join", "clear"}, to \in {"clear", "ready"} : Goes(c, from, to)
    BY <1>13 DEF Joins, ClearsSnapshot
  <2>2. /\ req[c].pc = from /\ req'[c].pc = to
        /\ \A d \in Clients : d # c => req'[d] = req[d]
    BY <1>0, <2>1, Gone DEF RequestSteps
  <2>3. UNCHANGED <<state, started, thread, printed, job_ids, told>>
    BY <1>13 DEF Joins, ClearsSnapshot, simVars
  <2>4. CallOK(c)' BY <2>2 DEF CallOK
  <2> QED BY <2>2, <2>3, <2>4, ToldQuiet
<1> QED
  BY <1>1, <1>2, <1>3, <1>4, <1>5, <1>6, <1>7, <1>8, <1>9, <1>10, <1>11, <1>12, <1>13

LEMMA ToldInit == Init => ToldInv
<1> SUFFICES ASSUME Init PROVE ToldInv OBVIOUS
<1>1. \A c \in Clients : req[c].pc = "idle" /\ req[c].op = "none" BY DEF Init, NoRequest
<1>2. OneAtATime /\ \A c \in Clients : CallOK(c) BY <1>1 DEF OneAtATime, CallOK
<1>3. told = {} /\ started = 0 /\ state # "FINISHED" /\ \A r \in Runs : thread[r] # "report"
  BY DEF Init
<1> QED BY <1>2, <1>3 DEF ToldInv, ToldOK, NumbersNameOnePrint, FinishedWasPrinted

LEMMA ToldKept == IInv /\ ToldInv /\ [Next]_vars /\ OneAtATime' => ToldInv'
<1> SUFFICES ASSUME IInv, ToldInv, [Next]_vars, OneAtATime' PROVE ToldInv' OBVIOUS
<1>1. ASSUME NEW r \in Runs, ThreadStep(r) PROVE ToldInv' BY <1>1, ToldThread
<1>2. CASE Fault
  <2>1. UNCHANGED <<simVars, job_ids, req, told>> /\ state' # "FINISHED" BY <1>2 DEF Fault
  <2> QED BY <2>1 DEF ToldInv, ToldOK, NumbersNameOnePrint, CallOK, Numbering,
                      FinishedWasPrinted, Running, Alive, simVars
<1>3. CASE UNCHANGED vars
  BY <1>3 DEF vars, simVars, ToldInv, ToldOK, NumbersNameOnePrint, CallOK, Numbering,
              FinishedWasPrinted, Running, Alive
<1> QED BY <1>1, <1>2, <1>3, ToldRequest DEF Next, RequestStep

\* With one caller what is told and asked stays in step with what is printed.
THEOREM ToldInvariant == CallersSpec => [](IInv /\ (alone => ToldInv))
<1>1. CallersInit => IInv /\ (alone => ToldInv)
  BY InitIInv, ToldInit DEF CallersInit
<1>2. IInv /\ (alone => ToldInv) /\ [CallersNext]_callersVars => (IInv /\ (alone => ToldInv))'
  <2> SUFFICES ASSUME IInv, alone => ToldInv, [CallersNext]_callersVars
               PROVE  IInv' /\ (alone' => ToldInv')
    OBVIOUS
  <2>1. [Next]_vars /\ alone' = alone BY DEF CallersNext, callersVars
  <2>2. IInv' BY <2>1, IInvKept
  <2>3. ASSUME alone PROVE ToldInv'
    <3>1. OneAtATime'
      <4>1. CASE CallersNext BY <2>3, <4>1 DEF CallersNext
      <4>2. CASE UNCHANGED callersVars
        BY <2>3, <4>2 DEF callersVars, vars, ToldInv, OneAtATime
      <4> QED BY <4>1, <4>2
    <3> QED BY <2>1, <2>3, <3>1, ToldKept
  <2> QED BY <2>1, <2>2, <2>3
<1> QED BY <1>1, <1>2, PTL DEF CallersSpec

\* One caller is never told one number of two prints, nor FINISHED of a print that
\* did not run to its end.
THEOREM AloneIsTold == CallersSpec => []AloneIsToldTheTruth
<1>1. IInv /\ (alone => ToldInv) => AloneIsToldTheTruth
  BY DEF IInv, ToldInv, AloneIsToldTheTruth
<1> QED BY <1>1, ToldInvariant, PTL

\* One caller's stop or pause is carried out on the print it named, and its file is not
\* stored while another print runs.
THEOREM AloneReaches == CallersSpec => AloneReachesItsPrint
<1>1. /\ IInv /\ (alone => ToldInv)
      /\ [CallersNext]_callersVars
      => [alone => ControlReachesItsPrint /\ BusyIsRefused]_callersVars
  <2> SUFFICES ASSUME alone, ToldInv
               PROVE  ControlReachesItsPrint /\ BusyIsRefused
    OBVIOUS
  <2>1. \A c \in Clients : CallOK(c) BY DEF ToldInv
  <2> QED BY <2>1 DEF CallOK, ControlReachesItsPrint, BusyIsRefused
<1> QED BY <1>1, ToldInvariant, PTL DEF CallersSpec, AloneReachesItsPrint
=============================================================================
