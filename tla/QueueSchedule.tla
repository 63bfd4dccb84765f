---------------------------- MODULE QueueSchedule -----------------------------
(***************************************************************************)
(* The queue page: when each job that waits or prints is thought to start  *)
(* and to end (job_service.py).  Every look at the page, and every         *)
(* submission, computes the schedule of the whole farm anew and stores it  *)
(* with the jobs.                                                          *)
(*                                                                         *)
(* Around it the farm runs: jobs are submitted, printers start what comes  *)
(* first in their queues, prints end, printers go down.  When the farm is  *)
(* punctual, every job is given its printer when it is submitted, no       *)
(* printer goes down, and every print starts as soon as its printer is     *)
(* free and takes the time it was thought to; else anything may be late, a *)
(* paused print too: the schedule does not look at paused_at.  PrintFarm   *)
(* has the detail.                                                         *)
(*                                                                         *)
(* Time is in seconds.  A job's number is its place in the order of        *)
(* submission.  Two prints are never on one printer (PrintFarm).           *)
(***************************************************************************)
EXTENDS Integers, FiniteSets

CONSTANTS
  NumJobs, Printers,
  Users, Staff,        \* those who look at the page, and which of them are no students
  Durations,           \* values of est_duration_min, 0 if it is missing
  Places,              \* the printers a job may be submitted to, and Anywhere if some are not assigned
  Anywhere,
  TICK, MaxTime        \* the step and the bound of the clock

\* What the constants are.
QueueAssumption ==
  /\ NumJobs \in Nat /\ TICK \in Nat /\ MaxTime \in Nat
  /\ IsFiniteSet(Printers) /\ Anywhere \notin Printers /\ Places \subseteq Printers \cup {Anywhere}
  /\ Users # {} /\ Durations \subseteq Nat

Jobs == 1..NumJobs
DEFAULT_DURATION == 30 * 60
OVERRUN_GRACE == 5 * 60
Nothing == [start |-> -1, completion |-> -1]   \* (None, None)

NoPage == [at |-> 0, by |-> "", down |-> {}, tiles |-> <<>>]

VARIABLES
  punctual,
  jobs,   \* per job: status, printer, owner, duration, when it started, and its estimate
  down,   \* the printers in _UNASSIGNABLE_STATUSES
  now,
  page    \* the page that is answered: when, to whom, what was down, and the tiles by job

vars == <<punctual, jobs, down, now, page>>

With(status) == {j \in Jobs : jobs[j].status = status}

Init ==
  /\ punctual \in BOOLEAN
  /\ jobs = [j \in Jobs |-> [status |-> "none", printer |-> Anywhere, owner |-> CHOOSE u \in Users : TRUE,
                             duration |-> 0, started |-> 0, est |-> Nothing]]
  /\ down = {} /\ now = 0 /\ page = NoPage

-----------------------------------------------------------------------------
(***************************************************************************)
(* compute_queue_schedule, for a table of jobs and the printers in the     *)
(* order the database gives them.                                          *)
(***************************************************************************)
Duration(job) == IF job.duration # 0 THEN job.duration ELSE DEFAULT_DURATION

Runs(job) ==
  LET end == job.started + Duration(job) IN
  [start |-> job.started, completion |-> IF end < now THEN now + OVERRUN_GRACE ELSE end]

\* When a printer is free of what it prints.
FreeAt(table, p) ==
  LET ends == {Runs(table[j]).completion : j \in {k \in Jobs : table[k].status = "printing" /\ table[k].printer = p}}
  IN CHOOSE t \in ends \cup {now} : \A s \in ends \cup {now} : s <= t

\* The places in the order of the printers that are up.
Up(order) == {i \in DOMAIN order : order[i] \notin down}

\* Mutant: any printer that is up, not the one that is free first.
ChosenFirst(job, free, order) ==
  IF job.printer # Anywhere THEN {job.printer}
  ELSE {order[i] : i \in {k \in Up(order) : \A l \in Up(order) : k <= l}}

\* The job's printer, else of those that are up the first that is free first, if any is up.
Chosen(job, free, order) ==
  IF job.printer # Anywhere THEN {job.printer}
  ELSE LET First(i) ==
             \A k \in Up(order) : \/ free[order[i]] < free[order[k]]
                                  \/ free[order[i]] = free[order[k]] /\ i <= k
       IN {order[i] : i \in {k \in Up(order) : First(k)}}

\* Mutant: the printer stays free.
PlaceFree(table, s, j, order) ==
  LET chosen == Chosen(table[j], s.free, order) IN
  IF chosen = {} THEN s
  ELSE LET p == CHOOSE q \in chosen : TRUE
           end == s.free[p] + Duration(table[j]) IN
       [free |-> s.free, plan |-> [s.plan EXCEPT ![j] = [start |-> s.free[p], completion |-> end]]]

\* One waiting job: it starts when its printer is free, and then the printer is not.
Place(table, s, j, order) ==
  LET chosen == Chosen(table[j], s.free, order) IN
  IF chosen = {} THEN s
  ELSE LET p == CHOOSE q \in chosen : TRUE
           end == s.free[p] + Duration(table[j]) IN
       [free |-> [s.free EXCEPT ![p] = end],
        plan |-> [s.plan EXCEPT ![j] = [start |-> s.free[p], completion |-> end]]]

\* The jobs that wait are placed in the order of submission.
compute_queue_schedule(table, order) ==
  LET upTo[j \in 0..NumJobs] ==
        IF j = 0
          THEN [free |-> [p \in Printers |-> FreeAt(table, p)],
                plan |-> [k \in Jobs |-> IF table[k].status = "printing" THEN Runs(table[k]) ELSE Nothing]]
        ELSE IF table[j].status = "queued" THEN Place(table, upTo[j - 1], j, order)
        ELSE upTo[j - 1]
  IN upTo[NumJobs].plan

Orders == {o \in [1..Cardinality(Printers) -> Printers] : \A i, k \in DOMAIN o : o[i] = o[k] => i = k}

\* refresh_queue_estimates: what is not active keeps its last estimate.
Refreshed(table, order) ==
  LET plan == compute_queue_schedule(table, order) IN
  [j \in Jobs |-> IF table[j].status \in {"queued", "printing"}
                    THEN [table[j] EXCEPT !.est = plan[j]] ELSE table[j]]

\* _format_duration: hours, minutes and seconds; the minutes are rounded apart from the hours.
RoundMinutes(s) ==
  LET q == s \div 60  r == s % 60 IN IF r < 30 \/ (r = 30 /\ q % 2 = 0) THEN q ELSE q + 1

_format_duration(d) ==
  IF d < 3600 THEN [h |-> 0, m |-> d \div 60, s |-> d % 60]
  ELSE [h |-> d \div 3600, m |-> RoundMinutes(d % 3600), s |-> 0]

Tile(job) ==
  [status |-> job.status, printer |-> job.printer, owner |-> job.owner,
   start |-> job.est.start, completion |-> job.est.completion,
   formatted |-> _format_duration(job.duration), duration_is_default |-> job.duration = 0]

\* A student sees the student's own jobs, staff see all.
get_print_queue(u) ==
  \E order \in Orders :
    /\ jobs' = Refreshed(jobs, order)
    /\ page' = [at |-> now, by |-> u, down |-> down,
                tiles |-> [j \in {k \in With("queued") \cup With("printing") : u \in Staff \/ jobs[k].owner = u} |->
                             Tile(jobs'[j])]]
    /\ UNCHANGED <<punctual, down, now>>

-----------------------------------------------------------------------------
(***************************************************************************)
(* The farm around it.                                                     *)
(***************************************************************************)
\* The tail of submit_job: the job is stored, and the estimates are made anew.
Submit ==
  /\ \E j \in With("none"), p \in Places, u \in Users \ Staff, d \in Durations, order \in Orders :
       /\ \A k \in With("none") : j <= k
       /\ p \notin down /\ (punctual => p # Anywhere)
       /\ jobs' = Refreshed([jobs EXCEPT ![j].status = "queued", ![j].printer = p,
                                         ![j].owner = u, ![j].duration = d], order)
  /\ page' = NoPage /\ UNCHANGED <<punctual, down, now>>

Busy(p) == \E j \in With("printing") : jobs[j].printer = p

FirstOf(p) == {j \in With("queued") : jobs[j].printer = p
                                     /\ \A k \in With("queued") : jobs[k].printer = p => j <= k}

\* dispatch: the first of a printer's queue.
Starts ==
  /\ \E p \in Printers \ down : ~Busy(p) /\ \E j \in FirstOf(p) :
       jobs' = [jobs EXCEPT ![j].status = "printing", ![j].started = now]
  /\ page' = NoPage /\ UNCHANGED <<punctual, down, now>>

OnTime(j) == now = jobs[j].started + Duration(jobs[j])

Ends ==
  /\ \E j \in With("printing") : (punctual => OnTime(j)) /\ jobs' = [jobs EXCEPT ![j].status = "done"]
  /\ page' = NoPage /\ UNCHANGED <<punctual, down, now>>

PrinterStatus ==
  /\ ~punctual /\ \E p \in Printers : down' = (IF p \in down THEN down \ {p} ELSE down \cup {p})
  /\ page' = NoPage /\ UNCHANGED <<punctual, jobs, now>>

\* Nothing that is due is left when a punctual farm's clock goes on, and no end is passed.
Tick ==
  /\ now + TICK <= MaxTime /\ now' = now + TICK
  /\ punctual => /\ \A j \in With("printing") : now' <= jobs[j].started + Duration(jobs[j])
                 /\ \A p \in Printers : Busy(p) \/ FirstOf(p) = {}
  /\ page' = NoPage /\ UNCHANGED <<punctual, jobs, down>>

Next == (\E u \in Users : get_print_queue(u)) \/ Submit \/ Starts \/ Ends \/ PrinterStatus \/ Tick

Spec == Init /\ [][Next]_vars

-----------------------------------------------------------------------------
(***************************************************************************)
(* Properties.                                                             *)
(***************************************************************************)
Tiles == DOMAIN page.tiles
Planned == {j \in Tiles : page.tiles[j].start # -1}

\* The records of the jobs have their types, and an estimate ends after it starts.
TypeOK ==
  /\ \A j \in Jobs :
       /\ jobs[j].status \in {"none", "queued", "printing", "done"}
       /\ jobs[j].printer \in Printers \cup {Anywhere} /\ jobs[j].owner \in Users
       /\ jobs[j].est = Nothing \/ jobs[j].est.start < jobs[j].est.completion
  /\ down \subseteq Printers /\ now \in 0..MaxTime

\* A page plans one print at a time for a printer, in the order of submission: of two jobs
\* that wait for one printer the earlier ends before the later starts, and none starts
\* before what prints there is thought to end (compute_queue_schedule).
OneAtATimeInOrder ==
  \A j, k \in Planned :
    LET a == page.tiles[j]  b == page.tiles[k] IN
    a.printer = b.printer /\ a.printer # Anywhere /\ b.status = "queued"
      /\ (a.status = "printing" \/ (a.status = "queued" /\ j < k))
    => a.completion <= b.start

\* A page promises nothing for the past: whatever waits starts at the time of the page or
\* later, and whatever prints, overdue or not, ends then or later.
NothingInThePast ==
  \A j \in Planned :
    /\ page.tiles[j].completion >= page.at
    /\ page.tiles[j].status = "queued" => page.tiles[j].start >= page.at

\* No printer is planned to stand idle while a job could run on it: a job starts at the time
\* of the page or when another ends, and one that any printer may take starts no later than
\* the work known to be ahead of it, shared among the printers, could let it.
NoIdlePlan ==
  page.by \in Staff =>
    \A j \in Planned : page.tiles[j].status = "queued" /\ page.tiles[j].start > page.at =>
      /\ \E k \in Planned : page.tiles[k].completion = page.tiles[j].start
      /\ page.tiles[j].printer = Anywhere =>
           \E S \in SUBSET (Planned \ {j}) :
             /\ Cardinality(S) = Cardinality(Printers \ page.down)
             /\ \A k \in S : page.tiles[k].completion >= page.tiles[j].start

\* No estimate is older than the page, and none is missing: what no printer can be found for
\* has none, also when there was one before the printers went down, and whatever else waits or
\* prints has one (refresh_queue_estimates).
NoStaleEstimate ==
  \A j \in Tiles :
    page.tiles[j].start = -1 <=>
      page.tiles[j].printer = Anywhere /\ page.tiles[j].status = "queued" /\ page.down = Printers

\* A step: in a farm that is punctual every promise is kept: from its submission to its end the
\* estimate of a job never changes, whatever is submitted after it and whenever anybody
\* looks, so the schedule's order is the dispatcher's.
PromisesKept ==
  punctual => \A j \in Jobs : jobs[j].est # Nothing => jobs'[j].est = jobs[j].est

IsClose(d) ==
  LET f == _format_duration(d)
      off == d - (3600 * f.h + 60 * f.m + f.s) IN
  off \in -30 .. 30 /\ (d < 3600 => off = 0)

\* _format_duration: what a tile shows is within half a minute of the duration, and exact
\* below an hour, though 1 h 59 min 40 s is shown as one hour and sixty minutes.
ShownIsClose == \A d \in 0 .. 3 * 3600 : IsClose(d)
=============================================================================
