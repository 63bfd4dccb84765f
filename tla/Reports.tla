------------------------------- MODULE Reports --------------------------------
(***************************************************************************)
(* The five usage reports and their filters (report_service.py,            *)
(* api/v1/reports.py), the farm statistics and the history with its costs  *)
(* (job_service.py, pricing_service.py), over a table of print jobs.  The  *)
(* staff page asks for all of them with one filter.                        *)
(*                                                                         *)
(* The times and the filament of a table are floats: they are counted in   *)
(* parts of a minute and of a gram, Grain of them to the one, as the       *)
(* floats of any table can be.  What is answered is rounded where round()  *)
(* is: hours, grams and money are in hundredths, percentages and minutes   *)
(* in tenths, the grams of a day whole.  The last bit of a sum of floats,  *)
(* which may decide a tie, is left out.                                    *)
(* A value that is missing is 0, as `or` has it; a day is a day of         *)
(* submission, and from_date and to_date are its first and last moments.   *)
(***************************************************************************)
EXTENDS Integers, FiniteSets, Functions

CONSTANTS
  Printers, Materials, Users, Departments,
  Tables,    \* the job tables to report on: sets of records
  Filters,   \* the filters to apply
  Grain,     \* how many parts a minute and a gram are counted in
  None       \* no printer, no material, no department; a filter that is not set

Statuses == {"pending_selection", "submitted", "queued", "printing", "completed", "failed",
             "removed", "ready_for_collection"}

Jobs ==
  [id : Nat, printer : Printers \cup {None}, material : Materials \cup {None}, user : Users,
   department : Departments \cup {None}, day : Nat, status : Statuses,
   est_duration : Nat, actual_duration : Nat, est_filament : Nat, actual_filament : Nat]

\* The tables hold jobs, and a filter that is not set is none of what may be asked for.
ReportsAssumption ==
  /\ Grain \in Nat \ {0}
  /\ IsFiniteSet(Printers) /\ IsFiniteSet(Users) /\ None \notin Printers /\ None \notin Nat
  /\ \A T \in Tables : IsFiniteSet(T) /\ T \subseteq Jobs
  /\ Filters \subseteq [from : Nat \cup {None}, to : Nat \cup {None},
                       printer : Printers \cup {None}, department : Departments \cup {None},
                       status : Statuses \cup {None}]

VARIABLES
  jobs,      \* the print_jobs table
  page       \* the answers to the requests of one Apply

vars == <<jobs, page>>

Init == jobs \in Tables /\ page = [filter |-> None]

_COMPLETED == {"completed", "ready_for_collection"}
_ACTIVE == {"submitted", "queued", "printing"}
_CANCELLED == {"removed"}

\* a / b rounded as round() does, a tie to the even neighbour.
RoundDiv(a, b) ==
  LET q == a \div b  rest == a - b * q IN
  IF 2 * rest < b \/ (2 * rest = b /\ q % 2 = 0) THEN q ELSE q + 1

Total(S, Of(_)) == SumFunction([j \in S |-> Of(j)])
With(S, statuses) == {j \in S : j.status \in statuses}

\* _apply_filters; material_id and user_id are like printer_id.
Selected(f) ==
  {j \in jobs :
     /\ f.from = None \/ j.day >= f.from
     /\ f.to = None \/ j.day <= f.to
     /\ f.printer = None \/ j.printer = f.printer
     /\ f.department = None \/ j.department = f.department
     /\ f.status = None \/ j.status = f.status}

Dur(j) == IF j.actual_duration # 0 THEN j.actual_duration ELSE j.est_duration
Fil(j) == IF j.actual_filament # 0 THEN j.actual_filament ELSE j.est_filament
Hours(S) == RoundDiv(100 * Total(S, Dur), 60 * Grain)
Grams(S) == RoundDiv(100 * Total(S, Fil), Grain)
Days(S) == {j.day : j \in S}

-----------------------------------------------------------------------------
(***************************************************************************)
(* The five reports.                                                       *)
(***************************************************************************)
Label(s) ==
  IF s \in _COMPLETED THEN "completed" ELSE IF s \in _CANCELLED THEN "cancelled"
  ELSE IF s \in _ACTIVE THEN "active" ELSE s

get_overall_usage(f) ==
  LET S == Selected(f)  n == Cardinality(S)  done == Cardinality(With(S, _COMPLETED)) IN
  [total_jobs |-> n, completed_jobs |-> done,
   failed_jobs |-> Cardinality(With(S, {"failed"})),
   cancelled_jobs |-> Cardinality(With(S, _CANCELLED)),
   active_queued_jobs |-> Cardinality(With(S, _ACTIVE)),
   success_rate |-> IF n > 0 THEN RoundDiv(1000 * done, n) ELSE 0,
   hours |-> Hours(S), filament |-> Grams(S),
   avg_duration |-> IF n > 0 THEN RoundDiv(10 * Total(S, Dur), n * Grain) ELSE 0,
   jobs_over_time |-> [d \in Days(S) |-> Cardinality({j \in S : j.day = d})],
   breakdown |-> [l \in {Label(j.status) : j \in S} |->
                    Cardinality({j \in S : Label(j.status) = l})]]

\* What every row of a report has.
Row(S) ==
  [total_jobs |-> Cardinality(S), completed_jobs |-> Cardinality(With(S, _COMPLETED)),
   failed_jobs |-> Cardinality(With(S, {"failed"})), hours |-> Hours(S), filament |-> Grams(S)]

\* The share is of the printer's rounded hours in the farm's, which are not rounded.
Share(hours, minutes) == IF minutes > 0 THEN RoundDiv(600 * Grain * hours, minutes) ELSE 0

get_printer_report(f) ==
  LET S == Selected(f) IN
  [p \in Printers |->
     LET P == {j \in S : j.printer = p} IN
     [row |-> Row(P), share |-> Share(Hours(P), Total(S, Dur)),
      queue_length |-> Cardinality({j \in With(jobs, _ACTIVE) : j.printer = p})]]

\* Mutant: a day is the sum of what its jobs are rounded to.
MaterialsByJob(f) ==
  LET S == Selected(f) IN
  [materials |-> [m \in Materials |->
     LET M == {j \in S : j.material = m} IN
     [total_jobs |-> Cardinality(M), filament |-> Grams(M)]],
   over_time |-> [d \in Days(S) |->
     Total({j \in S : j.day = d}, LAMBDA j : RoundDiv(Fil(j), Grain))]]

get_material_report(f) ==
  LET S == Selected(f) IN
  [materials |-> [m \in Materials |->
     LET M == {j \in S : j.material = m} IN
     [total_jobs |-> Cardinality(M), filament |-> Grams(M)]],
   over_time |-> [d \in Days(S) |-> RoundDiv(Total({j \in S : j.day = d}, Fil), Grain)]]

get_user_report(f) ==
  LET S == Selected(f) IN
  [u \in {j.user : j \in S} |-> Row({j \in S : j.user = u})]

DepartmentOf(j) == IF j.department = None THEN "General" ELSE j.department

get_department_report(f) ==
  LET S == Selected(f) IN
  [d \in {DepartmentOf(j) : j \in S} |-> Row({j \in S : DepartmentOf(j) = d})]

-----------------------------------------------------------------------------
(***************************************************************************)
(* Costs, the history and the farm statistics.                             *)
(***************************************************************************)
calculate_print_cost(minutes) ==
  IF minutes <= 0 THEN 0 ELSE IF minutes <= 60 * Grain THEN 200
  ELSE 200 + RoundDiv(50 * (minutes - 60 * Grain), 60 * Grain)

Finished == {"completed", "failed", "ready_for_collection", "removed"}

\* What a user sees: a student, the jobs that are the student's.
get_print_history(u, isStudent) ==
  {[job |-> j, cost |-> calculate_print_cost(Dur(j))] :
     j \in {k \in With(jobs, Finished) : isStudent => k.user = u}}

Cost(j) == calculate_print_cost(Dur(j))
Charged == _COMPLETED \cup {"removed"}

get_farm_statistics ==
  [total_jobs |-> Cardinality(jobs), completed_jobs |-> Cardinality(With(jobs, Charged)),
   failed_jobs |-> Cardinality(With(jobs, {"failed"})),
   active_queued_jobs |-> Cardinality(With(jobs, _ACTIVE)),
   revenue |-> Total(With(jobs, Charged), Cost), hours |-> Hours(jobs), filament |-> Grams(jobs),
   printers |-> [p \in Printers |->
     LET P == {j \in jobs : j.printer = p} IN
     [total_jobs |-> Cardinality(P), hours |-> Hours(P), share |-> Share(Hours(P), Total(jobs, Dur))]],
   materials |-> [m \in Materials |->
     LET M == {j \in jobs : j.material = m} IN
     [total_jobs |-> Cardinality(M), filament |-> Grams(M)]],
   departments |-> [d \in {DepartmentOf(j) : j \in With(jobs, Charged)} |->
     LET D == {j \in With(jobs, Charged) : DepartmentOf(j) = d} IN
     [total_jobs |-> Cardinality(D), revenue |-> Total(D, Cost)]]]

-----------------------------------------------------------------------------
(***************************************************************************)
(* The staff page: one filter, all the answers.                            *)
(***************************************************************************)
Apply(f) ==
  page' = [filter |-> f,
           usage |-> get_overall_usage(f), printers |-> get_printer_report(f),
           materials |-> get_material_report(f), users |-> get_user_report(f),
           departments |-> get_department_report(f),
           statistics |-> get_farm_statistics,
           history |-> [u \in Users |-> get_print_history(u, TRUE)]]

Next == (\E f \in Filters : Apply(f)) /\ UNCHANGED jobs

Spec == Init /\ [][Next]_vars

-----------------------------------------------------------------------------
(***************************************************************************)
(* Properties.                                                             *)
(***************************************************************************)
Shown == "usage" \in DOMAIN page
SumOver(report, Of(_)) == Total(DOMAIN report, LAMBDA k : Of(report[k]))
RowTotal(r) == r.total_jobs
RowFilament(r) == r.filament
RowHours(r) == r.hours
RowDone(r) == r.completed_jobs + r.failed_jobs

\* x and y differ by at most n halves.
HalvesApart(x, y, n) == 2 * (x - y) <= n /\ 2 * (y - x) <= n

\* The tabs agree: the jobs and the finished ones of the departments' rows and of the users'
\* rows add up to those of the overall report, whatever the filter, and the printers' rows to
\* what is left without the jobs that have no printer.  The hours and the filament do up to
\* what is rounded: each row and the total by half a hundredth.
TabsAgree ==
  Shown =>
    LET all == page.usage IN
    /\ \A report \in {page.users, page.departments} :
         LET n == Cardinality(DOMAIN report) IN
         /\ SumOver(report, RowTotal) = all.total_jobs
         /\ SumOver(report, RowDone) = all.completed_jobs + all.failed_jobs
         /\ HalvesApart(SumOver(report, RowFilament), all.filament, n + 1)
         /\ HalvesApart(SumOver(report, RowHours), all.hours, n + 1)
    /\ SumOver(page.printers, LAMBDA r : r.row.total_jobs)
         + Cardinality({j \in Selected(page.filter) : j.printer = None}) = all.total_jobs

\* The charts and the cards show the same jobs: the days and the slices add up to the total,
\* and the slices "completed", "active" and "cancelled" are the cards of those names.
\* "Rounded series may differ slightly from totals": the days' grams by half a gram a day, for
\* a day's jobs are added up before they are rounded.
ChartsAgree ==
  Shown =>
    LET all == page.usage
        series == page.materials.over_time
        Slice(l) == IF l \in DOMAIN all.breakdown THEN all.breakdown[l] ELSE 0 IN
    /\ SumOver(all.jobs_over_time, LAMBDA n : n) = all.total_jobs
    /\ SumOver(all.breakdown, LAMBDA n : n) = all.total_jobs
    /\ Slice("completed") = all.completed_jobs /\ Slice("active") = all.active_queued_jobs
    /\ Slice("cancelled") = all.cancelled_jobs /\ Slice("failed") = all.failed_jobs
    /\ HalvesApart(100 * SumOver(series, LAMBDA g : g), all.filament,
                   100 * Cardinality(DOMAIN series) + 1)

\* Without a filter on the days a report covers what reports on every single day cover: no
\* job falls between two days or on both.
DaysPartition ==
  Shown /\ page.filter.from = None /\ page.filter.to = None =>
    Total(Days(jobs),
          LAMBDA d : Cardinality(Selected([page.filter EXCEPT !.from = d, !.to = d])))
      = page.usage.total_jobs

\* A step: another filter never shows another queue: how many wait or run at a printer is live,
\* whatever of the past the page shows (get_printer_report).
QueueIsLive ==
  Shown => \A p \in Printers :
    page'.printers[p].queue_length = page.printers[p].queue_length

\* What a job did cost counts, not what it was thought to: a job of which both are known
\* counts with the actual time on every tab and in the history.
ActualCounts ==
  Shown /\ (\A j \in jobs : j.actual_duration # 0) =>
    page.statistics.hours = RoundDiv(100 * Total(jobs, LAMBDA j : j.actual_duration), 60 * Grain)

\* The revenue is the sum of the departments', and for jobs that have run to the end it is
\* what their students see in their histories.
RevenueIsWhatIsCharged ==
  Shown =>
    /\ SumOver(page.statistics.departments, LAMBDA d : d.revenue) = page.statistics.revenue
    /\ page.statistics.revenue =
         Total(Users, LAMBDA u : Total({h \in page.history[u] : h.job.status # "failed"},
                                       LAMBDA h : h.cost))

\* "$2.00 for the first hour + $0.50 for each additional hour (pro-rated)": a longer print
\* never costs less, and the price does not jump: an hour more costs at most what one costs.
PriceIsProRated ==
  \A j, k \in jobs :
    /\ Dur(j) <= Dur(k) => Cost(j) <= Cost(k)
    /\ 0 < Dur(j) /\ Dur(j) <= Dur(k) =>
         60 * Grain * (Cost(k) - Cost(j)) <= 50 * (Dur(k) - Dur(j)) + 60 * Grain
=============================================================================
