---------------------------------- MODULE Books ----------------------------------
(***************************************************************************)
(* What is kept about the farm, side by side: the filament of a mock       *)
(* printer, the queue page's plan of a farm, the reports, and the schema   *)
(* with its revisions.  They share no state: a behaviour is that of one    *)
(* book.                                                                   *)
(***************************************************************************)
EXTENDS Spools

CONSTANTS
    NumJobs, Printers, Users, Staff, Durations, Places, Anywhere, TICK, MaxTime, \* QueueSchedule
    Machines, Materials, Submitters, Departments, Tables, Filters, Grain, None,   \* Reports
    FirstNames, LastNames, LiveNames                                              \* Migrations

VARIABLES
    book,                             \* the one that is kept
    punctual, jobs, down, now, page,  \* QueueSchedule
    table, answers,                   \* Reports
    db, applied, refused              \* Migrations

Queue == INSTANCE QueueSchedule
Report == INSTANCE Reports WITH
    jobs <- table, page <- answers, Printers <- Machines, Users <- Submitters
Schema == INSTANCE Migrations

\* What the plan, the reports and the schema assume of their constants.
ASSUME BooksAssumption ==
    Queue!QueueAssumption /\ Report!ReportsAssumption /\ Schema!MigrationsAssumption

planVars == <<punctual, jobs, down, now, page>>
reportVars == <<table, answers>>
schemaVars == <<db, applied, refused>>
booksVars == <<book, planVars, reportVars, schemaVars, vars>>

NoPlan == punctual = "" /\ jobs = "" /\ down = "" /\ now = "" /\ page = ""
NoReport == table = "" /\ answers = ""
NoSchema == db = "" /\ applied = "" /\ refused = ""

BooksInit ==
    \/ book = "spools" /\ Init /\ NoPlan /\ NoReport /\ NoSchema
    \/ book = "plan" /\ Init /\ Queue!Init /\ NoReport /\ NoSchema
    \/ book = "reports" /\ Init /\ NoPlan /\ Report!Init /\ NoSchema
    \/ book = "schema" /\ Init /\ NoPlan /\ NoReport /\ Schema!Init

MovesFilament ==
    book = "spools" /\ Next /\ UNCHANGED <<book, planVars, reportVars, schemaVars>>
Plans ==
    book = "plan" /\ Queue!Next /\ UNCHANGED <<book, vars, reportVars, schemaVars>>
Answers ==
    book = "reports" /\ Report!Next /\ UNCHANGED <<book, vars, planVars, schemaVars>>
Revises ==
    book = "schema" /\ Schema!Next /\ UNCHANGED <<book, vars, planVars, reportVars>>

BooksNext == MovesFilament \/ Plans \/ Answers \/ Revises

BooksSpec == BooksInit /\ [][BooksNext]_booksVars

----------------------------------------------------------------------------------
(* What each book promises, while it is the one that is kept *)

\* compute_queue_schedule plans one print at a time, in the order of submission, nothing
\* in the past, and no printer idle while a job could run; refresh_queue_estimates leaves
\* no estimate of a job that nothing can print now; and the page shows a duration within
\* half a minute.
PlanIsSound == book = "plan" =>
    /\ Queue!TypeOK /\ Queue!OneAtATimeInOrder /\ Queue!NothingInThePast /\ Queue!NoIdlePlan
    /\ Queue!NoStaleEstimate /\ Queue!ShownIsClose

\* What is said of the queue stays so: in a punctual farm no estimate changes between
\* submission and end, and a filter on the past does not change the queue that a report shows.
PromisesKept == [][
    /\ book = "plan" => Queue!PromisesKept
    /\ book = "reports" => Report!QueueIsLive]_booksVars

\* What is computed in several places agrees: the tabs, the charts and the cards, the
\* days, and the farm's revenue with what the students are charged.  A job counts with
\* what it did take, and prices grow with the time and do not jump.
ReportsAgree == book = "reports" =>
    /\ Report!TabsAgree /\ Report!ChartsAgree /\ Report!DaysPartition
    /\ Report!ActualCounts /\ Report!RevenueIsWhatIsCharged /\ Report!PriceIsProRated

\* At the head the schema is the models', and no job keeps a status the applied
\* revisions do not know.
SchemaIsSound == book = "schema" =>
    Schema!TypeOK /\ Schema!HeadIsModels /\ Schema!StatusesFitTheRevisions

\* Every path of revisions goes through, but for a downgrade of uploads, and keeps the
\* users' names.
RevisionsKeepTheData == [][book = "schema" =>
    Schema!RefusedOnlyForUploads /\ Schema!NamesSurvive]_booksVars
==================================================================================
