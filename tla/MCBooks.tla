------------------------------- MODULE MCBooks -------------------------------
(***************************************************************************)
(* Small books: two toolheads and files that use them in every way, a      *)
(* queue of three jobs where anything may be late and of four in a farm    *)
(* that is punctual, tables of up to three jobs, and users with names of   *)
(* one, two and three words.                                               *)
(***************************************************************************)
EXTENDS Books, Sequences, TLC

CONSTANTS two, one, loose, bare, p1, p2, anywhere

\* Two toolheads.  A file for both with a weight of each, a file for tool 1 with
\* a single weight, one for both with a single weight, and one that names none.
MCUsedTools == [f \in Files |-> IF f = one THEN {1} ELSE IF f = bare THEN {} ELSE {0, 1}]
MCWeight == [f \in Files |-> IF f = two THEN [each |-> [s \in Slots |-> s + 1]] ELSE [all |-> 2]]

\* Ten jobs that differ in status, place, day and in what is known of them.  Their minutes
\* are whole; half a gram a minute is used and three parts of a gram more.
Used(minutes) == IF minutes = 0 THEN 0 ELSE (Grain * minutes) \div 2 + 3

Job(id, printer, user, dept, day, status, est, act) ==
    [id |-> id, printer |-> printer, material |-> IF printer = None THEN None ELSE "pla",
     user |-> user, department |-> dept, day |-> day, status |-> status,
     est_duration |-> Grain * est, actual_duration |-> Grain * act,
     est_filament |-> Used(est), actual_filament |-> Used(act)]

SampleJobs ==
    {Job(1, "a", "u", "me", 1, "completed", 90, 96),
     Job(2, "b", "u", "ee", 1, "ready_for_collection", 120, 132),
     Job(3, "a", "v", "me", 1, "failed", 60, 30), Job(4, "b", "v", None, 2, "removed", 45, 0),
     Job(5, "a", "v", "me", 2, "queued", 30, 0), Job(6, "b", "u", None, 2, "printing", 0, 0),
     Job(7, None, "u", "ee", 2, "pending_selection", 0, 0),
     Job(8, None, "v", "ee", 2, "submitted", 0, 0),
     Job(9, "b", "v", "me", 1, "completed", 60, 61), Job(10, "a", "u", None, 1, "completed", 2, 1)}

\* Every table of up to three of them.
SmallTables == {{}} \cup {{i, j, k} : i \in SampleJobs, j \in SampleJobs, k \in SampleJobs}

AnyFilter ==
    {[from |-> a, to |-> b, printer |-> p, department |-> d, status |-> s] :
       a \in {None, 1, 2}, b \in {None, 1}, p \in {None, "a"}, d \in {None, "me"},
       s \in {None, "completed"}}

\* Names of one, two and three words, and one that ends, one that begins with a space.
MCFirstNames == {<<"Ada">>, <<"Ada", "May">>}
MCLastNames == {<<"King">>, <<"de", "King">>}
MCLiveNames ==
    {<<"Ada">>, <<"Ada", "King">>, <<"Ada", "de", "King">>, <<"Ada", "">>, <<"", "Ada">>}

\* The spools of a printer nobody asks for have one state.
MCInit ==
    /\ BooksInit
    /\ book # "spools" => \A s \in Slots : remaining[s] = Full

\* Where anything may be late there are three jobs, of which only the first may lack a
\* duration, and the clock goes two steps.
MCNext ==
    /\ BooksNext
    /\ book = "plan" /\ ~punctual =>
         /\ jobs'[4].status = "none"
         /\ \A j \in {2, 3} : jobs'[j].status = "queued" => jobs'[j].duration # 0
         /\ now' <= 2 * TICK

MCSpec == MCInit /\ [][MCNext]_booksVars

Swaps == Permutations({p1, p2})
==============================================================================
