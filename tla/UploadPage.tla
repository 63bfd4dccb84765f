------------------------------- MODULE UploadPage -------------------------------
(***************************************************************************)
(* The page on which a user picks a G-code file, has it checked, chooses   *)
(* where to print it and submits it (live-upload), and the server's answer *)
(* to both requests.  A file may be picked while an earlier one is being   *)
(* checked or submitted: the button in the heading is never disabled.      *)
(*                                                                         *)
(* A place stands for a printer and a material on it.                      *)
(***************************************************************************)
EXTENDS Naturals, Sequences

CONSTANTS
    Files,
    Named,      \* files with an extension the page takes
    Valid,      \* files the validator passes
    Places,
    Fits,       \* the places a file can be printed at
    MaxPicks, MaxTries    \* bounds: files picked, submissions sent

ASSUME PageAssumption ==
    /\ Named \subseteq Files /\ Valid \subseteq Named
    /\ Fits \in [Valid -> SUBSET Places]
    /\ {MaxPicks, MaxTries} \subseteq Nat

None == [pick |-> 0]

VARIABLES
    picks,      \* the files picked so far
    file,       \* the pick on the page, or None
    checking,   \* the page says it is checking
    checks,     \* picks whose check is under way
    result,     \* the last answer to a check: its pick and verdict, or None
    place,      \* the places chosen: at most one
    post,       \* the submission under way: [pick, place, at], or None
    submitted,  \* the pick the page says was added to the queue, or None
    open,       \* places whose printer can take jobs
    jobs,       \* what the server has queued, in order
    tries,      \* submissions sent
    hasty,      \* history: a file was picked while one was checked or submitted
    lost        \* history: the answer to a submission was lost

vars == <<picks, file, checking, checks, result, place, post, submitted, open, jobs, tries,
          hasty, lost>>

FileOf(p) == picks[p.pick]
Submitting == post # None

Init ==
    /\ picks = <<>> /\ file = None /\ checking = FALSE /\ checks = {}
    /\ result = None /\ place = {} /\ post = None /\ submitted = None
    /\ open = Places /\ jobs = <<>> /\ tries = 0
    /\ hasty = FALSE /\ lost = FALSE

-------------------------------------------------------------------------------
(* choose *)

Pick(f) ==
    /\ Len(picks) < MaxPicks
    /\ picks' = Append(picks, f)
    /\ hasty' = (hasty \/ checking \/ Submitting)

\* Mutant: a new file keeps the result of the old one.
CleanKeepingResult == submitted' = None /\ place' = {} /\ UNCHANGED result
Clean == result' = None /\ submitted' = None /\ place' = {}

ChooseOther(f) ==
    /\ f \notin Named /\ Pick(f) /\ Clean
    /\ file' = None
    /\ UNCHANGED <<checking, checks, post, open, jobs, tries, lost>>

Choose(f) ==
    /\ f \in Named /\ Pick(f) /\ Clean
    /\ file' = [pick |-> Len(picks')]
    /\ checking' = TRUE
    /\ checks' = checks \cup {file'}
    /\ UNCHANGED <<post, open, jobs, tries, lost>>

-------------------------------------------------------------------------------
(* The answer to a check *)

Usable(f) == Fits[f] \cap open

\* Mutant: the answer for another file than the page's is dropped whole.
CheckedIfCurrent(p) ==
    /\ p \in checks
    /\ checks' = checks \ {p}
    /\ IF p = file
        THEN /\ checking' = FALSE
             /\ result' = [pick |-> p.pick, passed |-> FileOf(p) \in Valid, usable |-> {}]
        ELSE UNCHANGED <<checking, result>>
    /\ UNCHANGED <<picks, file, place, post, submitted, open, jobs, tries, hasty, lost>>

\* The first usable printer and the only material are chosen for the user.
Checked(p) ==
    /\ p \in checks
    /\ checks' = checks \ {p}
    /\ checking' = FALSE
    /\ LET f == FileOf(p) IN
        /\ result' = [pick |-> p.pick, passed |-> f \in Valid,
                      usable |-> IF f \in Valid THEN Usable(f) ELSE {}]
        /\ \/ \E c \in result'.usable : place' = {c}
           \/ UNCHANGED place
    /\ UNCHANGED <<picks, file, post, submitted, open, jobs, tries, hasty, lost>>

CheckFails(p) ==
    /\ p \in checks
    /\ checks' = checks \ {p}
    /\ checking' = FALSE
    /\ UNCHANGED <<picks, file, result, place, post, submitted, open, jobs, tries, hasty, lost>>

-------------------------------------------------------------------------------
(* The form and its submission *)

\* Mutant: the form stays after a submission.
FormAlways == result # None /\ result.passed
FormShown == result # None /\ result.passed /\ submitted = None

SelectPlace(c) ==
    /\ FormShown /\ c \in result.usable
    /\ place' = {c}
    /\ UNCHANGED <<picks, file, checking, checks, result, post, submitted, open, jobs, tries, hasty, lost>>

Submit ==
    /\ FormShown /\ file # None /\ place # {} /\ ~Submitting /\ tries < MaxTries
    /\ \E c \in place : post' = [pick |-> file.pick, place |-> c, at |-> "sent"]
    /\ tries' = tries + 1
    /\ UNCHANGED <<picks, file, checking, checks, result, place, submitted, open, jobs, hasty, lost>>

\* Mutant: the server trusts the page's check.
AcceptedUnchecked(f, c) == c \in open
\* submit_job validates the file again, for the printer that was chosen.
Accepted(f, c) == f \in Valid /\ c \in Fits[f] /\ c \in open

Serve ==
    /\ Submitting /\ post.at = "sent"
    /\ LET ok == Accepted(FileOf(post), post.place) IN
        /\ post' = [post EXCEPT !.at = IF ok THEN "queued" ELSE "refused"]
        /\ jobs' = IF ok THEN Append(jobs, [pick |-> post.pick, place |-> post.place]) ELSE jobs
    /\ UNCHANGED <<picks, file, checking, checks, result, place, submitted, open, tries, hasty, lost>>

Served ==
    /\ Submitting /\ post.at # "sent"
    /\ submitted' = IF post.at = "queued" THEN [pick |-> post.pick] ELSE submitted
    /\ post' = None
    /\ UNCHANGED <<picks, file, checking, checks, result, place, open, jobs, tries, hasty, lost>>

\* The page shows an error, whether or not the server had the request.
SubmitFails ==
    /\ Submitting
    /\ post' = None /\ lost' = TRUE
    /\ UNCHANGED <<picks, file, checking, checks, result, place, submitted, open, jobs, tries, hasty>>

\* "Upload another file".
Reset ==
    /\ submitted # None
    /\ file' = None /\ result' = None /\ submitted' = None
    /\ UNCHANGED <<picks, checking, checks, place, post, open, jobs, tries, hasty, lost>>

\* A printer goes out of service, or comes back.
Turn(c) ==
    /\ open' = IF c \in open THEN open \ {c} ELSE open \cup {c}
    /\ UNCHANGED <<picks, file, checking, checks, result, place, post, submitted, jobs, tries, hasty, lost>>

-------------------------------------------------------------------------------
Answers == (\E p \in checks : Checked(p) \/ CheckFails(p)) \/ Serve \/ Served \/ SubmitFails
User == (\E f \in Files : Choose(f) \/ ChooseOther(f)) \/ (\E c \in Places : SelectPlace(c)) \/ Submit \/ Reset

Next == Answers \/ User \/ \E c \in Places : Turn(c)

Spec == Init /\ [][Next]_vars

\* Every request is answered, or fails in the browser.
FairSpec ==
    /\ Spec
    /\ WF_vars(\E p \in checks : Checked(p) \/ CheckFails(p))
    /\ WF_vars(Serve \/ SubmitFails) /\ WF_vars(Served)

-------------------------------------------------------------------------------
(* Properties *)

TypeOK ==
    /\ picks \in Seq(Files)
    /\ {file} \cup checks \cup {submitted} \subseteq {None} \cup [pick : DOMAIN picks]
    /\ result.pick \in {0} \cup DOMAIN picks /\ post.pick \in {0} \cup DOMAIN picks
    /\ place \subseteq Places /\ open \subseteq Places
    /\ {checking, hasty, lost} \subseteq BOOLEAN /\ tries \in 0..MaxTries /\ Len(jobs) <= tries

\* The page's promise: a file "is checked against the farm's printers before you
\* can submit it to the queue": what is sent is what was checked, unless a file is
\* picked while another is being checked or submitted (then the answer for the one
\* may offer the other, and the server's own validation is the only check).
CheckedBeforeSubmit == [][Submit => hasty \/ post'.pick = result.pick]_vars

\* Whatever the page mixes up, what the server queues is valid and fits its place.
QueuedFits == \A i \in DOMAIN jobs : FileOf(jobs[i]) \in Valid /\ jobs[i].place \in Fits[FileOf(jobs[i])]

\* The form goes when the job is in: while no answer to a submission is lost, one
\* pick of a file is queued at most once.
OneJobPerPick == ~lost => \A i, j \in DOMAIN jobs : jobs[i].pick = jobs[j].pick => i = j

\* "Added to the queue" is said of a job that is in the queue.
ConfirmsAJob == submitted # None => \E i \in DOMAIN jobs : jobs[i].pick = submitted.pick

\* "Checking your file" and "Submitting" do not stay, whatever is picked meanwhile.
NeverStuck == (checking ~> ~checking) /\ (Submitting ~> ~Submitting)

\* What the page and the queue say of a file is so.
PageTellsTheTruth == TypeOK /\ QueuedFits /\ ConfirmsAJob
================================================================================
