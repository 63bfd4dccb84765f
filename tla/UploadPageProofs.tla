---------------------------- MODULE UploadPageProofs ----------------------------
(* Theorems about the upload page, for any files, places, picks and tries. *)
EXTENDS UploadPage, TLAPS

\* What the page, its requests and the queue hold, beside TypeOK.
Sent == [pick : 1..Len(picks), place : Places, at : {"sent", "queued", "refused"}]
Shape ==
    /\ picks \in Seq(Files)
    /\ file \in {None} \cup [pick : 1..Len(picks)]
    /\ checks \subseteq [pick : 1..Len(picks)] /\ checking \in BOOLEAN
    /\ result \in {None} \cup [pick : 1..Len(picks), passed : BOOLEAN, usable : SUBSET Places]
    /\ place \subseteq Places /\ open \subseteq Places
    /\ post \in {None} \cup Sent
    /\ submitted \in {None} \cup [pick : 1..Len(picks)]
    /\ jobs \in Seq([pick : 1..Len(picks), place : Places])
    /\ tries \in 0..MaxTries /\ hasty \in BOOLEAN /\ lost \in BOOLEAN

\* A submission that was sent and not served is not among the jobs.
Counted == Len(jobs) + (IF Submitting /\ post.at = "sent" THEN 1 ELSE 0) <= tries

Queued(p) == \E i \in DOMAIN jobs : jobs[i].pick = p.pick
AnswersTellTheTruth == Submitting /\ post.at = "queued" => Queued(post)

IInv == Shape /\ Counted /\ QueuedFits /\ AnswersTellTheTruth /\ ConfirmsAJob

--------------------------------------------------------------------------------
LEMMA FitsPlaces == \A f \in Valid : Fits[f] \subseteq Places
BY PageAssumption

LEMMA PickedMore ==
  ASSUME Shape, NEW f \in Files, Pick(f)
  PROVE  /\ picks' \in Seq(Files) /\ Len(picks') = Len(picks) + 1
         /\ \A i \in 1..Len(picks) : picks'[i] = picks[i]
         /\ 1..Len(picks) \subseteq 1..Len(picks')
BY DEF Shape, Pick

LEMMA StillInSeq ==
  ASSUME NEW S, NEW T, S \subseteq T, NEW s \in Seq(S)
  PROVE  s \in Seq(T)
OBVIOUS

LEMMA ElementOfSeq ==
  ASSUME NEW S, NEW s \in Seq(S), NEW i \in DOMAIN s
  PROVE  s[i] \in S
OBVIOUS

\* Picking a file keeps what the requests under way and the queue are about.
LEMMA PickKeeps ==
  ASSUME IInv, NEW f \in Files, Pick(f), Clean, UNCHANGED <<post, open, jobs, tries, lost>>,
         file' \in {None} \cup [pick : 1..Len(picks')], checking' \in BOOLEAN,
         checks' \subseteq [pick : 1..Len(picks')]
  PROVE  IInv'
<1>0. Shape
  BY DEF IInv
<1>1. /\ picks' \in Seq(Files) /\ Len(picks') = Len(picks) + 1 /\ Len(picks) \in Nat
      /\ \A i \in 1..Len(picks) : picks'[i] = picks[i]
  BY <1>0, PickedMore DEF Shape
<1>2. jobs' \in Seq([pick : 1..Len(picks'), place : Places])
  <2>1. [pick : 1..Len(picks), place : Places] \subseteq [pick : 1..Len(picks'), place : Places]
    BY <1>1
  <2> QED BY <1>0, <2>1, StillInSeq DEF Shape
<1>3. post' \in {None} \cup Sent'
  BY <1>0, <1>1 DEF Shape, Sent
<1>4. Shape'
  BY <1>0, <1>1, <1>2, <1>3 DEF Shape, Clean, Pick
<1>5. QueuedFits'
  <2> SUFFICES ASSUME NEW i \in DOMAIN jobs
               PROVE  picks'[jobs[i].pick] = picks[jobs[i].pick]
    BY DEF IInv, QueuedFits, FileOf
  <2>1. jobs[i] \in [pick : 1..Len(picks), place : Places]
    <3>1. jobs \in Seq([pick : 1..Len(picks), place : Places])
      BY <1>0 DEF Shape
    <3> QED BY <3>1, ElementOfSeq
  <2>2. jobs[i].pick \in 1..Len(picks)
    BY <2>1
  <2> QED BY <1>1, <2>2
<1>6. Counted' /\ AnswersTellTheTruth'
  BY DEF IInv, Counted, AnswersTellTheTruth, Queued, Submitting
<1>7. ConfirmsAJob'
  BY DEF Clean, ConfirmsAJob
<1> QED BY <1>4, <1>5, <1>6, <1>7 DEF IInv

LEMMA ServeKeeps == ASSUME IInv, Serve PROVE IInv'
<1>0. Shape /\ post \in Sent /\ post.at = "sent"
  BY DEF IInv, Shape, Serve, Submitting
<1> DEFINE f == FileOf(post)
<1>1. CASE Accepted(f, post.place)
  <2> DEFINE job == [pick |-> post.pick, place |-> post.place]
  <2>1. /\ jobs' = Append(jobs, job)
        /\ post' = [post EXCEPT !.at = "queued"]
        /\ UNCHANGED <<picks, file, checking, checks, result, place, submitted, open, tries>>
        /\ UNCHANGED <<hasty, lost>>
    BY <1>1 DEF Serve
  <2>2. job \in [pick : 1..Len(picks), place : Places]
    BY <1>0 DEF Sent
  <2>3. /\ jobs' \in Seq([pick : 1..Len(picks), place : Places]) /\ Len(jobs') = Len(jobs) + 1
        /\ \A i \in DOMAIN jobs : i \in DOMAIN jobs' /\ jobs'[i] = jobs[i]
        /\ Len(jobs') \in DOMAIN jobs' /\ jobs'[Len(jobs')] = job
        /\ DOMAIN jobs' = DOMAIN jobs \cup {Len(jobs')} /\ Len(jobs) \in Nat
    BY <1>0, <2>1, <2>2 DEF Shape
  <2>4. post' \in Sent' /\ post'.at = "queued" /\ post'.pick = post.pick
    BY <1>0, <2>1 DEF Sent
  <2>5. Shape'
    BY <1>0, <2>1, <2>3, <2>4 DEF Shape, Sent
  <2>6. Counted'
    BY <1>0, <2>1, <2>3, <2>4 DEF IInv, Counted, Submitting, Serve, Shape
  <2>7. QueuedFits'
    <3>1. job.place \in Fits[picks[job.pick]] /\ picks[job.pick] \in Valid
      BY <1>1 DEF Accepted, FileOf
    <3> HIDE DEF job
    <3>2. ASSUME NEW i \in DOMAIN jobs'
          PROVE  picks[jobs'[i].pick] \in Valid /\ jobs'[i].place \in Fits[picks[jobs'[i].pick]]
      <4>1. CASE i \in DOMAIN jobs
        BY <2>3, <4>1 DEF IInv, QueuedFits, FileOf
      <4>2. CASE i = Len(jobs')
        BY <2>3, <3>1, <4>2
      <4> QED BY <2>3, <4>1, <4>2
    <3> QED BY <2>1, <3>2 DEF QueuedFits, FileOf
  <2>8. AnswersTellTheTruth' /\ ConfirmsAJob'
    BY <2>1, <2>3, <2>4 DEF IInv, AnswersTellTheTruth, ConfirmsAJob, Queued
  <2> QED BY <2>5, <2>6, <2>7, <2>8 DEF IInv
<1>2. CASE ~Accepted(f, post.place)
  <2>1. /\ post' = [post EXCEPT !.at = "refused"]
        /\ UNCHANGED <<picks, file, checking, checks, result, place, submitted, open, jobs, tries>>
        /\ UNCHANGED <<hasty, lost>>
    BY <1>2 DEF Serve
  <2>2. post' \in Sent' /\ post'.at = "refused"
    BY <1>0, <2>1 DEF Sent
  <2> QED
    BY <1>0, <2>1, <2>2 DEF IInv, Shape, Counted, QueuedFits, FileOf, AnswersTellTheTruth,
       ConfirmsAJob, Submitting, Serve, Queued
<1> QED BY <1>1, <1>2

LEMMA InvInit == Init => IInv
<1> SUFFICES ASSUME Init PROVE IInv
  OBVIOUS
<1>0. MaxTries \in Nat
  BY PageAssumption
<1>1. Shape
  <2>1. picks \in Seq(Files) /\ jobs \in Seq([pick : 1..Len(picks), place : Places])
    BY DEF Init
  <2>2. tries \in 0..MaxTries
    BY <1>0 DEF Init
  <2>3. hasty \in BOOLEAN /\ lost \in BOOLEAN
    BY DEF Init
  <2> QED BY <2>1, <2>2, <2>3 DEF Init, Shape
<1>2. Counted /\ QueuedFits /\ AnswersTellTheTruth /\ ConfirmsAJob
  BY DEF Init, Counted, QueuedFits, AnswersTellTheTruth, ConfirmsAJob, Submitting
<1> QED BY <1>1, <1>2 DEF IInv

LEMMA InvNext == IInv /\ [Next]_vars => IInv'
<1> SUFFICES ASSUME IInv, [Next]_vars PROVE IInv'
  OBVIOUS
<1>0. Shape
  BY DEF IInv
<1> DEFINE Rest == QueuedFits' /\ AnswersTellTheTruth' /\ ConfirmsAJob' /\ Counted'
<1>1. ASSUME NEW p \in checks, Checked(p) PROVE IInv'
  <2>1. result' \in [pick : 1..Len(picks), passed : BOOLEAN, usable : SUBSET Places]
    BY <1>0, <1>1, FitsPlaces DEF Checked, Shape, Usable
  <2>2. place' \subseteq Places
    BY <1>0, <1>1, <2>1 DEF Checked, Shape
  <2>3. checks' \subseteq checks /\ checking' = FALSE
        /\ UNCHANGED <<picks, file, post, submitted, open, jobs, tries, hasty, lost>>
    BY <1>1 DEF Checked
  <2> QED BY <1>0, <2>1, <2>2, <2>3 DEF IInv, Shape, Sent, Counted, QueuedFits, FileOf,
       AnswersTellTheTruth, ConfirmsAJob, Submitting, Queued
<1>2. ASSUME NEW p \in checks, CheckFails(p) PROVE IInv'
  BY <1>0, <1>2 DEF CheckFails, IInv, Shape, Sent, Counted, QueuedFits, FileOf,
     AnswersTellTheTruth, ConfirmsAJob, Submitting, Queued
<1>3. ASSUME Serve PROVE IInv'
  BY <1>3, ServeKeeps
<1>4. ASSUME Served PROVE IInv'
  <2>1. post \in Sent /\ post' = None
    BY <1>0, <1>4 DEF Served, Submitting, Shape
  <2>2. submitted' \in {None} \cup [pick : 1..Len(picks)]
    BY <1>0, <1>4, <2>1 DEF Served, Shape, Sent
  <2>3. ConfirmsAJob'
    BY <1>4 DEF Served, IInv, AnswersTellTheTruth, ConfirmsAJob, Queued
  <2> QED BY <1>0, <1>4, <2>1, <2>2, <2>3 DEF Served, IInv, Shape, Sent, Counted, QueuedFits, FileOf,
       AnswersTellTheTruth, Submitting
<1>5. ASSUME SubmitFails PROVE IInv'
  BY <1>0, <1>5 DEF SubmitFails, IInv, Shape, Sent, Counted, QueuedFits, FileOf,
     AnswersTellTheTruth, ConfirmsAJob, Submitting
<1>6. ASSUME NEW f \in Files, Choose(f) PROVE IInv'
  <2>1. Len(picks') = Len(picks) + 1 /\ Len(picks) \in Nat
    BY <1>0, <1>6, PickedMore DEF Choose, Shape
  <2>2. file' \in [pick : 1..Len(picks')] /\ checks' \subseteq [pick : 1..Len(picks')]
    BY <1>0, <1>6, <2>1 DEF Choose, Shape
  <2> QED BY <1>6, <2>2, PickKeeps DEF Choose
<1>7. ASSUME NEW f \in Files, ChooseOther(f) PROVE IInv'
  <2>1. Len(picks') = Len(picks) + 1 /\ Len(picks) \in Nat
    BY <1>0, <1>7, PickedMore DEF ChooseOther, Shape
  <2>2. file' = None /\ checks' \subseteq [pick : 1..Len(picks')] /\ checking' \in BOOLEAN
    BY <1>0, <1>7, <2>1 DEF ChooseOther, Shape
  <2> QED BY <1>7, <2>2, PickKeeps DEF ChooseOther
<1>8. ASSUME NEW c \in Places, SelectPlace(c) PROVE IInv'
  BY <1>0, <1>8 DEF SelectPlace, IInv, Shape, Sent, Counted, QueuedFits, FileOf,
     AnswersTellTheTruth, ConfirmsAJob, Submitting, Queued
<1>9. ASSUME Submit PROVE IInv'
  <2>1. PICK c \in place : post' = [pick |-> file.pick, place |-> c, at |-> "sent"]
    BY <1>9 DEF Submit
  <2>2. post' \in Sent' /\ post'.at = "sent"
    BY <1>0, <1>9, <2>1 DEF Submit, Shape, Sent
  <2>3. tries' \in 0..MaxTries /\ tries' = tries + 1 /\ post = None
    BY <1>0, <1>9, PageAssumption DEF Submit, Shape, Submitting
  <2> QED BY <1>0, <1>9, <2>2, <2>3 DEF Submit, IInv, Shape, Sent, Counted, QueuedFits, FileOf,
       AnswersTellTheTruth, ConfirmsAJob, Submitting
<1>10. ASSUME Reset PROVE IInv'
  BY <1>0, <1>10 DEF Reset, IInv, Shape, Sent, Counted, QueuedFits, FileOf,
     AnswersTellTheTruth, ConfirmsAJob, Submitting, Queued
<1>11. ASSUME NEW c \in Places, Turn(c) PROVE IInv'
  BY <1>0, <1>11 DEF Turn, IInv, Shape, Sent, Counted, QueuedFits, FileOf,
     AnswersTellTheTruth, ConfirmsAJob, Submitting, Queued
<1>12. CASE UNCHANGED vars
  BY <1>0, <1>12 DEF vars, IInv, Shape, Sent, Counted, QueuedFits, FileOf,
     AnswersTellTheTruth, ConfirmsAJob, Submitting, Queued
<1> QED
  BY <1>1, <1>2, <1>3, <1>4, <1>5, <1>6, <1>7, <1>8, <1>9, <1>10, <1>11, <1>12
     DEF Next, Answers, User

THEOREM Invariant == Spec => []IInv
BY InvInit, InvNext, PTL DEF Spec

\* The page, its requests and the queue have their types.
THEOREM TypeCorrect == Spec => []TypeOK
<1>1. IInv => TypeOK
  BY DEF IInv, Shape, Sent, Counted, TypeOK, None
<1> QED BY <1>1, Invariant, PTL

\* submit_job: a queued job is valid and fits the printer and material it was
\* sent for, whatever the page mixed up and whichever answers were lost.
THEOREM QueuedFitsAlways == Spec => []QueuedFits
<1>1. IInv => QueuedFits
  BY DEF IInv
<1> QED BY <1>1, Invariant, PTL

\* The page confirms only a job that is in the queue.
THEOREM ConfirmsAlways == Spec => []ConfirmsAJob
<1>1. IInv => ConfirmsAJob
  BY DEF IInv
<1> QED BY <1>1, Invariant, PTL

\* What the page and the queue say of a file is so, whatever the user does and the network loses.
THEOREM TellsTheTruth == Spec => []PageTellsTheTruth
BY TypeCorrect, QueuedFitsAlways, ConfirmsAlways, PTL DEF PageTellsTheTruth
--------------------------------------------------------------------------------
(* A user who waits for each answer. *)

\* While a file is checked nothing of an earlier one is on the page, and what is
\* on the page is about the file picked last.
OneAtATime ==
    /\ checks \subseteq {file} /\ (checks # {} => checking)
    /\ checking => result = None /\ ~Submitting /\ submitted = None
    /\ result # None => file # None /\ result.pick = file.pick

LEMMA OneAtATimeNext ==
  ASSUME ~hasty', IInv, ~hasty => OneAtATime, [Next]_vars
  PROVE  OneAtATime'
<1>0. Shape
  BY DEF IInv
<1>a. ~hasty
  <2>1. hasty' = hasty \/ (hasty' = (hasty \/ checking \/ Submitting))
    BY DEF Next, Answers, User, Checked, CheckFails, Serve, Served, SubmitFails, Choose, ChooseOther,
       Pick, SelectPlace, Submit, Reset, Turn, vars
  <2> QED BY <1>0, <2>1 DEF Shape
<1>b. OneAtATime
  BY <1>a
<1>1. ASSUME NEW p \in checks, Checked(p) PROVE OneAtATime'
  <2>1. p = file /\ checks' = {} /\ file # None
    BY <1>b, <1>0, <1>1 DEF Checked, OneAtATime, Shape, None
  <2>2. result'.pick = file.pick /\ file' = file /\ checking' = FALSE
    BY <1>1, <2>1 DEF Checked
  <2> QED BY <1>b, <2>1, <2>2 DEF OneAtATime
<1>2. ASSUME NEW p \in checks, CheckFails(p) PROVE OneAtATime'
  BY <1>b, <1>2 DEF CheckFails, OneAtATime
<1>3. ASSUME Serve \/ Served \/ SubmitFails PROVE OneAtATime'
  BY <1>b, <1>3 DEF Serve, Served, SubmitFails, OneAtATime, Submitting
<1>4. ASSUME NEW f \in Files, Choose(f) PROVE OneAtATime'
  <2>1. checks = {} /\ ~Submitting
    BY <1>0, <1>a, <1>b, <1>4 DEF Shape, Choose, Pick, OneAtATime
  <2> QED BY <1>4, <2>1 DEF Choose, Clean, OneAtATime, Submitting
<1>5. ASSUME NEW f \in Files, ChooseOther(f) PROVE OneAtATime'
  BY <1>0, <1>a, <1>b, <1>5 DEF Shape, ChooseOther, Pick, Clean, OneAtATime, Submitting
<1>6. ASSUME Submit PROVE OneAtATime'
  BY <1>b, <1>6 DEF Submit, FormShown, OneAtATime, Submitting
<1>7. ASSUME Reset PROVE OneAtATime'
  BY <1>b, <1>7 DEF Reset, OneAtATime
<1>8. ASSUME NEW c \in Places, SelectPlace(c) \/ Turn(c) PROVE OneAtATime'
  BY <1>b, <1>8 DEF SelectPlace, Turn, OneAtATime, Submitting
<1>9. CASE UNCHANGED vars
  BY <1>b, <1>9 DEF vars, OneAtATime, Submitting
<1> QED BY <1>1, <1>2, <1>3, <1>4, <1>5, <1>6, <1>7, <1>8, <1>9 DEF Next, Answers, User

\* A user who waits for each answer submits only the file that was checked, for
\* one of the printers the check offered, even if answers are lost.
THEOREM SubmitsWhatWasChecked == Spec => CheckedBeforeSubmit
<1>1. Init => (~hasty => OneAtATime)
  BY DEF Init, OneAtATime
<1>2. IInv /\ (~hasty => OneAtATime) /\ [Next]_vars => (~hasty => OneAtATime)'
  BY OneAtATimeNext
<1>3. (~hasty => OneAtATime) => [Submit => hasty \/ post'.pick = result.pick]_vars
  BY DEF OneAtATime, Submit, FormShown
<1> QED BY <1>1, <1>2, <1>3, Invariant, PTL DEF Spec, CheckedBeforeSubmit

--------------------------------------------------------------------------------
(* A page that gets every answer. *)

Once == \A i, j \in DOMAIN jobs : jobs[i].pick = jobs[j].pick => i = j

\* The pick on the page is queued only if its answer is on its way or shown, and
\* a pick that is still to be served is not queued.
FormGoes ==
    /\ file # None /\ Queued(file) =>
        \/ Submitting /\ post.pick = file.pick /\ post.at = "queued"
        \/ submitted # None
    /\ Submitting /\ post.at = "sent" => ~Queued(post)

LEMMA JobsArePicks ==
  ASSUME Shape, NEW i \in DOMAIN jobs
  PROVE  jobs[i].pick \in 1..Len(picks)
<1>1. jobs \in Seq([pick : 1..Len(picks), place : Places])
  BY DEF Shape
<1>2. jobs[i] \in [pick : 1..Len(picks), place : Places]
  BY <1>1, ElementOfSeq
<1> QED BY <1>2

LEMMA FormGoesNext ==
  ASSUME ~lost', IInv, ~lost => Once /\ FormGoes, [Next]_vars
  PROVE  Once' /\ FormGoes'
<1>0. Shape
  BY DEF IInv
<1>a. ~lost
  BY DEF Next, Answers, User, Checked, CheckFails, Serve, Served, SubmitFails, Choose, ChooseOther,
     SelectPlace, Submit, Reset, Turn, vars
<1>b. Once /\ FormGoes
  BY <1>a
<1>1. ASSUME NEW p \in checks, Checked(p) \/ CheckFails(p) PROVE Once' /\ FormGoes'
  BY <1>b, <1>1 DEF Checked, CheckFails, Once, FormGoes, Queued, Submitting
<1>2. ASSUME Serve PROVE Once' /\ FormGoes'
  <2>1. post \in Sent /\ post.at = "sent" /\ post # None /\ ~Queued(post)
    BY <1>b, <1>0, <1>2 DEF Serve, Submitting, Shape, FormGoes
  <2>2. post' # None /\ post'.pick = post.pick /\ post'.at \in {"queued", "refused"}
    BY <1>2, <2>1 DEF Serve, Sent, None
  <2>3. file' = file /\ submitted' = submitted
    BY <1>2 DEF Serve
  <2>4. CASE jobs' = jobs
    BY <1>b, <2>1, <2>2, <2>3, <2>4 DEF Once, FormGoes, Queued, Submitting
  <2>5. CASE /\ jobs' = Append(jobs, [pick |-> post.pick, place |-> post.place])
             /\ post'.at = "queued"
    <3>1. /\ DOMAIN jobs' = DOMAIN jobs \cup {Len(jobs) + 1}
          /\ jobs'[Len(jobs) + 1].pick = post.pick
          /\ \A i \in DOMAIN jobs : jobs'[i] = jobs[i]
      BY <1>0, <2>5 DEF Shape
    <3>2. Once'
      BY <1>b, <2>1, <3>1 DEF Once, Queued
    <3>3. FormGoes'
      BY <1>b, <2>1, <2>2, <2>3, <2>5, <3>1 DEF FormGoes, Queued, Submitting
    <3> QED BY <3>2, <3>3
  <2> QED BY <1>2, <2>1, <2>4, <2>5 DEF Serve, Sent
<1>3. ASSUME Served PROVE Once' /\ FormGoes'
  <2>1. post' = None /\ UNCHANGED <<jobs, file>>
    BY <1>3 DEF Served
  <2>2. post.at = "queued" => submitted' # None
    BY <1>0, <1>3 DEF Served, Submitting, Shape, Sent, None
  <2>3. post.at # "queued" => submitted' = submitted
    BY <1>3 DEF Served
  <2> QED BY <1>b, <2>1, <2>2, <2>3 DEF Once, FormGoes, Queued, Submitting
<1>4. ASSUME SubmitFails PROVE Once' /\ FormGoes'
  BY <1>4 DEF SubmitFails
<1>5. ASSUME NEW f \in Files, Choose(f) PROVE Once' /\ FormGoes'
  <2>1. Len(picks') = Len(picks) + 1 /\ Len(picks) \in Nat
    BY <1>0, <1>5, PickedMore DEF Choose, Shape
  <2>2. file'.pick = Len(picks) + 1 /\ UNCHANGED <<jobs, post>>
    BY <1>5, <2>1 DEF Choose
  <2>3. \A i \in DOMAIN jobs : jobs[i].pick # Len(picks) + 1
    BY <1>0, <2>1, JobsArePicks
  <2> QED BY <1>b, <2>2, <2>3 DEF Once, FormGoes, Queued, Submitting
<1>6. ASSUME NEW f \in Files, ChooseOther(f) PROVE Once' /\ FormGoes'
  BY <1>b, <1>6 DEF ChooseOther, Once, FormGoes, Queued, Submitting
<1>7. ASSUME Submit PROVE Once' /\ FormGoes'
  <2>1. post'.pick = file.pick /\ ~Queued(file) /\ UNCHANGED <<jobs, file, submitted>>
    BY <1>b, <1>7 DEF Submit, FormShown, FormGoes, Submitting
  <2> QED BY <1>b, <2>1 DEF Once, FormGoes, Queued
<1>8. ASSUME Reset PROVE Once' /\ FormGoes'
  BY <1>b, <1>8 DEF Reset, Once, FormGoes, Queued, Submitting
<1>9. ASSUME NEW c \in Places, SelectPlace(c) \/ Turn(c) PROVE Once' /\ FormGoes'
  BY <1>b, <1>9 DEF SelectPlace, Turn, Once, FormGoes, Queued, Submitting
<1>10. CASE UNCHANGED vars
  BY <1>b, <1>10 DEF vars, Once, FormGoes, Queued, Submitting
<1> QED
  BY <1>1, <1>2, <1>3, <1>4, <1>5, <1>6, <1>7, <1>8, <1>9, <1>10 DEF Next, Answers, User

\* While no answer is lost a pick of a file becomes one job at most, however the
\* user picks and submits.
THEOREM QueuedOnce == Spec => []OneJobPerPick
<1>1. Init => (~lost => Once /\ FormGoes)
  BY DEF Init, Once, FormGoes, Submitting
<1>2. IInv /\ (~lost => Once /\ FormGoes) /\ [Next]_vars => (~lost => Once /\ FormGoes)'
  BY FormGoesNext
<1>3. (~lost => Once /\ FormGoes) => OneJobPerPick
  BY DEF Once, OneJobPerPick
<1> QED BY <1>1, <1>2, <1>3, Invariant, PTL DEF Spec
================================================================================
