------------------------------ MODULE FilesProofs ------------------------------
(***************************************************************************)
(* What analyze_commands promises of a file of any length, for any bed,    *)
(* any coordinates and any toolheads, by following the machine that runs   *)
(* the file beside the function that reads it; what the six stages promise *)
(* of an upload with any metadata and any commands; and that the parsers   *)
(* of text and of .bgcode accept exactly the files that are well formed.   *)
(***************************************************************************)
EXTENDS FileReaders, SequenceTheorems, FiniteSetTheorems, WellFoundedInduction, TLAPS

\* Where the function thinks the nozzle is, it is, as long as the file names no place anew;
\* and each way of doing harm has left an issue behind.
Followed == (~renamed => position = at) /\ ("end" \in went => "motion-bound" \in issues)
Noticed == heated > MaxTemp => "temperature-limit" \in issues

-------------------------------------------------------------------------------
(* Induction over 0 .. n, and functions defined by recursion over it. *)

\* Induction as far as n, with a set for the predicate.
LEMMA InductionUpTo ==
  ASSUME NEW n \in Nat, NEW S, 0 \in S, \A i \in 0 .. n - 1 : i \in S => i + 1 \in S
  PROVE  0 .. n \subseteq S
<1> DEFINE R == OpToRel(<, Nat)
           T == (0 .. n) \ S
<1> SUFFICES ASSUME T # {} PROVE FALSE
  OBVIOUS
<1>1. IsWellFoundedOn(R, Nat) BY NatLessThanWellFounded
<1>2. \A k, m \in Nat : k < m => <<k, m>> \in R BY DEF OpToRel
<1>3. T \subseteq Nat OBVIOUS
<1> HIDE DEF R
<1>4. PICK m \in T : \A k \in T : <<k, m>> \notin R
  <2> HIDE DEF T
  <2> QED BY <1>1, <1>3, WFMin
<1>5. m \in 0 .. n /\ m \notin S /\ m # 0 BY <1>4
<1>6. m - 1 \in 0 .. n - 1 /\ m - 1 \in Nat /\ m - 1 < m /\ (m - 1) + 1 = m BY <1>5
<1>7. m - 1 \in S
  <2>1. <<m - 1, m>> \in R BY <1>2, <1>5, <1>6
  <2>2. m - 1 \notin T
    <3> HIDE DEF T
    <3> QED BY <1>4, <2>1
  <2> QED BY <1>6, <2>2
<1> QED BY <1>5, <1>6, <1>7

\* f is what the steps make of f0, and goes as far as n.
Follows(f, n, f0, step) == f[0] = f0 /\ \A i \in 0 .. n - 1 : f[i + 1] = step[<<i, f[i]>>]

\* A function that takes n steps is there.
LEMMA RecursionUpTo ==
  ASSUME NEW n \in Nat, NEW S, NEW f0 \in S, NEW step \in [Nat \X S -> S]
  PROVE  \E f \in [0 .. n -> S] : Follows(f, n, f0, step)
<1> DEFINE T == {k \in Nat : \E f \in [0 .. k -> S] : Follows(f, k, f0, step)}
<1>1. 0 \in T
  <2>1. [i \in 0 .. 0 |-> f0] \in [0 .. 0 -> S] /\ Follows([i \in 0 .. 0 |-> f0], 0, f0, step)
    BY DEF Follows
  <2> QED BY <2>1
<1>2. ASSUME NEW k \in 0 .. n - 1, k \in T PROVE k + 1 \in T
  <2>1. PICK f \in [0 .. k -> S] : Follows(f, k, f0, step) BY <1>2
  <2> DEFINE g == [i \in 0 .. k + 1 |-> IF i = k + 1 THEN step[<<k, f[k]>>] ELSE f[i]]
  <2>2. g \in [0 .. k + 1 -> S]
    <3>1. step[<<k, f[k]>>] \in S OBVIOUS
    <3> QED BY <3>1
  <2>3. g[0] = f0 BY <2>1 DEF Follows
  <2>4. ASSUME NEW i \in 0 .. k PROVE g[i + 1] = step[<<i, g[i]>>]
    <3>1. CASE i = k
      <4>1. g[k + 1] = step[<<k, f[k]>>] /\ g[k] = f[k] OBVIOUS
      <4> QED BY <3>1, <4>1
    <3>2. CASE i < k
      <4>1. i \in 0 .. k - 1 /\ i + 1 \in 0 .. k BY <3>2
      <4>2. f[i + 1] = step[<<i, f[i]>>] BY <2>1, <4>1 DEF Follows
      <4>3. g[i + 1] = f[i + 1] /\ g[i] = f[i] BY <4>1, <3>2
      <4> QED BY <4>2, <4>3
    <3> QED BY <3>1, <3>2
  <2> HIDE DEF g
  <2>5. Follows(g, k + 1, f0, step) BY <2>3, <2>4 DEF Follows
  <2> QED BY <2>2, <2>5
<1> HIDE DEF T
<1>3. 0 .. n \subseteq T BY <1>1, <1>2, InductionUpTo
<1>4. n \in T BY <1>3
<1> QED BY <1>4 DEF T

\* As many things have at most as many images.
LEMMA ImageIsFinite ==
  ASSUME NEW S, IsFiniteSet(S), NEW f
  PROVE  IsFiniteSet({f[x] : x \in S})
<1> DEFINE g == [x \in S |-> f[x]]
<1>1. g \in Surjection(S, {f[x] : x \in S}) BY DEF Surjection
<1> HIDE DEF g
<1> QED BY <1>1, FS_Surjection

-------------------------------------------------------------------------------
\* Of two targets Hottest names the higher.
LEMMA HottestOfFew ==
  ASSUME NEW n \in Nat, NEW S, S = {} \/ \E m \in Nat : S = {m}
  PROVE  /\ Hottest({n} \cup S) \in Nat
         /\ Hottest({n} \cup S) = n \/ Hottest({n} \cup S) \in S
<1>1. \E t \in {n} \cup S : \A u \in {n} \cup S : u <= t
  <2>1. CASE S = {}
    BY <2>1
  <2>2. ASSUME NEW m \in Nat, S = {m} PROVE \E t \in {n} \cup S : \A u \in {n} \cup S : u <= t
    <3>1. CASE n <= m BY <2>2, <3>1
    <3>2. CASE m <= n BY <2>2, <3>2
    <3> QED BY <2>2, <3>1, <3>2
  <2> QED BY <2>1, <2>2
<1>2. Hottest({n} \cup S) \in {n} \cup S
  BY <1>1 DEF Hottest
<1> QED BY <1>2

\* What a heating command names is nothing or one target.
LEMMA OneTarget ==
  ASSUME NEW s \in Optional(Temps), NEW r \in Optional(Temps)
  PROVE  LET T == IF s # {} THEN s ELSE r IN T \subseteq Temps /\ (T = {} \/ \E m \in Nat : T = {m})
BY CommandsAssumption DEF Optional

-------------------------------------------------------------------------------
\* Every variable keeps its type.
THEOREM TypeCorrect == Spec => []TypeOK
<1>1. Init => TypeOK
  <2> SUFFICES ASSUME Init PROVE TypeOK
    OBVIOUS
  <2>1. lines \in 0..MaxLines /\ position \in Int /\ at \in Int /\ heated \in Nat
    BY CommandsAssumption DEF Init
  <2> QED BY <2>1 DEF Init, TypeOK
<1>2. TypeOK /\ [Next]_vars => TypeOK'
  <2> SUFFICES ASSUME TypeOK, [Next]_vars PROVE TypeOK'
    OBVIOUS
  <2> USE CommandsAssumption DEF TypeOK, Line, Add
  <2>1. ASSUME NEW abs \in BOOLEAN, Mode(abs) PROVE TypeOK'
    BY <2>1 DEF Mode
  <2>2. ASSUME NEW v \in Steps, NEW by \in Steps, Move(v) \/ Arc(v, by) \/ Circle(by)
        PROVE  TypeOK'
    <3>1. CASE Move(v)
      BY <3>1 DEF Move, Reach, LeavesAt, Target
    <3>2. CASE Arc(v, by)
      BY <3>2 DEF Arc, Reach, LeavesAt, Target
    <3>3. CASE Circle(by)
      BY <3>3 DEF Circle, LeavesAt
    <3> QED BY <2>2, <3>1, <3>2, <3>3
  <2>3. ASSUME NEW v \in Steps, SetPosition(v) PROVE TypeOK'
    BY <2>3 DEF SetPosition
  <2>4. CASE Home
    BY <2>4 DEF Home
  <2>5. ASSUME NEW t \in Optional(Tools), NEW s \in Optional(Temps), NEW r \in Optional(Temps),
               Heat(t, s, r)
        PROVE  TypeOK'
    <3>1. t \subseteq Tools BY DEF Optional
    <3>2. heated' \in Nat BY <2>5, OneTarget, HottestOfFew DEF Heat
    <3> QED BY <2>5, <3>1, <3>2 DEF Heat
  <2>6. ASSUME NEW t \in Tools, UseTool(t) PROVE TypeOK'
    BY <2>6 DEF UseTool
  <2>7. ASSUME NEW t \in Optional(Tools), NEW right \in BOOLEAN, CheckNozzle(t, right) PROVE TypeOK'
    <3>1. nozzle' \in [Tools -> {"none", "right", "wrong"}]
      BY <2>7 DEF CheckNozzle
    <3> QED BY <2>7, <3>1 DEF CheckNozzle
  <2>8. ASSUME NEW right \in BOOLEAN, CheckModel(right) PROVE TypeOK'
    BY <2>8 DEF CheckModel
  <2>9. CASE AskShaper \/ Forbidden
    <3>1. CASE AskShaper
      BY <3>1 DEF AskShaper
    <3>2. CASE Forbidden
      BY <3>2 DEF Forbidden
    <3> QED BY <2>9, <3>1, <3>2
  <2>10. CASE UNCHANGED vars
    BY <2>10 DEF vars, kept
  <2> QED
    BY <2>1, <2>2, <2>3, <2>4, <2>5, <2>6, <2>7, <2>8, <2>9, <2>10 DEF Next, Motion, Checks
<1> QED BY <1>1, <1>2, PTL DEF Spec

\* What a step that neither moves nor homes leaves alone.
LEMMA StaysThere ==
  ASSUME TypeOK, Next, ~Motion
  PROVE  UNCHANGED <<position, at, renamed, went>> /\ issues \subseteq issues'
BY DEF TypeOK, Next, Heat, UseTool, Checks, CheckNozzle, CheckModel, AskShaper, Forbidden, Add

\* No move of a file that passes ends off the bed until the file names its place anew, in
\* absolute or relative mode and between them, however long it is: till then the function's
\* position is the machine's, and an arc between its ends is all that is left unwatched.
THEOREM StaysOver == Spec => []StaysOverTheBed
<1>1. Init => Followed
  BY DEF Init, Followed
<1>2. TypeOK /\ Followed /\ [Next]_vars => Followed'
  <2> SUFFICES ASSUME TypeOK, Followed, [Next]_vars PROVE Followed'
    OBVIOUS
  <2>1. ASSUME NEW abs \in BOOLEAN, Mode(abs) PROVE Followed'
    BY <2>1 DEF Mode, Followed
  <2>2. ASSUME NEW v \in Steps, NEW by \in Steps, Move(v) \/ Arc(v, by) \/ Circle(by)
        PROVE  Followed'
    <3>1. CASE Circle(by)
      BY <3>1 DEF Circle, LeavesAt, Followed
    <3>2. CASE Move(v) \/ Arc(v, by)
      <4>1. Reach(v) /\ ("end" \in went' => "end" \in went \/ OffBed(at)')
        BY <3>2 DEF Move, Arc, Reach, LeavesAt, OffBed
      <4>2. ~renamed' => position' = at' /\ ~renamed
        BY <4>1, CommandsAssumption DEF Reach, Target, Followed, TypeOK
      <4>3. /\ "motion-bound" \in issues => "motion-bound" \in issues'
            /\ position' \notin 0..Bed => "motion-bound" \in issues'
        BY <4>1 DEF Reach, Add
      <4> QED BY <4>1, <4>2, <4>3 DEF Followed, OffBed
    <3> QED BY <2>2, <3>1, <3>2
  <2>3. CASE Next /\ ~Motion
    BY <2>3, StaysThere DEF Followed
  <2>4. CASE UNCHANGED vars
    BY <2>4 DEF vars, kept, Followed
  <2>5. CASE Home \/ \E v \in Steps : SetPosition(v)
    BY <2>5 DEF Home, SetPosition, Followed
  <2> QED BY <2>1, <2>2, <2>3, <2>4, <2>5 DEF Motion
<1>3. TypeOK /\ Followed => StaysOverTheBed
  BY DEF TypeOK, Followed, StaysOverTheBed, Passed
<1> QED BY <1>1, <1>2, <1>3, TypeCorrect, PTL DEF Spec

\* No file that passes heats anything above the limit, whatever S and R its commands name.
THEOREM HeatsWithin == Spec => []HeatsWithinLimits
<1>1. Init => Noticed
  BY CommandsAssumption DEF Init, Noticed
<1>2. TypeOK /\ Noticed /\ [Next]_vars => Noticed'
  <2> SUFFICES ASSUME TypeOK, Noticed, [Next]_vars PROVE Noticed'
    OBVIOUS
  <2>1. ASSUME NEW t \in Optional(Tools), NEW s \in Optional(Temps), NEW r \in Optional(Temps),
               Heat(t, s, r)
        PROVE  Noticed'
    <3> DEFINE T == IF s # {} THEN s ELSE r
    <3>1. heated' = Hottest({heated} \cup T)
      BY <2>1 DEF Heat
    <3>2. heated' = heated \/ heated' \in T
      BY <3>1, OneTarget, HottestOfFew DEF TypeOK
    <3>3. issues' = IF \E u \in T : u > MaxTemp THEN issues \cup {"temperature-limit"} ELSE issues
      BY <2>1 DEF Heat, Add, TargetOf
    <3> QED BY <3>2, <3>3 DEF Noticed
  <2>2. CASE Motion
    BY <2>2 DEF Motion, Mode, Move, Arc, Reach, Circle, SetPosition, Home, Add, Noticed
  <2>3. CASE (\E t \in Tools : UseTool(t)) \/ Checks \/ Forbidden
    BY <2>3 DEF UseTool, Checks, CheckNozzle, CheckModel, AskShaper, Forbidden, Add, Noticed
  <2>4. CASE UNCHANGED vars
    BY <2>4 DEF vars, kept, Noticed
  <2> QED BY <2>1, <2>2, <2>3, <2>4 DEF Next
<1>3. TypeOK /\ Noticed => HeatsWithinLimits
  BY CommandsAssumption DEF TypeOK, Noticed, HeatsWithinLimits, Passed
<1> QED BY <1>1, <1>2, <1>3, TypeCorrect, PTL DEF Spec

\* A file that passes has every tool the machine is told to use or to heat installed and
\* checked: the function names all of them, whatever the order of the lines.
THEOREM ToolsAreThere == Spec => []ToolsAreInstalled
<1>1. Init => told \subseteq used
  BY DEF Init
<1>2. told \subseteq used /\ [Next]_vars => (told \subseteq used)'
  <2> SUFFICES ASSUME told \subseteq used, [Next]_vars PROVE (told \subseteq used)'
    OBVIOUS
  <2>1. CASE \E t \in Optional(Tools), s, r \in Optional(Temps) : Heat(t, s, r)
    BY <2>1 DEF Heat
  <2>2. CASE \E t \in Tools : UseTool(t)
    BY <2>2 DEF UseTool
  <2>3. CASE Motion
    BY <2>3 DEF Motion, Mode, Move, Arc, Reach, Circle, SetPosition, Home
  <2>4. CASE Checks \/ Forbidden
    BY <2>4 DEF Checks, CheckNozzle, CheckModel, AskShaper, Forbidden
  <2>5. CASE UNCHANGED vars
    BY <2>5 DEF vars, kept
  <2> QED BY <2>1, <2>2, <2>3, <2>4, <2>5 DEF Next
<1>3. told \subseteq used => ToolsAreInstalled
  BY DEF ToolsAreInstalled, Passed, ToolsRight
<1> QED BY <1>1, <1>2, <1>3, PTL DEF Spec

\* Whatever passes, however long, does the printer none of the three harms.
THEOREM DoesNoHarm == Spec => []PassedDoesNoHarm
BY TypeCorrect, StaysOver, HeatsWithin, ToolsAreThere, PTL DEF PassedDoesNoHarm

-------------------------------------------------------------------------------
(***************************************************************************)
(* validate_upload.                                                        *)
(***************************************************************************)
Outcomes == {"PASS", "FAIL", "NOT_CHECKED"}
Reports == [stage : 1 .. 6, status : Outcomes]

\* The first n stages have passed, and nothing more is reported.
HavePassed(s, n) == Len(s) = n /\ \A i \in 1 .. n : s[i].stage = i /\ s[i].status = "PASS"

\* Stage n has failed, and none before it.
HasFailed(s, n) ==
  /\ Len(s) = n /\ s[n].status = "FAIL"
  /\ \A i \in 1 .. n : s[i].stage = i /\ (i < n => s[i].status # "FAIL")

\* The steps before the verdict, and how many stages are behind a validation that is there.
Before == {"format", "parse", "convert", "parse text", "metadata", "profiles", "commands"}
PassedAt(step) ==
  IF step = "format" THEN 0
  ELSE IF step \in {"parse", "convert", "parse text"} THEN 1
  ELSE IF step = "metadata" THEN 2 ELSE 3

LEMMA StepsBefore ==
  /\ "format" \in Before /\ PassedAt("format") = 0
  /\ \A step \in {"parse", "convert", "parse text"} : step \in Before /\ PassedAt(step) = 1
  /\ "metadata" \in Before /\ PassedAt("metadata") = 2
  /\ \A step \in {"profiles", "commands"} : step \in Before /\ PassedAt(step) = 3
  /\ \A step \in {"return", "done"} : step \notin Before
BY DEF Before, PassedAt

ReportsOK ==
  /\ stages \in Seq(Reports) /\ failed_stage \in 0 .. 6
  /\ pc \in Before => failed_stage = 0 /\ HavePassed(stages, PassedAt(pc))
  /\ pc \notin Before =>
       IF failed_stage = 0 THEN HavePassed(stages, 6) ELSE HasFailed(stages, failed_stage)

\* Past the matching there is a profile, and past the last stage the commands agree with it.
MatchedOK ==
  /\ pc = "commands" \/ (pc \in {"return", "done"} /\ failed_stage = 0) =>
       profile \in Stages!ProfileIds /\ Stages!Matches(upload.metadata, profile)
  /\ pc \in {"return", "done"} /\ failed_stage = 0 =>
       Stages!CommandsAgree(upload.metadata, upload.executable)

StagesIInv ==
  /\ upload \in Uploads /\ pc \in Before \cup {"return", "done"}
  /\ profile \in Stages!ProfileIds \cup {"none"} /\ on_disk \in BOOLEAN /\ temp_dir \in BOOLEAN
  /\ ReportsOK /\ MatchedOK

LEMMA ReportsOne ==
  ASSUME NEW s \in Seq(Reports), NEW n \in 0 .. 5, HavePassed(s, n), NEW status \in Outcomes
  PROVE  LET t == Append(s, Stages!Stage(n + 1, status))
         IN  /\ t \in Seq(Reports)
             /\ status = "PASS" => HavePassed(t, n + 1)
             /\ status = "FAIL" => HasFailed(t, n + 1)
<1> DEFINE e == Stages!Stage(n + 1, status)  t == Append(s, e)
<1>1. e \in Reports /\ e.stage = n + 1 /\ e.status = status
  BY DEF Stages!Stage, Reports
<1> HIDE DEF e
<1>2. /\ t \in Seq(Reports) /\ Len(t) = n + 1 /\ t[n + 1] = e
      /\ \A i \in 1 .. n : t[i] = s[i]
  BY <1>1, AppendProperties DEF HavePassed
<1> HIDE DEF t
<1>3. \A i \in 1 .. n + 1 : i \in 1 .. n \/ i = n + 1 OBVIOUS
<1>4. \A i \in 1 .. n : t[i].stage = i /\ t[i].status = "PASS"
  BY <1>2 DEF HavePassed
<1>5. status = "PASS" => HavePassed(t, n + 1) BY <1>1, <1>2, <1>3, <1>4 DEF HavePassed
<1>6. status = "FAIL" => HasFailed(t, n + 1) BY <1>1, <1>2, <1>3, <1>4 DEF HasFailed
<1> QED BY <1>2, <1>5, <1>6 DEF t, e

LEMMA ReportsThree ==
  ASSUME NEW s \in Seq(Reports), HavePassed(s, 3), NEW a \in Outcomes, NEW c \in Outcomes,
         a # "FAIL"
  PROVE  LET t == s \o <<Stages!Stage(4, a), Stages!Stage(5, "PASS"), Stages!Stage(6, c)>>
         IN  /\ t \in Seq(Reports)
             /\ a = "PASS" /\ c = "PASS" => HavePassed(t, 6)
             /\ c = "FAIL" => HasFailed(t, 6)
<1> DEFINE u == <<Stages!Stage(4, a), Stages!Stage(5, "PASS"), Stages!Stage(6, c)>>
           t == s \o u
<1>1. /\ u \in Seq(Reports) /\ Len(u) = 3
      /\ u[1].stage = 4 /\ u[1].status = a /\ u[2].stage = 5 /\ u[2].status = "PASS"
      /\ u[3].stage = 6 /\ u[3].status = c
  BY DEF Stages!Stage, Reports, Outcomes
<1> HIDE DEF u
<1>2. t \in Seq(Reports) /\ Len(t) = 6
      /\ \A i \in 1 .. 6 : t[i] = IF i <= 3 THEN s[i] ELSE u[i - 3]
  <2>1. s \in Seq(Reports) /\ Len(s) = 3 BY DEF HavePassed
  <2>2. s \o u \in Seq(Reports) /\ Len(s \o u) = Len(s) + Len(u) BY <1>1, <2>1, ConcatProperties
  <2>3. \A i \in 1 .. Len(s) + Len(u) : (s \o u)[i] = IF i <= Len(s) THEN s[i] ELSE u[i - Len(s)]
    BY <1>1, <2>1, ConcatProperties
  <2> QED BY <1>1, <2>1, <2>2, <2>3
<1> HIDE DEF t
<1>3. \A i \in 1 .. 3 : t[i].stage = i /\ t[i].status = "PASS"
  BY <1>2 DEF HavePassed
<1>4. t[4] = u[1] /\ t[5] = u[2] /\ t[6] = u[3] BY <1>2
<1>5. \A i \in 1 .. 6 : i \in 1 .. 3 \/ i = 4 \/ i = 5 \/ i = 6 OBVIOUS
<1>6. a = "PASS" /\ c = "PASS" => HavePassed(t, 6) BY <1>1, <1>2, <1>3, <1>4, <1>5 DEF HavePassed
<1>7. c = "FAIL" => HasFailed(t, 6) BY <1>1, <1>2, <1>3, <1>4, <1>5 DEF HasFailed
<1> QED BY <1>2, <1>6, <1>7 DEF t, u

\* A stage that fails ends the validation.
LEMMA StageFails ==
  ASSUME StagesIInv, NEW n \in 1 .. 6, pc \in Before, PassedAt(pc) = n - 1,
         Stages!Fails(n)
  PROVE  ReportsOK' /\ MatchedOK' /\ pc' = "return" /\ profile' = profile /\ upload' = upload
<1>1. stages \in Seq(Reports) /\ HavePassed(stages, n - 1) BY DEF StagesIInv, ReportsOK
<1>2. /\ stages' = Append(stages, Stages!Stage(n, "FAIL")) /\ failed_stage' = n
      /\ pc' = "return" /\ profile' = profile /\ upload' = upload
  BY DEF Stages!Fails
<1>0. n \in 0 .. 6 /\ n # 0 OBVIOUS
<1>3. n - 1 \in 0 .. 5 /\ (n - 1) + 1 = n OBVIOUS
<1>4. stages' \in Seq(Reports) /\ HasFailed(stages', n)
  BY <1>1, <1>2, <1>3, ReportsOne DEF Outcomes
<1>5. ReportsOK' BY <1>0, <1>2, <1>4, StepsBefore DEF ReportsOK
<1>6. MatchedOK' BY <1>2 DEF MatchedOK
<1> QED BY <1>2, <1>5, <1>6

\* A stage that passes goes on to the next.
LEMMA StagePasses ==
  ASSUME StagesIInv, NEW n \in 1 .. 3, pc \in Before, PassedAt(pc) = n - 1,
         NEW to \in {"parse", "metadata", "profiles"}, PassedAt(to) = n,
         Stages!Passes(n, to)
  PROVE  ReportsOK' /\ MatchedOK' /\ pc' = to /\ upload' = upload
<1>1. /\ stages \in Seq(Reports) /\ HavePassed(stages, n - 1) /\ failed_stage = 0
  BY DEF StagesIInv, ReportsOK
<1>2. /\ stages' = Append(stages, Stages!Stage(n, "PASS")) /\ failed_stage' = failed_stage
      /\ pc' = to /\ upload' = upload
  BY DEF Stages!Passes
<1>3. n - 1 \in 0 .. 5 /\ (n - 1) + 1 = n OBVIOUS
<1>4. stages' \in Seq(Reports) /\ HavePassed(stages', n)
  BY <1>1, <1>2, <1>3, ReportsOne DEF Outcomes
<1>5. ReportsOK'
  <2>1. to \in Before /\ failed_stage' = 0 /\ HavePassed(stages', PassedAt(to))
    BY <1>1, <1>2, <1>4, StepsBefore
  <2> QED BY <1>2, <1>4, <2>1 DEF ReportsOK
<1>6. MatchedOK' BY <1>2 DEF MatchedOK
<1> QED BY <1>2, <1>5, <1>6

LEMMA StagesInit == Stages!Init => StagesIInv
<1> SUFFICES ASSUME Stages!Init PROVE StagesIInv OBVIOUS
<1>1. <<>> \in Seq(Reports) /\ Len(<<>>) = 0 BY EmptySeq
<1>2. ReportsOK BY <1>1 DEF Stages!Init, ReportsOK, HavePassed, PassedAt, Before
<1> QED BY <1>2 DEF Stages!Init, StagesIInv, MatchedOK, PassedAt, Before

LEMMA StagesKept == StagesIInv /\ [Stages!Next]_Stages!vars => StagesIInv'
<1> SUFFICES ASSUME StagesIInv, [Stages!Next]_Stages!vars PROVE StagesIInv' OBVIOUS
<1>0. /\ upload \in Uploads /\ profile \in Stages!ProfileIds \cup {"none"}
      /\ on_disk \in BOOLEAN /\ temp_dir \in BOOLEAN
      /\ ReportsOK /\ MatchedOK
  BY DEF StagesIInv
<1>1. CASE Stages!CheckFormat
  <2>1. pc = "format" /\ UNCHANGED <<on_disk, temp_dir>> BY <1>1 DEF Stages!CheckFormat
  <2>2. pc \in Before /\ PassedAt(pc) = 1 - 1
    <3>1. PassedAt(pc) = PassedAt("format") BY <2>1
    <3>2. 1 - 1 = 0 OBVIOUS
    <3> QED BY <2>1, <3>1, <3>2, StepsBefore
  <2>3. CASE Stages!Passes(1, "parse") /\ UNCHANGED profile
    <3>0. PassedAt("parse") = 1 BY StepsBefore
    <3>1. ReportsOK' /\ MatchedOK' /\ pc' = "parse" /\ upload' = upload
      BY <2>2, <2>3, <3>0, StagePasses
    <3> QED BY <1>0, <2>1, <2>3, <3>1, StepsBefore DEF StagesIInv
  <2>4. CASE Stages!Fails(1)
    BY <1>0, <2>1, <2>2, <2>4, StageFails DEF StagesIInv
  <2> QED BY <1>1, <2>3, <2>4 DEF Stages!CheckFormat
<1>2. CASE Stages!ParseText
  <2>1. pc = "parse" /\ UNCHANGED <<on_disk, temp_dir>> BY <1>2 DEF Stages!ParseText
  <2>2. pc \in Before /\ PassedAt(pc) = 2 - 1
    <3>1. PassedAt(pc) = PassedAt("parse") BY <2>1
    <3>2. 2 - 1 = 1 OBVIOUS
    <3> QED BY <2>1, <3>1, <3>2, StepsBefore
  <2>3. CASE Stages!Passes(2, "metadata") /\ UNCHANGED profile
    <3>0. PassedAt("metadata") = 2 BY StepsBefore
    <3>1. ReportsOK' /\ MatchedOK' /\ pc' = "metadata" /\ upload' = upload
      BY <2>2, <2>3, <3>0, StagePasses
    <3> QED BY <1>0, <2>1, <2>3, <3>1, StepsBefore DEF StagesIInv
  <2>4. CASE Stages!Fails(2)
    BY <1>0, <2>1, <2>2, <2>4, StageFails DEF StagesIInv
  <2> QED BY <1>2, <2>3, <2>4 DEF Stages!ParseText
<1>3. CASE Stages!ParseBinary
  <2>1. pc = "parse" /\ UNCHANGED <<on_disk, temp_dir>> BY <1>3 DEF Stages!ParseBinary
  <2>2. pc \in Before /\ PassedAt(pc) = 2 - 1
    <3>1. PassedAt(pc) = PassedAt("parse") BY <2>1
    <3>2. 2 - 1 = 1 OBVIOUS
    <3> QED BY <2>1, <3>1, <3>2, StepsBefore
  <2>3. CASE pc' = "convert" /\ UNCHANGED <<upload, stages, failed_stage, profile>>
    BY <1>0, <2>1, <2>3 DEF StagesIInv, ReportsOK, MatchedOK, PassedAt, Before
  <2>4. CASE Stages!Fails(2)
    BY <1>0, <2>1, <2>2, <2>4, StageFails DEF StagesIInv
  <2> QED BY <1>3, <2>3, <2>4 DEF Stages!ParseBinary
<1>4. CASE Stages!Convert
  <2>1. pc = "convert" /\ UNCHANGED temp_dir /\ on_disk' \in BOOLEAN
    BY <1>4 DEF Stages!Convert
  <2>2. pc \in Before /\ PassedAt(pc) = 2 - 1
    <3>1. PassedAt(pc) = PassedAt("convert") BY <2>1
    <3>2. 2 - 1 = 1 OBVIOUS
    <3> QED BY <2>1, <3>1, <3>2, StepsBefore
  <2>3. CASE pc' = "parse text" /\ UNCHANGED <<upload, stages, failed_stage, profile>>
    BY <1>0, <2>1, <2>3 DEF StagesIInv, ReportsOK, MatchedOK, PassedAt, Before
  <2>4. CASE Stages!Fails(2)
    BY <1>0, <2>1, <2>2, <2>4, StageFails DEF StagesIInv
  <2> QED BY <1>4, <2>3, <2>4 DEF Stages!Convert
<1>5. CASE Stages!ParseConverted
  <2>1. pc = "parse text" /\ UNCHANGED on_disk /\ temp_dir' \in BOOLEAN
    BY <1>0, <1>5 DEF Stages!ParseConverted
  <2>2. pc \in Before /\ PassedAt(pc) = 2 - 1
    <3>1. PassedAt(pc) = PassedAt("parse text") BY <2>1
    <3>2. 2 - 1 = 1 OBVIOUS
    <3> QED BY <2>1, <3>1, <3>2, StepsBefore
  <2>3. CASE Stages!Passes(2, "metadata") /\ UNCHANGED profile
    <3>0. PassedAt("metadata") = 2 BY StepsBefore
    <3>1. ReportsOK' /\ MatchedOK' /\ pc' = "metadata" /\ upload' = upload
      BY <2>2, <2>3, <3>0, StagePasses
    <3> QED BY <1>0, <2>1, <2>3, <3>1, StepsBefore DEF StagesIInv
  <2>4. CASE Stages!Fails(2)
    <3>1. ReportsOK' /\ MatchedOK' /\ pc' = "return" /\ profile' = profile /\ upload' = upload
      BY <2>2, <2>4, StageFails
    <3> QED BY <1>0, <2>1, <3>1 DEF StagesIInv
  <2> QED BY <1>5, <2>3, <2>4 DEF Stages!ParseConverted
<1>6. CASE Stages!ExtractMetadata
  <2>1. pc = "metadata" /\ UNCHANGED <<on_disk, temp_dir>> BY <1>6 DEF Stages!ExtractMetadata
  <2>2. pc \in Before /\ PassedAt(pc) = 3 - 1
    <3>1. PassedAt(pc) = PassedAt("metadata") BY <2>1
    <3>2. 3 - 1 = 2 OBVIOUS
    <3> QED BY <2>1, <3>1, <3>2, StepsBefore
  <2>3. CASE Stages!Passes(3, "profiles") /\ UNCHANGED profile
    <3>0. PassedAt("profiles") = 3 BY StepsBefore
    <3>1. ReportsOK' /\ MatchedOK' /\ pc' = "profiles" /\ upload' = upload
      BY <2>2, <2>3, <3>0, StagePasses
    <3> QED BY <1>0, <2>1, <2>3, <3>1, StepsBefore DEF StagesIInv
  <2>4. CASE Stages!Fails(3)
    BY <1>0, <2>1, <2>2, <2>4, StageFails DEF StagesIInv
  <2> QED BY <1>6, <2>3, <2>4 DEF Stages!ExtractMetadata
<1>7. CASE Stages!MatchProfiles
  <2>1. pc = "profiles" /\ UNCHANGED <<upload, on_disk, temp_dir>> BY <1>7 DEF Stages!MatchProfiles
  <2>2. stages \in Seq(Reports) /\ HavePassed(stages, 3) /\ failed_stage = 0
    BY <1>0, <2>1 DEF ReportsOK, PassedAt, Before
  <2>3. CASE Stages!Cardinality(Stages!Candidates) = 1
    <3>1. /\ profile' = CHOOSE id \in Stages!Candidates : TRUE
          /\ pc' = "commands" /\ UNCHANGED <<stages, failed_stage>>
      BY <1>7, <2>3 DEF Stages!MatchProfiles
    <3>2. Stages!Candidates # {}
      <4>1. Stages!Cardinality({}) = 0 BY FS_EmptySet DEF Stages!Cardinality, Cardinality
      <4> QED BY <2>3, <4>1
    <3>3. profile' \in Stages!ProfileIds /\ Stages!Matches(upload.metadata, profile')
      BY <3>1, <3>2 DEF Stages!Candidates
    <3>4. MatchedOK' BY <2>1, <3>1, <3>3 DEF MatchedOK
    <3>5. ReportsOK' BY <2>2, <3>1 DEF ReportsOK, PassedAt, Before
    <3> QED BY <1>0, <2>1, <3>1, <3>3, <3>4, <3>5 DEF StagesIInv, PassedAt, Before
  <2>4. CASE Stages!Cardinality(Stages!Candidates) # 1
    <3>1. /\ stages' = stages \o <<Stages!Stage(4, "NOT_CHECKED"), Stages!Stage(5, "PASS"),
                                   Stages!Stage(6, "FAIL")>>
          /\ failed_stage' = 6 /\ pc' = "return" /\ UNCHANGED profile
      BY <1>7, <2>4 DEF Stages!MatchProfiles
    <3>2. stages' \in Seq(Reports) /\ HasFailed(stages', 6)
      BY <2>2, <3>1, ReportsThree DEF Outcomes
    <3>3. ReportsOK' BY <3>1, <3>2 DEF ReportsOK, PassedAt, Before
    <3> QED BY <1>0, <2>1, <3>1, <3>3 DEF StagesIInv, MatchedOK, PassedAt, Before
  <2> QED BY <2>3, <2>4
<1>8. CASE Stages!CrossCheck
  <2>1. pc = "commands" /\ UNCHANGED <<on_disk, temp_dir>> BY <1>8 DEF Stages!CrossCheck
  <2>2. pc \in Before /\ PassedAt(pc) = 4 - 1
    <3>1. PassedAt(pc) = PassedAt("commands") BY <2>1
    <3>2. 4 - 1 = 3 OBVIOUS
    <3> QED BY <2>1, <3>1, <3>2, StepsBefore
  <2>3. CASE Stages!CommandsAgree(upload.metadata, upload.executable)
    <3>1. /\ stages' = stages \o <<Stages!Stage(4, "PASS"), Stages!Stage(5, "PASS"),
                                   Stages!Stage(6, "PASS")>>
          /\ pc' = "return" /\ UNCHANGED <<upload, failed_stage, profile>>
      BY <1>8, <2>3 DEF Stages!CrossCheck
    <3>2. stages \in Seq(Reports) /\ HavePassed(stages, 3) /\ failed_stage = 0
      BY <1>0, <2>1 DEF ReportsOK, PassedAt, Before
    <3>3. stages' \in Seq(Reports) /\ HavePassed(stages', 6)
      BY <3>1, <3>2, ReportsThree DEF Outcomes
    <3>4. ReportsOK' BY <3>1, <3>2, <3>3 DEF ReportsOK, PassedAt, Before
    <3>5. MatchedOK' BY <1>0, <2>1, <2>3, <3>1, <3>2 DEF MatchedOK
    <3> QED BY <1>0, <2>1, <3>1, <3>4, <3>5 DEF StagesIInv
  <2>4. CASE Stages!Fails(4)
    BY <1>0, <2>1, <2>2, <2>4, StageFails DEF StagesIInv
  <2> QED BY <1>8, <2>3, <2>4 DEF Stages!CrossCheck
<1>9. CASE Stages!Return
  BY <1>0, <1>9 DEF Stages!Return, StagesIInv, ReportsOK, MatchedOK, PassedAt, Before
<1>10. CASE UNCHANGED Stages!vars
  BY <1>10 DEF Stages!vars, StagesIInv, ReportsOK, MatchedOK
<1> QED
  BY <1>1, <1>2, <1>3, <1>4, <1>5, <1>6, <1>7, <1>8, <1>9, <1>10 DEF Stages!Next

\* The stages are reported in order, without a gap, up to the one that failed.
LEMMA StagesTell == StagesIInv => Stages!TypeOK /\ Stages!StagesTellTheVerdict
<1>1. StagesIInv => Stages!TypeOK
  BY DEF StagesIInv, ReportsOK, Stages!TypeOK, Reports, Outcomes, PassedAt, Before
<1>2. StagesIInv => Stages!StagesTellTheVerdict
  <2> SUFFICES ASSUME StagesIInv PROVE Stages!StagesTellTheVerdict OBVIOUS
  <2>1. stages \in Seq(Reports) /\ DOMAIN stages = 1 .. Len(stages) /\ failed_stage \in 0 .. 6
    BY DEF StagesIInv, ReportsOK
  <2>2. \/ \E n \in 0 .. 6 : HavePassed(stages, n)
        \/ failed_stage # 0 /\ HasFailed(stages, failed_stage)
    <3>1. \A step \in Before : PassedAt(step) \in 0 .. 6 BY DEF PassedAt
    <3> QED BY <3>1 DEF StagesIInv, ReportsOK
  <2>3. \A i \in DOMAIN stages : stages[i].stage = i
    BY <2>1, <2>2 DEF HavePassed, HasFailed
  <2>4. ASSUME pc = "done", failed_stage = 0 PROVE HavePassed(stages, 6)
    BY <2>4 DEF StagesIInv, ReportsOK, PassedAt, Before
  <2>5. ASSUME pc = "done", failed_stage # 0 PROVE HasFailed(stages, failed_stage)
    BY <2>5 DEF StagesIInv, ReportsOK, PassedAt, Before
  <2> QED BY <2>1, <2>3, <2>4, <2>5 DEF Stages!StagesTellTheVerdict, HavePassed, HasFailed
<1> QED BY <1>1, <1>2

\* The two profiles differ in their model, and a file names one.
LEMMA OneModel == Stages!OneProfile
<1> SUFFICES ASSUME NEW p \in Stages!ProfileIds, NEW q \in Stages!ProfileIds,
                    Stages!Matches(upload.metadata, p), Stages!Matches(upload.metadata, q)
             PROVE  p = q
  BY DEF Stages!OneProfile
<1>1. Stages!SUPPORTED_PROFILES[p].model = Stages!SUPPORTED_PROFILES[q].model
  BY DEF Stages!Matches, Stages!SameIdentity
<1>2. \A id \in Stages!ProfileIds :
        Stages!SUPPORTED_PROFILES[id].model = IF id = "core_one_hf04" THEN "COREONE" ELSE "XL5IS"
  BY DEF Stages!SUPPORTED_PROFILES
<1> QED BY <1>1, <1>2 DEF Stages!ProfileIds

LEMMA SpanWithin ==
  ASSUME NEW a \in Int, NEW b \in Int, NEW c \in Int, NEW d \in Int, NEW v \in Int,
         a >= b, c <= d, d - b <= v
  PROVE  c - a <= v
OBVIOUS

\* What objects take in x and y they take within the bed, which is within the printer.
LEMMA ObjectsFit ==
  ASSUME Stages!UploadAssumption, upload \in Uploads, NEW p,
         Stages!FitsVolume(upload.metadata, p), p.volume[1] \in Int, p.volume[2] \in Int,
         upload.metadata.objects # <<>>
  PROVE  LET box == upload.metadata.objects
         IN  box[3] - box[1] <= p.volume[1] /\ box[4] - box[2] <= p.volume[2]
<1> DEFINE b == upload.metadata.bed  o == upload.metadata.objects
<1>1. b \in {<<>>} \cup [1 .. 4 -> Int] /\ o \in {<<>>} \cup [1 .. 4 -> Int]
  BY DEF Stages!UploadAssumption
<1>2. /\ b # <<>> /\ b[3] - b[1] <= p.volume[1] /\ b[4] - b[2] <= p.volume[2]
      /\ o[1] >= b[1] /\ o[2] >= b[2] /\ o[3] <= b[3] /\ o[4] <= b[4]
  BY DEF Stages!FitsVolume
<1>3. b \in [1 .. 4 -> Int] /\ o \in [1 .. 4 -> Int] BY <1>1, <1>2
<1>4. /\ b[1] \in Int /\ b[2] \in Int /\ b[3] \in Int /\ b[4] \in Int
      /\ o[1] \in Int /\ o[2] \in Int /\ o[3] \in Int /\ o[4] \in Int
  BY <1>3
<1> HIDE DEF b, o
<1>5. o[3] - o[1] <= p.volume[1] BY <1>2, <1>4, SpanWithin
<1>6. o[4] - o[2] <= p.volume[2] BY <1>2, <1>4, SpanWithin
<1> USE DEF b, o
<1> QED BY <1>5, <1>6

\* What a passed file's commands and objects ask for, the printer it was matched with has;
\* and no file is right for both printers.
LEMMA MatchedFits ==
  ASSUME Stages!UploadAssumption
  PROVE  StagesIInv => Stages!PassedFitsThePrinter
<1> SUFFICES ASSUME StagesIInv, Stages!passed PROVE Stages!PassedFitsThePrinter
  BY DEF Stages!PassedFitsThePrinter
<1> DEFINE m == upload.metadata  x == upload.executable  p == Stages!SUPPORTED_PROFILES[profile]
<1>1. /\ upload \in Uploads /\ profile \in Stages!ProfileIds
      /\ Stages!Matches(m, profile) /\ Stages!CommandsAgree(m, x)
  BY DEF StagesIInv, MatchedOK, Stages!passed
<1>2. Stages!SameIdentity(m, p) /\ Stages!FitsVolume(m, p) BY <1>1 DEF Stages!Matches
<1>3. p.volume[1] \in Int /\ p.volume[2] \in Int /\ p.nozzles # <<>>
  BY <1>1 DEF Stages!SUPPORTED_PROFILES, Stages!ProfileIds
<1> HIDE DEF p
<1>4. /\ m.model = p.model /\ m.nozzles = p.nozzles
      /\ p.high_flow # <<>> => m.high_flow = p.high_flow
  BY <1>2 DEF Stages!SameIdentity
<1>5. p.model \in x.models BY <1>1, <1>4 DEF Stages!CommandsAgree
<1>6. \A i \in DOMAIN x.m862_1 :
        x.m862_1[i].nozzle \in Stages!ToSet(p.nozzles) \cup {Stages!Absent}
  BY <1>1, <1>3, <1>4 DEF Stages!CommandsAgree, Stages!Agrees
<1>7. p.high_flow # <<>> =>
        \A i \in DOMAIN x.m862_1 :
          x.m862_1[i].high_flow \in Stages!ToSet(p.high_flow) \cup {Stages!Absent}
  BY <1>1, <1>4 DEF Stages!CommandsAgree, Stages!Agrees
<1>8. m.objects # <<>> => m.objects[3] - m.objects[1] <= p.volume[1]
                          /\ m.objects[4] - m.objects[2] <= p.volume[2]
  BY <1>1, <1>2, <1>3, ObjectsFit
<1> QED BY <1>5, <1>6, <1>7, <1>8 DEF Stages!PassedFitsThePrinter, p

-------------------------------------------------------------------------------
(***************************************************************************)
(* parse_binary_gcode.                                                     *)
(***************************************************************************)
\* What a block takes in the file.
Span(f, b) == 8 + Block!SizeField(b) + Block!ParamSize(b) + b.size + Block!Checksum(f)

LEMMA SpanIsMore == ASSUME NEW f, NEW b \in Block!Blocks PROVE Span(f, b) \in Nat /\ Span(f, b) >= 10
BY DEF Span, Block!SizeField, Block!ParamSize, Block!Checksum, Block!Blocks

LEMMA SpanIsWalked ==
  ASSUME NEW f, NEW b \in Block!Blocks, NEW v \in Nat
  PROVE  v + 8 + Block!SizeField(b) + Block!ParamSize(b) + b.size + Block!Checksum(f)
           = v + Span(f, b)
<1>1. Block!SizeField(b) \in Nat /\ Block!ParamSize(b) \in Nat /\ Block!Checksum(f) \in Nat
  BY DEF Block!SizeField, Block!ParamSize, Block!Checksum
<1>2. b.size \in Nat BY DEF Block!Blocks
<1> QED BY <1>1, <1>2 DEF Span

\* The ends of the blocks are what they are added up to be.
LEMMA EndsAddUp ==
  ASSUME NEW f, f.blocks \in Seq(Block!Blocks)
  PROVE  /\ Block!EndsIn(f) \in [0 .. Len(f.blocks) -> Nat]
         /\ Block!EndsIn(f)[0] = 10
         /\ \A k \in 0 .. Len(f.blocks) - 1 :
              Block!EndsIn(f)[k + 1] = Block!EndsIn(f)[k] + Span(f, f.blocks[k + 1])
<1> DEFINE n == Len(f.blocks)
           step == [p \in Nat \X Nat |->
                      p[2] + (IF p[1] < n THEN Span(f, f.blocks[p[1] + 1]) ELSE 0)]
           Is(e) == e = [k \in 0 .. Len(f.blocks) |->
                           IF k = 0 THEN Block!HeaderSize
                           ELSE LET b == f.blocks[k]
                                IN e[k - 1] + 8 + Block!SizeField(b) + Block!ParamSize(b) + b.size
                                     + Block!Checksum(f)]
<1>1. n \in Nat /\ \A k \in 1 .. n : f.blocks[k] \in Block!Blocks
  OBVIOUS
<1>2. \A k \in 1 .. n : Span(f, f.blocks[k]) \in Nat
  BY <1>1, SpanIsMore
<1> HIDE DEF n
<1>3. step \in [Nat \X Nat -> Nat]
  BY <1>1, <1>2
<1>4. \A i, v \in Nat : i < n => step[<<i, v>>] = v + Span(f, f.blocks[i + 1])
  OBVIOUS
<1> HIDE DEF step
<1>5. PICK e \in [0 .. n -> Nat] : Follows(e, n, 10, step)
  BY <1>1, <1>3, RecursionUpTo
<1>6. ASSUME NEW k \in 0 .. n - 1 PROVE e[k + 1] = e[k] + Span(f, f.blocks[k + 1])
  <2>1. k \in Nat /\ e[k] \in Nat /\ k < n
    BY <1>1
  <2> QED BY <1>4, <1>5, <2>1 DEF Follows
<1>7. ASSUME NEW v \in Nat, NEW k \in 1 .. n
      PROVE  LET b == f.blocks[k]
             IN  v + 8 + Block!SizeField(b) + Block!ParamSize(b) + b.size + Block!Checksum(f)
                   = v + Span(f, b)
  BY <1>1, SpanIsWalked
<1>8. Is(e)
  <2>1. ASSUME NEW k \in 0 .. n
        PROVE  e[k] = IF k = 0 THEN Block!HeaderSize
                      ELSE LET b == f.blocks[k]
                           IN e[k - 1] + 8 + Block!SizeField(b) + Block!ParamSize(b) + b.size
                                + Block!Checksum(f)
    <3>1. CASE k = 0 BY <1>5, <3>1 DEF Follows, Block!HeaderSize
    <3>2. CASE k # 0
      <4>1. k - 1 \in 0 .. n - 1 /\ k - 1 + 1 = k /\ k \in 1 .. n /\ e[k - 1] \in Nat
        BY <1>1, <3>2
      <4>2. e[k] = e[k - 1] + Span(f, f.blocks[k]) BY <1>6, <4>1
      <4> QED BY <1>7, <3>2, <4>1, <4>2
    <3> QED BY <3>1, <3>2
  <2> QED BY <2>1 DEF n
<1>9. Block!EndsIn(f) = CHOOSE g : Is(g)
  BY DEF Block!EndsIn
<1>10. Is(Block!EndsIn(f))
  <2> HIDE DEF Is
  <2> QED BY <1>8, <1>9
<1>11. ASSUME NEW g, Is(g) PROVE g = e
  <2> DEFINE T == {k \in 0 .. n : g[k] = e[k]}
  <2>1. 0 \in T BY <1>1, <1>5, <1>11 DEF Follows, n, Block!HeaderSize
  <2>2. ASSUME NEW k \in 0 .. n - 1, k \in T PROVE k + 1 \in T
    <3>1. k + 1 \in 1 .. n /\ k + 1 - 1 = k /\ e[k] \in Nat BY <1>1
    <3>2. g[k + 1] = g[k] + Span(f, f.blocks[k + 1]) BY <1>7, <1>11, <2>2, <3>1 DEF n
    <3> QED BY <1>6, <2>2, <3>1, <3>2
  <2> HIDE DEF T
  <2>3. 0 .. n \subseteq T BY <1>1, <2>1, <2>2, InductionUpTo
  <2>4. g = [k \in 0 .. n |-> g[k]] /\ e = [k \in 0 .. n |-> e[k]] BY <1>11 DEF n
  <2> QED BY <2>3, <2>4 DEF T
<1>12. Block!EndsIn(f) = e
  BY <1>10, <1>11
<1> QED BY <1>5, <1>6, <1>12 DEF Follows, n

\* A later block ends later, ten bytes at least.
LEMMA EndsGrow ==
  ASSUME NEW f, f.blocks \in Seq(Block!Blocks),
         NEW k \in 0 .. Len(f.blocks), NEW m \in 0 .. Len(f.blocks), k < m
  PROVE  Block!EndsIn(f)[k] + Span(f, f.blocks[k + 1]) <= Block!EndsIn(f)[m]
<1> DEFINE n == Len(f.blocks)  e == Block!EndsIn(f)  s(i) == Span(f, f.blocks[i])
           T == {i \in 0 .. n : k < i => e[k] + s(k + 1) <= e[i]}
<1>1. n \in Nat /\ \A i \in 1 .. n : s(i) \in Nat
  BY SpanIsMore
<1>2. e \in [0 .. n -> Nat] /\ \A i \in 0 .. n - 1 : e[i + 1] = e[i] + s(i + 1)
  BY EndsAddUp
<1> HIDE DEF n, e, s
<1>3. 0 \in T
  BY <1>1
<1>4. ASSUME NEW i \in 0 .. n - 1, i \in T PROVE i + 1 \in T
  <2>1. i + 1 \in 1 .. n /\ i \in 0 .. n BY <1>1
  <2>2. e[i] \in Nat /\ e[k] \in Nat /\ s(i + 1) \in Nat /\ e[i + 1] = e[i] + s(i + 1)
    BY <1>1, <1>2, <2>1 DEF n
  <2>3. CASE k < i
    <3>1. s(k + 1) \in Nat /\ e[k] + s(k + 1) <= e[i] BY <1>1, <1>4, <2>3
    <3> QED BY <2>1, <2>2, <3>1
  <2>4. CASE k = i BY <2>1, <2>2, <2>4
  <2>5. CASE k > i BY <2>1, <2>5
  <2> QED BY <2>3, <2>4, <2>5, <2>1
<1> HIDE DEF T
<1>5. 0 .. n \subseteq T
  BY <1>1, <1>3, <1>4, InductionUpTo
<1> QED BY <1>5 DEF T, n, e, s

Sound(b) == b.type \in Block!BlockTypes /\ b.compression <= 3

\* The walk stands at the end of a block, within the data; the blocks behind it are sound.
AtAnEnd ==
  /\ data.header = "ok" /\ data.length >= 10
  /\ offset = Block!EndsIn(data)[blocks] /\ offset <= data.length
  /\ \A i \in 1 .. blocks : Sound(data.blocks[i])

WholeFile == data.header = "ok" /\ \E k \in 1 .. Len(data.blocks) : Block!WholeBlocks(k)

WalkIInv ==
  /\ data \in BinaryFiles /\ blocks \in 0 .. Len(data.blocks) /\ offset \in Nat
  /\ block_verdict = "reading" => IF offset = 0 THEN blocks = 0 ELSE AtAnEnd
  /\ block_verdict # "reading" => (block_verdict = "accepted" <=> WholeFile)
  /\ Block!StaysInside

\* Before the end of the data there is another block.
LEMMA NotLast ==
  ASSUME Block!BinaryAssumption, WalkIInv, AtAnEnd, offset < data.length
  PROVE  blocks < Len(data.blocks) /\ data.blocks[blocks + 1] \in Block!Blocks
<1> DEFINE n == Len(data.blocks)  e == Block!EndsIn(data)
<1>1. data.blocks \in Seq(Block!Blocks) /\ data.length \in Nat /\ data.length <= e[n]
  BY DEF WalkIInv, Block!BinaryAssumption
<1>2. n \in Nat /\ e[n] \in Nat BY <1>1, EndsAddUp
<1>3. blocks \in 0 .. n /\ offset = e[blocks] BY DEF WalkIInv, AtAnEnd
<1>4. blocks < n BY <1>1, <1>2, <1>3
<1> QED BY <1>1, <1>3, <1>4

\* Whoever does not go on past a block has no whole file.
LEMMA CutOff ==
  ASSUME Block!BinaryAssumption, WalkIInv, AtAnEnd, offset < data.length,
         LET b == data.blocks[blocks + 1]
         IN ~Sound(b) \/ offset + Span(data, b) > data.length
  PROVE  ~WholeFile
<1> DEFINE n == Len(data.blocks)  e == Block!EndsIn(data)  l == data.length
           s == Span(data, data.blocks[blocks + 1])
<1>1. data.blocks \in Seq(Block!Blocks) /\ l \in Nat /\ l <= e[n] /\ n \in Nat /\ e[n] \in Nat
  BY EndsAddUp DEF WalkIInv, Block!BinaryAssumption
<1>2. e \in [0 .. n -> Nat] BY <1>1, EndsAddUp
<1>3. blocks \in 0 .. n /\ offset = e[blocks] /\ offset \in Nat BY DEF WalkIInv, AtAnEnd
<1>4. blocks < n BY NotLast
<1>5. s \in Nat /\ data.blocks[blocks + 1] \in Block!Blocks
  BY <1>1, <1>3, <1>4, SpanIsMore
<1>6. ASSUME NEW k \in 1 .. n, Block!WholeBlocks(k) PROVE FALSE
  <2>1. l = e[k] /\ \A i \in 1 .. k : Block!Good(data.blocks[i]) BY <1>6 DEF Block!WholeBlocks
  <2>2. \A i, j \in 0 .. n : i < j => e[i] + Span(data, data.blocks[i + 1]) <= e[j]
    BY <1>1, EndsGrow
  <2>3. CASE k <= blocks
    <3>1. k < blocks BY <1>3, <2>1, <2>3
    <3>2. k + 1 \in 1 .. n BY <1>3, <3>1
    <3>3. Span(data, data.blocks[k + 1]) \in Nat BY <1>1, <3>2, SpanIsMore
    <3>4. e[k] + Span(data, data.blocks[k + 1]) <= e[blocks] BY <1>3, <2>2, <3>1
    <3>5. e[k] \in Nat BY <1>2
    <3> QED BY <1>1, <1>3, <2>1, <3>3, <3>4, <3>5
  <2>4. CASE k > blocks
    <3>1. e[blocks] + s <= e[k] BY <1>3, <2>2, <2>4
    <3>2. Block!Good(data.blocks[blocks + 1]) BY <1>3, <2>1, <2>4
    <3>3. Sound(data.blocks[blocks + 1]) BY <3>2 DEF Sound, Block!Good
    <3>4. offset + s > l BY <3>3
    <3> QED BY <1>1, <1>3, <1>5, <2>1, <3>1, <3>4
  <2> QED BY <1>3, <2>3, <2>4
<1> QED BY <1>6 DEF WholeFile

\* The walk stops exactly there.
LEMMA StopsThere ==
  ASSUME Block!BinaryAssumption, WalkIInv, AtAnEnd, offset < data.length
  PROVE  LET b == data.blocks[blocks + 1]
         IN  /\ Block!Payload + Block!Checksum(data) = offset + Span(data, b)
             /\ Block!Problem = "reading" => Sound(b) /\ offset + Span(data, b) <= data.length
             /\ Block!Problem # "reading" => ~Sound(b) \/ offset + Span(data, b) > data.length
             /\ Block!Problem # "accepted"
<1> DEFINE b == data.blocks[blocks + 1]  f == Block!SizeField(b)  p == Block!ParamSize(b)
           c == Block!Checksum(data)  l == data.length
<1>1. b \in Block!Blocks BY NotLast
<1>2. f \in Nat /\ p \in Nat /\ c \in Nat
  BY DEF Block!SizeField, Block!ParamSize, Block!Checksum
<1>3. b.size \in Nat /\ b.compression \in 0 .. 4 BY <1>1 DEF Block!Blocks
<1>4. l \in Nat /\ offset \in Nat BY DEF WalkIInv, Block!BinaryAssumption
<1>5. Span(data, b) = 8 + f + p + b.size + c BY DEF Span
<1>6. Block!Payload = offset + 8 + f + p + b.size BY DEF Block!Payload, Block!Block
<1>7. Sound(b) <=> b.type \in Block!BlockTypes /\ b.compression \in 0 .. 3
  BY <1>3 DEF Sound
<1>8. Block!Problem = CASE offset + 8 > l -> "block header truncated"
                       [] b.type \notin Block!BlockTypes -> "type"
                       [] b.compression \notin 0 .. 3 -> "compression"
                       [] offset + 8 + f > l -> "size truncated"
                       [] Block!Payload > l -> "payload truncated"
                       [] Block!Payload + c > l -> "checksum missing"
                       [] OTHER -> "reading"
  BY DEF Block!Problem, Block!Block
<1> HIDE DEF f, p, c, l
<1>9. Block!Payload + c = offset + Span(data, b) BY <1>2, <1>3, <1>4, <1>5, <1>6
<1>10. CASE offset + 8 > l \/ offset + 8 + f > l \/ Block!Payload > l \/ Block!Payload + c > l
  <2>1. offset + Span(data, b) > l BY <1>2, <1>3, <1>4, <1>5, <1>6, <1>10
  <2>2. Block!Problem \notin {"reading", "accepted"} BY <1>8, <1>10
  <2> QED BY <1>9, <2>1, <2>2 DEF l, c
<1>11. CASE ~Sound(b)
  <2>1. Block!Problem \notin {"reading", "accepted"} BY <1>7, <1>8, <1>11
  <2> QED BY <1>9, <1>11, <2>1 DEF c
<1>12. CASE /\ ~(offset + 8 > l \/ offset + 8 + f > l \/ Block!Payload > l)
            /\ ~(Block!Payload + c > l) /\ Sound(b)
  <2>1. Block!Problem = "reading" BY <1>7, <1>8, <1>12
  <2>2. offset + Span(data, b) <= l BY <1>2, <1>3, <1>4, <1>6, <1>9, <1>12
  <2> QED BY <1>9, <1>12, <2>1, <2>2 DEF l, c
<1> QED BY <1>10, <1>11, <1>12

\* That is a matter of the data alone.
LEMMA WholeStays == ASSUME data' = data PROVE WholeFile' <=> WholeFile
<1>1. \A b : Block!Good(b)' <=> Block!Good(b)
  BY DEF Block!Good
<1>2. \A k : Block!WholeBlocks(k)' <=> Block!WholeBlocks(k)
  BY <1>1 DEF Block!WholeBlocks
<1> QED BY <1>2 DEF WholeFile

LEMMA WalkInit == ASSUME Block!BinaryAssumption, Block!Init PROVE WalkIInv
<1> USE DEF Block!Init
<1>1. data.blocks \in Seq(Block!Blocks) /\ data.length \in Nat BY EndsAddUp DEF Block!BinaryAssumption
<1> QED BY <1>1 DEF WalkIInv, Block!StaysInside

LEMMA HeaderKeeps == ASSUME Block!BinaryAssumption, WalkIInv, Block!Header PROVE WalkIInv'
<1> DEFINE n == Len(data.blocks)  e == Block!EndsIn(data)
<1>1. data.blocks \in Seq(Block!Blocks) /\ data.length \in Nat /\ data \in BinaryFiles
      /\ data.header \notin {"reading", "accepted"}
  BY EndsAddUp DEF WalkIInv, Block!BinaryAssumption
<1>2. n \in Nat /\ e[0] = 10 /\ \A k \in 1 .. n : e[k] \in Nat /\ e[k] >= 10
  <2>1. n \in Nat /\ e[0] = 10 /\ e \in [0 .. n -> Nat] BY <1>1, EndsAddUp
  <2>2. ASSUME NEW k \in 1 .. n PROVE e[k] >= 10
    <3>1. Span(data, data.blocks[1]) \in Nat BY <1>1, <2>2, SpanIsMore
    <3>2. e[0] + Span(data, data.blocks[0 + 1]) <= e[k] BY <1>1, <2>1, <2>2, EndsGrow
    <3>3. e[k] \in Nat BY <2>1
    <3> HIDE DEF e, n
    <3> QED BY <2>1, <3>1, <3>2, <3>3
  <2> QED BY <2>1, <2>2
<1>3. blocks = 0 /\ offset' = 10 /\ blocks' = 0 /\ data' = data
  BY DEF Block!Header, WalkIInv, Block!HeaderSize
<1>4. block_verdict' = IF data.length < 10 THEN "header truncated"
                       ELSE IF data.header # "ok" THEN data.header ELSE "reading"
  BY DEF Block!Header, Block!HeaderSize
<1>5. CASE data.length < 10
  <2>1. ~WholeFile
    <3>1. ASSUME NEW k \in 1 .. n, Block!WholeBlocks(k) PROVE FALSE
      <4>1. data.length = e[k] BY <3>1 DEF Block!WholeBlocks
      <4> QED BY <1>1, <1>2, <1>5, <4>1
    <3> QED BY <3>1 DEF WholeFile
  <2>2. WholeFile' <=> WholeFile BY <1>3, WholeStays
  <2> QED BY <1>1, <1>2, <1>3, <1>4, <1>5, <2>1, <2>2 DEF WalkIInv, Block!StaysInside
<1>6. CASE data.length >= 10 /\ data.header # "ok"
  <2>1. ~WholeFile' BY <1>3, <1>6 DEF WholeFile
  <2> QED BY <1>1, <1>2, <1>3, <1>4, <1>6, <2>1 DEF WalkIInv, Block!StaysInside
<1>7. CASE data.length >= 10 /\ data.header = "ok"
  <2>1. AtAnEnd' BY <1>1, <1>2, <1>3, <1>7 DEF AtAnEnd
  <2>2. 0 \in 0 .. n /\ ~(data.length < 10) BY <1>1, <1>2, <1>7
  <2>3. block_verdict' = "reading" BY <1>4, <1>7, <2>2
  <2> QED BY <1>1, <1>3, <1>7, <2>1, <2>2, <2>3 DEF WalkIInv, Block!StaysInside
<1> QED BY <1>1, <1>5, <1>6, <1>7

LEMMA TakesBlockKeeps == ASSUME Block!BinaryAssumption, WalkIInv, Block!TakesBlock PROVE WalkIInv'
<1> DEFINE b == data.blocks[blocks + 1]
<1>1. /\ AtAnEnd /\ offset < data.length /\ data' = data /\ block_verdict' = Block!Problem
      /\ data \in BinaryFiles /\ offset \in Nat /\ data.length \in Nat /\ offset > 0
  BY EndsAddUp DEF Block!TakesBlock, WalkIInv, Block!BinaryAssumption
<1>2. blocks < Len(data.blocks) /\ b \in Block!Blocks /\ blocks \in 0 .. Len(data.blocks)
  BY <1>1, NotLast DEF WalkIInv
<1>3. /\ Block!Payload + Block!Checksum(data) = offset + Span(data, b)
      /\ Block!Problem = "reading" => Sound(b) /\ offset + Span(data, b) <= data.length
      /\ Block!Problem # "reading" => ~Sound(b) \/ offset + Span(data, b) > data.length
      /\ Block!Problem # "accepted"
  BY <1>1, StopsThere
<1>4. CASE Block!Problem = "reading"
  <2>1. offset' = offset + Span(data, b) /\ blocks' = blocks + 1
    BY <1>3, <1>4 DEF Block!TakesBlock
  <2>2. data.blocks \in Seq(Block!Blocks) BY <1>1 DEF Block!BinaryAssumption
  <2>3. Len(data.blocks) \in Nat /\ Span(data, b) \in Nat BY <1>2, <2>2, SpanIsMore
  <2>4. blocks \in 0 .. Len(data.blocks) - 1 BY <1>2, <2>3
  <2>5. Block!EndsIn(data)[blocks + 1] = Block!EndsIn(data)[blocks] + Span(data, b)
    BY <2>2, <2>4, EndsAddUp
  <2>6. AtAnEnd'
    <3>1. offset' = Block!EndsIn(data)[blocks + 1] BY <1>1, <2>1, <2>5 DEF AtAnEnd
    <3>2. \A i \in 1 .. blocks + 1 : Sound(data.blocks[i])
      <4>1. \A i \in 1 .. blocks : Sound(data.blocks[i]) BY <1>1 DEF AtAnEnd
      <4>2. Sound(data.blocks[blocks + 1]) BY <1>3, <1>4
      <4>3. \A i \in 1 .. blocks + 1 : i \in 1 .. blocks \/ i = blocks + 1 BY <1>2
      <4> QED BY <4>1, <4>2, <4>3
    <3> QED BY <1>1, <1>3, <1>4, <2>1, <3>1, <3>2 DEF AtAnEnd
  <2>7. blocks' \in 0 .. Len(data'.blocks) /\ offset' \in Nat /\ offset' <= data'.length
    BY <1>1, <1>2, <1>3, <1>4, <2>1, <2>3
  <2>8. offset' > 0 BY <1>1, <2>1, <2>3
  <2> QED BY <1>1, <1>4, <2>6, <2>7, <2>8 DEF WalkIInv, Block!StaysInside
<1>5. CASE Block!Problem # "reading"
  <2>1. offset' = offset /\ blocks' = blocks BY <1>5 DEF Block!TakesBlock
  <2>2. ~WholeFile BY <1>1, <1>3, <1>5, CutOff
  <2>3. ~WholeFile' BY <1>1, <2>2, WholeStays
  <2> QED BY <1>1, <1>2, <1>3, <1>5, <2>1, <2>3 DEF WalkIInv, Block!StaysInside
<1> QED BY <1>4, <1>5

LEMMA EndsKeeps == ASSUME Block!BinaryAssumption, WalkIInv, Block!Ends PROVE WalkIInv'
<1> DEFINE n == Len(data.blocks)  e == Block!EndsIn(data)
<1>1. /\ AtAnEnd /\ offset >= data.length /\ UNCHANGED <<data, offset, blocks>>
      /\ data \in BinaryFiles /\ offset \in Nat /\ blocks \in 0 .. n
      /\ data.blocks \in Seq(Block!Blocks) /\ data.length \in Nat
  <2>1. UNCHANGED <<data, offset, blocks>> /\ offset >= data.length /\ offset > 0
        /\ block_verdict = "reading"
    BY DEF Block!Ends
  <2>2. data \in BinaryFiles /\ offset \in Nat /\ blocks \in 0 .. n BY DEF WalkIInv
  <2>3. AtAnEnd BY <2>1, <2>2 DEF WalkIInv
  <2>4. data.blocks \in Seq(Block!Blocks) /\ data.length \in Nat
    BY <2>2, EndsAddUp DEF Block!BinaryAssumption
  <2> QED BY <2>1, <2>2, <2>3, <2>4
<1>2. n \in Nat /\ e \in [0 .. n -> Nat] BY <1>1, EndsAddUp
<1>3. offset = data.length /\ data.length = e[blocks] BY <1>1 DEF AtAnEnd
<1>4. ASSUME NEW k \in 1 .. n, Block!WholeBlocks(k) PROVE k = blocks
  <2>1. e[k] = e[blocks] BY <1>3, <1>4 DEF Block!WholeBlocks
  <2>2. ASSUME NEW i \in 0 .. n, NEW j \in 0 .. n, i < j PROVE e[i] # e[j]
    <3>1. e[i] + Span(data, data.blocks[i + 1]) <= e[j] BY <1>1, <2>2, EndsGrow
    <3>2. i + 1 \in 1 .. n BY <1>2, <2>2
    <3>3. Span(data, data.blocks[i + 1]) \in Nat /\ Span(data, data.blocks[i + 1]) >= 10
      BY <1>1, <3>2, SpanIsMore
    <3> QED BY <1>2, <3>1, <3>3
  <2> QED BY <1>1, <1>2, <2>1, <2>2
<1>5. \A i \in 1 .. blocks : Sound(data.blocks[i]) /\ data.blocks[i] \in Block!Blocks
  BY <1>1, <1>2 DEF AtAnEnd
<1>6. \A i \in 1 .. blocks : data.blocks[i].compression \in Nat
  BY <1>5 DEF Block!Blocks
<1> DEFINE t == Block!Taken
           crc == \E b \in t : data.checksums /\ ~b.crc_ok
           meta == \E b \in t : b.type \in Block!Metadata /\ ~Block!Decodes(b)
           plain == \A b \in t : b.type # "gcode"
<1>7. t = {data.blocks[i] : i \in 1 .. blocks} BY DEF Block!Taken
<1>8. block_verdict' = CASE blocks = 0 -> "no blocks" [] crc -> "crc" [] meta -> "metadata"
                         [] plain -> "no gcode" [] OTHER -> "accepted"
  BY DEF Block!Ends
<1> HIDE DEF t
<1>9. WholeFile <=> blocks # 0 /\ ~crc /\ ~meta /\ ~plain
  <2>1. ASSUME WholeFile PROVE blocks # 0 /\ ~crc /\ ~meta /\ ~plain
    <3>1. blocks # 0 /\ Block!WholeBlocks(blocks) BY <1>1, <1>4, <2>1 DEF WholeFile
    <3>2. \A i \in 1 .. blocks : Block!Good(data.blocks[i]) BY <3>1 DEF Block!WholeBlocks
    <3>3. ~crc BY <1>7, <3>2 DEF Block!Good
    <3>4. ~meta BY <1>6, <1>7, <3>2 DEF Block!Good, Block!Decodes
    <3>5. ~plain BY <1>7, <3>1 DEF Block!WholeBlocks
    <3> QED BY <3>1, <3>3, <3>4, <3>5
  <2>2. ASSUME blocks # 0, ~crc, ~meta, ~plain PROVE WholeFile
    <3>1. ASSUME NEW i \in 1 .. blocks PROVE Block!Good(data.blocks[i])
      <4>1. data.blocks[i] \in t BY <1>7
      <4>2. data.checksums => data.blocks[i].crc_ok BY <2>2, <4>1
      <4>3. data.blocks[i].type \in Block!Metadata =>
              data.blocks[i].compression <= 1 /\ data.blocks[i].decodes
        BY <2>2, <4>1 DEF Block!Decodes
      <4> QED BY <1>5, <4>2, <4>3 DEF Block!Good, Sound
    <3>2. Block!WholeBlocks(blocks) BY <1>3, <1>7, <2>2, <3>1 DEF Block!WholeBlocks
    <3> QED BY <1>1, <1>2, <2>2, <3>2 DEF WholeFile, AtAnEnd
  <2> QED BY <2>1, <2>2
<1> HIDE DEF crc, meta, plain
<1>10. block_verdict' # "reading" /\ (block_verdict' = "accepted" <=> WholeFile)
  BY <1>8, <1>9
<1>11. WholeFile' <=> WholeFile BY <1>1, WholeStays
<1>12. offset' <= data'.length BY <1>1, <1>3
<1> QED BY <1>1, <1>10, <1>11, <1>12 DEF WalkIInv, Block!StaysInside

LEMMA WalkKept ==
  ASSUME Block!BinaryAssumption
  PROVE  WalkIInv /\ [Block!Next]_Block!vars => WalkIInv'
<1> SUFFICES ASSUME WalkIInv, [Block!Next]_Block!vars PROVE WalkIInv'
  OBVIOUS
<1>1. CASE UNCHANGED Block!vars
  <2>1. UNCHANGED <<data, offset, blocks, block_verdict>> BY <1>1 DEF Block!vars
  <2>2. AtAnEnd' <=> AtAnEnd BY <2>1 DEF AtAnEnd
  <2>3. WholeFile' <=> WholeFile BY <2>1, WholeStays
  <2> QED BY <2>1, <2>2, <2>3 DEF WalkIInv, Block!StaysInside
<1> QED BY <1>1, HeaderKeeps, TakesBlockKeeps, EndsKeeps DEF Block!Next

\* The reader of .bgcode files never looks past the data, and accepts exactly the files that
\* are whole, good blocks to their last byte, however many blocks, of whatever size.
LEMMA WalkExact ==
  ASSUME Block!BinaryAssumption
  PROVE  WalkIInv => Block!ParsersAreExact
<1> SUFFICES ASSUME WalkIInv PROVE Block!ParsersAreExact
  OBVIOUS
<1>1. data.blocks \in Seq(Block!Blocks) BY DEF WalkIInv, Block!BinaryAssumption
<1>2. Block!TypeOK BY <1>1 DEF WalkIInv, Block!TypeOK
<1>3. Block!AcceptedIsWhole BY DEF WalkIInv, WholeFile, Block!AcceptedIsWhole
<1> QED BY <1>2, <1>3 DEF Block!ParsersAreExact, WalkIInv

-------------------------------------------------------------------------------
(***************************************************************************)
(* parse_text_gcode and extract_metadata.                                  *)
(***************************************************************************)
\* A line is of one kind.
LEMMA LineOfOneKind ==
  ASSUME NEW l \in Text!LineKinds
  PROVE  \/ DOMAIN l = {"marker"} /\ l.marker \in Text!Markers
         \/ DOMAIN l = {"setting"} /\ l.setting \in Text!Settings
         \/ DOMAIN l = {"command"} /\ l.command \in Text!Commands
         \/ DOMAIN l = {"other"}
BY DEF Text!LineKinds

\* The lines behind that say this.
Behind(f, v) == Text!Places(f, v) \cap 1 .. pos

\* n is how many S are, as far as it matters.
Counts(n, S) == (n = 0 <=> S = {}) /\ (n = 1 <=> \E x : S = {x})

TextShape ==
  /\ text \in Texts /\ pos \in 0 .. Len(text)
  /\ m862 \in Seq(Text!M862) /\ commands \in Seq(Text!Commands)
  /\ history \in [Text!Keys -> Seq({"A", "B", "0.4", "0.40", "0.6", "wide", ""})]

MarkersOK ==
  /\ begins \in Nat /\ ends \in Nat /\ begins + ends <= pos
  /\ open \in BOOLEAN /\ complete \in BOOLEAN
  /\ Counts(begins, Behind("marker", "begin")) /\ Counts(ends, Behind("marker", "end"))
  /\ text_verdict = "reading" =>
       /\ begins = ends + (IF open THEN 1 ELSE 0) /\ (complete <=> ends > 0)
       /\ \A j \in Behind("marker", "end") : \E i \in Behind("marker", "begin") : i < j

LEMMA ReadSoFar ==
  ASSUME Text!TextAssumption, TextShape
  PROVE  text \in Seq(Text!LineKinds) /\ Len(text) \in Nat /\ pos \in Nat /\ pos <= Len(text)
<1>1. text \in Texts /\ pos \in 0 .. Len(text) BY DEF TextShape
<1>2. text \in Seq(Text!LineKinds) BY <1>1 DEF Text!TextAssumption
<1>3. Len(text) \in Nat BY <1>2
<1> QED BY <1>1, <1>2, <1>3

LEMMA NextLine ==
  ASSUME Text!TextAssumption, TextShape, pos < Len(text), UNCHANGED text, pos' = pos + 1
  PROVE  /\ text \in Seq(Text!LineKinds) /\ text[pos + 1] \in Text!LineKinds
         /\ pos + 1 \in 1 .. Len(text) /\ pos' \in 0 .. Len(text)
         /\ \A f, v : Behind(f, v)' =
              Behind(f, v) \cup (IF f \in DOMAIN text[pos + 1] /\ text[pos + 1][f] = v
                                 THEN {pos + 1} ELSE {})
<1>1. text \in Seq(Text!LineKinds) /\ Len(text) \in Nat /\ pos \in Nat
  BY ReadSoFar
<1>2. text[pos + 1] \in Text!LineKinds /\ pos + 1 \in 1 .. Len(text) /\ pos' \in 0 .. Len(text)
  BY <1>1
<1>3. \A f, v : Text!Places(f, v)' = Text!Places(f, v)
  BY DEF Text!Places
<1>4. 1 .. pos' = 1 .. pos \cup {pos + 1}
  BY <1>1
<1>5. ASSUME NEW f, NEW v
      PROVE  Behind(f, v)' =
               Behind(f, v) \cup (IF f \in DOMAIN text[pos + 1] /\ text[pos + 1][f] = v
                                  THEN {pos + 1} ELSE {})
  BY <1>2, <1>3, <1>4 DEF Behind, Text!Places
<1> QED BY <1>1, <1>2, <1>5

LEMMA CountsOne ==
  ASSUME NEW n \in Nat, NEW S, NEW x, Counts(n, S), x \notin S
  PROVE  Counts(n + 1, S \cup {x})
BY DEF Counts

\* What the markers that are read do to the record of them.
LEMMA MarkerBehind ==
  ASSUME Text!TextAssumption, TextShape, Text!Reads("marker"), UNCHANGED text,
         NEW x, NEW y, x # y, text[pos + 1].marker = x
  PROVE  /\ pos \in Nat /\ pos' = pos + 1 /\ pos + 1 \notin Behind("marker", x)
         /\ Behind("marker", x)' = Behind("marker", x) \cup {pos + 1}
         /\ Behind("marker", y)' = Behind("marker", y)
         /\ \A i \in Behind("marker", x) \cup Behind("marker", y) :
              i \in 1 .. Len(text) /\ i < pos + 1
<1>1. /\ pos < Len(text) /\ pos' = pos + 1 /\ "marker" \in DOMAIN text[pos + 1]
  BY DEF Text!Reads, Text!Line
<1>2. \A f, v : Behind(f, v)' =
              Behind(f, v) \cup (IF f \in DOMAIN text[pos + 1] /\ text[pos + 1][f] = v
                                 THEN {pos + 1} ELSE {})
  BY <1>1, NextLine
<1>3. text[pos + 1]["marker"] = x
  OBVIOUS
<1>4. pos \in Nat /\ \A z : \A i \in Behind("marker", z) : i \in 1 .. Len(text) /\ i < pos + 1
  BY ReadSoFar DEF Behind, Text!Places
<1>5. pos + 1 \notin Behind("marker", x)
  BY <1>4
<1> QED BY <1>1, <1>2, <1>3, <1>4, <1>5

\* A line of another kind leaves them alone.
LEMMA OtherBehind ==
  ASSUME Text!TextAssumption, TextShape, UNCHANGED text, NEW k, Text!Reads(k),
         NEW f, f # k, f \in {"marker", "setting", "command", "other"},
         k \in {"marker", "setting", "command", "other"}
  PROVE  \A v : Behind(f, v)' = Behind(f, v)
<1>1. /\ pos < Len(text) /\ pos' = pos + 1 /\ k \in DOMAIN text[pos + 1]
  BY DEF Text!Reads, Text!Line
<1>2. /\ text[pos + 1] \in Text!LineKinds
      /\ \A v : Behind(f, v)' =
              Behind(f, v) \cup (IF f \in DOMAIN text[pos + 1] /\ text[pos + 1][f] = v
                                 THEN {pos + 1} ELSE {})
  BY <1>1, NextLine
<1>3. f \notin DOMAIN text[pos + 1]
  BY <1>1, <1>2, LineOfOneKind
<1> QED BY <1>2, <1>3

LEMMA OpensMarkers ==
  ASSUME Text!TextAssumption, TextShape, MarkersOK, Text!Opens PROVE MarkersOK'
<1> DEFINE B == Behind("marker", "begin")  E == Behind("marker", "end")
<1>1. /\ Text!Reads("marker") /\ text[pos + 1].marker = "begin" /\ text_verdict = "reading"
      /\ UNCHANGED <<text, ends, complete>> /\ begins' = begins + 1 /\ open' = TRUE
      /\ text_verdict' = IF open THEN "nested" ELSE text_verdict
  BY DEF Text!Opens, Text!Line, Text!Reads
<1>2. /\ pos \in Nat /\ pos' = pos + 1 /\ pos + 1 \notin B /\ B' = B \cup {pos + 1} /\ E' = E
      /\ \A i \in B \cup E : i < pos + 1
  <2>1. "begin" # "end" OBVIOUS
  <2> QED BY <1>1, <2>1, MarkerBehind
<1>3. /\ begins \in Nat /\ ends \in Nat /\ begins + ends <= pos /\ complete \in BOOLEAN
      /\ Counts(begins, B) /\ Counts(ends, E)
      /\ begins = ends + (IF open THEN 1 ELSE 0) /\ (complete <=> ends > 0)
      /\ \A j \in E : \E i \in B : i < j
  BY <1>1 DEF MarkersOK
<1>4. Counts(begins', B') /\ Counts(ends', E')
  <2>1. Counts(begins + 1, B \cup {pos + 1})
    <3> HIDE DEF B
    <3> QED BY <1>2, <1>3, CountsOne
  <2> QED BY <1>1, <1>2, <1>3, <2>1 DEF Counts
<1>5. \A j \in E' : \E i \in B' : i < j
  BY <1>2, <1>3
<1>6. /\ begins' \in Nat /\ ends' \in Nat /\ begins' + ends' <= pos' /\ open' \in BOOLEAN
      /\ complete' \in BOOLEAN
  BY <1>1, <1>2, <1>3
<1>7. text_verdict' = "reading" =>
        begins' = ends' + (IF open' THEN 1 ELSE 0) /\ (complete' <=> ends' > 0)
  BY <1>1, <1>3
<1> QED BY <1>4, <1>5, <1>6, <1>7 DEF MarkersOK

LEMMA ClosesMarkers ==
  ASSUME Text!TextAssumption, TextShape, MarkersOK, Text!Closes PROVE MarkersOK'
<1> DEFINE B == Behind("marker", "begin")  E == Behind("marker", "end")
<1>1. /\ Text!Reads("marker") /\ text[pos + 1].marker = "end" /\ text_verdict = "reading"
      /\ UNCHANGED <<text, begins>> /\ ends' = ends + 1 /\ open' = FALSE
      /\ complete' = (complete \/ open)
      /\ text_verdict' = IF open THEN text_verdict ELSE "end without begin"
  BY DEF Text!Closes, Text!Line, Text!Reads
<1>2. /\ pos \in Nat /\ pos' = pos + 1 /\ pos + 1 \notin E /\ E' = E \cup {pos + 1} /\ B' = B
      /\ \A i \in B \cup E : i < pos + 1
  <2>1. "begin" # "end" OBVIOUS
  <2>2. Text!Reads("marker") /\ UNCHANGED text BY <1>1
  <2>3. text[pos + 1].marker = "end" BY <1>1
  <2> QED BY <2>1, <2>2, <2>3, MarkerBehind
<1>3. /\ begins \in Nat /\ ends \in Nat /\ begins + ends <= pos /\ complete \in BOOLEAN
      /\ open \in BOOLEAN /\ Counts(begins, B) /\ Counts(ends, E)
      /\ begins = ends + (IF open THEN 1 ELSE 0) /\ (complete <=> ends > 0)
      /\ \A j \in E : \E i \in B : i < j
  BY <1>1 DEF MarkersOK
<1>4. Counts(begins', B') /\ Counts(ends', E')
  <2>1. Counts(ends + 1, E \cup {pos + 1})
    <3> HIDE DEF E
    <3> QED BY <1>2, <1>3, CountsOne
  <2> QED BY <1>1, <1>2, <1>3, <2>1 DEF Counts
<1>5. open => \A j \in E' : \E i \in B' : i < j
  <2>1. open => B # {} BY <1>3 DEF Counts
  <2> HIDE DEF B, E
  <2> QED BY <1>2, <1>3, <2>1
<1>6. /\ begins' \in Nat /\ ends' \in Nat /\ begins' + ends' <= pos' /\ open' \in BOOLEAN
      /\ complete' \in BOOLEAN
  <2>1. begins' = begins /\ ends' = ends + 1 /\ pos' = pos + 1 BY <1>1, <1>2
  <2>3. ends' \in Nat /\ begins' + ends' <= pos' BY <1>2, <1>3, <2>1
  <2>2. complete' \in BOOLEAN BY <1>1, <1>3
  <2> QED BY <1>1, <1>3, <2>2, <2>3
<1>7. text_verdict' = "reading" =>
        open /\ begins' = ends' + (IF open' THEN 1 ELSE 0) /\ (complete' <=> ends' > 0)
  BY <1>1, <1>3
<1> QED BY <1>4, <1>5, <1>6, <1>7 DEF MarkersOK

\* Any other line, and the end of the file.
LEMMA MarkersUntouched ==
  ASSUME Text!TextAssumption, TextShape, MarkersOK,
         UNCHANGED <<text, begins, ends, open, complete>>,
         text_verdict' = "reading" => text_verdict = "reading",
         UNCHANGED pos \/ \E k \in {"setting", "command", "other"} : Text!Reads(k)
  PROVE  MarkersOK'
<1> DEFINE B == Behind("marker", "begin")  E == Behind("marker", "end")
<1>1. B' = B /\ E' = E /\ pos \in Nat /\ pos' \in {pos, pos + 1}
  <2>1. CASE UNCHANGED pos
    <3>1. B' = B /\ E' = E BY <2>1 DEF Behind, Text!Places
    <3> QED BY <2>1, <3>1, ReadSoFar
  <2>2. ASSUME NEW k \in {"setting", "command", "other"}, Text!Reads(k)
        PROVE  B' = B /\ E' = E /\ pos \in Nat /\ pos' = pos + 1
    <3>1. \A v : Behind("marker", v)' = Behind("marker", v) BY <2>2, OtherBehind
    <3>2. pos' = pos + 1 BY <2>2 DEF Text!Reads
    <3> QED BY <3>1, <3>2, ReadSoFar
  <2> QED BY <2>1, <2>2
<1>2. /\ begins \in Nat /\ ends \in Nat /\ begins + ends <= pos
      /\ open \in BOOLEAN /\ complete \in BOOLEAN /\ Counts(begins, B) /\ Counts(ends, E)
      /\ text_verdict = "reading" =>
           /\ begins = ends + (IF open THEN 1 ELSE 0) /\ (complete <=> ends > 0)
           /\ \A j \in E : \E i \in B : i < j
  BY DEF MarkersOK
<1>3. begins + ends <= pos' BY <1>1, <1>2
<1>4. Counts(begins, B)' /\ Counts(ends, E)' BY <1>1, <1>2 DEF Counts
<1> QED BY <1>1, <1>2, <1>3, <1>4 DEF MarkersOK

\* Where the commands are, and those of them that stand after i, as far as was read.
CommandsAt == {i \in 1 .. Len(text) : "command" \in DOMAIN text[i]}
After(i, p) == {j \in CommandsAt : i < j /\ j <= p}

\* The list of commands has each at its place, counted from the end.
CommandsOK ==
  /\ \A i \in CommandsAt : i <= pos =>
       LET n == Cardinality(After(i, pos))
       IN  n \in 0 .. Len(commands) - 1 /\ commands[Len(commands) - n] = text[i].command
  /\ \A n \in 0 .. Len(commands) - 1 : \E i \in CommandsAt :
       i <= pos /\ Cardinality(After(i, pos)) = n

LEMMA AfterIsFinite ==
  ASSUME Len(text) \in Nat
  PROVE  \A i, p : IsFiniteSet(After(i, p)) /\ Cardinality(After(i, p)) \in Nat
<1>1. \A i, p : After(i, p) \subseteq 1 .. Len(text)
  BY DEF After, CommandsAt
<1>2. IsFiniteSet(1 .. Len(text))
  BY FS_Interval
<1> QED BY <1>1, <1>2, FS_Subset, FS_CardinalityType

LEMMA ExecutesCommands ==
  ASSUME Text!TextAssumption, TextShape, CommandsOK, Text!Executes PROVE CommandsOK'
<1> DEFINE n(i) == Cardinality(After(i, pos))
<1>1. /\ pos < Len(text) /\ "command" \in DOMAIN text[pos + 1] /\ pos' = pos + 1
      /\ text' = text /\ commands' = Append(commands, text[pos + 1].command)
  BY DEF Text!Executes, Text!Line, Text!Reads
<1>2. Len(text) \in Nat /\ pos \in Nat /\ pos + 1 \in CommandsAt
  BY <1>1, ReadSoFar DEF CommandsAt
<1>3. commands \in Seq(Text!Commands) /\ Len(commands) \in Nat
  <2>1. commands \in Seq(Text!Commands) BY DEF TextShape
  <2> QED BY <2>1
<1>4. /\ Len(commands') = Len(commands) + 1
      /\ commands'[Len(commands) + 1] = text[pos + 1].command
      /\ \A k \in 1 .. Len(commands) : commands'[k] = commands[k]
  BY <1>1, <1>3, AppendProperties
<1>5. CommandsAt' = CommandsAt /\ \A i, p : After(i, p)' = After(i, p)
  BY <1>1 DEF CommandsAt, After
<1>6. ASSUME NEW i \in CommandsAt, i <= pos
      PROVE  n(i) \in Nat /\ Cardinality(After(i, pos + 1)) = n(i) + 1
  <2>1. After(i, pos + 1) = After(i, pos) \cup {pos + 1} /\ pos + 1 \notin After(i, pos)
    BY <1>2, <1>6 DEF After, CommandsAt
  <2>2. IsFiniteSet(After(i, pos)) /\ n(i) \in Nat BY <1>2, AfterIsFinite
  <2> QED BY <2>1, <2>2, FS_AddElement
<1>7. Cardinality(After(pos + 1, pos + 1)) = 0
  <2>1. After(pos + 1, pos + 1) = {} BY <1>2 DEF After, CommandsAt
  <2> QED BY <2>1, FS_EmptySet
<1>8. \A i \in CommandsAt : i \in Nat /\ (i <= pos + 1 => i <= pos \/ i = pos + 1)
  BY <1>2 DEF CommandsAt
<1>9. ASSUME NEW i \in CommandsAt, i <= pos + 1
      PROVE  LET m == Cardinality(After(i, pos + 1))
             IN  m \in 0 .. Len(commands') - 1 /\ commands'[Len(commands') - m] = text[i].command
  <2>1. CASE i = pos + 1 BY <1>3, <1>4, <1>7, <2>1
  <2>2. CASE i <= pos
    <3>1. n(i) \in 0 .. Len(commands) - 1 /\ commands[Len(commands) - n(i)] = text[i].command
      BY <2>2 DEF CommandsOK
    <3>2. Cardinality(After(i, pos + 1)) = n(i) + 1 BY <1>6, <2>2
    <3> HIDE DEF n
    <3>3. Len(commands') - (n(i) + 1) = Len(commands) - n(i)
          /\ Len(commands) - n(i) \in 1 .. Len(commands)
      BY <1>3, <1>4, <3>1
    <3> QED BY <1>3, <1>4, <3>1, <3>2, <3>3
  <2> QED BY <1>8, <1>9, <2>1, <2>2
<1>10. ASSUME NEW m \in 0 .. Len(commands') - 1
       PROVE  \E i \in CommandsAt : i <= pos + 1 /\ Cardinality(After(i, pos + 1)) = m
  <2>1. CASE m = 0 BY <1>2, <1>7, <2>1
  <2>2. CASE m > 0
    <3>1. m - 1 \in 0 .. Len(commands) - 1 BY <1>3, <1>4, <2>2
    <3>2. PICK i \in CommandsAt : i <= pos /\ n(i) = m - 1 BY <3>1 DEF CommandsOK
    <3>3. Cardinality(After(i, pos + 1)) = n(i) + 1 BY <1>6, <3>2
    <3>4. i <= pos + 1 BY <1>2, <1>8, <3>2
    <3> HIDE DEF n
    <3>5. n(i) + 1 = m BY <3>2
    <3> QED BY <3>3, <3>4, <3>5
  <2> QED BY <1>3, <1>4, <2>1, <2>2
<1> QED BY <1>1, <1>5, <1>9, <1>10 DEF CommandsOK

LEMMA CommandsUntouched ==
  ASSUME Text!TextAssumption, TextShape, CommandsOK, UNCHANGED <<text, commands>>,
         UNCHANGED pos \/ \E k \in {"marker", "setting", "other"} : Text!Reads(k)
  PROVE  CommandsOK'
<1>1. Len(text) \in Nat /\ pos \in Nat BY ReadSoFar
<1>2. CommandsAt' = CommandsAt /\ \A i, p : After(i, p)' = After(i, p)
  BY DEF CommandsAt, After
<1>3. CASE UNCHANGED pos
  BY <1>2, <1>3 DEF CommandsOK
<1>4. ASSUME NEW k \in {"marker", "setting", "other"}, Text!Reads(k) PROVE CommandsOK'
  <2>1. pos' = pos + 1 /\ pos < Len(text) /\ k \in DOMAIN text[pos + 1]
    BY <1>4 DEF Text!Reads, Text!Line
  <2>2. "command" \notin DOMAIN text[pos + 1]
    <3>1. text[pos + 1] \in Text!LineKinds BY <2>1, NextLine
    <3> QED BY <2>1, <3>1, LineOfOneKind
  <2>3. \A i \in CommandsAt : i \in Nat /\ (i <= pos + 1 <=> i <= pos)
    BY <1>1, <2>2 DEF CommandsAt
  <2>4. \A i : After(i, pos + 1) = After(i, pos)
    BY <2>3 DEF After
  <2> QED BY <1>2, <2>1, <2>3, <2>4 DEF CommandsOK
<1> QED BY <1>3, <1>4

\* The instance counts as the library does, and places the commands as it is done here.
LEMMA SameCount == \A S : Text!Cardinality(S) = Cardinality(S)
BY DEF Text!Cardinality, Cardinality

LEMMA SamePlaces ==
  ASSUME Text!TextAssumption, TextShape
  PROVE  Text!CommandPlaces = CommandsAt
<1>1. \A i \in 1 .. Len(text) : text[i] \in Text!LineKinds
  BY ReadSoFar
<1>2. \A i : i \in Text!CommandPlaces <=> \E c \in Text!Commands : i \in Text!Places("command", c)
  BY DEF Text!CommandPlaces
<1>3. \A i : i \in Text!CommandPlaces <=>
         i \in 1 .. Len(text) /\ "command" \in DOMAIN text[i] /\ text[i].command \in Text!Commands
  BY <1>2 DEF Text!Places
<1>4. \A i \in 1 .. Len(text) : "command" \in DOMAIN text[i] => text[i].command \in Text!Commands
  BY <1>1, LineOfOneKind
<1> QED BY <1>3, <1>4 DEF CommandsAt

\* What the last commands switch off is what stands near the end.
LEMMA SafeEndIsNear ==
  ASSUME Text!TextAssumption, TextShape, CommandsOK, pos = Len(text), NEW c \in Text!SafeEnds
  PROVE  c \in Text!SafeEnd <=> Text!Near(Text!Places("command", c))
<1> DEFINE l == Len(commands)
           from == IF l > TailLength THEN l - TailLength + 1 ELSE 1
           n(i) == Cardinality(After(i, pos))
<1>1. commands \in Seq(Text!Commands) /\ l \in Nat /\ TailLength \in Nat /\ Len(text) \in Nat
  <2>1. commands \in Seq(Text!Commands) BY DEF TextShape
  <2> QED BY <2>1, ReadSoFar DEF Text!TextAssumption
<1> DEFINE tail == SubSeq(commands, from, l)
<1>2. c \in Text!SafeEnd <=> c \in Text!ToSet(tail)
  BY DEF Text!SafeEnd
<1>3. from \in 1 .. l + 1 /\ \A k \in 1 .. l : k >= from <=> l - k < TailLength
  BY <1>1
<1> HIDE DEF from
<1>4. c \in Text!ToSet(tail) <=> \E k \in from .. l : commands[k] = c
  <2>1. \A i \in from .. l : commands[i] \in Text!Commands BY <1>1, <1>3
  <2>2. from \in Int /\ l \in Int BY <1>1, <1>3
  <2>3. /\ tail \in Seq(Text!Commands)
        /\ Len(tail) = IF from <= l THEN l - from + 1 ELSE 0
        /\ \A i \in 1 .. l - from + 1 : tail[i] = commands[from + i - 1]
    BY <2>1, <2>2, SubSeqProperties
  <2> HIDE DEF tail
  <2>4. c \in Text!ToSet(tail) <=> \E i \in 1 .. Len(tail) : tail[i] = c
    <3>1. DOMAIN tail = 1 .. Len(tail) BY <2>3
    <3> QED BY <3>1 DEF Text!ToSet
  <2>5. ASSUME NEW i \in 1 .. Len(tail), tail[i] = c PROVE \E k \in from .. l : commands[k] = c
    <3>1. from + i - 1 \in from .. l /\ i \in 1 .. l - from + 1 BY <1>1, <1>3, <2>3, <2>5
    <3> QED BY <2>3, <2>5, <3>1
  <2>6. ASSUME NEW k \in from .. l, commands[k] = c PROVE \E i \in 1 .. Len(tail) : tail[i] = c
    <3>1. k - from + 1 \in 1 .. Len(tail) /\ k - from + 1 \in 1 .. l - from + 1
          /\ from + (k - from + 1) - 1 = k
      BY <1>1, <1>3, <2>3
    <3>2. tail[k - from + 1] = commands[k] BY <2>3, <3>1
    <3> QED BY <2>6, <3>1, <3>2
  <2> QED BY <2>4, <2>5, <2>6
<1> HIDE DEF tail
<1>5. \A i \in CommandsAt : i <= pos /\ {j \in Text!CommandPlaces : j > i} = After(i, pos)
  <2>1. \A i \in CommandsAt : i \in Nat /\ i <= pos BY <1>1 DEF CommandsAt
  <2> QED BY <2>1, SamePlaces DEF After
<1>6. \A i : i \in Text!Places("command", c) <=> i \in CommandsAt /\ text[i].command = c
  BY DEF CommandsAt, Text!Places
<1>7. Text!Near(Text!Places("command", c)) <=>
        \E i \in CommandsAt : text[i].command = c /\ n(i) < TailLength
  BY <1>5, <1>6, SameCount DEF Text!Near
<1>8. ASSUME NEW i \in CommandsAt, text[i].command = c, n(i) < TailLength
      PROVE  \E k \in from .. l : commands[k] = c
  <2>1. n(i) \in 0 .. l - 1 /\ commands[l - n(i)] = c BY <1>5, <1>8 DEF CommandsOK
  <2> HIDE DEF n
  <2>2. l - n(i) \in 1 .. l /\ l - (l - n(i)) < TailLength BY <1>1, <1>8, <2>1
  <2>3. l - n(i) \in from .. l BY <1>1, <1>3, <2>2
  <2> QED BY <2>1, <2>3
<1>9. ASSUME NEW k \in from .. l, commands[k] = c
      PROVE  \E i \in CommandsAt : text[i].command = c /\ n(i) < TailLength
  <2>1. k \in 1 .. l /\ l - k < TailLength BY <1>1, <1>3
  <2>2. l - k \in 0 .. l - 1 /\ l - (l - k) = k BY <1>1, <2>1
  <2>3. PICK i \in CommandsAt : i <= pos /\ n(i) = l - k BY <2>2 DEF CommandsOK
  <2>4. commands[l - n(i)] = text[i].command BY <2>3 DEF CommandsOK
  <2> HIDE DEF n
  <2>5. text[i].command = c /\ n(i) < TailLength BY <1>9, <2>1, <2>2, <2>3, <2>4
  <2> QED BY <2>5
<1> QED BY <1>2, <1>4, <1>7, <1>8, <1>9

\* The settings of a key among the first p lines, and a list that keeps them.
SaidOf(k, p) == {i \in 1 .. p : "setting" \in DOMAIN text[i] /\ text[i].setting.key = k}
Said(i) == text[i].setting.text

Kept(S, h) ==
  /\ \A n \in 1 .. Len(h) : \E i \in S : h[n] = Said(i)
  /\ \A i \in S : \E n \in 1 .. Len(h) : h[n] = Said(i)
  /\ \A i \in S : (\A j \in S : j <= i) => h[Len(h)] = Said(i)
  /\ S # {} => \E i \in S : \A j \in S : j <= i

HistoryOK == \A k \in Text!Keys : Kept(SaidOf(k, pos), history[k])

Values == {"A", "B", "0.4", "0.40", "0.6", "wide", ""}

LEMMA KeepsOne ==
  ASSUME NEW S, NEW h \in Seq(Values), Kept(S, h), NEW p \in Nat, Said(p) \in Values,
         \A i \in S : i \in Nat /\ i < p
  PROVE  Kept(S \cup {p}, Append(h, Said(p)))
<1> DEFINE g == Append(h, Said(p))  T == S \cup {p}
<1>1. /\ Len(h) \in Nat /\ Len(g) = Len(h) + 1 /\ g[Len(h) + 1] = Said(p)
      /\ \A n \in 1 .. Len(h) : g[n] = h[n]
  BY AppendProperties
<1> HIDE DEF g
<1>2. /\ \A n \in 1 .. Len(g) : n \in 1 .. Len(h) \/ n = Len(h) + 1
      /\ \A n \in 1 .. Len(h) : n \in 1 .. Len(g)
      /\ Len(h) + 1 \in 1 .. Len(g)
  BY <1>1
<1>3. /\ \A n \in 1 .. Len(h) : \E i \in S : h[n] = Said(i)
      /\ \A i \in S : \E n \in 1 .. Len(h) : h[n] = Said(i)
  BY DEF Kept
<1>4. ASSUME NEW n \in 1 .. Len(g) PROVE \E i \in T : g[n] = Said(i)
  <2>1. CASE n \in 1 .. Len(h) BY <1>1, <1>3, <2>1
  <2>2. CASE n = Len(h) + 1 BY <1>1, <2>2
  <2> QED BY <1>2, <2>1, <2>2
<1>5. ASSUME NEW i \in T PROVE \E n \in 1 .. Len(g) : g[n] = Said(i)
  <2>1. CASE i \in S
    <3>1. PICK n \in 1 .. Len(h) : h[n] = Said(i) BY <1>3, <2>1
    <3> QED BY <1>1, <1>2, <3>1
  <2>2. CASE i = p BY <1>1, <1>2, <2>2
  <2> QED BY <2>1, <2>2
<1>6. ASSUME NEW i \in T, \A j \in T : j <= i PROVE g[Len(g)] = Said(i)
  <2>1. p <= i /\ i \in Nat /\ (i < p \/ i = p) BY <1>6
  <2>2. i = p BY <2>1
  <2> QED BY <1>1, <2>2
<1>7. \E i \in T : \A j \in T : j <= i
  OBVIOUS
<1> QED BY <1>4, <1>5, <1>6, <1>7 DEF Kept, g

LEMMA KeepsHistory ==
  ASSUME Text!TextAssumption, TextShape, HistoryOK, Text!Keeps PROVE HistoryOK'
<1>1. /\ pos < Len(text) /\ "setting" \in DOMAIN text[pos + 1] /\ pos' = pos + 1 /\ text' = text
      /\ history' = [history EXCEPT ![text[pos + 1].setting.key] = Append(@, Said(pos + 1))]
  BY DEF Text!Keeps, Text!Line, Text!Reads, Said
<1>2. pos \in Nat BY ReadSoFar
<1>3. text[pos + 1].setting \in Text!Settings
  <2>1. text[pos + 1] \in Text!LineKinds BY <1>1, NextLine
  <2> QED BY <1>1, <2>1, LineOfOneKind
<1>4. text[pos + 1].setting.key \in Text!Keys /\ Said(pos + 1) \in Values
  BY <1>3 DEF Text!Settings, Text!Keys, Values, Said
<1>5. history \in [Text!Keys -> Seq(Values)] BY DEF TextShape, Values
<1>6. \A i : i \in 1 .. pos + 1 <=> i \in 1 .. pos \/ i = pos + 1 BY <1>2
<1>7. ASSUME NEW k \in Text!Keys, k # text[pos + 1].setting.key
      PROVE  history'[k] = history[k] /\ SaidOf(k, pos + 1) = SaidOf(k, pos)
  BY <1>1, <1>4, <1>5, <1>6, <1>7 DEF SaidOf
<1>8. ASSUME NEW k \in Text!Keys, k = text[pos + 1].setting.key
      PROVE  Kept(SaidOf(k, pos + 1), history'[k])
  <2>1. history'[k] = Append(history[k], Said(pos + 1)) BY <1>1, <1>5, <1>8
  <2>2. SaidOf(k, pos + 1) = SaidOf(k, pos) \cup {pos + 1} BY <1>1, <1>6, <1>8 DEF SaidOf
  <2>3. \A i \in SaidOf(k, pos) : i \in Nat /\ i < pos + 1 BY <1>2 DEF SaidOf
  <2>4. history[k] \in Seq(Values) /\ Kept(SaidOf(k, pos), history[k]) BY <1>5 DEF HistoryOK
  <2>5. pos + 1 \in Nat BY <1>2
  <2> QED BY <1>4, <2>1, <2>2, <2>3, <2>4, <2>5, KeepsOne
<1>9. \A k \in Text!Keys : Kept(SaidOf(k, pos + 1), history'[k])
  BY <1>7, <1>8 DEF HistoryOK
<1>10. \A k \in Text!Keys : SaidOf(k, pos)' = SaidOf(k, pos + 1) /\ \A i : Said(i)' = Said(i)
  BY <1>1 DEF SaidOf, Said
<1>11. ASSUME NEW k \in Text!Keys PROVE Kept(SaidOf(k, pos), history[k])'
  <2>1. Kept(SaidOf(k, pos + 1), history'[k]) BY <1>9
  <2>2. SaidOf(k, pos)' = SaidOf(k, pos + 1) /\ \A i : Said(i)' = Said(i) BY <1>10
  <2> QED BY <2>1, <2>2 DEF Kept
<1> QED BY <1>11 DEF HistoryOK

LEMMA HistoryUntouched ==
  ASSUME Text!TextAssumption, TextShape, HistoryOK, UNCHANGED <<text, history>>,
         UNCHANGED pos \/ \E k \in {"marker", "command", "other"} : Text!Reads(k)
  PROVE  HistoryOK'
<1>1. pos \in Nat BY ReadSoFar
<1>2. \A k : SaidOf(k, pos') = SaidOf(k, pos)
  <2>1. CASE UNCHANGED pos BY <2>1
  <2>2. ASSUME NEW k \in {"marker", "command", "other"}, Text!Reads(k)
        PROVE \A q : SaidOf(q, pos') = SaidOf(q, pos)
    <3>1. pos' = pos + 1 /\ pos < Len(text) /\ k \in DOMAIN text[pos + 1]
      BY <2>2 DEF Text!Reads, Text!Line
    <3>2. "setting" \notin DOMAIN text[pos + 1]
      <4>1. text[pos + 1] \in Text!LineKinds BY <3>1, NextLine
      <4> QED BY <3>1, <4>1, LineOfOneKind
    <3>3. \A i : i \in 1 .. pos + 1 <=> i \in 1 .. pos \/ i = pos + 1 BY <1>1
    <3> QED BY <3>1, <3>2, <3>3 DEF SaidOf
  <2> QED BY <2>1, <2>2
<1>3. \A k : SaidOf(k, pos)' = SaidOf(k, pos)
  BY <1>2 DEF SaidOf
<1>4. \A i : Said(i)' = Said(i)
  BY DEF Said
<1>5. ASSUME NEW k \in Text!Keys PROVE Kept(SaidOf(k, pos), history[k])'
  <2>1. Kept(SaidOf(k, pos), history[k]) BY DEF HistoryOK
  <2>2. SaidOf(k, pos)' = SaidOf(k, pos) /\ history'[k] = history[k] BY <1>3
  <2> HIDE DEF HistoryOK, TextShape
  <2> QED BY <1>4, <2>1, <2>2 DEF Kept
<1> QED BY <1>5 DEF HistoryOK

-------------------------------------------------------------------------------
\* More than one is two that differ.
LEMMA MoreThanOne ==
  ASSUME NEW S, IsFiniteSet(S)
  PROVE  Text!Cardinality(S) > 1 <=> \E x, y \in S : x # y
<1>1. Cardinality(S) \in Nat BY FS_CardinalityType
<1>2. ASSUME NEW x \in S, NEW y \in S, x # y PROVE Cardinality(S) > 1
  <2>1. IsFiniteSet({}) /\ Cardinality({}) = 0 BY FS_EmptySet
  <2>2. IsFiniteSet({x}) /\ Cardinality({x}) = 1 BY FS_Singleton
  <2>3. Cardinality({x} \cup {y}) = 2 BY <1>2, <2>2, FS_AddElement
  <2>4. {x} \cup {y} \subseteq S OBVIOUS
  <2>5. Cardinality({x} \cup {y}) <= Cardinality(S) BY <2>4, FS_Subset
  <2> QED BY <1>1, <2>3, <2>5
<1>3. ASSUME \A x, y \in S : x = y PROVE ~(Cardinality(S) > 1)
  <2>1. CASE S = {} BY <2>1, FS_EmptySet
  <2>2. ASSUME NEW x \in S PROVE Cardinality(S) = 1
    <3>1. S = {x} BY <1>3
    <3> QED BY <3>1, FS_Singleton
  <2> QED BY <2>1, <2>2
<1> QED BY <1>2, <1>3, SameCount

\* The values of a key that are compared, and when two of them are the same.
Compared(k) == {Said(i) : i \in SaidOf(k, Len(text))} \ {""}
Alike(u, w) == u = w \/ {u, w} = {"0.4", "0.40"}

LEMMA KeysTexts ==
  ASSUME Text!TextAssumption, TextShape, NEW k \in Text!Keys, NEW i \in SaidOf(k, Len(text))
  PROVE  /\ text[i].setting \in Text!Settings
         /\ k = "model" => Said(i) \in {"A", "B", ""}
         /\ k = "nozzle" => Said(i) \in {"0.4", "0.40", "0.6", "wide", ""}
<1>1. i \in 1 .. Len(text) /\ "setting" \in DOMAIN text[i] /\ text[i].setting.key = k
  BY DEF SaidOf
<1>2. text[i] \in Text!LineKinds BY <1>1, ReadSoFar
<1>3. text[i].setting \in Text!Settings BY <1>1, <1>2, LineOfOneKind
<1> QED BY <1>1, <1>3 DEF Said, Text!Settings

LEMMA ConflictsIsUnlike ==
  ASSUME Text!TextAssumption, TextShape, HistoryOK, pos = Len(text), NEW k \in Text!Keys
  PROVE  Text!Conflicts(k) <=> \E u, w \in Compared(k) : ~Alike(u, w)
<1> DEFINE values == Compared(k)  h == history[k]
           numbers == {Text!Number[v] : v \in values}
<1>1. history \in [Text!Keys -> Seq(Values)] BY DEF TextShape, Values
<1>2. h \in Seq(Values) /\ Kept(SaidOf(k, Len(text)), h) BY <1>1 DEF HistoryOK
<1> HIDE DEF h
<1>3. DOMAIN h = 1 .. Len(h) /\ Len(h) \in Nat BY <1>2
<1>4. Text!ToSet(h) = {Said(i) : i \in SaidOf(k, Len(text))}
  BY <1>2, <1>3 DEF Text!ToSet, Kept
<1>5. IsFiniteSet(values)
  <2>1. IsFiniteSet({h[n] : n \in 1 .. Len(h)})
    <3>1. IsFiniteSet(1 .. Len(h)) BY <1>3, FS_Interval
    <3> QED BY <3>1, ImageIsFinite
  <2>2. values \subseteq {h[n] : n \in 1 .. Len(h)} BY <1>3, <1>4 DEF Text!ToSet, Compared
  <2> QED BY <2>1, <2>2, FS_Subset
<1>6. /\ k = "model" => values \subseteq {"A", "B"}
      /\ k = "nozzle" => values \subseteq {"0.4", "0.40", "0.6", "wide"}
  BY KeysTexts DEF Compared
<1>7. k = "model" \/ k = "nozzle" BY DEF Text!Keys
<1>8. Text!Conflicts(k) <=>
        IF k = "nozzle" /\ values \subseteq DOMAIN Text!Number
        THEN Text!Cardinality(numbers) > 1 ELSE Text!Cardinality(values) > 1
  BY <1>4 DEF Text!Conflicts, Compared, h
<1>9. CASE k = "model"
  <2>1. \A u, w \in values : Alike(u, w) <=> u = w BY <1>6, <1>9 DEF Alike
  <2>2. Text!Conflicts(k) <=> \E x, y \in values : x # y BY <1>5, <1>8, <1>9, MoreThanOne
  <2> QED BY <2>1, <2>2
<1>10. CASE k = "nozzle" /\ values \subseteq DOMAIN Text!Number
  <2>1. IsFiniteSet(numbers)
    <3> HIDE DEF values
    <3> QED BY <1>5, ImageIsFinite
  <2>2. Text!Cardinality(numbers) > 1 <=> \E x, y \in numbers : x # y
    <3> HIDE DEF numbers
    <3> QED BY <2>1, MoreThanOne
  <2>3. \A u, w \in {"0.4", "0.40", "0.6"} : Alike(u, w) <=> Text!Number[u] = Text!Number[w]
    <3>1. /\ Text!Number["0.4"] = 4 /\ Text!Number["0.40"] = 4 /\ Text!Number["0.6"] = 6
      BY DEF Text!Number
    <3>2. 4 # 6 OBVIOUS
    <3> QED BY <3>1, <3>2 DEF Alike
  <2>4. DOMAIN Text!Number = {"0.4", "0.40", "0.6"} BY DEF Text!Number
  <2>5. (\E x, y \in numbers : x # y) <=>
          \E u, w \in values : Text!Number[u] # Text!Number[w]
    OBVIOUS
  <2>6. \A u, w \in values : Alike(u, w) <=> Text!Number[u] = Text!Number[w]
    BY <1>10, <2>3, <2>4
  <2> HIDE DEF numbers, values
  <2>7. Text!Conflicts(k) <=> \E u, w \in values : ~Alike(u, w)
    BY <1>8, <1>10, <2>2, <2>5, <2>6
  <2> QED BY <2>7 DEF values
<1>11. CASE k = "nozzle" /\ ~(values \subseteq DOMAIN Text!Number)
  <2>1. DOMAIN Text!Number = {"0.4", "0.40", "0.6"} BY DEF Text!Number
  <2>2. PICK z \in values : z \notin {"0.4", "0.40"} BY <1>11, <2>1
  <2>3. Text!Conflicts(k) <=> \E x, y \in values : x # y BY <1>5, <1>8, <1>11, MoreThanOne
  <2>4. ASSUME NEW x \in values, NEW y \in values, x # y PROVE \E u, w \in values : ~Alike(u, w)
    <3>1. PICK w \in values : w # z BY <2>4
    <3>2. ~Alike(z, w) BY <2>2, <3>1 DEF Alike
    <3> QED BY <3>2
  <2>5. ASSUME NEW u \in values, NEW w \in values, ~Alike(u, w) PROVE u # w
    BY <2>5 DEF Alike
  <2> QED BY <2>3, <2>4, <2>5
<1> QED BY <1>7, <1>9, <1>10, <1>11

LEMMA MissingIsUnsaid ==
  ASSUME Text!TextAssumption, TextShape, HistoryOK, pos = Len(text), NEW k \in Text!Keys
  PROVE  ~Text!Missing(k) <=> \E i \in SaidOf(k, Len(text)) :
           Said(i) # "" /\ \A j \in SaidOf(k, Len(text)) : j <= i
<1> DEFINE h == history[k]  S == SaidOf(k, Len(text))
<1>1. history \in [Text!Keys -> Seq(Values)] BY DEF TextShape, Values
<1>2. h \in Seq(Values) /\ Kept(S, h) BY <1>1 DEF HistoryOK
<1>3. Text!Missing(k) <=> h = <<>> \/ h[Len(h)] = "" BY DEF Text!Missing, Text!Last
<1> HIDE DEF h, S
<1>4. CASE h = <<>>
  <2>1. S = {} BY <1>2, <1>4 DEF Kept
  <2> QED BY <1>3, <1>4, <2>1 DEF S
<1>5. CASE h # <<>>
  <2>1. Len(h) \in 1 .. Len(h) BY <1>2, <1>5
  <2>2. S # {} BY <1>2, <2>1 DEF Kept
  <2>3. PICK i \in S : \A j \in S : j <= i BY <1>2, <2>2 DEF Kept
  <2>4. \A m \in S : (\A j \in S : j <= m) => h[Len(h)] = Said(m) BY <1>2 DEF Kept
  <2> QED BY <1>3, <1>5, <2>3, <2>4 DEF S
<1> QED BY <1>4, <1>5

LEMMA SettingsAlike ==
  ASSUME NEW s \in Text!Settings, NEW t \in Text!Settings, s.key = t.key, s.text = t.text
  PROVE  s = t
<1>1. s = [key |-> s.key, text |-> s.text] /\ t = [key |-> t.key, text |-> t.text]
  BY DEF Text!Settings
<1> QED BY <1>1

LEMMA CoherentIs ==
  ASSUME Text!TextAssumption, TextShape, HistoryOK, pos = Len(text)
  PROVE  Text!Coherent <=> \A k \in Text!Keys : ~Text!Conflicts(k) /\ ~Text!Missing(k)
<1> DEFINE said == {i \in 1 .. Len(text) : "setting" \in DOMAIN text[i]}
           key(i) == text[i].setting.key
           same == \A i, j \in said :
                     key(i) = key(j) /\ "" \notin {Said(i), Said(j)}
                       => Text!Same(text[i].setting, text[j].setting)
           last == \A k \in Text!Keys : \E i \in said :
                     /\ key(i) = k /\ Said(i) # ""
                     /\ \A j \in said : key(j) = k => j <= i
<1>1. Text!Coherent <=> same /\ last
  BY DEF Text!Coherent, Said
<1>2. /\ \A k : \A i : i \in SaidOf(k, Len(text)) <=> i \in said /\ key(i) = k
      /\ \A i \in said : key(i) \in Text!Keys
      /\ \A i \in said : text[i].setting \in Text!Settings
  <2>1. \A k : \A i : i \in SaidOf(k, Len(text)) <=> i \in said /\ key(i) = k BY DEF SaidOf
  <2>2. ASSUME NEW i \in said PROVE text[i].setting \in Text!Settings
    <3>1. text[i] \in Text!LineKinds BY ReadSoFar
    <3> QED BY <3>1, LineOfOneKind
  <2>3. \A i \in said : key(i) \in Text!Keys BY <2>2 DEF Text!Settings, Text!Keys
  <2> QED BY <2>1, <2>2, <2>3
<1>3. last <=> \A k \in Text!Keys : ~Text!Missing(k)
  <2>1. ASSUME NEW k \in Text!Keys
        PROVE  ~Text!Missing(k) <=> \E i \in said : /\ key(i) = k /\ Said(i) # ""
                                    /\ \A j \in said : key(j) = k => j <= i
    BY <1>2, MissingIsUnsaid
  <2> QED BY <2>1
<1>4. ASSUME NEW i \in said, NEW j \in said, key(i) = key(j)
      PROVE  Text!Same(text[i].setting, text[j].setting) <=> Alike(Said(i), Said(j))
  <2>1. text[i].setting = text[j].setting <=> Said(i) = Said(j)
    <3>1. text[i].setting \in Text!Settings /\ text[j].setting \in Text!Settings BY <1>2
    <3>2. text[i].setting.key = text[j].setting.key BY <1>4
    <3> QED BY <3>1, <3>2, SettingsAlike DEF Said
  <2> QED BY <2>1 DEF Text!Same, Alike, Said
<1>5. same <=> \A k \in Text!Keys : ~Text!Conflicts(k)
  <2>1. ASSUME NEW k \in Text!Keys
        PROVE  Text!Conflicts(k) <=> \E i, j \in SaidOf(k, Len(text)) :
                 Said(i) # "" /\ Said(j) # "" /\ ~Alike(Said(i), Said(j))
    <3>1. Text!Conflicts(k) <=> \E u, w \in Compared(k) : ~Alike(u, w) BY ConflictsIsUnlike
    <3> QED BY <3>1 DEF Compared
  <2>2. ASSUME same, NEW k \in Text!Keys PROVE ~Text!Conflicts(k)
    <3> SUFFICES ASSUME NEW i \in SaidOf(k, Len(text)), NEW j \in SaidOf(k, Len(text)),
                        Said(i) # "", Said(j) # ""
                 PROVE  Alike(Said(i), Said(j))
      BY <2>1
    <3>1. i \in said /\ j \in said /\ key(i) = key(j) BY <1>2
    <3>2. Text!Same(text[i].setting, text[j].setting) BY <2>2, <3>1
    <3> QED BY <1>4, <3>1, <3>2
  <2>3. ASSUME \A k \in Text!Keys : ~Text!Conflicts(k) PROVE same
    <3> SUFFICES ASSUME NEW i \in said, NEW j \in said, key(i) = key(j), Said(i) # "", Said(j) # ""
                 PROVE  Text!Same(text[i].setting, text[j].setting)
      OBVIOUS
    <3>1. key(i) \in Text!Keys /\ i \in SaidOf(key(i), Len(text)) /\ j \in SaidOf(key(i), Len(text))
      BY <1>2
    <3>2. Alike(Said(i), Said(j)) BY <2>1, <2>3, <3>1
    <3> QED BY <1>4, <3>2
  <2> QED BY <2>2, <2>3
<1> HIDE DEF same, last
<1> QED BY <1>1, <1>3, <1>5

Parsed == {"parsed", "accepted", "conflict", "missing"}

VerdictOK ==
  /\ text_verdict \in Parsed => Text!WellFormed /\ pos = Len(text)
  /\ text_verdict \notin Parsed \cup {"reading"} => ~Text!WellFormed
  /\ text_verdict = "accepted" => Text!Coherent
  /\ text_verdict \in {"conflict", "missing"} => ~Text!Coherent

LEMMA JudgedByTheText ==
  ASSUME UNCHANGED text
  PROVE  (Text!WellFormed' <=> Text!WellFormed) /\ (Text!Coherent' <=> Text!Coherent)
<1>1. \A f, v : Text!Places(f, v)' = Text!Places(f, v) BY DEF Text!Places
<1>2. Text!CommandPlaces' = Text!CommandPlaces BY <1>1 DEF Text!CommandPlaces
<1>3. Text!Near(Text!Places("command", "M104 S0"))' <=> Text!Near(Text!Places("command", "M104 S0"))
  BY <1>1, <1>2 DEF Text!Near
<1>4. Text!Near(Text!Places("command", "M140 S0"))' <=> Text!Near(Text!Places("command", "M140 S0"))
  BY <1>1, <1>2 DEF Text!Near
<1>5. Text!WellFormed' <=> Text!WellFormed
  BY <1>1, <1>3, <1>4 DEF Text!WellFormed
<1>6. Text!Coherent' <=> Text!Coherent
  BY DEF Text!Coherent
<1> QED BY <1>5, <1>6

\* A second begin, or an end that ends nothing, is in no well-formed file.
LEMMA MarkersJudge ==
  ASSUME Text!TextAssumption, TextShape, MarkersOK, VerdictOK, Text!Opens \/ Text!Closes
  PROVE  VerdictOK'
<1> DEFINE B == Behind("marker", "begin")  E == Behind("marker", "end")
           b == Text!Places("marker", "begin")  e == Text!Places("marker", "end")
<1>1. /\ Text!Reads("marker") /\ text_verdict = "reading" /\ UNCHANGED text
      /\ pos < Len(text) /\ "marker" \in DOMAIN text[pos + 1]
  BY DEF Text!Opens, Text!Closes, Text!Reads, Text!Line
<1>2. pos \in Nat /\ Len(text) \in Nat /\ pos + 1 \in 1 .. Len(text) BY <1>1, ReadSoFar
<1>3. /\ begins \in Nat /\ ends \in Nat /\ open \in BOOLEAN
      /\ (begins = 0 <=> B = {}) /\ (ends = 0 <=> E = {})
      /\ begins = ends + (IF open THEN 1 ELSE 0)
  BY <1>1 DEF MarkersOK, Counts
<1>4. B = b \cap 1 .. pos /\ E = e \cap 1 .. pos BY DEF Behind
<1>5. CASE Text!Opens /\ open
  <2>1. pos + 1 \in b BY <1>1, <1>2, <1>5 DEF Text!Opens, Text!Line, Text!Places
  <2>2. B # {} BY <1>3, <1>5
  <2>3. PICK i \in b : i \in 1 .. pos BY <1>4, <2>2
  <2>4. i # pos + 1 BY <1>2, <2>3
  <2>5. ~Text!WellFormed
    <3>1. ASSUME NEW m, b = {m} PROVE FALSE BY <2>1, <2>3, <2>4, <3>1
    <3> HIDE DEF b
    <3> QED BY <3>1 DEF Text!WellFormed, b
  <2>6. text_verdict' = "nested" BY <1>5 DEF Text!Opens
  <2> QED BY <1>1, <2>5, <2>6, JudgedByTheText DEF VerdictOK, Parsed
<1>6. CASE Text!Closes /\ ~open
  <2>1. pos + 1 \in e BY <1>1, <1>2, <1>6 DEF Text!Closes, Text!Line, Text!Places
  <2>4. ~Text!WellFormed
    <3>1. ASSUME Text!WellFormed PROVE FALSE
      <4>1. PICK i \in 1 .. Len(text), j \in 1 .. Len(text) : i < j /\ b = {i} /\ e = {j}
        BY <3>1 DEF Text!WellFormed
      <4>2. j = pos + 1 BY <2>1, <4>1
      <4>3. CASE E # {}
        <5>1. PICK m \in e : m \in 1 .. pos BY <1>4, <4>3
        <5> QED BY <1>2, <4>1, <4>2, <5>1
      <4>4. CASE E = {}
        <5>1. B = {} BY <1>3, <1>6, <4>4
        <5>2. i \in 1 .. pos BY <1>2, <4>1, <4>2
        <5> QED BY <1>4, <4>1, <5>1, <5>2
      <4> QED BY <4>3, <4>4
    <3> QED BY <3>1
  <2>5. text_verdict' = "end without begin" BY <1>6 DEF Text!Closes
  <2> QED BY <1>1, <2>4, <2>5, JudgedByTheText DEF VerdictOK, Parsed
<1>7. CASE (Text!Opens /\ ~open) \/ (Text!Closes /\ open)
  <2>1. text_verdict' = "reading" BY <1>1, <1>7 DEF Text!Opens, Text!Closes
  <2> QED BY <2>1 DEF VerdictOK, Parsed
<1> QED BY <1>5, <1>6, <1>7

\* At the end the record of the markers and the last commands tell a well-formed file.
LEMMA EndJudges ==
  ASSUME Text!TextAssumption, TextShape, MarkersOK, CommandsOK, VerdictOK, Text!Ends
  PROVE  VerdictOK'
<1> DEFINE b == Text!Places("marker", "begin")  e == Text!Places("marker", "end")
           one == \E i, j \in 1 .. Len(text) : i < j /\ b = {i} /\ e = {j}
           bad == begins # 1 \/ ends # 1 \/ open \/ ~complete
<1>1. pos = Len(text) /\ text_verdict = "reading" /\ UNCHANGED <<text, pos>> BY DEF Text!Ends
<1>2. Len(text) \in Nat BY ReadSoFar
<1>3. Behind("marker", "begin") = b /\ Behind("marker", "end") = e
  BY <1>1 DEF Behind, Text!Places
<1>4. /\ begins \in Nat /\ ends \in Nat /\ open \in BOOLEAN /\ complete \in BOOLEAN
      /\ (begins = 1 <=> \E x : b = {x}) /\ (ends = 1 <=> \E x : e = {x})
      /\ begins = ends + (IF open THEN 1 ELSE 0) /\ (complete <=> ends > 0)
      /\ \A j \in e : \E i \in b : i < j
  BY <1>1, <1>3 DEF MarkersOK, Counts
<1>5. b \subseteq 1 .. Len(text) /\ e \subseteq 1 .. Len(text) BY DEF Text!Places
<1>6. one <=> ~bad
  <2>1. ASSUME one PROVE ~bad
    <3>1. begins = 1 /\ ends = 1 BY <1>4, <2>1
    <3> QED BY <1>4, <3>1
  <2>2. ASSUME ~bad PROVE one
    <3>1. PICK i, j : b = {i} /\ e = {j} BY <1>4, <2>2
    <3>2. i < j /\ i \in 1 .. Len(text) /\ j \in 1 .. Len(text) BY <1>4, <1>5, <3>1
    <3> QED BY <3>1, <3>2
  <2> QED BY <2>1, <2>2
<1>7. /\ "M104 S0" \in Text!SafeEnd <=> Text!Near(Text!Places("command", "M104 S0"))
      /\ "M140 S0" \in Text!SafeEnd <=> Text!Near(Text!Places("command", "M140 S0"))
  <2>1. "M104 S0" \in Text!SafeEnds /\ "M140 S0" \in Text!SafeEnds BY DEF Text!SafeEnds
  <2> QED BY <1>1, <2>1, SafeEndIsNear
<1>8. commands = <<>> => "M104 S0" \notin Text!SafeEnd
  <2>1. ASSUME commands = <<>>, NEW i \in CommandsAt PROVE FALSE
    <3>1. i <= pos BY <1>1, <1>2 DEF CommandsAt
    <3>2. Cardinality(After(i, pos)) \in 0 .. Len(commands) - 1 BY <3>1 DEF CommandsOK
    <3>3. Len(commands) = 0 BY <2>1
    <3> QED BY <3>2, <3>3
  <2>2. commands = <<>> => Text!Places("command", "M104 S0") = {}
    BY <2>1 DEF CommandsAt, Text!Places
  <2> QED BY <1>7, <2>2 DEF Text!Near
<1>9. Text!WellFormed <=> one /\ "M104 S0" \in Text!SafeEnd /\ "M140 S0" \in Text!SafeEnd
  BY <1>7 DEF Text!WellFormed
<1>10. text_verdict' = CASE commands = <<>> -> "no commands" [] bad -> "config incomplete"
                         [] "M104 S0" \notin Text!SafeEnd -> "nozzle left on"
                         [] "M140 S0" \notin Text!SafeEnd -> "bed left on"
                         [] OTHER -> "parsed"
  BY DEF Text!Ends
<1> HIDE DEF one, bad
<1>11. /\ text_verdict' \in Parsed => Text!WellFormed
       /\ text_verdict' \notin Parsed => ~Text!WellFormed
       /\ text_verdict' \notin {"reading", "accepted", "conflict", "missing"}
  BY <1>6, <1>8, <1>9, <1>10 DEF Parsed
<1> QED BY <1>1, <1>11, JudgedByTheText DEF VerdictOK

LEMMA ExtractsJudges ==
  ASSUME Text!TextAssumption, TextShape, HistoryOK, VerdictOK, Text!Extracts PROVE VerdictOK'
<1>1. text_verdict = "parsed" /\ UNCHANGED <<text, pos>> BY DEF Text!Extracts
<1>2. Text!WellFormed /\ pos = Len(text) BY <1>1 DEF VerdictOK, Parsed
<1>3. Text!Coherent <=> \A k \in Text!Keys : ~Text!Conflicts(k) /\ ~Text!Missing(k)
  BY <1>2, CoherentIs
<1> DEFINE conflict == \E k \in Text!Keys : Text!Conflicts(k)
           missing == \E k \in Text!Keys : Text!Missing(k)
<1>4. text_verdict' = CASE conflict -> "conflict" [] missing -> "missing" [] OTHER -> "accepted"
  BY DEF Text!Extracts
<1>5. Text!Coherent <=> ~conflict /\ ~missing BY <1>3
<1> HIDE DEF conflict, missing
<1>6. /\ text_verdict' \in {"accepted", "conflict", "missing"}
      /\ text_verdict' = "accepted" <=> Text!Coherent
  BY <1>4, <1>5
<1> QED BY <1>1, <1>2, <1>6, JudgedByTheText DEF VerdictOK, Parsed

LEMMA ShapeKept ==
  ASSUME Text!TextAssumption, TextShape, [Text!Next]_Text!vars PROVE TextShape'
<1>1. /\ text \in Texts /\ pos \in 0 .. Len(text) /\ m862 \in Seq(Text!M862)
      /\ commands \in Seq(Text!Commands) /\ history \in [Text!Keys -> Seq(Values)]
  BY DEF TextShape, Values
<1>2. Len(text) \in Nat BY ReadSoFar
<1>3. ASSUME NEW k, Text!Reads(k), UNCHANGED text
      PROVE  pos' \in 0 .. Len(text) /\ text[pos + 1] \in Text!LineKinds
  BY <1>3, NextLine DEF Text!Reads
<1>4. CASE Text!Opens BY <1>1, <1>3, <1>4 DEF Text!Opens, TextShape, Values
<1>5. CASE Text!Closes BY <1>1, <1>3, <1>5 DEF Text!Closes, TextShape, Values
<1>6. CASE Text!Keeps
  <2>1. text[pos + 1] \in Text!LineKinds /\ "setting" \in DOMAIN text[pos + 1]
        /\ pos' \in 0 .. Len(text) /\ UNCHANGED <<text, m862, commands>>
        /\ history' = [history EXCEPT ![text[pos + 1].setting.key] = Append(@, text[pos + 1].setting.text)]
    BY <1>3, <1>6 DEF Text!Keeps, Text!Reads, Text!Line
  <2>2. text[pos + 1].setting \in Text!Settings BY <2>1, LineOfOneKind
  <2>3. text[pos + 1].setting.text \in Values /\ text[pos + 1].setting.key \in Text!Keys
    BY <2>2 DEF Text!Settings, Values, Text!Keys
  <2>4. history' \in [Text!Keys -> Seq(Values)] BY <1>1, <2>1, <2>3
  <2> QED BY <1>1, <2>1, <2>4 DEF TextShape, Values
<1>7. CASE Text!Executes
  <2>1. text[pos + 1] \in Text!LineKinds /\ "command" \in DOMAIN text[pos + 1]
        /\ pos' \in 0 .. Len(text) /\ UNCHANGED <<text, history>>
        /\ commands' = Append(commands, text[pos + 1].command)
        /\ m862' = IF text[pos + 1].command \in Text!M862 THEN Append(m862, text[pos + 1].command)
                   ELSE m862
    BY <1>3, <1>7 DEF Text!Executes, Text!Reads, Text!Line
  <2>2. text[pos + 1].command \in Text!Commands BY <2>1, LineOfOneKind
  <2>3. commands' \in Seq(Text!Commands) /\ m862' \in Seq(Text!M862) BY <1>1, <2>1, <2>2
  <2> QED BY <1>1, <2>1, <2>3 DEF TextShape
<1>8. CASE Text!Skips BY <1>1, <1>3, <1>8 DEF Text!Skips, TextShape, Values
<1>9. CASE Text!Ends BY <1>1, <1>9 DEF Text!Ends, TextShape, Values
<1>10. CASE Text!Extracts BY <1>1, <1>10 DEF Text!Extracts, TextShape, Values
<1>11. CASE UNCHANGED Text!vars BY <1>1, <1>11 DEF Text!vars, TextShape, Values
<1> QED BY <1>4, <1>5, <1>6, <1>7, <1>8, <1>9, <1>10, <1>11 DEF Text!Next

TextIInv == TextShape /\ MarkersOK /\ CommandsOK /\ HistoryOK /\ VerdictOK

LEMMA TextInit == ASSUME Text!TextAssumption, Text!Init PROVE TextIInv
<1> USE DEF Text!Init
<1>1. Len(text) \in Nat BY DEF Text!TextAssumption
<1>2. TextShape BY <1>1 DEF TextShape
<1>3. 1 .. pos = {} OBVIOUS
<1>4. MarkersOK
  <2>1. \A f, v : Behind(f, v) = {} BY <1>3 DEF Behind
  <2>2. Counts(0, {})
    <3>1. \A x : x \in {x} OBVIOUS
    <3> QED BY <3>1 DEF Counts
  <2>3. Counts(begins, Behind("marker", "begin")) /\ Counts(ends, Behind("marker", "end"))
    BY <2>1, <2>2
  <2>4. \A j \in Behind("marker", "end") : FALSE BY <2>1
  <2>5. begins + ends <= pos /\ begins = ends + (IF open THEN 1 ELSE 0) /\ (complete <=> ends > 0)
    OBVIOUS
  <2>6. begins \in Nat /\ ends \in Nat /\ open \in BOOLEAN /\ complete \in BOOLEAN
    OBVIOUS
  <2> HIDE DEF Text!Init
  <2> QED BY <2>3, <2>4, <2>5, <2>6 DEF MarkersOK
<1>5. CommandsOK
  <2>1. \A i \in CommandsAt : ~(i <= pos) BY DEF CommandsAt
  <2>2. Len(commands) = 0 OBVIOUS
  <2> QED BY <2>1, <2>2 DEF CommandsOK
<1>6. HistoryOK
  <2>1. \A k \in Text!Keys : SaidOf(k, pos) = {} /\ history[k] = <<>> BY <1>3 DEF SaidOf
  <2> QED BY <2>1 DEF HistoryOK, Kept
<1>7. VerdictOK BY DEF VerdictOK, Parsed
<1> QED BY <1>2, <1>4, <1>5, <1>6, <1>7 DEF TextIInv

LEMMA TextKept ==
  ASSUME Text!TextAssumption
  PROVE  TextIInv /\ [Text!Next]_Text!vars => TextIInv'
<1> SUFFICES ASSUME TextIInv, [Text!Next]_Text!vars PROVE TextIInv'
  OBVIOUS
<1>1. TextShape /\ MarkersOK /\ CommandsOK /\ HistoryOK /\ VerdictOK BY DEF TextIInv
<1>2. TextShape' BY <1>1, ShapeKept
<1>3. CASE Text!Opens
  <2>1. UNCHANGED <<text, commands, history>> /\ Text!Reads("marker") BY <1>3 DEF Text!Opens
  <2> QED BY <1>1, <1>2, <1>3, <2>1, OpensMarkers, CommandsUntouched, HistoryUntouched, MarkersJudge
       DEF TextIInv
<1>4. CASE Text!Closes
  <2>1. UNCHANGED <<text, commands, history>> /\ Text!Reads("marker") BY <1>4 DEF Text!Closes
  <2> QED BY <1>1, <1>2, <1>4, <2>1, ClosesMarkers, CommandsUntouched, HistoryUntouched, MarkersJudge
       DEF TextIInv
<1>5. ASSUME UNCHANGED <<text, begins, ends, open, complete, text_verdict>>,
             \E k \in {"setting", "command", "other"} : Text!Reads(k)
      PROVE  MarkersOK' /\ VerdictOK'
  <2>1. MarkersOK' BY <1>1, <1>5, MarkersUntouched
  <2>2. text_verdict' = "reading" BY <1>5 DEF Text!Reads
  <2> QED BY <2>1, <2>2 DEF VerdictOK, Parsed
<1>6. CASE Text!Keeps
  <2>1. UNCHANGED <<text, begins, ends, open, complete, commands, text_verdict>> /\ Text!Reads("setting")
    BY <1>6 DEF Text!Keeps
  <2> QED BY <1>1, <1>2, <1>5, <1>6, <2>1, KeepsHistory, CommandsUntouched DEF TextIInv
<1>7. CASE Text!Executes
  <2>1. UNCHANGED <<text, begins, ends, open, complete, history, text_verdict>> /\ Text!Reads("command")
    BY <1>7 DEF Text!Executes
  <2> QED BY <1>1, <1>2, <1>5, <1>7, <2>1, ExecutesCommands, HistoryUntouched DEF TextIInv
<1>8. CASE Text!Skips
  <2>1. UNCHANGED <<text, begins, ends, open, complete, history, commands, text_verdict>>
        /\ Text!Reads("other")
    BY <1>8 DEF Text!Skips
  <2> QED BY <1>1, <1>2, <1>5, <2>1, CommandsUntouched, HistoryUntouched DEF TextIInv
<1>9. ASSUME UNCHANGED <<text, pos, begins, ends, open, complete, commands, m862, history>>,
             text_verdict' = "reading" => text_verdict = "reading"
      PROVE  MarkersOK' /\ CommandsOK' /\ HistoryOK'
  BY <1>1, <1>9, MarkersUntouched, CommandsUntouched, HistoryUntouched
<1>10. CASE Text!Ends
  <2>1. UNCHANGED <<text, pos, begins, ends, open, complete, commands, m862, history>>
        /\ text_verdict = "reading"
    BY <1>10 DEF Text!Ends
  <2> QED BY <1>1, <1>2, <1>9, <1>10, <2>1, EndJudges DEF TextIInv
<1>11. CASE Text!Extracts
  <2>1. UNCHANGED <<text, pos, begins, ends, open, complete, commands, m862, history>>
        /\ text_verdict' # "reading"
    BY <1>11 DEF Text!Extracts
  <2> QED BY <1>1, <1>2, <1>9, <1>11, <2>1, ExtractsJudges DEF TextIInv
<1>12. CASE UNCHANGED Text!vars
  <2>1. UNCHANGED <<text, pos, begins, ends, open, complete, commands, m862, history, text_verdict>>
    BY <1>12 DEF Text!vars
  <2>2. VerdictOK' BY <1>1, <2>1, JudgedByTheText DEF VerdictOK
  <2> QED BY <1>2, <1>9, <2>1, <2>2 DEF TextIInv
<1> QED BY <1>3, <1>4, <1>6, <1>7, <1>8, <1>10, <1>11, <1>12 DEF Text!Next

\* The reader of text files, which sees a line at a time, takes exactly the files that are
\* well formed as a whole and whose settings agree, however long they are.
LEMMA TextExact ==
  ASSUME Text!TextAssumption
  PROVE  TextIInv => Text!ParsersAreExact
<1> SUFFICES ASSUME TextIInv PROVE Text!ParsersAreExact
  OBVIOUS
<1>1. TextShape /\ MarkersOK /\ VerdictOK BY DEF TextIInv
<1>2. \A i \in 1 .. Len(text) : text[i] \in Text!LineKinds BY <1>1, ReadSoFar
<1>3. Text!TypeOK BY <1>1, <1>2 DEF Text!TypeOK, TextShape, MarkersOK
<1>4. Text!ParsedIsWellFormed BY <1>1 DEF VerdictOK, Parsed, Text!ParsedIsWellFormed
<1>5. Text!AcceptedIsCoherent BY <1>1 DEF VerdictOK, Text!AcceptedIsCoherent
<1> QED BY <1>3, <1>4, <1>5 DEF Text!ParsersAreExact

-------------------------------------------------------------------------------
(***************************************************************************)
(* The readers side by side: while one reads, its own invariant holds.     *)
(***************************************************************************)
ReadersIInv ==
  /\ reader = "text" => TextIInv
  /\ reader = "blocks" => WalkIInv
  /\ reader = "stages" => StagesIInv

\* The commands among the readers are MockCommands: what is proved of Spec holds of ReadersSpec.
LEMMA ReadersAnalyse == ReadersSpec => Spec
<1>1. ReadersInit => Init BY DEF ReadersInit
<1>2. [ReadersNext]_readersVars => [Next]_vars
  BY DEF ReadersNext, ReadsText, ReadsBlocks, Validates, ReadsCommands, readersVars
<1> QED BY <1>1, <1>2, PTL DEF ReadersSpec, Spec

THEOREM ReadersInvariant == ReadersSpec => []ReadersIInv
<1>1. ReadersInit => ReadersIInv
  <2>1. reader = "text" /\ Text!Init => ReadersIInv BY ReadersAssumption, TextInit DEF ReadersIInv
  <2>2. reader = "blocks" /\ Block!Init => ReadersIInv BY ReadersAssumption, WalkInit DEF ReadersIInv
  <2>3. reader = "stages" /\ Stages!Init => ReadersIInv BY StagesInit DEF ReadersIInv
  <2>4. reader = "commands" => ReadersIInv BY DEF ReadersIInv
  <2> QED BY <2>1, <2>2, <2>3, <2>4 DEF ReadersInit
<1>2. ReadersIInv /\ [ReadersNext]_readersVars => ReadersIInv'
  <2> SUFFICES ASSUME ReadersIInv, [ReadersNext]_readersVars PROVE ReadersIInv'
    OBVIOUS
  <2>1. reader' = reader
    BY DEF ReadersNext, ReadsText, ReadsBlocks, Validates, ReadsCommands, readersVars
  <2>2. /\ reader = "text" => [Text!Next]_textVars
        /\ reader = "blocks" => [Block!Next]_blockVars
        /\ reader = "stages" => [Stages!Next]_stageVars
    BY DEF ReadersNext, ReadsText, ReadsBlocks, Validates, ReadsCommands, readersVars
  <2>3. Text!vars = textVars /\ Block!vars = blockVars /\ Stages!vars = stageVars
    BY DEF Text!vars, Block!vars, Stages!vars, textVars, blockVars, stageVars
  <2>4. CASE reader = "text"
    <3>1. TextIInv /\ [Text!Next]_Text!vars BY <2>2, <2>4 DEF ReadersIInv, Text!vars, textVars
    <3> QED BY <2>1, <2>4, <3>1, ReadersAssumption, TextKept DEF ReadersIInv
  <2>5. CASE reader = "blocks"
    <3>1. WalkIInv /\ [Block!Next]_Block!vars BY <2>2, <2>5 DEF ReadersIInv, Block!vars, blockVars
    <3> QED BY <2>1, <2>5, <3>1, ReadersAssumption, WalkKept DEF ReadersIInv
  <2>6. CASE reader = "stages"
    <3>1. StagesIInv /\ [Stages!Next]_Stages!vars BY <2>2, <2>6 DEF ReadersIInv, Stages!vars, stageVars
    <3> QED BY <2>1, <2>6, <3>1, StagesKept DEF ReadersIInv
  <2>7. CASE reader \notin {"text", "blocks", "stages"}
    BY <2>1, <2>7 DEF ReadersIInv
  <2> QED BY <2>4, <2>5, <2>6, <2>7
<1> QED BY <1>1, <1>2, PTL DEF ReadersSpec

\* The parsers, which see a line or a block at a time, accept exactly the files that are
\* well formed as a whole, and the reader of blocks never looks past its data.
THEOREM WholeIsAccepted == ReadersSpec => []ParsersAreExact
<1>1. ReadersIInv => ParsersAreExact
  BY ReadersAssumption, TextExact, WalkExact DEF ReadersIInv, ParsersAreExact
<1> QED BY <1>1, ReadersInvariant, PTL

\* The stages are reported in order, without a gap, up to the one that failed, whatever the
\* upload holds.
THEOREM StagesAlways == ReadersSpec => []StagesTellTheVerdict
<1>1. ReadersIInv => StagesTellTheVerdict
  BY StagesTell DEF ReadersIInv, StagesTellTheVerdict
<1> QED BY <1>1, ReadersInvariant, PTL

\* What a passed file's commands and objects ask for, the printer it was matched with has;
\* and no file is right for both printers.
THEOREM PassedFits == ReadersSpec => []PassedFitsThePrinter
<1>1. ReadersIInv => PassedFitsThePrinter
  BY ReadersAssumption, MatchedFits, OneModel DEF ReadersIInv, PassedFitsThePrinter
<1> QED BY <1>1, ReadersInvariant, PTL
===============================================================================
