------------------------------ MODULE MockCommands ------------------------------
(***************************************************************************)
(* analyze_commands: the mock printer reads a decoded G-code file line by  *)
(* line and lists what an approved profile forbids.  Beside what the       *)
(* function keeps, the module keeps what a machine running the file does:  *)
(* where its nozzle goes and what it is told to heat to.                   *)
(*                                                                         *)
(* One axis stands for three and one heater for three: the code treats     *)
(* them alike.  A file is any sequence of MaxLines lines, run by a machine *)
(* that is homed.                                                          *)
(***************************************************************************)
EXTENDS Integers, FiniteSets

CONSTANTS
    Slots,      \* installed toolheads
    Tools,      \* the tool numbers a file may name
    AlwaysUsed, \* the tool of a CORE One, which no file needs to name
    Bed,        \* the envelope of the axis is 0 to Bed
    Steps,      \* coordinates a file may name
    Temps, MaxTemp,   \* targets a file may name, and the limit
    MaxLines    \* bound: lines in a file

ASSUME CommandsAssumption ==
    /\ Slots \cup AlwaysUsed \subseteq Tools /\ Tools \subseteq Nat /\ Bed \in Nat
    /\ Steps \subseteq Int /\ Temps \cup {MaxTemp} \subseteq Nat
    /\ MaxLines \in Nat

VARIABLES
    absolute, position,     \* motion mode and position, as the function keeps them
    used,       \* tools the file names
    nozzle,     \* the last M862.1 of each tool: "none", "right" or "wrong"
    model, shaper,    \* the last M862.3, and whether M862.6 asked for the shaper
    issues,     \* rules broken so far
    lines,
    at,         \* history: where the nozzle is on the machine
    renamed,    \* history: the place it is at has a new name, or it went home
    went,       \* history: how it has left the bed before that: at the "end" of a move, or
                \* in between, in an "arc"
    heated,     \* history: the highest target so far
    told        \* history: the tools it was told to use or to heat

kept == <<absolute, position, used, nozzle, model, shaper, issues>>
vars == <<kept, lines, at, renamed, went, heated, told>>

Init ==
    /\ absolute = TRUE /\ position = 0
    /\ used = {} /\ nozzle = [t \in Tools |-> "none"]
    /\ model = "none" /\ shaper = FALSE /\ issues = {}
    /\ lines = 0 /\ at = 0 /\ renamed = FALSE /\ went = {} /\ heated = 0 /\ told = {}

Line == lines < MaxLines /\ lines' = lines + 1
Add(rule, wrong) == issues' = IF wrong THEN issues \cup {rule} ELSE issues

-------------------------------------------------------------------------------
Mode(abs) ==
    /\ Line /\ absolute' = abs
    /\ UNCHANGED <<position, used, nozzle, model, shaper, issues, at, renamed, went, heated, told>>

\* Mutant: relative moves are read as absolute ones.
AlwaysAbsolute(from, v) == v

\* The target of a move, from where it starts.
Target(from, v) == IF absolute THEN v ELSE from + v

\* The machine goes to the target from where it is: its origin is at - position.
\* The function looks at the target alone, whichever way the move takes.
Reach(v) ==
    /\ Line
    /\ position' = Target(position, v)
    /\ at' = IF absolute THEN v + (at - position) ELSE at + v
    /\ Add("motion-bound", position' \notin 0..Bed)
    /\ UNCHANGED <<absolute, used, nozzle, model, shaper, renamed, heated, told>>

OffBed(place) == ~renamed /\ place \notin 0..Bed
LeavesAt(place, how) == IF OffBed(place) THEN {how} ELSE {}

\* G0 and G1: in a straight line, which is over the bed if both its ends are.
Move(v) == Reach(v) /\ went' = went \cup LeavesAt(at', "end")

\* G2 and G3: the machine swings by a place that its ends say nothing of.
Arc(v, by) == Reach(v) /\ went' = went \cup LeavesAt(at', "end") \cup LeavesAt(by, "arc")

\* One that names its centre only goes round to where it began.
Circle(by) ==
    /\ Line /\ went' = went \cup LeavesAt(by, "arc")
    /\ UNCHANGED <<absolute, position, used, nozzle, model, shaper, issues, at, renamed, heated, told>>

\* The machine stays where it is and calls the place v.
SetPosition(v) ==
    /\ Line /\ position' = v /\ renamed' = TRUE
    /\ UNCHANGED <<absolute, used, nozzle, model, shaper, issues, at, went, heated, told>>

\* The machine goes to its end stop; the function does not know the command.
Home ==
    /\ Line /\ at' = 0 /\ renamed' = TRUE
    /\ UNCHANGED <<absolute, position, used, nozzle, model, shaper, issues, went, heated, told>>

\* The target a heating command names: S, and R only without it.
TargetOf(s, r) == IF s # {} THEN s ELSE r

Hottest(ts) == IF ts = {} THEN 0 ELSE CHOOSE t \in ts : \A u \in ts : u <= t

Heat(tool, s, r) ==
    /\ Line /\ told' = told \cup tool
    /\ used' = used \cup tool
    /\ Add("temperature-limit", \E t \in TargetOf(s, r) : t > MaxTemp)
    /\ heated' = Hottest({heated} \cup (IF s # {} THEN s ELSE r))
    /\ UNCHANGED <<absolute, position, nozzle, model, shaper, at, renamed, went>>

UseTool(t) ==
    /\ Line /\ used' = used \cup {t} /\ told' = told \cup {t}
    /\ UNCHANGED <<absolute, position, nozzle, model, shaper, issues, at, renamed, went, heated>>

\* M862.1; without a T it is about tool 0.
CheckNozzle(tool, right) ==
    /\ Line
    /\ \E t \in IF tool = {} THEN {0} ELSE tool :
        nozzle' = [nozzle EXCEPT ![t] = IF right THEN "right" ELSE "wrong"]
    /\ UNCHANGED <<absolute, position, used, model, shaper, issues, at, renamed, went, heated, told>>

CheckModel(right) ==
    /\ Line /\ model' = IF right THEN "right" ELSE "wrong"
    /\ UNCHANGED <<absolute, position, used, nozzle, shaper, issues, at, renamed, went, heated, told>>

AskShaper ==
    /\ Line /\ shaper' = TRUE
    /\ UNCHANGED <<absolute, position, used, nozzle, model, issues, at, renamed, went, heated, told>>

Forbidden ==
    /\ Line /\ Add("forbidden-command", TRUE)
    /\ UNCHANGED <<absolute, position, used, nozzle, model, shaper, at, renamed, went, heated, told>>

Optional(S) == {{}} \cup {{x} : x \in S}

Motion ==
    \/ \E abs \in BOOLEAN : Mode(abs)
    \/ \E v \in Steps : Move(v) \/ SetPosition(v) \/ Circle(v)
    \/ \E v, by \in Steps : Arc(v, by)
    \/ Home
Checks ==
    \/ \E t \in Optional(Tools), right \in BOOLEAN : CheckNozzle(t, right)
    \/ \E right \in BOOLEAN : CheckModel(right)
    \/ AskShaper
Next ==
    \/ Motion
    \/ \E t \in Optional(Tools), s, r \in Optional(Temps) : Heat(t, s, r)
    \/ \E t \in Tools : UseTool(t)
    \/ Checks
    \/ Forbidden

Spec == Init /\ [][Next]_vars

-------------------------------------------------------------------------------
(* The verdict, if the file ends here *)

ToolsRight == \A t \in used \cup AlwaysUsed : t \in Slots /\ nozzle[t] = "right"
Passed == issues = {} /\ ToolsRight /\ model = "right" /\ shaper

(* Properties *)

TypeOK ==
    /\ absolute \in BOOLEAN /\ position \in Int /\ used \subseteq Tools
    /\ nozzle \in [Tools -> {"none", "right", "wrong"}]
    /\ model \in {"none", "right", "wrong"} /\ shaper \in BOOLEAN
    /\ issues \subseteq {"motion-bound", "temperature-limit", "forbidden-command"}
    /\ lines \in 0..MaxLines /\ at \in Int /\ renamed \in BOOLEAN
    /\ went \subseteq {"end", "arc"} /\ heated \in Nat /\ told \subseteq Tools

\* "axis movement exceeds the approved machine envelope": no move of a file that passes
\* ends off the bed, in either motion mode and between them, so that its straight moves keep
\* the nozzle over the bed, until it names its place anew (G92) or homes: from there the
\* function follows the file's coordinates and not the machine's.  What an arc does between
\* its ends the function does not look at: that is the one way left to leave the bed.
StaysOverTheBed == Passed => went \subseteq {"arc"}

\* "Nozzle target exceeds the printer hardware limit": nor does it overheat.
HeatsWithinLimits == Passed => heated <= MaxTemp

\* "G-code references a toolhead that is not installed", and "Used toolhead has
\* no M862.1 nozzle compatibility check": whatever tool the machine was told to
\* use or to heat, in whatever order the lines came, is there and was checked.
ToolsAreInstalled == Passed => \A t \in told : t \in Slots /\ nozzle[t] = "right"

\* What passes does the printer no harm: analyze_commands misses no line that would.
PassedDoesNoHarm == TypeOK /\ StaysOverTheBed /\ HeatsWithinLimits /\ ToolsAreInstalled
================================================================================
