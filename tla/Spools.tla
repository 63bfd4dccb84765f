--------------------------------- MODULE Spools ---------------------------------
(***************************************************************************)
(* The filament of one mock printer: the stock the operator records        *)
(* (update_consumables), the check against it when a file is validated     *)
(* (_check_filament_stock), the result kept for the file, and what a print *)
(* takes from the spools when it is through (_consume_filament).           *)
(*                                                                         *)
(* Requests are whole here; how they interleave is in MockPrinter.         *)
(***************************************************************************)
EXTENDS Integers, FiniteSets

CONSTANTS
    Slots,      \* toolheads: numbers from 0
    Files,
    UsedTools,  \* the tools a file's commands name
    Weight,     \* its filament weight: one number, or one of each slot
    Full        \* bound: grams on a full spool

ASSUME SpoolsAssumption ==
    /\ Slots \subseteq Nat /\ 0 \in Slots /\ IsFiniteSet(Slots) /\ Full \in Nat
    /\ UsedTools \in [Files -> SUBSET Slots]
    /\ Weight \in [Files -> [all : 0..Full] \cup [each : [Slots -> 0..Full]]]

Untracked == -1

VARIABLES
    remaining,  \* grams on each spool, or Untracked
    stored,     \* files on the printer's storage
    kept,       \* _validation_by_virtual_path: the files validated, and how it went
    running,    \* the file being printed: at most one
    using,      \* what the print takes at its end
    recorded,   \* history: the grams last recorded for each spool
    taken,      \* history: what the prints that ended since then have taken of it
    forced      \* history: an old result was used, or a spool recorded during a print

history == <<recorded, taken, forced>>
vars == <<remaining, stored, kept, running, using, history>>

Results == {"none", "valid", "invalid"}
Nothing == [s \in Slots |-> 0]

TypeOK ==
    /\ remaining \in [Slots -> {Untracked} \cup 0..Full]
    /\ stored \subseteq Files /\ kept \in [Files -> Results]
    /\ running \in {{}} \cup {{f} : f \in stored}
    /\ {using, recorded, taken} \subseteq [Slots -> 0..Full]
    /\ forced \in BOOLEAN

Init ==
    /\ remaining \in [Slots -> {Untracked, Full}]
    /\ stored = {} /\ kept = [f \in Files |-> "none"]
    /\ running = {} /\ using = Nothing
    /\ recorded = [s \in Slots |-> Full] /\ taken = Nothing
    /\ forced = FALSE

-------------------------------------------------------------------------------
(* What a file needs, as the validator and as the worker read it *)

PerTool(f) == "each" \in DOMAIN Weight[f]

\* The validator puts a single weight on the file's tool, or on slot 0.
Needs(f) ==
    IF PerTool(f) THEN Weight[f].each
    ELSE LET slot == IF UsedTools[f] = {} THEN 0 ELSE CHOOSE t \in UsedTools[f] : TRUE
         IN  [Nothing EXCEPT ![slot] = Weight[f].all]

Enough(need) == \A s \in Slots : remaining[s] = Untracked \/ need[s] <= remaining[s]

\* A single weight for several tools is an issue of its own.
Fits(f) == (PerTool(f) \/ Cardinality(UsedTools[f]) <= 1) /\ Enough(Needs(f))

\* The worker takes a single weight only from the one tool the file names.
Takes(f) == IF PerTool(f) \/ Cardinality(UsedTools[f]) = 1 THEN Needs(f) ELSE Nothing

-------------------------------------------------------------------------------
\* Mutant: a kept result is believed.
ValidateOnce(f) ==
    kept' = [kept EXCEPT ![f] = IF @ # "none" THEN @ ELSE IF Fits(f) THEN "valid" ELSE "invalid"]

Validate(f) == kept' = [kept EXCEPT ![f] = IF Fits(f) THEN "valid" ELSE "invalid"]

Start(f) == running' = {f} /\ using' = Takes(f)

\* handle_upload: a file that is not valid leaves the printer in ATTENTION.
Uploaded(f, print) ==
    /\ Validate(f)
    /\ IF print /\ kept'[f] = "valid" THEN Start(f) ELSE UNCHANGED <<running, using>>
    /\ UNCHANGED <<remaining, history>>

Upload(f, print) ==
    /\ print => running = {}
    /\ stored' = stored \cup {f}
    /\ Uploaded(f, print)

StartPrint(f) ==
    /\ f \in stored /\ running = {}
    /\ UNCHANGED stored
    /\ Uploaded(f, TRUE)

\* _start_print: validated only if there is no result for the path yet.
StartCommand(f) ==
    /\ f \in stored /\ running = {}
    /\ IF kept[f] = "none" THEN Validate(f) ELSE UNCHANGED kept
    /\ IF kept'[f] = "valid" THEN Start(f) ELSE UNCHANGED <<running, using>>
    /\ forced' = (forced \/ kept[f] = "valid")
    /\ UNCHANGED <<remaining, stored, recorded, taken>>

\* /control/printers/{id}/validate
Revalidate(f) ==
    /\ f \in stored /\ Validate(f)
    /\ UNCHANGED <<remaining, stored, running, using, history>>

\* A spool is tracked from its first recorded weight on.
UpdateConsumables(s, g) ==
    /\ forced' = (forced \/ running # {})
    /\ remaining' = [remaining EXCEPT ![s] = g]
    /\ recorded' = [recorded EXCEPT ![s] = g] /\ taken' = [taken EXCEPT ![s] = 0]
    /\ UNCHANGED <<stored, kept, running, using>>

Less(a, b) == IF a > b THEN a - b ELSE 0

\* _consume_filament, at the end of the print only.
Finish ==
    /\ running # {}
    /\ remaining' = [s \in Slots |->
                        IF remaining[s] = Untracked THEN Untracked ELSE Less(remaining[s], using[s])]
    /\ taken' = [s \in Slots |->
                        IF taken[s] + using[s] > recorded[s] THEN recorded[s] ELSE taken[s] + using[s]]
    /\ running' = {} /\ using' = Nothing
    /\ UNCHANGED <<stored, kept, recorded, forced>>

Stop ==
    /\ running # {}
    /\ running' = {} /\ using' = Nothing
    /\ UNCHANGED <<remaining, stored, kept, history>>

-------------------------------------------------------------------------------
Next ==
    \/ \E f \in Files : StartPrint(f) \/ StartCommand(f) \/ Revalidate(f)
    \/ \E f \in Files, print \in BOOLEAN : Upload(f, print)
    \/ \E s \in Slots, g \in 0..Full : UpdateConsumables(s, g)
    \/ Finish \/ Stop

Spec == Init /\ [][Next]_vars

-------------------------------------------------------------------------------
(* Properties *)

\* "Estimated filament weight exceeds the tracked spool remainder" is said before
\* a print, not found at its end, whatever was printed and recorded since the
\* file was stored; unless START_PRINT took an old result for the file, or a spool
\* was changed during a print.
NeverRunsDry == running # {} /\ ~forced => Enough(using)

\* "filament is deducted only after a completed print": of a tracked spool, what
\* is left and what the finished prints took add up to what was last recorded;
\* a print that is stopped, or checked and not started, takes nothing.
StockAddsUp == ~forced => \A s \in Slots : remaining[s] # Untracked => remaining[s] + taken[s] = recorded[s]

\* "XL consumables are tracked per toolhead": what was checked is what is taken, of
\* a file that names a tool (one that names none is checked against slot 0 and
\* taken from none).
NamesATool(f) == PerTool(f) \/ UsedTools[f] # {}
TakesWhatItNeeds == \A f \in running : NamesATool(f) => using = Needs(f)

\* The filament is accounted for: checked before, taken after, and never twice.
FilamentAddsUp == TypeOK /\ NeverRunsDry /\ StockAddsUp /\ TakesWhatItNeeds
================================================================================
