--------------------------- MODULE PrinterContract ---------------------------
(***************************************************************************)
(* What the backend assumes of one printer, as PrintFarm's printers do: it *)
(* accepts a print only when it has none, numbers it, reports PRINTING     *)
(* until the print ends, and reports FINISHED only at the end of a print   *)
(* that ran its course.  In between it may report a fault.                 *)
(*                                                                         *)
(* MockPrinter implements it for the plain caller of MockCallers.          *)
(***************************************************************************)
EXTENDS Naturals

CONSTANT MaxRuns      \* bound on the prints

VARIABLES
  reported,   \* the state the printer answers
  active,     \* the print it runs, 0 if none
  number,     \* the number it gives its latest print
  accepted    \* history: how many prints it has accepted

vars == <<reported, active, number, accepted>>

FaultStates == {"ERROR", "ATTENTION"}

Init == reported = "READY" /\ active = 0 /\ number = 0 /\ accepted = 0

Clears ==
  /\ active = 0 /\ reported' = "READY"
  /\ UNCHANGED <<active, number, accepted>>

Accepts ==
  /\ active = 0 /\ accepted < MaxRuns
  /\ accepted' = accepted + 1 /\ active' = accepted + 1 /\ number' = number + 1
  /\ UNCHANGED reported

\* A file that does not pass: the number is used up.
Rejects ==
  /\ active = 0 /\ reported' = "ATTENTION" /\ number' = number + 1
  /\ UNCHANGED <<active, accepted>>

Begins ==
  /\ active # 0 /\ reported' = "PRINTING"
  /\ UNCHANGED <<active, number, accepted>>

Ends ==
  /\ active # 0 /\ active' = 0
  /\ reported' \in {"FINISHED", "STOPPED"}
  /\ UNCHANGED <<number, accepted>>

Faults ==
  /\ reported' \in FaultStates
  /\ UNCHANGED <<active, number, accepted>>

Next == Clears \/ Accepts \/ Rejects \/ Begins \/ Ends \/ Faults

Spec == Init /\ [][Next]_vars
=============================================================================
