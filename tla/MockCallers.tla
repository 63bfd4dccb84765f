----------------------------- MODULE MockCallers -----------------------------
(***************************************************************************)
(* The mock printer with one caller, or with any.  One caller waits for    *)
(* the answer before it asks again, and nobody prints through Connect      *)
(* meanwhile.  A plain caller only prints, asks for the status, stops and  *)
(* resets, and the print a reset stops ends within the two seconds the     *)
(* reset waits.                                                            *)
(***************************************************************************)
EXTENDS MockPrinter

VARIABLES
  alone,      \* is there one caller
  plain       \* and is it a plain one

OneAtATime ==
  /\ \A c, d \in Clients : req[c].pc # "idle" /\ req[d].pc # "idle" => c = d
  /\ \A c \in Clients : req[c].op # "connect"

AsksPlainly == \A c \in Clients : req[c].op \in {"none", "print", "status", "stop", "reset"}

WaitsLongEnough == \A c \in Clients : req[c].pc = "join" /\ req'[c].pc # "join" => ~Running

callersVars == <<alone, plain, vars>>

CallersInit == Init /\ alone \in BOOLEAN /\ plain \in BOOLEAN /\ (plain => alone)
CallersNext ==
  /\ Next /\ UNCHANGED <<alone, plain>>
  /\ alone => OneAtATime'
  /\ plain => AsksPlainly' /\ WaitsLongEnough
CallersSpec == CallersInit /\ [][CallersNext]_callersVars

------------------------------------------------------------------------------
(* What holds of one caller: two can tell one number of two prints, and     *)
(* reset the state of a print that has just begun                           *)

\* A number that was told means one print, and FINISHED is reported of a print that ran to
\* its end.
AloneIsToldTheTruth == alone => TypeOK /\ NumbersNameOnePrint /\ FinishedWasPrinted

\* A stop or a pause for one print is not carried out on another, and a file for a print
\* is not stored while another print runs.
AloneReachesItsPrint == [][alone => ControlReachesItsPrint /\ BusyIsRefused]_callersVars

\* For a plain caller the mock is the printer the backend assumes: each step is one of the
\* contract's, or none.  So a print is accepted only when there is none, every file that is
\* taken up gets the next number, and FINISHED or STOPPED is said only as a print ends,
\* with faults and resets at any time.
PlainImplementsContract ==
  (plain => Contract!Init) /\ [][plain => Contract!Next]_(Contract!vars)
==============================================================================
