----------------------------- MODULE MCPrintFarm -----------------------------
(***************************************************************************)
(* Instances of PrintFarm: two jobs queueing for one printer.              *)
(***************************************************************************)
EXTENDS PrintFarm, TLC

CONSTANTS j1, j2, p1

TwoJobs == {j1, j2}
OnePrinter == {p1}

\* Jobs are only compared, so they may be exchanged.
JobSymmetry == Permutations(Jobs)
=============================================================================
