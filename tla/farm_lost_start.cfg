\* The printer starts a job and its reply is lost.
CONSTANTS
  j1 = j1
  j2 = j2
  p1 = p1
  Jobs <- TwoJobs
  Printers <- OnePrinter
  NoJob = NoJob
  LocalPrint = LocalPrint
  Adversities = {"lost reply"}
  MaxEvents = 1
SPECIFICATION Spec
SYMMETRY JobSymmetry
INVARIANTS
  PrintedAtMostOnce
