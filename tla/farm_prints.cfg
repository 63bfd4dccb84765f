\* No crash, no lost reply: the database and the printers agree.
CONSTANTS
  j1 = j1
  j2 = j2
  p1 = p1
  Jobs <- TwoJobs
  Printers <- OnePrinter
  NoJob = NoJob
  LocalPrint = LocalPrint
  Adversities = {"maintenance"}
  MaxEvents = 2
SPECIFICATION Spec
SYMMETRY JobSymmetry
INVARIANTS
    CompletedWasPrinted PrintedAtMostOnce
PROPERTIES
    NeverPrintsOntoAPrint CommandReachesItsJob
