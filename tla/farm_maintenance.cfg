\* An administrator edits a printer while the poller is at it.
CONSTANTS
  j1 = j1
  j2 = j2
  p1 = p1
  Jobs <- TwoJobs
  Printers <- OnePrinter
  NoJob = NoJob
  LocalPrint = LocalPrint
  Adversities = {"maintenance"}
  MaxEvents = 1
SPECIFICATION Spec
SYMMETRY JobSymmetry
PROPERTIES
  OnlyAdminEndsMaintenance
