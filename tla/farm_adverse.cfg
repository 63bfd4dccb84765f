\* Crashes, lost replies, slow uploads and prints started at the printer: what the
\* database says stays in order.
CONSTANTS
  j1 = j1
  j2 = j2
  p1 = p1
  Jobs <- TwoJobs
  Printers <- OnePrinter
  NoJob = NoJob
  LocalPrint = LocalPrint
  Adversities = {"crash", "lost reply", "slow upload", "local print"}
  MaxEvents = 2
SPECIFICATION Spec
SYMMETRY JobSymmetry
INVARIANTS
    IInv NotificationsTellTheStory FileKeptUntilRemoval
PROPERTIES
    ImplementsLifecycle
