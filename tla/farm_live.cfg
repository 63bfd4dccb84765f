\* Progress, with one crash, lost reply, fault or command.
CONSTANTS
  j1 = j1
  j2 = j2
  p1 = p1
  Jobs <- TwoJobs
  Printers <- OnePrinter
  NoJob = NoJob
  LocalPrint = LocalPrint
  Adversities = {"crash", "lost reply"}
  MaxEvents = 1
SPECIFICATION FairSpec
PROPERTIES
  EndedPrintIsRecorded
  QueueMoves
