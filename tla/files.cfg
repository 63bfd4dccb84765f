SPECIFICATION MCSpec
CONSTANTS
    Slots = {0}
    Tools = {0, 1}
    AlwaysUsed = {}
    Bed = 2
    Steps <- MCSteps
    Temps = {1, 2}
    MaxTemp = 1
    MaxLines = 5
    Texts <- TextFiles
    TailLength = 2
    BinaryFiles <- CutFiles
    Uploads <- AllFiles
    s1 = s1
    u1 = u1
    u2 = u2
    p1 = p1
    home = home
    Submits = {s1}
    UploadJobs = {u1, u2}
    Printers = {p1}
    PrinterOf <- MCPrinterOf
    DirOf <- MCDirOf
INVARIANTS
    ParsersAreExact StagesTellTheVerdict PassedFitsThePrinter PassedDoesNoHarm
    StoreInv NothingLeftBehind
CHECK_DEADLOCK FALSE
