SPECIFICATION StoreSpec
CONSTANTS
    s1 = s1
    u1 = u1
    u2 = u2
    p1 = p1
    home = home
    Submits = {s1}
    UploadJobs = {u1, u2}
    Printers = {p1}
    PrinterOf <- MCPrinterOf
    DirOf <- MCDirOf
INVARIANT
    JobsHavePrinters
CHECK_DEADLOCK FALSE
