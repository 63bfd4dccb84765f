SPECIFICATION MCSpec
CONSTANTS
    two = two
    one = one
    loose = loose
    bare = bare
    p1 = p1
    p2 = p2
    anywhere = anywhere
    None = None
    Slots = {0, 1}
    Files = {two, one, loose, bare}
    UsedTools <- MCUsedTools
    Weight <- MCWeight
    Full = 4
    NumJobs = 4
    Printers = {p1, p2}
    Users = {"s", "f"}
    Staff = {"f"}
    Durations = {0, 600}
    Places = {p1, p2, anywhere}
    Anywhere = anywhere
    TICK = 600
    MaxTime = 3000
    Machines = {"a", "b"}
    Materials = {"pla"}
    Submitters = {"u", "v"}
    Departments = {"me", "ee"}
    Tables <- SmallTables
    Filters <- AnyFilter
    Grain = 8
    FirstNames <- MCFirstNames
    LastNames <- MCLastNames
    LiveNames <- MCLiveNames
SYMMETRY Swaps
INVARIANTS
    FilamentAddsUp PlanIsSound ReportsAgree SchemaIsSound
PROPERTIES
    PromisesKept RevisionsKeepTheData
CHECK_DEADLOCK FALSE
