SPECIFICATION MCSpec
CONSTANTS
    a = a
    b = b
    bad = bad
    photo = photo
    p = p
    q = q
    c1 = c1
    r1 = r1
    r2 = r2
    n1 = n1
    Files = {a, b, bad, photo}
    Named = {a, b, bad}
    Valid = {a, b}
    Places = {p, q}
    Fits <- MCFits
    MaxPicks = 2
    MaxTries = 2
INVARIANTS
    PageTellsTheTruth OneJobPerPick
PROPERTIES
    CheckedBeforeSubmit NothingHangs Settles
CHECK_DEADLOCK FALSE
