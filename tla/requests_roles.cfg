SPECIFICATION MCSpec
CONSTANTS
    stu = stu
    far = far
    a1 = a1
    a2 = a2
    c1 = c1
    c2 = c2
    r1 = r1
    r2 = r2
    r3 = r3
    n1 = n1
    n2 = n2
    n3 = n3
    Emails <- BothEmails
    Students <- OneStudent
    Clients <- BothUsers
    Adapters = {"fake", "supabase"}
    Listings <- ThreeListings
    Staff <- OneAdmin
    MaxIds = 4
    MaxStarts = 2
    MaxPromotions = 1
    Chats = {r1, r2, r3}
    Addresses = {c1, c2}
    MAX_REQUESTS = 2
    WINDOW = 2
    MAX_HISTORY = 1
    Says = {"plain", "secret", "empty"}
    MaxTime = 3
    Notes = {n1, n2, n3}
    Users = {"reader", "other"}
    Owner <- MCOwner
    Reader = "reader"
    PageSize = 2
    MaxLoads = 1
    MaxFails = 0
PROPERTIES
    RolesAreKept
CHECK_DEADLOCK FALSE
