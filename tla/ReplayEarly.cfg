SPECIFICATION MCSpec
CONSTANTS
    k1 = k1
    k2 = k2
    h1 = h1
    h2 = h2
    c1 = c1
    c2 = c2
    local = local
    salt = salt
    NoReq = NoReq
    Calls = {c1, c2}
    Targets = {local, salt}
    TargetOf <- MCTargetOf
    Keys = {k1}
    SaltKeys = {}
    Hashes = {h1}
    MaxRestarts = 0
    MaxCrashes = 1
    JournalErrors = FALSE
CHECK_DEADLOCK FALSE
INVARIANTS
    ReplayNeverEarly
