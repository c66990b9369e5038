SPECIFICATION Spec
CONSTANTS
    k1 = k1
    k2 = k2
    h1 = h1
    h2 = h2
    c1 = c1
    c2 = c2
    local = local
    salt = salt
    NoReq = NoReq
    Calls = {c1, c2}
    Targets = {local, salt}
    TargetOf <- MCTargetOf
    Keys = {k1, k2}
    SaltKeys = {k1}
    Hashes = {h1}
    MaxRestarts = 1
    JournalErrors = TRUE
SYMMETRY Symmetry
INVARIANTS
    OneAnswer
    SuccessMeansApplied
    ExecutedOncePerLife
PROPERTIES
    FinishedStays
