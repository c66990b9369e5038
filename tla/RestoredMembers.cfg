SPECIFICATION PlaneSpec
CONSTANTS
    s1 = s1
    x = x
    y = y
    z = z
    Servers = {s1}
    Tools = {x, y}
    Shapes <- MCShapes
    Profiles = {p1}
    NoGovOp = NoGovOp
    Unseen = Unseen
    GovBudgets <- MCGovBudgets
    u1 = u1
    Upstreams = {u1, u2}
    Limit = 1
    Buffer = 2
    TelBudgets <- MCTelBudgets
    ProfileIds = {q1, q2}
    ProfileNames = {m1, m2}
    Catalog = {k1, k2}
    MaxVersion = 2
    Hosts = {lo, mi}
    LocalHost = lo
    Parcels <- MCParcels
    Writers = {w1, w2}
    ProfBudgets <- MCProfBudgets
    Entries = {h1, h2}
    MaxContent = 2
    Chunk = 1
    IntakeBudgets <- MCIntakeBudgets
    LegacyIds = {1, 2, 3}
    Compact <- MCCompact
    MaxName = 4
    Legacies <- MCLegacies
    Drafts <- MCDrafts
    Migrators = {g1, g2}
    MigBudgets <- MCMigBudgets
INVARIANT AppliedIsTheSource
CHECK_DEADLOCK FALSE
