SPECIFICATION HostSpec
CONSTANTS
    r1 = r1
    r2 = r2
    t1 = t1
    t2 = t2
    NoRoute = NoRoute
    Foreign = Foreign
    Runs = {r1, r2}
    Routes = {t1, t2}
    Manifests <- MCManifests
    Budgets <- MCBudgets
    a = a
    b = b
    v1 = v1
    v2 = v2
    Opaque = Opaque
    Absent = Absent
    Names = {a, b, sys}
    Reserved = {sys}
    Versions = {v1, v2}
    SkillSets <- MCSkillSets
    SkillBudgets <- MCSkillBudgets
    MaxBackups = 5
    MaxPerTarget = 1
    Nonces = {n1, n2}
    Fractions = 2
    Window = 1
    MaxStall = 1
    MaxTime = 12
INVARIANTS
    HostTypeOK
    AppliedIsServed FailedCommitUndone
    SuccessIsTruthful RootNeverMixed CatalogOnDisk
    ServedOnce
PROPERTIES
    ReconcileRespectsUser RelaySettles SkillsSettle
CHECK_DEADLOCK FALSE
