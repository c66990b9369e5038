SPECIFICATION Spec
CONSTANTS
    client = client
    salt = salt
    node = node
    NoNode = NoNode
    NoRow = NoRow
    Ops = {o1, o2}
    Targets = {relay, salt}
    Relay = relay
    Clients = {}
    Nodes = {node}
    NodeOf <- MCNodeOf
    ApiKinds = {"edit", "relay_config_apply"}
    Workers = {w1, w2}
    MaxCrashes = 1
    StoreErrors = TRUE
    UserCancels = FALSE
SYMMETRY Symmetry
INVARIANTS
    ExclusiveTarget
    ArchivedNodeDrained
PROPERTY
    ImplementsLease
CHECK_DEADLOCK FALSE
