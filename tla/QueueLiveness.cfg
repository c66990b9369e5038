SPECIFICATION FairSpec
CONSTANTS
    client = client
    salt = salt
    node = node
    NoNode = NoNode
    NoRow = NoRow
    Ops = {o1, o2}
    Targets = {client, relay}
    Relay = relay
    Clients = {client}
    Nodes = {}
    NodeOf <- MCNodeOf
    ApiKinds = {"relay_config_apply"}
    Workers = {w1}
    MaxCrashes = 1
    StoreErrors = FALSE
    UserCancels = FALSE
PROPERTIES
    EveryStepEnds
CHECK_DEADLOCK FALSE
