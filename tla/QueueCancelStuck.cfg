SPECIFICATION FairSpec
CONSTANTS
    client = client
    salt = salt
    node = node
    NoNode = NoNode
    NoRow = NoRow
    Ops = {o1}
    Targets = {client, relay}
    Relay = relay
    Clients = {client}
    Nodes = {}
    NodeOf <- MCNodeOf
    ApiKinds = {"relay_config_apply"}
    Workers = {w1}
    MaxCrashes = 1
    StoreErrors = FALSE
    UserCancels = TRUE
PROPERTIES
    RunningStepCompletes
CHECK_DEADLOCK FALSE
