CONSTANTS
    a = a
    b = b
    route = route
    backup = backup
    load = load
    run = run
    deployment = deployment
    Key <- MCKey
    Namespace <- MCNamespace
    NamespaceOf <- MCNamespaceOf
    Limit <- MCLimit
    Client <- MCClient
    Batch <- MCBatch
    MaxVersion = 4
SPECIFICATION StoreSpec
INVARIANTS
    VersionIdentifiesWrite
PROPERTY
    NoLostUpdate
CHECK_DEADLOCK FALSE
