CONSTANTS
    s1 = s1
    s2 = s2
    k1 = k1
    k2 = k2
    x1 = x1
    x2 = x2
    NoOne = NoOne
    Samplers <- OneSampler
    Clients <- TwoClients
    Exporters <- TwoExporters
    Capacity = 2
    MaxSamples = 1
    MaxFaults = 1
    MaxRetries = 1
    MaxArtifacts = 1

SPECIFICATION Spec

SYMMETRY Symmetry

CHECK_DEADLOCK FALSE

INVARIANTS
    StopIsQuiet
    LedgerMatchesBus
    IntentsExactlyOnce
    EvidenceIsComplete
    MarkerIsWhole

PROPERTIES
    StableWhileRead
    StopsGoThrough
