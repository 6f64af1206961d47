CONSTANTS
    s1 = s1
    s2 = s2
    k1 = k1
    k2 = k2
    x1 = x1
    x2 = x2
    NoOne = NoOne
    Samplers <- OneSampler
    Clients <- OneClient
    Exporters <- OneExporter
    Capacity = 2
    MaxSamples = 1
    MaxFaults = 1
    MaxRetries = 1
    MaxArtifacts = 1

SPECIFICATION Spec

CHECK_DEADLOCK FALSE

PROPERTY
    RetryResolves
