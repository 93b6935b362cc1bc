SPECIFICATION FairSpec
CONSTANTS
    Services = {s1}
    CredRefs = {c1, c2}
    Secrets <- MCSecrets
    Endpoints <- MCEndpoints
    Networks <- MCNetworks
    Pools <- MCPools
    NodeLists = {n1, n2}
    None = None
    ServiceSpecs <- TwoSpecs
    RemoteWrites <- OneWrite
    MaxDisturbances = 3
PROPERTIES
    Converges
CHECK_DEADLOCK FALSE
