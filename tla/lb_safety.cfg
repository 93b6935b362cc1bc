SPECIFICATION Spec
CONSTANTS
    Services = {s1}
    CredRefs = {c1, c2}
    Secrets <- MCSecrets
    Endpoints <- MCEndpoints
    Networks <- MCNetworks
    Pools <- MCPools
    NodeLists = {n1, n2}
    None = None
    ServiceSpecs <- AllSpecs
    RemoteWrites <- TwoWrites
    MaxDisturbances = 3
SYMMETRY Symmetry
INVARIANTS
    TypeOK
    AtMostOneCredential
    NoDanglingReference
    DeletesOnlyUnreferenced
    DeletedLeavesNothing
    CredentialInv
    ReadyInSync
    TargetsFollowNodes
CHECK_DEADLOCK FALSE
