CONSTANTS
    Peers = {1, 2}
    Versions = {1, 2}
    Deployments = {{"exchange", "dns"}, {"cache"}}
    Servers = {2}
    Chains = {c1, c2}
    Records <- MCRecords
    MaxRecords = 1
    maxRetries = 1
    Subdomains = {"d", "a", "b", "r1", "r2", "x", "e", "f"}
    Domain = "d"
    EntryType <- MCEntryType
    Children <- MCChildren
    NodeOf <- MCNodeOf
    Capabilities <- MCCapabilities
    Wanted <- MCWanted
    errorTolerance = 1
    MaxRestarts = 2
SPECIFICATION FairSpec
INVARIANTS
    DiscoverySafe
PROPERTIES
    DiscoveryEnds
    NothingForgotten
CHECK_DEADLOCK FALSE
