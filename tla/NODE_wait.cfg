CONSTANTS
    Topics <- MCTopics
    Calls = {"c", "iterator"}
    Observers <- MCObservers
    Messages <- MCMessages
    MaxRounds = 2
    Peers = {1, 2}
    Callers = {"store", "filter", "waitForMetadata"}
    Shards = {1}
    Protocols = {"store", "filter"}
    Serves <- MCServes
    Requests = {{}, {"filter"}}
    MaxMessages = 5
    Unreadable = {2}
    Modes = {"generator", "ordered", "promise"}
    paginationLimit = 2
    MAX_PAGE_SIZE = 3
    FilterNodes = {1, 2}
    ConfiguredOn <- MCConfiguredOn
    Subscribers <- MCSubscribers
    Incoming <- MCIncoming
    MaxPushes = 2
SPECIFICATION Spec
INVARIANTS ResolvedMeansFulfilled

CHECK_DEADLOCK FALSE
