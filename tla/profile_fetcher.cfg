SPECIFICATION FairSpec
CONSTANTS
    Lookups = {l1, l2, l3}
    Urls = {u1, u2}
    Hosts = {h1, h2}
    HostOf <- HostOfTwo
    Clients = {p1}
    Versions = {}
    None = None
    MaxInFlight = 2
    MaxPerHost = 2
    MaxPerClient = 1
    MaxEntries = 1
    u1 = u1
    u2 = u2
    h1 = h1
    h2 = h2
INVARIANT TypeOK CountersMatch LimitsHold OneFetchPerUrl AnswersAreNewest CachesBounded
PROPERTY FailuresEvictNoProfile LookupsAreAnswered
