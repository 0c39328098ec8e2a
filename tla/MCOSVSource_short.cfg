\* A service that answers 200 with fewer results than it was asked for.
CONSTANTS
    Queries = {1, 2, 3, 4}
    Advisories = {"a", "b"}
    Queryable = {2, 3, 4}
    Affects <- FourPackages
    BatchLimit = 2
    BatchConcurrency = 1
    HydrateConcurrency = 1
    Retries = 1
    Coverages = {"mirror", "partial"}
    Shortfalls = {0, 1}
    MaxVersion = 1
    MaxLookups = 1
SPECIFICATION FairSpec
INVARIANT NothingReadsAsClean
CHECK_DEADLOCK FALSE
