\* Two lookups through one cache; every answer has a result for each query.
CONSTANTS
    Queries = {1, 2, 3, 4}
    Advisories = {"a", "b"}
    Queryable = {2, 3, 4}
    Affects <- FourPackages
    BatchLimit = 2
    BatchConcurrency = 1
    HydrateConcurrency = 1
    Retries = 1
    Coverages = {"mirror", "partial"}
    Shortfalls = {0}
    MaxVersion = 2
    MaxLookups = 2
SPECIFICATION FairSpec
INVARIANTS
    TypeOK
    RightPackage
    NothingReadsAsClean
    ReplyKeepsContract
    FreshText
PROPERTIES
    LookupEnds
\* The system stops when the lookups allowed have been made.
CHECK_DEADLOCK FALSE
