\* Two callers share one VerifyingSource.
CONSTANTS
    Queries = {1, 2}
    a1 = a1  a2 = a2
    Advisories = {a1}
    MaxDetailIDsListed = 20
    IdOrder <- TheOrder
    Callers = {c1, c2}
    IntelReplies <- FewIntel
    ReferenceReplies <- FewReference
    IntelReports <- AllInterfaces
    ReferenceReports <- AllInterfaces
    MaxLookups = 2
SPECIFICATION FairSpec
INVARIANTS
    CoverageKept
PROPERTIES
    CheckedMeansCompared
    UncheckedIsSaid
    LookupsEnd
\* The system stops when the lookups allowed have been made.
CHECK_DEADLOCK FALSE
