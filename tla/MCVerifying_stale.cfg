\* Two lookups through one VerifyingSource.
CONSTANTS
    Queries = {1, 2}
    a1 = a1  a2 = a2
    Advisories = {a1}
    MaxDetailIDsListed = 20
    IdOrder <- TheOrder
    Callers = {c1}
    IntelReplies <- FewIntel
    ReferenceReplies <- FewReference
    IntelReports <- AllInterfaces
    ReferenceReports <- AllInterfaces
    MaxLookups = 2
SPECIFICATION FairSpec
PROPERTY CleanAnswersAreChecked
CHECK_DEADLOCK FALSE
