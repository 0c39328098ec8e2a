\* One lookup, every combination of two answers over two queries.
CONSTANTS
    Queries = {1, 2}
    a1 = a1  a2 = a2
    Advisories = {a1, a2}
    MaxDetailIDsListed = 1
    IdOrder <- TheOrder
    Callers = {c1}
    IntelReplies <- WideIntel
    ReferenceReplies <- WideReference
    IntelReports <- AllInterfaces
    ReferenceReports <- AllInterfaces
    MaxLookups = 1
SPECIFICATION Spec
INVARIANTS
    NeverOlderText
    DetailLossIsSaid
PROPERTIES
    HoldsMeansSuperset
    SuppressionIsSaidAndRepaired
\* The system stops when the lookups allowed have been made.
CHECK_DEADLOCK FALSE
