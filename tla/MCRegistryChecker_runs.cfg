SPECIFICATION FairSpec
CONSTANTS
  c1 = c1
  c2 = c2
  reqests = reqests
  flask = flask
  NoCaller = NoCaller
  Callers = {c1, c2}
  Names = {reqests, flask}
  Selected <- TwoNamesAndOne
  Likely = {reqests, flask}
  MaxRequests = 4
  MaxRetries = 2
  Staleness = 1
INVARIANTS
  TypeOK
  WithinBudget
  ShortFeedsAreSaid
PROPERTIES
  NeverAccusesAnOwner
  PacedUnlessEnded
  RunsEnd
CHECK_DEADLOCK FALSE
