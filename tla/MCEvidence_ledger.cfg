SPECIFICATION Spec
CONSTANTS
  Names <- TheNames
  Claims <- TheClaims
  Reports <- TheReports
  Reporters = {"a"}
  NoRun = NoRun
  Subjects = {"", "exploit", "trigger_condition"}
  Authorities <- BothAuthorities
  Lifecycle = {"", "superseded"}
  MaxClaims = 3
INVARIANTS
  ConfirmedIsEarned
  ConflictsDecideNothing
  AcceptedRunsWouldConfirm
  WithdrawnWeighsNothing
PROPERTIES
  EchoesDoNotPromote
  WeightlessClaimsDecideNothing
  SubjectsKeepApart
  SupportNeverLowers
