SPECIFICATION Spec
CONSTANTS
  Names <- TheNames
  Claims <- TheClaims
  Reports = {}
  Reporters = {}
  NoRun = NoRun
  Subjects = {"", "exploit", "trigger_condition"}
  Authorities <- BothAuthorities
  Lifecycle = {"", "retracted"}
  MaxClaims = 3
INVARIANTS
  RefutationsDefeat
