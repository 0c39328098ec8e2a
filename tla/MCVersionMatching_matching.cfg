SPECIFICATION Spec
CONSTANTS
  Unreadable = Unreadable
  Spellings = {"0", "1.0", "1.0.0", "1.0a", "1.0_p1", "1.0.dev1", "2.0", "2.0-1"}
  Versions = {"0", "1.0", "1.0.0", "1.0a", "1.0_p1", "1.0.dev1", "2.0", "2.0-1"}
  Ecosystems = {"PyPI", "Maven", "Alpine", "Debian", "npm"}
  Core <- TheCore
  Pre <- ThePre
  Reading <- TheReading
  Packages = {django, flask}
  django = django
  flask = flask
  Named = {"PyPI", ""}
  Zero = "0"
  Types = {"SEMVER", "ECOSYSTEM", "GIT"}
  MaxParts = 4
SYMMETRY AnyPackage
INVARIANTS
  AffectedIsReal
  NeverMissesAffected
  DifferInDoubtOrListOnly
  RangesAreConvex
CHECK_DEADLOCK FALSE
