SPECIFICATION Spec
CONSTANTS
  Unreadable = Unreadable
  Spellings = {"0", "1.0", "2.0"}
  Versions = {"0", "1.0", "2.0"}
  Ecosystems = {"PyPI"}
  Core <- TheCore
  Pre <- ThePre
  Reading <- TheReading
  Packages = {django, flask}
  django = django
  flask = flask
  Named = {"PyPI"}
  Zero = "0"
  Types = {"SEMVER", "ECOSYSTEM"}
  MaxParts = 5
SYMMETRY AnyPackage
INVARIANT FixIsNoDowngrade
CHECK_DEADLOCK FALSE
