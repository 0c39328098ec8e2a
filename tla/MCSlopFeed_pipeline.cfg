SPECIFICATION Pipeline
CONSTANTS
  strict = strict
  lenient = lenient
  k1 = k1
  k2 = k2
  NoKey = NoKey
  None = None
  NaN = NaN
  Names <- TheNames
  Normal <- TheNormal
  Risks <- TheRisks
  Handmade <- TheHandmade
  Altered = 9
  Keys = {k1, k2}
  Consumers = {strict, lenient}
  Requires = {strict}
  Pinned <- ThePinned
  MaxEntries = 2
  MaxEdits = 2
  MaxDamages = 1
  SeedLists <- TheSeeds
  Variants <- TheVariants
  Compositions <- TheCompositions
  Obvious <- TheObvious
  Order <- TheOrder
  Quota <- TheQuota
  Limit = 4
INVARIANTS
  ServedIsWhatWasMade
  BadSignatureIsNeverServed
  ConsumersAgree
PROPERTIES
  SignedFeedsVerify
  GeneratedFeedsAreJustified
