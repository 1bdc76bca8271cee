SPECIFICATION IdentitySpec
CONSTANTS
  NoKey = NoKey
  EnvKey = EnvKey
  MaxKey = 3
  MaxAudit = 1
  MaxPair = 3
INVARIANTS
  IdentityTypeOK
  KeyInUseSurvives
PROPERTIES
  KeyStaysInUse
  OnePairInUse
  ReadableStaysReadable
  IdKeepsNaming
