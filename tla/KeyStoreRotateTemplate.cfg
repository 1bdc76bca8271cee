SPECIFICATION Spec
CONSTANTS
  NoKey = NoKey
  EnvKey = EnvKey
  MaxKey = 4
  MaxAudit = 2
PROPERTIES RotationKeepsTemplate
