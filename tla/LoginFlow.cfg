SPECIFICATION Spec
CONSTANTS
  k1 = k1
  k2 = k2
  s1 = s1
  s2 = s2
  Slots = {k1, k2}
  SessionId = {s1, s2}
  NoRequest = NoRequest
  NoValue = NoValue
  NoSession = NoSession
CHECK_DEADLOCK FALSE
SYMMETRY MCSymmetry
INVARIANTS TypeOK SuccessMeansAllowed OneAtATime
