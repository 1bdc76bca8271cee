SPECIFICATION Spec
CONSTANTS
  k1 = k1
  k2 = k2
  Slots = {k1, k2}
  NoRequest = NoRequest
  NoValue = NoValue
  Target = 2
  Nobody = Nobody
  Earlier = Earlier
  MaxSessions = 2
  MaxAccepted = 3
CHECK_DEADLOCK FALSE
SYMMETRY MCSymmetry
INVARIANTS TypeOK NeverOverstated SuccessMeansStored ResendsAreBounded WaitingIsBacked
