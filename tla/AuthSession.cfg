SPECIFICATION Spec
CONSTANTS
  alice = alice
  bob = bob
  Nobody = Nobody
  Unreadable = Unreadable
  Face <- MCFace
  Similar <- MCSimilar
  RiskScore <- MCRiskScore
  R1 = 1
  R2 = 2
  MaxStepUps = 2
  MinChallenges = 2
  MaxChallenges = 2
  SessionTimeout = 4
  ChallengeTimeout = 2
  DevFallback = TRUE
  SessionId = {s1}
  MaxFrames = 4
  MinInterval = 1
  MaxTime = 5
  MaxAudit = 2
CHECK_DEADLOCK FALSE
INVARIANTS
  TypeOK
  LivenessEarned
  FrameLimitIsFinal
  NoAllowAfterDeny
PROPERTIES
  AllowIsEarned
  VerdictsArePromised
  DecisionStands
