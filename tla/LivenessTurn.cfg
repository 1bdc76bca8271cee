SPECIFICATION Spec
CONSTANTS
  SessionId = {s1, s2}
  MinChallenges = 2
  MaxChallenges = 3
  EarConsecFrames = 2
  DebounceFrames = 2
  YawDebounceFrames = 0
  MaxFrames = 6
PROPERTY CompletedTurnPasses
