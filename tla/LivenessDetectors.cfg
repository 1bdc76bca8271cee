SPECIFICATION Spec
CONSTANTS
  SessionId = {s1, s2}
  MinChallenges = 2
  MaxChallenges = 3
  EarConsecFrames = 2
  DebounceFrames = 3
  YawDebounceFrames = 0
  MaxFrames = 6
SYMMETRY Symmetry
INVARIANTS TypeOK
PROPERTIES BlinkPassesAsFilmed
