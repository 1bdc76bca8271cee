SPECIFICATION FairSpec
CONSTANTS
  Caller = {c1, c2, c3}
  Child = {k1, k2}
  None = None
  MaxPolls = 2
CHECK_DEADLOCK FALSE
INVARIANTS
  TypeOK
  OneLauncher
  InfoOfOwnedChild
PROPERTIES
  ChildrenAreKept
  CallReturns
