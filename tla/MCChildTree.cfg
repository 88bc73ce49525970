CONSTANTS
  Nodes = {root, a, b}
  Root = root
  MayRefuse = TRUE
  MaxChanges = 1
SPECIFICATION FairSpec
INVARIANTS
  TypeOK
  IsTree
  DepthBounded
  CompleteBelowAnswers
PROPERTY
  WalkEnds
CHECK_DEADLOCK FALSE
