SPECIFICATION LayoutSpec
CONSTANTS
  NumPart = 1
  Numnodestree = 1
  Leaves = 1
  Sizes <- SmallSizes
CHECK_DEADLOCK FALSE
INVARIANTS
  ThreadKept
