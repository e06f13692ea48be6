SPECIFICATION Spec
CONSTANTS
  HEAD_SIZE = 4
  PoolSize = 30
  Sizes = {1, 8}
  Boundaries = {2}
  Client = {a, b}
  MAX_LOG2 = 6
  UintSize = 32
INVARIANTS MemTypeOK PoolSound RefusedOnlyIfFull StatisticsAddUp
PROPERTIES ImplementsHeap
