SPECIFICATION Spec
CONSTANTS
  InitSize = 4
  StackSize = 3
  MaxChunk = 4
  MaxBytes = 10
INVARIANTS InBounds GrowthBounded
PROPERTIES RefinesByteQueue
