SPECIFICATION Spec
CONSTANTS
  InitSize = 4
  StackSize = 3
  MaxChunk = 4
  MaxBytes = 4
INVARIANTS IntsReadBack
