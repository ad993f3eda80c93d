CONSTANTS
  MaxHeap = 14
  chunksize = 4
  list_number = 4
  Requests <- WithZero
  Arrays <- SomeArrays
  size_limit = 16
  USER <- ProgramData
SPECIFICATION Spec
CHECK_DEADLOCK FALSE
INVARIANTS
  HeapConsistent
  ServesProgram
  CheckerCatches
PROPERTY ImplementsSegments
