SPECIFICATION Spec
CONSTANTS
  Slots = 90
  RecordCells = 11
  OffsetSpan = 64
  MaxSaves = 8
CONSTRAINT
  NoneLost
INVARIANT
  Readable
