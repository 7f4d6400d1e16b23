SPECIFICATION Spec
CONSTANTS
  Slots = 4
  RecordCells = 2
  OffsetSpan = 64
  MaxSaves = 6
INVARIANTS
  Readable
  NewestFirst
  KeyIntact
PROPERTY
  NothingForgotten
