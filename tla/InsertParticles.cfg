SPECIFICATION Spec
CONSTANTS
  NumEntries = 3
  Cells <- OneCell
  CellOf <- AllToOne
  HeapSize = 7
  MaxTries = 2
INVARIANTS
  ListLinked
  InsertedOnce
