CONSTANTS
  N = 4
  Elems = {0, 1, 2, 3}
SPECIFICATION Spec
INVARIANTS
  TypeOK
  IndicesConsistent
PROPERTY ImplementsInsertionOrder
