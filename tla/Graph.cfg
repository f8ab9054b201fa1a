CONSTANTS
  MaxNode = 3
  MaxEdge = 4
SPECIFICATION Spec
INVARIANTS
  TypeOK
  AdjacencyAgrees
  SearchesInOrder
  TopologicalOrder
PROPERTIES
  ImplementsAbstractGraph
