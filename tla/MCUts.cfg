\* Every variant with three threads or workers; work stealing with two.
SPECIFICATION Spec
CONSTANTS
  Impls = {"shm", "upc", "steal", "manager", "global"}
  StealTree <- BinTree
  StealProcs = 2
INVARIANTS
  SearchedOnce
  ChecksPass
  
PROPERTIES
  AllEnd
