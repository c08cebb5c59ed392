\* Three processes steal work of a tree with three levels.
SPECIFICATION Spec
CONSTANTS
  Impls = {"steal"}
  StealTree <- DeepTree
  StealProcs = 3
INVARIANT PinkMoppedUp
