CONSTANTS
  x = x
  y = y
  g1 = g1
  g2 = g2
  g3 = g3
  NumProcs = 3
  Tags = {x, y}
  Getters = {g1, g2, g3}
  Scenarios <- AllScenarios
  CNC_ENABLE_GC = 1
SPECIFICATION LayersSpec
INVARIANTS
  ItemsConserved
  
  MessagesIntact
PROPERTIES
  AfterWait
  AllServed
