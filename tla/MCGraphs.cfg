SPECIFICATION GraphsSpec
CONSTANTS
    x = x
    y = y
    A = A
    B = B
    Items = {x, y}
    MaxThreads = 1
    MaxRounds = 2
    Programs <- WithLaunch
    Reductions <- AllReductions
    Joins <- AllJoins
INVARIANTS
  
  
  ReductionRight
  JoinRight
PROPERTIES
  EnvEnds
  ReductionEnds
