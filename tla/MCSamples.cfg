SPECIFICATION Spec
CONSTANTS
  Tiles = 3
  FewTiles = 2
  FloydB = 2
  BasicN = 3
  Sweeps = 2
  ProcCounts = {1, 2, 3, 4}
  Programs <- MCPrograms
  Prescribes <- MCPrescribes
  Memoized <- MCMemoized
  Main <- MCMain
  Ops <- MCOps
  Deps <- MCDeps
  DeclaresAll <- MCDeclaresAll
  InPlace <- MCInPlace
  Count <- MCCount
  Kept <- MCKept
  Layouts <- MCLayouts
  On <- MCOn
  ConsumedOn <- MCConsumedOn
  ProducedOn <- MCProducedOn
  Expected <- MCExpected
  Complete <- MCComplete
  Stuck <- MCStuck
INVARIANTS
  PutsOnce
  NobodyStarves
  LifetimesRight
  PlacesAgree
  
