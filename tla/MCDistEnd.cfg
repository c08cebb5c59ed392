\* Four processes that connect; two that wait, in both builds; three
\* that shut down, where main runs on every process, so fini is called in any order.
SPECIFICATION EndSpec
CONSTANTS
    StartProcs = 4
    numProcs = 3
    distEnv = TRUE
    Queued = 1
INVARIANTS
  Connected
  ClosesDown
PROPERTIES
  StartsUp
  AllLeave
