\* The host reads its counter while a counted message waits for its dispatch.
SPECIFICATION Spec
CONSTANTS
    MaxProcs = 3
    Modes <- LateDispatch
INVARIANTS
    OnlyWaiterInFlight
