\* Two clients that send messages to each other.
SPECIFICATION Spec
CONSTANTS
    MaxProcs = 3
    Modes <- ThreeModes
INVARIANTS
  TypeOK
  WaitIsGlobal
  HostLeavesFirst
  FlushExact
  NoOrphanMessage
