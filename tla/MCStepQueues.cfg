CONSTANTS
  a = a
  b = b
  c = c
  d = d
  p = p
  q = q
  r = r
  x = x
  y = y
  Steps = {a, b, c, d}
  None = None
  Body <- SmallBody
  EnvBody <- SmallEnv
  Affinity <- SmallAffinity
  Priority <- SmallPriority
  Configs <- AllConfigs
  Callers = {p, q, r}
  Tags = {x, y}
  Metered = {x}
  Readers <- SmallReaders
  Kinds = {"vec", "hash"}
  MaxClears = 1
  Null = Null
SPECIFICATION PartsSpec
INVARIANTS
  NothingMislaid
  TableSound
PROPERTIES
  QueuesFinish
