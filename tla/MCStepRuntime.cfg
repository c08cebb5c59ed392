CONSTANTS
  a = a
  b = b
  c = c
  x = x
  y = y
  d = d
  e = e
  f = f
  u = u
  z = z
  v = v
  q = q
  r = r
  g = g
  h = h
  k = k
  m = m
  n = n
  Steps = {a, b, c, d, e, f, g, h, k}
  Items = {x, y, u, z, v, q, r, m, n}
  Workers = {w1, w2}
  Env = Env
  Null = Null
  Body <- AllBodies
  EnvBody <- AllEnvs
  Mains <- AllMains
  Depends <- AllDepends
  Sequentialize = {g, k}
  GetCount <- AllCounts
  MaxWaitRounds = 5
SPECIFICATION FairSpec
INVARIANTS
  TypeOK
  SuspendersExact
  SingleOwner
  NoStepLost
  GetCountsKept
  WaitExact
PROPERTIES
  
  ImplementsDataflow
