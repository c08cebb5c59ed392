CONSTANTS
  a = a
  b = b
  c = c
  x = x
  y = y
  d = d
  e = e
  f = f
  u = u
  z = z
  v = v
  q = q
  r = r
  g = g
  h = h
  k = k
  m = m
  n = n
  Steps = {a, b}
  Items = {x}
  Workers = {w1, w2}
  Env = Env
  Null = Null
  Body <- RacingBody
  EnvBody <- RacingEnv
  Mains = {1}
  Depends <- RacingDepends
  Sequentialize = {}
  GetCount <- NoCounts
  MaxWaitRounds = 3
SPECIFICATION Spec
INVARIANTS
  DeletedOnce
