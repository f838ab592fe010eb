SPECIFICATION Spec
CONSTANTS
  k1 = k1
  k2 = k2
  c1 = c1
  c2 = c2
  None = None
  Keys = {k1, k2}
  Calls = {c1, c2}
  Workers = {w1}
  VerifyExpire = 1
  CheckExpire = 1
  FailExpire = 0
  CronExpire = 0
  Worlds <- MCWorlds
PROPERTIES  StatusFollows
