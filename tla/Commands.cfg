SPECIFICATION MCSpec
CONSTANTS
  u1 = u1
  u2 = u2
  k1 = k1
  f1 = f1
  f2 = f2
  Users = {u1, u2}
  Daemons = {d1, d2, d3}
  Certs = {k1, k2, k3}
  None = None
  VersionOf <- MCVersionOf
  Worlds <- MCWorlds
  MaxFaults = 3
  Jobs <- MCJobs
  Window = 1
  FileCalls = {f1, f2}
  Inodes = {1, 2, 3}
  Missing = Missing
  Asked <- MCAsked
INVARIANTS   PrintsVerified OutWhole
PROPERTIES CommandsEnd GetsThrough StreamsEnd AnswersWhatItDid
CHECK_DEADLOCK FALSE
