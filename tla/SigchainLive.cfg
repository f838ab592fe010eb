\* Two devices sign and pull; faults stop after the first.
SPECIFICATION FairSpec
CONSTANTS
  d1 = d1
  d2 = d2
  c1 = c1
  c2 = c2
  c3 = c3
  h1 = h1
  h2 = h2
  NoCall = NoCall
  Devices = {d1, d2}
  Calls = {c1, c2}
  Home <- HomeTwoDevices
  Owners = {d1, d2}
  Handlers = {h1}
  Limit = 2
  MaxStatements = 2
  MaxFaults = 1
  Ops = {"create", "user", "revoke", "pull"}
  Local = {FALSE}
INVARIANTS OneUser
PROPERTIES CallsReturn  
