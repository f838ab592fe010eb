\* Two RPCs at the same time on one device.
SPECIFICATION Spec
SYMMETRY OneDeviceSymmetry
CONSTANTS
  d1 = d1
  d2 = d2
  c1 = c1
  c2 = c2
  c3 = c3
  h1 = h1
  h2 = h2
  NoCall = NoCall
  Devices = {d1}
  Calls = {c1, c2}
  Home <- HomeOneDevice
  Owners = {d1}
  Handlers = {h1, h2}
  Limit = 2
  MaxStatements = 3
  MaxFaults = 1
  Ops = {"create", "user", "revoke", "push", "pull"}
  Local = {FALSE}
INVARIANTS LocalChain
PROPERTIES ImplementsLog
