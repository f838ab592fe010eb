\* Two devices of one owner sign, push, pull, import and remove at the same time.
SPECIFICATION Spec
SYMMETRY TwoDeviceSymmetry
CONSTANTS
  d1 = d1
  d2 = d2
  c1 = c1
  c2 = c2
  c3 = c3
  h1 = h1
  h2 = h2
  NoCall = NoCall
  Devices = {d1, d2}
  Calls = {c1, c2}
  Home <- HomeTwoDevices
  Owners = {d1, d2}
  Handlers = {h1, h2}
  Limit = 2
  MaxStatements = 3
  MaxFaults = 1
  Ops = {"create", "push", "import", "remove"}
  Local = {TRUE, FALSE}
INVARIANTS ServerChain ConfirmedStored NeverAhead
PROPERTIES AppendOnly
