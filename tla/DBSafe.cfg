SPECIFICATION Spec
CONSTANTS
    p1 = p1  p2 = p2  c1 = c1  c2 = c2  w1 = w1  w2 = w2  r1 = r1
    None = None
    Paths = {p1, p2}
    Collection <- TwoCollections
    Writers = {w1, w2}
    Readers = {r1}
    MaxTime = 3
    MaxFaults = 1
INVARIANTS Described  CreateOnce
PROPERTY CreatedKept
SYMMETRY Symmetry
CHECK_DEADLOCK FALSE
