SPECIFICATION Spec
CONSTANTS
    p1 = p1  p2 = p2  c1 = c1  c2 = c2  c3 = c3  c4 = c4
    None = None
    Calls = {c1, c2, c3, c4}
    Passwords = {p1, p2}
    MaxFaults = 1
    MaxDeaths = 1
INVARIANTS SessionWhole SetupRebuilds KeepsChecking
SYMMETRY Symmetry
CHECK_DEADLOCK FALSE
