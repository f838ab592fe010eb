SPECIFICATION Spec
CONSTANT MaxFaults = 3
INVARIANTS BothWays ServerLast
CHECK_DEADLOCK FALSE
