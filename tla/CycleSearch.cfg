\* Every graph on four transactions without self-waits.
SPECIFICATION Spec
CONSTANT Nodes = {1, 2, 3, 4}
INVARIANTS
    FindsCycles
CHECK_DEADLOCK FALSE
