CONSTANTS
    Apps = {a1, a2}
    Procs = {p1, p2, p3}
    Ports = {q1, q2}
    None = None
    MaxCalls = 2
    MaxFaults = 2
SPECIFICATION Spec
SYMMETRY Symmetry
INVARIANTS
    CalmStartsShare
    AloneIsServed
    NoChildIsLeft
CHECK_DEADLOCK FALSE
