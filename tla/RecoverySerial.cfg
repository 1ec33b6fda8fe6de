SPECIFICATION Spec
CONSTANTS
    a1 = a1
    a2 = a2
    p1 = p1
    p2 = p2
    q1 = q1
    q2 = q2
    q3 = q3
    Off = Off
    Addr = {a1, a2}
    Proc = {p1}
    Timer = {q1, q2, q3}
    Sleep = 3
    MaxRestarts = 2
    CanOverlap = FALSE
INVARIANTS TypeOK RecoveredInTime
PROPERTIES NoNeedlessRestart
