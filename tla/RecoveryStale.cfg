SPECIFICATION Spec
CONSTANTS
    a1 = a1
    a2 = a2
    p1 = p1
    p2 = p2
    q1 = q1
    q2 = q2
    q3 = q3
    Off = Off
    Addr = {a1}
    Proc = {p1}
    Timer = {q1, q2}
    Sleep = 2
    MaxRestarts = 1
    CanOverlap = FALSE
PROPERTIES RestartAfterSleep
