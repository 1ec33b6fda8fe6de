SPECIFICATION Spec
CONSTANTS
    r1 = r1
    r2 = r2
    g1 = g1
    g2 = g2
    g10 = g10
    p1 = p1
    p2 = p2
    p3 = p3
    NoGateway = NoGateway
    NoFile = NoFile
    Route = {r1, r2}
    Gateway = {g1, g10}
    GatewaysOf <- OneGatewayEach
    Matches <- Distinct
    Proc = {p1, p2}
    Words = {7}
    CanReplace = FALSE
    CanOverlap = TRUE
INVARIANTS RouteHasFlag
