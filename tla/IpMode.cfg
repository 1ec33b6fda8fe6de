SPECIFICATION Spec
CONSTANTS
    a4 = a4
    z4 = z4
    u6 = u6
    r4 = r4
    r6 = r6
    eth0 = eth0
    wlan0 = wlan0
    p1 = p1
    p2 = p2
    p3 = p3
    Idle = Idle
    Addr = {a4, z4, u6}
    Route = {r4, r6}
    Ifc = {eth0, wlan0}
    FamilyOf <- Families
    IfcOf <- Ifcs
    Ignored = {z4, u6}
    Managed = {eth0}
    MaxMoves = 5
    Proc = {p1, p2, p3}
SYMMETRY Procs
INVARIANTS TypeOK EstbFollowsAddresses GlobalFlagIsReal
PROPERTIES Ipv6ModeIsPublished
