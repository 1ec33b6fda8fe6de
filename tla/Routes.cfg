SPECIFICATION Spec
CONSTANTS
    l1 = l1
    l2 = l2
    a4 = a4
    a6 = a6
    r0 = r0
    r1 = r1
    r2 = r2
    g1 = g1
    g2 = g2
    eth0 = eth0
    Absent = Absent
    NoLink = NoLink
    NoGateway = NoGateway
    NoCallback = NoCallback
    NoClone = NoClone
    Link = {l1}
    Addr = {a6}
    Route = {r0, r2}
    Name = {eth0}
    NameOf <- Names
    OnLink <- OnL1
    Gateway = {g1, g2}
    RcvBuf = 2
    CanDrop = FALSE
    Labelled = {}
    DefaultDst = {r0}
INVARIANTS CacheConverges RouteFeedMatchesKernel DfltFeedMatchesKernel
PROPERTIES DfltDeletesMatchAdds
