SPECIFICATION CSpec
CONSTANTS
    l1 = l1
    a6 = a6
    r0 = r0
    g1 = g1
    eth0 = eth0
    Absent = Absent
    NoLink = NoLink
    NoGateway = NoGateway
    NoCallback = NoCallback
    NoClone = NoClone
    Idle = Idle
    MaxMoves = 1
    Link = {l1}
    Addr = {a6}
    Route = {r0}
    Name = {eth0}
    NameOf <- Names
    OnLink <- OnL1
    Gateway = {}
    RcvBuf = 1
    CanDrop = TRUE
    Labelled = {}
    DefaultDst = {}
    FamilyOf <- Families
    Global = {a6}
INVARIANTS CommandsTypeOK CloneIsCurrent AddrFeedMatchesClone SurvivorsAreOnTheirWay ActivatedIsUp
PROPERTIES LinkFeedSpec OnlyWhatWasAsked
