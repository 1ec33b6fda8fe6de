SPECIFICATION FairSpec
CONSTANTS
    l1 = l1
    a1 = a1
    r1 = r1
    r2 = r2
    r3 = r3
    s1 = s1
    s2 = s2
    s3 = s3
    c1 = c1
    c2 = c2
    None = None
    Monitor = Monitor
    Link = {l1}
    Addr = {a1}
    Route = {r1, r2, r3}
    Ether = {l1}
    OnLink <- On
    Usable = {r1, r2, r3}
    Priority <- Priorities
    MaxPriority = 2
    Client = {c1}
    Subscriber = {s1, s2, s3}
    TypeOf <- Types
    Reaction <- Reactions
    Other <- Others
    MaxEvents = 1
    MaxCalls = 1
INVARIANTS TypeOK WalksAreSafe CallbackSeesItsEvent StandingHearOnce NobodyIsStuck
PROPERTIES QuerySpec EveryCallReturns
CHECK_DEADLOCK FALSE
