CONSTANTS
    a = a
    b = b
    car = car
    ped = ped
    place = place
    speed = speed
    Peer <- OnePeer
    Element <- OneElement
    Field <- OneField
    NumValues = 8
    TimeMod = 8
    DisposeDelta = 3
    FullInterval = 8
    LagValue = 0
    MaxFragments = 1
    MaxFrame = 12
    NetCap <- OneEach
    MayJoin <- Nobody
    MayLeave <- Nobody
    Reordered <- Nobody
SPECIFICATION Spec
CHECK_DEADLOCK FALSE
INVARIANTS
    NoCockup
