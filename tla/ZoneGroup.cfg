CONSTANTS
    a = a
    b = b
    car = car
    ped = ped
    place = place
    speed = speed
    Peer <- TwoPeers
    Element <- OneElement
    Field <- OneField
    NumValues = 8
    TimeMod = 64
    DisposeDelta = 2
    FullInterval = 8
    LagValue = 0
    MaxFragments = 1
    MaxFrame = 4
    NetCap <- TwoEach
    MayJoin <- OnlyB
    MayLeave <- OnlyB
    Reordered <- OnlyB
SPECIFICATION Spec
CHECK_DEADLOCK FALSE
INVARIANTS
    NoCockup
    
    
