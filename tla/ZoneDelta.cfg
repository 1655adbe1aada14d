CONSTANTS
    a = a
    b = b
    car = car
    ped = ped
    place = place
    speed = speed
    Peer <- OnePeer
    Element <- TwoElements
    Field <- TwoFields
    NumValues = 8
    TimeMod = 64
    DisposeDelta = 2
    FullInterval = 2
    LagValue = 1
    MaxFragments = 2
    MaxFrame = 4
    NetCap <- TwoEach
    MayJoin <- Nobody
    MayLeave <- Nobody
    Reordered <- Nobody
SPECIFICATION Spec
CHECK_DEADLOCK FALSE
INVARIANTS
    TypeOK
    NoCockup
    BasisIsKept
    
    
PROPERTIES
    OnlyWholeAcked
