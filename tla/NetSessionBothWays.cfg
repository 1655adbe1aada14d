CONSTANTS
    a = a
    b = b
    c = c
    all = all
    Node <- TwoNodes
    Group <- OneGroup
    GroupMembers <- GroupAll
    QueueOrder <- HostQueues
    ReqSlots = 4
    SentSlots = 3
    Window = 3
    SeqMod = 6
    EntryMod = 6
    RelRoom = 1
    PrioCap = 0
    UnrelCap = 0
    DebugBuild = TRUE
    MaxMessages <- BothWays
    MaxPlain <- PlainByA
    MayLeave <- Nobody
    NetCap = 1
    Lossy = TRUE
    Duplicating = FALSE
SPECIFICATION Spec
INVARIANTS
    TypeOK
    NoSendOverflow
    RequestsHeld
    AckedWasReceived
    
    QueueInOrder
PROPERTIES
    ImplementsChannel
