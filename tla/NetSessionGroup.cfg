CONSTANTS
    a = a
    b = b
    c = c
    all = all
    Node <- ThreeNodes
    Group <- OneGroup
    GroupMembers <- GroupAll3
    QueueOrder <- HostQueues3
    ReqSlots = 3
    SentSlots = 2
    Window = 3
    SeqMod = 16
    EntryMod = 4
    RelRoom = 1
    PrioCap = 3
    UnrelCap = 1
    DebugBuild = TRUE
    MaxMessages <- TwoToAll3
    MaxPlain <- NoPlain3
    MayLeave <- HostDropsC
    NetCap = 2
    Lossy = FALSE
    Duplicating = TRUE
SPECIFICATION Spec
INVARIANTS
    RequestsHeld
    RingInv
PROPERTIES
    ImplementsChannel
