CONSTANTS
    a = a
    b = b
    c = c
    all = all
    Node <- TwoNodes
    Group <- OneGroup
    GroupMembers <- GroupAll
    QueueOrder <- HostQueues
    ReqSlots = 3
    SentSlots = 2
    Window = 3
    SeqMod = 8
    EntryMod = 2
    RelRoom = 1
    PrioCap = 3
    UnrelCap = 1
    DebugBuild = TRUE
    MaxMessages <- TwoToAll
    MaxPlain <- NoPlain
    MayLeave <- Nobody
    NetCap = 4
    Lossy = TRUE
    Duplicating = FALSE
SPECIFICATION FairSpec
PROPERTY GuaranteedIsDelivered
