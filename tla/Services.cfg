SPECIFICATION ServicesSpec
CONSTANTS
    u1 = u1
    u2 = u2
    \* xHCI transfer and event rings
    TrbCount = 6
    EventCount = 3
    EventBatch = 2
    MaxControls = 3
    MaxRingFaults = 2
    \* xHCI hotplug
    XPort = {1, 2}
    XSlots = 2
    DiskEntries = 2
    MaxPlugs = 2
    MaxXhciFaults = 1
    \* USB device setup
    USlots = 3
    HubPorts = 2
    MaxDepth = 2
    MaxSetupFaults = 2
    \* xHCI commands
    CommandTrbs = 3
    CommandSlots = 2
    MaxTimeouts = 2
    \* port reset
    Debounce = 2
    ResetTimeout = 4
    MaxConnects = 4
    MaxHubFaults = 1
    \* AHCI
    AhciLba = {1, 2}
    MaxAhciCalls = 3
    \* USB mass storage
    Attempts = 2
    MaxTags = 4
    MaxBotFaults = 2
    \* USB keyboards
    HidKey = {"a", "b"}
    MaxReports = 4
    MaxHidFaults = 1
    \* USB descriptors
    MaxDescriptors = 3
    MaxFields = 3
    \* e1000
    Nic = {n1}
    NoNic = none
    RxRing = 2
    TxRing = 2
    MaxFrames = 3
    MaxNicEvents = 2
    \* RTL8168
    RxCount = 2
    TxCount = 2
    Passes = 2
    MaxRtlFrames = 3
    MaxMoves = 2
    MaxStarts = 2
    MaxRtlFaults = 1
    \* TCP
    TcpProc = {"p"}
    SeqMod = 16
    Iss = 14
    PeerIss = 15
    Mss = 2
    RxCapacity = 2
    Retries = 1
    Windows = {2}
    SendSizes = {3}
    PeerBytes = 1
    InFlight = 2
    OutFlight = 1
    MaxWrite = 4
    MaxTcpConnects = 1
    MaxNetFaults = 1
    \* DHCP and networkd
    Iface = {1}
    Options <- OptionSets
    SecMod = 8
    EventSlots = 1
    MaxRequests = 1
    MaxLinkChanges = 2
    MaxLeaseFaults = 1
    \* ARP, UDP, DNS and ICMP
    NetProc = {u1, u2}
    UserPort = {1, 2}
    DnsPort = 2
    UdpSlots = 3
    ObjectSlots = 1
    QueueSize = 1
    DnsRetries = 2
    NetCapacity = 1
    MaxNetCalls = 2
    MaxNetChanges = 2
    \* accounts
    AccountName = {"dev", "ann", "bob"}
    Developer = "dev"
    FirstUid = 1
    LastUid = 4
    MaxRecords = 3
    MaxUpdates = 4
    MaxAccountFaults = 2
    \* device list
    BlockSlots = 2
    SnapshotMax = 5
    DisplayMax = 3
    PciCount = 1
    UsbCount = 1
    PageMax = 1
    ListMax = 3
    Restarts = 2
    MaxOps = 2
    \* volumed
    Labels <- VolumeLabels
    LabelMax = 3
    VolumeRecords = 4
    MaxInstances = 3
    MaxVolumeOps = 2
    MaxVolumeFaults = 1
    \* logd
    RecordUnits = 3
    StorageMax = 10
    EarlyLines = 2
    EarlyMax = 2
    QueryMax = 2
    MaxSubmits = 3
    MaxBoots = 2
    MaxLogFaults = 2
SYMMETRY Interchangeable
CHECK_DEADLOCK FALSE
INVARIANTS
    
    
    ServicesSound
PROPERTIES
    StepsSound
