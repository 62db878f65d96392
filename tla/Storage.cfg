SPECIFICATION StorageSpec
CONSTANTS
    x1 = x1
    x2 = x2
    \* block layer
    Client = {x1, x2}
    Killable = {x1, x2}
    Worker = worker
    NoThread = none
    BlockSlots = 2
    GateWaiters = 2
    CacheEntries = 2
    First = 1
    Sectors = 3
    MaxMedia = 2
    MaxVersion = 2
    \* VFS
    VfsThread = {x1, x2}
    Super = {s1, s2}
    NoSuper = none
    VolumeDevice = {"d1", "d2"}
    VolumePath = {"v", "w"}
    MountSlots = 2
    \* mgfs
    FileName = {"a", "b"}
    FileByte = {"x"}
    RecordSlots = 3
    DataBlocks = 4
    BlockUnits = 2
    InlineUnits = 1
    RecordExtents = 1
    IndexMinimum = 4
    MaxRecordId = 3
    MaxMgfsOps = 3
    MaxMgfsFaults = 1
    WriteSizes = {1, 3}
    \* FAT32
    FatName = {"a", "b"}
    FatHandle = {"h1"}
    Clusters = 8
    ClusterUnits = 2
    DirEntries = 3
    MaxFatOps = 4
    MaxFatFaults = 1
    \* exFAT
    XName = {"a", "A", "b"}
    XFold <- Fold
    XClusters = 8
    XUnits = 3
    XWrites <- Writes
    MaxXOps = 2
    MaxXFaults = 1
    \* GPT
    Admin = {x1, x2}
    Query = {q}
    EntryCount = 2
    Usable = 4
    Alignment = 2
    PartSlots = 1
    PlanSizes = {0, 2}
    MaxGptOps = 5
    MaxGptFaults = 1
    \* formatters
    DeviceSizes <- Sizes
    BlockSectors = 2
    MinBlocks = 6
    TableDivisor = 5
    TableRecords = 3
    BitmapBits = 4
    FatReserved = 8
    FatEntries = 4
    MinClusters = 5
    MaxClusters = 60
    MaxSpc = 4
    FatRounds = 6
    HeapAlign = 4
    BootRegion = 2
    BitmapSectorBits = 4
    UpcaseSectors = 3
    XShift = 2
    \* names and permissions
    Person = {"adm", "ann"}
    EntryName = {"x"}
    ParentPaths <- Parents
    FirstTree <- Tree
    FirstAdmins = {"adm"}
    MaxObjects = 5
    MaxNameCalls = 3
    MaxRoleChanges = 1
    \* paths
    InputMax = 5
    RawMax = 9
    CwdMax = 6
    OutMax = 8
    StackMax = 2
    \* open files and listings
    Width = 4
    BaseEntries <- Listing
    MountNames = {"b", "m", "n"}
    MountTable = 3
    MaxMountOps = 5
SYMMETRY Interchangeable
CHECK_DEADLOCK FALSE
INVARIANTS
    
    
    
    NamesSound
PROPERTIES
    ImplementsStore
    CwdSafe
