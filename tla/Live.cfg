SPECIFICATION LiveSpec
CONSTANTS
    t1 = t1
    t2 = t2
    t3 = t3
    p1 = p1
    p2 = p2
    p3 = p3
    p4 = p4
    \* mutexes
    Thread = {t1, t2, t3}
    Mutex = {1}
    NoThread = NoThread
    NoMutex = NoMutex
    CpuCount = 1
    Killer = {}
    Spurious = FALSE
    MaxBringUps = 0
    \* address spaces
    Cpu = {c1, c2}
    NoCpu = NoCpu
    Slot = {1}
    Page = {1}
    FrameCount = 3
    TableLevels = 1
    MaxSpaces = 1
    \* physical memory and the heap
    Task = {k1, k2}
    NoTask = NoTask
    MemoryMaps <- FirmwareMaps
    LowFrames = 2
    PageUnits = 8
    GrowPages = 2
    MaxHeapPages = 5
    Sizes = {3, 12}
    MaxHeld = 2
    \* handles
    HandleCapacity = 3
    GenerationMod = 4
    FileObject = {f1, f2}
    Console = console
    NoObject = NoObject
    MaxInstalls = 5
    \* anonymous mappings
    AnonPages = 6
    AnonFrames = 7
    MapSizes = {1, 2, 3}
    \* console
    ConsoleProc = {q1, q2}
    NoReader = NoReader
    CharKey = {"a"}
    EditKey = {"left"}
    LockKey = {"caps"}
    ActionBytes = 2
    LineQueue = 2
    RawQueue = 2
    \* terminal
    TermRows = 2
    TermCols = 1
    RingRows = 3
    Glyph = {"a"}
    MaxDepth = 1
    MaxTermOps = 5
    \* processes and sprout
    Proc = {sprout, p1, p2, p3, p4}
    NoProc = NoProc
    Sprout = sprout
    Role = {"logind", "sessiond", "netd"}
    ProcessCpus = 1
    HandleSlots = 3
    MaxSessionRecords = 1
    MaxPid = 6
    MaxSession = 2
    Table <- ServiceTable
    Essential = {"logind", "sessiond"}
    FailureLimit = 2
PROPERTIES
    CallsReturn
    ShootdownCompletes
