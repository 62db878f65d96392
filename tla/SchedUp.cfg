SPECIFICATION Spec
CONSTANTS
    c0 = c0
    c1 = c1
    i0 = i0
    i1 = i1
    NoThread = NoThread
    NoCpu = NoCpu
    w1 = w1
    w2 = w2
    boot = boot
    bootstrap_thread = boot
    BSP = c0
    CPU = {c0}
    UserThread = {boot}
    Started = {c0}
    Worker = {w1, w2}
    idle_thread <- MCIdle
    TimeSlice <- MCSlices
    Slice = 1
    CreatePriorities = {2}
    SleepTicks = {1}
    MaxTick = 1
    BACKGROUND_STARVATION_THRESHOLD = 1
    NORMAL_STARVATION_THRESHOLD = 1
    BACKGROUND_HIGH_RESCUE_THRESHOLD = 1
SYMMETRY WorkerSymmetry
INVARIANTS
    TypeOK
    
    BootstrapNotStranded
    BoostIsOneShot
