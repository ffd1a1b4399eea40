CONSTANTS
    Threads = {t1}
    Ids = {"hip_gpu", "ggml_vulkan", "cpu_avx512"}
    GpuIds = {"hip_gpu"}
    NpuIds = {}
    CpuIds = {"cpu_avx512"}
    GpuOnlyIds = {"hip_gpu"}
    NpuOnlyIds = {}
    Insts = {b1, b2, b3}
    Mutexes = {m1, m2}
    Chosen = {}
    Latencies = {1, 2}
    WINDOW_SIZE = 2
    ResetMayThrow = TRUE
    QuietReload = TRUE
    Free = Free
    NoId = NoId
    NoSnap = NoSnap
SPECIFICATION FairSpec
INVARIANTS NoWaitCycle LogitsOnForwardBackend ResetMeansAll
PROPERTY CallReturns
CHECK_DEADLOCK FALSE
