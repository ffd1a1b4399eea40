CONSTANTS
    Threads = {t1, t2}
    Ids = {"ggml_vulkan", "cpu_avx512"}
    GpuIds = {}
    NpuIds = {}
    CpuIds = {"cpu_avx512"}
    GpuOnlyIds = {}
    NpuOnlyIds = {}
    Insts = {b1, b2, b3}
    Mutexes = {m1, m2, m3}
    Chosen = {"GPU_ONLY"}
    Latencies = {1}
    WINDOW_SIZE = 1
    ResetMayThrow = TRUE
    QuietReload = FALSE
    Free = Free
    NoId = NoId
    NoSnap = NoSnap
SPECIFICATION Spec
SYMMETRY Symm
INVARIANTS TypeOK InstanceExclusive
CHECK_DEADLOCK FALSE
