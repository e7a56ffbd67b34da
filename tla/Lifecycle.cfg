SPECIFICATION Spec
CONSTANTS
    a = a
    b = b
    ev = ev
    None = None
    Buffers = {a, b}
    Events = {ev}
    Execs = {e1}
    Launches = {l1, l2}
    Streams = {s1}
    Vals = {0, 1}
    Programs <- LifecyclePrograms
    IcbSupported = TRUE
    HostFaults = TRUE
    GpuFaults = TRUE
    Caller = {"patch", "overlap"}
INVARIANTS
    ReusableAfterCompletion
PROPERTIES
    DiagnosticsBalanced
    ImplementsContract
SYMMETRY LaunchSymmetry
