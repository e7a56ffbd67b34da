SPECIFICATION Spec
CONSTANTS
    a = a
    b = b
    ev = ev
    None = None
    Buffers = {a, b}
    Events = {}
    Execs = {e1}
    Launches = {l1}
    Streams = {s1}
    Vals = {0, 1}
    Programs <- MpsPrograms
    IcbSupported = TRUE
    HostFaults = TRUE
    GpuFaults = FALSE
    Caller = {"teardown"}
INVARIANTS
    RetainedUntilCompletion
