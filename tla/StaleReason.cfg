SPECIFICATION Spec
CONSTANTS
    a = a
    b = b
    ev = ev
    None = None
    Buffers = {a, b}
    Events = {}
    Execs = {e1}
    Launches = {l1, l2}
    Streams = {s1}
    Vals = {0, 1}
    Programs <- DispatchPrograms
    IcbSupported = FALSE
    HostFaults = FALSE
    GpuFaults = FALSE
    Caller = {"patch"}
PROPERTIES
    FallbackReasonIsCurrent
