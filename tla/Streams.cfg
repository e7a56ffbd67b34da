SPECIFICATION FairSpec
CONSTANTS
    a = a
    b = b
    ev = ev
    None = None
    Buffers = {a, b}
    Events = {ev}
    Execs = {e1, e2}
    Launches = {l1, l2}
    Streams = {s1, s2}
    Vals = {0, 1}
    Programs <- StreamPrograms
    IcbSupported = FALSE
    HostFaults = FALSE
    GpuFaults = FALSE
    Caller = {}
PROPERTIES
    CallsReturn
