SPECIFICATION Spec
CONSTANTS
    a = a
    b = b
    ev = ev
    None = None
    Buffers = {a, b}
    Events = {}
    Execs = {e1}
    Launches = {l1, l2}
    Streams = {s1}
    Vals = {0}
    Programs <- FaultPrograms
    IcbSupported = TRUE
    HostFaults = TRUE
    GpuFaults = TRUE
    Caller = {"patch", "teardown", "overlap", "unsynced_destroy"}
INVARIANTS
    TypeOK
    InFlightAccounting
    RefCountExact
    RetainedWhileInFlight
    SyncReportsFaithfully
    ReusableAfterSync
PROPERTIES
    PatchOnlyWhenQuiescent
SYMMETRY LaunchSymmetry
