SPECIFICATION Spec
CONSTANTS
    a = a
    x = x
    e = e
    Objects = {a, x, e}
    Events = {e}
    External = {x}
    Descs <- MCDescs
    FirstCapacity = 1
    MaxNodes = 3
INVARIANTS
    TypeOK
    BuildRefsExact
    NothingLeaks
    CapacityHolds
PROPERTIES
    ImplementsBuildContract
CHECK_DEADLOCK FALSE
