SPECIFICATION Spec
CONSTANTS
    SizeMax = 15
    Sizes = {5, 14}
    Alignments = {1, 8}
    Arenas = {a1, a2}
    Execs = {x1, x2}
    None = None
    MaxNodes = 3
INVARIANTS
    TypeOK
    ArenaRefExact
    FitsArena
    RecordsDisjoint
    RecordsAligned
PROPERTIES
    PlanningExact
CHECK_DEADLOCK FALSE
