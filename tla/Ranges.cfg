SPECIFICATION Spec
CONSTANTS
    SizeMax = 15
    Buffers = {b1, b2}
    Sizes = {0, 4, 8, 13}
    Resources <- MCResources
    PlainResources <- MCPlainResources
    Shapes <- MCShapes
    ElementSize = 4
    Axes = {x, y}
    Dims = {0, 1, 2}
    FlagSets <- MCFlagSets
INVARIANTS
    TypeOK
    InBounds
    TensorsFit
    BindingsAligned
    GridWithinMax
PROPERTIES
    OnlyDeclaredChanges
SYMMETRY Symmetric
