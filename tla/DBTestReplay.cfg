SPECIFICATION Spec
CONSTANTS
    v1 = v1
    v2 = v2
    Vals <- TwoValues
    None = None
    MaxTreeDepth = 2
    RowsPerPage = 2
    AppendsPerFlush = 2
    ResidentCap = 2
    CreateIfMissing = FALSE
    Ops <- LeafOps
    Faults <- CloseOnly
    MaxOps = 3
    MaxStops = 2
INVARIANT OpenSucceeds
CHECK_DEADLOCK FALSE
