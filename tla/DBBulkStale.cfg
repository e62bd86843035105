SPECIFICATION Spec
CONSTANTS
    v1 = v1
    v2 = v2
    Vals <- TwoValues
    None = None
    MaxTreeDepth = 2
    RowsPerPage = 2
    AppendsPerFlush = 3
    ResidentCap = 2
    CreateIfMissing = FALSE
    Ops <- BulkOps
    Faults <- CloseOnly
    MaxOps = 4
    MaxStops = 2
INVARIANT AckedReadable
CHECK_DEADLOCK FALSE
