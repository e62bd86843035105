SPECIFICATION Spec
CONSTANTS
    v1 = v1
    v2 = v2
    Vals <- OneValue
    None = None
    MaxTreeDepth = 2
    RowsPerPage = 1
    AppendsPerFlush = 2
    ResidentCap = 1
    CreateIfMissing = TRUE
    Ops <- AllOps
    Faults <- AllFaults
    MaxOps = 3
    MaxStops = 2
CHECK_DEADLOCK FALSE
INVARIANTS StructureSurvives IndexPointsAtRecord OpensUnlessUnsaved AckedUnlessUnjournaled
PROPERTIES TruncationSafe
