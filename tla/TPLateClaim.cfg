SPECIFICATION Spec
CONSTANTS
    w1 = w1
    w2 = w2
    w3 = w3
    Workers <- TwoWorkers
    Sizes <- GrowingCalls
    IntMax = 4
    AfterIntMax <- Saturating
INVARIANT EachItemAtMostOnce
