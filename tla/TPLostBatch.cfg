SPECIFICATION FairSpec
CONSTANTS
    w1 = w1
    w2 = w2
    w3 = w3
    Workers <- TwoWorkers
    Sizes <- TwoCalls
    IntMax = 4
    AfterIntMax <- Saturating
PROPERTY EveryCallReturns
