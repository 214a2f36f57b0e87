SPECIFICATION FairSpec
CONSTANTS
    NumCpus = 4
    NumBufs = 2
    Boots <- MCBoots
INVARIANTS TypeOK OneMaster CleanStart OwnBuffer DistributorReady
PROPERTIES AllUp
CHECK_DEADLOCK FALSE
