SPECIFICATION FairSpec
CONSTANTS
    short = short
    long = long
    Writers = {w1, w2}
    Lines = {short, long}
    LineLen <- MCLineLen
    Size = 4
    MsgSize = 4
    TextLen <- MCTextLen
    ReadMax = 2
    MaxCalls = 3
    MaxWrites = 2
    Newline = Newline
    Nul = Nul
INVARIANTS TypeOK NothingMissed LastLineShown CatPrintsLast
PROPERTIES EventuallyShown
CHECK_DEADLOCK FALSE
