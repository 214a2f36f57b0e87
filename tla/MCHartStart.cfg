SPECIFICATION FairSpec
CONSTANTS
    NumHarts = 5
    Firsts = {0, 1}
    Words = {"init_lock", "init_done"}
INVARIANTS TypeOK LockKept NoneLeftBehind
PROPERTIES AllReachMain
CHECK_DEADLOCK FALSE
