SPECIFICATION FairSpec
CONSTANTS
    px4 = px4
    cam = cam
    t1 = t1
    t2 = t2
    t3 = t3
    p1 = p1
    p2 = p2
    c1 = c1
    c2 = c2
    Vms = {px4, cam}
    Threads = {t1, t3}
    VmOf <- MCVmOf
    Bufs = {p1, c1}
    HomeOf <- MCHomeOf
    MaxCalls = 2
    ChecksHyp = FALSE
    StartRefuses = FALSE
    EndRefuses = FALSE
    Answers = {"SUCCESS"}
    NoOne = NoOne
INVARIANTS SuccessIsMine
PROPERTIES CallsReturn
CHECK_DEADLOCK FALSE
