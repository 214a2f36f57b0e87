SPECIFICATION Spec
CONSTANTS
    px4 = px4
    cam = cam
    t1 = t1
    t2 = t2
    t3 = t3
    p1 = p1
    p2 = p2
    c1 = c1
    c2 = c2
    Vms = {px4, cam}
    Threads = {t1, t2, t3}
    VmOf <- MCVmOf
    Bufs = {p1, p2, c1}
    HomeOf <- MCHomeOf
    MaxCalls = 1
    ChecksHyp = TRUE
    StartRefuses = TRUE
    EndRefuses = TRUE
    Answers = {"SUCCESS", "ERROR"}
    NoOne = NoOne
INVARIANTS TypeOK MailboxExclusive SuccessIsMine
PROPERTIES SuccessEndsUse ImplementsChannel
CHECK_DEADLOCK FALSE
