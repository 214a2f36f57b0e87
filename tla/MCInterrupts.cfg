SPECIFICATION FairSpec
CONSTANTS
    Cpus = {0, 1}
    Dist = 64
    Shared = {32, 33, 34}
    Ctls = {"gicv2", "gicv3", "plic"}
    Plans <- MCPlans
    MaxRaises = 2
CHECK_DEADLOCK FALSE
INVARIANTS
    SettingsStick
    OneHandler
    SignalsSeen
PROPERTY Handled
