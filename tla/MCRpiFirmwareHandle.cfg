SPECIFICATION Spec
CONSTANTS
    Objs = {fw1, fw2}
    Clients = {c1, c2, c3}
    Values = {0, 1}
    None = None
INVARIANTS HandleKeepsFw RefsAreHolders PollersAreTold
SYMMETRY Symmetry
CHECK_DEADLOCK FALSE
