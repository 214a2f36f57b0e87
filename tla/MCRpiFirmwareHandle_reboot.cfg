SPECIFICATION Spec
CONSTANTS
    Objs = {fw1, fw2}
    Clients = {c1}
    Values = {0, 1}
    None = None
INVARIANTS NotifierFindsFw
CHECK_DEADLOCK FALSE
