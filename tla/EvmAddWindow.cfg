CONSTANTS
    Clients = {c1}
    Workers = {w1}
    Maint = m
    Eids = {e1, e2}
    NoEid = noeid
    Defs <- MCDefs
    Listeners <- MCListeners
    MaxDispatch = 1
SPECIFICATION Spec
INVARIANT DispatchSeesAdded
CHECK_DEADLOCK FALSE
