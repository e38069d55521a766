CONSTANTS
    Clients = {c1, c2}
    Workers = {w1}
    Maint = m
    Eids = {e1, e2}
    NoEid = noeid
    Defs <- MCDefs
    Listeners <- MCListeners
    MaxDispatch = 1
SPECIFICATION Spec
INVARIANT TypeOK NoFreedListenerReached ListenersReleased
PROPERTY RemovedEventuallyDestroyed
CHECK_DEADLOCK FALSE
