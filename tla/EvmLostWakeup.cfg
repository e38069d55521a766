CONSTANTS
    Clients = {c1}
    Workers = {w1}
    NoThread = nothread
    Sessions <- MCSessions
    Events <- MCEvents
    MaxDepth = 2
    MaxAppend = 2
SPECIFICATION Spec
PROPERTY HeadEventuallyPopped
CHECK_DEADLOCK FALSE
