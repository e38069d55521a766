CONSTANTS
    Clients = {c1}
    Workers = {w1, w2}
    NoThread = nothread
    Sessions <- MCSessions
    Events <- MCEvents
    MaxDepth = 2
    MaxAppend = 2
SYMMETRY WorkerSymmetry
SPECIFICATION Spec
INVARIANT QueueWellFormed
CHECK_DEADLOCK FALSE
