CONSTANTS
    Threads = {t1, t2}
    Maint = m
    Nodes <- MCNodes
    KeyBits = 2
    Bits = 1
    Keys = {2, 3}
    SliceBytes = {0, 1, 90, 128, 165, 255}
SYMMETRY ThreadSymmetry
SPECIFICATION Spec
PROPERTY FindLinearizable
