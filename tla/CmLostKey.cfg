CONSTANTS
    SetNames = {"s"}
    DomNames = {"d1", "d2"}
    Keys = {"a", "A", "b"}
    Lower <- MCLower
    Values = {"v1", "v2"}
    MaxObjs = 5
    MaxLists = 4
    MaxNodes = 6
SPECIFICATION Spec
INVARIANT CfgElementsReachable
