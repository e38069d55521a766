CONSTANTS
    Data = {a, b}
    NULL = NULL
    MaxNodes <- MCMaxNodes

SPECIFICATION SafeSpec

INVARIANT TypeOK ListWellFormed

PROPERTY ListContract
