CONSTANTS
    SIZE <- MCSize
    HEADERSIZE <- MCHeader
    ALIGNMENT <- MCAlign
    Sizes <- MCSizes
    NULL = NULL
SPECIFICATION Spec
INVARIANT TypeOK HeapConsistent
PROPERTY AllocContract
