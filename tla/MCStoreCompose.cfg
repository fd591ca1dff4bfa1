CONSTANTS
    Fingerprints = {1, 2, 3}
    LineWidth = 4
    Der <- MCDer
    Names <- MCNames
    Digest <- MCDigest
    Short = 8
    IsCA = {1, 2}
    NotAfter <- MCNotAfter
    Floor = 2
    MaxBlocks = 3
    Damaged = {1, 2, 3}
    AdditionNames = {1, 2}
    PurposeLists <- MCPurposeLists
    Distrusts <- MCDistrusts
    Clocks <- MCClocks
SPECIFICATION Spec
INVARIANTS
    ComposeIsReference
    RootsAreOrdered
    
    FilesGetServerAuth
    WholeBlocksAreRead
    
    LookupFinds
    
