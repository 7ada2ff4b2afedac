SPECIFICATION Spec
CONSTANTS
    Height = 4
    ChunkSize = 15
    ChunkCount = 3
    Wanted = {c1, c2}
    Other = Other
    Older = 8
    Starts = {9, 10}
INVARIANTS SearchComplete
SYMMETRY WantedSymmetry
