SPECIFICATION FairInfoSpec
CONSTANTS
    Height = 3
    ChunkSize = 7
    ChunkCount = 3
    Wanted = {c1, c2}
    Other = Other
    Older = 3
    Starts = {2, 3, 6, 7}
INVARIANTS TypeOK NeverSkipped SearchComplete OpeningVerifies LeftPartnersSettled UnreadableAtChunkEnd
PROPERTIES InfoEnds
