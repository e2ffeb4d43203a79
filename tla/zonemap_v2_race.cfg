CONSTANTS
    Topologies <- V2Static
    InitTopology <- V2Tree
    MaxMulti = 2
    NotifiedTypes <- NotifiedV2
    QueryTypes <- QueryV2
SPECIFICATION Spec
INVARIANT NoInvalidReadingReported
