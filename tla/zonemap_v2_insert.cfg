CONSTANTS
    Topologies <- V2InsertTrees
    InitTopology <- V2Tree
    MaxMulti = 2
    NotifiedTypes <- NotifiedV2
    QueryTypes <- QueryV2
SPECIFICATION Spec
INVARIANT NoMislabelledReading
