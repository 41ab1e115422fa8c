CONSTANTS
    b1 = b1
    b2 = b2
    i1 = i1
    string = string
    NoIdent = NoIdent
    NoType = NoType
    Backend = {b1, b2}
    Ident = {i1}
    Type = {string}
    MaxEntid = 2
    MaxGen = 4
    Jobs <- SomeJobs
SYMMETRY Connections
SPECIFICATION Spec
INVARIANTS
    QueryLoadsOneGeneration
PROPERTIES
    ChangesRaiseGeneration
