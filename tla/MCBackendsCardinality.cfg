CONSTANTS
    name = name
    email = email
    tag = tag
    phone = phone
    v1 = v1
    v2 = v2
    b1 = b1
    b2 = b2
    Nil = Nil
    MaxEntity = 1
    Attr = {name}
    Scalar = {v1, v2}
    RefAttr = {}
    CardMany = {}
    UniqueIdentity = {}
    UniqueValue = {}
    NoHistory = {}
    Component = {}
    ReadBack <- Exact
    Backend = {b1, b2}
    Families = {"plain"}
    TxOps <- FamilyOps
    LockKey <- DistinctLocks
    CacheSize = 2
    MaxTx = 3
SPECIFICATION FamilySpec
SYMMETRY Swap
INVARIANTS CardinalityOne
CHECK_DEADLOCK FALSE
