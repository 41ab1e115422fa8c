CONSTANTS
    id = id
    key = key
    name = name
    tag = tag
    seen = seen
    mark = mark
    part = part
    v1 = v1
    v2 = v2
    w = w
    x = x
    y = y
    Nil = Nil
    MaxEntity = 4
    Attr = {id, key}
    Scalar = {v1}
    RefAttr = {}
    CardMany = {}
    UniqueIdentity = {id, key}
    UniqueValue = {}
    NoHistory = {}
    Component = {}
    ReadBack <- Exact
    TempId = {x, y}
    Families = {"twoIdentities"}
    TxOps <- FamilyOps
    MaxTx = 2
SPECIFICATION FamilySpec
INVARIANTS UpsertsFindOwner
CHECK_DEADLOCK FALSE
