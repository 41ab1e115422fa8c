CONSTANTS
    id = id
    key = key
    name = name
    tag = tag
    seen = seen
    mark = mark
    part = part
    v1 = v1
    v2 = v2
    w = w
    x = x
    y = y
    Nil = Nil
    MaxEntity = 1
    Attr = {name, tag}
    Scalar = {v1, v2, w}
    RefAttr = {}
    CardMany = {tag}
    UniqueIdentity = {}
    UniqueValue = {}
    NoHistory = {}
    Component = {}
    ReadBack <- Rounded
    TempId = {}
    Families = {"basic"}
    TxOps <- FamilyOps
    MaxTx = 3
SPECIFICATION FamilySpec
INVARIANTS CardinalityOne
CHECK_DEADLOCK FALSE
