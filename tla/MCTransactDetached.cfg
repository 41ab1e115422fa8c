CONSTANTS
    id = id
    key = key
    name = name
    tag = tag
    seen = seen
    mark = mark
    part = part
    v1 = v1
    v2 = v2
    w = w
    x = x
    y = y
    Nil = Nil
    MaxEntity = 3
    Attr = {name, part}
    Scalar = {v1, v2}
    RefAttr = {part}
    CardMany = {part}
    UniqueIdentity = {}
    UniqueValue = {}
    NoHistory = {}
    Component = {part}
    ReadBack <- Exact
    TempId = {}
    Families = {"component"}
    TxOps <- FamilyOps
    MaxTx = 4
SPECIFICATION FamilySpec
PROPERTIES RetractsCurrentComponents
CHECK_DEADLOCK FALSE
