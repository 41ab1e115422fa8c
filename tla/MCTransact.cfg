CONSTANTS
    id = id
    key = key
    name = name
    tag = tag
    seen = seen
    mark = mark
    part = part
    v1 = v1
    v2 = v2
    w = w
    x = x
    y = y
    Nil = Nil
    MaxEntity = 4
    Attr = {id, key, name, tag, seen, mark, part}
    Scalar = {v1, v2}
    RefAttr = {part}
    CardMany = {tag, mark, part}
    UniqueIdentity = {id, key}
    UniqueValue = {}
    NoHistory = {seen, mark}
    Component = {part}
    ReadBack <- Exact
    TempId = {x, y}
    Families = {"basic", "upsert", "twoIdentities", "noHistory", "component", "literal"}
    TxOps <- FamilyOps
    MaxTx = 4
SPECIFICATION FamilySpec
INVARIANTS
    NoHistoryKeepsOneAssertion
    UniqueValues
    CardinalityOne
    ProjectionMatchesLog
PROPERTIES
    UpsertsUnified
    RetractEntityClears
    ImplementsStore
CHECK_DEADLOCK FALSE
