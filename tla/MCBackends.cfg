CONSTANTS
    name = name
    email = email
    tag = tag
    phone = phone
    v1 = v1
    v2 = v2
    b1 = b1
    b2 = b2
    Nil = Nil
    MaxEntity = 2
    Attr = {name, email, tag, phone}
    Scalar = {v1, v2}
    RefAttr = {}
    CardMany = {tag, phone}
    UniqueIdentity = {}
    UniqueValue = {email, phone}
    NoHistory = {}
    Component = {}
    ReadBack <- Exact
    Backend = {b1, b2}
    Families = {"unique", "plain", "crossing"}
    TxOps <- FamilyOps
    LockKey <- DistinctLocks
    CacheSize = 2
    MaxTx = 3
SPECIFICATION FamilySpec
INVARIANTS
    UniqueValues
    TxIdsUnique
    ProjectionIsAsserted
PROPERTIES
    TransactionsEnd
CHECK_DEADLOCK FALSE
