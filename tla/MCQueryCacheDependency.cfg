CONSTANTS
    s1 = s1
    s2 = s2
    Slot = {s1, s2}
    Entity = {1, 2}
    Val = {30}
    None = None
    Queries = {"ids"}
    Capacity = 1
    TTL = 1
    SnapTTL = 1
    Changes <- AllChanges
    MaxTx = 3
    MaxSnap = 0
SYMMETRY Slots
SPECIFICATION Spec
INVARIANT NeverMissesDependency
