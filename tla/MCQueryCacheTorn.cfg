CONSTANTS
    s1 = s1
    s2 = s2
    Slot = {s1, s2}
    Entity = {1}
    Val = {30}
    None = None
    Queries = {"names", "pull"}
    Capacity = 1
    TTL = 0
    SnapTTL = 1
    Changes <- AllChanges
    MaxTx = 2
    MaxSnap = 0
SYMMETRY Slots
SPECIFICATION Spec
INVARIANT EntriesStayTracked
