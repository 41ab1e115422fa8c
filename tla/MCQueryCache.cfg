CONSTANTS
    s1 = s1
    s2 = s2
    Slot = {s1, s2}
    Entity = {1, 2}
    Val = {30, 31}
    None = None
    Queries = {"names"}
    Capacity = 1
    TTL = 0
    SnapTTL = 1
    Changes <- SomeChanges
    MaxTx = 3
    MaxSnap = 1
SYMMETRY Slots
SPECIFICATION Spec
INVARIANTS
    SnapshotAnswersAsOf
    TrackedUnlessTorn
    ConservativeEntriesCurrent
