SPECIFICATION Spec
SYMMETRY Swap
VIEW Live
CONSTANTS
    w1 = w1  w2 = w2  u1 = u1  u2 = u2  u3 = u3
    Writers = {w1, w2}
    NoWriter = NoWriter
    Users <- Two
    NoUser = NoUser
    NoPos <- NoSlot
    TreeTypes = {"unilevel","binary"}
    Roots = {u1}
    Placements = {}
    SnapshotInterval = 3
    MaxEvents = 3
    MaxLosses = 1
    MaxStrays = 0
INVARIANTS
    CheckedAgainstStream
    AppendedEventsApply
    OneTreeType
PROPERTIES
    ProjectionAdvances
