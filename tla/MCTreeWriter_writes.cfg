SPECIFICATION Spec
CONSTANTS
    w1 = w1  w2 = w2  u1 = u1  u2 = u2  u3 = u3
    Writers = {w1}
    NoWriter = NoWriter
    Users <- Three
    NoUser = NoUser
    NoPos <- NoSlot
    TreeTypes = {"unilevel","binary"}
    Roots = {u1}
    Placements <- Newcomers
    SnapshotInterval = 2
    MaxEvents = 4
    MaxLosses = 0
    MaxStrays = 0
INVARIANTS
    RowsFollowStream
    SnapshotIsFaithful
    OneRedeliveryBehind
    ReportsAreTrue
