SPECIFICATION FairSpec
VIEW Live
CONSTANTS
    w1 = w1  w2 = w2  u1 = u1  u2 = u2  u3 = u3
    Writers = {w1}
    NoWriter = NoWriter
    Users <- Three
    NoUser = NoUser
    NoPos <- NoSlot
    TreeTypes = {"unilevel"}
    Roots = {u1}
    Placements <- Orphan
    SnapshotInterval = 2
    MaxEvents = 3
    MaxLosses = 0
    MaxStrays = 1
INVARIANTS
    RejectionsAreSound
PROPERTIES
    KeepsTheLedger
    CommandsEnd
    TableCatchesUp
