SPECIFICATION MCSpec
CONSTANTS
    Users = {1, 2, 3, 4, 5, 6}
    Nil = 0
    Width = 2
    Times = {0, 1}
    AdminSlots = {1}
    Few = 4
    MaxFreed = 1
    Modes = {"promote_earliest", "holding_tank"}
INVARIANTS RestoresItself
PROPERTIES NobodyIsLost ReportsTellAll
CHECK_DEADLOCK FALSE
