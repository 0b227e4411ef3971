SPECIFICATION Spec
CONSTANTS
    Users = {u1, u2, u3, u4}
    NoUser = NoUser
    NoPos = NoPos
    Configs <- BothConfigs
    Times = {0, 1}
    MaxAllowed = 2
    MaxStreamId = 3
INVARIANTS StreamsAreSound RemovalsComplete
PROPERTIES AllowanceIsMet
SYMMETRY Symmetry
CHECK_DEADLOCK FALSE
