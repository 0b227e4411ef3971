SPECIFICATION Spec
CONSTANTS
    Users = {u1, u2, u3, u4}
    NoUser = NoUser
    NoPos = NoPos
    Configs <- FreezingConfig
    Times = {0}
    MaxAllowed = 2
    MaxStreamId = 3
PROPERTIES FrozenStreamsTakeNobody
SYMMETRY Symmetry
