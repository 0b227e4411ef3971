SPECIFICATION Spec
CONSTANTS
    Users = {u1, u2, u3, u4, u5}
    Nil = Nil
    NoPos = NoPos
    MostBinary = 4
INVARIANTS TreesRestore QueriesAgree
PROPERTY ImplementsEngine
SYMMETRY Symmetry
