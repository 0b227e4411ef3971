SPECIFICATION Spec
CONSTANTS
    Users = {u1, u2, u3, u4, u5}
    None = None
    SponsorOf <- TwoSponsors
    u1 = u1
    u2 = u2
    u3 = u3
    Width = 2
    Height = 1
    Configs <- FourConfigs
    Times = {0}
    MaxSeq = 7
INVARIANTS RestoresItself AddsAreSeated PayIgnoresBatches
PROPERTIES NobodyIsLost
SYMMETRY Symmetry
CHECK_DEADLOCK FALSE
