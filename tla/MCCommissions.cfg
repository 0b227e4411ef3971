SPECIFICATION SpecAll
CONSTANTS
    Cases <- PlanCases
    Trees <- RequestTrees
    Snapshots <- RequestSnapshots
    Volumes <- RequestVolumes
    Owners <- OwnerMaps
    MaxArrived = 8
    Limit = 200
    Word = 2000
    MaxScale = 3
    PayoutScale = 1
    MaxPlaces = 1
    Envelope = 20
    MaxExponent = 6
    Far = 4
    Long = 6
    Decs <- Operands
    Terms <- Summands
    Factors <- Ratios
    Texts <- Written
INVARIANTS
    EarningsNameTheirWalks
    PaidAsDefined
    GroupsPayOnce
    LegsAreAccounted
    CapIsSettled
    LoadedPlansCalculate
    DecimalsAreExact
