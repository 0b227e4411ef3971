SPECIFICATION SpecAll
CONSTANTS
    NoParent = 0
    Ladders <- AllLadders
    BadLadders <- Refusable
    TreesOf <- AllTrees
    OtherTrees = {"B"}
    Figures <- AllFigures
    Periods = 3
    MaxJobs = 2
    MaxCorrections = 1
    MaxFaults = 1
    Callers = {c1, c2}
    PeriodIds = {p1}
    Structures = {s1}
    MaxRuns = 3
    MaxCalls = 5
    MaxLost = 1
    NoRun = 0
    Limit = 1
    NoPlan = NoPlan
    Names = {"a", "b"}
    Plans <- AllPlans
INVARIANT RanksAreTrue
INVARIANT AnswersHold
INVARIANT AnswersTellAll
PROPERTY RunsOnlyMoveForward
