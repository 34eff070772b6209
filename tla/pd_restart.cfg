SPECIFICATION FairSpec
CONSTANTS
    N = 2
    RampLen = 3
    PlanLen = 3
    Poses = {p0, p1}
    ZeroPose = p0
    Plans = {q0, q1}
    Garbage = Garbage
INVARIANTS
    TypeOK
    SettledCommand
    SettledPlan
PROPERTIES
    RampOnlyRestartsAtZero
    RampCompletes
