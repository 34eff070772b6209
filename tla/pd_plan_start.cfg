SPECIFICATION Spec
CONSTANTS
    N = 2
    RampLen = 1
    PlanLen = 2
    Poses = {p0, p1}
    ZeroPose = p0
    Plans = {q0, q1}
    Garbage = Garbage
INVARIANTS
    PlanStartsFromMeasuredPose
