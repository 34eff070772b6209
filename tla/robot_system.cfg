SPECIFICATION FairSystemSpec
CONSTANTS
    DirKeys = {"W"}
    QueueLen = 1
    MaxEvents = 4
    Modes <- MCModes
    FirstMode = "idle"
    Edges <- MCEdges
    ModeOf <- MCModeOf
    MemberOf <- MCMemberOf
    Walk = "walk_leg"
    Standstill = "none"
    Drags = FALSE
INVARIANTS
    RobotFollowsPresses
PROPERTIES
    IdleStops
    ClosedWindowFreezes
CHECK_DEADLOCK FALSE
