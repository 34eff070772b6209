SPECIFICATION ThreadsSpec
CONSTANTS
    States <- MCStates
    Controllers <- MCControllers
    Enums <- MCEnums
    StateToName <- MCStateToName
    PreStates <- MCShortcut
    ControllersOf <- MCControllersOf
    FirstState = "idle"
    Clients <- MCKeyboard
    Requests <- Keyboards
    Velocities <- MCVelocities
    Zero = "none"
    Joints = {"leg"}
    JointsOf <- MCJointsOf
    ControllerMap <- MCControllerMap
    RLControllers <- MCRLControllers
    Topics = {}
    Nobody = "nobody"
    DirKeys = {"W"}
    QueueLen = 1
    MaxEvents = 2
    Drags = FALSE
    Walk = "walk_leg"
    Walker = "rl_walk_leg"
INVARIANTS
    PressesReachRobot
    JointsFollowPresses
PROPERTIES
    ImplementsSystem
CHECK_DEADLOCK FALSE
