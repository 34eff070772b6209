SPECIFICATION Spec
CONSTANTS
    States <- MCStates
    Controllers <- MCControllers
    Enums <- MCEnums
    StateToName <- MCStateToName
    PreStates <- MCPreStates
    ControllersOf <- MCControllersOf
    FirstState = "idle"
    Clients <- MCKeyboard
    Requests <- Steers
    Velocities = {"v0", "v1"}
    Zero = "v0"
    Joints = {}
    JointsOf <- MCJointsOf
    ControllerMap <- MCControllerMap
    RLControllers <- MCRLControllers
    Topics = {}
    Nobody = Nobody
INVARIANTS
    VelocityAnswerIsTarget
