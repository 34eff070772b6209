SPECIFICATION Spec
CONSTANTS
    States <- MCStates
    Controllers <- MCControllers
    Enums <- MCEnums
    StateToName <- MCStateToName
    PreStates <- MCPreStates
    ControllersOf <- MCControllersOf
    FirstState = "idle"
    Clients <- MCKeyboard
    Requests <- SomeSwitches
    Velocities = {"v0"}
    Zero = "v0"
    Joints = {}
    JointsOf <- MCJointsOf
    ControllerMap <- MCControllerMap
    RLControllers <- MCRLControllers
    Topics = {"imu", "joint_state"}
    Nobody = Nobody
INVARIANTS
    ImuReachesDue
PROPERTIES
    RestartFromLatestPose
