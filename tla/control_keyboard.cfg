SPECIFICATION FairSpec
CONSTANTS
    States <- MCStates
    Controllers <- MCControllers
    Enums <- MCEnums
    StateToName <- MCStateToName
    PreStates <- MCPreStates
    ControllersOf <- MCControllersOf
    FirstState = "idle"
    Clients <- MCKeyboard
    Requests <- Switches
    Velocities = {"v0"}
    Zero = "v0"
    Joints = {"leg", "arm", "body"}
    JointsOf <- MCJointsOf
    ControllerMap <- MCControllerMap
    RLControllers <- MCRLControllers
    Topics = {}
    Nobody = Nobody
INVARIANTS
    TypeOK
    CleanTickCommands
PROPERTIES
    ModeTakesOver
    QuietAfterShutdown
