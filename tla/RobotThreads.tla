---------------------------- MODULE RobotThreads ----------------------------
(***************************************************************************)
(* The threads of the robot together: those of the control module          *)
(* (ControlModule) and those of the keyboard module (Keyboard), whose      *)
(* timer task is the only client, as shipped.  The RPC is local: MainTask  *)
(* runs the handler inline, so it is inside its call exactly while the     *)
(* handler is.  RobotSystem is what they amount to.                        *)
(***************************************************************************)
EXTENDS ControlProps

CONSTANTS
    DirKeys, QueueLen, MaxEvents, Drags,   \* as in Keyboard and RobotSystem
    Walk,                                  \* the mode that walks
    Walker                                 \* the controller that does

VARIABLES
    mouse, queue, window_life, resources, event_thread, running, last_button_state,
    current_event, armed, task, posted, sent, dragged,   \* of Keyboard
    expected                                             \* as in RobotSystem

Keys == INSTANCE Keyboard WITH life <- window_life

System == INSTANCE RobotSystem WITH
    life <- window_life,
    Modes <- States, FirstMode <- FirstState, Standstill <- Zero,
    Edges <- {e \in States \X States : e[1] \in PreStates[e[2]]},
    ModeOf <- [e \in Named |-> StateToName[e]],
    MemberOf <- [s \in States |-> CHOOSE e \in Named : StateToName[e] = s],
    mode <- current_state_name,
    ready <- \A c \in Active : fresh[c],
    request <- [p \in Clients |-> ServiceRequest(p)],
    velocity <- joy_data[Walker]

Client == "keyboard"
ButtonModes == {"IDLE", "STAND", "ZERO", "WALK"}

(* The configuration has a mode for each button, of which one walks.  A    *)
(* velocity is named after its key.                                        *)
ASSUME Deployment ==
    /\ Clients = {Client} /\ Nobody = "nobody"
    /\ Requests[Client] = [op : {"SetState"}, arg : ButtonModes]
                          \cup [op : {"SetVelocity"}, arg : DirKeys]
    /\ DirKeys \subseteq Velocities
    /\ ButtonModes \subseteq Named
    /\ Walker \in Controllers
    /\ \A s \in States : Walker \in Range(ControllersOf[s]) <=> s = Walk

\* What Keyboard assumes of its constants.
ASSUME Buttons ==
    /\ QueueLen \in Nat \ {0} /\ MaxEvents \in Nat \ {0}
    /\ DirKeys \cap {"Stand", "Zero", "Walk", "Idle", "elsewhere", "up"} = {}

keyboard == <<mouse, queue, window_life, resources, event_thread, running, last_button_state,
              current_event, armed, task, posted, sent, dragged>>
threadvars == <<vars, keyboard, expected>>

ThreadsInit ==
    /\ Init
    /\ Keys!Init
    /\ expected = [mode |-> FirstState, velocity |-> Zero]

(* The framework constructs the modules before it starts any, and stops    *)
(* all of them before it destroys one.                                     *)
KeyboardStep ==
    /\ Keys!Window \/ System!User \/ Keys!EventThread \/ Keys!Start \/ Keys!Shutdown
    /\ window_life' = "joining" => life # "running"
    /\ UNCHANGED <<vars, expected>>

ControlStep ==
    /\ \/ Start /\ window_life = "open"
       \/ Shutdown \/ Tick \/ ImuDataCallback \/ JointStateCallback
       \/ Handle(Client) /\ ~Return(Client)
    /\ UNCHANGED <<keyboard, expected>>

\* Mutant: the task sends its event as a change of the mode, whatever it is.
SendState ==
    /\ Keys!TakeEvent
    /\ Call(Client)
    /\ call'[Client].op = "SetState"
    /\ task'.type = "STATE_CHANGE" => call'[Client].arg = Keys!RobotState[task'.state_id]
    /\ expected' = System!Effect(task'.button, expected)

(* MainTask takes the event and calls the control module; the task and the *)
(* handler end together.                                                   *)
Send ==
    /\ Keys!TakeEvent
    /\ Call(Client)
    /\ IF task'.type = "STATE_CHANGE"
       THEN call'[Client].op = "SetState" /\ call'[Client].arg = Keys!RobotState[task'.state_id]
       ELSE call'[Client].op = "SetVelocity" /\ call'[Client].arg = task'.button
    /\ expected' = System!Effect(task'.button, expected)

Receive ==
    /\ Keys!CallAnswered
    /\ Return(Client)
    /\ UNCHANGED expected

ThreadsNext == KeyboardStep \/ ControlStep \/ Send \/ Receive

ThreadsSpec == ThreadsInit /\ [][ThreadsNext]_threadvars

-----------------------------------------------------------------------------
(* The threads together are the robot its user sees: each press moves the  *)
(* mode or is refused, and counts as a velocity if the robot walks, at one *)
(* moment of MainTask's call (keyboard_module.cc:60-101,                   *)
(* control_module.cc:197-249).                                             *)
ImplementsSystem == System!SystemSpec

(* Between two calls of MainTask the mode of the state machine and the     *)
(* velocity that the walking controller holds are what the presses sent so *)
(* far amount to (keyboard_module.cc:60-101, control_module.cc:197-249).   *)
PressesReachRobot == System!RobotFollowsPresses

(* When the control module has answered the last press that was sent and a *)
(* tick has run in the mode since, each joint carries the command of the   *)
(* mode that the presses sent amount to, from the last listed controller   *)
(* that has the joint, restarted (keyboard_module.cc:60-73,                *)
(* control_module.cc:136-160).                                             *)
JointsFollowPresses ==
    (task = Keys!None /\ tick.pc = "idle" /\ clean) =>
        CommandedBy(ControllersOf[expected.mode], joint_cmd)
=============================================================================
