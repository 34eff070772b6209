---------------------------- MODULE StateMachine ----------------------------
(***************************************************************************)
(* The robot's mode graph (control_module/state_machine).  Every method    *)
(* of the C++ class is one critical section of mutex_, so each is one      *)
(* action (or one expression, for the two getters).  The graph itself is   *)
(* configuration: the robot_states section of rl_x1_sim.yaml.              *)
(***************************************************************************)
EXTENDS Sequences, Functions

CONSTANTS
    States,         \* the keys of states_: the modes the configuration lists
    Controllers,    \* the names of the configured controllers
    Enums,          \* the members of RobotState::State
    StateToName,    \* state_to_name_, from enum members to mode names
    PreStates,      \* PreStates[s]: the modes s may be entered from
    ControllersOf,  \* ControllersOf[s]: the controllers of s, in order
    FirstState      \* the first key of states_ (std::map: alphabetical)

ASSUME ModeGraph ==
    /\ FirstState \in States
    /\ DOMAIN StateToName \subseteq Enums
    /\ "IDLE" \in Enums
    /\ PreStates \in [States -> SUBSET States]
    /\ ControllersOf \in [States -> Seq(Controllers)]

\* A mode answers to one enum member only.
ASSUME OneEnumPerMode == IsInjective(StateToName)

\* The mode the robot starts in is one a client can ask for.
ASSUME FirstStateNamed == FirstState \in Range(StateToName)

VARIABLES
    current_state_name,
    controllers           \* the list the control tick and the handlers copy

smvars == <<current_state_name, controllers>>

SMTypeOK ==
    /\ current_state_name \in States
    /\ controllers \in Seq(Controllers)

SMInit ==
    /\ current_state_name = FirstState
    /\ controllers = ControllersOf[FirstState]

\* Mutant: the predecessors are not looked up.
LegalFromAnywhere(e) == e \in DOMAIN StateToName /\ StateToName[e] \in States

(* ChangeState(e) succeeds exactly when e names a configured mode that     *)
(* lists the current mode among its predecessors.                          *)
Legal(e) ==
    /\ e \in DOMAIN StateToName
    /\ StateToName[e] \in States
    /\ current_state_name \in PreStates[StateToName[e]]

\* Mutant: the list of controllers is not replaced.
ChangeNameOnly(e) ==
    /\ Legal(e)
    /\ current_state_name' = StateToName[e]
    /\ UNCHANGED controllers

ChangeState(e) ==
    /\ Legal(e)
    /\ current_state_name' = StateToName[e]
    /\ controllers' = ControllersOf[StateToName[e]]

RefuseState(e) ==
    /\ ~Legal(e)
    /\ UNCHANGED smvars

(* GetCurrentStateEnum: the member that names the mode, IDLE if none does. *)
GetCurrentStateEnum ==
    LET named == {e \in DOMAIN StateToName : StateToName[e] = current_state_name}
    IN  IF named = {} THEN "IDLE" ELSE CHOOSE e \in named : TRUE

(* GetCurrentControllerNames: a copy of the list.                          *)
GetCurrentControllerNames == controllers

Active == Range(controllers)
=============================================================================
