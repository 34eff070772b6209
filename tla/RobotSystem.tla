----------------------------- MODULE RobotSystem -----------------------------
(***************************************************************************)
(* The robot as its user sees it: the keyboard module calls the control    *)
(* module, of which RobotService is the promise that ControlModule is      *)
(* checked to keep, and SetVelocity reaches the walking controller.  The   *)
(* keyboard module is the only client, as shipped.                         *)
(***************************************************************************)
EXTENDS Keyboard

CONSTANTS
    Modes, FirstMode, Edges, ModeOf, MemberOf,   \* as in RobotService
    Walk,                                        \* the mode that walks
    Standstill,                                  \* the velocity before the first
    Drags                                        \* bound: FALSE if the user only clicks buttons

\* The configuration has a mode for each button.
ASSUME Graph ==
    /\ FirstMode \in Modes
    /\ {"IDLE", "STAND", "ZERO", "WALK"} \subseteq DOMAIN ModeOf
    /\ \A t \in DOMAIN ModeOf : ModeOf[t] \in Modes

VARIABLES
    mode, ready, switcher, request,   \* as in RobotService
    velocity,                         \* the velocity the walking controller holds
    expected                          \* history variable: what the presses sent amount to

Client == "keyboard"
Robot == INSTANCE RobotService WITH
    Clients <- {Client}, Targets <- Range(RobotState), Nobody <- "nobody"

robot == <<mode, ready, switcher, request>>
systemvars == <<vars, robot, velocity, expected>>

(* What a press should make of the robot: a mode button moves it along an  *)
(* edge of the graph or is refused, a direction key counts in the walk.    *)
Effect(label, r) ==
    IF label \in DirKeys
    THEN IF r.mode = Walk THEN [r EXCEPT !.velocity = label] ELSE r
    ELSE LET to == ModeOf[Written[label]]
         IN  IF <<r.mode, to>> \in Edges THEN [r EXCEPT !.mode = to] ELSE r

SystemInit ==
    /\ Init
    /\ Robot!Init
    /\ velocity = Standstill
    /\ expected = [mode |-> FirstMode, velocity |-> Standstill]

(* Without Drags, the user presses buttons only and releases them there.   *)
User ==
    \/ Press /\ (Drags \/ mouse' # "elsewhere")
    \/ Release /\ (Drags \/ Last(queue').at = mouse)
    \/ CloseWindow

KeyboardStep ==
    /\ Window \/ User \/ EventThread \/ Start \/ Shutdown
    /\ UNCHANGED <<robot, velocity, expected>>

\* Mutant: as Send, with an event that stays pending.
SendPeeked ==
    /\ PeekEvent
    /\ expected' = Effect(task'.button, expected)
    /\ IF task'.type = "STATE_CHANGE"
       THEN /\ Robot!Ask(Client)
            /\ request'[Client].target = RobotState[task'.state_id]
       ELSE UNCHANGED robot
    /\ UNCHANGED velocity

Send ==
    /\ TakeEvent
    /\ expected' = Effect(task'.button, expected)
    /\ IF task'.type = "STATE_CHANGE"
       THEN /\ Robot!Ask(Client)
            /\ request'[Client].target = RobotState[task'.state_id]
       ELSE UNCHANGED robot
    /\ UNCHANGED velocity

Handle ==
    /\ Robot!Switch(Client) \/ Robot!Refuse(Client) \/ Robot!BecomeReady
    /\ UNCHANGED <<vars, velocity, expected>>

\* Mutant: every controller is given the velocity, whichever mode it is for.
SteerAlways ==
    /\ task.type = "VELOCITY_CHANGE"
    /\ velocity' = task.button
    /\ UNCHANGED <<vars, robot, expected>>

(* SetVelocity gives the velocity to the controllers of the mode ...       *)
Steer ==
    /\ task.type = "VELOCITY_CHANGE"
    /\ mode = Walk
    /\ velocity' = task.button
    /\ UNCHANGED <<vars, robot, expected>>

(* ... before it returns.                                                  *)
Receive ==
    /\ CallAnswered
    /\ IF task.type = "STATE_CHANGE"
       THEN Robot!Return(Client)
       ELSE UNCHANGED robot /\ (mode = Walk => velocity = task.button)
    /\ UNCHANGED <<velocity, expected>>

SystemNext == KeyboardStep \/ Send \/ Handle \/ Steer \/ Receive

SystemSpec == SystemInit /\ [][SystemNext]_systemvars
FairSystemSpec ==
    /\ SystemSpec
    /\ WF_systemvars(Start /\ UNCHANGED <<robot, velocity, expected>>)
    /\ WF_systemvars(EventThread /\ UNCHANGED <<robot, velocity, expected>>)
    /\ WF_systemvars(Send) /\ WF_systemvars(Handle \/ Steer) /\ WF_systemvars(Receive)

-----------------------------------------------------------------------------
SystemTypeOK ==
    /\ TypeOK
    /\ mode \in Modes
    /\ ready \in BOOLEAN
    /\ switcher \in {Client, "nobody"}
    /\ velocity \in DirKeys \cup {Standstill}

(* Between two calls the robot's mode and its velocity are exactly what    *)
(* the presses sent so far amount to (keyboard_module.cc:60-101,           *)
(* control_module.cc:201-249).                                             *)
RobotFollowsPresses == task = None => expected = [mode |-> mode, velocity |-> velocity]

(* The Idle button stops the robot in whatever mode it is, unless a newer  *)
(* press takes its place or the modules are shut down first                *)
(* (keyboard.cc:83, rl_x1_sim.yaml:10-12).                                 *)
IdleStops ==
    \A n \in 1 .. MaxEvents :
        current_event = StateChange("Idle", n) ~>
            \/ mode = ModeOf["IDLE"] \/ posted > n
            \/ armed = "cancelled" \/ life \in {"joining", "destroyed"}

(* Once the window is closed and the last press has been acted upon, the   *)
(* robot keeps its mode and its velocity for ever (keyboard.cc:181-184).   *)
Frozen == /\ event_thread = "ended" /\ task = None
          /\ posted = 0 \/ (sent # <<>> /\ Last(sent) = posted)
ClosedWindowFreezes == [][Frozen => UNCHANGED <<mode, velocity, sent>>]_systemvars
=============================================================================
