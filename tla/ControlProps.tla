---------------------------- MODULE ControlProps ----------------------------
(***************************************************************************)
(* What the control module must never do, must do, and promises.           *)
(***************************************************************************)
EXTENDS ControlModule

Index == Nat \ {0}
TickType == [pc : {"idle", "update", "merge", "publish"},
             names : Seq(Controllers), k : Index, fresh : BOOLEAN]
CallType == [pc : {"ready", "begin", "names", "apply", "answer"},
             op : {"none", "SetState", "SetVelocity", "GetState", "GetVelocity"},
             arg : Enums \cup Velocities \cup {"none"},
             names : Seq(Controllers), k : Index,
             answer : {"none", "0", "1"} \cup Enums \cup Velocities]
DeliveryType == [pc : {"idle", "deliver"}, names : Seq(Controllers), k : Index]

TypeOK ==
    /\ SMTypeOK
    /\ life \in {"initialized", "running", "stopped"}
    /\ tick \in TickType
    /\ tick.pc \in {"merge", "publish"} => tick.k <= Len(tick.names)
    /\ cmd_msg \in [Joints -> Command] /\ joint_cmd \in [Joints -> Command]
    /\ call \in [Clients -> CallType]
    /\ current_velocity \in Velocities /\ joy_data \in [Controllers -> Velocities]
    /\ imu \in DeliveryType /\ imu_data \in [Controllers -> Age]
    /\ joint \in [pc : {"idle", "deliver"}, k : Index]
    /\ joint_state_data \in [Controllers -> Age]
    /\ fresh \in [Controllers -> BOOLEAN]
    /\ switcher \in Clients \cup {Nobody}
    /\ clean \in BOOLEAN
    /\ steady \subseteq Controllers /\ stayed \subseteq Controllers /\ due \subseteq Controllers

-----------------------------------------------------------------------------
(* A mode is never left running with a controller that kept the ramp or    *)
(* the history of an earlier mode: while an active controller has not been *)
(* restarted, some SetState handler is still on its way to restart it --   *)
(* whichever of several clients switched last, and although each handler   *)
(* copies the names only after its own switch (control_module.cc:203-208). *)
WillRestart(p, c) ==
    /\ call[p].op = "SetState"
    /\ \/ call[p].pc = "names"
       \/ call[p].pc = "apply" /\ c \in Remaining(call[p])

RestartedUnlessSwitching ==
    \A c \in Active : fresh[c] \/ \E p \in Clients : WillRestart(p, c)

(* After a tick that began in a settled mode and met no switch, the last   *)
(* published message carries, for each joint of the mode, the command of   *)
(* the last listed controller that has the joint, computed after that      *)
(* controller's restart: in stand pd_stand overrides pd_zero, although the *)
(* tick also publishes the half-merged message (control_module.cc:141-160).*)
LastWith(names, j) ==
    LET with == {i \in DOMAIN names : j \in JointsOf[names[i]]}
    IN  names[CHOOSE i \in with : \A k \in with : k <= i]

CommandedBy(names, msg) ==
    \A j \in Joints : (\E i \in DOMAIN names : j \in JointsOf[names[i]]) =>
        msg[j] = [by |-> LastWith(names, j), fresh |-> TRUE]

CleanTickCommands ==
    (tick.pc = "idle" /\ clean) => CommandedBy(controllers, joint_cmd)

(* A velocity reaches every controller that was active when it was written *)
(* to current_velocity_ and has been active since, switches by other       *)
(* clients in the middle of the handler included (control_module.cc:239-245)*)
VelocityReachesSteady ==
    \/ \E p \in Clients : call[p].op = "SetVelocity" /\ call[p].pc \in {"names", "apply"}
    \/ \A c \in steady : joy_data[c] = current_velocity

(* An IMU message delivered to the end has reached every controller that   *)
(* was active when its delivery began and still is: an active controller   *)
(* lags behind by the messages of its own activation only                  *)
(* (control_module.cc:168-173).                                            *)
ImuReachesDue == \A c \in due : imu_data[c] # "old"

(* Joint states reach all controllers, the inactive ones included, so a    *)
(* controller restarted by a switch takes its start pose from the latest   *)
(* delivered message (control_module.cc:193-195, pd_controller.cc:61-63).  *)
RestartFromLatestPose ==
    [][\A p \in Clients : RestartController(p) =>
          joint_state_data[call[p].names[call[p].k]] # "old"]_vars

-----------------------------------------------------------------------------
(* A mode that lasts gets hold of its joints: the commands published for   *)
(* them come from its own, restarted controllers, unless the mode is left  *)
(* or the module stopped.                                                  *)
ModeTakesOver ==
    \A s \in States : current_state_name = s ~>
        (current_state_name # s \/ life = "stopped" \/ CommandedBy(ControllersOf[s], joint_cmd))

(* Shutdown is final: the tick that is running ends and no other begins,   *)
(* so the command of the robot no longer changes (control_module.cc:119).  *)
QuietAfterShutdown == life = "stopped" ~> [](tick.pc = "idle")

-----------------------------------------------------------------------------
(* The module implements the mode service its clients see.                 *)
Named == {e \in DOMAIN StateToName : StateToName[e] \in States}

ServiceRequest(p) ==
    LET r == call[p] IN
    IF r.op \notin {"SetState", "GetState"}
    THEN [ask |-> "nothing", target |-> "none", answer |-> "none"]
    ELSE [ask |-> IF r.op = "SetState" THEN "switch" ELSE "query",
          target |-> r.arg,
          answer |-> CASE r.op = "GetState" -> r.answer
                       [] r.answer = "1" -> "failure"
                       [] r.answer = "0" \/ r.pc \in {"names", "apply"} -> "success"
                       [] OTHER -> "none"]

Service == INSTANCE RobotService WITH
    Modes <- States, Targets <- Enums, FirstMode <- FirstState,
    Edges <- {e \in States \X States : e[1] \in PreStates[e[2]]},
    ModeOf <- [e \in Named |-> StateToName[e]],
    MemberOf <- [s \in States |-> CHOOSE e \in Named : StateToName[e] = s],
    mode <- current_state_name,
    ready <- \A c \in Active : fresh[c],
    request <- [p \in Clients |-> ServiceRequest(p)]

(* Each accepted SetState is one legal step of the mode at one moment, a   *)
(* refused one is none, GetState answers a mode that was current during    *)
(* the call, and the latest switch is answered only when its controllers   *)
(* have been restarted.                                                    *)
ImplementsService == Service!Spec

-----------------------------------------------------------------------------
(* "Get the current velocity state" (control_module.cc:257): the answer is *)
(* the velocity the walking controller follows.                            *)
VelocityAnswerIsTarget ==
    \A p \in Clients : At(p, "answer", "GetVelocity") =>
        \A c \in Active \cap RLControllers : joy_data[c] = call[p].answer
=============================================================================
