--------------------------- MODULE ControlModule ---------------------------
(***************************************************************************)
(* The control module (control_module.cc) and the threads that meet in it: *)
(*   - the 1 kHz control tick on its single-thread executor,               *)
(*   - the RPC handlers, run inline on the thread of the calling client,   *)
(*   - the IMU and the joint-state callbacks, run inline on the publishing *)
(*     thread of the simulator, one message of a topic at a time,          *)
(*   - Start and Shutdown.                                                 *)
(* Only the mode graph and each controller's data are locked, one call at  *)
(* a time; nothing spans the calls of one handler, so every step below     *)
(* between two such calls can be interleaved with the other threads.  What *)
(* happens inside one call of a controller is in PDController.             *)
(***************************************************************************)
EXTENDS StateMachine, Naturals

CONSTANTS
    Clients,          \* threads that call RobotControlService
    Requests,         \* Requests[p]: what client p may ask
    Velocities,       \* the velocity commands in use
    Zero,             \* the velocity of a default-constructed message
    Joints,           \* joint_list
    JointsOf,         \* JointsOf[c]: the joint_list of controller c
    ControllerMap,    \* the keys of controller_map_, in its order
    RLControllers,    \* the rl_ controllers: their policy inference may throw
    Topics,           \* the topics that have a publisher
    Nobody

Request == [op : {"SetState"}, arg : Enums]
           \cup [op : {"SetVelocity"}, arg : Velocities]
           \cup [op : {"GetState", "GetVelocity"}, arg : {"none"}]

ASSUME Configuration ==
    /\ Zero \in Velocities
    /\ Requests \in [Clients -> SUBSET Request]
    /\ JointsOf \in [Controllers -> SUBSET Joints]
    /\ ControllerMap \in Seq(Controllers)
    /\ Range(ControllerMap) = Controllers
    /\ RLControllers \subseteq Controllers
    /\ Topics \subseteq {"imu", "joint_state"}
    /\ Nobody \notin Clients \cup Controllers
    /\ \A s \in States : ControllersOf[s] # <<>>

\* No member of RobotState::State is taken for a return code or a missing answer.
ASSUME AnswersDiffer == Enums \cap {"none", "0", "1"} = {}

\* current_velocity_ is a plain message: one client at most may use it.
ASSUME OneVelocityClient ==
    \A p, q \in Clients :
        (\E r \in Requests[p] : r.op \in {"SetVelocity", "GetVelocity"})
        /\ (\E r \in Requests[q] : r.op \in {"SetVelocity", "GetVelocity"}) => p = q

VARIABLES
    life,              \* whether timer_ is armed
    tick,              \* the control thread inside JointCmdPublishTask
    cmd_msg,           \* the static message: the command each joint last got
    joint_cmd,         \* the message last published on /joint_cmd
    call,              \* call[p]: the handler client p is inside
    current_velocity,
    joy_data,          \* joy_data[c]: the velocity target of controller c
    imu,               \* the IMU thread inside ImuDataCallback
    imu_data,          \* imu_data[c]: which message controller c holds
    joint,             \* the joint-state thread inside JointStateCallback
    joint_state_data   \* joint_state_data[c]: which message c holds

(* History variables: they record what happened and guard nothing.         *)
VARIABLES
    fresh,      \* fresh[c]: c was restarted since its mode was last entered
    switcher,   \* the client of the latest accepted SetState
    clean,      \* the tick saw a settled mode, and no switch since
    steady,     \* controllers active ever since current_velocity_ was written
    stayed,     \* controllers active ever since the IMU names were copied
    due         \* the controllers an IMU delivery, now complete, had to reach

ghosts == <<fresh, switcher, clean, steady, stayed, due>>
sensing == <<imu, imu_data, joint, joint_state_data>>
ticking == <<tick, cmd_msg, joint_cmd>>
velocity == <<current_velocity, joy_data>>
vars == <<smvars, life, ticking, call, velocity, sensing, ghosts>>

Nothing == [by |-> Nobody, fresh |-> FALSE]
Command == [by : Controllers, fresh : BOOLEAN] \cup {Nothing}
Ready == [pc |-> "ready", op |-> "none", arg |-> "none",
          names |-> <<>>, k |-> 1, answer |-> "none"]
NoTick == [pc |-> "idle", names |-> <<>>, k |-> 1, fresh |-> FALSE]
NoDelivery == [pc |-> "idle", names |-> <<>>, k |-> 1]
(* The message a controller holds: "new" is being delivered, "last" was    *)
(* the last to be delivered to the end, "old" is any earlier one or none,  *)
(* and "none" that nothing has been delivered to the end so far.           *)
Age == {"none", "old", "last", "new"}

Remaining(t) == {t.names[i] : i \in {j \in DOMAIN t.names : j >= t.k}}

Init ==
    /\ SMInit
    /\ life = "initialized"
    /\ tick = NoTick
    /\ cmd_msg = [j \in Joints |-> Nothing]
    /\ joint_cmd = [j \in Joints |-> Nothing]
    /\ call = [p \in Clients |-> Ready]
    /\ current_velocity = Zero
    /\ joy_data = [c \in Controllers |-> Zero]
    /\ imu = NoDelivery
    /\ imu_data = [c \in Controllers |-> "none"]
    /\ joint = [pc |-> "idle", k |-> 1]
    /\ joint_state_data = [c \in Controllers |-> "none"]
    /\ fresh = [c \in Controllers |-> TRUE]
    /\ switcher = Nobody
    /\ clean = FALSE
    /\ steady = Active
    /\ stayed = {}
    /\ due = {}

-----------------------------------------------------------------------------
(* Start and Shutdown: the timer is armed, then cancelled.  Cancelling     *)
(* does not wait for a tick that is running.                               *)
Start ==
    /\ life = "initialized"
    /\ life' = "running"
    /\ UNCHANGED <<smvars, ticking, call, velocity, sensing, ghosts>>

Shutdown ==
    /\ life = "running"
    /\ life' = "stopped"
    /\ UNCHANGED <<smvars, ticking, call, velocity, sensing, ghosts>>

-----------------------------------------------------------------------------
\* Mutant: a cancelled timer still begins ticks.
TickBeginUncancelled ==
    /\ life # "initialized"
    /\ tick.pc = "idle"
    /\ tick' = [pc |-> "update", names |-> GetCurrentControllerNames,
                k |-> 1, fresh |-> FALSE]
    /\ clean' = (\A c \in Active : fresh[c])
    /\ UNCHANGED <<smvars, life, cmd_msg, joint_cmd, call, velocity, sensing,
                   fresh, switcher, steady, stayed, due>>

(* JointCmdPublishTask.  The list of names is copied once; each controller *)
(* is updated, its command merged into the static message, and the message *)
(* published before the next controller's turn.                            *)
TickBegin ==
    /\ life = "running"
    /\ tick.pc = "idle"
    /\ tick' = [pc |-> "update", names |-> GetCurrentControllerNames,
                k |-> 1, fresh |-> FALSE]
    /\ clean' = (\A c \in Active : fresh[c])
    /\ UNCHANGED <<smvars, life, cmd_msg, joint_cmd, call, velocity, sensing,
                   fresh, switcher, steady, stayed, due>>

TickUpdate ==
    /\ tick.pc = "update"
    /\ tick.k <= Len(tick.names)
    /\ tick' = [tick EXCEPT !.pc = "merge", !.fresh = fresh[tick.names[tick.k]]]
    /\ UNCHANGED <<smvars, life, cmd_msg, joint_cmd, call, velocity, sensing, ghosts>>

(* An exception of the controller ends the tick; cmd_msg keeps what the    *)
(* controllers before it have written.                                     *)
TickThrow ==
    /\ tick.pc = "update"
    /\ tick.k <= Len(tick.names)
    /\ tick.names[tick.k] \in RLControllers
    /\ tick' = NoTick
    /\ clean' = FALSE
    /\ UNCHANGED <<smvars, life, cmd_msg, joint_cmd, call, velocity, sensing,
                   fresh, switcher, steady, stayed, due>>

\* Mutant: a joint that is in the message already is not overwritten.
MergeOnce(c) == [j \in Joints |-> IF j \in JointsOf[c] /\ cmd_msg[j] = Nothing
                                  THEN [by |-> c, fresh |-> tick.fresh]
                                  ELSE cmd_msg[j]]

Merge(c) == [j \in Joints |-> IF j \in JointsOf[c]
                              THEN [by |-> c, fresh |-> tick.fresh]
                              ELSE cmd_msg[j]]

\* Mutant: the loop counter moves before the message is published.
TickMergeAdvances ==
    /\ tick.pc = "merge"
    /\ cmd_msg' = Merge(tick.names[tick.k])
    /\ tick' = [tick EXCEPT !.pc = "publish", !.k = @ + 1]
    /\ UNCHANGED <<smvars, life, joint_cmd, call, velocity, sensing, ghosts>>

TickMerge ==
    /\ tick.pc = "merge"
    /\ cmd_msg' = Merge(tick.names[tick.k])
    /\ tick' = [tick EXCEPT !.pc = "publish"]
    /\ UNCHANGED <<smvars, life, joint_cmd, call, velocity, sensing, ghosts>>

TickPublish ==
    /\ tick.pc = "publish"
    /\ joint_cmd' = cmd_msg
    /\ tick' = [tick EXCEPT !.pc = "update", !.k = @ + 1]
    /\ UNCHANGED <<smvars, life, cmd_msg, call, velocity, sensing, ghosts>>

TickEnd ==
    /\ tick.pc = "update"
    /\ tick.k > Len(tick.names)
    /\ tick' = NoTick
    /\ UNCHANGED <<smvars, life, cmd_msg, joint_cmd, call, velocity, sensing, ghosts>>

TickStep == TickBegin \/ TickUpdate \/ TickMerge \/ TickPublish \/ TickEnd
Tick == TickStep \/ TickThrow

-----------------------------------------------------------------------------
(* The RPC handlers, on the thread of client p.                            *)
Goto(p, pc) == call' = [call EXCEPT ![p].pc = pc]
Reply(p, a) == call' = [call EXCEPT ![p].pc = "answer", ![p].answer = a]
At(p, pc, op) == call[p].pc = pc /\ call[p].op = op

Call(p) ==
    /\ call[p].pc = "ready"
    /\ \E r \in Requests[p] :
          call' = [call EXCEPT ![p] = [Ready EXCEPT !.pc = "begin", !.op = r.op, !.arg = r.arg]]
    /\ UNCHANGED <<smvars, life, ticking, velocity, sensing, ghosts>>

SetStateAccept(p) ==
    /\ At(p, "begin", "SetState")
    /\ ChangeState(call[p].arg)
    /\ Goto(p, "names")
    /\ fresh' = [c \in Controllers |-> fresh[c] /\ c \notin Active']
    /\ switcher' = p
    /\ clean' = FALSE
    /\ steady' = steady \cap Active'
    /\ stayed' = stayed \cap Active'
    /\ due' = due \cap Active'
    /\ UNCHANGED <<life, ticking, velocity, sensing>>

SetStateRefuse(p) ==
    /\ At(p, "begin", "SetState")
    /\ RefuseState(call[p].arg)
    /\ Reply(p, "1")
    /\ UNCHANGED <<life, ticking, velocity, sensing, ghosts>>

SetVelocityWrite(p) ==
    /\ At(p, "begin", "SetVelocity")
    /\ current_velocity' = call[p].arg
    /\ Goto(p, "names")
    /\ steady' = Active
    /\ UNCHANGED <<smvars, life, ticking, joy_data, sensing,
                   fresh, switcher, clean, stayed, due>>

(* Both setters copy the names only now: another client may have switched. *)
ReadNames(p) ==
    /\ call[p].pc = "names"
    /\ call' = [call EXCEPT ![p].pc = "apply", ![p].k = 1,
                            ![p].names = GetCurrentControllerNames]
    /\ UNCHANGED <<smvars, life, ticking, velocity, sensing, ghosts>>

Advance(p, op) ==
    /\ At(p, "apply", op)
    /\ call[p].k <= Len(call[p].names)
    /\ call' = [call EXCEPT ![p].k = @ + 1]

RestartController(p) ==
    /\ Advance(p, "SetState")
    /\ fresh' = [fresh EXCEPT ![call[p].names[call[p].k]] = TRUE]
    /\ UNCHANGED <<smvars, life, ticking, velocity, sensing, switcher, clean,
                   steady, stayed, due>>

SetTarget(p) ==
    /\ Advance(p, "SetVelocity")
    /\ joy_data' = [joy_data EXCEPT ![call[p].names[call[p].k]] = call[p].arg]
    /\ UNCHANGED <<smvars, life, ticking, current_velocity, sensing, ghosts>>

\* Mutant: the loop over the names leaves out the last one.
AppliedButLast(p) ==
    /\ call[p].pc = "apply"
    /\ call[p].k >= Len(call[p].names)
    /\ Reply(p, "0")
    /\ UNCHANGED <<smvars, life, ticking, velocity, sensing, ghosts>>

Applied(p) ==
    /\ call[p].pc = "apply"
    /\ call[p].k > Len(call[p].names)
    /\ Reply(p, "0")
    /\ UNCHANGED <<smvars, life, ticking, velocity, sensing, ghosts>>

GetState(p) ==
    /\ At(p, "begin", "GetState")
    /\ Reply(p, GetCurrentStateEnum)
    /\ UNCHANGED <<smvars, life, ticking, velocity, sensing, ghosts>>

GetVelocity(p) ==
    /\ At(p, "begin", "GetVelocity")
    /\ Reply(p, current_velocity)
    /\ UNCHANGED <<smvars, life, ticking, velocity, sensing, ghosts>>

Return(p) ==
    /\ call[p].pc = "answer"
    /\ call' = [call EXCEPT ![p] = Ready]
    /\ UNCHANGED <<smvars, life, ticking, velocity, sensing, ghosts>>

Handle(p) ==
    \/ SetStateAccept(p) \/ SetStateRefuse(p) \/ SetVelocityWrite(p)
    \/ ReadNames(p) \/ RestartController(p) \/ SetTarget(p) \/ Applied(p)
    \/ GetState(p) \/ GetVelocity(p) \/ Return(p)

-----------------------------------------------------------------------------
(* ImuDataCallback: the message goes to the controllers that were active   *)
(* when the names were copied.                                             *)
ImuBegin ==
    /\ "imu" \in Topics
    /\ imu.pc = "idle"
    /\ imu' = [pc |-> "deliver", names |-> GetCurrentControllerNames, k |-> 1]
    /\ stayed' = Active
    /\ UNCHANGED <<smvars, life, ticking, call, velocity, imu_data, joint,
                   joint_state_data, fresh, switcher, clean, steady, due>>

SetImuData ==
    /\ imu.pc = "deliver"
    /\ imu.k <= Len(imu.names)
    /\ imu_data' = [imu_data EXCEPT ![imu.names[imu.k]] = "new"]
    /\ imu' = [imu EXCEPT !.k = @ + 1]
    /\ UNCHANGED <<smvars, life, ticking, call, velocity, joint, joint_state_data, ghosts>>

(* The delivered message becomes the latest, every other one is older.     *)
Aged(data) == [c \in Controllers |-> IF data[c] = "new" THEN "last" ELSE "old"]

\* Mutant: the loop over the names leaves out the last one.
ImuEndsButLast ==
    /\ imu.pc = "deliver"
    /\ imu.k >= Len(imu.names)
    /\ imu_data' = Aged(imu_data)
    /\ imu' = NoDelivery
    /\ due' = stayed
    /\ stayed' = {}
    /\ UNCHANGED <<smvars, life, ticking, call, velocity, joint, joint_state_data,
                   fresh, switcher, clean, steady>>

ImuEnd ==
    /\ imu.pc = "deliver"
    /\ imu.k > Len(imu.names)
    /\ imu_data' = Aged(imu_data)
    /\ imu' = NoDelivery
    /\ due' = stayed
    /\ stayed' = {}
    /\ UNCHANGED <<smvars, life, ticking, call, velocity, joint, joint_state_data,
                   fresh, switcher, clean, steady>>

ImuDataCallback == ImuBegin \/ SetImuData \/ ImuEnd

(* JointStateCallback: the message goes to every controller of the map.    *)
JointBegin ==
    /\ "joint_state" \in Topics
    /\ joint.pc = "idle"
    /\ joint' = [pc |-> "deliver", k |-> 1]
    /\ UNCHANGED <<smvars, life, ticking, call, velocity, imu, imu_data,
                   joint_state_data, ghosts>>

\* Mutant: only the active controllers get the message, as with the IMU.
SetActiveJointStateData ==
    /\ joint.pc = "deliver"
    /\ joint.k <= Len(ControllerMap)
    /\ joint_state_data' = [joint_state_data EXCEPT
                               ![ControllerMap[joint.k]] = IF ControllerMap[joint.k] \in Active
                                                           THEN "new" ELSE @]
    /\ joint' = [joint EXCEPT !.k = @ + 1]
    /\ UNCHANGED <<smvars, life, ticking, call, velocity, imu, imu_data, ghosts>>

SetJointStateData ==
    /\ joint.pc = "deliver"
    /\ joint.k <= Len(ControllerMap)
    /\ joint_state_data' = [joint_state_data EXCEPT ![ControllerMap[joint.k]] = "new"]
    /\ joint' = [joint EXCEPT !.k = @ + 1]
    /\ UNCHANGED <<smvars, life, ticking, call, velocity, imu, imu_data, ghosts>>

JointEnd ==
    /\ joint.pc = "deliver"
    /\ joint.k > Len(ControllerMap)
    /\ joint_state_data' = Aged(joint_state_data)
    /\ joint' = [pc |-> "idle", k |-> 1]
    /\ UNCHANGED <<smvars, life, ticking, call, velocity, imu, imu_data, ghosts>>

JointStateCallback == JointBegin \/ SetJointStateData \/ JointEnd

-----------------------------------------------------------------------------
Next ==
    \/ Start \/ Shutdown
    \/ Tick
    \/ \E p \in Clients : Call(p) \/ Handle(p)
    \/ ImuDataCallback
    \/ JointStateCallback

Spec == Init /\ [][Next]_vars

(* The executor keeps running the tick once the timer is armed, a client   *)
(* thread keeps running the handler it is in, the simulator keeps          *)
(* publishing.  Clients need not call and nothing forces a Shutdown.       *)
Fairness ==
    /\ WF_vars(Start)
    /\ WF_vars(Tick)
    /\ SF_vars(TickUpdate)
    /\ \A p \in Clients : WF_vars(Handle(p))
    /\ WF_vars(ImuDataCallback)
    /\ WF_vars(JointStateCallback)

FairSpec == Spec /\ Fairness
=============================================================================
