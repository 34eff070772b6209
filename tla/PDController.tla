---------------------------- MODULE PDController ----------------------------
(***************************************************************************)
(* One PD controller (controller/pd_controller.cc), memory access by       *)
(* memory access, between the two threads that use it: the control thread  *)
(* calls Update and then GetJointCmdData once a tick, the RPC thread calls *)
(* RestartController when the robot enters a mode, and the joint-state     *)
(* thread stores measured poses.  joint_state_mutex_ covers only the       *)
(* measured pose; start_joint_angles_, trans_mode_percent_ and the         *)
(* trajectory are shared without a lock, so that the increments of the     *)
(* percentage and of current_row_ are a load and a store.                  *)
(*                                                                         *)
(* A joint angle is represented by the pose or the point of a plan that it *)
(* belongs to.  The percentage is counted in steps of                      *)
(* 1 / (trans_mode_duration_s_ * 1000), so that RampLen stands for 1.      *)
(***************************************************************************)
EXTENDS Naturals

CONSTANTS
    N,         \* the number of joints
    RampLen,   \* the steps of a whole transition (2000 in the code)
    PlanLen,   \* the most points of a planned trajectory
    Poses,     \* the poses that may be measured
    ZeroPose,  \* what the constructor puts everywhere
    Plans,     \* the trajectories that RestartController may compute
    Garbage    \* whatever is read of a freed point or past the last one

ASSUME Sizes ==
    /\ N \in Nat \ {0}
    /\ RampLen \in Nat \ {0}
    /\ PlanLen \in Nat \ {0, 1}

ASSUME Values ==
    /\ ZeroPose \in Poses
    /\ Plans # {}

Joint == 1 .. N
Percent == 0 .. RampLen
Row == 0 .. PlanLen
Point(q, i) == <<q, i>>    \* the i-th point of plan q, counted from 1
Angle == Poses \cup {Garbage} \cup Plans \X (1 .. PlanLen)

VARIABLES
    kind,                 \* is_keep_controller_, is_plan_controller_ or neither
    joint_state_data,     \* the measured pose, guarded by joint_state_mutex_
    start_joint_angles,   \* per joint
    trans_mode_percent,
    trajectory,           \* trajectory_generator_: construct_flag_, how many points
                          \* data_ has and of which plan, current_row_
    knots,                \* the pose put at both ends of to_interpolate_data_
    restart,              \* the RPC thread inside RestartController
    control,              \* the control thread inside a tick
    joint_cmd             \* the command the tick is filling, per joint

(* History variables.                                                      *)
VARIABLES
    captured,   \* the pose measured when the last restart began to copy it
    since,      \* Updates stored since the last reset, up to RampLen, or points
                \* given out since the last rewind
    lost,       \* an Update was halfway through when the percentage was reset, or
                \* the row incremented when it was rewound
    settled     \* the last restart had returned when this tick began

shared == <<start_joint_angles, trans_mode_percent, trajectory>>
ghosts == <<captured, since, lost, settled>>
vars == <<kind, joint_state_data, shared, knots, restart, control, joint_cmd, ghosts>>

NoPoints(q) == [flag |-> FALSE, plan |-> q, size |-> 0, row |-> 0]
NoTick == [pc |-> "idle", k |-> 1, loaded |-> 0, row |-> 0, point |-> Garbage]
NoCommand == [j \in Joint |-> [from |-> ZeroPose, percent |-> 0]]
Uniform(v) == [j \in Joint |-> v]

Init ==
    /\ kind \in {"keep", "plan", "ramp"}
    /\ joint_state_data = ZeroPose
    /\ start_joint_angles = Uniform(ZeroPose)
    /\ trans_mode_percent = 0
    /\ \E q \in Plans : trajectory = NoPoints(q)
    /\ knots = Uniform(ZeroPose)
    /\ restart = [pc |-> "idle", k |-> 1]
    /\ control = NoTick
    /\ joint_cmd = NoCommand
    /\ captured = ZeroPose
    /\ since = 0
    /\ lost = FALSE
    /\ settled = FALSE

-----------------------------------------------------------------------------
(* SetJointStateData, one critical section of joint_state_mutex_, which    *)
(* RestartController holds while it copies.                                *)
SetJointStateData ==
    /\ restart.pc # "copy"
    /\ \E p \in Poses : joint_state_data' = p
    /\ UNCHANGED <<kind, shared, knots, restart, control, joint_cmd, ghosts>>

-----------------------------------------------------------------------------
(* RestartController, on the RPC thread.                                   *)
RestartBegin ==
    /\ restart.pc = "idle"
    /\ restart' = [pc |-> "copy", k |-> 1]
    /\ captured' = joint_state_data
    /\ settled' = FALSE
    /\ UNCHANGED <<kind, joint_state_data, shared, knots, control, joint_cmd,
                   since, lost>>

RestartCopy ==
    /\ restart.pc = "copy"
    /\ start_joint_angles' = [start_joint_angles EXCEPT ![restart.k] = joint_state_data]
    /\ restart' = IF restart.k < N THEN [restart EXCEPT !.k = @ + 1]
                                   ELSE [pc |-> "reset", k |-> 1]
    /\ UNCHANGED <<kind, joint_state_data, trans_mode_percent, trajectory,
                   knots, control, joint_cmd, ghosts>>

\* Mutant: the percentage is reset to some other value.
RestartResetTo(v) ==
    /\ restart.pc = "reset"
    /\ trans_mode_percent' = v
    /\ restart' = [restart EXCEPT !.pc = IF kind = "plan" THEN "knots" ELSE "idle"]
    /\ since' = 0
    /\ lost' = (control.pc = "store")
    /\ UNCHANGED <<kind, joint_state_data, start_joint_angles, trajectory,
                   knots, control, joint_cmd, captured, settled>>

\* Mutant: the percentage is left where it was.
RestartKeepsPercent == RestartResetTo(trans_mode_percent)

\* Mutant: the percentage skips its first step.
RestartAtOne == RestartResetTo(1)

RestartReset ==
    /\ restart.pc = "reset"
    /\ trans_mode_percent' = 0
    /\ restart' = [restart EXCEPT !.pc = IF kind = "plan" THEN "knots" ELSE "idle"]
    /\ since' = 0
    /\ lost' = (control.pc = "store")
    /\ UNCHANGED <<kind, joint_state_data, start_joint_angles, trajectory,
                   knots, control, joint_cmd, captured, settled>>

RestartKnots ==
    /\ restart.pc = "knots"
    /\ knots' = [knots EXCEPT ![restart.k] = start_joint_angles[restart.k]]
    /\ restart' = IF restart.k < N THEN [restart EXCEPT !.k = @ + 1]
                                   ELSE [pc |-> "unset", k |-> 1]
    /\ UNCHANGED <<kind, joint_state_data, shared, control, joint_cmd, ghosts>>

(* Interpolator::Init withdraws the flag, drops the points, computes new   *)
(* ones, rewinds and sets the flag.  A pointer to a point dangles once the *)
(* points are dropped.  Ruckig gives a point a millisecond, of which the   *)
(* first second alone has many, or refuses the input and gives none.       *)
RestartUnset ==
    /\ restart.pc = "unset"
    /\ trajectory' = [trajectory EXCEPT !.flag = FALSE]
    /\ restart' = [restart EXCEPT !.pc = "clear"]
    /\ UNCHANGED <<kind, joint_state_data, start_joint_angles,
                   trans_mode_percent, knots, control, joint_cmd, ghosts>>

RestartClear ==
    /\ restart.pc = "clear"
    /\ trajectory' = [trajectory EXCEPT !.size = 0]
    /\ control' = [control EXCEPT !.point = Garbage]
    /\ restart' = [restart EXCEPT !.pc = "build"]
    /\ UNCHANGED <<kind, joint_state_data, start_joint_angles,
                   trans_mode_percent, knots, joint_cmd, ghosts>>

RestartBuild ==
    /\ restart.pc = "build"
    /\ \E q \in Plans, n \in Row \ {1} :
          trajectory' = [trajectory EXCEPT !.plan = q, !.size = n]
    /\ restart' = [restart EXCEPT !.pc = "rewind"]
    /\ UNCHANGED <<kind, joint_state_data, start_joint_angles,
                   trans_mode_percent, knots, control, joint_cmd, ghosts>>

\* Mutant: the new trajectory goes on at the row of the old one.
RestartKeepsRow ==
    /\ restart.pc = "rewind"
    /\ trajectory' = trajectory
    /\ restart' = [restart EXCEPT !.pc = "set"]
    /\ since' = 0
    /\ lost' = (control.pc = "advance")
    /\ UNCHANGED <<kind, joint_state_data, start_joint_angles,
                   trans_mode_percent, knots, control, joint_cmd, captured, settled>>

RestartRewind ==
    /\ restart.pc = "rewind"
    /\ trajectory' = [trajectory EXCEPT !.row = 0]
    /\ restart' = [restart EXCEPT !.pc = "set"]
    /\ since' = 0
    /\ lost' = (control.pc = "advance")
    /\ UNCHANGED <<kind, joint_state_data, start_joint_angles,
                   trans_mode_percent, knots, control, joint_cmd, captured, settled>>

RestartSet ==
    /\ restart.pc = "set"
    /\ trajectory' = [trajectory EXCEPT !.flag = TRUE]
    /\ restart' = [restart EXCEPT !.pc = "idle"]
    /\ UNCHANGED <<kind, joint_state_data, start_joint_angles,
                   trans_mode_percent, knots, control, joint_cmd, ghosts>>

Restart ==
    \/ RestartCopy \/ RestartReset \/ RestartKnots \/ RestartUnset
    \/ RestartClear \/ RestartBuild \/ RestartRewind \/ RestartSet

-----------------------------------------------------------------------------
(* A tick of the control thread: Update, then GetJointCmdData.             *)
TickBegin ==
    /\ control.pc = "idle"
    /\ control' = [control EXCEPT !.pc = CASE kind = "keep" -> "collect"
                                           [] kind = "plan" -> "check"
                                           [] kind = "ramp" -> "load",
                                  !.k = 1]
    /\ settled' = (restart.pc = "idle")
    /\ UNCHANGED <<kind, joint_state_data, shared, knots, restart, joint_cmd,
                   captured, since, lost>>

UpdateLoad ==
    /\ control.pc = "load"
    /\ control' = [control EXCEPT !.pc = "store", !.loaded = trans_mode_percent]
    /\ UNCHANGED <<kind, joint_state_data, shared, knots, restart, joint_cmd,
                   ghosts>>

\* Mutants: the percentage is not bounded, or bounded one step too low.
Unbounded(bound, n) == n
Below(bound, n) == IF n < bound THEN n ELSE bound - 1

AtMost(bound, n) == IF n <= bound THEN n ELSE bound

(* += and std::min store twice; the value between, above 1, is only ever   *)
(* overwritten, so the pair is one step.                                   *)
UpdateStore ==
    /\ control.pc = "store"
    /\ trans_mode_percent' = AtMost(RampLen, control.loaded + 1)
    /\ control' = [control EXCEPT !.pc = "collect"]
    /\ since' = AtMost(RampLen, since + 1)
    /\ UNCHANGED <<kind, joint_state_data, start_joint_angles, trajectory,
                   knots, restart, joint_cmd, captured, lost, settled>>

(* Interpolator::GetNextPoint tests that there is a point to give, then    *)
(* the flag ...                                                            *)
PlanCheck ==
    /\ control.pc = "check"
    /\ control' = [control EXCEPT !.pc = IF trajectory.row < trajectory.size
                                         THEN "flag" ELSE "collect"]
    /\ UNCHANGED <<kind, joint_state_data, shared, knots, restart, joint_cmd,
                   ghosts>>

PlanFlag ==
    /\ control.pc = "flag"
    /\ control' = [control EXCEPT !.pc = IF trajectory.flag THEN "find" ELSE "collect"]
    /\ UNCHANGED <<kind, joint_state_data, shared, knots, restart, joint_cmd,
                   ghosts>>

(* ... finds the point at current_row_ and copies it over                  *)
(* start_joint_angles_, though RestartController may drop it meanwhile ... *)
PlanFind ==
    /\ control.pc = "find"
    /\ control' = [control EXCEPT
           !.pc = "point",
           !.point = IF trajectory.row < trajectory.size
                     THEN Point(trajectory.plan, trajectory.row + 1) ELSE Garbage]
    /\ UNCHANGED <<kind, joint_state_data, shared, knots, restart, joint_cmd,
                   ghosts>>

PlanPoint ==
    /\ control.pc = "point"
    /\ start_joint_angles' = [start_joint_angles EXCEPT ![control.k] = control.point]
    /\ control' = IF control.k < N THEN [control EXCEPT !.k = @ + 1]
                                   ELSE [control EXCEPT !.pc = "count", !.k = 1]
    /\ UNCHANGED <<kind, joint_state_data, trans_mode_percent, trajectory, knots,
                   restart, joint_cmd, ghosts>>

(* ... and increments current_row_.                                        *)
PlanCount ==
    /\ control.pc = "count"
    /\ control' = [control EXCEPT !.pc = "advance", !.row = trajectory.row]
    /\ UNCHANGED <<kind, joint_state_data, shared, knots, restart, joint_cmd,
                   ghosts>>

PlanAdvance ==
    /\ control.pc = "advance"
    /\ trajectory' = [trajectory EXCEPT !.row = control.row + 1]
    /\ control' = [control EXCEPT !.pc = "collect"]
    /\ since' = since + 1
    /\ UNCHANGED <<kind, joint_state_data, start_joint_angles, trans_mode_percent,
                   knots, restart, joint_cmd, captured, lost, settled>>

Plan == PlanCheck \/ PlanFlag \/ PlanFind \/ PlanPoint \/ PlanCount \/ PlanAdvance

(* GetJointCmdData reads both fields again for every joint; a command is   *)
(* the start angle and how far it is blended into the configured pose.     *)
Collect ==
    /\ control.pc = "collect"
    /\ joint_cmd' = [joint_cmd EXCEPT ![control.k] =
                        [from |-> start_joint_angles[control.k],
                         percent |-> IF kind = "ramp" THEN trans_mode_percent ELSE 0]]
    /\ control' = IF control.k < N THEN [control EXCEPT !.k = @ + 1]
                                   ELSE [control EXCEPT !.pc = "done"]
    /\ UNCHANGED <<kind, joint_state_data, shared, knots, restart, ghosts>>

(* The command is a local variable: it is returned, and the next tick      *)
(* fills another.                                                          *)
TickEnd ==
    /\ control.pc = "done"
    /\ control' = NoTick
    /\ joint_cmd' = NoCommand
    /\ UNCHANGED <<kind, joint_state_data, shared, knots, restart, ghosts>>

Tick == TickBegin \/ UpdateLoad \/ UpdateStore \/ Plan \/ Collect \/ TickEnd

Next == SetJointStateData \/ RestartBegin \/ Restart \/ Tick

Spec == Init /\ [][Next]_vars

(* Both threads keep running what they are in; the timer keeps ticking.    *)
FairSpec == Spec /\ WF_vars(Tick) /\ WF_vars(Restart)

-----------------------------------------------------------------------------
TypeOK ==
    /\ kind \in {"keep", "plan", "ramp"}
    /\ joint_state_data \in Poses
    /\ start_joint_angles \in [Joint -> Angle]
    /\ trans_mode_percent \in Percent
    /\ trajectory \in [flag : BOOLEAN, plan : Plans, size : Row, row : Row]
    /\ knots \in [Joint -> Angle]
    /\ restart \in [pc : {"idle", "copy", "reset", "knots", "unset", "clear", "build",
                          "rewind", "set"},
                    k : Joint]
    /\ control \in [pc : {"idle", "load", "store", "check", "flag", "find", "point",
                          "count", "advance", "collect", "done"},
                    k : Joint, loaded : Percent, row : Row, point : Angle]
    /\ joint_cmd \in [Joint -> [from : Angle, percent : Percent]]
    /\ captured \in Poses
    /\ since \in Nat
    /\ lost \in BOOLEAN
    /\ settled \in BOOLEAN

(* A command of a tick that began after RestartController returned, and    *)
(* that no new restart disturbed, holds every joint from the one pose that *)
(* restart captured (never a mixture of two poses, although neither thread *)
(* locks start_joint_angles_), and its ramp is as far as the Updates since *)
(* the reset have brought it -- unless an Update was between its load and  *)
(* its store when the percentage was reset, which undoes the reset         *)
(* (pd_controller.cc:58-65, 86-87, 104-114).                               *)
SettledCommand ==
    (control.pc = "done" /\ settled /\ kind # "plan") =>
        \A j \in Joint :
            /\ joint_cmd[j].from = captured
            /\ (kind = "ramp" /\ ~lost) => joint_cmd[j].percent = since

(* The same of a planning controller: such a command is, in every joint,   *)
(* the next point of the new trajectory, one for each that was given out   *)
(* since the rewind, and then its last; no freed point, pose or point of   *)
(* the trajectory before is left in it, whatever an overlapping tick read  *)
(* or wrote -- unless that tick was incrementing the row when it was       *)
(* rewound, which undoes the rewind and may leave no point to give         *)
(* (utilities.cc:89-115, pd_controller.cc:67-74, 82).                      *)
SettledPlan ==
    /\ control.pc = "done" /\ settled /\ kind = "plan"
    /\ trajectory.size > 0 /\ ~lost
    => \A j \in Joint : joint_cmd[j].from = Point(trajectory.plan, since)

(* Between restarts the percentage never goes back, and a restart is the   *)
(* only thing that takes it to 0, also when an Update overlaps it          *)
(* (pd_controller.cc:65, 86-87).                                           *)
RampOnlyRestartsAtZero ==
    [][trans_mode_percent' < trans_mode_percent => trans_mode_percent' = 0]_vars

(* Once restarts stop, the transition is completed and stays completed:    *)
(* an undone reset makes it shorter, never endless.                        *)
RampCompletes ==
    (kind = "ramp" /\ <>[](restart.pc = "idle")) => <>[](trans_mode_percent = RampLen)

(* "Insert the joint angles of the current moment at the beginning and at  *)
(* the end" of the planned trajectory (pd_controller.cc:68).               *)
PlanStartsFromMeasuredPose ==
    restart.pc \in {"unset", "clear", "build"} => \A j \in Joint : knots[j] = captured
=============================================================================
