-------------------------- MODULE PDControllerProof --------------------------
(***************************************************************************)
(* PDController for any number of joints, any ramp length and any set of   *)
(* poses: its types, SettledCommand, the ramp, and SettledPlan.            *)
(***************************************************************************)
EXTENDS PDController, TLAPS

\* The loops over the joints start at 1 and stop at N.
LEMMA JointFacts == 1 \in Joint /\ \A k \in Joint : k < N => k + 1 \in Joint
BY Sizes DEF Joint

\* The ramp starts at 0 and is capped at RampLen (pd_controller.cc:86-87).
LEMMA PercentFacts ==
    0 \in Percent /\ \A m \in Percent : AtMost(RampLen, m + 1) \in Percent
BY Sizes DEF Percent, AtMost

\* A row that is short of the longest plan can be counted up and has a point.
LEMMA RowFacts ==
    /\ 0 \in Row
    /\ \A m \in Row : m < PlanLen => m + 1 \in Row /\ m + 1 \in 1 .. PlanLen
    /\ \A m, n \in Row : m < n => m < PlanLen
BY Sizes DEF Row

-----------------------------------------------------------------------------
(* What makes SettledCommand inductive.                                    *)

\* GetNextPoint increments only a row that had a point.
PlanAt == {"check", "flag", "find", "point", "count", "advance"}
RowBound ==
    /\ control.pc \in {"flag", "find", "point", "count"} => trajectory.row < PlanLen
    /\ control.pc = "advance" => control.row < PlanLen

\* Each kind of controller goes through its own steps.
Steps ==
    /\ kind # "plan" => /\ control.pc \notin PlanAt
                        /\ restart.pc \notin {"knots", "unset", "clear", "build",
                                              "rewind", "set"}
    /\ restart.pc # "idle" => ~settled

\* What an Update has loaded is current, unless it missed a reset.
Loaded ==
    kind = "ramp" /\ ~lost =>
        /\ trans_mode_percent = since
        /\ control.pc = "store" => control.loaded = trans_mode_percent

\* RestartController holds the mutex while it copies, so it copies one pose.
OnePose ==
    kind # "plan" =>
        /\ restart.pc = "copy" =>
              /\ joint_state_data = captured
              /\ \A j \in Joint : j < restart.k => start_joint_angles[j] = captured
        /\ restart.pc # "copy" =>
              \A j \in Joint : start_joint_angles[j] = captured

\* The part of the command that a settled tick has filled so far.
Filled(j) ==
    /\ joint_cmd[j].from = captured
    /\ kind = "ramp" /\ ~lost => joint_cmd[j].percent = since
Filling ==
    kind # "plan" /\ settled =>
        /\ control.pc = "collect" => \A j \in Joint : j < control.k => Filled(j)
        /\ control.pc \in {"load", "store"} => control.k = 1
        /\ control.pc = "done" => \A j \in Joint : Filled(j)

IInv == TypeOK /\ RowBound /\ Steps /\ Loaded /\ OnePose /\ Filling

\* A constructed controller satisfies the invariant.
LEMMA InitIInv == Init => IInv
<1> SUFFICES ASSUME Init PROVE IInv
    OBVIOUS
<1> USE DEF Init
<1>1. TypeOK
    <2>1. trajectory \in [flag : BOOLEAN, plan : Plans, size : Row, row : Row]
        BY RowFacts DEF NoPoints
    <2>2. /\ control.pc = "idle" /\ control.k = 1
          /\ control \in [pc : {"idle"}, k : Joint, loaded : Percent, row : Row, point : Angle]
        BY JointFacts, PercentFacts, RowFacts DEF NoTick, Angle
    <2>3. joint_cmd \in [Joint -> [from : Angle, percent : Percent]]
        BY PercentFacts, Values DEF NoCommand, Angle
    <2> QED
        BY <2>1, <2>2, <2>3, JointFacts, PercentFacts, Values DEF TypeOK, Angle, Uniform
<1>2. RowBound /\ Steps /\ Loaded /\ Filling
    BY DEF RowBound, Steps, Loaded, Filling, NoTick, PlanAt
<1>3. OnePose
    BY DEF OnePose, Uniform
<1> QED
    BY <1>1, <1>2, <1>3 DEF IInv

\* The configuration never changes.
LEMMA KindStep == [Next]_vars => kind' = kind
BY DEF Next, SetJointStateData, RestartBegin, Restart, RestartCopy, RestartReset,
       RestartKnots, RestartUnset, RestartClear, RestartBuild, RestartRewind, RestartSet,
       Tick, TickBegin, UpdateLoad, UpdateStore, Plan, PlanCheck, PlanFlag, PlanFind,
       PlanPoint, PlanCount, PlanAdvance, Collect, TickEnd, vars

(* The variables keep their types.                                         *)
LEMMA TypeStep == TypeOK /\ RowBound /\ [Next]_vars => TypeOK'
<1> SUFFICES ASSUME TypeOK, RowBound, [Next]_vars PROVE TypeOK'
    OBVIOUS
<1> USE JointFacts, PercentFacts, RowFacts, Values DEF TypeOK, Angle
<1>1. CASE SetJointStateData
    BY <1>1 DEF SetJointStateData, shared, ghosts
<1>2. CASE RestartBegin
    BY <1>2 DEF RestartBegin, shared
<1>3. CASE RestartCopy
    BY <1>3 DEF RestartCopy, ghosts
<1>4. CASE RestartReset
    BY <1>4 DEF RestartReset
<1>5. CASE RestartKnots
    BY <1>5 DEF RestartKnots, shared, ghosts
<1>6. CASE RestartUnset \/ RestartSet
    BY <1>6 DEF RestartUnset, RestartSet, ghosts
<1>7. CASE RestartClear
    BY <1>7 DEF RestartClear, ghosts
<1>8. CASE RestartBuild
    BY <1>8 DEF RestartBuild, ghosts
<1>9. CASE RestartRewind
    BY <1>9 DEF RestartRewind
<1>10. CASE TickBegin
    BY <1>10 DEF TickBegin, shared
<1>11. CASE UpdateLoad
    BY <1>11 DEF UpdateLoad, shared, ghosts
<1>12. CASE UpdateStore
    <2>1. AtMost(RampLen, since + 1) \in Nat
        BY Sizes DEF AtMost
    <2> QED
        BY <1>12, <2>1 DEF UpdateStore
<1>13. CASE PlanCheck \/ PlanFlag
    BY <1>13 DEF PlanCheck, PlanFlag, shared, ghosts
<1>14. CASE PlanFind
    <2>1. trajectory.row < trajectory.size =>
              Point(trajectory.plan, trajectory.row + 1) \in Plans \X (1 .. PlanLen)
        BY DEF Point
    <2> QED
        BY <1>14, <2>1 DEF PlanFind, shared, ghosts
<1>15. CASE PlanPoint
    BY <1>15 DEF PlanPoint, ghosts
<1>16. CASE PlanCount
    BY <1>16 DEF PlanCount, shared, ghosts
<1>17. CASE PlanAdvance
    BY <1>17 DEF PlanAdvance, RowBound
<1>18. CASE Collect
    BY <1>18 DEF Collect, shared, ghosts
<1>19. CASE TickEnd
    BY <1>19 DEF TickEnd, shared, ghosts, NoTick, NoCommand
<1>20. CASE UNCHANGED vars
    BY <1>20 DEF vars, shared, ghosts
<1> QED
    BY <1>1, <1>2, <1>3, <1>4, <1>5, <1>6, <1>7, <1>8, <1>9, <1>10, <1>11, <1>12,
       <1>13, <1>14, <1>15, <1>16, <1>17, <1>18, <1>19, <1>20 DEF Next, Restart, Tick, Plan

\* The row only grows where GetNextPoint has found it short of the end.
LEMMA RowBoundStep == TypeOK /\ RowBound /\ [Next]_vars => RowBound'
<1> SUFFICES ASSUME TypeOK, RowBound, [Next]_vars PROVE RowBound'
    OBVIOUS
<1> USE RowFacts DEF TypeOK, RowBound
<1>1. CASE UNCHANGED <<trajectory, control>>
    BY <1>1
<1>2. CASE RestartUnset \/ RestartBuild \/ RestartSet
    BY <1>2 DEF RestartUnset, RestartBuild, RestartSet
<1>3. CASE RestartClear
    BY <1>3 DEF RestartClear
<1>4. CASE RestartRewind
    BY <1>4, Sizes DEF RestartRewind
<1>5. CASE TickBegin \/ TickEnd \/ UpdateLoad \/ UpdateStore
    <2>1. control'.pc \in {"check", "load", "idle", "store", "collect"}
        <3>1. CASE TickEnd
            BY <3>1 DEF TickEnd, NoTick
        <3>2. CASE ~TickEnd
            BY <1>5, <3>2 DEF TickBegin, UpdateLoad, UpdateStore
        <3> QED
            BY <3>1, <3>2
    <2> QED
        BY <2>1
<1>6. CASE PlanCheck
    BY <1>6 DEF PlanCheck, shared
<1>7. CASE PlanFlag \/ PlanFind \/ PlanPoint \/ PlanCount
    BY <1>7 DEF PlanFlag, PlanFind, PlanPoint, PlanCount, shared
<1>8. CASE PlanAdvance \/ Collect
    BY <1>8 DEF PlanAdvance, Collect
<1>9. CASE SetJointStateData \/ RestartBegin \/ RestartCopy \/ RestartReset \/ RestartKnots
              \/ UNCHANGED vars
    BY <1>1, <1>9 DEF SetJointStateData, RestartBegin, RestartCopy, RestartReset,
       RestartKnots, vars, shared
<1> QED
    BY <1>2, <1>3, <1>4, <1>5, <1>6, <1>7, <1>8, <1>9 DEF Next, Restart, Tick, Plan

(* Each step keeps what SettledCommand rests on.                           *)
LEMMA StepsStep == TypeOK /\ Steps /\ [Next]_vars => Steps'
<1> SUFFICES ASSUME TypeOK, Steps, [Next]_vars PROVE Steps'
    OBVIOUS
<1> USE Values DEF TypeOK, Steps, PlanAt
<1>1. CASE SetJointStateData \/ RestartBegin \/ RestartCopy \/ RestartReset
    BY <1>1 DEF SetJointStateData, RestartBegin, RestartCopy, RestartReset, ghosts, shared
<1>2. CASE \/ RestartKnots \/ RestartUnset \/ RestartClear \/ RestartBuild
           \/ RestartRewind \/ RestartSet
    <2>1. kind = "plan" /\ kind' = kind
        BY <1>2 DEF RestartKnots, RestartUnset, RestartClear, RestartBuild, RestartRewind,
           RestartSet
    <2>2. ~settled /\ settled' = settled
        BY <1>2 DEF RestartKnots, RestartUnset, RestartClear, RestartBuild, RestartRewind,
           RestartSet, ghosts
    <2> QED
        BY <2>1, <2>2
<1>3. CASE TickBegin
    <2>1. restart'.pc # "idle" => ~settled'
        BY <1>3 DEF TickBegin
    <2> QED
        BY <1>3, <2>1 DEF TickBegin
<1>4. CASE UpdateLoad \/ UpdateStore \/ TickEnd
    <2>1. restart' = restart /\ settled' = settled
        BY <1>4 DEF UpdateLoad, UpdateStore, TickEnd, ghosts
    <2>2. CASE TickEnd
        BY <2>1, <2>2, KindStep DEF TickEnd, NoTick
    <2>3. CASE ~TickEnd
        BY <1>4, <2>1, <2>3, KindStep DEF UpdateLoad, UpdateStore
    <2> QED
        BY <2>2, <2>3
<1>5. CASE Plan \/ Collect
    <2>1. /\ restart' = restart /\ settled' = settled
          /\ kind = "plan" \/ control'.pc \in {"collect", "done"}
        BY <1>5 DEF Plan, PlanCheck, PlanFlag, PlanFind, PlanPoint, PlanCount, PlanAdvance,
           Collect, ghosts
    <2> QED
        BY <2>1, KindStep
<1>6. CASE UNCHANGED vars
    BY <1>6 DEF vars, shared, ghosts
<1> QED
    BY <1>1, <1>2, <1>3, <1>4, <1>5, <1>6 DEF Next, Restart, Tick

\* A reset between the load and the store of an Update is recorded in lost.
LEMMA LoadedStep == TypeOK /\ Steps /\ Loaded /\ [Next]_vars => Loaded'
<1> SUFFICES ASSUME TypeOK, Steps, Loaded, [Next]_vars PROVE Loaded'
    OBVIOUS
<1> USE DEF TypeOK, Loaded
<1>1. CASE SetJointStateData \/ RestartBegin \/ RestartCopy \/ RestartKnots
    BY <1>1 DEF SetJointStateData, RestartBegin, RestartCopy, RestartKnots, ghosts, shared
<1>2. CASE RestartReset
    BY <1>2 DEF RestartReset
<1>3. CASE RestartUnset \/ RestartClear \/ RestartBuild \/ RestartRewind \/ RestartSet \/ Plan
    <2>1. kind = "plan" /\ kind' = kind
        BY <1>3, KindStep DEF Steps, PlanAt, Plan, PlanCheck, PlanFlag, PlanFind, PlanPoint,
           PlanCount, PlanAdvance, RestartUnset, RestartClear, RestartBuild, RestartRewind,
           RestartSet
    <2> QED
        BY <2>1
<1>4. CASE TickBegin
    BY <1>4, Values DEF TickBegin, shared
<1>5. CASE UpdateLoad \/ TickEnd
    <2>1. /\ UNCHANGED <<kind, trans_mode_percent, since, lost>>
          /\ UpdateLoad \/ control'.pc = "idle"
        BY <1>5 DEF UpdateLoad, TickEnd, NoTick, ghosts, shared
    <2> QED
        BY <2>1 DEF UpdateLoad
<1>6. CASE UpdateStore
    BY <1>6 DEF UpdateStore
<1>7. CASE Collect
    BY <1>7 DEF Collect, ghosts, shared
<1>8. CASE UNCHANGED vars
    BY <1>8 DEF vars, shared, ghosts
<1> QED
    BY <1>1, <1>2, <1>3, <1>4, <1>5, <1>6, <1>7, <1>8 DEF Next, Restart, Tick

\* The start angles are copied under the lock, joint by joint, from one message.
LEMMA OnePoseStep == TypeOK /\ Steps /\ OnePose /\ [Next]_vars => OnePose'
<1> SUFFICES ASSUME TypeOK, Steps, OnePose, [Next]_vars, kind # "plan" PROVE OnePose'
    BY KindStep DEF OnePose
<1> USE DEF TypeOK, Steps, OnePose
<1>1. CASE SetJointStateData
    BY <1>1 DEF SetJointStateData, ghosts, shared
<1>2. CASE RestartBegin
    <2>1. \A j \in Joint : ~(j < 1)
        BY Sizes DEF Joint
    <2> QED
        BY <1>2, <2>1 DEF RestartBegin, shared
<1>3. CASE RestartCopy
    <2>1. \A j \in Joint : j < restart.k + 1 => j < restart.k \/ j = restart.k
        BY Sizes DEF Joint
    <2>2. restart.k >= N => \A j \in Joint : j < restart.k + 1
        BY Sizes DEF Joint
    <2>3. /\ joint_state_data' = captured' /\ captured' = captured
          /\ \A j \in Joint : j < restart.k + 1 => start_joint_angles'[j] = captured
        BY <1>3, <2>1 DEF RestartCopy, ghosts
    <2>4. CASE restart.k < N
        BY <1>3, <2>3, <2>4 DEF RestartCopy
    <2>5. CASE ~(restart.k < N)
        <3>1. \A j \in Joint : j < restart.k + 1
            BY <2>5, <2>2, Sizes DEF Joint
        <3> QED
            BY <1>3, <2>3, <2>5, <3>1 DEF RestartCopy
    <2> QED
        BY <2>4, <2>5
<1>4. CASE RestartReset
    BY <1>4 DEF RestartReset
<1>5. CASE \/ RestartKnots \/ RestartUnset \/ RestartClear \/ RestartBuild
           \/ RestartRewind \/ RestartSet
    BY <1>5 DEF RestartKnots, RestartUnset, RestartClear, RestartBuild, RestartRewind,
       RestartSet
<1>6. CASE TickBegin \/ UpdateLoad \/ UpdateStore \/ TickEnd
    BY <1>6 DEF TickBegin, UpdateLoad, UpdateStore, TickEnd, ghosts, shared
<1>7. CASE Plan
    BY <1>7 DEF PlanAt, Plan, PlanCheck, PlanFlag, PlanFind, PlanPoint, PlanCount,
       PlanAdvance
<1>8. CASE Collect
    BY <1>8 DEF Collect, ghosts, shared
<1>9. CASE UNCHANGED vars
    BY <1>9 DEF vars, shared, ghosts
<1> QED
    BY <1>1, <1>2, <1>3, <1>4, <1>5, <1>6, <1>7, <1>8, <1>9 DEF Next, Restart, Tick

(* A settled tick meets no restart, so nothing moves under the collecting. *)
LEMMA FillingStep == IInv /\ [Next]_vars => Filling'
<1> SUFFICES ASSUME IInv, [Next]_vars, kind # "plan", settled' PROVE Filling'
    BY KindStep DEF Filling
<1> USE KindStep DEF IInv, TypeOK, Steps, Filling
<1>1. CASE SetJointStateData
    BY <1>1 DEF SetJointStateData, ghosts, shared, Filled
<1>2. CASE RestartBegin
    BY <1>2 DEF RestartBegin
<1>3. CASE Restart
    BY <1>3 DEF Restart, RestartCopy, RestartReset, RestartKnots, RestartUnset,
       RestartClear, RestartBuild, RestartRewind, RestartSet, ghosts
<1>4. CASE TickBegin
    <2>1. \A j \in Joint : ~(j < 1)
        BY Sizes DEF Joint
    <2> QED
        BY <1>4, <2>1, Values DEF TickBegin
<1>5. CASE UpdateLoad
    BY <1>5 DEF UpdateLoad, ghosts
<1>6. CASE UpdateStore
    <2>1. \A j \in Joint : ~(j < 1)
        BY Sizes DEF Joint
    <2> QED
        BY <1>6, <2>1 DEF UpdateStore
<1>7. CASE Plan
    BY <1>7 DEF PlanAt, Plan, PlanCheck, PlanFlag, PlanFind, PlanPoint, PlanCount,
       PlanAdvance
<1>8. CASE Collect
    <2>1. \A j \in Joint : j < control.k + 1 => j < control.k \/ j = control.k
        BY Sizes DEF Joint
    <2>2. control.k >= N => \A j \in Joint : j < control.k + 1
        BY Sizes DEF Joint
    <2>3. restart.pc = "idle" /\ settled
        BY <1>8 DEF Collect, ghosts
    <2> DEFINE k == control.k
    <2>4. /\ joint_cmd'[k].from = captured'
          /\ kind = "ramp" /\ ~lost' => joint_cmd'[k].percent = since'
        <3>1. start_joint_angles[k] = captured
            BY <2>3 DEF OnePose
        <3>2. kind = "ramp" /\ ~lost => trans_mode_percent = since
            BY DEF Loaded
        <3>3. joint_cmd'[k] = [from |-> start_joint_angles[k],
                               percent |-> IF kind = "ramp" THEN trans_mode_percent ELSE 0]
            BY <1>8 DEF Collect
        <3> QED
            BY <1>8, <3>1, <3>2, <3>3 DEF Collect, ghosts
    <2>5. \A j \in Joint : j < k + 1 =>
              /\ joint_cmd'[j].from = captured'
              /\ kind = "ramp" /\ ~lost' => joint_cmd'[j].percent = since'
        BY <1>8, <2>1, <2>3, <2>4 DEF Collect, ghosts, Filled
    <2>6. CASE k < N
        BY <1>8, <2>5, <2>6 DEF Collect, Filled
    <2>7. CASE ~(k < N)
        <3>1. \A j \in Joint : j < k + 1
            BY <2>2, <2>7, Sizes DEF Joint
        <3> QED
            BY <1>8, <2>5, <2>7, <3>1 DEF Collect, Filled
    <2> QED
        BY <2>6, <2>7
<1>9. CASE TickEnd
    BY <1>9 DEF TickEnd, NoTick
<1>10. CASE UNCHANGED vars
    BY <1>10 DEF vars, shared, ghosts, Filled
<1> QED
    BY <1>1, <1>2, <1>3, <1>4, <1>5, <1>6, <1>7, <1>8, <1>9, <1>10 DEF Next, Tick

\* Every step keeps the invariant.
LEMMA Inductive == IInv /\ [Next]_vars => IInv'
BY TypeStep, RowBoundStep, StepsStep, LoadedStep, OnePoseStep, FillingStep DEF IInv

-----------------------------------------------------------------------------
(* The fields keep their types in every behaviour; in particular the       *)
(* percentage stays within 0 and 1 whatever the race on it does.           *)
THEOREM TypeCorrect == Spec => []TypeOK
<1>1. IInv => TypeOK
    BY DEF IInv
<1> QED
    BY InitIInv, Inductive, <1>1, PTL DEF Spec

(* A command of a tick begun after RestartController returned is one pose, *)
(* the captured one, and exactly as far along the ramp as the Updates      *)
(* since the reset, unless an Update straddled the reset                   *)
(* (pd_controller.cc:58-65, 86-87, 104-114).                               *)
THEOREM SettledCommandHolds == Spec => []SettledCommand
<1>1. IInv => SettledCommand
    BY DEF IInv, SettledCommand, Filling, Filled
<1> QED
    BY InitIInv, Inductive, <1>1, PTL DEF Spec

-----------------------------------------------------------------------------
(* What an Update is about to store is never behind the percentage.        *)
Ahead == control.pc = "store" => trans_mode_percent \in {0, control.loaded}

\* A restart between the load and the store of an Update leaves 0 for it to overwrite.
LEMMA AheadStep == TypeOK /\ Ahead /\ [Next]_vars => Ahead'
<1> SUFFICES ASSUME TypeOK, Ahead, [Next]_vars PROVE Ahead'
    OBVIOUS
<1> USE DEF TypeOK, Ahead
<1>1. CASE SetJointStateData \/ RestartBegin \/ Restart
    BY <1>1 DEF SetJointStateData, RestartBegin, Restart, RestartCopy, RestartReset,
       RestartKnots, RestartUnset, RestartClear, RestartBuild, RestartRewind,
       RestartSet, shared, ghosts
<1>2. CASE TickBegin
    <2>1. control'.pc # "store"
        BY <1>2 DEF TickBegin
    <2> QED
        BY <2>1
<1>3. CASE UpdateLoad
    BY <1>3 DEF UpdateLoad, shared
<1>4. CASE UpdateStore \/ Plan \/ Collect \/ TickEnd
    <2>1. control'.pc # "store"
        <3>1. CASE TickEnd
            BY <3>1 DEF TickEnd, NoTick
        <3>2. CASE UpdateStore \/ Plan \/ Collect
            BY <3>2 DEF UpdateStore, Plan, PlanCheck, PlanFlag, PlanFind, PlanPoint,
               PlanCount, PlanAdvance, Collect
        <3> QED
            BY <1>4, <3>1, <3>2
    <2> QED
        BY <2>1
<1>5. CASE UNCHANGED vars
    BY <1>5 DEF vars, shared
<1> QED
    BY <1>1, <1>2, <1>3, <1>4, <1>5 DEF Next, Tick

\* Only an Update and a restart write the percentage; an Update adds to what it has read.
LEMMA PercentStep ==
    TypeOK /\ Ahead /\ [Next]_vars =>
        (trans_mode_percent' < trans_mode_percent => trans_mode_percent' = 0)
<1> SUFFICES ASSUME TypeOK, Ahead, [Next]_vars
    PROVE  trans_mode_percent' = 0 \/ ~(trans_mode_percent' < trans_mode_percent)
    OBVIOUS
<1>1. trans_mode_percent \in 0 .. RampLen
    BY DEF TypeOK, Percent
<1>2. CASE UpdateStore
    <2>1. control.loaded \in 0 .. RampLen /\ trans_mode_percent \in {0, control.loaded}
        BY <1>2 DEF TypeOK, Ahead, UpdateStore, Percent
    <2>2. trans_mode_percent' = AtMost(RampLen, control.loaded + 1)
        BY <1>2 DEF UpdateStore
    <2> QED
        BY <2>1, <2>2, Sizes DEF AtMost
<1>3. CASE RestartReset
    BY <1>3 DEF RestartReset
<1>4. CASE ~UpdateStore /\ ~RestartReset
    <2>1. trans_mode_percent' = trans_mode_percent
        BY <1>4 DEF Next, SetJointStateData, RestartBegin, Restart, RestartCopy,
           RestartKnots, RestartUnset, RestartClear, RestartBuild, RestartRewind,
           RestartSet, Tick, TickBegin, UpdateLoad, Plan, PlanCheck, PlanFlag, PlanFind,
           PlanPoint, PlanCount, PlanAdvance, Collect, TickEnd, shared, vars
    <2> QED
        BY <1>1, <2>1
<1> QED
    BY <1>2, <1>3, <1>4

(* The percentage never goes back but to 0, also when the reset of a       *)
(* restart falls between the load and the store of an Update               *)
(* (pd_controller.cc:65, 86-87).                                           *)
THEOREM RampNeverSlips == Spec => RampOnlyRestartsAtZero
<1>1. Init => TypeOK /\ RowBound /\ Ahead
    BY InitIInv DEF IInv, Init, Ahead, NoTick
<1>2. TypeOK /\ RowBound /\ Ahead /\ [Next]_vars => (TypeOK /\ RowBound /\ Ahead)'
    BY TypeStep, RowBoundStep, AheadStep
<1>3. TypeOK /\ Ahead /\ [Next]_vars
        => [trans_mode_percent' < trans_mode_percent => trans_mode_percent' = 0]_vars
    BY PercentStep
<1> QED
    BY <1>1, <1>2, <1>3, PTL DEF Spec, RampOnlyRestartsAtZero

-----------------------------------------------------------------------------
(* SettledPlan.  Once the row is rewound, and unless an increment undoes   *)
(* that, the row counts the points given out.  Only the tick that met the  *)
(* restart can copy a dropped point, and only as the first one: there is a *)
(* second one for the tick after it.                                       *)
PlanSteps ==
    /\ control.pc \notin {"load", "store"}
    /\ control.pc \in {"check", "flag", "find", "count", "advance"} => control.k = 1
    /\ restart.pc = "idle" /\ ~trajectory.flag => trajectory.size = 0
    /\ trajectory.size # 1

Rewound == restart.pc \in {"set", "idle"} /\ ~lost
Given(i) == \A j \in Joint : start_joint_angles[j] = Point(trajectory.plan, i)

Counted ==
    Rewound => /\ trajectory.row = since
               /\ control.pc = "advance" => control.row = since

\* Between two calls of GetNextPoint the start angles are the last point given,
\* or a tick that met the restart has left anything and used up at most one point.
Kept ==
    /\ Rewound /\ trajectory.size > 0
    /\ control.pc \notin {"point", "count", "advance"}
    => since \in {0, 1} \/ Given(since)

\* Within GetNextPoint they become the next one.
Giving ==
    /\ Rewound /\ trajectory.size > 0
    /\ settled \/ since # 0
    => /\ control.pc \in {"flag", "find", "point"} => since < trajectory.size
       /\ control.pc = "point" =>
             /\ control.point = Point(trajectory.plan, since + 1)
             /\ \A j \in Joint : j < control.k => start_joint_angles[j] = control.point
       /\ control.pc \in {"count", "advance"} => Given(since + 1)

Sends(j) == joint_cmd[j].from = Point(trajectory.plan, since)
PlanFilling ==
    /\ Rewound /\ trajectory.size > 0
    /\ settled
    => /\ control.pc \in {"collect", "done"} => Given(since)
       /\ control.pc = "collect" => \A j \in Joint : j < control.k => Sends(j)
       /\ control.pc = "done" => \A j \in Joint : Sends(j)

Planning == kind = "plan" => PlanSteps /\ Counted /\ Kept /\ Giving /\ PlanFilling

\* No joint comes before the first, and all come before N + 1.
LEMMA JointOrder ==
    /\ \A j \in Joint : ~(j < 1)
    /\ \A j, k \in Joint : j < k + 1 => j < k \/ j = k
    /\ \A j, k \in Joint : ~(k < N) => j < k + 1
BY Sizes DEF Joint

\* RestartController disturbs only ticks that are not settled, and rewinds last.
LEMMA PlanningRestart ==
    IInv /\ Planning /\ kind = "plan" /\ (RestartBegin \/ Restart) => Planning'
<1> SUFFICES ASSUME IInv, Planning, kind = "plan", RestartBegin \/ Restart
             PROVE  (PlanSteps /\ Counted /\ Kept /\ Giving /\ PlanFilling)'
    BY DEF Planning
<1> USE DEF IInv, TypeOK, Planning, PlanSteps, Counted, Kept, Giving, PlanFilling, Rewound
<1>1. CASE RestartBegin \/ RestartCopy \/ RestartReset \/ RestartKnots
    BY <1>1 DEF RestartBegin, RestartCopy, RestartReset, RestartKnots, shared
<1>2. CASE RestartUnset
    BY <1>2 DEF RestartUnset
<1>3. CASE RestartClear
    BY <1>3 DEF RestartClear
<1>4. CASE RestartBuild
    BY <1>4 DEF RestartBuild
<1>5. Restart => ~settled
    BY DEF Steps, Restart, RestartCopy, RestartReset, RestartKnots, RestartUnset,
       RestartClear, RestartBuild, RestartRewind, RestartSet
<1>6. CASE RestartRewind
    <2>1. /\ restart'.pc = "set" /\ ~settled' /\ since' = 0
          /\ trajectory'.row = 0 /\ trajectory'.size = trajectory.size
          /\ UNCHANGED control /\ (lost' <=> control.pc = "advance")
        BY <1>6, <1>5 DEF Restart, RestartRewind
    <2> QED
        BY <2>1
<1>7. CASE RestartSet
    <2>1. /\ restart.pc = "set" /\ restart'.pc = "idle" /\ trajectory'.flag /\ ~settled'
          /\ trajectory'.plan = trajectory.plan /\ trajectory'.size = trajectory.size
          /\ trajectory'.row = trajectory.row
          /\ UNCHANGED <<start_joint_angles, control, joint_cmd, since, lost>>
        BY <1>7, <1>5 DEF Restart, RestartSet, ghosts
    <2> QED
        BY <2>1 DEF Given
<1> QED
    BY <1>1, <1>2, <1>3, <1>4, <1>6, <1>7 DEF Restart

\* The tick's own steps: GetNextPoint gives the next point, the command is filled from it.
LEMMA PlanningTick == IInv /\ Planning /\ kind = "plan" /\ Tick => Planning'
<1> SUFFICES ASSUME IInv, Planning, kind = "plan", Tick
             PROVE  (PlanSteps /\ Counted /\ Kept /\ Giving /\ PlanFilling)'
    BY DEF Planning
<1> USE DEF IInv, TypeOK, Planning, PlanSteps, Counted, Kept, Giving, PlanFilling, Rewound
<1>1. CASE TickBegin
    <2>1. /\ control.pc = "idle" /\ control'.pc = "check" /\ control'.k = 1
          /\ UNCHANGED <<start_joint_angles, trajectory, restart, joint_cmd, since, lost>>
        BY <1>1 DEF TickBegin, shared
    <2> QED
        BY <2>1 DEF Given
<1>2. CASE UpdateLoad \/ UpdateStore
    BY <1>2 DEF UpdateLoad, UpdateStore
<1>3. CASE PlanCheck
    <2>1. /\ control.pc = "check" /\ control.k = 1 /\ control'.k = 1
          /\ control'.pc = IF trajectory.row < trajectory.size THEN "flag" ELSE "collect"
          /\ UNCHANGED <<start_joint_angles, trajectory, restart, joint_cmd, ghosts>>
        BY <1>3 DEF PlanCheck, shared
    <2>2. ~(trajectory.row < trajectory.size) /\ Rewound /\ trajectory.size > 0 => Given(since)
        BY <2>1, RowFacts DEF Row
    <2> QED
        BY <2>1, <2>2, JointOrder DEF Given, ghosts, Sends
<1>4. CASE PlanFlag
    <2>1. /\ control.pc = "flag" /\ control.k = 1 /\ control'.k = 1
          /\ control'.pc = IF trajectory.flag THEN "find" ELSE "collect"
          /\ UNCHANGED <<start_joint_angles, trajectory, restart, joint_cmd, ghosts>>
        BY <1>4 DEF PlanFlag, shared
    <2>2. settled /\ trajectory.size > 0 => trajectory.flag
        BY DEF Steps
    <2> QED
        BY <2>1, <2>2 DEF Given, ghosts
<1>5. CASE PlanFind
    <2>1. /\ control.pc = "find" /\ control.k = 1 /\ control'.k = 1
          /\ control'.pc = "point"
          /\ trajectory.row < trajectory.size =>
                control'.point = Point(trajectory.plan, trajectory.row + 1)
          /\ UNCHANGED <<start_joint_angles, trajectory, restart, joint_cmd, ghosts>>
        BY <1>5 DEF PlanFind, shared
    <2> QED
        BY <2>1, JointOrder DEF ghosts
<1>6. CASE PlanPoint
    <2> DEFINE k == control.k
    <2>1. /\ control.pc = "point" /\ k \in Joint /\ control'.point = control.point
          /\ start_joint_angles'[k] = control.point
          /\ \A j \in Joint \ {k} : start_joint_angles'[j] = start_joint_angles[j]
          /\ UNCHANGED <<trajectory, restart, joint_cmd, ghosts>>
        BY <1>6 DEF PlanPoint
    <2>2. /\ k < N => control'.pc = "point" /\ control'.k = k + 1
          /\ ~(k < N) => control'.pc = "count" /\ control'.k = 1
        BY <1>6 DEF PlanPoint
    <2>3. Rewound /\ trajectory.size > 0 /\ (settled \/ since # 0) =>
              \A j \in Joint : j < k + 1 => start_joint_angles'[j] = control.point
        BY <2>1, JointOrder
    <2>4. CASE k < N
        BY <2>1, <2>2, <2>3, <2>4 DEF ghosts
    <2>5. CASE ~(k < N)
        <3>1. \A j \in Joint : j < k + 1
            BY <2>1, <2>5, JointOrder
        <3> QED
            BY <2>1, <2>2, <2>3, <2>5, <3>1 DEF ghosts, Given
    <2> QED
        BY <2>4, <2>5
<1>7. CASE PlanCount
    <2>1. /\ control.pc = "count" /\ control.k = 1 /\ control'.k = 1
          /\ control'.pc = "advance" /\ control'.row = trajectory.row
          /\ UNCHANGED <<start_joint_angles, trajectory, restart, joint_cmd, ghosts>>
        BY <1>7 DEF PlanCount, shared
    <2> QED
        BY <2>1 DEF Given, ghosts
<1>8. CASE PlanAdvance
    <2>1. /\ control.pc = "advance" /\ control.k = 1 /\ control'.k = 1
          /\ control'.pc = "collect"
          /\ trajectory'.row = control.row + 1 /\ since' = since + 1
          /\ trajectory'.flag = trajectory.flag /\ trajectory'.plan = trajectory.plan
          /\ trajectory'.size = trajectory.size
          /\ UNCHANGED <<start_joint_angles, restart, joint_cmd, lost, settled>>
        BY <1>8 DEF PlanAdvance
    <2>2. Rewound /\ trajectory.size > 0 /\ (settled \/ since # 0) => Given(since + 1)
        BY <2>1
    <2> QED
        BY <2>1, <2>2, JointOrder DEF Given
<1>9. CASE Collect
    <2> DEFINE k == control.k
    <2>1. /\ control.pc = "collect" /\ k \in Joint
          /\ joint_cmd'[k].from = start_joint_angles[k]
          /\ \A j \in Joint \ {k} : joint_cmd'[j] = joint_cmd[j]
          /\ UNCHANGED <<start_joint_angles, trajectory, restart, ghosts>>
        BY <1>9 DEF Collect, shared
    <2>2. /\ k < N => control'.pc = "collect" /\ control'.k = k + 1
          /\ ~(k < N) => control'.pc = "done"
        BY <1>9 DEF Collect
    <2>3. Rewound /\ trajectory.size > 0 /\ settled =>
              /\ Given(since)
              /\ \A j \in Joint : j < k + 1 => joint_cmd'[j].from = Point(trajectory.plan, since)
        BY <2>1, JointOrder DEF Given, Sends
    <2>4. CASE k < N
        BY <2>1, <2>2, <2>3, <2>4 DEF ghosts, Given, Sends
    <2>5. CASE ~(k < N)
        <3>1. \A j \in Joint : j < k + 1
            BY <2>1, <2>5, JointOrder
        <3> QED
            BY <2>1, <2>2, <2>3, <2>5, <3>1 DEF ghosts, Given, Sends
    <2> QED
        BY <2>4, <2>5
<1>10. CASE TickEnd
    <2>1. /\ control.pc = "done" /\ control'.pc = "idle"
          /\ UNCHANGED <<start_joint_angles, trajectory, restart, ghosts>>
        BY <1>10 DEF TickEnd, NoTick, shared
    <2> QED
        BY <2>1 DEF Given, ghosts
<1> QED
    BY <1>1, <1>2, <1>3, <1>4, <1>5, <1>6, <1>7, <1>8, <1>9, <1>10 DEF Tick, Plan

\* Nothing else touches what SettledPlan rests on.
LEMMA PlanningStep == IInv /\ Planning /\ [Next]_vars => Planning'
<1> SUFFICES ASSUME IInv, Planning, [Next]_vars, kind = "plan" PROVE Planning'
    BY KindStep DEF Planning
<1>1. CASE SetJointStateData \/ UNCHANGED vars
    <2>1. UNCHANGED <<kind, start_joint_angles, trajectory, restart, control, joint_cmd, ghosts>>
        BY <1>1 DEF SetJointStateData, vars, shared
    <2> QED
        BY <2>1 DEF Planning, PlanSteps, Counted, Kept, Giving, PlanFilling, Rewound, Given,
           Sends, ghosts
<1> QED
    BY <1>1, PlanningRestart, PlanningTick DEF Next

(* A command of a planning controller, of a tick begun after a restart     *)
(* returned, is in every joint the next point of the new trajectory,       *)
(* whatever the tick that overlapped the restart has read or written,      *)
(* unless that tick's increment of the row undid the rewind                *)
(* (utilities.cc:89-115, pd_controller.cc:67-74, 82).                      *)
THEOREM SettledPlanHolds == Spec => []SettledPlan
<1>1. Init => Planning
    BY DEF Init, Planning, PlanSteps, Counted, Kept, Giving, PlanFilling, NoPoints, NoTick
<1>2. IInv /\ Planning => SettledPlan
    <2>1. ASSUME IInv, Planning, control.pc = "done", settled, kind = "plan",
                 trajectory.size > 0, ~lost
          PROVE  \A j \in Joint : joint_cmd[j].from = Point(trajectory.plan, since)
        <3>1. restart.pc = "idle"
            BY <2>1 DEF IInv, Steps
        <3> QED
            BY <2>1, <3>1 DEF Planning, PlanFilling, Rewound, Sends
    <2> QED
        BY <2>1 DEF SettledPlan
<1> QED
    BY InitIInv, Inductive, PlanningStep, <1>1, <1>2, PTL DEF Spec
=============================================================================
