---------------------------- MODULE ControlProof ----------------------------
(***************************************************************************)
(* The control module with any mode graph, any controllers and any number  *)
(* of clients.                                                             *)
(***************************************************************************)
EXTENDS ControlProps, TLAPS

-----------------------------------------------------------------------------
(* The records of the program counters.                                    *)

\* The loops over a copied list start at 1 and count up.
LEMMA IndexFacts == 1 \in Index /\ \A k \in Index : k + 1 \in Index
BY DEF Index

CallPC == {"ready", "begin", "names", "apply", "answer"}
Answers == {"none", "0", "1"} \cup Enums \cup Velocities

\* A client starts, and ends a call, with the record Ready.
LEMMA ReadyOK == Ready \in CallType
BY IndexFacts DEF Ready, CallType

\* A handler moves to its next step.
LEMMA CallGoto ==
    ASSUME NEW r \in CallType, NEW pc \in CallPC
    PROVE  [r EXCEPT !.pc = pc] \in CallType
BY DEF CallType, CallPC

\* A handler has its answer.
LEMMA CallReply ==
    ASSUME NEW r \in CallType, NEW a \in Answers
    PROVE  [r EXCEPT !.pc = "answer", !.answer = a] \in CallType
BY DEF CallType, Answers

\* A handler has copied the controller names (control_module.cc:205, 243).
LEMMA CallNames ==
    ASSUME NEW r \in CallType, NEW names \in Seq(Controllers)
    PROVE  [r EXCEPT !.pc = "apply", !.k = 1, !.names = names] \in CallType
BY IndexFacts DEF CallType

\* A handler turns to the next controller of its copy.
LEMMA CallAdvance ==
    ASSUME NEW r \in CallType
    PROVE  [r EXCEPT !.k = @ + 1] \in CallType
BY IndexFacts DEF CallType

\* A client issues one of its requests.
LEMMA CallBegin ==
    ASSUME NEW r \in Request
    PROVE  [Ready EXCEPT !.pc = "begin", !.op = r.op, !.arg = r.arg] \in CallType
<1>1. /\ r.op \in {"SetState", "SetVelocity", "GetState", "GetVelocity"}
      /\ r.arg \in Enums \cup Velocities \cup {"none"}
    BY DEF Request
<1>2. \A q \in CallType : \A op \in {"SetState", "SetVelocity", "GetState", "GetVelocity"},
                            arg \in Enums \cup Velocities \cup {"none"} :
          [q EXCEPT !.pc = "begin", !.op = op, !.arg = arg] \in CallType
    BY DEF CallType
<1> QED
    BY <1>1, <1>2, ReadyOK

-----------------------------------------------------------------------------
(* Lemmas on the definitions of the mode graph.                            *)

\* The controllers of a mode are controllers of the configuration.
LEMMA ActiveOK == ASSUME SMTypeOK PROVE Active \subseteq Controllers
BY DEF SMTypeOK, Active, Range

\* An accepted switch leads to a mode of the graph (state_machine.cc).
LEMMA ChangeStateOK == ASSUME NEW e, ChangeState(e) PROVE SMTypeOK'
BY ModeGraph DEF ChangeState, Legal, SMTypeOK

\* GetState answers an enum of the protocol, IDLE when no entry has the mode.
LEMMA EnumOK == GetCurrentStateEnum \in Enums
<1> DEFINE named == {e \in DOMAIN StateToName : StateToName[e] = current_state_name}
<1>1. CASE named = {}
    BY <1>1, ModeGraph DEF GetCurrentStateEnum
<1>2. CASE named # {}
    <2>1. (CHOOSE e \in named : TRUE) \in named
        BY <1>2
    <2> QED
        BY <1>2, <2>1, ModeGraph DEF GetCurrentStateEnum
<1> QED
    BY <1>1, <1>2

-----------------------------------------------------------------------------
(* The types of the variables, part by part.                               *)

\* What a handler's argument is.
CallsOK ==
    /\ call \in [Clients -> CallType]
    /\ \A p \in Clients : call[p].op = "SetVelocity" => call[p].arg \in Velocities

TickOK ==
    /\ tick \in TickType
    /\ tick.pc \in {"merge", "publish"} => tick.k <= Len(tick.names)
    /\ cmd_msg \in [Joints -> Command] /\ joint_cmd \in [Joints -> Command]

VelocityOK ==
    current_velocity \in Velocities /\ joy_data \in [Controllers -> Velocities]

SensingOK ==
    /\ imu \in DeliveryType /\ imu_data \in [Controllers -> Age]
    /\ joint \in [pc : {"idle", "deliver"}, k : Index]
    /\ joint_state_data \in [Controllers -> Age]

FreshOK == fresh \in [Controllers -> BOOLEAN]

GhostsOK ==
    /\ switcher \in Clients \cup {Nobody}
    /\ clean \in BOOLEAN
    /\ steady \subseteq Controllers /\ stayed \subseteq Controllers /\ due \subseteq Controllers

LifeOK == life \in {"initialized", "running", "stopped"}

Types == SMTypeOK /\ CallsOK /\ TickOK /\ VelocityOK /\ SensingOK /\ FreshOK /\ GhostsOK /\ LifeOK

\* Initialize leaves every variable in its type.
LEMMA InitTypes == Init => Types
<1> SUFFICES ASSUME Init PROVE Types
    OBVIOUS
<1> USE DEF Init
<1>1. SMTypeOK
    BY ModeGraph DEF SMInit, SMTypeOK
<1>2. CallsOK
    BY ReadyOK DEF CallsOK, Ready
<1>3. TickOK
    BY IndexFacts DEF TickOK, TickType, NoTick, Command
<1>4. VelocityOK
    BY Configuration DEF VelocityOK
<1>5. SensingOK
    BY IndexFacts DEF SensingOK, DeliveryType, NoDelivery, Age
<1>6. FreshOK /\ LifeOK
    BY DEF FreshOK, LifeOK
<1>7. GhostsOK
    BY <1>1, ActiveOK DEF GhostsOK
<1> QED
    BY <1>1, <1>2, <1>3, <1>4, <1>5, <1>6, <1>7 DEF Types

\* The parts together are TypeOK.
LEMMA TypesSuffice == Types => TypeOK
BY DEF Types, TypeOK, CallsOK, TickOK, VelocityOK, SensingOK, FreshOK, GhostsOK, LifeOK

-----------------------------------------------------------------------------
(* Every step keeps the types, part by part.                               *)

\* Only an accepted SetState touches the mode graph.
LEMMA SMStep == SMTypeOK /\ [Next]_vars => SMTypeOK'
<1> SUFFICES ASSUME SMTypeOK, [Next]_vars PROVE SMTypeOK'
    OBVIOUS
<1>1. CASE UNCHANGED smvars
    BY <1>1 DEF smvars, SMTypeOK
<1>2. ASSUME NEW p \in Clients, SetStateAccept(p) PROVE SMTypeOK'
    BY <1>2, ChangeStateOK DEF SetStateAccept
<1>3. ASSUME NEW p \in Clients, Call(p) \/ Handle(p), ~SetStateAccept(p)
      PROVE  UNCHANGED smvars
    BY <1>3 DEF Call, Handle, SetStateRefuse, RefuseState, SetVelocityWrite, ReadNames,
       RestartController, SetTarget, Applied, GetState, GetVelocity, Return
<1>4. ASSUME Start \/ Shutdown \/ Tick \/ ImuDataCallback \/ JointStateCallback
      PROVE  UNCHANGED smvars
    BY <1>4 DEF Start, Shutdown, Tick, TickStep, TickBegin, TickUpdate, TickThrow,
       TickMerge, TickPublish, TickEnd, ImuDataCallback, ImuBegin, SetImuData, ImuEnd,
       JointStateCallback, JointBegin, SetJointStateData, JointEnd
<1> QED
    BY <1>1, <1>2, <1>3, <1>4 DEF Next, vars

\* A step of a client leaves the calls of the others alone.
LEMMA CallsStep == SMTypeOK /\ CallsOK /\ VelocityOK /\ [Next]_vars => CallsOK'
<1> SUFFICES ASSUME SMTypeOK, CallsOK, VelocityOK, [Next]_vars PROVE CallsOK'
    OBVIOUS
<1>1. CASE UNCHANGED call
    BY <1>1 DEF CallsOK
<1>2. ASSUME NEW p \in Clients, NEW r \in CallType, call' = [call EXCEPT ![p] = r],
             r.op = "SetVelocity" => r.arg \in Velocities
      PROVE  CallsOK'
    BY <1>2 DEF CallsOK
<1>3. ASSUME NEW p \in Clients, NEW pc \in CallPC, Goto(p, pc)
      PROVE  CallsOK'
    <2>1. call' = [call EXCEPT ![p] = [call[p] EXCEPT !.pc = pc]]
        BY <1>3 DEF Goto, CallsOK
    <2>2. [call[p] EXCEPT !.pc = pc] \in CallType
        BY CallGoto DEF CallsOK
    <2>3. call[p] \in CallType /\ (call[p].op = "SetVelocity" => call[p].arg \in Velocities)
        BY DEF CallsOK
    <2>4. /\ [call[p] EXCEPT !.pc = pc].op = call[p].op
          /\ [call[p] EXCEPT !.pc = pc].arg = call[p].arg
        BY <2>3 DEF CallType
    <2> QED
        BY <1>2, <2>1, <2>2, <2>3, <2>4
<1>4. ASSUME NEW p \in Clients, NEW a \in Answers, Reply(p, a)
      PROVE  CallsOK'
    <2> DEFINE r == [call[p] EXCEPT !.pc = "answer", !.answer = a]
    <2>1. call' = [call EXCEPT ![p] = r]
        BY <1>4 DEF Reply, CallsOK
    <2>2. r \in CallType
        BY CallReply DEF CallsOK
    <2>3. call[p] \in CallType /\ (call[p].op = "SetVelocity" => call[p].arg \in Velocities)
        BY DEF CallsOK
    <2>4. r.op = call[p].op /\ r.arg = call[p].arg
        BY <2>3 DEF CallType
    <2> HIDE DEF r
    <2> QED
        BY <1>2, <2>1, <2>2, <2>3, <2>4
<1>5. ASSUME NEW p \in Clients, ReadNames(p) PROVE CallsOK'
    <2> DEFINE r == [call[p] EXCEPT !.pc = "apply", !.k = 1, !.names = controllers]
    <2>1. call' = [call EXCEPT ![p] = r]
        BY <1>5 DEF ReadNames, GetCurrentControllerNames, CallsOK
    <2>2. r \in CallType
        BY CallNames DEF CallsOK, SMTypeOK
    <2>3. call[p] \in CallType /\ (call[p].op = "SetVelocity" => call[p].arg \in Velocities)
        BY DEF CallsOK
    <2>4. r.op = call[p].op /\ r.arg = call[p].arg
        BY <2>3 DEF CallType
    <2> HIDE DEF r
    <2> QED
        BY <1>2, <2>1, <2>2, <2>3, <2>4
<1>6. ASSUME NEW p \in Clients, NEW op, Advance(p, op) PROVE CallsOK'
    <2> DEFINE r == [call[p] EXCEPT !.k = @ + 1]
    <2>1. call' = [call EXCEPT ![p] = r]
        BY <1>6 DEF Advance, CallsOK
    <2>2. r \in CallType
        BY CallAdvance DEF CallsOK
    <2>3. call[p] \in CallType /\ (call[p].op = "SetVelocity" => call[p].arg \in Velocities)
        BY DEF CallsOK
    <2>4. r.op = call[p].op /\ r.arg = call[p].arg
        BY <2>3 DEF CallType
    <2> HIDE DEF r
    <2> QED
        BY <1>2, <2>1, <2>2, <2>3, <2>4
<1>7. ASSUME NEW p \in Clients, Call(p) PROVE CallsOK'
    <2>1. PICK q \in Requests[p] :
             call' = [call EXCEPT ![p] = [Ready EXCEPT !.pc = "begin", !.op = q.op, !.arg = q.arg]]
        BY <1>7 DEF Call
    <2>2. q \in Request
        BY Configuration
    <2> DEFINE r == [Ready EXCEPT !.pc = "begin", !.op = q.op, !.arg = q.arg]
    <2>3. r \in CallType
        BY <2>2, CallBegin
    <2>4. r.op = q.op /\ r.arg = q.arg
        BY DEF Ready
    <2>5. q.op = "SetVelocity" => q.arg \in Velocities
        BY <2>2 DEF Request
    <2> HIDE DEF r
    <2> QED
        BY <1>2, <2>1, <2>3, <2>4, <2>5 DEF r
<1>8. ASSUME NEW p \in Clients, Return(p) PROVE CallsOK'
    BY <1>2, <1>8, ReadyOK DEF Return, Ready
<1>9. ASSUME NEW p \in Clients, Handle(p) PROVE CallsOK'
    <2>1. CASE SetStateAccept(p) \/ SetVelocityWrite(p)
        BY <1>3, <2>1 DEF SetStateAccept, SetVelocityWrite, CallPC
    <2>2. CASE SetStateRefuse(p) \/ Applied(p)
        BY <1>4, <2>2 DEF SetStateRefuse, Applied, Answers
    <2>3. CASE GetState(p) \/ GetVelocity(p)
        BY <1>4, <2>3, EnumOK DEF GetState, GetVelocity, Answers, VelocityOK
    <2>4. CASE RestartController(p) \/ SetTarget(p)
        BY <1>6, <2>4 DEF RestartController, SetTarget
    <2> QED
        BY <1>5, <1>8, <1>9, <2>1, <2>2, <2>3, <2>4 DEF Handle
<1>10. ASSUME Start \/ Shutdown \/ Tick \/ ImuDataCallback \/ JointStateCallback
       PROVE  UNCHANGED call
    BY <1>10 DEF Start, Shutdown, Tick, TickStep, TickBegin, TickUpdate, TickThrow,
       TickMerge, TickPublish, TickEnd, ImuDataCallback, ImuBegin, SetImuData, ImuEnd,
       JointStateCallback, JointBegin, SetJointStateData, JointEnd
<1> QED
    BY <1>1, <1>7, <1>9, <1>10 DEF Next, vars

\* A step of a client or a callback leaves the tick alone.
LEMMA TickStepOK == SMTypeOK /\ FreshOK /\ TickOK /\ [Next]_vars => TickOK'
<1> SUFFICES ASSUME SMTypeOK, FreshOK, TickOK, [Next]_vars PROVE TickOK'
    OBVIOUS
<1>1. CASE UNCHANGED ticking
    BY <1>1 DEF ticking, TickOK
<1>2. CASE TickBegin
    BY <1>2, IndexFacts DEF TickBegin, GetCurrentControllerNames, SMTypeOK, TickOK, TickType
<1>3. CASE TickUpdate
    <2>1. /\ tick.names \in Seq(Controllers) /\ tick.k \in Index /\ tick.k <= Len(tick.names)
          /\ tick.names[tick.k] \in Controllers
        BY <1>3 DEF TickUpdate, TickOK, TickType, Index
    <2>2. fresh[tick.names[tick.k]] \in BOOLEAN
        BY <2>1 DEF FreshOK
    <2>3. \A b \in BOOLEAN : [tick EXCEPT !.pc = "merge", !.fresh = b] \in TickType
        BY DEF TickOK, TickType
    <2>4. tick' \in TickType /\ tick'.k = tick.k /\ tick'.names = tick.names
        BY <1>3, <2>2, <2>3 DEF TickUpdate, TickOK, TickType
    <2> QED
        BY <1>3, <2>1, <2>4 DEF TickUpdate, TickOK
<1>4. CASE TickThrow
    BY <1>4, IndexFacts DEF TickThrow, NoTick, TickOK, TickType
<1>5. CASE TickMerge
    <2>1. /\ tick.names \in Seq(Controllers) /\ tick.k \in Index /\ tick.k <= Len(tick.names)
          /\ tick.names[tick.k] \in Controllers /\ tick.fresh \in BOOLEAN
        BY <1>5 DEF TickMerge, TickOK, TickType, Index
    <2>2. cmd_msg' \in [Joints -> Command]
        BY <1>5, <2>1 DEF TickMerge, Merge, TickOK, Command
    <2>3. tick' \in TickType /\ tick'.k = tick.k /\ tick'.names = tick.names
        BY <1>5 DEF TickMerge, TickOK, TickType
    <2> QED
        BY <1>5, <2>1, <2>2, <2>3 DEF TickMerge, TickOK
<1>6. CASE TickPublish
    BY <1>6, IndexFacts DEF TickPublish, TickOK, TickType
<1>7. CASE TickEnd
    BY <1>7, IndexFacts DEF TickEnd, NoTick, TickOK, TickType
<1>8. ASSUME NEW p \in Clients, Call(p) \/ Handle(p) PROVE UNCHANGED ticking
    BY <1>8 DEF Call, Handle, SetStateAccept, SetStateRefuse, SetVelocityWrite, ReadNames,
       RestartController, SetTarget, Applied, GetState, GetVelocity, Return
<1>9. ASSUME Start \/ Shutdown \/ ImuDataCallback \/ JointStateCallback
      PROVE  UNCHANGED ticking
    BY <1>9 DEF Start, Shutdown, ImuDataCallback, ImuBegin, SetImuData, ImuEnd,
       JointStateCallback, JointBegin, SetJointStateData, JointEnd
<1> QED
    BY <1>1, <1>2, <1>3, <1>4, <1>5, <1>6, <1>7, <1>8, <1>9 DEF Next, Tick, TickStep, vars

\* Only the velocity handlers touch the velocities.
LEMMA VelocityStep == SMTypeOK /\ CallsOK /\ VelocityOK /\ [Next]_vars => VelocityOK'
<1> SUFFICES ASSUME SMTypeOK, CallsOK, VelocityOK, [Next]_vars PROVE VelocityOK'
    OBVIOUS
<1>1. CASE UNCHANGED velocity
    BY <1>1 DEF velocity, VelocityOK
<1>2. ASSUME NEW p \in Clients, SetVelocityWrite(p) PROVE VelocityOK'
    BY <1>2 DEF SetVelocityWrite, At, CallsOK, VelocityOK
<1>3. ASSUME NEW p \in Clients, SetTarget(p) PROVE VelocityOK'
    <2>1. call[p].arg \in Velocities
        BY <1>3 DEF SetTarget, Advance, At, CallsOK
    <2> QED
        BY <1>3, <2>1 DEF SetTarget, VelocityOK
<1>4. ASSUME NEW p \in Clients, Call(p) \/ Handle(p), ~SetVelocityWrite(p), ~SetTarget(p)
      PROVE  UNCHANGED velocity
    BY <1>4 DEF Call, Handle, SetStateAccept, SetStateRefuse, ReadNames,
       RestartController, Applied, GetState, GetVelocity, Return
<1>5. ASSUME Start \/ Shutdown \/ Tick \/ ImuDataCallback \/ JointStateCallback
      PROVE  UNCHANGED velocity
    BY <1>5 DEF Start, Shutdown, Tick, TickStep, TickBegin, TickUpdate, TickThrow,
       TickMerge, TickPublish, TickEnd, ImuDataCallback, ImuBegin, SetImuData, ImuEnd,
       JointStateCallback, JointBegin, SetJointStateData, JointEnd
<1> QED
    BY <1>1, <1>2, <1>3, <1>4, <1>5 DEF Next, vars

\* Only the callbacks touch the sensor data.
LEMMA SensingStep == SMTypeOK /\ SensingOK /\ [Next]_vars => SensingOK'
<1> SUFFICES ASSUME SMTypeOK, SensingOK, [Next]_vars PROVE SensingOK'
    OBVIOUS
<1>1. CASE UNCHANGED sensing
    BY <1>1 DEF sensing, SensingOK
<1>2. CASE ImuBegin
    BY <1>2, IndexFacts DEF ImuBegin, GetCurrentControllerNames, SMTypeOK, SensingOK, DeliveryType
<1>3. CASE SetImuData
    <2>1. imu' \in DeliveryType
        BY <1>3, IndexFacts DEF SetImuData, SensingOK, DeliveryType
    <2> QED
        BY <1>3, <2>1 DEF SetImuData, SensingOK, Age
<1>4. CASE ImuEnd
    BY <1>4, IndexFacts DEF ImuEnd, SensingOK, NoDelivery, DeliveryType, Aged, Age
<1>5. CASE JointBegin \/ SetJointStateData \/ JointEnd
    BY <1>5, IndexFacts DEF JointBegin, SetJointStateData, JointEnd, SensingOK, Aged, Age
<1>6. ASSUME NEW p \in Clients, Call(p) \/ Handle(p) PROVE UNCHANGED sensing
    BY <1>6 DEF Call, Handle, SetStateAccept, SetStateRefuse, SetVelocityWrite, ReadNames,
       RestartController, SetTarget, Applied, GetState, GetVelocity, Return
<1>7. ASSUME Start \/ Shutdown \/ Tick PROVE UNCHANGED sensing
    BY <1>7 DEF Start, Shutdown, Tick, TickStep, TickBegin, TickUpdate, TickThrow,
       TickMerge, TickPublish, TickEnd
<1> QED
    BY <1>1, <1>2, <1>3, <1>4, <1>5, <1>6, <1>7
    DEF Next, vars, ImuDataCallback, JointStateCallback

\* Only SetState touches what is recorded of the restarts.
LEMMA FreshStep == FreshOK /\ [Next]_vars => FreshOK'
<1> SUFFICES ASSUME FreshOK, [Next]_vars PROVE FreshOK'
    OBVIOUS
<1>1. CASE UNCHANGED fresh
    BY <1>1 DEF FreshOK
<1>2. ASSUME NEW p \in Clients, SetStateAccept(p) PROVE FreshOK'
    BY <1>2 DEF SetStateAccept, FreshOK
<1>3. ASSUME NEW p \in Clients, RestartController(p) PROVE FreshOK'
    BY <1>3 DEF RestartController, FreshOK
<1>4. ASSUME NEW p \in Clients, Call(p) \/ Handle(p), ~SetStateAccept(p), ~RestartController(p)
      PROVE  UNCHANGED fresh
    BY <1>4 DEF Call, Handle, SetStateRefuse, SetVelocityWrite, ReadNames,
       SetTarget, Applied, GetState, GetVelocity, Return, ghosts
<1>5. ASSUME Start \/ Shutdown \/ Tick \/ ImuDataCallback \/ JointStateCallback
      PROVE  UNCHANGED fresh
    BY <1>5 DEF Start, Shutdown, Tick, TickStep, TickBegin, TickUpdate, TickThrow,
       TickMerge, TickPublish, TickEnd, ImuDataCallback, ImuBegin, SetImuData, ImuEnd,
       JointStateCallback, JointBegin, SetJointStateData, JointEnd, ghosts
<1> QED
    BY <1>1, <1>2, <1>3, <1>4, <1>5 DEF Next, vars, ghosts

\* What the properties record is updated by the steps it is about only.
LEMMA GhostsStep == SMTypeOK /\ SMTypeOK' /\ FreshOK /\ GhostsOK /\ [Next]_vars => GhostsOK'
<1> SUFFICES ASSUME SMTypeOK, SMTypeOK', FreshOK, GhostsOK, [Next]_vars PROVE GhostsOK'
    OBVIOUS
<1> USE DEF GhostsOK
<1>1. Active \subseteq Controllers
    BY ActiveOK
<1>2. CASE UNCHANGED ghosts
    BY <1>2 DEF ghosts
<1>3. CASE TickBegin \/ TickThrow
    BY <1>3 DEF TickBegin, TickThrow, FreshOK
<1>4. CASE ImuBegin \/ ImuEnd
    BY <1>1, <1>4 DEF ImuBegin, ImuEnd
<1>5. ASSUME NEW p \in Clients, SetStateAccept(p) PROVE GhostsOK'
    BY <1>5 DEF SetStateAccept
<1>6. ASSUME NEW p \in Clients, SetVelocityWrite(p) \/ RestartController(p) PROVE GhostsOK'
    BY <1>1, <1>6 DEF SetVelocityWrite, RestartController
<1>7. ASSUME NEW p \in Clients, Call(p) \/ Handle(p), ~SetStateAccept(p),
             ~SetVelocityWrite(p), ~RestartController(p)
      PROVE  UNCHANGED ghosts
    BY <1>7 DEF Call, Handle, SetStateRefuse, ReadNames, SetTarget, Applied, GetState,
       GetVelocity, Return
<1>8. ASSUME Start \/ Shutdown \/ Tick \/ ImuDataCallback \/ JointStateCallback,
             ~TickBegin, ~TickThrow, ~ImuBegin, ~ImuEnd
      PROVE  UNCHANGED ghosts
    BY <1>8 DEF Start, Shutdown, Tick, TickStep, TickUpdate, TickMerge, TickPublish,
       TickEnd, ImuDataCallback, SetImuData, JointStateCallback, JointBegin,
       SetJointStateData, JointEnd
<1> QED
    BY <1>2, <1>3, <1>4, <1>5, <1>6, <1>7, <1>8 DEF Next, vars

\* Only Start and Shutdown touch the life of the module.
LEMMA LifeStep == LifeOK /\ [Next]_vars => LifeOK'
<1> SUFFICES ASSUME LifeOK, [Next]_vars PROVE LifeOK'
    OBVIOUS
<1>1. CASE UNCHANGED life
    BY <1>1 DEF LifeOK
<1>2. CASE Start \/ Shutdown
    BY <1>2 DEF Start, Shutdown, LifeOK
<1>3. ASSUME NEW p \in Clients, Call(p) \/ Handle(p) PROVE UNCHANGED life
    BY <1>3 DEF Call, Handle, SetStateAccept, SetStateRefuse, SetVelocityWrite, ReadNames,
       RestartController, SetTarget, Applied, GetState, GetVelocity, Return
<1>4. ASSUME Tick \/ ImuDataCallback \/ JointStateCallback PROVE UNCHANGED life
    BY <1>4 DEF Tick, TickStep, TickBegin, TickUpdate, TickThrow, TickMerge, TickPublish,
       TickEnd, ImuDataCallback, ImuBegin, SetImuData, ImuEnd, JointStateCallback,
       JointBegin, SetJointStateData, JointEnd
<1> QED
    BY <1>1, <1>2, <1>3, <1>4 DEF Next, vars

\* Every step keeps all parts.
LEMMA TypesStep == Types /\ [Next]_vars => Types'
BY SMStep, CallsStep, TickStepOK, VelocityStep, SensingStep, FreshStep, GhostsStep, LifeStep
DEF Types

\* The types hold in every state.
LEMMA TypesHold == Spec => []Types
BY InitTypes, TypesStep, PTL DEF Spec

(* Every variable of the control module keeps its type, whatever the mode  *)
(* graph, the controllers and the clients.                                 *)
THEOREM TypeCorrect == Spec => []TypeOK
<1>1. Types => TypeOK
    BY TypesSuffice
<1> QED
    BY TypesHold, <1>1, PTL

-----------------------------------------------------------------------------
(* RestartedUnlessSwitching.  A handler still has to restart a controller  *)
(* of the mode that is current when it copies the names: until then it     *)
(* owes every controller, afterwards the remaining names, which lose only  *)
(* the controller that is restarted.                                       *)

\* A handler ends only when no name remains.
LEMMA NoneRemains ==
    ASSUME NEW t, t.names \in Seq(Controllers), t.k \in Index, t.k > Len(t.names)
    PROVE  Remaining(t) = {}
BY DEF Remaining, Index

\* The copy of the names owes them all.
LEMMA AllRemain ==
    ASSUME NEW t, t.names \in Seq(Controllers), t.k = 1
    PROVE  Remaining(t) = Range(t.names)
BY DEF Remaining, Range

\* One restart takes one name away.
LEMMA OneLess ==
    ASSUME NEW t, NEW u, t.names \in Seq(Controllers), t.k \in Index,
           u.names = t.names, u.k = t.k + 1, t.k <= Len(t.names)
    PROVE  Remaining(t) \subseteq Remaining(u) \cup {t.names[t.k]}
<1> SUFFICES ASSUME NEW i \in DOMAIN t.names, i >= t.k
             PROVE  t.names[i] \in Remaining(u) \cup {t.names[t.k]}
    BY DEF Remaining
<1>1. CASE i = t.k
    BY <1>1
<1>2. CASE i # t.k
    <2>1. i \in Nat /\ t.k \in Nat
        BY DEF Index
    <2>2. i >= t.k + 1
        BY <1>2, <2>1
    <2> QED
        BY <2>2 DEF Remaining
<1> QED
    BY <1>1, <1>2

\* A step of a client that owes nothing takes nothing away.
LEMMA OwesNothing ==
    ASSUME RestartedUnlessSwitching, CallsOK, NEW p \in Clients,
           UNCHANGED <<controllers, fresh>>,
           \A q \in Clients \ {p} : call'[q] = call[q],
           \A c \in Active : ~WillRestart(p, c)
    PROVE  RestartedUnlessSwitching'
<1> SUFFICES ASSUME NEW c \in Active, ~fresh[c]
             PROVE  \E q \in Clients : WillRestart(q, c)'
    BY DEF RestartedUnlessSwitching, Active
<1>1. PICK q \in Clients : WillRestart(q, c)
    BY DEF RestartedUnlessSwitching
<1>2. call'[q] = call[q]
    BY <1>1
<1> QED
    BY <1>1, <1>2 DEF WillRestart

\* Only an accepted switch, a copy of the names, a restart and the end of a
\* loop touch what the property speaks of; each keeps it.
LEMMA RestartedStep ==
    Types /\ RestartedUnlessSwitching /\ [Next]_vars => RestartedUnlessSwitching'
<1> SUFFICES ASSUME Types, RestartedUnlessSwitching, [Next]_vars
             PROVE  RestartedUnlessSwitching'
    OBVIOUS
<1> USE DEF Types
<1>1. CASE UNCHANGED <<controllers, fresh, call>>
    BY <1>1 DEF RestartedUnlessSwitching, Active, WillRestart
<1>2. ASSUME NEW p \in Clients, SetStateAccept(p) PROVE RestartedUnlessSwitching'
    <2>1. call'[p].pc = "names" /\ call'[p].op = "SetState"
        BY <1>2 DEF SetStateAccept, At, Goto, CallsOK, CallType
    <2> QED
        BY <2>1 DEF RestartedUnlessSwitching, WillRestart
<1>3. ASSUME NEW p \in Clients, ReadNames(p) PROVE RestartedUnlessSwitching'
    <2>1. /\ UNCHANGED <<controllers, fresh>>
          /\ \A q \in Clients \ {p} : call'[q] = call[q]
          /\ call[p].pc = "names"
        BY <1>3 DEF ReadNames, CallsOK, smvars, ghosts
    <2>2. CASE call[p].op = "SetState"
        <3>1. /\ call'[p].op = "SetState" /\ call'[p].pc = "apply"
              /\ call'[p].names = controllers /\ call'[p].k = 1
            BY <1>3, <2>2 DEF ReadNames, GetCurrentControllerNames, CallsOK, CallType
        <3>2. Remaining(call'[p]) = Range(controllers')
            BY <2>1, <3>1, AllRemain DEF SMTypeOK
        <3>3. \A c \in Active' : WillRestart(p, c)'
            BY <3>1, <3>2 DEF WillRestart, Active
        <3> QED
            BY <3>3 DEF RestartedUnlessSwitching
    <2>3. CASE call[p].op # "SetState"
        BY <2>1, <2>3, OwesNothing DEF WillRestart
    <2> QED
        BY <2>2, <2>3
<1>4. ASSUME NEW p \in Clients, RestartController(p) PROVE RestartedUnlessSwitching'
    <2> DEFINE c0 == call[p].names[call[p].k]
    <2>1. /\ call[p].op = "SetState" /\ call[p].pc = "apply"
          /\ call[p].k <= Len(call[p].names)
          /\ UNCHANGED controllers
          /\ \A q \in Clients \ {p} : call'[q] = call[q]
        BY <1>4 DEF RestartController, Advance, At, CallsOK, smvars
    <2>2. call[p].names \in Seq(Controllers) /\ call[p].k \in Index
        BY DEF CallsOK, CallType
    <2>3. /\ call'[p].op = "SetState" /\ call'[p].pc = "apply"
          /\ call'[p].names = call[p].names /\ call'[p].k = call[p].k + 1
        BY <1>4, <2>1 DEF RestartController, Advance, CallsOK, CallType
    <2>4. Remaining(call[p]) \subseteq Remaining(call'[p]) \cup {c0}
        BY <2>1, <2>2, <2>3, OneLess
    <2>5. c0 \in Controllers
        BY <2>1, <2>2 DEF Index
    <2>6. fresh' = [fresh EXCEPT ![c0] = TRUE]
        BY <1>4 DEF RestartController
    <2> HIDE DEF c0
    <2> SUFFICES ASSUME NEW c \in Active, ~fresh'[c]
                 PROVE  \E q \in Clients : WillRestart(q, c)'
        BY <2>1 DEF RestartedUnlessSwitching, Active
    <2>7. c # c0 /\ ~fresh[c]
        BY <2>5, <2>6, ActiveOK DEF FreshOK
    <2>8. PICK q \in Clients : WillRestart(q, c)
        BY <2>7 DEF RestartedUnlessSwitching
    <2>9. CASE q = p
        <3>1. c \in Remaining(call[p])
            BY <2>1, <2>8, <2>9 DEF WillRestart
        <3> QED
            BY <2>3, <2>4, <2>7, <3>1 DEF WillRestart
    <2>10. CASE q # p
        <3>1. call'[q] = call[q]
            BY <2>1, <2>10
        <3> QED
            BY <2>8, <3>1 DEF WillRestart
    <2> QED
        BY <2>9, <2>10
<1>5. ASSUME NEW p \in Clients, Applied(p) PROVE RestartedUnlessSwitching'
    <2>1. /\ call[p].pc = "apply" /\ call[p].k > Len(call[p].names)
          /\ UNCHANGED <<controllers, fresh>>
          /\ \A q \in Clients \ {p} : call'[q] = call[q]
        BY <1>5 DEF Applied, Reply, CallsOK, smvars, ghosts
    <2>2. Remaining(call[p]) = {}
        BY <2>1, NoneRemains DEF CallsOK, CallType
    <2> QED
        BY <2>1, <2>2, OwesNothing DEF WillRestart
<1>6. ASSUME NEW p \in Clients,
             Call(p) \/ SetStateRefuse(p) \/ SetVelocityWrite(p) \/ SetTarget(p)
             \/ GetState(p) \/ GetVelocity(p) \/ Return(p)
      PROVE  RestartedUnlessSwitching'
    <2>1. /\ UNCHANGED <<controllers, fresh>>
          /\ \A q \in Clients \ {p} : call'[q] = call[q]
        BY <1>6 DEF Call, SetStateRefuse, RefuseState, SetVelocityWrite, SetTarget, GetState,
           GetVelocity, Return, Goto, Reply, Advance, CallsOK, smvars, ghosts
    <2>2. call[p].op # "SetState" \/ call[p].pc \notin {"names", "apply"}
        BY <1>6 DEF Call, SetStateRefuse, SetVelocityWrite, SetTarget, GetState,
           GetVelocity, Return, Advance, At
    <2> QED
        BY <2>1, <2>2, OwesNothing DEF WillRestart
<1>7. ASSUME Start \/ Shutdown \/ Tick \/ ImuDataCallback \/ JointStateCallback
      PROVE  UNCHANGED <<controllers, fresh, call>>
    BY <1>7 DEF Start, Shutdown, Tick, TickStep, TickBegin, TickUpdate, TickThrow,
       TickMerge, TickPublish, TickEnd, ImuDataCallback, ImuBegin, SetImuData, ImuEnd,
       JointStateCallback, JointBegin, SetJointStateData, JointEnd, smvars, ghosts
<1> QED
    BY <1>1, <1>2, <1>3, <1>4, <1>5, <1>6, <1>7 DEF Next, Handle, vars, smvars, ghosts

(* With any number of clients switching against each other, a controller   *)
(* of the current mode that has not been restarted in it is still owed a   *)
(* restart by some SetState handler (control_module.cc:203-208).           *)
THEOREM RestartedHolds == Spec => []RestartedUnlessSwitching
<1>1. Init => RestartedUnlessSwitching
    <2> SUFFICES ASSUME Init PROVE \A c \in Active : fresh[c]
        BY DEF RestartedUnlessSwitching
    <2>1. Active \subseteq Controllers
        BY InitTypes, ActiveOK DEF Types
    <2> QED
        BY <2>1 DEF Init
<1> QED
    BY <1>1, InitTypes, TypesStep, RestartedStep, PTL DEF Spec

-----------------------------------------------------------------------------
(* What reaches the controllers, and what they send: sensor messages,      *)
(* start poses, velocities and the commands of a settled tick.             *)

\* The controller a loop over a copied list has come to.
LEMMA CurrentName ==
    ASSUME NEW t, t.names \in Seq(Controllers), t.k \in Index, t.k <= Len(t.names)
    PROVE  t.names[t.k] \in Controllers
BY DEF Index

-----------------------------------------------------------------------------
(* ImuReachesDue.  A controller that has been active since the names were  *)
(* copied has the message or is still to be given it.                      *)
Reaching ==
    imu.pc = "deliver" => \A c \in stayed : imu_data[c] = "new" \/ c \in Remaining(imu)

ImuInv == ImuReachesDue /\ Reaching

\* Only the delivery and an accepted switch touch what the property speaks of.
LEMMA ImuStep == Types /\ ImuInv /\ [Next]_vars => ImuInv'
<1> SUFFICES ASSUME Types, ImuInv, [Next]_vars PROVE ImuInv'
    OBVIOUS
<1> USE DEF Types
<1>1. CASE UNCHANGED <<imu, imu_data, stayed, due>>
    BY <1>1 DEF ImuInv, ImuReachesDue, Reaching, Remaining
<1>2. CASE ImuBegin
    <2>1. /\ imu'.names = controllers /\ imu'.k = 1 /\ stayed' = Active
          /\ UNCHANGED <<imu_data, due>>
        BY <1>2 DEF ImuBegin, GetCurrentControllerNames
    <2>2. Remaining(imu') = Range(controllers)
        BY <2>1, AllRemain DEF SMTypeOK
    <2>3. \A c \in stayed' : c \in Remaining(imu')
        BY <2>1, <2>2 DEF Active
    <2> QED
        BY <2>1, <2>3 DEF ImuInv, ImuReachesDue, Reaching
<1>3. CASE SetImuData
    <2> DEFINE c0 == imu.names[imu.k]
    <2>1. /\ imu.pc = "deliver" /\ imu.k <= Len(imu.names)
          /\ imu_data' = [imu_data EXCEPT ![c0] = "new"]
          /\ imu' = [imu EXCEPT !.k = @ + 1]
          /\ UNCHANGED <<stayed, due>>
        BY <1>3 DEF SetImuData, ghosts
    <2>2. imu.names \in Seq(Controllers) /\ imu.k \in Index
        BY DEF SensingOK, DeliveryType
    <2>3. imu'.names = imu.names /\ imu'.k = imu.k + 1
        BY <2>1 DEF SensingOK, DeliveryType
    <2>4. Remaining(imu) \subseteq Remaining(imu') \cup {c0}
        BY <2>1, <2>2, <2>3, OneLess
    <2>5. c0 \in Controllers
        BY <2>1, <2>2, CurrentName
    <2>6. \A c \in Controllers : imu_data'[c] = IF c = c0 THEN "new" ELSE imu_data[c]
        BY <2>1, <2>5 DEF SensingOK
    <2> HIDE DEF c0
    <2>7. stayed \subseteq Controllers /\ due \subseteq Controllers
        BY DEF GhostsOK
    <2> QED
        BY <2>1, <2>4, <2>6, <2>7 DEF ImuInv, ImuReachesDue, Reaching
<1>4. CASE ImuEnd
    <2>1. /\ imu.pc = "deliver" /\ imu.k > Len(imu.names)
          /\ imu_data' = Aged(imu_data) /\ imu' = NoDelivery
          /\ due' = stayed
        BY <1>4 DEF ImuEnd
    <2>2. Remaining(imu) = {}
        BY <2>1, NoneRemains DEF SensingOK, DeliveryType
    <2>3. \A c \in stayed : imu_data[c] = "new" /\ c \in Controllers
        BY <2>1, <2>2 DEF ImuInv, Reaching, GhostsOK
    <2>4. \A c \in stayed : imu_data'[c] = "last"
        BY <2>1, <2>3 DEF Aged
    <2>5. imu'.pc = "idle"
        BY <2>1 DEF NoDelivery
    <2> QED
        BY <2>1, <2>4, <2>5 DEF ImuInv, ImuReachesDue, Reaching
<1>5. ASSUME NEW p \in Clients, SetStateAccept(p) PROVE ImuInv'
    <2>1. /\ UNCHANGED <<imu, imu_data>>
          /\ stayed' \subseteq stayed /\ due' \subseteq due
        BY <1>5 DEF SetStateAccept, sensing
    <2> QED
        BY <2>1 DEF ImuInv, ImuReachesDue, Reaching, Remaining
<1>6. ASSUME NEW p \in Clients, Call(p) \/ Handle(p), ~SetStateAccept(p)
      PROVE  UNCHANGED <<imu, imu_data, stayed, due>>
    BY <1>6 DEF Call, Handle, SetStateRefuse, SetVelocityWrite, ReadNames,
       RestartController, SetTarget, Applied, GetState, GetVelocity, Return, ghosts, sensing
<1>7. ASSUME Start \/ Shutdown \/ Tick \/ JointStateCallback
      PROVE  UNCHANGED <<imu, imu_data, stayed, due>>
    BY <1>7 DEF Start, Shutdown, Tick, TickStep, TickBegin, TickUpdate, TickThrow,
       TickMerge, TickPublish, TickEnd, JointStateCallback, JointBegin, SetJointStateData,
       JointEnd, ghosts, sensing
<1> QED
    BY <1>1, <1>2, <1>3, <1>4, <1>5, <1>6, <1>7
    DEF Next, ImuDataCallback, vars, ghosts, sensing

(* An IMU message delivered to the end has reached every controller that   *)
(* was active when its delivery began and still is, switches in the middle *)
(* of the loop included (control_module.cc:168-173).                       *)
THEOREM ImuHolds == Spec => []ImuReachesDue
<1>1. Init => ImuInv
    BY DEF Init, ImuInv, ImuReachesDue, Reaching, NoDelivery
<1>2. ImuInv => ImuReachesDue
    BY DEF ImuInv
<1> QED
    BY <1>1, <1>2, ImuStep, TypesHold, PTL DEF Spec

-----------------------------------------------------------------------------
(* RestartFromLatestPose.  A delivery of joint states ends when every      *)
(* controller of the map has the message, and the map has them all.        *)
Latest ==
    /\ \A c \in Controllers : joint_state_data[c] # "old"
    /\ joint.pc = "deliver" =>
          \A c \in Controllers :
              \/ joint_state_data[c] = "new"
              \/ \E i \in DOMAIN ControllerMap : i >= joint.k /\ ControllerMap[i] = c

\* Only the delivery itself touches the joint states.
LEMMA LatestStep == Types /\ Latest /\ [Next]_vars => Latest'
<1> SUFFICES ASSUME Types, Latest, [Next]_vars PROVE Latest'
    OBVIOUS
<1> USE DEF Types
<1>1. CASE UNCHANGED <<joint, joint_state_data>>
    BY <1>1 DEF Latest
<1>2. ControllerMap \in Seq(Controllers) /\ DOMAIN ControllerMap = 1 .. Len(ControllerMap)
      /\ Len(ControllerMap) \in Nat
    BY Configuration
<1>3. CASE JointBegin
    <2>1. joint'.k = 1 /\ UNCHANGED joint_state_data
        BY <1>3 DEF JointBegin
    <2>2. \A c \in Controllers : \E i \in DOMAIN ControllerMap : i >= 1 /\ ControllerMap[i] = c
        BY <1>2, Configuration DEF Range
    <2> QED
        BY <2>1, <2>2 DEF Latest
<1>4. CASE SetJointStateData
    <2> DEFINE c0 == ControllerMap[joint.k]
    <2>1. /\ joint.pc = "deliver" /\ joint.k <= Len(ControllerMap)
          /\ joint_state_data' = [joint_state_data EXCEPT ![c0] = "new"]
          /\ joint' = [joint EXCEPT !.k = @ + 1]
        BY <1>4 DEF SetJointStateData
    <2>2. joint.k \in Nat \ {0} /\ joint'.k = joint.k + 1 /\ joint'.pc = "deliver"
        BY <2>1 DEF SensingOK, Index
    <2>3. c0 \in Controllers
        BY <1>2, <2>1, <2>2
    <2>4. \A c \in Controllers :
              joint_state_data'[c] = IF c = c0 THEN "new" ELSE joint_state_data[c]
        BY <2>1, <2>3 DEF SensingOK
    <2>5. \A i \in DOMAIN ControllerMap :
              i >= joint.k => i >= joint.k + 1 \/ ControllerMap[i] = c0
        BY <1>2, <2>2
    <2> HIDE DEF c0
    <2> QED
        BY <2>1, <2>2, <2>4, <2>5 DEF Latest
<1>5. CASE JointEnd
    <2>1. /\ joint.pc = "deliver" /\ joint.k > Len(ControllerMap)
          /\ joint_state_data' = Aged(joint_state_data)
          /\ joint'.pc = "idle"
        BY <1>5 DEF JointEnd
    <2>2. \A i \in DOMAIN ControllerMap : ~(i >= joint.k)
        BY <1>2, <2>1 DEF SensingOK, Index
    <2>3. \A c \in Controllers : joint_state_data[c] = "new"
        BY <2>1, <2>2 DEF Latest
    <2>4. \A c \in Controllers : joint_state_data'[c] = "last"
        BY <2>1, <2>3 DEF Aged
    <2> QED
        BY <2>1, <2>4 DEF Latest
<1>6. ASSUME NEW p \in Clients, Call(p) \/ Handle(p)
      PROVE  UNCHANGED <<joint, joint_state_data>>
    BY <1>6 DEF Call, Handle, SetStateAccept, SetStateRefuse, SetVelocityWrite, ReadNames,
       RestartController, SetTarget, Applied, GetState, GetVelocity, Return, sensing
<1>7. ASSUME Start \/ Shutdown \/ Tick \/ ImuDataCallback
      PROVE  UNCHANGED <<joint, joint_state_data>>
    BY <1>7 DEF Start, Shutdown, Tick, TickStep, TickBegin, TickUpdate, TickThrow,
       TickMerge, TickPublish, TickEnd, ImuDataCallback, ImuBegin, SetImuData, ImuEnd, sensing
<1> QED
    BY <1>1, <1>3, <1>4, <1>5, <1>6, <1>7 DEF Next, JointStateCallback, vars, sensing

(* A controller that SetState restarts takes its start pose from the       *)
(* latest delivered joint states or newer ones, however long it was        *)
(* inactive (control_module.cc:193-195, 206-208, pd_controller.cc:61-63).  *)
THEOREM PoseHolds == Spec => RestartFromLatestPose
<1>1. Init => Latest
    BY DEF Init, Latest
<1>2. ASSUME Types, Latest, NEW p \in Clients, RestartController(p)
      PROVE  joint_state_data[call[p].names[call[p].k]] # "old"
    <2>1. /\ call[p].k <= Len(call[p].names)
          /\ call[p].names \in Seq(Controllers) /\ call[p].k \in Index
        BY <1>2 DEF RestartController, Advance, Types, CallsOK, CallType
    <2>2. call[p].names[call[p].k] \in Controllers
        BY <2>1, CurrentName
    <2> QED
        BY <1>2, <2>2 DEF Latest
<1>3. Types /\ Latest =>
          [\A p \in Clients : RestartController(p) =>
              joint_state_data[call[p].names[call[p].k]] # "old"]_vars
    BY <1>2
<1>4. Spec => []Latest
    BY <1>1, LatestStep, TypesHold, PTL DEF Spec
<1> QED
    BY <1>3, <1>4, TypesHold, PTL DEF RestartFromLatestPose

-----------------------------------------------------------------------------
(* VelocityReachesSteady.  The one client that sets velocities has written *)
(* the current one, and a controller that stays active has it or is still  *)
(* to be given it.                                                         *)
Asked ==
    \A p \in Clients : call[p].op \in {"SetVelocity", "GetVelocity"} =>
        \E r \in Requests[p] : r.op \in {"SetVelocity", "GetVelocity"}

Setting(p) == call[p].op = "SetVelocity" /\ call[p].pc \in {"names", "apply"}
Given(p, c) == Setting(p) /\ (call[p].pc = "apply" => c \in Remaining(call[p]))

Follows ==
    /\ steady \subseteq Active
    /\ \A p \in Clients : Setting(p) => call[p].arg = current_velocity
    /\ \A c \in steady : joy_data[c] = current_velocity \/ \E p \in Clients : Given(p, c)

\* A client is inside a handler that it may call.
LEMMA AskedStep == Types /\ Asked /\ [Next]_vars => Asked'
<1> SUFFICES ASSUME Types, Asked, [Next]_vars PROVE Asked'
    OBVIOUS
<1> USE DEF Types
<1>1. CASE UNCHANGED call
    BY <1>1 DEF Asked
<1>2. ASSUME NEW p \in Clients, \A q \in Clients \ {p} : call'[q] = call[q],
             call'[p].op \in {"none", call[p].op}
      PROVE  Asked'
    BY <1>2 DEF Asked
<1>3. ASSUME NEW p \in Clients, Call(p) PROVE Asked'
    <2>1. PICK r \in Requests[p] :
             call' = [call EXCEPT ![p] = [Ready EXCEPT !.pc = "begin", !.op = r.op, !.arg = r.arg]]
        BY <1>3 DEF Call
    <2>2. [Ready EXCEPT !.pc = "begin", !.op = r.op, !.arg = r.arg].op = r.op
        BY DEF Ready
    <2>3. call'[p].op = r.op /\ \A q \in Clients \ {p} : call'[q] = call[q]
        BY <2>1, <2>2 DEF CallsOK
    <2> QED
        BY <2>3 DEF Asked
<1>4. ASSUME NEW p \in Clients, Handle(p) PROVE Asked'
    <2>1. call[p] \in CallType
        BY DEF CallsOK
    <2>2. \A q \in Clients \ {p} : call'[q] = call[q]
        BY <1>4 DEF Handle, SetStateAccept, SetStateRefuse, SetVelocityWrite, ReadNames,
           RestartController, SetTarget, Applied, GetState, GetVelocity, Return, Goto,
           Reply, Advance, CallsOK
    <2>3. call'[p].op \in {"none", call[p].op}
        BY <1>4, <2>1 DEF Handle, SetStateAccept, SetStateRefuse, SetVelocityWrite, ReadNames,
           RestartController, SetTarget, Applied, GetState, GetVelocity, Return, Goto,
           Reply, Advance, CallsOK, CallType, Ready
    <2> QED
        BY <1>2, <2>2, <2>3
<1>5. ASSUME Start \/ Shutdown \/ Tick \/ ImuDataCallback \/ JointStateCallback
      PROVE  UNCHANGED call
    BY <1>5 DEF Start, Shutdown, Tick, TickStep, TickBegin, TickUpdate, TickThrow,
       TickMerge, TickPublish, TickEnd, ImuDataCallback, ImuBegin, SetImuData, ImuEnd,
       JointStateCallback, JointBegin, SetJointStateData, JointEnd
<1> QED
    BY <1>1, <1>3, <1>4, <1>5 DEF Next, vars

\* A step of a client that sets no velocity takes nothing away.
LEMMA SetsNothing ==
    ASSUME Follows, NEW p \in Clients, UNCHANGED <<current_velocity, joy_data>>,
           steady' \subseteq steady, steady' \subseteq Active',
           \A q \in Clients \ {p} : call'[q] = call[q],
           \A c \in steady : ~Given(p, c), ~Setting(p)'
    PROVE  Follows'
<1>1. \A q \in Clients : Setting(q)' => q # p /\ Setting(q) /\ call'[q] = call[q]
    BY DEF Setting
<1>2. \A q \in Clients : Setting(q)' => call'[q].arg = current_velocity'
    BY <1>1 DEF Follows
<1>3. ASSUME NEW c \in steady', joy_data'[c] # current_velocity'
      PROVE  \E q \in Clients : Given(q, c)'
    <2>1. PICK q \in Clients : Given(q, c)
        BY <1>3 DEF Follows
    <2>2. q # p /\ call'[q] = call[q]
        BY <1>3, <2>1
    <2> QED
        BY <2>1, <2>2 DEF Given, Setting
<1> QED
    BY <1>2, <1>3 DEF Follows

\* Only one client sets velocities.
LEMMA OneSets ==
    ASSUME Asked, NEW p \in Clients, NEW q \in Clients,
           call[p].op = "SetVelocity", call[q].op = "SetVelocity"
    PROVE  p = q
BY OneVelocityClient DEF Asked

\* The steps of SetVelocity, an accepted switch, and everything else.
LEMMA FollowsStep == Types /\ Asked /\ Follows /\ [Next]_vars => Follows'
<1> SUFFICES ASSUME Types, Asked, Follows, [Next]_vars PROVE Follows'
    OBVIOUS
<1> USE DEF Types
<1>1. CASE UNCHANGED <<controllers, call, current_velocity, joy_data, steady>>
    BY <1>1 DEF Follows, Active, Setting, Given
<1>2. ASSUME NEW p \in Clients, SetStateAccept(p) PROVE Follows'
    <2>1. /\ UNCHANGED <<current_velocity, joy_data>>
          /\ steady' \subseteq steady /\ steady' \subseteq Active'
          /\ \A q \in Clients \ {p} : call'[q] = call[q]
          /\ call[p].op = "SetState" /\ call'[p].op = "SetState"
        BY <1>2 DEF SetStateAccept, At, Goto, CallsOK, CallType, velocity
    <2> QED
        BY <2>1, SetsNothing DEF Given, Setting
<1>3. ASSUME NEW p \in Clients, SetVelocityWrite(p) PROVE Follows'
    <2>1. /\ call[p].op = "SetVelocity" /\ call'[p].op = "SetVelocity"
          /\ call'[p].pc = "names" /\ call'[p].arg = call[p].arg
          /\ current_velocity' = call[p].arg /\ steady' = Active /\ controllers' = controllers
          /\ \A q \in Clients \ {p} : call'[q] = call[q]
        BY <1>3 DEF SetVelocityWrite, At, Goto, CallsOK, CallType, smvars
    <2>2. \A q \in Clients : Setting(q)' => q = p
        BY <2>1, OneSets DEF Setting
    <2>3. \A c \in steady' : Given(p, c)'
        BY <2>1 DEF Given, Setting
    <2> QED
        BY <2>1, <2>2, <2>3 DEF Follows, Active
<1>4. ASSUME NEW p \in Clients, ReadNames(p) PROVE Follows'
    <2>1. /\ call[p].pc = "names" /\ call'[p].pc = "apply" /\ call'[p].k = 1
          /\ call'[p].names = controllers
          /\ call'[p].op = call[p].op /\ call'[p].arg = call[p].arg
          /\ \A q \in Clients \ {p} : call'[q] = call[q]
          /\ UNCHANGED <<controllers, current_velocity, joy_data, steady>>
        BY <1>4 DEF ReadNames, GetCurrentControllerNames, CallsOK, CallType, smvars,
           velocity, ghosts
    <2>2. CASE call[p].op = "SetVelocity"
        <3>1. Remaining(call'[p]) = Range(controllers)
            BY <2>1, AllRemain DEF SMTypeOK
        <3>2. \A c \in steady' : Given(p, c)'
            BY <2>1, <2>2, <3>1 DEF Given, Setting, Follows, Active
        <3>3. \A q \in Clients : Setting(q)' => call'[q].arg = current_velocity'
            BY <2>1, <2>2 DEF Setting, Follows
        <3> QED
            BY <2>1, <3>2, <3>3 DEF Follows, Active
    <2>3. CASE call[p].op # "SetVelocity"
        BY <2>1, <2>3, SetsNothing DEF Given, Setting, Follows, Active
    <2> QED
        BY <2>2, <2>3
<1>5. ASSUME NEW p \in Clients, SetTarget(p) PROVE Follows'
    <2> DEFINE c0 == call[p].names[call[p].k]
    <2>1. /\ call[p].op = "SetVelocity" /\ call[p].pc = "apply"
          /\ call[p].k <= Len(call[p].names)
          /\ call[p].names \in Seq(Controllers) /\ call[p].k \in Index
          /\ UNCHANGED <<controllers, current_velocity, steady>>
          /\ \A q \in Clients \ {p} : call'[q] = call[q]
        BY <1>5 DEF SetTarget, Advance, At, CallsOK, CallType, smvars, ghosts
    <2>2. /\ call'[p].op = "SetVelocity" /\ call'[p].pc = "apply"
          /\ call'[p].names = call[p].names /\ call'[p].k = call[p].k + 1
          /\ call'[p].arg = call[p].arg
        BY <1>5, <2>1 DEF SetTarget, Advance, CallsOK, CallType
    <2>3. Remaining(call[p]) \subseteq Remaining(call'[p]) \cup {c0}
        BY <2>1, <2>2, OneLess
    <2>4. c0 \in Controllers
        BY <2>1, CurrentName
    <2>5. call[p].arg = current_velocity
        BY <2>1 DEF Follows, Setting
    <2>6. joy_data' = [joy_data EXCEPT ![c0] = current_velocity]
        BY <1>5, <2>5 DEF SetTarget
    <2>7. \A c \in Controllers :
              joy_data'[c] = IF c = c0 THEN current_velocity ELSE joy_data[c]
        BY <2>4, <2>6 DEF VelocityOK
    <2> HIDE DEF c0
    <2>8. \A q \in Clients : Setting(q)' => call'[q].arg = current_velocity'
        BY <2>1, <2>2, <2>5 DEF Setting, Follows
    <2>9. ASSUME NEW c \in steady', joy_data'[c] # current_velocity'
          PROVE  \E q \in Clients : Given(q, c)'
        <3>1. c \in Controllers /\ c # c0 /\ joy_data[c] # current_velocity
            BY <2>1, <2>7, <2>9 DEF GhostsOK
        <3>2. PICK q \in Clients : Given(q, c)
            BY <2>1, <3>1 DEF Follows
        <3>3. q = p
            BY <2>1, <3>2, OneSets DEF Given, Setting
        <3>4. c \in Remaining(call[p])
            BY <2>1, <3>2, <3>3 DEF Given
        <3> QED
            BY <2>2, <2>3, <3>1, <3>4 DEF Given, Setting
    <2> QED
        BY <2>1, <2>8, <2>9 DEF Follows, Active
<1>6. ASSUME NEW p \in Clients, Applied(p) PROVE Follows'
    <2>1. /\ call[p].pc = "apply" /\ call[p].k > Len(call[p].names) /\ call'[p].pc = "answer"
          /\ call[p].names \in Seq(Controllers) /\ call[p].k \in Index
          /\ UNCHANGED <<controllers, current_velocity, joy_data, steady>>
          /\ \A q \in Clients \ {p} : call'[q] = call[q]
        BY <1>6 DEF Applied, Reply, CallsOK, CallType, smvars, velocity, ghosts
    <2>2. Remaining(call[p]) = {}
        BY <2>1, NoneRemains
    <2> QED
        BY <2>1, <2>2, SetsNothing DEF Given, Setting, Follows, Active
<1>7. ASSUME NEW p \in Clients,
             Call(p) \/ SetStateRefuse(p) \/ RestartController(p)
             \/ GetState(p) \/ GetVelocity(p) \/ Return(p)
      PROVE  Follows'
    <2>1. /\ UNCHANGED <<controllers, current_velocity, joy_data, steady>>
          /\ \A q \in Clients \ {p} : call'[q] = call[q]
          /\ call[p] \in CallType
        BY <1>7 DEF Call, SetStateRefuse, RefuseState, RestartController, GetState,
           GetVelocity, Return, Reply, Advance, CallsOK, smvars, velocity, ghosts
    <2>2. call[p].op # "SetVelocity" \/ call[p].pc \notin {"names", "apply"}
        BY <1>7 DEF Call, SetStateRefuse, RestartController, GetState, GetVelocity, Return,
           Advance, At
    <2>3. call'[p].op # "SetVelocity" \/ call'[p].pc \notin {"names", "apply"}
        <3>1. CASE Call(p)
            <4>1. PICK r \in Requests[p] :
                     call' = [call EXCEPT ![p] = [Ready EXCEPT !.pc = "begin", !.op = r.op,
                                                               !.arg = r.arg]]
                BY <3>1 DEF Call
            <4>2. [Ready EXCEPT !.pc = "begin", !.op = r.op, !.arg = r.arg].pc = "begin"
                BY DEF Ready
            <4> QED
                BY <4>1, <4>2 DEF CallsOK
        <3>2. CASE SetStateRefuse(p) \/ GetState(p) \/ GetVelocity(p)
            BY <3>2, <2>1 DEF SetStateRefuse, GetState, GetVelocity, Reply, CallsOK, CallType
        <3>3. CASE Return(p)
            BY <3>3 DEF Return, CallsOK, Ready
        <3>4. CASE RestartController(p)
            BY <3>4, <2>1 DEF RestartController, Advance, At, CallsOK, CallType
        <3> QED
            BY <1>7, <3>1, <3>2, <3>3, <3>4
    <2> QED
        BY <2>1, <2>2, <2>3, SetsNothing DEF Given, Setting, Follows, Active
<1>8. ASSUME Start \/ Shutdown \/ Tick \/ ImuDataCallback \/ JointStateCallback
      PROVE  UNCHANGED <<controllers, call, current_velocity, joy_data, steady>>
    BY <1>8 DEF Start, Shutdown, Tick, TickStep, TickBegin, TickUpdate, TickThrow,
       TickMerge, TickPublish, TickEnd, ImuDataCallback, ImuBegin, SetImuData, ImuEnd,
       JointStateCallback, JointBegin, SetJointStateData, JointEnd, smvars, velocity, ghosts
<1> QED
    BY <1>1, <1>2, <1>3, <1>4, <1>5, <1>6, <1>7, <1>8
    DEF Next, Handle, vars, smvars, velocity, ghosts

(* A velocity reaches every controller that was active when it was written *)
(* and has been active since, with one client steering and any number      *)
(* switching (control_module.cc:239-245).                                  *)
THEOREM VelocityHolds == Spec => []VelocityReachesSteady
<1>1. Init => Asked /\ Follows
    <2> SUFFICES ASSUME Init PROVE Asked /\ Follows
        OBVIOUS
    <2>1. Active \subseteq Controllers
        BY InitTypes, ActiveOK DEF Types
    <2>2. \A p \in Clients : call[p].op = "none"
        BY DEF Init, Ready
    <2>3. \A c \in steady : joy_data[c] = current_velocity
        BY <2>1 DEF Init
    <2>4. steady \subseteq Active
        BY DEF Init
    <2> QED
        BY <2>2, <2>3, <2>4 DEF Asked, Follows, Setting
<1>2. Follows => VelocityReachesSteady
    BY DEF Follows, Given, Setting, VelocityReachesSteady
<1> QED
    BY <1>1, <1>2, AskedStep, FollowsStep, TypesHold, PTL DEF Spec
-----------------------------------------------------------------------------
(* CleanTickCommands.  After the first n controllers of the tick, a joint  *)
(* that one of them has carries the command of the last of those.          *)
Has(i, j) == i \in DOMAIN tick.names /\ j \in JointsOf[tick.names[i]]

LastOf(i, n, j) ==
    /\ Has(i, j) /\ i <= n
    /\ \A m \in DOMAIN tick.names : Has(m, j) /\ m <= n => m <= i

Upto(n, msg) ==
    \A j \in Joints : (\E i \in DOMAIN tick.names : Has(i, j) /\ i <= n) =>
        \E i \in DOMAIN tick.names :
            LastOf(i, n, j) /\ msg[j] = [by |-> tick.names[i], fresh |-> TRUE]

\* The tick works for the mode it began in, whose controllers are all fresh.
Settled == tick.names = controllers /\ \A c \in Active : fresh[c]

CleanInv ==
    clean =>
        /\ tick.pc = "idle" => CommandedBy(controllers, joint_cmd)
        /\ tick.pc # "idle" => Settled /\ Upto(tick.k - 1, joint_cmd)
        /\ tick.pc \in {"update", "merge"} => Upto(tick.k - 1, cmd_msg)
        /\ tick.pc = "merge" => tick.fresh
        /\ tick.pc = "publish" => Upto(tick.k, cmd_msg)

\* One more controller writes over the joints it has.
LEMMA UptoMerge ==
    ASSUME TickOK, tick.pc = "merge", tick.fresh, Upto(tick.k - 1, cmd_msg),
           cmd_msg' = Merge(tick.names[tick.k])
    PROVE  Upto(tick.k, cmd_msg')
<1>1. /\ tick.names \in Seq(Controllers) /\ tick.k \in Nat /\ tick.k >= 1
      /\ tick.k \in DOMAIN tick.names
      /\ DOMAIN tick.names = 1 .. Len(tick.names)
      /\ tick.fresh = TRUE
    BY DEF TickOK, TickType, Index
<1> SUFFICES ASSUME NEW j \in Joints, \E i \in DOMAIN tick.names : Has(i, j) /\ i <= tick.k
             PROVE  \E i \in DOMAIN tick.names :
                        LastOf(i, tick.k, j)
                        /\ cmd_msg'[j] = [by |-> tick.names[i], fresh |-> TRUE]
    BY DEF Upto
<1>2. CASE Has(tick.k, j)
    <2>1. LastOf(tick.k, tick.k, j)
        BY <1>1, <1>2 DEF LastOf
    <2>2. cmd_msg'[j] = [by |-> tick.names[tick.k], fresh |-> TRUE]
        BY <1>1, <1>2 DEF Merge, Has
    <2> QED
        BY <1>1, <2>1, <2>2
<1>3. CASE ~Has(tick.k, j)
    <2>1. \E i \in DOMAIN tick.names : Has(i, j) /\ i <= tick.k - 1
        BY <1>1, <1>3
    <2>2. PICK i \in DOMAIN tick.names :
             /\ LastOf(i, tick.k - 1, j)
             /\ cmd_msg[j] = [by |-> tick.names[i], fresh |-> TRUE]
        BY <2>1 DEF Upto
    <2>3. \A m \in DOMAIN tick.names : Has(m, j) /\ m <= tick.k => m <= tick.k - 1
        BY <1>1, <1>3
    <2>4. LastOf(i, tick.k, j)
        BY <1>1, <2>2, <2>3 DEF LastOf
    <2>5. cmd_msg'[j] = cmd_msg[j]
        BY <1>1, <1>3 DEF Merge, Has
    <2> QED
        BY <2>2, <2>4, <2>5
<1> QED
    BY <1>2, <1>3

\* When every controller has had its turn, the message is that of the mode.
LEMMA UptoAll ==
    ASSUME NEW msg, NEW n \in Nat, tick.names \in Seq(Controllers),
           n >= Len(tick.names), Upto(n, msg)
    PROVE  CommandedBy(tick.names, msg)
<1> SUFFICES ASSUME NEW j \in Joints,
                    \E i \in DOMAIN tick.names : j \in JointsOf[tick.names[i]]
             PROVE  msg[j] = [by |-> LastWith(tick.names, j), fresh |-> TRUE]
    BY DEF CommandedBy
<1> DEFINE with == {i \in DOMAIN tick.names : j \in JointsOf[tick.names[i]]}
           last == CHOOSE i \in with : \A k \in with : k <= i
<1>1. \A i \in DOMAIN tick.names : i \in Nat /\ i <= n
    OBVIOUS
<1>2. PICK i \in DOMAIN tick.names :
         LastOf(i, n, j) /\ msg[j] = [by |-> tick.names[i], fresh |-> TRUE]
    BY <1>1 DEF Upto, Has
<1>3. i \in with /\ \A k \in with : k <= i
    BY <1>1, <1>2 DEF LastOf, Has
<1>4. last \in with /\ \A k \in with : k <= last
    BY <1>3
<1>5. last = i
    <2>1. last <= i /\ i <= last
        BY <1>3, <1>4
    <2>2. last \in Nat /\ i \in Nat
        BY <1>1, <1>4
    <2> QED
        BY <2>1, <2>2
<1> QED
    BY <1>2, <1>5 DEF LastWith

\* Away from the tick, a step keeps the mode settled or is a switch.
LEMMA CleanStep == Types /\ CleanInv /\ [Next]_vars => CleanInv'
<1> SUFFICES ASSUME Types, CleanInv, [Next]_vars, clean' PROVE CleanInv'
    BY DEF CleanInv
<1> USE DEF Types
<1>1. CASE UNCHANGED <<controllers, tick, cmd_msg, joint_cmd, clean, fresh>>
    BY <1>1 DEF CleanInv, Settled, Active, CommandedBy, LastWith, Upto, LastOf, Has
<1>2. ASSUME UNCHANGED <<controllers, tick, cmd_msg, joint_cmd, clean>>,
             \A c \in Controllers : fresh[c] => fresh'[c]
      PROVE  CleanInv'
    BY <1>2, ActiveOK DEF CleanInv, Settled, Active, CommandedBy, LastWith, Upto, LastOf, Has
<1>3. CASE TickBegin
    <2>1. /\ tick'.pc = "update" /\ tick'.names = controllers /\ tick'.k = 1
          /\ UNCHANGED <<controllers, fresh>>
          /\ clean' = (\A c \in Active : fresh[c])
        BY <1>3 DEF TickBegin, GetCurrentControllerNames, smvars
    <2>2. Settled'
        BY <2>1 DEF Settled, Active
    <2>3. Upto(tick.k - 1, joint_cmd)' /\ Upto(tick.k - 1, cmd_msg)'
        <3>1. tick'.k - 1 = 0 /\ tick'.names \in Seq(Controllers)
            BY <2>1 DEF SMTypeOK
        <3>2. \A i \in DOMAIN tick'.names : ~(i <= tick'.k - 1)
            BY <3>1
        <3> QED
            BY <3>2 DEF Upto
    <2> QED
        BY <2>1, <2>2, <2>3 DEF CleanInv
<1>4. CASE TickUpdate
    <2>1. /\ tick.pc = "update" /\ tick'.pc = "merge"
          /\ tick'.names = tick.names /\ tick'.k = tick.k
          /\ tick'.fresh = fresh[tick.names[tick.k]]
          /\ tick.k <= Len(tick.names) /\ tick.names \in Seq(Controllers) /\ tick.k \in Index
          /\ UNCHANGED <<controllers, cmd_msg, joint_cmd, clean, fresh>>
        BY <1>4 DEF TickUpdate, TickOK, TickType, smvars, ghosts
    <2>2. Settled /\ Upto(tick.k - 1, joint_cmd) /\ Upto(tick.k - 1, cmd_msg)
        BY <2>1 DEF CleanInv
    <2>3. tick.names[tick.k] \in Active
        BY <2>1, <2>2 DEF Settled, Active, Index, Range
    <2>4. tick'.fresh
        BY <2>1, <2>2, <2>3 DEF Settled
    <2>5. Settled'
        BY <2>1, <2>2 DEF Settled, Active
    <2>6. Upto(tick.k - 1, joint_cmd)' /\ Upto(tick.k - 1, cmd_msg)'
        BY <2>1, <2>2 DEF Upto, LastOf, Has
    <2> QED
        BY <2>1, <2>4, <2>5, <2>6 DEF CleanInv
<1>5. CASE TickMerge
    <2>1. /\ tick.pc = "merge" /\ tick'.pc = "publish"
          /\ tick'.names = tick.names /\ tick'.k = tick.k
          /\ cmd_msg' = Merge(tick.names[tick.k])
          /\ UNCHANGED <<controllers, joint_cmd, clean, fresh>>
        BY <1>5 DEF TickMerge, TickOK, TickType, smvars, ghosts
    <2>2. /\ Settled /\ Upto(tick.k - 1, joint_cmd) /\ Upto(tick.k - 1, cmd_msg)
          /\ tick.fresh
        BY <2>1 DEF CleanInv
    <2>3. Upto(tick.k, cmd_msg')
        BY <2>1, <2>2, UptoMerge
    <2>4. Upto(tick.k, cmd_msg)' /\ Upto(tick.k - 1, joint_cmd)'
        BY <2>1, <2>2, <2>3 DEF Upto, LastOf, Has
    <2>5. Settled'
        BY <2>1, <2>2 DEF Settled, Active
    <2> QED
        BY <2>1, <2>4, <2>5 DEF CleanInv
<1>6. CASE TickPublish
    <2>1. /\ tick.pc = "publish" /\ tick'.pc = "update"
          /\ tick'.names = tick.names /\ tick'.k = tick.k + 1
          /\ tick.k \in Nat /\ joint_cmd' = cmd_msg
          /\ UNCHANGED <<controllers, cmd_msg, clean, fresh>>
        BY <1>6 DEF TickPublish, TickOK, TickType, Index, smvars, ghosts
    <2>2. Settled /\ Upto(tick.k, cmd_msg)
        BY <2>1 DEF CleanInv
    <2>3. tick'.k - 1 = tick.k
        BY <2>1
    <2>4. Upto(tick.k - 1, joint_cmd)' /\ Upto(tick.k - 1, cmd_msg)'
        BY <2>1, <2>2, <2>3 DEF Upto, LastOf, Has
    <2>5. Settled'
        BY <2>1, <2>2 DEF Settled, Active
    <2> QED
        BY <2>1, <2>4, <2>5 DEF CleanInv
<1>7. CASE TickEnd
    <2>1. /\ tick.pc = "update" /\ tick'.pc = "idle"
          /\ tick.k > Len(tick.names) /\ tick.names \in Seq(Controllers) /\ tick.k \in Index
          /\ UNCHANGED <<controllers, joint_cmd, clean>>
        BY <1>7 DEF TickEnd, NoTick, TickOK, TickType, smvars, ghosts
    <2>2. Settled /\ Upto(tick.k - 1, joint_cmd)
        BY <2>1 DEF CleanInv
    <2>3. tick.k - 1 \in Nat /\ tick.k - 1 >= Len(tick.names)
        BY <2>1 DEF Index
    <2>4. CommandedBy(tick.names, joint_cmd)
        BY <2>1, <2>2, <2>3, UptoAll
    <2>5. CommandedBy(controllers, joint_cmd)
        BY <2>2, <2>4 DEF Settled
    <2>6. CommandedBy(controllers, joint_cmd)'
        BY <2>1, <2>5 DEF CommandedBy
    <2> QED
        BY <2>1, <2>6 DEF CleanInv
<1>8. CASE TickThrow
    BY <1>8 DEF TickThrow
<1>9. ASSUME NEW p \in Clients, SetStateAccept(p) PROVE FALSE
    BY <1>9 DEF SetStateAccept
<1>10. ASSUME NEW p \in Clients, RestartController(p) PROVE CleanInv'
    <2>1. \A c \in Controllers : fresh[c] => fresh'[c]
        BY <1>10 DEF RestartController, FreshOK
    <2> QED
        BY <1>2, <1>10, <2>1 DEF RestartController, smvars, ticking
<1>11. ASSUME NEW p \in Clients, Call(p) \/ Handle(p), ~SetStateAccept(p), ~RestartController(p)
       PROVE  UNCHANGED <<controllers, tick, cmd_msg, joint_cmd, clean, fresh>>
    BY <1>11 DEF Call, Handle, SetStateRefuse, RefuseState, SetVelocityWrite, ReadNames,
       SetTarget, Applied, GetState, GetVelocity, Return, smvars, ticking, ghosts
<1>12. ASSUME Start \/ Shutdown \/ ImuDataCallback \/ JointStateCallback
       PROVE  UNCHANGED <<controllers, tick, cmd_msg, joint_cmd, clean, fresh>>
    BY <1>12 DEF Start, Shutdown, ImuDataCallback, ImuBegin, SetImuData, ImuEnd,
       JointStateCallback, JointBegin, SetJointStateData, JointEnd, smvars, ticking, ghosts
<1> QED
    BY <1>1, <1>3, <1>4, <1>5, <1>6, <1>7, <1>8, <1>9, <1>10, <1>11, <1>12
    DEF Next, Tick, TickStep, vars, smvars, ticking, ghosts

(* After a tick of a settled mode that met no switch, every joint of the   *)
(* mode was last commanded by the last controller that lists it, restarted *)
(* in the mode (control_module.cc:141-160).                                *)
THEOREM CleanTickHolds == Spec => []CleanTickCommands
<1>1. Init => CleanInv
    BY DEF Init, CleanInv
<1>2. CleanInv => CleanTickCommands
    BY DEF CleanInv, CleanTickCommands
<1> QED
    BY <1>1, <1>2, CleanStep, TypesHold, PTL DEF Spec
=============================================================================
