-------------------------- MODULE RobotThreadsProof --------------------------
(***************************************************************************)
(* The threads of the two modules together implement RobotSystem, for any  *)
(* mode graph, any controllers and any number of events: what is proved of *)
(* each module alone is put together here.                                 *)
(***************************************************************************)
EXTENDS RobotThreads, ControlServiceProof

-----------------------------------------------------------------------------
(* The steps of one module seen from the other.                            *)

keyside == <<current_event, task, posted>>

\* What the control module's threads do here they do there.
LEMMA ControlInside == ThreadsSpec => Spec
<1>1. ThreadsInit => Init
    BY DEF ThreadsInit
<1>2. [ThreadsNext]_threadvars => [Next]_vars
    BY Deployment DEF ThreadsNext, threadvars, KeyboardStep, ControlStep, Send, Receive, Next, Handle
<1> QED
    BY <1>1, <1>2, PTL DEF ThreadsSpec, Spec

\* The window and its threads leave the task alone.
LEMMA KeyboardAlone ==
    ASSUME KeyboardStep
    PROVE  UNCHANGED <<vars, task, expected>>
BY DEF KeyboardStep, Keys!Window, Keys!Construct, Keys!ThreadStarts, Keys!Destroy,
   Keys!Destroyed, System!User, System!Press, System!Release, System!CloseWindow, System!Enqueue,
   System!pressed,
   Keys!EventThread, Keys!PollNothing, Keys!Rendered, Keys!ModeButtonDown,
   Keys!ModeButtonStillDown, Keys!DirKeyDown, Keys!ModeButtonUp, Keys!UpElsewhere,
   Keys!DownElsewhere, Keys!Quit, Keys!Poll, Keys!Start, Keys!Shutdown, Keys!pressed

\* The tables of keyboard.h, button by button.
LEMMA ButtonTable ==
    /\ Keys!ModeButtons = {"Stand", "Zero", "Walk", "Idle"}
    /\ Keys!MODE_BTNS["Stand"] = 1 /\ Keys!MODE_BTNS["Zero"] = 2
    /\ Keys!MODE_BTNS["Walk"] = 3 /\ Keys!MODE_BTNS["Idle"] = 0
BY DEF Keys!ModeButtons, Keys!MODE_BTNS

\* A press of a mode button asks for the mode written on it.
LEMMA ButtonTarget ==
    ASSUME NEW b \in Keys!ModeButtons, NEW n
    PROVE  /\ Keys!RobotState[Keys!StateChange(b, n).state_id] = System!Written[b]
           /\ System!Written[b] \in ButtonModes
           /\ b \notin DirKeys
<1>1. Keys!RobotState[0] = "IDLE" /\ Keys!RobotState[1] = "STAND" /\ Keys!RobotState[2] = "ZERO"
      /\ Keys!RobotState[3] = "WALK"
    BY DEF Keys!RobotState
<1>2. System!ModeButtons = {"Stand", "Zero", "Walk", "Idle"}
    BY DEF System!ModeButtons, System!MODE_BTNS
<1>3. System!Written["Stand"] = "STAND" /\ System!Written["Zero"] = "ZERO"
      /\ System!Written["Walk"] = "WALK" /\ System!Written["Idle"] = "IDLE"
    BY <1>2 DEF System!Written
<1> QED
    BY <1>1, <1>3, ButtonTable, Buttons DEF Keys!StateChange, ButtonModes

-----------------------------------------------------------------------------
(* The events are those that the keyboard posts.                           *)
EventsOK == current_event \in Keys!Event /\ task \in Keys!Event /\ posted \in Nat

\* An event is of one of three kinds, by its type.
LEMMA EventKinds ==
    ASSUME NEW e \in Keys!Event
    PROVE  \/ e = Keys!None /\ e.type = "NONE"
           \/ e.type = "STATE_CHANGE" /\ e # Keys!None
              /\ \E b \in Keys!ModeButtons, n \in 1 .. MaxEvents : e = Keys!StateChange(b, n)
           \/ e.type = "VELOCITY_CHANGE" /\ e # Keys!None
              /\ e.button \in DirKeys
<1>1. CASE e = Keys!None
    BY <1>1 DEF Keys!None
<1>2. CASE \E b \in Keys!ModeButtons, n \in 1 .. MaxEvents : e = Keys!StateChange(b, n)
    BY <1>2 DEF Keys!StateChange, Keys!None
<1>3. CASE \E k \in DirKeys, n \in 1 .. MaxEvents : e = Keys!VelocityChange(k, n)
    BY <1>3 DEF Keys!VelocityChange, Keys!None
<1> QED
    BY <1>1, <1>2, <1>3 DEF Keys!Event

\* Every step posts an event of the keyboard, passes it on or leaves it.
LEMMA EventsStep == EventsOK /\ [ThreadsNext]_threadvars => EventsOK'
<1> SUFFICES ASSUME EventsOK, [ThreadsNext]_threadvars PROVE EventsOK'
    OBVIOUS
<1>1. Keys!None \in Keys!Event
    BY DEF Keys!Event
<1>2. CASE UNCHANGED keyside
    BY <1>2 DEF keyside, EventsOK
<1>3. CASE Keys!ModeButtonDown
    <2>1. posted + 1 \in 1 .. MaxEvents /\ Keys!At \in Keys!ModeButtons
        BY <1>3, Buttons DEF Keys!ModeButtonDown, Keys!Poll, Keys!At, EventsOK
    <2>2. Keys!StateChange(Keys!At, posted + 1) \in Keys!Event
        BY <2>1 DEF Keys!Event
    <2>3. Keys!StateChange(Keys!At, posted + 1).n = posted + 1
        BY DEF Keys!StateChange
    <2> QED
        BY <1>3, <2>2, <2>3 DEF Keys!ModeButtonDown, Keys!Poll, Keys!Post, EventsOK
<1>4. CASE Keys!DirKeyDown
    <2>1. posted + 1 \in 1 .. MaxEvents /\ Keys!At \in DirKeys
        BY <1>4, Buttons DEF Keys!DirKeyDown, Keys!Poll, Keys!At, EventsOK
    <2>2. Keys!VelocityChange(Keys!At, posted + 1) \in Keys!Event
        BY <2>1 DEF Keys!Event
    <2>3. Keys!VelocityChange(Keys!At, posted + 1).n = posted + 1
        BY DEF Keys!VelocityChange
    <2> QED
        BY <1>4, <2>2, <2>3 DEF Keys!DirKeyDown, Keys!Poll, Keys!Post, EventsOK
<1>5. CASE KeyboardStep /\ ~Keys!ModeButtonDown /\ ~Keys!DirKeyDown
    <2>1. UNCHANGED keyside
        BY <1>5 DEF KeyboardStep, Keys!Window, Keys!Construct, Keys!ThreadStarts, Keys!Destroy,
           Keys!Destroyed, System!User, System!Press, System!Release, System!CloseWindow,
           System!Enqueue, System!pressed, Keys!EventThread, Keys!PollNothing, Keys!Rendered,
           Keys!ModeButtonStillDown, Keys!ModeButtonUp, Keys!UpElsewhere, Keys!DownElsewhere,
           Keys!Quit, Keys!Poll, Keys!Start, Keys!Shutdown, Keys!pressed, keyside
    <2> QED
        BY <1>2, <2>1
<1>6. CASE Send
    BY <1>1, <1>6 DEF Send, Keys!TakeEvent, EventsOK
<1>7. CASE Receive
    BY <1>1, <1>7 DEF Receive, Keys!CallAnswered, EventsOK
<1>8. CASE ControlStep \/ UNCHANGED threadvars
    BY <1>2, <1>8 DEF ControlStep, threadvars, keyboard, keyside
<1> QED
    BY <1>3, <1>4, <1>5, <1>6, <1>7, <1>8 DEF ThreadsNext

-----------------------------------------------------------------------------
(* MainTask is inside the call of its event exactly while the handler is.  *)
Linked ==
    LET r == call[Client] IN
    /\ task = Keys!None <=> r.pc = "ready"
    /\ task.type = "STATE_CHANGE" =>
          r.op = "SetState" /\ r.arg = Keys!RobotState[task.state_id]
    /\ task.type = "VELOCITY_CHANGE" => r.op = "SetVelocity" /\ r.arg = task.button

\* The list of controllers is that of the mode.
Listed == controllers = ControllersOf[current_state_name]

(* The handler of a velocity has given it to the walking controller, if    *)
(* that is active, or is still to come to it.                              *)
Steered ==
    LET r == call[Client] IN
    r.op = "SetVelocity" =>
        /\ r.pc = "apply" => r.names = controllers
        /\ (r.pc = "apply" /\ Walker \in Active) =>
              Walker \in Remaining(r) \/ joy_data[Walker] = r.arg
        /\ (r.pc = "answer" /\ Walker \in Active) => joy_data[Walker] = r.arg

(* What the call under way still has to do for its press.                  *)
RobotNow == [mode |-> current_state_name, velocity |-> joy_data[Walker]]
Owed ==
    /\ task.type = "NONE" => expected = RobotNow
    /\ task.type = "STATE_CHANGE" =>
          expected = IF call[Client].pc = "begin" THEN System!Effect(task.button, RobotNow)
                                                  ELSE RobotNow
    /\ task.type = "VELOCITY_CHANGE" => expected = System!Effect(task.button, RobotNow)

ThreadsInv == ServiceInv /\ EventsOK /\ Linked /\ Listed /\ Steered /\ Owed

\* The robot walks exactly when the walking controller is active.
LEMMA WalkingMode ==
    ASSUME Types, Listed
    PROVE  current_state_name = Walk <=> Walker \in Active
BY Deployment DEF Types, SMTypeOK, Listed, Active

\* The deployed client.
LEMMA TheClient == Client \in Clients /\ Walker \in Controllers
BY Deployment

\* The steps of the other threads of the control module.
LEMMA OthersAlone ==
    ASSUME Start \/ Shutdown \/ Tick \/ ImuDataCallback \/ JointStateCallback
    PROVE  UNCHANGED <<smvars, call, joy_data>>
BY DEF Start, Shutdown, Tick, TickStep, TickBegin, TickUpdate, TickThrow, TickMerge,
   TickPublish, TickEnd, ImuDataCallback, ImuBegin, SetImuData, ImuEnd, JointStateCallback,
   JointBegin, SetJointStateData, JointEnd, velocity

\* Where nothing of the call, the mode and the velocities changes.
LEMMA NothingLinked ==
    ASSUME Linked, Listed, Steered, Owed, UNCHANGED <<smvars, call, joy_data, task, expected>>
    PROVE  Linked' /\ Listed' /\ Steered' /\ Owed'
<1>1. Linked' /\ Listed' /\ Owed'
    BY DEF Linked, Listed, Owed, RobotNow, System!Effect, smvars
<1>2. Steered'
    BY DEF Steered, Active, Remaining, smvars
<1> QED
    BY <1>1, <1>2

\* The handler of MainTask's call goes on.
LEMMA HandlerGoesOn ==
    ASSUME EventsOK, Linked, call'[Client].op = call[Client].op,
           call'[Client].arg = call[Client].arg, UNCHANGED task,
           call[Client].pc # "ready", call'[Client].pc # "ready"
    PROVE  Linked'
BY DEF Linked

-----------------------------------------------------------------------------
(* MainTask sends an event and receives the answer.                        *)

\* What is sent.
LEMMA SendFacts ==
    ASSUME ThreadsInv, Send
    PROVE  /\ UNCHANGED <<smvars, joy_data>>
           /\ task.type = "NONE" /\ task' # Keys!None /\ task' \in Keys!Event
           /\ call'[Client].pc = "begin"
           /\ expected' = System!Effect(task'.button, expected)
           /\ task'.type = "STATE_CHANGE" =>
                 /\ call'[Client].op = "SetState"
                 /\ call'[Client].arg = Keys!RobotState[task'.state_id]
           /\ task'.type # "STATE_CHANGE" =>
                 call'[Client].op = "SetVelocity" /\ call'[Client].arg = task'.button
<1>1. UNCHANGED <<smvars, joy_data>> /\ Call(Client)
    BY DEF Send, Call, velocity
<1>2. task = Keys!None /\ task' = current_event /\ current_event # Keys!None
      /\ expected' = System!Effect(task'.button, expected)
    BY DEF Send, Keys!TakeEvent
<1>3. call'[Client].pc = "begin"
    BY <1>1, TheClient, BeginOK DEF ThreadsInv, ServiceInv, Types
<1> QED
    BY <1>1, <1>2, <1>3 DEF Send, Keys!None, ThreadsInv, EventsOK

\* The call has begun, and owes what the press asks for.
LEMMA SendStep ==
    ASSUME ThreadsInv, Send
    PROVE  Linked' /\ Listed' /\ Steered' /\ Owed'
<1> USE DEF ThreadsInv
<1>1. Linked'
    BY SendFacts, EventKinds DEF Linked
<1>2. Listed' /\ Steered'
    BY SendFacts DEF Listed, Steered, smvars
<1>3. expected = RobotNow /\ RobotNow' = RobotNow
    BY SendFacts DEF Owed, RobotNow, smvars
<1>4. expected' = System!Effect(task'.button, RobotNow')
    BY <1>3, SendFacts
<1>5. Owed'
    <2>1. task'.type # "NONE" /\ call'[Client].pc = "begin"
        BY SendFacts, EventKinds
    <2> DEFINE e == System!Effect(task.button, RobotNow)
    <2>2. expected' = e'
        BY <1>3, <1>4 DEF System!Effect
    <2> QED
        BY <2>1, <2>2 DEF Owed
<1> QED
    BY <1>1, <1>2, <1>5

\* The answer comes when the press has had its effect.
LEMMA ReceiveFacts ==
    ASSUME ThreadsInv, Receive
    PROVE  /\ task' = Keys!None /\ task'.type = "NONE" /\ task # Keys!None /\ task \in Keys!Event
           /\ call[Client].pc = "answer" /\ call'[Client].pc = "ready"
           /\ call'[Client].op = "none"
           /\ UNCHANGED <<smvars, joy_data, expected>>
           /\ (task.type = "VELOCITY_CHANGE" /\ current_state_name = Walk)
                 => joy_data[Walker] = task.button
<1> USE DEF ThreadsInv, ServiceInv, Types
<1>1. Return(Client) /\ task # Keys!None /\ task' = Keys!None /\ UNCHANGED expected
    BY DEF Receive, Keys!CallAnswered
<1>2. call[Client].pc = "answer" /\ UNCHANGED <<smvars, joy_data>>
    BY <1>1 DEF Return, velocity
<1>3. call'[Client].pc = "ready" /\ call'[Client].op = "none"
    BY <1>1, TheClient, ReturnOK
<1>4. ASSUME task.type = "VELOCITY_CHANGE", current_state_name = Walk
      PROVE  joy_data[Walker] = task.button
    BY <1>2, <1>4, WalkingMode DEF Linked, Steered
<1> QED
    BY <1>1, <1>2, <1>3, <1>4 DEF Keys!None, EventsOK

LEMMA ReceiveStep ==
    ASSUME ThreadsInv, Receive
    PROVE  Linked' /\ Listed' /\ Steered' /\ Owed'
<1> USE DEF ThreadsInv
<1>1. Linked'
    BY ReceiveFacts DEF Linked
<1>2. Listed' /\ Steered'
    BY ReceiveFacts DEF Listed, Steered, smvars
<1>3. RobotNow' = RobotNow
    BY ReceiveFacts DEF RobotNow, smvars
<1>4. expected = RobotNow
    <2>1. CASE task.type = "STATE_CHANGE"
        BY <2>1, ReceiveFacts DEF Owed
    <2>2. CASE task.type = "VELOCITY_CHANGE"
        <3>1. System!Effect(task.button, RobotNow) = RobotNow
            BY <2>2, ReceiveFacts, EventKinds DEF System!Effect, RobotNow
        <3> QED
            BY <2>2, <3>1 DEF Owed
    <2> QED
        BY <2>1, <2>2, ReceiveFacts, EventKinds
<1>5. Owed'
    BY <1>3, <1>4, ReceiveFacts DEF Owed
<1> QED
    BY <1>1, <1>2, <1>5

-----------------------------------------------------------------------------
(* The steps of the handler that MainTask called.                          *)

\* An accepted switch is what the press asked for.
LEMMA SwitchStep ==
    ASSUME ThreadsInv, SetStateAccept(Client), UNCHANGED <<task, expected>>
    PROVE  Linked' /\ Listed' /\ Steered' /\ Owed'
<1> USE DEF ThreadsInv, ServiceInv, Types
<1>1. /\ call[Client].pc = "begin" /\ call[Client].op = "SetState"
      /\ ChangeState(call[Client].arg) /\ UNCHANGED joy_data
    BY DEF SetStateAccept, At, velocity
<1>2. /\ call'[Client].pc = "names" /\ call'[Client].op = "SetState"
      /\ call'[Client].arg = call[Client].arg
    BY <1>1, TheClient DEF SetStateAccept, Goto, CallsOK, CallType
<1>3. Linked'
    BY <1>1, <1>2, HandlerGoesOn
<1>4. Listed' /\ Steered'
    BY <1>1, <1>2 DEF ChangeState, Listed, Steered
<1>5. task.type = "STATE_CHANGE" /\ \E b \in Keys!ModeButtons, n \in 1 .. MaxEvents :
                                        task = Keys!StateChange(b, n)
    BY <1>1, EventKinds DEF Linked, EventsOK
<1>6. PICK b \in Keys!ModeButtons, n \in 1 .. MaxEvents : task = Keys!StateChange(b, n)
    BY <1>5
<1>7. /\ task.button = b /\ call[Client].arg = System!Written[b] /\ b \notin DirKeys
    BY <1>5, <1>6, ButtonTarget DEF Linked, Keys!StateChange
<1>8. expected' = RobotNow'
    <2>1. expected = System!Effect(b, RobotNow)
        BY <1>1, <1>5, <1>7 DEF Owed
    <2> DEFINE m == StateToName[System!Written[b]]
    <2>2. /\ System!Written[b] \in Named /\ current_state_name' = m
          /\ <<current_state_name, m>> \in {e \in States \X States : e[1] \in PreStates[e[2]]}
        BY <1>1, <1>7 DEF ChangeState, Legal, Named, SMTypeOK
    <2>3. System!Effect(b, RobotNow) = [RobotNow EXCEPT !.mode = m]
        BY <1>7, <2>2 DEF System!Effect, RobotNow
    <2> QED
        BY <1>1, <2>1, <2>2, <2>3 DEF RobotNow
<1>9. Owed'
    BY <1>2, <1>5, <1>8 DEF Owed
<1> QED
    BY <1>3, <1>4, <1>9

\* A refused one has no effect, as the graph has no edge for it.
LEMMA RefuseStep ==
    ASSUME ThreadsInv, SetStateRefuse(Client), UNCHANGED <<task, expected>>
    PROVE  Linked' /\ Listed' /\ Steered' /\ Owed'
<1> USE DEF ThreadsInv, ServiceInv, Types
<1>1. /\ call[Client].pc = "begin" /\ call[Client].op = "SetState"
      /\ RefuseState(call[Client].arg) /\ UNCHANGED <<smvars, joy_data>>
    BY DEF SetStateRefuse, RefuseState, At, velocity
<1>2. /\ call'[Client].pc = "answer" /\ call'[Client].op = "SetState"
      /\ call'[Client].arg = call[Client].arg
    BY <1>1, TheClient, ReplyOK DEF SetStateRefuse
<1>3. Linked'
    BY <1>1, <1>2, HandlerGoesOn
<1>4. Listed' /\ Steered'
    BY <1>1, <1>2 DEF smvars, Listed, Steered
<1>5. task.type = "STATE_CHANGE" /\ \E b \in Keys!ModeButtons, n \in 1 .. MaxEvents :
                                        task = Keys!StateChange(b, n)
    BY <1>1, EventKinds DEF Linked, EventsOK
<1>6. PICK b \in Keys!ModeButtons, n \in 1 .. MaxEvents : task = Keys!StateChange(b, n)
    BY <1>5
<1>7. /\ task.button = b /\ call[Client].arg = System!Written[b] /\ b \notin DirKeys
      /\ System!Written[b] \in Named
    BY <1>5, <1>6, ButtonTarget, Deployment DEF Linked, Keys!StateChange
<1>8. expected' = RobotNow'
    <2>1. expected = System!Effect(b, RobotNow)
        BY <1>1, <1>5, <1>7 DEF Owed
    <2>2. <<current_state_name, StateToName[System!Written[b]]>>
              \notin {e \in States \X States : e[1] \in PreStates[e[2]]}
        BY <1>1, <1>7 DEF RefuseState, Legal, Named
    <2>3. System!Effect(b, RobotNow) = RobotNow
        BY <1>7, <2>2 DEF System!Effect, RobotNow
    <2> QED
        BY <1>1, <2>1, <2>3 DEF RobotNow, smvars
<1>9. Owed'
    BY <1>2, <1>5, <1>8 DEF Owed
<1> QED
    BY <1>3, <1>4, <1>9

\* A handler that neither switches nor steers moves on in its call.
LEMMA MoveOnStep ==
    ASSUME ThreadsInv, UNCHANGED <<smvars, joy_data, task, expected>>,
           call'[Client].op = call[Client].op, call'[Client].arg = call[Client].arg,
           call[Client].pc # "ready", call'[Client].pc # "ready", call'[Client].pc # "begin",
           call[Client].pc = "begin" => call[Client].op # "SetState",
           Steered'
    PROVE  Linked' /\ Listed' /\ Steered' /\ Owed'
<1> USE DEF ThreadsInv
<1>1. Linked' /\ Listed'
    BY HandlerGoesOn DEF Listed, smvars
<1>2. task.type = "STATE_CHANGE" => call[Client].pc # "begin"
    BY DEF Linked
<1>3. Owed'
    BY <1>2 DEF Owed, RobotNow, System!Effect, smvars
<1> QED
    BY <1>1, <1>3

LEMMA WriteStep ==
    ASSUME ThreadsInv, SetVelocityWrite(Client), UNCHANGED <<task, expected>>
    PROVE  Linked' /\ Listed' /\ Steered' /\ Owed'
<1> USE DEF ThreadsInv, ServiceInv, Types
<1>1. /\ call[Client].pc = "begin" /\ call[Client].op = "SetVelocity"
      /\ UNCHANGED <<smvars, joy_data>>
    BY DEF SetVelocityWrite, At
<1>2. /\ call'[Client].pc = "names" /\ call'[Client].op = call[Client].op
      /\ call'[Client].arg = call[Client].arg
    BY TheClient DEF SetVelocityWrite, Goto, CallsOK, CallType
<1>3. Steered'
    BY <1>2 DEF Steered
<1> QED
    BY <1>1, <1>2, <1>3, MoveOnStep

LEMMA NamesStep ==
    ASSUME ThreadsInv, ReadNames(Client), UNCHANGED <<task, expected>>
    PROVE  Linked' /\ Listed' /\ Steered' /\ Owed'
<1> USE DEF ThreadsInv, ServiceInv, Types
<1>1. call[Client].pc = "names" /\ UNCHANGED <<smvars, joy_data>>
    BY DEF ReadNames, velocity
<1>2. /\ call'[Client].pc = "apply" /\ call'[Client].op = call[Client].op
      /\ call'[Client].arg = call[Client].arg
      /\ call'[Client].names = controllers /\ call'[Client].k = 1
    BY TheClient DEF ReadNames, GetCurrentControllerNames, CallsOK, CallType
<1>3. Remaining(call'[Client]) = Active' /\ controllers' = controllers
    BY <1>1, <1>2, AllRemain DEF Active, SMTypeOK, smvars
<1>4. Steered'
    BY <1>2, <1>3 DEF Steered
<1> QED
    BY <1>1, <1>2, <1>4, MoveOnStep

LEMMA RestartsStep ==
    ASSUME ThreadsInv, RestartController(Client), UNCHANGED <<task, expected>>
    PROVE  Linked' /\ Listed' /\ Steered' /\ Owed'
<1> USE DEF ThreadsInv, ServiceInv, Types
<1>1. /\ call[Client].pc = "apply" /\ call[Client].op = "SetState"
      /\ UNCHANGED <<smvars, joy_data>>
    BY DEF RestartController, Advance, At, velocity
<1>2. /\ call'[Client].pc = "apply" /\ call'[Client].op = call[Client].op
      /\ call'[Client].arg = call[Client].arg
    BY <1>1, TheClient DEF RestartController, Advance, CallsOK, CallType
<1>3. Steered'
    BY <1>1, <1>2 DEF Steered
<1> QED
    BY <1>1, <1>2, <1>3, MoveOnStep

LEMMA AppliedStep ==
    ASSUME ThreadsInv, Applied(Client), UNCHANGED <<task, expected>>
    PROVE  Linked' /\ Listed' /\ Steered' /\ Owed'
<1> USE DEF ThreadsInv, ServiceInv, Types
<1>1. /\ call[Client].pc = "apply" /\ call[Client].k > Len(call[Client].names)
      /\ UNCHANGED <<smvars, joy_data>>
    BY DEF Applied, velocity
<1>2. /\ call'[Client].pc = "answer" /\ call'[Client].op = call[Client].op
      /\ call'[Client].arg = call[Client].arg
    BY TheClient, ReplyOK DEF Applied
<1>3. Remaining(call[Client]) = {}
    BY <1>1, TheClient, NoneRemains DEF CallsOK, CallType
<1>4. Steered'
    BY <1>1, <1>2, <1>3 DEF Steered, Active, smvars
<1> QED
    BY <1>1, <1>2, <1>4, MoveOnStep

\* What the handler of a velocity gives to one controller.
LEMMA TargetFacts ==
    ASSUME ThreadsInv, SetTarget(Client)
    PROVE  LET c0 == call[Client].names[call[Client].k] IN
           /\ call[Client].pc = "apply" /\ call[Client].op = "SetVelocity"
           /\ task.type = "VELOCITY_CHANGE" /\ call[Client].arg = task.button
           /\ task.button \in DirKeys
           /\ c0 \in Active
           /\ joy_data'[Walker] = IF c0 = Walker THEN task.button ELSE joy_data[Walker]
           /\ Remaining(call[Client]) \subseteq Remaining(call'[Client]) \cup {c0}
           /\ call'[Client].pc = "apply" /\ call'[Client].op = call[Client].op
           /\ call'[Client].arg = call[Client].arg /\ call'[Client].names = call[Client].names
           /\ UNCHANGED smvars
<1> USE DEF ThreadsInv, ServiceInv, Types
<1> DEFINE c0 == call[Client].names[call[Client].k]
<1>1. /\ call[Client].pc = "apply" /\ call[Client].op = "SetVelocity"
      /\ call[Client].k <= Len(call[Client].names) /\ UNCHANGED smvars
      /\ joy_data' = [joy_data EXCEPT ![c0] = call[Client].arg]
    BY DEF SetTarget, Advance, At
<1>2. call[Client].names \in Seq(Controllers) /\ call[Client].k \in Index
      /\ call[Client] \in CallType
    BY TheClient DEF CallsOK, CallType
<1>3. c0 \in Range(call[Client].names)
    BY <1>1, <1>2 DEF Range, Index
<1>4. c0 \in Active
    BY <1>1, <1>3 DEF Steered, Active
<1>5. /\ call'[Client].pc = "apply" /\ call'[Client].op = call[Client].op
      /\ call'[Client].arg = call[Client].arg /\ call'[Client].names = call[Client].names
      /\ call'[Client].k = call[Client].k + 1
    BY <1>1, <1>2, TheClient DEF SetTarget, Advance, CallsOK, CallType
<1>6. Remaining(call[Client]) \subseteq Remaining(call'[Client]) \cup {c0}
    BY <1>1, <1>2, <1>5, OneLess
<1>7. task.type = "VELOCITY_CHANGE" /\ call[Client].arg = task.button /\ task.button \in DirKeys
    BY <1>1, EventKinds DEF Linked, EventsOK
<1> HIDE DEF c0
<1>8. joy_data'[Walker] = IF c0 = Walker THEN task.button ELSE joy_data[Walker]
    BY <1>1, <1>7, TheClient DEF VelocityOK
<1> QED
    BY <1>1, <1>4, <1>5, <1>6, <1>7, <1>8 DEF c0

LEMMA TargetStep ==
    ASSUME ThreadsInv, SetTarget(Client), UNCHANGED <<task, expected>>
    PROVE  Linked' /\ Listed' /\ Steered' /\ Owed'
<1> USE DEF ThreadsInv, ServiceInv, Types
<1> DEFINE c0 == call[Client].names[call[Client].k]
<1>1. Linked' /\ Listed'
    BY TargetFacts, HandlerGoesOn DEF Listed, smvars
<1>2. Steered'
    BY TargetFacts DEF Steered, Active, smvars
<1>3. System!Effect(task.button, RobotNow') = System!Effect(task.button, RobotNow)
    <2>1. CASE c0 = Walker
        <3>1. current_state_name = Walk
            BY <2>1, TargetFacts, WalkingMode
        <3> QED
            BY <2>1, <3>1, TargetFacts DEF System!Effect, RobotNow, smvars
    <2>2. CASE c0 # Walker
        BY <2>2, TargetFacts DEF RobotNow, smvars
    <2> QED
        BY <2>1, <2>2
<1>4. Owed'
    <2> DEFINE e == System!Effect(task.button, RobotNow)
    <2>1. e' = System!Effect(task.button, RobotNow')
        BY DEF System!Effect
    <2>2. expected' = e'
        BY <1>3, <2>1, TargetFacts DEF Owed
    <2> QED
        BY <2>2, TargetFacts DEF Owed
<1> QED
    BY <1>1, <1>2, <1>4

\* Every step keeps the invariant of the threads.
LEMMA ThreadsStep == ThreadsInv /\ [ThreadsNext]_threadvars /\ ServiceInv' => ThreadsInv'
<1> SUFFICES ASSUME ThreadsInv, [ThreadsNext]_threadvars PROVE Linked' /\ Listed' /\ Steered' /\ Owed'
    BY EventsStep DEF ThreadsInv
<1>1. CASE KeyboardStep \/ UNCHANGED threadvars
    <2>1. UNCHANGED <<smvars, call, joy_data, task, expected>>
        BY <1>1, KeyboardAlone DEF threadvars, vars, keyboard, velocity
    <2> QED
        BY <2>1, NothingLinked DEF ThreadsInv
<1>2. CASE ControlStep
    <2>1. UNCHANGED <<task, expected>>
        BY <1>2 DEF ControlStep, keyboard
    <2>2. CASE Start \/ Shutdown \/ Tick \/ ImuDataCallback \/ JointStateCallback
        BY <2>1, <2>2, OthersAlone, NothingLinked DEF ThreadsInv
    <2>3. CASE Handle(Client) /\ ~Return(Client)
        <3>1. ~GetState(Client) /\ ~GetVelocity(Client)
            <4>1. call[Client].pc # "ready" => call[Client].op \in {"SetState", "SetVelocity"}
                BY EventKinds DEF ThreadsInv, Linked, EventsOK
            <4> QED
                BY <4>1 DEF GetState, GetVelocity, At
        <3> QED
            BY <2>1, <2>3, <3>1, SwitchStep, RefuseStep, WriteStep, NamesStep, RestartsStep,
               AppliedStep, TargetStep
            DEF Handle
    <2> QED
        BY <1>2, <2>2, <2>3 DEF ControlStep
<1> QED
    BY <1>1, <1>2, SendStep, ReceiveStep DEF ThreadsNext

-----------------------------------------------------------------------------
(* What holds at the start holds for ever.                                 *)

\* Before the first event nothing is asked for.
LEMMA ThreadsInitOK == ThreadsInit => EventsOK /\ Linked /\ Listed /\ Steered /\ Owed
<1> SUFFICES ASSUME ThreadsInit PROVE EventsOK /\ Linked /\ Listed /\ Steered /\ Owed
    OBVIOUS
<1>1. task = Keys!None /\ current_event = Keys!None /\ posted = 0
    BY DEF ThreadsInit, Keys!Init
<1>2. call[Client].pc = "ready" /\ call[Client].op = "none"
    BY TheClient DEF ThreadsInit, Init, Ready
<1>3. /\ current_state_name = FirstState /\ controllers = ControllersOf[FirstState]
      /\ joy_data[Walker] = Zero /\ expected = [mode |-> FirstState, velocity |-> Zero]
    BY TheClient DEF ThreadsInit, Init, SMInit
<1>4. task.type = "NONE"
    BY <1>1 DEF Keys!None
<1>5. EventsOK
    BY <1>1 DEF EventsOK, Keys!Event
<1> QED
    BY <1>1, <1>2, <1>3, <1>4, <1>5 DEF Linked, Listed, Steered, Owed, RobotNow

LEMMA ThreadsInvHolds == ThreadsSpec => []ThreadsInv
<1>1. ThreadsSpec => []ServiceInv
    BY ControlInside, ServiceInvHolds, PTL
<1>2. ThreadsInit /\ ServiceInv => ThreadsInv
    BY ThreadsInitOK DEF ThreadsInv
<1> QED
    BY <1>1, <1>2, ThreadsStep, PTL DEF ThreadsSpec

(* Between two calls of MainTask the robot is what the presses sent amount *)
(* to, whatever the two modules' threads do meanwhile                      *)
(* (keyboard_module.cc:60-101, control_module.cc:197-249).                 *)
THEOREM PressesReach == ThreadsSpec => []PressesReachRobot
<1>1. ThreadsInv => PressesReachRobot
    <2>1. System!None.type = "NONE"
        BY DEF System!None
    <2> QED
        BY <2>1 DEF ThreadsInv, Owed, RobotNow, PressesReachRobot, System!RobotFollowsPresses
<1> QED
    BY <1>1, ThreadsInvHolds, PTL

(* Once a tick has run in the mode that the presses sent amount to, each   *)
(* joint carries the command of that mode's last listed controller for it, *)
(* restarted (keyboard_module.cc:60-73, control_module.cc:136-160).        *)
THEOREM JointsFollow == ThreadsSpec => []JointsFollowPresses
<1>1. ThreadsInv /\ CleanTickCommands => JointsFollowPresses
    <2> SUFFICES ASSUME ThreadsInv, CleanTickCommands, task = Keys!None, tick.pc = "idle", clean
                 PROVE  CommandedBy(ControllersOf[expected.mode], joint_cmd)
        BY DEF JointsFollowPresses
    <2>1. expected.mode = current_state_name
        BY DEF ThreadsInv, Owed, RobotNow, Keys!None
    <2>2. CommandedBy(controllers, joint_cmd)
        BY DEF CleanTickCommands
    <2> QED
        BY <2>1, <2>2 DEF ThreadsInv, Listed
<1>2. ThreadsSpec => []CleanTickCommands
    BY ControlInside, CleanTickHolds, PTL
<1> QED
    BY <1>1, <1>2, ThreadsInvHolds, PTL

-----------------------------------------------------------------------------
(* The refinement: what a step of the threads is for the user.             *)

\* The two views of the keyboard name the same things.
LEMMA SameNames ==
    /\ Keys!MODE_BTNS = System!MODE_BTNS /\ Keys!ModeButtons = System!ModeButtons
    /\ Keys!Places = System!Places /\ Keys!Acquired = System!Acquired
    /\ Keys!None = System!None /\ Keys!RobotState = System!RobotState
    /\ \A b, n : Keys!StateChange(b, n) = System!StateChange(b, n)
    /\ \A k, n : Keys!VelocityChange(k, n) = System!VelocityChange(k, n)
<1>1. Keys!MODE_BTNS = System!MODE_BTNS
    BY DEF Keys!MODE_BTNS, System!MODE_BTNS
<1>2. Keys!ModeButtons = System!ModeButtons
    BY <1>1 DEF Keys!ModeButtons, System!ModeButtons
<1>3. Keys!Places = System!Places
    BY <1>2 DEF Keys!Places, System!Places
<1>4. Keys!Acquired = System!Acquired /\ Keys!None = System!None
    BY DEF Keys!Acquired, System!Acquired, Keys!None, System!None
<1>5. Keys!RobotState = System!RobotState
    BY DEF Keys!RobotState, System!RobotState
<1>6. /\ \A b, n : Keys!StateChange(b, n) = System!StateChange(b, n)
      /\ \A k, n : Keys!VelocityChange(k, n) = System!VelocityChange(k, n)
    BY <1>1 DEF Keys!StateChange, System!StateChange, Keys!VelocityChange, System!VelocityChange
<1> QED
    BY <1>1, <1>2, <1>3, <1>4, <1>5, <1>6

\* The mode service is the robot's, with one client.
LEMMA RobotIsService ==
    /\ Service!Switch(Client) => System!Robot!Switch(System!Client)
    /\ Service!Refuse(Client) => System!Robot!Refuse(System!Client)
    /\ Service!BecomeReady => System!Robot!BecomeReady
    /\ Service!Return(Client) => System!Robot!Return(System!Client)
    /\ UNCHANGED Service!svars => UNCHANGED System!robot
<1>1. System!Client = Client /\ Clients = {System!Client}
    BY Deployment DEF System!Client, Client
<1>2. /\ Service!Switch(Client) => System!Robot!Switch(Client)
      /\ Service!Refuse(Client) => System!Robot!Refuse(Client)
    BY DEF Service!Switch, Service!Refuse, Service!Undecided, Service!Reachable, Service!Answer,
       System!Robot!Switch, System!Robot!Refuse, System!Robot!Undecided,
       System!Robot!Reachable, System!Robot!Answer
<1>3. Service!BecomeReady => System!Robot!BecomeReady
    BY <1>1 DEF Service!BecomeReady, System!Robot!BecomeReady
<1>4. Service!Return(Client) => System!Robot!Return(Client)
    BY DEF Service!Return, Service!Quiet, System!Robot!Return, System!Robot!Quiet
<1>5. UNCHANGED Service!svars => UNCHANGED System!robot
    BY DEF Service!svars, System!robot
<1> QED
    BY <1>1, <1>2, <1>3, <1>4, <1>5

\* A step of the keyboard is one of its steps there.
LEMMA KeyboardSeen == ASSUME KeyboardStep PROVE System!KeyboardStep
<1>1. UNCHANGED <<System!robot, joy_data[Walker], expected>>
    <2>1. UNCHANGED <<smvars, call, fresh, switcher, joy_data, expected>>
        BY KeyboardAlone DEF vars, ghosts, velocity
    <2>2. request' = request
        BY <2>1 DEF request, ServiceRequest
    <2>3. UNCHANGED System!robot
        BY <2>1, <2>2, Unseen, RobotIsService DEF smvars
    <2> QED
        BY <2>1, <2>3
<1>2. CASE Keys!Window
    <2>1. Keys!Construct => System!Construct
        <3>1. \A r : Keys!Undo(r) = System!Undo(r)
            BY DEF Keys!Undo, System!Undo
        <3> QED
            BY <3>1, SameNames DEF Keys!Construct, Keys!pressed, System!Construct, System!pressed
    <2>2. Keys!ThreadStarts => System!ThreadStarts
        BY SameNames DEF Keys!ThreadStarts, Keys!Range, Keys!pressed,
           System!ThreadStarts, System!Range, System!pressed
    <2>3. /\ Keys!Destroy => System!Destroy
          /\ Keys!Destroyed => System!Destroyed
        BY SameNames DEF Keys!Destroy, Keys!Destroyed, Keys!pressed,
           System!Destroy, System!Destroyed, System!pressed
    <2> QED
        BY <1>1, <1>2, <2>1, <2>2, <2>3
        DEF Keys!Window, System!Window, System!KeyboardStep
<1>3. CASE System!User
    BY <1>1, <1>3 DEF System!KeyboardStep
<1>4. CASE Keys!EventThread
    <2>1. System!EventThread
        BY <1>4, SameNames
        DEF Keys!EventThread, Keys!PollNothing, Keys!Rendered, Keys!ModeButtonDown,
            Keys!ModeButtonStillDown, Keys!DirKeyDown, Keys!ModeButtonUp, Keys!UpElsewhere,
            Keys!DownElsewhere, Keys!Quit, Keys!Poll, Keys!At, Keys!Post, Keys!Dropped,
            Keys!pressed,
            System!EventThread, System!PollNothing, System!Rendered, System!ModeButtonDown,
            System!ModeButtonStillDown, System!DirKeyDown, System!ModeButtonUp,
            System!UpElsewhere, System!DownElsewhere, System!Quit, System!Poll, System!At,
            System!Post, System!Dropped, System!pressed
    <2> QED
        BY <1>1, <2>1 DEF System!KeyboardStep
<1>5. CASE Keys!Start \/ Keys!Shutdown
    <2>1. System!Start \/ System!Shutdown
        BY <1>5 DEF Keys!Start, Keys!Shutdown, Keys!window, System!Start, System!Shutdown,
           System!window
    <2> QED
        BY <1>1, <2>1 DEF System!KeyboardStep
<1> QED
    BY <1>2, <1>3, <1>4, <1>5 DEF KeyboardStep

\* MainTask's call shows as the question it asks of the mode service, or not at all.
LEMMA SendSeen == ASSUME ThreadsInv, Send PROVE System!Send
<1> USE DEF ThreadsInv
<1>1. System!TakeEvent /\ expected' = System!Effect(task'.button, expected)
    BY SameNames DEF Send, Keys!TakeEvent, Keys!window, System!TakeEvent, System!window
<1>2. joy_data'[Walker] = joy_data[Walker]
    BY SendFacts
<1>3. Call(Client) /\ Client \in Clients /\ System!Client = Client
    BY TheClient DEF Send, System!Client, Client
<1>4. /\ UNCHANGED <<current_state_name, controllers, fresh, switcher>>
      /\ request[Client] = Service!Quiet
    BY <1>3, AskSeen
<1>5. CASE task'.type = "STATE_CHANGE"
    <2> DEFINE t == Keys!RobotState[task'.state_id]
    <2>1. request' = [request EXCEPT ![Client] =
                         [ask |-> "switch", target |-> t, answer |-> "none"]]
        BY <1>3, <1>5, SendFacts, AskSeen
    <2>2. t \in System!Range(System!RobotState)
        <3>1. PICK b \in Keys!ModeButtons, n \in 1 .. MaxEvents : task' = Keys!StateChange(b, n)
            BY <1>5, SendFacts, EventKinds
        <3>2. task'.state_id \in 0 .. 4
            BY <3>1, ButtonTable DEF Keys!StateChange
        <3> QED
            BY <3>2, SameNames DEF System!RobotState, System!Range
    <2>3. request'[Client].target = t
        BY <1>3, <2>1 DEF request
    <2>4. System!Robot!Ask(Client)
        BY <1>4, <2>1, <2>2, SameReady
        DEF System!Robot!Ask, System!Robot!Quiet, Service!Quiet, request, ready
    <2> QED
        BY <1>1, <1>2, <1>3, <1>5, <2>3, <2>4, SameNames DEF System!Send, request
<1>6. CASE task'.type # "STATE_CHANGE"
    <2>1. request' = request
        BY <1>3, <1>6, SendFacts, AskSeen
    <2>2. UNCHANGED System!robot
        BY <1>4, <2>1, Unseen, RobotIsService
    <2> QED
        BY <1>1, <1>2, <1>6, <2>2 DEF System!Send
<1> QED
    BY <1>5, <1>6

\* The answer is received as it is given there.
LEMMA ReceiveSeen == ASSUME ThreadsInv, Receive PROVE System!Receive
<1> USE DEF ThreadsInv
<1>1. System!CallAnswered /\ UNCHANGED expected
    BY SameNames DEF Receive, Keys!CallAnswered, Keys!window, System!CallAnswered, System!window
<1>2. Return(Client) /\ Client \in Clients /\ UNCHANGED joy_data[Walker]
    BY TheClient, ReceiveFacts DEF Receive
<1>3. CASE task.type = "STATE_CHANGE"
    <2>1. call[Client].op = "SetState"
        BY <1>3 DEF Linked
    <2>2. System!Robot!Return(System!Client)
        BY <1>2, <2>1, ReturnSeen, RobotIsService
    <2> QED
        BY <1>1, <1>2, <1>3, <2>2 DEF System!Receive
<1>4. CASE task.type # "STATE_CHANGE"
    <2>1. task.type = "VELOCITY_CHANGE" /\ call[Client].op = "SetVelocity"
        BY <1>4, ReceiveFacts, EventKinds DEF Linked
    <2>2. UNCHANGED System!robot
        BY <1>2, <2>1, ReturnSeen, RobotIsService
    <2>3. current_state_name = Walk => joy_data[Walker] = task.button
        BY <2>1, ReceiveFacts
    <2> QED
        BY <1>1, <1>2, <1>4, <2>2, <2>3 DEF System!Receive
<1> QED
    BY <1>3, <1>4

\* A controller's velocity counts if it is the one that walks.
LEMMA SteerSeen ==
    ASSUME ThreadsInv, SetTarget(Client), UNCHANGED <<keyboard, expected>>
    PROVE  [System!SystemNext]_(System!systemvars)
<1> USE DEF ThreadsInv, ServiceInv
<1> DEFINE c0 == call[Client].names[call[Client].k]
<1>1. UNCHANGED System!robot
    BY TheClient, VelocityUnseen, RobotIsService
<1>2. UNCHANGED System!vars
    BY DEF keyboard, System!vars, System!window, System!pressed
<1>3. CASE c0 = Walker
    <2>1. current_state_name = Walk /\ task.type = "VELOCITY_CHANGE"
          /\ joy_data'[Walker] = task.button
        BY <1>3, TargetFacts, WalkingMode
    <2>2. System!Steer
        BY <1>1, <1>2, <2>1 DEF System!Steer
    <2> QED
        BY <2>2 DEF System!SystemNext
<1>4. CASE c0 # Walker
    BY <1>1, <1>2, <1>4, TargetFacts DEF System!systemvars
<1> QED
    BY <1>3, <1>4

\* Of the control module's other steps, those of the mode service show.
LEMMA ControlSeen ==
    ASSUME ThreadsInv, ControlStep
    PROVE  [System!SystemNext]_(System!systemvars)
<1> USE DEF ThreadsInv
<1>1. UNCHANGED System!vars /\ UNCHANGED <<keyboard, expected>>
    BY DEF ControlStep, keyboard, System!vars, System!window, System!pressed
<1>2. ASSUME UNCHANGED joy_data, \/ Service!Switch(Client) \/ Service!Refuse(Client)
                                 \/ Service!BecomeReady
      PROVE  [System!SystemNext]_(System!systemvars)
    <2>1. System!Handle
        BY <1>1, <1>2, RobotIsService DEF System!Handle
    <2> QED
        BY <2>1 DEF System!SystemNext
<1>3. ASSUME UNCHANGED joy_data, UNCHANGED Service!svars
      PROVE  [System!SystemNext]_(System!systemvars)
    BY <1>1, <1>3, RobotIsService DEF System!systemvars
<1>4. CASE Start \/ Shutdown \/ Tick \/ ImuDataCallback \/ JointStateCallback
    <2>1. UNCHANGED <<smvars, call, fresh, switcher, joy_data>>
        BY <1>4, OthersAlone, ElsewhereOK
    <2>2. request' = request
        BY <2>1 DEF request, ServiceRequest
    <2>3. UNCHANGED Service!svars
        BY <2>1, <2>2, Unseen DEF smvars
    <2> QED
        BY <1>3, <2>1, <2>3
<1>5. CASE SetStateAccept(Client)
    BY <1>2, <1>5, TheClient, SwitchSeen DEF SetStateAccept, velocity
<1>6. CASE SetStateRefuse(Client)
    BY <1>2, <1>6, TheClient, RefuseSeen DEF SetStateRefuse, velocity
<1>7. CASE RestartController(Client)
    <2>1. UNCHANGED joy_data
        BY <1>7 DEF RestartController, velocity
    <2> QED
        BY <1>2, <1>3, <1>7, <2>1, TheClient, RestartSeen
<1>8. CASE SetVelocityWrite(Client) \/ ReadNames(Client)
    <2>1. UNCHANGED joy_data
        BY <1>8 DEF SetVelocityWrite, ReadNames, velocity
    <2> QED
        BY <1>3, <1>8, <2>1, TheClient, VelocityUnseen
<1>9. CASE Applied(Client) \/ GetVelocity(Client)
    <2>1. UNCHANGED joy_data
        BY <1>9 DEF Applied, GetVelocity, velocity
    <2> QED
        BY <1>3, <1>9, <2>1, TheClient, AnswerUnseen
<1>10. CASE SetTarget(Client)
    BY <1>1, <1>10, SteerSeen
<1>11. ~GetState(Client)
    BY EventKinds DEF Linked, EventsOK, GetState, At
<1> QED
    BY <1>4, <1>5, <1>6, <1>7, <1>8, <1>9, <1>10, <1>11 DEF ControlStep, Handle

\* Every step of the threads is a step of the robot or does not show.
LEMMA SystemStep ==
    ThreadsInv /\ [ThreadsNext]_threadvars => [System!SystemNext]_(System!systemvars)
<1> SUFFICES ASSUME ThreadsInv, [ThreadsNext]_threadvars
             PROVE  [System!SystemNext]_(System!systemvars)
    OBVIOUS
<1>1. CASE UNCHANGED threadvars
    <2>1. UNCHANGED <<vars, keyboard, expected>>
        BY <1>1 DEF threadvars
    <2>2. request' = request
        BY <2>1 DEF vars, request, ServiceRequest
    <2>3. UNCHANGED System!robot
        BY <2>1, <2>2, Unseen, RobotIsService DEF vars, smvars, ghosts
    <2>4. UNCHANGED System!vars /\ UNCHANGED <<joy_data[Walker], expected>>
        BY <2>1 DEF vars, velocity, keyboard, System!vars, System!window, System!pressed
    <2> QED
        BY <2>3, <2>4 DEF System!systemvars
<1>2. CASE KeyboardStep
    BY <1>2, KeyboardSeen DEF System!SystemNext
<1>3. CASE Send
    BY <1>3, SendSeen DEF System!SystemNext
<1>4. CASE Receive
    BY <1>4, ReceiveSeen DEF System!SystemNext
<1> QED
    BY <1>1, <1>2, <1>3, <1>4, ControlSeen DEF ThreadsNext

\* And they start as the robot does.
LEMMA SystemInitOK == ThreadsInit => System!SystemInit
<1> SUFFICES ASSUME ThreadsInit PROVE System!SystemInit
    OBVIOUS
<1>1. System!Init
    BY SameNames DEF ThreadsInit, Keys!Init, System!Init
<1>2. System!Robot!Init
    BY ServiceInit, Deployment
    DEF ThreadsInit, Service!Init, Service!Quiet, System!Robot!Init, System!Robot!Quiet,
        System!Client, Client
<1>3. joy_data[Walker] = Zero
    BY TheClient DEF ThreadsInit, Init
<1> QED
    BY <1>1, <1>2, <1>3 DEF ThreadsInit, System!SystemInit

\* What RobotSystem assumes of its constants holds of the mapping.
LEMMA SystemAssumptions == System!Graph /\ System!Bounds /\ System!Labels
<1>1. System!Graph
    BY ModeGraph, Deployment DEF System!Graph, ButtonModes, Named
<1>2. System!Bounds
    BY Buttons DEF System!Bounds
<1>3. System!Labels
    BY Buttons, ButtonTable, SameNames DEF System!Labels
<1> QED
    BY <1>1, <1>2, <1>3

(* The threads of the two modules together are the robot its user sees     *)
(* (keyboard_module.cc:60-101, control_module.cc:197-249).                 *)
THEOREM SystemImplemented == ThreadsSpec => ImplementsSystem
BY ThreadsInvHolds, SystemInitOK, SystemStep, PTL
DEF ThreadsSpec, ImplementsSystem, System!SystemSpec
=============================================================================
