--------------------------- MODULE RobotSystemProof ---------------------------
(***************************************************************************)
(* RobotSystem for any mode graph, any direction keys and any number of    *)
(* events: between two calls, the robot does what the presses ask for.     *)
(***************************************************************************)
EXTENDS RobotSystem, KeyboardProof

(* The keyboard of the system is the keyboard.                             *)
LEMMA KeyboardInside == SystemSpec => Spec
<1>1. SystemInit => Init
    BY DEF SystemInit
<1>2. [SystemNext]_systemvars => [Next]_vars
    <2> SUFFICES ASSUME [SystemNext]_systemvars PROVE [Next]_vars
        OBVIOUS
    <2>1. CASE KeyboardStep
        BY <2>1 DEF KeyboardStep, User, Next
    <2>2. CASE Send \/ Receive
        BY <2>2 DEF Send, Receive, Next, MainTask
    <2>3. CASE Handle \/ Steer
        BY <2>3 DEF Handle, Steer
    <2>4. CASE UNCHANGED systemvars
        BY <2>4 DEF systemvars
    <2> QED
        BY <2>1, <2>2, <2>3, <2>4 DEF SystemNext
<1> QED
    BY <1>1, <1>2, PTL DEF SystemSpec, Spec

\* An event of the keyboard is one of three kinds, by its type.
LEMMA Kinds ==
    ASSUME NEW e \in Event
    PROVE  /\ e.type \in {"NONE", "STATE_CHANGE", "VELOCITY_CHANGE"}
           /\ e.type = "NONE" <=> e = None
           /\ e.type = "STATE_CHANGE" =>
                 \E b \in ModeButtons, n \in 1 .. MaxEvents : e = StateChange(b, n)
           /\ e.type = "VELOCITY_CHANGE" =>
                 \E k \in DirKeys, n \in 1 .. MaxEvents : e = VelocityChange(k, n)
<1>1. CASE e = None
    BY <1>1 DEF None
<1>2. CASE \E b \in ModeButtons, n \in 1 .. MaxEvents : e = StateChange(b, n)
    BY <1>2 DEF StateChange, None
<1>3. CASE \E k \in DirKeys, n \in 1 .. MaxEvents : e = VelocityChange(k, n)
    BY <1>3 DEF VelocityChange, None
<1> QED
    BY <1>1, <1>2, <1>3 DEF Event

\* The target of a mode button's request is the mode written on it.
LEMMA Targets ==
    ASSUME NEW b \in ModeButtons, NEW n \in 1 .. MaxEvents
    PROVE  /\ RobotState[StateChange(b, n).state_id] = Written[b]
           /\ Written[b] \in DOMAIN ModeOf
<1>1. RobotState[0] = "IDLE" /\ RobotState[1] = "STAND" /\ RobotState[2] = "ZERO"
      /\ RobotState[3] = "WALK"
    BY DEF RobotState
<1>2. Written["Stand"] = "STAND" /\ Written["Zero"] = "ZERO"
      /\ Written["Walk"] = "WALK" /\ Written["Idle"] = "IDLE"
    BY Buttons DEF Written
<1> QED
    BY <1>1, <1>2, Buttons, Graph, Labels DEF StateChange

-----------------------------------------------------------------------------
(* What the call under way still has to do to the robot.                   *)
Now == [mode |-> mode, velocity |-> velocity]

Called ==
    LET r == request[Client] IN
    /\ DOMAIN request = {Client}
    /\ task.type = "NONE" => r = Robot!Quiet /\ expected = Now
    /\ task.type = "VELOCITY_CHANGE" => r = Robot!Quiet /\ expected = Effect(task.button, Now)
    /\ task.type = "STATE_CHANGE" =>
          /\ r.ask = "switch" /\ r.target = RobotState[task.state_id]
          /\ DOMAIN r = {"ask", "target", "answer"}
          /\ IF r.answer = "none" THEN expected = Effect(task.button, Now) ELSE expected = Now

\* Nothing is pressed and nothing called in the beginning.
LEMMA InitCalled == SystemInit => Called
BY EventFacts DEF SystemInit, Init, Called, Robot!Init, Robot!Quiet, Now, None

\* A call begins with what the press should make of the robot.
LEMMA SendCalled ==
    ASSUME TypeOK, Called, Send
    PROVE  Called'
<1>1. /\ task = None /\ current_event # None /\ task' = current_event /\ current_event \in Event
      /\ expected' = Effect(task'.button, expected) /\ UNCHANGED velocity
    BY DEF Send, TakeEvent, TypeOK
<1>2. expected = Now /\ request[Client] = Robot!Quiet /\ DOMAIN request = {Client}
    BY <1>1 DEF Called, None
<1>3. CASE task'.type = "STATE_CHANGE"
    <2>1. /\ Robot!Ask(Client)
          /\ request'[Client].target = RobotState[task'.state_id]
        BY <1>3 DEF Send
    <2>2. PICK t : /\ request' = [request EXCEPT ![Client] = t]
                   /\ \/ t.ask = "query" /\ t.target = "none" /\ t = [ask |-> "query", target |-> "none", answer |-> "none"]
                      \/ \E g : t = [ask |-> "switch", target |-> g, answer |-> "none"]
        BY <2>1 DEF Robot!Ask
    <2>3. request'[Client] = t /\ DOMAIN request' = {Client}
        BY <1>2, <2>2
    <2>4. UNCHANGED mode
        BY <2>1 DEF Robot!Ask
    <2>5. RobotState[task'.state_id] # "none"
        <3>1. PICK b \in ModeButtons, n \in 1 .. MaxEvents : task' = StateChange(b, n)
            BY <1>1, <1>3, Kinds
        <3> QED
            BY <3>1, Targets, Buttons DEF Written
    <2>6. t.ask = "switch" /\ t.answer = "none" /\ DOMAIN t = {"ask", "target", "answer"}
        BY <2>1, <2>2, <2>3, <2>5
    <2> QED
        BY <1>1, <1>2, <1>3, <2>1, <2>3, <2>4, <2>6 DEF Called, Now
<1>4. CASE task'.type # "STATE_CHANGE"
    <2>1. UNCHANGED <<mode, request>>
        BY <1>4 DEF Send, robot
    <2>2. task'.type = "VELOCITY_CHANGE"
        BY <1>1, <1>4, Kinds
    <2> QED
        BY <1>1, <1>2, <2>1, <2>2 DEF Called, Now
<1> QED
    BY <1>3, <1>4

\* The moment of the switch does what the press asked, a refusal nothing.
LEMMA HandleCalled ==
    ASSUME TypeOK, Called, Handle
    PROVE  Called'
<1>1. UNCHANGED <<task, velocity, expected>> /\ task \in Event
    BY DEF Handle, vars, pressed, TypeOK
<1>2. CASE Robot!BecomeReady
    BY <1>1, <1>2 DEF Robot!BecomeReady, Called, Now
<1>3. CASE Robot!Switch(Client) \/ Robot!Refuse(Client)
    <2>1. request[Client].ask = "switch" /\ request[Client].answer = "none"
        BY <1>3 DEF Robot!Switch, Robot!Refuse, Robot!Undecided
    <2>2. task.type = "STATE_CHANGE"
        BY <1>1, <2>1, Kinds DEF Called, Robot!Quiet
    <2>3. PICK b \in ModeButtons, n \in 1 .. MaxEvents : task = StateChange(b, n)
        BY <1>1, <2>2, Kinds
    <2>4. /\ request[Client].target = Written[b] /\ Written[b] \in DOMAIN ModeOf
          /\ expected = Effect(b, Now) /\ b \notin DirKeys
        BY <2>1, <2>2, <2>3, Targets, Graph, Labels DEF Called, StateChange
    <2>5. \E a \in {"success", "failure"} : request' = [request EXCEPT ![Client].answer = a]
        BY <1>3 DEF Robot!Switch, Robot!Refuse, Robot!Answer
    <2>6. /\ DOMAIN request' = {Client}
          /\ request'[Client].ask = "switch" /\ request'[Client].target = request[Client].target
          /\ request'[Client].answer # "none"
          /\ DOMAIN request'[Client] = {"ask", "target", "answer"}
        BY <2>1, <2>2, <2>5 DEF Called
    <2>7. expected = Now'
        <3>1. CASE Robot!Switch(Client)
            BY <1>1, <2>4, <3>1 DEF Robot!Switch, Robot!Reachable, Effect, Now
        <3>2. CASE Robot!Refuse(Client)
            BY <1>1, <2>4, <3>2 DEF Robot!Refuse, Robot!Reachable, Effect, Now
        <3> QED
            BY <1>3, <3>1, <3>2
    <2> QED
        BY <1>1, <2>2, <2>6, <2>7 DEF Called
<1> QED
    BY <1>2, <1>3 DEF Handle

\* Giving the velocity to a robot that walks does what the press asked.
LEMMA SteerCalled ==
    ASSUME TypeOK, Called, Steer
    PROVE  Called'
<1>1. /\ UNCHANGED <<task, mode, request, expected>> /\ velocity' = task.button /\ mode = Walk
      /\ task \in Event /\ task.type = "VELOCITY_CHANGE"
    BY DEF Steer, vars, pressed, robot, TypeOK
<1>2. task.button \in DirKeys
    BY <1>1, Kinds DEF VelocityChange
<1>3. Effect(task.button, Now') = Effect(task.button, Now)
    BY <1>1, <1>2 DEF Effect, Now
<1> QED
    BY <1>1, <1>3 DEF Called, Effect

\* The answer finds the press acted upon.
LEMMA ReceiveCalled ==
    ASSUME TypeOK, Called, Receive
    PROVE  Called'
<1>1. task # None /\ task' = None /\ task \in Event /\ UNCHANGED <<velocity, expected>>
    BY DEF Receive, CallAnswered, TypeOK
<1>2. CASE task.type = "STATE_CHANGE"
    <2>1. Robot!Return(Client)
        BY <1>2 DEF Receive
    <2>2. request'[Client] = Robot!Quiet /\ DOMAIN request' = {Client} /\ expected = Now
        BY <1>2, <2>1 DEF Robot!Return, Called
    <2> QED
        BY <1>1, <2>1, <2>2 DEF Robot!Return, Called, Now, None
<1>3. CASE task.type # "STATE_CHANGE"
    <2>1. UNCHANGED <<mode, request>> /\ (mode = Walk => velocity = task.button)
        BY <1>3 DEF Receive, robot
    <2>2. PICK k \in DirKeys, n \in 1 .. MaxEvents : task = VelocityChange(k, n)
        BY <1>1, <1>3, Kinds
    <2>3. task.button = k /\ task.type = "VELOCITY_CHANGE"
        BY <2>2 DEF VelocityChange
    <2>4. expected = Now'
        BY <1>1, <2>1, <2>3 DEF Called, Effect, Now
    <2> QED
        BY <1>1, <2>1, <2>3, <2>4 DEF Called, None
<1> QED
    BY <1>2, <1>3

\* Every step of the system.
LEMMA CalledStep == TypeOK /\ Called /\ [SystemNext]_systemvars => Called'
<1> SUFFICES ASSUME TypeOK, Called, [SystemNext]_systemvars PROVE Called'
    OBVIOUS
<1>1. CASE KeyboardStep
    <2>1. UNCHANGED <<task, robot, velocity, expected>>
        BY <1>1 DEF KeyboardStep, User, Window, Construct, ThreadStarts, Destroy, Destroyed,
           Press, Release, CloseWindow, Enqueue, EventThread, PollNothing, Rendered,
           ModeButtonDown, ModeButtonStillDown, DirKeyDown, ModeButtonUp, UpElsewhere,
           DownElsewhere, Quit, Poll, Start, Shutdown, pressed
    <2> QED
        BY <2>1 DEF Called, robot, Now, Effect
<1>2. CASE UNCHANGED systemvars
    BY <1>2 DEF systemvars, vars, pressed, robot, Called, Now, Effect
<1> QED
    BY <1>1, <1>2, SendCalled, HandleCalled, SteerCalled, ReceiveCalled DEF SystemNext

(* Between two calls the robot is exactly where the presses sent so far    *)
(* have brought it, for any mode graph.                                    *)
THEOREM PressesFollowed == SystemSpec => []RobotFollowsPresses
<1>1. TypeOK /\ Called => RobotFollowsPresses
    BY DEF Called, RobotFollowsPresses, Now, None
<1> QED
    BY <1>1, InitCalled, CalledStep, KeyboardInside, TypeCorrect, PTL DEF SystemSpec

-----------------------------------------------------------------------------
\* The steps keep the types of what the system adds to the keyboard.
LEMMA SystemTypes ==
    ASSUME SystemTypeOK, [SystemNext]_systemvars
    PROVE  /\ mode' \in Modes /\ ready' \in BOOLEAN /\ switcher' \in {Client, "nobody"}
           /\ velocity' \in DirKeys \cup {Standstill}
<1> USE DEF SystemTypeOK
<1>1. CASE KeyboardStep
    BY <1>1 DEF KeyboardStep, robot
<1>2. CASE Send
    BY <1>2 DEF Send, robot, Robot!Ask
<1>3. CASE Handle
    BY <1>3, Graph, Labels
       DEF Handle, Robot!Switch, Robot!Refuse, Robot!BecomeReady, Robot!Reachable
<1>4. CASE Receive
    BY <1>4 DEF Receive, robot, Robot!Return
<1>5. CASE Steer
    <2>1. task.type = "VELOCITY_CHANGE" /\ task \in Event
        BY <1>5 DEF Steer, TypeOK
    <2>2. task.button \in DirKeys
        BY <2>1, Kinds DEF VelocityChange
    <2> QED
        BY <1>5, <2>2 DEF Steer, robot
<1>6. CASE UNCHANGED systemvars
    BY <1>6 DEF systemvars, robot
<1> QED
    BY <1>1, <1>2, <1>3, <1>4, <1>5, <1>6 DEF SystemNext

(* Every variable of the system keeps its type.                            *)
THEOREM SystemTypeCorrect == SystemSpec => []SystemTypeOK
<1>1. ASSUME SystemInit, TypeOK PROVE SystemTypeOK
    <2>1. ready \in BOOLEAN
        BY <1>1 DEF SystemInit, Robot!Init
    <2> QED
        BY <1>1, <2>1, Graph DEF SystemInit, Robot!Init, SystemTypeOK
<1>2. TypeOK' /\ SystemTypeOK /\ [SystemNext]_systemvars => SystemTypeOK'
    BY SystemTypes DEF SystemTypeOK
<1> QED
    BY <1>1, <1>2, KeyboardInside, TypeCorrect, PTL DEF SystemSpec

(* Nothing moves the robot once its window is closed and the last press    *)
(* has been acted upon: there is no event left, and none can come.         *)
THEOREM WindowFreezes == SystemSpec => ClosedWindowFreezes
<1>1. ASSUME OrderInv, Called, [SystemNext]_systemvars, Frozen
      PROVE  UNCHANGED <<mode, velocity, sent>>
    <2>1. TypeOK /\ Numbered /\ task = None /\ request[Client] = Robot!Quiet
        BY <1>1 DEF OrderInv, Frozen, Called, None
    <2>2. current_event = None
        <3>1. CASE posted = 0
            BY <2>1, <3>1, EventFacts DEF Numbered, TypeOK
        <3>2. CASE sent # <<>> /\ Last(sent) = posted
            <4>1. Len(sent) \in 1 .. Len(sent) /\ sent[Len(sent)] = posted /\ posted \in Nat
                BY <2>1, <3>2, EmptySeq, Bounds DEF TypeOK, Last
            <4> QED
                BY <2>1, <4>1 DEF Numbered
        <3> QED
            BY <1>1, <3>1, <3>2 DEF Frozen
    <2>3. ~Send /\ ~Steer /\ ~Receive
        BY <2>1, <2>2 DEF Send, TakeEvent, Steer, Receive, CallAnswered, None
    <2>4. CASE KeyboardStep
        BY <2>4 DEF KeyboardStep, User, Window, Construct, ThreadStarts, Destroy, Destroyed,
           Press, Release, CloseWindow, Enqueue, EventThread, PollNothing, Rendered,
           ModeButtonDown, ModeButtonStillDown, DirKeyDown, ModeButtonUp, UpElsewhere,
           DownElsewhere, Quit, Poll, Start, Shutdown, pressed, robot
    <2>5. CASE Handle
        BY <2>1, <2>5 DEF Handle, Robot!Switch, Robot!Refuse, Robot!BecomeReady,
           Robot!Undecided, Robot!Quiet, vars, pressed
    <2>6. CASE UNCHANGED systemvars
        BY <2>6 DEF systemvars, vars, pressed, robot
    <2> QED
        BY <1>1, <2>3, <2>4, <2>5, <2>6 DEF SystemNext
<1>2. OrderInv /\ Called /\ [SystemNext]_systemvars
      => [Frozen => UNCHANGED <<mode, velocity, sent>>]_systemvars
    BY <1>1
<1>3. SystemSpec => []Called
    <2>1. TypeOK /\ Called /\ [SystemNext]_systemvars => Called'
        BY CalledStep
    <2> QED
        BY <2>1, InitCalled, KeyboardInside, TypeCorrect, PTL DEF SystemSpec
<1> QED
    BY <1>2, <1>3, KeyboardInside, OrderHolds, PTL DEF SystemSpec, ClosedWindowFreezes
=============================================================================
