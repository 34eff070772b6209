---------------------------- MODULE KeyboardProof ----------------------------
(***************************************************************************)
(* Keyboard for any direction keys, any queue and any number of events:    *)
(* its types, its window, and the order of the events it sends.            *)
(***************************************************************************)
EXTENDS Keyboard, SequenceTheorems, TLAPS

\* The tables of keyboard.h, button by button.
LEMMA Buttons ==
    /\ ModeButtons = {"Stand", "Zero", "Walk", "Idle"}
    /\ MODE_BTNS["Stand"] = 1 /\ MODE_BTNS["Zero"] = 2
    /\ MODE_BTNS["Walk"] = 3 /\ MODE_BTNS["Idle"] = 0
BY DEF ModeButtons, MODE_BTNS

\* A posted event has its number and is not the empty one.
LEMMA EventFacts ==
    /\ None \in Event /\ None.n = 0
    /\ \A b \in ModeButtons, n \in 1 .. MaxEvents :
          StateChange(b, n) \in Event /\ StateChange(b, n).n = n
    /\ \A k \in DirKeys, n \in 1 .. MaxEvents :
          VelocityChange(k, n) \in Event /\ VelocityChange(k, n).n = n
    /\ \A e \in Event : e # None => e.n \in 1 .. MaxEvents
<1>1. None \in Event /\ None.n = 0
    BY DEF Event, None
<1>2. ASSUME NEW b \in ModeButtons, NEW n \in 1 .. MaxEvents
      PROVE  StateChange(b, n) \in Event /\ StateChange(b, n).n = n
    <2>1. StateChange(b, n) \in Event
        BY DEF Event
    <2> QED
        BY <2>1 DEF StateChange
<1>3. ASSUME NEW k \in DirKeys, NEW n \in 1 .. MaxEvents
      PROVE  VelocityChange(k, n) \in Event /\ VelocityChange(k, n).n = n
    <2>1. VelocityChange(k, n) \in Event
        BY DEF Event
    <2> QED
        BY <2>1 DEF VelocityChange
<1>4. ASSUME NEW e \in Event, e # None PROVE e.n \in 1 .. MaxEvents
    <2>1. CASE \E b \in ModeButtons, n \in 1 .. MaxEvents : e = StateChange(b, n)
        BY <1>2, <2>1
    <2>2. CASE \E k \in DirKeys, n \in 1 .. MaxEvents : e = VelocityChange(k, n)
        BY <1>3, <2>2
    <2> QED
        BY <1>4, <2>1, <2>2 DEF Event
<1> QED
    BY <1>1, <1>2, <1>3, <1>4

\* What the queue hands to the event thread is a mouse event.
LEMMA QueueFacts ==
    ASSUME NEW q \in Seq(MouseEvent)
    PROVE  /\ Len(q) \in Nat
           /\ \A e \in MouseEvent : Append(q, e) \in Seq(MouseEvent)
                                    /\ Len(Append(q, e)) = Len(q) + 1
           /\ q # <<>> => /\ Head(q) \in MouseEvent
                          /\ Tail(q) \in Seq(MouseEvent)
                          /\ Len(Tail(q)) < Len(q)
<1>1. Len(q) \in Nat
    BY LenProperties
<1>2. ASSUME NEW e \in MouseEvent
      PROVE  Append(q, e) \in Seq(MouseEvent) /\ Len(Append(q, e)) = Len(q) + 1
    BY AppendProperties
<1>3. ASSUME q # <<>>
      PROVE  Head(q) \in MouseEvent /\ Tail(q) \in Seq(MouseEvent) /\ Len(Tail(q)) < Len(q)
    BY <1>1, <1>3, HeadTailProperties
<1> QED
    BY <1>1, <1>2, <1>3

\* Sending on an event lengthens sent by its number.
LEMMA SentFacts ==
    ASSUME NEW s \in Seq(1 .. MaxEvents), NEW n \in 1 .. MaxEvents
    PROVE  /\ Append(s, n) \in Seq(1 .. MaxEvents)
           /\ Len(s) \in Nat /\ Len(Append(s, n)) = Len(s) + 1
           /\ DOMAIN s = 1 .. Len(s) /\ DOMAIN Append(s, n) = 1 .. Len(s) + 1
           /\ \A i \in 1 .. Len(s) : Append(s, n)[i] = s[i]
           /\ Append(s, n)[Len(s) + 1] = n
           /\ Append(s, n) # <<>> /\ Last(Append(s, n)) = n
<1>1. /\ Append(s, n) \in Seq(1 .. MaxEvents)
      /\ Len(Append(s, n)) = Len(s) + 1
      /\ \A i \in 1 .. Len(s) : Append(s, n)[i] = s[i]
      /\ Append(s, n)[Len(s) + 1] = n
    BY AppendProperties
<1>2. Len(s) \in Nat /\ DOMAIN s = 1 .. Len(s) /\ DOMAIN Append(s, n) = 1 .. Len(s) + 1
    BY <1>1, LenProperties
<1>3. Append(s, n) # <<>> /\ Last(Append(s, n)) = n
    BY <1>1, <1>2, EmptySeq DEF Last
<1> QED
    BY <1>1, <1>2, <1>3

-----------------------------------------------------------------------------
(* The steps as far as the pending event is concerned: it is replaced by   *)
(* the next one, sent on, or left alone.                                   *)
PostsNext ==
    /\ posted < MaxEvents
    /\ posted' = posted + 1
    /\ current_event' \in Event /\ current_event'.n = posted + 1
    /\ UNCHANGED <<task, sent>>

Sends ==
    /\ current_event # None
    /\ task' = current_event
    /\ current_event' = None
    /\ sent' = Append(sent, current_event.n)
    /\ UNCHANGED posted

\* Every step is one of the three.
LEMMA EventSteps ==
    ASSUME TypeOK, [Next]_vars
    PROVE  \/ PostsNext \/ Sends
           \/ UNCHANGED <<current_event, posted, sent>> /\ (task' = None \/ UNCHANGED task)
<1> USE DEF TypeOK
<1>1. CASE Window
    BY <1>1 DEF Window, Construct, ThreadStarts, Destroy, Destroyed, pressed
<1>2. CASE Press \/ Release \/ CloseWindow
    BY <1>2 DEF Press, Release, CloseWindow, Enqueue, pressed
<1>3. CASE ModeButtonDown
    <2>1. posted + 1 \in 1 .. MaxEvents /\ At \in ModeButtons
        BY <1>3, Bounds DEF ModeButtonDown, Poll, At
    <2> QED
        BY <1>3, <2>1, EventFacts DEF ModeButtonDown, Poll, Post, PostsNext
<1>4. CASE DirKeyDown
    <2>1. posted + 1 \in 1 .. MaxEvents /\ At \in DirKeys
        BY <1>4, Bounds DEF DirKeyDown, Poll, At
    <2> QED
        BY <1>4, <2>1, EventFacts DEF DirKeyDown, Poll, Post, PostsNext
<1>5. CASE PollNothing \/ Rendered
    BY <1>5 DEF PollNothing, Rendered, pressed
<1>6. CASE ModeButtonStillDown \/ ModeButtonUp \/ UpElsewhere \/ DownElsewhere \/ Quit
    BY <1>6 DEF ModeButtonStillDown, ModeButtonUp, UpElsewhere, DownElsewhere, Quit, Poll
<1>7. CASE Start \/ Shutdown
    BY <1>7 DEF Start, Shutdown
<1>8. CASE TakeEvent
    BY <1>8 DEF TakeEvent, Sends
<1>9. CASE CallAnswered
    BY <1>9 DEF CallAnswered
<1>10. CASE UNCHANGED vars
    BY <1>10 DEF vars, pressed
<1> QED
    BY <1>1, <1>2, <1>3, <1>4, <1>5, <1>6, <1>7, <1>8, <1>9, <1>10
       DEF Next, EventThread, MainTask

-----------------------------------------------------------------------------
(* The order of the events, made inductive: the pending event is the       *)
(* newest, those sent are older, and no more were sent than posted.        *)
Numbered ==
    /\ current_event # None => current_event.n = posted
    /\ \A i \in 1 .. Len(sent) :
          sent[i] <= posted /\ (current_event # None => sent[i] < posted)
    /\ Len(sent) + (IF current_event = None THEN 0 ELSE 1) <= posted

OrderInv == TypeOK /\ Numbered /\ SentOnceInOrder /\ NewestSurvives

\* The variables keep their types, given that no event is sent twice.
LEMMA TypeStep == TypeOK /\ Numbered /\ [Next]_vars => TypeOK'
<1> SUFFICES ASSUME TypeOK, Numbered, [Next]_vars PROVE TypeOK'
    OBVIOUS
<1>1. /\ current_event' \in Event /\ task' \in Event
      /\ posted' \in 0 .. MaxEvents
      /\ sent' \in Seq(1 .. MaxEvents) /\ Len(sent') <= posted'
    <2>1. CASE PostsNext
        BY <2>1, Bounds DEF PostsNext, TypeOK, Numbered
    <2>2. CASE Sends
        BY <2>2, EventFacts, SentFacts, Bounds DEF Sends, TypeOK, Numbered
    <2>3. CASE UNCHANGED <<current_event, posted, sent>> /\ (task' = None \/ UNCHANGED task)
        BY <2>3, EventFacts DEF TypeOK
    <2> QED
        BY <2>1, <2>2, <2>3, EventSteps
<1>2. queue' \in Seq(MouseEvent) /\ Len(queue') <= QueueLen /\ mouse' \in Places \cup {"up"}
    <2>1. CASE Press \/ Release \/ CloseWindow
        <3>1. PICK e \in MouseEvent : Enqueue(e)
            <4>1. CASE Press
                BY <4>1 DEF Press, MouseEvent
            <4>2. CASE Release
                BY <4>2 DEF Release, MouseEvent, TypeOK
            <4>3. CASE CloseWindow
                BY <4>3 DEF CloseWindow, MouseEvent
            <4> QED
                BY <2>1, <4>1, <4>2, <4>3
        <3>2. mouse' \in Places \cup {"up"}
            BY <2>1 DEF Press, Release, CloseWindow, TypeOK
        <3>3. Len(queue) \in Nat /\ Len(queue) < QueueLen /\ queue' = Append(queue, e)
            BY <3>1, QueueFacts DEF Enqueue, TypeOK
        <3>4. queue' \in Seq(MouseEvent) /\ Len(queue') = Len(queue) + 1
            BY <3>3, QueueFacts DEF TypeOK
        <3> QED
            BY <3>2, <3>3, <3>4, Bounds
    <2>2. CASE EventThread
        <3>1. UNCHANGED <<mouse, queue>> \/ (queue # <<>> /\ queue' = Tail(queue) /\ mouse' = mouse)
            BY <2>2 DEF EventThread, PollNothing, Rendered, ModeButtonDown,
                        ModeButtonStillDown, DirKeyDown, ModeButtonUp, UpElsewhere,
                        DownElsewhere, Quit, Poll
        <3>2. ASSUME queue # <<>>
              PROVE  /\ Tail(queue) \in Seq(MouseEvent)
                     /\ Len(Tail(queue)) \in Nat /\ Len(queue) \in Nat
                     /\ Len(Tail(queue)) < Len(queue)
            BY <3>2, QueueFacts, LenProperties DEF TypeOK
        <3>3. CASE UNCHANGED <<mouse, queue>>
            BY <3>3 DEF TypeOK
        <3>4. CASE queue # <<>> /\ queue' = Tail(queue) /\ mouse' = mouse
            <4>1. Len(queue) <= QueueLen /\ QueueLen \in Nat
                BY Bounds DEF TypeOK
            <4>2. Len(queue') <= QueueLen
                BY <3>2, <3>4, <4>1
            <4> QED
                BY <3>2, <3>4, <4>2 DEF TypeOK
        <3> QED
            BY <3>1, <3>3, <3>4
    <2>3. CASE Window \/ Start \/ Shutdown \/ MainTask \/ UNCHANGED vars
        BY <2>3 DEF Window, Construct, ThreadStarts, Destroy, Destroyed, Start, Shutdown,
                    MainTask, TakeEvent, CallAnswered, vars, TypeOK
    <2> QED
        BY <2>1, <2>2, <2>3 DEF Next
<1>3. /\ life' \in {"constructing", "failed", "open", "joining", "destroyed"}
      /\ event_thread' \in {"none", "polling", "rendering", "ended"}
      /\ running' \in BOOLEAN
      /\ armed' \in {"no", "yes", "cancelled"}
    BY DEF Next, Window, Construct, ThreadStarts, Destroy, Destroyed, Press, Release,
           CloseWindow, Enqueue, EventThread, PollNothing, Rendered, ModeButtonDown,
           ModeButtonStillDown, DirKeyDown, ModeButtonUp, UpElsewhere, DownElsewhere, Quit,
           Poll, Start, Shutdown, MainTask, TakeEvent, CallAnswered, vars, window, pressed,
           TypeOK
<1>4. resources' \subseteq Range(Acquired)
    <2>1. CASE Construct
        <3>1. \A i \in DOMAIN Acquired : Acquired[i] \in Range(Acquired)
            BY DEF Acquired, Range
        <3> QED
            BY <2>1, <3>1 DEF Construct, TypeOK
    <2>2. CASE ThreadStarts \/ Destroy \/ Destroyed
        BY <2>2 DEF ThreadStarts, Destroy, Destroyed, TypeOK
    <2>3. CASE Press \/ Release \/ CloseWindow \/ EventThread \/ Start \/ Shutdown
               \/ MainTask \/ UNCHANGED vars
        BY <2>3 DEF Press, Release, CloseWindow, Enqueue, EventThread, PollNothing, Rendered,
                    ModeButtonDown, ModeButtonStillDown, DirKeyDown, ModeButtonUp,
                    UpElsewhere, DownElsewhere, Quit, Poll, Start, Shutdown, MainTask,
                    TakeEvent, CallAnswered, vars, window, TypeOK
    <2> QED
        BY <2>1, <2>2, <2>3 DEF Next, Window
<1>5. last_button_state' \in [ModeButtons -> BOOLEAN] /\ dragged' \subseteq ModeButtons
    <2>1. CASE ModeButtonDown \/ ModeButtonUp
        BY <2>1 DEF ModeButtonDown, ModeButtonUp, Poll, Dropped, TypeOK
    <2>2. CASE UpElsewhere
        BY <2>2 DEF UpElsewhere, Poll, Dropped, TypeOK
    <2>3. CASE Window \/ Press \/ Release \/ CloseWindow \/ Start \/ Shutdown \/ MainTask
               \/ UNCHANGED vars
        BY <2>3 DEF Window, Construct, ThreadStarts, Destroy, Destroyed, Press, Release,
                    CloseWindow, Enqueue, Start, Shutdown, MainTask, TakeEvent, CallAnswered,
                    vars, pressed, TypeOK
    <2>4. CASE PollNothing \/ Rendered \/ ModeButtonStillDown \/ DirKeyDown \/ DownElsewhere
               \/ Quit
        BY <2>4 DEF PollNothing, Rendered, ModeButtonStillDown, DirKeyDown, DownElsewhere,
                    Quit, Poll, pressed, TypeOK
    <2> QED
        BY <2>1, <2>2, <2>3, <2>4 DEF Next, EventThread
<1> QED
    BY <1>1, <1>2, <1>3, <1>4, <1>5 DEF TypeOK

\* The numbering goes on.
LEMMA NumberedStep == TypeOK /\ Numbered /\ [Next]_vars => Numbered'
<1> SUFFICES ASSUME TypeOK, Numbered, [Next]_vars PROVE Numbered'
    OBVIOUS
<1>0. Len(sent) \in Nat /\ posted \in Nat /\ \A i \in 1 .. Len(sent) : sent[i] \in Nat
    BY LenProperties, ElementOfSeq, Bounds DEF TypeOK
<1>1. CASE PostsNext
    BY <1>0, <1>1, EventFacts DEF PostsNext, Numbered
<1>2. CASE Sends
    <2>1. current_event.n \in 1 .. MaxEvents
        BY <1>2, EventFacts DEF Sends, TypeOK
    <2>2. /\ Len(sent') = Len(sent) + 1
          /\ \A i \in 1 .. Len(sent) : sent'[i] = sent[i]
          /\ sent'[Len(sent) + 1] = posted
        BY <1>2, <2>1, SentFacts DEF Sends, TypeOK, Numbered
    <2>3. current_event' = None /\ posted' = posted /\ Len(sent) + 1 <= posted
        BY <1>2 DEF Sends, Numbered
    <2> QED
        BY <1>0, <2>2, <2>3 DEF Numbered
<1>3. CASE UNCHANGED <<current_event, posted, sent>>
    BY <1>3 DEF Numbered
<1> QED
    BY <1>1, <1>2, <1>3, EventSteps

\* What is sent on is newer than all that was sent before.
LEMMA OrderStep == TypeOK /\ Numbered /\ SentOnceInOrder /\ [Next]_vars => SentOnceInOrder'
<1> SUFFICES ASSUME TypeOK, Numbered, SentOnceInOrder, [Next]_vars PROVE SentOnceInOrder'
    OBVIOUS
<1>1. CASE Sends
    <2>1. current_event.n \in 1 .. MaxEvents
        BY <1>1, EventFacts DEF Sends, TypeOK
    <2>2. /\ DOMAIN sent = 1 .. Len(sent) /\ DOMAIN sent' = 1 .. Len(sent) + 1
          /\ Len(sent) \in Nat
          /\ \A i \in 1 .. Len(sent) : sent'[i] = sent[i]
          /\ sent'[Len(sent) + 1] = posted
        BY <1>1, <2>1, SentFacts DEF Sends, TypeOK, Numbered
    <2>3. \A i \in 1 .. Len(sent) : sent[i] < posted
        BY <1>1 DEF Sends, Numbered
    <2> QED
        BY <2>2, <2>3 DEF SentOnceInOrder
<1>2. CASE UNCHANGED sent
    BY <1>2 DEF SentOnceInOrder
<1> QED
    BY <1>1, <1>2, EventSteps DEF PostsNext

\* The newest event is replaced by a newer one, or sent.
LEMMA NewestStep == TypeOK /\ Numbered /\ NewestSurvives /\ [Next]_vars => NewestSurvives'
<1> SUFFICES ASSUME TypeOK, Numbered, NewestSurvives, [Next]_vars PROVE NewestSurvives'
    OBVIOUS
<1>1. CASE PostsNext
    <2>1. current_event' # None
        BY <1>1, EventFacts, Bounds DEF PostsNext, TypeOK
    <2> QED
        BY <1>1, <2>1 DEF PostsNext, NewestSurvives
<1>2. CASE Sends
    <2>1. current_event.n \in 1 .. MaxEvents
        BY <1>2, EventFacts DEF Sends, TypeOK
    <2>2. sent' # <<>> /\ Last(sent') = posted
        BY <1>2, <2>1, SentFacts DEF Sends, TypeOK, Numbered
    <2> QED
        BY <1>2, <2>2 DEF Sends, NewestSurvives
<1>3. CASE UNCHANGED <<current_event, posted, sent>>
    BY <1>3 DEF NewestSurvives
<1> QED
    BY <1>1, <1>2, <1>3, EventSteps

\* Nothing is posted or sent in the beginning.
LEMMA InitOrder == Init => OrderInv
<1> SUFFICES ASSUME Init PROVE OrderInv
    OBVIOUS
<1>1. TypeOK
    BY EventFacts, EmptySeq, Bounds DEF Init, TypeOK
<1>2. Numbered /\ SentOnceInOrder /\ NewestSurvives
    BY EmptySeq DEF Init, Numbered, SentOnceInOrder, NewestSurvives
<1> QED
    BY <1>1, <1>2 DEF OrderInv

\* The inductive invariant holds for ever.
LEMMA OrderHolds == Spec => []OrderInv
<1>1. OrderInv /\ [Next]_vars => OrderInv'
    BY TypeStep, NumberedStep, OrderStep, NewestStep DEF OrderInv
<1> QED
    BY InitOrder, <1>1, PTL DEF Spec

(* Every variable of the keyboard keeps its type.                          *)
THEOREM TypeCorrect == Spec => []TypeOK
<1>1. OrderInv => TypeOK
    BY DEF OrderInv
<1> QED
    BY OrderHolds, <1>1, PTL

(* No press is acted upon twice and none after a newer one.                *)
THEOREM InOrder == Spec => []SentOnceInOrder
<1>1. OrderInv => SentOnceInOrder
    BY DEF OrderInv
<1> QED
    BY OrderHolds, <1>1, PTL

(* The newest press is pending or was the last that was sent.              *)
THEOREM NewestKept == Spec => []NewestSurvives
<1>1. OrderInv => NewestSurvives
    BY DEF OrderInv
<1> QED
    BY OrderHolds, <1>1, PTL

-----------------------------------------------------------------------------
(* The window, made inductive: what is acquired is a prefix of Acquired,   *)
(* and the event thread lives between the constructor and the join.        *)
Holds ==
    /\ life = "constructing" =>
          \E i \in 0 .. 4 : resources = {Acquired[j] : j \in 1 .. i}
    /\ life \in {"constructing", "failed"} => event_thread = "none"
    /\ life \in {"open", "joining"} => resources = Range(Acquired)
    /\ life = "failed" => resources \in {{}, Range(Acquired)}
    /\ life = "destroyed" => resources = {} /\ event_thread = "ended"

\* Each failure of a call of SDL releases all that had been acquired.
LEMMA UndoAll ==
    \A i \in DOMAIN Acquired : {Acquired[j] : j \in 1 .. i - 1} \ Undo(Acquired[i]) = {}
<1> SUFFICES ASSUME NEW i \in DOMAIN Acquired, NEW j \in 1 .. i - 1
             PROVE  Acquired[j] \in Undo(Acquired[i])
    OBVIOUS
<1>1. i \in 1 .. 4
    BY DEF Acquired
<1>2. (i = 2 /\ j = 1) \/ (i = 3 /\ j \in {1, 2}) \/ (i = 4 /\ j \in {1, 2, 3})
    BY <1>1
<1> QED
    BY <1>2 DEF Acquired, Undo

\* The window's steps, and the event thread's, keep it.
LEMMA HoldsStep == TypeOK /\ Holds /\ [Next]_vars => Holds'
<1> SUFFICES ASSUME TypeOK, Holds, [Next]_vars PROVE Holds'
    OBVIOUS
<1>1. CASE Construct
    <2>1. PICK i \in DOMAIN Acquired :
             /\ resources = {Acquired[j] : j \in 1 .. i - 1}
             /\ \/ resources' = resources \cup {Acquired[i]} /\ life' = life
                \/ resources' = resources \ Undo(Acquired[i]) /\ life' = "failed"
        BY <1>1 DEF Construct
    <2>2. i \in 1 .. 4
        BY DEF Acquired
    <2>3. resources \cup {Acquired[i]} = {Acquired[j] : j \in 1 .. i}
        BY <2>1, <2>2
    <2> QED
        BY <1>1, <2>1, <2>2, <2>3, UndoAll DEF Construct, Holds
<1>2. CASE ThreadStarts
    BY <1>2 DEF ThreadStarts, Holds
<1>3. CASE Destroy \/ Destroyed
    BY <1>3 DEF Destroy, Destroyed, Holds
<1>4. CASE PollNothing \/ Rendered
    BY <1>4 DEF PollNothing, Rendered, Holds, TypeOK
<1>5. CASE ModeButtonDown \/ ModeButtonStillDown \/ DirKeyDown \/ ModeButtonUp
           \/ UpElsewhere \/ DownElsewhere \/ Quit
    <2>1. event_thread = "polling" /\ UNCHANGED <<life, resources>>
        BY <1>5 DEF ModeButtonDown, ModeButtonStillDown, DirKeyDown, ModeButtonUp,
                    UpElsewhere, DownElsewhere, Quit, Poll
    <2> QED
        BY <2>1 DEF Holds, TypeOK
<1>6. CASE Press \/ Release \/ CloseWindow \/ Start \/ Shutdown \/ MainTask
           \/ UNCHANGED vars
    <2>1. UNCHANGED window
        BY <1>6 DEF Press, Release, CloseWindow, Enqueue, Start, Shutdown, MainTask,
                    TakeEvent, CallAnswered, vars
    <2> QED
        BY <2>1 DEF window, Holds
<1> QED
    BY <1>1, <1>2, <1>3, <1>4, <1>5, <1>6 DEF Next, Window, EventThread

(* The window is never drawn after it was destroyed.  The destructor       *)
(* leaves nothing of SDL behind, and a constructor that failed leaves      *)
(* nothing, or all of it when the event thread could not be started.       *)
THEOREM WindowOutlivesThread == Spec => []NothingUsedAfterUse
<1>1. Init => Holds
    <2>1. {Acquired[j] : j \in 1 .. 0} = {}
        OBVIOUS
    <2> QED
        BY <2>1 DEF Init, Holds
<1>2. TypeOK /\ Holds => NothingUsedAfterUse
    <2>1. {"SDL", "window", "renderer"} \subseteq Range(Acquired)
        <3>1. Acquired[1] = "SDL" /\ Acquired[3] = "window" /\ Acquired[4] = "renderer"
            BY DEF Acquired
        <3>2. DOMAIN Acquired = 1 .. 4
            BY DEF Acquired
        <3> QED
            BY <3>1, <3>2 DEF Range
    <2> QED
        BY <2>1 DEF Holds, TypeOK, NothingUsedAfterUse
<1> QED
    BY <1>1, <1>2, HoldsStep, TypeCorrect, PTL DEF Spec

-----------------------------------------------------------------------------
(* The mode that is requested is the one written on the button, for every  *)
(* event that can be pending.                                              *)
THEOREM AskedAsWritten == Spec => []ButtonAsksItsMode
<1>1. TypeOK => ButtonAsksItsMode
    <2> SUFFICES ASSUME TypeOK, task.type = "STATE_CHANGE"
                 PROVE  /\ task.state_id \in DOMAIN RobotState
                        /\ RobotState[task.state_id] = Written[task.button]
        BY DEF ButtonAsksItsMode
    <2>1. PICK b \in ModeButtons, n \in 1 .. MaxEvents : task = StateChange(b, n)
        BY DEF TypeOK, Event, None, VelocityChange
    <2>2. task.state_id = MODE_BTNS[b] /\ task.button = b
        BY <2>1 DEF StateChange
    <2>3. DOMAIN RobotState = 0 .. 4
        BY DEF RobotState
    <2>4. RobotState[0] = "IDLE" /\ RobotState[1] = "STAND" /\ RobotState[2] = "ZERO"
          /\ RobotState[3] = "WALK"
        BY DEF RobotState
    <2>5. Written["Stand"] = "STAND" /\ Written["Zero"] = "ZERO"
          /\ Written["Walk"] = "WALK" /\ Written["Idle"] = "IDLE"
        BY Buttons DEF Written
    <2> QED
        BY <2>2, <2>3, <2>4, <2>5, Buttons
<1> QED
    BY TypeCorrect, <1>1, PTL

-----------------------------------------------------------------------------
(* OnlyDraggedButtonsIgnore.  The events still in the queue lead from the  *)
(* place the event thread has last seen held to where the mouse is now:    *)
(* trail[i] is the place held after the first i of them.                   *)
Moves(held, e, then) ==
    \/ e.type = "quit" /\ then = held
    \/ e.type = "down" /\ held = "up" /\ then = e.at
    \/ e.type = "up" /\ held = e.from /\ then = "up"

Trail(trail) ==
    /\ trail \in [0 .. Len(queue) -> Places \cup {"up"}]
    /\ trail[Len(queue)] = mouse
    /\ \A i \in 1 .. Len(queue) : Moves(trail[i - 1], queue[i], trail[i])

\* A button seen held ignores presses; of the others those that were dragged off.
Marks(held) ==
    \A b \in ModeButtons :
        last_button_state[b] <=> b = held \/ b \in dragged

DragInv == \E trail : Trail(trail) /\ Marks(trail[0])

\* Mode buttons, direction keys and a released mouse are told apart.
LEMMA PlaceFacts ==
    /\ "up" \notin Places /\ "elsewhere" \notin ModeButtons
    /\ DirKeys \cap ModeButtons = {}
BY Labels, Buttons DEF Places

\* What the user does lengthens the trail.
LEMMA TrailGrows ==
    ASSUME TypeOK, NEW trail, Trail(trail), NEW e \in MouseEvent, queue' = Append(queue, e),
           mouse' \in Places \cup {"up"}, Moves(mouse, e, mouse')
    PROVE  \E longer : Trail(longer)' /\ longer[0] = trail[0]
<1> DEFINE n == Len(queue)
           longer == [i \in 0 .. n + 1 |-> IF i <= n THEN trail[i] ELSE mouse']
<1>1. /\ n \in Nat /\ Len(queue') = n + 1
      /\ \A i \in 1 .. n : queue'[i] = queue[i]
      /\ queue'[n + 1] = e
    BY AppendProperties, LenProperties DEF TypeOK
<1>2. \A i \in 1 .. n : Moves(longer[i - 1], queue'[i], longer[i])
    BY <1>1 DEF Trail
<1>3. Moves(longer[n], queue'[n + 1], longer[n + 1])
    BY <1>1 DEF Trail
<1>4. \A i \in 1 .. n + 1 : Moves(longer[i - 1], queue'[i], longer[i])
    BY <1>1, <1>2, <1>3
<1>5. longer \in [0 .. n + 1 -> Places \cup {"up"}]
    BY <1>1 DEF Trail
<1>6. longer[n + 1] = mouse' /\ longer[0] = trail[0]
    BY <1>1
<1> HIDE DEF longer
<1> QED
    BY <1>1, <1>4, <1>5, <1>6 DEF Trail, Moves

\* What the event thread handles is taken off its other end.
LEMMA TrailShrinks ==
    ASSUME TypeOK, NEW trail, Trail(trail), queue # <<>>, queue' = Tail(queue), mouse' = mouse
    PROVE  \E shorter : Trail(shorter)' /\ Moves(trail[0], Head(queue), shorter[0])
<1> DEFINE n == Len(queue)
           shorter == [i \in 0 .. n - 1 |-> trail[i + 1]]
<1>1. /\ n \in Nat \ {0} /\ Len(queue') = n - 1
      /\ \A i \in 1 .. n - 1 : queue'[i] = queue[i + 1]
      /\ Head(queue) = queue[1]
    BY HeadTailProperties, LenProperties, EmptySeq DEF TypeOK
<1>2. \A i \in 1 .. n - 1 : Moves(shorter[i - 1], queue'[i], shorter[i])
    <2> SUFFICES ASSUME NEW i \in 1 .. n - 1
                 PROVE  Moves(shorter[i - 1], queue'[i], shorter[i])
        OBVIOUS
    <2>1. i + 1 \in 1 .. n /\ i - 1 \in 0 .. n - 1 /\ (i - 1) + 1 = i /\ (i + 1) - 1 = i
        BY <1>1
    <2>2. Moves(trail[i], queue[i + 1], trail[i + 1])
        BY <2>1 DEF Trail
    <2>3. shorter[i - 1] = trail[i] /\ shorter[i] = trail[i + 1]
        BY <1>1, <2>1
    <2> QED
        BY <1>1, <2>2, <2>3
<1>3. shorter \in [0 .. n - 1 -> Places \cup {"up"}]
    BY <1>1 DEF Trail
<1>4. shorter[n - 1] = mouse' /\ shorter[0] = trail[1]
    BY <1>1 DEF Trail
<1>5. Moves(trail[0], Head(queue), shorter[0])
    BY <1>1, <1>4 DEF Trail
<1> HIDE DEF shorter
<1> QED
    BY <1>1, <1>2, <1>3, <1>4, <1>5 DEF Trail, Moves

\* Every step keeps the trail and what the buttons remember of it.
LEMMA DragStep == TypeOK /\ DragInv /\ [Next]_vars => DragInv'
<1> SUFFICES ASSUME TypeOK, DragInv, [Next]_vars PROVE DragInv'
    OBVIOUS
<1>1. PICK trail : Trail(trail) /\ Marks(trail[0])
    BY DEF DragInv
<1>2. CASE UNCHANGED <<mouse, queue, last_button_state, dragged>>
    BY <1>1, <1>2 DEF DragInv, Trail, Marks, Moves
<1>3. CASE Press \/ Release \/ CloseWindow
    <2>1. UNCHANGED <<last_button_state, dragged>> /\ mouse' \in Places \cup {"up"}
        BY <1>3 DEF Press, Release, CloseWindow, Enqueue, pressed, TypeOK
    <2>2. PICK e \in MouseEvent : queue' = Append(queue, e) /\ Moves(mouse, e, mouse')
        <3>1. CASE Press
            <4>1. PICK p \in Places : mouse' = p /\ queue' = Append(queue, Down(p))
                BY <3>1 DEF Press, Enqueue
            <4>2. Down(p) \in MouseEvent /\ Moves(mouse, Down(p), mouse')
                BY <3>1, <4>1 DEF Press, MouseEvent, Down, Moves
            <4> QED
                BY <4>1, <4>2
        <3>2. CASE Release
            <4>1. PICK p \in Places : queue' = Append(queue, Up(p, mouse))
                BY <3>2 DEF Release, Enqueue
            <4>2. mouse \in Places
                BY <3>2 DEF Release, TypeOK
            <4>3. Up(p, mouse) \in MouseEvent /\ Moves(mouse, Up(p, mouse), mouse')
                BY <3>2, <4>2 DEF Release, MouseEvent, Up, Moves
            <4> QED
                BY <4>1, <4>3
        <3>3. CASE CloseWindow
            <4>1. Closed \in MouseEvent /\ Moves(mouse, Closed, mouse')
                BY <3>3 DEF CloseWindow, MouseEvent, Closed, Moves
            <4> QED
                BY <3>3, <4>1 DEF CloseWindow, Enqueue
        <3> QED
            BY <1>3, <3>1, <3>2, <3>3
    <2>3. PICK longer : Trail(longer)' /\ longer[0] = trail[0]
        BY <1>1, <2>1, <2>2, TrailGrows
    <2> QED
        BY <1>1, <2>1, <2>3 DEF DragInv, Marks
<1>4. ASSUME NEW type, NEW places, Poll(type, places)
      PROVE  \E shorter : Trail(shorter)' /\ Moves(trail[0], Head(queue), shorter[0])
    BY <1>1, <1>4, TrailShrinks DEF Poll
<1>5. trail[0] \in Places \cup {"up"}
    BY <1>1, LenProperties DEF Trail, TypeOK
<1>6. CASE ModeButtonDown \/ ModeButtonStillDown
    <2>1. PICK shorter : Trail(shorter)' /\ Moves(trail[0], Head(queue), shorter[0])
        BY <1>4, <1>6 DEF ModeButtonDown, ModeButtonStillDown
    <2>2. trail[0] = "up" /\ shorter[0] = At /\ At \in ModeButtons
        BY <1>6, <2>1 DEF ModeButtonDown, ModeButtonStillDown, Poll, Moves, At
    <2>3. \A b \in ModeButtons : last_button_state'[b] <=> b = At \/ last_button_state[b]
        BY <1>6 DEF ModeButtonDown, ModeButtonStillDown, TypeOK
    <2>4. dragged' = dragged /\ \A b \in ModeButtons : b # "up"
        BY <1>6, PlaceFacts DEF ModeButtonDown, ModeButtonStillDown, Places
    <2> QED
        BY <1>1, <2>1, <2>2, <2>3, <2>4 DEF DragInv, Marks
<1>7. CASE DirKeyDown \/ DownElsewhere \/ Quit
    <2>1. PICK shorter : Trail(shorter)' /\ Moves(trail[0], Head(queue), shorter[0])
        BY <1>4, <1>7 DEF DirKeyDown, DownElsewhere, Quit
    <2>2. \A b \in ModeButtons : b = trail[0] <=> b = shorter[0]
        BY <1>7, <2>1, PlaceFacts DEF DirKeyDown, DownElsewhere, Quit, Poll, Moves, Places
    <2>3. UNCHANGED <<last_button_state, dragged>>
        BY <1>7 DEF DirKeyDown, DownElsewhere, Quit
    <2> QED
        BY <1>1, <2>1, <2>2, <2>3 DEF DragInv, Marks
<1>8. CASE ModeButtonUp \/ UpElsewhere
    <2>1. PICK shorter : Trail(shorter)' /\ Moves(trail[0], Head(queue), shorter[0])
        BY <1>4, <1>8 DEF ModeButtonUp, UpElsewhere
    <2>2. trail[0] = Head(queue).from /\ shorter[0] = "up"
        BY <1>8, <2>1 DEF ModeButtonUp, UpElsewhere, Poll, Moves
    <2>3. dragged' = (dragged \cup ({trail[0]} \cap ModeButtons)) \ {At}
        BY <1>8, <2>2 DEF ModeButtonUp, UpElsewhere, Dropped
    <2>4. \A b \in ModeButtons : last_button_state'[b] <=> b # At /\ last_button_state[b]
        <3>1. CASE ModeButtonUp
            BY <3>1 DEF ModeButtonUp, TypeOK
        <3>2. CASE UpElsewhere
            BY <3>2 DEF UpElsewhere, Poll, At
        <3> QED
            BY <1>8, <3>1, <3>2
    <2>5. \A b \in ModeButtons : b # "up"
        BY PlaceFacts DEF Places
    <2> QED
        BY <1>1, <2>1, <2>2, <2>3, <2>4, <2>5 DEF DragInv, Marks
<1>9. CASE Window \/ PollNothing \/ Rendered \/ Start \/ Shutdown \/ MainTask \/ UNCHANGED vars
    BY <1>2, <1>9 DEF Window, Construct, ThreadStarts, Destroy, Destroyed, PollNothing,
       Rendered, Start, Shutdown, MainTask, TakeEvent, CallAnswered, vars, pressed
<1> QED
    BY <1>3, <1>6, <1>7, <1>8, <1>9 DEF Next, EventThread

(* A mode button ignores presses exactly after its press was dragged off   *)
(* it and until a release over it, however far the event thread is behind  *)
(* the mouse (keyboard.cc:82-86, 97-103).                                  *)
THEOREM DraggedIgnore == Spec => []OnlyDraggedButtonsIgnore
<1>1. Init => DragInv
    <2> SUFFICES ASSUME Init PROVE DragInv
        OBVIOUS
    <2> DEFINE trail == [i \in 0 .. 0 |-> "up"]
    <2>1. Len(queue) = 0
        BY EmptySeq DEF Init
    <2>2. Trail(trail)
        BY <2>1 DEF Init, Trail
    <2>3. \A b \in ModeButtons : b # "up"
        BY PlaceFacts DEF Places
    <2>4. Marks("up") /\ trail[0] = "up"
        BY <2>3 DEF Init, Marks
    <2> QED
        BY <2>2, <2>4 DEF DragInv
<1>2. TypeOK /\ DragInv => OnlyDraggedButtonsIgnore
    <2> SUFFICES ASSUME TypeOK, DragInv, mouse = "up", queue = <<>>,
                        NEW b \in ModeButtons
                 PROVE  last_button_state[b] <=> b \in dragged
        BY DEF OnlyDraggedButtonsIgnore
    <2>1. PICK trail : Trail(trail) /\ Marks(trail[0])
        BY DEF DragInv
    <2>2. trail[0] = "up"
        BY <2>1, EmptySeq DEF Trail
    <2>3. b # "up"
        BY PlaceFacts DEF Places
    <2> QED
        BY <2>1, <2>2, <2>3 DEF Marks
<1> QED
    BY <1>1, <1>2, DragStep, TypeCorrect, PTL DEF Spec
=============================================================================
