------------------------------ MODULE Keyboard ------------------------------
(***************************************************************************)
(* The keyboard module: the event thread of the window                     *)
(* (keyboard/keyboard.cc) turns mouse events into one pending event, and   *)
(* the timer task (keyboard_module.cc) takes it and calls the control      *)
(* module.  mutex_ makes each side's access to the pending event one step. *)
(* Events that are posted are numbered from 1, in order.                   *)
(***************************************************************************)
EXTENDS Naturals, SequencesExt

CONSTANTS
    DirKeys,      \* the labels of DIR_KEYS
    QueueLen,     \* bound: mouse events waiting in the queue of SDL
    MaxEvents     \* bound: events posted in a behaviour

ASSUME Bounds == QueueLen \in Nat \ {0} /\ MaxEvents \in Nat \ {0}

\* MODE_BTNS: the state_id of each button.
\* Mutant: the ids of the comment on state_id (keyboard.h:23).
MODE_BTNS_as_commented ==
    [b \in {"Stand", "Zero", "Walk", "Idle"} |->
        CASE b = "Stand" -> 0 [] b = "Zero" -> 1 [] b = "Walk" -> 2 [] b = "Idle" -> 7]

MODE_BTNS == [b \in {"Stand", "Zero", "Walk", "Idle"} |->
                CASE b = "Stand" -> 1 [] b = "Zero" -> 2 [] b = "Walk" -> 3 [] b = "Idle" -> 0]
ModeButtons == DOMAIN MODE_BTNS

\* The labels tell the buttons apart; a place is not taken for a released mouse.
ASSUME Labels == DirKeys \cap (ModeButtons \cup {"elsewhere", "up"}) = {}

\* RobotState::State (robot_control.proto), which MainTask casts a state_id to.
RobotState == [i \in 0 .. 4 |-> <<"IDLE", "STAND", "ZERO", "WALK", "KEEP">>[i + 1]]

Places == ModeButtons \cup DirKeys \cup {"elsewhere"}
Down(p) == [type |-> "down", at |-> p, from |-> p]
Up(p, from) == [type |-> "up", at |-> p, from |-> from]
Closed == [type |-> "quit", at |-> "elsewhere", from |-> "elsewhere"]
MouseEvent == {Down(p) : p \in Places} \cup {Up(p, q) : p, q \in Places} \cup {Closed}

VARIABLES
    mouse,               \* external: where the mouse button was pressed, or "up"
    queue,               \* external: SDL's event queue
    life,                \* how far the Keyboard object is constructed or destroyed
    resources,           \* what it holds of SDL
    event_thread,        \* where eventThread is
    running,             \* running_
    last_button_state,   \* per mode button: its last press has not been released
    current_event,       \* the pending event
    armed,               \* timer_: "no", "yes" or "cancelled"
    task                 \* the event MainTask is calling the control module for

(* History variables.                                                      *)
VARIABLES
    posted,    \* how many events have been posted
    sent,      \* the numbers of the events sent on, in order
    dragged    \* mode buttons whose press was released somewhere else, and that
               \* no release has met since (an event's from records the press)

window == <<life, resources, event_thread>>
pressed == <<last_button_state, current_event, armed, task, posted, sent, dragged>>
vars == <<mouse, queue, window, running, pressed>>

None == [type |-> "NONE", state_id |-> 0, button |-> "none", n |-> 0]
StateChange(b, n) == [type |-> "STATE_CHANGE", state_id |-> MODE_BTNS[b], button |-> b, n |-> n]
VelocityChange(k, n) == [type |-> "VELOCITY_CHANGE", state_id |-> 0, button |-> k, n |-> n]

Init ==
    /\ mouse = "up"
    /\ queue = <<>>
    /\ life = "constructing" /\ resources = {} /\ event_thread = "none"
    /\ running = TRUE
    /\ last_button_state = [b \in ModeButtons |-> FALSE]
    /\ current_event = None
    /\ armed = "no"
    /\ task = None
    /\ posted = 0
    /\ sent = <<>>
    /\ dragged = {}

-----------------------------------------------------------------------------
(* The constructor acquires one after the other and, where a call of SDL   *)
(* fails, releases what it holds before it throws: no destructor will run. *)
(* The font is left out: without one the labels are not drawn.             *)
Acquired == <<"SDL", "TTF", "window", "renderer">>

\* Mutant: the window is forgotten where the renderer cannot be created.
UndoAllButWindow(r) == {"SDL", "TTF"}

\* What the constructor releases when r cannot be had.
Undo(r) == CASE r = "SDL" -> {}
                [] r = "TTF" -> {"SDL"}
                [] r = "window" -> {"SDL", "TTF"}
                [] r = "renderer" -> {"SDL", "TTF", "window"}

Construct ==
    /\ life = "constructing"
    /\ \E i \in DOMAIN Acquired :
        /\ resources = {Acquired[j] : j \in 1 .. i - 1}
        /\ \/ resources' = resources \cup {Acquired[i]} /\ life' = life
           \/ resources' = resources \ Undo(Acquired[i]) /\ life' = "failed"
    /\ UNCHANGED <<mouse, queue, event_thread, running, pressed>>

(* The last of the constructor.  Where std::thread throws, nothing is      *)
(* released.                                                               *)
ThreadStarts ==
    /\ life = "constructing"
    /\ resources = Range(Acquired)
    /\ \/ life' = "open" /\ event_thread' = "polling"
       \/ life' = "failed" /\ UNCHANGED event_thread
    /\ UNCHANGED <<mouse, queue, resources, running, pressed>>

(* The destructor, once the framework has stopped the module.              *)
Destroy ==
    /\ life = "open"
    /\ armed # "yes" /\ task = None
    /\ life' = "joining"
    /\ running' = FALSE
    /\ UNCHANGED <<mouse, queue, resources, event_thread, pressed>>

\* Mutant: the event thread is not joined.
DestroyedUnjoined ==
    /\ life = "joining"
    /\ life' = "destroyed"
    /\ resources' = {}
    /\ UNCHANGED <<mouse, queue, event_thread, running, pressed>>

Destroyed ==
    /\ life = "joining"
    /\ event_thread = "ended"
    /\ life' = "destroyed"
    /\ resources' = {}
    /\ UNCHANGED <<mouse, queue, event_thread, running, pressed>>

Window == Construct \/ ThreadStarts \/ Destroy \/ Destroyed

-----------------------------------------------------------------------------
(* External: the user presses, drags, releases and closes the window.      *)
Enqueue(e) ==
    /\ life \in {"open", "joining"}
    /\ Len(queue) < QueueLen
    /\ queue' = Append(queue, e)
    /\ UNCHANGED <<window, running, pressed>>

Press ==
    /\ mouse = "up"
    /\ \E p \in Places : mouse' = p /\ Enqueue(Down(p))

Release ==
    /\ mouse # "up"
    /\ mouse' = "up"
    /\ \E p \in Places : Enqueue(Up(p, mouse))

CloseWindow ==
    /\ Enqueue(Closed)
    /\ UNCHANGED mouse

-----------------------------------------------------------------------------
(* eventThread handles the events there are, draws, and tests running_;    *)
(* handleMouseButton is one critical section.                              *)
Poll(type, places) ==
    /\ event_thread = "polling"
    /\ queue # <<>>
    /\ Head(queue).type = type
    /\ Head(queue).at \in places
    /\ queue' = Tail(queue)
    /\ event_thread' = IF type = "quit" THEN "rendering" ELSE "polling"
    /\ UNCHANGED <<mouse, life, resources, armed, task, sent>>
At == Head(queue).at

\* Mutant: a pending event is not overwritten.
PostIfNone(e) ==
    /\ current_event' = IF current_event = None THEN e ELSE current_event
    /\ posted' = e.n

Post(e) == current_event' = e /\ posted' = e.n
Dropped == dragged' = (dragged \cup ({Head(queue).from} \cap ModeButtons)) \ {At}

ModeButtonDown ==
    /\ Poll("down", ModeButtons)
    /\ ~last_button_state[At]
    /\ posted < MaxEvents
    /\ Post(StateChange(At, posted + 1))
    /\ last_button_state' = [last_button_state EXCEPT ![At] = TRUE]
    /\ UNCHANGED <<running, dragged>>

ModeButtonStillDown ==
    /\ Poll("down", ModeButtons)
    /\ last_button_state[At]
    /\ UNCHANGED <<running, current_event, last_button_state, posted, dragged>>

DirKeyDown ==
    /\ Poll("down", DirKeys)
    /\ posted < MaxEvents
    /\ Post(VelocityChange(At, posted + 1))
    /\ UNCHANGED <<running, last_button_state, dragged>>

\* Mutant: the release does not clear the button it is over.
ModeButtonUpForgotten ==
    /\ Poll("up", ModeButtons)
    /\ Dropped
    /\ UNCHANGED <<running, last_button_state, current_event, posted>>

(* A release does nothing but clear the mode button it is over.            *)
ModeButtonUp ==
    /\ Poll("up", ModeButtons)
    /\ last_button_state' = [last_button_state EXCEPT ![At] = FALSE]
    /\ Dropped
    /\ UNCHANGED <<running, current_event, posted>>

UpElsewhere ==
    /\ Poll("up", Places \ ModeButtons)
    /\ Dropped
    /\ UNCHANGED <<running, last_button_state, current_event, posted>>

DownElsewhere ==
    /\ Poll("down", {"elsewhere"})
    /\ UNCHANGED <<running, last_button_state, current_event, posted, dragged>>

(* The event thread will end; the timer task goes on.                      *)
Quit ==
    /\ Poll("quit", Places)
    /\ running' = FALSE
    /\ UNCHANGED <<last_button_state, current_event, posted, dragged>>

PollNothing ==
    /\ event_thread = "polling"
    /\ queue = <<>>
    /\ event_thread' = "rendering"
    /\ UNCHANGED <<mouse, queue, life, resources, running, pressed>>

Rendered ==
    /\ event_thread = "rendering"
    /\ event_thread' = IF running THEN "polling" ELSE "ended"
    /\ UNCHANGED <<mouse, queue, life, resources, running, pressed>>

EventThread ==
    \/ PollNothing \/ Rendered
    \/ ModeButtonDown \/ ModeButtonStillDown \/ DirKeyDown
    \/ ModeButtonUp \/ UpElsewhere \/ DownElsewhere \/ Quit

-----------------------------------------------------------------------------
Start ==
    /\ life = "open"
    /\ armed = "no"
    /\ armed' = "yes"
    /\ UNCHANGED <<mouse, queue, window, running, last_button_state, current_event, task,
                   posted, sent, dragged>>

Shutdown ==
    /\ armed = "yes"
    /\ armed' = "cancelled"
    /\ UNCHANGED <<mouse, queue, window, running, last_button_state, current_event, task,
                   posted, sent, dragged>>

\* Mutant: the task calls the control module although nothing is pending.
TakeAnyEvent ==
    /\ armed = "yes"
    /\ task = None
    /\ task' = current_event
    /\ current_event' = None
    /\ sent' = Append(sent, task'.n)
    /\ UNCHANGED <<mouse, queue, window, running, last_button_state, armed, posted, dragged>>

\* Mutant: the pending event is read, but not cleared.
PeekEvent ==
    /\ armed = "yes"
    /\ task = None
    /\ current_event # None
    /\ task' = current_event
    /\ sent' = Append(sent, task'.n)
    /\ UNCHANGED <<mouse, queue, window, running, last_button_state, current_event, armed,
                   posted, dragged>>

(* MainTask: GetKeyboardEvent takes and clears the pending event; the      *)
(* request is sent by a synchronous call, whose answer is only logged.     *)
TakeEvent ==
    /\ armed = "yes"
    /\ task = None
    /\ current_event # None
    /\ task' = current_event
    /\ current_event' = None
    /\ sent' = Append(sent, task'.n)
    /\ UNCHANGED <<mouse, queue, window, running, last_button_state, armed, posted, dragged>>

\* Mutant: the pending event is cleared when the call has returned.
CallAnsweredClears ==
    /\ task # None
    /\ task' = None
    /\ current_event' = None
    /\ UNCHANGED <<mouse, queue, window, running, last_button_state, armed, posted, sent,
                   dragged>>

CallAnswered ==
    /\ task # None
    /\ task' = None
    /\ UNCHANGED <<mouse, queue, window, running, last_button_state, current_event, armed,
                   posted, sent, dragged>>

MainTask == TakeEvent \/ CallAnswered

Next == Window \/ Press \/ Release \/ CloseWindow \/ EventThread \/ Start \/ Shutdown \/ MainTask

Spec == Init /\ [][Next]_vars
FairSpec == Spec /\ WF_vars(Start) /\ WF_vars(MainTask) /\ WF_vars(EventThread)

-----------------------------------------------------------------------------
Event == {None} \cup {StateChange(b, n) : b \in ModeButtons, n \in 1 .. MaxEvents}
                \cup {VelocityChange(k, n) : k \in DirKeys, n \in 1 .. MaxEvents}

TypeOK ==
    /\ mouse \in Places \cup {"up"}
    /\ queue \in Seq(MouseEvent) /\ Len(queue) <= QueueLen
    /\ life \in {"constructing", "failed", "open", "joining", "destroyed"}
    /\ resources \subseteq Range(Acquired)
    /\ event_thread \in {"none", "polling", "rendering", "ended"}
    /\ running \in BOOLEAN
    /\ last_button_state \in [ModeButtons -> BOOLEAN]
    /\ current_event \in Event /\ task \in Event
    /\ armed \in {"no", "yes", "cancelled"}
    /\ posted \in 0 .. MaxEvents
    /\ sent \in Seq(1 .. MaxEvents) /\ Len(sent) <= posted
    /\ dragged \subseteq ModeButtons

(* The window is never drawn after its destruction, although the event     *)
(* thread draws whenever it likes, and the destructor leaves nothing of    *)
(* SDL behind.  A failed constructor leaves either nothing, or, when it    *)
(* was the event thread that could not be started, all of it, which        *)
(* nothing releases any more (keyboard.cc:8-66, 198).                      *)
NothingUsedAfterUse ==
    /\ event_thread = "rendering" => {"SDL", "window", "renderer"} \subseteq resources
    /\ life = "destroyed" => resources = {}
    /\ life = "failed" => resources \in {{}, Range(Acquired)}

(* No press is acted upon twice and no two are acted upon in the wrong     *)
(* order: the numbers sent to the control module increase                  *)
(* (keyboard.cc:68-73, keyboard_module.cc:61).                             *)
SentOnceInOrder == \A i, j \in DOMAIN sent : i < j => sent[i] < sent[j]

(* The pending event may be overwritten within a timer period, but only by *)
(* a newer one: the newest press is either pending or was the last sent.   *)
NewestSurvives ==
    posted > 0 => IF current_event = None THEN sent # <<>> /\ Last(sent) = posted
                                          ELSE current_event.n = posted

(* A mode button ignores presses exactly after its press was dragged off   *)
(* it and until a release over it: when no mouse button is held and every  *)
(* event has been handled, each other button reacts                        *)
(* (keyboard.cc:82-86, 97-103).                                            *)
OnlyDraggedButtonsIgnore ==
    (mouse = "up" /\ queue = <<>>) =>
        \A b \in ModeButtons : last_button_state[b] <=> b \in dragged

(* The mode requested for a button is the one written on it: the ids of    *)
(* MODE_BTNS, cast by MainTask, agree with the enum of the protocol        *)
(* (keyboard.h:93-98, robot_control.proto:5-11, keyboard_module.cc:68-69). *)
Written == [b \in ModeButtons |-> CASE b = "Stand" -> "STAND" [] b = "Zero" -> "ZERO"
                                    [] b = "Walk" -> "WALK" [] b = "Idle" -> "IDLE"]
ButtonAsksItsMode ==
    task.type = "STATE_CHANGE" =>
        /\ task.state_id \in DOMAIN RobotState
        /\ RobotState[task.state_id] = Written[task.button]

(* A press is never left pending: it or a newer one is sent, unless the    *)
(* module is shut down or destroyed.                                       *)
NewestIsSent ==
    \A n \in 1 .. MaxEvents :
        posted = n ~> \/ sent # <<>> /\ Last(sent) >= n
                      \/ armed = "cancelled" \/ life \in {"joining", "destroyed"}
=============================================================================
