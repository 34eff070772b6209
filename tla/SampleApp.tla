------------------------------ MODULE SampleApp ------------------------------
(***************************************************************************)
(* The application around a sample: main and the signal handler of         *)
(* my_ros2_channel_app and my_ros2_rpc_app (main.cc, the same but for the  *)
(* modules they register).  The core is external: it calls the module, a   *)
(* call of its Shutdown makes its Start return, and it joins its           *)
(* executors' threads.  The kernel delivers signals to the main thread,    *)
(* which does nothing else until the handler has returned.                 *)
(***************************************************************************)
EXTENDS SampleLoop

CONSTANT MaxSignals   \* bound: signals in a behaviour

ASSUME MaxSignalsAssumed == MaxSignals \in Nat

VARIABLES
    main,              \* how far main has come
    global_core_ptr,   \* is global_core_ptr_ set?
    asked,             \* external: the core has been told to shut down
    handler,           \* SignalHandler: "idle", "entered" or "raised"
    signals            \* history variable: how many signals were sent

appvars == <<main, global_core_ptr, asked, handler, signals>>
vars == <<loopvars, appvars>>
outside == <<sample, handling, handled, asked, handler, signals>>

Init ==
    /\ LoopInit
    /\ main = "begin"
    /\ global_core_ptr = FALSE
    /\ asked = FALSE
    /\ handler = "idle"
    /\ signals = 0

-----------------------------------------------------------------------------
Go(from, to) ==
    /\ handler = "idle"
    /\ main = from
    /\ main' = to
    /\ UNCHANGED outside

\* main itself: nothing of the module changes.
Line(from, to) == Go(from, to) /\ UNCHANGED <<state, pass>>

RegisterSignals == Line("begin", "registered") /\ UNCHANGED global_core_ptr
CreateCore == Line("registered", "created") /\ global_core_ptr' = TRUE

CoreInitialize ==
    /\ \/ Go("created", "initialized") /\ Initialize
       \/ Go("created", "caught") /\ InitializeFails
    /\ UNCHANGED global_core_ptr

\* A Start that failed makes core.Start throw, or the core cleans up first.
CoreStart ==
    /\ \/ Go("initialized", "initialized") /\ Start
       \/ Line("initialized", "serving") /\ module = "started"
       \/ Line("initialized", "caught") /\ module = "refused"
       \/ Go("initialized", "closing") /\ module = "refused" /\ Shutdown
    /\ UNCHANGED global_core_ptr

CoreShutdown ==
    /\ \/ Go("serving", "closing") /\ asked /\ Shutdown
       \/ Go("closing", "closing") /\ ShutdownReturns
       \/ Line("closing", "closed") /\ module = "stopped" /\ ~LoopRuns /\ handling = {}
    /\ UNCHANGED global_core_ptr

\* Mutant: the pointer is left set when main leaves the block of the core.
KeepPointer == Line("closed", "cleared") /\ UNCHANGED global_core_ptr

ClearPointer == Line("closed", "cleared") /\ global_core_ptr' = FALSE

\* The core is destroyed at the end of its block, or by the exception.
Leave ==
    /\ Line("cleared", "left") \/ Line("left", "gone") \/ Line("caught", "gone")
    /\ UNCHANGED global_core_ptr

Main ==
    \/ RegisterSignals \/ CreateCore \/ CoreInitialize \/ CoreStart \/ CoreShutdown
    \/ ClearPointer \/ Leave

-----------------------------------------------------------------------------
\* External: Ctrl+C or a termination request.
Signal ==
    /\ main \notin {"begin", "gone"}
    /\ handler = "idle"
    /\ signals < MaxSignals
    /\ signals' = signals + 1
    /\ handler' = "entered"
    /\ UNCHANGED <<loopvars, main, global_core_ptr, asked>>

HandlerShutsDown ==
    /\ handler = "entered"
    /\ global_core_ptr
    /\ asked' = TRUE
    /\ handler' = "idle"
    /\ UNCHANGED <<loopvars, main, global_core_ptr, signals>>

(* Without a core the handler raises the signal again, with the handler    *)
(* still installed: it is pending until the handler returns, and enters it *)
(* again before main can go on.                                            *)
HandlerRaises ==
    /\ \/ handler = "entered" /\ ~global_core_ptr /\ handler' = "raised"
       \/ handler = "raised" /\ handler' = "entered"
    /\ UNCHANGED <<loopvars, main, global_core_ptr, asked, signals>>

SignalHandler == HandlerShutsDown \/ HandlerRaises

Elsewhere == main # "gone" /\ (Loop \/ EventHandleBegin \/ EventHandle) /\ UNCHANGED appvars

Next == Main \/ Signal \/ SignalHandler \/ Elsewhere

Spec == Init /\ [][Next]_vars
FairSpec ==
    /\ Spec
    /\ WF_vars(Main) /\ WF_vars(SignalHandler)
    /\ WF_vars(Loop /\ UNCHANGED appvars)
    /\ WF_vars((EventHandleBegin \/ EventHandle) /\ UNCHANGED appvars)

-----------------------------------------------------------------------------
TypeOK ==
    /\ LoopTypeOK
    /\ main \in {"begin", "registered", "created", "initialized", "serving", "closing",
                 "closed", "cleared", "left", "caught", "gone"}
    /\ global_core_ptr \in BOOLEAN /\ asked \in BOOLEAN
    /\ handler \in {"idle", "entered", "raised"}
    /\ signals \in 0 .. MaxSignals

(* An event that is published while the application serves reaches the     *)
(* subscriber, although the endless loop keeps a thread of the pool it may *)
(* share with the callbacks (my_ros2_channel_cfg.yaml:17-27).              *)
EveryEventHandled ==
    \A n \in 1 .. MaxEvents :
        published >= n ~> (n \in Range(handled) \/ main \in {"closing", "closed", "cleared", "left", "gone"})

(* The handler never calls a core that is gone, unless main was left by an *)
(* exception, which skips the reset of the pointer (main.cc:16-19, 53-60). *)
HandlerFindsCore ==
    handler = "entered" /\ global_core_ptr => main \notin {"begin", "registered", "left", "gone"}

(* A core that is told to shut down lets the process end, unless Shutdown  *)
(* waits for a loop nobody posted, or another signal comes when the        *)
(* pointer has been cleared.                                               *)
AskedAppEnds ==
    asked ~> (main = "gone" \/ NeverPosted \/ (handler # "idle" /\ ~global_core_ptr))

(* "Handles SIGINT (Ctrl+C) and SIGTERM signals for graceful shutdown"     *)
(* (main.cc:15): a signal ends the process.                                *)
SignalEndsApp == handler = "entered" ~> main = "gone"
=============================================================================
