------------------------------ MODULE SampleLoop ------------------------------
(***************************************************************************)
(* The looping module of each sample: the publishers of the two channel    *)
(* samples, the clients of the two RPC samples, and helloworld.  A host    *)
(* (SampleApp) calls Initialize, Start and Shutdown; an executor runs the  *)
(* loop; in the channel samples a subscriber's callback runs once per      *)
(* event.  An act is one pass's publication, call or line of output.       *)
(***************************************************************************)
EXTENDS Naturals, SequencesExt, FiniteSets

CONSTANTS
    Samples,      \* the samples looked at
    Faults,       \* may the framework's calls throw?
    MaxEvents     \* bound: events that are tracked

Ros2 == {"ros2_channel", "ros2_rpc"}
AllSamples == Ros2 \cup {"pb_channel", "pb_rpc", "helloworld"}

ASSUME SampleChoice ==
    Samples \subseteq AllSamples /\ Faults \in BOOLEAN /\ MaxEvents \in Nat

VARIABLES
    sample,
    module,     \* how far the host has brought the module
    running,    \* run_flag_, or Running() of the module's context
    loop,       \* where MainLoop is
    stop_sig,   \* has stop_sig_ been set?
    events,     \* external: published events that wait for a thread
    handling,   \* events in EventHandle

\* History variables.
    published, handled,   \* the events published (a count) and handled, in order
    overdue               \* acts begun since running was cleared

loopvars == <<sample, module, running, loop, stop_sig, events, handling,
              published, handled, overdue>>
state == <<module, running>>
pass == <<loop, stop_sig, events, published, overdue>>

LoopInit ==
    /\ sample \in Samples
    /\ module = "created"
    /\ running = FALSE
    /\ loop = "none"
    /\ stop_sig = FALSE
    /\ events = <<>> /\ handling = {}
    /\ published = 0 /\ handled = <<>>
    /\ overdue = 0

\* Mutants: every pool has one thread, or two.
OneThread == 1
TwoThreads == 2

\* external: threads of the executor of the callbacks (work_thread_pool of
\* the ROS 2 channel sample, which the loop shares, has two).
Threads == IF sample = "ros2_channel" THEN 2 ELSE 1
LoopRuns == loop \notin {"none", "queued", "ended"}
ThreadFree ==
    Cardinality(handling) + (IF sample = "ros2_channel" /\ LoopRuns THEN 1 ELSE 0) < Threads

-----------------------------------------------------------------------------
(* Calls of the host.  A context says Running() from its creation on.      *)
Initialize ==
    /\ module = "created"
    /\ module' = "initialized"
    /\ running' = (sample \notin Ros2)
    /\ UNCHANGED pass

InitializeFails ==
    /\ Faults
    /\ module = "created"
    /\ module' = "unusable"
    /\ UNCHANGED <<running, pass>>

\* The ROS 2 samples raise the flag before they hand over the loop.
RaiseFlag ==
    /\ module = "initialized"
    /\ sample \in Ros2
    /\ module' = "raised"
    /\ running' = TRUE
    /\ UNCHANGED pass

AboutToPost ==
    \/ module = "raised"
    \/ module = "initialized" /\ sample \in {"pb_channel", "pb_rpc"}

PostLoop ==
    /\ AboutToPost
    /\ module' = "started"
    /\ loop' = "queued"
    /\ UNCHANGED <<running, stop_sig, events, published, overdue>>

(* Execute throws: Start has failed, and the flag stays as it is.          *)
PostFails ==
    /\ Faults
    /\ AboutToPost
    /\ module' = "refused"
    /\ UNCHANGED <<running, pass>>

\* helloworld's coroutine begins inside Start, up to its first wait: the first
\* pass, whose test holds, is over when Start returns.
SpawnInline ==
    /\ module = "initialized"
    /\ sample = "helloworld"
    /\ module' = "started"
    /\ loop' = "rest"
    /\ UNCHANGED <<running, stop_sig, events, published, overdue>>

Start == RaiseFlag \/ PostLoop \/ PostFails \/ SpawnInline

\* Mutant: helloworld's Shutdown does not wait for its coroutine.
ShutdownWaitsRos2 ==
    /\ module \in {"started", "refused"}
    /\ module' = IF running /\ sample \in Ros2 THEN "stopping" ELSE "stopped"
    /\ running' = FALSE
    /\ UNCHANGED pass

\* Mutant: Shutdown clears the flag when it has waited.
ShutdownWaitsFirst ==
    /\ module \in {"started", "refused"}
    /\ module' = IF (running /\ sample \in Ros2) \/ sample = "helloworld"
                 THEN "stopping" ELSE "stopped"
    /\ UNCHANGED <<running, pass>>

(* A ROS 2 module whose flag is down has nothing to wait for; the protobuf *)
(* modules never wait; helloworld waits for its scope.                     *)
Shutdown ==
    /\ module \in {"started", "refused"}
    /\ module' = IF (running /\ sample \in Ros2) \/ sample = "helloworld"
                 THEN "stopping" ELSE "stopped"
    /\ running' = FALSE
    /\ UNCHANGED pass

ShutdownReturns ==
    /\ module = "stopping"
    /\ IF sample \in Ros2 THEN stop_sig ELSE ~LoopRuns
    /\ module' = "stopped"
    /\ UNCHANGED <<running, pass>>

-----------------------------------------------------------------------------
(* The loop.  ROS 2: test, sleep, act.  Others: test, act, sleep.          *)
Step(from, to) ==
    /\ loop = from
    /\ loop' = to
    /\ UNCHANGED <<sample, state, handling, handled>>
Silent == UNCHANGED <<stop_sig, events, published, overdue>>

BeginLoop == ThreadFree /\ Step("queued", "test") /\ Silent

\* Mutant: the loop does not look at the flag.
TestNothing == Step("test", IF sample \in Ros2 THEN "rest" ELSE "fill") /\ Silent

Test ==
    /\ Step("test", CASE running /\ sample \in Ros2  -> "rest"
                      [] running /\ sample \notin Ros2 -> "fill"
                      [] ~running /\ sample \in Ros2 -> "leaving"
                      [] ~running /\ sample \notin Ros2 -> "ended")
    /\ Silent

\* The flag is not looked at again between the test and the act.
Act ==
    /\ Step(IF sample \in Ros2 THEN "rest" ELSE "fill", "act")
    /\ overdue' = IF running THEN overdue ELSE overdue + 1
    /\ IF sample \in {"ros2_channel", "pb_channel"} /\ published < MaxEvents
       THEN published' = published + 1 /\ events' = Append(events, published')
       ELSE UNCHANGED <<published, events>>
    /\ UNCHANGED stop_sig

(* The status of a call is only logged: any answer, or none in time.       *)
ActDone == Step("act", IF sample \in Ros2 THEN "test" ELSE "rest") /\ Silent

\* Mutant: the stop signal is set where the loop is left by its test only.
ActThrowsPastSignal ==
    /\ Faults
    /\ sample \in Ros2
    /\ Step("act", "ended")
    /\ Silent

ActThrows ==
    /\ Faults
    /\ sample \in Ros2
    /\ Step("act", "leaving")
    /\ Silent

Rest == sample \notin Ros2 /\ Step("rest", "test") /\ Silent

SetStopSig ==
    /\ Step("leaving", "ended")
    /\ stop_sig' = TRUE
    /\ UNCHANGED <<events, published, overdue>>

Loop == BeginLoop \/ Test \/ Act \/ ActDone \/ ActThrows \/ Rest \/ SetStopSig

-----------------------------------------------------------------------------
(* The subscriber's callback, one task per event on its executor.          *)
EventHandleBegin ==
    /\ ThreadFree
    /\ events # <<>>
    /\ handling' = handling \cup {Head(events)}
    /\ events' = Tail(events)
    /\ UNCHANGED <<sample, state, loop, stop_sig, published, handled, overdue>>

EventHandle ==
    /\ \E e \in handling : handling' = handling \ {e} /\ handled' = Append(handled, e)
    /\ UNCHANGED <<sample, state, pass>>

-----------------------------------------------------------------------------
LoopTypeOK ==
    /\ sample \in Samples
    /\ module \in {"created", "unusable", "initialized", "raised", "refused", "started",
                   "stopping", "stopped"}
    /\ running \in BOOLEAN /\ stop_sig \in BOOLEAN
    /\ loop \in {"none", "queued", "test", "rest", "fill", "act", "leaving", "ended"}
    /\ published \in 0 .. MaxEvents
    /\ handling \subseteq 1 .. MaxEvents
    /\ events \in Seq(1 .. MaxEvents) /\ handled \in Seq(1 .. MaxEvents)
    /\ overdue \in 0 .. 1

\* Start failed with the flag raised: Shutdown waits for a loop nobody posted.
NeverPosted == module = "stopping" /\ loop = "none"

(* Shutdown returns, and the loop ends, whenever the module is shut down,  *)
(* with acts that throw and without; the one exception is a ROS 2 module   *)
(* whose Start could not post the loop (normal_publisher_module.cc:49-72). *)
StopsForGood ==
    module \in {"stopping", "stopped"} ~> (module = "stopped" /\ ~LoopRuns) \/ NeverPosted

(* The subscriber logs the events in the order they were published.  Two   *)
(* callbacks can overtake each other only on the two threads of the ROS 2  *)
(* channel sample's pool, and only when its loop has left its thread.      *)
EventsInOrder ==
    \/ \A i, j \in DOMAIN handled : i < j => handled[i] < handled[j]
    \/ sample = "ros2_channel" /\ loop = "ended"

(* No act begins while the module is off or, after it has been told to     *)
(* stop, more than once; and none is under way after a Shutdown that       *)
(* waits: all five modules implement WorkerService.                        *)
Service == INSTANCE WorkerService WITH
    waits <- sample \in Ros2 \cup {"helloworld"},
    acting <- loop = "act",
    phase <- CASE module \in {"created", "unusable", "initialized"} -> "off"
               [] module \in {"raised", "started", "refused"} -> "on"
               [] module = "stopping" -> "closing"
               [] module = "stopped" -> "closed"
ImplementsWorker == Service!Spec
=============================================================================
