----------------------------- MODULE SampleProof -----------------------------
(***************************************************************************)
(* SampleApp for any choice of samples, with faults and without, and any   *)
(* number of events and signals: its types, what every module promises its *)
(* host, the order of the events, and the handler's core.                  *)
(***************************************************************************)
EXTENDS SampleApp, SequenceTheorems, FiniteSetTheorems, TLAPS

(* A step of the application, as far as the loop is concerned, is one of   *)
(* the loop's own, and never changes the sample.                           *)
HostStep ==
    \/ Initialize \/ InitializeFails
    \/ RaiseFlag \/ PostLoop \/ PostFails \/ SpawnInline
    \/ Shutdown \/ ShutdownReturns

LEMMA LoopSteps ==
    [Next]_vars => \/ HostStep /\ UNCHANGED <<sample, handling, handled>>
                   \/ Loop \/ EventHandleBegin \/ EventHandle
                   \/ UNCHANGED loopvars
<1> SUFFICES ASSUME [Next]_vars
             PROVE  \/ HostStep /\ UNCHANGED <<sample, handling, handled>>
                    \/ Loop \/ EventHandleBegin \/ EventHandle
                    \/ UNCHANGED loopvars
    OBVIOUS
<1>1. CASE Main
    BY <1>1 DEF Main, RegisterSignals, CreateCore, CoreInitialize, CoreStart, CoreShutdown,
                ClearPointer, Leave, Line, Go, outside, Start, HostStep, loopvars, state, pass
<1>2. CASE Signal \/ SignalHandler
    BY <1>2 DEF Signal, SignalHandler, HandlerShutsDown, HandlerRaises
<1>3. CASE Elsewhere
    BY <1>3 DEF Elsewhere
<1>4. CASE UNCHANGED vars
    BY <1>4 DEF vars
<1> QED
    BY <1>1, <1>2, <1>3, <1>4 DEF Next

-----------------------------------------------------------------------------
(* What the refinement rests on: how far the module is tells what the flag *)
(* and the loop can be, and the last act after the flag was cleared is the *)
(* last for ever.                                                          *)
Posted ==
    /\ module \in {"created", "unusable", "initialized", "raised", "refused"} => loop = "none"
    /\ sample = "helloworld" => loop # "queued" /\ module \notin {"raised", "refused"}
    /\ module = "raised" => sample \in Ros2
    /\ module = "stopping" => sample \in Ros2 \cup {"helloworld"}
    /\ loop \in {"leaving"} => sample \in Ros2

Flagged ==
    /\ module = "initialized" => (running <=> sample \notin Ros2)
    /\ module \in {"raised", "started", "refused"} => running
    /\ module \in {"created", "unusable", "stopping", "stopped"} => ~running

Final ==
    /\ stop_sig => loop = "ended"
    /\ module = "stopped" /\ sample \in Ros2 \cup {"helloworld"} =>
          loop \in {"none", "ended"}

LastAct ==
    /\ running => overdue = 0
    /\ overdue = 1 => loop \in {"act", "test", "leaving", "ended"}
                               \cup IF sample \in Ros2 THEN {} ELSE {"rest"}

LoopInv == LoopTypeOK /\ Posted /\ Flagged /\ Final /\ LastAct

\* A sample that was just loaded.
LEMMA InitLoopInv == Init => LoopInv
<1> SUFFICES ASSUME Init PROVE LoopInv
    OBVIOUS
<1> USE DEF Init, LoopInit
<1>1. LoopTypeOK
    <2>1. published \in 0 .. MaxEvents
        BY SampleChoice
    <2>2. events \in Seq(1 .. MaxEvents) /\ handled \in Seq(1 .. MaxEvents)
        BY EmptySeq
    <2>3. running \in BOOLEAN /\ stop_sig \in BOOLEAN
        OBVIOUS
    <2>4. sample \in Samples /\ handling \subseteq 1 .. MaxEvents /\ overdue \in 0 .. 1
        OBVIOUS
    <2> QED
        BY <2>1, <2>2, <2>3, <2>4 DEF LoopTypeOK
<1>2. Posted /\ Flagged /\ Final /\ LastAct
    BY DEF Posted, Flagged, Final, LastAct
<1> QED
    BY <1>1, <1>2 DEF LoopInv

\* The events keep their types: they are numbers of published events.
LEMMA EventTypes ==
    ASSUME LoopTypeOK, [Next]_vars
    PROVE  /\ published' \in 0 .. MaxEvents
           /\ handling' \subseteq 1 .. MaxEvents
           /\ events' \in Seq(1 .. MaxEvents) /\ handled' \in Seq(1 .. MaxEvents)
<1> USE DEF LoopTypeOK
<1>1. CASE Act
    <2>1. CASE UNCHANGED <<published, events>>
        BY <1>1, <2>1 DEF Act, Step
    <2>2. CASE published < MaxEvents /\ published' = published + 1
               /\ events' = Append(events, published')
        <3>1. published + 1 \in 1 .. MaxEvents
            BY <2>2, SampleChoice
        <3> QED
            BY <1>1, <2>2, <3>1, AppendProperties DEF Act, Step
    <2> QED
        BY <1>1, <2>1, <2>2 DEF Act
<1>2. CASE EventHandleBegin
    BY <1>2, HeadTailProperties DEF EventHandleBegin
<1>3. CASE EventHandle
    BY <1>3, AppendProperties DEF EventHandle, pass
<1>4. CASE UNCHANGED <<published, handling, events, handled>>
    BY <1>4
<1> QED
    BY LoopSteps, <1>1, <1>2, <1>3, <1>4
       DEF HostStep, Initialize, InitializeFails, RaiseFlag, PostLoop, PostFails, SpawnInline,
           Shutdown, ShutdownReturns, Loop, BeginLoop, Test, ActDone, ActThrows, Rest,
           SetStopSig, Step, Silent, pass, loopvars

(* Each call of the host and each pass of the loop keeps the invariant.    *)
LEMMA LoopInvStep == LoopInv /\ [Next]_vars => LoopInv'
<1> SUFFICES ASSUME LoopInv, [Next]_vars PROVE LoopInv'
    OBVIOUS
<1> USE DEF LoopInv
<1>1. /\ published' \in 0 .. MaxEvents /\ handling' \subseteq 1 .. MaxEvents
      /\ events' \in Seq(1 .. MaxEvents) /\ handled' \in Seq(1 .. MaxEvents)
    BY EventTypes
<1> DEFINE Types ==
        /\ sample \in Samples
        /\ module \in {"created", "unusable", "initialized", "raised", "refused", "started",
                       "stopping", "stopped"}
        /\ running \in BOOLEAN /\ stop_sig \in BOOLEAN
        /\ loop \in {"none", "queued", "test", "rest", "fill", "act", "leaving", "ended"}
        /\ overdue \in 0 .. 1
<1> DEFINE Kept == Types /\ Posted /\ Flagged /\ Final /\ LastAct
<1> USE DEF Posted, Flagged, Final, LastAct
<1>2. Kept
    BY DEF LoopTypeOK
<1>3. Kept'
    <2>1. CASE HostStep /\ UNCHANGED <<sample, handling, handled>>
        <3>1. CASE Initialize
            <4>1. running' \in BOOLEAN /\ (running' <=> sample \notin Ros2)
                BY <3>1 DEF Initialize
            <4> QED
                BY <1>2, <2>1, <3>1, <4>1 DEF Initialize, pass
        <3>5. CASE InitializeFails
            BY <1>2, <2>1, <3>5 DEF InitializeFails, pass
        <3>6. CASE RaiseFlag
            BY <1>2, <2>1, <3>6 DEF RaiseFlag, pass, Ros2
        <3>7. CASE PostLoop \/ PostFails
            BY <1>2, <2>1, <3>7 DEF PostLoop, PostFails, AboutToPost, pass, Ros2
        <3>2. CASE SpawnInline
            BY <1>2, <2>1, <3>2 DEF SpawnInline, Ros2
        <3>3. CASE Shutdown
            BY <1>2, <2>1, <3>3 DEF Shutdown, pass
        <3>4. CASE ShutdownReturns
            BY <1>2, <2>1, <3>4 DEF ShutdownReturns, LoopRuns, pass, Ros2
        <3> QED
            BY <2>1, <3>1, <3>2, <3>3, <3>4, <3>5, <3>6, <3>7 DEF HostStep
    <2>2. CASE BeginLoop \/ ActDone \/ Rest
        BY <1>2, <2>2 DEF BeginLoop, ActDone, Rest, Step, Silent, state, Ros2
    <2>3. CASE Test
        BY <1>2, <2>3 DEF Test, Step, Silent, state, Ros2
    <2>4. CASE Act
        BY <1>2, <2>4 DEF Act, Step, state, Ros2
    <2>5. CASE ActThrows
        BY <1>2, <2>5 DEF ActThrows, Step, Silent, state
    <2>7. CASE SetStopSig
        BY <1>2, <2>7 DEF SetStopSig, Step, state
    <2>6. CASE EventHandleBegin \/ EventHandle \/ UNCHANGED loopvars
        BY <1>2, <2>6 DEF EventHandleBegin, EventHandle, loopvars, state, pass
    <2> QED
        BY LoopSteps, <2>1, <2>2, <2>3, <2>4, <2>5, <2>6, <2>7 DEF Loop
<1> QED
    BY <1>1, <1>3 DEF LoopTypeOK

\* The inductive invariant holds for ever.
LEMMA LoopInvHolds == Spec => []LoopInv
BY InitLoopInv, LoopInvStep, PTL DEF Spec

-----------------------------------------------------------------------------
(* A step of the application is a step of WorkerService, or none at all.   *)
LEMMA WorkerStep == LoopInv /\ [Next]_vars => [Service!Next]_(Service!wvars)
<1> SUFFICES ASSUME LoopInv, [Next]_vars PROVE [Service!Next]_(Service!wvars)
    OBVIOUS
<1> USE DEF LoopInv, Service!wvars
<1>1. CASE HostStep /\ UNCHANGED <<sample, handling, handled>>
    <2>1. UNCHANGED overdue /\ (loop = "act")' = (loop = "act")
        BY <1>1 DEF HostStep, Initialize, InitializeFails, RaiseFlag, PostLoop, PostFails,
           SpawnInline, Shutdown, ShutdownReturns, AboutToPost, pass, Posted
    <2>2. CASE Initialize \/ InitializeFails
        BY <1>1, <2>1, <2>2 DEF Initialize, InitializeFails
    <2>3. CASE RaiseFlag \/ SpawnInline
        BY <1>1, <2>1, <2>3 DEF RaiseFlag, SpawnInline, Service!Next, Service!Open
    <2>4. CASE PostLoop \/ PostFails
        BY <1>1, <2>1, <2>4
           DEF PostLoop, PostFails, AboutToPost, Service!Next, Service!Open
    <2>5. CASE Shutdown
        <3>1. module' = "stopped" => sample \notin Ros2 \cup {"helloworld"}
            BY <2>5 DEF Shutdown, Flagged
        <3>2. module' \in {"stopping", "stopped"}
            BY <2>5 DEF Shutdown
        <3> QED
            BY <1>1, <2>1, <2>5, <3>1, <3>2
               DEF Shutdown, Service!Next, Service!Close, Service!Closed
    <2>6. CASE ShutdownReturns
        <3>1. loop # "act"
            BY <2>6 DEF ShutdownReturns, LoopRuns, Final
        <3> QED
            BY <1>1, <2>1, <2>6, <3>1 DEF ShutdownReturns, Service!Next, Service!Closed
    <2> QED
        BY <1>1, <2>2, <2>3, <2>4, <2>5, <2>6 DEF HostStep
<1>2. CASE BeginLoop \/ Test \/ Rest \/ SetStopSig
    BY <1>2 DEF BeginLoop, Test, Rest, SetStopSig, Step, Silent, state
<1>3. CASE Act
    <2>1. /\ loop # "act" /\ loop' = "act" /\ UNCHANGED <<sample, module, running>>
          /\ overdue' = IF running THEN overdue ELSE overdue + 1
        BY <1>3 DEF Act, Step, state
    <2>2. module \in {"started", "stopping", "stopped"}
        BY <1>3 DEF Act, Step, Posted, LoopTypeOK
    <2>3. running <=> module = "started"
        BY <2>2 DEF Flagged
    <2>4. module = "stopped" => sample \notin Ros2 \cup {"helloworld"}
        BY <1>3 DEF Act, Step, Final
    <2>5. ~running => overdue = 0
        BY <1>3 DEF Act, Step, LastAct, LoopTypeOK
    <2> QED
        BY <2>1, <2>2, <2>3, <2>4, <2>5 DEF Service!Next, Service!BeginAct
<1>4. CASE ActDone \/ ActThrows
    BY <1>4 DEF ActDone, ActThrows, Step, Silent, state, Service!Next, Service!EndAct
<1>5. CASE EventHandleBegin \/ EventHandle \/ UNCHANGED loopvars
    BY <1>5 DEF EventHandleBegin, EventHandle, loopvars, state, pass
<1> QED
    BY LoopSteps, <1>1, <1>2, <1>3, <1>4, <1>5 DEF Loop

(* All five modules, under the application, implement WorkerService.       *)
THEOREM WorkerImplemented == Spec => ImplementsWorker
<1>1. Init => Service!Init
    BY DEF Init, LoopInit, Service!Init
<1> QED
    BY <1>1, LoopInvHolds, WorkerStep, PTL DEF Spec, ImplementsWorker, Service!Spec

-----------------------------------------------------------------------------
(* The handler runs in the main thread while main stands still, so what    *)
(* main knows of the core stays true until the handler has looked.         *)
Handling ==
    /\ handler # "idle" => main \notin {"begin", "gone"}
    /\ global_core_ptr => main \notin {"begin", "registered", "cleared", "left"}

\* The variables of main and of its handler keep their types.
LEMMA AppTypes ==
    ASSUME TypeOK, [Next]_vars
    PROVE  /\ main' \in {"begin", "registered", "created", "initialized", "serving",
                        "closing", "closed", "cleared", "left", "caught", "gone"}
           /\ global_core_ptr' \in BOOLEAN /\ asked' \in BOOLEAN
           /\ handler' \in {"idle", "entered", "raised"}
           /\ signals' \in 0 .. MaxSignals
<1> USE DEF TypeOK
<1>1. CASE Main
    BY <1>1 DEF Main, RegisterSignals, CreateCore, CoreInitialize, CoreStart, CoreShutdown,
                ClearPointer, Leave, Line, Go, outside
<1>2. CASE Signal
    BY <1>2, MaxSignalsAssumed DEF Signal
<1>3. CASE SignalHandler
    BY <1>3 DEF SignalHandler, HandlerShutsDown, HandlerRaises
<1>4. CASE Elsewhere
    BY <1>4 DEF Elsewhere, appvars
<1>5. CASE UNCHANGED vars
    BY <1>5 DEF vars, appvars
<1> QED
    BY <1>1, <1>2, <1>3, <1>4, <1>5 DEF Next

(* Every variable of the sample and of its application keeps its type.     *)
THEOREM TypeCorrect == Spec => []TypeOK
<1>1. ASSUME Init PROVE TypeOK
    <2>1. global_core_ptr \in BOOLEAN /\ asked \in BOOLEAN
        BY <1>1 DEF Init
    <2>2. signals \in 0 .. MaxSignals
        BY <1>1, MaxSignalsAssumed DEF Init
    <2>3. main = "begin" /\ handler = "idle"
        BY <1>1 DEF Init
    <2>4. LoopTypeOK
        BY <1>1, InitLoopInv DEF LoopInv
    <2> QED
        BY <2>1, <2>2, <2>3, <2>4 DEF TypeOK
<1>2. LoopInv' /\ TypeOK /\ [Next]_vars => TypeOK'
    BY AppTypes DEF LoopInv, TypeOK
<1> QED
    BY <1>1, <1>2, LoopInvHolds, PTL DEF Spec

\* main resets the pointer before the core is destroyed.
LEMMA HandlingStep == Handling /\ [Next]_vars => Handling'
<1> SUFFICES ASSUME Handling, [Next]_vars PROVE Handling'
    OBVIOUS
<1> USE DEF Handling
<1>1. CASE RegisterSignals \/ CreateCore \/ ClearPointer \/ Leave
    BY <1>1 DEF RegisterSignals, CreateCore, ClearPointer, Leave, Line, Go, outside
<1>2. CASE CoreInitialize \/ CoreStart \/ CoreShutdown
    BY <1>2 DEF CoreInitialize, CoreStart, CoreShutdown, Line, Go, outside
<1>3. CASE Signal \/ SignalHandler
    BY <1>3 DEF Signal, SignalHandler, HandlerShutsDown, HandlerRaises
<1>4. CASE Elsewhere \/ UNCHANGED vars
    BY <1>4 DEF Elsewhere, vars, appvars
<1> QED
    BY <1>1, <1>2, <1>3, <1>4 DEF Next, Main

(* The handler calls no core that does not exist.                          *)
THEOREM CoreFound == Spec => []HandlerFindsCore
<1>1. Init => Handling
    BY DEF Init, Handling
<1>2. Handling => HandlerFindsCore
    BY DEF Handling, HandlerFindsCore
<1> QED
    BY <1>1, <1>2, HandlingStep, PTL DEF Spec

-----------------------------------------------------------------------------
(* The order of the events, made inductive: as long as one thread handles  *)
(* them, those handled come before the one that is being handled, and it   *)
(* before those that wait.                                                 *)
OneByOne ==
    /\ handling = {} \/ \E e \in 1 .. MaxEvents : handling = {e}
    /\ \A i, j \in 1 .. Len(handled) : i < j => handled[i] < handled[j]
    /\ \A i, j \in 1 .. Len(events) : i < j => events[i] < events[j]
    /\ \A i \in 1 .. Len(handled), e \in handling : handled[i] < e
    /\ \A i \in 1 .. Len(handled), k \in 1 .. Len(events) : handled[i] < events[k]
    /\ \A e \in handling, k \in 1 .. Len(events) : e < events[k]

UpToDate ==
    /\ \A i \in 1 .. Len(handled) : handled[i] <= published
    /\ \A e \in handling : e <= published
    /\ \A k \in 1 .. Len(events) : events[k] <= published
    /\ loop \in {"none", "queued"} => events = <<>>

Overtaken == sample = "ros2_channel" /\ loop = "ended"

OrderInv == UpToDate /\ (Overtaken \/ OneByOne)

\* A free thread means that no event is being handled.
LEMMA OneThreadHandles ==
    ASSUME LoopTypeOK, ThreadFree, ~Overtaken, loop \notin {"none", "queued"}
    PROVE  handling = {}
<1>1. IsFiniteSet(handling) /\ Cardinality(handling) \in Nat
    <2>1. IsFiniteSet(1 .. MaxEvents)
        BY FS_Interval, SampleChoice
    <2> QED
        BY <2>1, FS_Subset, FS_CardinalityType DEF LoopTypeOK
<1>2. Cardinality(handling) = 0
    BY <1>1 DEF ThreadFree, Threads, LoopRuns, Overtaken
<1> QED
    BY <1>1, <1>2, FS_EmptySet

\* The lengths and the members of the two sequences.
LEMMA SequenceFacts ==
    ASSUME LoopTypeOK
    PROVE  /\ MaxEvents \in Nat /\ published \in Nat
           /\ Len(events) \in Nat /\ \A k \in 1 .. Len(events) : events[k] \in 1 .. MaxEvents
           /\ Len(handled) \in Nat /\ \A i \in 1 .. Len(handled) : handled[i] \in 1 .. MaxEvents
           /\ DOMAIN handled = 1 .. Len(handled)
           /\ handling \subseteq 1 .. MaxEvents
BY SampleChoice, LenProperties, ElementOfSeq DEF LoopTypeOK

(* A publication, the begin and the end of a callback keep the order.      *)
LEMMA OrderStep == LoopInv /\ OrderInv /\ [Next]_vars => OrderInv'
<1> SUFFICES ASSUME LoopInv, OrderInv, [Next]_vars PROVE OrderInv'
    OBVIOUS
<1>1. /\ LoopTypeOK /\ UpToDate /\ (Overtaken \/ OneByOne)
      /\ MaxEvents \in Nat /\ published \in Nat
      /\ Len(events) \in Nat /\ \A k \in 1 .. Len(events) : events[k] \in 1 .. MaxEvents
      /\ Len(handled) \in Nat /\ \A i \in 1 .. Len(handled) : handled[i] \in 1 .. MaxEvents
      /\ handling \subseteq 1 .. MaxEvents
    BY SequenceFacts DEF LoopInv, OrderInv
<1>2. CASE Act
    <2>1. UNCHANGED <<sample, handling, handled>> /\ loop # "ended" /\ loop' = "act"
        BY <1>2 DEF Act, Step
    <2>2. CASE UNCHANGED <<published, events>>
        BY <1>1, <2>1, <2>2 DEF OrderInv, UpToDate, Overtaken, OneByOne
    <2>3. CASE /\ published < MaxEvents /\ published' = published + 1
               /\ events' = Append(events, published')
        <3>1. /\ Len(events') = Len(events) + 1
              /\ \A k \in 1 .. Len(events) : events'[k] = events[k]
              /\ events'[Len(events) + 1] = published + 1
            <4>1. published + 1 \in 1 .. MaxEvents
                BY <1>1, <2>3
            <4> QED
                BY <2>3, <4>1, AppendProperties DEF LoopTypeOK, LoopInv
        <3>2. UpToDate'
            BY <1>1, <2>1, <2>3, <3>1 DEF UpToDate
        <3>3. OneByOne'
            BY <1>1, <2>1, <2>3, <3>1 DEF UpToDate, Overtaken, OneByOne
        <3> QED
            BY <3>2, <3>3 DEF OrderInv
    <2> QED
        BY <1>2, <2>2, <2>3 DEF Act
<1>3. CASE EventHandleBegin
    <2>1. /\ events # <<>> /\ ThreadFree
          /\ handling' = handling \cup {Head(events)} /\ events' = Tail(events)
          /\ UNCHANGED <<sample, loop, published, handled>>
        BY <1>3 DEF EventHandleBegin
    <2>2. /\ Len(events) > 0 /\ Len(events') = Len(events) - 1
          /\ \A k \in 1 .. Len(events') : events'[k] = events[k + 1]
        BY <1>1, <2>1, HeadTailProperties, EmptySeq DEF LoopTypeOK
    <2>3. Head(events) = events[1]
        BY <1>1, <2>1, <2>2 DEF LoopTypeOK
    <2>4. UpToDate'
        BY <1>1, <2>1, <2>2, <2>3 DEF UpToDate
    <2>5. CASE ~Overtaken
        <3>1. handling = {} /\ handling' = {events[1]}
            BY <1>1, <2>1, <2>3, <2>5, OneThreadHandles DEF UpToDate
        <3>2. events[1] \in 1 .. MaxEvents
            BY <1>1, <2>2
        <3>3. /\ handled' = handled
              /\ \A i \in 1 .. Len(handled) : handled[i] < events[1]
              /\ \A k \in 1 .. Len(events') : events[1] < events'[k]
            BY <1>1, <2>1, <2>2, <2>5 DEF OneByOne
        <3>4. \A i, j \in 1 .. Len(events') : i < j => events'[i] < events'[j]
            <4> SUFFICES ASSUME NEW i \in 1 .. Len(events'), NEW j \in 1 .. Len(events'), i < j
                         PROVE  events'[i] < events'[j]
                OBVIOUS
            <4>1. /\ i + 1 \in 1 .. Len(events) /\ j + 1 \in 1 .. Len(events) /\ i + 1 < j + 1
                  /\ events'[i] = events[i + 1] /\ events'[j] = events[j + 1]
                BY <1>1, <2>2
            <4> QED
                BY <1>1, <2>5, <4>1 DEF OneByOne
        <3>5. \A i \in 1 .. Len(handled), k \in 1 .. Len(events') : handled[i] < events'[k]
            <4> SUFFICES ASSUME NEW i \in 1 .. Len(handled), NEW k \in 1 .. Len(events')
                         PROVE  handled[i] < events'[k]
                OBVIOUS
            <4>1. k + 1 \in 1 .. Len(events) /\ events'[k] = events[k + 1]
                BY <1>1, <2>2
            <4> QED
                BY <1>1, <2>5, <4>1 DEF OneByOne
        <3>6. \A i, j \in 1 .. Len(handled) : i < j => handled[i] < handled[j]
            BY <1>1, <2>5 DEF OneByOne
        <3>7. OneByOne'
            BY <3>1, <3>2, <3>3, <3>4, <3>5, <3>6 DEF OneByOne
        <3> QED
            BY <2>4, <3>7 DEF OrderInv
    <2> QED
        BY <2>1, <2>4, <2>5 DEF OrderInv, Overtaken
<1>4. CASE EventHandle
    <2>1. PICK e \in handling : handling' = handling \ {e} /\ handled' = Append(handled, e)
        BY <1>4 DEF EventHandle
    <2>2. UNCHANGED <<sample, loop, events, published>>
        BY <1>4 DEF EventHandle, pass
    <2>3. /\ Len(handled') = Len(handled) + 1
          /\ \A i \in 1 .. Len(handled) : handled'[i] = handled[i]
          /\ handled'[Len(handled) + 1] = e
        BY <1>1, <2>1, AppendProperties DEF LoopTypeOK
    <2>4. UpToDate'
        BY <1>1, <2>1, <2>2, <2>3 DEF UpToDate
    <2>5. CASE OneByOne
        <3>1. handling = {e} /\ handling' = {}
            BY <2>1, <2>5 DEF OneByOne
        <3>2. e \in 1 .. MaxEvents
            BY <1>1
        <3>3. \A i, j \in 1 .. Len(handled') : i < j => handled'[i] < handled'[j]
            <4> SUFFICES ASSUME NEW i \in 1 .. Len(handled'), NEW j \in 1 .. Len(handled'), i < j
                         PROVE  handled'[i] < handled'[j]
                OBVIOUS
            <4>1. CASE j \in 1 .. Len(handled)
                BY <1>1, <2>3, <2>5, <4>1 DEF OneByOne
            <4>2. CASE j = Len(handled) + 1
                BY <1>1, <2>3, <2>5, <4>2 DEF OneByOne
            <4> QED
                BY <1>1, <2>3, <4>1, <4>2
        <3>4. \A i \in 1 .. Len(handled'), k \in 1 .. Len(events) : handled'[i] < events[k]
            BY <1>1, <2>3, <2>5 DEF OneByOne
        <3> QED
            BY <2>2, <2>4, <2>5, <3>1, <3>3, <3>4 DEF OrderInv, OneByOne
    <2> QED
        BY <1>1, <2>2, <2>4, <2>5 DEF OrderInv, Overtaken
<1>5. CASE UNCHANGED <<sample, published, events, handling, handled>>
           /\ (loop = "ended" => loop' = "ended")
           /\ (loop' \in {"none", "queued"} => loop \in {"none", "queued"})
    BY <1>1, <1>5 DEF OrderInv, UpToDate, OneByOne, Overtaken
<1>6. CASE HostStep /\ UNCHANGED <<sample, handling, handled>>
    <2>1. UNCHANGED <<published, events>>
        BY <1>6 DEF HostStep, Initialize, InitializeFails, RaiseFlag, PostLoop, PostFails,
           SpawnInline, Shutdown, ShutdownReturns, pass
    <2>2. loop' # loop => loop = "none"
        BY <1>6 DEF HostStep, Initialize, InitializeFails, RaiseFlag, PostLoop, PostFails,
           SpawnInline, Shutdown, ShutdownReturns, AboutToPost, pass, LoopInv, Posted
    <2> QED
        BY <1>5, <1>6, <2>1, <2>2
<1>7. CASE BeginLoop \/ Test \/ ActDone \/ ActThrows \/ Rest \/ SetStopSig
    BY <1>5, <1>7 DEF BeginLoop, Test, ActDone, ActThrows, Rest, SetStopSig, Step, Silent
<1>8. CASE UNCHANGED loopvars
    BY <1>5, <1>8 DEF loopvars
<1> QED
    BY LoopSteps, <1>2, <1>3, <1>4, <1>6, <1>7, <1>8 DEF Loop

(* The subscriber sees the events in the order of their publication, as    *)
(* long as the loop of the ROS 2 channel sample keeps its thread.          *)
THEOREM InOrder == Spec => []EventsInOrder
<1>1. Init => OrderInv
    BY EmptySeq DEF Init, LoopInit, OrderInv, UpToDate, OneByOne
<1>2. LoopInv /\ OrderInv => EventsInOrder
    BY SequenceFacts DEF LoopInv, OrderInv, OneByOne, Overtaken, EventsInOrder
<1> QED
    BY <1>1, <1>2, LoopInvHolds, OrderStep, PTL DEF Spec
=============================================================================
