-------------------------- MODULE RLControllerProof --------------------------
(***************************************************************************)
(* RLController for any decimation and any length of the history: its      *)
(* types, and that nothing of an earlier walk is left in a new one but at  *)
(* most Decimation commands.                                               *)
(***************************************************************************)
EXTENDS RLController, SequenceTheorems, TLAPS

\* The count of the ticks stays below Decimation.
LEMMA CountFacts ==
    \A c \in 0 .. Decimation - 1 :
        (c + 1) % Decimation = IF c + 1 = Decimation THEN 0 ELSE c + 1
BY Sizes

\* How the ages read after a restart and after the end of a tick.
LEMMA AgeFacts ==
    /\ \A a \in Age : /\ Restarted(a) \in {"old", "mid"} /\ Ended(a) \in Age \ {"now"}
                      /\ a = "now" => Restarted(a) = "mid"
                      /\ a = "mid" /\ overlapped => Restarted(a) = "mid"
                      /\ Ended(a) = "old" <=> a = "old"
                      /\ Ended(a) = "mid" <=> a = "mid"
    /\ Restarted("zero") = "zero" /\ Ended("zero") = "zero"
BY DEF Age, Restarted, Ended

\* The part of TypeOK that the ages make up.
AgesOK ==
    /\ propri \in Age /\ actions \in Age /\ filters \in Age
    /\ last_actions \in Age \cup {"zero"}
    /\ obs \in Observation
    /\ history \in [1 .. Hist -> Observation]

\* What a restart makes of every age.
LEMMA RestartFacts ==
    ASSUME AgesOK, RestartController
    PROVE  /\ propri' = Restarted(propri) /\ actions' = Restarted(actions)
           /\ filters' = Restarted(filters) /\ last_actions' = Restarted(last_actions)
           /\ obs'.taken = Restarted(obs.taken) /\ obs'.last = Restarted(obs.last)
           /\ \A i \in 1 .. Hist : /\ history'[i].taken = Restarted(history[i].taken)
                                   /\ history'[i].last = Restarted(history[i].last)
           /\ AgesOK'
<1>1. /\ propri' = Restarted(propri) /\ actions' = Restarted(actions)
      /\ filters' = Restarted(filters) /\ last_actions' = Restarted(last_actions)
      /\ obs' = [taken |-> Restarted(obs.taken), last |-> Restarted(obs.last)]
      /\ history' = [i \in 1 .. Hist |->
            [taken |-> Restarted(history[i].taken), last |-> Restarted(history[i].last)]]
    BY DEF RestartController, Relabel
<1>2. \A o \in Observation :
          [taken |-> Restarted(o.taken), last |-> Restarted(o.last)] \in Observation
    BY AgeFacts DEF Observation, Age
<1>3. AgesOK'
    BY <1>1, <1>2, AgeFacts DEF AgesOK, Age
<1> QED
    BY <1>1, <1>3

\* What the end of a tick makes of every age.
LEMMA EndFacts ==
    ASSUME AgesOK, Relabel(Ended)
    PROVE  /\ propri' = Ended(propri) /\ actions' = Ended(actions)
           /\ filters' = Ended(filters) /\ last_actions' = Ended(last_actions)
           /\ obs'.taken = Ended(obs.taken) /\ obs'.last = Ended(obs.last)
           /\ \A i \in 1 .. Hist : /\ history'[i].taken = Ended(history[i].taken)
                                   /\ history'[i].last = Ended(history[i].last)
           /\ AgesOK'
<1>1. /\ propri' = Ended(propri) /\ actions' = Ended(actions)
      /\ filters' = Ended(filters) /\ last_actions' = Ended(last_actions)
      /\ obs' = [taken |-> Ended(obs.taken), last |-> Ended(obs.last)]
      /\ history' = [i \in 1 .. Hist |->
            [taken |-> Ended(history[i].taken), last |-> Ended(history[i].last)]]
    BY DEF Relabel
<1>2. \A o \in Observation :
          [taken |-> Ended(o.taken), last |-> Ended(o.last)] \in Observation
    BY AgeFacts DEF Observation, Age
<1>3. AgesOK'
    BY <1>1, <1>2, AgeFacts DEF AgesOK, Age
<1> QED
    BY <1>1, <1>3

-----------------------------------------------------------------------------
Computing == {"observe", "frame", "clear", "shift", "infer"}

\* Data of the tick in progress are "now", or "mid" after a restart in it.
Fresh(a) == a = "now" \/ (a = "mid" /\ overlapped)

(* Where the tick is: the policy is computed in the tick of count 0 only,  *)
(* from what was read in that tick.                                        *)
InTick ==
    /\ pc \in Computing => loop_count = 0 /\ Fresh(propri)
    /\ pc \in {"frame", "clear", "shift"} => Fresh(obs.taken)
    /\ pc = "clear" => /\ is_first_frame /\ obs.last = "zero" /\ Fresh(filters)
                       /\ \A i \in 1 .. Hist : Fresh(history[i].taken) /\ history[i].last = "zero"

(* What follows a first frame is rid of the walk before: the filters, the  *)
(* history, and by and by the actions, unless an inference failed.         *)
StartedOver ==
    ~is_first_frame =>
        /\ filters # "old"
        /\ \A i \in 1 .. Hist : history[i].taken # "old"
        /\ ~threw => /\ \A i \in 1 .. Hist : history[i].last # "old"
                     /\ pc \in {"frame", "shift"} => obs.last # "old"
                     /\ pc \notin {"shift", "infer"} => actions # "old"
                     /\ pc \notin {"shift", "infer", "count", "command"} => last_actions # "old"

(* A restart that falls behind the test of the flag leaves nothing in the  *)
(* history that would count as data of this walk.                          *)
Missed ==
    is_first_frame /\ pc \in {"shift", "infer"} =>
        /\ stale = 0
        /\ \A i \in 1 .. Hist : history[i].taken \in {"old", "mid"}
        /\ pc = "shift" => obs.taken = "mid"

(* A command on old actions has been sent for each tick counted since the  *)
(* restart, at most.                                                       *)
Bounded ==
    /\ stale <= Decimation
    /\ actions = "old" =>
          /\ pc \in {"idle", "estimate", "count", "end"} /\ loop_count # 0 => stale <= loop_count
          /\ pc = "count" /\ loop_count = 0 => stale = 0
          /\ pc = "command" => stale + 1 <= IF loop_count = 0 THEN Decimation ELSE loop_count

IInv == TypeOK /\ InTick /\ StartedOver /\ Missed /\ FiltersStartOver /\ Bounded

\* The history drops its oldest observation and takes in the new one.
LEMMA ShiftFacts ==
    ASSUME AgesOK
    PROVE  LET h == Append(Tail(history), obs) IN
           /\ h \in [1 .. Hist -> Observation]
           /\ \A i \in 1 .. Hist : h[i] = obs \/ \E j \in 1 .. Hist : h[i] = history[j]
<1> DEFINE h == Append(Tail(history), obs)
<1>1. history \in Seq(Observation) /\ Len(history) = Hist /\ history # <<>>
    BY Sizes, LenProperties, EmptySeq DEF AgesOK
<1>2. /\ Tail(history) \in Seq(Observation) /\ Len(Tail(history)) = Hist - 1
      /\ \A i \in 1 .. Hist - 1 : Tail(history)[i] = history[i + 1]
    BY <1>1, HeadTailProperties
<1>3. /\ h \in Seq(Observation) /\ Len(h) = Hist
      /\ \A i \in 1 .. Hist - 1 : h[i] = history[i + 1]
      /\ h[Hist] = obs
    <2>1. Hist - 1 + 1 = Hist /\ obs \in Observation
        BY Sizes DEF AgesOK
    <2> QED
        BY <1>2, <2>1, AppendProperties
<1>4. h \in [1 .. Hist -> Observation]
    BY <1>3, LenProperties
<1>5. \A i \in 1 .. Hist : h[i] = obs \/ \E j \in 1 .. Hist : h[i] = history[j]
    <2> SUFFICES ASSUME NEW i \in 1 .. Hist, i # Hist
                 PROVE  \E j \in 1 .. Hist : h[i] = history[j]
        BY <1>3
    <2>1. i \in 1 .. Hist - 1 /\ i + 1 \in 1 .. Hist
        BY Sizes
    <2> QED
        BY <1>3, <2>1
<1> QED
    BY <1>4, <1>5

\* The controller as it is configured.
LEMMA InitIInv == Init => IInv
<1> SUFFICES ASSUME Init PROVE IInv
    OBVIOUS
<1> USE DEF Init
<1>1. obs \in Observation /\ history \in [1 .. Hist -> Observation]
    BY DEF Observation, Age
<1>2. loop_count \in 0 .. Decimation - 1 /\ stale \in 0 .. Decimation + 1
    BY Sizes
<1>3. is_first_frame \in BOOLEAN /\ overlapped \in BOOLEAN /\ threw \in BOOLEAN
    OBVIOUS
<1>4. TypeOK
    BY <1>1, <1>2, <1>3 DEF TypeOK, Age
<1>5. InTick /\ StartedOver /\ Missed /\ FiltersStartOver /\ Bounded
    BY Sizes DEF Computing, InTick, StartedOver, Missed, FiltersStartOver, Bounded
<1> QED
    BY <1>4, <1>5 DEF IInv

(* The variables keep their types.                                         *)
LEMMA TypeStep == TypeOK /\ [Next]_vars => TypeOK'
<1> SUFFICES ASSUME TypeOK, [Next]_vars PROVE TypeOK'
    OBVIOUS
<1> USE DEF TypeOK
<1>0. AgesOK
    BY DEF AgesOK
<1>1. CASE RestartController
    <2>1. overlapped' \in BOOLEAN /\ stale' \in 0 .. Decimation + 1
        BY <1>1, Sizes DEF RestartController
    <2>2. AgesOK' /\ is_first_frame' = TRUE /\ threw' = FALSE /\ UNCHANGED <<loop_count, pc>>
        BY <1>0, <1>1, RestartFacts DEF RestartController
    <2> QED
        BY <2>1, <2>2 DEF AgesOK
<1>2. CASE TickBegin
    BY <1>2 DEF TickBegin, Goto, data, ghosts
<1>3. CASE UpdateStateEstimation
    BY <1>3 DEF UpdateStateEstimation, Goto, ghosts, Age
<1>4. CASE Observe
    BY <1>4 DEF Observe, Goto, ghosts, Observation
<1>5. CASE FirstFrame
    <2>1. obs' \in Observation
        BY <1>5 DEF FirstFrame, Observation
    <2> QED
        BY <1>5, <2>1 DEF FirstFrame, Goto, ghosts
<1>6. CASE ClearFirstFrame \/ LaterFrame
    BY <1>6 DEF ClearFirstFrame, LaterFrame, Goto, data, ghosts
<1>7. CASE Shift
    BY <1>0, <1>7, ShiftFacts DEF Shift, Goto, ghosts
<1>8. CASE ComputeActions
    BY <1>8 DEF ComputeActions, Goto, ghosts, Age
<1>9. CASE InferenceThrows
    BY <1>0, <1>9, EndFacts DEF InferenceThrows, Goto, AgesOK
<1>10. CASE Count
    <2>1. loop_count' \in 0 .. Decimation - 1
        BY <1>10, CountFacts, Sizes DEF Count
    <2> QED
        BY <1>10, <2>1 DEF Count, Goto, data, ghosts
<1>11. CASE GetJointCmdData
    BY <1>11, Sizes DEF GetJointCmdData, Goto
<1>12. CASE TickEnd
    BY <1>0, <1>12, EndFacts DEF TickEnd, Goto, AgesOK
<1>13. CASE UNCHANGED vars
    BY <1>13 DEF vars, data, ghosts
<1> QED
    BY <1>1, <1>2, <1>3, <1>4, <1>5, <1>6, <1>7, <1>8, <1>9, <1>10, <1>11, <1>12, <1>13
       DEF Next, Tick

-----------------------------------------------------------------------------
(* A restart, at any point of the tick.                                    *)
LEMMA RestartKeeps == IInv /\ RestartController => IInv'
<1> SUFFICES ASSUME IInv, RestartController PROVE IInv'
    OBVIOUS
<1>1. /\ AgesOK /\ TypeOK /\ overlapped \in BOOLEAN /\ loop_count \in 0 .. Decimation - 1
      /\ is_first_frame' = TRUE /\ stale' = 0 /\ threw' = FALSE
      /\ overlapped' = (pc # "idle") /\ UNCHANGED <<loop_count, pc>>
    BY DEF IInv, TypeOK, AgesOK, RestartController
<1>2. TypeOK'
    BY TypeStep DEF IInv, Next
<1>3. \A a \in Age : Restarted(a) \in {"old", "mid"} /\ (Fresh(a) => Restarted(a) = "mid")
    BY AgeFacts DEF Fresh
<1>4. \A i \in 1 .. Hist : history[i].taken \in Age /\ history[i].last \in Age \cup {"zero"}
    BY <1>1 DEF AgesOK, Observation
<1>5. propri \in Age /\ obs.taken \in Age /\ obs.last \in Age \cup {"zero"}
      /\ filters \in Age /\ actions \in Age
    BY <1>1 DEF AgesOK, Observation
<1>6. InTick'
    <2>1. pc # "idle" => \A a : a = "mid" => Fresh(a)'
        BY <1>1 DEF Fresh
    <2>2. pc \in Computing => loop_count' = 0 /\ Fresh(propri)'
        <3> SUFFICES ASSUME pc \in Computing PROVE loop_count' = 0 /\ propri' = "mid"
            BY <1>1 DEF Fresh, Computing
        <3> QED
            BY <1>1, <1>3, <1>5, RestartFacts DEF IInv, InTick
    <2>3. pc \in {"frame", "clear", "shift"} => Fresh(obs.taken)'
        <3> SUFFICES ASSUME pc \in {"frame", "clear", "shift"} PROVE obs'.taken = "mid"
            BY <1>1 DEF Fresh
        <3> QED
            BY <1>1, <1>3, <1>5, RestartFacts DEF IInv, InTick
    <2>4. pc = "clear" => /\ obs'.last = "zero" /\ Fresh(filters)'
                          /\ \A i \in 1 .. Hist : Fresh(history[i].taken)' /\ history'[i].last = "zero"
        <3> SUFFICES ASSUME pc = "clear"
                     PROVE  /\ obs'.last = "zero" /\ filters' = "mid"
                            /\ \A i \in 1 .. Hist : history'[i].taken = "mid" /\ history'[i].last = "zero"
            BY <1>1 DEF Fresh
        <3> QED
            BY <1>1, <1>3, <1>4, <1>5, AgeFacts, RestartFacts DEF IInv, InTick
    <2> QED
        BY <1>1, <2>2, <2>3, <2>4 DEF InTick
<1>7. StartedOver'
    BY <1>1 DEF StartedOver
<1>8. Missed'
    BY <1>1, <1>3, <1>4, <1>5, RestartFacts DEF IInv, InTick, Missed
<1>9. FiltersStartOver'
    BY <1>1, <1>3, <1>5, RestartFacts DEF FiltersStartOver
<1>10. Bounded'
    BY <1>1, Sizes DEF Bounded
<1> QED
    BY <1>2, <1>6, <1>7, <1>8, <1>9, <1>10 DEF IInv

(* The end of a tick, with a command or without.                           *)
LEMMA EndKeeps == IInv /\ (TickEnd \/ InferenceThrows) => IInv'
<1> SUFFICES ASSUME IInv, TickEnd \/ InferenceThrows PROVE IInv'
    OBVIOUS
<1>1. /\ AgesOK /\ Relabel(Ended)
      /\ pc' = "idle" /\ UNCHANGED <<is_first_frame, loop_count, stale>>
      /\ (pc = "end" /\ threw' = threw) \/ (pc = "infer" /\ threw' = TRUE)
    <2>1. AgesOK
        BY DEF IInv, TypeOK, AgesOK
    <2> QED
        BY <2>1 DEF TickEnd, InferenceThrows, Goto
<1>2. TypeOK'
    BY TypeStep DEF IInv, Next, Tick
<1>3. /\ \A i \in 1 .. Hist : history[i].taken \in Age /\ history[i].last \in Age \cup {"zero"}
      /\ filters \in Age /\ actions \in Age /\ last_actions \in Age \cup {"zero"}
    BY <1>1 DEF AgesOK, Observation
<1>4. InTick' /\ Missed'
    BY <1>1 DEF InTick, Missed, Computing
<1>5. StartedOver'
    BY <1>1, <1>3, AgeFacts, EndFacts DEF IInv, StartedOver
<1>6. FiltersStartOver'
    BY <1>1, <1>3, AgeFacts, EndFacts DEF IInv, FiltersStartOver, Age
<1>7. Bounded'
    BY <1>1, <1>3, AgeFacts, EndFacts, Sizes DEF IInv, InTick, Computing, Bounded, TypeOK
<1> QED
    BY <1>2, <1>4, <1>5, <1>6, <1>7 DEF IInv

(* The steps of a tick up to the test of the first-frame flag.             *)
LEMMA ObservingKeeps == IInv /\ (TickBegin \/ UpdateStateEstimation \/ Observe) => IInv'
<1> SUFFICES ASSUME IInv, TickBegin \/ UpdateStateEstimation \/ Observe PROVE IInv'
    OBVIOUS
<1> USE DEF IInv
<1>1. TypeOK'
    BY TypeStep DEF Next, Tick
<1>2. CASE TickBegin
    <2>1. pc = "idle" /\ pc' = "estimate" /\ UNCHANGED <<is_first_frame, loop_count, data, ghosts>>
        BY <1>2 DEF TickBegin, Goto
    <2> QED
        BY <1>1, <2>1 DEF data, ghosts, InTick, Computing, StartedOver, Missed,
                          FiltersStartOver, Bounded
<1>3. CASE UpdateStateEstimation
    <2>1. /\ pc = "estimate" /\ pc' = IF loop_count = 0 THEN "observe" ELSE "count"
          /\ propri' = "now"
          /\ UNCHANGED <<is_first_frame, loop_count, obs, history, actions, last_actions,
                         filters, ghosts>>
        BY <1>3 DEF UpdateStateEstimation, Goto
    <2> QED
        BY <1>1, <2>1 DEF ghosts, InTick, Computing, Fresh, StartedOver, Missed,
                          FiltersStartOver, Bounded
<1>4. CASE Observe
    <2>1. /\ pc = "observe" /\ pc' = "frame"
          /\ obs'.taken = propri /\ obs'.last = last_actions
          /\ UNCHANGED <<is_first_frame, loop_count, propri, history, actions, last_actions,
                         filters, ghosts>>
        BY <1>4 DEF Observe, Goto
    <2> QED
        BY <1>1, <2>1 DEF ghosts, InTick, Computing, Fresh, StartedOver, Missed,
                          FiltersStartOver, Bounded
<1> QED
    BY <1>2, <1>3, <1>4

(* The first frame fills the history, and lowers the flag one step later.  *)
LEMMA FramesKeep == IInv /\ (FirstFrame \/ ClearFirstFrame \/ LaterFrame) => IInv'
<1> SUFFICES ASSUME IInv, FirstFrame \/ ClearFirstFrame \/ LaterFrame PROVE IInv'
    OBVIOUS
<1> USE DEF IInv
<1>1. TypeOK'
    BY TypeStep DEF Next, Tick
<1>2. CASE FirstFrame
    <2>1. /\ pc = "frame" /\ pc' = "clear" /\ is_first_frame /\ filters' = propri
          /\ obs'.taken = obs.taken /\ obs'.last = "zero"
          /\ \A i \in 1 .. Hist : history'[i] = obs'
          /\ UNCHANGED <<is_first_frame, loop_count, propri, actions, last_actions, ghosts>>
        BY <1>2 DEF FirstFrame, Goto, TypeOK, Observation
    <2> QED
        BY <1>1, <2>1 DEF ghosts, InTick, Computing, Fresh, StartedOver, Missed,
                          FiltersStartOver, Bounded
<1>3. CASE ClearFirstFrame
    <2>1. /\ pc = "clear" /\ pc' = "shift" /\ is_first_frame' = FALSE
          /\ UNCHANGED <<loop_count, data, ghosts>>
        BY <1>3 DEF ClearFirstFrame, Goto
    <2>2. UNCHANGED <<propri, obs, history, actions, last_actions, filters, overlapped, stale, threw>>
        BY <2>1 DEF data, ghosts
    <2>3. StartedOver'
        BY <2>1, <2>2 DEF InTick, Fresh, StartedOver
    <2>4. InTick' /\ Missed' /\ FiltersStartOver' /\ Bounded'
        BY <2>1, <2>2 DEF InTick, Computing, Fresh, Missed, FiltersStartOver, Bounded
    <2> QED
        BY <1>1, <2>3, <2>4
<1>4. CASE LaterFrame
    <2>1. /\ pc = "frame" /\ pc' = "shift" /\ ~is_first_frame
          /\ UNCHANGED <<is_first_frame, loop_count, data, ghosts>>
        BY <1>4 DEF LaterFrame, Goto
    <2> QED
        BY <1>1, <2>1 DEF data, ghosts, InTick, Computing, Fresh, StartedOver, Missed,
                          FiltersStartOver, Bounded
<1> QED
    BY <1>2, <1>3, <1>4

(* The new observation enters the history.                                 *)
LEMMA ShiftKeeps == IInv /\ Shift => IInv'
<1> SUFFICES ASSUME IInv, Shift PROVE IInv'
    OBVIOUS
<1> USE DEF IInv
<1>1. TypeOK'
    BY TypeStep DEF Next, Tick
<1>2. /\ pc = "shift" /\ pc' = "infer" /\ history' = Append(Tail(history), obs)
      /\ UNCHANGED <<is_first_frame, loop_count, propri, obs, actions, last_actions, filters,
                     overlapped, stale, threw>>
    BY DEF Shift, Goto, ghosts
<1>3. \A i \in 1 .. Hist : history'[i] = obs \/ \E j \in 1 .. Hist : history'[i] = history[j]
    BY <1>2, ShiftFacts DEF TypeOK, AgesOK
<1>4. StartedOver'
    BY <1>2, <1>3 DEF InTick, Fresh, StartedOver
<1>5. Missed'
    BY <1>2, <1>3 DEF Missed
<1>6. InTick' /\ FiltersStartOver' /\ Bounded'
    BY <1>2 DEF InTick, Computing, Fresh, FiltersStartOver, Bounded
<1> QED
    BY <1>1, <1>4, <1>5, <1>6

(* The policy sees no datum from before the restart, unless the restart    *)
(* came after the test of the flag.                                        *)
LEMMA ComputeKeeps == IInv /\ ComputeActions => IInv'
<1> SUFFICES ASSUME IInv, ComputeActions PROVE IInv'
    OBVIOUS
<1> USE DEF IInv
<1>1. TypeOK'
    BY TypeStep DEF Next, Tick
<1>2. /\ pc = "infer" /\ pc' = "count"
      /\ actions' = IF "old" \in Seen THEN "old" ELSE IF "mid" \in Seen THEN "mid" ELSE "now"
      /\ UNCHANGED <<is_first_frame, loop_count, propri, obs, history, last_actions, filters,
                     overlapped, stale, threw>>
    BY DEF ComputeActions, Goto, ghosts
<1>3. ~is_first_frame => "old" \notin Seen /\ filters # "old"
    BY DEF StartedOver, Seen
<1>4. is_first_frame => stale = 0 /\ ("old" \in Seen \/ "mid" \in Seen)
    <2>1. 1 \in 1 .. Hist
        BY Sizes
    <2> QED
        BY <1>2, <2>1 DEF Missed, Seen
<1>5. StartedOver' /\ FiltersStartOver'
    BY <1>2, <1>3, <1>4 DEF StartedOver, FiltersStartOver
<1>6. Bounded'
    <2>1. loop_count = 0
        BY <1>2 DEF InTick, Computing
    <2> QED
        BY <1>2, <1>3, <1>4, <2>1 DEF Bounded
<1>7. InTick' /\ Missed'
    BY <1>2 DEF InTick, Computing, Missed
<1> QED
    BY <1>1, <1>5, <1>6, <1>7

(* The tick is counted, and its command sent.                              *)
LEMMA CommandKeeps == IInv /\ (Count \/ GetJointCmdData) => IInv'
<1> SUFFICES ASSUME IInv, Count \/ GetJointCmdData PROVE IInv'
    OBVIOUS
<1> USE DEF IInv
<1>1. TypeOK'
    BY TypeStep DEF Next, Tick
<1>2. Decimation \in Nat /\ Decimation > 0 /\ stale \in Nat /\ loop_count \in 0 .. Decimation - 1
    BY Sizes DEF TypeOK
<1>3. CASE Count
    <2>1. /\ pc = "count" /\ pc' = "command"
          /\ loop_count' = IF loop_count + 1 = Decimation THEN 0 ELSE loop_count + 1
          /\ UNCHANGED <<is_first_frame, data, ghosts>>
        BY <1>2, <1>3, CountFacts DEF Count, Goto
    <2>2. Bounded'
        BY <1>2, <2>1 DEF data, ghosts, Bounded
    <2> QED
        BY <1>1, <2>1, <2>2 DEF data, ghosts, InTick, Computing, StartedOver, Missed,
                                FiltersStartOver
<1>4. CASE GetJointCmdData
    <2>1. /\ pc = "command" /\ pc' = "end" /\ last_actions' = actions
          /\ stale' = IF actions = "old" /\ stale <= Decimation THEN stale + 1 ELSE stale
          /\ UNCHANGED <<is_first_frame, loop_count, propri, obs, history, actions, filters,
                         overlapped, threw>>
        BY <1>4 DEF GetJointCmdData, Goto
    <2>2. Bounded'
        BY <1>2, <2>1 DEF Bounded
    <2> QED
        BY <1>1, <2>1, <2>2 DEF InTick, Computing, StartedOver, Missed, FiltersStartOver
<1> QED
    BY <1>3, <1>4

-----------------------------------------------------------------------------
\* The inductive invariant holds for ever.
LEMMA IInvHolds == Spec => []IInv
<1>1. IInv /\ UNCHANGED vars => IInv'
    BY DEF vars, data, ghosts, IInv, TypeOK, InTick, Fresh, StartedOver, Missed,
           FiltersStartOver, Bounded
<1>2. IInv /\ [Next]_vars => IInv'
    BY <1>1, RestartKeeps, EndKeeps, ObservingKeeps, FramesKeep, ShiftKeeps, ComputeKeeps,
       CommandKeeps DEF Next, Tick
<1> QED
    BY InitIInv, <1>2, PTL DEF Spec

(* Every variable of the policy controller keeps its type.                 *)
THEOREM TypeCorrect == Spec => []TypeOK
<1>1. IInv => TypeOK
    BY DEF IInv
<1> QED
    BY IInvHolds, <1>1, PTL

(* Once the first-frame flag is down, the history is rid of what was       *)
(* before the restart, wherever in a tick the restart fell.                *)
THEOREM HistoryClean == Spec => []HistoryStartsOver
<1>1. IInv => HistoryStartsOver
    BY DEF IInv, StartedOver, HistoryStartsOver
<1> QED
    BY IInvHolds, <1>1, PTL

(* The filters never bring an earlier walk into the actions of this one.   *)
THEOREM FiltersClean == Spec => []FiltersStartOver
<1>1. IInv => FiltersStartOver
    BY DEF IInv
<1> QED
    BY IInvHolds, <1>1, PTL

(* A walk begins with at most Decimation commands of the walk before.      *)
THEOREM FewStaleCommands == Spec => []StaleCommandsBounded
<1>1. IInv => StaleCommandsBounded
    BY DEF IInv, Bounded, StaleCommandsBounded
<1> QED
    BY IInvHolds, <1>1, PTL
=============================================================================
