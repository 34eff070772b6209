---------------------------- MODULE RLController ----------------------------
(***************************************************************************)
(* The policy controller of walk_leg (controller/rl_controller.cc).  The   *)
(* control thread runs Update and GetJointCmdData once a tick; one tick in *)
(* Decimation observes, shifts the observation into a history of Hist      *)
(* entries and runs the policy on it.  RestartController only raises an    *)
(* atomic flag, from the RPC thread, at any point of the tick.             *)
(*                                                                         *)
(* Every datum is represented by when the data it derives from were taken, *)
(* relative to the last restart: "now" is the tick in progress, "new" an   *)
(* earlier tick after the restart, "mid" the tick that the restart fell    *)
(* into, "old" a tick that had ended before it (or nothing at all).        *)
(***************************************************************************)
EXTENDS Naturals, Sequences

CONSTANTS
    Decimation,   \* walk_step_conf_.decimation
    Hist          \* onnx_conf_.num_hist

ASSUME Sizes == Decimation \in Nat \ {0} /\ Hist \in Nat \ {0}

VARIABLES
    is_first_frame,
    loop_count,       \* modulo Decimation
    pc,               \* where the control thread is in its tick
    propri,           \* proprioception: when it was read
    obs,              \* propri_obs: when read, and its last_actions part
    history,          \* propri_history_buffer_, oldest observation first
    actions,          \* actions_: as old as the oldest sensor data seen
    last_actions,
    filters           \* low_pass_filters_: when they were last initialised

(* History variables.                                                      *)
VARIABLES
    overlapped,   \* the last restart fell into the tick in progress
    stale,        \* commands sent on old actions since the last restart
    threw         \* an inference failed since the last restart

data == <<propri, obs, history, actions, last_actions, filters>>
ghosts == <<overlapped, stale, threw>>
vars == <<is_first_frame, loop_count, pc, data, ghosts>>

Age == {"old", "mid", "new", "now"}
Observation == [taken : Age, last : Age \cup {"zero"}]

(* How an age reads after a restart, and after the end of the tick.        *)
Restarted(a) ==
    CASE a = "zero" -> "zero"
      [] a = "now" \/ (a = "mid" /\ overlapped) -> "mid"
      [] OTHER -> "old"
Ended(a) == IF a = "now" THEN "new" ELSE a

Relabel(Op(_)) ==
    LET OpObs(o) == [taken |-> Op(o.taken), last |-> Op(o.last)] IN
    /\ propri' = Op(propri)
    /\ obs' = OpObs(obs)
    /\ history' = [i \in 1 .. Hist |-> OpObs(history[i])]
    /\ actions' = Op(actions)
    /\ last_actions' = Op(last_actions)
    /\ filters' = Op(filters)

Init ==
    /\ is_first_frame = TRUE
    /\ loop_count = 0
    /\ pc = "idle"
    /\ propri = "old"
    /\ obs = [taken |-> "old", last |-> "zero"]
    /\ history = [i \in 1 .. Hist |-> obs]
    /\ actions = "old"
    /\ last_actions = "zero"
    /\ filters = "old"
    /\ overlapped = FALSE
    /\ stale = 0
    /\ threw = FALSE

-----------------------------------------------------------------------------
RestartController ==
    /\ is_first_frame' = TRUE
    /\ Relabel(Restarted)
    /\ overlapped' = (pc # "idle")
    /\ stale' = 0
    /\ threw' = FALSE
    /\ UNCHANGED <<loop_count, pc>>

-----------------------------------------------------------------------------
Goto(from, to) == pc = from /\ pc' = to

TickBegin ==
    /\ Goto("idle", "estimate")
    /\ UNCHANGED <<is_first_frame, loop_count, data, ghosts>>

(* UpdateStateEstimation, then the decimation test of Update.              *)
UpdateStateEstimation ==
    /\ Goto("estimate", IF loop_count = 0 THEN "observe" ELSE "count")
    /\ propri' = "now"
    /\ UNCHANGED <<is_first_frame, loop_count, obs, history, actions, last_actions,
                   filters, ghosts>>

(* ComputeObservation: the new observation ...                             *)
Observe ==
    /\ Goto("observe", "frame")
    /\ obs' = [taken |-> propri, last |-> last_actions]
    /\ UNCHANGED <<is_first_frame, loop_count, propri, history, actions, last_actions,
                   filters, ghosts>>

\* Mutant: two entries of the history are not overwritten.
FirstFrameFillsRest ==
    /\ is_first_frame
    /\ Goto("frame", "clear")
    /\ filters' = propri
    /\ obs' = [obs EXCEPT !.last = "zero"]
    /\ history' = [i \in 1 .. Hist |-> IF i > 2 THEN obs' ELSE history[i]]
    /\ UNCHANGED <<is_first_frame, loop_count, propri, actions, last_actions, ghosts>>

\* Mutant: the filters are not restarted.
FirstFrameKeepsFilters ==
    /\ is_first_frame
    /\ Goto("frame", "clear")
    /\ obs' = [obs EXCEPT !.last = "zero"]
    /\ history' = [i \in 1 .. Hist |-> obs']
    /\ UNCHANGED <<is_first_frame, loop_count, propri, actions, last_actions, filters, ghosts>>

(* ... on a first frame restarts the filters and fills the whole history,  *)
FirstFrame ==
    /\ is_first_frame
    /\ Goto("frame", "clear")
    /\ filters' = propri
    /\ obs' = [obs EXCEPT !.last = "zero"]
    /\ history' = [i \in 1 .. Hist |-> obs']
    /\ UNCHANGED <<is_first_frame, loop_count, propri, actions, last_actions, ghosts>>

ClearFirstFrame ==
    /\ Goto("clear", "shift")
    /\ is_first_frame' = FALSE
    /\ UNCHANGED <<loop_count, data, ghosts>>

LaterFrame ==
    /\ ~is_first_frame
    /\ Goto("frame", "shift")
    /\ UNCHANGED <<is_first_frame, loop_count, data, ghosts>>

\* Mutant: the history is shifted, but the new observation not put in.
ShiftInPlace ==
    /\ Goto("shift", "infer")
    /\ history' = Append(Tail(history), history[Hist])
    /\ UNCHANGED <<is_first_frame, loop_count, propri, obs, actions, last_actions,
                   filters, ghosts>>

(* ... and in every frame enters the history at its end.                   *)
Shift ==
    /\ Goto("shift", "infer")
    /\ history' = Append(Tail(history), obs)
    /\ UNCHANGED <<is_first_frame, loop_count, propri, obs, actions, last_actions,
                   filters, ghosts>>

Seen == {history[i].taken : i \in 1 .. Hist}

(* ComputeActions: the result is as old as the oldest sensor data it saw.  *)
ComputeActions ==
    /\ Goto("infer", "count")
    /\ actions' = IF "old" \in Seen THEN "old" ELSE IF "mid" \in Seen THEN "mid" ELSE "now"
    /\ UNCHANGED <<is_first_frame, loop_count, propri, obs, history, last_actions,
                   filters, ghosts>>

(* An exception of the inference leaves Update: the tick sends no command  *)
(* and does not count.                                                     *)
InferenceThrows ==
    /\ Goto("infer", "idle")
    /\ Relabel(Ended)
    /\ threw' = TRUE
    /\ overlapped' = FALSE
    /\ UNCHANGED <<is_first_frame, loop_count, stale>>

\* Mutants: the counter does not wrap, or wraps one tick late.
CountOn ==
    /\ Goto("count", "command")
    /\ loop_count' = loop_count + 1
    /\ UNCHANGED <<is_first_frame, data, ghosts>>

CountLate ==
    /\ Goto("count", "command")
    /\ loop_count' = (loop_count + 1) % (Decimation + 1)
    /\ UNCHANGED <<is_first_frame, data, ghosts>>

Count ==
    /\ Goto("count", "command")
    /\ loop_count' = (loop_count + 1) % Decimation
    /\ UNCHANGED <<is_first_frame, data, ghosts>>

(* GetJointCmdData filters the actions into the command.                   *)
GetJointCmdData ==
    /\ Goto("command", "end")
    /\ last_actions' = actions
    /\ stale' = IF actions = "old" /\ stale <= Decimation THEN stale + 1 ELSE stale
    /\ UNCHANGED <<is_first_frame, loop_count, propri, obs, history, actions, filters,
                   overlapped, threw>>

TickEnd ==
    /\ Goto("end", "idle")
    /\ Relabel(Ended)
    /\ overlapped' = FALSE
    /\ UNCHANGED <<is_first_frame, loop_count, stale, threw>>

Tick ==
    \/ TickBegin \/ UpdateStateEstimation
    \/ Observe \/ FirstFrame \/ ClearFirstFrame \/ LaterFrame \/ Shift
    \/ ComputeActions \/ InferenceThrows \/ Count
    \/ GetJointCmdData \/ TickEnd

Next == RestartController \/ Tick

Spec == Init /\ [][Next]_vars

(* The timer keeps ticking, and inference does not fail forever.           *)
FairSpec == Spec /\ WF_vars(Tick) /\ SF_vars(ComputeActions)

-----------------------------------------------------------------------------
TypeOK ==
    /\ is_first_frame \in BOOLEAN
    /\ loop_count \in 0 .. Decimation - 1
    /\ pc \in {"idle", "estimate", "observe", "frame", "clear", "shift", "infer",
               "count", "command", "end"}
    /\ propri \in Age /\ actions \in Age /\ filters \in Age
    /\ last_actions \in Age \cup {"zero"}
    /\ obs \in Observation
    /\ history \in [1 .. Hist -> Observation]
    /\ overlapped \in BOOLEAN
    /\ stale \in 0 .. Decimation + 1
    /\ threw \in BOOLEAN

(* Once the flag is down again, nothing from before the restart is left in *)
(* the history the policy sees -- neither sensor data nor, unless an       *)
(* inference failed on the way, the actions of the earlier walk.  This     *)
(* includes the restart that falls between the test of the flag and its    *)
(* reset and is forgotten: the history was filled in that same tick        *)
(* (rl_controller.cc:234-255).                                             *)
HistoryStartsOver ==
    ~is_first_frame => \A i \in 1 .. Hist :
        /\ history[i].taken # "old"
        /\ ~threw => history[i].last # "old"

(* The filters never carry an earlier walk into actions computed from this *)
(* walk alone (rl_controller.cc:235-243, 115-126).                            *)
FiltersStartOver == actions \in {"new", "now"} => filters # "old"

(* loop_count_ is not restarted, so the first ticks of a walk repeat the   *)
(* last actions of the walk before it: never more than Decimation times    *)
(* (rl_controller.cc:79, 84-88).                                           *)
StaleCommandsBounded == stale <= Decimation

(* If the robot keeps walking, the policy ends up seeing and commanding    *)
(* from data of this walk only.  The actions of the earlier walk, which an *)
(* inference that failed on a first frame lets into the history, leave it  *)
(* again (rl_controller.cc:225-232, 254-262, 276-290).                     *)
WalksOnNewData ==
    <>[][~RestartController]_vars =>
        <>[](/\ actions \in {"now", "new"}
             /\ \A i \in 1 .. Hist : {history[i].taken, history[i].last} \subseteq {"now", "new"})
=============================================================================
