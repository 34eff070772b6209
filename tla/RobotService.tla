---------------------------- MODULE RobotService ----------------------------
(***************************************************************************)
(* What RobotControlService promises its clients about the robot's mode,   *)
(* whatever threads and controllers stand behind it:                       *)
(*   - every accepted SetState moves the mode along one edge of the graph, *)
(*     at one moment between the call and its answer; a refused one does   *)
(*     not move it;                                                        *)
(*   - GetState answers the mode of one moment between call and answer;    *)
(*   - a client whose switch is the latest one gets its "success" only     *)
(*     when the controllers of the new mode are ready.                     *)
(***************************************************************************)
CONSTANTS Clients, Modes, Targets,
          FirstMode,
          Edges,         \* the pairs <<from, to>> a switch may take
          ModeOf,        \* ModeOf[t]: the mode that target t asks for
          MemberOf,      \* MemberOf[m]: the target that names mode m
          Nobody

VARIABLES
    mode,
    ready,      \* the controllers of the mode have started over in it
    switcher,   \* the client of the latest accepted switch
    request     \* request[p]: what client p asked, and the answer if decided

svars == <<mode, ready, switcher, request>>

Quiet == [ask |-> "nothing", target |-> "none", answer |-> "none"]

Init ==
    /\ mode = FirstMode
    /\ ready = TRUE
    /\ switcher = Nobody
    /\ request = [p \in Clients |-> Quiet]

Undecided(p, ask) == request[p].ask = ask /\ request[p].answer = "none"
Answer(p, a) == request' = [request EXCEPT ![p].answer = a]

Ask(p) ==
    /\ request[p] = Quiet
    /\ \/ \E t \in Targets :
            request' = [request EXCEPT ![p] = [ask |-> "switch", target |-> t, answer |-> "none"]]
       \/ request' = [request EXCEPT ![p] = [ask |-> "query", target |-> "none", answer |-> "none"]]
    /\ UNCHANGED <<mode, ready, switcher>>

Reachable(t) == t \in DOMAIN ModeOf /\ <<mode, ModeOf[t]>> \in Edges

Switch(p) ==
    /\ Undecided(p, "switch")
    /\ Reachable(request[p].target)
    /\ mode' = ModeOf[request[p].target]
    /\ ready' = FALSE
    /\ switcher' = p
    /\ Answer(p, "success")

Refuse(p) ==
    /\ Undecided(p, "switch")
    /\ ~Reachable(request[p].target)
    /\ Answer(p, "failure")
    /\ UNCHANGED <<mode, ready, switcher>>

Query(p) ==
    /\ Undecided(p, "query")
    /\ Answer(p, MemberOf[mode])
    /\ UNCHANGED <<mode, ready, switcher>>

(* Only an accepted call that is still open can make the mode ready.       *)
BecomeReady ==
    /\ \E p \in Clients : request[p].answer = "success"
    /\ ready' = TRUE
    /\ UNCHANGED <<mode, switcher, request>>

Return(p) ==
    /\ request[p].answer # "none"
    /\ (switcher = p /\ request[p].answer = "success") => ready
    /\ request' = [request EXCEPT ![p] = Quiet]
    /\ UNCHANGED <<mode, ready, switcher>>

Next ==
    \/ BecomeReady
    \/ \E p \in Clients : Ask(p) \/ Switch(p) \/ Refuse(p) \/ Query(p) \/ Return(p)

Spec == Init /\ [][Next]_svars
=============================================================================
