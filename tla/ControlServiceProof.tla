-------------------------- MODULE ControlServiceProof --------------------------
(***************************************************************************)
(* The control module implements the mode service, with any mode graph,    *)
(* any controllers and any number of clients.                              *)
(***************************************************************************)
EXTENDS ControlProof

-----------------------------------------------------------------------------
(* Where a call can be, and what it has answered by then.                  *)
Phase(r) ==
    /\ r.pc = "ready" => r.op = "none"
    /\ r.pc \in {"begin", "names", "apply"} => r.answer = "none"
    /\ r.pc \in {"names", "apply"} => r.op \in {"SetState", "SetVelocity"}
    /\ r.pc = "answer" /\ r.op = "SetState" => r.answer \in {"0", "1"}
    /\ r.pc = "answer" /\ r.op = "GetState" => r.answer \in Enums

Phases == \A p \in Clients : Phase(call[p])

\* The step of a client from one phase of its call to another.
LEMMA PhaseOfOne ==
    ASSUME Phases, NEW p \in Clients, \A q \in Clients \ {p} : call'[q] = call[q],
           Phase(call'[p])
    PROVE  Phases'
BY DEF Phases, Phase

\* A client begins a call.
LEMMA BeginOK ==
    ASSUME CallsOK, NEW p \in Clients, Call(p)
    PROVE  \E r \in Requests[p] :
               /\ r \in Request
               /\ call'[p].pc = "begin" /\ call'[p].op = r.op
               /\ call'[p].arg = r.arg /\ call'[p].answer = "none"
               /\ \A q \in Clients \ {p} : call'[q] = call[q]
<1>1. PICK r \in Requests[p] :
         call' = [call EXCEPT ![p] = [Ready EXCEPT !.pc = "begin", !.op = r.op, !.arg = r.arg]]
    BY DEF Call
<1> DEFINE b == [Ready EXCEPT !.pc = "begin", !.op = r.op, !.arg = r.arg]
<1>2. b.pc = "begin" /\ b.op = r.op /\ b.arg = r.arg /\ b.answer = "none"
    BY DEF Ready
<1>3. r \in Request
    BY Configuration
<1> HIDE DEF b
<1>4. call'[p] = b /\ \A q \in Clients \ {p} : call'[q] = call[q]
    BY <1>1 DEF b, CallsOK
<1> QED
    BY <1>2, <1>3, <1>4

\* A client has its answer and is ready again.
LEMMA ReturnOK ==
    ASSUME CallsOK, NEW p \in Clients, Return(p)
    PROVE  /\ call'[p].pc = "ready" /\ call'[p].op = "none"
           /\ \A q \in Clients \ {p} : call'[q] = call[q]
BY DEF Return, CallsOK, Ready

\* A handler answers.
LEMMA ReplyOK ==
    ASSUME CallsOK, NEW p \in Clients, NEW a, Reply(p, a)
    PROVE  /\ call'[p].pc = "answer" /\ call'[p].answer = a
           /\ call'[p].op = call[p].op /\ call'[p].arg = call[p].arg
           /\ \A q \in Clients \ {p} : call'[q] = call[q]
BY DEF Reply, CallsOK, CallType

\* A handler goes on without an answer.
LEMMA GoOnOK ==
    ASSUME CallsOK, NEW p \in Clients,
           \/ SetStateAccept(p) \/ SetVelocityWrite(p) \/ ReadNames(p)
           \/ RestartController(p) \/ SetTarget(p)
    PROVE  /\ call'[p].pc \in {"names", "apply"} /\ call'[p].answer = call[p].answer
           /\ call'[p].op = call[p].op /\ call'[p].arg = call[p].arg
           /\ \A q \in Clients \ {p} : call'[q] = call[q]
<1>1. CASE SetStateAccept(p) \/ SetVelocityWrite(p)
    BY <1>1 DEF SetStateAccept, SetVelocityWrite, Goto, CallsOK, CallType
<1>2. CASE ReadNames(p)
    BY <1>2 DEF ReadNames, CallsOK, CallType
<1>3. CASE RestartController(p) \/ SetTarget(p)
    BY <1>3 DEF RestartController, SetTarget, Advance, At, CallsOK, CallType
<1> QED
    BY <1>1, <1>2, <1>3

\* The other threads leave the calls, the mode and the restarts alone.
LEMMA ElsewhereOK ==
    ASSUME Start \/ Shutdown \/ Tick \/ ImuDataCallback \/ JointStateCallback
    PROVE  UNCHANGED <<smvars, call, fresh, switcher>>
BY DEF Start, Shutdown, Tick, TickStep, TickBegin, TickUpdate, TickThrow, TickMerge,
   TickPublish, TickEnd, ImuDataCallback, ImuBegin, SetImuData, ImuEnd, JointStateCallback,
   JointBegin, SetJointStateData, JointEnd, ghosts

\* Every step keeps the calls in their phases.
LEMMA PhasesStep == Types /\ Phases /\ [Next]_vars => Phases'
<1> SUFFICES ASSUME Types, Phases, [Next]_vars PROVE Phases'
    OBVIOUS
<1> USE DEF Types
<1>1. CASE UNCHANGED call
    BY <1>1 DEF Phases, Phase
<1>2. ASSUME NEW p \in Clients, Call(p) PROVE Phases'
    BY <1>2, BeginOK, PhaseOfOne DEF Phase
<1>3. ASSUME NEW p \in Clients, Return(p) PROVE Phases'
    BY <1>3, ReturnOK, PhaseOfOne DEF Phase
<1>4. ASSUME NEW p \in Clients,
             \/ SetStateAccept(p) \/ SetVelocityWrite(p) \/ ReadNames(p)
             \/ RestartController(p) \/ SetTarget(p)
      PROVE  Phases'
    <2>1. call[p].pc \in {"begin", "names", "apply"}
        BY <1>4 DEF SetStateAccept, SetVelocityWrite, ReadNames, RestartController, SetTarget,
           Advance, At
    <2>2. call[p].op \in {"SetState", "SetVelocity"}
        BY <1>4 DEF SetStateAccept, SetVelocityWrite, ReadNames, RestartController, SetTarget,
           Advance, At, Phases, Phase
    <2>3. call[p].answer = "none"
        BY <2>1 DEF Phases, Phase
    <2> QED
        BY <1>4, <2>2, <2>3, GoOnOK, PhaseOfOne DEF Phase
<1>5. ASSUME NEW p \in Clients, SetStateRefuse(p) \/ Applied(p) PROVE Phases'
    <2>1. \E a \in {"0", "1"} : Reply(p, a)
        BY <1>5 DEF SetStateRefuse, Applied
    <2>2. call[p].op \in {"SetState", "SetVelocity"}
        BY <1>5 DEF SetStateRefuse, Applied, At, Phases, Phase
    <2> QED
        BY <2>1, <2>2, ReplyOK, PhaseOfOne DEF Phase
<1>6. ASSUME NEW p \in Clients, GetState(p) PROVE Phases'
    BY <1>6, ReplyOK, EnumOK, PhaseOfOne DEF GetState, At, Phase
<1>7. ASSUME NEW p \in Clients, GetVelocity(p) PROVE Phases'
    BY <1>7, ReplyOK, PhaseOfOne DEF GetVelocity, At, Phase
<1> QED
    BY <1>1, <1>2, <1>3, <1>4, <1>5, <1>6, <1>7, ElsewhereOK DEF Next, Handle, vars

-----------------------------------------------------------------------------
(* The current mode is one that an enum member names.                      *)
ModeNamed == \E e \in Named : StateToName[e] = current_state_name

\* Only an accepted switch changes the mode, and it goes where a member asks.
LEMMA ModeNamedStep == ModeNamed /\ [Next]_vars => ModeNamed'
<1> SUFFICES ASSUME ModeNamed, [Next]_vars PROVE ModeNamed'
    OBVIOUS
<1>1. CASE UNCHANGED smvars
    BY <1>1 DEF smvars, ModeNamed
<1>2. ASSUME NEW p \in Clients, SetStateAccept(p) PROVE ModeNamed'
    BY <1>2 DEF SetStateAccept, ChangeState, Legal, ModeNamed, Named
<1>3. ASSUME NEW p \in Clients, Call(p) \/ Handle(p), ~SetStateAccept(p)
      PROVE  UNCHANGED smvars
    BY <1>3 DEF Call, Handle, SetStateRefuse, RefuseState, SetVelocityWrite, ReadNames,
       RestartController, SetTarget, Applied, GetState, GetVelocity, Return
<1> QED
    BY <1>1, <1>2, <1>3, ElsewhereOK DEF Next, vars

\* GetState answers the member of the mode.
LEMMA MemberOfMode ==
    ASSUME ModeNamed
    PROVE  GetCurrentStateEnum = CHOOSE e \in Named : StateToName[e] = current_state_name
<1>1. PICK m \in Named : StateToName[m] = current_state_name
    BY DEF ModeNamed
<1>2. m \in DOMAIN StateToName
    BY DEF Named
<1>3. \A e \in DOMAIN StateToName : StateToName[e] = current_state_name => e = m
    BY <1>1, <1>2, OneEnumPerMode DEF IsInjective
<1>4. (CHOOSE e \in Named : StateToName[e] = current_state_name) = m
    BY <1>1, <1>3 DEF Named
<1> DEFINE named == {e \in DOMAIN StateToName : StateToName[e] = current_state_name}
<1>5. m \in named /\ \A e \in named : e = m
    BY <1>1, <1>2, <1>3
<1>6. (CHOOSE e \in named : TRUE) = m
    BY <1>5
<1>7. named # {}
    BY <1>5
<1> QED
    BY <1>4, <1>6, <1>7 DEF GetCurrentStateEnum

-----------------------------------------------------------------------------
(* The handler of the latest switch itself restarts what the mode has not  *)
(* restarted yet.                                                          *)
SwitcherOwes ==
    switcher \in Clients => \A c \in Active : fresh[c] \/ WillRestart(switcher, c)

\* A step that restarts nobody and leaves the switcher's handler owing as it did.
LEMMA SwitcherKeeps ==
    ASSUME SwitcherOwes, UNCHANGED <<controllers, fresh, switcher>>, NEW p \in Clients,
           \A q \in Clients \ {p} : call'[q] = call[q],
           \A c \in Active : ~WillRestart(p, c)
    PROVE  SwitcherOwes'
<1> SUFFICES ASSUME switcher \in Clients, NEW c \in Active, ~fresh[c]
             PROVE  WillRestart(switcher, c)'
    BY DEF SwitcherOwes, Active
<1>1. WillRestart(switcher, c)
    BY DEF SwitcherOwes
<1>2. switcher # p
    BY <1>1
<1>3. call'[switcher] = call[switcher]
    BY <1>2
<1> QED
    BY <1>1, <1>3 DEF WillRestart

\* A later switch takes over; otherwise the switcher goes on restarting.
LEMMA SwitcherStep == Types /\ SwitcherOwes /\ [Next]_vars => SwitcherOwes'
<1> SUFFICES ASSUME Types, SwitcherOwes, [Next]_vars PROVE SwitcherOwes'
    OBVIOUS
<1> USE DEF Types
<1>1. CASE UNCHANGED <<controllers, fresh, call, switcher>>
    BY <1>1 DEF SwitcherOwes, Active, WillRestart
<1>2. ASSUME NEW p \in Clients, SetStateAccept(p) PROVE SwitcherOwes'
    <2>1. call'[p].pc = "names" /\ call'[p].op = "SetState" /\ switcher' = p
        BY <1>2 DEF SetStateAccept, At, Goto, CallsOK, CallType
    <2> QED
        BY <2>1 DEF SwitcherOwes, WillRestart
<1>3. ASSUME NEW p \in Clients, ReadNames(p) PROVE SwitcherOwes'
    <2>1. /\ UNCHANGED <<controllers, fresh, switcher>>
          /\ \A q \in Clients \ {p} : call'[q] = call[q]
        BY <1>3 DEF ReadNames, CallsOK, smvars, ghosts
    <2>2. CASE call[p].op = "SetState"
        <3>1. /\ call'[p].op = "SetState" /\ call'[p].pc = "apply"
              /\ call'[p].names = controllers /\ call'[p].k = 1
            BY <1>3, <2>2 DEF ReadNames, GetCurrentControllerNames, CallsOK, CallType
        <3>2. Remaining(call'[p]) = Range(controllers')
            BY <2>1, <3>1, AllRemain DEF SMTypeOK
        <3>3. \A c \in Active' : WillRestart(p, c)'
            BY <3>1, <3>2 DEF WillRestart, Active
        <3>4. CASE switcher = p
            BY <2>1, <3>3, <3>4 DEF SwitcherOwes
        <3>5. CASE switcher # p
            BY <2>1, <3>5 DEF SwitcherOwes, Active, WillRestart
        <3> QED
            BY <3>4, <3>5
    <2>3. CASE call[p].op # "SetState"
        BY <2>1, <2>3, SwitcherKeeps DEF WillRestart
    <2> QED
        BY <2>2, <2>3
<1>4. ASSUME NEW p \in Clients, RestartController(p) PROVE SwitcherOwes'
    <2> DEFINE c0 == call[p].names[call[p].k]
    <2>1. /\ call[p].op = "SetState" /\ call[p].pc = "apply"
          /\ call[p].k <= Len(call[p].names)
          /\ UNCHANGED <<controllers, switcher>>
          /\ \A q \in Clients \ {p} : call'[q] = call[q]
        BY <1>4 DEF RestartController, Advance, At, CallsOK, smvars
    <2>2. call[p].names \in Seq(Controllers) /\ call[p].k \in Index
        BY DEF CallsOK, CallType
    <2>3. /\ call'[p].op = "SetState" /\ call'[p].pc = "apply"
          /\ call'[p].names = call[p].names /\ call'[p].k = call[p].k + 1
        BY <1>4, <2>1 DEF RestartController, Advance, CallsOK, CallType
    <2>4. Remaining(call[p]) \subseteq Remaining(call'[p]) \cup {c0}
        BY <2>1, <2>2, <2>3, OneLess
    <2>5. c0 \in Controllers
        BY <2>1, <2>2 DEF Index
    <2>6. fresh' = [fresh EXCEPT ![c0] = TRUE]
        BY <1>4 DEF RestartController
    <2> HIDE DEF c0
    <2> SUFFICES ASSUME switcher \in Clients, NEW c \in Active, ~fresh'[c]
                 PROVE  WillRestart(switcher, c)'
        BY <2>1 DEF SwitcherOwes, Active
    <2>7. c # c0 /\ ~fresh[c]
        BY <2>5, <2>6, ActiveOK DEF FreshOK
    <2>8. WillRestart(switcher, c)
        BY <2>7 DEF SwitcherOwes
    <2>9. CASE switcher = p
        <3>1. c \in Remaining(call[p])
            BY <2>1, <2>8, <2>9 DEF WillRestart
        <3> QED
            BY <2>1, <2>3, <2>4, <2>7, <2>9, <3>1 DEF WillRestart
    <2>10. CASE switcher # p
        BY <2>1, <2>8, <2>10 DEF WillRestart
    <2> QED
        BY <2>9, <2>10
<1>5. ASSUME NEW p \in Clients, Applied(p) PROVE SwitcherOwes'
    <2>1. /\ call[p].pc = "apply" /\ call[p].k > Len(call[p].names)
          /\ UNCHANGED <<controllers, fresh, switcher>>
          /\ \A q \in Clients \ {p} : call'[q] = call[q]
        BY <1>5 DEF Applied, Reply, CallsOK, smvars, ghosts
    <2>2. Remaining(call[p]) = {}
        BY <2>1, NoneRemains DEF CallsOK, CallType
    <2> QED
        BY <2>1, <2>2, SwitcherKeeps DEF WillRestart
<1>6. ASSUME NEW p \in Clients,
             Call(p) \/ SetStateRefuse(p) \/ SetVelocityWrite(p) \/ SetTarget(p)
             \/ GetState(p) \/ GetVelocity(p) \/ Return(p)
      PROVE  SwitcherOwes'
    <2>1. /\ UNCHANGED <<controllers, fresh, switcher>>
          /\ \A q \in Clients \ {p} : call'[q] = call[q]
        BY <1>6 DEF Call, SetStateRefuse, RefuseState, SetVelocityWrite, SetTarget, GetState,
           GetVelocity, Return, Goto, Reply, Advance, CallsOK, smvars, ghosts
    <2>2. call[p].op # "SetState" \/ call[p].pc \notin {"names", "apply"}
        BY <1>6 DEF Call, SetStateRefuse, SetVelocityWrite, SetTarget, GetState,
           GetVelocity, Return, Advance, At
    <2> QED
        BY <2>1, <2>2, SwitcherKeeps DEF WillRestart
<1> QED
    BY <1>1, <1>2, <1>3, <1>4, <1>5, <1>6, ElsewhereOK DEF Next, Handle, vars, smvars, ghosts

-----------------------------------------------------------------------------
(* Every step of the module is a step of the service or changes nothing    *)
(* that the service shows.                                                 *)
ServiceInv == Types /\ Phases /\ ModeNamed /\ SwitcherOwes

request == [p \in Clients |-> ServiceRequest(p)]
ready == \A c \in Active : fresh[c]

\* A step of one client changes only what that client has asked.
LEMMA RequestOfOne ==
    ASSUME NEW p \in Clients, \A q \in Clients \ {p} : call'[q] = call[q]
    PROVE  request' = [request EXCEPT ![p] = ServiceRequest(p)']
<1>1. \A q \in Clients \ {p} : ServiceRequest(q)' = ServiceRequest(q)
    BY DEF ServiceRequest
<1> QED
    BY <1>1 DEF request

\* A step that leaves the call of the client where the service has it.
LEMMA SameRequest ==
    ASSUME NEW p \in Clients, \A q \in Clients \ {p} : call'[q] = call[q],
           ServiceRequest(p)' = ServiceRequest(p)
    PROVE  request' = request
<1>1. request' = [request EXCEPT ![p] = ServiceRequest(p)]
    BY RequestOfOne
<1> QED
    BY <1>1 DEF request

\* The controllers of the mode are as ready as before.
LEMMA SameReady == ASSUME UNCHANGED <<controllers, fresh>> PROVE ready' = ready
BY DEF ready, Active

\* Initialize leaves the service in its initial state.
LEMMA ServiceInit == Init => Service!Init
<1> SUFFICES ASSUME Init PROVE Service!Init
    OBVIOUS
<1>1. ready
    BY InitTypes, ActiveOK DEF Init, Types, ready
<1>2. \A p \in Clients : ServiceRequest(p) = Service!Quiet
    BY DEF Init, Ready, ServiceRequest, Service!Quiet
<1> QED
    BY <1>1, <1>2 DEF Init, SMInit, ready, Service!Init

\* A step that shows in none of the service's variables.
LEMMA Unseen ==
    ASSUME UNCHANGED <<current_state_name, controllers, fresh, switcher>>, request' = request
    PROVE  UNCHANGED Service!svars
BY SameReady DEF Service!svars, request, ready

\* A client asks for a switch, or the mode, or a velocity, which does not show.
LEMMA AskSeen ==
    ASSUME ServiceInv, NEW p \in Clients, Call(p)
    PROVE  /\ UNCHANGED <<current_state_name, controllers, fresh, switcher>>
           /\ request[p] = Service!Quiet
           /\ call'[p].op = "SetState" =>
                 /\ call'[p].arg \in Enums
                 /\ request' = [request EXCEPT ![p] =
                       [ask |-> "switch", target |-> call'[p].arg, answer |-> "none"]]
           /\ call'[p].op = "GetState" =>
                 request' = [request EXCEPT ![p] =
                       [ask |-> "query", target |-> "none", answer |-> "none"]]
           /\ call'[p].op \notin {"SetState", "GetState"} => request' = request
<1> USE DEF ServiceInv, Types
<1>1. PICK r \in Request :
         /\ call'[p].pc = "begin" /\ call'[p].op = r.op
         /\ call'[p].arg = r.arg /\ call'[p].answer = "none"
         /\ \A q \in Clients \ {p} : call'[q] = call[q]
    BY BeginOK
<1>2. UNCHANGED <<current_state_name, controllers, fresh, switcher>>
    BY DEF Call, smvars, ghosts
<1>3. ServiceRequest(p) = Service!Quiet
    BY DEF Call, Phases, Phase, ServiceRequest, Service!Quiet
<1>4. request' = [request EXCEPT ![p] = ServiceRequest(p)']
    BY <1>1, RequestOfOne
<1>5. request[p] = Service!Quiet
    BY <1>3 DEF request
<1>6. CASE r.op \notin {"SetState", "GetState"}
    <2>1. ServiceRequest(p)' = ServiceRequest(p)
        BY <1>1, <1>3, <1>6 DEF ServiceRequest, Service!Quiet
    <2> QED
        BY <1>1, <1>2, <1>5, <1>6, <2>1, SameRequest
<1>7. CASE r.op = "SetState"
    <2>1. r.arg \in Enums
        BY <1>7 DEF Request
    <2>2. ServiceRequest(p)' = [ask |-> "switch", target |-> r.arg, answer |-> "none"]
        BY <1>1, <1>7 DEF ServiceRequest
    <2> QED
        BY <1>1, <1>2, <1>4, <1>5, <1>7, <2>1, <2>2
<1>8. CASE r.op = "GetState"
    <2>1. r.arg = "none"
        BY <1>8 DEF Request
    <2>2. ServiceRequest(p)' = [ask |-> "query", target |-> "none", answer |-> "none"]
        BY <1>1, <1>8, <2>1 DEF ServiceRequest
    <2> QED
        BY <1>1, <1>2, <1>4, <1>5, <1>8, <2>2
<1> QED
    BY <1>6, <1>7, <1>8

\* The return from a SetState or a GetState is the service's return.
LEMMA ReturnSeen ==
    ASSUME ServiceInv, NEW p \in Clients, Return(p)
    PROVE  IF call[p].op \in {"SetState", "GetState"} THEN Service!Return(p)
                                                     ELSE UNCHANGED Service!svars
<1> USE DEF ServiceInv, Types
<1>1. /\ call[p].pc = "answer" /\ call'[p].op = "none"
      /\ \A q \in Clients \ {p} : call'[q] = call[q]
      /\ UNCHANGED <<current_state_name, controllers, fresh, switcher>>
    BY ReturnOK DEF Return, smvars, ghosts
<1>2. ServiceRequest(p)' = Service!Quiet
    BY <1>1 DEF ServiceRequest, Service!Quiet
<1>3. CASE call[p].op \notin {"SetState", "GetState"}
    <2>1. ServiceRequest(p)' = ServiceRequest(p)
        BY <1>2, <1>3 DEF ServiceRequest, Service!Quiet
    <2> QED
        BY Unseen, <1>1, <1>3, <2>1, SameRequest
<1>4. CASE call[p].op \in {"SetState", "GetState"}
    <2>1. ServiceRequest(p).answer # "none"
        BY <1>1, <1>4, AnswersDiffer DEF Phases, Phase, ServiceRequest
    <2>2. switcher = p => ready
        BY <1>1 DEF SwitcherOwes, WillRestart, ready
    <2>3. request' = [request EXCEPT ![p] = Service!Quiet]
        BY <1>1, <1>2, RequestOfOne
    <2>4. Service!Return(p)
        BY <1>1, <2>1, <2>2, <2>3, SameReady DEF Service!Return, request, ready
    <2> QED
        BY <1>4, <2>4
<1> QED
    BY <1>3, <1>4

\* An accepted SetState is the service's switch.
LEMMA SwitchSeen ==
    ASSUME ServiceInv, NEW p \in Clients, SetStateAccept(p)
    PROVE  Service!Switch(p)
<1> USE DEF ServiceInv, Types
<1>1. /\ call[p].pc = "begin" /\ call[p].op = "SetState" /\ call[p].answer = "none"
      /\ call'[p].op = "SetState" /\ call'[p].pc = "names" /\ call'[p].arg = call[p].arg
      /\ call'[p].answer = "none"
      /\ \A q \in Clients \ {p} : call'[q] = call[q]
    BY GoOnOK DEF SetStateAccept, At, Goto, CallsOK, Phases, Phase
<1>2. ServiceRequest(p) = [ask |-> "switch", target |-> call[p].arg, answer |-> "none"]
    BY <1>1 DEF ServiceRequest
<1>3. ServiceRequest(p)' = [ask |-> "switch", target |-> call[p].arg, answer |-> "success"]
    BY <1>1 DEF ServiceRequest
<1>4. request' = [request EXCEPT ![p].answer = "success"]
    BY <1>1, <1>2, <1>3, RequestOfOne DEF request
<1>5. /\ call[p].arg \in Named
      /\ current_state_name \in PreStates[StateToName[call[p].arg]]
      /\ current_state_name' = StateToName[call[p].arg]
      /\ current_state_name' \in States
      /\ controllers' = ControllersOf[StateToName[call[p].arg]]
    BY DEF SetStateAccept, ChangeState, Legal, Named
<1>6. <<current_state_name, StateToName[call[p].arg]>>
          \in {e \in States \X States : e[1] \in PreStates[e[2]]}
    BY <1>5 DEF SMTypeOK
<1>7. ~ready'
    <2>1. controllers' \in Seq(Controllers) /\ controllers' # <<>>
        BY <1>5, ModeGraph, Configuration
    <2>2. controllers'[1] \in Active' /\ controllers'[1] \in Controllers
        BY <2>1 DEF Active, Range
    <2>3. ~fresh'[controllers'[1]]
        BY <2>2 DEF SetStateAccept
    <2> QED
        BY <2>2, <2>3 DEF ready
<1>8. switcher' = p
    BY DEF SetStateAccept
<1> QED
    BY <1>2, <1>4, <1>5, <1>6, <1>7, <1>8
    DEF Service!Switch, Service!Undecided, Service!Reachable, Service!Answer, request, ready

\* A refused SetState is the service's refusal.
LEMMA RefuseSeen ==
    ASSUME ServiceInv, NEW p \in Clients, SetStateRefuse(p)
    PROVE  Service!Refuse(p)
<1> USE DEF ServiceInv, Types
<1>1. /\ call[p].pc = "begin" /\ call[p].op = "SetState" /\ call[p].answer = "none"
      /\ call'[p].op = "SetState" /\ call'[p].pc = "answer" /\ call'[p].arg = call[p].arg
      /\ call'[p].answer = "1"
      /\ \A q \in Clients \ {p} : call'[q] = call[q]
    BY ReplyOK DEF SetStateRefuse, At, Phases, Phase
<1>2. ServiceRequest(p) = [ask |-> "switch", target |-> call[p].arg, answer |-> "none"]
    BY <1>1 DEF ServiceRequest
<1>3. ServiceRequest(p)' = [ask |-> "switch", target |-> call[p].arg, answer |-> "failure"]
    BY <1>1 DEF ServiceRequest
<1>4. request' = [request EXCEPT ![p].answer = "failure"]
    BY <1>1, <1>2, <1>3, RequestOfOne DEF request
<1>5. /\ ~Legal(call[p].arg)
      /\ UNCHANGED <<current_state_name, controllers, fresh, switcher>>
    BY DEF SetStateRefuse, RefuseState, smvars, ghosts
<1>6. ~(/\ call[p].arg \in Named
        /\ <<current_state_name, StateToName[call[p].arg]>>
               \in {e \in States \X States : e[1] \in PreStates[e[2]]})
    BY <1>5 DEF Legal, Named
<1> QED
    BY <1>2, <1>4, <1>5, <1>6, SameReady
    DEF Service!Refuse, Service!Undecided, Service!Reachable, Service!Answer, request, ready

\* GetState is the service's query.
LEMMA QuerySeen ==
    ASSUME ServiceInv, NEW p \in Clients, GetState(p)
    PROVE  Service!Query(p)
<1> USE DEF ServiceInv, Types
<1>1. /\ call[p].pc = "begin" /\ call[p].op = "GetState" /\ call[p].answer = "none"
      /\ call'[p].op = "GetState" /\ call'[p].pc = "answer" /\ call'[p].arg = call[p].arg
      /\ call'[p].answer = GetCurrentStateEnum
      /\ \A q \in Clients \ {p} : call'[q] = call[q]
    BY ReplyOK DEF GetState, At, Phases, Phase
<1>2. ServiceRequest(p) = [ask |-> "query", target |-> call[p].arg, answer |-> "none"]
    BY <1>1 DEF ServiceRequest
<1>3. ServiceRequest(p)' =
          [ask |-> "query", target |-> call[p].arg, answer |-> GetCurrentStateEnum]
    <2>1. ServiceRequest(p)' =
              [ask |-> "query", target |-> call[p].arg, answer |-> call'[p].answer]
        <3>1. /\ call'[p].op = "GetState" /\ call'[p].arg = call[p].arg
              /\ call'[p].pc = "answer" /\ call'[p].answer \notin {"none", "0", "1"}
            BY <1>1, EnumOK, AnswersDiffer
        <3> QED
            BY <3>1 DEF ServiceRequest
    <2> QED
        BY <1>1, <2>1
<1>4. request' = [request EXCEPT ![p].answer = GetCurrentStateEnum]
    BY <1>1, <1>2, <1>3, RequestOfOne DEF request
<1>5. GetCurrentStateEnum
          = [s \in States |-> CHOOSE e \in Named : StateToName[e] = s][current_state_name]
    BY MemberOfMode DEF SMTypeOK
<1>6. UNCHANGED <<current_state_name, controllers, fresh, switcher>>
    BY DEF GetState, smvars, ghosts
<1> QED
    BY <1>2, <1>4, <1>5, <1>6, SameReady
    DEF Service!Query, Service!Undecided, Service!Answer, request, ready

\* The restart of the last controller makes the mode ready; no other shows.
LEMMA RestartSeen ==
    ASSUME ServiceInv, NEW p \in Clients, RestartController(p)
    PROVE  Service!BecomeReady \/ UNCHANGED Service!svars
<1> USE DEF ServiceInv, Types
<1>1. /\ call[p].op = "SetState" /\ call[p].pc = "apply" /\ call[p].answer = "none"
      /\ call'[p].op = "SetState" /\ call'[p].pc \in {"names", "apply"}
      /\ call'[p].arg = call[p].arg /\ call'[p].answer = "none"
      /\ \A q \in Clients \ {p} : call'[q] = call[q]
    BY GoOnOK DEF RestartController, Advance, At, Phases, Phase
<1>2. UNCHANGED <<current_state_name, controllers, switcher>>
    BY DEF RestartController, smvars
<1>3. ServiceRequest(p)' = ServiceRequest(p) /\ ServiceRequest(p).answer = "success"
    BY <1>1 DEF ServiceRequest
<1>4. request' = request /\ request[p].answer = "success"
    BY <1>1, <1>3, SameRequest DEF request
<1>5. ready => ready'
    BY <1>2, ActiveOK DEF RestartController, FreshOK, ready, Active
<1>6. CASE ready' = ready
    BY <1>2, <1>4, <1>6 DEF Service!svars, request, ready
<1>7. CASE ready' = TRUE
    BY <1>2, <1>4, <1>7 DEF Service!BecomeReady, request, ready
<1> QED
    BY <1>5, <1>6, <1>7 DEF ready

\* The steps between do not show.
LEMMA VelocityUnseen ==
    ASSUME ServiceInv, NEW p \in Clients, SetVelocityWrite(p) \/ ReadNames(p) \/ SetTarget(p)
    PROVE  UNCHANGED Service!svars
<1> USE DEF ServiceInv, Types
<1>1. /\ call[p].op = "SetState" => call[p].pc = "names"
      /\ call[p].op # "GetState" /\ call[p].answer = "none"
    BY DEF SetVelocityWrite, ReadNames, SetTarget, Advance, At, Phases, Phase
<1>2. /\ call'[p].pc \in {"names", "apply"} /\ call'[p].answer = call[p].answer
      /\ call'[p].op = call[p].op /\ call'[p].arg = call[p].arg
      /\ \A q \in Clients \ {p} : call'[q] = call[q]
    BY GoOnOK
<1>3. ServiceRequest(p)' = ServiceRequest(p)
    BY <1>1, <1>2 DEF ServiceRequest
<1>4. UNCHANGED <<current_state_name, controllers, fresh, switcher>>
    BY DEF SetVelocityWrite, ReadNames, SetTarget, smvars, ghosts
<1> QED
    BY Unseen, <1>2, <1>3, <1>4, SameRequest

\* Nor does the answer itself, nor GetVelocity.
LEMMA AnswerUnseen ==
    ASSUME ServiceInv, NEW p \in Clients, Applied(p) \/ GetVelocity(p)
    PROVE  UNCHANGED Service!svars
<1> USE DEF ServiceInv, Types
<1>1. /\ call[p].op = "SetState" => call[p].pc = "apply" /\ call[p].answer = "none"
      /\ call[p].op = "SetState" => call'[p].answer = "0"
      /\ call[p].op # "GetState"
      /\ call'[p].op = call[p].op /\ call'[p].arg = call[p].arg
      /\ \A q \in Clients \ {p} : call'[q] = call[q]
    BY ReplyOK DEF Applied, GetVelocity, At, Phases, Phase
<1>2. ServiceRequest(p)' = ServiceRequest(p)
    BY <1>1 DEF ServiceRequest
<1>3. UNCHANGED <<current_state_name, controllers, fresh, switcher>>
    BY DEF Applied, GetVelocity, smvars, ghosts
<1> QED
    BY Unseen, <1>1, <1>2, <1>3, SameRequest

\* Every step of the module is a step of the service or does not show.
LEMMA ServiceStep == ServiceInv /\ [Next]_vars => [Service!Next]_(Service!svars)
<1> SUFFICES ASSUME ServiceInv, [Next]_vars PROVE [Service!Next]_(Service!svars)
    OBVIOUS
<1>1. CASE UNCHANGED <<smvars, call, fresh, switcher>>
    <2>1. request' = request
        BY <1>1 DEF request, ServiceRequest
    <2> QED
        BY Unseen, <1>1, <2>1 DEF smvars
<1>2. ASSUME NEW p \in Clients, Call(p) PROVE [Service!Next]_(Service!svars)
    <2>1. /\ UNCHANGED <<current_state_name, controllers, fresh, switcher>>
          /\ request[p] = Service!Quiet
        BY <1>2, AskSeen
    <2>2. CASE call'[p].op \in {"SetState", "GetState"}
        <3>1. Service!Ask(p)
            BY <1>2, <2>1, <2>2, AskSeen, SameReady DEF Service!Ask, request, ready
        <3> QED
            BY <3>1 DEF Service!Next
    <2>3. CASE call'[p].op \notin {"SetState", "GetState"}
        BY <1>2, <2>1, <2>3, AskSeen, Unseen
    <2> QED
        BY <2>2, <2>3
<1>3. ASSUME NEW p \in Clients, Handle(p) PROVE [Service!Next]_(Service!svars)
    BY <1>3, SwitchSeen, RefuseSeen, QuerySeen, RestartSeen, VelocityUnseen, AnswerUnseen,
       ReturnSeen
    DEF Handle, Service!Next
<1> QED
    BY <1>1, <1>2, <1>3, ElsewhereOK DEF Next, vars, ghosts

\* What the steps keep holds from the start.
LEMMA ServiceInvHolds == Spec => []ServiceInv
<1>1. Init => Phases
    BY DEF Init, Ready, Phases, Phase
<1>2. Init => ModeNamed
    <2>1. \E e \in DOMAIN StateToName : StateToName[e] = FirstState
        BY FirstStateNamed DEF Range
    <2> QED
        BY <2>1, ModeGraph DEF Init, SMInit, ModeNamed, Named
<1>3. Init => SwitcherOwes
    BY Configuration DEF Init, SwitcherOwes
<1> QED
    BY <1>1, <1>2, <1>3, TypesHold, PhasesStep, ModeNamedStep, SwitcherStep, PTL
    DEF Spec, ServiceInv

(* The control module implements the mode service: every accepted SetState *)
(* is one legal step of the mode at one moment, GetState answers the mode  *)
(* of a moment of the call, and the latest switch is answered when its     *)
(* controllers have been restarted (control_module.cc:197-218).            *)
THEOREM ServiceImplemented == Spec => ImplementsService
BY ServiceInvHolds, ServiceInit, ServiceStep, PTL DEF Spec, ImplementsService, Service!Spec
================================================================================
