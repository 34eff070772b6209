----------------------------- MODULE MCControl -----------------------------
(***************************************************************************)
(* ControlProps with the shipped configuration (rl_x1_sim.yaml): the four  *)
(* modes, their controllers, and the 29 joints as three classes that no    *)
(* controller tells apart: the legs, the joints pd_stand adds to them, and *)
(* the rest.                                                               *)
(***************************************************************************)
EXTENDS ControlProps

MCStates == {"idle", "zero", "stand", "walk_leg"}
MCControllers == {"pd_idle", "pd_zero", "pd_stand", "rl_walk_leg"}
MCEnums == {"IDLE", "STAND", "ZERO", "WALK", "KEEP"}
MCStateToName ==
    [e \in MCEnums |-> CASE e = "IDLE" -> "idle"   [] e = "STAND" -> "stand"
                         [] e = "ZERO" -> "zero"   [] e = "WALK" -> "walk_leg"
                         [] e = "KEEP" -> "keep"]
MCPreStates ==
    [s \in MCStates |-> CASE s = "idle"     -> {"zero", "stand", "walk_leg"}
                          [] s = "zero"     -> {"idle", "stand"}
                          [] s = "stand"    -> {"zero", "walk_leg"}
                          [] s = "walk_leg" -> {"stand"}]
MCControllersOf ==
    [s \in MCStates |-> CASE s = "idle"     -> <<"pd_idle">>
                          [] s = "zero"     -> <<"pd_zero">>
                          [] s = "stand"    -> <<"pd_zero", "pd_stand">>
                          [] s = "walk_leg" -> <<"rl_walk_leg">>]

MCJoints == {"leg", "arm", "body"}
MCJointsOf ==
    [c \in MCControllers |->
        Joints \cap CASE c \in {"pd_idle", "pd_zero"} -> MCJoints
                      [] c = "pd_stand"    -> {"leg", "arm"}
                      [] c = "rl_walk_leg" -> {"leg"}]
MCControllerMap == <<"pd_idle", "pd_stand", "pd_zero", "rl_walk_leg">>
MCRLControllers == {"rl_walk_leg"}

SetState(targets) == [op : {"SetState"}, arg : targets]
SetVelocities == [op : {"SetVelocity"}, arg : Velocities]
Ask(queries) == [op : queries, arg : {"none"}]

(* One client: the keyboard module, as shipped.                            *)
MCKeyboard == {"keyboard"}
Switches == [p \in MCKeyboard |-> SetState(MCEnums) \cup Ask({"GetState", "GetVelocity"})]
SomeSwitches == [p \in MCKeyboard |-> SetState({"ZERO", "STAND"})]
Steers ==
    [p \in MCKeyboard |-> SetState({"ZERO", "STAND", "WALK"})
                          \cup SetVelocities \cup Ask({"GetVelocity"})]

(* Two clients that switch against each other, one of which steers, too.   *)
MCClients == {"keyboard", "tool"}
TwoSwitch ==
    [p \in MCClients |-> IF p = "keyboard"
                         THEN SetState({"ZERO"}) \cup [op : {"SetVelocity"}, arg : {"v1"}]
                         ELSE SetState({"IDLE", "STAND", "KEEP"}) \cup Ask({"GetState"})]
=============================================================================
