---------------------------- MODULE MCRobotSystem ----------------------------
(***************************************************************************)
(* RobotSystem with the shipped mode graph (rl_x1_sim.yaml).               *)
(***************************************************************************)
EXTENDS RobotSystem

MCModes == {"idle", "zero", "stand", "walk_leg"}
MCModeOf ==
    [e \in {"IDLE", "STAND", "ZERO", "WALK"} |->
        CASE e = "IDLE" -> "idle" [] e = "STAND" -> "stand"
          [] e = "ZERO" -> "zero" [] e = "WALK" -> "walk_leg"]
MCMemberOf ==
    [m \in MCModes |-> CHOOSE e \in DOMAIN MCModeOf : MCModeOf[e] = m]
MCEdges ==
    {<<"zero", "idle">>, <<"stand", "idle">>, <<"walk_leg", "idle">>, <<"idle", "zero">>,
     <<"stand", "zero">>, <<"zero", "stand">>, <<"walk_leg", "stand">>, <<"stand", "walk_leg">>}
=============================================================================
