--------------------------- MODULE MCRobotThreads ---------------------------
(***************************************************************************)
(* RobotThreads with the shipped configuration (MCControl), but for one    *)
(* more edge of the mode graph: from the first mode to the one that walks, *)
(* so that two presses are enough to walk at a velocity.                   *)
(***************************************************************************)
EXTENDS RobotThreads, MCControl

MCShortcut == [MCPreStates EXCEPT !["walk_leg"] = @ \cup {"idle"}]
MCVelocities == {"W", "none"}
Keyboards ==
    [p \in {Client} |-> SetState(ButtonModes) \cup [op : {"SetVelocity"}, arg : DirKeys]]
=============================================================================
