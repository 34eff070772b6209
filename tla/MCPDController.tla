--------------------------- MODULE MCPDController ---------------------------
(***************************************************************************)
(* PDController on a small controller: two joints, a ramp of a few steps,  *)
(* two trajectories of no point or of two and more, and an old pose and a  *)
(* new one.                                                                *)
(***************************************************************************)
EXTENDS PDController
=============================================================================
