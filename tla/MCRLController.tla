--------------------------- MODULE MCRLController ---------------------------
(***************************************************************************)
(* RLController with a short history and a small decimation: the restart   *)
(* meets every phase of the decimation and every step of a tick.           *)
(***************************************************************************)
EXTENDS RLController
=============================================================================
