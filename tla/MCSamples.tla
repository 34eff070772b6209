------------------------------ MODULE MCSamples ------------------------------
(***************************************************************************)
(* SampleApp for TLC.                                                      *)
(***************************************************************************)
EXTENDS SampleApp

MCRos2 == Ros2
MCAll == AllSamples
=============================================================================
