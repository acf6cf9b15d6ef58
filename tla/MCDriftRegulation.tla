-------------------------- MODULE MCDriftRegulation --------------------------
(***************************************************************************)
(* DriftRegulation for TLC, with the driver's own constants and IO buffers *)
(* of 512 frames: the fill is one number, so nothing has to be scaled down.*)
(***************************************************************************)
EXTENDS DriftRegulation
=============================================================================
