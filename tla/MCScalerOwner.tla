---------------------------- MODULE MCScalerOwner ----------------------------
(***************************************************************************)
(* Values of the constants of ScalerOwner for TLC.                         *)
(***************************************************************************)
EXTENDS ScalerOwner, TLC

CONSTANT First

Single == First :> "out"
=============================================================================
