----------------------------- MODULE MCResources -----------------------------
(***************************************************************************)
(* Values of the constants of Resources for TLC.                           *)
(***************************************************************************)
EXTENDS Resources, TLC

CONSTANTS First, Second

OwnNames == First :> 1 @@ Second :> 2

\* Two namespaces with a job of the same name each.
OneName == First :> 1 @@ Second :> 1
=============================================================================
