------------------------------- MODULE MCPic -------------------------------
(***************************************************************************)
(* The controllers with the three terminals of the system.                 *)
(***************************************************************************)
EXTENDS Pic
=============================================================================
