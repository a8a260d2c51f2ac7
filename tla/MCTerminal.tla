---------------------------- MODULE MCTerminal ----------------------------
(***************************************************************************)
(* Instances of Terminal for TLC.                                          *)
(***************************************************************************)
EXTENDS Terminal

CONSTANT a

OneChar == {a}
Short == {2}
=============================================================================
