-------------------------------- MODULE MCRtc --------------------------------
(***************************************************************************)
(* Instances of Rtc for TLC.  A behaviour is followed up to the first      *)
(* interrupt in a window.                                                  *)
(***************************************************************************)
EXTENDS Rtc

SomeFreqs == {0, 4, 6, 8, 2048}

Untorn == ~torn
=============================================================================
