---------------------------- MODULE MCProcesses ----------------------------
(***************************************************************************)
(* Instances of Processes for TLC: the points at which ticks are taken.    *)
(* A behaviour is followed up to the first step that sets torn, or until   *)
(* one sets it before the base shells run.                                 *)
(***************************************************************************)
EXTENDS Processes

CONSTANTS shell, prog, none

MCPrograms == {shell, prog}
MCStatuses == {0}

Windows == KernelPoints \ SafePoints

FewPoints == {"boot", "user", "wait"}
MostPoints == FewPoints \cup {"exec_go"} \cup Windows
LivePoints == FewPoints \cup {"ret_to_exec"}
PidWindow == FewPoints \cup {"exec_page"}

Untorn == ~torn
AfterBoot == torn => AllStarted
=============================================================================
