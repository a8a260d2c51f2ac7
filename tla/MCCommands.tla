---------------------------- MODULE MCCommands -----------------------------
(***************************************************************************)
(* Names of up to three characters, which is MAX_CMD_LEN, in commands of   *)
(* up to four, a file that is not executable, and two processes above the  *)
(* base shell.                                                             *)
(***************************************************************************)
EXTENDS CommandLine

CONSTANTS a, b

MCLetters == {a, b}
MCFiles == {<<a>>, <<b>>, <<a, b>>, <<a, b, a>>}
MCExecutables == {<<a>>, <<a, b>>, <<a, b, a>>}
MCSizes == -1 .. 3

\* Every text that ends where its first NUL is, whatever follows.
MCCommandSet == {text \in Texts : Ended(text)}
=============================================================================
