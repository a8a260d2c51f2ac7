------------------------------ MODULE Sessions ------------------------------
(***************************************************************************)
(* What execute, halt and the scheduler promise together: every terminal   *)
(* has a stack of programs with a shell at the bottom; the program on top  *)
(* runs while the terminal has the processor; executing a program pushes   *)
(* it, halting pops it, and a shell at the bottom that halts is replaced   *)
(* by a new one; terminals take turns.                                     *)
(***************************************************************************)
EXTENDS Integers, Sequences

CONSTANTS MAX_PROCESSES, Programs, Shell, NUM_TERMINALS

Terminals == 0 .. NUM_TERMINALS - 1

VARIABLES
    session,  \* session[t]: the programs of terminal t, the running one last
    turn      \* the terminal that has the processor

Init ==
    /\ session = [t \in Terminals |-> <<>>]
    /\ turn = NUM_TERMINALS - 1

\* How many processes the first n terminals have.
Count ==
    LET upto[n \in 0 .. NUM_TERMINALS] ==
          IF n = 0 THEN 0 ELSE upto[n - 1] + Len(session[n - 1])
    IN  upto[NUM_TERMINALS]

Switch ==
    LET next == (turn + 1) % NUM_TERMINALS
    IN  /\ turn' = next
        /\ session' = IF session[next] = <<>>
                      THEN [session EXCEPT ![next] = <<Shell>>]
                      ELSE session

Execute(p) ==
    /\ session[turn] # <<>>
    /\ Count < MAX_PROCESSES
    /\ session' = [session EXCEPT ![turn] = Append(@, p)]
    /\ UNCHANGED turn

Halt ==
    /\ Len(session[turn]) > 1
    /\ session' = [session EXCEPT ![turn] = SubSeq(@, 1, Len(@) - 1)]
    /\ UNCHANGED turn

Next == Switch \/ (\E p \in Programs : Execute(p)) \/ Halt

vars == <<session, turn>>

Spec == Init /\ [][Next]_vars
=============================================================================
