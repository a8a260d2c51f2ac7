------------------------------ MODULE Screens ------------------------------
(***************************************************************************)
(* What users and programs may expect of the display: every terminal has a *)
(* screen of its own.  The program that runs writes on the screen of its   *)
(* terminal, seen or not, the keyboard on the screen that is shown.        *)
(* Nothing is written on any other screen, and showing another terminal or *)
(* running another program changes none.                                   *)
(***************************************************************************)
EXTENDS Console

CONSTANTS
    Terminals,
    KeyLines     \* the texts that a line being edited can have

VARIABLES
    console,   \* console[t]: the screen and the cursor of terminal t
    line,      \* line[t]: what has been typed and not entered on terminal t
    shown,     \* the terminal that is displayed
    running    \* the terminal whose program runs

vars == <<console, line, shown, running>>

Init ==
    /\ console = [t \in Terminals |-> clear]
    /\ line = [t \in Terminals |-> <<>>]
    /\ shown = 0
    /\ running = 0

Becomes(t, con) == console' = [console EXCEPT ![t] = con] /\ UNCHANGED <<shown, running>>

Write ==
    /\ \E c \in Glyphs \cup {NL} : Becomes(running, putc(console[running], c))
    /\ UNCHANGED line

Paint ==
    /\ \E i \in Cells, c \in Glyphs : Becomes(running, [console[running] EXCEPT !.vid[i] = c])
    /\ UNCHANGED line

LineBecomes(l) == line' = [line EXCEPT ![shown] = l]

Type ==
    \E c \in Glyphs : /\ LineBecomes(Append(line[shown], c))
                     /\ Becomes(shown, putc(console[shown], c))

Rub ==
    /\ line[shown] # <<>>
    /\ LineBecomes(SubSeq(line[shown], 1, Len(line[shown]) - 1))
    /\ Becomes(shown, screen_backspace(console[shown]))

Enter == LineBecomes(<<>>) /\ Becomes(shown, putc(console[shown], NL))

\* Another line takes the place of the one being edited.
Replace ==
    \E l \in KeyLines : /\ LineBecomes(l)
                       /\ Becomes(shown, puts(Erase(console[shown], line[shown]), l))

\* Only the line is left on the screen.
Redraw == Becomes(shown, puts(clear, line[shown])) /\ UNCHANGED line

Edit == Type \/ Rub \/ Enter \/ Replace \/ Redraw

Show == shown' \in Terminals /\ UNCHANGED <<console, line, running>>
Run == running' \in Terminals /\ UNCHANGED <<console, line, shown>>

Next == Show \/ Run \/ Write \/ Paint \/ Edit

Spec == Init /\ [][Next]_vars
=============================================================================
