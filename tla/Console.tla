------------------------------ MODULE Console ------------------------------
(***************************************************************************)
(* What the functions of lib.c do to one screen: a console is the          *)
(* characters of a video page and the position of its cursor.  Colours are *)
(* left out.                                                               *)
(***************************************************************************)
EXTENDS Integers, Sequences

CONSTANTS
    NUM_ROWS, NUM_COLS,
    Glyphs,      \* the characters that can be seen, the space among them
    SPACE, NL    \* ' ' and '\n' (or '\r', which putc treats alike)

ASSUME ConsoleAssumption ==
    /\ NUM_ROWS \in Nat \ {0} /\ NUM_COLS \in Nat \ {0}
    /\ SPACE \in Glyphs /\ NL \notin Glyphs

Cells == 0 .. NUM_ROWS * NUM_COLS - 1
Blank == [i \in Cells |-> SPACE]

\* After the last column of a row x is NUM_COLS until the next character.
Consoles == [vid : [Cells -> Glyphs], x : 0 .. NUM_COLS, y : 0 .. NUM_ROWS - 1]

\* The position of the cursor in one dimension, as update_cursor sends it to the VGA.
Offset(x, y) == y * NUM_COLS + x

clear == [vid |-> Blank, x |-> 0, y |-> 0]

scroll_up(vid) ==
    [i \in Cells |-> IF i + NUM_COLS \in Cells THEN vid[i + NUM_COLS] ELSE SPACE]

\* Mutant: the screen is scrolled one row too late.
NextRow_Late(con) ==
    IF con.y = NUM_ROWS
    THEN [con EXCEPT !.vid = scroll_up(con.vid), !.x = 0]
    ELSE [con EXCEPT !.x = 0, !.y = con.y + 1]

\* The start of the next row, which is the same one if the screen was scrolled.
NextRow(con) ==
    IF con.y + 1 = NUM_ROWS
    THEN [con EXCEPT !.vid = scroll_up(con.vid), !.x = 0]
    ELSE [con EXCEPT !.x = 0, !.y = con.y + 1]

\* Mutant: the row ends one column early.
putc_ShortRow(con, c) ==
    IF c = NL THEN NextRow(con)
    ELSE LET at == IF con.x = NUM_COLS - 1 THEN NextRow(con) ELSE con
         IN  [at EXCEPT !.vid[Offset(at.x, at.y)] = c, !.x = at.x + 1]

putc(con, c) ==
    IF c = NL THEN NextRow(con)
    ELSE LET at == IF con.x = NUM_COLS THEN NextRow(con) ELSE con
         IN  [at EXCEPT !.vid[Offset(at.x, at.y)] = c, !.x = at.x + 1]

screen_backspace(con) ==
    IF con.x = 0 /\ con.y = 0 THEN con
    ELSE LET at == IF con.x = 0 THEN [con EXCEPT !.x = NUM_COLS, !.y = con.y - 1] ELSE con
         IN  [at EXCEPT !.vid[Offset(at.x - 1, at.y)] = SPACE, !.x = at.x - 1]

\* All characters of a text, as puts and retype_buffer write them.
puts(con, text) ==
    LET after[n \in 0 .. Len(text)] == IF n = 0 THEN con ELSE putc(after[n - 1], text[n])
    IN  after[Len(text)]

\* A text is rubbed out, one backspace per character.
Erase(con, text) ==
    LET after[n \in 0 .. Len(text)] == IF n = 0 THEN con ELSE screen_backspace(after[n - 1])
    IN  after[Len(text)]
=============================================================================
