------------------------------- MODULE Video -------------------------------
(***************************************************************************)
(* The display: one video page that is shown, one page in the background   *)
(* for each terminal, and a mapping that decides which of them the kernel  *)
(* and the programs write to.  The timer chooses the page of the program   *)
(* that runs, Alt-Fn exchanges the contents of pages, and the keyboard     *)
(* echoes the line being edited.  putc and the handlers run with           *)
(* interrupts disabled and are atomic.  What terminal_read does with a     *)
(* line is the subject of Terminal.                                        *)
(***************************************************************************)
EXTENDS Console, SequencesExt

CONSTANTS
    NUM_TERMINALS,
    BUF_SIZE,      \* the size of a line buffer, terminating NUL included
    Chars,         \* the printable characters of the keyboard
    Output,        \* the characters that programs and the kernel write
    Pixels,        \* the characters that programs store in mapped video memory
    VidmapHidden   \* may a program call vidmap while its terminal is not shown?

\* A line still fits on the screen when its last character has scrolled it.
ASSUME VideoAssumption ==
    /\ NUM_TERMINALS \in Nat \ {0}
    /\ BUF_SIZE \in Nat \ {0} /\ BUF_SIZE - 2 <= (NUM_ROWS - 1) * NUM_COLS
    /\ Chars \subseteq Glyphs \ {SPACE}
    /\ Output \subseteq Glyphs \cup {NL} /\ Pixels \subseteq Glyphs
    /\ VidmapHidden \in BOOLEAN

Terminals == 0 .. NUM_TERMINALS - 1
MAIN_VID == -1
Pages == {MAIN_VID} \cup Terminals
Lines == UNION {[1 .. n -> Chars] : n \in 0 .. BUF_SIZE - 1}
Origin == [x |-> 0, y |-> 0]

VARIABLES
    mem,           \* the video pages
    page,          \* the page that the kernel's video address is mapped to
    user_page,     \* the page that the programs' video address is mapped to
    screen,        \* screen_x and screen_y, the cursor of the running terminal
    saved,         \* the cursor saved for each terminal
    vga_cursor,    \* the position of the blinking cursor
    on_screen, curr_ter, curr_process, kb_enabled,
    started,       \* the terminals whose base shell has been started
    tick_due,      \* a tick became due while switch_ter was waiting
    vidmapped,     \* the entry of the programs' video address is present
    typing, history,
    mixed          \* history: output has come into the line being edited

maps == <<page, user_page, vidmapped>>
sched == <<curr_ter, curr_process, on_screen, kb_enabled, started, tick_due>>
lines == <<typing, history, mixed>>
vars == <<mem, screen, saved, vga_cursor, maps, sched, lines>>

\* The state after the first tick, which starts the shell of terminal 0.  Text mode
\* leaves all pages blank.
Init ==
    /\ mem = [p \in Pages |-> Blank]
    /\ page = MAIN_VID /\ user_page = MAIN_VID
    /\ screen = Origin
    /\ saved = [t \in Terminals |-> Origin]
    /\ vga_cursor = 0
    /\ on_screen = 1 /\ kb_enabled = TRUE
    /\ curr_ter = 0 /\ curr_process = 0
    /\ started = {0}
    /\ tick_due = FALSE
    /\ vidmapped = FALSE
    /\ typing = [t \in Terminals |-> <<>>] /\ history = [t \in Terminals |-> <<>>]
    /\ mixed = [t \in Terminals |-> FALSE]

-----------------------------------------------------------------------------
\* What lib.c works on: the mapped page and the global cursor.
Here == [vid |-> mem[page], x |-> screen.x, y |-> screen.y]

\* Mutant: the cursor of the terminal that is shown is saved.
set_cursor_Shown(x, y) ==
    /\ saved' = [saved EXCEPT ![curr_ter] = [x |-> x, y |-> y]]
    /\ vga_cursor' = IF on_screen = 1 THEN Offset(x, y) ELSE vga_cursor

set_cursor(x, y) ==
    /\ saved' = [saved EXCEPT ![curr_process] = [x |-> x, y |-> y]]
    /\ vga_cursor' = IF on_screen = 1 THEN Offset(x, y) ELSE vga_cursor

Display(con) ==
    /\ mem' = [mem EXCEPT ![page] = con.vid]
    /\ screen' = [x |-> con.x, y |-> con.y]

\* The effect of operations of which the last one is a putc.
Draw(con) == Display(con) /\ set_cursor(con.x, con.y) /\ UNCHANGED <<maps, sched>>

\* The effect of backspaces: the cursor is saved only if the terminal is shown.
Rub(con) ==
    /\ Display(con)
    /\ IF on_screen = 1 THEN set_cursor(con.x, con.y) ELSE UNCHANGED <<saved, vga_cursor>>
    /\ UNCHANGED <<maps, sched>>

-----------------------------------------------------------------------------
(***************************************************************************)
(* The keyboard handler.  A key that comes while switch_ter waits is       *)
(* handled after the tick, which has the higher priority.                  *)
(***************************************************************************)
KeyPressed == kb_enabled /\ ~tick_due

print_char(c) ==
    /\ KeyPressed
    /\ Len(typing[curr_ter]) < BUF_SIZE - 1
    /\ typing' = [typing EXCEPT ![curr_ter] = Append(@, c)]
    /\ Draw(putc(Here, c))
    /\ UNCHANGED <<history, mixed>>

backspace ==
    LET line == typing[curr_ter]
    IN  /\ KeyPressed
        /\ line # <<>>
        /\ typing' = [typing EXCEPT ![curr_ter] = Front(line)]
        /\ mixed' = [mixed EXCEPT ![curr_ter] = @ /\ Len(line) > 1]
        /\ Rub(screen_backspace(Here))
        /\ UNCHANGED history

enter_key ==
    /\ KeyPressed
    /\ history' = [history EXCEPT ![curr_ter] = typing[curr_ter]]
    /\ typing' = [typing EXCEPT ![curr_ter] = <<>>]
    /\ mixed' = [mixed EXCEPT ![curr_ter] = FALSE]
    /\ Draw(putc(Here, NL))

\* The up arrow rubs out the line and writes the last one entered.
recall ==
    LET con == puts(Erase(Here, typing[curr_ter]), history[curr_ter])
    IN  /\ KeyPressed
        /\ typing[curr_ter] # <<>> \/ history[curr_ter] # <<>>
        /\ typing' = [typing EXCEPT ![curr_ter] = history[curr_ter]]
        /\ mixed' = [mixed EXCEPT ![curr_ter] = FALSE]
        /\ IF history[curr_ter] = <<>> THEN Rub(con) ELSE Draw(con)
        /\ UNCHANGED history

\* Ctrl-L: an empty screen with the line being edited.
control_l ==
    /\ KeyPressed
    /\ mixed' = [mixed EXCEPT ![curr_ter] = FALSE]
    /\ Draw(puts(clear, typing[curr_ter]))
    /\ UNCHANGED <<typing, history>>

\* The page that is mapped goes to the page of old, and that of new takes its place.
swap_vid_mem(old, new) ==
    LET stored == [mem EXCEPT ![old] = mem[page]]
    IN  mem' = [stored EXCEPT ![page] = stored[new]]

change_vidmem(p) == page' = p /\ user_page' = p

\* Mutant: without the wait another key may come before the next tick.
switch_ter_NoWait(new) ==
    /\ KeyPressed
    /\ new # curr_ter
    /\ swap_vid_mem(curr_ter, new)
    /\ change_vidmem(curr_ter)
    /\ curr_ter' = new
    /\ vga_cursor' = Offset(saved[new].x, saved[new].y)
    /\ UNCHANGED <<curr_process, on_screen, kb_enabled, started, screen, saved, vidmapped,
                   tick_due, lines>>

\* Alt-Fn.  The wait with interrupts disabled is longer than the period of the timer.
switch_ter(new) ==
    /\ KeyPressed
    /\ new # curr_ter
    /\ swap_vid_mem(curr_ter, new)
    /\ change_vidmem(curr_ter)
    /\ curr_ter' = new
    /\ tick_due' = TRUE
    /\ vga_cursor' = Offset(saved[new].x, saved[new].y)
    /\ UNCHANGED <<curr_process, on_screen, kb_enabled, started, screen, saved, vidmapped,
                   lines>>

-----------------------------------------------------------------------------
\* The timer: the next terminal runs, with its page and its cursor.  A terminal that
\* runs for the first time starts at the origin.
Tick ==
    LET next == (curr_process + 1) % NUM_TERMINALS
        shown == next = curr_ter
    IN  /\ curr_process' = next
        /\ on_screen' = (IF shown THEN 1 ELSE 0)
        /\ kb_enabled' = shown
        /\ change_vidmem(IF shown THEN MAIN_VID ELSE next)
        /\ saved' = IF next \in started THEN saved ELSE [saved EXCEPT ![next] = Origin]
        /\ screen' = saved'[next]
        /\ started' = started \cup {next}
        /\ tick_due' = FALSE
        /\ UNCHANGED <<mem, vga_cursor, curr_ter, vidmapped, lines>>

\* The program that runs writes a character, or the kernel on its behalf.
terminal_write(c) ==
    /\ ~tick_due
    /\ Draw(putc(Here, c))
    /\ mixed' = [mixed EXCEPT ![curr_process] = typing[curr_process] # <<>>]
    /\ UNCHANGED <<typing, history>>

\* get_vidmem maps the page that is displayed.
sys_vidmap ==
    /\ ~tick_due
    /\ VidmapHidden \/ curr_process = curr_ter
    /\ user_page' = MAIN_VID
    /\ vidmapped' = TRUE
    /\ UNCHANGED <<mem, screen, saved, vga_cursor, page, sched, lines>>

\* A program stores a character at the address that vidmap returns.  Once one program
\* has called it, the entry is present for all.
StorePixel(i, c) ==
    /\ ~tick_due
    /\ vidmapped
    /\ mem' = [mem EXCEPT ![user_page][i] = c]
    /\ mixed' = [mixed EXCEPT ![curr_process] = typing[curr_process] # <<>>]
    /\ UNCHANGED <<screen, saved, vga_cursor, maps, sched, typing, history>>

Key ==
    \/ \E c \in Chars : print_char(c)
    \/ backspace \/ enter_key \/ recall \/ control_l
    \/ \E new \in Terminals : switch_ter(new)

Next ==
    \/ Key
    \/ Tick
    \/ \E c \in Output : terminal_write(c)
    \/ sys_vidmap
    \/ \E i \in Cells, c \in Pixels : StorePixel(i, c)

Spec == Init /\ [][Next]_vars

-----------------------------------------------------------------------------
Cursors == [x : 0 .. NUM_COLS, y : 0 .. NUM_ROWS - 1]

\* The types of the variables.
TypeOK ==
    /\ mem \in [Pages -> [Cells -> Glyphs]]
    /\ page \in Pages /\ user_page \in Pages
    /\ screen \in Cursors /\ saved \in [Terminals -> Cursors]
    /\ vga_cursor \in 0 .. NUM_ROWS * NUM_COLS
    /\ on_screen \in {0, 1} /\ kb_enabled \in BOOLEAN /\ tick_due \in BOOLEAN
    /\ curr_ter \in Terminals /\ curr_process \in started
    /\ started \subseteq Terminals /\ vidmapped \in BOOLEAN
    /\ typing \in [Terminals -> Lines] /\ history \in [Terminals -> Lines]
    /\ mixed \in [Terminals -> BOOLEAN]

\* The screen of a terminal is the page displayed or its page in the background.
ScreenOf(t) == mem[IF t = curr_ter THEN MAIN_VID ELSE t]

Abstract == INSTANCE Screens WITH
    KeyLines <- Lines,
    line <- typing,
    console <- [t \in Terminals |-> [vid |-> ScreenOf(t), x |-> saved[t].x, y |-> saved[t].y]],
    shown <- curr_ter,
    running <- curr_process

\* Whatever Alt-Fn, ticks and output do, the terminals have separate screens: what a
\* program writes appears on the screen of its terminal only, whether that is shown
\* or not, and what is typed on the screen that is shown.
ImplementsScreens == Abstract!Spec

\* The blinking cursor is where the next character of the terminal that is shown will
\* appear, and the running terminal goes on where it was interrupted.
CursorFollows ==
    /\ vga_cursor = Offset(saved[curr_ter].x, saved[curr_ter].y)
    /\ screen = saved[curr_process]

\* Unless a program has written into it, the line being edited stands on the screen
\* directly before the cursor, on several rows or after scrolling, however it was
\* typed, rubbed out, recalled or redrawn and whatever other terminals did meanwhile.
LineOnScreen ==
    \A t \in Terminals :
        LET line == typing[t]
            start == Offset(saved[t].x, saved[t].y) - Len(line)
        IN  mixed[t] \/ \A k \in DOMAIN line :
                          start + k - 1 \in Cells /\ ScreenOf(t)[start + k - 1] = line[k]
=============================================================================
