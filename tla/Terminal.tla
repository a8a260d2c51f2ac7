------------------------------ MODULE Terminal ------------------------------
(***************************************************************************)
(* The line discipline: the keyboard handler edits the line of the         *)
(* terminal that is shown, terminal_read hands completed lines to the      *)
(* process of the terminal that runs. The handler is atomic; terminal_read *)
(* runs with interrupts enabled, so keys and ticks come between its steps. *)
(* What the handler draws on the screen is the subject of module Video.    *)
(***************************************************************************)
EXTENDS Integers

CONSTANTS
    NUM_TERMINALS,
    BUF_SIZE,    \* the size of a line buffer, terminating NUL included
    Chars,       \* the printable characters
    NUL, NL,     \* '\0' and '\n'
    ReadSizes    \* the values of nbytes that programs pass to read

ASSUME TerminalAssumption ==
    /\ NUM_TERMINALS \in Nat \ {0}
    /\ BUF_SIZE \in Nat \ {0}
    /\ NUL \notin Chars /\ NL \notin Chars /\ NUL # NL
    /\ ReadSizes \subseteq Nat \ {0}

Terminals == 0 .. NUM_TERMINALS - 1
Index == 0 .. BUF_SIZE - 1
Buffers == [Index -> Chars \cup {NUL}]
Blank == [i \in Index |-> NUL]

\* The locals of terminal_read.
Texts == UNION {[0 .. n - 1 -> Chars \cup {NUL, NL}] : n \in 0 .. BUF_SIZE}
Readers == [pc : {"idle", "reset", "wait", "copy", "clear", "return"},
            nbytes : 0 .. BUF_SIZE, pos : 0 .. BUF_SIZE, final_buf : Texts]
NoRead == [pc |-> "idle", nbytes |-> 0, pos |-> 0, final_buf |-> [i \in {} |-> NUL]]

VARIABLES
    terminals,     \* the line buffers of each terminal
    curr_ter,      \* the terminal that is shown
    curr_process,  \* the terminal that runs
    kb_enabled,    \* is the keyboard unmasked?
    tick_due,      \* a tick became due while switch_ter was waiting
    reader,        \* reader[t]: the locals of terminal_read on terminal t
    spoiled        \* history: what came between a line and its reader

vars == <<terminals, curr_ter, curr_process, kb_enabled, tick_due, reader, spoiled>>

\* The state after the first tick, which starts the shell of terminal 0.
Init ==
    /\ terminals = [t \in Terminals |->
         [typing |-> Blank, typed |-> Blank, history |-> Blank,
          buf_len |-> 0, written_bytes |-> 0, buffer_updated |-> 0]]
    /\ curr_ter = 0
    /\ curr_process = 0
    /\ kb_enabled = TRUE
    /\ tick_due = FALSE
    /\ spoiled = [t \in Terminals |-> "no"]
    /\ reader = [t \in Terminals |-> NoRead]

strlen(buf) == CHOOSE n \in Index : buf[n] = NUL /\ \A i \in 0 .. n - 1 : buf[i] # NUL

-----------------------------------------------------------------------------
(***************************************************************************)
(* The keyboard handler.  Shift and caps lock only choose the character of *)
(* a key, so a key is the character it produces; Alt with a function key   *)
(* is one event.                                                           *)
(***************************************************************************)

\* A key that comes while switch_ter waits is handled after the tick, which has the
\* higher priority.
KeyPressed == kb_enabled /\ ~tick_due

\* Mutant: the last byte of the buffer is used for a character.
print_char_OffByOne(c) ==
    /\ KeyPressed
    /\ terminals[curr_ter].buf_len < BUF_SIZE
    /\ terminals' = [terminals EXCEPT
         ![curr_ter].typing[terminals[curr_ter].buf_len] = c,
         ![curr_ter].buf_len = @ + 1]
    /\ UNCHANGED <<curr_ter, curr_process, kb_enabled, tick_due, reader, spoiled>>

\* A key that finds the line full is ignored.
print_char(c) ==
    /\ KeyPressed
    /\ terminals[curr_ter].buf_len < BUF_SIZE - 1
    /\ terminals' = [terminals EXCEPT
         ![curr_ter].typing[terminals[curr_ter].buf_len] = c,
         ![curr_ter].buf_len = @ + 1]
    /\ UNCHANGED <<curr_ter, curr_process, kb_enabled, tick_due, reader, spoiled>>

backspace ==
    /\ KeyPressed
    /\ terminals[curr_ter].buf_len > 0
    /\ terminals' = [terminals EXCEPT
         ![curr_ter].typing[terminals[curr_ter].buf_len - 1] = NUL,
         ![curr_ter].buf_len = @ - 1]
    /\ UNCHANGED <<curr_ter, curr_process, kb_enabled, tick_due, reader, spoiled>>

(***************************************************************************)
(* spoiled[t] is "enter" if another line was entered on terminal t while   *)
(* its reader was handing one over, "clear" if the reader of another       *)
(* terminal cleared the line before it was copied; a line entered before   *)
(* the reader has seen the flag simply replaces the one before.            *)
(***************************************************************************)
Entered(t) ==
    spoiled' = [spoiled EXCEPT ![t] =
      IF reader[t].pc \in {"copy", "clear", "return"} THEN "enter" ELSE "no"]

Waiting(t) ==
    \/ reader[t].pc = "wait" /\ terminals[t].buffer_updated = 1
    \/ reader[t].pc = "copy"

Cleared(t) ==
    spoiled' = [spoiled EXCEPT ![t] = IF Waiting(t) /\ @ = "no" THEN "clear" ELSE @]

\* Mutant: the length is not updated.
enter_key_StaleLength ==
    /\ KeyPressed
    /\ LET line == terminals[curr_ter]
       IN  terminals' = [terminals EXCEPT ![curr_ter] =
             [line EXCEPT !.typed = line.typing, !.history = line.typing,
                          !.typing = Blank, !.buf_len = 0,
                          !.written_bytes = 1, !.buffer_updated = 1]]
    /\ Entered(curr_ter)
    /\ UNCHANGED <<curr_ter, curr_process, kb_enabled, tick_due, reader>>

\* The unused part of typing is cleared first; then the line is copied to typed
\* and to history and typing is cleared.
enter_key ==
    /\ KeyPressed
    /\ LET line == terminals[curr_ter]
           text == [i \in Index |-> IF i < line.buf_len THEN line.typing[i] ELSE NUL]
       IN  terminals' = [terminals EXCEPT ![curr_ter] =
             [typing |-> Blank, typed |-> text, history |-> text, buf_len |-> 0,
              written_bytes |-> line.buf_len + 1, buffer_updated |-> 1]]
    /\ Entered(curr_ter)
    /\ UNCHANGED <<curr_ter, curr_process, kb_enabled, tick_due, reader>>

\* The up arrow replaces the line by the last one entered.
recall ==
    /\ KeyPressed
    /\ terminals' = [terminals EXCEPT
         ![curr_ter].typing = terminals[curr_ter].history,
         ![curr_ter].buf_len = strlen(terminals[curr_ter].history)]
    /\ UNCHANGED <<curr_ter, curr_process, kb_enabled, tick_due, reader, spoiled>>

\* Alt-Fn.  The wait with interrupts disabled is longer than the period of the timer.
switch_ter(new) ==
    /\ KeyPressed
    /\ new # curr_ter
    /\ curr_ter' = new
    /\ tick_due' = TRUE
    /\ UNCHANGED <<terminals, curr_process, kb_enabled, reader, spoiled>>

\* The timer: the next terminal runs, and the keyboard is unmasked only if it is
\* the one that is shown.
Tick ==
    LET next == (curr_process + 1) % NUM_TERMINALS
    IN  /\ curr_process' = next
        /\ kb_enabled' = (next = curr_ter)
        /\ tick_due' = FALSE
        /\ UNCHANGED <<terminals, curr_ter, reader, spoiled>>

-----------------------------------------------------------------------------
(***************************************************************************)
(* terminal_read of the process of terminal t, while t runs.               *)
(***************************************************************************)
Running(t) == curr_process = t /\ ~tick_due

ReaderAt(t, label, next) ==
    /\ Running(t)
    /\ reader[t].pc = label
    /\ reader' = [reader EXCEPT ![t].pc = next]
    /\ UNCHANGED <<curr_ter, curr_process, kb_enabled, tick_due>>

\* A read of more than a buffer is cut down to one.
terminal_read(t, nbytes) ==
    LET n == IF nbytes > BUF_SIZE THEN BUF_SIZE ELSE nbytes
    IN  /\ Running(t)
        /\ reader[t].pc = "idle"
        /\ reader' = [reader EXCEPT ![t] =
             [pc |-> "reset", nbytes |-> n, pos |-> 0,
              final_buf |-> [i \in 0 .. n - 1 |-> NUL]]]
        /\ UNCHANGED <<terminals, curr_ter, curr_process, kb_enabled, tick_due, spoiled>>

\* Mutant: the flag of the line before is not lowered.
Reset_KeepsFlag(t) ==
    /\ ReaderAt(t, "reset", "wait")
    /\ UNCHANGED <<terminals, spoiled>>

Reset(t) ==
    /\ ReaderAt(t, "reset", "wait")
    /\ terminals' = [terminals EXCEPT ![t].buffer_updated = 0]
    /\ UNCHANGED spoiled

\* Mutant: the reader waits for a line that is not empty.
Wake_SkipsEmpty(t) ==
    /\ terminals[t].buffer_updated = 1
    /\ terminals[t].typed # Blank
    /\ ReaderAt(t, "wait", "copy")
    /\ UNCHANGED <<terminals, spoiled>>

Wake(t) ==
    /\ terminals[t].buffer_updated = 1
    /\ ReaderAt(t, "wait", "copy")
    /\ UNCHANGED <<terminals, spoiled>>

\* Mutant: no room is made for the newline.
WithNewline_Unterminated(buf, n) ==
    [i \in 0 .. n - 1 |->
       IF buf[i] = NUL /\ \A j \in 0 .. i - 1 : buf[j] # NUL THEN NL ELSE buf[i]]

\* The last byte becomes NUL, and then the first NUL a newline.
WithNewline(buf, n) ==
    LET cut == [buf EXCEPT ![n - 1] = NUL]
    IN  [i \in 0 .. n - 1 |->
           IF cut[i] = NUL /\ \A j \in 0 .. i - 1 : cut[j] # NUL THEN NL ELSE cut[i]]

\* memcpy copies typed up to k; a key or a tick may come before the rest.
Copy(t, k) ==
    LET r == reader[t]
        buf == [i \in 0 .. r.nbytes - 1 |->
                  IF i \in r.pos .. k - 1 THEN terminals[t].typed[i] ELSE r.final_buf[i]]
    IN  /\ Running(t)
        /\ r.pc = "copy"
        /\ k \in r.pos + 1 .. r.nbytes
        /\ reader' = [reader EXCEPT ![t] =
             IF k < r.nbytes THEN [r EXCEPT !.pos = k, !.final_buf = buf]
             ELSE [r EXCEPT !.pc = "clear", !.pos = 0,
                            !.final_buf = WithNewline(buf, r.nbytes)]]
        /\ UNCHANGED <<terminals, curr_ter, curr_process, kb_enabled, tick_due, spoiled>>

\* clear_buffer: the terminal that is shown, which need not be t.
clear_buffer(t) ==
    /\ ReaderAt(t, "clear", "return")
    /\ terminals' = [terminals EXCEPT ![curr_ter].typed = Blank]
    /\ Cleared(curr_ter)

\* The program gets final_buf and the count written_bytes.
ReadReturns(t) ==
    /\ Running(t)
    /\ reader[t].pc = "return"
    /\ reader' = [reader EXCEPT ![t] = NoRead]
    /\ spoiled' = [spoiled EXCEPT ![t] = "no"]
    /\ UNCHANGED <<terminals, curr_ter, curr_process, kb_enabled, tick_due>>

Key ==
    \/ \E c \in Chars : print_char(c)
    \/ backspace
    \/ enter_key
    \/ recall
    \/ \E new \in Terminals : switch_ter(new)

ReaderStep(t) ==
    \/ Reset(t) \/ Wake(t) \/ (\E k \in 1 .. BUF_SIZE : Copy(t, k))
    \/ clear_buffer(t) \/ ReadReturns(t)

Next ==
    \/ Key
    \/ Tick
    \/ \E t \in Terminals :
         (\E nbytes \in ReadSizes : terminal_read(t, nbytes)) \/ ReaderStep(t)

Spec == Init /\ [][Next]_vars

(***************************************************************************)
(* Fairness: the timer ticks for ever, and a process that is in the kernel *)
(* gets through a step of it in one of its time slices.  Nobody is obliged *)
(* to press a key.                                                         *)
(***************************************************************************)
FairSpec ==
    Spec /\ WF_vars(Tick) /\ \A t \in Terminals : SF_vars(ReaderStep(t))

-----------------------------------------------------------------------------
\* buf holds a line of n characters: then only NULs, at least one.
IsLine(buf, n) ==
    /\ n \in Index
    /\ \A i \in Index : buf[i] = NUL <=> i >= n

\* The types of the variables.
TypeOK ==
    /\ terminals \in [Terminals ->
         [typing : Buffers, typed : Buffers, history : Buffers,
          buf_len : Index, written_bytes : 0 .. BUF_SIZE,
          buffer_updated : {0, 1}]]
    /\ curr_ter \in Terminals
    /\ curr_process \in Terminals
    /\ kb_enabled \in BOOLEAN
    /\ tick_due \in BOOLEAN
    /\ spoiled \in [Terminals -> {"no", "enter", "clear"}]
    /\ reader \in [Terminals -> Readers]

\* However keys, Alt-Fn, ticks and reads interleave, the buffers of a terminal
\* fit together: typing holds exactly the buf_len characters of the line being
\* edited, history the last line entered, whose length enter_key left in
\* written_bytes, typed that same line or nothing; every one of them ends with a
\* NUL inside its 128 bytes, on which strlen and terminal_read rely.
LineBuffers ==
    \A t \in Terminals :
        LET line == terminals[t]
        IN  /\ IsLine(line.typing, line.buf_len)
            /\ \E n \in Index :
                 /\ IsLine(line.history, n)
                 /\ line.written_bytes = n + 1 \/ (line.written_bytes = 0 /\ n = 0)
            /\ line.typed \in {Blank, line.history}

\* What terminal_read hands to the program ("buffer must end with newline") has
\* a newline, and before it no NUL, even if keys changed typed during the copy.
NewlineTerminated ==
    \A t \in Terminals :
        reader[t].pc = "return" =>
            \E i \in DOMAIN reader[t].final_buf :
                /\ reader[t].final_buf[i] = NL
                /\ \A j \in 0 .. i - 1 : reader[t].final_buf[j] \in Chars

\* The program gets the line entered last, or as much of it as fits, with a newline.
Delivered(t) ==
    LET n == strlen(terminals[t].history)
        m == IF n < reader[t].nbytes THEN n ELSE reader[t].nbytes - 1
    IN  /\ reader[t].final_buf[m] = NL
        /\ \A i \in 0 .. m - 1 : reader[t].final_buf[i] = terminals[t].history[i]

\* Whatever is typed meanwhile, here and on other terminals, and however ticks and
\* Alt-Fn divide up the memcpy, read gives the program exactly the line entered last on
\* its terminal, never a mixture of two lines, a part of one, or nothing; unless a line
\* is entered on the same terminal before read returns, or clear_buffer of another
\* reader hits the line before it is copied.
LineDelivered ==
    \A t \in Terminals :
        reader[t].pc = "return" /\ spoiled[t] = "no" => Delivered(t)

\* A process that waits in terminal_read for a line that has been entered gets
\* it: nothing takes the notification back.
LineReadCompletes ==
    \A t \in Terminals :
        reader[t].pc = "wait" /\ terminals[t].buffer_updated = 1
            ~> reader[t].pc = "idle"

\* "clear the typed buffer" (terminal_read), of the line that it just copied: no reader
\* takes the line of another terminal away, so that only a second line entered on the
\* same terminal comes between a line and its reader.
OnlyOwnLineCleared ==
    \A t \in Terminals :
        reader[t].pc = "return" /\ spoiled[t] # "enter" => Delivered(t)
=============================================================================
