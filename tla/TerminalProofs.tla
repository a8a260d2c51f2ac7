--------------------------- MODULE TerminalProofs ---------------------------
(***************************************************************************)
(* Proofs about Terminal: the types of the line buffers, their             *)
(* consistency, and what a read hands to the program, for every number of  *)
(* terminals, size of a line and set of characters, whenever keys, Alt-Fn  *)
(* and ticks come.                                                         *)
(***************************************************************************)
EXTENDS Terminal, IterationProofs

Lines == [typing : Buffers, typed : Buffers, history : Buffers,
          buf_len : Index, written_bytes : 0 .. BUF_SIZE,
          buffer_updated : {0, 1}]

\* What LineBuffers says of one terminal.
Consistent(line) ==
    /\ IsLine(line.typing, line.buf_len)
    /\ \E n \in Index :
         /\ IsLine(line.history, n)
         /\ line.written_bytes = n + 1 \/ (line.written_bytes = 0 /\ n = 0)
    /\ line.typed \in {Blank, line.history}

LinesInv ==
    /\ terminals \in [Terminals -> Lines]
    /\ \A t \in Terminals : Consistent(terminals[t])
    /\ curr_ter \in Terminals
    /\ curr_process \in Terminals
    /\ kb_enabled \in BOOLEAN

Terminated(buf) ==
    \E i \in DOMAIN buf : buf[i] = NL /\ \A j \in 0 .. i - 1 : buf[j] \in Chars

\* What a read needs to end with a newline.
Prepared(r) ==
    /\ r.pc \in {"reset", "wait", "copy"} =>
         /\ r.nbytes \in 1 .. BUF_SIZE
         /\ r.pos \in 0 .. r.nbytes - 1
         /\ r.final_buf \in [0 .. r.nbytes - 1 -> Chars \cup {NUL}]
    /\ r.pc \in {"reset", "wait"} => r.pos = 0
    /\ r.pc \in {"clear", "return"} => Terminated(r.final_buf)

ReadersInv ==
    /\ reader \in [Terminals -> Readers]
    /\ \A t \in Terminals : Prepared(reader[t])

HistoryInv ==
    /\ tick_due \in BOOLEAN
    /\ spoiled \in [Terminals -> {"no", "enter", "clear"}]

IInv == LinesInv /\ ReadersInv /\ HistoryInv

-----------------------------------------------------------------------------
(***************************************************************************)
(* Lemmas about lines.                                                     *)
(***************************************************************************)

\* An index is a natural number below the size of a buffer.
LEMMA IndexFacts ==
    ASSUME NEW n \in Index
    PROVE  n \in Nat /\ n < BUF_SIZE /\ 0 \in Index
BY TerminalAssumption DEF Index

\* The blank buffer is a buffer and holds the empty line.
LEMMA BlankLine == Blank \in Buffers /\ IsLine(Blank, 0)
BY TerminalAssumption DEF Blank, Buffers, IsLine, Index

\* strlen, which the up arrow applies to history, finds the length of a line.
LEMMA StrlenOfLine ==
    ASSUME NEW buf, NEW n, IsLine(buf, n)
    PROVE  strlen(buf) = n
<1>1. n \in Index /\ n \in Nat /\ n < BUF_SIZE
  BY IndexFacts DEF IsLine
<1>2. buf[n] = NUL /\ \A i \in 0 .. n - 1 : buf[i] # NUL
  BY <1>1, TerminalAssumption DEF IsLine, Index
<1>3. ASSUME NEW m \in Index, buf[m] = NUL, \A i \in 0 .. m - 1 : buf[i] # NUL
      PROVE  m = n
  <2>1. m >= n
    BY <1>3 DEF IsLine
  <2>2. ~ (n < m)
    BY <1>1, <1>2, <1>3, IndexFacts
  <2>3. QED BY <1>1, <1>3, <2>1, <2>2, IndexFacts
<1>4. QED BY <1>1, <1>2, <1>3 DEF strlen

\* print_char: a character after the last one makes a line that is one longer.
LEMMA LongerLine ==
    ASSUME NEW buf \in Buffers, NEW n \in Index, IsLine(buf, n), n < BUF_SIZE - 1,
           NEW c \in Chars
    PROVE  /\ [buf EXCEPT ![n] = c] \in Buffers
           /\ n + 1 \in Index
           /\ IsLine([buf EXCEPT ![n] = c], n + 1)
BY TerminalAssumption DEF Buffers, IsLine, Index

\* backspace: without its last character the line is one shorter.
LEMMA ShorterLine ==
    ASSUME NEW buf \in Buffers, NEW n \in Index, IsLine(buf, n), n > 0
    PROVE  /\ [buf EXCEPT ![n - 1] = NUL] \in Buffers
           /\ n - 1 \in Index
           /\ IsLine([buf EXCEPT ![n - 1] = NUL], n - 1)
BY TerminalAssumption DEF Buffers, IsLine, Index

\* enter_key: clearing the unused part of a line does not change the line.
LEMMA ClearedTail ==
    ASSUME NEW buf \in Buffers, NEW n \in Index, IsLine(buf, n)
    PROVE  LET text == [i \in Index |-> IF i < n THEN buf[i] ELSE NUL]
           IN  text \in Buffers /\ IsLine(text, n)
BY TerminalAssumption DEF Buffers, IsLine, Index

-----------------------------------------------------------------------------
(***************************************************************************)
(* One terminal changes, and the others keep their lines.                  *)
(***************************************************************************)

\* A step that gives one terminal a consistent line keeps all lines consistent.
LEMMA Frame ==
    ASSUME terminals \in [Terminals -> Lines],
           \A t \in Terminals : Consistent(terminals[t]),
           NEW c \in Terminals, NEW new \in Lines, Consistent(new),
           terminals' = [terminals EXCEPT ![c] = new]
    PROVE  /\ terminals' \in [Terminals -> Lines]
           /\ \A t \in Terminals : Consistent(terminals'[t])
<1>1. terminals' \in [Terminals -> Lines]
  OBVIOUS
<1>2. ASSUME NEW t \in Terminals
      PROVE  terminals'[t] = IF t = c THEN new ELSE terminals[t]
  OBVIOUS
<1>3. ASSUME NEW t \in Terminals PROVE Consistent(terminals'[t])
  BY <1>2
<1>4. QED BY <1>1, <1>3

\* The parts of a line of text.
LEMMA LineFields ==
    ASSUME NEW line \in Lines
    PROVE  /\ line.typing \in Buffers
           /\ line.typed \in Buffers
           /\ line.history \in Buffers
           /\ line.buf_len \in Index
           /\ line.written_bytes \in 0 .. BUF_SIZE
           /\ line.buffer_updated \in {0, 1}
BY DEF Lines

\* Editing the line changes typing and buf_len only.
LEMMA Edited ==
    ASSUME NEW line \in Lines, Consistent(line),
           NEW buf \in Buffers, NEW n \in Index, IsLine(buf, n)
    PROVE  LET new == [line EXCEPT !.typing = buf, !.buf_len = n]
           IN  new \in Lines /\ Consistent(new)
<1> DEFINE new == [line EXCEPT !.typing = buf, !.buf_len = n]
<1>1. new \in Lines
  BY DEF Lines
<1>2. /\ new.typing = buf /\ new.buf_len = n
      /\ new.history = line.history /\ new.typed = line.typed
      /\ new.written_bytes = line.written_bytes
  BY DEF Lines
<1> HIDE DEF new
<1>3. Consistent(new)
  BY <1>2 DEF Consistent
<1>4. QED BY <1>1, <1>3 DEF new

-----------------------------------------------------------------------------
(***************************************************************************)
(* One lemma for each operation that changes a line.                       *)
(***************************************************************************)

\* A key adds a character to the line being edited.
LEMMA PrintCharKeeps ==
    ASSUME LinesInv, NEW c \in Chars, print_char(c)
    PROVE  LinesInv'
<1> DEFINE line == terminals[curr_ter]
           buf == [line.typing EXCEPT ![line.buf_len] = c]
           new == [line EXCEPT !.typing = buf, !.buf_len = line.buf_len + 1]
<1>1. line \in Lines /\ Consistent(line) /\ curr_ter \in Terminals
  BY DEF LinesInv
<1>2. buf \in Buffers /\ line.buf_len + 1 \in Index /\ IsLine(buf, line.buf_len + 1)
  BY <1>1, LineFields, LongerLine DEF print_char, Consistent
<1>3. new \in Lines /\ Consistent(new)
  BY <1>1, <1>2, Edited
<1>4. terminals' = [terminals EXCEPT ![curr_ter] = new]
  BY <1>1 DEF LinesInv, print_char, Lines
<1> HIDE DEF new
<1>5. QED BY <1>1, <1>3, <1>4, Frame DEF LinesInv, print_char

\* backspace takes the last character of it away.
LEMMA BackspaceKeeps ==
    ASSUME LinesInv, backspace
    PROVE  LinesInv'
<1> DEFINE line == terminals[curr_ter]
           buf == [line.typing EXCEPT ![line.buf_len - 1] = NUL]
           new == [line EXCEPT !.typing = buf, !.buf_len = line.buf_len - 1]
<1>1. line \in Lines /\ Consistent(line) /\ curr_ter \in Terminals
  BY DEF LinesInv
<1>2. buf \in Buffers /\ line.buf_len - 1 \in Index /\ IsLine(buf, line.buf_len - 1)
  BY <1>1, LineFields, ShorterLine DEF backspace, Consistent
<1>3. new \in Lines /\ Consistent(new)
  BY <1>1, <1>2, Edited
<1>4. terminals' = [terminals EXCEPT ![curr_ter] = new]
  BY <1>1 DEF LinesInv, backspace, Lines
<1> HIDE DEF new
<1>5. QED BY <1>1, <1>3, <1>4, Frame DEF LinesInv, backspace

\* The up arrow replaces it by the line in history, whose length strlen finds.
LEMMA RecallKeeps ==
    ASSUME LinesInv, recall
    PROVE  LinesInv'
<1> DEFINE line == terminals[curr_ter]
           new == [line EXCEPT !.typing = line.history, !.buf_len = strlen(line.history)]
<1>1. line \in Lines /\ Consistent(line) /\ curr_ter \in Terminals
  BY DEF LinesInv
<1>2. PICK n \in Index : IsLine(line.history, n)
  BY <1>1 DEF Consistent
<1>3. strlen(line.history) = n
  BY <1>2, StrlenOfLine
<1>4. new \in Lines /\ Consistent(new)
  BY <1>1, <1>2, <1>3, LineFields, Edited
<1>5. terminals' = [terminals EXCEPT ![curr_ter] = new]
  BY <1>1 DEF LinesInv, recall, Lines
<1> HIDE DEF new
<1>6. QED BY <1>1, <1>4, <1>5, Frame DEF LinesInv, recall

\* enter_key moves the line to typed and history and starts an empty one.
LEMMA EnterKeyKeeps ==
    ASSUME LinesInv, enter_key
    PROVE  LinesInv'
<1> DEFINE line == terminals[curr_ter]
           text == [i \in Index |-> IF i < line.buf_len THEN line.typing[i] ELSE NUL]
           new == [typing |-> Blank, typed |-> text, history |-> text, buf_len |-> 0,
                   written_bytes |-> line.buf_len + 1, buffer_updated |-> 1]
<1>1. line \in Lines /\ Consistent(line) /\ curr_ter \in Terminals
  BY DEF LinesInv
<1>2. text \in Buffers /\ IsLine(text, line.buf_len)
  BY <1>1, LineFields, ClearedTail DEF Consistent
<1>3. terminals' = [terminals EXCEPT ![curr_ter] = new]
  BY DEF enter_key
<1> HIDE DEF text
<1>4. line.buf_len + 1 \in 0 .. BUF_SIZE /\ 0 \in Index /\ line.buf_len \in Index
  BY <1>1, LineFields, IndexFacts, TerminalAssumption
<1>5. new \in Lines
  BY <1>2, <1>4, BlankLine DEF Lines
<1>6. Consistent(new)
  BY <1>2, <1>4, BlankLine DEF Consistent
<1> HIDE DEF new
<1>7. QED BY <1>1, <1>3, <1>5, <1>6, Frame DEF LinesInv, enter_key

\* terminal_read lowers the flag of its terminal.
LEMMA ResetKeeps ==
    ASSUME LinesInv, NEW t \in Terminals, Reset(t)
    PROVE  LinesInv'
<1> DEFINE line == terminals[t]
           new == [line EXCEPT !.buffer_updated = 0]
<1>1. line \in Lines /\ Consistent(line)
  BY DEF LinesInv
<1>2. new \in Lines
  BY <1>1 DEF Lines
<1>3. Consistent(new)
  <2>1. /\ new.typing = line.typing /\ new.buf_len = line.buf_len
        /\ new.history = line.history /\ new.typed = line.typed
        /\ new.written_bytes = line.written_bytes
    BY <1>1 DEF Lines
  <2> HIDE DEF new
  <2>2. QED BY <1>1, <2>1 DEF Consistent
<1>4. terminals' = [terminals EXCEPT ![t] = new]
  BY DEF Reset
<1> HIDE DEF new
<1>5. QED BY <1>2, <1>3, <1>4, Frame DEF LinesInv, Reset, ReaderAt

\* clear_buffer blanks the typed line of the terminal that is shown.
LEMMA ClearBufferKeeps ==
    ASSUME LinesInv, NEW t \in Terminals, clear_buffer(t)
    PROVE  LinesInv'
<1> DEFINE line == terminals[curr_ter]
           new == [line EXCEPT !.typed = Blank]
<1>1. line \in Lines /\ Consistent(line) /\ curr_ter \in Terminals
  BY DEF LinesInv
<1>2. new \in Lines
  BY <1>1, BlankLine DEF Lines
<1>3. Consistent(new)
  <2>1. /\ new.typing = line.typing /\ new.buf_len = line.buf_len
        /\ new.history = line.history /\ new.typed = Blank
        /\ new.written_bytes = line.written_bytes
    BY <1>1 DEF Lines
  <2> HIDE DEF new
  <2>2. QED BY <1>1, <2>1 DEF Consistent
<1>4. terminals' = [terminals EXCEPT ![curr_ter] = new]
  BY DEF clear_buffer
<1> HIDE DEF new
<1>5. QED
  BY <1>1, <1>2, <1>3, <1>4, Frame DEF LinesInv, clear_buffer, ReaderAt

-----------------------------------------------------------------------------
\* All buffers are blank at first.
LEMMA InitLines == Init => LinesInv
<1> SUFFICES ASSUME Init PROVE LinesInv
  OBVIOUS
<1> DEFINE new == [typing |-> Blank, typed |-> Blank, history |-> Blank,
                   buf_len |-> 0, written_bytes |-> 0, buffer_updated |-> 0]
<1>1. 0 \in Index /\ 0 \in 0 .. BUF_SIZE /\ 0 \in Terminals
  BY TerminalAssumption DEF Index, Terminals
<1>2. new \in Lines
  BY <1>1, BlankLine DEF Lines
<1>3. Consistent(new)
  BY <1>1, BlankLine DEF Consistent
<1>4. terminals = [t \in Terminals |-> new]
  BY DEF Init
<1> HIDE DEF new
<1>5. terminals \in [Terminals -> Lines] /\ \A t \in Terminals : Consistent(terminals[t])
  BY <1>2, <1>3, <1>4
<1>6. QED BY <1>1, <1>5 DEF Init, LinesInv

\* The other steps of terminal_read, Alt-Fn and the timer leave the lines alone.
LEMMA SameLines ==
    ASSUME LinesInv, terminals' = terminals, curr_ter' \in Terminals,
           curr_process' \in Terminals, kb_enabled' \in BOOLEAN
    PROVE  LinesInv'
BY DEF LinesInv

\* Every step keeps the invariant.
LEMMA NextLines == LinesInv /\ [Next]_vars => LinesInv'
<1> SUFFICES ASSUME LinesInv, [Next]_vars PROVE LinesInv'
  OBVIOUS
<1>0. curr_ter \in Terminals /\ curr_process \in Terminals /\ kb_enabled \in BOOLEAN
  BY DEF LinesInv
<1>1. ASSUME NEW c \in Chars, print_char(c) PROVE LinesInv'
  BY <1>1, PrintCharKeeps
<1>2. CASE backspace
  BY <1>2, BackspaceKeeps
<1>3. CASE enter_key
  BY <1>3, EnterKeyKeeps
<1>4. CASE recall
  BY <1>4, RecallKeeps
<1>5. ASSUME NEW new \in Terminals, switch_ter(new) PROVE LinesInv'
  BY <1>0, <1>5, SameLines DEF switch_ter
<1>6. CASE Tick
  <2>1. (curr_process + 1) % NUM_TERMINALS \in Terminals
    BY <1>0, TerminalAssumption DEF Terminals
  <2>2. (curr_process' = curr_ter) \in BOOLEAN
    OBVIOUS
  <2>3. QED BY <1>0, <1>6, <2>1, <2>2, SameLines DEF Tick
<1>7. ASSUME NEW t \in Terminals, NEW nbytes \in ReadSizes, terminal_read(t, nbytes)
      PROVE  LinesInv'
  BY <1>0, <1>7, SameLines DEF terminal_read
<1>8. ASSUME NEW t \in Terminals, ReaderStep(t) PROVE LinesInv'
  <2>1. CASE Reset(t)
    BY <2>1, ResetKeeps
  <2>2. CASE Wake(t)
    BY <1>0, <2>2, SameLines DEF Wake, ReaderAt
  <2>3. ASSUME NEW k \in 1 .. BUF_SIZE, Copy(t, k) PROVE LinesInv'
    BY <1>0, <2>3, SameLines DEF Copy
  <2>4. CASE clear_buffer(t)
    BY <2>4, ClearBufferKeeps
  <2>5. CASE ReadReturns(t)
    BY <1>0, <2>5, SameLines DEF ReadReturns
  <2>6. QED BY <1>8, <2>1, <2>2, <2>3, <2>4, <2>5 DEF ReaderStep
<1>9. CASE UNCHANGED vars
  BY <1>0, <1>9, SameLines DEF vars
<1>10. QED
  BY <1>1, <1>2, <1>3, <1>4, <1>5, <1>6, <1>7, <1>8, <1>9 DEF Next, Key

-----------------------------------------------------------------------------
(***************************************************************************)
(* terminal_read.                                                          *)
(***************************************************************************)

\* The NUL that terminal_read writes into the last byte makes sure that there is a
\* first NUL to become the newline.
LEMMA NewlineWritten ==
    ASSUME NEW n \in Nat \ {0}, NEW buf \in [0 .. n - 1 -> Chars \cup {NUL}]
    PROVE  /\ WithNewline(buf, n) \in [0 .. n - 1 -> Chars \cup {NUL, NL}]
           /\ Terminated(WithNewline(buf, n))
<1> DEFINE cut == [buf EXCEPT ![n - 1] = NUL]
           end == WithNewline(buf, n)
           nuls == {i \in 0 .. n - 1 : cut[i] = NUL}
<1>1. cut \in [0 .. n - 1 -> Chars \cup {NUL}] /\ cut[n - 1] = NUL
  OBVIOUS
<1>2. end = [i \in 0 .. n - 1 |->
               IF cut[i] = NUL /\ \A j \in 0 .. i - 1 : cut[j] # NUL THEN NL ELSE cut[i]]
  BY DEF WithNewline
<1> HIDE DEF cut, end
<1>3. end \in [0 .. n - 1 -> Chars \cup {NUL, NL}]
  BY <1>1, <1>2
<1>4. PICK m \in nuls : \A i \in nuls : m <= i
  <2>1. nuls \subseteq Nat /\ n - 1 \in nuls
    BY <1>1
  <2>2. QED BY <2>1, Least
<1>5. m \in 0 .. n - 1 /\ cut[m] = NUL
  OBVIOUS
<1>6. ASSUME NEW j \in 0 .. m - 1
      PROVE  j \in 0 .. n - 1 /\ cut[j] \in Chars
  BY <1>1, <1>4, <1>5
<1>7. \A j \in 0 .. m - 1 : cut[j] # NUL
  BY <1>6, TerminalAssumption
<1>8. end[m] = NL
  BY <1>2, <1>5, <1>7
<1>9. ASSUME NEW j \in 0 .. m - 1 PROVE end[j] \in Chars
  BY <1>2, <1>6, <1>7
<1>10. Terminated(end)
  BY <1>2, <1>5, <1>8, <1>9 DEF Terminated
<1>11. QED BY <1>3, <1>10 DEF end

\* A step of one reader leaves the others where they are.
LEMMA ReaderFrame ==
    ASSUME ReadersInv, NEW t \in Terminals, NEW new \in Readers, Prepared(new),
           reader' = [reader EXCEPT ![t] = new]
    PROVE  ReadersInv'
<1>1. reader' \in [Terminals -> Readers]
  BY DEF ReadersInv
<1>2. ASSUME NEW u \in Terminals
      PROVE  reader'[u] = IF u = t THEN new ELSE reader[u]
  BY DEF ReadersInv
<1>3. ASSUME NEW u \in Terminals PROVE Prepared(reader'[u])
  BY <1>2 DEF ReadersInv
<1>4. QED BY <1>1, <1>3 DEF ReadersInv

\* A buffer of the right size is one that a reader may hold.
LEMMA IsText ==
    ASSUME NEW n \in 0 .. BUF_SIZE, NEW f \in [0 .. n - 1 -> Chars \cup {NUL, NL}]
    PROVE  f \in Texts
BY DEF Texts

\* A reader that only moves to another label stays prepared if the label asks for
\* nothing new.
LEMMA MoveKeeps ==
    ASSUME ReadersInv, NEW t \in Terminals, NEW label, NEW next, ReaderAt(t, label, next),
           \/ label = "reset" /\ next = "wait"
           \/ label = "wait" /\ next = "copy"
           \/ label = "clear" /\ next = "return"
    PROVE  ReadersInv'
<1> DEFINE new == [reader[t] EXCEPT !.pc = next]
<1>1. reader[t] \in Readers /\ Prepared(reader[t]) /\ reader[t].pc = label
  BY DEF ReadersInv, ReaderAt
<1>2. new \in Readers
  BY <1>1 DEF Readers
<1>3. /\ new.pc = next /\ new.nbytes = reader[t].nbytes
      /\ new.pos = reader[t].pos /\ new.final_buf = reader[t].final_buf
  BY <1>1 DEF Readers
<1>4. reader' = [reader EXCEPT ![t] = new]
  BY DEF ReaderAt
<1> HIDE DEF new
<1>5. Prepared(new)
  BY <1>1, <1>3 DEF Prepared
<1>6. QED BY <1>2, <1>4, <1>5, ReaderFrame

\* A read starts with a buffer of at least one and at most BUF_SIZE bytes.
LEMMA StartKeeps ==
    ASSUME ReadersInv, NEW t \in Terminals, NEW nbytes \in ReadSizes,
           terminal_read(t, nbytes)
    PROVE  ReadersInv'
<1> DEFINE n == IF nbytes > BUF_SIZE THEN BUF_SIZE ELSE nbytes
           buf == [i \in 0 .. n - 1 |-> NUL]
           new == [pc |-> "reset", nbytes |-> n, pos |-> 0, final_buf |-> buf]
<1>1. n \in 1 .. BUF_SIZE /\ n \in 0 .. BUF_SIZE /\ 0 \in 0 .. n - 1 /\ 0 \in 0 .. BUF_SIZE
  BY TerminalAssumption
<1>2. reader' = [reader EXCEPT ![t] = new]
  BY DEF terminal_read
<1> HIDE DEF n
<1>3. /\ buf \in [0 .. n - 1 -> Chars \cup {NUL}]
      /\ buf \in [0 .. n - 1 -> Chars \cup {NUL, NL}]
  OBVIOUS
<1> HIDE DEF buf
<1>4. buf \in Texts
  BY <1>1, <1>3, IsText
<1>5. new \in Readers
  BY <1>1, <1>4 DEF Readers
<1>6. Prepared(new)
  BY <1>1, <1>3 DEF Prepared
<1> HIDE DEF new
<1>7. QED BY <1>2, <1>5, <1>6, ReaderFrame

\* memcpy fills the buffer with characters and NULs, whatever the keyboard does
\* to typed meanwhile; its last part is followed by the newline.
LEMMA CopyKeeps ==
    ASSUME LinesInv, ReadersInv, NEW t \in Terminals, NEW k \in 1 .. BUF_SIZE, Copy(t, k)
    PROVE  ReadersInv'
<1> DEFINE r == reader[t]
           n == r.nbytes
           buf == [i \in 0 .. n - 1 |->
                     IF i \in r.pos .. k - 1 THEN terminals[t].typed[i] ELSE r.final_buf[i]]
           more == [r EXCEPT !.pos = k, !.final_buf = buf]
           line == WithNewline(buf, n)
           done == [r EXCEPT !.pc = "clear", !.pos = 0, !.final_buf = line]
<1>1. /\ r \in Readers /\ Prepared(r) /\ r.pc = "copy"
      /\ terminals[t].typed \in Buffers
      /\ k \in r.pos + 1 .. n
  BY LineFields DEF ReadersInv, LinesInv, Copy
<1>2. /\ n \in 1 .. BUF_SIZE /\ n \in 0 .. BUF_SIZE
      /\ r.pos \in 0 .. n - 1
      /\ r.final_buf \in [0 .. n - 1 -> Chars \cup {NUL}]
  BY <1>1 DEF Prepared
<1>3. reader' = [reader EXCEPT ![t] = IF k < n THEN more ELSE done]
  BY DEF Copy
<1>4. buf \in [0 .. n - 1 -> Chars \cup {NUL}]
  <2>1. ASSUME NEW i \in 0 .. n - 1 PROVE i \in Index
    BY <1>2, TerminalAssumption DEF Index
  <2>2. ASSUME NEW i \in 0 .. n - 1
        PROVE  terminals[t].typed[i] \in Chars \cup {NUL}
    BY <1>1, <2>1 DEF Buffers
  <2>3. ASSUME NEW i \in 0 .. n - 1
        PROVE  r.final_buf[i] \in Chars \cup {NUL}
    BY <1>2
  <2>4. QED BY <2>2, <2>3
<1> HIDE DEF buf
<1>5. line \in [0 .. n - 1 -> Chars \cup {NUL, NL}] /\ Terminated(line)
  <2>1. n \in Nat \ {0}
    BY <1>2, TerminalAssumption
  <2> HIDE DEF n
  <2>2. QED BY <1>4, <2>1, NewlineWritten
<1> HIDE DEF line
<1>6. buf \in [0 .. n - 1 -> Chars \cup {NUL, NL}]
  BY <1>4
<1>7. buf \in Texts /\ line \in Texts
  BY <1>2, <1>5, <1>6, IsText
<1>8. CASE k < n
  <2>1. k \in 0 .. BUF_SIZE /\ k \in 0 .. n - 1
    BY <1>2, <1>8
  <2>2. more \in Readers
    BY <1>1, <1>7, <2>1 DEF Readers
  <2>3. /\ more.pc = "copy" /\ more.nbytes = n
        /\ more.pos = k /\ more.final_buf = buf
    BY <1>1 DEF Readers
  <2> HIDE DEF more
  <2>4. Prepared(more)
    BY <1>2, <1>4, <2>1, <2>3 DEF Prepared
  <2>5. QED BY <1>3, <1>8, <2>2, <2>4, ReaderFrame
<1>9. CASE ~ (k < n)
  <2>1. done \in Readers
    <3>1. 0 \in 0 .. BUF_SIZE
      BY TerminalAssumption
    <3>2. QED BY <1>1, <1>7, <3>1 DEF Readers
  <2>2. done.pc = "clear" /\ done.final_buf = line
    BY <1>1 DEF Readers
  <2> HIDE DEF done
  <2>3. Prepared(done)
    BY <1>5, <2>2 DEF Prepared
  <2>4. QED BY <1>3, <1>9, <2>1, <2>3, ReaderFrame
<1>10. QED BY <1>8, <1>9

\* Nobody reads: before the first read, and after each.
LEMMA NoReadPrepared == NoRead \in Readers /\ Prepared(NoRead)
<1> DEFINE none == [i \in {} |-> NUL]
<1>1. 0 \in 0 .. BUF_SIZE /\ 0 .. 0 - 1 = {}
  BY TerminalAssumption
<1>2. none \in [0 .. 0 - 1 -> Chars \cup {NUL, NL}]
  BY <1>1
<1>3. NoRead = [pc |-> "idle", nbytes |-> 0, pos |-> 0, final_buf |-> none]
  BY DEF NoRead
<1> HIDE DEF none
<1>4. none \in Texts
  BY <1>1, <1>2, IsText
<1>5. QED BY <1>1, <1>3, <1>4 DEF Readers, Prepared

\* When read returns its locals are gone.
LEMMA ReturnKeeps ==
    ASSUME ReadersInv, NEW t \in Terminals, ReadReturns(t)
    PROVE  ReadersInv'
BY NoReadPrepared, ReaderFrame DEF ReadReturns

\* At first nobody reads.
LEMMA InitReaders == Init => ReadersInv
<1> SUFFICES ASSUME Init PROVE ReadersInv
  OBVIOUS
<1>1. reader = [t \in Terminals |-> NoRead]
  BY DEF Init
<1>2. QED BY <1>1, NoReadPrepared DEF ReadersInv

\* Every step keeps the readers prepared.
LEMMA NextReaders == LinesInv /\ ReadersInv /\ [Next]_vars => ReadersInv'
<1> SUFFICES ASSUME LinesInv, ReadersInv, [Next]_vars PROVE ReadersInv'
  OBVIOUS
<1>1. ASSUME reader' = reader PROVE ReadersInv'
  BY <1>1 DEF ReadersInv
<1>2. CASE Key
  BY <1>1, <1>2 DEF Key, print_char, backspace, enter_key, recall, switch_ter
<1>3. CASE Tick
  BY <1>1, <1>3 DEF Tick
<1>4. ASSUME NEW t \in Terminals, NEW nbytes \in ReadSizes, terminal_read(t, nbytes)
      PROVE  ReadersInv'
  BY <1>4, StartKeeps
<1>5. ASSUME NEW t \in Terminals, ReaderStep(t) PROVE ReadersInv'
  <2>1. CASE Reset(t)
    BY <2>1, MoveKeeps DEF Reset
  <2>2. CASE Wake(t)
    BY <2>2, MoveKeeps DEF Wake
  <2>3. ASSUME NEW k \in 1 .. BUF_SIZE, Copy(t, k) PROVE ReadersInv'
    BY <2>3, CopyKeeps
  <2>4. CASE clear_buffer(t)
    BY <2>4, MoveKeeps DEF clear_buffer
  <2>5. CASE ReadReturns(t)
    BY <2>5, ReturnKeeps
  <2>6. QED BY <1>5, <2>1, <2>2, <2>3, <2>4, <2>5 DEF ReaderStep
<1>6. CASE UNCHANGED vars
  BY <1>1, <1>6 DEF vars
<1>7. QED BY <1>2, <1>3, <1>4, <1>5, <1>6 DEF Next

\* The tick that switch_ter leaves due, and the history of the lines, keep their types.
LEMMA NextHistory == HistoryInv /\ [Next]_vars => HistoryInv'
<1> SUFFICES ASSUME HistoryInv, [Next]_vars PROVE HistoryInv'
  OBVIOUS
<1>1. ASSUME spoiled' = spoiled, tick_due' \in BOOLEAN PROVE HistoryInv'
  BY <1>1 DEF HistoryInv
<1>2. ASSUME NEW t, NEW v \in {"no", "enter", "clear"}, tick_due' = tick_due,
             spoiled' = [spoiled EXCEPT ![t] = v]
      PROVE  HistoryInv'
  BY <1>2 DEF HistoryInv
<1>3. CASE enter_key
  BY <1>2, <1>3 DEF enter_key, Entered
<1>4. ASSUME NEW t \in Terminals, clear_buffer(t) PROVE HistoryInv'
  <2>1. PICK v : v = IF Waiting(curr_ter) /\ spoiled[curr_ter] = "no" THEN "clear"
                     ELSE spoiled[curr_ter]
    OBVIOUS
  <2>2. spoiled' = [spoiled EXCEPT ![curr_ter] = v] /\ tick_due' = tick_due
    BY <1>4, <2>1 DEF clear_buffer, Cleared, ReaderAt
  <2>3. CASE curr_ter \in Terminals
    BY <1>2, <2>1, <2>2, <2>3 DEF HistoryInv
  <2>4. CASE curr_ter \notin Terminals
    BY <2>2, <2>4 DEF HistoryInv
  <2> QED
    BY <2>3, <2>4
<1>5. ASSUME NEW t \in Terminals, ReadReturns(t) PROVE HistoryInv'
  BY <1>2, <1>5 DEF ReadReturns
<1>6. CASE Key /\ ~ enter_key
  BY <1>1, <1>6 DEF HistoryInv, Key, print_char, backspace, recall, switch_ter
<1>7. CASE Tick
  BY <1>1, <1>7 DEF Tick
<1>8. ASSUME NEW t \in Terminals,
             \/ \E nbytes \in ReadSizes : terminal_read(t, nbytes)
             \/ Reset(t) \/ Wake(t) \/ (\E k \in 1 .. BUF_SIZE : Copy(t, k))
      PROVE  HistoryInv'
  BY <1>1, <1>8 DEF HistoryInv, terminal_read, Reset, Wake, Copy, ReaderAt
<1>9. CASE UNCHANGED vars
  BY <1>1, <1>9 DEF HistoryInv, vars
<1>10. QED BY <1>3, <1>4, <1>5, <1>6, <1>7, <1>8, <1>9 DEF Next, ReaderStep

-----------------------------------------------------------------------------
\* The inductive invariant holds in every state.
LEMMA Invariance == Spec => []IInv
<1>1. Init => IInv
  BY InitLines, InitReaders DEF IInv, HistoryInv, Init
<1>2. IInv /\ [Next]_vars => IInv'
  BY NextLines, NextReaders, NextHistory DEF IInv
<1>3. QED BY <1>1, <1>2, PTL DEF Spec

\* The variables of the line discipline keep their types: in particular no key
\* writes outside a line buffer and no read copies outside its own.
THEOREM Typing == Spec => []TypeOK
<1>1. IInv => TypeOK
  BY DEF IInv, LinesInv, ReadersInv, HistoryInv, TypeOK, Lines
<1>2. QED BY <1>1, Invariance, PTL

\* However keys, Alt-Fn, ticks and reads interleave, the three buffers of every
\* terminal fit together: the length of the edited line, the recalled line and the
\* count that read returns belong to the texts they describe, and every buffer is
\* terminated inside its BUF_SIZE bytes.
THEOREM LinesConsistent == Spec => []LineBuffers
<1>1. IInv => LineBuffers
  BY DEF IInv, LinesInv, LineBuffers, Consistent
<1>2. QED BY <1>1, Invariance, PTL

\* Whatever keys are pressed while terminal_read copies the line, the program gets
\* characters up to a newline.
THEOREM ReadsEndInNewline == Spec => []NewlineTerminated
<1>1. IInv => NewlineTerminated
  BY DEF IInv, ReadersInv, Prepared, Terminated, NewlineTerminated
<1>2. QED BY <1>1, Invariance, PTL

-----------------------------------------------------------------------------
(***************************************************************************)
(* What a read hands to the program.                                       *)
(***************************************************************************)

\* The program gets the line h, or as much of it as fits.
Given(h, r) ==
    LET n == strlen(h)
        m == IF n < r.nbytes THEN n ELSE r.nbytes - 1
    IN  r.final_buf[m] = NL /\ \A i \in 0 .. m - 1 : r.final_buf[i] = h[i]

\* How far a read is with the line entered last.
Handed(line, r) ==
    /\ r.pc = "wait" /\ line.buffer_updated = 1 => line.typed = line.history
    /\ r.pc = "copy" => /\ line.typed = line.history
                        /\ \A i \in 0 .. r.pos - 1 : r.final_buf[i] = line.history[i]
    /\ r.pc \in {"clear", "return"} => Given(line.history, r)

\* A read whose line nothing came between has handed over the part it has copied.
HandInv == \A t \in Terminals : spoiled[t] = "no" => Handed(terminals[t], reader[t])

\* Editing the next line does not touch the one that is handed over.
LEMMA SameText ==
    ASSUME NEW line, NEW r, Handed(line, r), NEW new, new.typed = line.typed,
           new.history = line.history, new.buffer_updated = line.buffer_updated
    PROVE  Handed(new, r)
BY DEF Handed

\* A step that concerns one terminal.
LEMMA HandFrame ==
    ASSUME HandInv, NEW t \in Terminals,
           \A s \in Terminals \ {t} : /\ terminals'[s] = terminals[s]
                                      /\ reader'[s] = reader[s] /\ spoiled'[s] = spoiled[s],
           spoiled'[t] = "no" => Handed(terminals'[t], reader'[t])
    PROVE  HandInv'
<1>1. ASSUME NEW s \in Terminals, spoiled'[s] = "no" PROVE Handed(terminals'[s], reader'[s])
  BY <1>1 DEF HandInv
<1> QED
  BY <1>1 DEF HandInv

\* Keys change the text that is handed over only if they enter another line.
LEMMA HandKey ==
    ASSUME IInv, HandInv, Key
    PROVE  HandInv'
<1>1. /\ terminals \in [Terminals -> Lines] /\ curr_ter \in Terminals /\ reader' = reader
      /\ spoiled \in [Terminals -> {"no", "enter", "clear"}]
  BY DEF IInv, LinesInv, HistoryInv, Key, print_char, backspace, enter_key, recall, switch_ter
<1>2. PICK line \in Lines : line = terminals[curr_ter]
  BY <1>1
<1>3. ASSUME NEW new, terminals' = [terminals EXCEPT ![curr_ter] = new], spoiled' = spoiled,
             new.typed = line.typed, new.history = line.history,
             new.buffer_updated = line.buffer_updated
      PROVE  HandInv'
  <2>1. /\ terminals'[curr_ter] = new
        /\ \A s \in Terminals \ {curr_ter} : terminals'[s] = terminals[s]
    BY <1>1, <1>3
  <2>2. spoiled[curr_ter] = "no" => Handed(new, reader[curr_ter])
    BY <1>1, <1>2, <1>3, SameText DEF HandInv
  <2> QED
    BY <1>1, <1>3, <2>1, <2>2, HandFrame
<1>4. ASSUME NEW buf, NEW n, spoiled' = spoiled,
             terminals' = [terminals EXCEPT ![curr_ter] =
                             [line EXCEPT !.typing = buf, !.buf_len = n]]
      PROVE  HandInv'
  <2>1. PICK new : new = [line EXCEPT !.typing = buf, !.buf_len = n]
    OBVIOUS
  <2>2. /\ new.typed = line.typed /\ new.history = line.history
        /\ new.buffer_updated = line.buffer_updated
    BY <2>1 DEF Lines
  <2> QED
    BY <1>3, <1>4, <2>1, <2>2
<1>5. ASSUME NEW c \in Chars, print_char(c) PROVE HandInv'
  <2>1. PICK buf, n : /\ buf = [line.typing EXCEPT ![line.buf_len] = c]
                      /\ n = line.buf_len + 1
    OBVIOUS
  <2>2. terminals' = [terminals EXCEPT ![curr_ter] =
                        [line EXCEPT !.typing = buf, !.buf_len = n]]
    BY <1>1, <1>2, <1>5, <2>1 DEF print_char, Lines
  <2> QED
    BY <1>4, <1>5, <2>2 DEF print_char
<1>6. CASE backspace
  <2>1. PICK buf, n : /\ buf = [line.typing EXCEPT ![line.buf_len - 1] = NUL]
                      /\ n = line.buf_len - 1
    OBVIOUS
  <2>2. terminals' = [terminals EXCEPT ![curr_ter] =
                        [line EXCEPT !.typing = buf, !.buf_len = n]]
    BY <1>1, <1>2, <1>6, <2>1 DEF backspace, Lines
  <2> QED
    BY <1>4, <1>6, <2>2 DEF backspace
<1>7. CASE recall
  <2>1. PICK n : n = strlen(line.history)
    OBVIOUS
  <2>2. terminals' = [terminals EXCEPT ![curr_ter] =
                        [line EXCEPT !.typing = line.history, !.buf_len = n]]
    BY <1>1, <1>2, <1>7, <2>1 DEF recall, Lines
  <2> QED
    BY <1>4, <1>7, <2>2 DEF recall
<1>8. CASE enter_key
  <2>1. PICK text, n :
          /\ text = [i \in Index |-> IF i < line.buf_len THEN line.typing[i] ELSE NUL]
          /\ n = line.buf_len + 1
    OBVIOUS
  <2>2. PICK new : new = [typing |-> Blank, typed |-> text, history |-> text, buf_len |-> 0,
                          written_bytes |-> n, buffer_updated |-> 1]
    OBVIOUS
  <2>3. new.typed = new.history
    BY <2>2
  <2>4. terminals' = [terminals EXCEPT ![curr_ter] = new]
    BY <1>2, <1>8, <2>1, <2>2 DEF enter_key
  <2>5. /\ terminals'[curr_ter] = new
        /\ \A s \in Terminals \ {curr_ter} : terminals'[s] = terminals[s]
    BY <1>1, <2>4
  <2>6. /\ \A s \in Terminals \ {curr_ter} : spoiled'[s] = spoiled[s]
        /\ spoiled'[curr_ter] = "no" => reader[curr_ter].pc \notin {"copy", "clear", "return"}
    BY <1>1, <1>8 DEF enter_key, Entered
  <2>7. spoiled'[curr_ter] = "no" => Handed(new, reader[curr_ter])
    BY <2>3, <2>6 DEF Handed
  <2> QED
    BY <1>1, <2>5, <2>6, <2>7, HandFrame
<1>9. ASSUME NEW new \in Terminals, switch_ter(new) PROVE HandInv'
  BY <1>1, <1>9 DEF switch_ter, HandInv
<1> QED
  BY <1>5, <1>6, <1>7, <1>8, <1>9 DEF Key

\* The newline comes where the line ends, or where the buffer does.
LEMMA NewlinePlaced ==
    ASSUME NEW n \in 1 .. BUF_SIZE, NEW h, NEW k, IsLine(h, k), NEW buf,
           buf \in [0 .. n - 1 -> Chars \cup {NUL}], \A i \in 0 .. n - 1 : buf[i] = h[i],
           NEW r, r.nbytes = n, r.final_buf = WithNewline(buf, n)
    PROVE  Given(h, r)
<1>1. k \in Nat /\ strlen(h) = k /\ n \in Nat /\ n > 0
  BY StrlenOfLine, IndexFacts, TerminalAssumption DEF IsLine
<1>2. PICK m \in Nat : m = (IF k < n THEN k ELSE n - 1) /\ m \in 0 .. n - 1 /\ m <= k
  BY <1>1
<1>3. PICK cut : cut = [buf EXCEPT ![n - 1] = NUL]
  OBVIOUS
<1>4. ASSUME NEW i \in 0 .. m - 1 PROVE cut[i] = h[i] /\ cut[i] # NUL /\ i \in 0 .. n - 1
  <2>1. i \in 0 .. n - 1 /\ i # n - 1 /\ i < k /\ i \in Index
    BY <1>1, <1>2, TerminalAssumption DEF Index
  <2> QED
    BY <1>3, <2>1 DEF IsLine, Index
<1>5. cut[m] = NUL
  <2>1. CASE m = n - 1
    BY <1>1, <1>3, <2>1
  <2>2. CASE m # n - 1
    <3>1. m = k /\ m \in Index
      BY <1>1, <1>2, <2>2, TerminalAssumption DEF Index
    <3>2. h[m] = NUL
      BY <3>1, <1>1 DEF IsLine
    <3> QED
      BY <1>2, <1>3, <2>2, <3>2
  <2> QED
    BY <2>1, <2>2
<1>6. PICK end : end = WithNewline(buf, n)
  OBVIOUS
<1>7. end = [i \in 0 .. n - 1 |->
               IF cut[i] = NUL /\ \A j \in 0 .. i - 1 : cut[j] # NUL THEN NL ELSE cut[i]]
  BY <1>3, <1>6 DEF WithNewline
<1>8. end[m] = NL
  BY <1>2, <1>4, <1>5, <1>7
<1>9. ASSUME NEW i \in 0 .. m - 1 PROVE end[i] = h[i]
  BY <1>4, <1>7
<1> QED
  BY <1>1, <1>2, <1>6, <1>8, <1>9 DEF Given

\* memcpy copies the line entered last, unless that line was spoiled.
LEMMA HandCopy ==
    ASSUME IInv, HandInv, NEW t \in Terminals, NEW k \in 1 .. BUF_SIZE, Copy(t, k)
    PROVE  HandInv'
<1>1. PICK r \in Readers, line \in Lines : r = reader[t] /\ line = terminals[t]
  BY DEF IInv, LinesInv, ReadersInv
<1>2. /\ r.pc = "copy" /\ Prepared(r) /\ Consistent(line)
      /\ k \in r.pos + 1 .. r.nbytes /\ reader \in [Terminals -> Readers]
      /\ terminals' = terminals /\ spoiled' = spoiled
  BY <1>1 DEF Copy, IInv, LinesInv, ReadersInv
<1>0. CASE spoiled[t] # "no"
  <2>1. \A s \in Terminals \ {t} : reader'[s] = reader[s]
    BY <1>2 DEF Copy
  <2> QED
    BY <1>0, <1>2, <2>1, HandFrame
<1>11. CASE spoiled[t] = "no"
  <2>0. Handed(line, r)
    BY <1>1, <1>11 DEF HandInv
  <2>3. PICK n, p, f, h :
          /\ n \in 1 .. BUF_SIZE /\ p \in Nat
          /\ n = r.nbytes /\ p = r.pos /\ f = r.final_buf /\ h = line.history
          /\ p \in 0 .. n - 1 /\ f \in [0 .. n - 1 -> Chars \cup {NUL}]
          /\ line.typed = h /\ \A i \in 0 .. p - 1 : f[i] = h[i]
    <3>1. /\ r.nbytes \in 1 .. BUF_SIZE /\ r.pos \in 0 .. r.nbytes - 1 /\ r.pos \in Nat
          /\ r.final_buf \in [0 .. r.nbytes - 1 -> Chars \cup {NUL}]
      BY <1>2, TerminalAssumption DEF Prepared
    <3>2. line.typed = line.history /\ \A i \in 0 .. r.pos - 1 : r.final_buf[i] = line.history[i]
      BY <1>2, <2>0 DEF Handed
    <3> QED
      BY <3>1, <3>2
  <2>4. PICK buf : buf = [i \in 0 .. n - 1 |-> IF i \in p .. k - 1 THEN h[i] ELSE f[i]]
    OBVIOUS
  <2>5. n \in Nat /\ k \in p + 1 .. n
    BY <1>2, <2>3, TerminalAssumption
  <2>6. PICK new : /\ reader' = [reader EXCEPT ![t] = new]
                   /\ new = IF k < n THEN [r EXCEPT !.pos = k, !.final_buf = buf]
                            ELSE [r EXCEPT !.pc = "clear", !.pos = 0,
                                           !.final_buf = WithNewline(buf, n)]
    BY <1>1, <2>3, <2>4 DEF Copy
  <2>8. \A i \in 0 .. k - 1 : buf[i] = h[i]
    BY <2>3, <2>4, <2>5
  <2>9. Handed(line, new)
    <3>1. CASE k < n
      <4>1. new.pc = "copy" /\ new.pos = k /\ new.final_buf = buf
        BY <1>2, <2>6, <3>1 DEF Readers
      <4> QED
        BY <2>3, <2>8, <4>1 DEF Handed
    <3>2. CASE ~ (k < n)
      <4>1. new.pc = "clear" /\ new.nbytes = n /\ new.final_buf = WithNewline(buf, n)
        BY <2>3, <2>6, <3>2 DEF Readers
      <4>2. k = n
        BY <2>5, <3>2
      <4>3. \A i \in 0 .. n - 1 : buf[i] = h[i]
        BY <2>8, <4>2
      <4>4. h \in Buffers /\ \E z : IsLine(h, z)
        BY <1>2, <2>3, LineFields DEF Consistent
      <4>5. ASSUME NEW i \in 0 .. n - 1 PROVE h[i] \in Chars \cup {NUL}
        BY <2>3, <2>5, <4>4, TerminalAssumption DEF Buffers, Index
      <4>6. buf \in [0 .. n - 1 -> Chars \cup {NUL}]
        BY <2>4, <4>3, <4>5
      <4>7. Given(h, new)
        BY <2>3, <4>1, <4>3, <4>4, <4>6, NewlinePlaced
      <4> QED
        BY <2>3, <4>1, <4>7 DEF Handed
    <3> QED
      BY <3>1, <3>2
  <2>10. reader'[t] = new /\ \A s \in Terminals \ {t} : reader'[s] = reader[s]
    BY <1>2, <2>6
  <2> QED
    BY <1>1, <1>2, <2>9, <2>10, HandFrame
<1> QED
  BY <1>0, <1>11

\* The other steps of terminal_read that concern only its own terminal.
LEMMA HandReader ==
    ASSUME IInv, HandInv, NEW t \in Terminals,
           \/ \E nbytes \in ReadSizes : terminal_read(t, nbytes)
           \/ Reset(t) \/ Wake(t) \/ ReadReturns(t)
    PROVE  HandInv'
<1>1. PICK r \in Readers, line \in Lines : r = reader[t] /\ line = terminals[t]
  BY DEF IInv, LinesInv, ReadersInv
<1>2. /\ (spoiled[t] = "no" => Handed(line, r)) /\ Prepared(r)
      /\ reader \in [Terminals -> Readers] /\ terminals \in [Terminals -> Lines]
      /\ spoiled \in [Terminals -> {"no", "enter", "clear"}]
  BY <1>1 DEF HandInv, IInv, LinesInv, ReadersInv, HistoryInv
<1>3. ASSUME NEW new, NEW fresh, reader' = [reader EXCEPT ![t] = new],
             terminals' = [terminals EXCEPT ![t] = fresh],
             \A s \in Terminals \ {t} : spoiled'[s] = spoiled[s],
             spoiled'[t] = "no" => Handed(fresh, new)
      PROVE  HandInv'
  <2>1. /\ reader'[t] = new /\ terminals'[t] = fresh
        /\ \A s \in Terminals \ {t} : terminals'[s] = terminals[s] /\ reader'[s] = reader[s]
    BY <1>2, <1>3
  <2> QED
    BY <1>3, <2>1, HandFrame
<1>4. terminals = [terminals EXCEPT ![t] = line]
  BY <1>1, <1>2
<1>5. ASSUME NEW nbytes \in ReadSizes, terminal_read(t, nbytes) PROVE HandInv'
  <2>1. PICK n, f, new : /\ new = [pc |-> "reset", nbytes |-> n, pos |-> 0, final_buf |-> f]
                         /\ reader' = [reader EXCEPT ![t] = new]
    BY <1>5 DEF terminal_read
  <2>2. new.pc = "reset"
    BY <2>1
  <2>3. Handed(line, new)
    BY <2>2 DEF Handed
  <2> QED
    BY <1>3, <1>4, <1>5, <2>1, <2>3 DEF terminal_read
<1>6. CASE Reset(t)
  <2>1. PICK new, fresh : /\ new = [r EXCEPT !.pc = "wait"]
                          /\ fresh = [line EXCEPT !.buffer_updated = 0]
    OBVIOUS
  <2>2. new.pc = "wait" /\ fresh.buffer_updated = 0
    BY <1>1, <1>6, <2>1 DEF Readers, Lines
  <2>3. Handed(fresh, new)
    BY <2>2 DEF Handed
  <2>4. /\ reader' = [reader EXCEPT ![t] = new] /\ spoiled' = spoiled
        /\ terminals' = [terminals EXCEPT ![t] = fresh]
    BY <1>1, <1>6, <2>1 DEF Reset, ReaderAt
  <2> QED
    BY <1>3, <2>3, <2>4
<1>7. CASE Wake(t)
  <2>1. PICK new : new = [r EXCEPT !.pc = "copy"]
    OBVIOUS
  <2>2. /\ new.pc = "copy" /\ new.pos = r.pos /\ line.buffer_updated = 1 /\ r.pc = "wait"
        /\ r.pos = 0
    BY <1>1, <1>2, <1>7, <2>1 DEF Readers, Wake, ReaderAt, Prepared
  <2>3. spoiled[t] = "no" => Handed(line, new)
    BY <1>2, <2>2 DEF Handed
  <2>4. reader' = [reader EXCEPT ![t] = new] /\ spoiled' = spoiled /\ terminals' = terminals
    BY <1>1, <1>7, <2>1 DEF Wake, ReaderAt
  <2> QED
    BY <1>3, <1>4, <2>3, <2>4
<1>8. CASE ReadReturns(t)
  <2>1. NoRead.pc = "idle"
    BY DEF NoRead
  <2>2. Handed(line, NoRead)
    BY <2>1 DEF Handed
  <2>3. reader' = [reader EXCEPT ![t] = NoRead] /\ terminals' = terminals
    BY <1>8 DEF ReadReturns
  <2>4. \A s \in Terminals \ {t} : spoiled'[s] = spoiled[s]
    BY <1>2, <1>8 DEF ReadReturns
  <2> QED
    BY <1>3, <1>4, <2>2, <2>3, <2>4
<1> QED
  BY <1>5, <1>6, <1>7, <1>8

\* clear_buffer clears the line of the terminal that is shown: a line that its reader
\* has not copied is spoiled.
LEMMA HandClear ==
    ASSUME IInv, HandInv, NEW t \in Terminals, clear_buffer(t)
    PROVE  HandInv'
<1>1. /\ reader \in [Terminals -> Readers] /\ terminals \in [Terminals -> Lines]
      /\ spoiled \in [Terminals -> {"no", "enter", "clear"}] /\ curr_ter \in Terminals
  BY DEF IInv, LinesInv, ReadersInv, HistoryInv
<1>2. PICK c \in Terminals : c = curr_ter
  BY <1>1
<1>3. PICK r, new : r = reader[t] /\ r \in Readers /\ new = [r EXCEPT !.pc = "return"]
  BY <1>1
<1>4. PICK line, fresh : /\ line = terminals[c] /\ line \in Lines
                        /\ fresh = [line EXCEPT !.typed = Blank]
  BY <1>1
<1>5. /\ reader' = [reader EXCEPT ![t] = new] /\ r.pc = "clear"
      /\ terminals' = [terminals EXCEPT ![c] = fresh]
  BY <1>2, <1>3, <1>4 DEF clear_buffer, ReaderAt
<1>6. /\ new.pc = "return" /\ new.nbytes = r.nbytes /\ new.final_buf = r.final_buf
      /\ fresh.history = line.history /\ fresh.buffer_updated = line.buffer_updated
  BY <1>3, <1>4 DEF Readers, Lines
<1>7. ASSUME NEW old, NEW q, Handed(old, r), q.history = old.history PROVE Handed(q, new)
  BY <1>5, <1>6, <1>7 DEF Handed, Given
<1>8. ASSUME NEW s \in Terminals, spoiled'[s] = "no" PROVE Handed(terminals'[s], reader'[s])
  <2>1. /\ spoiled[s] = "no"
        /\ s = c => ~ Waiting(c)
    BY <1>1, <1>2, <1>8 DEF clear_buffer, Cleared
  <2>2. Handed(terminals[s], reader[s])
    BY <2>1 DEF HandInv
  <2>3. CASE s = t
    <3>1. reader'[s] = new /\ terminals'[s].history = terminals[s].history
      BY <1>1, <1>4, <1>5, <1>6, <2>3
    <3> QED
      BY <1>3, <1>7, <2>2, <2>3, <3>1
  <2>4. CASE s # t /\ s = c
    <3>1. reader'[s] = reader[s] /\ terminals'[s] = fresh
      BY <1>1, <1>5, <2>4
    <3> QED
      BY <1>4, <1>6, <2>1, <2>2, <2>4, <3>1 DEF Handed, Waiting
  <2>5. CASE s # t /\ s # c
    <3>1. reader'[s] = reader[s] /\ terminals'[s] = terminals[s]
      BY <1>1, <1>5, <2>5
    <3> QED
      BY <2>2, <3>1
  <2> QED
    BY <2>3, <2>4, <2>5
<1> QED
  BY <1>8 DEF HandInv

\* Every step hands over the lines that nothing came between.
LEMMA HandStep ==
    ASSUME IInv, HandInv, [Next]_vars
    PROVE  HandInv'
<1>1. CASE Key
  BY <1>1, HandKey
<1>2. CASE Tick \/ UNCHANGED vars
  BY <1>2 DEF Tick, vars, HandInv
<1>3. ASSUME NEW t \in Terminals,
             (\E nbytes \in ReadSizes : terminal_read(t, nbytes)) \/ ReaderStep(t)
      PROVE  HandInv'
  BY <1>3, HandCopy, HandReader, HandClear DEF ReaderStep
<1> QED
  BY <1>1, <1>2, <1>3 DEF Next

\* Whenever keys, Alt-Fn and ticks come, read gives the program exactly the line that
\* was entered last on its terminal, or as much of it as fits, unless another line is
\* entered there while read hands this one over, or the reader of another terminal
\* clears the line first.
THEOREM LinesDelivered == Spec => []LineDelivered
<1>1. Init => HandInv
  <2> SUFFICES ASSUME Init, NEW t \in Terminals PROVE Handed(terminals[t], reader[t])
    BY DEF HandInv
  <2>1. reader[t].pc = "idle"
    BY DEF Init, NoRead
  <2> QED
    BY <2>1 DEF Handed
<1>2. IInv /\ HandInv /\ [Next]_vars => HandInv'
  BY HandStep
<1>3. HandInv => LineDelivered
  <2> SUFFICES ASSUME HandInv, NEW t \in Terminals, reader[t].pc = "return",
                      spoiled[t] = "no"
               PROVE  Given(terminals[t].history, reader[t])
    BY DEF LineDelivered, Delivered, Given
  <2> QED
    BY DEF HandInv, Handed
<1> QED
  BY <1>1, <1>2, <1>3, Invariance, PTL DEF Spec
=============================================================================
