---------------------------- MODULE VideoProofs ----------------------------
(***************************************************************************)
(* Theorems about Video, for screens of every size, any number of          *)
(* terminals and any characters.                                           *)
(***************************************************************************)
EXTENDS Video, IterationProofs, SequenceTheorems

-----------------------------------------------------------------------------
(***************************************************************************)
(* One console.                                                            *)
(***************************************************************************)

Columns == 0 .. NUM_COLS
Rows == 0 .. NUM_ROWS - 1

\* The number of cells, and that of the cells above the last row.
Size == NUM_ROWS * NUM_COLS
Above == Size - NUM_COLS

\* The positions of the cursor, in one dimension.
LEMMA Positions ==
    ASSUME NEW x \in Columns, NEW y \in Rows
    PROVE  /\ Offset(x, y) \in 0 .. Size
           /\ x < NUM_COLS => Offset(x, y) \in Cells
           /\ y + 1 \in Rows => Offset(0, y + 1) = Offset(NUM_COLS, y)
           /\ y - 1 \in Rows => Offset(NUM_COLS, y - 1) = Offset(0, y)
           /\ y + 1 = NUM_ROWS => Offset(NUM_COLS, y) = Size /\ Offset(0, y) = Above
           /\ Offset(x, y) = Offset(0, y) + x
<1>1. PICK C \in Nat \ {0}, R \in Nat \ {0} : C = NUM_COLS /\ R = NUM_ROWS
  BY ConsoleAssumption
<1>2. x \in 0 .. C /\ y \in 0 .. R - 1
  BY <1>1 DEF Columns, Rows
<1>3. y * C \in Nat /\ R * C \in Nat /\ 0 * C = 0
  BY <1>1, <1>2
<1>4. (y + 1) * C = y * C + C /\ (y - 1) * C = y * C - C /\ (R - 1) * C = R * C - C
  BY <1>1, <1>2
<1>5. (y + 1) * C <= R * C
  BY <1>1, <1>2
<1>6. PICK u \in Nat, s \in Nat : u = y * C /\ s = R * C /\ u + C <= s
  BY <1>3, <1>4, <1>5
<1>7. Offset(x, y) = u + x /\ Offset(0, y) = u /\ Offset(NUM_COLS, y) = u + C /\ Size = s
  BY <1>1, <1>2, <1>6 DEF Offset, Size
<1>8. Offset(0, y + 1) = u + C /\ Offset(NUM_COLS, y - 1) = u
  BY <1>1, <1>2, <1>4, <1>6 DEF Offset
<1>9. y + 1 = R => u = s - C
  BY <1>4, <1>6
<1>10. Cells = 0 .. s - 1
  BY <1>1, <1>6 DEF Cells
<1> QED
  BY <1>1, <1>2, <1>6, <1>7, <1>8, <1>9, <1>10 DEF Above

Vids == [Cells -> Glyphs]

Pos(con) == Offset(con.x, con.y)

\* What a console is made of.
LEMMA Parts ==
    ASSUME NEW con \in Consoles
    PROVE  /\ con.vid \in Vids /\ con.x \in Columns /\ con.y \in Rows
           /\ con = [vid |-> con.vid, x |-> con.x, y |-> con.y]
BY DEF Consoles, Vids, Columns, Rows

\* Consoles made of parts.
LEMMA Built ==
    ASSUME NEW v \in Vids, NEW x \in Columns, NEW y \in Rows
    PROVE  [vid |-> v, x |-> x, y |-> y] \in Consoles
BY DEF Consoles, Vids, Columns, Rows

\* The start of the next row is where the cursor is after the last column, a row higher
\* if the screen was scrolled.
LEMMA NextRowStep ==
    ASSUME NEW con \in Consoles
    PROVE  /\ NextRow(con) \in Consoles /\ NextRow(con).x = 0
           /\ con.y + 1 \in Rows =>
                NextRow(con).vid = con.vid /\ Pos(NextRow(con)) = Offset(NUM_COLS, con.y)
           /\ con.y + 1 \notin Rows =>
                /\ NextRow(con).vid = scroll_up(con.vid) /\ Pos(NextRow(con)) = Above
                /\ Offset(NUM_COLS, con.y) = Size
<1>1. PICK v \in Vids, x \in Columns, y \in Rows : con = [vid |-> v, x |-> x, y |-> y]
  BY Parts
<1>2. con.vid = v /\ con.x = x /\ con.y = y
  BY <1>1
<1>3. 0 \in Columns
  BY ConsoleAssumption DEF Columns
<1>4. CASE y + 1 \in Rows
  <2>1. y + 1 # NUM_ROWS
    BY <1>4, ConsoleAssumption DEF Rows
  <2>2. NextRow(con) = [vid |-> v, x |-> 0, y |-> y + 1]
    BY <1>1, <2>1 DEF NextRow
  <2>3. NextRow(con) \in Consoles
    BY <1>3, <1>4, <2>2, Built
  <2> QED
    BY <1>2, <1>4, <2>2, <2>3, Positions DEF Pos
<1>5. CASE y + 1 \notin Rows
  <2>1. y + 1 = NUM_ROWS
    BY <1>5, ConsoleAssumption DEF Rows
  <2>2. scroll_up(v) \in Vids
    BY ConsoleAssumption DEF scroll_up, Vids
  <2>3. NextRow(con) = [vid |-> scroll_up(v), x |-> 0, y |-> y]
    BY <1>1, <2>1 DEF NextRow
  <2>4. NextRow(con) \in Consoles
    BY <1>3, <2>2, <2>3, Built
  <2> QED
    BY <1>2, <1>5, <2>1, <2>3, <2>4, Positions DEF Pos
<1> QED
  BY <1>2, <1>4, <1>5

\* A character goes to a cell p and the cursor behind it: p is where the cursor was, or
\* the start of the last row if the screen was full and has been scrolled.
Put(con, c, new, p) ==
    /\ new \in Consoles /\ p \in Cells /\ Pos(new) = p + 1
    /\ \/ p = Pos(con) /\ new.vid = [con.vid EXCEPT ![p] = c]
       \/ Pos(con) = Size /\ p = Above /\ new.vid = [scroll_up(con.vid) EXCEPT ![p] = c]

\* A character that fits in the row.
LEMMA PutAt ==
    ASSUME NEW at \in Consoles, NEW c \in Glyphs, at.x < NUM_COLS
    PROVE  LET new == [at EXCEPT !.vid[Offset(at.x, at.y)] = c, !.x = at.x + 1]
           IN  /\ new \in Consoles /\ Pos(at) \in Cells /\ Pos(new) = Pos(at) + 1
               /\ new.vid = [at.vid EXCEPT ![Pos(at)] = c]
<1>1. PICK v \in Vids, x \in Columns, y \in Rows : at = [vid |-> v, x |-> x, y |-> y]
  BY Parts
<1>2. at.vid = v /\ at.x = x /\ at.y = y
  BY <1>1
<1>3. PICK p \in Cells : p = Offset(x, y) /\ Pos(at) = p
  BY <1>2, Positions DEF Pos
<1>4. PICK w \in Vids : w = [v EXCEPT ![p] = c]
  BY DEF Vids
<1>5. x + 1 \in Columns
  BY <1>2, ConsoleAssumption DEF Columns
<1>6. [at EXCEPT !.vid[Offset(at.x, at.y)] = c, !.x = at.x + 1] = [vid |-> w, x |-> x + 1, y |-> y]
  <2>1. [at EXCEPT !.vid[p] = c, !.x = x + 1] =
          [at EXCEPT !.vid = [v EXCEPT ![p] = c], !.x = x + 1]
    BY <1>2, Zenon
  <2>2. ASSUME NEW k PROVE [at EXCEPT !.vid = w, !.x = k] = [vid |-> w, x |-> k, y |-> y]
    <3>1. [at EXCEPT !.vid = w] = [vid |-> w, x |-> x, y |-> y]
      BY <1>1
    <3>2. [[vid |-> w, x |-> x, y |-> y] EXCEPT !.x = k] = [vid |-> w, x |-> k, y |-> y]
      OBVIOUS
    <3> QED
      BY <3>1, <3>2, Zenon
  <2> QED
    BY <1>2, <1>3, <1>4, <2>1, <2>2, Zenon
<1>7. [vid |-> w, x |-> x + 1, y |-> y] \in Consoles
  BY <1>5, Built
<1>8. Offset(x + 1, y) = p + 1
  <2>1. Offset(x + 1, y) = Offset(0, y) + (x + 1) /\ Offset(x, y) = Offset(0, y) + x
    BY <1>5, Positions
  <2>2. Offset(0, y) \in 0 .. Size
    BY Positions, ConsoleAssumption DEF Columns
  <2> QED
    BY <1>3, <2>1, <2>2 DEF Columns
<1> QED
  BY <1>2, <1>3, <1>4, <1>6, <1>7, <1>8 DEF Pos

\* putc puts a character.
LEMMA PutcStep ==
    ASSUME NEW con \in Consoles, NEW c \in Glyphs
    PROVE  \E p : Put(con, c, putc(con, c), p)
<1>0. c # NL
  BY ConsoleAssumption
<1>1. PICK at \in Consoles :
        /\ at = IF con.x = NUM_COLS THEN NextRow(con) ELSE con
        /\ at.x < NUM_COLS
  BY Parts, NextRowStep, ConsoleAssumption DEF Columns
<1>2. PICK new : /\ new = [at EXCEPT !.vid[Offset(at.x, at.y)] = c, !.x = at.x + 1]
                 /\ new \in Consoles /\ Pos(at) \in Cells /\ Pos(new) = Pos(at) + 1
                 /\ new.vid = [at.vid EXCEPT ![Pos(at)] = c]
  BY <1>1, PutAt
<1>3. putc(con, c) = new
  BY <1>0, <1>1, <1>2 DEF putc
<1>4. CASE con.x = NUM_COLS
  <2>1. at = NextRow(con)
    BY <1>1, <1>4
  <2>2. Pos(con) = Offset(NUM_COLS, con.y)
    BY <1>4 DEF Pos
  <2> QED
    BY <1>2, <1>3, <2>1, <2>2, NextRowStep DEF Put
<1>5. CASE con.x # NUM_COLS
  BY <1>1, <1>2, <1>3, <1>5 DEF Put
<1> QED
  BY <1>4, <1>5

\* A character, or the start of a new row.
LEMMA PutcType ==
    ASSUME NEW con \in Consoles, NEW c \in Glyphs \cup {NL}
    PROVE  putc(con, c) \in Consoles
<1>1. CASE c = NL
  BY <1>1, NextRowStep DEF putc
<1>2. CASE c \in Glyphs
  BY <1>2, PutcStep DEF Put
<1> QED
  BY <1>1, <1>2

\* A backspace goes back one cell and clears it, or does nothing at the first cell.
Rubbed(con, new) ==
    /\ new \in Consoles
    /\ \/ Pos(con) = 0 /\ new = con
       \/ /\ Pos(new) \in Cells /\ Pos(con) = Pos(new) + 1
          /\ new.vid = [con.vid EXCEPT ![Pos(new)] = SPACE]

\* screen_backspace rubs one out.
LEMMA BackspaceStep ==
    ASSUME NEW con \in Consoles
    PROVE  Rubbed(con, screen_backspace(con))
<1>1. PICK v \in Vids, x \in Columns, y \in Rows : con = [vid |-> v, x |-> x, y |-> y]
  BY Parts
<1>2. con.vid = v /\ con.x = x /\ con.y = y
  BY <1>1
<1>3. CASE x = 0 /\ y = 0
  <2>1. screen_backspace(con) = con
    BY <1>2, <1>3 DEF screen_backspace
  <2>2. Offset(0, 0) = 0
    BY ConsoleAssumption DEF Offset
  <2> QED
    BY <1>2, <1>3, <2>1, <2>2 DEF Rubbed, Pos
<1>4. CASE ~ (x = 0 /\ y = 0)
  <2>1. PICK k \in Columns, j \in Rows :
          /\ k < NUM_COLS /\ Offset(x, y) = Offset(k, j) + 1
          /\ screen_backspace(con) = [vid |-> [v EXCEPT ![Offset(k, j)] = SPACE], x |-> k, y |-> j]
    <3>1. CASE x = 0
      <4>1. y - 1 \in Rows /\ NUM_COLS - 1 \in Columns /\ NUM_COLS \in Columns /\ 0 \in Columns
        BY <1>4, <3>1, ConsoleAssumption DEF Rows, Columns
      <4>2. screen_backspace(con) =
              [vid |-> [v EXCEPT ![Offset(NUM_COLS - 1, y - 1)] = SPACE], x |-> NUM_COLS - 1,
               y |-> y - 1]
        BY <1>1, <1>2, <1>4, <3>1 DEF screen_backspace
      <4>3. /\ Offset(NUM_COLS - 1, y - 1) = Offset(0, y - 1) + (NUM_COLS - 1)
            /\ Offset(NUM_COLS, y - 1) = Offset(0, y - 1) + NUM_COLS
            /\ Offset(NUM_COLS, y - 1) = Offset(0, y) /\ Offset(0, y - 1) \in 0 .. Size
        BY <4>1, Positions
      <4>4. Offset(x, y) = Offset(NUM_COLS - 1, y - 1) + 1 /\ NUM_COLS - 1 < NUM_COLS
        BY <3>1, <4>3, ConsoleAssumption
      <4> QED
        BY <4>1, <4>2, <4>4
    <3>2. CASE x # 0
      <4>1. x - 1 \in Columns /\ x - 1 < NUM_COLS /\ 0 \in Columns
        BY <3>2, ConsoleAssumption DEF Columns
      <4>2. screen_backspace(con) = [vid |-> [v EXCEPT ![Offset(x - 1, y)] = SPACE], x |-> x - 1,
                                     y |-> y]
        BY <1>1, <1>2, <1>4, <3>2 DEF screen_backspace
      <4>3. /\ Offset(x - 1, y) = Offset(0, y) + (x - 1) /\ Offset(x, y) = Offset(0, y) + x
            /\ Offset(0, y) \in 0 .. Size
        BY <4>1, Positions
      <4>4. Offset(x, y) = Offset(x - 1, y) + 1
        BY <4>3 DEF Columns
      <4> QED
        BY <4>1, <4>2, <4>4
    <3> QED
      BY <3>1, <3>2
  <2>2. PICK p \in Cells : p = Offset(k, j)
    BY <2>1, Positions
  <2>3. PICK w \in Vids : w = [v EXCEPT ![p] = SPACE]
    BY ConsoleAssumption DEF Vids
  <2>4. [vid |-> w, x |-> k, y |-> j] \in Consoles
    BY Built
  <2> QED
    BY <1>2, <2>1, <2>2, <2>3, <2>4 DEF Rubbed, Pos
<1> QED
  BY <1>3, <1>4

\* A text of which every character can be seen.
Text(text) == Len(text) \in Nat /\ \A k \in 1 .. Len(text) : text[k] \in Glyphs

\* puts goes through a sequence of consoles, one for every character.
Written(con, text, f) ==
    /\ f \in [0 .. Len(text) -> Consoles] /\ f[0] = con
    /\ \A n \in 1 .. Len(text) : f[n] = putc(f[n - 1], text[n])

\* puts, one console after the other.
LEMMA PutsUnfolds ==
    ASSUME NEW con \in Consoles, NEW text, Text(text)
    PROVE  \E f : Written(con, text, f) /\ puts(con, text) = f[Len(text)]
<1> DEFINE L == Len(text)
           D == Consoles
           g == [x \in (1 .. L) \X D |-> putc(x[2], text[x[1]])]
           Is(f) == f = [n \in 0 .. L |-> IF n = 0 THEN con ELSE putc(f[n - 1], text[n])]
<1>1. L \in Nat /\ \A n \in 1 .. L : text[n] \in Glyphs
  BY DEF Text
<1>2. ASSUME NEW n \in 1 .. L, NEW d \in D PROVE g[<<n, d>>] = putc(d, text[n])
  OBVIOUS
<1> HIDE DEF L, g
<1>3. ASSUME NEW n \in 1 .. L, NEW d \in D PROVE g[<<n, d>>] \in D
  <2>1. putc(d, text[n]) \in Consoles
    BY <1>1, PutcType
  <2> QED
    BY <1>2, <2>1
<1> HIDE DEF D
<1>4. PICK f : Trace(L, D, con, g, f)
  <2>1. Loop(L, D, con, g)
    BY <1>1, <1>3 DEF Loop, D
  <2> QED
    BY <2>1, Iteration
<1>5. ASSUME NEW n \in 0 .. L
      PROVE  f[n] = IF n = 0 THEN con ELSE putc(f[n - 1], text[n])
  <2>1. CASE n = 0
    BY <1>4, <2>1 DEF Trace
  <2>2. CASE n # 0
    <3>1. n \in 1 .. L /\ n - 1 \in 0 .. L
      BY <2>2, <1>1
    <3>2. f[n - 1] \in D
      BY <1>4, <3>1 DEF Trace
    <3> QED
      BY <1>2, <1>4, <2>2, <3>1, <3>2 DEF Trace
  <2> QED
    BY <2>1, <2>2
<1>6. Is(f)
  BY <1>4, <1>5 DEF Trace
<1> DEFINE h == CHOOSE h : Is(h)
<1>7. Is(h)
  BY <1>6
<1>8. puts(con, text) = h[L]
  BY DEF puts, L
<1> HIDE DEF h
<1>9. ASSUME NEW n \in 0 .. L PROVE h[n] = IF n = 0 THEN con ELSE putc(h[n - 1], text[n])
  BY <1>7
<1>10. h[0] = con /\ \A n \in 1 .. L : h[n] = putc(h[n - 1], text[n])
  BY <1>1, <1>9
<1>11. h \in [0 .. L -> Consoles]
  <2> DEFINE T == {n \in 0 .. L : h[n] \in Consoles}
  <2>1. 0 \in T
    BY <1>1, <1>10
  <2>2. ASSUME NEW n \in 1 .. L, n - 1 \in T PROVE n \in T
    BY <1>1, <1>10, <2>2, PutcType
  <2> HIDE DEF T
  <2>3. \A n \in 0 .. L : n \in T
    <3>1. Inductive(L, T)
      BY <1>1, <2>1, <2>2 DEF Inductive
    <3> QED
      BY <3>1, Induction
  <2>4. DOMAIN h = 0 .. L /\ h = [n \in 0 .. L |-> h[n]]
    BY <1>7
  <2> QED
    BY <2>3, <2>4 DEF T
<1> QED
  BY <1>8, <1>10, <1>11 DEF Written, L

\* Erase goes back, one backspace for every character.
Erased(con, text, f) ==
    /\ f \in [0 .. Len(text) -> Consoles] /\ f[0] = con
    /\ \A n \in 1 .. Len(text) : f[n] = screen_backspace(f[n - 1])

\* Erase, one console after the other.
LEMMA EraseUnfolds ==
    ASSUME NEW con \in Consoles, NEW text, Len(text) \in Nat
    PROVE  \E f : Erased(con, text, f) /\ Erase(con, text) = f[Len(text)]
<1> DEFINE L == Len(text)
           D == Consoles
           g == [x \in (1 .. L) \X D |-> screen_backspace(x[2])]
           Is(f) == f = [n \in 0 .. L |-> IF n = 0 THEN con ELSE screen_backspace(f[n - 1])]
<1>1. L \in Nat
  OBVIOUS
<1>2. ASSUME NEW n \in 1 .. L, NEW d \in D PROVE g[<<n, d>>] = screen_backspace(d)
  OBVIOUS
<1> HIDE DEF L, g
<1>3. ASSUME NEW n \in 1 .. L, NEW d \in D PROVE g[<<n, d>>] \in D
  <2>1. screen_backspace(d) \in Consoles
    BY BackspaceStep DEF Rubbed
  <2> QED
    BY <1>2, <2>1
<1> HIDE DEF D
<1>4. PICK f : Trace(L, D, con, g, f)
  <2>1. Loop(L, D, con, g)
    BY <1>1, <1>3 DEF Loop, D
  <2> QED
    BY <2>1, Iteration
<1>5. ASSUME NEW n \in 0 .. L
      PROVE  f[n] = IF n = 0 THEN con ELSE screen_backspace(f[n - 1])
  <2>1. CASE n = 0
    BY <1>4, <2>1 DEF Trace
  <2>2. CASE n # 0
    <3>1. n \in 1 .. L /\ n - 1 \in 0 .. L
      BY <2>2, <1>1
    <3>2. f[n - 1] \in D
      BY <1>4, <3>1 DEF Trace
    <3> QED
      BY <1>2, <1>4, <2>2, <3>1, <3>2 DEF Trace
  <2> QED
    BY <2>1, <2>2
<1>6. Is(f)
  BY <1>4, <1>5 DEF Trace
<1> DEFINE h == CHOOSE h : Is(h)
<1>7. Is(h)
  BY <1>6
<1>8. Erase(con, text) = h[L]
  BY DEF Erase, L
<1> HIDE DEF h
<1>9. ASSUME NEW n \in 0 .. L PROVE h[n] = IF n = 0 THEN con ELSE screen_backspace(h[n - 1])
  BY <1>7
<1>10. h[0] = con /\ \A n \in 1 .. L : h[n] = screen_backspace(h[n - 1])
  BY <1>1, <1>9
<1>11. h \in [0 .. L -> Consoles]
  <2> DEFINE T == {n \in 0 .. L : h[n] \in Consoles}
  <2>1. 0 \in T
    BY <1>1, <1>10
  <2>2. ASSUME NEW n \in 1 .. L, n - 1 \in T PROVE n \in T
    <3>1. h[n - 1] \in Consoles /\ h[n] = screen_backspace(h[n - 1])
      BY <1>10, <2>2
    <3>2. screen_backspace(h[n - 1]) \in Consoles
      BY <3>1, BackspaceStep DEF Rubbed
    <3> QED
      BY <1>1, <3>1, <3>2
  <2> HIDE DEF T
  <2>3. \A n \in 0 .. L : n \in T
    <3>1. Inductive(L, T)
      BY <1>1, <2>1, <2>2 DEF Inductive
    <3> QED
      BY <3>1, Induction
  <2>4. DOMAIN h = 0 .. L /\ h = [n \in 0 .. L |-> h[n]]
    BY <1>7
  <2> QED
    BY <2>3, <2>4 DEF T
<1> QED
  BY <1>8, <1>10, <1>11 DEF Erased, L

-----------------------------------------------------------------------------
(***************************************************************************)
(* A text before the cursor.                                               *)
(***************************************************************************)

\* The first n characters of a text stand directly before the cursor.
Shown(con, text, n) ==
    \A k \in 1 .. n : Pos(con) - n + k - 1 \in Cells /\ con.vid[Pos(con) - n + k - 1] = text[k]

\* The character that putc writes follows those that stand there, also when they are
\* scrolled.
LEMMA PutShown ==
    ASSUME NEW con \in Consoles, NEW text, NEW n \in Nat, text[n + 1] \in Glyphs,
           n <= Above, Shown(con, text, n)
    PROVE  Shown(putc(con, text[n + 1]), text, n + 1)
<1> DEFINE c == text[n + 1]
<1>1. PICK new, p : new = putc(con, c) /\ Put(con, c, new, p)
  BY PutcStep
<1>2. p \in Cells /\ Pos(new) = p + 1 /\ con.vid \in Vids /\ new.vid \in Vids
  BY <1>1, Parts DEF Put
<1>3. PICK C \in Nat, s \in Nat : C = NUM_COLS /\ s = Size /\ C > 0
  BY ConsoleAssumption DEF Size
<1>4. Cells = 0 .. s - 1 /\ Above = s - C
  BY <1>3 DEF Cells, Size, Above
<1> HIDE DEF c
<1>5. ASSUME NEW k \in 1 .. n + 1
      PROVE  Pos(new) - (n + 1) + k - 1 \in Cells
             /\ new.vid[Pos(new) - (n + 1) + k - 1] = text[k]
  <2>1. PICK i \in Int : i = Pos(new) - (n + 1) + k - 1 /\ i = p - n + k - 1
    BY <1>2, <1>4
  <2>2. CASE p = Pos(con) /\ new.vid = [con.vid EXCEPT ![p] = c]
    <3>1. CASE k = n + 1
      BY <1>2, <1>4, <2>1, <2>2, <3>1 DEF Vids, c
    <3>2. CASE k # n + 1
      <4>1. k \in 1 .. n /\ i # p
        BY <1>4, <2>1, <3>2
      <4>2. i \in Cells /\ con.vid[i] = text[k]
        BY <2>1, <2>2, <4>1 DEF Shown
      <4> QED
        BY <2>1, <2>2, <4>1, <4>2 DEF Vids
    <3> QED
      BY <3>1, <3>2
  <2>3. CASE Pos(con) = Size /\ p = Above /\ new.vid = [scroll_up(con.vid) EXCEPT ![p] = c]
    <3>0. scroll_up(con.vid) \in Vids
      BY <1>2, ConsoleAssumption DEF scroll_up, Vids
    <3>1. CASE k = n + 1
      BY <1>2, <1>4, <2>1, <2>3, <3>0, <3>1 DEF Vids, c
    <3>2. CASE k # n + 1
      <4>1. k \in 1 .. n /\ i # p /\ i \in Cells /\ i + C = Size - n + k - 1
        <5>1. n <= s - C /\ p = s - C /\ k \in 1 .. n
          BY <1>4, <2>3, <3>2
        <5> QED
          BY <1>3, <1>4, <2>1, <5>1, SMTT(30)
      <4>2. i + C \in Cells /\ con.vid[i + C] = text[k]
        BY <2>3, <4>1 DEF Shown
      <4>3. scroll_up(con.vid)[i] = text[k]
        BY <1>3, <4>1, <4>2 DEF scroll_up
      <4> QED
        BY <2>1, <2>3, <3>0, <4>1, <4>3 DEF Vids
    <3> QED
      BY <3>1, <3>2
  <2> QED
    BY <1>1, <2>2, <2>3 DEF Put
<1> QED
  BY <1>1, <1>5 DEF Shown, c

\* A backspace takes the last of the characters and leaves the others.
LEMMA RubShown ==
    ASSUME NEW con \in Consoles, NEW text, NEW n \in Nat \ {0}, Shown(con, text, n)
    PROVE  Shown(screen_backspace(con), text, n - 1)
<1>1. PICK new : new = screen_backspace(con) /\ Rubbed(con, new)
  BY BackspaceStep
<1>2. con.vid \in Vids /\ Pos(con) - n \in Cells
  <2>1. Pos(con) - n + 1 - 1 \in Cells
    BY DEF Shown
  <2>2. Pos(con) \in 0 .. Size
    BY Parts, Positions DEF Pos
  <2>3. Pos(con) \in Int
    BY <2>2
  <2> QED
    BY <2>1, <2>3, Parts
<1>3. PICK s \in Nat : Cells = 0 .. s - 1
  BY ConsoleAssumption DEF Cells
<1>4. Pos(con) \in Int
  <2>1. Pos(con) \in 0 .. Size
    BY Parts, Positions DEF Pos
  <2> QED
    BY <2>1
<1>5. PICK p \in Cells : /\ p = Pos(new) /\ Pos(con) = p + 1
                         /\ new.vid = [con.vid EXCEPT ![p] = SPACE]
  BY <1>1, <1>2, <1>3, <1>4 DEF Rubbed
<1>6. ASSUME NEW k \in 1 .. n - 1
      PROVE  Pos(new) - (n - 1) + k - 1 \in Cells
             /\ new.vid[Pos(new) - (n - 1) + k - 1] = text[k]
  <2>1. PICK i \in Int : i = Pos(new) - (n - 1) + k - 1 /\ i = Pos(con) - n + k - 1 /\ i # p
    BY <1>3, <1>5
  <2>2. i \in Cells /\ con.vid[i] = text[k]
    BY <2>1 DEF Shown
  <2> QED
    BY <1>2, <1>5, <2>1, <2>2 DEF Vids
<1> QED
  BY <1>1, <1>6 DEF Shown

\* puts leaves its text before the cursor.
LEMMA PutsShown ==
    ASSUME NEW con \in Consoles, NEW text, Text(text), Len(text) <= Above + 1
    PROVE  Shown(puts(con, text), text, Len(text))
<1>1. PICK f : Written(con, text, f) /\ puts(con, text) = f[Len(text)]
  BY PutsUnfolds
<1>2. PICK L \in Nat : L = Len(text) /\ L <= Above + 1
  BY DEF Text
<1>3. Above \in Int
  BY ConsoleAssumption DEF Above, Size
<1> DEFINE T == {n \in 0 .. L : Shown(f[n], text, n)}
<1>4. 0 \in T
  BY DEF Shown
<1>5. ASSUME NEW n \in 1 .. L, n - 1 \in T PROVE n \in T
  <2>1. PICK m \in Nat : m = n - 1 /\ n = m + 1 /\ m \in 0 .. L
    OBVIOUS
  <2>2. f[m] \in Consoles /\ f[n] = putc(f[m], text[n]) /\ text[m + 1] \in Glyphs
    BY <1>1, <1>2, <2>1 DEF Written, Text
  <2>3. m <= Above /\ Shown(f[m], text, m)
    BY <1>2, <1>3, <1>5, <2>1
  <2>4. Shown(putc(f[m], text[m + 1]), text, m + 1)
    BY <2>2, <2>3, PutShown
  <2> QED
    BY <2>1, <2>2, <2>4
<1> HIDE DEF T
<1>6. L \in T
  <2>1. Inductive(L, T)
    BY <1>4, <1>5 DEF Inductive
  <2> QED
    BY <2>1, Induction
<1> QED
  BY <1>1, <1>2, <1>6 DEF T

-----------------------------------------------------------------------------
(***************************************************************************)
(* Lines.                                                                  *)
(***************************************************************************)

\* Lines are sequences of visible characters that fit in the buffer.
LEMMA LineFacts ==
    ASSUME NEW l \in Lines
    PROVE  l \in Seq(Chars) /\ Len(l) \in 0 .. BUF_SIZE - 1 /\ Text(l)
<1>1. PICK n \in 0 .. BUF_SIZE - 1 : l \in [1 .. n -> Chars]
  BY DEF Lines
<1>2. l \in Seq(Chars) /\ Len(l) = n
  BY <1>1
<1> QED
  BY <1>1, <1>2, VideoAssumption DEF Text

\* A sequence of characters that fits is a line.
LEMMA LineOf ==
    ASSUME NEW l \in Seq(Chars), Len(l) <= BUF_SIZE - 1
    PROVE  l \in Lines
<1>1. PICK n \in Nat : n = Len(l)
  OBVIOUS
<1>2. n \in 0 .. BUF_SIZE - 1 /\ l \in [1 .. n -> Chars]
  BY <1>1, VideoAssumption
<1> QED
  BY <1>2 DEF Lines

\* No character is a line.
LEMMA EmptyLine == <<>> \in Lines
<1>1. <<>> \in Seq(Chars) /\ Len(<<>>) <= BUF_SIZE - 1
  BY VideoAssumption
<1> QED
  BY <1>1, LineOf

\* What the keyboard makes of a line is a line.
LEMMA LineEdits ==
    ASSUME NEW l \in Lines
    PROVE  /\ <<>> \in Lines
           /\ \A c \in Chars : Len(l) < BUF_SIZE - 1 => Append(l, c) \in Lines
           /\ l # <<>> => /\ Front(l) \in Lines /\ Len(Front(l)) = Len(l) - 1 /\ Len(l) > 0
                          /\ \A k \in 1 .. Len(l) - 1 : Front(l)[k] = l[k]
<1>1. l \in Seq(Chars) /\ Len(l) \in 0 .. BUF_SIZE - 1
  BY LineFacts
<1>2. <<>> \in Lines
  BY EmptyLine
<1>3. ASSUME NEW c \in Chars, Len(l) < BUF_SIZE - 1 PROVE Append(l, c) \in Lines
  <2>1. Append(l, c) \in Seq(Chars) /\ Len(Append(l, c)) <= BUF_SIZE - 1
    BY <1>1, <1>3, VideoAssumption
  <2> QED
    BY <2>1, LineOf
<1>4. ASSUME l # <<>>
      PROVE  /\ Front(l) \in Lines /\ Len(Front(l)) = Len(l) - 1 /\ Len(l) > 0
             /\ \A k \in 1 .. Len(l) - 1 : Front(l)[k] = l[k]
  <2>1. Len(l) > 0
    BY <1>1, <1>4
  <2>2. PICK f : f = SubSeq(l, 1, Len(l) - 1)
    OBVIOUS
  <2>3. f \in Seq(Chars) /\ Len(f) = Len(l) - 1 /\ \A k \in 1 .. Len(l) - 1 : f[k] = l[k]
    <3>0. PICK n \in Nat : n = Len(l) - 1
      BY <1>1, <2>1
    <3>1. \A i \in 1 .. n : l[i] \in Chars
      BY <1>1, <3>0
    <3>2. /\ SubSeq(l, 1, n) \in Seq(Chars)
          /\ Len(SubSeq(l, 1, n)) = IF 1 <= n THEN n - 1 + 1 ELSE 0
          /\ \A i \in 1 .. n - 1 + 1 : SubSeq(l, 1, n)[i] = l[1 + i - 1]
      BY <3>1, SubSeqProperties
    <3>3. Len(f) = n
      BY <2>2, <3>0, <3>2
    <3>4. ASSUME NEW k \in 1 .. n PROVE f[k] = l[k]
      <4>1. k \in 1 .. n - 1 + 1 /\ 1 + k - 1 = k
        OBVIOUS
      <4> QED
        BY <2>2, <3>0, <3>2, <4>1
    <3> QED
      BY <2>2, <3>0, <3>2, <3>3, <3>4
  <2>4. Front(l) = f
    BY <2>2 DEF Front
  <2>5. f \in Lines
    BY <1>1, <2>3, LineOf, VideoAssumption
  <2> QED
    BY <2>1, <2>3, <2>4, <2>5
<1> QED
  BY <1>2, <1>3, <1>4

-----------------------------------------------------------------------------
(***************************************************************************)
(* The terminals.                                                          *)
(***************************************************************************)

\* The page that holds the screen of a terminal, and its console.
PageOf(ct, t) == IF t = ct THEN MAIN_VID ELSE t

Con(m, sv, ct, t) == [vid |-> m[PageOf(ct, t)], x |-> sv[t].x, y |-> sv[t].y]

ConsoleOf(t) == Con(mem, saved, curr_ter, t)

\* The running terminal has its page and the keyboard its terminal, except between Alt-Fn
\* and the tick that follows.
Follow ==
    ~tick_due => /\ page = PageOf(curr_ter, curr_process)
                 /\ on_screen = 1 <=> curr_process = curr_ter
                 /\ kb_enabled => curr_process = curr_ter

\* A terminal that has not run has its cursor at the origin.
Fresh == \A t \in Terminals \ started : saved[t] = Origin

Base == TypeOK /\ CursorFollows /\ Follow /\ Fresh

\* The types of the display.
DisplayOK ==
    /\ mem \in [Pages -> Vids]
    /\ page \in Pages /\ user_page \in Pages
    /\ screen \in Cursors /\ saved \in [Terminals -> Cursors]
    /\ vga_cursor \in 0 .. NUM_ROWS * NUM_COLS
    /\ on_screen \in {0, 1} /\ kb_enabled \in BOOLEAN /\ tick_due \in BOOLEAN
    /\ curr_ter \in Terminals /\ curr_process \in started
    /\ started \subseteq Terminals /\ vidmapped \in BOOLEAN

\* The types of the lines.
LinesOK ==
    /\ typing \in [Terminals -> Lines] /\ history \in [Terminals -> Lines]
    /\ mixed \in [Terminals -> BOOLEAN]

\* The type invariant in two parts.
LEMMA Types == TypeOK <=> DisplayOK /\ LinesOK
BY DEF TypeOK, DisplayOK, LinesOK, Vids

\* A cursor is the position of a console.
LEMMA CursorParts ==
    ASSUME NEW s \in Cursors
    PROVE  s.x \in Columns /\ s.y \in Rows /\ s = [x |-> s.x, y |-> s.y]
BY DEF Cursors, Columns, Rows

\* The consoles are consoles.
LEMMA ConType ==
    ASSUME NEW m \in [Pages -> Vids], NEW sv \in [Terminals -> Cursors], NEW ct \in Terminals,
           NEW t \in Terminals
    PROVE  Con(m, sv, ct, t) \in Consoles
<1>1. m[PageOf(ct, t)] \in Vids
  BY DEF PageOf, Pages
<1>2. sv[t].x \in Columns /\ sv[t].y \in Rows
  BY CursorParts
<1> QED
  BY <1>1, <1>2, Built DEF Con

\* lib.c works on the console of the running terminal.
LEMMA HereIs ==
    ASSUME Base, ~tick_due
    PROVE  /\ curr_process \in Terminals /\ ConsoleOf(curr_process) \in Consoles
           /\ Here = ConsoleOf(curr_process)
<1>1. DisplayOK /\ curr_process \in Terminals
  BY Types DEF Base, DisplayOK
<1>2. page = PageOf(curr_ter, curr_process) /\ screen = saved[curr_process]
  BY DEF Base, Follow, CursorFollows
<1>3. ConsoleOf(curr_process) \in Consoles
  BY <1>1, ConType DEF ConsoleOf, DisplayOK
<1> QED
  BY <1>1, <1>2, <1>3 DEF Here, ConsoleOf, Con

\* Keys are handled while the terminal shown runs.
LEMMA KeyHere ==
    ASSUME Base, KeyPressed
    PROVE  ~tick_due /\ on_screen = 1 /\ curr_process = curr_ter /\ curr_ter \in Terminals
BY DEF Base, Follow, KeyPressed, TypeOK

\* The console of t becomes con and the others stay as they are.
Changes(t, con) ==
    \A s \in Terminals :
        Con(mem', saved', curr_ter', s) = IF s = t THEN con ELSE Con(mem, saved, curr_ter, s)

Same == \A s \in Terminals : Con(mem', saved', curr_ter', s) = Con(mem, saved, curr_ter, s)

\* What a step does to the display.
Shape == DisplayOK' /\ CursorFollows' /\ Follow' /\ Fresh'

\* Drawing changes the console of the running terminal and no other, on the screen or in
\* the background.
LEMMA DrawStep ==
    ASSUME Base, ~tick_due, NEW con \in Consoles, Draw(con)
    PROVE  Shape /\ Changes(curr_process, con)
<1>1. DisplayOK /\ curr_process \in Terminals /\ curr_ter \in Terminals
  BY Types DEF Base, DisplayOK
<1>2. /\ page = PageOf(curr_ter, curr_process) /\ screen = saved[curr_process]
      /\ on_screen = 1 <=> curr_process = curr_ter
      /\ vga_cursor = Offset(saved[curr_ter].x, saved[curr_ter].y)
      /\ kb_enabled => curr_process = curr_ter
  BY DEF Base, Follow, CursorFollows
<1>3. PICK v \in Vids, x \in Columns, y \in Rows :
        /\ con = [vid |-> v, x |-> x, y |-> y] /\ con.vid = v /\ con.x = x /\ con.y = y
  BY Parts
<1>4. PICK cur \in Cursors : cur = [x |-> x, y |-> y] /\ cur.x = x /\ cur.y = y
  <2>1. [x |-> x, y |-> y] \in Cursors
    BY DEF Cursors, Columns, Rows
  <2> QED
    BY <2>1
<1>5. /\ mem' = [mem EXCEPT ![page] = v] /\ screen' = cur
      /\ saved' = [saved EXCEPT ![curr_process] = cur]
      /\ vga_cursor' = IF on_screen = 1 THEN Offset(x, y) ELSE vga_cursor
      /\ page' = page /\ user_page' = user_page /\ vidmapped' = vidmapped
      /\ curr_ter' = curr_ter /\ curr_process' = curr_process /\ on_screen' = on_screen
      /\ kb_enabled' = kb_enabled /\ started' = started /\ tick_due' = tick_due
  BY <1>3, <1>4 DEF Draw, Display, set_cursor, maps, sched
<1>6. DisplayOK'
  <2>1. Offset(x, y) \in 0 .. NUM_ROWS * NUM_COLS
    BY Positions DEF Size
  <2>2. mem' \in [Pages -> Vids] /\ saved' \in [Terminals -> Cursors]
    BY <1>1, <1>5 DEF DisplayOK
  <2>3. vga_cursor' \in 0 .. NUM_ROWS * NUM_COLS
    BY <1>1, <1>5, <2>1 DEF DisplayOK
  <2> QED
    BY <1>1, <1>5, <2>2, <2>3 DEF DisplayOK
<1>7. saved'[curr_process] = cur /\ \A s \in Terminals \ {curr_process} : saved'[s] = saved[s]
  BY <1>1, <1>5 DEF DisplayOK
<1>8. CursorFollows'
  <2>1. CASE curr_process = curr_ter
    BY <1>2, <1>4, <1>5, <1>7, <2>1 DEF CursorFollows
  <2>2. CASE curr_process # curr_ter
    BY <1>1, <1>2, <1>4, <1>5, <1>7, <2>2 DEF CursorFollows
  <2> QED
    BY <2>1, <2>2
<1>9. Follow' /\ Fresh'
  <2>1. Follow'
    BY <1>2, <1>5 DEF Follow
  <2>2. curr_process \in started
    BY <1>1 DEF DisplayOK
  <2>3. \A t \in Terminals \ started : saved'[t] = Origin
    BY <1>7, <2>2 DEF Base, Fresh
  <2>4. Fresh'
    BY <1>5, <2>3 DEF Fresh
  <2> QED
    BY <2>1, <2>4
<1>10. ASSUME NEW s \in Terminals
       PROVE  Con(mem', saved', curr_ter', s) =
                IF s = curr_process THEN con ELSE Con(mem, saved, curr_ter, s)
  <2>1. page \in Pages /\ mem \in [Pages -> Vids] /\ PageOf(curr_ter, s) \in Pages
    BY <1>1 DEF DisplayOK, PageOf, Pages
  <2>2. CASE s = curr_process
    <3>1. mem'[PageOf(curr_ter, s)] = v /\ saved'[s] = cur
      BY <1>2, <1>5, <1>7, <2>1, <2>2
    <3> QED
      BY <1>3, <1>4, <1>5, <2>2, <3>1 DEF Con
  <2>3. CASE s # curr_process
    <3>1. PageOf(curr_ter, s) # page
      BY <1>1, <1>2, <2>3 DEF PageOf, MAIN_VID, Terminals
    <3>2. mem'[PageOf(curr_ter, s)] = mem[PageOf(curr_ter, s)] /\ saved'[s] = saved[s]
      BY <1>5, <1>7, <2>1, <2>3, <3>1
    <3> QED
      BY <1>5, <2>3, <3>2 DEF Con
  <2> QED
    BY <2>2, <2>3
<1> QED
  BY <1>6, <1>8, <1>9, <1>10 DEF Shape, Changes

\* Alt-Fn exchanges the pages: every terminal keeps its console.
LEMMA SwitchStep ==
    ASSUME Base, NEW new \in Terminals, switch_ter(new)
    PROVE  Shape /\ Same
<1>1. DisplayOK /\ curr_process \in Terminals /\ curr_ter \in Terminals
  BY Types DEF Base, DisplayOK
<1>2. /\ ~tick_due /\ page = MAIN_VID /\ curr_process = curr_ter
      /\ screen = saved[curr_process] /\ new # curr_ter
  BY KeyHere DEF Base, Follow, CursorFollows, switch_ter, PageOf
<1>3. PICK stored : stored = [mem EXCEPT ![curr_ter] = mem[MAIN_VID]]
  OBVIOUS
<1>4. /\ mem' = [stored EXCEPT ![MAIN_VID] = stored[new]]
      /\ page' = curr_ter /\ user_page' = curr_ter /\ curr_ter' = new /\ tick_due' = TRUE
      /\ vga_cursor' = Offset(saved[new].x, saved[new].y)
      /\ curr_process' = curr_process /\ on_screen' = on_screen /\ kb_enabled' = kb_enabled
      /\ started' = started /\ screen' = screen /\ saved' = saved /\ vidmapped' = vidmapped
  BY <1>2, <1>3 DEF switch_ter, swap_vid_mem, change_vidmem
<1>5. /\ MAIN_VID \in Pages /\ curr_ter \in Pages /\ new \in Pages /\ MAIN_VID \notin Terminals
      /\ mem \in [Pages -> Vids]
  BY <1>1 DEF Pages, MAIN_VID, Terminals, DisplayOK
<1>6. mem' \in [Pages -> Vids]
  BY <1>3, <1>4, <1>5
<1>7. ASSUME NEW s \in Terminals PROVE mem'[PageOf(new, s)] = mem[PageOf(curr_ter, s)]
  <2>0. s \in Pages /\ s # MAIN_VID
    BY <1>5 DEF Pages
  <2>1. CASE s = new
    BY <1>1, <1>2, <1>3, <1>4, <1>5, <2>1 DEF PageOf
  <2>2. CASE s = curr_ter
    BY <1>1, <1>2, <1>3, <1>4, <1>5, <2>2 DEF PageOf
  <2>3. CASE s # new /\ s # curr_ter
    BY <1>3, <1>4, <1>5, <2>0, <2>3 DEF PageOf
  <2> QED
    BY <2>1, <2>2, <2>3
<1>8. Same
  BY <1>4, <1>7 DEF Same, Con
<1>9. DisplayOK'
  <2>1. saved[new].x \in Columns /\ saved[new].y \in Rows
    BY <1>1, CursorParts DEF DisplayOK
  <2>2. vga_cursor' \in 0 .. NUM_ROWS * NUM_COLS
    BY <1>4, <2>1, Positions DEF Size
  <2> QED
    BY <1>1, <1>4, <1>5, <1>6, <2>2 DEF DisplayOK
<1>10. CursorFollows' /\ Follow' /\ Fresh'
  BY <1>2, <1>4 DEF Base, CursorFollows, Follow, Fresh
<1> QED
  BY <1>8, <1>9, <1>10 DEF Shape

\* A tick maps another page and takes another cursor: every terminal keeps its console.
LEMMA TickStep ==
    ASSUME Base, Tick
    PROVE  Shape /\ Same /\ curr_process' \in Terminals /\ user_page' = page'
<1>1. DisplayOK /\ curr_process \in Terminals /\ curr_ter \in Terminals
  BY Types DEF Base, DisplayOK
<1>2. PICK next \in Terminals : next = (curr_process + 1) % NUM_TERMINALS
  <2>1. PICK c \in Terminals : c = curr_process
    BY <1>1
  <2>2. (c + 1) % NUM_TERMINALS \in Terminals
    BY VideoAssumption DEF Terminals
  <2> QED
    BY <2>1, <2>2
<1>3. /\ curr_process' = next /\ on_screen' = (IF next = curr_ter THEN 1 ELSE 0)
      /\ kb_enabled' = (next = curr_ter)
      /\ page' = PageOf(curr_ter, next) /\ user_page' = page'
      /\ saved' = IF next \in started THEN saved ELSE [saved EXCEPT ![next] = Origin]
      /\ screen' = saved'[next] /\ started' = started \cup {next} /\ tick_due' = FALSE
      /\ mem' = mem /\ vga_cursor' = vga_cursor /\ curr_ter' = curr_ter
      /\ vidmapped' = vidmapped
  BY <1>2 DEF Tick, change_vidmem, PageOf
<1>4. saved' = saved
  <2>1. CASE next \in started
    BY <1>3, <2>1
  <2>2. CASE next \notin started
    <3>1. saved[next] = Origin /\ saved \in [Terminals -> Cursors]
      BY <1>1, <2>2 DEF Base, Fresh, DisplayOK
    <3>2. saved = [saved EXCEPT ![next] = Origin]
      BY <3>1
    <3> QED
      BY <1>3, <2>2, <3>2
  <2> QED
    BY <2>1, <2>2
<1>5. Same
  BY <1>3, <1>4 DEF Same
<1>6. DisplayOK'
  <2>1. page' \in Pages /\ user_page' \in Pages
    BY <1>3 DEF PageOf, Pages
  <2>2. kb_enabled' \in BOOLEAN /\ tick_due' \in BOOLEAN /\ vidmapped' \in BOOLEAN
    BY <1>1, <1>3, Zenon DEF DisplayOK
  <2>3. screen' \in Cursors /\ saved' \in [Terminals -> Cursors]
    BY <1>1, <1>3, <1>4 DEF DisplayOK
  <2>4. /\ on_screen' \in {0, 1} /\ curr_process' \in started' /\ started' \subseteq Terminals
        /\ mem' \in [Pages -> Vids] /\ vga_cursor' \in 0 .. NUM_ROWS * NUM_COLS
        /\ curr_ter' \in Terminals
    BY <1>1, <1>3 DEF DisplayOK
  <2> QED
    BY <2>1, <2>2, <2>3, <2>4 DEF DisplayOK
<1>7. CursorFollows' /\ Fresh'
  BY <1>3, <1>4 DEF Base, CursorFollows, Fresh
<1>8. Follow'
  <2>1. kb_enabled' => next = curr_ter
    BY <1>3, Zenon
  <2> QED
    BY <1>3, <2>1 DEF Follow
<1> QED
  BY <1>3, <1>5, <1>6, <1>7, <1>8 DEF Shape

\* A program stores a character in the page that its video address is mapped to.
LEMMA PixelStep ==
    ASSUME Base, NEW i \in Cells, NEW c \in Pixels, StorePixel(i, c)
    PROVE  /\ Shape
           /\ user_page = page =>
                Changes(curr_process, [ConsoleOf(curr_process) EXCEPT !.vid[i] = c])
<1>1. DisplayOK /\ curr_process \in Terminals /\ curr_ter \in Terminals
  BY Types DEF Base, DisplayOK
<1>2. /\ ~tick_due /\ mem' = [mem EXCEPT ![user_page][i] = c] /\ screen' = screen
      /\ saved' = saved /\ vga_cursor' = vga_cursor
      /\ page' = page /\ user_page' = user_page /\ vidmapped' = vidmapped
      /\ curr_ter' = curr_ter /\ curr_process' = curr_process /\ on_screen' = on_screen
      /\ kb_enabled' = kb_enabled /\ started' = started /\ tick_due' = tick_due
  BY DEF StorePixel, maps, sched
<1>3. PICK m \in [Pages -> Vids], u \in Pages : m = mem /\ u = user_page
  BY <1>1 DEF DisplayOK
<1>4. PICK w : w = [m[u] EXCEPT ![i] = c]
  OBVIOUS
<1>5. w \in Vids
  BY <1>4, VideoAssumption DEF Vids
<1>6. mem' = [m EXCEPT ![u] = w]
  BY <1>2, <1>3, <1>4, Zenon
<1>7. DisplayOK'
  <2>1. mem' \in [Pages -> Vids]
    BY <1>5, <1>6
  <2> QED
    BY <1>1, <1>2, <2>1 DEF DisplayOK
<1>8. CursorFollows' /\ Follow' /\ Fresh'
  BY <1>2 DEF Base, CursorFollows, Follow, Fresh
<1>9. ASSUME user_page = page, NEW s \in Terminals
      PROVE  Con(mem', saved', curr_ter', s) =
               IF s = curr_process THEN [ConsoleOf(curr_process) EXCEPT !.vid[i] = c]
               ELSE Con(mem, saved, curr_ter, s)
  <2>1. /\ u = PageOf(curr_ter, curr_process) /\ PageOf(curr_ter, s) \in Pages
    BY <1>1, <1>2, <1>3, <1>9 DEF Base, Follow, PageOf, Pages
  <2>2. CASE s = curr_process
    <3>1. PICK x, y : ConsoleOf(s) = [vid |-> m[u], x |-> x, y |-> y]
                      /\ Con(mem', saved', curr_ter', s) = [vid |-> w, x |-> x, y |-> y]
      <4>1. mem'[PageOf(curr_ter, s)] = w
        BY <1>6, <2>1, <2>2
      <4> QED
        BY <1>2, <1>3, <2>1, <2>2, <4>1 DEF ConsoleOf, Con
    <3>2. [ConsoleOf(s) EXCEPT !.vid[i] = c] = [vid |-> w, x |-> x, y |-> y]
      <4>0. PICK r : r = [vid |-> m[u], x |-> x, y |-> y]
        OBVIOUS
      <4>1. r = [vid |-> m[u], x |-> x, y |-> y] /\ r.vid = m[u]
        BY <4>0
      <4>2. [r EXCEPT !.vid[i] = c] = [r EXCEPT !.vid = [m[u] EXCEPT ![i] = c]]
        BY <4>1, Zenon
      <4>3. [r EXCEPT !.vid = w] = [vid |-> w, x |-> x, y |-> y]
        BY <4>1
      <4> QED
        BY <1>4, <3>1, <4>1, <4>2, <4>3, Zenon
    <3> QED
      BY <2>2, <3>1, <3>2
  <2>3. CASE s # curr_process
    <3>1. PageOf(curr_ter, s) # u
      BY <1>1, <2>1, <2>3 DEF PageOf, MAIN_VID, Terminals
    <3>2. mem'[PageOf(curr_ter, s)] = mem[PageOf(curr_ter, s)]
      BY <1>3, <1>6, <2>1, <3>1
    <3> QED
      BY <1>2, <2>3, <3>2 DEF Con
  <2> QED
    BY <2>2, <2>3
<1> QED
  BY <1>7, <1>8, <1>9 DEF Shape, Changes

-----------------------------------------------------------------------------
(***************************************************************************)
(* The keyboard.                                                           *)
(***************************************************************************)

\* A line stands before the cursor, unless output has come into it.
Visible(m, con, l) == m \/ Shown(con, l, Len(l))

Clear == \A t \in Terminals : Visible(mixed[t], ConsoleOf(t), typing[t])

\* A change of one terminal's console and line leaves the other lines where they are.
LEMMA ClearKept ==
    ASSUME Clear, NEW t \in Terminals, NEW con, Changes(t, con),
           \A s \in Terminals \ {t} : typing'[s] = typing[s] /\ mixed'[s] = mixed[s],
           Visible(mixed'[t], con, typing'[t])
    PROVE  Clear'
<1>1. ASSUME NEW s \in Terminals
      PROVE  Visible(mixed'[s], Con(mem', saved', curr_ter', s), typing'[s])
  <2>1. CASE s = t
    BY <2>1 DEF Changes
  <2>2. CASE s # t
    BY <2>2 DEF Changes, Clear, ConsoleOf
  <2> QED
    BY <2>1, <2>2
<1> QED
  BY <1>1 DEF Clear, ConsoleOf

\* A step that changes no console and no line.
LEMMA ClearSame ==
    ASSUME Clear, Same, typing' = typing, mixed' = mixed
    PROVE  Clear'
BY DEF Clear, ConsoleOf, Same

\* A key of the line editor: the console of the terminal shown becomes con, its line l.
Edits(con, l, m) ==
    /\ KeyPressed /\ con \in Consoles /\ l \in Lines /\ m \in BOOLEAN
    /\ Draw(con)
    /\ typing' = [typing EXCEPT ![curr_ter] = l]
    /\ mixed' = [mixed EXCEPT ![curr_ter] = m]
    /\ history' \in [Terminals -> Lines]

\* The mappings and the scheduler are left alone.
Elsewhere == /\ page' = page /\ user_page' = user_page /\ tick_due' = tick_due
             /\ curr_ter' = curr_ter /\ curr_process' = curr_process

\* What such a key does to the terminals.
LEMMA EditStep ==
    ASSUME Base, NEW con, NEW l, NEW m, Edits(con, l, m)
    PROVE  /\ Base' /\ Changes(curr_ter, con) /\ Elsewhere
           /\ Clear /\ Visible(m, con, l) => Clear'
<1>1. /\ con \in Consoles /\ l \in Lines /\ m \in BOOLEAN /\ Draw(con)
      /\ typing' = [typing EXCEPT ![curr_ter] = l] /\ mixed' = [mixed EXCEPT ![curr_ter] = m]
      /\ history' \in [Terminals -> Lines]
  BY DEF Edits
<1>2. ~tick_due /\ curr_process = curr_ter /\ curr_ter \in Terminals
  BY KeyHere DEF Edits
<1>3. Shape /\ Changes(curr_ter, con)
  BY <1>1, <1>2, DrawStep
<1>4. typing \in [Terminals -> Lines] /\ mixed \in [Terminals -> BOOLEAN]
  BY DEF Base, TypeOK
<1>5. LinesOK'
  BY <1>1, <1>2, <1>4, Zenon DEF LinesOK
<1>6. Base'
  BY <1>3, <1>5 DEF Base, Shape, TypeOK, DisplayOK, LinesOK, Vids
<1>7. Elsewhere
  BY <1>1 DEF Draw, maps, sched, Elsewhere
<1>8. ASSUME Clear, Visible(m, con, l) PROVE Clear'
  <2>1. typing'[curr_ter] = l /\ mixed'[curr_ter] = m
    BY <1>1, <1>2, <1>4
  <2>2. \A s \in Terminals \ {curr_ter} : typing'[s] = typing[s] /\ mixed'[s] = mixed[s]
    BY <1>1, <1>2, <1>4
  <2>3. Visible(mixed'[curr_ter], con, typing'[curr_ter])
    BY <1>8, <2>1
  <2> QED
    BY <1>2, <1>3, <1>8, <2>2, <2>3, ClearKept
<1> QED
  BY <1>3, <1>6, <1>7, <1>8

\* The console and the line that keys work on.
Now == ConsoleOf(curr_ter)
Line == typing[curr_ter]

\* Where a key starts from.
LEMMA KeyFacts ==
    ASSUME Base, KeyPressed
    PROVE  /\ Here = Now /\ Now \in Consoles /\ curr_ter \in Terminals
           /\ Line \in Lines /\ history[curr_ter] \in Lines /\ mixed[curr_ter] \in BOOLEAN
           /\ typing \in [Terminals -> Lines] /\ history \in [Terminals -> Lines]
           /\ mixed \in [Terminals -> BOOLEAN] /\ on_screen = 1
<1>1. ~tick_due /\ on_screen = 1 /\ curr_process = curr_ter /\ curr_ter \in Terminals
  BY KeyHere
<1>2. Here = Now /\ Now \in Consoles
  BY <1>1, HereIs DEF Now
<1>3. /\ typing \in [Terminals -> Lines] /\ history \in [Terminals -> Lines]
      /\ mixed \in [Terminals -> BOOLEAN]
  BY DEF Base, TypeOK
<1> QED
  BY <1>1, <1>2, <1>3, Zenon DEF Line

\* A line fits above the last row, but for its last character.
LEMMA LineFits ==
    ASSUME NEW l \in Lines
    PROVE  Len(l) <= Above + 1 /\ (Len(l) < BUF_SIZE - 1 => Len(l) <= Above)
<1>1. PICK a \in Int : a = (NUM_ROWS - 1) * NUM_COLS
  BY ConsoleAssumption
<1>2. Above = a
  BY <1>1, ConsoleAssumption DEF Above, Size
<1>3. Len(l) \in 0 .. BUF_SIZE - 1 /\ BUF_SIZE \in Nat /\ BUF_SIZE - 2 <= a
  BY <1>1, LineFacts, VideoAssumption
<1> QED
  BY <1>2, <1>3

\* A character that is typed follows the line.
LEMMA PrintCharStep ==
    ASSUME Base, NEW c \in Chars, print_char(c)
    PROVE  /\ Edits(putc(Now, c), Append(Line, c), mixed[curr_ter])
           /\ Visible(mixed[curr_ter], Now, Line) =>
                Visible(mixed[curr_ter], putc(Now, c), Append(Line, c))
<1>1. /\ KeyPressed /\ Len(Line) < BUF_SIZE - 1
      /\ typing' = [typing EXCEPT ![curr_ter] = Append(Line, c)]
      /\ Draw(putc(Here, c)) /\ history' = history /\ mixed' = mixed
  BY DEF print_char, Line
<1>2. /\ Here = Now /\ Now \in Consoles /\ curr_ter \in Terminals /\ Line \in Lines
      /\ history \in [Terminals -> Lines] /\ mixed[curr_ter] \in BOOLEAN
      /\ mixed \in [Terminals -> BOOLEAN]
  BY <1>1, KeyFacts
<1>3. c \in Glyphs
  BY VideoAssumption
<1>4. putc(Now, c) \in Consoles
  BY <1>2, <1>3, PutcType
<1>5. Append(Line, c) \in Lines
  BY <1>1, <1>2, LineEdits
<1>6. mixed' = [mixed EXCEPT ![curr_ter] = mixed[curr_ter]]
  BY <1>1, <1>2
<1>7. ASSUME Shown(Now, Line, Len(Line))
      PROVE  Shown(putc(Now, c), Append(Line, c), Len(Append(Line, c)))
  <2>0. PICK l \in Lines : l = Line
    BY <1>2
  <2>1. PICK n \in Nat : n = Len(l) /\ l \in Seq(Chars) /\ n <= Above /\ l = Line
    BY <1>1, <2>0, LineFacts, LineFits
  <2>2. PICK text : text = Append(l, c)
    OBVIOUS
  <2>3. /\ Len(text) = n + 1 /\ text[n + 1] = c
        /\ \A k \in 1 .. n : text[k] = l[k]
    BY <2>1, <2>2
  <2>4. Shown(Now, text, n)
    BY <1>7, <2>1, <2>3 DEF Shown
  <2>5. Shown(putc(Now, text[n + 1]), text, n + 1)
    BY <1>2, <1>3, <2>1, <2>3, <2>4, PutShown
  <2> QED
    BY <2>1, <2>2, <2>3, <2>5
<1>8. Edits(putc(Now, c), Append(Line, c), mixed[curr_ter])
  BY <1>1, <1>2, <1>4, <1>5, <1>6 DEF Edits
<1> QED
  BY <1>7, <1>8 DEF Visible

\* A backspace takes the last character off the line and off the screen.
LEMMA BackspaceKey ==
    ASSUME Base, backspace
    PROVE  /\ Line # <<>>
           /\ \E m \in BOOLEAN :
                /\ Edits(screen_backspace(Now), Front(Line), m)
                /\ Visible(mixed[curr_ter], Now, Line) =>
                     Visible(m, screen_backspace(Now), Front(Line))
<1>1. /\ KeyPressed /\ Line # <<>>
      /\ typing' = [typing EXCEPT ![curr_ter] = Front(Line)]
      /\ mixed' = [mixed EXCEPT ![curr_ter] = mixed[curr_ter] /\ Len(Line) > 1]
      /\ Rub(screen_backspace(Here)) /\ history' = history
  BY DEF backspace, Line
<1>2. /\ Here = Now /\ Now \in Consoles /\ curr_ter \in Terminals /\ Line \in Lines
      /\ history \in [Terminals -> Lines] /\ on_screen = 1
  BY <1>1, KeyFacts
<1>3. screen_backspace(Now) \in Consoles
  BY <1>2, BackspaceStep DEF Rubbed
<1>4. Draw(screen_backspace(Now))
  BY <1>1, <1>2 DEF Rub, Draw
<1>5. PICK m \in BOOLEAN : m = (mixed[curr_ter] /\ Len(Line) > 1)
  OBVIOUS
<1>6. PICK l \in Lines, f \in Lines, n \in Nat :
        /\ l = Line /\ f = Front(Line) /\ n = Len(l)
        /\ Len(f) = n - 1 /\ n > 0 /\ \A k \in 1 .. n - 1 : f[k] = l[k]
  <2>1. PICK l \in Lines : l = Line /\ l # <<>>
    BY <1>1, <1>2
  <2>2. PICK n \in Nat : n = Len(l)
    BY LineFacts
  <2>3. /\ Front(l) \in Lines /\ Len(Front(l)) = n - 1 /\ n > 0
        /\ \A k \in 1 .. n - 1 : Front(l)[k] = l[k]
    BY <2>1, <2>2, LineEdits
  <2> QED
    BY <2>1, <2>2, <2>3
<1>7. Edits(screen_backspace(Now), f, m)
  BY <1>1, <1>2, <1>3, <1>4, <1>5, <1>6 DEF Edits
<1>8. ASSUME Visible(mixed[curr_ter], Now, l) PROVE Visible(m, screen_backspace(Now), f)
  <2>1. CASE Shown(Now, l, n)
    <3>1. Shown(screen_backspace(Now), l, n - 1)
      BY <1>2, <1>6, <2>1, RubShown
    <3>2. Shown(screen_backspace(Now), f, n - 1)
      BY <1>6, <3>1 DEF Shown
    <3> QED
      BY <1>6, <3>2 DEF Visible
  <2>2. CASE mixed[curr_ter] /\ ~ Len(Line) > 1
    <3>1. Len(f) = 0
      BY <1>6, <2>2
    <3>2. Shown(screen_backspace(Now), f, 0)
      BY DEF Shown
    <3> QED
      BY <3>1, <3>2 DEF Visible
  <2>3. CASE mixed[curr_ter] /\ Len(Line) > 1
    BY <1>5, <2>3 DEF Visible
  <2> QED
    BY <1>6, <1>8, <2>1, <2>2, <2>3 DEF Visible
<1> QED
  BY <1>1, <1>6, <1>7, <1>8

\* Enter starts an empty line on a new row.
LEMMA EnterStep ==
    ASSUME Base, enter_key
    PROVE  Edits(putc(Now, NL), <<>>, FALSE) /\ Visible(FALSE, putc(Now, NL), <<>>)
<1>1. /\ KeyPressed /\ history' = [history EXCEPT ![curr_ter] = Line]
      /\ typing' = [typing EXCEPT ![curr_ter] = <<>>]
      /\ mixed' = [mixed EXCEPT ![curr_ter] = FALSE] /\ Draw(putc(Here, NL))
  BY DEF enter_key, Line
<1>2. /\ Here = Now /\ Now \in Consoles /\ curr_ter \in Terminals /\ Line \in Lines
      /\ history \in [Terminals -> Lines]
  BY <1>1, KeyFacts
<1>3. putc(Now, NL) \in Consoles
  BY <1>2, PutcType
<1>4. <<>> \in Lines
  BY <1>2, LineEdits
<1>5. history' \in [Terminals -> Lines]
  BY <1>1, <1>2
<1>6. Edits(putc(Now, NL), <<>>, FALSE)
  BY <1>1, <1>2, <1>3, <1>4, <1>5 DEF Edits
<1>7. Shown(putc(Now, NL), <<>>, 0) /\ Len(<<>>) = 0
  BY DEF Shown
<1> QED
  BY <1>6, <1>7 DEF Visible

\* Writing a line on a console.
LEMMA PutsLine ==
    ASSUME NEW con \in Consoles, NEW l \in Lines
    PROVE  puts(con, l) \in Consoles /\ Visible(FALSE, puts(con, l), l)
<1>1. Text(l) /\ Len(l) <= Above + 1 /\ Len(l) \in Nat
  BY LineFacts, LineFits
<1>2. PICK f : Written(con, l, f) /\ puts(con, l) = f[Len(l)]
  BY <1>1, PutsUnfolds
<1>3. puts(con, l) \in Consoles
  BY <1>1, <1>2 DEF Written
<1> QED
  BY <1>1, <1>3, PutsShown DEF Visible

\* The up arrow puts the last line entered in the place of the line.
LEMMA RecallStep ==
    ASSUME Base, recall
    PROVE  LET l == history[curr_ter]
               con == puts(Erase(Now, Line), l)
           IN  l \in Lines /\ Edits(con, l, FALSE) /\ Visible(FALSE, con, l)
<1>1. PICK l, con : l = history[curr_ter] /\ con = puts(Erase(Now, Line), l)
  OBVIOUS
<1>2. KeyPressed
  BY DEF recall
<1>3. /\ Here = Now /\ Now \in Consoles /\ curr_ter \in Terminals /\ Line \in Lines
      /\ l \in Lines /\ history \in [Terminals -> Lines] /\ on_screen = 1
  BY <1>1, <1>2, KeyFacts
<1>4. Erase(Now, Line) \in Consoles
  <2>1. Len(Line) \in Nat
    BY <1>3, LineFacts
  <2>2. PICK f : Erased(Now, Line, f) /\ Erase(Now, Line) = f[Len(Line)]
    BY <1>3, <2>1, EraseUnfolds
  <2> QED
    BY <2>1, <2>2 DEF Erased
<1>5. con \in Consoles /\ Visible(FALSE, con, l)
  BY <1>1, <1>3, <1>4, PutsLine
<1>6. /\ typing' = [typing EXCEPT ![curr_ter] = l] /\ mixed' = [mixed EXCEPT ![curr_ter] = FALSE]
      /\ Rub(con) \/ Draw(con)
      /\ history' = history
  BY <1>1, <1>3 DEF recall, Line
<1>7. Draw(con)
  BY <1>3, <1>6 DEF Rub, Draw
<1> QED
  BY <1>1, <1>2, <1>3, <1>5, <1>6, <1>7 DEF Edits

\* Ctrl-L leaves the line on an empty screen.
LEMMA ControlLStep ==
    ASSUME Base, control_l
    PROVE  /\ Edits(puts(clear, Line), Line, FALSE) /\ Visible(FALSE, puts(clear, Line), Line)
           /\ typing' = typing
<1>1. /\ KeyPressed /\ mixed' = [mixed EXCEPT ![curr_ter] = FALSE]
      /\ Draw(puts(clear, Line)) /\ typing' = typing /\ history' = history
  BY DEF control_l, Line
<1>2. /\ curr_ter \in Terminals /\ Line \in Lines /\ typing \in [Terminals -> Lines]
      /\ history \in [Terminals -> Lines]
  BY <1>1, KeyFacts
<1>3. clear \in Consoles
  <2>1. Blank \in Vids /\ 0 \in Columns /\ 0 \in Rows
    BY ConsoleAssumption DEF Blank, Vids, Columns, Rows
  <2> QED
    BY <2>1, Built DEF clear
<1>4. puts(clear, Line) \in Consoles /\ Visible(FALSE, puts(clear, Line), Line)
  BY <1>2, <1>3, PutsLine
<1>5. typing' = [typing EXCEPT ![curr_ter] = Line]
  BY <1>1, <1>2 DEF Line
<1> QED
  BY <1>1, <1>2, <1>4, <1>5 DEF Edits

-----------------------------------------------------------------------------
(***************************************************************************)
(* The programs, the timer and Alt-Fn.                                     *)
(***************************************************************************)

\* The two mappings agree.
Paired == ~tick_due => user_page = page

\* The line of the running terminal is mixed with output, or empty.
LEMMA MixedStep ==
    ASSUME LinesOK, curr_process \in Terminals, typing' = typing, history' = history,
           mixed' = [mixed EXCEPT ![curr_process] = typing[curr_process] # <<>>]
    PROVE  /\ LinesOK'
           /\ \A con : Clear /\ Changes(curr_process, con) => Clear'
<1>1. typing \in [Terminals -> Lines] /\ mixed \in [Terminals -> BOOLEAN]
  BY DEF LinesOK
<1>2. PICK m \in BOOLEAN : m = (typing[curr_process] # <<>>)
  OBVIOUS
<1>3. mixed' = [mixed EXCEPT ![curr_process] = m]
  BY <1>2
<1>4. mixed' \in [Terminals -> BOOLEAN] /\ mixed'[curr_process] = m
  BY <1>1, <1>3, Zenon
<1>5. ASSUME NEW con, Clear, Changes(curr_process, con) PROVE Clear'
  <2>1. \A s \in Terminals \ {curr_process} : typing'[s] = typing[s] /\ mixed'[s] = mixed[s]
    BY <1>1, <1>3
  <2>2. Shown(con, <<>>, 0) /\ Len(<<>>) = 0
    BY DEF Shown
  <2>3. Visible(mixed'[curr_process], con, typing'[curr_process])
    BY <1>2, <1>4, <2>2 DEF Visible
  <2> QED
    BY <1>5, <2>1, <2>3, ClearKept
<1> QED
  BY <1>4, <1>5 DEF LinesOK

\* Output appears on the console of the program that writes it.
LEMMA WriteStep ==
    ASSUME Base, NEW c \in Output, terminal_write(c)
    PROVE  /\ Base' /\ Elsewhere /\ (Clear => Clear')
           /\ Changes(curr_process, putc(ConsoleOf(curr_process), c))
<1>1. /\ ~tick_due /\ Draw(putc(Here, c)) /\ typing' = typing /\ history' = history
      /\ mixed' = [mixed EXCEPT ![curr_process] = typing[curr_process] # <<>>]
  BY DEF terminal_write
<1>2. PICK con : con = putc(ConsoleOf(curr_process), c)
  OBVIOUS
<1>3. curr_process \in Terminals /\ con \in Consoles /\ Draw(con)
  BY <1>1, <1>2, HereIs, PutcType, VideoAssumption
<1>4. Shape /\ Changes(curr_process, con)
  BY <1>1, <1>3, DrawStep
<1>5. LinesOK
  BY Types DEF Base
<1>6. LinesOK' /\ (Clear => Clear')
  BY <1>1, <1>3, <1>4, <1>5, MixedStep
<1>7. Base'
  BY <1>4, <1>6 DEF Base, Shape, TypeOK, DisplayOK, LinesOK, Vids
<1>8. Elsewhere
  BY <1>3 DEF Draw, maps, sched, Elsewhere
<1> QED
  BY <1>2, <1>4, <1>6, <1>7, <1>8

\* A character stored in video memory appears on the console of the program that stores
\* it, if the mappings agree.
LEMMA StoreStep ==
    ASSUME Base, NEW i \in Cells, NEW c \in Pixels, StorePixel(i, c)
    PROVE  /\ Base' /\ Elsewhere
           /\ Paired => /\ Clear => Clear'
                        /\ Changes(curr_process, [ConsoleOf(curr_process) EXCEPT !.vid[i] = c])
<1>1. /\ ~tick_due /\ typing' = typing /\ history' = history
      /\ mixed' = [mixed EXCEPT ![curr_process] = typing[curr_process] # <<>>]
  BY DEF StorePixel
<1>2. PICK con : con = [ConsoleOf(curr_process) EXCEPT !.vid[i] = c]
  OBVIOUS
<1>3. Shape /\ (user_page = page => Changes(curr_process, con))
  BY <1>2, PixelStep
<1>4. LinesOK /\ curr_process \in Terminals
  BY Types DEF Base, DisplayOK
<1>5. LinesOK' /\ (Clear /\ Changes(curr_process, con) => Clear')
  BY <1>1, <1>4, MixedStep
<1>6. Base'
  BY <1>3, <1>5 DEF Base, Shape, TypeOK, DisplayOK, LinesOK, Vids
<1>7. Elsewhere
  BY DEF StorePixel, maps, sched, Elsewhere
<1> QED
  BY <1>1, <1>2, <1>3, <1>5, <1>6, <1>7 DEF Paired

\* vidmap changes no console.
LEMMA VidmapStep ==
    ASSUME Base, sys_vidmap
    PROVE  /\ Base' /\ (Clear => Clear') /\ Same /\ typing' = typing
           /\ curr_ter' = curr_ter /\ curr_process' = curr_process
           /\ VidmapHidden = FALSE => Paired'
<1>1. /\ ~tick_due /\ (VidmapHidden \/ curr_process = curr_ter)
      /\ user_page' = MAIN_VID /\ vidmapped' = TRUE
      /\ mem' = mem /\ screen' = screen /\ saved' = saved /\ vga_cursor' = vga_cursor
      /\ page' = page /\ curr_ter' = curr_ter /\ curr_process' = curr_process
      /\ on_screen' = on_screen /\ kb_enabled' = kb_enabled /\ started' = started
      /\ tick_due' = tick_due /\ typing' = typing /\ history' = history /\ mixed' = mixed
  BY DEF sys_vidmap, sched, lines
<1>2. DisplayOK /\ LinesOK
  BY Types DEF Base
<1>3. LinesOK'
  BY <1>1, <1>2 DEF LinesOK
<1>4. DisplayOK'
  BY <1>1, <1>2 DEF DisplayOK, Pages
<1>5. CursorFollows' /\ Follow' /\ Fresh'
  BY <1>1 DEF Base, CursorFollows, Follow, Fresh
<1>6. Base'
  BY <1>3, <1>4, <1>5 DEF Base, TypeOK, DisplayOK, LinesOK, Vids
<1>7. Same
  BY <1>1 DEF Same
<1>8. VidmapHidden = FALSE => Paired'
  BY <1>1 DEF Paired, Base, Follow, PageOf
<1>9. Clear => Clear'
  BY <1>1, <1>7, ClearSame
<1> QED
  BY <1>1, <1>6, <1>7, <1>8, <1>9

\* Neither Alt-Fn nor a tick changes a console or a line.
LEMMA MoveStep ==
    ASSUME Base, (\E new \in Terminals : switch_ter(new)) \/ Tick
    PROVE  Base' /\ (Clear => Clear') /\ Same /\ typing' = typing /\ Paired'
<1>1. Shape /\ Same /\ Paired'
  <2>1. CASE \E new \in Terminals : switch_ter(new)
    <3>1. PICK new \in Terminals : switch_ter(new)
      BY <2>1
    <3>2. Paired'
      BY <3>1 DEF switch_ter, Paired
    <3> QED
      BY <3>1, <3>2, SwitchStep
  <2>2. CASE Tick
    <3>1. Shape /\ Same /\ user_page' = page'
      BY <2>2, TickStep
    <3> QED
      BY <3>1 DEF Paired
  <2> QED
    BY <2>1, <2>2
<1>2. typing' = typing /\ history' = history /\ mixed' = mixed
  BY DEF switch_ter, Tick, lines
<1>3. LinesOK
  BY Types DEF Base
<1>4. LinesOK'
  BY <1>2, <1>3 DEF LinesOK
<1>5. Base'
  BY <1>1, <1>4 DEF Base, Shape, TypeOK, DisplayOK, LinesOK, Vids
<1>6. Clear => Clear'
  BY <1>1, <1>2, ClearSame
<1> QED
  BY <1>1, <1>2, <1>5, <1>6

-----------------------------------------------------------------------------
(***************************************************************************)
(* The invariants.                                                         *)
(***************************************************************************)

\* All pages are blank and all cursors at the origin.
LEMMA InitBase == Init => Base /\ Clear /\ Paired
<1> SUFFICES ASSUME Init PROVE Base /\ Clear /\ Paired
  OBVIOUS
<1>1. /\ mem = [p \in Pages |-> Blank] /\ page = MAIN_VID /\ user_page = MAIN_VID
      /\ screen = Origin /\ saved = [t \in Terminals |-> Origin] /\ vga_cursor = 0
      /\ on_screen = 1 /\ kb_enabled = TRUE /\ curr_ter = 0 /\ curr_process = 0
      /\ started = {0} /\ tick_due = FALSE /\ vidmapped = FALSE
      /\ typing = [t \in Terminals |-> <<>>] /\ history = [t \in Terminals |-> <<>>]
      /\ mixed = [t \in Terminals |-> FALSE]
  BY DEF Init
<1>2. 0 \in Terminals /\ MAIN_VID \in Pages
  BY VideoAssumption DEF Terminals, Pages
<1>3. Blank \in Vids
  BY ConsoleAssumption DEF Blank, Vids
<1>4. Origin \in Cursors /\ Origin.x = 0 /\ Origin.y = 0
  BY ConsoleAssumption DEF Origin, Cursors
<1>5. 0 \in 0 .. NUM_ROWS * NUM_COLS /\ Offset(0, 0) = 0
  BY ConsoleAssumption DEF Offset
<1>6. DisplayOK
  <2>1. mem \in [Pages -> Vids] /\ saved \in [Terminals -> Cursors]
    BY <1>1, <1>3, <1>4
  <2> QED
    BY <1>1, <1>2, <1>4, <1>5, <2>1 DEF DisplayOK
<1>7. LinesOK
  <2>1. <<>> \in Lines
    BY EmptyLine
  <2> QED
    BY <1>1, <2>1 DEF LinesOK
<1>8. CursorFollows /\ Follow /\ Fresh
  BY <1>1, <1>2, <1>4, <1>5 DEF CursorFollows, Follow, Fresh, PageOf
<1>9. Clear
  <2>1. ASSUME NEW t \in Terminals PROVE Visible(mixed[t], ConsoleOf(t), typing[t])
    <3>1. typing[t] = <<>> /\ Len(<<>>) = 0
      BY <1>1
    <3>2. Shown(ConsoleOf(t), <<>>, 0)
      BY DEF Shown
    <3> QED
      BY <3>1, <3>2 DEF Visible
  <2> QED
    BY <2>1 DEF Clear
<1> QED
  BY <1>1, <1>6, <1>7, <1>8, <1>9, Types DEF Base, Paired

\* The keys of the line editor.
LEMMA EditKeys ==
    ASSUME Base, (\E c \in Chars : print_char(c)) \/ backspace \/ enter_key \/ recall \/ control_l
    PROVE  Base' /\ Elsewhere /\ (Clear => Clear')
<1>0. Clear => Visible(mixed[curr_ter], Now, Line)
  BY DEF Clear, Now, Line, Base, TypeOK
<1>1. PICK con, l, m : Edits(con, l, m) /\ (Clear => Visible(m, con, l))
  <2>1. CASE \E c \in Chars : print_char(c)
    BY <1>0, <2>1, PrintCharStep
  <2>2. CASE backspace
    BY <1>0, <2>2, BackspaceKey
  <2>3. CASE enter_key
    BY <2>3, EnterStep
  <2>4. CASE recall
    BY <2>4, RecallStep
  <2>5. CASE control_l
    BY <2>5, ControlLStep
  <2> QED
    BY <2>1, <2>2, <2>3, <2>4, <2>5
<1> QED
  BY <1>1, EditStep

\* Steps that change nothing.
LEMMA Stutter ==
    ASSUME UNCHANGED vars
    PROVE  (Base => Base') /\ (Clear => Clear') /\ (Paired => Paired') /\ Same /\ typing' = typing
           /\ curr_ter' = curr_ter /\ curr_process' = curr_process
<1>1. /\ mem' = mem /\ screen' = screen /\ saved' = saved /\ vga_cursor' = vga_cursor
      /\ page' = page /\ user_page' = user_page /\ vidmapped' = vidmapped
      /\ curr_ter' = curr_ter /\ curr_process' = curr_process
      /\ on_screen' = on_screen /\ kb_enabled' = kb_enabled /\ started' = started
      /\ tick_due' = tick_due /\ typing' = typing /\ history' = history /\ mixed' = mixed
  BY DEF vars, maps, sched, lines
<1>2. Base => Base'
  BY <1>1 DEF Base, TypeOK, CursorFollows, Follow, Fresh
<1>3. Clear => Clear'
  BY <1>1 DEF Clear, ConsoleOf
<1> QED
  BY <1>1, <1>2, <1>3 DEF Paired, Same

\* Every step keeps the types, the cursors and the pages of the terminals.
LEMMA BaseStep == Base /\ [Next]_vars => Base'
<1> SUFFICES ASSUME Base, [Next]_vars PROVE Base'
  OBVIOUS
<1>1. CASE Key
  BY <1>1, EditKeys, MoveStep DEF Key
<1>2. CASE Tick
  BY <1>2, MoveStep
<1>3. CASE \E c \in Output : terminal_write(c)
  BY <1>3, WriteStep
<1>4. CASE sys_vidmap
  BY <1>4, VidmapStep
<1>5. CASE \E i \in Cells, c \in Pixels : StorePixel(i, c)
  BY <1>5, StoreStep
<1>6. CASE UNCHANGED vars
  BY <1>6, Stutter
<1> QED
  BY <1>1, <1>2, <1>3, <1>4, <1>5, <1>6 DEF Next

\* With it, the lines and the two mappings: vidmap is called by programs that are shown.
IInv == Base /\ Clear /\ Paired

\* Every step keeps the lines on their screens.
LEMMA IInvStep ==
    ASSUME VidmapHidden = FALSE
    PROVE  IInv /\ [Next]_vars => IInv'
<1> SUFFICES ASSUME IInv, [Next]_vars PROVE IInv'
  OBVIOUS
<1>0. Base /\ Clear /\ Paired /\ Base'
  BY BaseStep DEF IInv
<1> SUFFICES Clear' /\ Paired'
  BY <1>0 DEF IInv
<1>1. CASE Key
  <2>1. CASE (\E c \in Chars : print_char(c)) \/ backspace \/ enter_key \/ recall \/ control_l
    BY <1>0, <2>1, EditKeys DEF Elsewhere, Paired
  <2> QED
    BY <1>0, <1>1, <2>1, MoveStep DEF Key
<1>2. CASE Tick
  BY <1>0, <1>2, MoveStep
<1>3. CASE \E c \in Output : terminal_write(c)
  BY <1>0, <1>3, WriteStep DEF Elsewhere, Paired
<1>4. CASE sys_vidmap
  BY <1>0, <1>4, VidmapStep
<1>5. CASE \E i \in Cells, c \in Pixels : StorePixel(i, c)
  BY <1>0, <1>5, StoreStep DEF Elsewhere, Paired
<1>6. CASE UNCHANGED vars
  BY <1>0, <1>6, Stutter
<1> QED
  BY <1>1, <1>2, <1>3, <1>4, <1>5, <1>6 DEF Next

\* Lines before the cursor are lines on the screen.
LEMMA OnScreen == Base /\ Clear => LineOnScreen
<1> SUFFICES ASSUME Base, Clear PROVE LineOnScreen
  OBVIOUS
<1>1. ASSUME NEW t \in Terminals, ~ mixed[t], NEW k \in DOMAIN typing[t]
      PROVE  LET p == Offset(saved[t].x, saved[t].y) - Len(typing[t]) + k - 1
             IN  p \in Cells /\ ScreenOf(t)[p] = typing[t][k]
  <2>1. PICK l \in Lines : l = typing[t]
    BY <1>1 DEF Base, TypeOK
  <2>2. l \in Seq(Chars)
    BY LineFacts
  <2>3. Shown(ConsoleOf(t), l, Len(l)) /\ k \in 1 .. Len(l)
    BY <1>1, <2>1, <2>2 DEF Clear, Visible
  <2>4. /\ Pos(ConsoleOf(t)) = Offset(saved[t].x, saved[t].y)
        /\ ConsoleOf(t).vid = ScreenOf(t)
    BY DEF ConsoleOf, Con, PageOf, ScreenOf, Pos
  <2> QED
    BY <2>1, <2>3, <2>4 DEF Shown
<1> QED
  BY <1>1 DEF LineOnScreen

\* Whatever the keys, the ticks and the programs do, the variables keep their types:
\* no character is written outside a page and no cursor leaves the screen.
THEOREM Typing == Spec => []TypeOK
<1>1. Base => TypeOK
  BY DEF Base
<1> QED
  BY <1>1, InitBase, BaseStep, PTL DEF Spec

\* The blinking cursor is that of the terminal shown and the running terminal goes on
\* with its own, after any Alt-Fn, tick or output.
THEOREM CursorAlways == Spec => []CursorFollows
<1>1. Base => CursorFollows
  BY DEF Base
<1> QED
  BY <1>1, InitBase, BaseStep, PTL DEF Spec

\* A line that no output has come into stays on the screen of its terminal, directly
\* before the cursor.
THEOREM LinesStay ==
    ASSUME VidmapHidden = FALSE
    PROVE  Spec => []LineOnScreen
<1>1. Init => IInv
  BY InitBase DEF IInv
<1>2. IInv => LineOnScreen
  BY OnScreen DEF IInv
<1> QED
  BY <1>1, <1>2, IInvStep, PTL DEF Spec

-----------------------------------------------------------------------------
(***************************************************************************)
(* The refinement: every step is a step of Screens or changes nothing that *)
(* Screens knows.                                                          *)
(***************************************************************************)

\* The operations of Screens are those of Console.
LEMMA SameConsole ==
    /\ Abstract!Cells = Cells /\ Abstract!clear = clear
    /\ \A con, c : Abstract!putc(con, c) = putc(con, c)
    /\ \A con : Abstract!screen_backspace(con) = screen_backspace(con)
    /\ \A con, l : Abstract!puts(con, l) = puts(con, l)
    /\ \A con, l : Abstract!Erase(con, l) = Erase(con, l)
<1>1. Abstract!Cells = Cells /\ Abstract!clear = clear
  BY DEF Abstract!Cells, Cells, Abstract!clear, clear, Abstract!Blank, Blank
<1>2. ASSUME NEW con, NEW c PROVE Abstract!putc(con, c) = putc(con, c)
  BY Zenon DEF Abstract!putc, putc, Abstract!NextRow, NextRow, Abstract!scroll_up, scroll_up,
         Abstract!Cells, Cells, Abstract!Offset, Offset
<1>3. ASSUME NEW con PROVE Abstract!screen_backspace(con) = screen_backspace(con)
  BY Zenon DEF Abstract!screen_backspace, screen_backspace, Abstract!Offset, Offset
<1>4. ASSUME NEW con, NEW l PROVE Abstract!puts(con, l) = puts(con, l)
  BY Zenon DEF Abstract!puts, puts,
         Abstract!putc, putc, Abstract!NextRow, NextRow, Abstract!scroll_up, scroll_up,
         Abstract!Cells, Cells, Abstract!Offset, Offset
<1>5. ASSUME NEW con, NEW l PROVE Abstract!Erase(con, l) = Erase(con, l)
  BY Zenon DEF Abstract!Erase, Erase,
         Abstract!screen_backspace, screen_backspace, Abstract!Offset, Offset
<1> QED
  BY <1>1, <1>2, <1>3, <1>4, <1>5

\* All screens are empty at the start.
LEMMA Start == Init => Abstract!Init
<1> SUFFICES ASSUME Init PROVE Abstract!Init
  OBVIOUS
<1>1. ASSUME NEW t \in Terminals
      PROVE  [vid |-> ScreenOf(t), x |-> saved[t].x, y |-> saved[t].y] = clear
  BY DEF Init, ScreenOf, Pages, Origin, clear
<1> QED
  BY <1>1, SameConsole DEF Init, Abstract!Init

\* The consoles, as Screens sees them.
All == [t \in Terminals |-> [vid |-> ScreenOf(t), x |-> saved[t].x, y |-> saved[t].y]]

\* What a step does to them.
LEMMA AllSteps ==
    /\ \A t \in Terminals : All[t] = ConsoleOf(t)
    /\ Same => All' = All
    /\ \A t \in Terminals : \A con : Changes(t, con) => All' = [All EXCEPT ![t] = con]
<1>1. All = [s \in Terminals |-> Con(mem, saved, curr_ter, s)]
  BY DEF All, Con, PageOf, ScreenOf
<1>2. All' = [s \in Terminals |-> Con(mem', saved', curr_ter', s)]
  BY DEF All, Con, PageOf, ScreenOf
<1>3. \A t \in Terminals : All[t] = ConsoleOf(t)
  BY <1>1 DEF ConsoleOf
<1>4. Same => All' = All
  BY <1>1, <1>2 DEF Same
<1>5. ASSUME NEW t \in Terminals, NEW con, Changes(t, con) PROVE All' = [All EXCEPT ![t] = con]
  BY <1>1, <1>2, <1>5 DEF Changes
<1> QED
  BY <1>3, <1>4, <1>5

\* The keys of the line editor are those of Screens.
LEMMA AbstractEdit ==
    ASSUME Base, (\E c \in Chars : print_char(c)) \/ backspace \/ enter_key \/ recall \/ control_l
    PROVE  Abstract!Edit
<1>1. ASSUME NEW con, NEW l, NEW m, Edits(con, l, m)
      PROVE  /\ All' = [All EXCEPT ![curr_ter] = con] /\ typing' = [typing EXCEPT ![curr_ter] = l]
             /\ curr_ter' = curr_ter /\ curr_process' = curr_process
  <2>1. Changes(curr_ter, con) /\ curr_ter' = curr_ter /\ curr_process' = curr_process
    BY <1>1, EditStep DEF Elsewhere
  <2>2. curr_ter \in Terminals
    BY DEF Base, TypeOK
  <2> QED
    BY <1>1, <2>1, <2>2, AllSteps DEF Edits
<1>2. All[curr_ter] = Now
  BY AllSteps DEF Now, Base, TypeOK
<1>3. CASE \E c \in Chars : print_char(c)
  <2>1. PICK c \in Chars : print_char(c)
    BY <1>3
  <2>2. c \in Glyphs
    BY VideoAssumption
  <2>3. PICK con, l, m : con = putc(Now, c) /\ l = Append(Line, c) /\ Edits(con, l, m)
    BY <2>1, PrintCharStep
  <2>4. /\ All' = [All EXCEPT ![curr_ter] = con] /\ typing' = [typing EXCEPT ![curr_ter] = l]
        /\ curr_ter' = curr_ter /\ curr_process' = curr_process
    BY <1>1, <2>3
  <2>5. con = Abstract!putc(All[curr_ter], c)
    BY <1>2, <2>3, SameConsole
  <2>6. Abstract!Type
    BY <2>2, <2>3, <2>4, <2>5
       DEF Abstract!Type, Abstract!Becomes, Abstract!LineBecomes, Line, All
  <2> QED
    BY <2>6 DEF Abstract!Edit
<1>4. CASE backspace
  <2>1. PICK con, l, m : /\ Line # <<>> /\ con = screen_backspace(Now) /\ l = Front(Line)
                         /\ Edits(con, l, m)
    BY <1>4, BackspaceKey
  <2>2. /\ All' = [All EXCEPT ![curr_ter] = con] /\ typing' = [typing EXCEPT ![curr_ter] = l]
        /\ curr_ter' = curr_ter /\ curr_process' = curr_process
    BY <1>1, <2>1
  <2>3. con = Abstract!screen_backspace(All[curr_ter]) /\ l = SubSeq(Line, 1, Len(Line) - 1)
    BY <1>2, <2>1, SameConsole DEF Front
  <2>4. Abstract!Rub
    BY <2>1, <2>2, <2>3 DEF Abstract!Rub, Abstract!Becomes, Abstract!LineBecomes, Line, All
  <2> QED
    BY <2>4 DEF Abstract!Edit
<1>5. CASE enter_key
  <2>1. PICK con, l, m : con = putc(Now, NL) /\ l = <<>> /\ Edits(con, l, m)
    BY <1>5, EnterStep
  <2>2. /\ All' = [All EXCEPT ![curr_ter] = con] /\ typing' = [typing EXCEPT ![curr_ter] = l]
        /\ curr_ter' = curr_ter /\ curr_process' = curr_process
    BY <1>1, <2>1
  <2>3. con = Abstract!putc(All[curr_ter], NL)
    BY <1>2, <2>1, SameConsole
  <2>4. Abstract!Enter
    BY <2>1, <2>2, <2>3 DEF Abstract!Enter, Abstract!Becomes, Abstract!LineBecomes, All
  <2> QED
    BY <2>4 DEF Abstract!Edit
<1>6. CASE recall
  <2>1. PICK l, con, m : l \in Lines /\ con = puts(Erase(Now, Line), l) /\ Edits(con, l, m)
    BY <1>6, RecallStep
  <2>2. /\ All' = [All EXCEPT ![curr_ter] = con] /\ typing' = [typing EXCEPT ![curr_ter] = l]
        /\ curr_ter' = curr_ter /\ curr_process' = curr_process
    BY <1>1, <2>1
  <2>3. con = Abstract!puts(Abstract!Erase(All[curr_ter], Line), l)
    BY <1>2, <2>1, SameConsole
  <2>4. Abstract!Replace
    BY <2>1, <2>2, <2>3 DEF Abstract!Replace, Abstract!Becomes, Abstract!LineBecomes, Line, All
  <2> QED
    BY <2>4 DEF Abstract!Edit
<1>7. CASE control_l
  <2>1. PICK con, l, m : con = puts(clear, Line) /\ typing' = typing /\ Edits(con, l, m)
    BY <1>7, ControlLStep
  <2>2. /\ All' = [All EXCEPT ![curr_ter] = con]
        /\ curr_ter' = curr_ter /\ curr_process' = curr_process
    BY <1>1, <2>1
  <2>3. con = Abstract!puts(Abstract!clear, Line)
    BY <2>1, SameConsole
  <2>4. Abstract!Redraw
    BY <2>1, <2>2, <2>3 DEF Abstract!Redraw, Abstract!Becomes, Line, All
  <2> QED
    BY <2>4 DEF Abstract!Edit
<1> QED
  BY <1>3, <1>4, <1>5, <1>6, <1>7

\* Every step maps to a step of Screens or to none.
LEMMA AbstractStep ==
    ASSUME IInv, [Next]_vars
    PROVE  [Abstract!Next]_(Abstract!vars)
<1>0. Base /\ Paired /\ curr_process \in Terminals /\ curr_ter \in Terminals
  BY DEF IInv, Base, TypeOK
<1>1. CASE (\E c \in Chars : print_char(c)) \/ backspace \/ enter_key \/ recall \/ control_l
  BY <1>0, <1>1, AbstractEdit DEF Abstract!Next
<1>2. CASE \E new \in Terminals : switch_ter(new)
  <2>1. Same /\ typing' = typing
    BY <1>0, <1>2, MoveStep
  <2>2. curr_ter' \in Terminals /\ curr_process' = curr_process
    BY <1>2 DEF switch_ter
  <2>3. Abstract!Show
    BY <2>1, <2>2, AllSteps DEF Abstract!Show, All
  <2> QED
    BY <2>3 DEF Abstract!Next
<1>3. CASE Tick
  <2>1. Same /\ typing' = typing /\ curr_process' \in Terminals
    BY <1>0, <1>3, MoveStep, TickStep
  <2>2. curr_ter' = curr_ter
    BY <1>3 DEF Tick
  <2>3. Abstract!Run
    BY <2>1, <2>2, AllSteps DEF Abstract!Run, All
  <2> QED
    BY <2>3 DEF Abstract!Next
<1>4. CASE \E c \in Output : terminal_write(c)
  <2>1. PICK c \in Output : terminal_write(c)
    BY <1>4
  <2>2. PICK con : con = putc(ConsoleOf(curr_process), c) /\ Changes(curr_process, con)
    BY <1>0, <2>1, WriteStep
  <2>3. typing' = typing /\ curr_ter' = curr_ter /\ curr_process' = curr_process
    BY <1>0, <2>1, WriteStep DEF Elsewhere, terminal_write
  <2>4. All' = [All EXCEPT ![curr_process] = con]
    BY <1>0, <2>2, AllSteps
  <2>5. c \in Glyphs \cup {NL} /\ con = Abstract!putc(All[curr_process], c)
    BY <1>0, <2>2, AllSteps, SameConsole, VideoAssumption
  <2>6. Abstract!Write
    BY <2>3, <2>4, <2>5 DEF Abstract!Write, Abstract!Becomes, All
  <2> QED
    BY <2>6 DEF Abstract!Next
<1>5. CASE sys_vidmap
  <2>1. Same /\ typing' = typing /\ curr_ter' = curr_ter /\ curr_process' = curr_process
    BY <1>0, <1>5, VidmapStep
  <2> QED
    BY <2>1, AllSteps DEF Abstract!vars, All
<1>6. CASE \E i \in Cells, c \in Pixels : StorePixel(i, c)
  <2>1. PICK i \in Cells, c \in Pixels : StorePixel(i, c)
    BY <1>6
  <2>2. PICK con : /\ con = [ConsoleOf(curr_process) EXCEPT !.vid[i] = c]
                   /\ Changes(curr_process, con)
    BY <1>0, <2>1, StoreStep
  <2>3. typing' = typing /\ curr_ter' = curr_ter /\ curr_process' = curr_process
    BY <1>0, <2>1, StoreStep DEF Elsewhere, StorePixel
  <2>4. All' = [All EXCEPT ![curr_process] = con]
    BY <1>0, <2>2, AllSteps
  <2>5. c \in Glyphs /\ i \in Abstract!Cells
    BY VideoAssumption, SameConsole
  <2>6. con = [All[curr_process] EXCEPT !.vid[i] = c]
    BY <1>0, <2>2, AllSteps
  <2>7. Abstract!Paint
    BY <2>3, <2>4, <2>5, <2>6 DEF Abstract!Paint, Abstract!Becomes, All
  <2> QED
    BY <2>7 DEF Abstract!Next
<1>7. CASE UNCHANGED vars
  <2>1. Same /\ typing' = typing /\ curr_ter' = curr_ter /\ curr_process' = curr_process
    BY <1>7, Stutter
  <2> QED
    BY <2>1, AllSteps DEF Abstract!vars, All
<1> QED
  BY <1>1, <1>2, <1>3, <1>4, <1>5, <1>6, <1>7 DEF Next, Key

\* The terminals have separate screens: the exchange of pages, the mapping that follows
\* the running program and the cursors that are saved and restored implement consoles
\* that only their own program and, while they are shown, the keyboard write on.
THEOREM SeparateScreens ==
    ASSUME VidmapHidden = FALSE
    PROVE  Spec => ImplementsScreens
<1>1. Init => IInv
  BY InitBase DEF IInv
<1>2. IInv /\ [Next]_vars => IInv'
  BY IInvStep
<1>3. IInv /\ [Next]_vars => [Abstract!Next]_(Abstract!vars)
  BY AbstractStep
<1>4. Init => Abstract!Init
  BY Start
<1> QED
  BY <1>1, <1>2, <1>3, <1>4, PTL DEF Spec, ImplementsScreens, Abstract!Spec
=============================================================================
