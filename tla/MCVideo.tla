------------------------------ MODULE MCVideo ------------------------------
(***************************************************************************)
(* Two terminals with screens of two rows of two columns and lines of up   *)
(* to two characters: every line can wrap and scroll.  One visible         *)
(* character is enough to see which cells were written.                    *)
(***************************************************************************)
EXTENDS Video

CONSTANTS
    a, space, nl,
    MaxDrawn       \* how often keys and programs may draw

VARIABLE drawn

MCGlyphs == {a, space}
MCChars == {a}
MCOutput == {a, nl}
MCPixels == {a}

Draws == lines' # lines \/ (mem' # mem /\ curr_ter' = curr_ter)

MCInit == Init /\ drawn = 0

MCNext ==
    /\ Next
    /\ drawn' = drawn + (IF Draws THEN 1 ELSE 0)
    /\ drawn' <= MaxDrawn

MCSpec == MCInit /\ [][MCNext]_<<vars, drawn>>
=============================================================================
