\* Two terminals, screens of 2 x 2; vidmap only while the terminal is shown.
CONSTANTS
    a = a
    space = space
    nl = nl
    MaxDrawn = 6
    NUM_ROWS = 2
    NUM_COLS = 2
    Glyphs <- MCGlyphs
    SPACE = space
    NL = nl
    NUM_TERMINALS = 2
    BUF_SIZE = 3
    Chars <- MCChars
    Output <- MCOutput
    Pixels <- MCPixels
    VidmapHidden = FALSE
SPECIFICATION MCSpec
INVARIANTS TypeOK CursorFollows LineOnScreen
PROPERTY ImplementsScreens
