\* A line is entered while another terminal still reads its own.
CONSTANTS
    a = a
    NUL = NUL
    NL = NL
    NUM_TERMINALS = 2
    BUF_SIZE = 2
    Chars <- OneChar
    ReadSizes <- Short
SPECIFICATION Spec
INVARIANT OnlyOwnLineCleared
