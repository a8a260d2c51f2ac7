\* Two terminals, lines of up to two characters, keys at any moment.
CONSTANTS
    a = a
    NUL = NUL
    NL = NL
    NUM_TERMINALS = 2
    BUF_SIZE = 3
    Chars <- OneChar
    ReadSizes <- Short
SPECIFICATION FairSpec
INVARIANTS TypeOK  NewlineTerminated LineDelivered
PROPERTY LineReadCompletes
