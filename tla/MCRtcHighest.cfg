\* One program asks for 8 Hz and then for 4.
CONSTANTS
    NUM_TERMINALS = 2
    Requests <- SomeFreqs
    Word = 2048
SPECIFICATION Spec
INVARIANT HighestRequested
