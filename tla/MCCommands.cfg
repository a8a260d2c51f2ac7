\* MAX_CMD_LEN 3 and MAX_ARG_LEN 4 for 32 and 128.
CONSTANTS
    a = a
    b = b
    SP = SP
    NL = NL
    NUL = NUL
    Dirt = Dirt
    MAX_CMD_LEN = 3
    MAX_ARG_LEN = 4
    MAX_PROCESSES = 3
    Letters <- MCLetters
    Files <- MCFiles
    Executables <- MCExecutables
    Commands <- MCCommandSet
    Sizes <- MCSizes
SPECIFICATION Spec
INVARIANTS TypeOK AsAsked GetargsExact
