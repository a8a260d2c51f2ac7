\* Two programs, frequencies 4 and 8 above the initial 2, interrupts anywhere.
CONSTANTS
    NUM_TERMINALS = 2
    Requests <- SomeFreqs
    Word = 2048
SPECIFICATION FairSpec
CONSTRAINT Untorn
INVARIANTS TypeOK DivisorExact ChipFollows ReadPaced
PROPERTY ReadReturns
