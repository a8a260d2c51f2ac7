\* Three terminals, all three devices.
CONSTANT NUM_TERMINALS = 3
SPECIFICATION FairSpec
INVARIANTS TypeOK EndedOnce KeyMeetsItsTerminal
PROPERTIES ClockServed KeyServed
