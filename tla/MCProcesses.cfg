\* Three base shells, a child and its child; ticks in every window.
CONSTANTS
    shell = shell
    prog = prog
    none = none
    MAX_PROCESSES = 5
    Programs <- MCPrograms
    Shell = shell
    NoProgram = none
    Statuses <- MCStatuses
    TickPoints <- MostPoints
SPECIFICATION Spec
CONSTRAINT Untorn
INVARIANTS TypeOK OwnAddressSpace NeverLost PidsPartitioned
PROPERTY ImplementsSessions
