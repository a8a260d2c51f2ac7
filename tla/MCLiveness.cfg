\* Three base shells and one child, with the fairness of the hardware.
CONSTANTS
    shell = shell
    prog = prog
    none = none
    MAX_PROCESSES = 4
    Programs <- MCPrograms
    Shell = shell
    NoProgram = none
    Statuses <- MCStatuses
    TickPoints <- LivePoints
SPECIFICATION FairSpec
CONSTRAINT Untorn
PROPERTIES EveryTerminalRuns ParentResumes
