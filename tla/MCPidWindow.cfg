\* A tick between get_new_pid and used_pids[new_pid] = 1.
CONSTANTS
    shell = shell
    prog = prog
    none = none
    MAX_PROCESSES = 5
    Programs <- MCPrograms
    Shell = shell
    NoProgram = none
    Statuses <- MCStatuses
    TickPoints <- PidWindow
SPECIFICATION Spec
CONSTRAINT AfterBoot
INVARIANT NoSharedPid
