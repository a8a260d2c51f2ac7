----------------------------- MODULE Processes -----------------------------
(***************************************************************************)
(* Processes of the kernel: the execute and halt system calls, the base    *)
(* shells and the round-robin scheduler that the timer interrupt drives.   *)
(*                                                                         *)
(* One processor runs one context at a time.  A system call runs with      *)
(* interrupts enabled (SYS_handler_wrapper says sti), so the timer may     *)
(* interrupt it between any two statements; the handlers of interrupts and *)
(* exceptions run with interrupts disabled and are atomic.  The statements *)
(* of sys_execute and sys_halt that touch shared state are steps of their  *)
(* own, labelled by cpu.pc.  TickPoints bounds the labels at which a timer *)
(* interrupt is taken: in the kernel it is all of them.                    *)
(***************************************************************************)
EXTENDS Integers, Sequences

CONSTANTS
    MAX_PROCESSES,  \* size of used_pids
    Programs,       \* the executables of the file system
    Shell,          \* the program "shell"
    NoProgram,      \* an empty frame, and a command that names no executable
    Statuses,       \* the values that programs pass to halt
    TickPoints      \* the labels at which the timer may interrupt

NUM_TERMINALS == 3
HALT_STATUS_EXC == 4
HALT_EXC == 256
ERROR == -1

Terminals == 0 .. NUM_TERMINALS - 1
Pids == 0 .. MAX_PROCESSES - 1
NoPid == -1

KernelPoints ==
    {"exec_pid", "exec_page", "exec_load", "exec_pcb", "exec_tss", "exec_used",
     "exec_term", "exec_go", "halt_tss", "halt_free", "halt_page", "halt_root",
     "respawn", "halt_term", "halt_jump", "ret_to_exec", "sys_return"}

\* The points at which the local pid is set.
PidPoints == KernelPoints \ {"exec_pid", "respawn", "ret_to_exec", "sys_return"}

Points == KernelPoints \cup {"boot", "user", "wait", "lost"}

\* Where a timer interrupt does no harm.  The others are the windows inside
\* sys_execute and sys_halt in which the shared state is half changed.
SafePoints ==
    {"boot", "user", "wait", "exec_pid", "exec_go", "halt_tss", "ret_to_exec",
     "sys_return"}

ASSUME ProcessesAssumption ==
    /\ MAX_PROCESSES \in Nat /\ MAX_PROCESSES >= NUM_TERMINALS
    /\ Shell \in Programs /\ NoProgram \notin Programs
    /\ Statuses \subseteq 0 .. 255
    /\ TickPoints \subseteq Points \ {"lost"}

VARIABLES
    used_pids,     \* used_pids[p]: 1 if p is taken, else 0
    pcb,           \* the process control blocks, one on each kernel stack
    terminals,     \* the scheduling part of terminals[t]
    curr_process,  \* the terminal the scheduler runs
    page,          \* the frame mapped at 128MB: the pid it belongs to
    tss,           \* tss.esp0: the pid whose kernel stack it is the top of
    frame,         \* frame[p]: the program image in the 4MB frame of pid p
    cpu,           \* the context the processor executes
    torn           \* history: the kernel was disturbed in a window (see Next)

machine == <<used_pids, pcb, terminals, curr_process, page, tss, frame, cpu>>

vars == <<used_pids, pcb, terminals, curr_process, page, tss, frame, cpu, torn>>

(***************************************************************************)
(* A context is what a saved stack pointer leads back to: the point of     *)
(* execution, the kernel stack, the interrupt flag of the processor (if)   *)
(* and of the user mode it returns to (uif), the program it belongs to,    *)
(* and the locals of sys_execute (cmd, pid = new_pid) and of sys_halt      *)
(* (pid, the process that pcb points at).  caller is the pid of the        *)
(* sys_halt that called sys_execute, or NoPid for a system call.           *)
(***************************************************************************)
Registers ==
    [pc : Points, stk : Pids, if : {0, 1}, uif : {0, 1},
     prog : Programs \cup {NoProgram}, cmd : Programs \cup {NoProgram},
     pid : Pids \cup {NoPid}, caller : Pids \cup {NoPid}, eax : Int]

Contexts == {c \in Registers : c.pc \in PidPoints => c.pid \in Pids}

\* What an esp that was never saved (zero, or USER_ESP) leads to.
Lost ==
    [pc |-> "lost", stk |-> 0, if |-> 0, uif |-> 0,
     prog |-> NoProgram, cmd |-> NoProgram, pid |-> NoPid, caller |-> NoPid,
     eax |-> 0]

\* The first user-mode context of prog, whose process has pid p.
Entry(prog, p, flag) ==
    [Lost EXCEPT !.pc = "user", !.stk = p, !.if = flag, !.prog = prog]

Pcbs ==
    [pid : Pids, par_pid : Pids, par_pcb_ptr : Pids,
     par_esp : Contexts, esp : Contexts]

ZeroPcb ==
    [pid |-> 0, par_pid |-> 0, par_pcb_ptr |-> 0, par_esp |-> Lost, esp |-> Lost]

init_pid == used_pids = [p \in Pids |-> 0]

InitTerminals ==
    terminals =
        [t \in Terminals |-> [prog_curr_pid |-> NoPid, prog_par_pid |-> NoPid]]

init_pit == curr_process = 2

\* The kernel idles on the boot stack, whose top is the top of pid 0's stack.
Init ==
    /\ init_pid
    /\ InitTerminals
    /\ init_pit
    /\ pcb = [p \in Pids |-> ZeroPcb]
    /\ page = NoPid
    /\ tss = 0
    /\ frame = [p \in Pids |-> NoProgram]
    /\ cpu = [Lost EXCEPT !.pc = "boot", !.if = 1]
    /\ torn = FALSE

FirstFree(used) == {p \in Pids : used[p] = 0 /\ \A q \in 0 .. p - 1 : used[q] # 0}

\* Mutant: the search runs one entry too far.
get_new_pid_PastTheEnd(used) ==
    IF FirstFree(used) = {} THEN MAX_PROCESSES ELSE CHOOSE p \in FirstFree(used) : TRUE

get_new_pid(used) ==
    IF FirstFree(used) = {} THEN ERROR ELSE CHOOSE p \in FirstFree(used) : TRUE

\* get_curr_pcb()->pid when the processor is on kernel stack stk and the pid
\* of the block of p has just been set.
get_curr_pid(stk, p) == IF stk = p THEN p ELSE pcb[stk].pid

Current == terminals[curr_process].prog_curr_pid

-----------------------------------------------------------------------------
(***************************************************************************)
(* System calls and exceptions.                                            *)
(***************************************************************************)

\* The kernel stack that an interrupt, an exception or a system call runs on.
EntryStack == IF cpu.pc = "user" THEN tss ELSE cpu.stk

\* From one of the points to the first statement of a kernel function.
KernelEntry(points, label, flag, cmd, pid, eax) ==
    /\ cpu.pc \in points
    /\ cpu' = [cpu EXCEPT !.pc = label, !.stk = EntryStack, !.if = flag, !.uif = cpu.if,
                          !.cmd = cmd, !.pid = pid, !.eax = eax]
    /\ UNCHANGED <<used_pids, pcb, terminals, curr_process, page, tss, frame>>

\* int $0x80: the wrapper enables interrupts.
SysEnter(label, cmd, pid, eax) == KernelEntry({"user"}, label, 1, cmd, pid, eax)

SysRead == SysEnter("wait", NoProgram, NoPid, 0)

SysExecute(cmd) == SysEnter("exec_pid", cmd, NoPid, 0)

\* With no current process sys_halt returns ERROR and changes nothing.
SysHalt(status) ==
    /\ Current # NoPid
    /\ SysEnter("halt_tss", NoProgram, Current, status)

\* Where user memory is accessed: a system call faults on a bad pointer when it
\* copies to the buffer of read, or from the command of execute.
FaultPoints == {"user", "wait", "exec_pid"}

\* blue_screen calls sys_halt; the gate of the exception has disabled interrupts.
blue_screen ==
    /\ Current # NoPid
    /\ KernelEntry(FaultPoints, "halt_tss", 0, NoProgram, Current, HALT_STATUS_EXC)

\* The handlers of the exceptions differ only in the text they print.
Exception == blue_screen

\* Back to the caller with a value: to the wrapper, or into sys_halt.
Return(value) ==
    IF cpu.caller = NoPid
    THEN [cpu EXCEPT !.pc = "sys_return", !.cmd = NoProgram, !.pid = NoPid,
                     !.eax = value]
    ELSE [cpu EXCEPT !.pc = "halt_term", !.cmd = NoProgram,
                     !.pid = cpu.caller, !.caller = NoPid]

\* The end of SYS_handler_wrapper; the program takes the value in eax.
SysReturn ==
    /\ cpu.pc = "sys_return"
    /\ cpu' = [cpu EXCEPT !.pc = "user", !.if = cpu.uif, !.uif = 0, !.eax = 0]
    /\ UNCHANGED <<used_pids, pcb, terminals, curr_process, page, tss, frame>>

ReadReturns ==
    /\ cpu.pc = "wait"
    /\ cpu' = Return(0)
    /\ UNCHANGED <<used_pids, pcb, terminals, curr_process, page, tss, frame>>

-----------------------------------------------------------------------------
(***************************************************************************)
(* sys_execute.                                                            *)
(***************************************************************************)
At(label, next) ==
    /\ cpu.pc = label
    /\ cpu' = [cpu EXCEPT !.pc = next]

\* The command names no executable, or every pid is taken.
ExecuteFails ==
    /\ cpu.pc \in {"exec_pid", "respawn"}
    /\ cpu.cmd = NoProgram \/ get_new_pid(used_pids) = ERROR
    /\ cpu' = Return(ERROR)
    /\ UNCHANGED <<used_pids, pcb, terminals, curr_process, page, tss, frame>>

GetPid ==
    /\ cpu.pc \in {"exec_pid", "respawn"}
    /\ cpu.cmd # NoProgram
    /\ get_new_pid(used_pids) # ERROR
    /\ cpu' = [cpu EXCEPT !.pc = "exec_page", !.pid = get_new_pid(used_pids)]
    /\ UNCHANGED <<used_pids, pcb, terminals, curr_process, page, tss, frame>>

\* Mutant: the image is loaded before the new page is mapped.
MapPage_Forgotten ==
    /\ At("exec_page", "exec_load")
    /\ UNCHANGED <<used_pids, pcb, terminals, curr_process, page, tss, frame>>

MapPage ==
    /\ At("exec_page", "exec_load")
    /\ page' = cpu.pid
    /\ UNCHANGED <<used_pids, pcb, terminals, curr_process, tss, frame>>

\* read_data copies the file to PROG_LOAD_ADDR: into whatever frame is mapped.
LoadImage ==
    /\ At("exec_load", "exec_pcb")
    /\ frame' = [frame EXCEPT ![page] = cpu.cmd]
    /\ UNCHANGED <<used_pids, pcb, terminals, curr_process, page, tss>>

NewPcb(p, stk, par_esp, esp) ==
    [pid |-> p,
     par_pid |-> IF p < 3 THEN p ELSE get_curr_pid(stk, p),
     par_pcb_ptr |-> stk,
     par_esp |-> par_esp,
     esp |-> esp]

\* The context that "jmp ret_to_exec" resumes.  A base shell restarted by
\* sys_halt has none: it enters the kernel at the top of the very stack that
\* par_esp points into.
ReturnContext ==
    IF cpu.stk = cpu.pid THEN Lost
    ELSE [cpu EXCEPT !.pc = "ret_to_exec", !.cmd = NoProgram, !.pid = NoPid]

CreatePcb ==
    /\ At("exec_pcb", "exec_tss")
    /\ pcb' = [pcb EXCEPT ![cpu.pid] =
                 NewPcb(cpu.pid, cpu.stk, ReturnContext, pcb[cpu.pid].esp)]
    /\ UNCHANGED <<used_pids, terminals, curr_process, page, tss, frame>>

SetTss ==
    /\ At("exec_tss", "exec_used")
    /\ tss' = cpu.pid
    /\ UNCHANGED <<used_pids, pcb, terminals, curr_process, page, frame>>

MarkUsed ==
    /\ At("exec_used", "exec_term")
    /\ used_pids' = [used_pids EXCEPT ![cpu.pid] = 1]
    /\ UNCHANGED <<pcb, terminals, curr_process, page, tss, frame>>

SetTerminal ==
    /\ At("exec_term", "exec_go")
    /\ terminals' = [terminals EXCEPT ![curr_process] =
                       [prog_curr_pid |-> cpu.pid,
                        prog_par_pid |-> pcb[cpu.pid].par_pid]]
    /\ UNCHANGED <<used_pids, pcb, curr_process, page, tss, frame>>

\* iret with the flags of the kernel: the program inherits its interrupt flag.
EnterProgram ==
    /\ cpu.pc = "exec_go"
    /\ pcb' = [pcb EXCEPT ![cpu.pid].esp = Lost]
    /\ cpu' = Entry(cpu.cmd, cpu.pid, cpu.if)
    /\ UNCHANGED <<used_pids, terminals, curr_process, page, tss, frame>>

\* ret_to_exec, where sys_halt jumps with the child's status in eax.
ExecuteReturns ==
    /\ cpu.pc = "ret_to_exec"
    /\ cpu' = Return(IF cpu.eax = HALT_STATUS_EXC THEN HALT_EXC ELSE 0)
    /\ UNCHANGED <<used_pids, pcb, terminals, curr_process, page, tss, frame>>

-----------------------------------------------------------------------------
(***************************************************************************)
(* sys_halt of the process cpu.pid.                                        *)
(***************************************************************************)
ParentTss ==
    /\ At("halt_tss", "halt_free")
    /\ tss' = pcb[cpu.pid].par_pid
    /\ UNCHANGED <<used_pids, pcb, terminals, curr_process, page, frame>>

FreePid ==
    /\ At("halt_free", "halt_page")
    /\ used_pids' = [used_pids EXCEPT ![pcb[cpu.pid].pid] = 0]
    /\ UNCHANGED <<pcb, terminals, curr_process, page, tss, frame>>

\* Mutant: the page of the halted process stays mapped.
ParentPage_Kept ==
    /\ At("halt_page", "halt_root")
    /\ UNCHANGED <<used_pids, pcb, terminals, curr_process, page, tss, frame>>

ParentPage ==
    /\ At("halt_page", "halt_root")
    /\ page' = pcb[cpu.pid].par_pid
    /\ UNCHANGED <<used_pids, pcb, terminals, curr_process, tss, frame>>

\* A base shell that exits is started again, by a nested sys_execute.
CheckRoot ==
    /\ cpu.pc = "halt_root"
    /\ cpu' = IF pcb[cpu.pid].pid < 3
              THEN [cpu EXCEPT !.pc = "respawn", !.cmd = Shell,
                               !.pid = NoPid, !.caller = cpu.pid]
              ELSE [cpu EXCEPT !.pc = "halt_term"]
    /\ UNCHANGED <<used_pids, pcb, terminals, curr_process, page, tss, frame>>

\* Mutants: control goes back to the base shell instead of the parent; the terminal
\* keeps the pid of the process that halted.
ParentTerminal_Kept ==
    /\ At("halt_term", "halt_jump")
    /\ UNCHANGED <<used_pids, pcb, terminals, curr_process, page, tss, frame>>

ParentTerminal_BaseShell ==
    /\ At("halt_term", "halt_jump")
    /\ terminals' = [terminals EXCEPT ![curr_process] =
                       [prog_curr_pid |-> curr_process,
                        prog_par_pid |-> curr_process]]
    /\ UNCHANGED <<used_pids, pcb, curr_process, page, tss, frame>>

ParentTerminal ==
    /\ At("halt_term", "halt_jump")
    /\ LET parent == pcb[pcb[cpu.pid].par_pcb_ptr]
       IN  terminals' = [terminals EXCEPT ![curr_process] =
                           [prog_curr_pid |-> parent.pid,
                            prog_par_pid |-> parent.par_pid]]
    /\ UNCHANGED <<used_pids, pcb, curr_process, page, tss, frame>>

JumpToParent ==
    /\ cpu.pc = "halt_jump"
    /\ pcb' = [pcb EXCEPT ![cpu.pid] = ZeroPcb]
    /\ cpu' = [pcb[cpu.pid].par_esp EXCEPT !.if = cpu.if, !.eax = cpu.eax]
    /\ UNCHANGED <<used_pids, terminals, curr_process, page, tss, frame>>

-----------------------------------------------------------------------------
(***************************************************************************)
(* The timer interrupt: switch_running_process, atomic.                    *)
(***************************************************************************)
\* Mutant: the last terminal is left out of the round.
NextProcess_OneShort == (curr_process + 1) % (NUM_TERMINALS - 1)

NextProcess == (curr_process + 1) % NUM_TERMINALS

TickTaken == cpu.if = 1 /\ cpu.pc \in TickPoints

\* The next terminal has no process yet: run a shell there.  Started inside
\* the handler, it inherits a cleared interrupt flag.  The interrupted
\* context is saved in the block of the pid equal to the terminal's number.
StartBaseShell ==
    LET next == NextProcess
        p == get_new_pid(used_pids)
        saved == IF next = 0 THEN pcb
                 ELSE [pcb EXCEPT ![curr_process].esp = cpu]
    IN  /\ TickTaken
        /\ terminals[next].prog_curr_pid = NoPid
        /\ curr_process' = next
        /\ IF p = ERROR
           THEN /\ pcb' = saved
                /\ UNCHANGED <<used_pids, terminals, page, tss, frame, cpu>>
           ELSE /\ page' = p
                /\ frame' = [frame EXCEPT ![p] = Shell]
                /\ pcb' = [saved EXCEPT ![p] = NewPcb(p, EntryStack, Lost, Lost)]
                /\ tss' = p
                /\ used_pids' = [used_pids EXCEPT ![p] = 1]
                /\ terminals' = [terminals EXCEPT ![next] =
                     [prog_curr_pid |-> p, prog_par_pid |-> pcb'[p].par_pid]]
                /\ cpu' = Entry(Shell, p, 0)

\* Mutant: the context is saved in the block of the pid equal to the terminal's
\* number, as StartBaseShell does.
SwitchProcess_SavesInBase ==
    LET pid == terminals[NextProcess].prog_curr_pid
        saved == [pcb EXCEPT ![curr_process].esp = cpu]
    IN  /\ TickTaken
        /\ pid # NoPid
        /\ Current # NoPid
        /\ pcb' = [saved EXCEPT ![pid].esp = Lost]
        /\ page' = pid
        /\ tss' = pid
        /\ curr_process' = NextProcess
        /\ cpu' = saved[pid].esp
        /\ UNCHANGED <<used_pids, terminals, frame>>

\* Resuming a context consumes it: the frames under the saved esp are popped.
SwitchProcess ==
    LET pid == terminals[NextProcess].prog_curr_pid
        saved == [pcb EXCEPT ![Current].esp = cpu]
    IN  /\ TickTaken
        /\ pid # NoPid
        /\ Current # NoPid
        /\ pcb' = [saved EXCEPT ![pid].esp = Lost]
        /\ page' = pid
        /\ tss' = pid
        /\ curr_process' = NextProcess
        /\ cpu' = saved[pid].esp
        /\ UNCHANGED <<used_pids, terminals, frame>>

Tick == StartBaseShell \/ SwitchProcess

KernelStep ==
    \/ ExecuteFails \/ GetPid \/ MapPage \/ LoadImage \/ CreatePcb \/ SetTss
    \/ MarkUsed \/ SetTerminal \/ EnterProgram \/ ExecuteReturns \/ SysReturn
    \/ ParentTss \/ FreePid \/ ParentPage \/ CheckRoot \/ ParentTerminal
    \/ JumpToParent

Command ==
    \/ \E cmd \in Programs \cup {NoProgram} : SysExecute(cmd)
    \/ \E status \in Statuses : SysHalt(status)
    \/ Exception

AllStarted == \A t \in Terminals : terminals[t].prog_curr_pid # NoPid

(***************************************************************************)
(* torn records that a tick fell into a window of sys_execute or sys_halt, *)
(* or that a process executed or halted before all three base shells ran,  *)
(* 37ms after boot.  It has no part in what the kernel does.               *)
(***************************************************************************)
Next ==
    \/ Tick /\ torn' = (torn \/ cpu.pc \notin SafePoints)
    \/ Command /\ torn' = (torn \/ ~AllStarted)
    \/ (KernelStep \/ SysRead \/ ReadReturns) /\ UNCHANGED torn

Spec == Init /\ [][Next]_vars

(***************************************************************************)
(* Fairness.  The PIC latches a timer request until interrupts are         *)
(* enabled, so a tick that is possible again and again is taken; between   *)
(* two ticks (12.5ms) the running process gets through at least one step   *)
(* of the kernel; a shell in user mode reads its terminal sooner or later. *)
(***************************************************************************)
Fairness ==
    /\ SF_machine(Tick)
    /\ \A t \in Terminals : SF_machine(curr_process = t /\ KernelStep)
    /\ SF_machine(cpu.prog = Shell /\ SysRead)

FairSpec == Spec /\ Fairness

-----------------------------------------------------------------------------
(***************************************************************************)
(* Properties.                                                             *)
(***************************************************************************)

\* The types of the state of the kernel.  A context that is past the choice of a pid
\* has one, and the user frame is mapped as soon as the first shell started.
MachineOK ==
    /\ used_pids \in [Pids -> {0, 1}]
    /\ pcb \in [Pids -> Pcbs]
    /\ terminals \in [Terminals -> [prog_curr_pid : Pids \cup {NoPid},
                                     prog_par_pid : Pids \cup {NoPid}]]
    /\ curr_process \in Terminals
    /\ page \in Pids \cup {NoPid}
    /\ cpu.pc # "boot" => page \in Pids
    /\ tss \in Pids
    /\ frame \in [Pids -> Programs \cup {NoProgram}]
    /\ cpu \in Contexts

\* The types of all the variables, the history included.
TypeOK == MachineOK /\ torn \in BOOLEAN

\* The pids from the base shell down to p, following the parent blocks.
Lineage ==
    LET upto[n \in 0 .. MAX_PROCESSES] ==
          [p \in Pids |-> IF n = 0 \/ p < 3 THEN <<p>>
                          ELSE Append(upto[n - 1][pcb[p].par_pcb_ptr], p)]
    IN  upto[MAX_PROCESSES]

\* The pids of the processes of terminal t, the running one last.
Session(t) ==
    IF terminals[t].prog_curr_pid = NoPid THEN <<>>
    ELSE Lineage[terminals[t].prog_curr_pid]

SessionPids(t) == {Session(t)[i] : i \in DOMAIN Session(t)}

\* A process in user mode runs in its own frame, on whose image it was
\* started, and will enter the kernel on its own stack: what enable_program_page
\* and tss.esp0 hold whenever sys_execute, sys_halt or the scheduler leaves the
\* kernel, until a tick falls into a window of sys_execute or sys_halt.
OwnAddressSpace ==
    ~torn /\ cpu.pc = "user" =>
        page = Current /\ tss = Current /\ frame[page] = cpu.prog

\* Every context the processor resumes (an esp saved by the scheduler, a
\* par_esp saved by sys_execute) is one that was saved, never a zero or a
\* user-mode stack pointer, until a tick falls into a window.
NeverLost == ~torn => cpu.pc # "lost"

\* The processes of different terminals have different pids, terminal t's base
\* shell has pid t, whatever was halted and restarted, and outside the windows
\* used_pids marks exactly the pids in use: none leaks, none is given out twice,
\* until a tick falls into a window.
PidsPartitioned ==
    ~torn =>
    /\ \A t, u \in Terminals : t # u => SessionPids(t) \cap SessionPids(u) = {}
    /\ \A t \in Terminals : Session(t) # <<>> => Session(t)[1] = t
    /\ cpu.pc \in SafePoints =>
         {p \in Pids : used_pids[p] = 1} = UNION {SessionPids(t) : t \in Terminals}

\* The terminals as stacks of programs: the images in the frames of the pids of
\* each session.
Abstract ==
    INSTANCE Sessions
    WITH session <- [t \in Terminals |->
                       [i \in DOMAIN Session(t) |-> frame[Session(t)[i]]]],
         turn <- curr_process

\* Seen through the images in memory, sys_execute pushes one program on the
\* stack of the terminal that called it, sys_halt pops it and gives the
\* terminal back to the program below, a base shell that halts is replaced by
\* a shell, and only a tick changes the turn; this until a tick falls into a
\* window of sys_execute or sys_halt.
ImplementsSessions ==
    Abstract!Init /\ [][torn' \/ Abstract!Next \/ UNCHANGED Abstract!vars]_vars

\* Every terminal is scheduled again and again: curr_process goes round.
EveryTerminalRuns == \A t \in Terminals : []<>(curr_process = t \/ torn)

\* "Terminates a process and returns control to its parent" (sys_halt): once a
\* process is in sys_halt, by a call or by an exception, the process that executed
\* it runs in user mode again, on top of its terminal's stack, whatever the other
\* terminals do meanwhile; a base shell, its own parent, is started again.
ParentResumes ==
    \A q \in Pids :
        cpu.pc = "halt_tss" /\ pcb[cpu.pid].par_pid = q ~>
            torn \/ (cpu.pc = "user" /\ Current = q)

(***************************************************************************)
(* What the comments of the code say and the code does not do once a tick  *)
(* lands in a window, or for some inputs.                                  *)
(***************************************************************************)

\* get_new_pid, "Updates the global pid array": a pid that was given out is not
\* given out again, so no two terminals run the same pid.
NoSharedPid ==
    \A t, u \in Terminals :
        t # u /\ terminals[t].prog_curr_pid # NoPid =>
            terminals[t].prog_curr_pid # terminals[u].prog_curr_pid
=============================================================================
