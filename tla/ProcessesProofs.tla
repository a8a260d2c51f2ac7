-------------------------- MODULE ProcessesProofs --------------------------
(***************************************************************************)
(* Theorems about Processes, for every number of processes and every set   *)
(* of programs, statuses and points at which the timer interrupts: the     *)
(* types, and what the kernel keeps true in every behaviour, up to the     *)
(* first tick in a window of sys_execute or sys_halt, if there is one.     *)
(***************************************************************************)
EXTENDS Processes, IterationProofs, SequenceTheorems, FiniteSetTheorems

USE DEF Terminals, NUM_TERMINALS, NoPid, ERROR, HALT_STATUS_EXC, HALT_EXC

\* A pid that get_new_pid returns is one that used_pids marks free.
LEMMA NewPid ==
    ASSUME NEW used, get_new_pid(used) # ERROR
    PROVE  get_new_pid(used) \in Pids /\ used[get_new_pid(used)] = 0
BY DEF get_new_pid, FirstFree

\* Terminal numbers are pids: StartBaseShell indexes the blocks with them.
LEMMA TerminalsArePids == Terminals \subseteq Pids
BY ProcessesAssumption DEF Pids

\* The context that a stack pointer never saved leads to is well formed.
LEMMA LostType == Lost \in Contexts
<1>1. 0 \in Pids
  BY ProcessesAssumption DEF Pids
<1> QED
  BY <1>1 DEF Lost, Contexts, Registers, Points, KernelPoints, PidPoints

\* The shapes in which an action changes a context keep it well formed.
LEMMA EnterShape ==
    ASSUME NEW c \in Registers, NEW label \in Points, NEW stk \in Pids,
           NEW f \in {0, 1}, NEW u \in {0, 1},
           NEW cmd \in Programs \cup {NoProgram}, NEW pid \in Pids \cup {NoPid},
           NEW eax \in Int, label \in PidPoints => pid \in Pids
    PROVE  [c EXCEPT !.pc = label, !.stk = stk, !.if = f, !.uif = u,
                     !.cmd = cmd, !.pid = pid, !.eax = eax] \in Contexts
<1> DEFINE d == [c EXCEPT !.pc = label, !.stk = stk, !.if = f, !.uif = u,
                          !.cmd = cmd, !.pid = pid, !.eax = eax]
<1>1. d \in Registers
  BY Zenon DEF Registers
<1>2. d.pc = label /\ d.pid = pid
  BY Zenon DEF Registers
<1> QED
  BY <1>1, <1>2 DEF Contexts

\* The context of a call that returns.
LEMMA ReturnShape ==
    ASSUME NEW c \in Registers, NEW label \in Points,
           NEW cmd \in Programs \cup {NoProgram}, NEW pid \in Pids \cup {NoPid},
           NEW eax \in Int, label \in PidPoints => pid \in Pids
    PROVE  [c EXCEPT !.pc = label, !.cmd = cmd, !.pid = pid, !.eax = eax]
             \in Contexts
<1> DEFINE d == [c EXCEPT !.pc = label, !.cmd = cmd, !.pid = pid, !.eax = eax]
<1>1. d \in Registers
  BY Zenon DEF Registers
<1>2. d.pc = label /\ d.pid = pid
  BY Zenon DEF Registers
<1> QED
  BY <1>1, <1>2 DEF Contexts

\* The context of a call made by another one.
LEMMA NestedShape ==
    ASSUME NEW c \in Registers, NEW label \in Points,
           NEW cmd \in Programs \cup {NoProgram}, NEW pid \in Pids \cup {NoPid},
           NEW caller \in Pids \cup {NoPid}, label \in PidPoints => pid \in Pids
    PROVE  [c EXCEPT !.pc = label, !.cmd = cmd, !.pid = pid, !.caller = caller]
             \in Contexts
<1> DEFINE d == [c EXCEPT !.pc = label, !.cmd = cmd, !.pid = pid, !.caller = caller]
<1>1. d \in Registers
  BY Zenon DEF Registers
<1>2. d.pc = label /\ d.pid = pid
  BY Zenon DEF Registers
<1> QED
  BY <1>1, <1>2 DEF Contexts

\* The context of a program that starts.
LEMMA UserShape ==
    ASSUME NEW c \in Registers, NEW f \in {0, 1}
    PROVE  [c EXCEPT !.pc = "user", !.if = f, !.uif = 0, !.eax = 0] \in Contexts
<1> DEFINE d == [c EXCEPT !.pc = "user", !.if = f, !.uif = 0, !.eax = 0]
<1>1. "user" \in Points /\ 0 \in {0, 1} /\ 0 \in Int /\ "user" \notin PidPoints
  BY DEF Points, PidPoints, KernelPoints
<1>2. d \in Registers
  BY <1>1, Zenon DEF Registers
<1>3. d.pc = "user"
  BY Zenon DEF Registers
<1> QED
  BY <1>1, <1>2, <1>3 DEF Contexts

\* The first context of a program is well formed.
LEMMA EntryType ==
    ASSUME NEW prog \in Programs \cup {NoProgram}, NEW p \in Pids,
           NEW f \in {0, 1}
    PROVE  Entry(prog, p, f) \in Contexts
<1> DEFINE d == [Lost EXCEPT !.pc = "user", !.stk = p, !.if = f, !.prog = prog]
<1>1. "user" \in Points /\ "user" \notin PidPoints
  BY DEF Points, PidPoints, KernelPoints
<1>2. Lost \in Registers
  BY LostType DEF Contexts
<1>3. d \in Registers
  BY <1>1, <1>2, Zenon DEF Registers
<1>4. d.pc = "user"
  BY <1>2, Zenon DEF Registers
<1> QED
  BY <1>1, <1>3, <1>4 DEF Contexts, Entry

\* The fields of the running context.
LEMMA CpuFields ==
    ASSUME MachineOK
    PROVE  /\ cpu \in Registers
           /\ cpu.pc \in Points
           /\ cpu.stk \in Pids
           /\ cpu.if \in {0, 1} /\ cpu.uif \in {0, 1}
           /\ cpu.prog \in Programs \cup {NoProgram}
           /\ cpu.cmd \in Programs \cup {NoProgram}
           /\ cpu.pid \in Pids \cup {NoPid}
           /\ cpu.caller \in Pids \cup {NoPid}
           /\ cpu.eax \in Int
           /\ cpu.pc \in PidPoints => cpu.pid \in Pids
BY DEF MachineOK, Contexts, Registers

\* Moving the running context to another label.
LEMMA AtType ==
    ASSUME MachineOK, NEW label \in PidPoints, NEW next \in PidPoints, At(label, next)
    PROVE  cpu' \in Contexts /\ cpu.pid \in Pids /\ cpu'.pc # "boot" /\ cpu.pc # "boot"
<1>1. cpu \in Registers /\ cpu.pid \in Pids
  BY CpuFields DEF At
<1>2. next \in Points /\ next # "boot" /\ label # "boot"
  BY DEF PidPoints, Points, KernelPoints
<1>3. [cpu EXCEPT !.pc = next] \in Registers
  BY <1>1, <1>2, Zenon DEF Registers
<1>4. [cpu EXCEPT !.pc = next].pc = next /\ [cpu EXCEPT !.pc = next].pid = cpu.pid
  BY <1>1 DEF Registers
<1> QED
  BY <1>1, <1>2, <1>3, <1>4 DEF At, Contexts

\* A return, to the wrapper or into sys_halt.
LEMMA ReturnType ==
    ASSUME MachineOK, NEW value \in Int
    PROVE  Return(value) \in Contexts /\ Return(value).pc # "boot"
<1>1. /\ "sys_return" \in Points /\ "halt_term" \in Points
      /\ "sys_return" \notin PidPoints
      /\ NoProgram \in Programs \cup {NoProgram} /\ NoPid \in Pids \cup {NoPid}
  BY DEF Points, PidPoints, KernelPoints
<1> DEFINE d == [cpu EXCEPT !.pc = "sys_return", !.cmd = NoProgram,
                            !.pid = NoPid, !.eax = value]
           e == [cpu EXCEPT !.pc = "halt_term", !.cmd = NoProgram,
                            !.pid = cpu.caller, !.caller = NoPid]
<1>2. d \in Contexts
  BY <1>1, CpuFields, ReturnShape, Zenon
<1>3. d.pc # "boot"
  BY CpuFields, Zenon DEF Registers
<1>4. ASSUME cpu.caller # NoPid
      PROVE  e \in Contexts
  <2>1. cpu.caller \in Pids
    BY <1>4, CpuFields
  <2> QED
    BY <1>1, <2>1, CpuFields, NestedShape, Zenon
<1>5. e.pc # "boot"
  BY CpuFields, Zenon DEF Registers
<1> QED
  BY <1>2, <1>3, <1>4, <1>5 DEF Return

\* The context that sys_execute leaves for sys_halt to jump to.
LEMMA ReturnContextType ==
    ASSUME MachineOK
    PROVE  ReturnContext \in Contexts
<1> DEFINE d == [cpu EXCEPT !.pc = "ret_to_exec", !.cmd = NoProgram, !.pid = NoPid]
<1>1. "ret_to_exec" \in Points /\ "ret_to_exec" \notin PidPoints
  BY DEF Points, PidPoints, KernelPoints
<1>2. d \in Registers
  BY <1>1, CpuFields, Zenon DEF Registers
<1>3. d.pc = "ret_to_exec"
  BY CpuFields, Zenon DEF Registers
<1> QED
  BY <1>1, <1>2, <1>3, LostType DEF ReturnContext, Contexts

\* A new process control block.
LEMMA NewPcbType ==
    ASSUME MachineOK, NEW p \in Pids, NEW stk \in Pids,
           NEW par_esp \in Contexts, NEW esp \in Contexts
    PROVE  NewPcb(p, stk, par_esp, esp) \in Pcbs
<1>1. get_curr_pid(stk, p) \in Pids
  BY DEF get_curr_pid, MachineOK, Pcbs
<1> QED
  BY <1>1 DEF NewPcb, Pcbs

\* A block that is cleared is a block.
LEMMA ZeroPcbType == ZeroPcb \in Pcbs
BY LostType, ProcessesAssumption DEF ZeroPcb, Pcbs, Pids

\* The initial state has the types.
LEMMA InitType == Init => MachineOK
<1> SUFFICES ASSUME Init PROVE MachineOK
  OBVIOUS
<1> DEFINE d == [Lost EXCEPT !.pc = "boot", !.if = 1]
<1>1. "boot" \in Points /\ "boot" \notin PidPoints
  BY DEF Points, PidPoints, KernelPoints
<1>2. Lost \in Registers
  BY LostType DEF Contexts
<1>3. d \in Registers
  BY <1>1, <1>2 DEF Registers
<1>4. d.pc = "boot"
  BY <1>2 DEF Registers
<1>5. cpu \in Contexts /\ cpu.pc = "boot"
  BY <1>1, <1>3, <1>4 DEF Init, Contexts
<1>6. pcb \in [Pids -> Pcbs]
  BY ZeroPcbType DEF Init
<1> QED
  BY <1>5, <1>6, ProcessesAssumption
     DEF Init, init_pid, InitTerminals, init_pit, MachineOK, Pids

\* A step into the kernel keeps the types.
LEMMA KernelEntryType ==
    ASSUME MachineOK, NEW label \in Points \ {"boot"}, NEW flag \in {0, 1},
           NEW cmd \in Programs \cup {NoProgram}, NEW pid \in Pids \cup {NoPid},
           NEW eax \in Int, label \in PidPoints => pid \in Pids,
           NEW points \in SUBSET FaultPoints, KernelEntry(points, label, flag, cmd, pid, eax)
    PROVE  MachineOK'
<1>1. cpu' \in Contexts
  <2>1. EntryStack \in Pids
    BY CpuFields DEF EntryStack, MachineOK
  <2>2. label \in Points
    OBVIOUS
  <2>3. cpu \in Registers /\ cpu.if \in {0, 1}
    BY CpuFields
  <2> QED
    BY <2>1, <2>2, <2>3, EnterShape, ZenonT(60) DEF KernelEntry
<1>2. page \in Pids
  BY DEF KernelEntry, MachineOK, FaultPoints
<1> QED
  BY <1>1, <1>2 DEF KernelEntry, MachineOK

\* Every system call and every exception keeps the types.
LEMMA CommandType == MachineOK /\ (Command \/ SysRead) => MachineOK'
<1> SUFFICES ASSUME MachineOK, Command \/ SysRead PROVE MachineOK'
  OBVIOUS
<1>1. /\ "wait" \in Points \ {"boot"} /\ "wait" \notin PidPoints
      /\ "exec_pid" \in Points \ {"boot"} /\ "exec_pid" \notin PidPoints
      /\ "halt_tss" \in Points \ {"boot"}
      /\ NoProgram \in Programs \cup {NoProgram} /\ NoPid \in Pids \cup {NoPid}
      /\ 0 \in {0, 1} /\ 1 \in {0, 1} /\ 0 \in Int
      /\ {"user"} \in SUBSET FaultPoints /\ FaultPoints \in SUBSET FaultPoints
  BY DEF Points, PidPoints, KernelPoints, FaultPoints
<1>2. Current # NoPid => Current \in Pids
  BY DEF MachineOK, Current
<1>3. CASE SysRead
  BY <1>1, <1>3, KernelEntryType, Zenon DEF SysRead, SysEnter
<1>4. ASSUME NEW cmd \in Programs \cup {NoProgram}, SysExecute(cmd)
      PROVE  MachineOK'
  BY <1>1, <1>4, KernelEntryType, Zenon DEF SysExecute, SysEnter
<1>5. ASSUME NEW status \in Statuses, SysHalt(status)
      PROVE  MachineOK'
  <2>1. status \in Int
    BY ProcessesAssumption
  <2> QED
    BY <1>1, <1>2, <1>5, <2>1, KernelEntryType, Zenon DEF SysHalt, SysEnter
<1>6. CASE Exception
  <2>1. HALT_STATUS_EXC \in Int
    OBVIOUS
  <2> QED
    BY <1>1, <1>2, <1>6, <2>1, KernelEntryType, Zenon DEF Exception, blue_screen
<1> QED
  BY <1>3, <1>4, <1>5, <1>6 DEF Command

\* Every statement of sys_execute keeps the types.
LEMMA ExecuteType ==
    ASSUME MachineOK,
           \/ ExecuteFails \/ GetPid \/ MapPage \/ LoadImage \/ CreatePcb \/ SetTss
           \/ MarkUsed \/ SetTerminal \/ EnterProgram \/ ExecuteReturns \/ SysReturn
    PROVE  MachineOK'
<1>1. /\ {"exec_page", "exec_load", "exec_pcb", "exec_tss", "exec_used",
          "exec_term", "exec_go"} \subseteq PidPoints
      /\ "exec_page" \in Points
      /\ ERROR \in Int /\ HALT_EXC \in Int /\ 0 \in Int
  BY DEF PidPoints, KernelPoints, Points
<1>2. CASE ExecuteFails
  BY <1>1, <1>2, ReturnType DEF ExecuteFails, MachineOK
<1>3. CASE GetPid
  <2> DEFINE d == [cpu EXCEPT !.pc = "exec_page", !.pid = get_new_pid(used_pids)]
  <2>1. get_new_pid(used_pids) \in Pids
    BY <1>3, NewPid DEF GetPid
  <2>2. d \in Registers
    BY <1>1, <2>1, CpuFields, Zenon DEF Registers
  <2>3. d.pc = "exec_page" /\ d.pid = get_new_pid(used_pids)
    BY CpuFields, Zenon DEF Registers
  <2> QED
    BY <1>3, <2>1, <2>2, <2>3 DEF GetPid, Contexts, MachineOK
<1>4. CASE MapPage
  BY <1>1, <1>4, AtType DEF MapPage, MachineOK
<1>5. CASE LoadImage
  <2>1. cpu' \in Contexts /\ cpu.pc # "boot"
    BY <1>1, <1>5, AtType DEF LoadImage
  <2>2. frame' \in [Pids -> Programs \cup {NoProgram}]
    BY <1>5, <2>1, CpuFields DEF LoadImage, MachineOK
  <2> QED
    BY <1>5, <2>1, <2>2 DEF LoadImage, MachineOK
<1>6. CASE CreatePcb
  <2>1. cpu' \in Contexts /\ cpu.pc # "boot" /\ cpu.pid \in Pids
    BY <1>1, <1>6, AtType DEF CreatePcb
  <2>2. NewPcb(cpu.pid, cpu.stk, ReturnContext, pcb[cpu.pid].esp) \in Pcbs
    <3>1. pcb[cpu.pid].esp \in Contexts
      BY <2>1 DEF MachineOK, Pcbs
    <3> QED
      BY <2>1, <3>1, CpuFields, NewPcbType, ReturnContextType
  <2>3. pcb' \in [Pids -> Pcbs]
    BY <1>6, <2>1, <2>2 DEF CreatePcb, MachineOK
  <2> QED
    BY <1>6, <2>1, <2>3 DEF CreatePcb, MachineOK
<1>7. CASE SetTss
  BY <1>1, <1>7, AtType DEF SetTss, MachineOK
<1>8. CASE MarkUsed
  BY <1>1, <1>8, AtType DEF MarkUsed, MachineOK
<1>9. CASE SetTerminal
  <2>1. cpu' \in Contexts /\ cpu.pc # "boot" /\ cpu.pid \in Pids
    BY <1>1, <1>9, AtType DEF SetTerminal
  <2>2. pcb[cpu.pid].par_pid \in Pids
    BY <2>1 DEF MachineOK, Pcbs
  <2> QED
    BY <1>9, <2>1, <2>2 DEF SetTerminal, MachineOK
<1>10. CASE EnterProgram
  <2>1. cpu.pid \in Pids /\ cpu.pc # "boot"
    BY <1>1, <1>10, CpuFields DEF EnterProgram
  <2>2. cpu' \in Contexts
    BY <1>10, <2>1, CpuFields, EntryType DEF EnterProgram
  <2>3. pcb' \in [Pids -> Pcbs]
    BY <1>10, <2>1, LostType DEF EnterProgram, MachineOK, Pcbs
  <2> QED
    BY <1>10, <2>1, <2>2, <2>3 DEF EnterProgram, MachineOK
<1>11. CASE ExecuteReturns
  BY <1>1, <1>11, ReturnType DEF ExecuteReturns, MachineOK
<1>12. CASE SysReturn
  <2>1. cpu' \in Contexts
    BY <1>12, CpuFields, UserShape, Zenon DEF SysReturn
  <2> QED
    BY <1>12, <2>1 DEF SysReturn, MachineOK
<1> QED
  BY <1>2, <1>3, <1>4, <1>5, <1>6, <1>7, <1>8, <1>9, <1>10, <1>11, <1>12

\* Every statement of sys_halt keeps the types.
LEMMA HaltType ==
    ASSUME MachineOK,
           \/ ParentTss \/ FreePid \/ ParentPage \/ CheckRoot \/ ParentTerminal
           \/ JumpToParent
    PROVE  MachineOK'
<1>1. /\ {"halt_tss", "halt_free", "halt_page", "halt_root", "halt_term",
          "halt_jump"} \subseteq PidPoints
      /\ "respawn" \in Points /\ "respawn" \notin PidPoints
      /\ "halt_term" \in Points
      /\ NoPid \in Pids \cup {NoPid}
  BY DEF PidPoints, KernelPoints, Points
<1>2. ASSUME cpu.pid \in Pids
      PROVE  /\ pcb[cpu.pid] \in Pcbs
             /\ pcb[cpu.pid].pid \in Pids /\ pcb[cpu.pid].par_pid \in Pids
             /\ pcb[cpu.pid].par_pcb_ptr \in Pids
             /\ pcb[cpu.pid].par_esp \in Contexts
  BY <1>2 DEF MachineOK, Pcbs
<1>3. CASE ParentTss
  BY <1>1, <1>2, <1>3, AtType DEF ParentTss, MachineOK
<1>4. CASE FreePid
  BY <1>1, <1>2, <1>4, AtType DEF FreePid, MachineOK
<1>5. CASE ParentPage
  BY <1>1, <1>2, <1>5, AtType DEF ParentPage, MachineOK
<1>6. CASE CheckRoot
  <2>1. cpu.pid \in Pids /\ cpu.pc # "boot"
    BY <1>1, <1>6, CpuFields DEF CheckRoot
  <2>2. [cpu EXCEPT !.pc = "respawn", !.cmd = Shell, !.pid = NoPid,
                    !.caller = cpu.pid] \in Contexts
    <3>1. Shell \in Programs \cup {NoProgram}
      BY ProcessesAssumption
    <3> QED
      BY <1>1, <2>1, <3>1, CpuFields, NestedShape, Zenon
  <2>3. [cpu EXCEPT !.pc = "halt_term"] \in Contexts
    BY <1>1, <2>1, CpuFields DEF Contexts, Registers
  <2> QED
    BY <1>6, <2>1, <2>2, <2>3 DEF CheckRoot, MachineOK
<1>7. CASE ParentTerminal
  <2>1. cpu' \in Contexts /\ cpu.pc # "boot" /\ cpu.pid \in Pids
    BY <1>1, <1>7, AtType DEF ParentTerminal
  <2>2. pcb[pcb[cpu.pid].par_pcb_ptr] \in Pcbs
    BY <1>2, <2>1 DEF MachineOK
  <2>3. /\ pcb[pcb[cpu.pid].par_pcb_ptr].pid \in Pids
        /\ pcb[pcb[cpu.pid].par_pcb_ptr].par_pid \in Pids
    BY <2>2 DEF Pcbs
  <2> QED
    BY <1>7, <2>1, <2>3 DEF ParentTerminal, MachineOK
<1>8. CASE JumpToParent
  <2>1. cpu.pid \in Pids /\ cpu.pc # "boot"
    BY <1>1, <1>8, CpuFields DEF JumpToParent
  <2>2. cpu' \in Contexts
    BY <1>2, <1>8, <2>1, CpuFields DEF JumpToParent, Contexts, Registers
  <2>3. pcb' \in [Pids -> Pcbs]
    BY <1>8, <2>1, ZeroPcbType DEF JumpToParent, MachineOK
  <2> QED
    BY <1>8, <2>1, <2>2, <2>3 DEF JumpToParent, MachineOK
<1> QED
  BY <1>3, <1>4, <1>5, <1>6, <1>7, <1>8

\* The timer interrupt keeps the types.
LEMMA TickType == MachineOK /\ Tick => MachineOK'
<1> SUFFICES ASSUME MachineOK, Tick PROVE MachineOK'
  OBVIOUS
<1>1. NextProcess \in Terminals
  BY DEF NextProcess, MachineOK
<1>2. CASE StartBaseShell
  <2> DEFINE p == get_new_pid(used_pids)
             saved == IF NextProcess = 0 THEN pcb
                      ELSE [pcb EXCEPT ![curr_process].esp = cpu]
  <2>1. saved \in [Pids -> Pcbs]
    <3>1. curr_process \in Pids /\ cpu \in Contexts
      BY TerminalsArePids DEF MachineOK
    <3> QED
      BY <3>1 DEF MachineOK, Pcbs
  <2>2. CASE p = ERROR
    BY <1>1, <1>2, <2>1, <2>2 DEF StartBaseShell, MachineOK
  <2>3. CASE p # ERROR
    <3>1. p \in Pids
      BY <2>3, NewPid
    <3>2. EntryStack \in Pids
      BY CpuFields DEF EntryStack, MachineOK
    <3>3. NewPcb(p, EntryStack, Lost, Lost) \in Pcbs
      BY <3>1, <3>2, NewPcbType, LostType
    <3>4. pcb' = [saved EXCEPT ![p] = NewPcb(p, EntryStack, Lost, Lost)]
      BY <1>2, <2>3 DEF StartBaseShell
    <3>5. pcb' \in [Pids -> Pcbs] /\ pcb'[p].par_pid \in Pids
      BY <2>1, <3>1, <3>3, <3>4 DEF Pcbs
    <3>6. cpu' \in Contexts
      <4>1. cpu' = Entry(Shell, p, 0)
        BY <1>2, <2>3 DEF StartBaseShell
      <4> QED
        BY <3>1, <4>1, EntryType, ProcessesAssumption
    <3>7. /\ page' = p /\ tss' = p /\ curr_process' = NextProcess
          /\ used_pids' = [used_pids EXCEPT ![p] = 1]
          /\ frame' = [frame EXCEPT ![p] = Shell]
          /\ terminals' = [terminals EXCEPT ![NextProcess] =
               [prog_curr_pid |-> p, prog_par_pid |-> pcb'[p].par_pid]]
      BY <1>2, <2>3 DEF StartBaseShell
    <3> HIDE DEF p
    <3> QED
      BY <1>1, <3>1, <3>5, <3>6, <3>7, ProcessesAssumption DEF MachineOK
  <2> QED
    BY <2>2, <2>3
<1>3. CASE SwitchProcess
  <2> DEFINE pid == terminals[NextProcess].prog_curr_pid
             saved == [pcb EXCEPT ![Current].esp = cpu]
  <2>1. Current \in Pids /\ pid \in Pids
    BY <1>1, <1>3 DEF SwitchProcess, Current, MachineOK
  <2>2. saved \in [Pids -> Pcbs]
    BY <2>1 DEF MachineOK, Pcbs
  <2>3. /\ pcb' = [saved EXCEPT ![pid].esp = Lost]
        /\ cpu' = saved[pid].esp
        /\ page' = pid /\ tss' = pid /\ curr_process' = NextProcess
        /\ UNCHANGED <<used_pids, terminals, frame>>
    BY <1>3 DEF SwitchProcess
  <2> HIDE DEF pid, saved
  <2>4. pcb' \in [Pids -> Pcbs] /\ cpu' \in Contexts
    BY <2>1, <2>2, <2>3, LostType DEF Pcbs
  <2> QED
    BY <1>1, <2>1, <2>3, <2>4 DEF MachineOK
<1> QED
  BY <1>2, <1>3 DEF Tick

\* Every step keeps the types.
LEMMA TypeStep == TypeOK /\ [Next]_vars => TypeOK'
<1> SUFFICES ASSUME TypeOK, [Next]_vars PROVE TypeOK'
  OBVIOUS
<1>0. MachineOK /\ torn \in BOOLEAN
  BY DEF TypeOK
<1>6. MachineOK'
  <2>1. CASE Tick
    BY <1>0, <2>1, TickType
  <2>2. CASE KernelStep
    BY <1>0, <2>2, ExecuteType, HaltType DEF KernelStep
  <2>3. CASE Command \/ SysRead
    BY <1>0, <2>3, CommandType
  <2>4. CASE ReadReturns
    BY <1>0, <2>4, ReturnType DEF ReadReturns, MachineOK
  <2>5. CASE UNCHANGED vars
    BY <1>0, <2>5 DEF vars, MachineOK
  <2> QED
    BY <2>1, <2>2, <2>3, <2>4, <2>5, Zenon DEF Next
<1>7. torn' \in BOOLEAN
  BY <1>0, Zenon DEF Next, vars
<1> QED
  BY <1>6, <1>7 DEF TypeOK

\* The variables of the process model keep their types whatever the timer
\* interrupts: in particular sys_execute never indexes used_pids, the blocks or
\* the frames with a pid outside the table, and sys_halt always has a process.
THEOREM Typing == Spec => []TypeOK
<1>1. Init => TypeOK
  BY InitType DEF TypeOK, Init
<1>2. TypeOK /\ [Next]_vars => TypeOK'
  BY TypeStep
<1> QED
  BY <1>1, <1>2, PTL DEF Spec

-----------------------------------------------------------------------------
(***************************************************************************)
(* The inductive invariant.  It speaks of the stacks of processes that the *)
(* terminals have: S[t] is the sequence of the pids of terminal t, from    *)
(* the base shell to the process that runs.                                *)
(***************************************************************************)
Top(s) == s[Len(s)]

InUse(S, p) == \E t \in Terminals : \E i \in 1 .. Len(S[t]) : S[t][i] = p

\* What sys_halt jumps to when a child of q halts: the call of execute in q.
ResumesIn(c, q) ==
    /\ c.pc = "ret_to_exec" /\ c.stk = q /\ c.prog = frame[q] /\ c.caller = NoPid

\* The block of p is that of a child of q.
ChildOf(p, q) ==
    /\ pcb[p].pid = p
    /\ pcb[p].par_pid = q /\ pcb[p].par_pcb_ptr = q
    /\ ResumesIn(pcb[p].par_esp, q)

\* The stacks are what the blocks and the terminals say: a base shell whose pid is
\* the number of the terminal, above it children whose pids are no terminal numbers.
StacksLinked(S) ==
    \A t \in Terminals :
        /\ S[t] = <<>> => terminals[t].prog_curr_pid = NoPid
        /\ S[t] # <<>> =>
             /\ terminals[t].prog_curr_pid = Top(S[t])
             /\ S[t][1] = t
             /\ pcb[t].pid = t /\ pcb[t].par_pid = t
        /\ \A i \in 2 .. Len(S[t]) : S[t][i] >= 3 /\ ChildOf(S[t][i], S[t][i - 1])

\* No pid occurs twice.
StacksDisjoint(S) ==
    \A t, u \in Terminals : \A i \in 1 .. Len(S[t]), j \in 1 .. Len(S[u]) :
        S[t][i] = S[u][j] => t = u /\ i = j

\* The terminals start one after the other, and until all run nothing is executed.
StartedInOrder(S) ==
    \/ /\ \A t \in Terminals : S[t] # <<>>
       /\ cpu.pc # "boot"
    \/ /\ curr_process < NUM_TERMINALS - 1
       /\ \A t \in Terminals : S[t] = IF t <= curr_process THEN <<t>> ELSE <<>>
       /\ cpu.pc \in {"user", "wait", "sys_return"}
    \/ /\ curr_process = NUM_TERMINALS - 1
       /\ \A t \in Terminals : S[t] = <<>>
       /\ cpu.pc = "boot"

\* A context at a safe point, of the process q.
AtRest(c, q) ==
    /\ c.pc \in SafePoints \ {"boot"}
    /\ c.pc = "exec_go" => c.pid = q /\ c.cmd = frame[q]
    /\ c.pc = "halt_tss" => c.pid = q
    /\ c.pc # "exec_go" => c.caller = NoPid
    /\ c.pc \notin {"exec_go", "user"} => c.stk = q
    /\ c.pc \notin {"exec_go", "halt_tss"} => c.prog = frame[q]

\* The process on top of every stack but the running one is at a safe point.
OthersAtRest(S) ==
    \A t \in Terminals \ {curr_process} :
        S[t] # <<>> => AtRest(pcb[Top(S[t])].esp, Top(S[t]))

\* Outside the windows the address space and tss.esp0 are those of the process
\* on top of the stack.
RunsAtRest(q) == AtRest(cpu, q) /\ page = q /\ tss = q

LoadPoints == {"exec_page", "exec_load", "exec_pcb", "exec_tss", "exec_used", "exec_term"}

\* How far sys_execute of the program cpu.cmd as process cpu.pid has come.
Loading(q) ==
    /\ cpu.pc \in LoadPoints
    /\ page = IF cpu.pc = "exec_page" THEN q ELSE cpu.pid
    /\ cpu.pc \in {"exec_pcb", "exec_tss", "exec_used", "exec_term"} => frame[cpu.pid] = cpu.cmd
    /\ cpu.pc \in {"exec_used", "exec_term"} => tss = cpu.pid

\* A process in execute: the child has a pid that no process has.
Executes(S, q) ==
    /\ Loading(q)
    /\ cpu.stk = q /\ cpu.prog = frame[q] /\ cpu.caller = NoPid
    /\ cpu.pid >= 3 /\ ~InUse(S, cpu.pid)
    /\ cpu.pc \in {"exec_tss", "exec_used", "exec_term"} => ChildOf(cpu.pid, q)

\* A base shell t that has halted is started again with the pid it had.
Respawns(S, t) ==
    /\ S[t] = <<t>>
    /\ cpu.pc = "respawn" \/ (Loading(t) /\ cpu.pid = t)
    /\ cpu.stk = t /\ cpu.caller = t /\ cpu.cmd = Shell
    /\ page = t /\ tss = t

\* A process q in halt, before it is taken off the stack s.
Halts(s, q) ==
    /\ cpu.pc \in {"halt_free", "halt_page", "halt_root", "halt_term"}
    /\ cpu.pid = q /\ cpu.stk = q /\ cpu.caller = NoPid
    /\ tss = pcb[q].par_pid
    /\ cpu.pc \in {"halt_root", "halt_term"} => page = pcb[q].par_pid
    /\ cpu.pc = "halt_term" => q >= 3

\* A process in halt, when it is off the stack and q is its parent.
Leaves(S, q) ==
    /\ cpu.pc = "halt_jump"
    /\ ~InUse(S, cpu.pid)
    /\ ResumesIn(pcb[cpu.pid].par_esp, q)
    /\ page = q /\ tss = q

Runs(S) ==
    LET s == S[curr_process]
    IN  s # <<>> =>
          \/ RunsAtRest(Top(s))
          \/ Executes(S, Top(s))
          \/ Respawns(S, curr_process)
          \/ Halts(s, Top(s))
          \/ Leaves(S, Top(s))

\* The pid that used_pids does not mark although its process is on a stack.
Unmarked ==
    IF cpu.pc \in {"halt_page", "halt_root", "halt_term"} THEN cpu.pid
    ELSE IF cpu.pc \in (LoadPoints \ {"exec_term"}) \cup {"respawn"} THEN cpu.caller
    ELSE NoPid

\* used_pids marks the pids on the stacks, except in the windows.
PidsMarked(S) ==
    \A p \in Pids :
        used_pids[p] = 1 <=>
            \/ InUse(S, p) /\ p # Unmarked
            \/ cpu.pc = "exec_term" /\ p = cpu.pid

StacksInv(S) ==
    /\ StacksLinked(S) /\ StacksDisjoint(S) /\ StartedInOrder(S)
    /\ OthersAtRest(S) /\ Runs(S) /\ PidsMarked(S)

\* Lineage is what its recursion says.
LEMMA LineageUnfolds ==
    ASSUME MachineOK
    PROVE  \E f : /\ Lineage = f[MAX_PROCESSES]
                  /\ \A n \in 0 .. MAX_PROCESSES, p \in Pids :
                       f[n][p] = IF n = 0 \/ p < 3 THEN <<p>>
                                 ELSE Append(f[n - 1][pcb[p].par_pcb_ptr], p)
<1> DEFINE M == MAX_PROCESSES
           D == [Pids -> Seq(Pids)]
           Is(f) == f = [n \in 0 .. M |->
                          [p \in Pids |-> IF n = 0 \/ p < 3 THEN <<p>>
                                          ELSE Append(f[n - 1][pcb[p].par_pcb_ptr], p)]]
           a == [p \in Pids |-> <<p>>]
           Step(d) == [p \in Pids |-> IF p < 3 THEN <<p>>
                                      ELSE Append(d[pcb[p].par_pcb_ptr], p)]
           g == [x \in (1 .. M) \X D |-> Step(x[2])]
<1>1. M \in Nat
  BY ProcessesAssumption
<1>2. a \in D
  OBVIOUS
<1>3. ASSUME NEW d \in D PROVE Step(d) \in D
  <2>1. ASSUME NEW p \in Pids PROVE Append(d[pcb[p].par_pcb_ptr], p) \in Seq(Pids)
    <3>1. pcb[p].par_pcb_ptr \in Pids
      BY DEF MachineOK, Pcbs
    <3>2. d[pcb[p].par_pcb_ptr] \in Seq(Pids)
      BY <3>1
    <3> QED
      BY <3>2
  <2> QED
    BY <2>1
<1>5. ASSUME NEW n \in 1 .. M, NEW d \in D PROVE g[<<n, d>>] = Step(d)
  OBVIOUS
<1> HIDE DEF g, a, D
<1>6. PICK f : Trace(M, D, a, g, f)
  <2>1. Loop(M, D, a, g)
    BY <1>1, <1>2, <1>3, <1>5 DEF Loop
  <2> QED
    BY <2>1, Iteration
<1>7. ASSUME NEW n \in 0 .. M
      PROVE  f[n] = [p \in Pids |-> IF n = 0 \/ p < 3 THEN <<p>>
                                      ELSE Append(f[n - 1][pcb[p].par_pcb_ptr], p)]
  <2>1. CASE n = 0
    BY <1>6, <2>1 DEF a, Trace
  <2>2. CASE n # 0
    <3>1. n \in 1 .. M /\ n - 1 \in 0 .. M
      BY <2>2, <1>1
    <3>2. f[n - 1] \in D
      BY <1>6, <3>1 DEF Trace
    <3>3. f[n] = Step(f[n - 1])
      BY <1>5, <1>6, <3>1, <3>2 DEF Trace
    <3> QED
      BY <3>3, <2>2
  <2> QED
    BY <2>1, <2>2
<1>8. Is(f)
  BY <1>6, <1>7 DEF Trace
<1> DEFINE h == CHOOSE h : Is(h)
<1>9. Is(h)
  BY <1>8
<1>10. Lineage = h[M]
  BY DEF Lineage
<1> HIDE DEF h
<1>11. ASSUME NEW n \in 0 .. M, NEW p \in Pids
       PROVE  h[n][p] = IF n = 0 \/ p < 3 THEN <<p>>
                        ELSE Append(h[n - 1][pcb[p].par_pcb_ptr], p)
  <2>1. h[n] = [q \in Pids |-> IF n = 0 \/ q < 3 THEN <<q>>
                                ELSE Append(h[n - 1][pcb[q].par_pcb_ptr], q)]
    BY <1>9, Zenon
  <2> QED
    BY <2>1
<1> QED
  BY <1>10, <1>11

\* A stack that the blocks link is the lineage of its processes.
LEMMA LineageOfStack ==
    ASSUME MachineOK, NEW s \in Seq(Pids), s # <<>>, s[1] < 3,
           \A i \in 2 .. Len(s) : s[i] >= 3 /\ pcb[s[i]].par_pcb_ptr = s[i - 1],
           Len(s) <= MAX_PROCESSES
    PROVE  Lineage[Top(s)] = s
<1> DEFINE M == MAX_PROCESSES
<1>1. PICK f : /\ Lineage = f[M]
               /\ \A n \in 0 .. M, p \in Pids :
                    f[n][p] = IF n = 0 \/ p < 3 THEN <<p>>
                              ELSE Append(f[n - 1][pcb[p].par_pcb_ptr], p)
  BY LineageUnfolds
<1>2. Len(s) \in Nat \ {0} /\ M \in Nat /\ \A i \in 1 .. Len(s) : s[i] \in Pids
  BY ProcessesAssumption
<1> DEFINE T == {i \in 0 .. Len(s) - 1 : \A n \in i .. M : f[n][s[i + 1]] = SubSeq(s, 1, i + 1)}
<1>3. 0 \in T
  <2>1. SubSeq(s, 1, 1) = <<s[1]>>
    <3> DEFINE a == SubSeq(s, 1, 1)
               b == <<s[1]>>
    <3>1. Len(a) = 1 /\ a[1] = s[1] /\ a \in Seq(Pids)
      BY <1>2, SubSeqProperties
    <3>2. b \in Seq(Pids) /\ Len(b) = 1 /\ b[1] = s[1]
      BY <1>2
    <3> HIDE DEF a, b
    <3>3. Len(a) = Len(b) /\ \A i \in 1 .. Len(a) : a[i] = b[i]
      BY <3>1, <3>2
    <3>4. a = b
      BY <3>1, <3>2, <3>3, SeqEqual
    <3> QED
      BY <3>4 DEF a, b
  <2>2. \A n \in 0 .. M : f[n][s[1]] = <<s[1]>>
    <3>1. s[1] \in Pids
      BY <1>2
    <3> QED
      BY <1>1, <3>1
  <2> QED
    BY <1>2, <2>1, <2>2
<1>4. ASSUME NEW i \in 1 .. Len(s) - 1, i - 1 \in T PROVE i \in T
  <2>1. SubSeq(s, 1, i + 1) = Append(SubSeq(s, 1, i), s[i + 1])
    BY <1>2
  <2>2. \A n \in i - 1 .. M : f[n][s[i]] = SubSeq(s, 1, i)
    BY <1>2, <1>4
  <2>3. ASSUME NEW n \in i .. M PROVE f[n][s[i + 1]] = SubSeq(s, 1, i + 1)
    <3>1. i + 1 \in 2 .. Len(s) /\ n \in 0 .. M /\ n # 0 /\ n - 1 \in i - 1 .. M
      BY <1>2
    <3>2. s[i + 1] \in Pids /\ ~(s[i + 1] < 3) /\ pcb[s[i + 1]].par_pcb_ptr = s[i]
      BY <1>2, <3>1 DEF Pids
    <3>3. f[n][s[i + 1]] = Append(f[n - 1][s[i]], s[i + 1])
      BY <1>1, <3>1, <3>2
    <3> QED
      BY <2>1, <2>2, <3>1, <3>3
  <2> QED
    BY <1>2, <2>3
<1> HIDE DEF T
<1>5. Len(s) - 1 \in T
  <2>1. Inductive(Len(s) - 1, T)
    BY <1>2, <1>3, <1>4 DEF Inductive
  <2> QED
    BY <1>2, <2>1, Induction
<1>6. f[M][s[Len(s)]] = SubSeq(s, 1, Len(s))
  BY <1>2, <1>5 DEF T
<1> QED
  BY <1>1, <1>6 DEF Top

\* One stack of pids for each terminal.
Stacks == [Terminals -> Seq(Pids)]

\* No stack is longer than the table of pids: its pids are different.
LEMMA StackFits ==
    ASSUME NEW s \in Seq(Pids), \A i, j \in 1 .. Len(s) : s[i] = s[j] => i = j
    PROVE  Len(s) <= MAX_PROCESSES
<1>1. Len(s) \in Nat /\ MAX_PROCESSES \in Nat
  BY ProcessesAssumption
<1>2. IsFiniteSet(1 .. Len(s)) /\ Cardinality(1 .. Len(s)) = Len(s)
  <2>1. ASSUME NEW n \in Nat PROVE IsFiniteSet(1 .. n) /\ Cardinality(1 .. n) = n
    BY FS_Interval
  <2> QED
    BY <1>1, <2>1
<1>3. IsFiniteSet(Pids) /\ Cardinality(Pids) = MAX_PROCESSES
  BY <1>1, FS_Interval DEF Pids
<1>4. s \in Injection(1 .. Len(s), Pids)
  BY <1>1 DEF Injection, IsInjective
<1>5. Cardinality(1 .. Len(s)) <= Cardinality(Pids)
  BY <1>2, <1>3, <1>4, FS_Injection
<1> QED
  BY <1>2, <1>3, <1>5

\* The stacks are the sessions.
LEMMA StacksAreSessions ==
    ASSUME MachineOK, NEW S \in Stacks, StacksLinked(S), StacksDisjoint(S),
           NEW t \in Terminals
    PROVE  Session(t) = S[t]
<1>1. S[t] \in Seq(Pids)
  BY DEF Stacks
<1>2. CASE S[t] = <<>>
  BY <1>2 DEF StacksLinked, Session
<1>3. CASE S[t] # <<>>
  <2>1. terminals[t].prog_curr_pid = Top(S[t]) /\ S[t][1] = t
    BY <1>3 DEF StacksLinked
  <2>2. \A i \in 2 .. Len(S[t]) : S[t][i] >= 3 /\ pcb[S[t][i]].par_pcb_ptr = S[t][i - 1]
    BY DEF StacksLinked, ChildOf
  <2>3. \A i, j \in 1 .. Len(S[t]) : S[t][i] = S[t][j] => i = j
    BY DEF StacksDisjoint
  <2>4. Len(S[t]) <= MAX_PROCESSES
    BY <1>1, <2>3, StackFits
  <2>5. Lineage[Top(S[t])] = S[t]
    <3> DEFINE s == S[t]
    <3>1. /\ s \in Seq(Pids) /\ s # <<>> /\ s[1] < 3 /\ Len(s) <= MAX_PROCESSES
          /\ \A i \in 2 .. Len(s) : s[i] >= 3 /\ pcb[s[i]].par_pcb_ptr = s[i - 1]
      BY <1>1, <1>3, <2>1, <2>2, <2>4
    <3> HIDE DEF s
    <3>2. Lineage[Top(s)] = s
      BY <3>1, LineageOfStack
    <3> QED
      BY <3>2 DEF s
  <2>6. Top(S[t]) \in Pids
    BY <1>1, <1>3 DEF Top
  <2> QED
    BY <2>1, <2>5, <2>6, ProcessesAssumption DEF Session, Pids
<1> QED
  BY <1>2, <1>3

\* With the invariant, the pids of the sessions are as PidsPartitioned says.
LEMMA StacksPartition ==
    ASSUME MachineOK, NEW S \in Stacks, StacksInv(S)
    PROVE  PidsPartitioned
<1> USE DEF StacksInv
<1>1. \A t \in Terminals : Session(t) = S[t]
  BY StacksAreSessions
<1>2. ASSUME NEW t \in Terminals
      PROVE  SessionPids(t) = {S[t][i] : i \in 1 .. Len(S[t])}
  BY <1>1 DEF SessionPids, Stacks
<1>3. \A t, u \in Terminals : t # u => SessionPids(t) \cap SessionPids(u) = {}
  <2> SUFFICES ASSUME NEW t \in Terminals, NEW u \in Terminals, t # u,
                      NEW p \in SessionPids(t), p \in SessionPids(u)
               PROVE  FALSE
    OBVIOUS
  <2>1. PICK i \in 1 .. Len(S[t]) : p = S[t][i]
    BY <1>2
  <2>2. PICK j \in 1 .. Len(S[u]) : p = S[u][j]
    BY <1>2
  <2> QED
    BY <2>1, <2>2 DEF StacksDisjoint
<1>4. \A t \in Terminals : Session(t) # <<>> => Session(t)[1] = t
  BY <1>1 DEF StacksLinked
<1>5. ASSUME cpu.pc \in SafePoints
      PROVE  {p \in Pids : used_pids[p] = 1} = UNION {SessionPids(t) : t \in Terminals}
  <2>1. Unmarked = NoPid /\ cpu.pc # "exec_term"
    BY <1>5 DEF Unmarked, SafePoints, LoadPoints
  <2>2. ASSUME NEW p \in Pids PROVE used_pids[p] = 1 <=> InUse(S, p)
    BY <2>1, ProcessesAssumption DEF PidsMarked, Pids
  <2>3. \A p : InUse(S, p) <=> \E t \in Terminals : p \in SessionPids(t)
    BY <1>2 DEF InUse
  <2>4. \A p : InUse(S, p) => p \in Pids
    BY DEF InUse, Stacks
  <2> QED
    BY <2>2, <2>3, <2>4
<1> QED
  BY <1>3, <1>4, <1>5 DEF PidsPartitioned

-----------------------------------------------------------------------------
\* The stack of the terminal that runs.
LEMMA RunningStack ==
    ASSUME MachineOK, NEW S \in Stacks, StacksInv(S), cpu.pc # "boot"
    PROVE  LET s == S[curr_process]
               q == Top(s)
           IN  /\ s \in Seq(Pids) /\ s # <<>> /\ Len(s) \in Nat \ {0}
               /\ Current = q /\ q \in Pids /\ InUse(S, q)
               /\ s[1] = curr_process
               /\ pcb[q].pid = q
               /\ \/ Len(s) = 1 /\ q = curr_process /\ q < 3 /\ pcb[q].par_pid = q
                  \/ /\ Len(s) > 1 /\ q >= 3
                     /\ s[Len(s) - 1] \in Pids
                     /\ ChildOf(q, s[Len(s) - 1])
<1> USE DEF StacksInv
<1> DEFINE s == S[curr_process]
           q == Top(s)
<1>0. curr_process \in Terminals
  BY DEF MachineOK
<1>1. s \in Seq(Pids)
  BY <1>0 DEF Stacks
<1>2. s # <<>>
  BY <1>0 DEF StartedInOrder
<1>3. Len(s) \in Nat \ {0} /\ q \in Pids /\ q = s[Len(s)]
  BY <1>1, <1>2 DEF Top
<1>4. Current = q /\ s[1] = curr_process /\ pcb[curr_process].pid = curr_process
      /\ pcb[curr_process].par_pid = curr_process
  BY <1>0, <1>2 DEF StacksLinked, Current
<1>5. InUse(S, q)
  BY <1>0, <1>3 DEF InUse
<1>6. CASE Len(s) = 1
  BY <1>0, <1>1, <1>2, <1>3, <1>4, <1>5, <1>6
<1>7. CASE Len(s) > 1
  <2>1. Len(s) \in 2 .. Len(s) /\ Len(s) - 1 \in 1 .. Len(s)
    BY <1>3, <1>7
  <2>2. s[Len(s)] >= 3 /\ ChildOf(s[Len(s)], s[Len(s) - 1])
    BY <1>0, <2>1 DEF StacksLinked
  <2>3. s[Len(s) - 1] \in Pids
    BY <1>1, <2>1
  <2>4. pcb[q].pid = q
    BY <1>3, <2>2 DEF ChildOf
  <2> QED
    BY <1>1, <1>2, <1>3, <1>4, <1>5, <1>7, <2>2, <2>3, <2>4
<1>8. Len(s) = 1 \/ Len(s) > 1
  <2>1. \A n \in Nat \ {0} : n = 1 \/ n > 1
    OBVIOUS
  <2> QED
    BY <1>3, <2>1
<1> QED
  BY <1>6, <1>7, <1>8

\* Outside the windows the running process is at rest.
LEMMA Rests ==
    ASSUME MachineOK, NEW S \in Stacks, StacksInv(S), cpu.pc \in SafePoints \ {"boot"}
    PROVE  /\ AtRest(cpu, Current) /\ page = Current /\ tss = Current
           /\ Unmarked = NoPid
<1>1. S[curr_process] # <<>> /\ Current = Top(S[curr_process])
  BY RunningStack
<1>2. RunsAtRest(Top(S[curr_process]))
  BY <1>1 DEF StacksInv, Runs, Executes, Respawns, Halts, Leaves, Loading, LoadPoints,
              SafePoints
<1> QED
  BY <1>1, <1>2 DEF RunsAtRest, Unmarked, SafePoints, LoadPoints

\* A step that changes neither blocks nor terminals nor images.
LEMMA QuietStep ==
    ASSUME MachineOK, NEW S \in Stacks, StacksInv(S), cpu.pc # "boot",
           UNCHANGED <<pcb, terminals, curr_process, frame>>,
           cpu'.pc # "boot",
           cpu'.pc \in {"user", "wait", "sys_return"} \/ \A t \in Terminals : S[t] # <<>>,
           Runs(S)', PidsMarked(S)'
    PROVE  StacksInv(S)'
<1> USE DEF StacksInv
<1>1. StacksLinked(S)'
  <2>1. \A p, q : ChildOf(p, q)' <=> ChildOf(p, q)
    BY DEF ChildOf, ResumesIn
  <2> QED
    BY <2>1 DEF StacksLinked
<1>2. StacksDisjoint(S)'
  BY DEF StacksDisjoint
<1>3. StartedInOrder(S)'
  BY DEF StartedInOrder
<1>4. OthersAtRest(S)'
  BY DEF OthersAtRest, AtRest
<1> QED
  BY <1>1, <1>2, <1>3, <1>4

\* A step from rest to rest.
LEMMA RestStep ==
    ASSUME MachineOK, NEW S \in Stacks, StacksInv(S), cpu.pc \in SafePoints \ {"boot"},
           UNCHANGED <<used_pids, pcb, terminals, curr_process, page, tss, frame>>,
           AtRest(cpu', Current),
           cpu'.pc \in {"user", "wait", "sys_return"} \/ \A t \in Terminals : S[t] # <<>>
    PROVE  StacksInv(S)'
<1>1. page = Current /\ tss = Current /\ Unmarked = NoPid
  BY Rests
<1>2. Current = Top(S[curr_process])
  BY RunningStack
<1>3. cpu'.pc # "boot" /\ cpu'.pc # "exec_term" /\ Unmarked' = NoPid /\ cpu.pc # "exec_term"
  BY DEF AtRest, Unmarked, SafePoints, LoadPoints
<1>4. RunsAtRest(Top(S[curr_process]))'
  BY <1>1, <1>2 DEF RunsAtRest, AtRest
<1>5. Runs(S)'
  BY <1>4 DEF Runs
<1>6. PidsMarked(S)'
  BY <1>1, <1>3 DEF PidsMarked, StacksInv
<1> QED
  BY <1>3, <1>5, <1>6, QuietStep

\* Once every terminal runs, none stops.
LEMMA NoneStops ==
    ASSUME MachineOK, NEW S \in Stacks, StacksInv(S),
           cpu.pc \notin {"boot", "user", "wait", "sys_return"}
    PROVE  \A t \in Terminals : S[t] # <<>>
BY DEF StacksInv, StartedInOrder

\* A system call or an exception enters the kernel on the stack of the process.
LEMMA KernelEntryStacks ==
    ASSUME MachineOK, NEW S \in Stacks, StacksInv(S), NEW label, NEW flag, NEW cmd, NEW pid,
           NEW eax,
           NEW points \in SUBSET FaultPoints, KernelEntry(points, label, flag, cmd, pid, eax),
           \/ label = "wait"
           \/ label \in {"exec_pid", "halt_tss"} /\ \A t \in Terminals : S[t] # <<>>,
           label = "halt_tss" => pid = Current
    PROVE  StacksInv(S)'
<1>1. cpu.pc \in SafePoints \ {"boot"} /\ label \in SafePoints \ {"boot"}
  BY DEF KernelEntry, SafePoints, FaultPoints
<1>2. AtRest(cpu, Current) /\ tss = Current
  BY <1>1, Rests
<1>s. EntryStack = Current
  BY <1>2 DEF EntryStack, AtRest, KernelEntry, FaultPoints
<1>3. /\ cpu'.pc = label /\ cpu'.stk = EntryStack /\ cpu'.cmd = cmd /\ cpu'.pid = pid
      /\ cpu'.prog = cpu.prog /\ cpu'.caller = cpu.caller
  <2>1. cpu \in Registers
    BY CpuFields
  <2> QED
    BY <2>1 DEF KernelEntry, Registers
<1>4. AtRest(cpu', Current)
  BY <1>1, <1>2, <1>3, <1>s DEF AtRest, KernelEntry, FaultPoints
<1> QED
  BY <1>1, <1>3, <1>4, RestStep DEF KernelEntry

\* Every system call and every exception keeps the invariant.
LEMMA CommandStacks ==
    ASSUME MachineOK, NEW S \in Stacks, StacksInv(S), SysRead \/ (Command /\ AllStarted)
    PROVE  StacksInv(S)'
<1>1. ASSUME AllStarted PROVE \A t \in Terminals : S[t] # <<>>
  BY <1>1 DEF AllStarted, StacksInv, StacksLinked
<1>u. {"user"} \in SUBSET FaultPoints /\ FaultPoints \in SUBSET FaultPoints
  BY DEF FaultPoints
<1>2. CASE SysRead
  BY <1>2, <1>u, KernelEntryStacks DEF SysRead, SysEnter
<1>3. ASSUME NEW cmd \in Programs \cup {NoProgram}, SysExecute(cmd), AllStarted
      PROVE  StacksInv(S)'
  BY <1>1, <1>3, <1>u, KernelEntryStacks DEF SysExecute, SysEnter
<1>4. ASSUME NEW status \in Statuses, SysHalt(status), AllStarted
      PROVE  StacksInv(S)'
  BY <1>1, <1>4, <1>u, KernelEntryStacks DEF SysHalt, SysEnter
<1>5. CASE Exception /\ AllStarted
  BY <1>1, <1>5, <1>u, KernelEntryStacks DEF Exception, blue_screen
<1> QED
  BY <1>2, <1>3, <1>4, <1>5 DEF Command

\* A system call of a process at rest returns to the wrapper.
LEMMA ReturnStacks ==
    ASSUME MachineOK, NEW S \in Stacks, StacksInv(S), NEW value,
           cpu.pc \in {"wait", "exec_pid", "ret_to_exec"},
           cpu' = Return(value),
           UNCHANGED <<used_pids, pcb, terminals, curr_process, page, tss, frame>>
    PROVE  StacksInv(S)'
<1>1. cpu.pc \in SafePoints \ {"boot"}
  BY DEF SafePoints
<1>2. AtRest(cpu, Current)
  BY <1>1, Rests
<1>3. cpu'.pc = "sys_return" /\ cpu'.stk = cpu.stk /\ cpu'.prog = cpu.prog
      /\ cpu'.caller = cpu.caller
  <2>1. cpu \in Registers /\ cpu.caller = NoPid
    BY <1>2, CpuFields DEF AtRest
  <2> QED
    BY <2>1 DEF Return, Registers
<1>4. AtRest(cpu', Current)
  BY <1>2, <1>3 DEF AtRest, SafePoints
<1> QED
  BY <1>1, <1>3, <1>4, RestStep

\* The wrapper returns to the program it was called from.
LEMMA SysReturnStacks ==
    ASSUME MachineOK, NEW S \in Stacks, StacksInv(S), SysReturn
    PROVE  StacksInv(S)'
<1>1. cpu.pc \in SafePoints \ {"boot"}
  BY DEF SysReturn, SafePoints
<1>2. AtRest(cpu, Current)
  BY <1>1, Rests
<1>3. cpu'.pc = "user" /\ cpu'.prog = cpu.prog /\ cpu'.caller = cpu.caller
  <2>1. cpu \in Registers
    BY CpuFields
  <2> QED
    BY <2>1 DEF SysReturn, Registers
<1>4. AtRest(cpu', Current)
  BY <1>2, <1>3 DEF AtRest, SafePoints, SysReturn
<1> QED
  BY <1>1, <1>3, <1>4, RestStep DEF SysReturn

\* What a process inside the windows of sys_execute is doing.
LEMMA LoadModes ==
    ASSUME MachineOK, NEW S \in Stacks, StacksInv(S), cpu.pc \in LoadPoints \cup {"respawn"}
    PROVE  Executes(S, Current) \/ Respawns(S, curr_process)
<1>1. S[curr_process] # <<>> /\ Current = Top(S[curr_process])
  BY RunningStack DEF LoadPoints
<1> QED
  BY <1>1 DEF StacksInv, Runs, RunsAtRest, AtRest, Halts, Leaves, LoadPoints, SafePoints

\* The restarted base shell gets the pid it had: the pids of the other base shells are
\* below it or taken.
LEMMA SamePid ==
    ASSUME MachineOK, NEW S \in Stacks, StacksInv(S), cpu.pc = "respawn"
    PROVE  get_new_pid(used_pids) = curr_process
<1>1. curr_process \in Pids /\ curr_process \in Terminals
  BY TerminalsArePids DEF MachineOK
<1>2. Respawns(S, curr_process)
  BY LoadModes DEF Executes, Loading, LoadPoints
<1>3. Unmarked = curr_process /\ cpu.pc # "exec_term"
  BY <1>2 DEF Unmarked, Respawns, LoadPoints
<1>4. used_pids[curr_process] = 0
  BY <1>1, <1>3 DEF StacksInv, PidsMarked, MachineOK
<1>5. ASSUME NEW t \in Terminals, t # curr_process PROVE used_pids[t] = 1
  <2>1. S[t] # <<>> /\ S[t] \in Seq(Pids)
    BY NoneStops DEF Stacks
  <2>2. S[t][1] = t /\ 1 \in 1 .. Len(S[t])
    BY <2>1 DEF StacksInv, StacksLinked
  <2>3. InUse(S, t)
    BY <2>2 DEF InUse
  <2> QED
    BY <1>3, <1>5, <2>3, TerminalsArePids DEF StacksInv, PidsMarked
<1>6. FirstFree(used_pids) = {curr_process}
  <2>1. curr_process \in FirstFree(used_pids)
    BY <1>1, <1>4, <1>5 DEF FirstFree
  <2>2. ASSUME NEW p \in FirstFree(used_pids) PROVE p = curr_process
    <3>1. p \in Pids /\ used_pids[p] = 0 /\ \A r \in 0 .. p - 1 : used_pids[r] # 0
      BY DEF FirstFree
    <3>2. p \in Nat /\ curr_process \in 0 .. 2
      BY <1>1, <3>1, ProcessesAssumption DEF Pids
    <3>3. ~(p < curr_process)
      BY <1>5, <3>1, <3>2
    <3>4. ~(curr_process < p)
      BY <1>4, <3>1, <3>2
    <3> QED
      BY <3>2, <3>3, <3>4
  <2> QED
    BY <2>1, <2>2
<1> QED
  BY <1>6 DEF get_new_pid

\* A sys_execute without a program or a free pid returns; inside sys_halt this cannot
\* happen, as the pid of the base shell has just been freed.
LEMMA ExecuteFailsStacks ==
    ASSUME MachineOK, NEW S \in Stacks, StacksInv(S), ExecuteFails
    PROVE  StacksInv(S)'
<1>1. CASE cpu.pc = "exec_pid"
  BY <1>1, ReturnStacks DEF ExecuteFails
<1>2. CASE cpu.pc = "respawn"
  <2>1. get_new_pid(used_pids) \in Terminals
    BY <1>2, SamePid DEF MachineOK
  <2>2. cpu.cmd = Shell
    BY <1>2, LoadModes DEF Executes, Loading, LoadPoints, Respawns
  <2> QED
    BY <2>1, <2>2, ProcessesAssumption DEF ExecuteFails
<1> QED
  BY <1>1, <1>2 DEF ExecuteFails

\* A free pid is not on any stack and is not that of a base shell.
LEMMA FreshPid ==
    ASSUME MachineOK, NEW S \in Stacks, StacksInv(S), \A t \in Terminals : S[t] # <<>>,
           Unmarked = NoPid, NEW p \in Pids, used_pids[p] = 0
    PROVE  ~InUse(S, p) /\ p >= 3
<1>1. ~InUse(S, p)
  BY ProcessesAssumption DEF StacksInv, PidsMarked, Pids
<1>2. ASSUME NEW t \in Terminals PROVE InUse(S, t)
  <2>1. S[t] # <<>> /\ S[t] \in Seq(Pids)
    BY DEF Stacks
  <2>2. S[t][1] = t /\ 1 \in 1 .. Len(S[t])
    BY <2>1 DEF StacksInv, StacksLinked
  <2> QED
    BY <2>2 DEF InUse
<1> QED
  BY <1>1, <1>2, ProcessesAssumption DEF Pids

\* The pid that sys_execute takes is on no stack; restarting a base shell takes its pid.
LEMMA GetPidStacks ==
    ASSUME MachineOK, NEW S \in Stacks, StacksInv(S), GetPid
    PROVE  StacksInv(S)'
<1> DEFINE n == get_new_pid(used_pids)
<1>1. n \in Pids /\ used_pids[n] = 0
  BY NewPid DEF GetPid
<1>2. /\ cpu'.pc = "exec_page" /\ cpu'.pid = n /\ cpu'.stk = cpu.stk /\ cpu'.cmd = cpu.cmd
      /\ cpu'.prog = cpu.prog /\ cpu'.caller = cpu.caller
  <2>1. cpu \in Registers
    BY CpuFields
  <2> QED
    BY <2>1 DEF GetPid, Registers
<1>3. /\ cpu.pc \in {"exec_pid", "respawn"}
      /\ UNCHANGED <<used_pids, pcb, terminals, curr_process, page, tss, frame>>
  BY DEF GetPid
<1>4. \A t \in Terminals : S[t] # <<>>
  BY <1>3, NoneStops
<1>5. Unmarked' = cpu.caller
  BY <1>2 DEF Unmarked, LoadPoints
<1>6. Current = Top(S[curr_process]) /\ S[curr_process] # <<>>
  BY <1>3, RunningStack
<1> HIDE DEF n
<1>7. CASE cpu.pc = "exec_pid"
  <2>1. AtRest(cpu, Current) /\ page = Current /\ tss = Current /\ Unmarked = NoPid
    BY <1>7, Rests DEF SafePoints
  <2>2. ~InUse(S, n) /\ n >= 3
    BY <1>1, <1>4, <2>1, FreshPid
  <2>3. Executes(S, Top(S[curr_process]))'
    BY <1>2, <1>3, <1>6, <1>7, <2>1, <2>2 DEF AtRest, Executes, Loading, LoadPoints, InUse
  <2>4. Runs(S)'
    BY <2>3 DEF Runs
  <2>5. cpu.caller = NoPid
    BY <1>7, <2>1 DEF AtRest
  <2>6. PidsMarked(S)'
    BY <1>2, <1>3, <1>5, <1>7, <2>1, <2>5 DEF PidsMarked, StacksInv, InUse
  <2> QED
    BY <1>2, <1>3, <1>4, <2>4, <2>6, QuietStep
<1>8. CASE cpu.pc = "respawn"
  <2>1. Respawns(S, curr_process)
    BY <1>8, LoadModes DEF Executes, Loading, LoadPoints
  <2>2. n = curr_process
    BY <1>8, SamePid DEF n
  <2>3. Respawns(S, curr_process)'
    BY <1>2, <1>3, <2>1, <2>2 DEF Respawns, Loading, LoadPoints
  <2>4. Runs(S)'
    BY <2>3 DEF Runs
  <2>5. Unmarked = cpu.caller
    BY <1>8 DEF Unmarked, LoadPoints
  <2>6. PidsMarked(S)'
    BY <1>2, <1>3, <1>5, <1>8, <2>5 DEF PidsMarked, StacksInv, InUse
  <2> QED
    BY <1>2, <1>3, <1>4, <2>4, <2>6, QuietStep
<1> QED
  BY <1>3, <1>7, <1>8

\* A step from label to label leaves the rest of the context alone.
LEMMA AtFields ==
    ASSUME MachineOK, NEW label, NEW next, At(label, next)
    PROVE  /\ cpu.pc = label /\ cpu'.pc = next
           /\ cpu'.pid = cpu.pid /\ cpu'.stk = cpu.stk /\ cpu'.cmd = cpu.cmd
           /\ cpu'.prog = cpu.prog /\ cpu'.caller = cpu.caller /\ cpu'.if = cpu.if
BY CpuFields DEF At, Registers

\* The steps of sys_execute that only go on with a page, the stack or the mark.
LEMMA LoadStacks ==
    ASSUME MachineOK, NEW S \in Stacks, StacksInv(S), MapPage \/ SetTss \/ MarkUsed
    PROVE  StacksInv(S)'
<1>1. /\ cpu'.pid = cpu.pid /\ cpu'.stk = cpu.stk /\ cpu'.cmd = cpu.cmd
      /\ cpu'.prog = cpu.prog /\ cpu'.caller = cpu.caller
      /\ UNCHANGED <<pcb, terminals, curr_process, frame>>
  BY AtFields DEF MapPage, SetTss, MarkUsed
<1>2. cpu.pid \in Pids /\ cpu.pc \in LoadPoints /\ cpu'.pc \in LoadPoints
  BY AtFields, CpuFields DEF MapPage, SetTss, MarkUsed, PidPoints, KernelPoints, LoadPoints
<1>3. \A t \in Terminals : S[t] # <<>>
  BY <1>2, NoneStops DEF LoadPoints
<1>4. Current = Top(S[curr_process]) /\ S[curr_process] # <<>>
  BY <1>2, RunningStack DEF LoadPoints
<1>5. Runs(S)'
  <2>1. CASE Executes(S, Current)
    <3>1. Executes(S, Top(S[curr_process]))'
      BY <1>1, <1>4, <2>1, AtFields
         DEF MapPage, SetTss, MarkUsed, Executes, Loading, LoadPoints, InUse, ChildOf, ResumesIn
    <3> QED
      BY <3>1 DEF Runs
  <2>2. CASE Respawns(S, curr_process)
    <3>1. Respawns(S, curr_process)'
      BY <1>1, <1>2, <2>2, AtFields
         DEF MapPage, SetTss, MarkUsed, Respawns, Loading, LoadPoints
    <3> QED
      BY <3>1 DEF Runs
  <2> QED
    BY <1>2, <2>1, <2>2, LoadModes
<1>6. PidsMarked(S)'
  <2>1. CASE MapPage \/ SetTss
    <3>1. Unmarked = cpu.caller /\ Unmarked' = cpu.caller /\ UNCHANGED used_pids
          /\ cpu.pc # "exec_term" /\ cpu'.pc # "exec_term"
      BY <1>1, <2>1, AtFields DEF MapPage, SetTss, Unmarked, LoadPoints
    <3> QED
      BY <3>1 DEF PidsMarked, StacksInv, InUse
  <2>2. CASE MarkUsed
    <3>1. /\ cpu.pc = "exec_used" /\ cpu'.pc = "exec_term"
          /\ used_pids' = [used_pids EXCEPT ![cpu.pid] = 1]
      BY <2>2, AtFields DEF MarkUsed
    <3>2. Unmarked = cpu.caller /\ Unmarked' = NoPid
      BY <3>1 DEF Unmarked, LoadPoints
    <3>3. cpu.caller = NoPid \/ cpu.caller = cpu.pid
      BY <1>2, <3>1, LoadModes DEF Executes, Respawns
    <3>4. \A p \in Pids : p # NoPid
      BY ProcessesAssumption DEF Pids
    <3> QED
      BY <1>1, <1>2, <3>1, <3>2, <3>3, <3>4 DEF PidsMarked, StacksInv, InUse, MachineOK
  <2> QED
    BY <2>1, <2>2
<1> QED
  BY <1>1, <1>2, <1>3, <1>5, <1>6, QuietStep DEF LoadPoints

\* A step that changes the block or the frame of one process n that is on no stack,
\* or the image of a base shell that is alone on its stack.
LEMMA StacksFrame ==
    ASSUME MachineOK, NEW S \in Stacks, StacksInv(S),
           cpu.pc # "boot", cpu'.pc # "boot",
           UNCHANGED <<terminals, curr_process>>,
           \A t \in Terminals : S[t] # <<>>,
           \A p \in Pids : InUse(S, p) =>
              /\ pcb'[p].pid = pcb[p].pid /\ pcb'[p].par_pid = pcb[p].par_pid
              /\ p >= 3 => /\ pcb'[p].par_pcb_ptr = pcb[p].par_pcb_ptr
                           /\ pcb'[p].par_esp = pcb[p].par_esp
              /\ frame'[p] = frame[p] \/ S[curr_process] = <<p>>
              /\ pcb'[p].esp = pcb[p].esp \/ p = Top(S[curr_process]),
           Runs(S)', PidsMarked(S)'
    PROVE  StacksInv(S)'
<1> USE DEF StacksInv
<1>0. ASSUME NEW t \in Terminals
      PROVE  /\ S[t] \in Seq(Pids) /\ Len(S[t]) \in Nat \ {0} /\ S[t] # <<>>
             /\ \A i \in 1 .. Len(S[t]) : S[t][i] \in Pids /\ InUse(S, S[t][i])
             /\ Top(S[t]) = S[t][Len(S[t])] /\ Len(S[t]) \in 1 .. Len(S[t])
             /\ 1 \in 1 .. Len(S[t])
  <2>1. S[t] \in Seq(Pids) /\ S[t] # <<>>
    BY DEF Stacks
  <2>2. Len(S[t]) \in Nat \ {0} /\ \A i \in 1 .. Len(S[t]) : S[t][i] \in Pids
    BY <2>1
  <2> QED
    BY <2>1, <2>2 DEF InUse, Top
<1>c. curr_process \in Terminals
  BY DEF MachineOK
<1>1. StacksLinked(S)'
  <2> SUFFICES ASSUME NEW t \in Terminals
               PROVE  /\ terminals[t].prog_curr_pid = Top(S[t])
                      /\ S[t][1] = t
                      /\ pcb'[t].pid = t /\ pcb'[t].par_pid = t
                      /\ \A i \in 2 .. Len(S[t]) : S[t][i] >= 3 /\ ChildOf(S[t][i], S[t][i - 1])'
    BY <1>0 DEF StacksLinked
  <2>1. /\ terminals[t].prog_curr_pid = Top(S[t])
        /\ S[t][1] = t
        /\ pcb[t].pid = t /\ pcb[t].par_pid = t
    BY <1>0 DEF StacksLinked
  <2>2. pcb'[t].pid = t /\ pcb'[t].par_pid = t
    BY <1>0, <2>1
  <2>3. ASSUME NEW i \in 2 .. Len(S[t])
        PROVE  S[t][i] >= 3 /\ ChildOf(S[t][i], S[t][i - 1])'
    <3>1. S[t][i] >= 3 /\ ChildOf(S[t][i], S[t][i - 1])
      BY DEF StacksLinked
    <3>2. i \in 1 .. Len(S[t]) /\ i - 1 \in 1 .. Len(S[t]) /\ i - 1 # i
      BY <1>0
    <3>3. S[t][i] \in Pids /\ InUse(S, S[t][i]) /\ S[t][i - 1] \in Pids /\ InUse(S, S[t][i - 1])
      BY <1>0, <3>2
    <3>4. frame'[S[t][i - 1]] = frame[S[t][i - 1]]
      <4>1. ASSUME S[curr_process] = <<S[t][i - 1]>> PROVE FALSE
        <5>1. S[curr_process][1] = S[t][i - 1] /\ Len(S[curr_process]) = 1
          BY <4>1
        <5>2. 1 \in 1 .. Len(S[curr_process])
          BY <1>0, <1>c
        <5>3. t = curr_process /\ i - 1 = 1
          BY <1>c, <3>2, <5>1, <5>2, SMTT(30) DEF StacksDisjoint
        <5>4. Len(S[t]) = 1
          BY <5>1, <5>3
        <5> QED
          BY <5>4
      <4> QED
        BY <3>3, <4>1
    <3> QED
      BY <3>1, <3>3, <3>4 DEF ChildOf, ResumesIn
  <2> QED
    BY <2>1, <2>2, <2>3
<1>2. StacksDisjoint(S)'
  BY DEF StacksDisjoint
<1>3. StartedInOrder(S)'
  BY DEF StartedInOrder
<1>4. OthersAtRest(S)'
  <2> SUFFICES ASSUME NEW t \in Terminals, t # curr_process
               PROVE  AtRest(pcb[Top(S[t])].esp, Top(S[t]))'
    BY DEF OthersAtRest
  <2>1. AtRest(pcb[Top(S[t])].esp, Top(S[t]))
    BY DEF OthersAtRest
  <2>2. Top(S[t]) \in Pids /\ InUse(S, Top(S[t]))
    <3>1. Top(S[t]) = S[t][Len(S[t])] /\ Len(S[t]) \in 1 .. Len(S[t])
      BY <1>0
    <3>2. \A i \in 1 .. Len(S[t]) : S[t][i] \in Pids /\ InUse(S, S[t][i])
      BY <1>0
    <3> QED
      BY <3>1, <3>2
  <2>3. Top(S[t]) # Top(S[curr_process])
    BY <1>0, <1>c DEF StacksDisjoint
  <2>4. S[curr_process] # <<Top(S[t])>>
    BY <1>0, <1>c, <2>3 DEF Top
  <2> QED
    BY <2>1, <2>2, <2>3, <2>4 DEF AtRest
<1> QED
  BY <1>1, <1>2, <1>3, <1>4

\* The image goes to the frame of the new process, not to one in use.
LEMMA LoadImageStacks ==
    ASSUME MachineOK, NEW S \in Stacks, StacksInv(S), LoadImage
    PROVE  StacksInv(S)'
<1>1. /\ cpu.pc = "exec_load" /\ cpu'.pc = "exec_pcb"
      /\ cpu'.pid = cpu.pid /\ cpu'.stk = cpu.stk /\ cpu'.cmd = cpu.cmd
      /\ cpu'.prog = cpu.prog /\ cpu'.caller = cpu.caller
      /\ UNCHANGED <<used_pids, pcb, terminals, curr_process, page, tss>>
      /\ frame' = [frame EXCEPT ![page] = cpu.cmd]
  BY AtFields DEF LoadImage
<1>2. cpu.pid \in Pids
  BY <1>1, CpuFields DEF PidPoints, KernelPoints
<1>3. \A t \in Terminals : S[t] # <<>>
  BY <1>1, NoneStops
<1>4. Current = Top(S[curr_process]) /\ Current \in Pids /\ InUse(S, Current)
  BY <1>1, RunningStack
<1>5. page = cpu.pid
  BY <1>1, LoadModes DEF LoadPoints, Executes, Respawns, Loading
<1>6. \A p \in Pids : frame'[p] = IF p = cpu.pid THEN cpu.cmd ELSE frame[p]
  BY <1>1, <1>2, <1>5 DEF MachineOK
<1>7. Runs(S)' /\ (InUse(S, cpu.pid) => S[curr_process] = <<cpu.pid>>)
  <2>1. CASE Executes(S, Current)
    <3>1. cpu.pid # Current
      BY <1>4, <2>1 DEF Executes
    <3>2. Executes(S, Top(S[curr_process]))'
      BY <1>1, <1>2, <1>4, <1>6, <2>1, <3>1 DEF Executes, Loading, LoadPoints, InUse
    <3> QED
      BY <2>1, <3>2 DEF Runs, Executes
  <2>2. CASE Respawns(S, curr_process)
    <3>1. Respawns(S, curr_process)'
      BY <1>1, <1>2, <1>6, <2>2 DEF Respawns, Loading, LoadPoints
    <3> QED
      BY <1>1, <2>2, <3>1 DEF Runs, Respawns
  <2> QED
    BY <1>1, <2>1, <2>2, LoadModes DEF LoadPoints
<1>8. PidsMarked(S)'
  BY <1>1 DEF PidsMarked, StacksInv, InUse, Unmarked, LoadPoints
<1> QED
  BY <1>1, <1>3, <1>6, <1>7, <1>8, StacksFrame

\* The block that sys_execute writes: that of a child of the caller, or that of the
\* base shell again.
LEMMA CreatePcbStacks ==
    ASSUME MachineOK, NEW S \in Stacks, StacksInv(S), CreatePcb
    PROVE  StacksInv(S)'
<1> DEFINE n == cpu.pid
           new == NewPcb(n, cpu.stk, ReturnContext, pcb[n].esp)
<1>1. /\ cpu.pc = "exec_pcb" /\ cpu'.pc = "exec_tss"
      /\ cpu'.pid = cpu.pid /\ cpu'.stk = cpu.stk /\ cpu'.cmd = cpu.cmd
      /\ cpu'.prog = cpu.prog /\ cpu'.caller = cpu.caller
      /\ UNCHANGED <<used_pids, terminals, curr_process, page, tss, frame>>
      /\ pcb' = [pcb EXCEPT ![n] = new]
  BY AtFields DEF CreatePcb
<1>2. n \in Pids
  BY <1>1, CpuFields DEF PidPoints, KernelPoints
<1>3. \A t \in Terminals : S[t] # <<>>
  BY <1>1, NoneStops
<1>4. Current = Top(S[curr_process]) /\ Current \in Pids /\ InUse(S, Current)
      /\ pcb[Current].pid = Current
  BY <1>1, RunningStack
<1>5. /\ new.pid = n /\ new.par_pcb_ptr = cpu.stk /\ new.par_esp = ReturnContext
      /\ new.esp = pcb[n].esp
      /\ new.par_pid = IF n < 3 \/ cpu.stk = n THEN n ELSE pcb[cpu.stk].pid
  BY DEF NewPcb, get_curr_pid
<1> HIDE DEF new
<1>6. \A p \in Pids : pcb'[p] = IF p = n THEN new ELSE pcb[p]
  BY <1>1, <1>2 DEF MachineOK
<1>9. PidsMarked(S)'
  <2>1. Unmarked = cpu.caller /\ Unmarked' = cpu.caller
    BY <1>1 DEF Unmarked, LoadPoints
  <2>2. cpu.pc # "exec_term" /\ cpu'.pc # "exec_term" /\ used_pids' = used_pids
    BY <1>1
  <2> QED
    BY <2>1, <2>2 DEF PidsMarked, StacksInv, InUse
<1>7. CASE Executes(S, Current)
  <2>1. n >= 3 /\ ~InUse(S, n) /\ cpu.stk = Current /\ n # Current
    BY <1>4, <1>7 DEF Executes
  <2>2. ResumesIn(ReturnContext, Current)
    <3>1. ReturnContext = [cpu EXCEPT !.pc = "ret_to_exec", !.cmd = NoProgram, !.pid = NoPid]
      BY <2>1 DEF ReturnContext
    <3>2. /\ ReturnContext.pc = "ret_to_exec" /\ ReturnContext.stk = cpu.stk
          /\ ReturnContext.prog = cpu.prog /\ ReturnContext.caller = cpu.caller
      BY <3>1, CpuFields DEF Registers
    <3> QED
      BY <1>7, <3>2 DEF ResumesIn, Executes
  <2>3. Current' = Current
    BY <1>1 DEF Current
  <2>4. pcb'[n] = new
    BY <1>2, <1>6
  <2>5. new.par_pid = Current
    BY <1>4, <1>5, <2>1, <1>2, ProcessesAssumption DEF Pids
  <2>6. ChildOf(n, Current)'
    BY <1>1, <1>5, <2>1, <2>2, <2>3, <2>4, <2>5 DEF ChildOf, ResumesIn
  <2>7. Executes(S, Top(S[curr_process]))'
    BY <1>1, <1>4, <1>7, <2>1, <2>3, <2>6 DEF Executes, Loading, LoadPoints, InUse
  <2>8. Runs(S)'
    BY <2>7 DEF Runs
  <2> QED
    BY <1>1, <1>3, <1>6, <1>9, <2>1, <2>8, StacksFrame
<1>8. CASE Respawns(S, curr_process)
  <2>1. n = curr_process /\ cpu.stk = n /\ n < 3
    BY <1>1, <1>8 DEF Respawns, MachineOK
  <2>2. Respawns(S, curr_process)'
    BY <1>1, <1>8 DEF Respawns, Loading, LoadPoints
  <2>3. Runs(S)'
    BY <2>2 DEF Runs
  <2>4. pcb[n].pid = n /\ pcb[n].par_pid = n
    BY <1>3, <2>1 DEF StacksInv, StacksLinked, MachineOK
  <2> QED
    <3>1. /\ pcb'[n].pid = pcb[n].pid /\ pcb'[n].par_pid = pcb[n].par_pid
          /\ pcb'[n].esp = pcb[n].esp
      BY <1>2, <1>5, <1>6, <2>1, <2>4
    <3> QED
      BY <1>1, <1>3, <1>6, <1>9, <2>1, <2>3, <3>1, StacksFrame, SMTT(30)
<1> QED
  BY <1>1, <1>7, <1>8, LoadModes DEF LoadPoints

\* The new process starts in its own frame with its own image.
LEMMA EnterProgramStacks ==
    ASSUME MachineOK, NEW S \in Stacks, StacksInv(S), EnterProgram
    PROVE  StacksInv(S)'
<1>1. /\ cpu.pc = "exec_go"
      /\ pcb' = [pcb EXCEPT ![cpu.pid].esp = Lost]
      /\ cpu' = Entry(cpu.cmd, cpu.pid, cpu.if)
      /\ UNCHANGED <<used_pids, terminals, curr_process, page, tss, frame>>
  BY DEF EnterProgram
<1>2. cpu.pid \in Pids
  BY <1>1, CpuFields DEF PidPoints, KernelPoints
<1>3. \A t \in Terminals : S[t] # <<>>
  BY <1>1, NoneStops
<1>4. /\ AtRest(cpu, Current) /\ page = Current /\ tss = Current /\ Unmarked = NoPid
      /\ Current = Top(S[curr_process])
  BY <1>1, Rests, RunningStack DEF SafePoints
<1>5. cpu.pid = Current /\ cpu.cmd = frame[Current]
  BY <1>1, <1>4 DEF AtRest
<1>6. cpu'.pc = "user" /\ cpu'.prog = cpu.cmd /\ cpu'.caller = NoPid
  BY <1>1 DEF Entry, Lost
<1>7. \A p \in Pids : pcb'[p] = IF p = cpu.pid THEN [pcb[p] EXCEPT !.esp = Lost] ELSE pcb[p]
  BY <1>1, <1>2 DEF MachineOK
<1>8. \A p \in Pids : /\ pcb'[p].pid = pcb[p].pid /\ pcb'[p].par_pid = pcb[p].par_pid
                      /\ pcb'[p].par_pcb_ptr = pcb[p].par_pcb_ptr
                      /\ pcb'[p].par_esp = pcb[p].par_esp
                      /\ p = cpu.pid \/ pcb'[p].esp = pcb[p].esp
  <2> SUFFICES ASSUME NEW p \in Pids
               PROVE  /\ pcb'[p].pid = pcb[p].pid /\ pcb'[p].par_pid = pcb[p].par_pid
                      /\ pcb'[p].par_pcb_ptr = pcb[p].par_pcb_ptr
                      /\ pcb'[p].par_esp = pcb[p].par_esp
                      /\ p = cpu.pid \/ pcb'[p].esp = pcb[p].esp
    OBVIOUS
  <2>1. PICK b \in Pcbs : b = pcb[p]
    BY DEF MachineOK
  <2>2. CASE p = cpu.pid
    <3>1. pcb'[p] = [b EXCEPT !.esp = Lost]
      BY <1>7, <2>1, <2>2
    <3> QED
      BY <2>1, <2>2, <3>1 DEF Pcbs
  <2>3. CASE p # cpu.pid
    BY <1>7, <2>3
  <2> QED
    BY <2>2, <2>3
<1>9. RunsAtRest(Top(S[curr_process]))'
  BY <1>1, <1>4, <1>5, <1>6 DEF RunsAtRest, AtRest, SafePoints
<1>10. Runs(S)'
  BY <1>9 DEF Runs
<1>11. PidsMarked(S)'
  BY <1>1, <1>4, <1>6 DEF PidsMarked, StacksInv, InUse, Unmarked, LoadPoints
<1> QED
  BY <1>1, <1>3, <1>4, <1>5, <1>6, <1>8, <1>10, <1>11, StacksFrame

\* T is S with n on top of the stack of c.
Grown(S, T, c, n) ==
    /\ \A t \in Terminals : t # c => T[t] = S[t]
    /\ Len(T[c]) = Len(S[c]) + 1 /\ T[c][Len(S[c]) + 1] = n
    /\ \A i \in 1 .. Len(S[c]) : T[c][i] = S[c][i]

\* Pushing a pid.
LEMMA Push ==
    ASSUME NEW S \in Stacks, NEW c \in Terminals, NEW n \in Pids
    PROVE  \E T \in Stacks :
               /\ \A t \in Terminals : t # c => T[t] = S[t]
               /\ T[c] # <<>> /\ Len(T[c]) = Len(S[c]) + 1 /\ Top(T[c]) = n
               /\ T[c][Len(S[c]) + 1] = n
               /\ \A i \in 1 .. Len(S[c]) : T[c][i] = S[c][i]
<1> DEFINE T == [S EXCEPT ![c] = Append(S[c], n)]
<1>1. S[c] \in Seq(Pids)
  BY DEF Stacks
<1>2. /\ Append(S[c], n) \in Seq(Pids) /\ Append(S[c], n) # <<>>
      /\ Len(Append(S[c], n)) = Len(S[c]) + 1
      /\ Append(S[c], n)[Len(S[c]) + 1] = n
      /\ \A i \in 1 .. Len(S[c]) : Append(S[c], n)[i] = S[c][i]
  BY <1>1, AppendProperties
<1>3. T[c] = Append(S[c], n) /\ T \in Stacks /\ \A t \in Terminals : t # c => T[t] = S[t]
  BY <1>2 DEF Stacks
<1> HIDE DEF T
<1>4. Top(T[c]) = n
  BY <1>2, <1>3 DEF Top
<1> QED
  BY <1>2, <1>3, <1>4

\* The new process is on top of the stack of its terminal.
LEMMA PushStacks ==
    ASSUME MachineOK, NEW S \in Stacks, StacksInv(S), SetTerminal, Executes(S, Current)
    PROVE  \E T \in Stacks : StacksInv(T)' /\ Grown(S, T, curr_process, cpu.pid)
<1> USE DEF StacksInv
<1>0. PICK c \in Terminals, n \in Pids : c = curr_process /\ n = cpu.pid
  BY AtFields, CpuFields DEF SetTerminal, PidPoints, KernelPoints, MachineOK
<1>1. /\ cpu.pc = "exec_term" /\ cpu'.pc = "exec_go"
      /\ cpu'.pid = cpu.pid /\ cpu'.stk = cpu.stk /\ cpu'.cmd = cpu.cmd
      /\ cpu'.prog = cpu.prog /\ cpu'.caller = cpu.caller
      /\ UNCHANGED <<used_pids, pcb, curr_process, page, tss, frame>>
      /\ terminals' = [terminals EXCEPT ![c] = [prog_curr_pid |-> n,
                                                prog_par_pid |-> pcb[n].par_pid]]
  BY <1>0, AtFields DEF SetTerminal
<1>3. \A t \in Terminals : S[t] # <<>>
  BY <1>1, NoneStops
<1>4. /\ Current = S[c][Len(S[c])] /\ Len(S[c]) \in Nat \ {0} /\ S[c][1] = c
  BY <1>0, <1>1, RunningStack DEF Top
<1>5. /\ page = n /\ tss = n /\ frame[n] = cpu.cmd /\ n >= 3 /\ ~InUse(S, n)
      /\ ChildOf(n, Current) /\ cpu.caller = NoPid
  BY <1>0, <1>1 DEF Executes, Loading
<1>6. PICK T \in Stacks :
      /\ \A t \in Terminals : t # c => T[t] = S[t]
      /\ T[c] # <<>> /\ Len(T[c]) = Len(S[c]) + 1 /\ Top(T[c]) = n
      /\ T[c][Len(S[c]) + 1] = n
      /\ \A i \in 1 .. Len(S[c]) : T[c][i] = S[c][i]
  BY Push
<1>7. /\ terminals'[c].prog_curr_pid = n
      /\ \A t \in Terminals : t # c => terminals'[t] = terminals[t]
  BY <1>1 DEF MachineOK
<1>8. ASSUME NEW p PROVE InUse(T, p) <=> InUse(S, p) \/ p = n
  <2>1. ASSUME InUse(S, p) PROVE InUse(T, p)
    <3>1. PICK t \in Terminals : \E i \in 1 .. Len(S[t]) : S[t][i] = p
      BY <2>1 DEF InUse
    <3>2. PICK i \in 1 .. Len(S[t]) : S[t][i] = p
      BY <3>1
    <3>3. i \in 1 .. Len(T[t]) /\ T[t][i] = p
      BY <1>4, <1>6, <3>2, SMTT(30)
    <3> QED
      BY <3>3 DEF InUse
  <2>2. InUse(T, n)
    <3>1. Len(S[c]) + 1 \in 1 .. Len(T[c])
      BY <1>4, <1>6
    <3> QED
      BY <1>6, <3>1 DEF InUse
  <2>3. ASSUME InUse(T, p), p # n PROVE InUse(S, p)
    <3>1. PICK t \in Terminals : \E i \in 1 .. Len(T[t]) : T[t][i] = p
      BY <2>3 DEF InUse
    <3>2. PICK i \in 1 .. Len(T[t]) : T[t][i] = p
      BY <3>1
    <3>3. i \in 1 .. Len(S[t]) /\ S[t][i] = p
      BY <1>4, <1>6, <2>3, <3>2, SMTT(30)
    <3> QED
      BY <3>3 DEF InUse
  <2> QED
    BY <2>1, <2>2, <2>3
<1>15. \A p, q : ChildOf(p, q)' <=> ChildOf(p, q)
  BY <1>1 DEF ChildOf, ResumesIn
<1>9. StacksLinked(T)'
  <2> SUFFICES ASSUME NEW t \in Terminals
               PROVE  /\ T[t] # <<>>
                      /\ terminals'[t].prog_curr_pid = Top(T[t])
                      /\ T[t][1] = t
                      /\ pcb'[t].pid = t /\ pcb'[t].par_pid = t
                      /\ \A i \in 2 .. Len(T[t]) : T[t][i] >= 3 /\ ChildOf(T[t][i], T[t][i - 1])'
    BY DEF StacksLinked
  <2>1. pcb'[t].pid = t /\ pcb'[t].par_pid = t
    BY <1>1, <1>3 DEF StacksLinked
  <2>2. CASE t # c
    <3>1. T[t] = S[t] /\ terminals'[t] = terminals[t] /\ S[t] # <<>>
      BY <1>3, <1>6, <1>7, <2>2
    <3>2. /\ terminals[t].prog_curr_pid = Top(S[t]) /\ S[t][1] = t
          /\ \A i \in 2 .. Len(S[t]) : S[t][i] >= 3 /\ ChildOf(S[t][i], S[t][i - 1])
      BY <3>1 DEF StacksLinked
    <3> QED
      BY <1>15, <2>1, <3>1, <3>2
  <2>3. CASE t = c
    <3>1. T[c][1] = c
      BY <1>4, <1>6
    <3>2. ASSUME NEW i \in 2 .. Len(T[c])
          PROVE  T[c][i] >= 3 /\ ChildOf(T[c][i], T[c][i - 1])'
      <4>1. CASE i = Len(S[c]) + 1
        <5>1. T[c][i] = n /\ T[c][i - 1] = Current
          BY <1>4, <1>6, <4>1
        <5> QED
          BY <1>5, <1>15, <5>1
      <4>2. CASE i # Len(S[c]) + 1
        <5>1. i \in 2 .. Len(S[c]) /\ T[c][i] = S[c][i] /\ T[c][i - 1] = S[c][i - 1]
          <6>1. i \in 2 .. Len(S[c]) /\ i \in 1 .. Len(S[c]) /\ i - 1 \in 1 .. Len(S[c])
            BY <1>4, <1>6, <4>2
          <6> QED
            BY <1>6, <6>1
        <5>2. S[c][i] >= 3 /\ ChildOf(S[c][i], S[c][i - 1])
          BY <5>1 DEF StacksLinked
        <5> QED
          BY <1>15, <5>1, <5>2
      <4> QED
        BY <4>1, <4>2
    <3> QED
      BY <1>6, <1>7, <2>1, <2>3, <3>1, <3>2
  <2> QED
    BY <2>2, <2>3
<1>10. StacksDisjoint(T)'
  <2> SUFFICES ASSUME NEW t \in Terminals, NEW u \in Terminals,
                      NEW i \in 1 .. Len(T[t]), NEW j \in 1 .. Len(T[u]), T[t][i] = T[u][j]
               PROVE  t = u /\ i = j
    BY DEF StacksDisjoint
  <2>1. ASSUME NEW v \in Terminals, NEW k \in 1 .. Len(T[v])
        PROVE  \/ v = c /\ k = Len(S[c]) + 1 /\ T[v][k] = n
               \/ k \in 1 .. Len(S[v]) /\ T[v][k] = S[v][k] /\ T[v][k] # n
    <3>1. CASE v = c
      <4>1. k \in 1 .. Len(S[c]) + 1
        BY <1>6, <3>1
      <4>2. CASE k = Len(S[c]) + 1
        BY <1>6, <3>1, <4>2
      <4>3. CASE k # Len(S[c]) + 1
        <5>1. k \in 1 .. Len(S[c])
          BY <1>4, <4>1, <4>3, SMTT(30)
        <5> QED
          BY <1>5, <1>6, <3>1, <5>1 DEF InUse
      <4> QED
        BY <4>2, <4>3
    <3>2. CASE v # c
      BY <1>5, <1>6, <3>2, SMTT(30) DEF InUse
    <3> QED
      BY <3>1, <3>2
  <2>2. \/ t = c /\ i = Len(S[c]) + 1 /\ T[t][i] = n
        \/ i \in 1 .. Len(S[t]) /\ T[t][i] = S[t][i] /\ T[t][i] # n
    BY <2>1
  <2>3. \/ u = c /\ j = Len(S[c]) + 1 /\ T[u][j] = n
        \/ j \in 1 .. Len(S[u]) /\ T[u][j] = S[u][j] /\ T[u][j] # n
    BY <2>1
  <2> QED
    BY <2>2, <2>3, SMTT(30) DEF StacksDisjoint
<1>11. StartedInOrder(T)'
  BY <1>1, <1>3, <1>6 DEF StartedInOrder
<1>12. OthersAtRest(T)'
  BY <1>0, <1>1, <1>6 DEF OthersAtRest, AtRest
<1>13. Runs(T)'
  <2>1. RunsAtRest(Top(T[curr_process]))'
    BY <1>0, <1>1, <1>5, <1>6 DEF RunsAtRest, AtRest, SafePoints
  <2> QED
    BY <2>1 DEF Runs
<1>14. PidsMarked(T)'
  <2>1. Unmarked = NoPid /\ Unmarked' = NoPid
    BY <1>1 DEF Unmarked, LoadPoints
  <2>2. ASSUME NEW p \in Pids PROVE p # NoPid
    BY ProcessesAssumption DEF Pids
  <2>3. \A p \in Pids : used_pids'[p] = 1 <=> InUse(T, p)
    BY <1>0, <1>1, <1>8, <2>1, <2>2 DEF PidsMarked
  <2> QED
    BY <1>1, <2>1, <2>2, <2>3 DEF PidsMarked, InUse
<1>16. Grown(S, T, curr_process, cpu.pid)
  BY <1>0, <1>6 DEF Grown
<1> QED
  BY <1>9, <1>10, <1>11, <1>12, <1>13, <1>14, <1>16

\* The terminal names the new process: a child is pushed, a base shell stays where it is.
LEMMA SetTerminalStacks ==
    ASSUME MachineOK, NEW S \in Stacks, StacksInv(S), SetTerminal
    PROVE  \E T \in Stacks :
               /\ StacksInv(T)'
               /\ T = S \/ (Grown(S, T, curr_process, cpu.pid) /\ Executes(S, Current))
<1>1. /\ cpu.pc = "exec_term" /\ cpu'.pc = "exec_go"
      /\ cpu'.pid = cpu.pid /\ cpu'.stk = cpu.stk /\ cpu'.cmd = cpu.cmd
      /\ cpu'.prog = cpu.prog /\ cpu'.caller = cpu.caller
      /\ UNCHANGED <<used_pids, pcb, curr_process, page, tss, frame>>
      /\ terminals' = [terminals EXCEPT ![curr_process] =
                         [prog_curr_pid |-> cpu.pid, prog_par_pid |-> pcb[cpu.pid].par_pid]]
  BY AtFields DEF SetTerminal
<1>2. CASE Executes(S, Current)
  BY <1>2, PushStacks
<1>3. CASE Respawns(S, curr_process)
  <2>1. cpu.pid = curr_process /\ curr_process \in Terminals
    BY <1>1, <1>3 DEF Respawns, MachineOK
  <2>2. S[curr_process] # <<>> /\ Current = Top(S[curr_process]) /\ Current = curr_process
        /\ \A t \in Terminals : S[t] # <<>>
    <3>1. S[curr_process] # <<>> /\ Current = Top(S[curr_process])
      BY <1>1, RunningStack
    <3>2. Top(S[curr_process]) = curr_process
      BY <1>3 DEF Respawns, Top
    <3> QED
      BY <1>1, <3>1, <3>2, NoneStops
  <2>3. \A t \in Terminals : terminals'[t].prog_curr_pid = terminals[t].prog_curr_pid
    BY <1>1, <2>1, <2>2 DEF MachineOK, Current
  <2>4. StacksLinked(S)'
    <3>1. \A p, q : ChildOf(p, q)' <=> ChildOf(p, q)
      BY <1>1 DEF ChildOf, ResumesIn
    <3> QED
      BY <1>1, <2>3, <3>1 DEF StacksInv, StacksLinked
  <2>5. StacksDisjoint(S)'
    BY DEF StacksInv, StacksDisjoint
  <2>6. StartedInOrder(S)'
    BY <1>1, <2>2 DEF StartedInOrder
  <2>7. OthersAtRest(S)'
    BY <1>1 DEF StacksInv, OthersAtRest, AtRest
  <2>8. RunsAtRest(Top(S[curr_process]))'
    BY <1>1, <1>3, <2>1, <2>2 DEF RunsAtRest, AtRest, SafePoints, Respawns, Loading
  <2>9. Runs(S)'
    BY <2>8 DEF Runs
  <2>10. PidsMarked(S)'
    <3>1. Unmarked = NoPid /\ Unmarked' = NoPid
      BY <1>1 DEF Unmarked, LoadPoints
    <3>2. InUse(S, cpu.pid)
      BY <1>1, <2>1, <2>2, RunningStack
    <3>3. \A p \in Pids : p # NoPid
      BY ProcessesAssumption DEF Pids
    <3>4. cpu'.pc # "exec_term" /\ cpu.pc = "exec_term" /\ used_pids' = used_pids
      BY <1>1
    <3> QED
      BY <3>1, <3>2, <3>3, <3>4 DEF PidsMarked, StacksInv, InUse
  <2> QED
    BY <2>4, <2>5, <2>6, <2>7, <2>9, <2>10 DEF StacksInv
<1> QED
  BY <1>1, <1>2, <1>3, LoadModes DEF LoadPoints

-----------------------------------------------------------------------------
\* What a process inside the windows of sys_halt is doing.
LEMMA HaltModes ==
    ASSUME MachineOK, NEW S \in Stacks, StacksInv(S),
           cpu.pc \in {"halt_free", "halt_page", "halt_root", "halt_term"}
    PROVE  Halts(S[curr_process], Current)
<1>1. S[curr_process] # <<>> /\ Current = Top(S[curr_process])
  BY RunningStack
<1> QED
  BY <1>1 DEF StacksInv, Runs, RunsAtRest, AtRest, Executes, Respawns, Loading, Leaves,
              LoadPoints, SafePoints

\* The steps of sys_halt that go back to the parent's stack and page and free the pid.
LEMMA HaltStacks ==
    ASSUME MachineOK, NEW S \in Stacks, StacksInv(S), ParentTss \/ FreePid \/ ParentPage
    PROVE  StacksInv(S)'
<1>1. /\ cpu'.pid = cpu.pid /\ cpu'.stk = cpu.stk /\ cpu'.cmd = cpu.cmd
      /\ cpu'.prog = cpu.prog /\ cpu'.caller = cpu.caller
      /\ UNCHANGED <<pcb, terminals, curr_process, frame>>
      /\ cpu.pc \in {"halt_tss", "halt_free", "halt_page"}
      /\ cpu'.pc \in {"halt_free", "halt_page", "halt_root"}
  BY AtFields DEF ParentTss, FreePid, ParentPage
<1>2. cpu.pid \in Pids
  BY <1>1, CpuFields DEF PidPoints, KernelPoints
<1>3. \A t \in Terminals : S[t] # <<>>
  BY <1>1, NoneStops
<1>4. Current = Top(S[curr_process]) /\ InUse(S, Current) /\ pcb[Current].pid = Current
  BY <1>1, RunningStack
<1>5. cpu.pid = Current /\ cpu.stk = Current /\ cpu.caller = NoPid
  <2>1. CASE cpu.pc = "halt_tss"
    <3>1. cpu.pc \in SafePoints \ {"boot"}
      BY <2>1 DEF SafePoints
    <3>2. AtRest(cpu, Current)
      BY <3>1, Rests
    <3> QED
      BY <2>1, <3>2 DEF AtRest
  <2>2. CASE cpu.pc # "halt_tss"
    BY <1>1, <2>2, HaltModes DEF Halts
  <2> QED
    BY <2>1, <2>2
<1>6. Runs(S)'
  <2>1. Halts(S[curr_process], Top(S[curr_process]))'
    <3>1. CASE ParentTss
      <4>1. cpu.pc = "halt_tss" /\ cpu'.pc = "halt_free" /\ tss' = pcb[cpu.pid].par_pid
        BY <3>1, AtFields DEF ParentTss
      <4> QED
        BY <1>1, <1>4, <1>5, <4>1 DEF Halts
    <3>2. CASE FreePid
      <4>1. cpu.pc = "halt_free" /\ cpu'.pc = "halt_page" /\ UNCHANGED <<page, tss>>
        BY <3>2, AtFields DEF FreePid
      <4> QED
        BY <1>1, <1>4, <1>5, <4>1, HaltModes DEF Halts
    <3>3. CASE ParentPage
      <4>1. cpu.pc = "halt_page" /\ cpu'.pc = "halt_root" /\ page' = pcb[cpu.pid].par_pid
            /\ tss' = tss
        BY <3>3, AtFields DEF ParentPage
      <4> QED
        BY <1>1, <1>4, <1>5, <4>1, HaltModes DEF Halts
    <3> QED
      BY <3>1, <3>2, <3>3
  <2> QED
    BY <2>1 DEF Runs
<1>7. PidsMarked(S)'
  <2>0. \A p \in Pids : p # NoPid
    BY ProcessesAssumption DEF Pids
  <2>1. CASE ParentTss
    <3>1. Unmarked = NoPid /\ Unmarked' = NoPid /\ UNCHANGED used_pids
          /\ cpu.pc # "exec_term" /\ cpu'.pc # "exec_term"
      BY <2>1, AtFields DEF ParentTss, Unmarked, LoadPoints
    <3> QED
      BY <3>1 DEF PidsMarked, StacksInv, InUse
  <2>2. CASE FreePid
    <3>1. Unmarked = NoPid /\ Unmarked' = cpu.pid
          /\ cpu.pc # "exec_term" /\ cpu'.pc # "exec_term"
          /\ used_pids' = [used_pids EXCEPT ![cpu.pid] = 0]
      BY <1>4, <1>5, <2>2, AtFields DEF FreePid, Unmarked, LoadPoints
    <3> QED
      BY <1>2, <2>0, <3>1 DEF PidsMarked, StacksInv, InUse, MachineOK
  <2>3. CASE ParentPage
    <3>1. Unmarked = cpu.pid /\ Unmarked' = cpu.pid /\ UNCHANGED used_pids
          /\ cpu.pc # "exec_term" /\ cpu'.pc # "exec_term"
      BY <2>3, AtFields DEF ParentPage, Unmarked, LoadPoints
    <3> QED
      BY <3>1 DEF PidsMarked, StacksInv, InUse
  <2> QED
    BY <2>1, <2>2, <2>3
<1> QED
  BY <1>1, <1>3, <1>6, <1>7, QuietStep

\* A base shell goes on to start again, another process to its parent.
LEMMA CheckRootStacks ==
    ASSUME MachineOK, NEW S \in Stacks, StacksInv(S), CheckRoot
    PROVE  StacksInv(S)'
<1>1. /\ cpu.pc = "halt_root"
      /\ UNCHANGED <<used_pids, pcb, terminals, curr_process, page, tss, frame>>
      /\ cpu' = IF pcb[cpu.pid].pid < 3
                THEN [cpu EXCEPT !.pc = "respawn", !.cmd = Shell,
                                 !.pid = NoPid, !.caller = cpu.pid]
                ELSE [cpu EXCEPT !.pc = "halt_term"]
  BY DEF CheckRoot
<1>2. Halts(S[curr_process], Current)
  BY <1>1, HaltModes
<1>3. \A t \in Terminals : S[t] # <<>>
  BY <1>1, NoneStops
<1>4. /\ Current = Top(S[curr_process]) /\ Current \in Pids
      /\ pcb[Current].pid = Current /\ S[curr_process] \in Seq(Pids)
      /\ S[curr_process][1] = curr_process
      /\ Current < 3 => /\ Len(S[curr_process]) = 1 /\ Current = curr_process
                        /\ pcb[Current].par_pid = Current
  <2>1. ASSUME Current < 3, Current >= 3, Current \in Pids PROVE FALSE
    BY <2>1, ProcessesAssumption DEF Pids
  <2> QED
    BY <1>1, <2>1, RunningStack
<1>5. Unmarked = Current
  BY <1>1, <1>2 DEF Unmarked, Halts
<1>6. CASE Current < 3
  <2>1. /\ cpu'.pc = "respawn" /\ cpu'.cmd = Shell /\ cpu'.caller = Current
        /\ cpu'.stk = cpu.stk
    BY <1>1, <1>2, <1>4, <1>6, CpuFields DEF Halts, Registers
  <2>2. S[curr_process] = <<curr_process>>
    BY <1>4, <1>6
  <2>3. Respawns(S, curr_process)'
    BY <1>1, <1>2, <1>4, <1>6, <2>1, <2>2 DEF Respawns, Halts
  <2>4. Runs(S)'
    BY <2>3 DEF Runs
  <2>5. Unmarked' = Current
    BY <2>1 DEF Unmarked, LoadPoints
  <2>6. PidsMarked(S)'
    BY <1>1, <1>5, <2>1, <2>5 DEF PidsMarked, StacksInv, InUse
  <2> QED
    BY <1>1, <1>3, <2>1, <2>4, <2>6, QuietStep
<1>7. CASE ~(Current < 3)
  <2>1. /\ cpu'.pc = "halt_term" /\ cpu'.pid = cpu.pid /\ cpu'.caller = cpu.caller
        /\ cpu'.stk = cpu.stk
    BY <1>1, <1>2, <1>4, <1>7, CpuFields DEF Halts, Registers
  <2>2. Current >= 3
    BY <1>4, <1>7, ProcessesAssumption DEF Pids
  <2>3. Halts(S[curr_process], Top(S[curr_process]))'
    BY <1>1, <1>2, <1>4, <2>1, <2>2 DEF Halts
  <2>4. Runs(S)'
    BY <2>3 DEF Runs
  <2>5. Unmarked' = Current
    BY <1>2, <2>1 DEF Unmarked, Halts
  <2>6. PidsMarked(S)'
    BY <1>1, <1>5, <2>1, <2>5 DEF PidsMarked, StacksInv, InUse
  <2> QED
    BY <1>1, <1>3, <2>1, <2>4, <2>6, QuietStep
<1> QED
  BY <1>6, <1>7

\* Popping a pid.
LEMMA Pop ==
    ASSUME NEW S \in Stacks, NEW c \in Terminals, Len(S[c]) > 1
    PROVE  \E T \in Stacks :
               /\ \A t \in Terminals : t # c => T[t] = S[t]
               /\ T[c] # <<>> /\ Len(T[c]) = Len(S[c]) - 1 /\ Top(T[c]) = S[c][Len(S[c]) - 1]
               /\ \A i \in 1 .. Len(S[c]) - 1 : T[c][i] = S[c][i]
<1> DEFINE u == SubSeq(S[c], 1, Len(S[c]) - 1)
           T == [S EXCEPT ![c] = u]
<1>1. S[c] \in Seq(Pids) /\ Len(S[c]) \in Nat
  BY DEF Stacks
<1>2. \A i \in 1 .. Len(S[c]) - 1 : S[c][i] \in Pids
  BY <1>1
<1>3. /\ u \in Seq(Pids)
      /\ Len(u) = Len(S[c]) - 1
      /\ \A i \in 1 .. Len(S[c]) - 1 : u[i] = S[c][i]
  BY <1>1, <1>2, SubSeqProperties
<1> HIDE DEF u
<1>4. u # <<>> /\ Top(u) = S[c][Len(S[c]) - 1]
  BY <1>1, <1>3 DEF Top
<1>5. T[c] = u /\ T \in Stacks /\ \A t \in Terminals : t # c => T[t] = S[t]
  BY <1>3 DEF Stacks
<1> HIDE DEF T
<1> QED
  BY <1>3, <1>4, <1>5

\* The halted process is off the stack, and the terminal belongs to its parent.
LEMMA ParentTerminalStacks ==
    ASSUME MachineOK, NEW S \in Stacks, StacksInv(S), ParentTerminal
    PROVE  \E T \in Stacks : /\ StacksInv(T)' /\ T[curr_process] # <<>>
                             /\ Grown(T, S, curr_process, cpu.pid)
<1> USE DEF StacksInv
<1>0. PICK c \in Terminals, n \in Pids : c = curr_process /\ n = cpu.pid
  BY AtFields, CpuFields DEF ParentTerminal, PidPoints, KernelPoints, MachineOK
<1>1. /\ cpu.pc = "halt_term" /\ cpu'.pc = "halt_jump"
      /\ cpu'.pid = n
      /\ UNCHANGED <<used_pids, pcb, curr_process, page, tss, frame>>
      /\ terminals' = [terminals EXCEPT ![c] =
           [prog_curr_pid |-> pcb[pcb[n].par_pcb_ptr].pid,
            prog_par_pid |-> pcb[pcb[n].par_pcb_ptr].par_pid]]
  BY <1>0, AtFields DEF ParentTerminal
<1>2. \A t \in Terminals : S[t] # <<>>
  BY <1>1, NoneStops
<1>3. /\ n = Current /\ n >= 3 /\ tss = pcb[n].par_pid /\ page = pcb[n].par_pid
  BY <1>0, <1>1, HaltModes DEF Halts
<1>4. PICK l \in Nat \ {0} : Len(S[c]) = l /\ n = S[c][l] /\ S[c][1] = c
  BY <1>0, <1>1, <1>3, RunningStack DEF Top
<1>5. PICK q \in Pids : l > 1 /\ q = S[c][l - 1] /\ ChildOf(n, q)
  <2>1. ~(n < 3)
    BY <1>3, ProcessesAssumption DEF Pids
  <2> QED
    BY <1>0, <1>1, <1>3, <1>4, <2>1, RunningStack
<1>6. PICK T \in Stacks :
      /\ \A t \in Terminals : t # c => T[t] = S[t]
      /\ T[c] # <<>> /\ Len(T[c]) = l - 1 /\ Top(T[c]) = q
      /\ \A i \in 1 .. l - 1 : T[c][i] = S[c][i]
  BY <1>4, <1>5, Pop
<1>7. ASSUME NEW t \in Terminals, NEW i \in 1 .. Len(T[t])
      PROVE  i \in 1 .. Len(S[t]) /\ T[t][i] = S[t][i] /\ (t = c => i < l)
  <2>1. CASE t = c
    <3>1. i \in 1 .. l - 1
      BY <1>6, <2>1
    <3>2. i \in 1 .. l /\ i < l
      BY <3>1
    <3> QED
      BY <1>4, <1>6, <2>1, <3>1, <3>2
  <2>2. CASE t # c
    BY <1>6, <2>2
  <2> QED
    BY <2>1, <2>2
<1>8. ASSUME NEW p PROVE InUse(T, p) <=> InUse(S, p) /\ p # n
  <2>1. ASSUME InUse(S, p), p # n PROVE InUse(T, p)
    <3>1. PICK t \in Terminals : \E i \in 1 .. Len(S[t]) : S[t][i] = p
      BY <2>1 DEF InUse
    <3>2. PICK i \in 1 .. Len(S[t]) : S[t][i] = p
      BY <3>1
    <3>3. i \in 1 .. Len(T[t]) /\ T[t][i] = p
      <4>1. CASE t = c
        <5>1. i \in 1 .. l /\ i # l
          BY <1>4, <2>1, <3>2, <4>1
        <5>2. i \in 1 .. l - 1
          BY <5>1
        <5> QED
          BY <1>6, <3>2, <4>1, <5>2
      <4>2. CASE t # c
        BY <1>6, <3>2, <4>2
      <4> QED
        BY <4>1, <4>2
    <3> QED
      BY <3>3 DEF InUse
  <2>2. ASSUME InUse(T, p) PROVE InUse(S, p) /\ p # n
    <3>1. PICK t \in Terminals : \E i \in 1 .. Len(T[t]) : T[t][i] = p
      BY <2>2 DEF InUse
    <3>2. PICK i \in 1 .. Len(T[t]) : T[t][i] = p
      BY <3>1
    <3>3. i \in 1 .. Len(S[t]) /\ S[t][i] = p /\ (t = c => i < l)
      BY <1>7, <3>2
    <3>4. l \in 1 .. l /\ (t = c => i # l)
      BY <3>3
    <3>5. p # n
      BY <1>4, <3>3, <3>4, SMTT(30) DEF StacksDisjoint
    <3> QED
      BY <3>3, <3>5 DEF InUse
  <2> QED
    BY <2>1, <2>2
<1>9. pcb[q].pid = q
  <2>1. l - 1 = 1 \/ l - 1 \in 2 .. l
    BY <1>5
  <2>2. CASE l - 1 = 1
    BY <1>2, <1>4, <1>5, <2>2 DEF StacksLinked
  <2>3. CASE l - 1 \in 2 .. l
    BY <1>4, <1>5, <2>3 DEF StacksLinked, ChildOf
  <2> QED
    BY <2>1, <2>2, <2>3
<1>10. /\ terminals'[c].prog_curr_pid = q
       /\ \A t \in Terminals : t # c => terminals'[t] = terminals[t]
  BY <1>1, <1>5, <1>9 DEF MachineOK, ChildOf
<1>11. \A x, y : ChildOf(x, y)' <=> ChildOf(x, y)
  BY <1>1 DEF ChildOf, ResumesIn
<1>12. StacksLinked(T)'
  <2> SUFFICES ASSUME NEW t \in Terminals
               PROVE  /\ T[t] # <<>>
                      /\ terminals'[t].prog_curr_pid = Top(T[t])
                      /\ T[t][1] = t
                      /\ pcb'[t].pid = t /\ pcb'[t].par_pid = t
                      /\ \A i \in 2 .. Len(T[t]) : T[t][i] >= 3 /\ ChildOf(T[t][i], T[t][i - 1])'
    BY DEF StacksLinked
  <2>1. T[t] # <<>> /\ 1 \in 1 .. Len(T[t]) /\ Len(T[t]) \in Nat
    <3>1. T[t] # <<>> /\ T[t] \in Seq(Pids)
      BY <1>2, <1>6 DEF Stacks
    <3> QED
      BY <3>1
  <2>2. pcb'[t].pid = t /\ pcb'[t].par_pid = t /\ S[t][1] = t
        /\ terminals[t].prog_curr_pid = Top(S[t])
    BY <1>1, <1>2 DEF StacksLinked
  <2>3. T[t][1] = t
    BY <1>7, <2>1, <2>2
  <2>4. terminals'[t].prog_curr_pid = Top(T[t])
    BY <1>6, <1>10, <2>2
  <2>5. ASSUME NEW i \in 2 .. Len(T[t])
        PROVE  T[t][i] >= 3 /\ ChildOf(T[t][i], T[t][i - 1])'
    <3>1. i \in 1 .. Len(T[t]) /\ i - 1 \in 1 .. Len(T[t])
      BY <2>1
    <3>2. i \in 1 .. Len(S[t]) /\ T[t][i] = S[t][i] /\ T[t][i - 1] = S[t][i - 1]
      BY <1>7, <3>1
    <3>3. i \in 2 .. Len(S[t])
      BY <3>2
    <3>4. S[t][i] >= 3 /\ ChildOf(S[t][i], S[t][i - 1])
      BY <3>3 DEF StacksLinked
    <3> QED
      BY <1>11, <3>2, <3>4
  <2> QED
    BY <2>1, <2>2, <2>3, <2>4, <2>5
<1>13. StacksDisjoint(T)'
  <2> SUFFICES ASSUME NEW t \in Terminals, NEW u \in Terminals,
                      NEW i \in 1 .. Len(T[t]), NEW j \in 1 .. Len(T[u]), T[t][i] = T[u][j]
               PROVE  t = u /\ i = j
    BY DEF StacksDisjoint
  <2>1. i \in 1 .. Len(S[t]) /\ T[t][i] = S[t][i] /\ j \in 1 .. Len(S[u]) /\ T[u][j] = S[u][j]
    BY <1>7
  <2>2. S[t][i] = S[u][j]
    BY <2>1
  <2>3. \A i1 \in 1 .. Len(S[t]), j1 \in 1 .. Len(S[u]) :
           S[t][i1] = S[u][j1] => t = u /\ i1 = j1
    BY DEF StacksDisjoint
  <2> QED
    BY <2>1, <2>2, <2>3
<1>14. StartedInOrder(T)'
  BY <1>1, <1>2, <1>6 DEF StartedInOrder
<1>15. OthersAtRest(T)'
  BY <1>0, <1>1, <1>6 DEF OthersAtRest, AtRest
<1>16. Runs(T)'
  <2>1. ~InUse(T, n) /\ ResumesIn(pcb[n].par_esp, q) /\ page = q /\ tss = q
    BY <1>3, <1>5, <1>8 DEF ChildOf
  <2>2. Leaves(T, Top(T[curr_process]))'
    BY <1>0, <1>1, <1>6, <2>1 DEF Leaves, ResumesIn, InUse
  <2> QED
    BY <2>2 DEF Runs
<1>17. PidsMarked(T)'
  <2>1. Unmarked = n /\ Unmarked' = NoPid
    BY <1>0, <1>1 DEF Unmarked, LoadPoints
  <2>2. \A p \in Pids : p # NoPid
    BY ProcessesAssumption DEF Pids
  <2>3. cpu.pc # "exec_term" /\ cpu'.pc # "exec_term" /\ used_pids' = used_pids
    BY <1>1
  <2>4. \A p \in Pids : used_pids'[p] = 1 <=> InUse(T, p)
    BY <1>8, <2>1, <2>3 DEF PidsMarked
  <2> QED
    BY <2>1, <2>2, <2>3, <2>4 DEF PidsMarked, InUse
<1>18. Grown(T, S, curr_process, cpu.pid)
  <2>1. l - 1 + 1 = l
    BY <1>5
  <2> QED
    BY <1>0, <1>4, <1>6, <2>1 DEF Grown
<1> QED
  BY <1>0, <1>6, <1>12, <1>13, <1>14, <1>15, <1>16, <1>17, <1>18

\* The parent goes on in its call of execute.
LEMMA JumpToParentStacks ==
    ASSUME MachineOK, NEW S \in Stacks, StacksInv(S), JumpToParent
    PROVE  StacksInv(S)' /\ cpu'.pc \in SafePoints
<1>1. /\ cpu.pc = "halt_jump"
      /\ pcb' = [pcb EXCEPT ![cpu.pid] = ZeroPcb]
      /\ cpu' = [pcb[cpu.pid].par_esp EXCEPT !.if = cpu.if, !.eax = cpu.eax]
      /\ UNCHANGED <<used_pids, terminals, curr_process, page, tss, frame>>
  BY DEF JumpToParent
<1>2. cpu.pid \in Pids
  BY <1>1, CpuFields DEF PidPoints, KernelPoints
<1>3. \A t \in Terminals : S[t] # <<>>
  BY <1>1, NoneStops
<1>4. Leaves(S, Top(S[curr_process]))
  <2>1. S[curr_process] # <<>>
    BY <1>1, RunningStack
  <2> QED
    BY <1>1, <2>1 DEF StacksInv, Runs, RunsAtRest, AtRest, Executes, Respawns, Loading, Halts,
              LoadPoints, SafePoints
<1>5. \A p \in Pids : InUse(S, p) => pcb'[p] = pcb[p]
  BY <1>1, <1>2, <1>4 DEF Leaves, MachineOK
<1>6. /\ cpu'.pc = "ret_to_exec" /\ cpu'.stk = pcb[cpu.pid].par_esp.stk
      /\ cpu'.prog = pcb[cpu.pid].par_esp.prog /\ cpu'.caller = pcb[cpu.pid].par_esp.caller
  <2>1. pcb[cpu.pid].par_esp \in Registers
    BY <1>2 DEF MachineOK, Pcbs, Contexts
  <2>2. pcb[cpu.pid].par_esp.pc = "ret_to_exec"
    BY <1>4 DEF Leaves, ResumesIn
  <2> QED
    BY <1>1, <2>1, <2>2 DEF Registers
<1>7. RunsAtRest(Top(S[curr_process]))'
  BY <1>1, <1>4, <1>6 DEF RunsAtRest, AtRest, SafePoints, Leaves, ResumesIn
<1>8. Runs(S)'
  BY <1>7 DEF Runs
<1>9. PidsMarked(S)'
  <2>1. Unmarked = NoPid /\ Unmarked' = NoPid
    BY <1>1, <1>6 DEF Unmarked, LoadPoints
  <2>2. cpu.pc # "exec_term" /\ cpu'.pc # "exec_term" /\ used_pids' = used_pids
    BY <1>1, <1>6
  <2> QED
    BY <2>1, <2>2 DEF PidsMarked, StacksInv, InUse
<1>10. cpu'.pc # "boot" /\ cpu'.pc \in SafePoints
  BY <1>6 DEF SafePoints
<1> QED
  BY <1>1, <1>3, <1>5, <1>8, <1>9, <1>10, StacksFrame

-----------------------------------------------------------------------------
\* The timer starts the next base shell, which gets the number of its terminal as pid.
LEMMA StartBaseShellStacks ==
    ASSUME MachineOK, NEW S \in Stacks, StacksInv(S), StartBaseShell
    PROVE  \E T \in Stacks : \E k \in Terminals :
               /\ StacksInv(T)'
               /\ k = NextProcess /\ curr_process' = k /\ frame' = [frame EXCEPT ![k] = Shell]
               /\ S[k] = <<>> /\ Grown(S, T, k, k)
<1> USE DEF StacksInv
<1>1. PICK k \in Terminals : k = NextProcess
  BY DEF NextProcess, MachineOK
<1>2. S[k] = <<>>
  <2>1. terminals[k].prog_curr_pid = NoPid
    BY <1>1 DEF StartBaseShell
  <2>2. S[k] \in Seq(Pids)
    BY DEF Stacks
  <2>3. S[k] # <<>> => Top(S[k]) \in Pids
    BY <2>2 DEF Top
  <2> QED
    BY <2>1, <2>3, ProcessesAssumption DEF StacksLinked, Pids
<1>3. /\ \A t \in Terminals : S[t] = IF t < k THEN <<t>> ELSE <<>>
      /\ k # 0 => k = curr_process + 1
      /\ k = 0 => cpu.pc = "boot" /\ curr_process = 2
      /\ k # 0 => cpu.pc \in {"user", "wait", "sys_return"}
  BY <1>1, <1>2 DEF StartedInOrder, NextProcess, MachineOK
<1>4. ASSUME NEW p PROVE InUse(S, p) <=> p \in 0 .. k - 1
  <2>1. ASSUME NEW t \in Terminals, NEW i \in 1 .. Len(S[t]) PROVE t < k /\ S[t][i] = t
    BY <1>3
  <2>2. ASSUME NEW t \in 0 .. k - 1 PROVE t \in Terminals /\ 1 \in 1 .. Len(S[t]) /\ S[t][1] = t
    BY <1>3
  <2> QED
    BY <2>1, <2>2 DEF InUse
<1>5. \A p \in Pids : used_pids[p] = IF p < k THEN 1 ELSE 0
  <2>1. Unmarked = NoPid /\ cpu.pc # "exec_term"
    BY <1>3 DEF Unmarked, LoadPoints
  <2>2. ASSUME NEW p \in Pids PROVE p \in Nat /\ p # NoPid
    BY ProcessesAssumption DEF Pids
  <2> QED
    BY <1>4, <2>1, <2>2 DEF PidsMarked, MachineOK
<1>6. k \in Pids
  BY TerminalsArePids
<1>7. get_new_pid(used_pids) = k
  <2>1. ASSUME NEW p \in Pids PROVE p \in Nat
    BY ProcessesAssumption DEF Pids
  <2>2. \A p \in 0 .. k - 1 : p \in Pids
    BY <1>6, ProcessesAssumption DEF Pids
  <2>3. k \in FirstFree(used_pids)
    BY <1>5, <1>6, <2>2 DEF FirstFree
  <2>4. ASSUME NEW p \in FirstFree(used_pids) PROVE p = k
    <3>1. p \in Pids /\ used_pids[p] = 0 /\ \A r \in 0 .. p - 1 : used_pids[r] # 0
      BY DEF FirstFree
    <3>2. ~(p < k)
      BY <1>5, <3>1
    <3>3. ~(k < p)
      BY <1>5, <1>6, <2>1, <3>1
    <3> QED
      BY <2>1, <3>1, <3>2, <3>3
  <2>5. FirstFree(used_pids) = {k}
    BY <2>3, <2>4
  <2> QED
    BY <2>5 DEF get_new_pid
<1> DEFINE saved == IF k = 0 THEN pcb ELSE [pcb EXCEPT ![curr_process].esp = cpu]
<1>8. /\ curr_process' = k /\ page' = k /\ tss' = k
      /\ frame' = [frame EXCEPT ![k] = Shell]
      /\ pcb' = [saved EXCEPT ![k] = NewPcb(k, EntryStack, Lost, Lost)]
      /\ used_pids' = [used_pids EXCEPT ![k] = 1]
      /\ terminals' = [terminals EXCEPT ![k] =
             [prog_curr_pid |-> k, prog_par_pid |-> pcb'[k].par_pid]]
      /\ cpu' = Entry(Shell, k, 0)
  BY <1>1, <1>7 DEF StartBaseShell
<1>9. curr_process \in Pids /\ (k # 0 => curr_process # k)
  BY <1>3, TerminalsArePids DEF MachineOK
<1>10. saved \in [Pids -> Pcbs]
  BY <1>9 DEF MachineOK, Pcbs
<1>11. \A p \in Pids : saved[p] = IF k # 0 /\ p = curr_process
                                  THEN [pcb[p] EXCEPT !.esp = cpu] ELSE pcb[p]
  BY <1>9 DEF MachineOK, Pcbs
<1> HIDE DEF saved
<1>12. \A p \in Pids : pcb'[p] = IF p = k THEN NewPcb(k, EntryStack, Lost, Lost) ELSE saved[p]
  BY <1>6, <1>8, <1>10
<1>13. pcb'[k].pid = k /\ pcb'[k].par_pid = k
  BY <1>6, <1>12 DEF NewPcb
<1>14. ASSUME NEW p \in Pids, p # k
       PROVE  /\ pcb'[p].pid = pcb[p].pid /\ pcb'[p].par_pid = pcb[p].par_pid
              /\ pcb'[p].esp = IF k # 0 /\ p = curr_process THEN cpu ELSE pcb[p].esp
  <2>1. pcb[p] \in Pcbs
    BY DEF MachineOK
  <2>2. \A c : /\ [pcb[p] EXCEPT !.esp = c].pid = pcb[p].pid
              /\ [pcb[p] EXCEPT !.esp = c].par_pid = pcb[p].par_pid
              /\ [pcb[p] EXCEPT !.esp = c].esp = c
    BY <2>1 DEF Pcbs
  <2>3. pcb'[p] = IF k # 0 /\ p = curr_process THEN [pcb[p] EXCEPT !.esp = cpu] ELSE pcb[p]
    BY <1>11, <1>12, <1>14
  <2> QED
    BY <2>2, <2>3
<1>15. PICK T \in Stacks : T = [t \in Terminals |-> IF t <= k THEN <<t>> ELSE <<>>]
  <2>1. \A t \in Terminals : <<t>> \in Seq(Pids) /\ <<>> \in Seq(Pids)
    BY TerminalsArePids
  <2> QED
    BY <2>1 DEF Stacks
<1>16. ASSUME NEW t \in Terminals
       PROVE  /\ T[t] = IF t <= k THEN <<t>> ELSE <<>>
              /\ t <= k => T[t] # <<>> /\ Len(T[t]) = 1 /\ T[t][1] = t /\ Top(T[t]) = t
              /\ t > k => T[t] = <<>> /\ Len(T[t]) = 0
  BY <1>15 DEF Top
<1>17. cpu'.pc = "user" /\ cpu'.prog = Shell /\ cpu'.caller = NoPid
  BY <1>8 DEF Entry, Lost
<1>18. frame'[k] = Shell /\ \A p \in Pids : p # k => frame'[p] = frame[p]
  BY <1>6, <1>8 DEF MachineOK
<1>19. StacksLinked(T)'
  <2> SUFFICES ASSUME NEW t \in Terminals
               PROVE  /\ T[t] = <<>> => terminals'[t].prog_curr_pid = NoPid
                      /\ T[t] # <<>> => /\ terminals'[t].prog_curr_pid = Top(T[t])
                                        /\ T[t][1] = t
                                        /\ pcb'[t].pid = t /\ pcb'[t].par_pid = t
                      /\ Len(T[t]) < 2
    BY <1>16 DEF StacksLinked
  <2>1. t \in Pids
    BY TerminalsArePids
  <2>2. CASE t = k
    <3>1. terminals'[k].prog_curr_pid = k
      BY <1>8 DEF MachineOK
    <3>2. T[k] # <<>> /\ Len(T[k]) = 1 /\ T[k][1] = k /\ Top(T[k]) = k
      BY <1>16
    <3> QED
      BY <1>13, <2>2, <3>1, <3>2
  <2>3. CASE t < k
    <3>1. /\ terminals'[t] = terminals[t]
      BY <1>8, <2>3 DEF MachineOK
    <3>2. S[t] = <<t>> /\ S[t] # <<>>
      BY <1>3, <2>3
    <3>3. /\ terminals[t].prog_curr_pid = t /\ pcb[t].pid = t /\ pcb[t].par_pid = t
      BY <3>2 DEF StacksLinked, Top
    <3> QED
      <4>1. T[t] # <<>> /\ Len(T[t]) = 1 /\ T[t][1] = t /\ Top(T[t]) = t
        BY <1>16, <2>3
      <4>2. pcb'[t].pid = t /\ pcb'[t].par_pid = t
        BY <1>14, <2>1, <2>3, <3>3
      <4> QED
        BY <3>1, <3>3, <4>1, <4>2
  <2>4. CASE t > k
    <3>1. terminals'[t] = terminals[t]
      BY <1>8, <2>4 DEF MachineOK
    <3>2. terminals[t].prog_curr_pid = NoPid
      BY <1>3, <2>4 DEF StacksLinked
    <3> QED
      BY <1>16, <2>4, <3>1, <3>2
  <2> QED
    BY <2>2, <2>3, <2>4
<1>20. StacksDisjoint(T)'
  <2>1. ASSUME NEW t \in Terminals, NEW i \in 1 .. Len(T[t]) PROVE i = 1 /\ T[t][i] = t
    <3>1. CASE t <= k
      <4>1. Len(T[t]) = 1 /\ T[t][1] = t
        BY <1>16, <3>1
      <4> QED
        BY <4>1
    <3>2. CASE t > k
      <4>1. Len(T[t]) = 0
        BY <1>16, <3>2
      <4> QED
        BY <4>1
    <3> QED
      BY <3>1, <3>2
  <2> QED
    BY <2>1 DEF StacksDisjoint
<1>21. StartedInOrder(T)'
  BY <1>8, <1>16, <1>17 DEF StartedInOrder
<1>22. OthersAtRest(T)'
  <2>0. ASSUME NEW t \in Terminals, t # k, T[t] # <<>> PROVE t < k /\ Top(T[t]) = t
    <3>1. t <= k
      BY <1>16, <2>0
    <3> QED
      BY <1>16, <2>0, <3>1
  <2> SUFFICES ASSUME NEW t \in Terminals, t < k
               PROVE  AtRest(pcb[t].esp, t)'
    <3>1. ASSUME NEW t \in Terminals, t # k, T[t] # <<>>
          PROVE  AtRest(pcb[Top(T[t])].esp, Top(T[t]))'
      <4>1. t < k /\ Top(T[t]) = t
        BY <2>0, <3>1
      <4>2. AtRest(pcb[t].esp, t)'
        BY <4>1
      <4> QED
        BY <4>1, <4>2
    <3>2. curr_process' = k
      BY <1>8
    <3> QED
      BY <3>1, <3>2 DEF OthersAtRest
  <2>1. t \in Pids /\ t # k
    BY TerminalsArePids
  <2>2. frame'[t] = frame[t]
    BY <1>18, <2>1
  <2>3. CASE t = curr_process
    <3>1. cpu.pc \in SafePoints \ {"boot"}
      BY <1>3, <2>3 DEF SafePoints
    <3>2. AtRest(cpu, Current) /\ Current = t
      <4>1. Current = Top(S[t]) /\ S[t] = <<t>>
        BY <1>3, <2>3, <3>1, RunningStack
      <4> QED
        BY <3>1, <4>1, Rests DEF Top
    <3>3. pcb'[t].esp = cpu
      BY <1>14, <2>1, <2>3
    <3> QED
      BY <2>2, <3>2, <3>3 DEF AtRest
  <2>4. CASE t # curr_process
    <3>1. S[t] # <<>> /\ Top(S[t]) = t
      BY <1>3 DEF Top
    <3>2. AtRest(pcb[t].esp, t)
      BY <2>4, <3>1 DEF OthersAtRest
    <3>3. pcb'[t].esp = pcb[t].esp
      BY <1>14, <2>1, <2>4
    <3> QED
      BY <2>2, <3>2, <3>3 DEF AtRest
  <2> QED
    BY <2>3, <2>4
<1>23. Runs(T)'
  <2>1. RunsAtRest(Top(T[curr_process]))'
    BY <1>8, <1>16, <1>17, <1>18 DEF RunsAtRest, AtRest, SafePoints
  <2> QED
    BY <2>1 DEF Runs
<1>24. PidsMarked(T)'
  <2>1. Unmarked' = NoPid /\ cpu'.pc # "exec_term"
    BY <1>17 DEF Unmarked, LoadPoints
  <2>2. ASSUME NEW p \in Pids PROVE p \in Nat /\ p # NoPid
    BY ProcessesAssumption DEF Pids
  <2>3. \A p \in Pids : used_pids'[p] = IF p <= k THEN 1 ELSE 0
    BY <1>5, <1>6, <1>8, <2>2 DEF MachineOK
  <2>4. ASSUME NEW p \in Pids PROVE InUse(T, p) <=> p <= k
    <3>1. ASSUME NEW t \in Terminals, NEW i \in 1 .. Len(T[t]) PROVE t <= k /\ T[t][i] = t
      BY <1>16
    <3>2. ASSUME NEW t \in 0 .. k PROVE t \in Terminals /\ 1 \in 1 .. Len(T[t]) /\ T[t][1] = t
      BY <1>16
    <3>3. p \in Nat
      BY <2>2
    <3> QED
      BY <3>1, <3>2, <3>3 DEF InUse
  <2> QED
    BY <2>1, <2>2, <2>3, <2>4 DEF PidsMarked, InUse
<1>25. Grown(S, T, k, k)
  <2>1. ASSUME NEW t \in Terminals, t # k PROVE T[t] = S[t]
    BY <1>3, <1>16, <2>1
  <2>2. T[k] = <<k>>
    BY <1>16
  <2> QED
    BY <1>2, <2>1, <2>2 DEF Grown
<1> QED
  BY <1>1, <1>2, <1>8, <1>19, <1>20, <1>21, <1>22, <1>23, <1>24, <1>25
-----------------------------------------------------------------------------
\* The timer gives the processor to the process on top of the next stack: the interrupted
\* one is at rest, and so is the one that resumes.
LEMMA SwitchProcessStacks ==
    ASSUME MachineOK, NEW S \in Stacks, StacksInv(S), cpu.pc \in SafePoints, SwitchProcess
    PROVE  StacksInv(S)' /\ S[NextProcess] # <<>> /\ cpu'.pc \in SafePoints
<1> USE DEF StacksInv
<1>1. PICK k \in Terminals, c \in Terminals : k = NextProcess /\ c = curr_process /\ k # c
  BY DEF NextProcess, MachineOK
<1>2. PICK q : q = Current
  OBVIOUS
<1>3. PICK r : r = terminals[k].prog_curr_pid
  OBVIOUS
<1>4. /\ cpu.pc \in SafePoints
      /\ r # NoPid /\ q # NoPid
      /\ pcb' = [[pcb EXCEPT ![q].esp = cpu] EXCEPT ![r].esp = Lost]
      /\ page' = r /\ tss' = r /\ curr_process' = k
      /\ cpu' = [pcb EXCEPT ![q].esp = cpu][r].esp
      /\ UNCHANGED <<used_pids, terminals, frame>>
  BY <1>1, <1>2, <1>3 DEF SwitchProcess, TickTaken
<1>5. cpu.pc # "boot"
  <2>1. S[c] # <<>>
    BY <1>1, <1>2, <1>4 DEF StacksLinked, Current
  <2> QED
    BY <1>1, <2>1 DEF StartedInOrder
<1>6. S[k] # <<>> /\ r = Top(S[k]) /\ r \in Pids
  <2>1. S[k] # <<>> /\ r = Top(S[k])
    BY <1>3, <1>4 DEF StacksLinked
  <2>2. S[k] \in Seq(Pids)
    BY DEF Stacks
  <2> QED
    BY <2>1, <2>2 DEF Top
<1>7. \A t \in Terminals : S[t] # <<>>
  <2>1. CASE /\ curr_process < 2
             /\ \A t \in Terminals : S[t] = IF t <= curr_process THEN <<t>> ELSE <<>>
    <3>1. k > curr_process
      BY <1>1, <2>1 DEF NextProcess, MachineOK
    <3> QED
      BY <1>1, <1>6, <2>1, <3>1
  <2> QED
    BY <1>5, <2>1 DEF StartedInOrder
<1>8. q = Top(S[c]) /\ q \in Pids /\ AtRest(cpu, q) /\ Unmarked = NoPid
  BY <1>1, <1>2, <1>4, <1>5, RunningStack, Rests
<1>9. ASSUME NEW t \in Terminals, NEW u \in Terminals, Top(S[t]) = Top(S[u]) PROVE t = u
  <2>1. ASSUME NEW x \in Terminals PROVE Len(S[x]) \in 1 .. Len(S[x])
    <3>1. S[x] \in Seq(Pids) /\ S[x] # <<>>
      BY <1>7 DEF Stacks
    <3> QED
      BY <3>1
  <2> QED
    BY <1>9, <2>1 DEF StacksDisjoint, Top
<1>10. q # r
  BY <1>1, <1>6, <1>8, <1>9
<1>11. /\ \A p \in Pids : /\ pcb'[p].pid = pcb[p].pid
                          /\ pcb'[p].par_pid = pcb[p].par_pid
                          /\ pcb'[p].par_pcb_ptr = pcb[p].par_pcb_ptr
                          /\ pcb'[p].par_esp = pcb[p].par_esp
                          /\ p # q /\ p # r => pcb'[p].esp = pcb[p].esp
       /\ pcb'[q].esp = cpu
       /\ cpu' = pcb[r].esp
  <2>1. pcb \in [Pids -> Pcbs]
    BY DEF MachineOK
  <2>2. \A p \in Pids : pcb'[p] = IF p = q THEN [pcb[p] EXCEPT !.esp = cpu]
                        ELSE IF p = r THEN [pcb[p] EXCEPT !.esp = Lost] ELSE pcb[p]
    BY <1>4, <1>6, <1>8, <1>10, <2>1
  <2>3. ASSUME NEW p \in Pids, NEW x
        PROVE  /\ [pcb[p] EXCEPT !.esp = x].pid = pcb[p].pid
               /\ [pcb[p] EXCEPT !.esp = x].par_pid = pcb[p].par_pid
               /\ [pcb[p] EXCEPT !.esp = x].par_pcb_ptr = pcb[p].par_pcb_ptr
               /\ [pcb[p] EXCEPT !.esp = x].par_esp = pcb[p].par_esp
               /\ [pcb[p] EXCEPT !.esp = x].esp = x
    BY <2>1 DEF Pcbs
  <2>4. cpu' = pcb[r].esp
    BY <1>4, <1>6, <1>8, <1>10, <2>1
  <2>5. \A p \in Pids : p # q /\ p # r => pcb'[p].esp = pcb[p].esp
    BY <2>2
  <2>6. pcb'[q].esp = cpu
    <3>1. pcb'[q] = [pcb[q] EXCEPT !.esp = cpu]
      BY <1>8, <2>2
    <3>2. [pcb[q] EXCEPT !.esp = cpu].esp = cpu
      BY <1>8, <2>3
    <3> QED
      BY <3>1, <3>2
  <2>7. ASSUME NEW p \in Pids
        PROVE  /\ pcb'[p].pid = pcb[p].pid
               /\ pcb'[p].par_pid = pcb[p].par_pid
               /\ pcb'[p].par_pcb_ptr = pcb[p].par_pcb_ptr
               /\ pcb'[p].par_esp = pcb[p].par_esp
    <3>1. CASE p = q
      <4>1. pcb'[p] = [pcb[p] EXCEPT !.esp = cpu]
        BY <2>2, <3>1
      <4> QED
        BY <2>3, <4>1
    <3>2. CASE p = r
      <4>1. pcb'[p] = [pcb[p] EXCEPT !.esp = Lost]
        BY <1>10, <2>2, <3>2
      <4> QED
        BY <2>3, <4>1
    <3>3. CASE p # q /\ p # r
      BY <2>2, <3>3
    <3> QED
      BY <3>1, <3>2, <3>3
  <2> QED
    BY <2>4, <2>5, <2>6, <2>7
<1>12. AtRest(cpu, r)'
  <2>1. AtRest(pcb[r].esp, r)
    BY <1>1, <1>6 DEF OthersAtRest
  <2>2. frame' = frame
    BY <1>4
  <2> QED
    BY <1>11, <2>1, <2>2 DEF AtRest
<1>13. StacksLinked(S)'
  <2>1. ASSUME NEW p \in Pids, NEW x PROVE ChildOf(p, x)' <=> ChildOf(p, x)
    BY <1>4, <1>11 DEF ChildOf, ResumesIn
  <2>2. ASSUME NEW t \in Terminals PROVE \A i \in 2 .. Len(S[t]) : S[t][i] \in Pids
    <3>1. S[t] \in Seq(Pids)
      BY DEF Stacks
    <3> QED
      BY <3>1
  <2>3. ASSUME NEW t \in Terminals
        PROVE  pcb'[t].pid = pcb[t].pid /\ pcb'[t].par_pid = pcb[t].par_pid
    BY <1>11, TerminalsArePids
  <2>4. terminals' = terminals
    BY <1>4
  <2> QED
    BY <2>1, <2>2, <2>3, <2>4 DEF StacksLinked
<1>14. StacksDisjoint(S)'
  BY DEF StacksDisjoint
<1>15. cpu'.pc # "boot" /\ cpu'.pc # "exec_term" /\ cpu.pc # "exec_term" /\ Unmarked' = NoPid
  BY <1>4, <1>12 DEF AtRest, Unmarked, SafePoints, LoadPoints
<1>16. StartedInOrder(S)'
  BY <1>7, <1>15 DEF StartedInOrder
<1>17. OthersAtRest(S)'
  <2> SUFFICES ASSUME NEW t \in Terminals, t # k
               PROVE  AtRest(pcb[Top(S[t])].esp, Top(S[t]))'
    BY <1>4 DEF OthersAtRest
  <2>1. Top(S[t]) \in Pids
    <3>1. S[t] \in Seq(Pids) /\ S[t] # <<>>
      BY <1>7 DEF Stacks
    <3> QED
      BY <3>1 DEF Top
  <2>2. frame' = frame
    BY <1>4
  <2>3. CASE t = c
    BY <1>8, <1>11, <2>2, <2>3 DEF AtRest
  <2>4. CASE t # c
    <3>1. Top(S[t]) # q /\ Top(S[t]) # r
      BY <1>6, <1>8, <1>9, <2>4
    <3>2. AtRest(pcb[Top(S[t])].esp, Top(S[t]))
      BY <1>1, <1>7, <2>4 DEF OthersAtRest
    <3>3. pcb'[Top(S[t])].esp = pcb[Top(S[t])].esp
      BY <1>11, <2>1, <3>1
    <3> QED
      BY <2>2, <3>2, <3>3 DEF AtRest
  <2> QED
    BY <2>3, <2>4
<1>18. Runs(S)'
  <2>1. RunsAtRest(Top(S[curr_process]))'
    BY <1>4, <1>6, <1>12 DEF RunsAtRest
  <2> QED
    BY <2>1 DEF Runs
<1>19. PidsMarked(S)'
  BY <1>4, <1>8, <1>15 DEF PidsMarked, InUse
<1>20. cpu'.pc \in SafePoints
  BY <1>12 DEF AtRest
<1> QED
  BY <1>1, <1>6, <1>13, <1>14, <1>16, <1>17, <1>18, <1>19, <1>20

\* The base shells are shells, also when they have been started again.
ShellsLoaded(S) == \A t \in Terminals : S[t] # <<>> => frame[t] = Shell

\* Only a command that names a program gets as far as a pid.
Commanded == cpu.pc \in LoadPoints => cpu.cmd \in Programs

\* The invariant: there are stacks that the blocks, the terminals, the frames and the
\* processor follow.
StacksFollow ==
    /\ Commanded
    /\ \E S \in Stacks : StacksInv(S) /\ ShellsLoaded(S)

\* Nothing runs when the kernel has booted.
LEMMA InitStacks ==
    ASSUME Init
    PROVE  StacksFollow
<1>1. PICK S \in Stacks : S = [t \in Terminals |-> <<>>]
  <2>1. <<>> \in Seq(Pids)
    OBVIOUS
  <2> QED
    BY <2>1 DEF Stacks
<1>2. \A t \in Terminals : S[t] = <<>> /\ Len(S[t]) = 0
  BY <1>1
<1>3. cpu.pc = "boot" /\ curr_process = 2 /\ curr_process \in Terminals
  BY DEF Init, init_pit, Lost
<1>4. StacksLinked(S)
  BY <1>2 DEF StacksLinked, Init, InitTerminals
<1>5. StacksDisjoint(S)
  BY <1>2 DEF StacksDisjoint
<1>6. StartedInOrder(S) /\ OthersAtRest(S) /\ Runs(S)
  BY <1>2, <1>3 DEF StartedInOrder, OthersAtRest, Runs
<1>7. PidsMarked(S)
  BY <1>2, <1>3 DEF PidsMarked, InUse, Init, init_pid
<1>8. ShellsLoaded(S) /\ Commanded
  BY <1>2, <1>3 DEF ShellsLoaded, Commanded, LoadPoints
<1>9. StacksInv(S)
  BY <1>4, <1>5, <1>6, <1>7 DEF StacksInv
<1> QED
  BY <1>8, <1>9 DEF StacksFollow

\* The images of the processes on the stacks that are not the base shells.
SameImages(S) == \A p \in Pids : InUse(S, p) => frame'[p] = frame[p]

\* What a step does to the stacks: nothing; the next terminal has the processor, and
\* perhaps its first shell; a program is executed; the process on top halts.
Rest(S, T) == T = S /\ curr_process' = curr_process /\ SameImages(S)

Turns(S, T) ==
    /\ T = S /\ S[NextProcess] # <<>>
    /\ curr_process' = NextProcess /\ frame' = frame

Starts(S, T) ==
    /\ S[NextProcess] = <<>> /\ Grown(S, T, NextProcess, NextProcess)
    /\ curr_process' = NextProcess /\ frame' = [frame EXCEPT ![NextProcess] = Shell]

Grows(S, T) ==
    /\ S[curr_process] # <<>> /\ Grown(S, T, curr_process, cpu.pid)
    /\ cpu.pid \in Pids /\ ~InUse(S, cpu.pid) /\ frame[cpu.pid] \in Programs
    /\ curr_process' = curr_process /\ frame' = frame

Shrinks(S, T) ==
    /\ T[curr_process] # <<>> /\ \E n \in Pids : Grown(T, S, curr_process, n)
    /\ curr_process' = curr_process /\ frame' = frame

Moves(S, T) ==
    Rest(S, T) \/ Turns(S, T) \/ Starts(S, T) \/ Grows(S, T) \/ Shrinks(S, T)

\* The steps that do not set torn.
SafeStep ==
    \/ Tick /\ cpu.pc \in SafePoints
    \/ Command /\ AllStarted
    \/ KernelStep \/ SysRead \/ ReadReturns
    \/ UNCHANGED machine

\* torn is set by every other step, and stays set.
LEMMA TornStays ==
    ASSUME [Next]_vars, ~torn'
    PROVE  ~torn /\ SafeStep
<1>1. CASE UNCHANGED vars
  BY <1>1, Zenon DEF vars, machine, SafeStep
<1>2. CASE Tick /\ torn' = (torn \/ cpu.pc \notin SafePoints)
  BY <1>2, Zenon DEF SafeStep
<1>3. CASE Command /\ torn' = (torn \/ ~AllStarted)
  BY <1>3, Zenon DEF SafeStep
<1>4. CASE (KernelStep \/ SysRead \/ ReadReturns) /\ UNCHANGED torn
  BY <1>4, Zenon DEF SafeStep
<1> QED
  BY <1>1, <1>2, <1>3, <1>4, Zenon DEF Next

\* The command is there after every step.
LEMMA CommandedStep ==
    ASSUME MachineOK, NEW S \in Stacks, StacksInv(S), Commanded, SafeStep
    PROVE  Commanded'
<1>2. cpu.cmd \in Programs \cup {NoProgram}
  BY DEF MachineOK, Contexts, Registers
<1>0. ASSUME cpu'.pc \notin LoadPoints PROVE Commanded'
  BY <1>0 DEF Commanded
<1>3. CASE StartBaseShell
  <2>1. cpu' = cpu \/ cpu'.pc = "user"
    BY <1>3 DEF StartBaseShell, Entry, Lost
  <2> QED
    BY <2>1 DEF Commanded, LoadPoints
<1>4. CASE (SwitchProcess /\ cpu.pc \in SafePoints) \/ JumpToParent
  <2>1. cpu'.pc \in SafePoints
    BY <1>4, SwitchProcessStacks, JumpToParentStacks
  <2> QED
    BY <1>0, <2>1 DEF SafePoints, LoadPoints
<1>5. CASE GetPid
  BY <1>2, <1>5 DEF GetPid, Commanded, MachineOK, Contexts, Registers
<1>6. CASE MapPage \/ SetTss \/ MarkUsed \/ LoadImage \/ CreatePcb
  BY <1>6, AtFields DEF MapPage, SetTss, MarkUsed, LoadImage, CreatePcb, Commanded, LoadPoints
<1>7. CASE SetTerminal \/ ParentTss \/ FreePid \/ ParentPage \/ ParentTerminal
  BY <1>7, AtFields DEF SetTerminal, ParentTss, FreePid, ParentPage, ParentTerminal, Commanded,
                        LoadPoints
<1>8. ASSUME NEW value, cpu' = Return(value) PROVE Commanded'
  BY <1>8 DEF Return, Commanded, LoadPoints, MachineOK, Contexts, Registers
<1>9. CASE ExecuteFails \/ ExecuteReturns \/ ReadReturns
  BY <1>8, <1>9 DEF ExecuteFails, ExecuteReturns, ReadReturns
<1>10. CASE SysReturn \/ EnterProgram \/ CheckRoot
  <2>1. cpu \in Registers
    BY CpuFields
  <2>2. cpu'.pc \in {"user", "respawn", "halt_term"}
    <3>1. CASE SysReturn
      BY <2>1, <3>1 DEF SysReturn, Registers
    <3>2. CASE EnterProgram
      BY <3>2 DEF EnterProgram, Entry, Lost
    <3>3. CASE CheckRoot
      BY <2>1, <3>3 DEF CheckRoot, Registers
    <3> QED
      BY <1>10, <3>1, <3>2, <3>3
  <2> QED
    BY <1>0, <2>2 DEF LoadPoints
<1>12. ASSUME NEW label, NEW flag, NEW cmd, NEW pid, NEW eax,
              NEW points, KernelEntry(points, label, flag, cmd, pid, eax),
              label \notin LoadPoints
       PROVE  Commanded'
  <2>1. cpu'.pc = label
    BY <1>12, CpuFields DEF KernelEntry, Registers
  <2> QED
    BY <1>0, <1>12, <2>1
<1>13. CASE Command \/ SysRead
  BY <1>12, <1>13 DEF Command, SysRead, SysExecute, SysHalt, SysEnter, Exception, blue_screen,
                      LoadPoints
<1>14. CASE UNCHANGED machine
  BY <1>14 DEF machine, Commanded
<1> QED
  BY <1>3, <1>4, <1>5, <1>6, <1>7, <1>9, <1>10, <1>13, <1>14 DEF SafeStep, Tick, KernelStep

\* The step, and the shells that stay loaded.
LEMMA MovesStep ==
    ASSUME MachineOK, NEW S \in Stacks, StacksInv(S), ShellsLoaded(S), Commanded,
           SafeStep
    PROVE  \E T \in Stacks : StacksInv(T)' /\ ShellsLoaded(T)' /\ Moves(S, T)
<1>1. ASSUME frame' = frame, curr_process' = curr_process, StacksInv(S)'
      PROVE  \E T \in Stacks : StacksInv(T)' /\ ShellsLoaded(T)' /\ Moves(S, T)
  <2>1. ShellsLoaded(S)' /\ Rest(S, S)
    BY <1>1 DEF ShellsLoaded, Rest, SameImages
  <2> QED
    BY <1>1, <2>1 DEF Moves
<1>2. CASE StartBaseShell
  <2>1. PICK T \in Stacks :
          \E k \in Terminals :
               /\ StacksInv(T)'
               /\ k = NextProcess /\ curr_process' = k /\ frame' = [frame EXCEPT ![k] = Shell]
               /\ S[k] = <<>> /\ Grown(S, T, k, k)
    BY <1>2, StartBaseShellStacks
  <2>2. Starts(S, T) /\ StacksInv(T)'
    BY <2>1 DEF Starts
  <2>3. ShellsLoaded(T)'
    <3>1. PICK k \in Terminals : frame' = [frame EXCEPT ![k] = Shell] /\ Grown(S, T, k, k)
      BY <2>1
    <3>2. ASSUME NEW t \in Terminals, T[t] # <<>> PROVE frame'[t] = Shell
      <4>1. t \in Pids /\ frame \in [Pids -> Programs \cup {NoProgram}]
        BY TerminalsArePids DEF MachineOK
      <4>2. t # k => frame[t] = Shell
        BY <3>1, <3>2 DEF Grown, ShellsLoaded
      <4> QED
        BY <3>1, <4>1, <4>2
    <3> QED
      BY <3>2 DEF ShellsLoaded
  <2> QED
    BY <2>2, <2>3 DEF Moves
<1>3. CASE SwitchProcess /\ cpu.pc \in SafePoints
  <2>1. StacksInv(S)' /\ S[NextProcess] # <<>> /\ frame' = frame /\ curr_process' = NextProcess
    BY <1>3, SwitchProcessStacks DEF SwitchProcess
  <2>2. ShellsLoaded(S)' /\ Turns(S, S)
    BY <2>1 DEF ShellsLoaded, Turns
  <2> QED
    BY <2>1, <2>2 DEF Moves
<1>4. CASE ExecuteFails
  BY <1>1, <1>4, ExecuteFailsStacks DEF ExecuteFails
<1>5. CASE GetPid
  BY <1>1, <1>5, GetPidStacks DEF GetPid
<1>6. CASE MapPage \/ SetTss \/ MarkUsed
  BY <1>1, <1>6, LoadStacks DEF MapPage, SetTss, MarkUsed
<1>7. CASE LoadImage
  <2>1. /\ cpu.pc = "exec_load" /\ frame' = [frame EXCEPT ![page] = cpu.cmd]
        /\ curr_process' = curr_process
    BY <1>7 DEF LoadImage, At
  <2>2. StacksInv(S)'
    BY <1>7, LoadImageStacks
  <2>3. page = cpu.pid /\ page \in Pids
    <3>1. Executes(S, Current) \/ Respawns(S, curr_process)
      BY <2>1, LoadModes DEF LoadPoints
    <3>2. page = cpu.pid
      BY <2>1, <3>1 DEF Executes, Respawns, Loading
    <3> QED
      BY <2>1, <3>2, CpuFields DEF PidPoints, KernelPoints
  <2>4. ASSUME NEW p \in Pids, InUse(S, p) PROVE frame'[p] = frame[p]
    <3>1. p # page => frame'[p] = frame[p]
      BY <2>1, <2>3 DEF MachineOK
    <3>2. CASE Executes(S, Current)
      BY <2>3, <2>4, <3>1, <3>2 DEF Executes
    <3>3. CASE Respawns(S, curr_process)
      <4>1. page = curr_process /\ cpu.cmd = Shell /\ S[curr_process] = <<curr_process>>
        BY <3>3 DEF Respawns
      <4>2. frame[curr_process] = Shell
        <5>1. curr_process \in Terminals /\ S[curr_process] # <<>>
          BY <4>1 DEF MachineOK
        <5> QED
          BY <5>1 DEF ShellsLoaded
      <4>3. frame'[page] = Shell
        BY <2>1, <2>3, <4>1 DEF MachineOK
      <4> QED
        BY <3>1, <4>1, <4>2, <4>3
    <3> QED
      BY <2>1, <3>2, <3>3, LoadModes DEF LoadPoints
  <2>5. Rest(S, S)
    BY <2>1, <2>4 DEF Rest, SameImages
  <2>6. ShellsLoaded(S)'
    <3>1. ASSUME NEW t \in Terminals, S[t] # <<>> PROVE t \in Pids /\ InUse(S, t)
      <4>1. S[t][1] = t /\ S[t] \in Seq(Pids)
        BY <3>1 DEF StacksInv, StacksLinked, Stacks
      <4>2. 1 \in 1 .. Len(S[t])
        BY <3>1, <4>1
      <4> QED
        BY <4>1, <4>2, TerminalsArePids DEF InUse
    <3> QED
      BY <2>4, <3>1 DEF ShellsLoaded
  <2> QED
    BY <2>2, <2>5, <2>6 DEF Moves
<1>8. CASE CreatePcb
  BY <1>1, <1>8, CreatePcbStacks DEF CreatePcb
<1>9. CASE SetTerminal
  <2>1. cpu.pc = "exec_term" /\ frame' = frame /\ curr_process' = curr_process
    BY <1>9 DEF SetTerminal, At
  <2>2. PICK T \in Stacks :
          /\ StacksInv(T)'
          /\ T = S \/ (Grown(S, T, curr_process, cpu.pid) /\ Executes(S, Current))
    BY <1>9, SetTerminalStacks
  <2>3. CASE T = S
    BY <1>1, <2>1, <2>2, <2>3
  <2>4. CASE Grown(S, T, curr_process, cpu.pid) /\ Executes(S, Current)
    <3>1. cpu.pid \in Pids /\ ~InUse(S, cpu.pid) /\ frame[cpu.pid] \in Programs
      <4>1. cpu.pid \in Pids /\ cpu.cmd \in Programs
        BY <2>1, CpuFields DEF Commanded, LoadPoints, PidPoints, KernelPoints
      <4> QED
        BY <2>1, <2>4, <4>1 DEF Executes, Loading
    <3>2. S[curr_process] # <<>>
      BY <2>1, RunningStack
    <3>3. Grows(S, T)
      BY <2>1, <2>4, <3>1, <3>2 DEF Grows
    <3>4. ShellsLoaded(T)'
      BY <2>1, <2>4, <3>2 DEF ShellsLoaded, Grown, MachineOK
    <3> QED
      BY <2>2, <3>3, <3>4 DEF Moves
  <2> QED
    BY <2>2, <2>3, <2>4
<1>10. CASE EnterProgram
  BY <1>1, <1>10, EnterProgramStacks DEF EnterProgram
<1>11. CASE ExecuteReturns
  BY <1>1, <1>11, ReturnStacks DEF ExecuteReturns
<1>12. CASE SysReturn
  BY <1>1, <1>12, SysReturnStacks DEF SysReturn
<1>13. CASE ParentTss \/ FreePid \/ ParentPage
  BY <1>1, <1>13, HaltStacks DEF ParentTss, FreePid, ParentPage
<1>14. CASE CheckRoot
  BY <1>1, <1>14, CheckRootStacks DEF CheckRoot
<1>15. CASE ParentTerminal
  <2>1. cpu.pc = "halt_term" /\ frame' = frame /\ curr_process' = curr_process
    BY <1>15 DEF ParentTerminal, At
  <2>2. PICK T \in Stacks : /\ StacksInv(T)' /\ T[curr_process] # <<>>
                            /\ Grown(T, S, curr_process, cpu.pid)
    BY <1>15, ParentTerminalStacks
  <2>3. cpu.pid \in Pids
    BY <2>1, CpuFields DEF PidPoints, KernelPoints
  <2>4. \A t \in Terminals : S[t] # <<>>
    BY <2>1, NoneStops
  <2>6. Shrinks(S, T)
    BY <2>1, <2>2, <2>3 DEF Shrinks
  <2>7. ShellsLoaded(T)'
    BY <2>1, <2>4 DEF ShellsLoaded
  <2> QED
    BY <2>2, <2>6, <2>7 DEF Moves
<1>16. CASE JumpToParent
  BY <1>1, <1>16, JumpToParentStacks DEF JumpToParent
<1>17. CASE SysRead \/ (Command /\ AllStarted)
  <2>1. frame' = frame /\ curr_process' = curr_process
    BY <1>17 DEF Command, SysRead, SysExecute, SysHalt, SysEnter, Exception, blue_screen,
                 KernelEntry
  <2> QED
    BY <1>1, <1>17, <2>1, CommandStacks
<1>18. CASE ReadReturns
  BY <1>1, <1>18, ReturnStacks DEF ReadReturns
<1>19. CASE UNCHANGED machine
  <2>1. /\ UNCHANGED <<used_pids, pcb, terminals, curr_process, page, tss, frame>>
        /\ cpu' = cpu
    BY <1>19 DEF machine
  <2>2. StacksLinked(S)' /\ StacksDisjoint(S)' /\ StartedInOrder(S)'
    <3>1. \A p, q : ChildOf(p, q)' <=> ChildOf(p, q)
      BY <2>1 DEF ChildOf, ResumesIn
    <3>2. StacksLinked(S)'
      BY <2>1, <3>1 DEF StacksInv, StacksLinked
    <3>3. StacksDisjoint(S)' /\ StartedInOrder(S)'
      BY <2>1 DEF StacksInv, StacksDisjoint, StartedInOrder
    <3> QED
      BY <3>2, <3>3
  <2>3. OthersAtRest(S)' /\ PidsMarked(S)'
    BY <2>1 DEF StacksInv, OthersAtRest, AtRest, PidsMarked, Unmarked, InUse
  <2>4. Runs(S)'
    BY <2>1 DEF StacksInv, Runs, RunsAtRest, AtRest, Executes, Loading, ChildOf, ResumesIn,
                Respawns, Halts, Leaves, InUse
  <2>5. StacksInv(S)'
    BY <2>2, <2>3, <2>4 DEF StacksInv
  <2> QED
    BY <1>1, <2>1, <2>5
<1> QED
  BY <1>2, <1>3, <1>4, <1>5, <1>6, <1>7, <1>8, <1>9, <1>10, <1>11, <1>12, <1>13, <1>14,
     <1>15, <1>16, <1>17, <1>18, <1>19 DEF SafeStep, Tick, KernelStep

\* The invariant of the stacks holds in every state, wherever the timer interrupts, until
\* a tick falls into a window of sys_execute or sys_halt.
THEOREM StacksAlways == Spec => [](TypeOK /\ (~torn => StacksFollow))
<1>1. Init => (~torn => StacksFollow)
  BY InitStacks
<1>2. TypeOK /\ (~torn => StacksFollow) /\ [Next]_vars => (~torn => StacksFollow)'
  <2> SUFFICES ASSUME TypeOK, ~torn => StacksFollow, [Next]_vars, ~torn'
               PROVE  StacksFollow'
    BY Zenon
  <2>0. MachineOK /\ SafeStep /\ StacksFollow
    BY TornStays, Zenon DEF TypeOK
  <2>2. PICK S \in Stacks : StacksInv(S) /\ ShellsLoaded(S) /\ Commanded
    BY <2>0 DEF StacksFollow
  <2>1. Commanded'
    BY <2>0, <2>2, CommandedStep
  <2>3. PICK T \in Stacks : StacksInv(T)' /\ ShellsLoaded(T)'
    BY <2>0, <2>2, MovesStep
  <2> QED
    BY <2>1, <2>3 DEF StacksFollow
<1>3. Spec => []TypeOK
  BY Typing
<1> QED
  BY <1>1, <1>2, <1>3, PTL DEF Spec

\* Wherever the timer interrupts sys_execute and sys_halt, and whatever the processes
\* execute and halt: as long as no tick has fallen into one of the windows, a process in
\* user mode has its own frame mapped at 128MB, its image in it, and tss.esp0 at the top of
\* its own kernel stack.
THEOREM AddressSpaces == Spec => []OwnAddressSpace
<1>1. TypeOK /\ (~torn => StacksFollow) => OwnAddressSpace
  <2> SUFFICES ASSUME TypeOK, ~torn => StacksFollow, ~torn, cpu.pc = "user"
               PROVE  page = Current /\ tss = Current /\ frame[page] = cpu.prog
    BY Zenon DEF OwnAddressSpace
  <2>1. MachineOK /\ StacksFollow
    BY Zenon DEF TypeOK
  <2> QED
    BY <2>1, Rests DEF StacksFollow, AtRest, SafePoints
<1> QED
  BY <1>1, StacksAlways, PTL

\* sys_halt and the scheduler only ever resume a stack pointer that sys_execute or the
\* scheduler saved, as long as no tick has fallen into one of the windows.
THEOREM ContextsSaved == Spec => []NeverLost
<1>1. TypeOK /\ (~torn => StacksFollow) => NeverLost
  <2> SUFFICES ASSUME TypeOK, ~torn => StacksFollow, ~torn, cpu.pc = "lost" PROVE FALSE
    BY Zenon DEF NeverLost
  <2>0. MachineOK /\ StacksFollow
    BY Zenon DEF TypeOK
  <2>1. PICK S \in Stacks : StacksInv(S)
    BY <2>0 DEF StacksFollow
  <2>2. S[curr_process] # <<>>
    BY <2>0, <2>1, RunningStack
  <2> QED
    BY <2>1, <2>2 DEF StacksInv, Runs, RunsAtRest, AtRest, SafePoints, Executes, Loading,
                      LoadPoints, Respawns, Halts, Leaves
<1> QED
  BY <1>1, StacksAlways, PTL

\* No pid is given to two processes, none leaks, and the base shell of terminal t has
\* pid t through every halt and restart, as long as no tick has fallen into a window.
THEOREM PidsNeverShared == Spec => []PidsPartitioned
<1>1. TypeOK /\ (~torn => StacksFollow) => PidsPartitioned
  <2> SUFFICES ASSUME TypeOK, ~torn => StacksFollow, ~torn PROVE PidsPartitioned
    BY Zenon DEF PidsPartitioned
  <2>1. MachineOK /\ StacksFollow
    BY Zenon DEF TypeOK
  <2> QED
    BY <2>1, StacksPartition DEF StacksFollow
<1> QED
  BY <1>1, StacksAlways, PTL

-----------------------------------------------------------------------------
(***************************************************************************)
(* The refinement of Sessions.                                             *)
(***************************************************************************)

HIDE DEF Terminals, NUM_TERMINALS, NoPid, ERROR, HALT_STATUS_EXC, HALT_EXC

\* The sessions, as Sessions sees them, the images f of the stacks, and those in memory.
Visible == [t \in Terminals |-> [i \in DOMAIN Session(t) |-> frame[Session(t)[i]]]]

In(f, S) == [t \in Terminals |-> [i \in 1 .. Len(S[t]) |-> f[S[t][i]]]]

Images(S) == In(frame, S)

\* They are the same.
LEMMA VisibleStacks ==
    ASSUME NEW S \in Stacks
    PROVE  MachineOK /\ StacksInv(S) => Visible = Images(S)
<1> SUFFICES ASSUME MachineOK, StacksInv(S) PROVE Visible = Images(S)
  OBVIOUS
<1>1. ASSUME NEW t \in Terminals PROVE Session(t) = S[t] /\ DOMAIN S[t] = 1 .. Len(S[t])
  BY StacksAreSessions DEF StacksInv, Stacks
<1> QED
  BY <1>1 DEF Visible, Images, In

\* Also after a step.
LEMMA VisibleNext ==
    ASSUME NEW S \in Stacks
    PROVE  (MachineOK /\ StacksInv(S) => Visible = Images(S))'
<1>1. MachineOK /\ StacksInv(S) => Visible = Images(S)
  BY VisibleStacks
<1> QED
  BY <1>1, PTL

\* A pid on a stack is one of the table.
LEMMA OnStack ==
    ASSUME NEW S \in Stacks, NEW t \in Terminals
    PROVE  /\ Len(S[t]) \in Nat /\ S[t] \in Seq(Pids)
           /\ \A i \in 1 .. Len(S[t]) : S[t][i] \in Pids /\ InUse(S, S[t][i])
<1>1. S[t] \in Seq(Pids)
  BY DEF Stacks
<1>2. Len(S[t]) \in Nat /\ \A i \in 1 .. Len(S[t]) : S[t][i] \in Pids
  BY <1>1
<1> QED
  BY <1>1, <1>2 DEF InUse

\* The images do not change.
LEMMA SameSessions ==
    ASSUME NEW S \in Stacks, SameImages(S)
    PROVE  Images(S)' = Images(S)
<1>1. ASSUME NEW t \in Terminals, NEW i \in 1 .. Len(S[t]) PROVE frame'[S[t][i]] = frame[S[t][i]]
  BY OnStack DEF SameImages
<1> QED
  BY <1>1 DEF Images, In

\* A sequence and the one that is longer by one.
LEMMA OneLonger ==
    ASSUME NEW V, NEW l \in Nat, NEW a \in [1 .. l -> V], NEW b \in [1 .. l + 1 -> V],
           \A i \in 1 .. l : b[i] = a[i]
    PROVE  /\ b = Append(a, b[l + 1]) /\ a = SubSeq(b, 1, Len(b) - 1)
           /\ Len(b) = l + 1
<1>1. a \in Seq(V) /\ b \in Seq(V) /\ Len(a) = l /\ Len(b) = l + 1
  OBVIOUS
<1> QED
  BY <1>1

\* The image of a process that is put on a stack.
LEMMA GrownImages ==
    ASSUME NEW S \in Stacks, NEW T \in Stacks, NEW c \in Terminals, NEW n \in Pids,
           Grown(S, T, c, n), NEW f \in [Pids -> Programs \cup {NoProgram}]
    PROVE  /\ In(f, T) = [In(f, S) EXCEPT ![c] = Append(In(f, S)[c], f[n])]
           /\ In(f, S) = [In(f, T) EXCEPT ![c] = SubSeq(In(f, T)[c], 1, Len(In(f, T)[c]) - 1)]
           /\ Len(In(f, T)[c]) = Len(S[c]) + 1
<1>0. PICK A, B, V : A = In(f, S) /\ B = In(f, T) /\ V = Programs \cup {NoProgram}
  OBVIOUS
<1>1. PICK l \in Nat : l = Len(S[c]) /\ Len(T[c]) = l + 1
  BY OnStack DEF Grown
<1>2. PICK a, b : a = A[c] /\ b = B[c]
  OBVIOUS
<1>3. a = [i \in 1 .. l |-> f[S[c][i]]] /\ b = [i \in 1 .. l + 1 |-> f[T[c][i]]]
  BY <1>0, <1>1, <1>2 DEF In
<1>4. /\ \A i \in 1 .. l : S[c][i] \in Pids
      /\ \A i \in 1 .. l + 1 : T[c][i] \in Pids
  BY <1>1, OnStack
<1>5. a \in [1 .. l -> V] /\ b \in [1 .. l + 1 -> V]
  BY <1>0, <1>3, <1>4
<1>6. b[l + 1] = f[n] /\ \A i \in 1 .. l : b[i] = a[i]
  <2>1. T[c][l + 1] = n /\ \A i \in 1 .. l : T[c][i] = S[c][i]
    BY <1>1 DEF Grown
  <2>2. l + 1 \in 1 .. l + 1 /\ \A i \in 1 .. l : i \in 1 .. l + 1
    OBVIOUS
  <2> QED
    BY <1>3, <2>1, <2>2
<1>7. b = Append(a, b[l + 1]) /\ a = SubSeq(b, 1, Len(b) - 1) /\ Len(b) = l + 1
  BY <1>5, <1>6, OneLonger
<1>8. ASSUME NEW t \in Terminals, t # c PROVE A[t] = B[t]
  BY <1>0, <1>8 DEF Grown, In
<1>9. B = [A EXCEPT ![c] = b] /\ A = [B EXCEPT ![c] = a]
  BY <1>0, <1>2, <1>8 DEF In
<1> QED
  BY <1>0, <1>1, <1>2, <1>6, <1>7, <1>9

\* There is room for a process that has a free pid.
LEMMA Room ==
    ASSUME NEW S \in Stacks, StacksDisjoint(S), NEW n \in Pids, ~InUse(S, n)
    PROVE  Len(S[0]) + Len(S[1]) + Len(S[2]) < MAX_PROCESSES
<1>0. 0 \in Terminals /\ 1 \in Terminals /\ 2 \in Terminals
  BY DEF Terminals, NUM_TERMINALS
<1>1. PICK a \in Nat, b \in Nat, c \in Nat, m \in Nat :
        a = Len(S[0]) /\ b = Len(S[1]) /\ c = Len(S[2]) /\ m = MAX_PROCESSES
  BY <1>0, OnStack, ProcessesAssumption
<1>2. PICK f : f = [i \in 0 .. a + b + c |->
                      IF i = 0 THEN n ELSE
                      IF i <= a THEN S[0][i] ELSE
                      IF i <= a + b THEN S[1][i - a] ELSE S[2][i - a - b]]
  OBVIOUS
<1>9. PICK o \in [0 .. 2 -> Nat] : o[0] = 0 /\ o[1] = a /\ o[2] = a + b
  <2>1. PICK o : o = [t \in 0 .. 2 |-> IF t = 0 THEN 0 ELSE IF t = 1 THEN a ELSE a + b]
    OBVIOUS
  <2>2. a + b \in Nat /\ 0 \in 0 .. 2 /\ 1 \in 0 .. 2 /\ 2 \in 0 .. 2
    OBVIOUS
  <2> QED
    BY <2>1, <2>2
<1>3. ASSUME NEW i \in 0 .. a + b + c
      PROVE  \/ i = 0 /\ f[i] = n
             \/ \E t \in Terminals : \E j \in 1 .. Len(S[t]) : f[i] = S[t][j] /\ i = j + o[t]
  <2>1. CASE i = 0
    BY <1>2, <2>1
  <2>2. CASE i \in 1 .. a
    <3>1. f[i] = S[0][i]
      BY <1>2, <2>2
    <3>2. i \in 1 .. Len(S[0]) /\ i = i + o[0]
      BY <1>1, <1>9, <2>2
    <3> QED
      BY <1>0, <3>1, <3>2
  <2>3. CASE i \in a + 1 .. a + b
    <3>1. PICK j \in 1 .. b : j = i - a /\ i = j + a
      BY <2>3
    <3>2. f[i] = S[1][j]
      BY <1>2, <2>3, <3>1
    <3>3. j \in 1 .. Len(S[1]) /\ i = j + o[1]
      BY <1>1, <1>9, <3>1
    <3> QED
      BY <1>0, <3>2, <3>3
  <2>4. CASE i \in a + b + 1 .. a + b + c
    <3>1. PICK j \in 1 .. c : j = i - a - b /\ i = j + (a + b)
      BY <2>4
    <3>2. f[i] = S[2][j]
      BY <1>2, <2>4, <3>1
    <3>3. j \in 1 .. Len(S[2]) /\ i = j + o[2]
      BY <1>1, <1>9, <3>1
    <3> QED
      BY <1>0, <3>2, <3>3
  <2> QED
    BY <2>1, <2>2, <2>3, <2>4
<1>4. ASSUME NEW i \in 0 .. a + b + c PROVE f[i] \in Pids
  BY <1>3, OnStack
<1>5. f \in [0 .. a + b + c -> Pids]
  BY <1>2, <1>4
<1>6. ASSUME NEW i \in 0 .. a + b + c, NEW k \in 0 .. a + b + c, f[i] = f[k] PROVE i = k
  <2>0. ASSUME NEW x \in 0 .. a + b + c, f[x] = n PROVE x = 0
    <3>1. ~ \E t \in Terminals : \E j \in 1 .. Len(S[t]) : n = S[t][j]
      BY DEF InUse
    <3>2. x = 0 \/ \E t \in Terminals : \E j \in 1 .. Len(S[t]) : f[x] = S[t][j]
      BY <1>3
    <3> QED
      BY <2>0, <3>1, <3>2, Zenon
  <2>1. CASE i = 0
    BY <1>2, <1>6, <2>0, <2>1
  <2>2. CASE k = 0
    BY <1>2, <1>6, <2>0, <2>2
  <2>3. CASE i # 0 /\ k # 0
    <3>1. PICK t \in Terminals :
            \E j \in 1 .. Len(S[t]) : f[i] = S[t][j] /\ i = j + o[t]
      BY <1>3, <2>3
    <3>2. PICK x \in 1 .. Len(S[t]) : f[i] = S[t][x] /\ i = x + o[t]
      BY <3>1
    <3>3. PICK u \in Terminals :
            \E j \in 1 .. Len(S[u]) : f[k] = S[u][j] /\ k = j + o[u]
      BY <1>3, <2>3
    <3>4. PICK y \in 1 .. Len(S[u]) : f[k] = S[u][y] /\ k = y + o[u]
      BY <3>3
    <3>5. t = u /\ x = y
      <4>1. S[t][x] = S[u][y]
        BY <1>6, <3>2, <3>4
      <4> QED
        BY <4>1, SMTT(30) DEF StacksDisjoint
    <3> QED
      BY <3>2, <3>4, <3>5
  <2> QED
    BY <2>1, <2>2, <2>3
<1>7. /\ IsFiniteSet(0 .. a + b + c) /\ Cardinality(0 .. a + b + c) = a + b + c + 1
      /\ IsFiniteSet(Pids) /\ Cardinality(Pids) = m
  <2>1. PICK d \in Int : d = a + b + c /\ d >= 0
    OBVIOUS
  <2>2. IsFiniteSet(0 .. d) /\ Cardinality(0 .. d) = IF 0 > d THEN 0 ELSE d - 0 + 1
    <3>1. 0 \in Int
      OBVIOUS
    <3> QED
      BY <3>1, FS_Interval, Zenon
  <2>3. m - 1 \in Int /\ m >= 3
    BY <1>1, ProcessesAssumption DEF NUM_TERMINALS
  <2>4. /\ IsFiniteSet(0 .. m - 1)
        /\ Cardinality(0 .. m - 1) = IF 0 > m - 1 THEN 0 ELSE m - 1 - 0 + 1
    <3>1. 0 \in Int
      OBVIOUS
    <3> QED
      BY <2>3, <3>1, FS_Interval, Zenon
  <2>5. /\ (IF 0 > d THEN 0 ELSE d - 0 + 1) = a + b + c + 1
        /\ (IF 0 > m - 1 THEN 0 ELSE m - 1 - 0 + 1) = m
    BY <2>1, <2>3
  <2> QED
    BY <1>1, <2>1, <2>2, <2>4, <2>5 DEF Pids
<1>8. ~ (m < a + b + c + 1)
  BY <1>5, <1>6, <1>7, FS_PigeonHole
<1>10. a + b + c < m
  BY <1>8
<1> QED
  BY <1>1, <1>10

\* What Count adds up.
LEMMA CountOf ==
    ASSUME NEW a \in Nat, NEW b \in Nat, NEW c \in Nat,
           Len(Visible[0]) = a, Len(Visible[1]) = b, Len(Visible[2]) = c
    PROVE  Abstract!Count = a + b + c
<1> DEFINE Is(f) == f = [n \in 0 .. 3 |-> IF n = 0 THEN 0 ELSE f[n - 1] + Len(Visible[n - 1])]
           h == CHOOSE f : Is(f)
<1>1. Abstract!Count = h[3]
  BY DEF Abstract!Count, Visible, NUM_TERMINALS
<1>2. PICK g : g = [n \in 0 .. 3 |-> IF n = 0 THEN 0 ELSE IF n = 1 THEN a
                                     ELSE IF n = 2 THEN a + b ELSE a + b + c]
  OBVIOUS
<1>3. Is(g)
  <2>1. ASSUME NEW n \in 0 .. 3
        PROVE  g[n] = IF n = 0 THEN 0 ELSE g[n - 1] + Len(Visible[n - 1])
    <3>1. n = 0 \/ n = 1 \/ n = 2 \/ n = 3
      OBVIOUS
    <3> QED
      BY <1>2, <3>1
  <2> QED
    BY <1>2, <2>1
<1>4. Is(h)
  BY <1>3
<1> HIDE DEF h
<1>5. h[0] = 0 /\ h[1] = h[0] + a /\ h[2] = h[1] + b /\ h[3] = h[2] + c
  BY <1>4
<1> QED
  BY <1>1, <1>5

\* Every step is one of Sessions, or leaves the sessions alone.
LEMMA SessionsStep ==
    ASSUME MachineOK, NEW S \in Stacks, StacksInv(S), MachineOK', NEW T \in Stacks, StacksInv(T)',
           Moves(S, T)
    PROVE  [Abstract!Next]_<<Visible, curr_process>>
<1>1. Visible = Images(S) /\ Visible' = Images(T)'
  BY VisibleStacks, VisibleNext
<1>2. curr_process \in Terminals /\ NextProcess \in Terminals
  BY DEF MachineOK, NextProcess, Terminals, NUM_TERMINALS
<1>3. Images(S) = [t \in Terminals |-> [i \in 1 .. Len(S[t]) |-> frame[S[t][i]]]]
  BY DEF Images, In
<1>4. frame' = frame =>
        Images(T)' = In(frame, T)
  BY DEF Images, In
<1>0. frame \in [Pids -> Programs \cup {NoProgram}]
  BY DEF MachineOK
<1>5. ASSUME NEW t \in Terminals PROVE Len(Visible[t]) = Len(S[t]) /\ Len(S[t]) \in Nat
  BY <1>1, <1>3, OnStack
<1>6. ASSUME NEW t \in Terminals PROVE Visible[t] = <<>> <=> S[t] = <<>>
  BY <1>1, <1>3, OnStack
<1>7. CASE Rest(S, T)
  BY <1>1, <1>7, SameSessions DEF Rest
<1>8. CASE Turns(S, T)
  <2>1. SameImages(S)
    BY <1>8 DEF Turns, SameImages
  <2>2. Visible' = Visible
    BY <1>1, <1>8, <2>1, SameSessions DEF Turns
  <2>3. curr_process' = (curr_process + 1) % NUM_TERMINALS /\ Visible[curr_process'] # <<>>
    BY <1>2, <1>6, <1>8 DEF Turns, NextProcess
  <2>4. Abstract!Switch
    BY <2>2, <2>3 DEF Abstract!Switch, Visible
  <2> QED
    BY <2>4 DEF Abstract!Next
<1>9. CASE Grows(S, T)
  <2>1. PICK c, n : c = curr_process /\ n = cpu.pid
    OBVIOUS
  <2>2. /\ Grown(S, T, c, n) /\ n \in Pids /\ ~InUse(S, n) /\ frame[n] \in Programs
        /\ S[c] # <<>> /\ frame' = frame /\ curr_process' = curr_process /\ c \in Terminals
    BY <1>2, <1>9, <2>1 DEF Grows
  <2>3. Visible' = [Visible EXCEPT ![c] = Append(Visible[c], frame[n])]
    <3>1. Visible = In(frame, S) /\ Visible' = In(frame, T)
      BY <1>1, <1>4, <2>2 DEF Images
    <3>2. In(frame, T) = [In(frame, S) EXCEPT ![c] = Append(In(frame, S)[c], frame[n])]
      BY <1>0, <2>2, GrownImages
    <3> QED
      BY <3>1, <3>2
  <2>4. Abstract!Count < MAX_PROCESSES
    <3>1. 0 \in Terminals /\ 1 \in Terminals /\ 2 \in Terminals
      BY DEF Terminals, NUM_TERMINALS
    <3>2. Len(S[0]) + Len(S[1]) + Len(S[2]) < MAX_PROCESSES
      BY <2>2, Room DEF StacksInv
    <3>3. Abstract!Count = Len(S[0]) + Len(S[1]) + Len(S[2])
      BY <1>5, <3>1, CountOf
    <3> QED
      BY <3>2, <3>3
  <2>5. Visible[c] # <<>>
    BY <1>6, <2>2
  <2>6. PICK p \in Programs : p = frame[n]
    BY <2>2
  <2>7. Abstract!Execute(p)
    BY <2>1, <2>2, <2>3, <2>4, <2>5, <2>6 DEF Abstract!Execute, Visible
  <2> QED
    BY <2>7 DEF Abstract!Next
<1>10. CASE Shrinks(S, T)
  <2>1. PICK c, n : c = curr_process /\ n \in Pids /\ Grown(T, S, c, n)
    BY <1>10 DEF Shrinks
  <2>2. T[c] # <<>> /\ frame' = frame /\ curr_process' = curr_process /\ c \in Terminals
    BY <1>2, <1>10, <2>1 DEF Shrinks
  <2>3. /\ Visible' = [Visible EXCEPT ![c] = SubSeq(Visible[c], 1, Len(Visible[c]) - 1)]
        /\ Len(Visible[c]) = Len(T[c]) + 1
    <3>1. Visible = In(frame, S) /\ Visible' = In(frame, T)
      BY <1>1, <1>4, <2>2 DEF Images
    <3>2. /\ In(frame, T) =
               [In(frame, S) EXCEPT
                  ![c] = SubSeq(In(frame, S)[c], 1, Len(In(frame, S)[c]) - 1)]
          /\ Len(In(frame, S)[c]) = Len(T[c]) + 1
      BY <1>0, <2>1, <2>2, GrownImages
    <3> QED
      BY <3>1, <3>2
  <2>4. Len(T[c]) \in Nat \ {0}
    BY <2>2, OnStack
  <2>5. Len(Visible[c]) > 1
    BY <2>3, <2>4
  <2>6. Abstract!Halt
    BY <2>1, <2>2, <2>3, <2>5 DEF Abstract!Halt, Visible
  <2> QED
    BY <2>6 DEF Abstract!Next
<1>11. CASE Starts(S, T)
  <2>1. PICK k \in Terminals : k = NextProcess
    BY <1>2
  <2>2. /\ S[k] = <<>> /\ Grown(S, T, k, k) /\ curr_process' = k
        /\ frame' = [frame EXCEPT ![k] = Shell]
    BY <1>11, <2>1 DEF Starts
  <2>3. k \in Pids /\ frame'[k] = Shell /\ \A p \in Pids : p # k => frame'[p] = frame[p]
    BY <2>2, TerminalsArePids DEF MachineOK
  <2>4. ASSUME NEW t \in Terminals, t # k, NEW i \in 1 .. Len(S[t]) PROVE S[t][i] # k
    <3>1. i = 1 \/ i \in 2 .. Len(S[t])
      BY <1>5
    <3>2. S[t] # <<>>
      BY <2>4
    <3>3. CASE i = 1
      BY <2>4, <3>2, <3>3 DEF StacksInv, StacksLinked
    <3>4. CASE i \in 2 .. Len(S[t])
      <4>1. S[t][i] >= 3
        BY <3>4 DEF StacksInv, StacksLinked
      <4>2. k < 3 /\ k \in Nat
        BY DEF Terminals, NUM_TERMINALS
      <4>3. S[t][i] \in Nat
        BY <2>4, OnStack DEF Pids
      <4> QED
        BY <4>1, <4>2, <4>3
    <3> QED
      BY <3>1, <3>3, <3>4
  <2>5. ASSUME NEW t \in Terminals
        PROVE  Images(T)'[t] = IF t = k THEN <<Shell>> ELSE Images(S)[t]
    <3>1. Images(T)'[t] = [i \in 1 .. Len(T[t]) |-> frame'[T[t][i]]]
      BY DEF Images, In
    <3>2. CASE t = k
      <4>1. Len(T[k]) = 1 /\ T[k][1] = k
        BY <2>2 DEF Grown
      <4> QED
        BY <2>3, <3>1, <3>2, <4>1
    <3>3. CASE t # k
      <4>1. T[t] = S[t]
        BY <2>2, <3>3 DEF Grown
      <4>2. \A i \in 1 .. Len(S[t]) : frame'[S[t][i]] = frame[S[t][i]]
        BY <2>3, <2>4, <3>3, OnStack
      <4> QED
        BY <1>3, <3>1, <3>3, <4>1, <4>2
    <3> QED
      BY <3>2, <3>3
  <2>6. Visible' = [Visible EXCEPT ![k] = <<Shell>>]
    BY <1>1, <1>3, <2>5 DEF Images, In
  <2>7. curr_process' = (curr_process + 1) % NUM_TERMINALS /\ k = (curr_process + 1) % NUM_TERMINALS
    BY <2>1, <2>2 DEF NextProcess
  <2>8. Visible[k] = <<>>
    BY <1>6, <2>2
  <2>9. Abstract!Switch
    BY <2>6, <2>7, <2>8 DEF Abstract!Switch, Visible
  <2> QED
    BY <2>9 DEF Abstract!Next
<1> QED
  BY <1>7, <1>8, <1>9, <1>10, <1>11 DEF Moves

\* No terminal has a program at the start.
LEMMA SessionsInit == Init => Abstract!Init
<1> SUFFICES ASSUME Init PROVE Abstract!Init
  OBVIOUS
<1>1. ASSUME NEW t \in Terminals
      PROVE  [i \in DOMAIN Session(t) |-> frame[Session(t)[i]]] = <<>>
  BY DEF Init, InitTerminals, Session
<1> QED
  BY <1>1 DEF Abstract!Init, Abstract!Terminals, Terminals, Init, init_pit, NUM_TERMINALS

\* execute, halt and the scheduler together keep what Sessions promises: seen through
\* the images in memory, every step of the kernel is a switch, an execute or a halt of
\* the stacks of programs, or is not visible there, until a tick falls into a window.
THEOREM SessionsKept == Spec => ImplementsSessions
<1>1. Init => Abstract!Init
  BY SessionsInit
<1>2. TypeOK /\ (~torn => StacksFollow) /\ [Next]_vars /\ TypeOK'
        => torn' \/ [Abstract!Next]_<<Visible, curr_process>>
  <2> SUFFICES ASSUME TypeOK, ~torn => StacksFollow, [Next]_vars, TypeOK', ~torn'
               PROVE  [Abstract!Next]_<<Visible, curr_process>>
    BY Zenon
  <2>0. MachineOK /\ MachineOK' /\ SafeStep /\ StacksFollow
    BY TornStays, Zenon DEF TypeOK
  <2>1. PICK S \in Stacks : StacksInv(S) /\ ShellsLoaded(S) /\ Commanded
    BY <2>0 DEF StacksFollow
  <2>2. PICK T \in Stacks : StacksInv(T)' /\ Moves(S, T)
    BY <2>0, <2>1, MovesStep
  <2> QED
    BY <2>0, <2>1, <2>2, SessionsStep
<1>3. TypeOK /\ (~torn => StacksFollow) /\ [Next]_vars /\ TypeOK'
        => [torn' \/ Abstract!Next \/ UNCHANGED Abstract!vars]_vars
  BY <1>2, Zenon DEF Abstract!vars, Visible
<1>4. Spec => [](TypeOK /\ (~torn => StacksFollow))
  BY StacksAlways
<1> QED
  BY <1>1, <1>3, <1>4, PTL DEF Spec, ImplementsSessions
=============================================================================
