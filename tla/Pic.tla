-------------------------------- MODULE Pic --------------------------------
(***************************************************************************)
(* The two 8259 interrupt controllers, the three devices connected to them *)
(* and the handlers, which mask, unmask and end interrupts.  The handlers  *)
(* run with interrupts disabled; the devices may raise a request at any    *)
(* moment.  The base shells are started by the timer handler and run user  *)
(* mode with interrupts disabled, so that requests wait for their next     *)
(* system call.                                                            *)
(***************************************************************************)
EXTENDS Integers

CONSTANT NUM_TERMINALS

ASSUME PicAssumption == NUM_TERMINALS \in Nat \ {0, 1}

PIC_MAX_IRQ == 8   \* the number of lines of one controller
PT_IRQ_NUM == 0
KB_IRQ_NUM == 1
SLAVE_ON_MASTER == 2
RTC_IRQ_NUM == 8

Terminals == 0 .. NUM_TERMINALS - 1
Lines == 0 .. PIC_MAX_IRQ - 1
Chips == {"master", "slave"}
Devices == {PT_IRQ_NUM, KB_IRQ_NUM, RTC_IRQ_NUM}

VARIABLES
    irr, isr, imr,   \* by chip, the lines that are requested, in service and masked
    mask,            \* master_mask and slave_mask, as sets of lines
    line,            \* the devices whose request has not been answered yet
    pc,              \* where the processor is: "run" is outside the handlers
    iflag,           \* the interrupt flag outside the handlers
    curr_ter, curr_process, started

chips == <<irr, isr, imr, mask>>
terms == <<curr_ter, curr_process, started>>
vars == <<chips, line, pc, iflag, terms>>

Chip(irq) == IF irq < PIC_MAX_IRQ THEN "master" ELSE "slave"
LineOf(irq) == irq % PIC_MAX_IRQ

\* Everything masked but the line of the slave.
i8259_init ==
    /\ mask = [c \in Chips |-> IF c = "master" THEN Lines \ {SLAVE_ON_MASTER} ELSE Lines]
    /\ imr = mask

Init ==
    /\ i8259_init
    /\ irr = [c \in Chips |-> {}] /\ isr = [c \in Chips |-> {}]
    /\ line = {}
    /\ pc = "boot_rtc" /\ iflag = 0
    /\ curr_ter = 0 /\ curr_process = NUM_TERMINALS - 1 /\ started = {}

-----------------------------------------------------------------------------
(***************************************************************************)
(* The functions of i8259.c.  All calls pass the number of a device, for   *)
(* which the test against MAX_IRQ succeeds.                                *)
(***************************************************************************)
SetMask(c, lines) ==
    /\ mask' = [mask EXCEPT ![c] = lines]
    /\ imr' = [imr EXCEPT ![c] = lines]

enable_irq(irq) == SetMask(Chip(irq), mask[Chip(irq)] \ {LineOf(irq)})

disable_irq(irq) == SetMask(Chip(irq), mask[Chip(irq)] \cup {LineOf(irq)})

\* Mutant: the master is not told of the end of an interrupt of the slave.
send_eoi_OneChip(irq) ==
    isr' = [isr EXCEPT ![Chip(irq)] = @ \ {LineOf(irq)}]

send_eoi(irq) ==
    isr' = IF Chip(irq) = "master"
           THEN [isr EXCEPT !["master"] = @ \ {irq}]
           ELSE [isr EXCEPT !["slave"] = @ \ {LineOf(irq)},
                            !["master"] = @ \ {SLAVE_ON_MASTER}]

-----------------------------------------------------------------------------
(***************************************************************************)
(* The hardware: a line passes if nothing of the same or a higher priority *)
(* is in service, and the slave asks on a line of the master.              *)
(***************************************************************************)
Passing(c, requests) == {n \in requests \ imr[c] : \A s \in isr[c] : n < s}

SlaveRequests == Passing("slave", irr["slave"])

MasterRequests ==
    Passing("master",
            irr["master"] \cup (IF SlaveRequests = {} THEN {} ELSE {SLAVE_ON_MASTER}))

First(lines) == CHOOSE n \in lines : \A k \in lines : n <= k

\* The interrupt that the controllers have the processor take.
Vector ==
    IF First(MasterRequests) = SLAVE_ON_MASTER
    THEN PIC_MAX_IRQ + First(SlaveRequests)
    ELSE First(MasterRequests)

TimerSteps == {"PT_handler", "PT_select", "PT_start", "PT_switch", "PT_eoi"}

\* Requests are edges: a device raises none until the last one has been answered.  The
\* keyboard and the clock are answered by a read of their port, the timer by itself.
\* The period of the timer is longer than its handler.
Raise(d) ==
    /\ d \notin line
    /\ d = PT_IRQ_NUM => pc \notin TimerSteps
    /\ irr' = [irr EXCEPT ![Chip(d)] = @ \cup {LineOf(d)}]
    /\ line' = IF d = PT_IRQ_NUM THEN line ELSE line \cup {d}
    /\ UNCHANGED <<isr, imr, mask, pc, iflag, terms>>

HandlerOf(irq) ==
    CASE irq = PT_IRQ_NUM -> "PT_handler"
      [] irq = KB_IRQ_NUM -> "KB_handler"
      [] irq = RTC_IRQ_NUM -> "RT_handler"

\* The processor takes an interrupt, and jumps through its gate of the IDT.
Take(irq) ==
    /\ pc = "run" /\ iflag = 1
    /\ MasterRequests # {} /\ Vector = irq
    /\ isr' = [c \in Chips |->
                 isr[c] \cup (IF c = Chip(irq) THEN {LineOf(irq)}
                              ELSE IF c = "master" THEN {SLAVE_ON_MASTER} ELSE {})]
    /\ irr' = [irr EXCEPT ![Chip(irq)] = @ \ {LineOf(irq)}]
    /\ pc' = HandlerOf(irq)
    /\ UNCHANGED <<imr, mask, line, iflag, terms>>

-----------------------------------------------------------------------------
Step(at, to) == pc = at /\ pc' = to

\* kernel.c enables the three devices, then interrupts.
entry ==
    \/ /\ Step("boot_rtc", "boot_kb") /\ enable_irq(RTC_IRQ_NUM) /\ UNCHANGED iflag
    \/ /\ Step("boot_kb", "boot_pt") /\ enable_irq(KB_IRQ_NUM) /\ UNCHANGED iflag
    \/ /\ Step("boot_pt", "boot_sti") /\ enable_irq(PT_IRQ_NUM) /\ UNCHANGED iflag
    \/ /\ Step("boot_sti", "run") /\ iflag' = 1 /\ UNCHANGED <<imr, mask>>

Boot == entry /\ UNCHANGED <<irr, isr, line, terms>>

\* SYS_handler_wrapper enables interrupts, and the return restores the flag of the
\* program: clear in base shells, set in the programs that they execute.
SYS_handler_wrapper ==
    /\ pc = "run" /\ started # {}
    /\ \/ iflag = 0 /\ iflag' = 1
       \/ iflag = 1 /\ iflag' = 0
    /\ UNCHANGED <<chips, line, pc, terms>>

\* Mutant: no wrap-around after the last terminal.
next_process_NoWrap == curr_process + 1

next_process == (curr_process + 1) % NUM_TERMINALS

PT_handler ==
    /\ Step("PT_handler", "PT_select")
    /\ disable_irq(KB_IRQ_NUM)
    /\ UNCHANGED <<irr, isr, line, iflag, terms>>

\* Mutant: the keyboard is never enabled again.
PT_select_Off ==
    /\ Step("PT_select", IF next_process \in started THEN "PT_switch" ELSE "PT_start")
    /\ UNCHANGED <<chips, line, iflag, terms>>

\* The keyboard is enabled while its terminal runs.
PT_select ==
    /\ Step("PT_select", IF next_process \in started THEN "PT_switch" ELSE "PT_start")
    /\ IF next_process = curr_ter THEN enable_irq(KB_IRQ_NUM) ELSE UNCHANGED <<imr, mask>>
    /\ UNCHANGED <<irr, isr, line, iflag, terms>>

\* Mutant: the end of the interrupt is left to PT_handler, which a new shell never
\* returns to.
PT_start_NoEoi ==
    /\ Step("PT_start", "run")
    /\ curr_process' = next_process /\ started' = started \cup {next_process}
    /\ iflag' = 0
    /\ UNCHANGED <<chips, line, curr_ter>>

\* A terminal without a program: the interrupt ends before sys_execute, which leaves for
\* user mode with interrupts disabled and does not come back.
PT_start ==
    /\ Step("PT_start", "run")
    /\ send_eoi(PT_IRQ_NUM)
    /\ curr_process' = next_process /\ started' = started \cup {next_process}
    /\ iflag' = 0
    /\ UNCHANGED <<irr, imr, mask, line, curr_ter>>

\* The stack of the next terminal leads into its own call of PT_handler, the one in
\* which it was interrupted.
PT_switch ==
    /\ Step("PT_switch", "PT_eoi")
    /\ curr_process' = next_process
    /\ UNCHANGED <<chips, line, iflag, curr_ter, started>>

\* The end of a handler, and the return to where interrupts were enabled.
End(at, irq) ==
    /\ Step(at, "run")
    /\ send_eoi(irq)
    /\ iflag' = 1
    /\ UNCHANGED <<irr, imr, mask, line, terms>>

\* A scancode is read: an ordinary key, or Alt-Fn.
KB_handler ==
    /\ pc = "KB_handler"
    /\ line' = line \ {KB_IRQ_NUM}
    /\ \/ pc' = "KB_eoi" /\ UNCHANGED curr_ter
       \/ /\ pc' = "KB_wait"
          /\ \E new \in Terminals \ {curr_ter} : curr_ter' = new
    /\ UNCHANGED <<chips, iflag, curr_process, started>>

\* Mutant: no wait.
wait_slightly_Not ==
    /\ Step("KB_wait", "KB_eoi")
    /\ UNCHANGED <<chips, line, iflag, terms>>

\* switch_ter waits for longer than the period of the timer.
wait_slightly ==
    /\ PT_IRQ_NUM \in irr["master"]
    /\ Step("KB_wait", "KB_eoi")
    /\ UNCHANGED <<chips, line, iflag, terms>>

RT_handler ==
    /\ Step("RT_handler", "RT_eoi")
    /\ line' = line \ {RTC_IRQ_NUM}
    /\ UNCHANGED <<chips, iflag, terms>>

Handlers ==
    \/ PT_handler \/ PT_select \/ PT_start \/ PT_switch \/ End("PT_eoi", PT_IRQ_NUM)
    \/ KB_handler \/ wait_slightly \/ End("KB_eoi", KB_IRQ_NUM)
    \/ RT_handler \/ End("RT_eoi", RTC_IRQ_NUM)

Next ==
    \/ Boot
    \/ SYS_handler_wrapper
    \/ Handlers
    \/ \E d \in Devices : Raise(d) \/ Take(d)

Spec == Init /\ [][Next]_vars

\* The processor goes on, programs make system calls, the timer and the clock tick.  A
\* request that comes through is taken at the next instruction, long before the next
\* tick: it is not passed by forever.
FairSpec ==
    /\ Spec
    /\ WF_vars(Boot) /\ WF_vars(Handlers)
    /\ WF_vars(SYS_handler_wrapper /\ iflag = 0)
    /\ WF_vars(Raise(PT_IRQ_NUM)) /\ WF_vars(Raise(RTC_IRQ_NUM))
    /\ \A d \in Devices : SF_vars(Take(d))

-----------------------------------------------------------------------------
\* The types of the variables.
TypeOK ==
    /\ irr \in [Chips -> SUBSET Lines] /\ isr \in [Chips -> SUBSET Lines]
    /\ imr \in [Chips -> SUBSET Lines] /\ mask \in [Chips -> SUBSET Lines]
    /\ line \subseteq Devices \ {PT_IRQ_NUM}
    /\ pc \in {"boot_rtc", "boot_kb", "boot_pt", "boot_sti", "run", "KB_handler", "KB_wait",
               "KB_eoi", "RT_handler", "RT_eoi"} \cup TimerSteps
    /\ iflag \in {0, 1}
    /\ curr_ter \in Terminals /\ curr_process \in Terminals /\ started \subseteq Terminals

\* Every interrupt is ended exactly once, on both controllers if it came through the
\* slave: nothing is in service outside the handlers, although the timer handler may
\* return on another stack, or not at all; and a handler ends only what is in service.
EndedOnce ==
    LET served == CASE pc \in TimerSteps -> {PT_IRQ_NUM}
                    [] pc \in {"KB_handler", "KB_wait", "KB_eoi"} -> {KB_IRQ_NUM}
                    [] pc \in {"RT_handler", "RT_eoi"} -> {SLAVE_ON_MASTER}
                    [] OTHER -> {}
    IN  /\ isr["master"] = served
        /\ isr["slave"] = IF served = {SLAVE_ON_MASTER} THEN {LineOf(RTC_IRQ_NUM)} ELSE {}

\* Once the first shell runs, the keyboard handler is entered only while the terminal
\* that is shown is the one that runs, also directly after Alt-Fn: the keys of a user
\* never go to the screen of a terminal that he does not see.
KeyMeetsItsTerminal == pc = "KB_handler" /\ started # {} => curr_process = curr_ter

\* The clock is served again and again, although it has the lowest priority and its
\* requests pass two controllers, however many keys are pressed; only Alt-Fn pressed
\* in every period of the timer can keep it away.
ClockServed == (\E t \in Terminals : <>[](curr_ter = t)) => []<>(pc = "RT_handler")

\* A key that was pressed while another terminal ran waits behind the mask and is
\* handled, once the scheduler comes round.
KeyServed == KB_IRQ_NUM \in irr["master"] ~> pc = "KB_handler"
=============================================================================
