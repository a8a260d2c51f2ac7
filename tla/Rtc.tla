-------------------------------- MODULE Rtc --------------------------------
(***************************************************************************)
(* The virtualized real-time clock: one chip, set to a frequency that is   *)
(* high enough for every program; every program counts divisor interrupts  *)
(* of it for one of its own.  The system calls run with interrupts         *)
(* enabled: they are modelled one access to shared state at a time, and    *)
(* the timer and the clock may interrupt them between any two.             *)
(* Process t is the program that runs on terminal t.                       *)
(***************************************************************************)
EXTENDS Integers

CONSTANTS
    NUM_TERMINALS,
    Requests,      \* the frequencies that programs pass to rtc_write
    Word           \* the number of values of a uint32_t

RTC_START_FREQ == 2
RTC_MIN_FREQ == 2
RTC_MAX_FREQ == 1024

Points == {"user", "open", "read_reset", "read_wait", "read_return",
           "write_test", "write_raise", "write_all", "write_own", "write_set",
           "close_max", "close_assign", "close_set", "close_all",
           "reg_read", "reg_write", "dead"}

\* Between selecting a register and using it.
SelectWindow == {"reg_read", "reg_write"}

\* Where shared state is half updated, or a local copy of it is about to be used.
UpdateWindow == SelectWindow \cup
    {"write_raise", "write_all", "close_max", "close_assign", "close_set", "close_all"}

ASSUME RtcAssumption ==
    /\ NUM_TERMINALS \in Nat \ {0}
    /\ Requests \subseteq Nat
    /\ Word \in Nat /\ Word > RTC_MAX_FREQ

Terminals == 0 .. NUM_TERMINALS - 1

VARIABLES
    higher_freq,           \* the highest frequency asked for
    rtc_interrupt_flags,
    pcb,                   \* the fields of the process blocks that belong to the RTC
    used_pids,
    curr_process,
    chip,                  \* the chip: the selected register, and register A
    proc,                  \* the programs and their system calls
    pace,                  \* history: how long each read still has to wait
    torn                   \* history: an interrupt came in a window

machine == <<higher_freq, rtc_interrupt_flags, pcb, used_pids, curr_process, chip, proc>>

vars == <<higher_freq, rtc_interrupt_flags, pcb, used_pids, curr_process, chip, proc,
          pace, torn>>

ZeroPcb == [prog_freq |-> 0, count |-> 0, divisor |-> 0]

(***************************************************************************)
(* The locals of the system calls: freq (rtc_write, rtc_set_frequency), i  *)
(* and max_requested_freq of the loops, prevA, and where rtc_set_frequency *)
(* returns to.                                                             *)
(***************************************************************************)
NewProgram ==
    [pc |-> "user", open |-> 0, freq |-> 0, i |-> 0, max |-> 0, prevA |-> 0,
     ret |-> "user"]

\* No read: nothing to wait for.
NoPace == [left |-> 0, hurried |-> FALSE]

\* The rate for a frequency, as a loop over its bits finds it.
rate(freq) ==
    LET i == CHOOSE i \in 2 .. 11 : freq < 2^i /\ \A j \in 2 .. i - 1 : freq >= 2^j
    IN  15 - i + 2

\* The frequency at which the chip interrupts for a rate.
ChipFreq(r) == 2^(16 - r)

\* After init_rtc.  The upper half of register A is 2 as the firmware leaves it.
Init ==
    /\ higher_freq = RTC_START_FREQ
    /\ rtc_interrupt_flags = [t \in Terminals |-> 0]
    /\ pcb = [t \in Terminals |-> ZeroPcb]
    /\ used_pids = [t \in Terminals |-> 1]
    /\ curr_process = 0
    /\ chip = [selected |-> "A", high |-> 2, rate |-> rate(RTC_START_FREQ)]
    /\ proc = [t \in Terminals |-> NewProgram]
    /\ pace = [t \in Terminals |-> NoPace]
    /\ torn = FALSE

At(t, label) == curr_process = t /\ proc[t].pc = label

Goto(t, label) == proc' = [proc EXCEPT ![t].pc = label]

-----------------------------------------------------------------------------
\* rtc_set_frequency, called with higher_freq: select A, read it, select A again,
\* write it.
rtc_set_frequency(t, label) ==
    /\ At(t, label)
    /\ chip' = [chip EXCEPT !.selected = "A"]
    /\ proc' = [proc EXCEPT ![t] = [@ EXCEPT !.pc = "reg_read", !.freq = higher_freq]]
    /\ UNCHANGED <<higher_freq, rtc_interrupt_flags, pcb, used_pids, curr_process>>

\* The register that is read is the selected one; C reads as 0 once the handler has
\* read it.
RegRead(t) ==
    /\ At(t, "reg_read")
    /\ proc' = [proc EXCEPT ![t] =
         [@ EXCEPT !.pc = "reg_write",
                   !.prevA = IF chip.selected = "A" THEN chip.high ELSE 0]]
    /\ chip' = [chip EXCEPT !.selected = "A"]
    /\ UNCHANGED <<higher_freq, rtc_interrupt_flags, pcb, used_pids, curr_process>>

\* Register C ignores what is written to it.
RegWrite(t) ==
    /\ At(t, "reg_write")
    /\ chip' = IF chip.selected = "A"
               THEN [chip EXCEPT !.high = proc[t].prevA, !.rate = rate(proc[t].freq)]
               ELSE chip
    /\ proc' = [proc EXCEPT ![t] =
         [@ EXCEPT !.pc = proc[t].ret, !.freq = 0, !.prevA = 0, !.ret = "user"]]
    /\ UNCHANGED <<higher_freq, rtc_interrupt_flags, pcb, used_pids, curr_process>>

-----------------------------------------------------------------------------
rtc_open(t) ==
    /\ At(t, "user")
    /\ proc[t].open = 0
    /\ pcb' = [pcb EXCEPT ![t].prog_freq = 0]
    /\ proc' = [proc EXCEPT ![t] = [@ EXCEPT !.pc = "open", !.open = 1]]
    /\ UNCHANGED <<higher_freq, rtc_interrupt_flags, used_pids, curr_process, chip>>

-----------------------------------------------------------------------------
\* A read without a frequency returns at once; otherwise the count is loaded.
rtc_read(t) ==
    /\ At(t, "user")
    /\ proc[t].open = 1
    /\ IF pcb[t].prog_freq = 0
       THEN /\ Goto(t, "read_return")
            /\ UNCHANGED pcb
       ELSE /\ Goto(t, "read_reset")
            /\ pcb' = [pcb EXCEPT ![t].count = pcb[t].divisor]
    /\ UNCHANGED <<higher_freq, rtc_interrupt_flags, used_pids, curr_process, chip>>

ReadReset(t) ==
    /\ At(t, "read_reset")
    /\ rtc_interrupt_flags' = [rtc_interrupt_flags EXCEPT ![t] = 0]
    /\ Goto(t, "read_wait")
    /\ UNCHANGED <<higher_freq, pcb, used_pids, curr_process, chip>>

\* Mutants: the loop ends one interrupt early; the count starts again every time.
ReadCount_Early(t) ==
    /\ At(t, "read_wait")
    /\ rtc_interrupt_flags[t] = 1
    /\ LET count == (pcb[t].count - 1) % Word
       IN  /\ pcb' = [pcb EXCEPT ![t].count = count]
           /\ Goto(t, IF count > 1 THEN "read_reset" ELSE "read_return")
    /\ UNCHANGED <<higher_freq, rtc_interrupt_flags, used_pids, curr_process, chip>>

ReadCount_Restarts(t) ==
    /\ At(t, "read_wait")
    /\ rtc_interrupt_flags[t] = 1
    /\ LET count == pcb[t].divisor - 1
       IN  /\ pcb' = [pcb EXCEPT ![t].count = count]
           /\ Goto(t, IF count > 0 THEN "read_reset" ELSE "read_return")
    /\ UNCHANGED <<higher_freq, rtc_interrupt_flags, used_pids, curr_process, chip>>

ReadCount(t) ==
    /\ At(t, "read_wait")
    /\ rtc_interrupt_flags[t] = 1
    /\ LET count == (pcb[t].count - 1) % Word
       IN  /\ pcb' = [pcb EXCEPT ![t].count = count]
           /\ Goto(t, IF count > 0 THEN "read_reset" ELSE "read_return")
    /\ UNCHANGED <<higher_freq, rtc_interrupt_flags, used_pids, curr_process, chip>>

ReadReturn(t) ==
    /\ At(t, "read_return")
    /\ Goto(t, "user")
    /\ UNCHANGED <<higher_freq, rtc_interrupt_flags, pcb, used_pids, curr_process, chip>>

-----------------------------------------------------------------------------
\* Mutant: any even frequency is accepted.
ValidFreq_Even(freq) == freq \in RTC_MIN_FREQ .. RTC_MAX_FREQ /\ freq % 2 = 0

ValidFreq(freq) ==
    /\ freq \in RTC_MIN_FREQ .. RTC_MAX_FREQ
    /\ \E k \in 0 .. 10 : freq = 2^k

\* An invalid frequency is refused and changes nothing.
rtc_write(t, freq) ==
    /\ At(t, "user")
    /\ proc[t].open = 1
    /\ ValidFreq(freq)
    /\ pcb' = [pcb EXCEPT ![t].prog_freq = freq]
    /\ proc' = [proc EXCEPT ![t] = [@ EXCEPT !.pc = "write_test", !.freq = freq]]
    /\ UNCHANGED <<higher_freq, rtc_interrupt_flags, used_pids, curr_process, chip>>

WriteTest(t) ==
    /\ At(t, "write_test")
    /\ Goto(t, IF proc[t].freq > higher_freq THEN "write_raise" ELSE "write_own")
    /\ UNCHANGED <<higher_freq, rtc_interrupt_flags, pcb, used_pids, curr_process, chip>>

WriteRaise(t) ==
    /\ At(t, "write_raise")
    /\ higher_freq' = proc[t].freq
    /\ Goto(t, "write_all")
    /\ UNCHANGED <<rtc_interrupt_flags, pcb, used_pids, curr_process, chip>>

WriteOwn(t) ==
    /\ At(t, "write_own")
    /\ pcb' = [pcb EXCEPT ![t].divisor = higher_freq \div proc[t].freq]
    /\ Goto(t, "write_set")
    /\ UNCHANGED <<higher_freq, rtc_interrupt_flags, used_pids, curr_process, chip>>

\* One round of a loop over the process table, from label to itself or to next.
Round(t, label, next) ==
    /\ At(t, label)
    /\ proc' = [proc EXCEPT ![t] =
         IF proc[t].i + 1 \in Terminals THEN [@ EXCEPT !.i = proc[t].i + 1]
         ELSE [@ EXCEPT !.pc = next, !.i = 0]]
    /\ UNCHANGED <<higher_freq, rtc_interrupt_flags, used_pids, curr_process, chip>>

\* The divisor of process i is brought up to date.
UpdateDivisor(i) ==
    pcb' = IF used_pids[i] = 1 /\ pcb[i].prog_freq > 0
           THEN [pcb EXCEPT ![i].divisor = higher_freq \div pcb[i].prog_freq]
           ELSE pcb

WriteAll(t) ==
    /\ Round(t, "write_all", "write_set")
    /\ UpdateDivisor(proc[t].i)

-----------------------------------------------------------------------------
\* Mutant: the maximum of no frequencies is 0.
rtc_close_FromZero(t) ==
    /\ At(t, "user")
    /\ proc[t].open = 1
    /\ proc' = [proc EXCEPT ![t] = [@ EXCEPT !.pc = "close_max", !.open = 0, !.max = 0]]
    /\ UNCHANGED <<higher_freq, rtc_interrupt_flags, pcb, used_pids, curr_process, chip>>

rtc_close(t) ==
    /\ At(t, "user")
    /\ proc[t].open = 1
    /\ proc' = [proc EXCEPT ![t] = [@ EXCEPT !.pc = "close_max", !.open = 0,
                                             !.max = RTC_START_FREQ]]
    /\ UNCHANGED <<higher_freq, rtc_interrupt_flags, pcb, used_pids, curr_process, chip>>

\* The pid is free before the files are closed.
sys_halt(t) ==
    /\ At(t, "user")
    /\ used_pids' = [used_pids EXCEPT ![t] = 0]
    /\ proc' = [proc EXCEPT ![t] =
         IF proc[t].open = 1
         THEN [@ EXCEPT !.pc = "close_max", !.open = 0, !.max = RTC_START_FREQ]
         ELSE [@ EXCEPT !.pc = "dead"]]
    /\ UNCHANGED <<higher_freq, rtc_interrupt_flags, pcb, curr_process, chip>>

CloseMax(t) ==
    LET p == pcb[proc[t].i]
        max == IF used_pids[proc[t].i] = 1 /\ p.prog_freq > proc[t].max
               THEN p.prog_freq ELSE proc[t].max
    IN  /\ At(t, "close_max")
        /\ proc' = [proc EXCEPT ![t] =
             IF proc[t].i + 1 \in Terminals THEN [@ EXCEPT !.i = proc[t].i + 1, !.max = max]
             ELSE [@ EXCEPT !.pc = "close_assign", !.i = 0, !.max = max]]
        /\ UNCHANGED <<higher_freq, rtc_interrupt_flags, pcb, used_pids, curr_process, chip>>

CloseAssign(t) ==
    /\ At(t, "close_assign")
    /\ higher_freq' = proc[t].max
    /\ proc' = [proc EXCEPT ![t] = [@ EXCEPT !.pc = "close_set", !.max = 0,
                                             !.ret = "close_all"]]
    /\ UNCHANGED <<rtc_interrupt_flags, pcb, used_pids, curr_process, chip>>

\* Mutant: the divisors are left as they were.
CloseAll_Forgotten(t) ==
    /\ Round(t, "close_all", IF used_pids[t] = 1 THEN "user" ELSE "dead")
    /\ UNCHANGED pcb

CloseAll(t) ==
    /\ Round(t, "close_all", IF used_pids[t] = 1 THEN "user" ELSE "dead")
    /\ UpdateDivisor(proc[t].i)

\* The next program of the terminal gets the pid, with a new block.
sys_execute(t) ==
    /\ At(t, "dead")
    /\ pcb' = [pcb EXCEPT ![t] = ZeroPcb]
    /\ used_pids' = [used_pids EXCEPT ![t] = 1]
    /\ proc' = [proc EXCEPT ![t] = NewProgram]
    /\ UNCHANGED <<higher_freq, rtc_interrupt_flags, curr_process, chip>>

-----------------------------------------------------------------------------
RT_handler ==
    /\ chip' = [chip EXCEPT !.selected = "C"]
    /\ rtc_interrupt_flags' = [t \in Terminals |-> 1]
    /\ UNCHANGED <<higher_freq, pcb, used_pids, curr_process, proc>>

Tick ==
    /\ curr_process' = (curr_process + 1) % NUM_TERMINALS
    /\ UNCHANGED <<higher_freq, rtc_interrupt_flags, pcb, used_pids, chip, proc>>

Call(t) ==
    \/ rtc_open(t)
    \/ rtc_read(t)
    \/ \E freq \in Requests : rtc_write(t, freq)
    \/ rtc_close(t)
    \/ sys_halt(t)

Step(t) ==
    \/ \E label \in {"open", "write_set", "close_set"} : rtc_set_frequency(t, label)
    \/ RegRead(t) \/ RegWrite(t)
    \/ ReadReset(t) \/ ReadCount(t) \/ ReadReturn(t)
    \/ WriteTest(t) \/ WriteRaise(t) \/ WriteAll(t) \/ WriteOwn(t)
    \/ CloseMax(t) \/ CloseAssign(t) \/ CloseAll(t)
    \/ sys_execute(t)

(***************************************************************************)
(* History, which has no part in what the clock does.  Time is measured in *)
(* periods of RTC_MAX_FREQ.  A read that waits has left to wait a period   *)
(* of its program's frequency less the periods of the chip that ended      *)
(* since it began, and is hurried once the frequency is raised meanwhile.  *)
(* torn records a tick inside an update of the frequencies, or an          *)
(* interrupt of the clock between selecting a register and using it.       *)
(***************************************************************************)
ReadPoints == {"read_reset", "read_wait", "read_return"}

Unit(freq) == RTC_MAX_FREQ \div freq

Less(left, units) == IF left > units THEN left - units ELSE 0

\* Of the read of t, in a step in which units of time end.
Paced(t, units) ==
    IF proc'[t].pc \notin ReadPoints \/ pcb'[t].prog_freq = 0 THEN NoPace
    ELSE IF proc[t].pc = "user" THEN [left |-> Unit(pcb'[t].prog_freq), hurried |-> FALSE]
    ELSE [left |-> Less(pace[t].left, units),
          hurried |-> pace[t].hurried \/ higher_freq' > higher_freq]

Elapse(units) == pace' = [t \in Terminals |-> Paced(t, units)]

Interrupted(window) == torn' = (torn \/ proc[curr_process].pc \in window)

Next ==
    \/ (\E t \in Terminals : Call(t) \/ Step(t)) /\ Elapse(0) /\ UNCHANGED torn
    \/ RT_handler /\ Elapse(Unit(ChipFreq(chip.rate))) /\ Interrupted(SelectWindow)
    \/ Tick /\ Elapse(0) /\ Interrupted(UpdateWindow)

Spec == Init /\ [][Next]_vars

(***************************************************************************)
(* Fairness: both clocks keep interrupting, and a process gets through a   *)
(* step of the kernel in one of its time slices.                           *)
(***************************************************************************)
FairSpec ==
    /\ Spec
    /\ WF_machine(Tick) /\ SF_machine(RT_handler)
    /\ \A t \in Terminals : SF_machine(Step(t))

-----------------------------------------------------------------------------
Hertz == 0 .. RTC_MAX_FREQ

Procs ==
    [pc : Points, open : {0, 1}, freq : Hertz, i : Terminals,
     max : Hertz, prevA : {0, 2}, ret : {"user", "close_all"}]

Pcbs == [prog_freq : Hertz, count : 0 .. Word - 1, divisor : Hertz]

Chips == [selected : {"A", "C"}, high : {0, 2}, rate : 6 .. 15]

\* The types of the variables.
TypeOK ==
    /\ higher_freq \in RTC_MIN_FREQ .. RTC_MAX_FREQ
    /\ rtc_interrupt_flags \in [Terminals -> {0, 1}]
    /\ pcb \in [Terminals -> Pcbs]
    /\ used_pids \in [Terminals -> {0, 1}]
    /\ curr_process \in Terminals
    /\ chip \in Chips
    /\ proc \in [Terminals -> Procs]
    /\ pace \in [Terminals -> [left : Hertz, hurried : BOOLEAN]]
    /\ torn \in BOOLEAN

\* Programs are inside rtc_write, rtc_open or rtc_close.
Changing(t) ==
    proc[t].pc \notin {"user", "read_reset", "read_wait", "read_return", "dead"}

\* "divisor: Higher freq (curr rtc freq) / prog freq" (pcb.h): while the running
\* program is not changing frequencies itself, every program that has asked for a
\* frequency has the divisor that turns the frequency of the chip into its own,
\* whoever raised, lowered or released frequencies before; this until a tick falls
\* into an update.
DivisorExact ==
    ~torn /\ ~Changing(curr_process) =>
        \A t \in Terminals :
            used_pids[t] = 1 /\ pcb[t].prog_freq > 0 /\ ~Changing(t) =>
                pcb[t].divisor * pcb[t].prog_freq = higher_freq

\* When no program is changing frequencies, the chip runs at higher_freq, which is
\* enough for every program, though it may be more than any asks for, and the rest
\* of register A is as it was; this until an interrupt falls into a window.
ChipFollows ==
    ~torn /\ (\A t \in Terminals : ~Changing(t)) =>
        /\ ChipFreq(chip.rate) = higher_freq
        /\ chip.high = 2
        /\ \A t \in Terminals :
             used_pids[t] = 1 => pcb[t].prog_freq <= higher_freq

\* "each program gets a different frequency basen on a divisor" (rtc_read): a read
\* returns only after periods of the chip that make up a whole period of the program's
\* own frequency, even if other programs lower or release frequencies meanwhile, and
\* whenever the chip follows them.  Excepted are a read during which the frequency is
\* raised, as its count is not scaled up, and a program that has asked for no
\* frequency, whose read returns at once.
ReadPaced ==
    \A t \in Terminals :
        ~torn /\ proc[t].pc = "read_return" /\ ~pace[t].hurried => pace[t].left = 0

\* A read of the clock returns.
ReadReturns ==
    \A t \in Terminals :
        proc[t].pc \in {"read_reset", "read_wait"} ~> torn \/ proc[t].pc = "read_return"

\* "RTC runs at the highest requested freq by all programs" (rtc_read): when no program
\* is changing frequencies and nothing has disturbed one that did, the chip runs at
\* 2 Hz or at a frequency that some program asks for.
HighestRequested ==
    ~torn /\ (\A t \in Terminals : ~Changing(t)) =>
        \/ ChipFreq(chip.rate) = RTC_START_FREQ
        \/ \E t \in Terminals : used_pids[t] = 1 /\ pcb[t].prog_freq = ChipFreq(chip.rate)
=============================================================================
