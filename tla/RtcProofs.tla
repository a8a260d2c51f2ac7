------------------------------ MODULE RtcProofs ------------------------------
(***************************************************************************)
(* Theorems about Rtc, for every number of terminals and every set of      *)
(* requests, with the timer and the clock interrupting anywhere: the types *)
(* hold always, the rest until an interrupt falls into an update of what   *)
(* the programs share.                                                     *)
(***************************************************************************)
EXTENDS Rtc, TLAPS

USE DEF RTC_START_FREQ, RTC_MIN_FREQ, RTC_MAX_FREQ

\* The frequencies that rtc_write accepts.
Freqs == {2, 4, 8, 16, 32, 64, 128, 256, 512, 1024}

Loops == {"write_all", "close_max", "close_all"}

\* Where the divisor of a program is not yet that of the frequency it asks for.
StalePoints == {"write_test", "write_raise", "write_own"}

\* Where the chip has still to be set.
PendingPoints == SelectWindow \cup {"write_all", "write_set", "close_set"}

\* Who is in a loop, where rtc_set_frequency returns to, whose pid is free; the windows
\* are the running process's.
Control(t) ==
    /\ proc[t].pc \notin Loops => proc[t].i = 0
    /\ proc[t].pc = "close_set" => proc[t].ret = "close_all"
    /\ proc[t].pc \notin SelectWindow \cup {"close_set"} => proc[t].ret = "user"
    /\ used_pids[t] = 0 =>
         \/ proc[t].pc \in {"close_max", "close_assign", "close_set", "close_all", "dead"}
         \/ proc[t].pc \in SelectWindow /\ proc[t].ret = "close_all"
    /\ proc[t].pc \in UpdateWindow => t = curr_process

\* A frequency is one that rtc_write accepts, and a local copy is that of the program.
Writing(t) ==
    /\ pcb[t].prog_freq \in {0} \cup Freqs
    /\ proc[t].pc \in StalePoints \cup {"write_all"} =>
         proc[t].freq \in Freqs /\ proc[t].freq = pcb[t].prog_freq
    /\ proc[t].pc = "write_raise" => proc[t].freq > higher_freq

\* The maximum that rtc_close looks for, as far as it has looked.
Closing(t) ==
    /\ proc[t].pc \in {"close_max", "close_assign"} => proc[t].max \in Freqs
    /\ \A u \in Terminals :
         used_pids[u] = 1 =>
           /\ proc[t].pc = "close_max" /\ u < proc[t].i => pcb[u].prog_freq <= proc[t].max
           /\ proc[t].pc = "close_assign" => pcb[u].prog_freq <= proc[t].max

\* rtc_set_frequency works on register A with the frequency of the moment.
Setting(t) ==
    /\ proc[t].pc \in SelectWindow => chip.selected = "A" /\ proc[t].freq = higher_freq
    /\ proc[t].pc = "reg_write" => proc[t].prevA = 2

\* A read that waits has something left to count.
Reading(t) ==
    proc[t].pc \in {"read_reset", "read_wait"} => pcb[t].count >= 1

\* No program asks for more than the highest frequency, once it has been compared.
Bounded(t) ==
    used_pids[t] = 1 /\ proc[t].pc \notin {"write_test", "write_raise"} =>
        pcb[t].prog_freq <= higher_freq

\* No loop that brings the divisors up to date has t still before it.
Settled(t) ==
    LET p == proc[curr_process]
    IN  /\ p.pc # "close_set"
        /\ ~ (p.pc \in SelectWindow /\ p.ret = "close_all")
        /\ p.pc \in {"write_all", "close_all"} => t < p.i

Exact(t) ==
    used_pids[t] = 1 /\ pcb[t].prog_freq > 0 /\ proc[t].pc \notin StalePoints /\ Settled(t) =>
        pcb[t].divisor * pcb[t].prog_freq = higher_freq

ChipRight ==
    /\ chip.high = 2
    /\ (\A t \in Terminals : proc[t].pc \notin PendingPoints) => chip.rate = rate(higher_freq)

OwnInv(t) ==
    /\ Control(t) /\ Writing(t) /\ Closing(t) /\ Setting(t) /\ Reading(t) /\ Bounded(t)
    /\ Exact(t)

\* The types of the variables that are not history.
MachineOK ==
    /\ higher_freq \in RTC_MIN_FREQ .. RTC_MAX_FREQ
    /\ rtc_interrupt_flags \in [Terminals -> {0, 1}]
    /\ pcb \in [Terminals -> Pcbs]
    /\ used_pids \in [Terminals -> {0, 1}]
    /\ curr_process \in Terminals
    /\ chip \in Chips
    /\ proc \in [Terminals -> Procs]

IInv ==
    /\ MachineOK /\ higher_freq \in Freqs
    /\ \A t \in Terminals : OwnInv(t)
    /\ ChipRight

-----------------------------------------------------------------------------
(***************************************************************************)
(* Frequencies.                                                            *)
(***************************************************************************)

Pow(k) == 2^k

\* The powers of two that the loops of rtc_write and rtc_set_frequency meet.
LEMMA Powers ==
    /\ Pow(0) = 1 /\ Pow(1) = 2 /\ Pow(2) = 4 /\ Pow(3) = 8 /\ Pow(4) = 16 /\ Pow(5) = 32
    /\ Pow(6) = 64 /\ Pow(7) = 128 /\ Pow(8) = 256 /\ Pow(9) = 512 /\ Pow(10) = 1024
    /\ Pow(11) = 2048
BY DEF Pow

\* rtc_write accepts the powers of two from 2 to 1024.
LEMMA ValidFreqs ==
    ASSUME NEW freq, ValidFreq(freq)
    PROVE  freq \in Freqs
<1>1. PICK k \in 0 .. 10 : freq = Pow(k)
  BY DEF ValidFreq, Pow
<1>2. freq \in 2 .. 1024
  BY DEF ValidFreq
<1>3. k \in {0, 1, 2, 3, 4, 5, 6, 7, 8, 9, 10}
  OBVIOUS
<1> QED
  BY <1>1, <1>2, <1>3, Powers DEF Freqs

Divides(d, x, y) == d * x = y

\* A frequency divides a higher one.
LEMMA Quotient ==
    ASSUME NEW x \in Freqs, NEW y \in Freqs
    PROVE  \E d \in Hertz : d = y \div x /\ (x <= y => Divides(d, x, y))
<1>1. y \div x \in Hertz
  BY DEF Freqs, Hertz
<1>2. x <= y => Divides(y \div x, x, y)
  BY DEF Freqs, Divides
<1> QED
  BY <1>1, <1>2

\* An exact divisor is the quotient.
LEMMA Divisor ==
    ASSUME NEW x \in Freqs, NEW y \in Freqs, NEW d \in Hertz, Divides(d, x, y)
    PROVE  d >= 1 /\ d = y \div x
BY DEF Freqs, Divides, Hertz

\* The larger exponent has the larger power.
LEMMA Mono ==
    ASSUME NEW a \in 0 .. 11, NEW b \in 0 .. 11, a < b
    PROVE  Pow(a) < Pow(b) /\ Pow(a) \in Int /\ Pow(b) \in Int
<1>1. a \in {0, 1, 2, 3, 4, 5, 6, 7, 8, 9, 10, 11}
      /\ b \in {0, 1, 2, 3, 4, 5, 6, 7, 8, 9, 10, 11}
  OBVIOUS
<1> QED
  BY <1>1, Powers

\* The loop of rtc_set_frequency finds the rate at which the chip has that frequency.
LEMMA RateRight ==
    ASSUME NEW freq \in Freqs
    PROVE  rate(freq) \in 6 .. 15 /\ ChipFreq(rate(freq)) = freq
<1> DEFINE W(i) == freq < Pow(i) /\ \A j \in 2 .. i - 1 : freq >= Pow(j)
<1>1. PICK k \in 1 .. 10 : freq = Pow(k)
  BY Powers DEF Freqs
<1>2. k + 1 \in 2 .. 11 /\ W(k + 1)
  <2>1. freq < Pow(k + 1)
    BY <1>1, Mono
  <2>2. ASSUME NEW j \in 2 .. k PROVE freq >= Pow(j)
    BY <1>1, Mono, Powers
  <2> QED
    BY <2>1, <2>2
<1>3. ASSUME NEW i \in 2 .. 11, W(i) PROVE i = k + 1
  <2>1. ~ (i < k + 1)
    <3> SUFFICES ASSUME i < k + 1 PROVE FALSE
      OBVIOUS
    <3>1. i = k \/ i < k
      OBVIOUS
    <3>2. Pow(i) <= Pow(k) /\ Pow(i) \in Int /\ Pow(k) \in Int
      BY <3>1, Mono, Powers
    <3> QED
      BY <1>1, <1>3, <3>2
  <2>2. ~ (k + 1 < i)
    <3> SUFFICES ASSUME k + 1 < i PROVE FALSE
      OBVIOUS
    <3>1. k + 1 \in 2 .. i - 1
      OBVIOUS
    <3>2. freq >= Pow(k + 1)
      BY <1>3, <3>1
    <3>3. Pow(k) < Pow(k + 1) /\ Pow(k) \in Int /\ Pow(k + 1) \in Int
      BY Mono
    <3> QED
      BY <1>1, <3>2, <3>3
  <2> QED
    BY <2>1, <2>2
<1> DEFINE c == CHOOSE i \in 2 .. 11 : W(i)
<1>4. c = k + 1
  BY <1>2, <1>3
<1>5. rate(freq) = 15 - c + 2
  BY DEF rate, Pow
<1> HIDE DEF c
<1>6. rate(freq) = 16 - k
  BY <1>4, <1>5
<1>7. 16 - rate(freq) = k
  BY <1>6
<1> QED
  BY <1>1, <1>6, <1>7 DEF ChipFreq, Pow

-----------------------------------------------------------------------------
(***************************************************************************)
(* Steps.                                                                  *)
(***************************************************************************)
\* What the invariant says of one process.
LEMMA Facts ==
    ASSUME IInv, NEW t \in Terminals
    PROVE  /\ proc[t] \in Procs /\ pcb[t] \in Pcbs /\ used_pids[t] \in {0, 1}
           /\ rtc_interrupt_flags[t] \in {0, 1} /\ chip \in Chips
           /\ proc \in [Terminals -> Procs] /\ pcb \in [Terminals -> Pcbs]
           /\ used_pids \in [Terminals -> {0, 1}]
           /\ rtc_interrupt_flags \in [Terminals -> {0, 1}]
           /\ Control(t) /\ Writing(t) /\ Closing(t) /\ Setting(t) /\ Reading(t)
           /\ Bounded(t) /\ Exact(t)
           /\ higher_freq \in Freqs /\ chip.high = 2 /\ curr_process \in Terminals
BY DEF IInv, OwnInv, MachineOK, ChipRight

\* The counters are numbers.
LEMMA Numbers ==
    ASSUME IInv, NEW t \in Terminals
    PROVE  /\ proc[t].max \in Nat
           /\ proc[t].freq \in Nat /\ proc[t].i \in Nat /\ t \in Nat /\ higher_freq \in Nat
           /\ pcb[t].count \in Nat /\ pcb[t].divisor \in Nat /\ pcb[t].prog_freq \in Nat
<1>p. PICK r \in Procs, c \in Pcbs : r = proc[t] /\ c = pcb[t]
  BY Facts
<1>n. Terminals \subseteq Nat /\ Hertz \subseteq Nat /\ 0 .. Word - 1 \subseteq Nat
  BY RtcAssumption DEF Terminals, Hertz
<1>1. /\ proc[t].max \in Nat
      /\ proc[t].freq \in Nat /\ proc[t].i \in Nat /\ t \in Nat
  BY <1>p, <1>n DEF Procs
<1>2. pcb[t].count \in Nat /\ pcb[t].divisor \in Nat /\ pcb[t].prog_freq \in Nat
  BY <1>p, <1>n DEF Pcbs
<1>3. higher_freq \in Nat
  BY Facts DEF Freqs
<1> QED
  BY <1>1, <1>2, <1>3

\* Updating a function with the value it has.
LEMMA SameValue ==
    ASSUME NEW A, NEW B, NEW f \in [A -> B], NEW x \in A
    PROVE  f = [f EXCEPT ![x] = f[x]]
OBVIOUS

\* A step of the running process t that changes only its own entries.
Local(t, p, b) ==
    /\ t = curr_process
    /\ proc' = [proc EXCEPT ![t] = p]
    /\ pcb' = [pcb EXCEPT ![t] = b]
    /\ used_pids' \in [Terminals -> {0, 1}]
    /\ rtc_interrupt_flags' \in [Terminals -> {0, 1}]
    /\ \A s \in Terminals \ {t} :
         used_pids'[s] = used_pids[s] /\ rtc_interrupt_flags'[s] = rtc_interrupt_flags[s]
    /\ UNCHANGED <<higher_freq, curr_process>>

\* The chip is set, or somebody has still to set it, or it does not change.
ChipStep(t, p) ==
    /\ chip' \in Chips /\ chip'.high = 2
    /\ \/ p.pc \in PendingPoints
       \/ chip'.rate = rate(higher_freq)
       \/ chip'.rate = chip.rate /\ proc[t].pc \notin PendingPoints

\* A local step keeps the invariant when it keeps what the invariant says of t.
LEMMA LocalStep ==
    ASSUME IInv, NEW t \in Terminals, NEW p \in Procs, NEW b \in Pcbs, Local(t, p, b),
           ChipStep(t, p), OwnInv(t)', \A s \in Terminals : Settled(s)' => Settled(s)
    PROVE  IInv'
<1>1. /\ proc' \in [Terminals -> Procs] /\ pcb' \in [Terminals -> Pcbs]
      /\ proc'[t] = p
      /\ \A s \in Terminals \ {t} : proc'[s] = proc[s] /\ pcb'[s] = pcb[s]
                                    /\ used_pids'[s] = used_pids[s]
                                    /\ rtc_interrupt_flags'[s] = rtc_interrupt_flags[s]
      /\ higher_freq' = higher_freq /\ curr_process' = curr_process /\ t = curr_process
  BY Facts DEF Local
<1>2. MachineOK' /\ higher_freq' \in Freqs
  <2>1. /\ higher_freq' \in 2 .. 1024 /\ chip' \in Chips
        /\ rtc_interrupt_flags' \in [Terminals -> {0, 1}]
        /\ used_pids' \in [Terminals -> {0, 1}] /\ curr_process' \in Terminals
    BY <1>1, Facts DEF Local, ChipStep, Freqs
  <2>2. MachineOK'
    BY <1>1, <2>1 DEF MachineOK
  <2> QED
    BY <1>1, <2>2, Facts
<1>3. ASSUME NEW s \in Terminals, s # t PROVE OwnInv(s)'
  <2>1. /\ proc'[s] = proc[s] /\ pcb'[s] = pcb[s] /\ used_pids'[s] = used_pids[s]
        /\ rtc_interrupt_flags'[s] = rtc_interrupt_flags[s]
    BY <1>1, <1>3
  <2>2. proc[s].pc \notin UpdateWindow
    BY <1>1, <1>3, Facts DEF Control
  <2>3. Control(s)' /\ Writing(s)'
    BY <1>1, <2>1, Facts DEF Control, Writing
  <2>4. Closing(s)' /\ Setting(s)'
    BY <2>1, <2>2 DEF Closing, Setting, UpdateWindow, SelectWindow
  <2>5. Reading(s)' /\ Bounded(s)'
    BY <1>1, <2>1, Facts DEF Reading, Bounded
  <2>6. Exact(s)'
    BY <1>1, <2>1, Facts DEF Exact
  <2> QED
    BY <2>3, <2>4, <2>5, <2>6 DEF OwnInv
<1>4. ChipRight'
  <2>1. CASE p.pc \in PendingPoints
    BY <1>1, <2>1 DEF ChipRight, ChipStep
  <2>2. CASE chip'.rate = rate(higher_freq)
    BY <1>1, <2>2 DEF ChipRight, ChipStep
  <2>3. CASE chip'.rate = chip.rate /\ proc[t].pc \notin PendingPoints
    BY <1>1, <2>3 DEF IInv, ChipRight, ChipStep
  <2> QED
    BY <2>1, <2>2, <2>3 DEF ChipStep
<1> QED
  BY <1>2, <1>3, <1>4 DEF IInv

\* rtc_set_frequency starts with the frequency of the moment.
LEMMA SetFrequencyInv ==
    ASSUME IInv, NEW t \in Terminals, NEW label \in {"open", "write_set", "close_set"},
           rtc_set_frequency(t, label)
    PROVE  IInv'
<1>1. PICK r \in Procs, f \in Hertz : r = proc[t] /\ f = higher_freq
  BY Facts DEF Freqs, Hertz
<1>2. PICK p : p = [r EXCEPT !.pc = "reg_read", !.freq = f]
  OBVIOUS
<1>p. "reg_read" \in Points
  BY DEF Points
<1>3. p \in Procs
  BY <1>2, <1>p, Zenon DEF Procs
<1>4. p.pc = "reg_read" /\ p.freq = higher_freq /\ p.i = proc[t].i /\ p.ret = proc[t].ret
  BY <1>1, <1>2 DEF Procs
<1>5. proc[t].pc = label /\ t = curr_process
  BY DEF rtc_set_frequency, At
<1>6. Local(t, p, pcb[t])
  BY <1>1, <1>2, <1>5, Facts, SameValue DEF rtc_set_frequency, Local
<1>7. proc'[t] = p /\ pcb'[t] = pcb[t] /\ used_pids'[t] = used_pids[t]
  BY <1>6, Facts DEF Local, rtc_set_frequency
<1>8. ChipStep(t, p) /\ chip'.selected = "A"
  BY <1>4, Facts DEF ChipStep, rtc_set_frequency, Chips, PendingPoints, SelectWindow
<1>9. OwnInv(t)'
  BY <1>4, <1>5, <1>6, <1>7, <1>8, Facts DEF OwnInv, Local, Control, Writing, Closing, Setting,
     Reading, Bounded, Exact, Settled, Loops, StalePoints, SelectWindow
<1>10. \A s \in Terminals : Settled(s)' => Settled(s)
  BY <1>4, <1>5, <1>6, <1>7, Facts DEF Settled, Local, SelectWindow, Control
<1> QED
  BY <1>3, <1>6, <1>8, <1>9, <1>10, LocalStep, Facts

\* Register A is read.
LEMMA RegReadInv ==
    ASSUME IInv, NEW t \in Terminals, RegRead(t)
    PROVE  IInv'
<1>0. proc[t].pc = "reg_read" /\ t = curr_process
  BY DEF RegRead, At
<1>a. chip.selected = "A" /\ chip.high = 2
  BY <1>0, Facts DEF Setting, SelectWindow
<1>1. PICK r \in Procs, h \in {0, 2} :
        r = proc[t] /\ h = chip.high
  BY Facts, <1>a DEF Freqs, Hertz
<1>2. PICK p : p = [r EXCEPT !.pc = "reg_write", !.prevA = h]
  OBVIOUS
<1>3. p \in Procs
  <2>1. "reg_write" \in Points
    BY DEF Points
  <2> QED
    BY <1>2, <2>1, Zenon DEF Procs
<1>4. p.pc = "reg_write" /\ p.prevA = 2 /\ p.i = proc[t].i /\ p.ret = proc[t].ret
      /\ p.freq = proc[t].freq
  BY <1>1, <1>2, <1>a DEF Procs
<1>7. Local(t, p, pcb[t])
  BY <1>0, <1>1, <1>2, <1>a, Facts, SameValue DEF RegRead, Local
<1>8. /\ chip'.selected = "A" /\ proc'[t] = p /\ pcb'[t] = pcb[t]
      /\ used_pids'[t] = used_pids[t]
      /\ rtc_interrupt_flags'[t] = rtc_interrupt_flags[t]
  BY <1>7, Facts DEF Local, RegRead, Chips
<1>9. ChipStep(t, p)
  BY <1>0, <1>4, Facts, <1>a DEF ChipStep, RegRead, Chips, PendingPoints, SelectWindow
<1>10. OwnInv(t)'
  BY <1>0, <1>4, <1>7, <1>8, Facts, <1>a DEF OwnInv, Local, Control, Writing, Closing,
     Setting, Reading, Bounded, Exact, Settled, Loops, StalePoints, SelectWindow,
        UpdateWindow, RegRead
<1>11. \A s \in Terminals : Settled(s)' => Settled(s)
  BY <1>0, <1>4, <1>7, <1>8, Facts DEF Settled, Local, SelectWindow, Control
<1> QED
  BY <1>3, <1>7, <1>9, <1>10, <1>11, LocalStep, Facts

\* Register A is written: the chip has the frequency.
LEMMA RegWriteInv ==
    ASSUME IInv, NEW t \in Terminals, RegWrite(t)
    PROVE  IInv'
<1>0. proc[t].pc = "reg_write" /\ t = curr_process
  BY DEF RegWrite, At
<1>a. /\ chip.selected = "A" /\ proc[t].prevA = 2 /\ proc[t].freq = higher_freq
      /\ rate(higher_freq) \in 6 .. 15 /\ proc[t].ret \in {"user", "close_all"}
  BY <1>0, Facts, RateRight DEF Setting, SelectWindow, Procs
<1>1. PICK r \in Procs, x \in {"user", "close_all"} :
        r = proc[t] /\ x = proc[t].ret
  BY Facts, <1>a DEF Freqs, Hertz
<1>2. PICK p : p = [r EXCEPT !.pc = x, !.freq = 0, !.prevA = 0, !.ret = "user"]
  OBVIOUS
<1>3. p \in Procs
  <2>1. x \in Points /\ 0 \in Hertz
    BY DEF Points, Hertz
  <2> QED
    BY <1>2, <2>1, Zenon DEF Procs
<1>4. p.pc = proc[t].ret /\ p.freq = 0 /\ p.ret = "user" /\ p.i = proc[t].i
  BY <1>1, <1>2 DEF Procs
<1>7. Local(t, p, pcb[t])
  BY <1>0, <1>1, <1>2, <1>a, Facts, SameValue DEF RegWrite, Local
<1>8. /\ proc'[t] = p /\ pcb'[t] = pcb[t] /\ used_pids'[t] = used_pids[t]
      /\ rtc_interrupt_flags'[t] = rtc_interrupt_flags[t]
  BY <1>7, Facts DEF Local, RegWrite
<1>9. ChipStep(t, p)
  BY <1>0, <1>4, Facts, <1>a DEF ChipStep, RegWrite, Chips, PendingPoints, SelectWindow
<1>10. OwnInv(t)'
  <2>1. Control(t)' /\ Writing(t)'
    BY <1>0, <1>4, <1>7, <1>8, Facts, <1>a DEF Local, Control, Writing, StalePoints,
       SelectWindow,
       UpdateWindow, Terminals, Loops
  <2>2. Closing(t)' /\ Setting(t)'
    BY <1>0, <1>4, <1>7, <1>8, Facts, <1>a DEF Local, Closing, Setting, SelectWindow,
       Terminals, Loops
  <2>3. Reading(t)'
    BY <1>0, <1>4, <1>7, <1>8, Facts, <1>a DEF Local, Reading, Terminals, Loops
  <2>4. Bounded(t)'
    BY <1>0, <1>4, <1>7, <1>8, Facts, <1>a DEF Local, Bounded, Writing, Terminals, Loops
  <2>5. Exact(t)'
    BY <1>0, <1>4, <1>7, <1>8, Facts, <1>a DEF Local, Exact, Settled, Control, StalePoints,
       SelectWindow, Terminals, Loops
  <2> QED
    BY <2>1, <2>2, <2>3, <2>4, <2>5 DEF OwnInv
<1>11. \A s \in Terminals : Settled(s)' => Settled(s)
  BY <1>0, <1>4, <1>7, <1>8, Facts DEF Settled, Local, SelectWindow, Control, Terminals, Loops
<1> QED
  BY <1>3, <1>7, <1>9, <1>10, <1>11, LocalStep, Facts

\* A read returns.
LEMMA ReadReturnInv ==
    ASSUME IInv, NEW t \in Terminals, ReadReturn(t)
    PROVE  IInv'
<1>0. proc[t].pc = "read_return" /\ t = curr_process
  BY DEF ReadReturn, At
<1>1. PICK r \in Procs : r = proc[t]
  BY Facts
<1>2. PICK p : p = [r EXCEPT !.pc = "user"]
  OBVIOUS
<1>3. p \in Procs
  <2>1. "user" \in Points /\ 0 \in Hertz
    BY DEF Points, Hertz
  <2> QED
    BY <1>2, <2>1, Zenon DEF Procs
<1>4. p.pc = "user" /\ p.i = proc[t].i /\ p.ret = proc[t].ret
  BY <1>1, <1>2 DEF Procs
<1>7. Local(t, p, pcb[t])
  BY <1>0, <1>1, <1>2, Facts, SameValue DEF ReadReturn, Goto, Local
<1>8. /\ proc'[t] = p /\ pcb'[t] = pcb[t] /\ used_pids'[t] = used_pids[t]
      /\ rtc_interrupt_flags'[t] = rtc_interrupt_flags[t]
  BY <1>7, Facts DEF Local, ReadReturn
<1>9. ChipStep(t, p)
  BY <1>0, <1>4, Facts DEF ChipStep, ReadReturn, Chips, PendingPoints, SelectWindow
<1>10. OwnInv(t)'
  BY <1>0, <1>4, <1>7, <1>8, Facts DEF OwnInv, Local, Control, Writing, Closing,
     Setting, Reading, Bounded, Exact, Settled, Loops, StalePoints, SelectWindow, UpdateWindow
<1>11. \A s \in Terminals : Settled(s)' => Settled(s)
  BY <1>0, <1>4, <1>7, <1>8, Facts DEF Settled, Local, SelectWindow, Control
<1> QED
  BY <1>3, <1>7, <1>9, <1>10, <1>11, LocalStep, Facts

\* rtc_write compares the frequency.
LEMMA WriteTestInv ==
    ASSUME IInv, NEW t \in Terminals, WriteTest(t)
    PROVE  IInv'
<1>0. proc[t].pc = "write_test" /\ t = curr_process
  BY DEF WriteTest, At
<1>1. PICK r \in Procs, l \in {"write_raise", "write_own"} :
        r = proc[t] /\ l = (IF proc[t].freq > higher_freq THEN "write_raise" ELSE "write_own")
  BY Facts DEF Freqs, Hertz
<1>2. PICK p : p = [r EXCEPT !.pc = l]
  OBVIOUS
<1>3. p \in Procs
  <2>1. l \in Points
    BY DEF Points
  <2> QED
    BY <1>2, <2>1, Zenon DEF Procs
<1>4. p.pc = l /\ p.i = proc[t].i /\ p.ret = proc[t].ret /\ p.freq = proc[t].freq
  BY <1>1, <1>2 DEF Procs
<1>7. Local(t, p, pcb[t])
  BY <1>0, <1>1, <1>2, Facts, SameValue DEF WriteTest, Goto, Local
<1>8. /\ proc'[t] = p /\ pcb'[t] = pcb[t] /\ used_pids'[t] = used_pids[t]
      /\ rtc_interrupt_flags'[t] = rtc_interrupt_flags[t]
  BY <1>7, Facts DEF Local, WriteTest
<1>9. ChipStep(t, p)
  BY <1>0, <1>4, Facts DEF ChipStep, WriteTest, Chips, PendingPoints, SelectWindow
<1>10. OwnInv(t)'
  BY <1>0, <1>4, <1>7, <1>8, Facts, <1>1 DEF OwnInv, Local, Control, Writing, Closing,
     Setting, Reading, Bounded, Exact, Settled, Loops, StalePoints, SelectWindow,
        UpdateWindow, Freqs
<1>11. \A s \in Terminals : Settled(s)' => Settled(s)
  BY <1>0, <1>4, <1>7, <1>8, Facts DEF Settled, Local, SelectWindow, Control
<1> QED
  BY <1>3, <1>7, <1>9, <1>10, <1>11, LocalStep, Facts

\* rtc_close starts from the lowest frequency.
LEMMA CloseInv ==
    ASSUME IInv, NEW t \in Terminals, rtc_close(t)
    PROVE  IInv'
<1>0. proc[t].pc = "user" /\ t = curr_process
  BY DEF rtc_close, At
<1>1. PICK r \in Procs : r = proc[t]
  BY Facts
<1>2. PICK p : p = [r EXCEPT !.pc = "close_max", !.open = 0, !.max = 2]
  OBVIOUS
<1>3. p \in Procs
  <2>1. "close_max" \in Points /\ 2 \in Hertz
    BY DEF Points, Hertz
  <2> QED
    BY <1>2, <2>1, Zenon DEF Procs
<1>4. p.pc = "close_max" /\ p.max = 2 /\ p.i = proc[t].i /\ p.ret = proc[t].ret
  BY <1>1, <1>2 DEF Procs
<1>7. Local(t, p, pcb[t])
  BY <1>0, <1>1, <1>2, Facts, SameValue DEF rtc_close, Local
<1>8. /\ proc'[t] = p /\ pcb'[t] = pcb[t] /\ used_pids'[t] = used_pids[t]
      /\ rtc_interrupt_flags'[t] = rtc_interrupt_flags[t]
  BY <1>7, Facts DEF Local, rtc_close
<1>9. ChipStep(t, p)
  BY <1>0, <1>4, Facts DEF ChipStep, rtc_close, Chips, PendingPoints, SelectWindow
<1>10. OwnInv(t)'
  BY <1>0, <1>4, <1>7, <1>8, Facts DEF OwnInv, Local, Control, Writing, Closing,
     Setting, Reading, Bounded, Exact, Settled, Loops, StalePoints, SelectWindow,
        UpdateWindow, Freqs, Terminals
<1>11. \A s \in Terminals : Settled(s)' => Settled(s)
  BY <1>0, <1>4, <1>7, <1>8, Facts DEF Settled, Local, SelectWindow, Control
<1> QED
  BY <1>3, <1>7, <1>9, <1>10, <1>11, LocalStep, Facts

\* A program that opens the clock asks for no frequency yet.
LEMMA OpenInv ==
    ASSUME IInv, NEW t \in Terminals, rtc_open(t)
    PROVE  IInv'
<1>0. proc[t].pc = "user" /\ t = curr_process
  BY DEF rtc_open, At
<1>1. PICK r \in Procs : r = proc[t]
  BY Facts
<1>2. PICK p : p = [r EXCEPT !.pc = "open", !.open = 1]
  OBVIOUS
<1>3. p \in Procs
  <2>1. "open" \in Points
    BY DEF Points
  <2> QED
    BY <1>2, <2>1, Zenon DEF Procs
<1>4. p.pc = "open" /\ p.i = proc[t].i /\ p.ret = proc[t].ret
  BY <1>1, <1>2 DEF Procs
<1>5. PICK b \in Pcbs : b = [pcb[t] EXCEPT !.prog_freq = 0]
  <2>1. PICK c \in Pcbs : c = pcb[t]
    BY Facts
  <2>2. 0 \in Hertz
    BY RtcAssumption DEF Hertz
  <2>3. [c EXCEPT !.prog_freq = 0] \in Pcbs
    BY <2>2, Zenon DEF Pcbs
  <2> QED
    BY <2>1, <2>3
<1>6. b.prog_freq = 0
  BY <1>5, Facts DEF Pcbs
<1>7. Local(t, p, b)
  BY <1>0, <1>1, <1>2, <1>5, Facts, SameValue DEF rtc_open, Local
<1>8. /\ proc'[t] = p /\ pcb'[t] = b /\ used_pids'[t] = used_pids[t]
      /\ rtc_interrupt_flags'[t] = rtc_interrupt_flags[t]
  BY <1>7, Facts DEF Local, rtc_open
<1>9. ChipStep(t, p)
  BY <1>0, <1>4, Facts DEF ChipStep, rtc_open, Chips, PendingPoints, SelectWindow
<1>10. OwnInv(t)'
  <2>1. Control(t)' /\ Writing(t)'
    BY <1>0, <1>4, <1>6, <1>7, <1>8, Facts DEF Local, Control, Writing, StalePoints,
       SelectWindow,
       UpdateWindow, Loops, Freqs
  <2>2. Closing(t)' /\ Setting(t)'
    BY <1>0, <1>4, <1>6, <1>7, <1>8, Facts DEF Local, Closing, Setting, SelectWindow, Loops,
       Freqs
  <2>3. Reading(t)'
    BY <1>0, <1>4, <1>6, <1>7, <1>8, Facts DEF Local, Reading, Loops, Freqs
  <2>4. Bounded(t)'
    BY <1>0, <1>4, <1>6, <1>7, <1>8, Facts DEF Local, Bounded, Writing, Loops, Freqs
  <2>5. Exact(t)'
    BY <1>0, <1>4, <1>6, <1>7, <1>8, Facts DEF Local, Exact, Settled, Control, StalePoints,
       SelectWindow, Loops, Freqs
  <2> QED
    BY <2>1, <2>2, <2>3, <2>4, <2>5 DEF OwnInv
<1>11. \A s \in Terminals : Settled(s)' => Settled(s)
  BY <1>0, <1>4, <1>7, <1>8, Facts DEF Settled, Local, SelectWindow, Control
<1> QED
  BY <1>3, <1>5, <1>7, <1>9, <1>10, <1>11, LocalStep, Facts

\* Without a frequency a read has nothing to wait for.
LEMMA ReadNothingInv ==
    ASSUME IInv, NEW t \in Terminals, pcb[t].prog_freq = 0, rtc_read(t)
    PROVE  IInv'
<1>0. proc[t].pc = "user" /\ t = curr_process
  BY DEF rtc_read, At
<1>1. PICK r \in Procs : r = proc[t]
  BY Facts
<1>2. PICK p : p = [r EXCEPT !.pc = "read_return"]
  OBVIOUS
<1>3. p \in Procs
  <2>1. "read_return" \in Points /\ 0 \in Hertz
    BY DEF Points, Hertz
  <2> QED
    BY <1>2, <2>1, Zenon DEF Procs
<1>4. p.pc = "read_return" /\ p.i = proc[t].i /\ p.ret = proc[t].ret
  BY <1>1, <1>2 DEF Procs
<1>7. Local(t, p, pcb[t])
  BY <1>0, <1>1, <1>2, Facts, SameValue DEF rtc_read, Goto, Local
<1>8. /\ proc'[t] = p /\ pcb'[t] = pcb[t] /\ used_pids'[t] = used_pids[t]
      /\ rtc_interrupt_flags'[t] = rtc_interrupt_flags[t]
  BY <1>7, Facts DEF Local, rtc_read
<1>9. ChipStep(t, p)
  BY <1>0, <1>4, Facts DEF ChipStep, rtc_read, Chips, PendingPoints, SelectWindow
<1>10. OwnInv(t)'
  <2>1. Control(t)' /\ Writing(t)'
    BY <1>0, <1>4, <1>7, <1>8, Facts DEF Local, Control, Writing, StalePoints, SelectWindow,
       UpdateWindow, Loops
  <2>2. Closing(t)' /\ Setting(t)'
    BY <1>0, <1>4, <1>7, <1>8, Facts DEF Local, Closing, Setting, SelectWindow, Loops
  <2>3. Reading(t)'
    BY <1>0, <1>4, <1>7, <1>8, Facts DEF Local, Reading, Loops
  <2>4. Bounded(t)'
    BY <1>0, <1>4, <1>7, <1>8, Facts DEF Local, Bounded, Writing, Loops
  <2>5. Exact(t)'
    BY <1>0, <1>4, <1>7, <1>8, Facts DEF Local, Exact, Settled, Control, StalePoints,
       SelectWindow, Loops
  <2> QED
    BY <2>1, <2>2, <2>3, <2>4, <2>5 DEF OwnInv
<1>11. \A s \in Terminals : Settled(s)' => Settled(s)
  BY <1>0, <1>4, <1>7, <1>8, Facts DEF Settled, Local, SelectWindow, Control
<1> QED
  BY <1>3, <1>7, <1>9, <1>10, <1>11, LocalStep, Facts

\* A read loads the divisor, which is the number of interrupts to wait for.
LEMMA ReadLoadInv ==
    ASSUME IInv, NEW t \in Terminals, pcb[t].prog_freq # 0, rtc_read(t)
    PROVE  IInv'
<1>0. proc[t].pc = "user" /\ t = curr_process
  BY DEF rtc_read, At
<1>a. /\ higher_freq \div pcb[t].prog_freq \in Hertz /\ pcb[t].divisor >= 1
      /\ pcb[t].divisor = higher_freq \div pcb[t].prog_freq
      /\ pcb[t].divisor \in 0 .. Word - 1
  <2>1. /\ used_pids[t] = 1 /\ pcb[t].prog_freq \in Freqs
        /\ proc[t].pc \notin StalePoints /\ Settled(t)
    BY <1>0, Facts DEF Control, Writing, StalePoints, Settled, SelectWindow
  <2>2. pcb[t].prog_freq > 0 /\ pcb[t].divisor \in Hertz
    BY <2>1, Facts DEF Freqs, Pcbs
  <2>3. pcb[t].divisor * pcb[t].prog_freq = higher_freq
    BY <2>1, <2>2, Facts DEF Exact
  <2>4. PICK x \in Freqs, y \in Freqs, d \in Hertz :
          x = pcb[t].prog_freq /\ y = higher_freq /\ d = pcb[t].divisor
    BY <2>1, <2>2, Facts
  <2>5. Divides(d, x, y)
    BY <2>3, <2>4 DEF Divides
  <2>6. d >= 1 /\ d = y \div x
    BY <2>5, Divisor, Zenon
  <2>7. d \in Hertz /\ d \in 0 .. Word - 1
    BY RtcAssumption DEF Hertz
  <2> QED
    BY <2>4, <2>6, <2>7
<1>1. PICK r \in Procs : r = proc[t]
  BY Facts, <1>a
<1>2. PICK p : p = [r EXCEPT !.pc = "read_reset"]
  OBVIOUS
<1>3. p \in Procs
  <2>1. "read_reset" \in Points /\ 0 \in Hertz
    BY DEF Points, Hertz
  <2> QED
    BY <1>2, <2>1, Zenon DEF Procs
<1>4. p.pc = "read_reset" /\ p.i = proc[t].i /\ p.ret = proc[t].ret
  BY <1>1, <1>2 DEF Procs
<1>5. PICK b \in Pcbs : b = [pcb[t] EXCEPT !.count = pcb[t].divisor]
  <2>1. PICK c \in Pcbs, d \in 0 .. Word - 1 :
          c = pcb[t] /\ d = pcb[t].divisor
    BY Facts, <1>a
  <2>3. [c EXCEPT !.count = d] \in Pcbs
    BY Zenon DEF Pcbs
  <2> QED
    BY <2>1, <2>3
<1>6. b.count = pcb[t].divisor /\ b.prog_freq = pcb[t].prog_freq /\ b.divisor = pcb[t].divisor
  BY <1>5, Facts DEF Pcbs
<1>7. Local(t, p, b)
  BY <1>0, <1>1, <1>2, <1>5, <1>a, Facts, SameValue DEF rtc_read, Goto, Local
<1>8. /\ proc'[t] = p /\ pcb'[t] = b /\ used_pids'[t] = used_pids[t]
      /\ rtc_interrupt_flags'[t] = rtc_interrupt_flags[t]
  BY <1>7, Facts DEF Local, rtc_read
<1>9. ChipStep(t, p)
  BY <1>0, <1>4, Facts, <1>a DEF ChipStep, rtc_read, Chips, PendingPoints, SelectWindow
<1>10. OwnInv(t)'
  <2>1. Control(t)' /\ Writing(t)'
    BY <1>0, <1>4, <1>6, <1>7, <1>8, Facts, <1>a, <1>1 DEF Local, Control, Writing,
       StalePoints, SelectWindow,
       UpdateWindow, Loops
  <2>2. Closing(t)' /\ Setting(t)'
    BY <1>0, <1>4, <1>6, <1>7, <1>8, Facts, <1>a, <1>1 DEF Local, Closing, Setting,
       SelectWindow, Loops
  <2>3. Reading(t)'
    BY <1>0, <1>4, <1>6, <1>7, <1>8, Facts, <1>a, <1>1 DEF Local, Reading, Loops
  <2>4. Bounded(t)'
    BY <1>0, <1>4, <1>6, <1>7, <1>8, Facts, <1>a, <1>1 DEF Local, Bounded, Writing, Loops
  <2>5. Exact(t)'
    BY <1>0, <1>4, <1>6, <1>7, <1>8, Facts, <1>a, <1>1 DEF Local, Exact, Settled, Control,
       StalePoints, SelectWindow, Loops
  <2> QED
    BY <2>1, <2>2, <2>3, <2>4, <2>5 DEF OwnInv
<1>11. \A s \in Terminals : Settled(s)' => Settled(s)
  BY <1>0, <1>4, <1>7, <1>8, Facts DEF Settled, Local, SelectWindow, Control
<1> QED
  BY <1>3, <1>5, <1>7, <1>9, <1>10, <1>11, LocalStep, Facts

\* The flag is lowered.
LEMMA ReadResetInv ==
    ASSUME IInv, NEW t \in Terminals, ReadReset(t)
    PROVE  IInv'
<1>0. proc[t].pc = "read_reset" /\ t = curr_process
  BY DEF ReadReset, At
<1>1. PICK r \in Procs : r = proc[t]
  BY Facts
<1>2. PICK p : p = [r EXCEPT !.pc = "read_wait"]
  OBVIOUS
<1>3. p \in Procs
  <2>1. "read_wait" \in Points
    BY DEF Points
  <2> QED
    BY <1>2, <2>1, Zenon DEF Procs
<1>4. p.pc = "read_wait" /\ p.i = proc[t].i /\ p.ret = proc[t].ret
  BY <1>1, <1>2 DEF Procs
<1>7. Local(t, p, pcb[t])
  BY <1>0, <1>1, <1>2, Facts, SameValue DEF ReadReset, Goto, Local
<1>8. /\ proc'[t] = p /\ pcb'[t] = pcb[t] /\ used_pids'[t] = used_pids[t]
      /\ rtc_interrupt_flags'[t] = 0
  BY <1>7, Facts DEF Local, ReadReset
<1>9. ChipStep(t, p)
  BY <1>0, <1>4, Facts DEF ChipStep, ReadReset, Chips, PendingPoints, SelectWindow
<1>10. OwnInv(t)'
  <2>1. Control(t)' /\ Writing(t)'
    BY <1>0, <1>4, <1>7, <1>8, Facts, Numbers DEF Local, Control, Writing, StalePoints,
       SelectWindow,
       UpdateWindow, Loops
  <2>2. Closing(t)' /\ Setting(t)'
    BY <1>0, <1>4, <1>7, <1>8, Facts, Numbers DEF Local, Closing, Setting, SelectWindow, Loops
  <2>3. Reading(t)'
    BY <1>0, <1>4, <1>7, <1>8, Facts, Numbers DEF Local, Reading, Loops
  <2>4. Bounded(t)'
    BY <1>0, <1>4, <1>7, <1>8, Facts, Numbers DEF Local, Bounded, Writing, Loops
  <2>5. Exact(t)'
    BY <1>0, <1>4, <1>7, <1>8, Facts, Numbers DEF Local, Exact, Settled, Control, StalePoints,
       SelectWindow, Loops
  <2> QED
    BY <2>1, <2>2, <2>3, <2>4, <2>5 DEF OwnInv
<1>11. \A s \in Terminals : Settled(s)' => Settled(s)
  BY <1>0, <1>4, <1>7, <1>8, Facts DEF Settled, Local, SelectWindow, Control
<1> QED
  BY <1>3, <1>7, <1>9, <1>10, <1>11, LocalStep, Facts

\* An interrupt is counted.
LEMMA ReadCountInv ==
    ASSUME IInv, NEW t \in Terminals, ReadCount(t)
    PROVE  IInv'
<1>0. proc[t].pc = "read_wait" /\ t = curr_process
  BY DEF ReadCount, At
<1>a. PICK k \in 0 .. Word - 1 : k = pcb[t].count - 1 /\ k = (pcb[t].count - 1) % Word
  <2>1. PICK c \in 0 .. Word - 1 : c = pcb[t].count /\ c >= 1
    BY <1>0, Facts DEF Reading, Pcbs
  <2>2. (c - 1) % Word = c - 1
    BY <2>1, RtcAssumption
  <2> QED
    BY <2>1, <2>2, RtcAssumption
<1>1. PICK r \in Procs, l \in {"read_reset", "read_return"} :
        r = proc[t] /\ l = (IF k > 0 THEN "read_reset" ELSE "read_return")
  BY Facts, <1>a
<1>2. PICK p : p = [r EXCEPT !.pc = l]
  OBVIOUS
<1>3. p \in Procs
  <2>1. l \in Points
    BY DEF Points
  <2> QED
    BY <1>2, <2>1, Zenon DEF Procs
<1>4. p.pc = l /\ p.i = proc[t].i /\ p.ret = proc[t].ret
  BY <1>1, <1>2 DEF Procs
<1>5. PICK b \in Pcbs : b = [pcb[t] EXCEPT !.count = k]
  <2>1. PICK c \in Pcbs : c = pcb[t]
    BY Facts, <1>a
  <2>3. [c EXCEPT !.count = k] \in Pcbs
    BY Zenon DEF Pcbs
  <2> QED
    BY <2>1, <2>3
<1>6. b.count = k /\ b.prog_freq = pcb[t].prog_freq /\ b.divisor = pcb[t].divisor
  BY <1>5, Facts DEF Pcbs
<1>b. pcb' = [pcb EXCEPT ![t].count = k] /\ proc' = [proc EXCEPT ![t].pc = l]
  BY <1>1, <1>a DEF ReadCount, Goto
<1>7. Local(t, p, b)
  BY <1>0, <1>1, <1>2, <1>5, <1>b, <1>a, Facts, SameValue DEF ReadCount, Goto, Local
<1>8. /\ proc'[t] = p /\ pcb'[t] = b /\ used_pids'[t] = used_pids[t]
      /\ rtc_interrupt_flags'[t] = rtc_interrupt_flags[t]
  BY <1>7, Facts DEF Local, ReadCount
<1>9. ChipStep(t, p)
  BY <1>0, <1>4, Facts, <1>a DEF ChipStep, ReadCount, Chips, PendingPoints, SelectWindow
<1>10. OwnInv(t)'
  <2>1. Control(t)' /\ Writing(t)'
    BY <1>0, <1>4, <1>6, <1>7, <1>8, Facts, <1>a, <1>1, Numbers DEF Local, Control, Writing,
       StalePoints, SelectWindow,
       UpdateWindow, Loops, ReadCount
  <2>2. Closing(t)' /\ Setting(t)'
    BY <1>0, <1>4, <1>6, <1>7, <1>8, Facts, <1>a, <1>1, Numbers DEF Local, Closing, Setting,
       SelectWindow, Loops, ReadCount
  <2>3. Reading(t)'
    BY <1>0, <1>4, <1>6, <1>7, <1>8, Facts, <1>a, <1>1, Numbers DEF Local, Reading, Loops,
       ReadCount
  <2>4. Bounded(t)'
    BY <1>0, <1>4, <1>6, <1>7, <1>8, Facts, <1>a, <1>1, Numbers DEF Local, Bounded, Writing,
       Loops, ReadCount
  <2>5. Exact(t)'
    BY <1>0, <1>4, <1>6, <1>7, <1>8, Facts, <1>a, <1>1, Numbers DEF Local, Exact, Settled,
       Control, StalePoints, SelectWindow, Loops, ReadCount
  <2> QED
    BY <2>1, <2>2, <2>3, <2>4, <2>5 DEF OwnInv
<1>11. \A s \in Terminals : Settled(s)' => Settled(s)
  BY <1>0, <1>4, <1>7, <1>8, Facts DEF Settled, Local, SelectWindow, Control
<1> QED
  BY <1>3, <1>5, <1>b, <1>7, <1>9, <1>10, <1>11, LocalStep, Facts

\* A program asks for a frequency.
LEMMA WriteInv ==
    ASSUME IInv, NEW t \in Terminals, NEW freq \in Requests, rtc_write(t, freq)
    PROVE  IInv'
<1>0. proc[t].pc = "user" /\ t = curr_process
  BY DEF rtc_write, At
<1>a. freq \in Freqs /\ freq \in Hertz
  BY ValidFreqs DEF rtc_write, Freqs, Hertz
<1>1. PICK r \in Procs, x \in Hertz :
        r = proc[t] /\ x = freq
  BY Facts, <1>a
<1>2. PICK p : p = [r EXCEPT !.pc = "write_test", !.freq = x]
  OBVIOUS
<1>3. p \in Procs
  <2>1. "write_test" \in Points
    BY DEF Points
  <2> QED
    BY <1>2, <2>1, Zenon DEF Procs
<1>4. p.pc = "write_test" /\ p.freq = freq /\ p.i = proc[t].i /\ p.ret = proc[t].ret
  BY <1>1, <1>2 DEF Procs
<1>5. PICK b \in Pcbs : b = [pcb[t] EXCEPT !.prog_freq = x]
  <2>1. PICK c \in Pcbs : c = pcb[t]
    BY Facts, <1>a
  <2>3. [c EXCEPT !.prog_freq = x] \in Pcbs
    BY Zenon DEF Pcbs
  <2> QED
    BY <2>1, <2>3
<1>6. b.prog_freq = x /\ b.count = pcb[t].count /\ b.divisor = pcb[t].divisor
  BY <1>5, Facts DEF Pcbs
<1>7. Local(t, p, b)
  BY <1>0, <1>1, <1>2, <1>5, <1>a, Facts, SameValue DEF rtc_write, Local
<1>8. /\ proc'[t] = p /\ pcb'[t] = b /\ used_pids'[t] = used_pids[t]
      /\ rtc_interrupt_flags'[t] = rtc_interrupt_flags[t]
  BY <1>7, Facts DEF Local, rtc_write
<1>9. ChipStep(t, p)
  BY <1>0, <1>4, Facts, <1>a DEF ChipStep, rtc_write, Chips, PendingPoints, SelectWindow
<1>10. OwnInv(t)'
  <2>1. Control(t)' /\ Writing(t)'
    BY <1>0, <1>4, <1>6, <1>7, <1>8, Facts, <1>a, <1>1 DEF Local, Control, Writing,
       StalePoints, SelectWindow,
       UpdateWindow, Loops
  <2>2. Closing(t)' /\ Setting(t)'
    BY <1>0, <1>4, <1>6, <1>7, <1>8, Facts, <1>a, <1>1 DEF Local, Closing, Setting,
       SelectWindow, Loops
  <2>3. Reading(t)'
    BY <1>0, <1>4, <1>6, <1>7, <1>8, Facts, <1>a, <1>1 DEF Local, Reading, Loops
  <2>4. Bounded(t)'
    BY <1>0, <1>4, <1>6, <1>7, <1>8, Facts, <1>a, <1>1 DEF Local, Bounded, Writing, Loops
  <2>5. Exact(t)'
    BY <1>0, <1>4, <1>6, <1>7, <1>8, Facts, <1>a, <1>1 DEF Local, Exact, Settled, Control,
       StalePoints, SelectWindow, Loops
  <2> QED
    BY <2>1, <2>2, <2>3, <2>4, <2>5 DEF OwnInv
<1>11. \A s \in Terminals : Settled(s)' => Settled(s)
  BY <1>0, <1>4, <1>7, <1>8, Facts DEF Settled, Local, SelectWindow, Control
<1> QED
  BY <1>3, <1>5, <1>7, <1>9, <1>10, <1>11, LocalStep, Facts

\* The divisor of a frequency that is not the highest.
LEMMA WriteOwnInv ==
    ASSUME IInv, NEW t \in Terminals, WriteOwn(t)
    PROVE  IInv'
<1>0. proc[t].pc = "write_own" /\ t = curr_process
  BY DEF WriteOwn, At
<1>a. PICK d \in Hertz : d = higher_freq \div proc[t].freq /\ d * pcb[t].prog_freq = higher_freq
  <2>1. PICK x \in Freqs, y \in Freqs : x = proc[t].freq /\ y = higher_freq
                                       /\ x = pcb[t].prog_freq /\ x <= y
    <3>1. used_pids[t] = 1
      BY <1>0, Facts DEF Control, SelectWindow
    <3> QED
      BY <1>0, <3>1, Facts DEF Writing, Bounded, StalePoints
  <2>2. PICK d \in Hertz : d = y \div x /\ Divides(d, x, y)
    BY <2>1, Quotient, Zenon
  <2> QED
    BY <2>1, <2>2 DEF Divides
<1>1. PICK r \in Procs : r = proc[t]
  BY Facts, <1>a DEF Freqs, Hertz
<1>2. PICK p : p = [r EXCEPT !.pc = "write_set"]
  OBVIOUS
<1>3. p \in Procs
  <2>1. "write_set" \in Points
    BY DEF Points
  <2> QED
    BY <1>2, <2>1, Zenon DEF Procs
<1>4. p.pc = "write_set" /\ p.i = proc[t].i /\ p.ret = proc[t].ret /\ p.freq = proc[t].freq
  BY <1>1, <1>2 DEF Procs
<1>5. PICK b \in Pcbs : b = [pcb[t] EXCEPT !.divisor = d]
  <2>1. PICK c \in Pcbs : c = pcb[t]
    BY Facts, <1>a
  <2>3. [c EXCEPT !.divisor = d] \in Pcbs
    BY Zenon DEF Pcbs
  <2> QED
    BY <2>1, <2>3
<1>6. b.divisor = d /\ b.prog_freq = pcb[t].prog_freq /\ b.count = pcb[t].count
  BY <1>5, Facts DEF Pcbs
<1>7. Local(t, p, b)
  BY <1>0, <1>1, <1>2, <1>5, <1>a, Facts, SameValue DEF WriteOwn, Goto, Local
<1>8. /\ proc'[t] = p /\ pcb'[t] = b /\ used_pids'[t] = used_pids[t]
      /\ rtc_interrupt_flags'[t] = rtc_interrupt_flags[t]
  BY <1>7, Facts DEF Local, WriteOwn
<1>9. ChipStep(t, p)
  BY <1>0, <1>4, Facts, <1>a DEF ChipStep, WriteOwn, Chips, PendingPoints, SelectWindow
<1>10. OwnInv(t)'
  <2>1. Control(t)' /\ Writing(t)'
    BY <1>0, <1>4, <1>6, <1>7, <1>8, Facts, <1>a DEF Local, Control, Writing, StalePoints,
       SelectWindow,
       UpdateWindow, Loops
  <2>2. Closing(t)' /\ Setting(t)'
    BY <1>0, <1>4, <1>6, <1>7, <1>8, Facts, <1>a DEF Local, Closing, Setting, SelectWindow,
       Loops
  <2>3. Reading(t)'
    BY <1>0, <1>4, <1>6, <1>7, <1>8, Facts, <1>a DEF Local, Reading, Loops
  <2>4. Bounded(t)'
    BY <1>0, <1>4, <1>6, <1>7, <1>8, Facts, <1>a DEF Local, Bounded, Writing, Loops
  <2>5. Exact(t)'
    BY <1>0, <1>4, <1>6, <1>7, <1>8, Facts, <1>a DEF Local, Exact, Settled, Control,
       StalePoints, SelectWindow, Loops
  <2> QED
    BY <2>1, <2>2, <2>3, <2>4, <2>5 DEF OwnInv
<1>11. \A s \in Terminals : Settled(s)' => Settled(s)
  BY <1>0, <1>4, <1>7, <1>8, Facts DEF Settled, Local, SelectWindow, Control
<1> QED
  BY <1>3, <1>5, <1>7, <1>9, <1>10, <1>11, LocalStep, Facts

\* A program that has the clock closed halts.
LEMMA HaltClosedInv ==
    ASSUME IInv, NEW t \in Terminals, proc[t].open # 1, sys_halt(t)
    PROVE  IInv'
<1>0. proc[t].pc = "user" /\ t = curr_process
  BY DEF sys_halt, At
<1>a. used_pids' \in [Terminals -> {0, 1}] /\ used_pids'[t] = 0
  BY Facts DEF sys_halt
<1>1. PICK r \in Procs : r = proc[t]
  BY Facts, <1>a
<1>2. PICK p : p = [r EXCEPT !.pc = "dead"]
  OBVIOUS
<1>3. p \in Procs
  <2>1. "dead" \in Points
    BY DEF Points
  <2> QED
    BY <1>2, <2>1, Zenon DEF Procs
<1>4. p.pc = "dead" /\ p.i = proc[t].i /\ p.ret = proc[t].ret
  BY <1>1, <1>2 DEF Procs
<1>7. Local(t, p, pcb[t])
  BY <1>0, <1>1, <1>2, <1>a, Facts, SameValue DEF sys_halt, Local
<1>8. /\ proc'[t] = p /\ pcb'[t] = pcb[t]
      /\ rtc_interrupt_flags'[t] = rtc_interrupt_flags[t]
      /\ used_pids'[t] = 0
  BY <1>7, Facts DEF Local, sys_halt
<1>9. ChipStep(t, p)
  BY <1>0, <1>4, Facts, <1>a DEF ChipStep, sys_halt, Chips, PendingPoints, SelectWindow
<1>10. OwnInv(t)'
  <2>1. Control(t)' /\ Writing(t)'
    BY <1>0, <1>4, <1>7, <1>8, Facts, <1>a DEF Local, Control, Writing, StalePoints,
       SelectWindow,
       UpdateWindow, Loops
  <2>2. Closing(t)' /\ Setting(t)'
    BY <1>0, <1>4, <1>7, <1>8, Facts, <1>a DEF Local, Closing, Setting, SelectWindow, Loops
  <2>3. Reading(t)'
    BY <1>0, <1>4, <1>7, <1>8, Facts, <1>a DEF Local, Reading, Loops
  <2>4. Bounded(t)'
    BY <1>0, <1>4, <1>7, <1>8, Facts, <1>a DEF Local, Bounded, Writing, Loops
  <2>5. Exact(t)'
    BY <1>0, <1>4, <1>7, <1>8, Facts, <1>a DEF Local, Exact, Settled, Control, StalePoints,
       SelectWindow, Loops
  <2> QED
    BY <2>1, <2>2, <2>3, <2>4, <2>5 DEF OwnInv
<1>11. \A s \in Terminals : Settled(s)' => Settled(s)
  BY <1>0, <1>4, <1>7, <1>8, Facts DEF Settled, Local, SelectWindow, Control
<1> QED
  BY <1>3, <1>7, <1>9, <1>10, <1>11, LocalStep, Facts

\* A program that has the clock open closes it when it halts.
LEMMA HaltOpenInv ==
    ASSUME IInv, NEW t \in Terminals, proc[t].open = 1, sys_halt(t)
    PROVE  IInv'
<1>0. proc[t].pc = "user" /\ t = curr_process
  BY DEF sys_halt, At
<1>a. used_pids' \in [Terminals -> {0, 1}] /\ used_pids'[t] = 0
  BY Facts DEF sys_halt
<1>1. PICK r \in Procs : r = proc[t]
  BY Facts, <1>a
<1>2. PICK p : p = [r EXCEPT !.pc = "close_max", !.open = 0, !.max = 2]
  OBVIOUS
<1>3. p \in Procs
  <2>1. "close_max" \in Points /\ 2 \in Hertz
    BY DEF Points, Hertz
  <2> QED
    BY <1>2, <2>1, Zenon DEF Procs
<1>4. p.pc = "close_max" /\ p.max = 2 /\ p.i = proc[t].i /\ p.ret = proc[t].ret
  BY <1>1, <1>2 DEF Procs
<1>7. Local(t, p, pcb[t])
  BY <1>0, <1>1, <1>2, <1>a, Facts, SameValue DEF sys_halt, Local
<1>8. /\ proc'[t] = p /\ pcb'[t] = pcb[t]
      /\ rtc_interrupt_flags'[t] = rtc_interrupt_flags[t]
      /\ used_pids'[t] = 0
  BY <1>7, Facts DEF Local, sys_halt
<1>9. ChipStep(t, p)
  BY <1>0, <1>4, Facts, <1>a DEF ChipStep, sys_halt, Chips, PendingPoints, SelectWindow
<1>10. OwnInv(t)'
  <2>1. Control(t)' /\ Writing(t)'
    BY <1>0, <1>4, <1>7, <1>8, Facts, <1>a DEF Local, Control, Writing, StalePoints,
       SelectWindow,
       UpdateWindow, Loops, Freqs, Terminals
  <2>2. Closing(t)' /\ Setting(t)'
    <3>1. proc'[t].i = 0
      BY <1>0, <1>4, <1>8, Facts DEF Control, Loops
    <3>2. \A u \in Terminals : ~ (u < 0)
      BY DEF Terminals
    <3>3. Closing(t)'
      BY <1>4, <1>8, <3>1, <3>2 DEF Closing, Freqs
    <3> QED
      BY <1>4, <1>8, <3>3 DEF Setting, SelectWindow
  <2>3. Reading(t)'
    BY <1>0, <1>4, <1>7, <1>8, Facts, <1>a DEF Local, Reading, Loops, Freqs, Terminals
  <2>4. Bounded(t)'
    BY <1>0, <1>4, <1>7, <1>8, Facts, <1>a DEF Local, Bounded, Writing, Loops, Freqs, Terminals
  <2>5. Exact(t)'
    BY <1>0, <1>4, <1>7, <1>8, Facts, <1>a DEF Local, Exact, Settled, Control, StalePoints,
       SelectWindow, Loops, Freqs, Terminals
  <2> QED
    BY <2>1, <2>2, <2>3, <2>4, <2>5 DEF OwnInv
<1>11. \A s \in Terminals : Settled(s)' => Settled(s)
  BY <1>0, <1>4, <1>7, <1>8, Facts DEF Settled, Local, SelectWindow, Control
<1> QED
  BY <1>3, <1>7, <1>9, <1>10, <1>11, LocalStep, Facts

\* The next program starts with a new block.
LEMMA ExecuteInv ==
    ASSUME IInv, NEW t \in Terminals, sys_execute(t)
    PROVE  IInv'
<1>0. proc[t].pc = "dead" /\ t = curr_process
  BY DEF sys_execute, At
<1>a. used_pids' \in [Terminals -> {0, 1}] /\ used_pids'[t] = 1
  BY Facts DEF sys_execute
<1>1. PICK r \in Procs : r = proc[t]
  BY Facts, <1>a
<1>2. PICK p : p = NewProgram
  OBVIOUS
<1>3. p \in Procs
  <2>1. "user" \in Points /\ 0 \in Hertz /\ 0 \in Terminals
    BY RtcAssumption DEF Points, Hertz, Terminals, NewProgram
  <2> QED
    BY <1>2, <2>1, Zenon DEF Procs, NewProgram
<1>4. p.pc = "user" /\ p.i = 0 /\ p.ret = "user"
  BY <1>1, <1>2 DEF Procs, NewProgram
<1>5. PICK b \in Pcbs : b = ZeroPcb
  <2>1. PICK c \in Pcbs : c = pcb[t]
    BY Facts, <1>a
  <2>2. 0 \in Hertz /\ 0 \in 0 .. Word - 1
    BY RtcAssumption DEF Hertz
  <2>3. ZeroPcb \in Pcbs
    BY <2>2, Zenon DEF Pcbs, ZeroPcb
  <2> QED
    BY <2>1, <2>3
<1>6. b.prog_freq = 0
  BY <1>5, Facts DEF Pcbs, ZeroPcb
<1>7. Local(t, p, b)
  BY <1>0, <1>1, <1>2, <1>5, <1>a, Facts, SameValue DEF sys_execute, Local
<1>8. /\ proc'[t] = p /\ pcb'[t] = b
      /\ rtc_interrupt_flags'[t] = rtc_interrupt_flags[t]
      /\ used_pids'[t] = 1
  BY <1>7, Facts DEF Local, sys_execute
<1>9. ChipStep(t, p)
  BY <1>0, <1>4, Facts, <1>a DEF ChipStep, sys_execute, Chips, PendingPoints, SelectWindow
<1>10. OwnInv(t)'
  <2>1. Control(t)' /\ Writing(t)'
    BY <1>0, <1>4, <1>6, <1>7, <1>8, Facts, <1>a DEF Local, Control, Writing, StalePoints,
       SelectWindow,
       UpdateWindow, Loops, Freqs
  <2>2. Closing(t)' /\ Setting(t)'
    BY <1>0, <1>4, <1>6, <1>7, <1>8, Facts, <1>a DEF Local, Closing, Setting, SelectWindow,
       Loops, Freqs
  <2>3. Reading(t)'
    BY <1>0, <1>4, <1>6, <1>7, <1>8, Facts, <1>a DEF Local, Reading, Loops, Freqs
  <2>4. Bounded(t)'
    BY <1>0, <1>4, <1>6, <1>7, <1>8, Facts, <1>a DEF Local, Bounded, Writing, Loops, Freqs
  <2>5. Exact(t)'
    BY <1>0, <1>4, <1>6, <1>7, <1>8, Facts, <1>a DEF Local, Exact, Settled, Control,
       StalePoints, SelectWindow, Loops, Freqs
  <2> QED
    BY <2>1, <2>2, <2>3, <2>4, <2>5 DEF OwnInv
<1>11. \A s \in Terminals : Settled(s)' => Settled(s)
  BY <1>0, <1>4, <1>7, <1>8, Facts DEF Settled, Local, SelectWindow, Control
<1> QED
  BY <1>3, <1>5, <1>7, <1>9, <1>10, <1>11, LocalStep, Facts

\* rtc_close looks at another process.
LEMMA CloseMaxInv ==
    ASSUME IInv, NEW t \in Terminals, proc[t].i + 1 \in Terminals, CloseMax(t)
    PROVE  IInv'
<1>0. proc[t].pc = "close_max" /\ t = curr_process
  BY DEF CloseMax, At
<1>a. PICK j \in Terminals, m \in Hertz :
        /\ j = proc[t].i /\ m \in Freqs /\ m >= proc[t].max
        /\ m = IF used_pids[j] = 1 /\ pcb[j].prog_freq > proc[t].max
               THEN pcb[j].prog_freq ELSE proc[t].max
  <2>1. proc[t].i \in Terminals /\ proc[t].max \in Freqs
    BY <1>0, Facts DEF Procs, Closing
  <2>2. pcb[proc[t].i].prog_freq \in {0} \cup Freqs
    BY <2>1, Facts DEF Writing
  <2> QED
    BY <2>1, <2>2 DEF Freqs, Hertz
<1>1. PICK r \in Procs, n \in Terminals :
        r = proc[t] /\ n = proc[t].i + 1
  BY Facts, <1>a
<1>2. PICK p : p = [r EXCEPT !.i = n, !.max = m]
  OBVIOUS
<1>3. p \in Procs
  BY <1>2, Zenon DEF Procs
<1>4. p.pc = "close_max" /\ p.i = proc[t].i + 1 /\ p.max = m /\ p.ret = proc[t].ret
  BY <1>0, <1>1, <1>2 DEF Procs
<1>b. proc' = [proc EXCEPT ![t] = p]
  <2>1. m = IF used_pids[proc[t].i] = 1 /\ pcb[proc[t].i].prog_freq > proc[t].max
            THEN pcb[proc[t].i].prog_freq ELSE proc[t].max
    BY <1>a
  <2>2. proc' = [proc EXCEPT ![t] = [proc[t] EXCEPT !.i = proc[t].i + 1, !.max = m]]
    BY <2>1, Zenon DEF CloseMax
  <2> QED
    BY <1>1, <1>2, <2>2
<1>7. Local(t, p, pcb[t])
  BY <1>0, <1>1, <1>2, <1>b, <1>a, Facts, SameValue DEF CloseMax, Local
<1>8. /\ proc'[t] = p /\ pcb'[t] = pcb[t] /\ used_pids'[t] = used_pids[t]
      /\ rtc_interrupt_flags'[t] = rtc_interrupt_flags[t]
  BY <1>7, Facts DEF Local, CloseMax
<1>9. ChipStep(t, p)
  BY <1>0, <1>4, Facts, <1>a DEF ChipStep, CloseMax, Chips, PendingPoints, SelectWindow
<1>10. OwnInv(t)'
  <2>1. Control(t)' /\ Writing(t)'
    BY <1>0, <1>4, <1>7, <1>8, Facts, <1>a, Numbers DEF Local, Control, Writing, StalePoints,
       SelectWindow,
       UpdateWindow, Loops
  <2>2. Closing(t)' /\ Setting(t)'
    <3>1. ASSUME NEW u \in Terminals, used_pids[u] = 1, u < j + 1
          PROVE  pcb[u].prog_freq <= m
      <4>1. /\ u \in Nat /\ j \in Nat /\ m \in Nat /\ pcb[u].prog_freq \in Nat
            /\ proc[t].max \in Nat
        BY <1>a, Numbers
      <4>2. CASE u < j
        BY <1>0, <1>a, <3>1, <4>1, <4>2, Facts DEF Closing
      <4>3. CASE u = j
        BY <1>a, <3>1, <4>1, <4>3
      <4> QED
        BY <3>1, <4>1, <4>2, <4>3
    <3>2. Closing(t)'
      <4>1. /\ proc'[t].pc = "close_max" /\ proc'[t].i = j + 1 /\ proc'[t].max = m
            /\ pcb' = pcb /\ used_pids' = used_pids
        BY <1>4, <1>8, <1>a DEF CloseMax
      <4> QED
        BY <1>a, <3>1, <4>1 DEF Closing
    <3> QED
      BY <1>4, <1>8, <3>2 DEF Setting, SelectWindow
  <2>3. Reading(t)'
    BY <1>0, <1>4, <1>7, <1>8, Facts, <1>a, Numbers DEF Local, Reading, Loops
  <2>4. Bounded(t)'
    BY <1>0, <1>4, <1>7, <1>8, Facts, <1>a, Numbers DEF Local, Bounded, Writing, Loops
  <2>5. Exact(t)'
    BY <1>0, <1>4, <1>7, <1>8, Facts, <1>a, Numbers DEF Local, Exact, Settled, Control,
       StalePoints, SelectWindow, Loops
  <2> QED
    BY <2>1, <2>2, <2>3, <2>4, <2>5 DEF OwnInv
<1>11. \A s \in Terminals : Settled(s)' => Settled(s)
  BY <1>0, <1>4, <1>7, <1>8, Facts DEF Settled, Local, SelectWindow, Control
<1> QED
  BY <1>3, <1>b, <1>7, <1>9, <1>10, <1>11, LocalStep, Facts

\* rtc_close has looked at every process.
LEMMA CloseMaxEndInv ==
    ASSUME IInv, NEW t \in Terminals, proc[t].i + 1 \notin Terminals, CloseMax(t)
    PROVE  IInv'
<1>0. proc[t].pc = "close_max" /\ t = curr_process
  BY DEF CloseMax, At
<1>a. PICK j \in Terminals, m \in Hertz :
        /\ j = proc[t].i /\ m \in Freqs /\ m >= proc[t].max
        /\ m = IF used_pids[j] = 1 /\ pcb[j].prog_freq > proc[t].max
               THEN pcb[j].prog_freq ELSE proc[t].max
  <2>1. proc[t].i \in Terminals /\ proc[t].max \in Freqs
    BY <1>0, Facts DEF Procs, Closing
  <2>2. pcb[proc[t].i].prog_freq \in {0} \cup Freqs
    BY <2>1, Facts DEF Writing
  <2> QED
    BY <2>1, <2>2 DEF Freqs, Hertz
<1>1. PICK r \in Procs : r = proc[t]
  BY Facts, <1>a
<1>2. PICK p : p = [r EXCEPT !.pc = "close_assign", !.i = 0, !.max = m]
  OBVIOUS
<1>3. p \in Procs
  <2>1. "close_assign" \in Points /\ 0 \in Terminals
    BY RtcAssumption DEF Points, Hertz, Terminals
  <2> QED
    BY <1>2, <2>1, Zenon DEF Procs
<1>4. p.pc = "close_assign" /\ p.i = 0 /\ p.max = m /\ p.ret = proc[t].ret
  BY <1>1, <1>2 DEF Procs
<1>b. proc' = [proc EXCEPT ![t] = p]
  BY <1>1, <1>2, <1>a DEF CloseMax
<1>7. Local(t, p, pcb[t])
  BY <1>0, <1>1, <1>2, <1>b, <1>a, Facts, SameValue DEF CloseMax, Local
<1>8. /\ proc'[t] = p /\ pcb'[t] = pcb[t] /\ used_pids'[t] = used_pids[t]
      /\ rtc_interrupt_flags'[t] = rtc_interrupt_flags[t]
  BY <1>7, Facts DEF Local, CloseMax
<1>9. ChipStep(t, p)
  BY <1>0, <1>4, Facts, <1>a DEF ChipStep, CloseMax, Chips, PendingPoints, SelectWindow
<1>10. OwnInv(t)'
  <2>1. Control(t)' /\ Writing(t)'
    BY <1>0, <1>4, <1>7, <1>8, Facts, <1>a, Numbers DEF Local, Control, Writing, StalePoints,
       SelectWindow,
       UpdateWindow, Loops
  <2>2. Closing(t)' /\ Setting(t)'
    <3>1. ASSUME NEW u \in Terminals, used_pids[u] = 1
          PROVE  pcb[u].prog_freq <= m
      <4>1. /\ u \in Nat /\ j \in Nat /\ m \in Nat /\ pcb[u].prog_freq \in Nat
            /\ proc[t].max \in Nat
        BY <1>a, Numbers
      <4>2. CASE u < j
        BY <1>0, <1>a, <3>1, <4>1, <4>2, Facts DEF Closing
      <4>3. CASE u = j
        BY <1>a, <3>1, <4>1, <4>3
      <4>4. ~ (j + 1 \in Terminals) => u <= j
        BY <4>1, RtcAssumption DEF Terminals
      <4> QED
        BY <1>a, <4>1, <4>2, <4>3, <4>4
    <3>2. Closing(t)'
      BY <1>4, <1>7, <1>8, <1>a, <3>1 DEF Closing, Local, CloseMax
    <3> QED
      BY <1>4, <1>8, <3>2 DEF Setting, SelectWindow
  <2>3. Reading(t)'
    BY <1>0, <1>4, <1>7, <1>8, Facts, <1>a, Numbers DEF Local, Reading, Loops
  <2>4. Bounded(t)'
    BY <1>0, <1>4, <1>7, <1>8, Facts, <1>a, Numbers DEF Local, Bounded, Writing, Loops
  <2>5. Exact(t)'
    BY <1>0, <1>4, <1>7, <1>8, Facts, <1>a, Numbers, ZenonT(60) DEF Local, Exact, Settled, Control,
       StalePoints, SelectWindow, Loops
  <2> QED
    BY <2>1, <2>2, <2>3, <2>4, <2>5 DEF OwnInv
<1>11. \A s \in Terminals : Settled(s)' => Settled(s)
  BY <1>0, <1>4, <1>7, <1>8, Facts DEF Settled, Local, SelectWindow, Control
<1> QED
  BY <1>3, <1>b, <1>7, <1>9, <1>10, <1>11, LocalStep, Facts

-----------------------------------------------------------------------------
(***************************************************************************)
(* Steps that change what the other processes use.                         *)
(***************************************************************************)

\* The windows are the running process's.
LEMMA OnlyRunning ==
    ASSUME IInv, NEW s \in Terminals, s # curr_process
    PROVE  proc[s].pc \notin UpdateWindow
BY Facts DEF Control

\* A step of the running process t that changes the highest frequency, with the loop that
\* brings the divisors up to date still before it.
Raised(t, p, f) ==
    /\ t = curr_process
    /\ proc' = [proc EXCEPT ![t] = p]
    /\ higher_freq' = f
    /\ UNCHANGED <<rtc_interrupt_flags, pcb, used_pids, curr_process, chip>>
    /\ p.pc \in {"write_all", "close_set"} /\ p.i = 0

\* Such a step keeps the invariant when it keeps what the invariant says of t and bounds
\* the requests of all.
LEMMA RaisedStep ==
    ASSUME IInv, NEW t \in Terminals, NEW p \in Procs, NEW f \in Freqs, Raised(t, p, f),
           Control(t)', Writing(t)', \A s \in Terminals : Bounded(s)'
    PROVE  IInv'
<1>1. /\ proc' \in [Terminals -> Procs] /\ proc'[t] = p /\ t = curr_process
      /\ \A s \in Terminals \ {t} : proc'[s] = proc[s]
      /\ pcb' = pcb /\ used_pids' = used_pids /\ chip' = chip
      /\ rtc_interrupt_flags' = rtc_interrupt_flags /\ curr_process' = curr_process
      /\ higher_freq' = f /\ p.pc \in {"write_all", "close_set"} /\ p.i = 0
  BY Facts DEF Raised
<1>2. MachineOK' /\ higher_freq' \in Freqs
  <2>1. higher_freq' \in 2 .. 1024
    BY <1>1 DEF Freqs
  <2>2. MachineOK'
    BY <1>1, <2>1, Facts DEF MachineOK
  <2> QED
    BY <1>1, <2>2
<1>3. \A s \in Terminals : Exact(s)'
  <2>1. \A s \in Terminals : ~ (s < 0)
    BY DEF Terminals
  <2>2. \A s \in Terminals : ~ Settled(s)'
    BY <1>1, <2>1 DEF Settled
  <2> QED
    BY <2>2 DEF Exact
<1>4. OwnInv(t)'
  <2>1. Closing(t)' /\ Setting(t)' /\ Reading(t)'
    BY <1>1 DEF Closing, Setting, Reading, SelectWindow
  <2> QED
    BY <1>3, <2>1 DEF OwnInv
<1>5. ASSUME NEW s \in Terminals, s # t PROVE OwnInv(s)'
  <2>1. proc'[s] = proc[s] /\ proc[s].pc \notin UpdateWindow
    BY <1>1, <1>5, OnlyRunning
  <2>2. Control(s)' /\ Writing(s)'
    BY <1>1, <2>1, Facts DEF Control, Writing, UpdateWindow
  <2>3. Closing(s)' /\ Setting(s)'
    BY <2>1 DEF Closing, Setting, UpdateWindow, SelectWindow
  <2>4. Reading(s)'
    BY <1>1, <2>1, Facts DEF Reading
  <2> QED
    BY <1>3, <2>2, <2>3, <2>4 DEF OwnInv
<1>6. ChipRight'
  <2>1. proc'[t].pc \in PendingPoints
    BY <1>1 DEF PendingPoints
  <2>2. chip'.high = 2
    BY <1>1, Facts
  <2> QED
    BY <2>1, <2>2 DEF ChipRight
<1> QED
  BY <1>2, <1>4, <1>5, <1>6 DEF IInv

\* rtc_write raises the frequency above every other.
LEMMA WriteRaiseInv ==
    ASSUME IInv, NEW t \in Terminals, WriteRaise(t)
    PROVE  IInv'
<1>0. proc[t].pc = "write_raise" /\ t = curr_process
  BY DEF WriteRaise, At
<1>1. PICK r \in Procs, f \in Freqs :
        r = proc[t] /\ f = proc[t].freq /\ f > higher_freq /\ f = pcb[t].prog_freq
  BY <1>0, Facts DEF Writing, StalePoints
<1>2. PICK p : p = [r EXCEPT !.pc = "write_all"]
  OBVIOUS
<1>3. p \in Procs
  <2>1. "write_all" \in Points
    BY DEF Points
  <2> QED
    BY <1>2, <2>1, Zenon DEF Procs
<1>4. p.pc = "write_all" /\ p.i = 0 /\ p.ret = "user" /\ p.freq = f
  BY <1>0, <1>1, <1>2, Facts DEF Procs, Control, Loops, SelectWindow
<1>5. Raised(t, p, f)
  BY <1>0, <1>1, <1>2, <1>4 DEF WriteRaise, Goto, Raised
<1>6. proc'[t] = p /\ \A s \in Terminals \ {t} : proc'[s] = proc[s]
  BY <1>5, Facts DEF Raised
<1>7. Control(t)' /\ Writing(t)'
  BY <1>0, <1>1, <1>4, <1>5, <1>6, Facts DEF Raised, Control, Writing, Loops, StalePoints,
     SelectWindow, UpdateWindow
<1>8. ASSUME NEW s \in Terminals PROVE Bounded(s)'
  <2>1. CASE s = t
    BY <1>1, <1>5, <2>1 DEF Bounded, Raised, Freqs
  <2>2. CASE s # t
    <3>1. f \in Nat /\ higher_freq \in Nat /\ pcb[s].prog_freq \in Nat
      BY Numbers DEF Freqs
    <3> QED
      BY <1>1, <1>5, <1>6, <2>2, <3>1, Facts DEF Bounded, Raised
  <2> QED
    BY <2>1, <2>2
<1> QED
  BY <1>3, <1>5, <1>7, <1>8, RaisedStep

\* rtc_close lowers the frequency to the highest that is left.
LEMMA CloseAssignInv ==
    ASSUME IInv, NEW t \in Terminals, CloseAssign(t)
    PROVE  IInv'
<1>0. proc[t].pc = "close_assign" /\ t = curr_process
  BY DEF CloseAssign, At
<1>1. PICK r \in Procs, f \in Freqs : r = proc[t] /\ f = proc[t].max
  BY <1>0, Facts DEF Closing
<1>2. PICK p : p = [r EXCEPT !.pc = "close_set", !.max = 0, !.ret = "close_all"]
  OBVIOUS
<1>3. p \in Procs
  <2>1. "close_set" \in Points /\ 0 \in Hertz
    BY DEF Points, Hertz
  <2> QED
    BY <1>2, <2>1, Zenon DEF Procs
<1>4. p.pc = "close_set" /\ p.i = 0 /\ p.ret = "close_all"
  BY <1>0, <1>1, <1>2, Facts DEF Procs, Control, Loops
<1>5. Raised(t, p, f)
  BY <1>0, <1>1, <1>2, <1>4 DEF CloseAssign, Raised
<1>6. proc'[t] = p
  BY <1>5, Facts DEF Raised
<1>7. Control(t)' /\ Writing(t)'
  BY <1>0, <1>4, <1>5, <1>6, Facts DEF Raised, Control, Writing, Loops, StalePoints,
     SelectWindow, UpdateWindow
<1>8. ASSUME NEW s \in Terminals PROVE Bounded(s)'
  BY <1>0, <1>1, <1>5, Facts DEF Bounded, Closing, Raised
<1> QED
  BY <1>3, <1>5, <1>7, <1>8, RaisedStep

\* A round of a loop that brings the divisor of process proc[t].i up to date, and goes on
\* as p says.
Rounded(t, p, b) ==
    /\ t = curr_process
    /\ proc[t].pc \in {"write_all", "close_all"}
    /\ proc' = [proc EXCEPT ![t] = p]
    /\ pcb' = [pcb EXCEPT ![proc[t].i] = b]
    /\ UNCHANGED <<higher_freq, rtc_interrupt_flags, used_pids, curr_process, chip>>

\* The divisor after a round.
LEMMA RoundDivisor ==
    ASSUME IInv, NEW j \in Terminals, UpdateDivisor(j)
    PROVE  \E b \in Pcbs :
             /\ pcb' = [pcb EXCEPT ![j] = b]
             /\ b.prog_freq = pcb[j].prog_freq /\ b.count = pcb[j].count
             /\ used_pids[j] = 1 /\ pcb[j].prog_freq > 0 /\ pcb[j].prog_freq <= higher_freq =>
                  b.divisor * b.prog_freq = higher_freq
<1>1. CASE used_pids[j] = 1 /\ pcb[j].prog_freq > 0
  <2>1. PICK c \in Pcbs, x \in Freqs, y \in Freqs :
          c = pcb[j] /\ x = pcb[j].prog_freq /\ y = higher_freq
    BY <1>1, Facts DEF Writing
  <2>2. PICK d \in Hertz : d = y \div x /\ (x <= y => Divides(d, x, y))
    BY Quotient, Zenon
  <2>3. PICK b : b = [c EXCEPT !.divisor = d]
    OBVIOUS
  <2>4. b \in Pcbs
    BY <2>3, Zenon DEF Pcbs
  <2>5. b.prog_freq = x /\ b.count = c.count /\ b.divisor = d
    BY <2>1, <2>3 DEF Pcbs
  <2>6. pcb' = [pcb EXCEPT ![j] = b]
    BY <1>1, <2>1, <2>2, <2>3 DEF UpdateDivisor
  <2> QED
    BY <2>1, <2>2, <2>4, <2>5, <2>6 DEF Divides
<1>2. CASE ~ (used_pids[j] = 1 /\ pcb[j].prog_freq > 0)
  <2>1. pcb' = [pcb EXCEPT ![j] = pcb[j]]
    BY <1>2, Facts, SameValue DEF UpdateDivisor
  <2> QED
    BY <1>2, <2>1, Facts
<1> QED
  BY <1>1, <1>2

\* A round keeps the invariant when it keeps what the invariant says of t and leaves no
\* process but j with a divisor that may be wrong.
LEMMA RoundStep ==
    ASSUME IInv, NEW t \in Terminals, NEW p \in Procs, NEW j \in Terminals, NEW b \in Pcbs,
           j = proc[t].i, Rounded(t, p, b),
           b.prog_freq = pcb[j].prog_freq, b.count = pcb[j].count,
           used_pids[j] = 1 /\ pcb[j].prog_freq > 0 /\ pcb[j].prog_freq <= higher_freq =>
             b.divisor * b.prog_freq = higher_freq,
           ChipStep(t, p), Control(t)', Writing(t)',
           p.pc \notin SelectWindow \cup {"close_set", "close_max", "close_assign", "read_reset",
             "read_wait", "read_return"} \cup StalePoints,
           \A s \in Terminals : Settled(s)' => s = j \/ Settled(s)
    PROVE  IInv'
<1>1. /\ proc' \in [Terminals -> Procs] /\ pcb' \in [Terminals -> Pcbs] /\ proc'[t] = p
      /\ \A s \in Terminals \ {t} : proc'[s] = proc[s]
      /\ \A s \in Terminals \ {j} : pcb'[s] = pcb[s]
      /\ pcb'[j] = b /\ t = curr_process
  BY Facts DEF Rounded
<1>2. /\ used_pids' = used_pids /\ chip' = chip /\ higher_freq' = higher_freq
      /\ rtc_interrupt_flags' = rtc_interrupt_flags /\ curr_process' = curr_process
  BY DEF Rounded
<1>3. \A s \in Terminals : pcb'[s].prog_freq = pcb[s].prog_freq /\ pcb'[s].count = pcb[s].count
  BY <1>1
<1>4. MachineOK' /\ higher_freq' \in Freqs
  <2>1. higher_freq' \in 2 .. 1024
    BY <1>2, Facts DEF Freqs
  <2>2. MachineOK'
    BY <1>1, <1>2, <2>1, Facts DEF MachineOK
  <2> QED
    BY <1>2, <2>2, Facts
<1>5. ASSUME NEW s \in Terminals PROVE Bounded(s)'
  <2>1. CASE s # t
    BY <1>1, <1>2, <1>3, <2>1, Facts DEF Bounded
  <2>2. CASE s = t
    BY <1>1, <1>2, <1>3, <2>2, Facts DEF Bounded, Rounded
  <2> QED
    BY <2>1, <2>2
<1>6. ASSUME NEW s \in Terminals PROVE Exact(s)'
  <2> SUFFICES ASSUME used_pids[s] = 1, pcb'[s].prog_freq > 0, proc'[s].pc \notin StalePoints,
                      Settled(s)'
               PROVE  pcb'[s].divisor * pcb'[s].prog_freq = higher_freq
    BY <1>2 DEF Exact
  <2>1. proc[s].pc \notin StalePoints
    BY <1>1 DEF Rounded, StalePoints
  <2>2. CASE s = j
    <3>1. pcb[s].prog_freq <= higher_freq
      BY <2>1, Facts DEF Bounded, StalePoints
    <3>2. pcb[j].prog_freq > 0 /\ used_pids[j] = 1
      BY <1>3, <2>2
    <3> QED
      BY <1>1, <2>2, <3>1, <3>2
  <2>3. CASE s # j
    <3>1. pcb'[s] = pcb[s] /\ Settled(s)
      BY <1>1, <2>3
    <3> QED
      BY <2>1, <3>1, Facts DEF Exact
  <2> QED
    BY <2>2, <2>3
<1>7. OwnInv(t)'
  <2>1. Closing(t)' /\ Setting(t)' /\ Reading(t)'
    BY <1>1 DEF Closing, Setting, Reading, SelectWindow
  <2> QED
    BY <1>5, <1>6, <2>1 DEF OwnInv
<1>8. ASSUME NEW s \in Terminals, s # t PROVE OwnInv(s)'
  <2>1. proc'[s] = proc[s] /\ proc[s].pc \notin UpdateWindow
    BY <1>1, <1>8, OnlyRunning
  <2>2. Control(s)' /\ Writing(s)'
    BY <1>2, <1>3, <2>1, Facts DEF Control, Writing
  <2>3. Closing(s)' /\ Setting(s)'
    BY <2>1 DEF Closing, Setting, UpdateWindow, SelectWindow
  <2>4. Reading(s)'
    BY <1>2, <1>3, <2>1, Facts DEF Reading
  <2> QED
    BY <1>5, <1>6, <2>2, <2>3, <2>4 DEF OwnInv
<1>9. ChipRight'
  <2>1. CASE p.pc \in PendingPoints
    BY <1>1, <2>1 DEF ChipRight, ChipStep
  <2>2. CASE chip'.rate = rate(higher_freq)
    BY <1>2, <2>2 DEF ChipRight, ChipStep
  <2>3. CASE chip'.rate = chip.rate /\ proc[t].pc \notin PendingPoints
    BY <1>1, <1>2, <2>3 DEF IInv, ChipRight, ChipStep
  <2> QED
    BY <2>1, <2>2, <2>3 DEF ChipStep
<1> QED
  BY <1>4, <1>7, <1>8, <1>9 DEF IInv

\* The clock interrupts: nobody is between selecting register A and using it.
LEMMA HandlerInv ==
    ASSUME IInv, proc[curr_process].pc \notin SelectWindow, RT_handler
    PROVE  IInv'
<1>1. /\ higher_freq' = higher_freq /\ pcb' = pcb /\ used_pids' = used_pids
      /\ curr_process' = curr_process /\ proc' = proc
  BY DEF RT_handler
<1>2. \A s \in Terminals : proc[s].pc \notin SelectWindow
  BY OnlyRunning DEF UpdateWindow
<1>4. chip' \in Chips /\ chip'.high = 2 /\ chip'.rate = chip.rate
  <2>1. chip' = [chip EXCEPT !.selected = "C"] /\ chip \in Chips /\ chip.high = 2
    BY DEF RT_handler, IInv, MachineOK, Chips, ChipRight
  <2> QED
    BY <2>1 DEF Chips
<1>6. MachineOK' /\ higher_freq' \in Freqs
  <2>3. rtc_interrupt_flags' \in [Terminals -> {0, 1}]
    BY DEF RT_handler
  <2> QED
    BY <1>1, <1>4, <2>3 DEF MachineOK, IInv
<1>7. ASSUME NEW s \in Terminals PROVE OwnInv(s)'
  <2>1. Control(s)' /\ Writing(s)'
    BY <1>1, Facts DEF Control, Writing
  <2>2. Closing(s)' /\ Setting(s)'
    BY <1>1, <1>2, Facts DEF Closing, Setting, SelectWindow
  <2>3. Reading(s)' /\ Bounded(s)'
    BY <1>1, Facts DEF Reading, Bounded
  <2>5. Exact(s)'
    BY <1>1, Facts DEF Exact, Settled
  <2> QED
    BY <2>1, <2>2, <2>3, <2>5 DEF OwnInv
<1>8. ChipRight'
  BY <1>1, <1>4 DEF IInv, ChipRight
<1> QED
  BY <1>6, <1>7, <1>8 DEF IInv

\* The timer interrupts: nobody is in the middle of an update.
LEMMA TickInv ==
    ASSUME IInv, proc[curr_process].pc \notin UpdateWindow, Tick
    PROVE  IInv'
<1>1. /\ higher_freq' = higher_freq /\ pcb' = pcb /\ used_pids' = used_pids
      /\ rtc_interrupt_flags' = rtc_interrupt_flags /\ chip' = chip /\ proc' = proc
  BY DEF Tick
<1>2. curr_process' \in Terminals /\ curr_process \in Terminals
  <2>1. PICK c \in Terminals : c = curr_process
    BY DEF IInv, MachineOK
  <2>2. (c + 1) % NUM_TERMINALS \in Terminals
    BY RtcAssumption DEF Terminals
  <2> QED
    BY <2>1, <2>2 DEF Tick
<1>3. \A s \in Terminals : proc[s].pc \notin UpdateWindow
  BY OnlyRunning
<1>4. MachineOK' /\ higher_freq' \in Freqs
  BY <1>1, <1>2 DEF IInv, MachineOK
<1>5. ASSUME NEW s \in Terminals PROVE OwnInv(s)'
  <2>1. Settled(s)
    BY <1>2, <1>3 DEF Settled, UpdateWindow
  <2>2. Control(s)' /\ Writing(s)'
    BY <1>1, <1>3, Facts DEF Control, Writing
  <2>3. Closing(s)' /\ Setting(s)' /\ Reading(s)' /\ Bounded(s)'
    BY <1>1, Facts DEF Closing, Setting, Reading, Bounded
  <2>4. Exact(s)'
    BY <1>1, <2>1, Facts DEF Exact
  <2> QED
    BY <2>2, <2>3, <2>4 DEF OwnInv
<1>6. ChipRight'
  BY <1>1 DEF IInv, ChipRight
<1> QED
  BY <1>4, <1>5, <1>6 DEF IInv

\* How a round goes on.
LEMMA RoundShape ==
    ASSUME IInv, NEW t \in Terminals, NEW label \in {"write_all", "close_all"},
           NEW next \in Points, Round(t, label, next), proc[t].ret = "user"
    PROVE  \E p \in Procs :
             /\ proc' = [proc EXCEPT ![t] = p] /\ p.ret = "user" /\ p.freq = proc[t].freq
             /\ \/ p.pc = label /\ p.i = proc[t].i + 1
                \/ p.pc = next /\ p.i = 0 /\ proc[t].i + 1 \notin Terminals
<1>0. 0 \in Terminals
  BY RtcAssumption DEF Terminals
<1>1. PICK r \in Procs, j \in Terminals : r = proc[t] /\ j = proc[t].i /\ r.pc = label
  BY Facts DEF Procs, Round, At
<1>2. CASE j + 1 \in Terminals
  <2>1. PICK n \in Terminals : n = j + 1
    BY <1>2
  <2>2. PICK p : p = [r EXCEPT !.i = n]
    OBVIOUS
  <2>3. p \in Procs
    BY <2>2, Zenon DEF Procs
  <2>4. p.pc = label /\ p.i = n /\ p.ret = "user" /\ p.freq = r.freq
    BY <1>1, <2>2 DEF Procs
  <2>5. proc' = [proc EXCEPT ![t] = [proc[t] EXCEPT !.i = proc[t].i + 1]]
    BY <1>1, <1>2 DEF Round
  <2>6. proc' = [proc EXCEPT ![t] = p]
    BY <1>1, <2>1, <2>2, <2>5
  <2> QED
    BY <1>1, <2>1, <2>3, <2>4, <2>6
<1>3. CASE j + 1 \notin Terminals
  <2>2. PICK p : p = [r EXCEPT !.pc = next, !.i = 0]
    OBVIOUS
  <2>3. p \in Procs
    BY <1>0, <2>2, Zenon DEF Procs
  <2>4. p.pc = next /\ p.i = 0 /\ p.ret = "user" /\ p.freq = r.freq
    BY <1>1, <2>2 DEF Procs
  <2>5. proc' = [proc EXCEPT ![t] = [proc[t] EXCEPT !.pc = next, !.i = 0]]
    BY <1>1, <1>3 DEF Round
  <2>6. proc' = [proc EXCEPT ![t] = p]
    BY <1>1, <2>2, <2>5
  <2> QED
    BY <1>1, <1>3, <2>3, <2>4, <2>6
<1> QED
  BY <1>2, <1>3

\* A round of rtc_write's loop.
LEMMA WriteAllInv ==
    ASSUME IInv, NEW t \in Terminals, WriteAll(t)
    PROVE  IInv'
<1>0. /\ proc[t].pc = "write_all" /\ t = curr_process /\ proc[t].ret = "user"
      /\ used_pids[t] = 1
  BY Facts DEF WriteAll, Round, At, Control, SelectWindow
<1>1. PICK r \in Procs, j \in Terminals : r = proc[t] /\ j = proc[t].i
  BY Facts DEF Procs
<1>2. PICK b \in Pcbs :
        /\ pcb' = [pcb EXCEPT ![j] = b]
        /\ b.prog_freq = pcb[j].prog_freq /\ b.count = pcb[j].count
        /\ used_pids[j] = 1 /\ pcb[j].prog_freq > 0 /\ pcb[j].prog_freq <= higher_freq =>
             b.divisor * b.prog_freq = higher_freq
  BY <1>1, RoundDivisor DEF WriteAll
<1>3. PICK p \in Procs :
        /\ proc' = [proc EXCEPT ![t] = p] /\ p.ret = "user" /\ p.freq = r.freq
        /\ \/ p.pc = "write_all" /\ p.i = j + 1
           \/ p.pc = "write_set" /\ p.i = 0 /\ j + 1 \notin Terminals
  BY <1>0, <1>1, RoundShape DEF WriteAll, Points
<1>4. Rounded(t, p, b)
  BY <1>0, <1>1, <1>2, <1>3 DEF WriteAll, Round, Rounded
<1>5. ChipStep(t, p)
  BY <1>3, Facts DEF ChipStep, WriteAll, Round, PendingPoints
<1>6. proc'[t] = p /\ used_pids' = used_pids /\ curr_process' = t /\ higher_freq' = higher_freq
  BY <1>0, <1>3, <1>4, Facts DEF Rounded
<1>7. Control(t)'
  BY <1>0, <1>3, <1>6 DEF Control, Loops, SelectWindow
<1>8. Writing(t)'
  <2>1. pcb'[t].prog_freq = pcb[t].prog_freq
    BY <1>2, Facts
  <2> QED
    BY <1>0, <1>1, <1>3, <1>6, <2>1, Facts DEF Writing, StalePoints
<1>9. ASSUME NEW s \in Terminals, Settled(s)' PROVE s = j \/ Settled(s)
  <2>1. s \in Nat /\ j \in Nat
    BY DEF Terminals
  <2>2. j + 1 \notin Terminals => s <= j
    BY <2>1, RtcAssumption DEF Terminals
  <2>3. s < j => Settled(s)
    BY <1>0, <1>1 DEF Settled, SelectWindow
  <2>4. p.pc = "write_all" => s < p.i
    BY <1>6, <1>9 DEF Settled
  <2> QED
    BY <1>3, <2>1, <2>2, <2>3, <2>4
<1> QED
  BY <1>1, <1>2, <1>3, <1>4, <1>5, <1>7, <1>8, <1>9, RoundStep DEF SelectWindow, StalePoints

\* A round of rtc_close's loop.
LEMMA CloseAllInv ==
    ASSUME IInv, NEW t \in Terminals, CloseAll(t)
    PROVE  IInv'
<1>0. proc[t].pc = "close_all" /\ t = curr_process /\ proc[t].ret = "user"
  BY Facts DEF CloseAll, Round, At, Control, SelectWindow
<1>1. PICK r \in Procs, j \in Terminals : r = proc[t] /\ j = proc[t].i
  BY Facts DEF Procs
<1>2. PICK b \in Pcbs :
        /\ pcb' = [pcb EXCEPT ![j] = b]
        /\ b.prog_freq = pcb[j].prog_freq /\ b.count = pcb[j].count
        /\ used_pids[j] = 1 /\ pcb[j].prog_freq > 0 /\ pcb[j].prog_freq <= higher_freq =>
             b.divisor * b.prog_freq = higher_freq
  BY <1>1, RoundDivisor DEF CloseAll
<1>n. PICK n \in Points : n = IF used_pids[t] = 1 THEN "user" ELSE "dead"
  BY DEF Points
<1>3. PICK p \in Procs :
        /\ proc' = [proc EXCEPT ![t] = p] /\ p.ret = "user" /\ p.freq = r.freq
        /\ \/ p.pc = "close_all" /\ p.i = j + 1
           \/ p.pc = n /\ p.i = 0 /\ j + 1 \notin Terminals
  <2>1. Round(t, "close_all", n)
    BY <1>n DEF CloseAll
  <2> QED
    BY <1>0, <1>1, <2>1, RoundShape
<1>4. Rounded(t, p, b)
  BY <1>0, <1>1, <1>2, <1>3 DEF CloseAll, Round, Rounded
<1>5. ChipStep(t, p)
  BY <1>0, Facts DEF ChipStep, CloseAll, Round, PendingPoints, SelectWindow
<1>6. proc'[t] = p /\ used_pids' = used_pids /\ curr_process' = t /\ higher_freq' = higher_freq
  BY <1>0, <1>3, <1>4, Facts DEF Rounded
<1>7. Control(t)'
  BY <1>3, <1>6, <1>n, Facts DEF Control, Loops, SelectWindow
<1>8. Writing(t)'
  <2>1. pcb'[t].prog_freq = pcb[t].prog_freq
    BY <1>2, Facts
  <2> QED
    BY <1>3, <1>6, <1>n, <2>1, Facts DEF Writing, StalePoints
<1>9. ASSUME NEW s \in Terminals, Settled(s)' PROVE s = j \/ Settled(s)
  <2>1. s \in Nat /\ j \in Nat
    BY DEF Terminals
  <2>2. j + 1 \notin Terminals => s <= j
    BY <2>1, RtcAssumption DEF Terminals
  <2>3. s < j => Settled(s)
    BY <1>0, <1>1 DEF Settled, SelectWindow
  <2>4. p.pc = "close_all" => s < p.i
    BY <1>6, <1>9 DEF Settled
  <2> QED
    BY <1>3, <2>1, <2>2, <2>3, <2>4
<1>10. n \in {"user", "dead"}
  BY <1>n
<1> QED
  BY <1>1, <1>2, <1>3, <1>4, <1>5, <1>7, <1>8, <1>9, <1>10, RoundStep DEF SelectWindow,
     StalePoints

-----------------------------------------------------------------------------
(***************************************************************************)
(* Types, whatever the interrupts come upon.                               *)
(***************************************************************************)

\* The local copies of frequencies that are in use.
Sane(p) ==
    /\ p.pc \in StalePoints \cup SelectWindow => p.freq \in Freqs
    /\ p.pc \in {"close_max", "close_assign"} => p.max \in Freqs

TypeInv ==
    /\ MachineOK /\ higher_freq \in Freqs
    /\ \A t \in Terminals : Sane(proc[t]) /\ pcb[t].prog_freq \in {0} \cup Freqs

\* What it says of one process.
LEMMA TypeFacts ==
    ASSUME TypeInv, NEW t \in Terminals
    PROVE  /\ proc[t] \in Procs /\ pcb[t] \in Pcbs
           /\ proc \in [Terminals -> Procs] /\ pcb \in [Terminals -> Pcbs]
           /\ used_pids \in [Terminals -> {0, 1}]
           /\ rtc_interrupt_flags \in [Terminals -> {0, 1}]
           /\ Sane(proc[t]) /\ pcb[t].prog_freq \in {0} \cup Freqs
           /\ higher_freq \in Freqs /\ higher_freq \in Hertz /\ chip \in Chips
           /\ curr_process \in Terminals
BY DEF TypeInv, MachineOK, Freqs, Hertz

\* What a step does to the process that takes it, and to one block.
Moves(t, p) == p \in Procs /\ Sane(p) /\ proc' = [proc EXCEPT ![t] = p]

Fills(j, b) ==
    /\ b \in Pcbs /\ b.prog_freq \in {0} \cup Freqs
    /\ pcb' = [pcb EXCEPT ![j] = b]

\* A step keeps the types when what it writes has them.
LEMMA TypedStep ==
    ASSUME TypeInv, NEW t \in Terminals, NEW j \in Terminals, \E p : Moves(t, p),
           pcb' = pcb \/ \E b : Fills(j, b),
           higher_freq' \in Freqs, chip' \in Chips, curr_process' = curr_process,
           used_pids' \in [Terminals -> {0, 1}],
           rtc_interrupt_flags' \in [Terminals -> {0, 1}]
    PROVE  TypeInv'
<1>1. PICK p : Moves(t, p)
  OBVIOUS
<1>2. /\ proc' \in [Terminals -> Procs] /\ proc'[t] = p
      /\ \A s \in Terminals \ {t} : proc'[s] = proc[s]
  BY <1>1, TypeFacts DEF Moves
<1>3. /\ pcb' \in [Terminals -> Pcbs]
      /\ \A s \in Terminals : pcb'[s].prog_freq \in {0} \cup Freqs
  <2>1. CASE pcb' = pcb
    BY <2>1, TypeFacts
  <2>2. CASE \E b : Fills(j, b)
    <3>1. PICK b : Fills(j, b)
      BY <2>2
    <3>2. pcb'[j] = b /\ \A s \in Terminals \ {j} : pcb'[s] = pcb[s]
      BY <3>1, TypeFacts DEF Fills
    <3> QED
      BY <3>1, <3>2, TypeFacts DEF Fills
  <2> QED
    BY <2>1, <2>2
<1>4. \A s \in Terminals : Sane(proc'[s])
  BY <1>1, <1>2, TypeFacts DEF Moves
<1>5. MachineOK'
  <2>1. higher_freq' \in 2 .. 1024
    BY DEF Freqs
  <2> QED
    BY <1>2, <1>3, <2>1, TypeFacts DEF MachineOK
<1> QED
  BY <1>3, <1>4, <1>5 DEF TypeInv

\* Every label is a point, and the constants that are written have their types.
LEMMA Labels ==
    /\ {"user", "open", "read_reset", "read_wait", "read_return", "write_test", "write_raise",
        "write_all", "write_own", "write_set", "close_max", "close_assign", "close_set",
        "close_all", "reg_read", "reg_write", "dead"} \subseteq Points
    /\ 0 \in Hertz /\ 2 \in Hertz /\ 0 \in Terminals /\ 2 \in Freqs /\ Freqs \subseteq Hertz
    /\ Hertz \subseteq 0 .. Word - 1
BY RtcAssumption DEF Points, Hertz, Terminals, Freqs

\* A jump keeps the locals.
LEMMA GotoTypes ==
    ASSUME TypeInv, NEW t \in Terminals, NEW label \in Points, Goto(t, label),
           label \notin {"close_max", "close_assign"},
           label \in StalePoints \cup SelectWindow => proc[t].freq \in Freqs
    PROVE  \E p : Moves(t, p)
<1>1. PICK r \in Procs : r = proc[t]
  BY TypeFacts
<1>2. PICK p : p = [r EXCEPT !.pc = label]
  OBVIOUS
<1>3. p \in Procs
  BY <1>2, Zenon DEF Procs
<1>4. p.pc = label /\ p.freq = proc[t].freq
  BY <1>1, <1>2 DEF Procs
<1>5. Sane(p)
  BY <1>4 DEF Sane
<1> QED
  BY <1>1, <1>2, <1>3, <1>5 DEF Moves, Goto

\* A round of a loop moves inside the table.
LEMMA RoundTypes ==
    ASSUME TypeInv, NEW t \in Terminals, NEW label \in {"write_all", "close_all"},
           NEW next \in {"write_set", "user", "dead"}, Round(t, label, next)
    PROVE  \E p : Moves(t, p) /\ p.pc \in {label, next}
<1>1. PICK r \in Procs : r = proc[t] /\ r.pc = label
  BY TypeFacts DEF Round, At
<1>2. CASE proc[t].i + 1 \in Terminals
  <2>1. PICK n \in Terminals : n = proc[t].i + 1
    BY <1>2
  <2>2. PICK p : p = [r EXCEPT !.i = n]
    OBVIOUS
  <2>3. p \in Procs
    BY <2>2, Zenon DEF Procs
  <2>4. p.pc = label
    BY <1>1, <2>2 DEF Procs
  <2>5. proc' = [proc EXCEPT ![t] = p]
    BY <1>1, <1>2, <2>1, <2>2 DEF Round
  <2> QED
    BY <2>3, <2>4, <2>5 DEF Moves, Sane, StalePoints, SelectWindow
<1>3. CASE proc[t].i + 1 \notin Terminals
  <2>2. PICK p : p = [r EXCEPT !.pc = next, !.i = 0]
    OBVIOUS
  <2>3. p \in Procs
    <3>1. next \in Points
      BY DEF Points
    <3> QED
      BY <2>2, <3>1, Labels, Zenon DEF Procs
  <2>4. p.pc = next
    BY <1>1, <2>2 DEF Procs
  <2>5. proc' = [proc EXCEPT ![t] = p]
    BY <1>1, <1>3, <2>2 DEF Round
  <2> QED
    BY <2>3, <2>4, <2>5 DEF Moves, Sane, StalePoints, SelectWindow
<1> QED
  BY <1>2, <1>3

\* A divisor is a quotient of frequencies.
LEMMA DivisorTypes ==
    ASSUME TypeInv, NEW j \in Terminals, NEW x \in Freqs,
           pcb' = [pcb EXCEPT ![j].divisor = higher_freq \div x]
    PROVE  \E b : Fills(j, b)
<1>1. PICK c \in Pcbs, y \in Freqs : c = pcb[j] /\ y = higher_freq
  BY TypeFacts
<1>2. PICK d \in Hertz : d = y \div x
  BY Quotient
<1>3. PICK b : b = [c EXCEPT !.divisor = d]
  OBVIOUS
<1>4. b \in Pcbs
  BY <1>3, Zenon DEF Pcbs
<1>5. b.prog_freq = pcb[j].prog_freq
  BY <1>1, <1>3 DEF Pcbs
<1> QED
  BY <1>1, <1>2, <1>3, <1>4, <1>5, TypeFacts DEF Fills

\* So it is when a loop brings it up to date.
LEMMA UpdateTypes ==
    ASSUME TypeInv, NEW j \in Terminals, UpdateDivisor(j)
    PROVE  pcb' = pcb \/ \E b : Fills(j, b)
<1>1. CASE used_pids[j] = 1 /\ pcb[j].prog_freq > 0
  <2>1. PICK x \in Freqs : x = pcb[j].prog_freq
    BY <1>1, TypeFacts
  <2> QED
    BY <1>1, <2>1, DivisorTypes DEF UpdateDivisor
<1>2. CASE ~ (used_pids[j] = 1 /\ pcb[j].prog_freq > 0)
  BY <1>2 DEF UpdateDivisor
<1> QED
  BY <1>1, <1>2

\* A count.
LEMMA CountTypes ==
    ASSUME TypeInv, NEW t \in Terminals, NEW k \in 0 .. Word - 1,
           pcb' = [pcb EXCEPT ![t].count = k]
    PROVE  \E b : Fills(t, b)
<1>1. PICK c \in Pcbs : c = pcb[t]
  BY TypeFacts
<1>2. PICK b : b = [c EXCEPT !.count = k]
  OBVIOUS
<1>3. b \in Pcbs
  BY <1>2, Zenon DEF Pcbs
<1>4. b.prog_freq = pcb[t].prog_freq
  BY <1>1, <1>2 DEF Pcbs
<1> QED
  BY <1>1, <1>2, <1>3, <1>4, TypeFacts DEF Fills

\* The frequency of a program.
LEMMA RequestTypes ==
    ASSUME TypeInv, NEW t \in Terminals, NEW x \in {0} \cup Freqs,
           pcb' = [pcb EXCEPT ![t].prog_freq = x]
    PROVE  \E b : Fills(t, b)
<1>1. PICK c \in Pcbs : c = pcb[t]
  BY TypeFacts
<1>2. PICK b : b = [c EXCEPT !.prog_freq = x]
  OBVIOUS
<1>3. x \in Hertz
  BY Labels
<1>4. b \in Pcbs
  BY <1>2, <1>3, Zenon DEF Pcbs
<1>5. b.prog_freq = x
  BY <1>1, <1>2 DEF Pcbs
<1> QED
  BY <1>1, <1>2, <1>4, <1>5 DEF Fills

\* The system calls.
LEMMA CallTypes ==
    ASSUME TypeInv, NEW t \in Terminals, Call(t)
    PROVE  TypeInv'
<1>1. PICK r \in Procs : r = proc[t]
  BY TypeFacts
<1>2. CASE rtc_open(t)
  <2>1. PICK p : p = [r EXCEPT !.pc = "open", !.open = 1]
    OBVIOUS
  <2>2. p \in Procs
    <3>1. "open" \in Points
      BY DEF Points
    <3> QED
      BY <2>1, <3>1, Zenon DEF Procs
  <2>3. p.pc = "open"
    BY <2>1 DEF Procs
  <2>4. Moves(t, p)
    BY <1>1, <1>2, <2>1, <2>2, <2>3 DEF rtc_open, Moves, Sane, StalePoints, SelectWindow
  <2>5. \E b : Fills(t, b)
    BY <1>2, RequestTypes DEF rtc_open
  <2> QED
    BY <1>2, <2>4, <2>5, TypedStep, TypeFacts DEF rtc_open
<1>3. CASE rtc_read(t)
  <2>1. \E p : Moves(t, p)
    BY <1>3, GotoTypes DEF rtc_read, Points, StalePoints, SelectWindow
  <2>2. pcb' = pcb \/ \E b : Fills(t, b)
    <3>1. PICK d \in 0 .. Word - 1 : d = pcb[t].divisor
      BY TypeFacts, Labels DEF Pcbs
    <3> QED
      BY <1>3, <3>1, CountTypes DEF rtc_read
  <2> QED
    BY <1>3, <2>1, <2>2, TypedStep, TypeFacts DEF rtc_read
<1>4. ASSUME NEW freq \in Requests, rtc_write(t, freq) PROVE TypeInv'
  <2>1. PICK x \in Freqs : x = freq
    BY <1>4, ValidFreqs DEF rtc_write
  <2>2. PICK p : p = [r EXCEPT !.pc = "write_test", !.freq = x]
    OBVIOUS
  <2>3. p \in Procs
    <3>1. "write_test" \in Points /\ x \in Hertz
      BY Labels DEF Points
    <3> QED
      BY <2>2, <3>1, Zenon DEF Procs
  <2>4. p.pc = "write_test" /\ p.freq = x
    BY <2>2 DEF Procs
  <2>5. Moves(t, p)
    BY <1>1, <1>4, <2>1, <2>2, <2>3, <2>4 DEF rtc_write, Moves, Sane
  <2>6. \E b : Fills(t, b)
    BY <1>4, <2>1, RequestTypes DEF rtc_write
  <2> QED
    BY <1>4, <2>5, <2>6, TypedStep, TypeFacts DEF rtc_write
<1>5. \E p \in Procs : /\ p = [r EXCEPT !.pc = "close_max", !.open = 0, !.max = 2]
                       /\ p.pc = "close_max" /\ p.max = 2
  <2>1. PICK p : p = [r EXCEPT !.pc = "close_max", !.open = 0, !.max = 2]
    OBVIOUS
  <2>2. p \in Procs
    <3>1. "close_max" \in Points
      BY DEF Points
    <3> QED
      BY <2>1, <3>1, Labels, Zenon DEF Procs
  <2>3. p.pc = "close_max" /\ p.max = 2
    BY <2>1 DEF Procs
  <2> QED
    BY <2>1, <2>2, <2>3
<1>6. CASE rtc_close(t)
  <2>1. \E p : Moves(t, p)
    BY <1>1, <1>5, <1>6, Labels DEF rtc_close, Moves, Sane, StalePoints, SelectWindow
  <2> QED
    BY <1>6, <2>1, TypedStep, TypeFacts DEF rtc_close
<1>7. CASE sys_halt(t)
  <2>1. used_pids' \in [Terminals -> {0, 1}]
    BY <1>7, TypeFacts DEF sys_halt
  <2>2. CASE proc[t].open = 1
    <3>1. \E p : Moves(t, p)
      BY <1>1, <1>5, <1>7, <2>2, Labels DEF sys_halt, Moves, Sane, StalePoints, SelectWindow
    <3> QED
      BY <1>7, <2>1, <3>1, TypedStep, TypeFacts DEF sys_halt
  <2>3. CASE proc[t].open # 1
    <3>1. Goto(t, "dead")
      BY <1>7, <2>3, TypeFacts DEF sys_halt, Goto
    <3>2. \E p : Moves(t, p)
      BY <3>1, GotoTypes DEF Points, StalePoints, SelectWindow
    <3> QED
      BY <1>7, <2>1, <3>2, TypedStep, TypeFacts DEF sys_halt
  <2> QED
    BY <2>2, <2>3
<1> QED
  BY <1>2, <1>3, <1>4, <1>6, <1>7 DEF Call

\* rtc_set_frequency.
LEMMA SetTypes ==
    ASSUME TypeInv, NEW t \in Terminals,
           \/ \E label \in {"open", "write_set", "close_set"} : rtc_set_frequency(t, label)
           \/ RegRead(t) \/ RegWrite(t)
    PROVE  TypeInv'
<1>1. PICK r \in Procs : r = proc[t]
  BY TypeFacts
<1>2. ASSUME NEW label \in {"open", "write_set", "close_set"}, rtc_set_frequency(t, label)
      PROVE  TypeInv'
  <2>1. PICK f \in Freqs : f = higher_freq
    BY TypeFacts
  <2>2. PICK p : p = [r EXCEPT !.pc = "reg_read", !.freq = f]
    OBVIOUS
  <2>3. p \in Procs
    <3>1. "reg_read" \in Points /\ f \in Hertz
      BY Labels DEF Points
    <3> QED
      BY <2>2, <3>1, Zenon DEF Procs
  <2>4. p.pc = "reg_read" /\ p.freq = f
    BY <2>2 DEF Procs
  <2>5. Moves(t, p)
    BY <1>1, <1>2, <2>1, <2>2, <2>3, <2>4 DEF rtc_set_frequency, Moves, Sane
  <2>6. chip' \in Chips
    BY <1>2, TypeFacts DEF rtc_set_frequency, Chips
  <2> QED
    BY <1>2, <2>5, <2>6, TypedStep, TypeFacts DEF rtc_set_frequency
<1>3. CASE RegRead(t)
  <2>1. PICK h \in {0, 2} : h = IF chip.selected = "A" THEN chip.high ELSE 0
    BY TypeFacts DEF Chips
  <2>2. PICK p : p = [r EXCEPT !.pc = "reg_write", !.prevA = h]
    OBVIOUS
  <2>3. p \in Procs
    <3>1. "reg_write" \in Points
      BY Labels DEF Points
    <3> QED
      BY <2>2, <3>1, Zenon DEF Procs
  <2>4. p.pc = "reg_write" /\ p.freq = r.freq
    BY <2>2 DEF Procs
  <2>5. r.freq \in Freqs
    BY <1>1, <1>3, TypeFacts DEF RegRead, At, Sane, SelectWindow
  <2>6. Moves(t, p)
    BY <1>1, <1>3, <2>1, <2>2, <2>3, <2>4, <2>5 DEF RegRead, Moves, Sane
  <2>7. chip' \in Chips
    BY <1>3, TypeFacts DEF RegRead, Chips
  <2> QED
    BY <1>3, <2>6, <2>7, TypedStep, TypeFacts DEF RegRead
<1>4. CASE RegWrite(t)
  <2>1. PICK x \in {"user", "close_all"} : x = proc[t].ret
    BY TypeFacts DEF Procs
  <2>2. PICK p : p = [r EXCEPT !.pc = x, !.freq = 0, !.prevA = 0, !.ret = "user"]
    OBVIOUS
  <2>3. p \in Procs
    <3>1. x \in Points
      BY Labels DEF Points
    <3> QED
      BY <2>2, <3>1, Labels, Zenon DEF Procs
  <2>4. p.pc = x
    BY <2>2 DEF Procs
  <2>5. Moves(t, p)
    BY <1>1, <1>4, <2>1, <2>2, <2>3, <2>4 DEF RegWrite, Moves, Sane, StalePoints, SelectWindow
  <2>6. chip' \in Chips
    <3>1. PICK c \in Chips, h \in {0, 2}, k \in 6 .. 15 :
            c = chip /\ h = proc[t].prevA /\ k = rate(proc[t].freq)
      <4>1. proc[t].freq \in Freqs
        BY <1>4, TypeFacts DEF RegWrite, At, Sane, SelectWindow
      <4>2. rate(proc[t].freq) \in 6 .. 15
        BY <4>1, RateRight
      <4> QED
        BY <4>2, TypeFacts DEF Procs
    <3>2. [c EXCEPT !.high = h, !.rate = k] \in Chips
      BY Zenon DEF Chips
    <3> QED
      BY <1>4, <3>1, <3>2 DEF RegWrite
  <2> QED
    BY <1>4, <2>5, <2>6, TypedStep, TypeFacts DEF RegWrite
<1> QED
  BY <1>2, <1>3, <1>4

\* rtc_read.
LEMMA ReadTypes ==
    ASSUME TypeInv, NEW t \in Terminals, ReadReset(t) \/ ReadCount(t) \/ ReadReturn(t)
    PROVE  TypeInv'
<1>1. \E p : Moves(t, p)
  <2>1. PICK label \in {"user", "read_reset", "read_wait", "read_return"} : Goto(t, label)
    BY DEF ReadReset, ReadCount, ReadReturn
  <2> QED
    BY <2>1, GotoTypes DEF Points, StalePoints, SelectWindow
<1>2. CASE ReadReset(t)
  <2>1. rtc_interrupt_flags' \in [Terminals -> {0, 1}]
    BY <1>2, TypeFacts DEF ReadReset
  <2> QED
    BY <1>1, <1>2, <2>1, TypedStep, TypeFacts DEF ReadReset
<1>3. CASE ReadCount(t)
  <2>1. PICK k \in 0 .. Word - 1 : k = (pcb[t].count - 1) % Word
    <3>1. PICK c \in 0 .. Word - 1 : c = pcb[t].count
      BY TypeFacts DEF Pcbs
    <3>2. (c - 1) % Word \in 0 .. Word - 1
      BY RtcAssumption
    <3> QED
      BY <3>1, <3>2
  <2>2. \E b : Fills(t, b)
    BY <1>3, <2>1, CountTypes DEF ReadCount
  <2> QED
    BY <1>1, <1>3, <2>2, TypedStep, TypeFacts DEF ReadCount
<1>4. CASE ReadReturn(t)
  BY <1>1, <1>4, TypedStep, TypeFacts DEF ReadReturn
<1> QED
  BY <1>2, <1>3, <1>4

\* rtc_write.
LEMMA WriteTypes ==
    ASSUME TypeInv, NEW t \in Terminals,
           WriteTest(t) \/ WriteRaise(t) \/ WriteAll(t) \/ WriteOwn(t)
    PROVE  TypeInv'
<1>1. CASE WriteTest(t)
  <2>1. PICK label \in {"write_raise", "write_own"} : Goto(t, label)
    BY <1>1 DEF WriteTest
  <2>2. proc[t].freq \in Freqs
    BY <1>1, TypeFacts DEF WriteTest, At, Sane, StalePoints
  <2>3. \E p : Moves(t, p)
    BY <2>1, <2>2, GotoTypes DEF Points
  <2> QED
    BY <1>1, <2>3, TypedStep, TypeFacts DEF WriteTest
<1>2. CASE WriteRaise(t)
  <2>1. proc[t].freq \in Freqs
    BY <1>2, TypeFacts DEF WriteRaise, At, Sane, StalePoints
  <2>2. \E p : Moves(t, p)
    BY <1>2, GotoTypes DEF WriteRaise, Points, StalePoints, SelectWindow
  <2> QED
    BY <1>2, <2>1, <2>2, TypedStep, TypeFacts DEF WriteRaise
<1>3. CASE WriteAll(t)
  <2>1. \E p : Moves(t, p)
    BY <1>3, RoundTypes DEF WriteAll
  <2>2. PICK j \in Terminals : j = proc[t].i
    BY TypeFacts DEF Procs
  <2>3. pcb' = pcb \/ \E b : Fills(j, b)
    BY <1>3, <2>2, UpdateTypes DEF WriteAll
  <2> QED
    BY <1>3, <2>1, <2>3, TypedStep, TypeFacts DEF WriteAll, Round
<1>4. CASE WriteOwn(t)
  <2>1. \E p : Moves(t, p)
    BY <1>4, GotoTypes DEF WriteOwn, Points, StalePoints, SelectWindow
  <2>2. proc[t].freq \in Freqs
    BY <1>4, TypeFacts DEF WriteOwn, At, Sane, StalePoints
  <2>3. \E b : Fills(t, b)
    BY <1>4, <2>2, DivisorTypes DEF WriteOwn
  <2> QED
    BY <1>4, <2>1, <2>3, TypedStep, TypeFacts DEF WriteOwn
<1> QED
  BY <1>1, <1>2, <1>3, <1>4

\* rtc_close, and the next program.
LEMMA CloseTypes ==
    ASSUME TypeInv, NEW t \in Terminals,
           CloseMax(t) \/ CloseAssign(t) \/ CloseAll(t) \/ sys_execute(t)
    PROVE  TypeInv'
<1>1. PICK r \in Procs, j \in Terminals : r = proc[t] /\ j = proc[t].i
  BY TypeFacts DEF Procs
<1>2. CASE CloseMax(t)
  <2>1. PICK m \in Freqs : m = IF used_pids[j] = 1 /\ pcb[j].prog_freq > proc[t].max
                               THEN pcb[j].prog_freq ELSE proc[t].max
    <3>1. proc[t].max \in Freqs
      BY <1>2, TypeFacts DEF CloseMax, At, Sane
    <3>2. pcb[j].prog_freq \in {0} \cup Freqs
      BY TypeFacts
    <3> QED
      BY <3>1, <3>2 DEF Freqs
  <2>2. m \in Hertz
    BY Labels
  <2>3. CASE j + 1 \in Terminals
    <3>1. PICK n \in Terminals : n = j + 1
      BY <2>3
    <3>2. PICK p : p = [r EXCEPT !.i = n, !.max = m]
      OBVIOUS
    <3>3. p \in Procs
      BY <2>2, <3>2, Zenon DEF Procs
    <3>4. p.pc = r.pc /\ p.max = m /\ r.pc = "close_max"
      BY <1>1, <1>2, <3>2 DEF Procs, CloseMax, At
    <3>5. proc' = [proc EXCEPT ![t] = p]
      BY <1>1, <1>2, <2>1, <2>3, <3>1, <3>2 DEF CloseMax
    <3>6. Moves(t, p)
      BY <3>3, <3>4, <3>5 DEF Moves, Sane, StalePoints, SelectWindow
    <3> QED
      BY <1>2, <3>6, TypedStep, TypeFacts DEF CloseMax
  <2>4. CASE j + 1 \notin Terminals
    <3>2. PICK p : p = [r EXCEPT !.pc = "close_assign", !.i = 0, !.max = m]
      OBVIOUS
    <3>3. p \in Procs
      <4>1. "close_assign" \in Points
        BY DEF Points
      <4> QED
        BY <2>2, <3>2, <4>1, Labels, Zenon DEF Procs
    <3>4. p.pc = "close_assign" /\ p.max = m
      BY <3>2 DEF Procs
    <3>5. proc' = [proc EXCEPT ![t] = p]
      BY <1>1, <1>2, <2>1, <2>4, <3>2 DEF CloseMax
    <3>6. Moves(t, p)
      BY <3>3, <3>4, <3>5 DEF Moves, Sane, StalePoints, SelectWindow
    <3> QED
      BY <1>2, <3>6, TypedStep, TypeFacts DEF CloseMax
  <2> QED
    BY <2>3, <2>4
<1>3. CASE CloseAssign(t)
  <2>1. proc[t].max \in Freqs
    BY <1>3, TypeFacts DEF CloseAssign, At, Sane
  <2>2. PICK p : p = [r EXCEPT !.pc = "close_set", !.max = 0, !.ret = "close_all"]
    OBVIOUS
  <2>3. p \in Procs
    <3>1. "close_set" \in Points
      BY DEF Points
    <3> QED
      BY <2>2, <3>1, Labels, Zenon DEF Procs
  <2>4. p.pc = "close_set"
    BY <2>2 DEF Procs
  <2>5. Moves(t, p)
    BY <1>1, <1>3, <2>2, <2>3, <2>4 DEF CloseAssign, Moves, Sane, StalePoints, SelectWindow
  <2> QED
    BY <1>3, <2>1, <2>5, TypedStep, TypeFacts DEF CloseAssign
<1>4. CASE CloseAll(t)
  <2>1. \E p : Moves(t, p)
    BY <1>4, RoundTypes DEF CloseAll
  <2>2. pcb' = pcb \/ \E b : Fills(j, b)
    BY <1>1, <1>4, UpdateTypes DEF CloseAll
  <2> QED
    BY <1>4, <2>1, <2>2, TypedStep, TypeFacts DEF CloseAll, Round
<1>5. CASE sys_execute(t)
  <2>1. NewProgram \in Procs /\ NewProgram.pc = "user"
    BY Labels DEF NewProgram, Procs
  <2>2. ZeroPcb \in Pcbs /\ ZeroPcb.prog_freq = 0
    BY Labels DEF ZeroPcb, Pcbs
  <2>3. Moves(t, NewProgram)
    BY <1>5, <2>1 DEF sys_execute, Moves, Sane, StalePoints, SelectWindow
  <2>4. Fills(t, ZeroPcb)
    BY <1>5, <2>2 DEF sys_execute, Fills
  <2>5. used_pids' \in [Terminals -> {0, 1}]
    BY <1>5, TypeFacts DEF sys_execute
  <2> QED
    BY <1>5, <2>3, <2>4, <2>5, TypedStep, TypeFacts DEF sys_execute
<1> QED
  BY <1>2, <1>3, <1>4, <1>5

\* The interrupts.
LEMMA InterruptTypes ==
    ASSUME TypeInv, RT_handler \/ Tick
    PROVE  TypeInv'
<1>1. curr_process \in Terminals /\ chip \in Chips
  BY DEF TypeInv, MachineOK
<1>2. CASE RT_handler
  <2>1. chip' \in Chips /\ rtc_interrupt_flags' \in [Terminals -> {0, 1}]
    BY <1>1, <1>2 DEF RT_handler, Chips
  <2> QED
    BY <1>2, <2>1 DEF RT_handler, TypeInv, MachineOK
<1>3. CASE Tick
  <2>1. PICK c \in Terminals : c = curr_process
    BY <1>1
  <2>2. (c + 1) % NUM_TERMINALS \in Terminals
    BY RtcAssumption DEF Terminals
  <2>3. curr_process' \in Terminals
    BY <1>3, <2>1, <2>2 DEF Tick
  <2> QED
    BY <1>3, <2>3 DEF Tick, TypeInv, MachineOK
<1> QED
  BY <1>2, <1>3

-----------------------------------------------------------------------------
(***************************************************************************)
(* How long a read waits.                                                  *)
(***************************************************************************)

Paces == [left : Hertz, hurried : BOOLEAN]

\* The period of the chip, or that of the highest frequency, whichever is shorter.
Shortest ==
    LET chips == Unit(ChipFreq(chip.rate))
        highest == Unit(higher_freq)
    IN  IF chips < highest THEN chips ELSE highest

Covers(n, period, left) == left <= n * period

\* The interrupts that a read has still to count cover what it has still to wait, even
\* if all that follow come as close as they can.
Pacing(t) ==
    ~pace[t].hurried =>
        /\ proc[t].pc = "read_reset" => Covers(pcb[t].count, Shortest, pace[t].left)
        /\ proc[t].pc = "read_wait" =>
             Covers(pcb[t].count - rtc_interrupt_flags[t], Shortest, pace[t].left)
        /\ proc[t].pc = "read_return" => pace[t].left = 0

\* The chip is not faster than the highest frequency, unless it is just being set.
Capped ==
    proc[curr_process].pc \notin SelectWindow \cup {"close_set"} =>
        ChipFreq(chip.rate) <= higher_freq

\* The frequencies that the chip can have.
LEMMA ChipFreqs ==
    ASSUME NEW r \in 6 .. 15
    PROVE  ChipFreq(r) \in Freqs
<1>1. PICK k \in 1 .. 10 : k = 16 - r
  OBVIOUS
<1>2. k \in {1, 2, 3, 4, 5, 6, 7, 8, 9, 10}
  OBVIOUS
<1>3. ChipFreq(r) = Pow(k)
  BY <1>1 DEF ChipFreq, Pow
<1> QED
  BY <1>2, <1>3, Powers DEF Freqs

\* A period is a number.
LEMMA Periods ==
    ASSUME NEW x \in Freqs
    PROVE  Unit(x) \in Hertz /\ Unit(x) \in Nat
BY DEF Freqs, Unit, Hertz

\* The higher frequency has the shorter period.
LEMMA ShorterPeriod ==
    ASSUME NEW x \in Freqs, NEW y \in Freqs, x <= y
    PROVE  Unit(y) <= Unit(x)
BY DEF Freqs, Unit

\* A period of a program is made of as many periods as its divisor says.
LEMMA WholePeriod ==
    ASSUME NEW x \in Freqs, NEW y \in Freqs, NEW d \in Hertz, Divides(d, x, y)
    PROVE  Covers(d, Unit(y), Unit(x))
<1>1. d = y \div x /\ x <= y
  BY DEF Freqs, Divides, Hertz
<1>2. (y \div x) * Unit(y) = Unit(x)
  BY <1>1 DEF Freqs, Unit
<1> QED
  BY <1>1, <1>2, Periods DEF Covers

\* Longer periods, or less to wait.
LEMMA CoversMore ==
    ASSUME NEW n \in Nat, NEW a \in Nat, NEW b \in Nat, NEW l \in Nat, NEW m \in Nat,
           Covers(n, a, l), a <= b, m <= l
    PROVE  Covers(n, b, m)
<1>1. n * a <= n * b /\ n * a \in Nat /\ n * b \in Nat
  OBVIOUS
<1> QED
  BY <1>1 DEF Covers

\* One interrupt less to count, one period less to wait.
LEMMA CoversNext ==
    ASSUME NEW n \in Nat, n >= 1, NEW a \in Nat, NEW u \in Nat, NEW l \in Nat,
           Covers(n, a, l), a <= u
    PROVE  Covers(n - 1, a, Less(l, u))
<1>1. (n - 1) * a = n * a - a /\ n * a \in Nat /\ (n - 1) * a \in Nat
  OBVIOUS
<1> QED
  BY <1>1 DEF Covers, Less

\* Nothing to wait for is covered, and nothing to count covers only that.
LEMMA CoversNothing ==
    ASSUME NEW n \in Nat, NEW a \in Nat, NEW l \in Nat
    PROVE  Covers(n, a, 0) /\ (Covers(0, a, l) => l = 0)
<1>1. n * a \in Nat /\ 0 * a = 0
  OBVIOUS
<1> QED
  BY <1>1 DEF Covers

\* The shortest period is a number, and neither clock runs faster.
LEMMA ShortestPeriod ==
    ASSUME TypeInv
    PROVE  /\ Shortest \in Nat
           /\ Shortest <= Unit(ChipFreq(chip.rate)) /\ Unit(ChipFreq(chip.rate)) \in Nat
           /\ Shortest <= Unit(higher_freq) /\ Unit(higher_freq) \in Nat
           /\ Shortest = Unit(ChipFreq(chip.rate)) \/ Shortest = Unit(higher_freq)
<1>1. chip.rate \in 6 .. 15 /\ higher_freq \in Freqs
  BY DEF TypeInv, MachineOK, Chips
<1>2. Unit(ChipFreq(chip.rate)) \in Nat /\ Unit(higher_freq) \in Nat
  BY <1>1, ChipFreqs, Periods
<1> QED
  BY <1>2 DEF Shortest

\* The fields of a pace.
LEMMA PaceFields ==
    ASSUME NEW k \in Hertz, NEW g \in BOOLEAN, NEW q, q = [left |-> k, hurried |-> g]
    PROVE  q \in Paces /\ q.left = k /\ q.hurried = g
<1>1. q.left = k
  BY SMT
<1>2. q.hurried = g
  BY Zenon
<1>3. q \in Paces
  BY Zenon DEF Paces
<1> QED
  BY <1>1, <1>2, <1>3

\* What a step leaves of the wait of a read that goes on.
LEMMA PaceStep ==
    ASSUME TypeInv, TypeInv', pace \in [Terminals -> Paces], NEW units \in Nat,
           Elapse(units), NEW s \in Terminals
    PROVE  /\ pace'[s] \in Paces
           /\ proc[s].pc # "user" /\ ~pace'[s].hurried =>
                \/ pace'[s].left = 0
                \/ /\ ~pace[s].hurried /\ ~ (higher_freq' > higher_freq)
                   /\ pace'[s].left = Less(pace[s].left, units)
<1>1. pace'[s] = Paced(s, units)
  BY DEF Elapse
<1>2. PICK l \in Hertz, h \in BOOLEAN : l = pace[s].left /\ h = pace[s].hurried
  BY Zenon DEF Paces
<1>3. CASE proc'[s].pc \notin ReadPoints \/ pcb'[s].prog_freq = 0
  <2>1. pace'[s] = [left |-> 0, hurried |-> FALSE]
    BY <1>1, <1>3 DEF Paced, NoPace
  <2> QED
    BY <2>1, Labels, PaceFields, Zenon
<1>4. CASE ~ (proc'[s].pc \notin ReadPoints \/ pcb'[s].prog_freq = 0) /\ proc[s].pc = "user"
  <2>1. pace'[s] = [left |-> Unit(pcb'[s].prog_freq), hurried |-> FALSE]
    BY <1>1, <1>4 DEF Paced
  <2>2. pcb'[s].prog_freq \in Freqs
    BY <1>4 DEF TypeInv
  <2>3. Unit(pcb'[s].prog_freq) \in Hertz
    BY <2>2, Periods
  <2> QED
    BY <1>4, <2>1, <2>3, PaceFields, Zenon
<1>5. CASE ~ (proc'[s].pc \notin ReadPoints \/ pcb'[s].prog_freq = 0) /\ proc[s].pc # "user"
  <2>1. pace'[s] = [left |-> Less(l, units), hurried |-> h \/ higher_freq' > higher_freq]
    BY <1>1, <1>2, <1>5, Zenon DEF Paced
  <2>2. Less(l, units) \in Hertz
    BY DEF Less, Hertz
  <2>3. PICK k \in Hertz, g \in BOOLEAN :
          k = Less(l, units) /\ g = (h \/ higher_freq' > higher_freq)
    BY <2>2, Zenon
  <2>4. pace'[s] = [left |-> k, hurried |-> g]
    BY <2>1, <2>3, Zenon
  <2>5. PICK q : q = pace'[s] /\ q = [left |-> k, hurried |-> g]
    BY <2>4, Zenon
  <2>6. q = [left |-> k, hurried |-> g]
    BY <2>5, Zenon
  <2>7. q \in Paces /\ q.left = k /\ q.hurried = g
    BY <2>6, PaceFields, Zenon
  <2> QED
    BY <1>2, <2>3, <2>5, <2>7, Zenon
<1> QED
  BY <1>3, <1>4, <1>5

\* A step leaves the reads of the other processes alone.
Kept(s) ==
    /\ proc'[s].pc = proc[s].pc /\ pcb'[s].count = pcb[s].count
    /\ rtc_interrupt_flags'[s] = rtc_interrupt_flags[s]

\* Of the other processes only divisors are written.
LEMMA Neighbours ==
    ASSUME IInv, NEW t \in Terminals, Call(t) \/ Step(t), NEW s \in Terminals, s # t
    PROVE  Kept(s)
<1> USE Facts DEF Kept
<1>1. CASE rtc_open(t)
  BY <1>1 DEF rtc_open
<1>2. CASE rtc_read(t)
  BY <1>2 DEF rtc_read, Goto
<1>3. CASE \E freq \in Requests : rtc_write(t, freq)
  BY <1>3 DEF rtc_write
<1>4. CASE rtc_close(t) \/ sys_halt(t)
  BY <1>4 DEF rtc_close, sys_halt
<1>5. CASE \E label \in {"open", "write_set", "close_set"} : rtc_set_frequency(t, label)
  BY <1>5 DEF rtc_set_frequency
<1>6. CASE RegRead(t) \/ RegWrite(t)
  BY <1>6 DEF RegRead, RegWrite
<1>7. CASE ReadReset(t) \/ ReadCount(t) \/ ReadReturn(t)
  BY <1>7 DEF ReadReset, ReadCount, ReadReturn, Goto
<1>8. CASE WriteTest(t) \/ WriteRaise(t) \/ WriteOwn(t)
  BY <1>8 DEF WriteTest, WriteRaise, WriteOwn, Goto
<1>9. CASE WriteAll(t) \/ CloseAll(t)
  <2>1. PICK j \in Terminals : j = proc[t].i
    BY DEF Procs
  <2>2. UpdateDivisor(j) /\ rtc_interrupt_flags' = rtc_interrupt_flags
    BY <1>9, <2>1 DEF WriteAll, CloseAll, Round
  <2>3. proc'[s] = proc[s]
    BY <1>9 DEF WriteAll, CloseAll, Round
  <2>4. pcb'[s].count = pcb[s].count
    <3>1. PICK b \in Pcbs : pcb' = [pcb EXCEPT ![j] = b] /\ b.count = pcb[j].count
      BY <2>2, RoundDivisor
    <3> QED
      BY <3>1
  <2> QED
    BY <2>2, <2>3, <2>4
<1>10. CASE CloseMax(t) \/ CloseAssign(t) \/ sys_execute(t)
  BY <1>10 DEF CloseMax, CloseAssign, sys_execute
<1> QED
  BY <1>1, <1>2, <1>3, <1>4, <1>5, <1>6, <1>7, <1>8, <1>9, <1>10 DEF Call, Step

\* Only rtc_read leads to a point of a read.
LEMMA OnlyReads ==
    ASSUME IInv, TypeInv, NEW t \in Terminals, Call(t) \/ Step(t)
    PROVE  proc'[t].pc \in ReadPoints => rtc_read(t) \/ ReadReset(t) \/ ReadCount(t)
<1> USE Facts DEF ReadPoints, Procs, At
<1>1. CASE rtc_open(t)
  BY <1>1 DEF rtc_open
<1>3. CASE \E freq \in Requests : rtc_write(t, freq)
  BY <1>3 DEF rtc_write
<1>4. CASE rtc_close(t) \/ sys_halt(t)
  <2>1. proc'[t].pc = "close_max" \/ proc'[t].pc = "dead"
    <3>1. CASE rtc_close(t)
      BY <3>1 DEF rtc_close
    <3>2. CASE sys_halt(t) /\ proc[t].open = 1
      BY <3>2 DEF sys_halt
    <3>3. CASE sys_halt(t) /\ proc[t].open # 1
      BY <3>3 DEF sys_halt
    <3> QED
      BY <1>4, <3>1, <3>2, <3>3
  <2> QED
    BY <2>1
<1>5. CASE \E label \in {"open", "write_set", "close_set"} : rtc_set_frequency(t, label)
  BY <1>5 DEF rtc_set_frequency
<1>6. CASE RegRead(t) \/ RegWrite(t)
  <2>1. proc'[t].pc \in {"reg_write", "user", "close_all"}
    <3>1. CASE RegRead(t)
      BY <3>1 DEF RegRead
    <3>2. CASE RegWrite(t)
      BY <3>2 DEF RegWrite
    <3> QED
      BY <1>6, <3>1, <3>2
  <2> QED
    BY <2>1
<1>7. CASE ReadReturn(t)
  BY <1>7 DEF ReadReturn, Goto
<1>8. CASE WriteTest(t) \/ WriteRaise(t) \/ WriteOwn(t)
  BY <1>8 DEF WriteTest, WriteRaise, WriteOwn, Goto
<1>9. CASE WriteAll(t) \/ CloseAll(t)
  <2>1. PICK label \in {"write_all", "close_all"}, next \in {"write_set", "user", "dead"} :
          Round(t, label, next)
    BY <1>9 DEF WriteAll, CloseAll
  <2>2. PICK p : Moves(t, p) /\ p.pc \in {label, next}
    BY <2>1, RoundTypes
  <2> QED
    BY <2>2 DEF Moves
<1>10. CASE CloseMax(t) \/ CloseAssign(t) \/ sys_execute(t)
  <2>1. proc'[t].pc \in {"close_max", "close_assign", "close_set", "user"}
    <3>1. CASE CloseMax(t)
      BY <3>1 DEF CloseMax
    <3>2. CASE CloseAssign(t)
      BY <3>2 DEF CloseAssign
    <3>3. CASE sys_execute(t)
      BY <3>3 DEF sys_execute, NewProgram
    <3> QED
      BY <1>10, <3>1, <3>2, <3>3
  <2> QED
    BY <2>1
<1> QED
  BY <1>1, <1>3, <1>4, <1>5, <1>6, <1>7, <1>8, <1>9, <1>10 DEF Call, Step

\* What a step does to the frequencies: nothing, or rtc_set_frequency sets the chip, or
\* rtc_write raises the highest, or rtc_close assigns it.
Frequencies(t) ==
    \/ /\ higher_freq' = higher_freq /\ chip'.rate = chip.rate
       /\ proc[t].pc \notin SelectWindow \cup {"close_set"}
       /\ proc'[t].pc # "close_set"
    \/ /\ higher_freq' = higher_freq /\ chip'.rate = chip.rate
       /\ proc'[t].pc \in SelectWindow
    \/ /\ higher_freq' = higher_freq /\ ChipFreq(chip'.rate) = higher_freq
    \/ /\ higher_freq' > higher_freq /\ chip' = chip /\ proc[t].pc = "write_raise"
    \/ /\ chip' = chip /\ proc'[t].pc = "close_set"

\* These are the cases.
LEMMA FrequencySteps ==
    ASSUME IInv, NEW t \in Terminals, Call(t) \/ Step(t)
    PROVE  Frequencies(t) /\ curr_process = t /\ curr_process' = t
<1> USE Facts DEF Frequencies, SelectWindow, Procs, At
<1>1. CASE rtc_open(t)
  BY <1>1 DEF rtc_open
<1>2. CASE rtc_read(t)
  BY <1>2 DEF rtc_read, Goto
<1>3. CASE \E freq \in Requests : rtc_write(t, freq)
  BY <1>3 DEF rtc_write
<1>4. CASE rtc_close(t) \/ sys_halt(t)
  BY <1>4 DEF rtc_close, sys_halt
<1>5. CASE \E label \in {"open", "write_set", "close_set"} : rtc_set_frequency(t, label)
  BY <1>5 DEF rtc_set_frequency, Chips
<1>6. CASE RegRead(t)
  BY <1>6 DEF RegRead, Chips
<1>7. CASE RegWrite(t)
  <2>1. chip.selected = "A" /\ proc[t].freq = higher_freq
    BY <1>7 DEF RegWrite, Setting
  <2>2. chip'.rate = rate(higher_freq)
    BY <1>7, <2>1 DEF RegWrite, Chips
  <2> QED
    BY <1>7, <2>2, RateRight DEF RegWrite
<1>8. CASE ReadReset(t) \/ ReadCount(t) \/ ReadReturn(t)
  BY <1>8 DEF ReadReset, ReadCount, ReadReturn, Goto
<1>9. CASE WriteTest(t) \/ WriteOwn(t)
  BY <1>9 DEF WriteTest, WriteOwn, Goto
<1>10. CASE WriteRaise(t)
  BY <1>10 DEF WriteRaise, Writing
<1>11. CASE WriteAll(t) \/ CloseAll(t)
  BY <1>11 DEF WriteAll, CloseAll, Round
<1>12. CASE CloseMax(t) \/ sys_execute(t)
  BY <1>12 DEF CloseMax, sys_execute, NewProgram
<1>13. CASE CloseAssign(t)
  BY <1>13 DEF CloseAssign
<1> QED
  BY <1>1, <1>2, <1>3, <1>4, <1>5, <1>6, <1>7, <1>8, <1>9, <1>10, <1>11, <1>12, <1>13
     DEF Call, Step

\* The chip does not get ahead of the highest frequency.
LEMMA CappedStep ==
    ASSUME TypeInv, TypeInv', Capped, NEW t \in Terminals, Frequencies(t),
           curr_process = t, curr_process' = t
    PROVE  Capped'
<1>1. PICK c \in Freqs, h \in Freqs, d \in Freqs, g \in Freqs :
        /\ c = ChipFreq(chip.rate) /\ h = higher_freq
        /\ d = ChipFreq(chip'.rate) /\ g = higher_freq'
  <2>1. chip.rate \in 6 .. 15 /\ chip'.rate \in 6 .. 15
    BY DEF TypeInv, MachineOK, Chips
  <2>2. higher_freq \in Freqs /\ higher_freq' \in Freqs
    BY DEF TypeInv
  <2>3. ChipFreq(chip.rate) \in Freqs /\ ChipFreq(chip'.rate) \in Freqs
    BY <2>1, ChipFreqs
  <2> QED
    BY <2>2, <2>3
<1>2. Freqs \subseteq Nat
  BY DEF Freqs
<1>3. proc[t].pc \notin SelectWindow \cup {"close_set"} => c <= h
  BY <1>1 DEF Capped
<1>4. SUFFICES ASSUME proc'[t].pc \notin SelectWindow \cup {"close_set"} PROVE d <= g
  BY <1>1 DEF Capped
<1>5. \/ g = h /\ d = c /\ c <= h
      \/ g = h /\ d = h
      \/ g > h /\ d = c /\ proc[t].pc = "write_raise"
  BY <1>1, <1>3, <1>4 DEF Frequencies
<1>6. proc[t].pc = "write_raise" => c <= h
  BY <1>3 DEF SelectWindow
<1> QED
  BY <1>2, <1>5, <1>6

\* While the highest frequency is not raised, no period gets shorter.
LEMMA NoShorter ==
    ASSUME TypeInv, TypeInv', NEW t \in Terminals, Frequencies(t)
    PROVE  higher_freq' > higher_freq \/ Shortest <= Shortest'
<1>1. PICK c \in Freqs, h \in Freqs, d \in Freqs, g \in Freqs :
        /\ c = ChipFreq(chip.rate) /\ h = higher_freq
        /\ d = ChipFreq(chip'.rate) /\ g = higher_freq'
  <2>1. chip.rate \in 6 .. 15 /\ chip'.rate \in 6 .. 15
    BY DEF TypeInv, MachineOK, Chips
  <2>2. higher_freq \in Freqs /\ higher_freq' \in Freqs
    BY DEF TypeInv
  <2>3. ChipFreq(chip.rate) \in Freqs /\ ChipFreq(chip'.rate) \in Freqs
    BY <2>1, ChipFreqs
  <2> QED
    BY <2>2, <2>3
<1>2. h < g \/ g <= h
  BY DEF Freqs
<1>3. /\ Unit(c) \in Nat /\ Unit(h) \in Nat /\ Unit(d) \in Nat /\ Unit(g) \in Nat
      /\ g <= h => Unit(h) <= Unit(g)
  BY Periods, ShorterPeriod
<1>4. /\ Shortest = IF Unit(c) < Unit(h) THEN Unit(c) ELSE Unit(h)
      /\ Shortest' = IF Unit(d) < Unit(g) THEN Unit(d) ELSE Unit(g)
  BY <1>1 DEF Shortest
<1>5. \/ g = h /\ (d = c \/ d = h)
      \/ h < g
      \/ d = c
  BY <1>1 DEF Frequencies
<1> QED
  BY <1>1, <1>2, <1>3, <1>4, <1>5

\* The fields of a read are numbers.
LEMMA ReadNumbers ==
    ASSUME IInv, TypeInv, pace \in [Terminals -> Paces], NEW s \in Terminals
    PROVE  /\ pace[s].left \in Nat /\ pcb[s].count \in Nat /\ rtc_interrupt_flags[s] \in {0, 1}
           /\ proc[s].pc \in {"read_reset", "read_wait"} =>
                pcb[s].count >= 1 /\ pcb[s].count - rtc_interrupt_flags[s] \in Nat
           /\ Shortest \in Nat
<1>1. PICK q \in Paces : q = pace[s]
  OBVIOUS
<1>2. pace[s].left \in Nat
  BY <1>1 DEF Paces, Hertz
<1> QED
  BY <1>2, Numbers, Facts, ShortestPeriod DEF Reading

\* A read that goes on unchanged stays covered.
LEMMA KeptPacing ==
    ASSUME IInv, TypeInv, TypeInv', pace \in [Terminals -> Paces], Elapse(0),
           NEW s \in Terminals, Pacing(s), Kept(s),
           higher_freq' > higher_freq \/ Shortest <= Shortest'
    PROVE  Pacing(s)'
<1> SUFFICES ASSUME ~pace'[s].hurried, proc'[s].pc \in ReadPoints
             PROVE  Pacing(s)'
  BY DEF Pacing, ReadPoints
<1>0. proc[s].pc \in ReadPoints /\ proc[s].pc # "user"
  BY DEF Kept, ReadPoints
<1>1. Shortest' \in Nat
  <2>1. chip'.rate \in 6 .. 15 /\ higher_freq' \in Freqs
    BY DEF TypeInv, MachineOK, Chips
  <2>2. Unit(ChipFreq(chip'.rate)) \in Nat /\ Unit(higher_freq') \in Nat
    BY <2>1, ChipFreqs, Periods
  <2> QED
    BY <2>2 DEF Shortest
<1>2. \/ pace'[s].left = 0
      \/ /\ ~pace[s].hurried /\ Shortest <= Shortest'
         /\ pace'[s].left = Less(pace[s].left, 0)
  BY <1>0, PaceStep
<1>3. PICK l \in Nat, n \in Nat, f \in {0, 1}, a \in Nat, b \in Nat :
        /\ l = pace[s].left /\ n = pcb[s].count /\ f = rtc_interrupt_flags[s]
        /\ a = Shortest /\ b = Shortest'
  BY <1>1, ReadNumbers
<1>4. proc[s].pc \in {"read_reset", "read_wait"} => n >= 1 /\ n - f \in Nat
  BY <1>3, ReadNumbers
<1>5. CASE pace'[s].left = 0
  <2>1. Covers(n, b, 0) /\ (proc[s].pc = "read_wait" => Covers(n - f, b, 0))
    BY <1>4, CoversNothing
  <2> QED
    BY <1>3, <1>5, <2>1 DEF Pacing, Kept
<1>6. CASE ~pace[s].hurried /\ a <= b /\ pace'[s].left = l
  <2>1. Covers(n, a, l) => Covers(n, b, l)
    BY <1>6, CoversMore
  <2>2. proc[s].pc = "read_wait" /\ Covers(n - f, a, l) => Covers(n - f, b, l)
    BY <1>4, <1>6, CoversMore
  <2>3. /\ proc[s].pc = "read_reset" => Covers(n, a, l)
        /\ proc[s].pc = "read_wait" => Covers(n - f, a, l)
        /\ proc[s].pc = "read_return" => l = 0
    BY <1>3, <1>6, Zenon DEF Pacing
  <2> QED
    BY <1>3, <1>6, <2>1, <2>2, <2>3 DEF Pacing, Kept
<1>7. Less(l, 0) = l
  BY DEF Less
<1> QED
  BY <1>2, <1>3, <1>5, <1>6, <1>7

\* A read starts with a count that makes up a period of the program.
LEMMA StartPacing ==
    ASSUME IInv, TypeInv, TypeInv', Capped, pace \in [Terminals -> Paces], Elapse(0),
           NEW t \in Terminals, rtc_read(t)
    PROVE  Pacing(t)'
<1>0. /\ proc[t].pc = "user" /\ t = curr_process /\ chip' = chip /\ higher_freq' = higher_freq
      /\ pace'[t] = Paced(t, 0)
  BY DEF rtc_read, At, Elapse
<1>1. CASE pcb[t].prog_freq = 0
  <2>1. proc'[t].pc = "read_return" /\ pcb'[t].prog_freq = 0
    BY <1>1, Facts DEF rtc_read, Goto, Procs
  <2>2. pace'[t] = [left |-> 0, hurried |-> FALSE]
    BY <1>0, <2>1 DEF Paced, NoPace
  <2> QED
    BY <2>1, <2>2 DEF Pacing
<1>2. CASE pcb[t].prog_freq # 0
  <2>1. PICK x \in Freqs, y \in Freqs, d \in Hertz :
          x = pcb[t].prog_freq /\ y = higher_freq /\ d = pcb[t].divisor /\ Divides(d, x, y)
    <3>1. /\ used_pids[t] = 1 /\ pcb[t].prog_freq \in Freqs
          /\ proc[t].pc \notin StalePoints /\ Settled(t)
      BY <1>0, <1>2, Facts DEF Control, Writing, StalePoints, Settled, SelectWindow
    <3>2. pcb[t].prog_freq > 0 /\ pcb[t].divisor \in Hertz
      BY <3>1, Facts DEF Freqs, Pcbs
    <3> QED
      BY <3>1, <3>2, Facts DEF Exact, Divides
  <2>2. /\ proc'[t].pc = "read_reset" /\ pcb'[t].prog_freq = x /\ pcb'[t].count = d
    <3>1. PICK c \in Pcbs : c = pcb[t]
      BY Facts
    <3>2. pcb'[t] = [c EXCEPT !.count = d]
      BY <1>2, <2>1, <3>1, Facts DEF rtc_read
    <3>3. [c EXCEPT !.count = d].prog_freq = c.prog_freq /\ [c EXCEPT !.count = d].count = d
      BY DEF Pcbs
    <3>4. proc'[t].pc = "read_reset"
      BY <1>2, Facts DEF rtc_read, Goto, Procs
    <3> QED
      BY <2>1, <3>1, <3>2, <3>3, <3>4
  <2>3. pace'[t] = [left |-> Unit(x), hurried |-> FALSE]
    <3>1. x # 0 /\ proc'[t].pc \in ReadPoints
      BY <2>2 DEF Freqs, ReadPoints
    <3> QED
      BY <1>0, <2>2, <3>1 DEF Paced
  <2>4. Shortest' = Unit(y)
    <3>1. PICK c \in Freqs : c = ChipFreq(chip.rate)
      BY ChipFreqs, TypeFacts DEF Chips
    <3>2. c <= y
      BY <1>0, <2>1, <3>1 DEF Capped, SelectWindow
    <3>3. Unit(y) <= Unit(c) /\ Unit(y) \in Nat /\ Unit(c) \in Nat
      BY <3>2, ShorterPeriod, Periods
    <3>4. ~ (Unit(c) < Unit(y))
      BY <3>3
    <3> QED
      BY <1>0, <2>1, <3>1, <3>4 DEF Shortest
  <2>5. Covers(d, Unit(y), Unit(x))
    BY <2>1, WholePeriod
  <2> QED
    BY <2>2, <2>3, <2>4, <2>5 DEF Pacing
<1> QED
  BY <1>1, <1>2

\* A read counts the interrupt that it has seen.
LEMMA ReadPacing ==
    ASSUME IInv, TypeInv, TypeInv', pace \in [Terminals -> Paces], Elapse(0),
           NEW t \in Terminals, Pacing(t), ReadReset(t) \/ ReadCount(t)
    PROVE  Pacing(t)'
<1> SUFFICES ASSUME ~pace'[t].hurried PROVE Pacing(t)'
  BY DEF Pacing
<1>0. /\ proc[t].pc \in {"read_reset", "read_wait"} /\ chip' = chip
      /\ higher_freq' = higher_freq
  BY DEF ReadReset, ReadCount, At
<1>1. Shortest' = Shortest
  BY <1>0 DEF Shortest
<1>2. pace'[t].left = 0 \/ (~pace[t].hurried /\ pace'[t].left = Less(pace[t].left, 0))
  BY <1>0, PaceStep
<1>3. PICK l \in Nat, n \in Nat, f \in {0, 1}, a \in Nat :
        /\ l = pace[t].left /\ n = pcb[t].count /\ f = rtc_interrupt_flags[t]
        /\ a = Shortest /\ n >= 1
  BY <1>0, ReadNumbers
<1>4. PICK m \in Nat : /\ m = pace'[t].left
                       /\ m = 0 \/ (m = l /\ ~pace[t].hurried)
  BY <1>2, <1>3 DEF Less
<1>5. CASE ReadReset(t)
  <2>1. /\ proc'[t].pc = "read_wait" /\ rtc_interrupt_flags'[t] = 0 /\ pcb'[t].count = n
        /\ proc[t].pc = "read_reset"
    BY <1>3, <1>5, Facts DEF ReadReset, Goto, At, Procs
  <2>2. Covers(n, a, m)
    BY <1>3, <1>4, <2>1, CoversNothing DEF Pacing
  <2>3. n - 0 = n
    OBVIOUS
  <2> QED
    BY <1>1, <1>3, <1>4, <2>1, <2>2, <2>3 DEF Pacing
<1>6. CASE ReadCount(t)
  <2>1. PICK k \in 0 .. Word - 1 : k = n - 1 /\ k = (pcb[t].count - 1) % Word
    <3>1. n \in 0 .. Word - 1
      BY <1>3, Facts DEF Pcbs
    <3>2. (n - 1) % Word = n - 1
      BY <1>3, <3>1, RtcAssumption
    <3> QED
      BY <1>3, <3>1, <3>2, RtcAssumption
  <2>2. /\ proc'[t].pc = (IF k > 0 THEN "read_reset" ELSE "read_return")
        /\ pcb'[t].count = k /\ f = 1 /\ proc[t].pc = "read_wait"
    BY <1>3, <1>6, <2>1, Facts DEF ReadCount, Goto, At, Procs, Pcbs
  <2>3. k \in Nat
    OBVIOUS
  <2>4. Covers(k, a, m)
    BY <1>3, <1>4, <2>1, <2>2, <2>3, CoversNothing DEF Pacing
  <2>5. k = 0 => m = 0
    BY <2>3, <2>4, CoversNothing
  <2>6. k > 0 \/ k = 0
    BY <2>3
  <2> QED
    BY <1>1, <1>3, <1>4, <2>2, <2>4, <2>5, <2>6 DEF Pacing
<1> QED
  BY <1>5, <1>6

\* An interrupt of the clock raises the flag once a period has passed.
LEMMA HandlerPacing ==
    ASSUME IInv, TypeInv, TypeInv', pace \in [Terminals -> Paces], RT_handler,
           Elapse(Unit(ChipFreq(chip.rate))), NEW s \in Terminals, Pacing(s)
    PROVE  Pacing(s)'
<1> SUFFICES ASSUME ~pace'[s].hurried, proc'[s].pc \in ReadPoints
             PROVE  Pacing(s)'
  BY DEF Pacing, ReadPoints
<1>0. /\ proc' = proc /\ pcb' = pcb /\ rtc_interrupt_flags'[s] = 1
      /\ higher_freq' = higher_freq /\ chip'.rate = chip.rate /\ proc[s].pc # "user"
  BY Facts DEF RT_handler, Chips, ReadPoints
<1>1. Shortest' = Shortest
  BY <1>0 DEF Shortest
<1>2. PICK l \in Nat, n \in Nat, f \in {0, 1}, a \in Nat, u \in Nat :
        /\ l = pace[s].left /\ n = pcb[s].count /\ f = rtc_interrupt_flags[s]
        /\ a = Shortest /\ u = Unit(ChipFreq(chip.rate)) /\ a <= u
        /\ proc[s].pc \in {"read_reset", "read_wait"} => n >= 1
  BY ReadNumbers, ShortestPeriod
<1>3. pace'[s].left = 0 \/ (~pace[s].hurried /\ pace'[s].left = Less(l, u))
  BY <1>0, <1>2, PaceStep
<1>4. Less(l, u) \in Nat /\ Less(l, u) <= l
  BY DEF Less
<1>5. PICK m \in Nat : /\ m = pace'[s].left
                       /\ m = 0 \/ (m = Less(l, u) /\ ~pace[s].hurried)
  BY <1>3, <1>4
<1>6. CASE proc[s].pc = "read_reset"
  <2>1. ~pace[s].hurried => Covers(n, a, l)
    BY <1>2, <1>6 DEF Pacing
  <2>2. Covers(n, a, m)
    <3>1. Covers(n, a, 0)
      BY CoversNothing
    <3>2. Covers(n, a, l) => Covers(n, a, Less(l, u))
      <4>1. a <= a
        OBVIOUS
      <4> QED
        BY <1>4, <4>1, CoversMore
    <3> QED
      BY <1>5, <2>1, <3>1, <3>2
  <2> QED
    BY <1>0, <1>1, <1>2, <1>5, <1>6, <2>2 DEF Pacing
<1>7. CASE proc[s].pc = "read_wait"
  <2>1. ~pace[s].hurried => Covers(n - f, a, l)
    BY <1>2, <1>7 DEF Pacing
  <2>2. n - 1 \in Nat /\ n >= 1 /\ n - 0 = n
    BY <1>2, <1>7
  <2>3. Covers(n - 1, a, 0)
    BY <2>2, CoversNothing
  <2>4. f = 0 /\ Covers(n - f, a, l) => Covers(n - 1, a, Less(l, u))
    BY <1>2, <2>2, CoversNext
  <2>5. f = 1 /\ Covers(n - f, a, l) => Covers(n - 1, a, Less(l, u))
    BY <1>4, <2>2, CoversMore
  <2>6. Covers(n - 1, a, m)
    BY <1>5, <2>1, <2>3, <2>4, <2>5
  <2> QED
    BY <1>0, <1>1, <1>2, <1>5, <1>7, <2>6 DEF Pacing
<1>8. CASE proc[s].pc = "read_return"
  <2>1. ~pace[s].hurried => l = 0
    BY <1>2, <1>8 DEF Pacing
  <2>2. m = 0
    BY <1>4, <1>5, <2>1
  <2> QED
    BY <1>0, <1>5, <1>8, <2>2 DEF Pacing
<1> QED
  BY <1>0, <1>6, <1>7, <1>8 DEF ReadPoints

-----------------------------------------------------------------------------
(***************************************************************************)
(* The theorems.                                                           *)
(***************************************************************************)

\* init_rtc establishes the invariant.
LEMMA InitInv ==
    ASSUME Init
    PROVE  IInv
<1>0. 0 \in Terminals /\ 0 \in Hertz /\ 0 \in 0 .. Word - 1
  BY RtcAssumption DEF Terminals, Hertz
<1>1. NewProgram \in Procs /\ ZeroPcb \in Pcbs
  BY <1>0 DEF NewProgram, Procs, ZeroPcb, Pcbs, Points
<1>2. 2 \in Freqs /\ rate(2) \in 6 .. 15
  BY RateRight DEF Freqs
<1>3. \A t \in Terminals :
        /\ proc[t].pc = "user" /\ proc[t].i = 0 /\ proc[t].ret = "user"
        /\ pcb[t].prog_freq = 0 /\ used_pids[t] = 1
  BY DEF Init, NewProgram, ZeroPcb
<1>4. higher_freq = 2 /\ chip.high = 2 /\ chip.rate = rate(2) /\ curr_process = 0
  BY DEF Init
<1>5. MachineOK
  <2>1. /\ higher_freq \in 2 .. 1024 /\ chip \in Chips
        /\ rtc_interrupt_flags \in [Terminals -> {0, 1}]
        /\ used_pids \in [Terminals -> {0, 1}] /\ curr_process \in Terminals
    BY <1>0, <1>2 DEF Init, Chips
  <2>2. proc \in [Terminals -> Procs] /\ pcb \in [Terminals -> Pcbs]
    BY <1>1 DEF Init
  <2> QED
    BY <2>1, <2>2 DEF MachineOK
<1>6. ASSUME NEW t \in Terminals PROVE OwnInv(t)
  BY <1>3, <1>4 DEF OwnInv, Control, Writing, Closing, Setting, Reading, Bounded, Exact, Loops,
     SelectWindow, UpdateWindow, StalePoints
<1>7. ChipRight
  BY <1>4 DEF ChipRight
<1> QED
  BY <1>2, <1>4, <1>5, <1>6, <1>7 DEF IInv

\* The steps of the programs keep the invariant.
LEMMA ProgramInv ==
    ASSUME IInv, NEW t \in Terminals, Call(t) \/ Step(t)
    PROVE  IInv'
<1>1. CASE Call(t)
  <2>1. CASE rtc_open(t)
    BY <2>1, OpenInv
  <2>2. CASE rtc_read(t)
    BY <2>2, ReadNothingInv, ReadLoadInv
  <2>3. CASE \E freq \in Requests : rtc_write(t, freq)
    BY <2>3, WriteInv
  <2>4. CASE rtc_close(t)
    BY <2>4, CloseInv
  <2>5. CASE sys_halt(t)
    BY <2>5, HaltOpenInv, HaltClosedInv
  <2> QED
    BY <1>1, <2>1, <2>2, <2>3, <2>4, <2>5 DEF Call
<1>2. CASE Step(t)
  <2>1. CASE \E label \in {"open", "write_set", "close_set"} : rtc_set_frequency(t, label)
    BY <2>1, SetFrequencyInv
  <2>2. CASE RegRead(t) \/ RegWrite(t)
    BY <2>2, RegReadInv, RegWriteInv
  <2>3. CASE ReadReset(t) \/ ReadCount(t) \/ ReadReturn(t)
    BY <2>3, ReadResetInv, ReadCountInv, ReadReturnInv
  <2>4. CASE WriteTest(t) \/ WriteRaise(t) \/ WriteAll(t) \/ WriteOwn(t)
    BY <2>4, WriteTestInv, WriteRaiseInv, WriteAllInv, WriteOwnInv
  <2>5. CASE CloseMax(t)
    BY <2>5, CloseMaxInv, CloseMaxEndInv
  <2>6. CASE CloseAssign(t) \/ CloseAll(t) \/ sys_execute(t)
    BY <2>6, CloseAssignInv, CloseAllInv, ExecuteInv
  <2> QED
    BY <1>2, <2>1, <2>2, <2>3, <2>4, <2>5, <2>6 DEF Step
<1> QED
  BY <1>1, <1>2

\* All of the types.
AllTypes ==
    /\ TypeInv
    /\ pace \in [Terminals -> Paces]
    /\ torn \in BOOLEAN

\* What holds until an interrupt falls into a window.
Safe ==
    /\ IInv
    /\ Capped
    /\ \A t \in Terminals : Pacing(t)

\* init_rtc establishes both.
LEMMA InitSafe ==
    ASSUME Init
    PROVE  AllTypes /\ Safe
<1>1. IInv
  BY InitInv
<1>2. /\ \A t \in Terminals : proc[t].pc = "user" /\ pcb[t].prog_freq = 0
      /\ higher_freq = 2 /\ chip.rate = rate(2)
  BY DEF Init, NewProgram, ZeroPcb
<1>3. TypeInv
  BY <1>1, <1>2 DEF TypeInv, IInv, Sane, StalePoints, SelectWindow
<1>4. pace \in [Terminals -> Paces]
  <2>1. NoPace \in Paces
    BY Labels, PaceFields, Zenon DEF NoPace
  <2> QED
    BY <2>1 DEF Init
<1>5. torn \in BOOLEAN
  BY Zenon DEF Init
<1>6. Capped
  <2>1. ChipFreq(rate(2)) = 2
    BY RateRight, Labels
  <2> QED
    BY <1>2, <2>1 DEF Capped
<1>7. ASSUME NEW t \in Terminals PROVE Pacing(t)
  BY <1>2 DEF Pacing
<1> QED
  BY <1>1, <1>3, <1>4, <1>5, <1>6, <1>7 DEF AllTypes, Safe

\* Time that ends is a number, and paces keep their types.
LEMMA PaceTypes ==
    ASSUME TypeInv, TypeInv', pace \in [Terminals -> Paces], NEW units \in Nat, Elapse(units)
    PROVE  pace' \in [Terminals -> Paces]
<1>1. \A s \in Terminals : pace'[s] \in Paces
  BY PaceStep
<1>2. pace' = [s \in Terminals |-> pace'[s]]
  BY DEF Elapse
<1> QED
  BY <1>1, <1>2

\* Every step keeps the types, and no step forgets an interrupt in a window.
LEMMA NextTypes ==
    ASSUME AllTypes, [Next]_vars
    PROVE  AllTypes'
<1> USE DEF AllTypes
<1>1. ASSUME NEW t \in Terminals, Call(t) \/ Step(t), Elapse(0), UNCHANGED torn
      PROVE  AllTypes'
  <2>1. TypeInv'
    BY <1>1, CallTypes, SetTypes, ReadTypes, WriteTypes, CloseTypes DEF Step
  <2>2. pace' \in [Terminals -> Paces]
    BY <1>1, <2>1, PaceTypes
  <2>3. torn' \in BOOLEAN
    BY <1>1, Zenon
  <2> QED
    BY <2>1, <2>2, <2>3
<1>2. ASSUME RT_handler, Elapse(Unit(ChipFreq(chip.rate))), Interrupted(SelectWindow)
      PROVE  AllTypes'
  <2>1. TypeInv'
    BY <1>2, InterruptTypes
  <2>2. Unit(ChipFreq(chip.rate)) \in Nat
    BY ShortestPeriod
  <2>3. pace' \in [Terminals -> Paces]
    BY <1>2, <2>1, <2>2, PaceTypes
  <2>4. torn' \in BOOLEAN
    BY <1>2, Zenon DEF Interrupted
  <2> QED
    BY <2>1, <2>3, <2>4
<1>3. ASSUME Tick, Elapse(0), Interrupted(UpdateWindow)
      PROVE  AllTypes'
  <2>1. TypeInv'
    BY <1>3, InterruptTypes
  <2>2. pace' \in [Terminals -> Paces]
    BY <1>3, <2>1, PaceTypes
  <2>3. torn' \in BOOLEAN
    BY <1>3, Zenon DEF Interrupted
  <2> QED
    BY <2>1, <2>2, <2>3
<1>4. CASE UNCHANGED vars
  <2>1. TypeInv'
    BY <1>4 DEF vars, TypeInv, MachineOK
  <2>2. pace' = pace /\ torn' = torn
    BY <1>4 DEF vars
  <2> QED
    BY <2>1, <2>2, Zenon
<1> QED
  BY <1>1, <1>2, <1>3, <1>4 DEF Next

\* A step of a program keeps what holds before the first interrupt in a window.
LEMMA ProgramSafe ==
    ASSUME AllTypes, AllTypes', Safe, NEW t \in Terminals, Call(t) \/ Step(t), Elapse(0)
    PROVE  Safe'
<1> USE DEF AllTypes, Safe
<1>1. IInv'
  BY ProgramInv
<1>2. Frequencies(t) /\ curr_process = t /\ curr_process' = t
  BY FrequencySteps
<1>3. Capped'
  BY <1>2, CappedStep
<1>4. higher_freq' > higher_freq \/ Shortest <= Shortest'
  BY <1>2, NoShorter
<1>5. ASSUME NEW s \in Terminals PROVE Pacing(s)'
  <2>1. CASE s # t
    BY <1>4, <2>1, Neighbours, KeptPacing
  <2>2. CASE s = t
    <3>1. CASE proc'[t].pc \notin ReadPoints
      BY <2>2, <3>1 DEF Pacing, ReadPoints
    <3>2. CASE rtc_read(t)
      BY <2>2, <3>2, StartPacing
    <3>3. CASE ReadReset(t) \/ ReadCount(t)
      BY <2>2, <3>3, ReadPacing
    <3> QED
      BY <3>1, <3>2, <3>3, OnlyReads
  <2> QED
    BY <2>1, <2>2
<1> QED
  BY <1>1, <1>3, <1>5

\* So does an interrupt outside the windows.
LEMMA InterruptSafe ==
    ASSUME AllTypes, AllTypes', Safe,
           \/ /\ RT_handler /\ Elapse(Unit(ChipFreq(chip.rate)))
              /\ proc[curr_process].pc \notin SelectWindow
           \/ /\ Tick /\ Elapse(0)
              /\ proc[curr_process].pc \notin UpdateWindow
    PROVE  Safe'
<1> USE DEF AllTypes, Safe
<1>1. CASE RT_handler /\ Elapse(Unit(ChipFreq(chip.rate)))
           /\ proc[curr_process].pc \notin SelectWindow
  <2>1. IInv'
    BY <1>1, HandlerInv
  <2>2. chip'.rate = chip.rate
    BY <1>1 DEF RT_handler, TypeInv, MachineOK, Chips
  <2>3. Capped'
    BY <1>1, <2>2 DEF RT_handler, Capped
  <2> QED
    BY <1>1, <2>1, <2>3, HandlerPacing
<1>2. CASE Tick /\ Elapse(0) /\ proc[curr_process].pc \notin UpdateWindow
  <2>1. IInv'
    BY <1>2, TickInv
  <2>2. /\ higher_freq' = higher_freq /\ chip' = chip /\ proc' = proc /\ pcb' = pcb
        /\ rtc_interrupt_flags' = rtc_interrupt_flags
    BY <1>2 DEF Tick
  <2>3. Capped'
    BY <1>2, <2>2 DEF Capped, UpdateWindow
  <2>4. Shortest' = Shortest /\ Shortest \in Nat
    BY <2>2, ShortestPeriod DEF Shortest
  <2>5. ASSUME NEW s \in Terminals PROVE Pacing(s)'
    <3>1. Kept(s) /\ Shortest <= Shortest'
      BY <2>2, <2>4 DEF Kept
    <3> QED
      BY <1>2, <3>1, KeptPacing
  <2> QED
    BY <2>1, <2>3, <2>5
<1> QED
  BY <1>1, <1>2

\* Until an interrupt falls into a window, every step keeps it.
LEMMA NextSafe ==
    ASSUME AllTypes, AllTypes', ~torn => Safe, [Next]_vars, ~torn'
    PROVE  Safe'
<1>1. ASSUME NEW t \in Terminals, Call(t) \/ Step(t), Elapse(0), UNCHANGED torn
      PROVE  Safe'
  <2>1. Safe
    BY <1>1, Zenon
  <2> QED
    BY <1>1, <2>1, ProgramSafe
<1>2. ASSUME RT_handler, Elapse(Unit(ChipFreq(chip.rate))), Interrupted(SelectWindow)
      PROVE  Safe'
  <2>1. Safe /\ proc[curr_process].pc \notin SelectWindow
    BY <1>2, Zenon DEF Interrupted
  <2> QED
    BY <1>2, <2>1, InterruptSafe
<1>3. ASSUME Tick, Elapse(0), Interrupted(UpdateWindow)
      PROVE  Safe'
  <2>1. Safe /\ proc[curr_process].pc \notin UpdateWindow
    BY <1>3, Zenon DEF Interrupted
  <2> QED
    BY <1>3, <2>1, InterruptSafe
<1>4. CASE UNCHANGED vars
  <2>0. torn' = torn /\ pace' = pace
    BY <1>4 DEF vars
  <2>1. Safe /\ IInv
    BY <2>0, Zenon DEF Safe
  <2>2. MachineOK' /\ ChipRight' /\ higher_freq' \in Freqs
    BY <1>4, <2>1 DEF vars, IInv, MachineOK, ChipRight
  <2>3. ASSUME NEW t \in Terminals PROVE OwnInv(t)'
    <3>1. Control(t)' /\ Writing(t)' /\ Closing(t)'
      BY <1>4, <2>1, Facts DEF vars, Control, Writing, Closing
    <3>2. Setting(t)' /\ Reading(t)' /\ Bounded(t)' /\ Exact(t)'
      BY <1>4, <2>1, Facts DEF vars, Setting, Reading, Bounded, Exact, Settled
    <3> QED
      BY <3>1, <3>2 DEF OwnInv
  <2>4. Capped'
    BY <1>4, <2>1 DEF vars, Capped, Safe
  <2>5. ASSUME NEW t \in Terminals PROVE Pacing(t)'
    <3>1. /\ proc' = proc /\ pcb' = pcb /\ rtc_interrupt_flags' = rtc_interrupt_flags
          /\ Shortest' = Shortest
      BY <1>4 DEF vars, Shortest
    <3> QED
      BY <2>0, <2>1, <3>1, Zenon DEF Safe, Pacing
  <2> QED
    BY <2>2, <2>3, <2>4, <2>5 DEF Safe, IInv
<1> QED
  BY <1>1, <1>2, <1>3, <1>4 DEF Next

\* The types hold in every state of the clock, and the invariant in every state before the
\* first interrupt in a window.
THEOREM Invariance ==
    Spec => [](AllTypes /\ (~torn => Safe))
<1>1. Init => AllTypes /\ (~torn => Safe)
  BY InitSafe
<1>2. AllTypes /\ (~torn => Safe) /\ [Next]_vars => (AllTypes /\ (~torn => Safe))'
  BY NextTypes, NextSafe
<1> QED
  BY <1>1, <1>2, PTL DEF Spec

\* The variables keep their types, wherever the interrupts come: no loop leaves the
\* table, and no frequency or divisor that is not one gets into the chip or a block.
THEOREM Typing ==
    Spec => []TypeOK
<1>1. AllTypes => TypeOK
  BY Zenon DEF AllTypes, TypeInv, MachineOK, TypeOK, Paces
<1> QED
  BY <1>1, Invariance, PTL

\* Until a tick falls into an update: when a program runs that is not inside rtc_open,
\* rtc_write or rtc_close, the divisors of all programs turn the highest frequency into
\* their own.
THEOREM DivisorsExact ==
    Spec => []DivisorExact
<1>1. (~torn => Safe) => DivisorExact
  <2> SUFFICES ASSUME IInv, ~Changing(curr_process), NEW t \in Terminals,
                      used_pids[t] = 1, pcb[t].prog_freq > 0, ~Changing(t)
               PROVE  pcb[t].divisor * pcb[t].prog_freq = higher_freq
    BY Zenon DEF DivisorExact, Safe
  <2>1. proc[t].pc \notin StalePoints
    BY DEF Changing, StalePoints
  <2>2. Settled(t)
    BY DEF Settled, Changing, SelectWindow
  <2> QED
    BY <2>1, <2>2, Facts DEF Exact
<1> QED
  BY <1>1, Invariance, PTL

\* Until an interrupt falls into a window: when no program is changing frequencies the
\* chip runs at higher_freq, which is enough for every program.
THEOREM ChipFollowsAlways ==
    Spec => []ChipFollows
<1>1. (~torn => Safe) => ChipFollows
  <2> SUFFICES ASSUME IInv, \A t \in Terminals : ~Changing(t)
               PROVE  /\ ChipFreq(chip.rate) = higher_freq
                      /\ chip.high = 2
                      /\ \A t \in Terminals :
                           used_pids[t] = 1 => pcb[t].prog_freq <= higher_freq
    BY Zenon DEF ChipFollows, Safe
  <2>1. \A t \in Terminals : proc[t].pc \notin PendingPoints
    BY DEF Changing, PendingPoints, SelectWindow
  <2>2. chip.rate = rate(higher_freq) /\ chip.high = 2 /\ higher_freq \in Freqs
    BY <2>1 DEF IInv, ChipRight
  <2>3. ASSUME NEW t \in Terminals, used_pids[t] = 1 PROVE pcb[t].prog_freq <= higher_freq
    BY <2>3, Facts DEF Bounded, Changing
  <2> QED
    BY <2>2, <2>3, RateRight
<1> QED
  BY <1>1, Invariance, PTL

\* Until an interrupt falls into a window: a read during which the frequency is not raised
\* returns after a whole period of its program's frequency, at whatever frequencies the
\* chip ran meanwhile.
THEOREM ReadsPaced ==
    Spec => []ReadPaced
<1>1. (~torn => Safe) => ReadPaced
  BY Zenon DEF ReadPaced, Safe, Pacing
<1> QED
  BY <1>1, Invariance, PTL
=============================================================================
