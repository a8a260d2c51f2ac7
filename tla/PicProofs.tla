----------------------------- MODULE PicProofs -----------------------------
(***************************************************************************)
(* Proofs about the interrupt controllers: types, interrupts that are      *)
(* ended exactly once, and keys that meet their terminal, for any number   *)
(* of terminals.                                                           *)
(***************************************************************************)
EXTENDS Pic, TLAPS

BootSteps == {"boot_rtc", "boot_kb", "boot_pt", "boot_sti"}

\* No shell runs before interrupts are enabled, and the timer is not masked from then on.
TimerOpen ==
    /\ pc \in BootSteps => started = {}
    /\ pc \notin BootSteps \ {"boot_sti"} => PT_IRQ_NUM \notin imr["master"]

\* The terminal that will run when the timer handler returns.
Runs == IF pc \in {"PT_start", "PT_switch"} THEN next_process ELSE curr_process

\* While the keyboard is not masked, the terminal shown is the one that runs, unless
\* Alt-Fn has just changed it: then switch_ter waits for the tick or the tick waits.
KeyboardGuarded ==
    /\ pc = "PT_select" => KB_IRQ_NUM \in imr["master"]
    /\ (started # {} \/ pc \in TimerSteps) /\ KB_IRQ_NUM \notin imr["master"] =>
         \/ Runs = curr_ter
         \/ pc = "KB_wait"
         \/ pc \notin TimerSteps /\ PT_IRQ_NUM \in irr["master"]
         \/ pc = "PT_handler"

\* No device is connected to the line of the slave.
DeviceLines == SLAVE_ON_MASTER \notin irr["master"]

IInv ==
    /\ TypeOK /\ imr = mask /\ DeviceLines
    /\ EndedOnce /\ TimerOpen /\ KeyboardGuarded /\ KeyMeetsItsTerminal

\* The smallest element of a set of lines exists.
LEMMA FirstLine ==
    ASSUME NEW S \in SUBSET Lines, S # {}
    PROVE  First(S) \in S /\ \A k \in S : First(S) <= k
<1>1. \E n \in S : \A k \in S : n <= k
  <2>1. SUFFICES ASSUME \A n \in S : \E k \in S : k < n PROVE FALSE
    BY DEF Lines, PIC_MAX_IRQ
  <2>2. 0 \notin S
    BY <2>1 DEF Lines, PIC_MAX_IRQ
  <2>3. 1 \notin S
    BY <2>1, <2>2 DEF Lines, PIC_MAX_IRQ
  <2>4. 2 \notin S
    BY <2>1, <2>2, <2>3 DEF Lines, PIC_MAX_IRQ
  <2>5. 3 \notin S
    BY <2>1, <2>2, <2>3, <2>4 DEF Lines, PIC_MAX_IRQ
  <2>6. 4 \notin S
    BY <2>1, <2>2, <2>3, <2>4, <2>5 DEF Lines, PIC_MAX_IRQ
  <2>7. 5 \notin S
    BY <2>1, <2>2, <2>3, <2>4, <2>5, <2>6 DEF Lines, PIC_MAX_IRQ
  <2>8. 6 \notin S
    BY <2>1, <2>2, <2>3, <2>4, <2>5, <2>6, <2>7 DEF Lines, PIC_MAX_IRQ
  <2>9. 7 \notin S
    BY <2>1, <2>2, <2>3, <2>4, <2>5, <2>6, <2>7, <2>8 DEF Lines, PIC_MAX_IRQ
  <2>10. PICK n \in S : TRUE
    OBVIOUS
  <2>11. n \in 0 .. 7
    BY <2>10 DEF Lines, PIC_MAX_IRQ
  <2> QED
    BY <2>10, <2>11, <2>2, <2>3, <2>4, <2>5, <2>6, <2>7, <2>8, <2>9
<1> QED
  BY <1>1 DEF First

\* Every step keeps the types.
LEMMA TypesStep == TypeOK /\ [Next]_vars => TypeOK'
<1> SUFFICES ASSUME TypeOK, [Next]_vars PROVE TypeOK'
  OBVIOUS
<1> USE PicAssumption DEF TypeOK, PT_IRQ_NUM, KB_IRQ_NUM, RTC_IRQ_NUM, SLAVE_ON_MASTER,
        PIC_MAX_IRQ, Devices, TimerSteps
<1> DEFINE Regs == [Chips -> SUBSET Lines]
<1>a. /\ Chip(PT_IRQ_NUM) = "master" /\ LineOf(PT_IRQ_NUM) = 0
      /\ Chip(KB_IRQ_NUM) = "master" /\ LineOf(KB_IRQ_NUM) = 1
      /\ Chip(RTC_IRQ_NUM) = "slave" /\ LineOf(RTC_IRQ_NUM) = 0
  BY DEF Chip, LineOf
<1>b. 0 \in Lines /\ 1 \in Lines /\ 2 \in Lines /\ "master" \in Chips /\ "slave" \in Chips
  BY DEF Lines, Chips
<1>c. ASSUME NEW d \in Devices
      PROVE  Chip(d) \in Chips /\ LineOf(d) \in Lines
  BY <1>a, <1>b
<1>n. next_process \in Terminals
  BY DEF next_process, Terminals
<1>e. ASSUME NEW d \in Devices, enable_irq(d)
      PROVE  imr' \in Regs /\ mask' \in Regs
  BY <1>c, <1>e DEF enable_irq, SetMask
<1>f. ASSUME NEW d \in Devices, disable_irq(d)
      PROVE  imr' \in Regs /\ mask' \in Regs
  BY <1>c, <1>f DEF disable_irq, SetMask
<1>g. ASSUME NEW d \in Devices, send_eoi(d)
      PROVE  isr' \in Regs
  BY <1>a, <1>b, <1>g DEF send_eoi
<1>h. ASSUME NEW d \in Devices, NEW at, End(at, d)
      PROVE  TypeOK'
  BY <1>g, <1>h DEF End, Step, terms
<1>1. CASE Boot
  <2> USE <1>1 DEF Boot, terms
  <2>1. CASE Step("boot_rtc", "boot_kb") /\ enable_irq(RTC_IRQ_NUM) /\ UNCHANGED iflag
    BY <2>1, <1>e DEF Step
  <2>2. CASE Step("boot_kb", "boot_pt") /\ enable_irq(KB_IRQ_NUM) /\ UNCHANGED iflag
    BY <2>2, <1>e DEF Step
  <2>3. CASE Step("boot_pt", "boot_sti") /\ enable_irq(PT_IRQ_NUM) /\ UNCHANGED iflag
    BY <2>3, <1>e DEF Step
  <2>4. CASE Step("boot_sti", "run") /\ iflag' = 1 /\ UNCHANGED <<imr, mask>>
    BY <2>4 DEF Step
  <2> QED
    BY <2>1, <2>2, <2>3, <2>4 DEF entry
<1>2. CASE SYS_handler_wrapper
  BY <1>2 DEF SYS_handler_wrapper, chips, terms
<1>3. CASE PT_handler
  BY <1>3, <1>f DEF PT_handler, Step, terms
<1>4. CASE PT_select
  BY <1>4, <1>e DEF PT_select, Step, terms
<1>5. CASE PT_start
  BY <1>5, <1>g, <1>n DEF PT_start, Step, terms
<1>6. CASE PT_switch
  BY <1>6, <1>n DEF PT_switch, Step, chips
<1>7. CASE KB_handler
  BY <1>7 DEF KB_handler, chips
<1>8. CASE wait_slightly
  BY <1>8 DEF wait_slightly, Step, chips, terms
<1>9. CASE RT_handler
  BY <1>9 DEF RT_handler, Step, chips, terms
<1>10. ASSUME NEW d \in Devices, Raise(d)
       PROVE  TypeOK'
  <2>1. irr' \in Regs
    BY <1>10, <1>c DEF Raise
  <2> QED
    BY <2>1, <1>10 DEF Raise, terms
<1>11. ASSUME NEW d \in Devices, Take(d)
       PROVE  TypeOK'
  <2>1. irr' \in Regs
    BY <1>11, <1>c DEF Take
  <2>2. isr' \in Regs
    BY <1>11, <1>b, <1>c DEF Take
  <2>3. pc' \in {"PT_handler", "KB_handler", "RT_handler"}
    BY <1>11 DEF Take, HandlerOf
  <2> QED
    BY <2>1, <2>2, <2>3, <1>11 DEF Take, terms
<1>12. CASE UNCHANGED vars
  BY <1>12 DEF vars, chips, terms
<1> QED
  BY <1>1, <1>2, <1>3, <1>4, <1>5, <1>6, <1>7, <1>8, <1>9, <1>10, <1>11, <1>12, <1>h
  DEF Next, Handlers

\* The lines that the devices are wired to.
LEMMA Numbers ==
    /\ Chip(PT_IRQ_NUM) = "master" /\ LineOf(PT_IRQ_NUM) = 0
    /\ Chip(KB_IRQ_NUM) = "master" /\ LineOf(KB_IRQ_NUM) = 1
    /\ Chip(RTC_IRQ_NUM) = "slave" /\ LineOf(RTC_IRQ_NUM) = 0
    /\ "master" \in Chips /\ "slave" \in Chips
    /\ \A c \in Chips : c = "master" \/ c = "slave"
BY DEF Chip, LineOf, Chips, PT_IRQ_NUM, KB_IRQ_NUM, RTC_IRQ_NUM, PIC_MAX_IRQ

\* A key is taken only if the keyboard is not masked and no tick is waiting.
LEMMA TakeKey ==
    ASSUME TypeOK, DeviceLines, EndedOnce, TimerOpen, Take(KB_IRQ_NUM)
    PROVE  KB_IRQ_NUM \notin imr["master"] /\ PT_IRQ_NUM \notin irr["master"]
<1> DEFINE R == MasterRequests
<1>1. pc = "run" /\ R # {} /\ Vector = KB_IRQ_NUM
  BY DEF Take
<1>2. isr["master"] = {} /\ PT_IRQ_NUM \notin imr["master"]
  BY <1>1 DEF EndedOnce, TimerOpen, TimerSteps, BootSteps
<1>3. R \in SUBSET Lines /\ SlaveRequests \in SUBSET Lines
  BY Numbers DEF TypeOK, MasterRequests, SlaveRequests, Passing, Lines, SLAVE_ON_MASTER,
     PIC_MAX_IRQ
<1>4. First(R) \in R /\ \A k \in R : First(R) <= k
  BY <1>1, <1>3, FirstLine
<1>5. First(R) = KB_IRQ_NUM
  <2>1. CASE First(R) = SLAVE_ON_MASTER
    <3>1. SlaveRequests # {}
      BY <2>1, <1>4 DEF MasterRequests, Passing, DeviceLines
    <3>2. First(SlaveRequests) \in Lines
      BY <3>1, <1>3, FirstLine
    <3> QED
      BY <3>2, <2>1, <1>1 DEF Vector, Lines, PIC_MAX_IRQ, KB_IRQ_NUM
  <2>2. CASE First(R) # SLAVE_ON_MASTER
    BY <2>2, <1>1 DEF Vector
  <2> QED
    BY <2>1, <2>2
<1>6. KB_IRQ_NUM \notin imr["master"]
  BY <1>4, <1>5 DEF MasterRequests, Passing
<1>7. PT_IRQ_NUM \in irr["master"] => PT_IRQ_NUM \in R
  BY <1>2 DEF MasterRequests, Passing
<1> QED
  BY <1>4, <1>5, <1>6, <1>7 DEF KB_IRQ_NUM, PT_IRQ_NUM

\* The invariant holds after the boot code has set up the controllers.
LEMMA InvInit == Init => IInv
<1> SUFFICES ASSUME Init PROVE IInv
  OBVIOUS
<1>1. TypeOK /\ imr = mask /\ DeviceLines
  BY PicAssumption, Numbers DEF Init, i8259_init, TypeOK, DeviceLines, Terminals, Lines
<1>2. EndedOnce
  BY Numbers DEF Init, EndedOnce, TimerSteps
<1>3. TimerOpen /\ KeyboardGuarded /\ KeyMeetsItsTerminal
  BY DEF Init, TimerOpen, BootSteps, KeyboardGuarded, KeyMeetsItsTerminal, TimerSteps
<1> QED
  BY <1>1, <1>2, <1>3 DEF IInv

\* Every step keeps the invariant.
LEMMA InvStep == IInv /\ [Next]_vars => IInv'
<1> SUFFICES ASSUME IInv, [Next]_vars PROVE IInv'
  OBVIOUS
<1> USE Numbers DEF IInv, DeviceLines, TimerSteps, BootSteps, Step, terms, chips
<1>0. TypeOK'
  BY TypesStep
<1>t. /\ imr \in [Chips -> SUBSET Lines] /\ irr \in [Chips -> SUBSET Lines]
      /\ isr \in [Chips -> SUBSET Lines]
  BY DEF TypeOK
<1> DEFINE Guards == TimerOpen /\ KeyboardGuarded /\ KeyMeetsItsTerminal
<1>b. CASE Boot
  <2>1. /\ pc \in BootSteps /\ started = {}
        /\ pc' \in BootSteps \cup {"run"}
        /\ UNCHANGED <<irr, isr, terms>>
    BY <1>b DEF Boot, entry, TimerOpen
  <2>2. imr' = mask'
    BY <1>b DEF Boot, entry, enable_irq, SetMask
  <2>3. pc' \in {"boot_sti", "run"} => PT_IRQ_NUM \notin imr'["master"]
    BY <1>b, <1>t DEF Boot, entry, enable_irq, SetMask, TimerOpen, PT_IRQ_NUM
  <2>4. EndedOnce'
    BY <2>1 DEF EndedOnce
  <2>5. Guards'
    BY <2>1, <2>3 DEF TimerOpen, KeyboardGuarded, KeyMeetsItsTerminal
  <2> QED
    BY <1>0, <2>1, <2>2, <2>4, <2>5
<1>s. CASE SYS_handler_wrapper
  BY <1>0, <1>s
  DEF SYS_handler_wrapper, EndedOnce, TimerOpen, KeyboardGuarded, KeyMeetsItsTerminal, Runs,
      next_process
<1>1. CASE PT_handler
  <2>1. KB_IRQ_NUM \in imr'["master"] /\ imr' = mask'
    BY <1>1, <1>t DEF PT_handler, disable_irq, SetMask, KB_IRQ_NUM
  <2>2. PT_IRQ_NUM \notin imr'["master"]
    BY <1>1, <1>t DEF PT_handler, disable_irq, SetMask, TimerOpen, PT_IRQ_NUM, KB_IRQ_NUM
  <2> QED
    BY <1>0, <1>1, <2>1, <2>2
    DEF PT_handler, EndedOnce, TimerOpen, KeyboardGuarded, KeyMeetsItsTerminal
<1>2. CASE PT_select
  <2>1. imr' = mask' /\ PT_IRQ_NUM \notin imr'["master"]
    BY <1>2, <1>t DEF PT_select, enable_irq, SetMask, TimerOpen
  <2>2. KB_IRQ_NUM \notin imr'["master"] => next_process = curr_ter
    BY <1>2 DEF PT_select, KeyboardGuarded
  <2>3. EndedOnce'
    BY <1>2 DEF PT_select, EndedOnce
  <2>4. Guards'
    BY <1>2, <2>1, <2>2
    DEF PT_select, TimerOpen, KeyboardGuarded, KeyMeetsItsTerminal, Runs, next_process
  <2> QED
    BY <1>0, <1>2, <2>1, <2>3, <2>4 DEF PT_select
<1>3. CASE PT_start
  <2>1. EndedOnce'
    BY <1>3, <1>t DEF PT_start, EndedOnce, send_eoi, PT_IRQ_NUM, SLAVE_ON_MASTER
  <2>2. Guards'
    BY <1>3
    DEF PT_start, TimerOpen, KeyboardGuarded, KeyMeetsItsTerminal, Runs
  <2> QED
    BY <1>0, <1>3, <2>1, <2>2 DEF PT_start
<1>4. CASE PT_switch
  BY <1>0, <1>4
  DEF PT_switch, EndedOnce, TimerOpen, KeyboardGuarded, KeyMeetsItsTerminal, Runs
<1>5. ASSUME NEW at, NEW irq, End(at, irq),
             <<at, irq>> \in {<<"PT_eoi", PT_IRQ_NUM>>, <<"KB_eoi", KB_IRQ_NUM>>,
                             <<"RT_eoi", RTC_IRQ_NUM>>}
      PROVE  IInv'
  <2>1. EndedOnce'
    BY <1>5, <1>t
    DEF End, EndedOnce, send_eoi, PT_IRQ_NUM, KB_IRQ_NUM, RTC_IRQ_NUM, SLAVE_ON_MASTER
  <2>2. Guards'
    BY <1>5 DEF End, TimerOpen, KeyboardGuarded, KeyMeetsItsTerminal, Runs, next_process
  <2> QED
    BY <1>0, <1>5, <2>1, <2>2 DEF End
<1>6. CASE KB_handler
  BY <1>0, <1>6
  DEF KB_handler, EndedOnce, TimerOpen, KeyboardGuarded, KeyMeetsItsTerminal, Runs
<1>7. CASE wait_slightly
  BY <1>0, <1>7
  DEF wait_slightly, EndedOnce, TimerOpen, KeyboardGuarded, KeyMeetsItsTerminal
<1>8. CASE RT_handler
  BY <1>0, <1>8
  DEF RT_handler, EndedOnce, TimerOpen, KeyboardGuarded, KeyMeetsItsTerminal, Runs
<1>9. ASSUME NEW d \in Devices, Raise(d)
      PROVE  IInv'
  <2>1. irr["master"] \subseteq irr'["master"] /\ SLAVE_ON_MASTER \notin irr'["master"]
    BY <1>9, <1>t DEF Raise, Devices, SLAVE_ON_MASTER, PT_IRQ_NUM, KB_IRQ_NUM
  <2> QED
    BY <1>0, <1>9, <2>1
    DEF Raise, EndedOnce, TimerOpen, KeyboardGuarded, KeyMeetsItsTerminal, Runs, next_process
<1>10. ASSUME NEW d \in Devices, Take(d)
       PROVE  IInv'
  <2>1. isr["master"] = {} /\ isr["slave"] = {}
    BY <1>10 DEF Take, EndedOnce
  <2>2. EndedOnce'
    <3>1. CASE d = PT_IRQ_NUM
      BY <1>10, <2>1, <3>1 DEF Take, HandlerOf, EndedOnce, PT_IRQ_NUM, SLAVE_ON_MASTER
    <3>2. CASE d = KB_IRQ_NUM
      BY <1>10, <2>1, <3>2
      DEF Take, HandlerOf, EndedOnce, PT_IRQ_NUM, KB_IRQ_NUM, SLAVE_ON_MASTER
    <3>3. CASE d = RTC_IRQ_NUM
      BY <1>10, <2>1, <3>3
      DEF Take, HandlerOf, EndedOnce, PT_IRQ_NUM, KB_IRQ_NUM, RTC_IRQ_NUM, SLAVE_ON_MASTER
    <3> QED
      BY <3>1, <3>2, <3>3 DEF Devices
  <2>3. DeviceLines' /\ imr' = mask'
    BY <1>10, <1>t DEF Take
  <2>4. CASE d = PT_IRQ_NUM
    <3>1. Guards'
      BY <1>10, <2>4
      DEF Take, HandlerOf, TimerOpen, KeyboardGuarded, KeyMeetsItsTerminal
    <3> QED
      BY <1>0, <2>2, <2>3, <3>1
  <2>5. CASE d = KB_IRQ_NUM
    <3>1. KB_IRQ_NUM \notin imr["master"] /\ PT_IRQ_NUM \notin irr["master"]
      BY <1>10, <2>5, TakeKey
    <3>2. started # {} => curr_process = curr_ter
      BY <1>10, <3>1 DEF Take, KeyboardGuarded, Runs
    <3>3. Guards'
      BY <1>10, <2>5, <3>2
      DEF Take, HandlerOf, TimerOpen, KeyboardGuarded, KeyMeetsItsTerminal, Runs,
          PT_IRQ_NUM, KB_IRQ_NUM
    <3> QED
      BY <1>0, <2>2, <2>3, <3>3
  <2>6. CASE d = RTC_IRQ_NUM
    <3>1. irr'["master"] = irr["master"] /\ pc' = "RT_handler"
      BY <1>10, <1>t, <2>6 DEF Take, HandlerOf, PT_IRQ_NUM, KB_IRQ_NUM, RTC_IRQ_NUM
    <3>2. Guards'
      BY <1>10, <3>1
      DEF Take, TimerOpen, KeyboardGuarded, KeyMeetsItsTerminal, Runs
    <3> QED
      BY <1>0, <2>2, <2>3, <3>2
  <2> QED
    BY <2>4, <2>5, <2>6 DEF Devices
<1>11. CASE UNCHANGED vars
  BY <1>0, <1>11
  DEF vars, EndedOnce, TimerOpen, KeyboardGuarded, KeyMeetsItsTerminal, Runs, next_process
<1> QED
  BY <1>b, <1>s, <1>1, <1>2, <1>3, <1>4, <1>5, <1>6, <1>7, <1>8, <1>9, <1>10, <1>11
  DEF Next, Handlers

\* The controllers, their masks and the state of the handlers keep their types.
THEOREM TypesHold == Spec => []TypeOK
<1>1. Init => TypeOK
  BY InvInit DEF IInv
<1> QED
  BY <1>1, TypesStep, PTL DEF Spec

\* For any number of terminals, every interrupt that is taken is ended exactly once, on
\* one controller or on both.
THEOREM InterruptsEnd == Spec => []EndedOnce
<1>1. IInv => EndedOnce
  BY DEF IInv
<1> QED
  BY <1>1, InvInit, InvStep, PTL DEF Spec

\* For any number of terminals, the keyboard handler runs only while the terminal that
\* is shown is the one that runs.
THEOREM KeysMeetTerminals == Spec => []KeyMeetsItsTerminal
<1>1. IInv => KeyMeetsItsTerminal
  BY DEF IInv
<1> QED
  BY <1>1, InvInit, InvStep, PTL DEF Spec
=============================================================================
