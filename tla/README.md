# A TLA+ development of the BigBrainOS kernel

BigBrainOS (`src/student-distrib`) is a small 32-bit x86 kernel for one
processor: three terminals, up to six user processes, a read-only file system in
memory, a keyboard, a real-time clock and a timer that drives a round-robin
scheduler. This directory holds TLA+ models of its logic, the TLC instances that
check them, and proofs that TLAPS checks. All source paths below are relative to
`src/student-distrib`.

## 1. The system

### Components, their state and their operations

| Component | Source | State | Operations |
|---|---|---|---|
| Processes | `system_calls.c`, `pcb.c`, `paging.c` | `used_pids`, the PCBs (one at the bottom of each kernel stack), the frame mapped at 128MB, `tss.esp0` | `sys_execute`, `sys_halt`, `get_new_pid`, `enable_program_page` |
| Scheduler | `pit.c` | `curr_process`, `terminals[t].prog_curr_pid`, the saved `esp` of each PCB | `PT_handler`, `switch_running_process`, start of the base shells |
| Interrupt entry | `interrupt_wrappers.S`, `idt.c` | the interrupt flag, the gates | wrappers of the keyboard, RTC, timer and system-call vectors; exceptions become `sys_halt(4)` |
| Keyboard and line discipline | `keyboard.c` | modifier keys, per terminal `typing`, `buf_len`, `typed`, `history`, `written_bytes`, `buffer_updated` | `KB_handler`, `print_char`, `backspace`, `enter_key`, history, Ctrl-L, Alt-Fn |
| Terminal driver | `terminal.c` | none of its own | `terminal_read`, `terminal_write` |
| Video memory | `lib.c`, `paging.c`, `keyboard.c`, `pit.c` | the screen, one backing page per terminal, the page the kernel's video address maps to, `curr_ter`, `on_screen`, the cursor | `putc`, `clear`, `swap_vid_mem`, `switch_ter`, `change_vidmem`, `get_vidmem` |
| Virtual RTC | `rtc.c` | `higher_freq`, per process `prog_freq`, `divisor`, `count`; per terminal a flag | `rtc_open`, `rtc_read`, `rtc_write`, `rtc_close`, `RT_handler` |
| Files | `file_system.c`, `system_calls.c` | the image (read-only), the descriptor table of each process | `read_dentry_by_name/index`, `read_data`, `sys_open/read/write/close`, `file_read`, `dir_read` |
| Command line | `system_calls.c` | `args`, `arg_len` of each PCB | parsing in `sys_execute`, `sys_getargs` |
| PIC | `i8259.c` | two mask registers | `i8259_init`, `enable_irq`, `disable_irq`, `send_eoi` |
| Boot and tables | `boot.S`, `x86_desc.S`, `kernel.c`, `idt.c`, `paging.c` | descriptor tables, page directory | run once, before interrupts are enabled |
| Library | `lib.c` | none | `printf`, `itoa`, `mem*`, `str*` |

### How the components interact

* All handlers of interrupts run with interrupts disabled and are atomic with
  respect to each other. A system call runs with interrupts **enabled**: the
  wrapper says `sti`. So the timer may switch terminals, the keyboard may edit
  lines and the RTC may set flags between any two statements of a system call.
* Components share the array `terminals[]` and the PCBs without locks. The
  scheduler derives the mapped frame and `tss.esp0` from
  `terminals[t].prog_curr_pid`; `sys_execute` and `sys_halt` set the same three
  things in several statements.
* Base shells are started from inside the timer handler, so they run in user
  mode with interrupts disabled and can be preempted only inside their system
  calls; a program they execute inherits an enabled flag.
* Alt-Fn changes what is shown, the timer changes what runs; the keyboard is
  unmasked only while the shown terminal is the one that runs.
* One chip interrupts for all processes, at a frequency high enough for each, and
  every process counts down its own divisor.

### What is hard

Interleavings of a system call with the timer (processes, RTC), values that a
system call reads before and uses after it was switched out (terminal, RTC),
the order of Alt-Fn and ticks (video), limits (six pids, 128-byte lines, the
divisor at zero), and progress: a terminal that runs with interrupts disabled, a
halt that ticks interrupt, a read that waits for a line. `PROJECT.json` lists
these hazards at their lines with the properties that address them.

### What makes each component correct

* Processes: pids are not shared; a process in user mode has its own frame, its
  own image and its own kernel stack; a halt resumes the parent where it left
  off; every resumed context was saved; every terminal keeps running.
* Line discipline: a line never outgrows its buffer and is always terminated;
  what a reader gets is the line that was entered, with its length.
* Video: every terminal sees exactly the output its programs wrote, whichever
  terminal is shown and however often the user switches.
* RTC: the chip is fast enough for every program, and a read returns after a whole
  period of its program's own frequency, whatever others do to the frequency.
* Files and command line: reads return exactly the bytes of the file at the
  offset; arguments are copied whole or not at all.

## 2. The modules

| Module | Models | Used by |
|---|---|---|
| `Processes` | processes, scheduler, system-call entry | `MCProcesses`, `ProcessesProofs` |
| `Sessions` | abstract: every terminal is a stack of programs | `Processes` (refinement) |
| `Terminal` | line discipline and `terminal_read` | `MCTerminal`, `TerminalProofs` |
| `Rtc` | virtualized real-time clock | `MCRtc`, `RtcProofs` |
| `Files` | file system and descriptor table | `MCFiles`, `FilesProofs` |
| `Console` | `putc`, backspace and scrolling on one screen | `Video`, `Screens` |
| `Video` | video pages, cursors, echo, Alt-Fn, `vidmap` | `MCVideo`, `VideoProofs` |
| `Screens` | abstract: every terminal has a screen of its own | `Video` (refinement) |
| `Pic` | interrupt controllers, devices, masks and ends of interrupts | `MCPic`, `PicProofs` |
| `CommandLine` | parsing of commands, arguments, `sys_getargs` | `MCCommands`, `CommandLineProofs` |
| `...Proofs` | the theorems about the module of that name | |
| `IterationProofs` | induction over the naturals, loops as functions | all proof modules but `RtcProofs` and `PicProofs` |
| `MC...` | instances for TLC | the `.cfg` files |

### Processes

The processor executes one context, the record `cpu`: the point of the kernel it
is at (`pc`), the kernel stack it is on (`stk`), its interrupt flag and that of the
user mode it returns to, and the locals of the system call. The timer saves the
context in the PCB whose stack it is on and resumes the one saved in the PCB of
the next terminal; that a resumed context was really saved is `NeverLost`. `page`,
`tss` and `frame` are the mapped frame, the kernel stack for the next entry and the
images in memory. `sys_execute` and `sys_halt` are one action per statement that
touches shared state (`GetPid`, `MapPage`, `LoadImage`, `CreatePcb`, `SetTss`,
`MarkUsed`, `SetTerminal`, `EnterProgram`; `ParentTss`, `FreePid`, `ParentPage`,
`CheckRoot`, `ParentTerminal`, `JumpToParent`). Interrupt handlers are atomic, as
their gates disable interrupts.

An exception becomes `sys_halt(4)` (`blue_screen`), from user mode and from the
points of the kernel at which a pointer of the program is used or at which the
process waits (`FaultPoints`).

The timer may interrupt at every point. `SafePoints` are those where a tick is
harmless; the other twelve points inside `sys_execute` and `sys_halt` are windows in
which pid, page, `tss` and terminal do not belong together. **The code does not close
these windows**: with any single one of them, TLC finds `OwnAddressSpace` (for
`exec_term`, for instance) or `NeverLost` (`exec_page`, `respawn`, `halt_jump`) violated
afterwards. These properties do not hold of all behaviours, and instead of
forbidding the ticks the model records them: the history variable `torn` becomes
TRUE with a tick in a window, and with a command that is executed while the base shells
still start (37 ms after boot; such a program has pid 1 or 2 on terminal 0, and the
start-up code saves its context in another block). `torn` influences nothing. The
properties are claims about every behaviour up to that moment. The run `pid_window`
shows what a tick in the first window of `sys_execute` does. In the second one
(`exec_load`) the image is loaded into the frame of the parent; in `sys_halt`, between
its lines 28 and 40 (`halt_term`), the scheduler maps the frame of the halted
process again. `TickPoints` only bounds the instances: it says at which of these
points an instance has ticks.

`Sessions` keeps only the stack of programs of each terminal: execute pushes one
program, halt pops it, a base shell that ends is replaced. `ImplementsSessions`
computes the stacks by following the parent pointers of the PCBs.

### Terminal

`terminals[t]` holds the fields of `terminal_state_t` that belong to the line.
`print_char`, `backspace`, `enter_key`, `recall` (up arrow) and `switch_ter` are
the keyboard handler, which edits the terminal that is *shown* and runs only while
the keyboard is unmasked; `Reset`, `Wake`, `Copy`, `clear_buffer` and
`ReadReturns` are the steps of `terminal_read` for the terminal that *runs*. The
`memcpy` may be interrupted after any byte. Keys, Alt-Fn and ticks come at any moment
that the hardware allows: Alt-Fn waits with interrupts disabled for longer than a
period of the timer (keyboard.c:324), so that the next thing that happens is a tick
(`tick_due`), and a key comes only while the keyboard is unmasked. The history
variable `spoiled` says what has come between the line of a terminal and its reader:
nothing, another line entered on the same terminal (`"enter"`), or the `clear_buffer` of
the reader of another terminal (`"clear"`). `LineDelivered` holds of every read with
nothing in between; `OnlyOwnLineCleared` would hold if `clear_buffer` cleared the line
of its own terminal. `nbytes` is at least 1 (with 0 the code writes before its local
array). The buffers start with NULs: they are zero-initialised globals.

### Rtc

One action per access to shared state of `rtc_open`, `rtc_read`, `rtc_write`,
`rtc_close` and `rtc_set_frequency`; the loops over the process table take one
step per process. `chip` has the selected register and register A, whose lower
half is the rate; the handler leaves register C selected. Timer and RTC interrupt
anywhere. As in `Processes`, the history variable `torn` records the interrupts
that the code cannot stand: a tick inside an update of the frequencies
(`UpdateWindow`), after which TLC finds `DivisorExact` violated, and an RTC interrupt
between the selection of a register and its use (`SelectWindow`), after which
`ChipFollows` fails. The history variable `pace` measures time in periods of 1024 Hz: `left` is what
a read still has to wait for a whole period of the frequency its program has, less the
periods of the chip that have ended since, each as long as the chip was set at that
moment. A read is `hurried` if `higher_freq` was raised while it waited: its count is not
rescaled (rtc.c:127, 173-181), and TLC finds that it returns early. A read of a program
that has asked for no frequency returns at once, although rtc.c:57 and :68 speak of a
default of 2 Hz. Before `torn`, `ReadPaced` excepts these two cases and no others. Process `t` is the
program of terminal `t`; a parent waiting for its child behaves as a process that
takes no steps. A program has the RTC open at most once at a time. `Word` stands
for 2^32, at which a count wraps around; it is larger than the highest frequency.

### Files

The descriptor table of one process over a read-only image, which is a parameter:
directory, inodes and data blocks. The table is private and the image constant, so
a system call is one action however often it is interrupted. `CopyByte` is one
iteration of the loop of `read_data`; `Contents` is the reference, the bytes of a
file from its length and its blocks. `got` is the history of what a descriptor has
returned since it was opened, `last` the last call; neither influences anything.
`Fot` decides which operations a descriptor gets; `RtcNames` are the names that the
comparison with "rtc" accepts. Names are model values and the length of a name is 1.
`sys_execute` stands for the end of one process and the table of the next. Calls that
are refused, and writes to files, change nothing and are no actions.

### Console, Video and Screens

`Console` has the functions of `lib.c` on one screen, a record of the characters of
a page and the cursor. A full row is left by the next character only, so the
column may be `NUM_COLS`. `Video` adds what the system has of them: the page that
is displayed, one page in the background per terminal, and the mappings `page` of the
kernel and `user_page` of the programs; one global cursor `screen`, the cursors `saved`
per terminal, and the position of the blinking cursor. Its actions are the keys
(`print_char`, `backspace`, `enter_key`, `recall`, `control_l`, `switch_ter`), `Tick`,
a character written by the program that runs (`terminal_write`; `putc` is atomic,
a longer write may be interrupted between its characters), `sys_vidmap` and a store
of a program to mapped video memory (`StorePixel`).
Alt-Fn waits with interrupts disabled for longer than a period of the timer, so the
next thing that happens is a tick: that is `tick_due`. That keys come only while
the terminal shown is the one that runs is assumed here (`kb_enabled`) and follows
from `Pic`. `Init` is the state after the first tick.

In `Screens` a terminal has a screen, a cursor and a line. Programs write on the
screen of the terminal that runs, keys on the one that is shown; showing and running
change no screen. `ImplementsScreens` maps the screen of `t` to the displayed page
if `t` is shown and to its page in the background otherwise.

`VidmapHidden` is FALSE in the run: programs call `vidmap` while their terminal is
shown. If it is TRUE, `ImplementsScreens` fails: `get_vidmem` maps the displayed page,
and a program in the background draws on another terminal until the next tick.

`VideoAssumption` says that a line of `BUF_SIZE - 2` characters fits on the screen
without its last row (126 characters, 24 rows of 80): the attempt to prove
`LineOnScreen` from the weaker `BUF_SIZE <= NUM_ROWS * NUM_COLS` failed on a screen of
2 x 3 with `BUF_SIZE` 6, where a line scrolls its own beginning away.

### Pic

`irr`, `isr` and `imr` are the registers of the two controllers, as sets of lines;
`mask` has the copies that `i8259.c` keeps. `Passing`, `MasterRequests` and `Vector`
are the hardware: priorities, masks, and the slave on line 2 of the master. Requests
are edges. `Raise` is a device, `Take` the processor; the handlers are split where they
touch the controllers: `PT_handler`, `PT_select`, then `PT_start` (the tick that
starts a shell and never returns) or `PT_switch`, and `End`. `Boot` is the end of `entry`
in `kernel.c`. `SYS_handler_wrapper` stands for the changes of the interrupt flag outside
handlers: base shells run with interrupts disabled and take requests in their
system calls only.

### CommandLine

A command is an array of characters; `NameEnd`, `Name`, `have_args` and `Arguments` are
the loops of `sys_execute`, `StoreArguments` is what goes to the PCB, and `sys_getargs`
copies from there to a buffer of which one byte beyond the end can be seen. `Request` says
independently what the command asks for: the text up to the first space and that up
to the second. Programs execute programs on one terminal, so pids and blocks are
used again. If a command begins with a space, the name is uninitialised, and `Found`
chooses any file. The loop for the name does not stop at a NUL: `Ended` says of a command
that no space follows a NUL as far as that loop reads. The command `a`, NUL, space
has no argument for its author, and an empty one for `sys_execute`; TLC finds that
`AsAsked` fails if such commands are allowed. `terminal_read` fills the rest of its
buffer with NULs, so that the lines of a user are `Ended`. `GetargsExact` says what a program
may rely on: all of the arguments or nothing, followed by a NUL if the buffer has room
for it, and nothing written outside such a buffer. It is silent about a buffer that the
arguments fill exactly, where the code writes its NUL outside, and about the bytes
behind the NUL, which the comment "Clear buffer" promises to clear (`BufferCleared`).

## 3. The runs

| Run | Instance | Shows |
|---|---|---|
| `processes` | 3 terminals, 5 pids, so that a child has a child; ticks in every window | up to the first tick in a window: in user mode a process has its own frame, image and stack; a resumed context was saved; the pids in use are exactly those of the terminals' chains; refinement of `Sessions` |
| `liveness` | 4 pids | every terminal runs again and again; after every halt the parent runs in user mode again |
| `pid_window` | a tick point inside the first window of `sys_execute` | violation: a pid given to two processes |
| `terminal` | 2 terminals, lines of up to 2 characters, keys, Alt-Fn and ticks at any moment | buffers consistent, reads end in a newline and hand over the line entered last unless it was replaced or cleared meanwhile, a read whose line was entered returns |
| `terminal_race` | lines of 1 character | violation: a line wiped by the reader of another terminal |
| `screens` | 2 terminals, screens of 2 x 2, six characters or keys that draw, any number of ticks and Alt-Fn | refinement of `Screens`; the blinking cursor is that of the terminal shown; the line being edited stands before the cursor although it wraps, scrolls and is recalled |
| `pic` | 3 terminals, 3 devices, from boot | every interrupt is ended once; keys are handled only while their terminal runs; clock and keyboard are served |
| `commands` | all `Ended` commands of up to 4 characters, 2 processes above the shell | a process is the program its command names, with its second word as argument; `sys_getargs` gives all of it or nothing |
| `commands_clear` | the same | violation: bytes behind the arguments are not cleared |
| `rtc` | 2 programs, frequencies 4, 8 and invalid ones, interrupts anywhere | up to the first interrupt in a window: divisors exact, the chip fast enough and at `higher_freq`, unhurried reads take a period, reads return |
| `rtc_highest` | the same | violation: the chip runs at a frequency nobody asks for |
| `files` | 3 descriptors besides stdin and stdout, blocks of 2 bytes, files of 0, 3 and 4 bytes | reads return the file in order, 0 only at its end, and a descriptor keeps its file |

The findings in `PROJECT.json` quote the comment that each violation contradicts.
More differences between comments and code are visible in the models without a
run: a read of the RTC during which another program raises the frequency returns
early; an RTC that was only opened has frequency 0 instead of the default of 2 Hz, so
that a read of it does not wait; a closed RTC keeps its frequency until the program
exits; `sys_getargs` writes a NUL behind a buffer that the arguments fill; a name of 32
characters loses its arguments; `sys_execute` returns 0 for every status but 4;
`terminal_read` returns the length of the line even if fewer bytes were asked for.

**Bounds.** Three terminals are fixed in `Processes` because the code compares
pids with 3; one further pid is enough for a child of any base shell and for the
full table, two for a child of a child. `processes` has ticks in user mode, while a
process waits, before a program is entered and in all twelve windows; `liveness` has them
in user mode, while a process waits and on the way back to the parent. The safe points
they leave out keep the runs short; the theorems have them all. Both runs and `rtc` follow a behaviour up
to the first interrupt in a window (`CONSTRAINT Untorn`): beyond it the properties say
nothing but their types, which are proved. A liveness property counts as fulfilled when
`torn` becomes TRUE, so that the constraint cuts off nothing it is about. `pid_window`
leaves out commands before the base shells run (`AfterBoot`). In `Terminal` two
terminals distinguish shown from running and reader from other, and a buffer of three
bytes with reads of two has the empty, the partial and the full line, and reads that
cut a line off. In `Rtc` two programs suffice for one to
interfere with the other's update; 4 and 8 above the initial 2 give two raises,
a lowering and divisors 1 and 2, and 0, 6 and 2048 must be refused. In `Files` blocks
of two bytes and reads of 0, 1 and 3 bytes end before, at and behind the end of a
block and of a file, a file may end inside its last block or fill it, the blocks of
a file are not adjacent, and three descriptors can be full or have a gap.
In `Video` two terminals are the one that is shown and the one that is not; a screen
of four cells and lines of two characters make every line wrap and scroll; one visible
character shows which cells were written; `MaxDrawn` = 6 bounds the characters
and keys, enough for a line entered, recalled, mixed with output and redrawn on two
terminals. `Pic` has no bound but the number of terminals, which is that of the
system. In `CommandLine` names of 3 and commands of 4 characters stand for 32 and 128:
there are names and arguments that are empty, short and full (an executable with a name
of `MAX_CMD_LEN` characters among them), second spaces, newlines and NULs everywhere,
and a buffer that is smaller, exactly as large, and larger.

**Fairness.** The timer and the RTC never stop, so `Tick` and `RT_handler` are fair;
strongly in `Processes` and for the RTC, as a request is latched while interrupts are
disabled. A process executes only
during its time slices, but gets infinitely many of them and makes progress in
each, hence strong fairness of the kernel steps of each terminal. In `Processes`
a base shell in user mode has interrupts disabled; the shell program in the file
system calls `read` in its loop, and fairness of that call is what makes the others
run. This assumes that a shell does not fault for ever before its first call: the
repository has only its binary, and the kernel would not recover from it. In `Pic` the
processor goes on (`Boot`, `Handlers`), timer and clock tick, base shells make system calls, and `Take` is strongly fair: a request that passes the
controllers is taken at the next instruction with interrupts enabled, long before
another edge of the same device. The period of the timer is longer than its handler.
`ClockServed` is about users who do not press Alt-Fn in every period for ever: each
of these keeps interrupts disabled for a whole period. Nobody is obliged to press a key, to call the kernel or to exit.

## 4. The theorems

All are proved for every value of the constants that the named assumptions allow.

* `ProcessesProofs!Typing`: `Spec => []TypeOK`, whatever the set of tick points,
  windows included, and for every size of the pid table from three up. `TypeOK` is
  inductive as it stands: it includes that the local pid is a valid index at every
  point that uses it.
* `ProcessesProofs!AddressSpaces`, `ContextsSaved`, `PidsNeverShared`, `SessionsKept`:
  `OwnAddressSpace`, `NeverLost`, `PidsPartitioned` and the refinement of `Sessions`, as
  `Spec => []...` for every size of the pid table, all programs and every `TickPoints`: no
  behaviour is excluded, and the properties themselves say that they end with the first
  tick in a window. None of them is inductive: what a halt resumes depends on what an
  execute of any age left in a PCB. The inductive invariant is `TypeOK /\ (~torn =>
  StacksFollow)`. `StacksFollow` says that there *are* stacks of
  pids, one per terminal, with `StacksInv`: the parent pointers, the saved return
  contexts and `prog_curr_pid` are linked as the stacks say (`StacksLinked`); no pid is on
  them twice (`StacksDisjoint`); the shells start in order (`StartedInOrder`); the
  process on top of every other stack has a context saved at a safe point
  (`OthersAtRest`); the running one is at rest, loading a child, starting again, or
  halting, with page, `tss` and image as far as it has got (`Runs`); and `used_pids`
  marks the pids on the stacks, with the exceptions of each window (`PidsMarked`). To this
  come the images of the base shells (`ShellsLoaded`) and the command of an execute that
  has a pid (`Commanded`). `MovesStep` shows that every action leaves the stacks alone,
  turns to the next one, starts one, pushes or pops (`Moves`). `VisibleStacks` shows that
  the recursion `Lineage` computes these stacks, and `SessionsStep` maps each kind of
  move to an action of `Sessions`. That an execute which got a pid finds room in `Sessions`
  is the pigeonhole principle (`Room`). The number of terminals is 3, as in the code.
* `TerminalProofs!Typing`, `LinesConsistent`, `ReadsEndInNewline`: `TypeOK`,
  `LineBuffers` and `NewlineTerminated` for every number of terminals, buffer size
  and alphabet. The inductive invariant `IInv` adds to the
  properties what a read holds before it is finished (`Prepared`): a buffer of the
  size it was declared with, filled with characters and NULs only. The lemmas say
  what each operation does to one line (`LongerLine`, `ShorterLine`, `ClearedTail`,
  `StrlenOfLine`); `Frame` and `ReaderFrame` carry this over to all terminals.
  `NewlineWritten` needs that a set of naturals has a least element (`Least`).
* `TerminalProofs!LinesDelivered`: `LineDelivered`, for keys, Alt-Fn and ticks at any moment
  and reads of any size. The invariant `HandInv` says of every terminal whose line nothing
  has spoiled how far its reader is with it (`Handed`): before the copy the line
  entered last is in `typed`, during it the bytes up to `pos` are copied, after
  it the buffer holds the line (`Given`). (The run `terminal_race` shows what
  happens to a line that another reader clears.)
* `RtcProofs!Typing`, `DivisorsExact`, `ChipFollowsAlways`, `ReadsPaced`: the four invariants of
  `Rtc` for every number of terminals and all requests, with interrupts anywhere. The
  inductive invariant (`Invariance`) is `AllTypes /\ (~torn => Safe)`. `AllTypes` holds
  whatever interrupts whatever: with the types, the local frequencies are such that no
  division by zero and no rate out of range can follow (`Sane`). `Safe` says for each
  process how far its update has come (`OwnInv`: who may be in a window, which maximum `rtc_close` has
  found so far, what a read has still to count), for each divisor that it is exact or
  that a loop has still to reach it (`Exact`, `Settled`), that the chip has
  `higher_freq` or somebody is about to set it (`ChipRight`), that it is not
  faster than that otherwise (`Capped`), and for each unhurried read that the
  interrupts it has still to count, at the shortest period that the chip can have, cover what is
  left of its own period (`Pacing`).
* `FilesProofs!Typing`, `ReadsReturnTheFile`, `ZeroIsTheEnd`, `DescriptorsKept`: `TypeOK`,
  `ReadsInOrder`, `ZeroMeansEnd` and the action property `DescriptorsStable`, for every image
  that `FilesAssumption` allows, every size of a block, of a file and of a read, and
  without further conditions. The invariant `IInv` is the consistency of the table
  with what was returned (`TableInv`) and with the last call (`LastInv`). Its core is
  the loop of `read_data`: `Copies` is its loop invariant (the position is the block
  times the block size plus the offset, the buffer is that part of the file).
* `VideoProofs!Typing`, `CursorAlways`: `TypeOK` and `CursorFollows` on screens of every size, for
  any number of terminals. The invariant `Base` adds `Follow` (the mapping is that of
  the running terminal and keys meet their terminal, except between Alt-Fn and the
  tick that follows) and `Fresh` (a terminal that has not run has its cursor at the
  origin).
* `VideoProofs!LinesStay`, `SeparateScreens`: `LineOnScreen` and the refinement of `Screens` if
  `VidmapHidden = FALSE`. `IInv` adds that lines stand before the cursor (`Clear`) and that
  programs draw on the page of their terminal (`Paired`). The lemmas about one console say
  what a character, a backspace, `puts` and `Erase` do to the cells before the cursor,
  wrapping and scrolling included.
* `CommandLineProofs!Typing`: `TypeOK` for commands of every length and content, `Ended` or
  not; `CommandsObeyed`, `ArgumentsReturned`: `AsAsked` and `GetargsExact` if all commands are
  `Ended`. `Base` adds to the types that the pids of the stack are different; `Suits`
  strengthens `AsAsked` by the length of the arguments, which is what `sys_getargs`
  copies. The loops of `sys_execute` are shown to find what `Word`, a definition by counting
  spaces, says.
* `PicProofs!TypesHold`, `InterruptsEnd`, `KeysMeetTerminals`: `TypeOK`, `EndedOnce` and
  `KeyMeetsItsTerminal` for every number of terminals from two up. The inductive
  invariant `IInv` adds three facts. `KeyboardGuarded`: outside the timer handler,
  the keyboard is unmasked only if its terminal runs or a tick is pending (Alt-Fn
  has just been pressed). `TimerOpen`: once interrupts are enabled the timer is never
  masked, so that a pending tick, which has the highest priority, goes before a key.
  `DeviceLines`: nothing but the slave requests line 2 of the master, so that an
  interrupt taken from there comes from the clock. `FirstLine` says that the line chosen is the least one.

Loops are functions of the number of rounds in the models. The induction theorems of
the library take an operator as a parameter, which the provers do not instantiate;
`IterationProofs` derives from the well-foundedness of `<` that a set of naturals has a
least element, from it induction for a *set* of good numbers, and from that what
a function defined by recursion computes.

Only model-checked: the liveness properties (`EveryTerminalRuns`, `ParentResumes`,
`LineReadCompletes`, `ClockServed`, `KeyServed` and `ReadReturns` of `Rtc`), since the prover has no
support for fairness and `ENABLED`. The invariants, the action property and both
refinements that the passing runs check are theorems as well. After a tick in a window
(`torn`) nothing is proved of `Processes` and `Rtc` but their types, as the code keeps
nothing else; `VidmapHidden` and `Ended` are the only conditions on theorems, on two of
`Video` and two of `CommandLine`.

## 5. What is not modelled, and the plan

Not modelled and not planned: start-up code that runs once before interrupts are
enabled (boot, descriptor tables, the filling of the IDT), `printf`, `itoa` and the memory
functions of the library without state, the colours of the screen and the blue screen of
an exception, the signal system calls (they return an error), the tests, and the
host tools and user programs, of which the repository has only binaries. Keys pressed
before the first tick are in `Pic` and not in `Video`.

What the code does after a tick in a window is followed by `pid_window` only. Runs for the
other windows, for a hurried read of the RTC and for a command before the base shells run
would each show one more of the faults that section 2 and the hazards in `PROJECT.json`
describe.
