---------------------------- MODULE CommandLine ----------------------------
(***************************************************************************)
(* From the text of a command to the arguments a program gets: how         *)
(* sys_execute splits the command, what it keeps in the process control    *)
(* block, and what sys_getargs copies to the program.  Programs execute    *)
(* programs on one terminal; their concurrency is the subject of           *)
(* Processes.  Arrays of the code are functions from 0.                    *)
(***************************************************************************)
EXTENDS Integers, Sequences, FiniteSetsExt

CONSTANTS
    MAX_CMD_LEN, MAX_ARG_LEN,
    MAX_PROCESSES,
    Letters, SP, NL, NUL,  \* the characters of a command
    Files,                 \* the names in the directory
    Executables,           \* those whose content begins with the ELF constant
    Commands,              \* the commands that programs pass to execute
    Sizes,                 \* the sizes that programs pass to getargs
    Dirt                   \* what a program has in its buffer before the call

ERROR == -1
Chars == Letters \cup {SP, NL, NUL}
Pids == 0 .. MAX_PROCESSES - 1

\* What can be at the address passed to execute.  NULs follow.
Texts == UNION {[1 .. n -> Chars] : n \in 0 .. MAX_ARG_LEN}

ASSUME CommandLineAssumption ==
    /\ MAX_CMD_LEN \in Nat \ {0} /\ MAX_ARG_LEN \in Nat /\ MAX_ARG_LEN > MAX_CMD_LEN
    /\ MAX_PROCESSES \in Nat \ {0}
    /\ \A f \in Files : f \in Seq(Letters) /\ Len(f) \in 1 .. MAX_CMD_LEN
    /\ Executables \subseteq Files
    /\ Commands \subseteq Texts
    /\ Sizes \subseteq Int
    /\ SP # NL /\ NUL \notin {SP, NL} /\ Dirt \notin Chars

VARIABLES
    stack,   \* the pids of the terminal, the one that runs last
    pcb,     \* the part of the process control blocks that holds the arguments
    prog,    \* the file that each process was loaded from
    buf,     \* the memory at the buffer given to getargs, until the next system call
    size,    \* its size
    ret,     \* the value that the last system call returned
    asked    \* history: the words of the command that each process was started with

vars == <<stack, pcb, prog, buf, size, ret, asked>>

Last(s) == s[Len(s)]

-----------------------------------------------------------------------------
(***************************************************************************)
(* lib.c, on arrays.                                                       *)
(***************************************************************************)
strlen(s) == Min({i \in DOMAIN s : s[i] = NUL})

memcpy(dest, src, n) == [i \in DOMAIN dest |-> IF i < n THEN src[i] ELSE dest[i]]

strncpy(dest, src, n) ==
    LET len == IF \E i \in DOMAIN src : src[i] = NUL THEN strlen(src) ELSE n
    IN  [i \in DOMAIN dest |->
           IF i < n THEN (IF i < len THEN src[i] ELSE NUL) ELSE dest[i]]

\* The array that holds text and then NULs.
Array(text) == [i \in 0 .. MAX_ARG_LEN - 1 |-> IF i < Len(text) THEN text[i + 1] ELSE NUL]

\* The characters from first up to, not including, end.
Slice(array, first, end) == [k \in 1 .. end - first |-> array[first + k - 1]]

-----------------------------------------------------------------------------
(***************************************************************************)
(* How sys_execute reads a command.                                        *)
(***************************************************************************)
\* The name ends at a space or a newline or after MAX_CMD_LEN characters, but not at
\* a NUL.
NameEnd(command) ==
    Min({i \in 0 .. MAX_CMD_LEN - 1 : command[i] \in {SP, NL}} \cup {MAX_CMD_LEN})

\* executable_name as a string.
Name(command) ==
    LET end == NameEnd(command)
    IN  Slice(command, 0, Min({i \in 0 .. end - 1 : command[i] = NUL} \cup {end}))

have_args(command) == NameEnd(command) < MAX_CMD_LEN /\ command[NameEnd(command)] = SP

\* Mutant: the blank is taken to belong to the arguments.
Arguments_WithBlank(command) ==
    LET first == NameEnd(command)
    IN  Slice(command, first,
              Min({i \in first + 1 .. MAX_ARG_LEN - 1 : command[i] \in {SP, NL, NUL}}
                  \cup {MAX_ARG_LEN}))

Arguments(command) ==
    LET first == NameEnd(command) + 1
    IN  Slice(command, first,
              Min({i \in first .. MAX_ARG_LEN - 1 : command[i] \in {SP, NL, NUL}}
                  \cup {MAX_ARG_LEN}))

\* The file that is found.  Nothing is stored in executable_name if the command begins
\* with a space or a newline: then it is whatever the stack held before.
Found(command) ==
    IF NameEnd(command) = 0 THEN Files \cup {<<>>} ELSE {Name(command)}

ZeroPcb == [args |-> [i \in 0 .. MAX_ARG_LEN - 1 |-> NUL], arg_len |-> 0]

StoreArguments(old, command) ==
    IF have_args(command)
    THEN LET arguments == Arguments(command)
         IN  [args |-> strncpy(old.args, Array(arguments), Len(arguments)),
              arg_len |-> Len(arguments)]
    ELSE [args |-> [old.args EXCEPT ![0] = NUL], arg_len |-> ERROR]

-----------------------------------------------------------------------------
(***************************************************************************)
(* What a command says: its words are separated by single spaces and it    *)
(* ends at a newline or a NUL.                                             *)
(***************************************************************************)
NoWord == <<NUL>>

Line(text) ==
    SubSeq(text, 1, Min({i \in DOMAIN text : text[i] \in {NL, NUL}} \cup {Len(text) + 1}) - 1)

\* The text between the n-th and the next space of a line.
Word(l, n) ==
    LET at == {0, Len(l) + 1} \cup {i \in DOMAIN l : l[i] = SP}
        Nth(k) == CHOOSE i \in at : Cardinality({j \in at : j < i}) = k
    IN  IF n + 1 < Cardinality(at) THEN SubSeq(l, Nth(n) + 1, Nth(n + 1) - 1) ELSE NoWord

Request(text) == [name |-> Word(Line(text), 0), args |-> Word(Line(text), 1)]

-----------------------------------------------------------------------------
Nobody == [name |-> <<>>, args |-> NoWord]
NoBuffer == <<>>

\* A base shell runs; its command has no arguments.
Init ==
    /\ stack = <<0>>
    /\ pcb = [p \in Pids |-> IF p = 0 THEN [ZeroPcb EXCEPT !.arg_len = ERROR] ELSE ZeroPcb]
    /\ prog = [p \in Pids |-> <<>>]
    /\ buf = NoBuffer /\ size = 0
    /\ ret = 0
    /\ asked = [p \in Pids |-> Nobody]

Return(value) == ret' = value /\ buf' = NoBuffer /\ size' = 0

\* Mutant: pids in use are given away again.
NewPids_All == Pids

NewPids == Pids \ {stack[i] : i \in DOMAIN stack}

sys_execute(text) ==
    LET command == Array(text)
    IN  \E file \in Found(command) :
          IF file \in Executables /\ NewPids # {}
          THEN LET pid == Min(NewPids)
               IN  /\ stack' = Append(stack, pid)
                   /\ pcb' = [pcb EXCEPT ![pid] = StoreArguments(@, command)]
                   /\ prog' = [prog EXCEPT ![pid] = file]
                   /\ asked' = [asked EXCEPT ![pid] = Request(text)]
                   /\ Return(0)
          ELSE /\ Return(ERROR)
               /\ UNCHANGED <<stack, pcb, prog, asked>>

\* The block is cleared, and the program below goes on.  (A base shell that halts is
\* started again in the block it has, with the same command: nothing changes.)
sys_halt ==
    /\ Len(stack) > 1
    /\ stack' = SubSeq(stack, 1, Len(stack) - 1)
    /\ pcb' = [pcb EXCEPT ![Last(stack)] = ZeroPcb]
    /\ prog' = [prog EXCEPT ![Last(stack)] = <<>>]
    /\ asked' = [asked EXCEPT ![Last(stack)] = Nobody]
    /\ Return(0)

\* The memory that can be seen reaches one byte beyond the largest buffer.
Memory == [i \in 0 .. MAX_ARG_LEN |-> Dirt]

\* Mutant: as much is copied as fits.
sys_getargs_Cut(nbytes) ==
    LET curr_pcb == pcb[Last(stack)]
        n == Min({nbytes, curr_pcb.arg_len})
    IN  /\ IF curr_pcb.arg_len = ERROR \/ nbytes < 0
           THEN ret' = ERROR /\ buf' = Memory
           ELSE ret' = 0 /\ buf' = memcpy(Memory, curr_pcb.args, n)
        /\ size' = nbytes
        /\ UNCHANGED <<stack, pcb, prog, asked>>

\* The buffer is NULL, or there is one.  The loop that is to clear it writes a single
\* NUL, at buf[arg_len].
sys_getargs(nbytes) ==
    LET curr_pcb == pcb[Last(stack)]
        cleared == IF nbytes > 0 THEN [Memory EXCEPT ![curr_pcb.arg_len] = NUL] ELSE Memory
    IN  /\ \/ Return(ERROR)
           \/ /\ size' = nbytes
              /\ IF curr_pcb.arg_len = ERROR \/ nbytes < curr_pcb.arg_len
                 THEN ret' = ERROR /\ buf' = Memory
                 ELSE ret' = 0 /\ buf' = memcpy(cleared, curr_pcb.args, curr_pcb.arg_len)
        /\ UNCHANGED <<stack, pcb, prog, asked>>

Next ==
    \/ \E text \in Commands : sys_execute(text)
    \/ sys_halt
    \/ \E nbytes \in Sizes : sys_getargs(nbytes)

Spec == Init /\ [][Next]_vars

-----------------------------------------------------------------------------
\* The types of the variables.
TypeOK ==
    /\ Len(stack) \in 1 .. MAX_PROCESSES /\ \A i \in DOMAIN stack : stack[i] \in Pids
    /\ pcb \in [Pids -> [args : [0 .. MAX_ARG_LEN - 1 -> Chars],
                        arg_len : ERROR .. MAX_ARG_LEN - 1]]
    /\ \A p \in Pids : prog[p] \in Executables \cup {<<>>}
    /\ buf = NoBuffer \/ buf \in [0 .. MAX_ARG_LEN -> Chars \cup {Dirt}]
    /\ ret \in {0, ERROR}

\* The commands that sys_execute is made for: the name is there, and shorter than the
\* buffer for it.
Plain(request) == Len(request.name) \in 1 .. MAX_CMD_LEN - 1

\* The loop for the name does not stop at a NUL: no space is behind one as far as it goes.
Ended(text) ==
    \A i, j \in DOMAIN text : i < j /\ j <= MAX_CMD_LEN /\ text[i] = NUL => text[j] # SP

\* Every process, also one that waits for others it has executed, is the program that
\* its command names, and its block holds the second word of that command, or nothing
\* if it had none, whatever ran before under the same pid.
AsAsked ==
    \A i \in DOMAIN stack :
        LET p == stack[i]
        IN  Plain(asked[p]) =>
              /\ prog[p] = asked[p].name
              /\ IF asked[p].args = NoWord
                 THEN pcb[p].arg_len = ERROR
                 ELSE Slice(pcb[p].args, 0, pcb[p].arg_len) = asked[p].args

\* getargs gives a program all of its arguments or fails and leaves its memory alone.
\* It succeeds whenever they fit.  If the buffer is larger than they are, they end with
\* a NUL and nothing outside the buffer is written.
GetargsExact ==
    LET request == asked[Last(stack)]
        n == Len(request.args)
    IN  buf # NoBuffer /\ Plain(request) =>
          IF request.args = NoWord \/ size < n
          THEN ret = ERROR /\ buf = Memory
          ELSE /\ ret = 0
               /\ Slice(buf, 0, n) = request.args
               /\ size > n => buf[n] = NUL /\ \A i \in size .. MAX_ARG_LEN : buf[i] = Dirt

\* "Clear buffer" (sys_getargs): after a call that succeeds, what is behind the arguments
\* in the buffer is cleared.
BufferCleared ==
    buf # NoBuffer /\ ret = 0 =>
        \A i \in pcb[Last(stack)].arg_len .. size - 1 : buf[i] = NUL
=============================================================================
