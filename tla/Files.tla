-------------------------------- MODULE Files --------------------------------
(***************************************************************************)
(* The read-only file system and the descriptor table of one process.  A   *)
(* table is used by its process only and the image never changes, so the   *)
(* system calls are atomic here whatever interrupts them.  Reads of the    *)
(* terminal and of the RTC are the subject of Terminal and Rtc; a write to *)
(* a file or to the directory fails and changes nothing.                   *)
(***************************************************************************)
EXTENDS Integers, Sequences

CONSTANTS
    FDT_SIZE,
    BLOCK_SIZE,
    dir_entries,   \* the directory: a sequence of [file_name, file_type, inode_num]
    inodes,        \* the sequence of inodes: [length, indices], inode n at n + 1
    data_blocks,   \* data_blocks[b]: the bytes of block b, a sequence
    Names,         \* the names that programs pass to open
    RtcNames,      \* those that strncmp(filename, "rtc", strlen(filename)) accepts
    ReadSizes      \* the values of nbytes that programs pass to read

ERROR == -1
Fds == 0 .. FDT_SIZE - 1

FileNames == {dir_entries[i].file_name : i \in DOMAIN dir_entries}

\* The blocks of an inode hold its bytes, and everything but a directory has an inode.
ASSUME FilesAssumption ==
    /\ FDT_SIZE \in Nat /\ FDT_SIZE >= 2
    /\ BLOCK_SIZE \in Nat \ {0}
    /\ \A b \in DOMAIN data_blocks : Len(data_blocks[b]) = BLOCK_SIZE
    /\ \A n \in DOMAIN inodes :
         /\ inodes[n].length \in 0 .. BLOCK_SIZE * Len(inodes[n].indices)
         /\ \A k \in DOMAIN inodes[n].indices : inodes[n].indices[k] \in DOMAIN data_blocks
    /\ dir_entries \in Seq([file_name : FileNames, file_type : {0, 1, 2}, inode_num : Nat])
    /\ \A i \in DOMAIN dir_entries :
         dir_entries[i].file_type # 1 => dir_entries[i].inode_num + 1 \in DOMAIN inodes
    /\ ReadSizes \subseteq Nat

VARIABLES
    fdt,    \* the descriptor table
    got,    \* history: got[fd] is what reads of fd have returned since it was opened
    last    \* the last call: its descriptor, the size asked for and the result

vars == <<fdt, got, last>>

Closed == [fot |-> "none", inode_idx |-> 0, file_position |-> 0, enabled |-> 0]

Std(fd) == [fot |-> IF fd = 0 THEN "stdin" ELSE "stdout",
            inode_idx |-> 0, file_position |-> 0, enabled |-> 1]

\* The table that sys_execute gives to a new process.
NewTable == [fd \in Fds |-> IF fd < 2 THEN Std(fd) ELSE Closed]

Init ==
    /\ fdt = NewTable
    /\ got = [fd \in Fds |-> <<>>]
    /\ last = [fd |-> ERROR, nbytes |-> 0, ret |-> 0]

-----------------------------------------------------------------------------
\* The index of the first entry with the name, or ERROR.
read_dentry_by_name(fname) ==
    LET found == {i \in DOMAIN dir_entries : dir_entries[i].file_name = fname}
    IN  IF found = {} THEN ERROR ELSE CHOOSE i \in found : \A j \in found : i <= j

(***************************************************************************)
(* The loop of read_data: where it is in the file (seek) and in the blocks *)
(* (idx, off), and the bytes it has copied.  The block is changed when the *)
(* next byte is needed, not when the last one of a block has been copied.  *)
(***************************************************************************)

\* Mutants: the next block is entered at its second byte; the file ends one byte early.
CopyByte_SkipsByte(node, s) ==
    IF s.seek >= node.length THEN s
    ELSE LET next == s.off = BLOCK_SIZE
             idx == IF next THEN s.idx + 1 ELSE s.idx
             off == IF next THEN 1 ELSE s.off
         IN  [seek |-> s.seek + 1, idx |-> idx, off |-> off + 1,
              buf |-> Append(s.buf, data_blocks[node.indices[idx + 1]][off + 1])]

CopyByte_EndsEarly(node, s) ==
    IF s.seek + 1 >= node.length THEN s
    ELSE LET next == s.off = BLOCK_SIZE
             idx == IF next THEN s.idx + 1 ELSE s.idx
             off == IF next THEN 0 ELSE s.off
         IN  [seek |-> s.seek + 1, idx |-> idx, off |-> off + 1,
              buf |-> Append(s.buf, data_blocks[node.indices[idx + 1]][off + 1])]

CopyByte(node, s) ==
    IF s.seek >= node.length THEN s
    ELSE LET next == s.off = BLOCK_SIZE
             idx == IF next THEN s.idx + 1 ELSE s.idx
             off == IF next THEN 0 ELSE s.off
         IN  [seek |-> s.seek + 1, idx |-> idx, off |-> off + 1,
              buf |-> Append(s.buf, data_blocks[node.indices[idx + 1]][off + 1])]

read_data(inode, offset, length) ==
    LET node == inodes[inode + 1]
        after[n \in 0 .. length] ==
          IF n = 0
          THEN [seek |-> offset, idx |-> offset \div BLOCK_SIZE,
                off |-> offset % BLOCK_SIZE, buf |-> <<>>]
          ELSE CopyByte(node, after[n - 1])
    IN  after[length].buf

-----------------------------------------------------------------------------
\* Mutant: when the table is full, its last descriptor is given out again.
get_new_fd_Reuses ==
    LET free == {fd \in 2 .. FDT_SIZE - 1 : fdt[fd].enabled = 0}
    IN  IF free = {} THEN FDT_SIZE - 1 ELSE CHOOSE fd \in free : \A g \in free : fd <= g

\* The lowest free descriptor above those of stdin and stdout, or ERROR.
get_new_fd ==
    LET free == {fd \in 2 .. FDT_SIZE - 1 : fdt[fd].enabled = 0}
    IN  IF free = {} THEN ERROR ELSE CHOOSE fd \in free : \A g \in free : fd <= g

\* The operations table: a directory has its own, whatever its name.
Fot(entry) ==
    IF entry.file_type = 1 THEN "dir"
    ELSE IF entry.file_name \in RtcNames THEN "rtc" ELSE "file"

\* Mutant: the position of an earlier file is kept.
sys_open_KeepsPosition(name) ==
    LET i == read_dentry_by_name(name)
        fd == get_new_fd
    IN  IF i = ERROR \/ fd = ERROR
        THEN last' = [fd |-> ERROR, nbytes |-> 0, ret |-> ERROR] /\ UNCHANGED <<fdt, got>>
        ELSE /\ fdt' = [fdt EXCEPT ![0] = Std(0), ![1] = Std(1),
                  ![fd].fot = Fot(dir_entries[i]),
                  ![fd].inode_idx = dir_entries[i].inode_num, ![fd].enabled = 1]
             /\ got' = [got EXCEPT ![fd] = <<>>]
             /\ last' = [fd |-> ERROR, nbytes |-> 0, ret |-> fd]

\* No such file, or no free descriptor: nothing changes.  Entries 0 and 1 are set up
\* again by every open.
sys_open(name) ==
    LET i == read_dentry_by_name(name)
        fd == get_new_fd
    IN  IF i = ERROR \/ fd = ERROR
        THEN last' = [fd |-> ERROR, nbytes |-> 0, ret |-> ERROR] /\ UNCHANGED <<fdt, got>>
        ELSE /\ fdt' = [fdt EXCEPT ![0] = Std(0), ![1] = Std(1),
                  ![fd] = [fot |-> Fot(dir_entries[i]), file_position |-> 0,
                           inode_idx |-> dir_entries[i].inode_num, enabled |-> 1]]
             /\ got' = [got EXCEPT ![fd] = <<>>]
             /\ last' = [fd |-> ERROR, nbytes |-> 0, ret |-> fd]

\* Only the flag changes: the rest of the entry is left behind.  The call that is
\* refused changes nothing.
sys_close(fd) ==
    /\ fd >= 2
    /\ fdt[fd].enabled = 1
    /\ fdt' = [fdt EXCEPT ![fd].enabled = 0]
    /\ last' = [fd |-> ERROR, nbytes |-> 0, ret |-> 0]
    /\ UNCHANGED got

\* Mutant: at the end of the file the read fails, and the error is added to the position.
file_read_ErrorAtEnd(fd, nbytes) ==
    LET bytes == read_data(fdt[fd].inode_idx, fdt[fd].file_position, nbytes)
        rd == IF Len(bytes) = 0 THEN ERROR ELSE Len(bytes)
    IN  /\ fdt[fd].enabled = 1
        /\ fdt[fd].fot = "file"
        /\ fdt' = [fdt EXCEPT ![fd].file_position = @ + rd]
        /\ got' = [got EXCEPT ![fd] = @ \o bytes]
        /\ last' = [fd |-> fd, nbytes |-> nbytes, ret |-> rd]

\* sys_read of a regular file.
file_read(fd, nbytes) ==
    LET bytes == read_data(fdt[fd].inode_idx, fdt[fd].file_position, nbytes)
    IN  /\ fdt[fd].enabled = 1
        /\ fdt[fd].fot = "file"
        /\ fdt' = [fdt EXCEPT ![fd].file_position = @ + Len(bytes)]
        /\ got' = [got EXCEPT ![fd] = @ \o bytes]
        /\ last' = [fd |-> fd, nbytes |-> nbytes, ret |-> Len(bytes)]

\* sys_read of the directory gives one name, whatever nbytes is.  The length of a
\* name, never 0, is abstracted to 1.
dir_read(fd, nbytes) ==
    LET pos == fdt[fd].file_position
    IN  /\ fdt[fd].enabled = 1
        /\ fdt[fd].fot = "dir"
        /\ IF pos >= Len(dir_entries)
           THEN /\ last' = [fd |-> fd, nbytes |-> nbytes, ret |-> 0]
                /\ UNCHANGED <<fdt, got>>
           ELSE /\ fdt' = [fdt EXCEPT ![fd].file_position = @ + 1]
                /\ got' = [got EXCEPT ![fd] = Append(@, dir_entries[pos + 1].file_name)]
                /\ last' = [fd |-> fd, nbytes |-> nbytes, ret |-> 1]

\* The process halts, which closes its files, and the next one starts.
sys_execute ==
    /\ fdt' = NewTable
    /\ got' = [fd \in Fds |-> <<>>]
    /\ last' = [fd |-> ERROR, nbytes |-> 0, ret |-> 0]

Next ==
    \/ \E name \in Names : sys_open(name)
    \/ \E fd \in Fds :
         \/ sys_close(fd)
         \/ \E nbytes \in ReadSizes : file_read(fd, nbytes) \/ dir_read(fd, nbytes)
    \/ sys_execute

Spec == Init /\ [][Next]_vars

-----------------------------------------------------------------------------
\* The bytes of a file, from its length and its blocks.
Contents(inode) ==
    LET node == inodes[inode + 1]
    IN  [k \in 1 .. node.length |->
           data_blocks[node.indices[((k - 1) \div BLOCK_SIZE) + 1]][((k - 1) % BLOCK_SIZE) + 1]]

Listing == [i \in DOMAIN dir_entries |-> dir_entries[i].file_name]

\* All that reads of fd can return.
Source(fd) == IF fdt[fd].fot = "file" THEN Contents(fdt[fd].inode_idx) ELSE Listing

\* The types of the variables.
TypeOK ==
    /\ fdt \in [Fds -> [fot : {"none", "stdin", "stdout", "rtc", "file", "dir"},
                        inode_idx : Nat, file_position : Nat, enabled : {0, 1}]]
    /\ DOMAIN got = Fds
    /\ last.fd \in Fds \cup {ERROR}

\* The reads of a descriptor, however large, however many and whatever is opened,
\* read and closed in between, return the file from its beginning, without a gap or
\* a repetition, across blocks and up to its end; those of the directory its names.
ReadsInOrder ==
    \A fd \in Fds :
        fdt[fd].enabled = 1 /\ fdt[fd].fot \in {"file", "dir"} =>
            /\ fdt[fd].file_position \in 0 .. Len(Source(fd))
            /\ got[fd] = SubSeq(Source(fd), 1, fdt[fd].file_position)

\* A read that returns 0 although bytes were asked for means that everything has
\* been read: programs such as cat and ls stop there.
ZeroMeansEnd ==
    last.fd # ERROR /\ last.nbytes > 0 /\ last.ret = 0 =>
        got[last.fd] = Source(last.fd)

\* An open descriptor belongs to one file until it is closed: no call for another
\* descriptor, a full table included, gives it away or moves its position, and its own
\* reads only move it forward.  stdin and stdout can never be closed.
DescriptorsStable ==
    [][\A fd \in Fds :
         /\ fdt[fd].enabled = 1 /\ fdt'[fd].enabled = 1 =>
              /\ fdt'[fd].fot = fdt[fd].fot /\ fdt'[fd].inode_idx = fdt[fd].inode_idx
              /\ fdt'[fd].file_position >= fdt[fd].file_position
              /\ fdt'[fd].file_position # fdt[fd].file_position => last'.fd = fd
         /\ fd < 2 => fdt'[fd].enabled = 1]_vars
=============================================================================
