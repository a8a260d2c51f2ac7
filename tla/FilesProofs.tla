----------------------------- MODULE FilesProofs -----------------------------
(***************************************************************************)
(* Theorems about Files, for every image that FilesAssumption describes,   *)
(* every size of a block and of the descriptor table, and every sequence   *)
(* of calls.                                                               *)
(***************************************************************************)
EXTENDS Files, IterationProofs, SequenceTheorems

USE DEF ERROR

(***************************************************************************)
(* The loop of read_data.                                                  *)
(***************************************************************************)

\* The quotient and the remainder of a position in a file are its block and its byte.
LEMMA DivMod ==
    ASSUME NEW b \in Nat \ {0}, NEW x \in Nat
    PROVE  \E q \in Nat, r \in 0 .. b - 1 : q = x \div b /\ r = x % b /\ q * b + r = x
<1>1. PICK q \in Nat, r \in 0 .. b - 1 : q = x \div b /\ r = x % b
  <2>1. x \div b \in Int /\ x \div b >= 0
    OBVIOUS
  <2>2. x % b \in 0 .. b - 1
    OBVIOUS
  <2> QED
    BY <2>1, <2>2
<1>2. x % b = x - b * (x \div b)
  OBVIOUS
<1>3. r = x - b * q
  BY <1>1, <1>2
<1>4. q * b + r = x
  <2>1. PICK z \in Int : z = b * q
    OBVIOUS
  <2>2. q * b = z
    BY <2>1
  <2> QED
    BY <1>3, <2>1, <2>2
<1> QED
  BY <1>1, <1>4

\* A block and a byte in it make one position.
LEMMA BlockAndByte ==
    ASSUME NEW b \in Nat \ {0}, NEW q \in Nat, NEW r \in 0 .. b - 1
    PROVE  (q * b + r) \div b = q /\ (q * b + r) % b = r
<1> DEFINE x == q * b + r
<1>1. x \in Nat
  OBVIOUS
<1>2. PICK d \in Nat, m \in 0 .. b - 1 : d = x \div b /\ m = x % b /\ d * b + m = x
  BY <1>1, DivMod
<1>3. d = q
  <2>1. ASSUME NEW u \in Nat, NEW v \in Nat, u < v PROVE u * b + b <= v * b
    <3>1. PICK w \in Nat : v = u + 1 + w
      <4>1. v - u - 1 \in Nat
        BY <2>1
      <4> QED
        BY <4>1
    <3>2. v * b = u * b + b + w * b
      BY <3>1
    <3>3. w * b \in Nat /\ u * b \in Nat
      OBVIOUS
    <3> QED
      BY <3>2, <3>3
  <2>2. d * b \in Nat /\ q * b \in Nat
    OBVIOUS
  <2> QED
    BY <1>2, <2>1, <2>2
<1>4. m = r
  BY <1>2, <1>3
<1> QED
  BY <1>2, <1>3, <1>4

\* All the bytes of a file, as a set.
Bytes(C) == {C[k] : k \in 1 .. Len(C)}

\* The states in which the loop of read_data can be when it copies the bytes C of an
\* inode from the offset on.
Copies(C, offset) ==
    {s \in [seek : Nat, idx : Nat, off : 0 .. BLOCK_SIZE, buf : Seq(Bytes(C))] :
       /\ s.seek \in offset .. Len(C)
       /\ s.seek = s.idx * BLOCK_SIZE + s.off
       /\ s.buf = SubSeq(C, offset + 1, s.seek)}

\* The state in which it starts.
CopyStart(offset) ==
    [seek |-> offset, idx |-> offset \div BLOCK_SIZE, off |-> offset % BLOCK_SIZE, buf |-> <<>>]

\* A file's contents are a sequence as long as its inode says.
LEMMA ContentsSeq ==
    ASSUME NEW inode \in Nat, inode + 1 \in DOMAIN inodes
    PROVE  /\ Contents(inode) \in Seq(Bytes(Contents(inode)))
           /\ Len(Contents(inode)) = inodes[inode + 1].length
           /\ inodes[inode + 1].length \in Nat
<1> DEFINE C == Contents(inode)
           n == inodes[inode + 1].length
<1>1. n \in Nat
  BY FilesAssumption
<1>2. DOMAIN C = 1 .. n /\ C = [k \in 1 .. n |-> C[k]]
  BY DEF Contents
<1> HIDE DEF C, n
<1>3. Len(C) = n
  BY <1>1, <1>2
<1>4. C \in [1 .. n -> Bytes(C)]
  BY <1>2, <1>3 DEF Bytes
<1>5. C \in Seq(Bytes(C))
  BY <1>1, <1>4
<1> QED
  BY <1>1, <1>3, <1>5 DEF C, n

\* One round of the loop copies the next byte of the file, or none at its end.
LEMMA CopyRound ==
    ASSUME NEW inode \in Nat, inode + 1 \in DOMAIN inodes,
           NEW offset \in 0 .. Len(Contents(inode)),
           NEW s \in Copies(Contents(inode), offset)
    PROVE  /\ CopyByte(inodes[inode + 1], s) \in Copies(Contents(inode), offset)
           /\ CopyByte(inodes[inode + 1], s).seek =
                IF s.seek < Len(Contents(inode)) THEN s.seek + 1 ELSE s.seek
<1>0. PICK C : C = Contents(inode)
  OBVIOUS
<1>1. C \in Seq(Bytes(C)) /\ Len(C) = inodes[inode + 1].length /\ Len(C) \in Nat
  BY <1>0, ContentsSeq
<1>2. /\ s.seek \in Nat /\ s.idx \in Nat /\ s.off \in 0 .. BLOCK_SIZE
      /\ s.buf \in Seq(Bytes(C))
      /\ s.seek \in offset .. Len(C)
      /\ s.seek = s.idx * BLOCK_SIZE + s.off
      /\ s.buf = SubSeq(C, offset + 1, s.seek)
  BY <1>0 DEF Copies
<1>3. CASE s.seek >= Len(C)
  BY <1>0, <1>1, <1>2, <1>3 DEF CopyByte
<1>4. CASE s.seek < Len(C)
  <2>1. PICK q \in Nat, r \in 0 .. BLOCK_SIZE - 1 :
          /\ q = IF s.off = BLOCK_SIZE THEN s.idx + 1 ELSE s.idx
          /\ r = IF s.off = BLOCK_SIZE THEN 0 ELSE s.off
    <3>1. CASE s.off = BLOCK_SIZE
      <4>0. BLOCK_SIZE \in Nat \ {0}
        BY FilesAssumption
      <4>1. s.idx + 1 \in Nat /\ 0 \in 0 .. BLOCK_SIZE - 1
        BY <1>2, <4>0, SMTT(30)
      <4> QED
        BY <3>1, <4>1
    <3>2. CASE s.off # BLOCK_SIZE
      <4>1. s.idx \in Nat /\ s.off \in 0 .. BLOCK_SIZE - 1
        BY <1>2, <3>2, FilesAssumption, SMTT(30)
      <4> QED
        BY <3>2, <4>1
    <3> QED
      BY <3>1, <3>2
  <2>2. s.seek = q * BLOCK_SIZE + r
    <3>1. CASE s.off = BLOCK_SIZE
      BY <1>2, <2>1, <3>1, FilesAssumption, SMTT(30)
    <3>2. CASE s.off # BLOCK_SIZE
      BY <1>2, <2>1, <3>2
    <3> QED
      BY <3>1, <3>2
  <2>3. s.seek \div BLOCK_SIZE = q /\ s.seek % BLOCK_SIZE = r
    <3>1. BLOCK_SIZE \in Nat \ {0}
      BY FilesAssumption
    <3>2. (q * BLOCK_SIZE + r) \div BLOCK_SIZE = q /\ (q * BLOCK_SIZE + r) % BLOCK_SIZE = r
      BY <3>1, BlockAndByte
    <3> QED
      BY <2>2, <3>2
  <2>4. PICK byte : byte = data_blocks[inodes[inode + 1].indices[q + 1]][r + 1]
    OBVIOUS
  <2>5. CopyByte(inodes[inode + 1], s) =
          [seek |-> s.seek + 1, idx |-> q, off |-> r + 1, buf |-> Append(s.buf, byte)]
    <3>1. ~ (s.seek >= inodes[inode + 1].length)
      BY <1>1, <1>2, <1>4
    <3>2. CASE s.off = BLOCK_SIZE
      BY <2>1, <2>4, <3>1, <3>2 DEF CopyByte
    <3>3. CASE s.off # BLOCK_SIZE
      BY <2>1, <2>4, <3>1, <3>3 DEF CopyByte
    <3> QED
      BY <3>2, <3>3
  <2>6. s.seek + 1 \in 1 .. Len(C)
    BY <1>1, <1>2, <1>4
  <2>7. C[s.seek + 1] = byte
    <3>1. (s.seek + 1) - 1 = s.seek
      BY <1>2
    <3> QED
      BY <1>0, <1>1, <2>3, <2>4, <2>6, <3>1 DEF Contents
  <2>8. Append(s.buf, byte) \in Seq(Bytes(C))
    <3>1. byte \in Bytes(C)
      BY <2>6, <2>7 DEF Bytes
    <3> QED
      BY <1>2, <3>1
  <2>9. Append(s.buf, byte) = SubSeq(C, offset + 1, s.seek + 1)
    <3>1. offset + 1 \in 1 .. Len(C) /\ s.seek + 1 \in offset + 1 .. Len(C)
      BY <1>1, <1>2, <1>4, <2>6
    <3>2. SubSeq(C, offset + 1, s.seek + 1) = SubSeq(C, offset + 1, (s.seek + 1) - 1) \o <<byte>>
      BY <1>1, <2>7, <3>1, SubSeqRecursiveSecond
    <3>3. (s.seek + 1) - 1 = s.seek
      BY <1>2
    <3>4. byte \in Bytes(C)
      BY <2>6, <2>7 DEF Bytes
    <3>5. Append(s.buf, byte) = s.buf \o <<byte>>
      BY <1>2, <3>4, AppendIsConcat
    <3> QED
      BY <1>2, <3>2, <3>3, <3>5
  <2>10. q * BLOCK_SIZE + (r + 1) = s.seek + 1 /\ r + 1 \in 0 .. BLOCK_SIZE
    <3>1. q * BLOCK_SIZE \in Nat
      BY FilesAssumption
    <3> QED
      BY <2>2, <3>1, FilesAssumption
  <2>11. CopyByte(inodes[inode + 1], s) \in Copies(C, offset)
    <3>1. s.seek + 1 \in offset .. Len(C) /\ s.seek + 1 \in Nat
      BY <1>2, <2>6
    <3> DEFINE d == [seek |-> s.seek + 1, idx |-> q, off |-> r + 1, buf |-> Append(s.buf, byte)]
    <3>2. d \in [seek : Nat, idx : Nat, off : 0 .. BLOCK_SIZE, buf : Seq(Bytes(C))]
      BY <2>8, <2>10, <3>1, Zenon
    <3>3. d.seek = s.seek + 1 /\ d.idx = q /\ d.off = r + 1 /\ d.buf = Append(s.buf, byte)
      OBVIOUS
    <3> HIDE DEF d
    <3>4. d \in Copies(C, offset)
      BY <2>9, <2>10, <3>1, <3>2, <3>3 DEF Copies
    <3> QED
      BY <2>5, <3>4 DEF d
  <2> QED
    BY <1>0, <1>4, <2>5, <2>11
<1> QED
  BY <1>1, <1>2, <1>3, <1>4

\* read_data copies the bytes of the file from the offset on, as many as were asked for
\* or as there are, whatever blocks they lie in.
LEMMA ReadData ==
    ASSUME NEW inode \in Nat, inode + 1 \in DOMAIN inodes,
           NEW offset \in 0 .. Len(Contents(inode)), NEW length \in Nat
    PROVE  \E end \in offset .. Len(Contents(inode)) :
             /\ read_data(inode, offset, length) = SubSeq(Contents(inode), offset + 1, end)
             /\ end = offset + length \/ (end = Len(Contents(inode)) /\ end < offset + length)
<1> DEFINE node == inodes[inode + 1]
           C == Contents(inode)
           D == Copies(C, offset)
           a == CopyStart(offset)
           g == [x \in (1 .. length) \X D |-> CopyByte(node, x[2])]
           Is(f) == f = [n \in 0 .. length |-> IF n = 0
                          THEN [seek |-> offset, idx |-> offset \div BLOCK_SIZE,
                                off |-> offset % BLOCK_SIZE, buf |-> <<>>]
                          ELSE CopyByte(node, f[n - 1])]
<1>1. C \in Seq(Bytes(C)) /\ Len(C) \in Nat
  BY ContentsSeq
<1>2. a \in D
  <2>1. PICK q \in Nat, r \in 0 .. BLOCK_SIZE - 1 :
          q = offset \div BLOCK_SIZE /\ r = offset % BLOCK_SIZE /\ q * BLOCK_SIZE + r = offset
    <3>1. offset \in Nat /\ BLOCK_SIZE \in Nat \ {0}
      BY <1>1, FilesAssumption
    <3> QED
      BY <3>1, DivMod
  <2>2. a = [seek |-> offset, idx |-> q, off |-> r, buf |-> <<>>]
    BY <2>1 DEF CopyStart
  <2>3. r \in 0 .. BLOCK_SIZE /\ offset \in Nat /\ offset \in offset .. Len(C)
        /\ <<>> \in Seq(Bytes(C))
    BY <1>1, FilesAssumption
  <2>4. SubSeq(C, offset + 1, offset) = <<>>
    BY <2>3, SubSeqEmpty
  <2>5. a \in [seek : Nat, idx : Nat, off : 0 .. BLOCK_SIZE, buf : Seq(Bytes(C))]
    <3>1. [seek |-> offset, idx |-> q, off |-> r, buf |-> <<>>]
            \in [seek : Nat, idx : Nat, off : 0 .. BLOCK_SIZE, buf : Seq(Bytes(C))]
      BY <2>3
    <3> QED
      BY <2>2, <3>1
  <2>6. a.seek = offset /\ a.idx = q /\ a.off = r /\ a.buf = <<>>
    BY <2>2
  <2> QED
    BY <2>1, <2>3, <2>4, <2>5, <2>6 DEF Copies
<1>3. ASSUME NEW d \in D
      PROVE  /\ CopyByte(node, d) \in D
             /\ CopyByte(node, d).seek = IF d.seek < Len(C) THEN d.seek + 1 ELSE d.seek
  BY CopyRound
<1>4. ASSUME NEW n \in 1 .. length, NEW d \in D PROVE g[<<n, d>>] = CopyByte(node, d)
  OBVIOUS
<1> HIDE DEF node, C, D, g, a
<1>5. PICK f : Trace(length, D, a, g, f)
  <2>1. Loop(length, D, a, g)
    BY <1>2, <1>3, <1>4 DEF Loop
  <2> QED
    BY <2>1, Iteration
<1>6. ASSUME NEW n \in 0 .. length
      PROVE  f[n] = IF n = 0 THEN a ELSE CopyByte(node, f[n - 1])
  <2>1. CASE n = 0
    BY <1>5, <2>1 DEF Trace
  <2>2. CASE n # 0
    <3>1. n \in 1 .. length /\ n - 1 \in 0 .. length
      BY <2>2
    <3>2. f[n - 1] \in D
      BY <1>5, <3>1 DEF Trace
    <3> QED
      BY <1>4, <1>5, <2>2, <3>1, <3>2 DEF Trace
  <2> QED
    BY <2>1, <2>2
<1>7. Is(f)
  BY <1>5, <1>6 DEF Trace, a, CopyStart
<1> DEFINE h == CHOOSE h : Is(h)
<1>8. Is(h)
  BY <1>7
<1>9. read_data(inode, offset, length) = h[length].buf
  BY DEF read_data, node
<1> HIDE DEF h
<1>10. ASSUME NEW n \in 0 .. length PROVE h[n] = IF n = 0 THEN a ELSE CopyByte(node, h[n - 1])
  BY <1>8, Zenon DEF a, CopyStart
<1> DEFINE Seek(n) == IF offset + n <= Len(C) THEN offset + n ELSE Len(C)
           T == {n \in 0 .. length : h[n] \in D /\ h[n].seek = Seek(n)}
<1>11. Inductive(length, T)
  <2>1. 0 \in T
    <3>1. h[0] = a /\ a.seek = offset
      BY <1>10 DEF a, CopyStart
    <3>2. Seek(0) = offset
      BY <1>1 DEF C
    <3> QED
      BY <1>2, <3>1, <3>2
  <2>2. ASSUME NEW n \in 1 .. length, n - 1 \in T PROVE n \in T
    <3>1. h[n - 1] \in D /\ h[n - 1].seek = Seek(n - 1)
      BY <2>2
    <3>2. n \in 0 .. length /\ h[n] = CopyByte(node, h[n - 1])
      BY <1>10
    <3>3. h[n] \in D /\ h[n].seek = IF h[n - 1].seek < Len(C) THEN h[n - 1].seek + 1
                                    ELSE h[n - 1].seek
      BY <1>3, <3>1, <3>2
    <3>4. Seek(n) = IF Seek(n - 1) < Len(C) THEN Seek(n - 1) + 1 ELSE Seek(n - 1)
      BY <1>1
    <3> QED
      BY <3>1, <3>2, <3>3, <3>4
  <2> QED
    BY <2>1, <2>2 DEF Inductive
<1>12. h[length] \in D /\ h[length].seek = Seek(length)
  <2>1. length \in T
    BY <1>11, Induction
  <2> QED
    BY <2>1
<1>13. /\ Seek(length) \in offset .. Len(C)
       /\ h[length].buf = SubSeq(C, offset + 1, Seek(length))
  BY <1>12 DEF D, Copies
<1>14. Seek(length) = offset + length \/ (Seek(length) = Len(C) /\ Seek(length) < offset + length)
  BY <1>1
<1> QED
  BY <1>9, <1>13, <1>14 DEF C

-----------------------------------------------------------------------------
(***************************************************************************)
(* The searches of open.                                                   *)
(***************************************************************************)

\* The directory and the names in it are sequences of the same length.
LEMMA Directory ==
    /\ Len(dir_entries) \in Nat /\ DOMAIN dir_entries = 1 .. Len(dir_entries)
    /\ \A i \in DOMAIN dir_entries : dir_entries[i].inode_num \in Nat
    /\ Listing \in Seq(FileNames) /\ Len(Listing) = Len(dir_entries)
    /\ \A i \in 1 .. Len(dir_entries) :
         Listing[i] = dir_entries[i].file_name /\ Listing[i] \in FileNames
<1> DEFINE R == [file_name : FileNames, file_type : {0, 1, 2}, inode_num : Nat]
<1>1. dir_entries \in Seq(R)
  BY FilesAssumption
<1>2. \A r \in R : r.inode_num \in Nat
  OBVIOUS
<1> HIDE DEF R
<1>3. Len(dir_entries) \in Nat /\ DOMAIN dir_entries = 1 .. Len(dir_entries)
      /\ \A i \in DOMAIN dir_entries : dir_entries[i] \in R
  BY <1>1
<1>4. \A i \in 1 .. Len(dir_entries) :
        Listing[i] = dir_entries[i].file_name /\ Listing[i] \in FileNames
  BY <1>3 DEF Listing, FileNames
<1>5. Listing \in [1 .. Len(dir_entries) -> FileNames]
  BY <1>3 DEF Listing, FileNames
<1>6. Listing \in Seq(FileNames) /\ Len(Listing) = Len(dir_entries)
  <2> HIDE DEF Listing, FileNames
  <2> QED
    BY <1>3, <1>5
<1> QED
  BY <1>2, <1>3, <1>4, <1>6

\* read_dentry_by_name finds an entry of the directory or reports an error.
LEMMA EntryFound ==
    ASSUME NEW name, read_dentry_by_name(name) # ERROR
    PROVE  read_dentry_by_name(name) \in DOMAIN dir_entries
<1> DEFINE found == {i \in DOMAIN dir_entries : dir_entries[i].file_name = name}
<1>1. found # {} /\ read_dentry_by_name(name) = CHOOSE i \in found : \A j \in found : i <= j
  BY DEF read_dentry_by_name
<1>2. found \subseteq Nat
  BY FilesAssumption
<1>3. \E i \in found : \A j \in found : i <= j
  <2> HIDE DEF found
  <2> QED
    BY <1>1, <1>2, Least
<1> QED
  BY <1>1, <1>3

\* get_new_fd finds a free descriptor that is not stdin or stdout, or reports an error.
LEMMA FdFound ==
    ASSUME get_new_fd # ERROR
    PROVE  get_new_fd \in 2 .. FDT_SIZE - 1 /\ fdt[get_new_fd].enabled = 0
<1> DEFINE free == {fd \in 2 .. FDT_SIZE - 1 : fdt[fd].enabled = 0}
<1>1. free # {} /\ get_new_fd = CHOOSE fd \in free : \A g \in free : fd <= g
  BY DEF get_new_fd
<1>2. free \subseteq Nat
  BY FilesAssumption
<1>3. \E fd \in free : \A g \in free : fd <= g
  <2> HIDE DEF free
  <2> QED
    BY <1>1, <1>2, Least
<1> QED
  BY <1>1, <1>3

-----------------------------------------------------------------------------
(***************************************************************************)
(* The invariant.                                                          *)
(***************************************************************************)
Entries == [fot : {"none", "stdin", "stdout", "rtc", "file", "dir"},
            inode_idx : Nat, file_position : Nat, enabled : {0, 1}]

\* An open file has an inode.
HasInode(e) == e.enabled = 1 /\ e.fot = "file" => e.inode_idx + 1 \in DOMAIN inodes

\* What reads of a descriptor e can return.
SourceOf(e) == IF e.fot = "file" THEN Contents(e.inode_idx) ELSE Listing

\* ReadsInOrder for one descriptor: bytes is what its reads have returned.
InOrder(e, bytes) ==
    e.enabled = 1 /\ e.fot \in {"file", "dir"} =>
        /\ e.file_position \in 0 .. Len(SourceOf(e))
        /\ bytes = SubSeq(SourceOf(e), 1, e.file_position)

\* What a descriptor can return is a sequence.
LEMMA SourceSeq ==
    ASSUME NEW e, e.inode_idx \in Nat, e.enabled = 1, HasInode(e)
    PROVE  \E B : SourceOf(e) \in Seq(B) /\ Len(SourceOf(e)) \in Nat
<1>1. CASE e.fot = "file"
  BY <1>1, ContentsSeq DEF HasInode, SourceOf
<1>2. CASE e.fot # "file"
  BY <1>2, Directory DEF SourceOf
<1> QED
  BY <1>1, <1>2

\* A descriptor table f whose reads have returned g: stdin and stdout are open.
Table(f, g) ==
    /\ f \in [Fds -> Entries] /\ f[0] = Std(0) /\ f[1] = Std(1)
    /\ DOMAIN g = Fds
    /\ \A fd \in Fds : HasInode(f[fd]) /\ InOrder(f[fd], g[fd])

TableInv == Table(fdt, got)

LastInv == last.fd \in Fds \cup {ERROR} /\ ZeroMeansEnd

\* A step that changes only the descriptor fd.
Changes(fd, e, bytes) ==
    /\ fdt' = [fdt EXCEPT ![fd] = e]
    /\ DOMAIN got' = DOMAIN got /\ got'[fd] = bytes
    /\ \A f \in DOMAIN got : f # fd => got'[f] = got[f]

\* The descriptors 0 and 1 exist, and the others are above them.
LEMMA FdsFacts ==
    /\ Fds \subseteq Nat /\ 0 \in Fds /\ 1 \in Fds
    /\ \A fd \in Fds : fd = 0 \/ fd = 1 \/ fd >= 2
    /\ Std(0) \in Entries /\ Std(1) \in Entries /\ Closed \in Entries
BY FilesAssumption DEF Fds, Std, Closed, Entries

\* Such a step keeps the invariant if the new entry is as it should be.
LEMMA ChangeStep ==
    ASSUME TableInv, NEW fd \in Fds, fd >= 2, NEW e \in Entries, NEW bytes,
           Changes(fd, e, bytes), HasInode(e), InOrder(e, bytes)
    PROVE  /\ TableInv'
           /\ fdt'[fd] = e /\ got'[fd] = bytes
           /\ \A f \in Fds : f # fd => fdt'[f] = fdt[f]
<1>1. /\ fdt' \in [Fds -> Entries] /\ DOMAIN got' = Fds
      /\ fdt'[fd] = e /\ got'[fd] = bytes
      /\ \A f \in Fds : f # fd => fdt'[f] = fdt[f] /\ got'[f] = got[f]
  BY DEF TableInv, Table, Changes
<1>2. fdt'[0] = Std(0) /\ fdt'[1] = Std(1)
  BY <1>1, FdsFacts DEF TableInv, Table
<1>3. ASSUME NEW f \in Fds PROVE HasInode(fdt'[f]) /\ InOrder(fdt'[f], got'[f])
  BY <1>1 DEF TableInv, Table
<1> QED
  BY <1>1, <1>2, <1>3 DEF TableInv, Table

\* The table of a new process.
LEMMA NewTableRight == Table(NewTable, [fd \in Fds |-> <<>>])
<1>1. ASSUME NEW fd \in Fds
      PROVE  NewTable[fd] \in Entries /\ NewTable[fd].fot \in {"none", "stdin", "stdout"}
  <2>1. NewTable[fd] = IF fd < 2 THEN Std(fd) ELSE Closed
    BY DEF NewTable
  <2> QED
    BY <2>1, FdsFacts DEF Std, Closed, Entries
<1>2. NewTable[0] = Std(0) /\ NewTable[1] = Std(1)
  BY FdsFacts DEF NewTable
<1>3. NewTable \in [Fds -> Entries]
  BY <1>1 DEF NewTable
<1> QED
  BY <1>1, <1>2, <1>3 DEF Table, HasInode, InOrder

-----------------------------------------------------------------------------
(***************************************************************************)
(* The calls.  Step is what DescriptorsStable says of one step.            *)
(***************************************************************************)
Step ==
    \A fd \in Fds :
         /\ fdt[fd].enabled = 1 /\ fdt'[fd].enabled = 1 =>
              /\ fdt'[fd].fot = fdt[fd].fot /\ fdt'[fd].inode_idx = fdt[fd].inode_idx
              /\ fdt'[fd].file_position >= fdt[fd].file_position
              /\ fdt'[fd].file_position # fdt[fd].file_position => last'.fd = fd
         /\ fd < 2 => fdt'[fd].enabled = 1

\* A step that leaves the table alone is stable.
LEMMA SameTable ==
    ASSUME TableInv, UNCHANGED <<fdt, got>>
    PROVE  TableInv' /\ Step
<1>1. TableInv'
  BY DEF TableInv
<1>2. ASSUME NEW fd \in Fds
      PROVE  fdt[fd].file_position \in Nat /\ (fd < 2 => fdt[fd].enabled = 1)
  BY FdsFacts DEF TableInv, Table, Entries, Std
<1> QED
  BY <1>1, <1>2 DEF Step

\* A step that changes the descriptor fd only is stable if fd is.
LEMMA OneChange ==
    ASSUME TableInv, NEW fd \in Fds, fd >= 2, NEW e \in Entries, NEW bytes,
           Changes(fd, e, bytes), HasInode(e), InOrder(e, bytes),
           fdt[fd].enabled = 1 /\ e.enabled = 1 =>
              /\ e.fot = fdt[fd].fot /\ e.inode_idx = fdt[fd].inode_idx
              /\ e.file_position >= fdt[fd].file_position
              /\ e.file_position # fdt[fd].file_position => last'.fd = fd
    PROVE  TableInv' /\ Step
<1>1. TableInv' /\ fdt'[fd] = e /\ \A f \in Fds : f # fd => fdt'[f] = fdt[f]
  BY ChangeStep
<1>2. ASSUME NEW f \in Fds
      PROVE  fdt[f].file_position \in Nat /\ (f < 2 => fdt[f].enabled = 1)
  BY FdsFacts DEF TableInv, Table, Entries, Std
<1>3. ASSUME NEW f \in Fds PROVE f < 2 => fdt'[f].enabled = 1
  BY <1>1, <1>2, FdsFacts
<1> QED
  BY <1>1, <1>2, <1>3 DEF Step

\* sys_open gives out a free descriptor, at the beginning of its file.
LEMMA OpenStep ==
    ASSUME TableInv, NEW name, sys_open(name)
    PROVE  TableInv' /\ LastInv' /\ Step
<1>1. last'.fd = ERROR /\ LastInv'
  BY DEF sys_open, LastInv, ZeroMeansEnd
<1>2. CASE read_dentry_by_name(name) = ERROR \/ get_new_fd = ERROR
  BY <1>1, <1>2, SameTable DEF sys_open
<1>3. CASE read_dentry_by_name(name) # ERROR /\ get_new_fd # ERROR
  <2>1. PICK i \in DOMAIN dir_entries : i = read_dentry_by_name(name)
    BY <1>3, EntryFound
  <2>2. PICK fd \in Fds : fd = get_new_fd /\ fd >= 2 /\ fdt[fd].enabled = 0
    BY <1>3, FdFound, FilesAssumption DEF Fds
  <2>3. PICK e : e = [fot |-> Fot(dir_entries[i]), file_position |-> 0,
                      inode_idx |-> dir_entries[i].inode_num, enabled |-> 1]
    OBVIOUS
  <2>4. Changes(fd, e, <<>>)
    <3>1. fdt' = [fdt EXCEPT ![0] = Std(0), ![1] = Std(1), ![fd] = e]
      BY <1>3, <2>1, <2>2, <2>3 DEF sys_open
    <3>2. [fdt EXCEPT ![0] = Std(0), ![1] = Std(1), ![fd] = e] = [fdt EXCEPT ![fd] = e]
      BY <2>2, FdsFacts DEF TableInv, Table
    <3> QED
      BY <1>3, <2>2, <3>1, <3>2 DEF sys_open, Changes, TableInv, Table
  <2>5. /\ dir_entries[i].inode_num \in Nat
        /\ dir_entries[i].file_type # 1 => dir_entries[i].inode_num + 1 \in DOMAIN inodes
    BY Directory, FilesAssumption
  <2>6. Fot(dir_entries[i]) \in {"rtc", "file", "dir"}
        /\ (Fot(dir_entries[i]) = "file" => dir_entries[i].file_type # 1)
    BY DEF Fot
  <2>7. /\ e.fot = Fot(dir_entries[i]) /\ e.inode_idx = dir_entries[i].inode_num
        /\ e.file_position = 0 /\ e.enabled = 1
    BY <2>3
  <2>8. e \in Entries
    BY <2>3, <2>5, <2>6 DEF Entries
  <2>9. HasInode(e)
    BY <2>5, <2>6, <2>7 DEF HasInode
  <2>10. InOrder(e, <<>>)
    <3> SUFFICES ASSUME e.fot \in {"file", "dir"}
                 PROVE  0 \in 0 .. Len(SourceOf(e)) /\ <<>> = SubSeq(SourceOf(e), 1, 0)
      BY <2>7 DEF InOrder
    <3>1. Len(SourceOf(e)) \in Nat
      BY <2>5, <2>7, <2>9, SourceSeq
    <3> QED
      BY <3>1, SubSeqEmpty
  <2> QED
    BY <1>1, <2>2, <2>4, <2>8, <2>9, <2>10, OneChange
<1> QED
  BY <1>2, <1>3

\* sys_close changes no descriptor but the one it closes.
LEMMA CloseStep ==
    ASSUME TableInv, NEW fd \in Fds, sys_close(fd)
    PROVE  TableInv' /\ LastInv' /\ Step
<1>1. LastInv'
  BY DEF sys_close, LastInv, ZeroMeansEnd
<1>2. PICK e : e = [fdt[fd] EXCEPT !.enabled = 0]
  OBVIOUS
<1>3. fdt[fd] \in Entries
  BY DEF TableInv, Table
<1>4. e \in Entries /\ e.enabled = 0
  BY <1>2, <1>3 DEF Entries
<1>5. Changes(fd, e, got[fd])
  BY <1>2, <1>3 DEF sys_close, Changes, TableInv, Table
<1> QED
  BY <1>1, <1>4, <1>5, OneChange DEF sys_close, HasInode, InOrder

\* Reading on moves the position of the descriptor to end, not beyond what there is.
LEMMA ReadOn ==
    ASSUME TableInv, NEW fd \in Fds, fdt[fd].enabled = 1, fdt[fd].fot \in {"file", "dir"},
           NEW end \in fdt[fd].file_position .. Len(SourceOf(fdt[fd])),
           Changes(fd, [fdt[fd] EXCEPT !.file_position = end],
                   SubSeq(SourceOf(fdt[fd]), 1, end)),
           last'.fd = fd
    PROVE  TableInv' /\ Step
<1>1. fd >= 2
  BY FdsFacts DEF TableInv, Table, Std
<1>2. fdt[fd] \in Entries /\ HasInode(fdt[fd])
  BY DEF TableInv, Table
<1>3. PICK e : e = [fdt[fd] EXCEPT !.file_position = end]
  OBVIOUS
<1>4. fdt[fd].file_position \in Nat /\ end \in Nat /\ end \in 0 .. Len(SourceOf(fdt[fd]))
  BY <1>2 DEF Entries
<1>5. /\ e \in Entries /\ e.enabled = 1 /\ e.fot = fdt[fd].fot
      /\ e.inode_idx = fdt[fd].inode_idx /\ e.file_position = end
  BY <1>2, <1>3, <1>4 DEF Entries
<1>6. SourceOf(e) = SourceOf(fdt[fd])
  BY <1>5 DEF SourceOf
<1>7. HasInode(e)
  BY <1>2, <1>5 DEF HasInode
<1>8. InOrder(e, SubSeq(SourceOf(fdt[fd]), 1, end))
  BY <1>4, <1>5, <1>6 DEF InOrder
<1>9. Changes(fd, e, SubSeq(SourceOf(fdt[fd]), 1, end))
  BY <1>3
<1>10. e.file_position >= fdt[fd].file_position
  BY <1>4, <1>5
<1> HIDE DEF Changes
<1> QED
  BY <1>1, <1>5, <1>7, <1>8, <1>9, <1>10, OneChange

\* sys_read of a file goes on where the last one ended, and returns 0 at the end only.
LEMMA FileReadStep ==
    ASSUME TableInv, NEW fd \in Fds, NEW nbytes \in ReadSizes, file_read(fd, nbytes)
    PROVE  TableInv' /\ LastInv' /\ Step
<1>1. PICK C, pos, inode : /\ inode = fdt[fd].inode_idx /\ C = Contents(inode)
                           /\ pos = fdt[fd].file_position
  OBVIOUS
<1>2. fdt[fd] \in Entries /\ fdt[fd].fot = "file" /\ fdt[fd].enabled = 1
      /\ InOrder(fdt[fd], got[fd]) /\ HasInode(fdt[fd]) /\ fd \in DOMAIN got
  BY DEF TableInv, Table, file_read
<1>3. SourceOf(fdt[fd]) = C
  BY <1>1, <1>2 DEF SourceOf
<1>4. /\ inode \in Nat /\ inode + 1 \in DOMAIN inodes
      /\ pos \in 0 .. Len(C) /\ got[fd] = SubSeq(C, 1, pos)
  BY <1>1, <1>2, <1>3 DEF Entries, HasInode, InOrder
<1>5. C \in Seq(Bytes(C)) /\ Len(C) \in Nat
  BY <1>1, <1>4, ContentsSeq
<1>6. nbytes \in Nat
  BY FilesAssumption
<1>7. PICK end \in pos .. Len(C) :
        /\ read_data(inode, pos, nbytes) = SubSeq(C, pos + 1, end)
        /\ end = pos + nbytes \/ (end = Len(C) /\ end < pos + nbytes)
  BY <1>1, <1>4, <1>6, ReadData
<1>8. PICK bytes : bytes = SubSeq(C, pos + 1, end)
  OBVIOUS
<1>9. Len(bytes) = end - pos
  <2>1. \A i \in pos + 1 .. end : C[i] \in Bytes(C)
    BY <1>4, <1>5
  <2>2. pos + 1 \in Int /\ end \in Int
    BY <1>4
  <2>3. Len(SubSeq(C, pos + 1, end)) = IF pos + 1 <= end THEN end - (pos + 1) + 1 ELSE 0
    BY <2>1, <2>2, SubSeqProperties
  <2> QED
    BY <1>4, <1>8, <2>3
<1>10. got[fd] \o bytes = SubSeq(C, 1, end)
  <2>1. 1 \in 1 .. Len(C) + 1 /\ pos \in 1 - 1 .. Len(C) /\ end \in pos .. Len(C)
    BY <1>4, <1>5
  <2> QED
    BY <1>4, <1>5, <1>8, <2>1, ConcatAdjacentSubSeq
<1>11. /\ fdt' = [fdt EXCEPT ![fd].file_position = @ + Len(bytes)]
       /\ got' = [got EXCEPT ![fd] = @ \o bytes]
       /\ last' = [fd |-> fd, nbytes |-> nbytes, ret |-> Len(bytes)]
  BY <1>1, <1>7, <1>8 DEF file_read
<1>12. Changes(fd, [fdt[fd] EXCEPT !.file_position = end], SubSeq(C, 1, end))
  <2>1. fdt[fd].file_position + Len(bytes) = end
    BY <1>1, <1>4, <1>9
  <2>2. fdt' = [fdt EXCEPT ![fd] = [fdt[fd] EXCEPT !.file_position = end]]
    BY <1>2, <1>11, <2>1
  <2>3. DOMAIN got' = DOMAIN got /\ got'[fd] = SubSeq(C, 1, end)
        /\ \A f \in DOMAIN got : f # fd => got'[f] = got[f]
    BY <1>2, <1>10, <1>11
  <2> QED
    BY <2>2, <2>3 DEF Changes
<1>13. last'.fd = fd
  BY <1>11
<1>14. TableInv' /\ Step
  BY <1>1, <1>2, <1>3, <1>12, <1>13, ReadOn
<1>15. LastInv'
  <2>1. ASSUME nbytes > 0, Len(bytes) = 0 PROVE got'[fd] = SourceOf(fdt'[fd])
    <3>1. end = Len(C)
      BY <1>4, <1>5, <1>6, <1>7, <1>9, <2>1
    <3>2. got'[fd] = C
      <4>1. SubSeq(C, 1, Len(C)) = C
        BY <1>5, SubSeqFull
      <4> QED
        BY <1>12, <3>1, <4>1 DEF Changes
    <3>3. SourceOf(fdt'[fd]) = C
      <4>1. fdt'[fd] = [fdt[fd] EXCEPT !.file_position = end]
        BY <1>12 DEF Changes, TableInv, Table
      <4>2. fdt'[fd].fot = "file" /\ fdt'[fd].inode_idx = inode
        BY <1>1, <1>2, <4>1 DEF Entries
      <4> QED
        BY <1>1, <4>2 DEF SourceOf
    <3> QED
      BY <3>2, <3>3
  <2>2. Source(fd)' = SourceOf(fdt'[fd])
    BY DEF Source, SourceOf
  <2> QED
    BY <1>11, <2>1, <2>2 DEF LastInv, ZeroMeansEnd, Source, SourceOf
<1> QED
  BY <1>14, <1>15

\* sys_read of the directory gives the next name, and 0 at the end only.
LEMMA DirReadStep ==
    ASSUME TableInv, NEW fd \in Fds, NEW nbytes \in ReadSizes, dir_read(fd, nbytes)
    PROVE  TableInv' /\ LastInv' /\ Step
<1>1. PICK pos : pos = fdt[fd].file_position
  OBVIOUS
<1>2. /\ fdt[fd] \in Entries /\ fdt[fd].fot = "dir" /\ fdt[fd].enabled = 1
      /\ InOrder(fdt[fd], got[fd]) /\ fd \in DOMAIN got
  BY DEF TableInv, Table, dir_read
<1>3. SourceOf(fdt[fd]) = Listing
  BY <1>2 DEF SourceOf
<1>4. /\ Listing \in Seq(FileNames) /\ Len(Listing) = Len(dir_entries) /\ Len(Listing) \in Nat
      /\ \A i \in 1 .. Len(Listing) : Listing[i] = dir_entries[i].file_name
  BY Directory
<1>5. pos \in 0 .. Len(Listing) /\ got[fd] = SubSeq(Listing, 1, pos)
  BY <1>1, <1>2, <1>3 DEF InOrder
<1>6. CASE pos >= Len(dir_entries)
  <2>1. UNCHANGED <<fdt, got>> /\ last' = [fd |-> fd, nbytes |-> nbytes, ret |-> 0]
    BY <1>1, <1>6 DEF dir_read
  <2>2. got[fd] = Listing
    <3>1. pos = Len(Listing)
      BY <1>4, <1>5, <1>6
    <3> QED
      BY <1>4, <1>5, <3>1, SubSeqFull
  <2>3. LastInv'
    BY <1>3, <2>1, <2>2 DEF LastInv, ZeroMeansEnd, Source, SourceOf
  <2> QED
    BY <2>1, <2>3, SameTable
<1>7. CASE ~ (pos >= Len(dir_entries))
  <2>1. /\ fdt' = [fdt EXCEPT ![fd].file_position = @ + 1]
        /\ got' = [got EXCEPT ![fd] = Append(@, dir_entries[pos + 1].file_name)]
        /\ last' = [fd |-> fd, nbytes |-> nbytes, ret |-> 1]
    BY <1>1, <1>7 DEF dir_read
  <2>2. PICK end \in pos .. Len(Listing) : end = pos + 1
    BY <1>4, <1>5, <1>7
  <2>3. Append(got[fd], dir_entries[pos + 1].file_name) = SubSeq(Listing, 1, end)
    <3>1. 1 \in 1 .. Len(Listing) /\ end \in 1 .. Len(Listing) /\ end - 1 = pos
      BY <1>4, <1>5, <2>2
    <3>2. SubSeq(Listing, 1, end) = SubSeq(Listing, 1, end - 1) \o <<Listing[end]>>
      BY <1>4, <3>1, SubSeqRecursiveSecond
    <3>3. Listing[end] = dir_entries[pos + 1].file_name /\ Listing[end] \in FileNames
      BY <1>4, <2>2, <3>1
    <3>4. got[fd] \in Seq(FileNames)
      <4>1. \A i \in 1 .. pos : Listing[i] \in FileNames
        BY <1>4, <1>5
      <4> QED
        BY <1>5, <4>1, SubSeqProperties
    <3>5. Append(got[fd], Listing[end]) = got[fd] \o <<Listing[end]>>
      BY <3>3, <3>4, AppendIsConcat
    <3> QED
      BY <1>5, <3>1, <3>2, <3>3, <3>5
  <2>4. Changes(fd, [fdt[fd] EXCEPT !.file_position = end], SubSeq(Listing, 1, end))
    <3>1. fdt' = [fdt EXCEPT ![fd] = [fdt[fd] EXCEPT !.file_position = end]]
      BY <1>1, <1>2, <2>1, <2>2
    <3>2. DOMAIN got' = DOMAIN got /\ got'[fd] = SubSeq(Listing, 1, end)
          /\ \A f \in DOMAIN got : f # fd => got'[f] = got[f]
      BY <1>2, <2>1, <2>3
    <3> QED
      BY <3>1, <3>2 DEF Changes
  <2>5. last'.fd = fd /\ last'.ret = 1
    BY <2>1
  <2>6. TableInv' /\ Step
    BY <1>1, <1>2, <1>3, <2>4, <2>5, ReadOn
  <2> QED
    BY <2>5, <2>6 DEF LastInv, ZeroMeansEnd
<1> QED
  BY <1>6, <1>7

\* A new process starts with a new table.
LEMMA ExecuteStep ==
    ASSUME TableInv, sys_execute
    PROVE  TableInv' /\ LastInv' /\ Step
<1>1. TableInv'
  BY NewTableRight DEF sys_execute, TableInv
<1>2. LastInv'
  BY DEF sys_execute, LastInv, ZeroMeansEnd
<1>3. Step
  <2>1. ASSUME NEW fd \in Fds PROVE fdt'[fd] = IF fd < 2 THEN Std(fd) ELSE Closed
    BY DEF sys_execute, NewTable
  <2>2. ASSUME NEW fd \in Fds, fd < 2
        PROVE  fdt'[fd] = fdt[fd] /\ fdt[fd].enabled = 1 /\ fdt[fd].file_position = 0
    BY <2>1, <2>2, FdsFacts DEF TableInv, Table, Std
  <2>3. ASSUME NEW fd \in Fds, fd >= 2 PROVE fdt'[fd].enabled = 0
    BY <2>1, <2>3, FdsFacts DEF Closed
  <2>4. ASSUME NEW fd \in Fds PROVE fd < 2 \/ fd >= 2
    BY FdsFacts
  <2>5. ASSUME NEW fd \in Fds
        PROVE  /\ fdt[fd].enabled = 1 /\ fdt'[fd].enabled = 1 =>
                    fdt'[fd] = fdt[fd] /\ fdt[fd].file_position = 0
               /\ fd < 2 => fdt'[fd].enabled = 1
    <3>1. CASE fd < 2
      BY <2>2, <3>1
    <3>2. CASE fd >= 2
      BY <2>3, <3>2, FdsFacts
    <3> QED
      BY <2>4, <3>1, <3>2
  <2> QED
    BY <2>5 DEF Step
<1> QED
  BY <1>1, <1>2, <1>3

-----------------------------------------------------------------------------
\* The inductive invariant.
IInv == TableInv /\ LastInv

\* The table of the first process.
LEMMA InitInv == Init => IInv
BY NewTableRight DEF Init, IInv, TableInv, LastInv, ZeroMeansEnd

\* Every step keeps the invariant and every open descriptor.
LEMMA NextStep ==
    ASSUME IInv, [Next]_vars
    PROVE  IInv' /\ (Step \/ UNCHANGED vars)
<1> USE DEF IInv
<1>1. ASSUME NEW name \in Names, sys_open(name) PROVE IInv' /\ Step
  BY <1>1, OpenStep
<1>2. ASSUME NEW fd \in Fds, sys_close(fd) PROVE IInv' /\ Step
  BY <1>2, CloseStep
<1>3. ASSUME NEW fd \in Fds, NEW nbytes \in ReadSizes, file_read(fd, nbytes) PROVE IInv' /\ Step
  BY <1>3, FileReadStep
<1>4. ASSUME NEW fd \in Fds, NEW nbytes \in ReadSizes, dir_read(fd, nbytes) PROVE IInv' /\ Step
  BY <1>4, DirReadStep
<1>5. CASE sys_execute
  BY <1>5, ExecuteStep
<1>6. CASE UNCHANGED vars
  BY <1>6 DEF vars, TableInv, LastInv, ZeroMeansEnd, Source
<1> QED
  BY <1>1, <1>2, <1>3, <1>4, <1>5, <1>6 DEF Next

\* The invariant holds in every state.
THEOREM Invariance == Spec => []IInv
<1>1. Init => IInv
  BY InitInv
<1>2. IInv /\ [Next]_vars => IInv'
  BY NextStep
<1> QED
  BY <1>1, <1>2, PTL DEF Spec

\* The descriptors, positions and inodes keep their types.
THEOREM Typing == Spec => []TypeOK
<1>1. IInv => TypeOK
  BY DEF IInv, TableInv, Table, Entries, LastInv, TypeOK
<1> QED
  BY <1>1, Invariance, PTL

\* Whatever a process opens, reads and closes, and however it splits its reads, a
\* descriptor returns the bytes of its file in order, across the blocks: file_position and
\* the loop of read_data agree for every image, block size and size of a read.
THEOREM ReadsReturnTheFile == Spec => []ReadsInOrder
<1>1. IInv => ReadsInOrder
  BY DEF IInv, TableInv, Table, InOrder, SourceOf, Source, ReadsInOrder
<1> QED
  BY <1>1, Invariance, PTL

\* sys_read returns 0 to a program that asked for bytes only when it has read everything.
THEOREM ZeroIsTheEnd == Spec => []ZeroMeansEnd
<1>1. IInv => ZeroMeansEnd
  BY DEF IInv, LastInv
<1> QED
  BY <1>1, Invariance, PTL

\* No call of sys_open, sys_close, sys_read or sys_execute takes an open descriptor away,
\* gives it to another file, moves its position back or closes stdin or stdout.
THEOREM DescriptorsKept == Spec => DescriptorsStable
<1>1. IInv /\ [Next]_vars => [Step]_vars
  BY NextStep
<1>2. Spec => [][Step]_vars
  BY <1>1, Invariance, PTL DEF Spec
<1> QED
  BY <1>2, PTL DEF DescriptorsStable, Step
==============================================================================
