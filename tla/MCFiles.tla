-------------------------------- MODULE MCFiles --------------------------------
(***************************************************************************)
(* An instance of Files for TLC: blocks of two bytes, files of 0, 3 and 4  *)
(* bytes whose blocks are not in order, and three descriptors.             *)
(***************************************************************************)
EXTENDS Files

CONSTANTS dot, rtc, empty, short, even, missing

MCNames == {dot, rtc, empty, short, even, missing}
MCRtcNames == {rtc}

MCEntries ==
    << [file_name |-> dot,   file_type |-> 1, inode_num |-> 0],
       [file_name |-> short, file_type |-> 2, inode_num |-> 1],
       [file_name |-> rtc,   file_type |-> 0, inode_num |-> 0],
       [file_name |-> even,  file_type |-> 2, inode_num |-> 2],
       [file_name |-> empty, file_type |-> 2, inode_num |-> 0] >>

MCInodes ==
    << [length |-> 0, indices |-> << >>],
       [length |-> 3, indices |-> <<4, 1>>],
       [length |-> 4, indices |-> <<3, 2>>] >>

MCBlocks == << <<11, 12>>, <<21, 22>>, <<31, 32>>, <<41, 42>> >>

MCSizes == {0, 1, 3}
=============================================================================
