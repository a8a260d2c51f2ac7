\* Two or three files open at once, reads of 0, 1 and 3 bytes.
CONSTANTS
    dot = dot
    rtc = rtc
    empty = empty
    short = short
    even = even
    missing = missing
    FDT_SIZE = 5
    BLOCK_SIZE = 2
    dir_entries <- MCEntries
    inodes <- MCInodes
    data_blocks <- MCBlocks
    Names <- MCNames
    RtcNames <- MCRtcNames
    ReadSizes <- MCSizes
SPECIFICATION Spec
INVARIANTS TypeOK ReadsInOrder ZeroMeansEnd
PROPERTY DescriptorsStable
