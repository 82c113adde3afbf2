CONSTANTS
    Inodes = {i1, i2}
    Fds = {f1, f2}
    NBLK = 3
    SFS_BLKSIZE = 3
    SFS_NDIRECT = 1
    SFS_BLK_NENTRY = 2
    SFS_MAX_FILE_SIZE = 8
    MAX_INODE_COUNT = 6
    Lens = {4}
    Seeks = {1, 4}
    TruncShared = FALSE
    MaxLeaked = 1
SPECIFICATION Spec
INVARIANTS BlocksOK FileOK TransferOK InodeOK
SYMMETRY Symmetry
CHECK_DEADLOCK FALSE
PROPERTY ReadKeepsFile
