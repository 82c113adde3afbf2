------------------------------ MODULE SfsFile ------------------------------
(***************************************************************************)
(* Regular files of the simple file system (kern/fs/sfs/sfs_inode.c) under *)
(* the file descriptors that use them (kern/fs/file.c, kern/fs/vfs).       *)
(*                                                                         *)
(* A file system call runs with interrupts off on the only CPU, and the    *)
(* RAM disk never sleeps, so calls do not interleave: `op' is the call in  *)
(* progress, and a call that loops over the blocks of a file takes one     *)
(* step per block.  Calls of different descriptors follow each other in    *)
(* any order.  The inodes, the superblock and the freemap have blocks of   *)
(* their own on the disk; 1..NBLK are the others.                          *)
(*                                                                         *)
(* The contents of data blocks are left out.  The descriptors are O_RDWR.  *)
(* A failed assertion or a panic stops the kernel: `panic' says which.     *)
(***************************************************************************)
EXTENDS Integers, FiniteSets, Functions

CONSTANTS
    Inodes,             \* the files on the disk
    Fds,                \* the struct file entries of all processes
    NBLK,               \* blocks of the disk for data and indirect blocks
    SFS_BLKSIZE,        \* bytes in a block
    SFS_NDIRECT,        \* direct blocks of an inode
    SFS_BLK_NENTRY,     \* entries of the indirect block
    SFS_MAX_FILE_SIZE,
    MAX_INODE_COUNT,    \* inode_check's limit on reference counts
    Lens,               \* lengths of a read or a write: one I/O buffer at most
    Seeks,              \* positions given to file_seek
    TruncShared,        \* whether a file that is open is opened with O_TRUNC
    MaxLeaked           \* bound: references to files without a descriptor

ASSUME SfsFileAssumption ==
    /\ IsFiniteSet(Fds)
    /\ NBLK \in Nat /\ SFS_NDIRECT \in Nat /\ SFS_BLK_NENTRY \in Nat
    /\ SFS_BLKSIZE \in Nat \ {0}
    /\ SFS_MAX_FILE_SIZE \in Nat
    /\ MAX_INODE_COUNT \in Nat
    /\ Lens \subseteq Nat \ {0}
    /\ Seeks \subseteq Nat
    /\ TruncShared \in BOOLEAN
    /\ MaxLeaked \in Nat

VARIABLES
    din,        \* the inodes in memory (struct sfs_inode, field din)
    dirty,      \* ... and field dirty
    ddin,       \* the inodes on the disk
    entries,    \* the contents of each file's indirect block, always on disk
    free,       \* the freemap: blocks not in use
    unused,     \* super.unused_blocks
    ref,        \* ref_count of each inode; 0: not in memory
    open,       \* open_count of each inode
    fd,         \* the open files: inode and position
    op,         \* the call in progress
    cut,        \* history: files whose last resizing stopped on a full disk
    panic       \* the assertion that failed, or "none"

fileVars == <<din, dirty, entries, free, unused>>   \* one file's blocks
vfsVars == <<ddin, ref, open, cut>>                 \* inodes as the VFS sees them
vars == <<din, dirty, ddin, entries, free, unused, ref, open, cut, fd, op, panic>>

Blocks == 1 .. NBLK
BlkNo == 0 .. NBLK                  \* 0: no block
Directs == 0 .. SFS_NDIRECT - 1
Entries == 0 .. SFS_BLK_NENTRY - 1

NoFile == [used |-> FALSE]
Idle == [kind |-> "idle"]

Empty ==
    [size |-> 0, blocks |-> 0, direct |-> [k \in Directs |-> 0], indirect |-> 0]

NoEntries == [k \in Entries |-> 0]

----------------------------------------------------------------------------
(* Blocks of a file *)

\* The block at a logical index: a direct block, or an entry of the
\* indirect block when there is one.
Mapped(i, x) ==
    IF x < SFS_NDIRECT THEN din[i].direct[x] ELSE entries[i][x - SFS_NDIRECT]

\* bitmap_alloc takes the free block with the lowest number.
Lowest(S) == CHOOSE b \in S : \A c \in S : b <= c

\* How many blocks sfs_bmap_get_nolock allocates to map index x: none for an
\* index that is mapped, and one more when the indirect block is missing.
Needed(i, x) ==
    IF x < din[i].blocks \/ Mapped(i, x) # 0 THEN 0
    ELSE IF x >= SFS_NDIRECT /\ din[i].indirect = 0 THEN 2 ELSE 1

\* The assertion of sfs_bmap_load_nolock, or of a function it calls, that
\* fails for index x.
LoadPanic(i, x) ==
    IF x > din[i].blocks THEN "index"
    ELSE IF x >= SFS_NDIRECT + SFS_BLK_NENTRY THEN "range"
    ELSE IF Mapped(i, x) = 0 /\ x < din[i].blocks THEN "inuse"
    ELSE IF Mapped(i, x) # 0 /\ Mapped(i, x) \in free THEN "inuse"
    ELSE IF /\ unused < Needed(i, x)
            /\ unused < Cardinality(free) THEN "unused"
    ELSE "none"

\* The disk is full: an indirect block allocated first is given back.
LoadFails(i, x) == Needed(i, x) > Cardinality(free)

\* The effect of a load that succeeds.  The block at the end of the file is
\* created.  A new direct block or a new indirect block makes the inode
\* dirty; a new entry of an indirect block that exists does not.
LoadBlock(i, x) ==
    LET n == Needed(i, x)
        ent == Lowest(free)
        blk == IF n = 2 THEN Lowest(free \ {ent}) ELSE ent
    IN  /\ din' = [din EXCEPT
             ![i].blocks = IF x = @ THEN @ + 1 ELSE @,
             ![i].direct = IF n = 1 /\ x < SFS_NDIRECT
                           THEN [@ EXCEPT ![x] = blk] ELSE @,
             ![i].indirect = IF n = 2 THEN ent ELSE @]
        /\ dirty' = [dirty EXCEPT
             ![i] = @ \/ n = 2 \/ (n = 1 /\ x < SFS_NDIRECT)]
        /\ entries' = [entries EXCEPT
             ![i] = IF n > 0 /\ x >= SFS_NDIRECT
                    THEN [@ EXCEPT ![x - SFS_NDIRECT] = blk] ELSE @]
        /\ free' = free \ (IF n = 0 THEN {} ELSE IF n = 1 THEN {blk} ELSE {ent, blk})
        /\ unused' = unused - n

\* sfs_bmap_truncate_nolock: the last block of the file is given back.  The
\* indirect block stays, even when its entries are all zero.
FreeLast(i) ==
    LET x == din[i].blocks - 1
        blk == Mapped(i, x)
    IN  /\ din' = [din EXCEPT
             ![i].blocks = x,
             ![i].direct = IF x < SFS_NDIRECT THEN [@ EXCEPT ![x] = 0] ELSE @]
        /\ dirty' = [dirty EXCEPT ![i] = TRUE]
        /\ entries' = [entries EXCEPT
             ![i] = IF x >= SFS_NDIRECT
                    THEN [@ EXCEPT ![x - SFS_NDIRECT] = 0] ELSE @]
        /\ free' = IF blk = 0 THEN free ELSE free \union {blk}
        /\ unused' = IF blk = 0 THEN unused ELSE unused + 1

----------------------------------------------------------------------------
(* Inodes in memory *)

Stop(why) ==
    /\ panic' = why
    /\ UNCHANGED <<fileVars, vfsVars, fd, op>>

\* inode_check, run by every vop_* call on the inode.
CheckFails(i) == ref[i] >= MAX_INODE_COUNT

\* Faulty variant: the inode is read again although it is in memory.
LoadInode_Again(i) ==
    /\ ref' = [ref EXCEPT ![i] = @ + 1]
    /\ din' = [din EXCEPT ![i] = ddin[i]]
    /\ dirty' = [dirty EXCEPT ![i] = FALSE]

\* sfs_load_inode: one more reference; the inode is read from the disk
\* unless it is in memory.
LoadInode(i) ==
    /\ ref' = [ref EXCEPT ![i] = @ + 1]
    /\ IF ref[i] = 0
       THEN /\ din' = [din EXCEPT ![i] = ddin[i]]
            /\ dirty' = [dirty EXCEPT ![i] = FALSE]
       ELSE UNCHANGED <<din, dirty>>

\* Faulty variant: the inode is marked clean and not written.
Sync_NoWrite(i) ==
    /\ ddin' = ddin
    /\ dirty' = [dirty EXCEPT ![i] = FALSE]

\* sfs_fsync
Sync(i) ==
    /\ ddin' = IF dirty[i] THEN [ddin EXCEPT ![i] = din[i]] ELSE ddin
    /\ dirty' = [dirty EXCEPT ![i] = FALSE]

\* Faulty variant: the division rounds down.
RoundUpDiv_Down(n, m) == n \div m

RoundUpDiv(n, m) == (n + m - 1) \div m

\* sfs_truncfile, entered with a length the file does not have.
TruncOp(f, i, len, caller) ==
    [kind |-> "trunc", fd |-> f, ino |-> i, len |-> len, caller |-> caller]

----------------------------------------------------------------------------
(* Calls *)

\* A call starts when none is in progress; a kernel that has panicked takes no
\* step.
Ready == op = Idle /\ panic = "none"
Doing(kind) == op.kind = kind /\ panic = "none"

\* file_open of an existing file.  With O_TRUNC or O_CREAT (trunc) the file
\* is cut to length 0 and the call goes on: sfs_truncfile asserts that a file
\* which has that length already has no blocks.  O_APPEND starts at the end.
Open(f, i, trunc, append) ==
    /\ Ready /\ fd[f] = NoFile
    /\ trunc => TruncShared \/ open[i] = 0
    /\ IF ref[i] + 1 >= MAX_INODE_COUNT
       THEN Stop("ref_count")
       ELSE /\ LoadInode(i)
            /\ open' = [open EXCEPT ![i] = @ + 1]
            /\ IF trunc /\ din'[i].size # 0
               THEN /\ op' = TruncOp(f, i, 0, "open")
                    /\ UNCHANGED <<fd, panic>>
               ELSE /\ fd' = [fd EXCEPT ![f] =
                         [used |-> TRUE, ino |-> i,
                          pos |-> IF append THEN din'[i].size ELSE 0]]
                    /\ panic' = IF trunc /\ din'[i].blocks # 0
                                THEN "size" ELSE panic
                    /\ UNCHANGED op
            /\ UNCHANGED <<ddin, entries, free, unused, cut>>

Leaked == FoldFunction(+, 0, [i \in Inodes |-> ref[i] - open[i]])

\* file_open with O_CREAT and O_EXCL of a file that exists: vfs_open returns
\* -E_EXISTS and keeps the reference that vfs_lookup took.
OpenExcl(i) ==
    /\ Ready /\ Leaked < MaxLeaked
    /\ LoadInode(i)
    /\ UNCHANGED <<ddin, entries, free, unused, open, cut, fd, op, panic>>

\* file_dup, and the copy of the open files in fork: fd_array_dup.
Dup(f, g) ==
    /\ Ready /\ fd[f] # NoFile /\ fd[g] = NoFile
    /\ fd' = [fd EXCEPT ![g] = fd[f]]
    /\ ref' = [ref EXCEPT ![fd[f].ino] = @ + 1]
    /\ open' = [open EXCEPT ![fd[f].ino] = @ + 1]
    /\ UNCHANGED <<fileVars, ddin, cut, op, panic>>

\* file_close: vfs_close.  The last close writes the inode back; the last
\* reference takes it out of memory (sfs_reclaim), written back as well.
Close(f) ==
    /\ Ready /\ fd[f] # NoFile
    /\ LET i == fd[f].ino
       IN  IF CheckFails(i) /\ open[i] = 1
           THEN Stop("ref_count")
           ELSE /\ fd' = [fd EXCEPT ![f] = NoFile]
                /\ open' = [open EXCEPT ![i] = @ - 1]
                /\ ref' = [ref EXCEPT ![i] = @ - 1]
                /\ IF open[i] = 1 THEN Sync(i) ELSE UNCHANGED <<ddin, dirty>>
                /\ din' = IF ref[i] = 1 THEN [din EXCEPT ![i] = Empty] ELSE din
                /\ UNCHANGED <<entries, free, unused, cut, op, panic>>

\* file_fsync
Fsync(f) ==
    /\ Ready /\ fd[f] # NoFile
    /\ IF CheckFails(fd[f].ino)
       THEN Stop("ref_count")
       ELSE /\ Sync(fd[f].ino)
            /\ UNCHANGED <<din, entries, free, unused, ref, open, cut, fd, op, panic>>

\* file_seek: sfs_tryseek extends a file that is shorter than the position.
Seek(f, pos) ==
    /\ Ready /\ fd[f] # NoFile
    /\ pos < SFS_MAX_FILE_SIZE
    /\ LET i == fd[f].ino
       IN  IF CheckFails(i)
           THEN Stop("ref_count")
           ELSE IF pos > din[i].size
           THEN /\ op' = TruncOp(f, i, pos, "seek")
                /\ UNCHANGED <<fileVars, vfsVars, fd, panic>>
           ELSE /\ fd' = [fd EXCEPT ![f].pos = pos]
                /\ UNCHANGED <<fileVars, vfsVars, op, panic>>

\* The end of a resizing: an open hands out the descriptor, a seek that
\* succeeded moves the position.
TruncReturn(ok) ==
    /\ op' = Idle
    /\ fd' = IF ~ok THEN fd
             ELSE [fd EXCEPT ![op.fd] =
                    [used |-> TRUE, ino |-> op.ino, pos |-> op.len]]

\* sfs_truncfile, the loop that adds blocks: it gives up when the disk is
\* full, and the blocks added so far stay.
TruncGrow ==
    /\ Doing("trunc")
    /\ LET i == op.ino
           x == din[op.ino].blocks
       IN  /\ x < RoundUpDiv(op.len, SFS_BLKSIZE)
           /\ IF LoadPanic(i, x) # "none"
              THEN Stop(LoadPanic(i, x))
              ELSE IF LoadFails(i, x)
              THEN /\ TruncReturn(FALSE)
                   /\ cut' = cut \union {i}
                   /\ UNCHANGED <<fileVars, ddin, ref, open, panic>>
              ELSE /\ LoadBlock(i, x)
                   /\ UNCHANGED <<vfsVars, fd, op, panic>>

\* sfs_truncfile, the loop that drops blocks.  sfs_block_free asserts that
\* the block is in use.
TruncShrink ==
    /\ Doing("trunc")
    /\ LET i == op.ino
       IN  /\ din[i].blocks > RoundUpDiv(op.len, SFS_BLKSIZE)
           /\ IF Mapped(i, din[i].blocks - 1) \in free
              THEN Stop("inuse")
              ELSE /\ FreeLast(i)
                   /\ UNCHANGED <<vfsVars, fd, op, panic>>

\* sfs_truncfile, the end: the length is recorded.
TruncDone ==
    /\ Doing("trunc")
    /\ din[op.ino].blocks = RoundUpDiv(op.len, SFS_BLKSIZE)
    /\ din' = [din EXCEPT ![op.ino].size = op.len]
    /\ dirty' = [dirty EXCEPT ![op.ino] = TRUE]
    /\ cut' = cut \ {op.ino}
    /\ TruncReturn(TRUE)
    /\ UNCHANGED <<ddin, entries, free, unused, ref, open, panic>>

----------------------------------------------------------------------------
(* Reading and writing: sfs_io_nolock *)

Least(a, b) == IF a < b THEN a ELSE b

\* Faulty variant: a read is not cut at the end of the file.
EndPos_NoCut(i, offset, len, write) == Least(offset + len, SFS_MAX_FILE_SIZE)

\* The end of the transfer: reads stop at the end of the file.
EndPos(i, offset, len, write) ==
    LET end == Least(offset + len, SFS_MAX_FILE_SIZE)
    IN  IF write THEN end ELSE Least(end, din[i].size)

\* file_read or file_write with a buffer of len bytes: the part of
\* sfs_io_nolock before the transfers.  A position out of range and a read at
\* the end of the file transfer nothing.
StartIo(f, len, write) ==
    /\ Ready /\ fd[f] # NoFile
    /\ LET i == fd[f].ino
           offset == fd[f].pos
           end == EndPos(i, offset, len, write)
       IN  IF CheckFails(i)
           THEN Stop("ref_count")
           ELSE /\ offset < SFS_MAX_FILE_SIZE
                /\ write \/ offset < din[i].size
                /\ op' = [kind |-> "io", fd |-> f, ino |-> i, write |-> write,
                          offset |-> offset, end |-> end, pos |-> offset,
                          blkno |-> offset \div SFS_BLKSIZE,
                          nblks |-> (end \div SFS_BLKSIZE) - (offset \div SFS_BLKSIZE),
                          at |-> IF offset % SFS_BLKSIZE # 0 THEN "head" ELSE "body"]
                /\ UNCHANGED <<fileVars, vfsVars, fd, panic>>

\* One transfer of n bytes in block op.blkno: the block is loaded, and the
\* transfer goes on as `next', or stops with what it has done.
Transfer(n, next) ==
    LET i == op.ino
        x == op.blkno
    IN  IF LoadPanic(i, x) # "none"
        THEN Stop(LoadPanic(i, x))
        ELSE IF LoadFails(i, x)
        THEN /\ op' = [op EXCEPT !.at = "out"]
             /\ UNCHANGED <<fileVars, vfsVars, fd, panic>>
        ELSE /\ LoadBlock(i, x)
             /\ op' = [next EXCEPT !.pos = @ + n, !.blkno = @ + 1]
             /\ UNCHANGED <<vfsVars, fd, panic>>

\* Faulty variant: always up to the end of the block.
HeadSize_Block == SFS_BLKSIZE - (op.offset % SFS_BLKSIZE)

HeadSize ==
    IF op.nblks # 0 THEN SFS_BLKSIZE - (op.offset % SFS_BLKSIZE)
    ELSE op.end - op.offset

\* The part of the first block when the offset is not aligned.
IoHead ==
    /\ Doing("io") /\ op.at = "head"
    /\ Transfer(HeadSize, [op EXCEPT !.at = "body",
                                     !.nblks = IF @ # 0 THEN @ - 1 ELSE @])

\* The loop over aligned blocks.
IoBlock ==
    /\ Doing("io") /\ op.at = "body" /\ op.nblks > 0
    /\ Transfer(SFS_BLKSIZE, [op EXCEPT !.nblks = @ - 1])

\* The part of the last block when the end is not aligned.
IoTail ==
    /\ Doing("io") /\ op.at = "body" /\ op.nblks = 0
    /\ op.pos < op.end
    /\ Transfer(op.end - op.pos, [op EXCEPT !.at = "out"])

\* The label `out' and the return to file_read or file_write: the file grows
\* to what was written, and the position moves on.
IoOut ==
    /\ Doing("io")
    /\ op.at = "out" \/ (op.at = "body" /\ op.nblks = 0 /\ op.pos >= op.end)
    /\ IF op.pos > din[op.ino].size
       THEN /\ din' = [din EXCEPT ![op.ino].size = op.pos]
            /\ dirty' = [dirty EXCEPT ![op.ino] = TRUE]
       ELSE UNCHANGED <<din, dirty>>
    /\ fd' = [fd EXCEPT ![op.fd].pos = @ + (op.pos - op.offset)]
    /\ op' = Idle
    /\ UNCHANGED <<ddin, entries, free, unused, ref, open, cut, panic>>

----------------------------------------------------------------------------
Init ==
    /\ din = [i \in Inodes |-> Empty]
    /\ dirty = [i \in Inodes |-> FALSE]
    /\ ddin = [i \in Inodes |-> Empty]
    /\ entries = [i \in Inodes |-> NoEntries]
    /\ free = Blocks
    /\ unused = NBLK
    /\ ref = [i \in Inodes |-> 0]
    /\ open = [i \in Inodes |-> 0]
    /\ fd = [f \in Fds |-> NoFile]
    /\ op = Idle
    /\ cut = {}
    /\ panic = "none"

Next ==
    \/ \E f \in Fds, i \in Inodes, trunc, append \in BOOLEAN : Open(f, i, trunc, append)
    \/ \E i \in Inodes : OpenExcl(i)
    \/ \E f, g \in Fds : Dup(f, g)
    \/ \E f \in Fds : Close(f)
    \/ \E f \in Fds : Fsync(f)
    \/ \E f \in Fds, pos \in Seeks : Seek(f, pos)
    \/ \E f \in Fds, len \in Lens, write \in BOOLEAN : StartIo(f, len, write)
    \/ TruncGrow \/ TruncShrink \/ TruncDone
    \/ IoHead \/ IoBlock \/ IoTail \/ IoOut

Spec == Init /\ [][Next]_vars

----------------------------------------------------------------------------
(* Properties *)

Count(i) == Cardinality({f \in Fds : fd[f] # NoFile /\ fd[f].ino = i})

\* The inode as the kernel would find it: in memory, or on the disk.
Inode(i) == IF ref[i] > 0 THEN din[i] ELSE ddin[i]

DiskInode ==
    [size : Nat, blocks : Nat, direct : [Directs -> BlkNo], indirect : BlkNo]

File == {NoFile} \union [used : {TRUE}, ino : Inodes, pos : Nat]

Op ==
    {Idle}
    \union [kind : {"trunc"}, fd : Fds, ino : Inodes, len : Nat,
            caller : {"open", "seek"}]
    \union [kind : {"io"}, fd : Fds, ino : Inodes, write : BOOLEAN,
            offset : Nat, end : Nat, pos : Nat, blkno : Nat, nblks : Nat,
            at : {"head", "body", "out"}]

TypeOK ==
    /\ din \in [Inodes -> DiskInode]
    /\ dirty \in [Inodes -> BOOLEAN]
    /\ ddin \in [Inodes -> DiskInode]
    /\ entries \in [Inodes -> [Entries -> BlkNo]]
    /\ free \subseteq Blocks
    /\ unused \in Nat
    /\ ref \in [Inodes -> Nat]
    /\ open \in [Inodes -> Nat]
    /\ fd \in [Fds -> File]
    /\ op \in Op
    /\ cut \subseteq Inodes
    /\ panic \in {"none", "index", "range", "inuse", "unused", "size", "ref_count"}

\* The places of the disk structures that name a block.
Places ==
    {<<i, "direct", k>> : i \in Inodes, k \in Directs}
    \union {<<i, "indirect", 0>> : i \in Inodes}
    \union {<<i, "entry", k>> : i \in Inodes, k \in Entries}

BlockAt(p) ==
    IF p[2] = "direct" THEN Inode(p[1]).direct[p[3]]
    ELSE IF p[2] = "indirect" THEN Inode(p[1]).indirect
    ELSE entries[p[1]][p[3]]

\* Over any sequence of calls, full disks and lost in-memory inodes included,
\* each block of the disk is either free in the freemap or named by exactly
\* one direct pointer, indirect pointer or indirect entry: no block belongs
\* to two files, none is freed while in use, none is leaked; and the
\* superblock counts the free ones (sfs_block_alloc, sfs_block_free).
BlocksOK ==
    /\ \A b \in Blocks :
          Cardinality({p \in Places : BlockAt(p) = b}) = (IF b \in free THEN 0 ELSE 1)
    /\ unused = Cardinality(free)

\* Every block below din->blocks is mapped.  Between calls a file has the blocks
\* its size needs and no more: sfs_io_nolock and sfs_truncfile keep the two in
\* step also when the disk fills up in the middle of a call, and when the inode
\* goes to the disk and back.  The exception is a file that file_seek could not
\* extend as far as it was asked to, and that has not been resized since: what
\* sfs_truncfile added before it failed stays, and the file has blocks to spare.
SizeOK ==
    \A i \in Inodes :
       LET node == Inode(i)
       IN  /\ \/ node.size <= node.blocks * SFS_BLKSIZE
              \/ op.kind = "trunc" /\ op.ino = i
           /\ \/ node.blocks * SFS_BLKSIZE < node.size + SFS_BLKSIZE
              \/ op.kind # "idle" /\ op.ino = i
              \/ i \in cut
           /\ \A x \in 0 .. node.blocks - 1 :
                 BlockAt(IF x < SFS_NDIRECT THEN <<i, "direct", x>>
                         ELSE <<i, "entry", x - SFS_NDIRECT>>) # 0

\* The assertions on a file's blocks.  Those of the block layer never fail: no
\* index beyond the end by more than one (sfs_bmap_load_nolock), sfs_block_inuse
\* on every block that is loaded or freed, sfs_block_alloc on the count of unused
\* blocks, and the range check of sfs_bmap_get_nolock on a disk smaller than a
\* largest file.  The one of sfs_truncfile that a file of the wanted size has the
\* blocks of that size (sfs_inode.c:959) fails, and then for an empty file with
\* blocks, which a resizing that stopped on a full disk has left that way.
AssertsOK ==
    /\ panic \notin {"index", "inuse", "unused", "range"}
    /\ panic = "size" => \E i \in cut : din[i].size = 0 /\ din[i].blocks > 0

\* Size and blocks of every file agree unless its last resizing stopped on a full
\* disk, and of the assertions about its blocks only sfs_truncfile's can fail,
\* for such a file.
FileOK == TypeOK /\ SizeOK /\ AssertsOK

\* The assertion of sfs_truncfile when the file has the wanted size already
\* (`assert(tblks == din->blocks)', sfs_inode.c:959).
TruncAssertOK == panic # "size"

\* The assertion of sfs_bmap_load_nolock that a file is extended by one block at
\* a time (`assert(index <= din->blocks)', sfs_inode.c:356), also when a file is
\* cut by one open while another descriptor has a position in it.
IndexAssertOK == panic # "index"

\* A transfer covers exactly the bytes it should: when a piece is about to be
\* moved, its block is the one that holds position pos, aligned but for the
\* head; no piece passes the end; and an aligned body and a tail shorter than
\* a block are left (sfs_io_nolock's blkno, nblks and size).
TransferOK ==
    op.kind = "io" =>
       /\ op.offset <= op.pos /\ op.pos <= op.end
       /\ op.at = "head" => /\ op.blkno = op.pos \div SFS_BLKSIZE
                            /\ op.pos + HeadSize <= op.end
       /\ op.at = "body" /\ op.pos < op.end =>
             /\ op.blkno * SFS_BLKSIZE = op.pos
             /\ op.end - op.pos >= op.nblks * SFS_BLKSIZE
             /\ op.end - op.pos < (op.nblks + 1) * SFS_BLKSIZE

\* Reading never allocates a block nor changes an inode, although
\* sfs_io_nolock loads blocks with the function that creates them: that rests
\* on the size never exceeding the blocks, across all other calls.
ReadKeepsFile ==
    [][op.kind = "io" /\ ~op.write => UNCHANGED fileVars]_vars

\* What an inode that is not dirty loses when it leaves memory: nothing of its
\* size, its direct blocks and its indirect block.  (Its count of blocks may be
\* lost: a block added through an existing indirect block does not set dirty.)
NothingLost ==
    \A i \in Inodes : ref[i] > 0 /\ ~dirty[i] =>
       /\ din[i].size = ddin[i].size
       /\ din[i].direct = ddin[i].direct
       /\ din[i].indirect = ddin[i].indirect

\* The open count of an inode is the number of descriptors on it (and the one
\* being opened), and the references cover it (the assertion of inode_check):
\* no sequence of opens, failed opens, dups and closes frees an inode that a
\* descriptor uses.
CountsOK ==
    \A i \in Inodes :
       /\ ref[i] >= open[i]
       /\ open[i] = Count(i) + (IF /\ op.kind = "trunc" /\ op.caller = "open"
                                   /\ op.ino = i THEN 1 ELSE 0)

\* An inode in memory stays as long as somebody uses it, and takes nothing
\* with it when it goes.
InodeOK == NothingLost /\ CountsOK

=============================================================================
